------------------------------- MODULE V2Node -------------------------------
(***************************************************************************)
(* Nodes of an isolated v2 network (protocol_v2_consensus.py): each keeps  *)
(* every valid block in memory with the state after it, copies accepted    *)
(* blocks to SQLite, replays them when it starts, and fetches the chains   *)
(* of other nodes.  One thread changes a node; the threads that serve its  *)
(* chain to others read it at any time.  Accepting a block in memory and   *)
(* writing it to disk are two steps, between which others may look, the    *)
(* write may fail and the process may die.                                 *)
(*                                                                         *)
(* All nodes have one manifest, so handshakes agree.  A hash stands for    *)
(* its block: Block[h] is the content, made by some miner, valid or not.   *)
(***************************************************************************)
EXTENDS Integers, Sequences, FiniteSets, Functions

CONSTANTS
    Nodes,
    FlakyDisk,      \* the nodes whose writes may fail (disk full, locked file)
    Hash,           \* block hashes, ordered as their hex strings are
    Genesis,        \* manifest.genesis_hash
    Block,          \* Block[h]: the content hashed into h
    Transfer,       \* Transfer[t]: the content hashed into transaction id t
    Allocations,    \* the outpoints of genesis_state_v2
    Coin,           \* Coin[op]: recipient and amount of an outpoint
    MaxSupply,
    MaxUTXOs,       \* MAX_STATE_UTXOS
    BlockWork       \* 2 ** difficulty_bits

ASSUME V2NodeAssumption ==
    /\ FlakyDisk \subseteq Nodes
    /\ Genesis \in Hash /\ Hash \subseteq Nat
    /\ BlockWork \in Nat \ {0}
    /\ MaxUTXOs \in Nat /\ Cardinality(Allocations) <= MaxUTXOs

VARIABLES
    known,  \* known[n]: hash -> row (the dicts blocks, states, branch_txids, work)
    tip,    \* tip_hash
    disk,   \* v2_blocks table: hashes of the stored blocks
    job     \* what the thread that changes the node is doing

vars == <<known, tip, disk, job>>

(***************************************************************************)
(* Transfers.                                                              *)
(***************************************************************************)
Spent(t) == {Transfer[t].ins[i].coin : i \in DOMAIN Transfer[t].ins}
Created(t) == {<<t, i>> : i \in DOMAIN Transfer[t].outs}
Amounts == [op \in DOMAIN Coin |-> Coin[op].amount]
Fees == [t \in DOMAIN Transfer |-> Transfer[t].fee]
Value(ops) == SumFunctionOnSet(Amounts, ops)

\* What the schema of a transfer makes sure of, and genesis_state_v2: the allocations
\* sum up to the supply of the manifest.
ASSUME TransferAssumption ==
    /\ \A op \in DOMAIN Coin : Coin[op].amount \in Nat
    /\ \A t \in DOMAIN Transfer :
          /\ IsFiniteSet(DOMAIN Transfer[t].ins) /\ IsFiniteSet(DOMAIN Transfer[t].outs)
          /\ Created(t) \subseteq DOMAIN Coin /\ Transfer[t].fee \in Nat
    /\ \A h \in Hash : Block[h].txs \in Seq(DOMAIN Transfer)
    /\ IsFiniteSet(Allocations) /\ Allocations \subseteq DOMAIN Coin
    /\ Value(Allocations) = MaxSupply

\* A slip for the mutants: value may be left over.
CoversOutputs(t) == Value(Spent(t)) >= Value(Created(t)) + Transfer[t].fee

\* transfer input value must equal outputs plus burned fee
Balanced(t) == Value(Spent(t)) = Value(Created(t)) + Transfer[t].fee

\* The checks of _validate_transaction_with_owners_v2 and apply_transfer_v2.
Applicable(t, utxos) ==
    LET ins == Transfer[t].ins
    IN  /\ ins # <<>> /\ Transfer[t].outs # <<>>
        /\ \A i, j \in DOMAIN ins : ins[i].coin = ins[j].coin => i = j
        /\ \A i \in DOMAIN ins : /\ ins[i].coin \in utxos
                                 /\ Coin[ins[i].coin].recipient = ins[i].owner
        /\ Balanced(t)
        /\ Created(t) \cap (utxos \ Spent(t)) = {}

Apply(t, utxos) == (utxos \ Spent(t)) \cup Created(t)

\* The states after each transaction of a block, on top of a parent's row.
StatesOf(row, txs) ==
    LET after[i \in 0..Len(txs)] ==
          IF i = 0 THEN row.utxos ELSE Apply(txs[i], after[i - 1])
    IN  after

(***************************************************************************)
(* Blocks.                                                                 *)
(***************************************************************************)
\* validate_state_utxos_v2: the state is small enough for a state root.
Few(utxos) == Cardinality(utxos) <= MaxUTXOs

GenesisRow == [utxos |-> Allocations, txids |-> {}, work |-> 0, height |-> 0]
GenesisOnly == [h \in {Genesis} |-> GenesisRow]

\* A slip for the mutants: the state of the tip instead of the parent's.
RowOnTip(n, h) ==
    LET parent == known[n][Block[h].prev]
        txs == Block[h].txs
    IN  [utxos  |-> StatesOf(known[n][tip[n]], txs)[Len(txs)],
         txids  |-> parent.txids \cup {txs[i] : i \in DOMAIN txs},
         work   |-> parent.work + BlockWork,
         height |-> Block[h].height]

\* What accept_block keeps with a block.
RowOf(n, h) ==
    LET parent == known[n][Block[h].prev]
        txs == Block[h].txs
    IN  [utxos  |-> StatesOf(parent, txs)[Len(txs)],
         txids  |-> parent.txids \cup {txs[i] : i \in DOMAIN txs},
         work   |-> parent.work + BlockWork,
         height |-> Block[h].height]

\* validate_block_context_v2: the height follows the parent's, and the rest of the
\* header is right (chain id, sizes, miner address, timestamp, proof of work).
HeaderOK(n, h) ==
    /\ Block[h].height = known[n][Block[h].prev].height + 1
    /\ Block[h].sound

\* accept_block raises nothing: the parent is known, every transaction applies
\* in order and is new on the branch, the supply is kept, the state after the last
\* transaction is small enough, and the header is right.
Acceptable(n, h) ==
    /\ h \in Hash \ {Genesis}
    /\ Block[h].prev \in DOMAIN known[n]
    /\ LET parent == known[n][Block[h].prev]
           txs == Block[h].txs
       IN  /\ \A i \in DOMAIN txs :
                 /\ txs[i] \notin parent.txids
                 /\ \A j \in 1..(i - 1) : txs[j] # txs[i]
                 /\ Applicable(txs[i], StatesOf(parent, txs)[i - 1])
           /\ Value(StatesOf(parent, txs)[Len(txs)]) <= MaxSupply
           /\ Few(StatesOf(parent, txs)[Len(txs)])
    /\ HeaderOK(n, h)

\* A slip for the mutants: a tie leaves the tip alone.
WinsWhenHeavier(rows, h, g) == rows[h].work > rows[g].work

\* _wins_over_tip
WinsOverTip(rows, h, g) ==
    \/ rows[h].work > rows[g].work
    \/ rows[h].work = rows[g].work /\ h < g

\* The dicts and the tip once h is accepted.
Remember(n, h) ==
    LET rows == [g \in DOMAIN known[n] \cup {h} |->
                   IF g = h THEN RowOf(n, h) ELSE known[n][g]]
    IN  /\ known' = [known EXCEPT ![n] = rows]
        /\ tip' = [tip EXCEPT ![n] = IF WinsOverTip(rows, h, @) THEN h ELSE @]

\* A slip for the mutants: the walk begins below the tip.
CanonicalBelowTip(n) ==
    LET length == known[n][tip[n]].height
        walk[i \in 0..length] == IF i = 0 THEN tip[n] ELSE Block[walk[i - 1]].prev
    IN  [i \in 1..(length - 1) |-> walk[length - i]]

\* canonical_blocks without the genesis block: from the tip down the links.
CanonicalBlocks(n) ==
    LET length == known[n][tip[n]].height
        walk[i \in 0..length] == IF i = 0 THEN tip[n] ELSE Block[walk[i - 1]].prev
    IN  [i \in 1..length |-> walk[length - i]]

(***************************************************************************)
(* Steps of the thread that changes a node.  A sync is accept_block for    *)
(* each block fetched; queue has the blocks still to come.                 *)
(***************************************************************************)
Down == [at |-> "down"]
Idle == [at |-> "idle"]
Syncing(queue, goal) == [at |-> "sync", queue |-> queue, goal |-> goal]
Storing(h, then) == [at |-> "store", block |-> h, then |-> then]
Replaying(todo) == [at |-> "replay", todo |-> todo]
Goto(n, j) == job' = [job EXCEPT ![n] = j]
At(n, place) == job[n].at = place

Init ==
    /\ known = [n \in Nodes |-> GenesisOnly]
    /\ tip = [n \in Nodes |-> Genesis]
    /\ disk = [n \in Nodes |-> {}]
    /\ job = [n \in Nodes |-> Down]

\* accept_block of a block from anywhere, up to _store_block.  A block that is
\* refused or known changes nothing.
AcceptBlock(n, h) ==
    /\ At(n, "idle")
    /\ Acceptable(n, h) /\ h \notin DOMAIN known[n]
    /\ Remember(n, h)
    /\ Goto(n, Storing(h, Idle))
    /\ UNCHANGED disk

\* A slip for the mutants: only a block that became the tip is written.
StoreTip(n) ==
    /\ At(n, "store")
    /\ disk' = [disk EXCEPT ![n] = IF job[n].block = tip[n] THEN @ \cup {tip[n]} ELSE @]
    /\ Goto(n, job[n].then)
    /\ UNCHANGED <<known, tip>>

\* _store_block: INSERT OR IGNORE
StoreBlock(n) ==
    /\ At(n, "store")
    /\ disk' = [disk EXCEPT ![n] = @ \cup {job[n].block}]
    /\ Goto(n, job[n].then)
    /\ UNCHANGED <<known, tip>>

\* _store_block raises; the block stays in memory, and a sync ends.
StoreFails(n) ==
    /\ n \in FlakyDisk
    /\ At(n, "store")
    /\ Goto(n, Idle)
    /\ UNCHANGED <<known, tip, disk>>

\* sync_from, up to the reply: peer.canonical_blocks() as of now.
SyncFrom(n, peer) ==
    /\ At(n, "idle") /\ peer # n
    /\ ~At(peer, "down") /\ ~At(peer, "replay")
    /\ Goto(n, Syncing(CanonicalBlocks(peer), tip[peer]))
    /\ UNCHANGED <<known, tip, disk>>

\* The next block of the reply.
SyncNext(n) ==
    /\ At(n, "sync")
    /\ IF job[n].queue = <<>>
       THEN Goto(n, Idle) /\ UNCHANGED <<known, tip>>
       ELSE LET h == Head(job[n].queue)
                rest == Syncing(Tail(job[n].queue), job[n].goal)
            IN  IF ~Acceptable(n, h) THEN Goto(n, Idle) /\ UNCHANGED <<known, tip>>
                ELSE IF h \in DOMAIN known[n] THEN Goto(n, rest) /\ UNCHANGED <<known, tip>>
                ELSE Remember(n, h) /\ Goto(n, Storing(h, rest))
    /\ UNCHANGED disk

\* The process dies: what it had in memory is gone.
Crash(n) ==
    /\ ~At(n, "down")
    /\ known' = [known EXCEPT ![n] = GenesisOnly]
    /\ tip' = [tip EXCEPT ![n] = Genesis]
    /\ Goto(n, Down)
    /\ UNCHANGED disk

\* __init__: _initialize_genesis, then the rows of the table are read; an empty
\* table gets the genesis block.
Start(n) ==
    /\ At(n, "down")
    /\ disk' = [disk EXCEPT ![n] = @ \cup {Genesis}]
    /\ Goto(n, Replaying(disk[n] \ {Genesis}))
    /\ UNCHANGED <<known, tip>>

\* A slip for the mutants: the rows are replayed in the order they come.
LowestOfAny(todo) == todo

\* loaded.sort(key=height): rows of one height come in any order.
Lowest(todo) == {h \in todo : \A g \in todo : Block[h].height <= Block[g].height}

\* accept_block(item, persist=False); __init__ fails with the first row refused.
Replay(n) ==
    /\ At(n, "replay")
    /\ \/ job[n].todo = {} /\ Goto(n, Idle) /\ UNCHANGED <<known, tip>>
       \/ \E h \in Lowest(job[n].todo) :
             IF Acceptable(n, h)
             THEN Remember(n, h) /\ Goto(n, Replaying(job[n].todo \ {h}))
             ELSE /\ known' = [known EXCEPT ![n] = GenesisOnly]
                  /\ tip' = [tip EXCEPT ![n] = Genesis]
                  /\ Goto(n, Down)
    /\ UNCHANGED disk

Step(n) ==
    \/ \E h \in Hash : AcceptBlock(n, h)
    \/ StoreBlock(n) \/ StoreFails(n)
    \/ \E peer \in Nodes : SyncFrom(n, peer)
    \/ SyncNext(n)
    \/ Crash(n) \/ Start(n) \/ Replay(n)

Next == \E n \in Nodes : Step(n)

Spec == Init /\ [][Next]_vars

(***************************************************************************)
(* Properties.                                                             *)
(***************************************************************************)
Row == [utxos : SUBSET DOMAIN Coin, txids : SUBSET DOMAIN Transfer, work : Nat, height : Nat]
SyncJob == [at : {"sync"}, queue : Seq(Hash \ {Genesis}), goal : Hash]
Job == {Down, Idle} \cup SyncJob
         \cup [at : {"store"}, block : Hash, then : {Idle} \cup SyncJob]
         \cup [at : {"replay"}, todo : SUBSET Hash]

\* Memory, disk and the thread of each node keep their types; what a node serves
\* leaves the genesis block to be compared on its own.
TypeOK ==
    \A n \in Nodes :
        /\ Genesis \in DOMAIN known[n] /\ DOMAIN known[n] \subseteq Hash
        /\ \A h \in DOMAIN known[n] : known[n][h] \in Row
        /\ tip[n] \in Hash /\ disk[n] \subseteq Hash
        /\ job[n] \in Job

\* The tip is the best block in memory at every step, also in the middle of a sync
\* or of a replay: most work, then the smaller hash.  So nodes that have seen the
\* same blocks have the same tip, in whatever order the blocks came.
TipIsBest ==
    \A n \in Nodes :
        /\ tip[n] \in DOMAIN known[n]
        /\ \A h \in DOMAIN known[n] :
              LET work(g) == known[n][g].work
              IN  work(h) <= work(tip[n]) /\ (work(h) = work(tip[n]) => h >= tip[n])

\* Two nodes that have a block have the same state after it, whether it came from
\* a miner, a sync or the disk, and whatever branch was the node's tip then.
StatesAgree ==
    \A m, n \in Nodes : \A h \in DOMAIN known[m] \cap DOMAIN known[n] :
        known[m][h] = known[n][h]

\* Every block of a chain that a serving thread hands out is accepted by the node that
\* fetched it, though both nodes move on meanwhile; and a node that has finished a sync
\* is not behind the chain it fetched.
SyncCatchesUp ==
    \A n \in Nodes : At(n, "sync") =>
        IF job[n].queue # <<>> THEN Acceptable(n, Head(job[n].queue))
        ELSE /\ job[n].goal \in DOMAIN known[n]
             /\ ~WinsOverTip(known[n], job[n].goal, tip[n])

\* Where writes succeed, memory and disk agree whenever a node is not writing,
\* whatever crashes and restarts came before.
Durable ==
    \A n \in Nodes \ FlakyDisk :
        At(n, "idle") \/ At(n, "sync") => DOMAIN known[n] = disk[n]

\* Where writes succeed, a node can start again: no row is refused in the order
\* of the replay.
RestartSucceeds ==
    \A n \in Nodes \ FlakyDisk :
        At(n, "replay") => \A h \in Lowest(job[n].todo) : Acceptable(n, h)

\* On every branch the coins and the fees of the branch add up to the supply:
\* fees are burned and nothing else is lost.
FeesBurned ==
    \A n \in Nodes : \A h \in DOMAIN known[n] :
        Value(known[n][h].utxos) + SumFunctionOnSet(Fees, known[n][h].txids) = MaxSupply
=============================================================================
