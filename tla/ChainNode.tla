----------------------------- MODULE ChainNode -----------------------------
(***************************************************************************)
(* One QBC node: the SQLite tables of storage.py and the handlers of       *)
(* service.py that change them.  The HTTP server runs every request in a   *)
(* thread of its own and NodeService takes no lock, so a handler is cut    *)
(* here between the SQLite connections it opens, and the steps of several  *)
(* threads interleave.  A transaction that writes is one step.  Rows of    *)
(* the blocks table never change (but for the canonical flag), so reads of *)
(* them are merged with the step that uses the result; reads of mutable    *)
(* tables that follow each other directly are merged where a comment says  *)
(* so.                                                                     *)
(***************************************************************************)
EXTENDS Ledger, SequencesExt

CONSTANTS
    Threads,        \* request handler threads (and CLI processes)
    Hash,           \* block hashes, ordered as their hex strings are
    GenesisTx,      \* the allocation create_genesis_block makes
    GenesisHash,    \* the hash of that (deterministic) genesis block
    Submittable,    \* transactions clients and peers submit
    GenesisWork, BlockWork,         \* 16 ** 1 and 16 ** difficulty
    MaxPending, MaxPerBlock, MinFee,
    MaxPeerTxs,     \* bound: transactions in a peer's block, the reward included
    PeerBlocks,     \* do blocks arrive from peers?
    PeerGenesis,    \* do they include genesis blocks of the peer's own making?
    Reviews,        \* do operators change the status of migration sources?
    Crashes         \* does the process die and restart?

NoBlock == 0

ASSUME ChainNodeAssumption ==
    /\ Hash \subseteq Nat \ {NoBlock}
    /\ GenesisTx \in Tx /\ GenesisHash \in Hash
    /\ Submittable \subseteq Tx
    /\ GenesisWork \in Nat \ {0} /\ BlockWork \in Nat \ {0}
    /\ MaxPending \in Nat /\ MaxPerBlock \in Nat /\ MaxPeerTxs \in Nat
    /\ PeerBlocks \in BOOLEAN /\ PeerGenesis \in BOOLEAN /\ Reviews \in BOOLEAN /\ Crashes \in BOOLEAN

\* No branch is higher than there are hashes.
ASSUME SubsidyAssumption == IsFiniteSet(Hash) /\ \A n \in 0..Cardinality(Hash) : Subsidy(n) \in Int

VARIABLES
    blocks,     \* blocks table: hash -> row
    canonical,  \* the hashes flagged canonical
    utxos,      \* utxos table: the unspent outpoints of the canonical chain
    claims,     \* migration_claims table: claimed classical addresses
    pending,    \* pending_transactions table
    best,       \* chain_state.best_head_hash, NoBlock when unset
    review,     \* migration_sources.status
    job         \* where each handler thread is, and its local variables

tables == <<blocks, canonical, utxos, claims, pending, best, review>>
vars == <<blocks, canonical, utxos, claims, pending, best, review, job>>

(***************************************************************************)
(* Rows.  path, view, claimed and supply are what path_to_root,            *)
(* utxos_for_head, claimed_classical_addresses_for_head and                *)
(* _supply_for_blocks recompute from a row's ancestors each time; they are *)
(* kept with the row here, and RowsReplay compares the view with a replay  *)
(* of the branch, transaction by transaction.                              *)
(***************************************************************************)
GenesisRow(txs) ==
    [height |-> 0, prev |-> NoBlock, txs |-> txs, work |-> GenesisWork,
     path |-> {}, view |-> ViewAfter(EmptyView, txs, 0), claimed |-> {},
     supply |-> [genesis |-> Value(Created(txs[1])), subsidy |-> 0, minted |-> 0]]

Stored == DOMAIN blocks

\* index = parent_height + 1
NextHeight(prev) == blocks[prev].height + 1

\* A row above prev, computed from a view and a set of claimed sources.
RowOver(prev, txs, view, claimed) ==
    LET parent == blocks[prev]
        height == NextHeight(prev)
    IN  [height |-> height, prev |-> prev, txs |-> txs,
         work |-> parent.work + BlockWork,
         path |-> parent.path \cup {prev},
         view |-> ViewAfter(view, txs, height),
         claimed |-> claimed \cup ClaimedBy(txs),
         supply |-> Issue(parent.supply, txs, height)]

\* A slip for the mutants: the branch is replayed on top of the canonical head's outputs.
RowOnHead(prev, txs) == RowOver(prev, txs, blocks[best].view, blocks[prev].claimed)

ChildRow(prev, txs) == RowOver(prev, txs, blocks[prev].view, blocks[prev].claimed)

Row(prev, txs) == IF prev = NoBlock THEN GenesisRow(txs) ELSE ChildRow(prev, txs)

PathTo(h) == blocks[h].path \cup {h}

\* utxos_for_head: the transactions of the path to the root, into an empty set of outputs.
Replay ==
    LET replay[h \in Stored] ==
          ApplyTxs(IF blocks[h].prev = NoBlock THEN {} ELSE replay[blocks[h].prev], blocks[h].txs)
    IN  replay

\* A slip for the mutants: only the head's own transactions.
IncludedInHead(h) == ToSet(blocks[h].txs)

Included(h) == UNION {ToSet(blocks[b].txs) : b \in PathTo(h)}

\* A slip for the mutants: one height too far.
BlockCountAhead == IF best = NoBlock THEN 0 ELSE blocks[best].height + 2

BlockCount == IF best = NoBlock THEN 0 ELSE blocks[best].height + 1

\* _migration_epoch_minted_for_blocks: claims minted on a branch in the epoch
\* of a height.
EpochMinted(path, height) ==
    LET epoch(n)   == n \div EpochLength
        sameEpoch  == {b \in path : epoch(blocks[b].height) = epoch(height)}
    IN  SumFunction([b \in sameEpoch |-> MintedBy(blocks[b].txs)])

(***************************************************************************)
(* Threads.                                                                *)
(***************************************************************************)
Idle == [at |-> "idle"]
At(t, place) == job[t].at = place
Goto(t, j) == job' = [job EXCEPT ![t] = j]
Done(t) == Goto(t, Idle)

\* Blocks a thread has validated and not yet stored.
InFlight == {t \in Threads : At(t, "store")}

Init ==
    /\ blocks = [h \in {} |-> GenesisRow(<<>>)]
    /\ canonical = {} /\ utxos = {} /\ claims = {} /\ pending = {}
    /\ best = NoBlock
    /\ review = [s \in Source |-> "active"]
    /\ job = [t \in Threads |-> Idle]

(***************************************************************************)
(* submit_transaction                                                      *)
(***************************************************************************)

\* _enforce_mempool_policy, without the size limits; its two reads of the
\* pending table are one step.
Policy(x) ==
    /\ x \notin pending
    /\ Cardinality(pending) < MaxPending
    /\ Body[x].ins # <<>> => Body[x].fee >= MinFee
    /\ IsClaim(x) => /\ Body[x].ins = <<>>
                     /\ Body[x].fee = 0
                     /\ Len(Body[x].outs) = 1

Submit(t) ==
    /\ At(t, "idle")
    /\ \E x \in Submittable :
          IF Policy(x) THEN Goto(t, [at |-> "view", tx |-> x]) ELSE Done(t)
    /\ UNCHANGED tables

\* store.all_utxos()
ReadUtxos(t) ==
    /\ At(t, "view")
    /\ Goto(t, [at |-> "check", tx |-> job[t].tx, unspent |-> utxos])
    /\ UNCHANGED tables

\* What mempool admission requires of a claim beyond ValidClaim: the pool cap
\* and the epoch cap, against the canonical chain alone, which may be empty.
ClaimFitsCaps(x) ==
    LET minted == IF best = NoBlock THEN 0 ELSE blocks[best].supply.minted
        inEpoch == IF best = NoBlock THEN 0 ELSE EpochMinted(PathTo(best), BlockCount)
    IN  IsClaim(x) => /\ PoolCap > 0 => minted + Value(Created(x)) <= PoolCap
                      /\ EpochCap > 0 => inEpoch + Value(Created(x)) <= EpochCap

\* _validate_transaction_against_view against the UTXO table read a step before.
\* The height, the output origins, the source's status and the claims table are
\* read one after the other then, and are one step here.
Admissible(x, unspent) ==
    /\ ValidTx(x, unspent, IF best = NoBlock THEN EmptyView ELSE blocks[best].view,
               claims, BlockCount, review)
    /\ ClaimFitsCaps(x)

Check(t) ==
    /\ At(t, "check")
    /\ IF Admissible(job[t].tx, job[t].unspent)
       THEN Goto(t, [at |-> "conflict", tx |-> job[t].tx])
       ELSE Done(t)
    /\ UNCHANGED tables

\* A slip for the mutants: only claims are compared.
ConflictOfClaims(x, y) == IsClaim(x) /\ IsClaim(y) /\ Body[x].source = Body[y].source

\* _check_pending_double_spends
Conflict(x, y) ==
    IF IsClaim(x) THEN IsClaim(y) /\ Body[x].source = Body[y].source
                  ELSE Spent(x) \cap Spent(y) # {}

CheckConflicts(t) ==
    /\ At(t, "conflict")
    /\ IF \E y \in pending : Conflict(job[t].tx, y)
       THEN Done(t)
       ELSE Goto(t, [at |-> "save", tx |-> job[t].tx])
    /\ UNCHANGED tables

\* INSERT INTO pending_transactions; a duplicate id is an IntegrityError.
SavePending(t) ==
    /\ At(t, "save")
    /\ pending' = pending \cup {job[t].tx}
    /\ Done(t)
    /\ UNCHANGED <<blocks, canonical, utxos, claims, best, review>>

(***************************************************************************)
(* validate_block, for a block that is not stored.  The header checks      *)
(* (chain id, proof of work, version, timestamps) are left out: a block    *)
(* that fails one changes nothing.                                         *)
(***************************************************************************)
ValidBlock(prev, txs) ==
    IF prev = NoBlock
    THEN /\ best = NoBlock
         /\ Len(txs) = 1 /\ IsAllocation(txs[1])
         /\ Reconciles(ViewAfter(EmptyView, txs, 0), GenesisRow(txs).supply)
    ELSE /\ prev \in Stored
         /\ LET height == NextHeight(prev)
            IN  ValidBlockOn(blocks[prev], txs, height,
                             EpochMinted(PathTo(prev), height), review)

\* A hash names one content: the block that another thread is about to store
\* under h, and the local genesis block under GenesisHash.  (Blocks that
\* differ in their header alone have different hashes.)
HashOf(h, prev, txs) ==
    /\ \A u \in InFlight :
          job[u].hash = h => job[u].prev = prev /\ job[u].txs = txs
    /\ h = GenesisHash => prev = NoBlock /\ txs = <<GenesisTx>>

(***************************************************************************)
(* create_genesis_block                                                    *)
(***************************************************************************)
CreateGenesis(t) ==
    /\ At(t, "idle")
    /\ best = NoBlock
    /\ GenesisCap > 0 => Value(Created(GenesisTx)) <= GenesisCap
    /\ Value(Created(GenesisTx)) <= MaxMoney
    /\ GenesisHash \notin Stored
    /\ ValidBlock(NoBlock, <<GenesisTx>>)
    /\ Goto(t, [at |-> "store", hash |-> GenesisHash, prev |-> NoBlock,
                txs |-> <<GenesisTx>>, local |-> TRUE])
    /\ UNCHANGED tables

(***************************************************************************)
(* mine_pending_transactions                                               *)
(***************************************************************************)
\* latest_block()
Mine(t) ==
    /\ At(t, "idle")
    /\ best # NoBlock
    /\ Goto(t, [at |-> "queue", head |-> best])
    /\ UNCHANGED tables

\* pending_transactions()[:max_per_block], oldest first: the rows are ordered by
\* the transactions' own timestamps, equal ones in either order.
Queues ==
    LET older(x, y) == Body[x].stamp <= Body[y].stamp
        queued(q, n) == {q[i] : i \in 1..n}
        oldest(n) ==
          {q \in [1..n -> pending] :
              /\ \A i, j \in 1..n : i < j => q[i] # q[j] /\ older(q[i], q[j])
              /\ \A x \in pending \ queued(q, n), i \in 1..n : older(q[i], x)
              /\ n < MaxPerBlock => queued(q, n) = pending}
    IN  UNION {oldest(n) : n \in 0..MaxPerBlock}

ReadPending(t) ==
    /\ At(t, "queue")
    /\ \E queue \in Queues : Goto(t, [at |-> "build", head |-> job[t].head, queue |-> queue])
    /\ UNCHANGED tables

\* Reward transactions for this head's next block.  Its timestamp is the
\* current time, so its id is in no block yet.
UsedTxs == UNION {ToSet(blocks[h].txs) : h \in Stored}
              \cup UNION {ToSet(job[t].txs) : t \in InFlight}
Rewards(head, queue) ==
    {r \in Tx \ UsedTxs : /\ IsReward(r) /\ Body[r].stamp > 0
                          /\ RewardExact(<<r>> \o queue, NextHeight(head))}

\* Build a block of what was read before, mine it, and run import_block's
\* validation.  A valid block goes on to be stored; the attempt fails when the
\* block is invalid, when its timestamp is not after the parent's or a pending
\* transaction is dated after it (and, in the model, when Hash or Tx is used up).
Build(t) ==
    /\ At(t, "build")
    /\ \/ Done(t)
       \/ \E r \in Rewards(job[t].head, job[t].queue), h \in Hash \ Stored :
             LET txs == <<r>> \o job[t].queue
             IN  /\ HashOf(h, job[t].head, txs)
                 /\ ValidBlock(job[t].head, txs)
                 /\ Goto(t, [at |-> "store", hash |-> h, prev |-> job[t].head,
                             txs |-> txs, local |-> FALSE])
    /\ UNCHANGED tables

(***************************************************************************)
(* import_block, for a block that a peer relays or a sync fetches.  (While *)
(* Stored = Hash there is no hash for another one.)                        *)
(***************************************************************************)
Import(t) ==
    /\ PeerBlocks /\ Stored # Hash
    /\ At(t, "idle")
    /\ \E prev \in Stored \cup (IF PeerGenesis THEN {NoBlock} ELSE {}),
         first \in {x \in Tx : Body[x].ins = <<>> /\ ~IsClaim(x)},
         rest \in BoundedSeq(Submittable, MaxPeerTxs - 1) :
          LET txs == <<first>> \o rest
          IN  /\ ValidBlock(prev, txs)
              /\ \E h \in Hash \ Stored :
                    /\ HashOf(h, prev, txs)
                    /\ Goto(t, [at |-> "store", hash |-> h, prev |-> prev, txs |-> txs,
                                local |-> FALSE])
    /\ UNCHANGED tables

\* store_block: one INSERT, or an error when another thread has stored the
\* same block since it was validated.
StoreBlock(t) ==
    /\ At(t, "store")
    /\ IF job[t].hash \in Stored
       THEN Done(t) /\ UNCHANGED blocks
       ELSE /\ blocks' = [h \in Stored \cup {job[t].hash} |->
                            IF h = job[t].hash THEN Row(job[t].prev, job[t].txs)
                                               ELSE blocks[h]]
            /\ Goto(t, [at   |-> IF job[t].local THEN "apply" ELSE "select",
                        hash |-> job[t].hash])
    /\ UNCHANGED <<canonical, utxos, claims, pending, best, review>>

\* A slip for the mutants: the smaller hash wins a tie.
BetterBySmallerHash(h, g) ==
    \/ g = NoBlock
    \/ blocks[h].work > blocks[g].work
    \/ blocks[h].work = blocks[g].work /\ h < g

\* The branch ending in h is preferred to the one ending in g: more work, or
\* as much work and the greater hash.
Better(h, g) ==
    \/ g = NoBlock
    \/ blocks[h].work > blocks[g].work
    \/ blocks[h].work = blocks[g].work /\ h > g

\* _select_best_chain reads the best head and decides.
SelectBestChain(t) ==
    /\ At(t, "select")
    /\ IF Better(job[t].hash, best)
       THEN Goto(t, [at |-> "apply", hash |-> job[t].hash])
       ELSE Done(t)
    /\ UNCHANGED tables

\* A slip for the mutants: the flags of the abandoned branch are not cleared.
ApplyOnTop(t) ==
    /\ At(t, "apply")
    /\ LET h == job[t].hash
       IN  /\ canonical' = canonical \cup PathTo(h)
           /\ utxos' = DOMAIN blocks[h].view
           /\ claims' = blocks[h].claimed
           /\ pending' = pending \ Included(h)
           /\ best' = h
    /\ Done(t)
    /\ UNCHANGED <<blocks, review>>

\* apply_best_chain: one SQLite transaction rebuilds every index of the head.
ApplyBestChain(t) ==
    /\ At(t, "apply")
    /\ LET h == job[t].hash
       IN  /\ canonical' = PathTo(h)
           /\ utxos' = DOMAIN blocks[h].view
           /\ claims' = blocks[h].claimed
           /\ pending' = pending \ Included(h)
           /\ best' = h
    /\ Done(t)
    /\ UNCHANGED <<blocks, review>>

(***************************************************************************)
(* The environment.                                                        *)
(***************************************************************************)

\* set_migration_source_status, by an operator.
SetReview(s, status) ==
    /\ Reviews
    /\ review[s] # status
    /\ review' = [review EXCEPT ![s] = status]
    /\ UNCHANGED <<blocks, canonical, utxos, claims, pending, best, job>>

\* The process dies and starts again: handlers are gone, tables are kept.
Crash ==
    /\ Crashes
    /\ \E t \in Threads : ~At(t, "idle")
    /\ job' = [t \in Threads |-> Idle]
    /\ UNCHANGED tables

Step(t) ==
    \/ Submit(t) \/ ReadUtxos(t) \/ Check(t) \/ CheckConflicts(t) \/ SavePending(t)
    \/ CreateGenesis(t)
    \/ Mine(t) \/ ReadPending(t) \/ Build(t)
    \/ Import(t) \/ StoreBlock(t) \/ SelectBestChain(t) \/ ApplyBestChain(t)

Next ==
    \/ \E t \in Threads : Step(t)
    \/ \E s \in Source, status \in ReviewStatus : SetReview(s, status)
    \/ Crash

Spec == Init /\ [][Next]_vars

(***************************************************************************)
(* Types.                                                                  *)
(***************************************************************************)
IsView(v) == /\ DOMAIN v \subseteq Outpoint
             /\ \A op \in DOMAIN v : v[op] \in Origin

IsRow(r) == /\ r.height \in Nat /\ r.prev \in Hash \cup {NoBlock}
            /\ r.work \in Nat \ {0}
            /\ r.txs \in Seq(Tx) /\ r.path \subseteq Hash
            /\ IsView(r.view) /\ r.claimed \subseteq Source

Job ==
    [at : {"idle"}]
    \cup [at : {"view", "conflict", "save"}, tx : Submittable]
    \cup [at : {"check"}, tx : Submittable, unspent : SUBSET Outpoint]
    \cup [at : {"queue"}, head : Hash]
    \cup [at : {"build"}, head : Hash, queue : Seq(Tx)]
    \cup [at : {"store"}, hash : Hash, prev : Hash \cup {NoBlock}, txs : Seq(Tx),
          local : BOOLEAN]
    \cup [at : {"select", "apply"}, hash : Hash]

\* Every table and every local variable of a handler keeps its type.
TypeOK ==
    /\ Stored \subseteq Hash /\ \A h \in Stored : IsRow(blocks[h])
    /\ canonical \subseteq Hash /\ utxos \subseteq Outpoint
    /\ claims \subseteq Source /\ pending \subseteq Submittable
    /\ best \in Hash \cup {NoBlock}
    /\ review \in [Source -> ReviewStatus]
    /\ job \in [Threads -> Job]

(***************************************************************************)
(* Safety, whatever the interleaving of handlers and crashes.              *)
(***************************************************************************)

\* The indexes a handler reads (canonical flags, utxos, migration_claims) are
\* those of the block named by best_head_hash, never a mixture of two heads
\* (apply_best_chain is one transaction and rebuilds them all).
IndexesMatchHead ==
    IF best = NoBlock
    THEN canonical = {} /\ utxos = {} /\ claims = {}
    ELSE /\ best \in Stored
         /\ canonical = PathTo(best)
         /\ utxos = DOMAIN blocks[best].view
         /\ claims = blocks[best].claimed

\* A block's ancestors are stored and there is one of them at each height, so
\* block_at_height and blocks_from_height return one chain.
OneBlockPerHeight ==
    \A h \in Stored :
        /\ PathTo(h) \subseteq Stored
        /\ \A a, b \in PathTo(h) : blocks[a].height = blocks[b].height => a = b
        /\ {blocks[a].height : a \in PathTo(h)} = 0..blocks[h].height

\* No classical address is claimed by two blocks of a branch, nor twice by one
\* block, although claims of the same address reach different branches, mempools
\* and handlers (validate_block, claimed_view | claimed_in_block).
ClaimedOncePerBranch ==
    \A h \in Stored :
        /\ \A i, j \in Claims(blocks[h].txs) :
              Body[blocks[h].txs[i]].source = Body[blocks[h].txs[j]].source => i = j
        /\ \A a, b \in PathTo(h) :
              a # b => ClaimedBy(blocks[a].txs) \cap ClaimedBy(blocks[b].txs) = {}

\* Every input a stored block spends was created by an earlier block of its own
\* branch or earlier in the block; a reward is spent only Maturity blocks after
\* the latest block that paid it, a migration output only Escrow blocks after its
\* claim.
SpendsMature ==
    \A h \in Stored : \A x \in ToSet(blocks[h].txs) : \A op \in Spent(x) :
        LET makers == {b \in PathTo(h) : op[1] \in ToSet(blocks[b].txs)}
        IN  \E b \in makers :
              /\ \A a \in makers : blocks[a].height <= blocks[b].height
              /\ (blocks[b].height > 0 /\ blocks[b].txs[1] = op[1])
                    => blocks[h].height >= blocks[b].height + Maturity
              /\ IsClaim(op[1]) => blocks[h].height >= blocks[b].height + Escrow

\* The view kept with a row is what replaying its branch from genesis gives, so
\* the node's three ways to compute it (validate_block, _state_root_after_block
\* and _apply_block_to_utxos) agree.
RowsReplay == \A h \in Stored : DOMAIN blocks[h].view = Replay[h]

\* The utxos table is worth what was issued: the genesis allocation, one subsidy
\* per block, and the converted amount of each row of the migration_claims table
\* (supply_snapshot and independent_supply_invariant).
SupplyReconciles ==
    best # NoBlock =>
        LET first == CHOOSE b \in canonical : blocks[b].height = 0
            outs  == Body[blocks[first].txs[1]].outs
        IN  Value(utxos) = SumFunction([i \in DOMAIN outs |-> outs[i].amount])
                             + SumFunction([n \in 1..blocks[best].height |-> Subsidy(n)])
                             + SumFunction([s \in claims |-> SourceAmount[s]])

(***************************************************************************)
(* The inductive invariant behind the three of them.                       *)
(***************************************************************************)

\* The claims of a block on top of prev: no source twice, none already claimed.
FreshClaims(prev, txs) ==
    /\ \A i, j \in Claims(txs) : Body[txs[i]].source = Body[txs[j]].source => i = j
    /\ ClaimedBy(txs) \cap blocks[prev].claimed = {}

\* What a handler established about a block stays true until it uses it.
JobFits(j) ==
    /\ j.at \in {"queue", "build"} => j.head \in Stored
    /\ j.at = "store" => IF j.prev = NoBlock THEN Len(j.txs) = 1
                         ELSE j.prev \in Stored /\ FreshClaims(j.prev, j.txs)
    /\ j.at \in {"select", "apply"} => j.hash \in Stored

\* A branch's set of claimed sources covers the claims of its blocks.
ClaimsCovered ==
    \A h \in Stored : \A b \in PathTo(h) : ClaimedBy(blocks[b].txs) \subseteq blocks[h].claimed

\* A check made under one connection still holds when its result is used under
\* another: the parent is stored, the claims are fresh on its branch, and a
\* row's claimed sources cover its branch.
ChecksStillHold == (\A t \in Threads : JobFits(job[t])) /\ ClaimsCovered

\* The conjunction of what one step needs to know about the state to preserve
\* IndexesMatchHead, OneBlockPerHeight and ClaimedOncePerBranch.
IInv ==
    /\ TypeOK
    /\ ChecksStillHold
    /\ IndexesMatchHead /\ OneBlockPerHeight /\ ClaimedOncePerBranch

(***************************************************************************)
(* Safety of a node that serves one request at a time.                     *)
(***************************************************************************)
Quiet == \A t \in Threads : At(t, "idle")

\* Between requests the head is the greatest stored block in the fork-choice
\* order: most work, then greatest hash (protocol.md, section 5).
HeadIsBest ==
    Quiet /\ Stored # {} => best # NoBlock /\ \A h \in Stored \ {best} : ~Better(h, best)

\* Blocks that fork choice has dealt with: stored, and not in the hands of a
\* handler that has still to compare or to apply them.
Decided == Stored \ {job[t].hash : t \in {u \in Threads : At(u, "select") \/ At(u, "apply")}}

Abstract == INSTANCE BestChain WITH work <- [h \in Decided |-> blocks[h].work],
                                    head <- best

\* The node implements fork choice: every block it stores is considered exactly
\* once, and the head is the best block considered so far, at every step.
ImplementsBestChain == Abstract!Spec

\* An output that two blocks of a branch pay: a block may repeat the id of an earlier
\* reward, once its output is spent (validate_block compares ids with no other block).
PaidTwice(op, branch) ==
    \E c, d \in branch : c # d /\ op[1] \in ToSet(blocks[c].txs) \cap ToSet(blocks[d].txs)

\* The mempool holds no two transactions that spend an output or claim a source
\* between them (_check_pending_double_spends), and none of the canonical chain, even
\* when a reorg brings in several blocks at once (apply_best_chain deletes the
\* transactions of the whole path) - unless all the outputs it spends were paid again.
PendingConsistent ==
    /\ \A x, y \in pending :
          x # y => /\ Spent(x) \cap Spent(y) = {}
                   /\ IsClaim(x) /\ IsClaim(y) => Body[x].source # Body[y].source
    /\ \A b \in canonical : \A x \in pending \cap ToSet(blocks[b].txs) :
          Spent(x) # {} /\ \A op \in Spent(x) : PaidTwice(op, canonical)

\* A transfer that is worth what its inputs hold, no less.
Exact(x) == Value(Created(x)) + Body[x].fee = Value(Spent(x))

\* What the next block would have issued on the head's branch.
NextSupply(txs) == Issue(blocks[best].supply, txs, BlockCount)
EpochHasRoom(txs) == WithinEpoch(EpochMinted(PathTo(best), BlockCount), txs)

\* What submit_transaction admitted can be mined: the block that
\* mine_pending_transactions would build now passes validation, if no transfer in it leaves
\* a part of its inputs to nobody (admission lets it, the supply check does not) and the caps
\* have room for all its claims (admission looks at each alone).
MiningSucceeds ==
    Quiet /\ best # NoBlock =>
        \A queue \in Queues : \A r \in Rewards(best, queue) :
            LET txs == <<r>> \o queue
            IN  /\ \A x \in ToSet(queue) : IsClaim(x) \/ Exact(x)
                /\ WithinCaps(NextSupply(txs)) /\ EpochHasRoom(txs)
                => ValidBlock(best, txs)
=============================================================================
