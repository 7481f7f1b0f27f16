----------------------------- MODULE GoConformance -----------------------------
(***************************************************************************)
(* The second implementation of the v2 rules: the engine of                *)
(* conformance/go/protocol_v2_consensus.go and the program                 *)
(* cmd/consensuscheck, which is given a genesis block and a list of blocks *)
(* and answers with the tip, its work and its coins.  The engine keeps     *)
(* coins as a map from outpoints, adds amounts up one by one in int64 and  *)
(* work in uint64, and counts the coins after every transfer; the nodes    *)
(* count them after the last one of a block, and their work is unbounded.  *)
(*                                                                         *)
(* A hash stands for a block whose field block_hash names it: the nodes    *)
(* compare the two, the Go engine never reads the field.                   *)
(***************************************************************************)
EXTENDS V2Node

CONSTANTS
    MaxInt64,       \* math.MaxInt64
    MaxUint64,      \* ^uint64(0)
    Listed          \* the blocks in the order in which consensuscheck is given them,
                    \* parents first

\* genesis_state_v2 and the check of the manifest keep the supply in int64, and the
\* schema keeps amounts above zero.  The list has every block, after its parent.
ASSUME GoConformanceAssumption ==
    /\ Block[Genesis].height = 0
    /\ MaxInt64 \in Nat /\ MaxSupply <= MaxInt64
    /\ MaxUint64 \in Nat /\ BlockWork <= MaxUint64
    /\ \A t \in DOMAIN Transfer : \A op \in Created(t) : Coin[op].amount > 0
    /\ Listed \in Seq(Hash \ {Genesis}) /\ Range(Listed) = Hash \ {Genesis}
    /\ \A j \in DOMAIN Listed :
          LET parent == Block[Listed[j]].prev
          IN  parent \in Hash \ {Genesis} => \E i \in 1..(j - 1) : Listed[i] = parent

\* A map with one entry put in.
Put(map, key, value) ==
    [x \in DOMAIN map \cup {key} |-> IF x = key THEN value ELSE map[x]]

(***************************************************************************)
(* Transfers.                                                              *)
(***************************************************************************)
Inputs(t) == Transfer[t].ins
Outputs(t) == [i \in DOMAIN Transfer[t].outs |-> Coin[<<t, i>>]]

\* validateTransaction: some input and output, no outpoint twice, amounts above zero.
\* The signature of an input proves its owner.
WellFormedTx(t) ==
    /\ Inputs(t) # <<>> /\ Transfer[t].outs # <<>>
    /\ IsInjective([i \in DOMAIN Inputs(t) |-> Inputs(t)[i].coin])
    /\ \A i \in DOMAIN Outputs(t) : Outputs(t)[i].amount > 0

\* Amounts are above zero, so a sum is in range at each addition when it is in the end.
Total(coins) == SumFunctionOnSet([i \in DOMAIN coins |-> coins[i].amount], DOMAIN coins)
Fits(coins) == Total(coins) <= MaxInt64

\* Every input is there and belongs to its signer.
Owns(t, coins) ==
    \A i \in DOMAIN Inputs(t) :
        /\ Inputs(t)[i].coin \in DOMAIN coins
        /\ coins[Inputs(t)[i].coin].recipient = Inputs(t)[i].owner

\* Inputs are outputs plus the fee that is burned, and no sum leaves int64.
Pays(t, coins) ==
    LET ins == [i \in DOMAIN Inputs(t) |-> coins[Inputs(t)[i].coin]]
    IN  /\ Fits(ins) /\ Fits(Outputs(t))
        /\ Total(Outputs(t)) <= MaxInt64 - Transfer[t].fee
        /\ Total(ins) = Total(Outputs(t)) + Transfer[t].fee

Unspent(t, coins) == DOMAIN coins \ {Inputs(t)[i].coin : i \in DOMAIN Inputs(t)}
NewOutpoints(t) == {<<t, i>> : i \in DOMAIN Outputs(t)}

\* The coins after a transfer; too many of them are refused there and then (Few, below).
applyTransfer(t, coins) ==
    [op \in Unspent(t, coins) \cup NewOutpoints(t) |->
        IF op \in NewOutpoints(t) THEN Outputs(t)[op[2]] ELSE coins[op]]

(***************************************************************************)
(* Blocks.  go is a V2ConsensusNode: states, branchTxIDs, work and tipHash *)
(* (blocks has the keys of states).                                        *)
(***************************************************************************)
NewV2ConsensusNode ==
    [states      |-> [h \in {Genesis} |-> [op \in Allocations |-> Coin[op]]],
     branchTxIDs |-> [h \in {Genesis} |-> {}],
     work        |-> [h \in {Genesis} |-> 0],
     tipHash     |-> Genesis]

\* The body of the loop of AcceptBlock: coins and ids after a transaction, or ok FALSE
\* for good.
RunTransaction(t, branch, before) ==
    IF /\ before.ok /\ WellFormedTx(t)
       /\ t \notin branch \cup before.seen
       /\ Owns(t, before.coins) /\ Pays(t, before.coins)
       /\ NewOutpoints(t) \cap Unspent(t, before.coins) = {}
       /\ Few(DOMAIN applyTransfer(t, before.coins))
    THEN [ok |-> TRUE, seen |-> before.seen \cup {t}, coins |-> applyTransfer(t, before.coins)]
    ELSE [before EXCEPT !.ok = FALSE]

RunTransactions(go, h) ==
    LET parent == Block[h].prev
        txs == Block[h].txs
        run[i \in 0..Len(txs)] ==
          IF i = 0 THEN [ok |-> TRUE, seen |-> {}, coins |-> go.states[parent]]
          ELSE RunTransaction(txs[i], go.branchTxIDs[parent], run[i - 1])
    IN  run[Len(txs)]

\* No transaction was refused, and the coins after the last one sum up to the supply at most,
\* in int64, and are few enough for a state root.
Passed(run) ==
    /\ run.ok
    /\ Fits(run.coins) /\ Total(run.coins) <= MaxSupply
    /\ Few(DOMAIN run.coins)

\* AcceptBlock returns no error.
GoAccepts(go, h) ==
    /\ Block[h].prev \in DOMAIN go.states
    /\ Block[h].height = Block[Block[h].prev].height + 1
    /\ Block[h].sound
    /\ Passed(RunTransactions(go, h))
    /\ h \in DOMAIN go.states \/ go.work[Block[h].prev] <= MaxUint64 - BlockWork

\* A slip for the mutants: a tie leaves the tip alone.
TipAfterTie(work, h, tipHash) == IF work[h] > work[tipHash] THEN h ELSE tipHash
TipAfter(work, h, tipHash) ==
    IF work[h] > work[tipHash] \/ (work[h] = work[tipHash] /\ h < tipHash) THEN h ELSE tipHash

\* AcceptBlock of a block that is accepted; a known one changes nothing.
GoAccept(go, h) ==
    LET run == RunTransactions(go, h)
        parent == Block[h].prev
        work == Put(go.work, h, go.work[parent] + BlockWork)
    IN  IF h \in DOMAIN go.states THEN go
        ELSE [states      |-> Put(go.states, h, run.coins),
              branchTxIDs |-> Put(go.branchTxIDs, h, go.branchTxIDs[parent] \cup run.seen),
              work        |-> work,
              tipHash     |-> TipAfter(work, h, go.tipHash)]

\* consensuscheck, given these blocks in the order of the list: it answers with what
\* the engine has in the end, or fails with the first block that is refused.
CheckBlock(h, before) ==
    IF before.ok /\ GoAccepts(before.node, h)
    THEN [ok |-> TRUE, node |-> GoAccept(before.node, h)]
    ELSE [before EXCEPT !.ok = FALSE]

ConsensusCheck(given) ==
    LET check[i \in 0..Len(Listed)] ==
          IF i = 0 THEN [ok |-> TRUE, node |-> NewV2ConsensusNode]
          ELSE IF Listed[i] \in given THEN CheckBlock(Listed[i], check[i - 1])
          ELSE check[i - 1]
    IN  check[Len(Listed)]

(***************************************************************************)
(* Properties.                                                             *)
(***************************************************************************)
\* What only the engine asks of a block on top of a row.
FewThroughout(row, h) == \A i \in DOMAIN Block[h].txs : Few(StatesOf(row, Block[h].txs)[i])
InGoLimits(row, h) == FewThroughout(row, h) /\ row.work <= MaxUint64 - BlockWork

\* This answer of the Go program to the blocks that a node has in memory: it refused one just
\* if some block is out of the limits of the engine.  Otherwise its engine has the tip, the
\* work and the coins of the node, and accepts next what the node does and is in its limits.
AnswersLike(answer, n) ==
    LET go == answer.node
        Within(h) == InGoLimits(known[n][Block[h].prev], h)
    IN  /\ answer.ok <=> \A h \in DOMAIN known[n] \ {Genesis} : Within(h)
        /\ answer.ok =>
              /\ go.tipHash = tip[n]
              /\ go.work[go.tipHash] = known[n][tip[n]].work
              /\ DOMAIN go.states[go.tipHash] = known[n][tip[n]].utxos
              /\ \A h \in Hash \ {Genesis} :
                    GoAccepts(go, h) <=> Acceptable(n, h) /\ Within(h)
CheckedLike(n) == AnswersLike(ConsensusCheck(DOMAIN known[n]), n)

\* Given the blocks of a node's table, in another order than the node met them, the Go
\* program answers with the tip, the work and the coins that the node has once it has
\* replayed the table, and the engine and the node accept and refuse the same blocks next:
\* the limits of FewThroughout and of uint64 are the only rules in which the two differ.
CheckerAgrees == \A n \in Nodes : job[n] = Replaying({}) => CheckedLike(n)

\* The Go program refuses no chain that a node has accepted: the two "process the same
\* manifest-pinned v2 chain rules" (QBC_PROTOCOL_V2_CROSS_RUNTIME_CONSENSUS.md).  That is
\* what the document says; the engine's limit on coins inside a block refutes it.
SameRules == \A n \in Nodes : job[n] = Replaying({}) => ConsensusCheck(DOMAIN known[n]).ok
================================================================================
