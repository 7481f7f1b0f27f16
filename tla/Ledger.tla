------------------------------- MODULE Ledger -------------------------------
(***************************************************************************)
(* The UTXO rules of a QBC node: what a transaction does to the set of     *)
(* unspent outputs, when a transaction is valid against a branch, and when *)
(* a block is valid on top of its parent (service.py, validate_block and   *)
(* _validate_transaction_against_view).  Pure operators, no state.         *)
(*                                                                         *)
(* A transaction id stands for the SHA-256 of the transaction, so the id   *)
(* determines the content: Body[t] is the content of t, and an outpoint    *)
(* <<t, i>> determines its recipient and its amount.  A table of unspent   *)
(* outputs is therefore a set of outpoints, and a branch's UTXO view maps  *)
(* each unspent outpoint to its origin (_utxo_origin_metadata_for_head).   *)
(***************************************************************************)
EXTENDS Integers, Sequences, FiniteSets, Functions

CONSTANTS
    Tx,             \* transaction ids
    Body,           \* Body[t]: the content hashed into t
    Source,         \* seeded classical source addresses
    NoSource,       \* "not a migration claim"
    SourceAmount,   \* SourceAmount[s]: the converted claim amount of s
    Subsidy(_),     \* the block subsidy at a height (see Currency)
    Maturity,       \* coinbase_maturity_blocks
    Escrow,         \* migration_escrow_blocks
    ClaimStart, ClaimEnd,           \* claim window, ClaimEnd = 0: open ended
    GenesisCap, EmissionCap,        \* caps, 0: none
    PoolCap, EpochCap, EpochLength,
    MaxMoney

Kind == {"transfer", "migration_claim"}
ReviewStatus == {"active", "quarantined", "revoked"}

ASSUME LedgerAssumption ==
    /\ NoSource \notin Source
    /\ \A t \in Tx : /\ Body[t].kind \in Kind
                     /\ Body[t].source \in Source \cup {NoSource}
                     /\ Body[t].kind = "migration_claim" => Body[t].source \in Source
                     /\ DOMAIN Body[t].outs \subseteq Nat \ {0}
    /\ Maturity \in Nat /\ Escrow \in Nat

(***************************************************************************)
(* Outpoints and views.                                                    *)
(***************************************************************************)
Outpoint == Tx \X (Nat \ {0})

\* Amounts are Python integers; inputs and outputs are lists.
ASSUME AmountsAssumption ==
    /\ IsFiniteSet(Source) /\ \A s \in Source : SourceAmount[s] \in Int
    /\ \A t \in Tx : /\ Body[t].ins \in Seq(Outpoint) /\ Body[t].fee \in Int
                     /\ Len(Body[t].outs) \in Nat
                     /\ DOMAIN Body[t].outs = 1..Len(Body[t].outs)
                     /\ \A i \in DOMAIN Body[t].outs : Body[t].outs[i].amount \in Int
    /\ {GenesisCap, EmissionCap, PoolCap, EpochCap, ClaimStart, ClaimEnd} \subseteq Int
    /\ MaxMoney \in Nat

Output(op) == Body[op[1]].outs[op[2]]
Amount(op) == Output(op).amount
Value(ops) == SumFunction([op \in ops |-> Amount(op)])

Created(t) == {<<t, i>> : i \in DOMAIN Body[t].outs}
Spent(t)   == {Body[t].ins[i] : i \in DOMAIN Body[t].ins}

IsClaim(t) == Body[t].kind = "migration_claim"

Origin == [height : Nat, coinbase : BOOLEAN, source : Source \cup {NoSource}]
EmptyView == [op \in {} |-> [height |-> 0, coinbase |-> FALSE, source |-> NoSource]]

\* The view once the first n transactions of a block are applied in order: each
\* consumes its inputs, then adds its outputs.  An outpoint is lost when it is
\* consumed and not added again; one that is added twice has its last origin.
\* Position 1 is the reward transaction (the allocation, in a genesis block).
ViewUpTo(view, txs, height, n) ==
    LET made(op) == {i \in 1..n : op \in Created(txs[i])}
        lost(op) == {i \in 1..n : op \in Spent(txs[i]) /\ \A j \in made(op) : j < i}
        ops == DOMAIN view \cup UNION {Created(txs[i]) : i \in 1..n}
    IN  [op \in {o \in ops : lost(o) = {}} |->
            IF made(op) = {} THEN view[op]
            ELSE [height   |-> height,
                  coinbase |-> height > 0 /\ made(op) = {1},
                  source   |-> IF IsClaim(op[1]) THEN Body[op[1]].source ELSE NoSource]]

ViewAfter(view, txs, height) == ViewUpTo(view, txs, height, Len(txs))

\* The same by replay, one transaction at a time, without the origins.
ApplyTx(unspent, t) == (unspent \ Spent(t)) \cup Created(t)
ApplyTxs(unspent, txs) ==
    LET after[n \in 0..Len(txs)] ==
          IF n = 0 THEN unspent ELSE ApplyTx(after[n - 1], txs[n])
    IN  after[Len(txs)]

(***************************************************************************)
(* Transactions.                                                           *)
(***************************************************************************)
WellFormed(t) ==
    /\ Body[t].outs # <<>>
    /\ \A i \in DOMAIN Body[t].outs : Body[t].outs[i].amount > 0
    /\ Body[t].fee >= 0

InWindow(height) == height >= ClaimStart /\ (ClaimEnd > 0 => height <= ClaimEnd)

\* A slip for the mutants: spendable one block early.
SpendableEarly(origin, height, review) ==
    /\ origin.coinbase => height + 1 >= origin.height + Maturity
    /\ origin.source \in Source => /\ review[origin.source] = "active"
                                   /\ height + 1 >= origin.height + Escrow

\* _migration_output_finality_status: the source is not under review and the
\* escrow period is over.
MigrationFinal(origin, height, review) ==
    /\ review[origin.source] = "active"
    /\ height >= origin.height + Escrow

\* Coinbase maturity and migration escrow of an output with this origin.
SpendableAt(origin, height, review) ==
    /\ origin.coinbase => height >= origin.height + Maturity
    /\ origin.source \in Source => MigrationFinal(origin, height, review)

\* A transfer against a set of unspent outpoints.  The origin of an outpoint is
\* looked up separately, and an outpoint without one is subject to no height
\* condition (utxo_metadata.get(key, {})).
ValidTransfer(t, unspent, origins, height, review) ==
    /\ Body[t].ins # <<>>
    /\ \A i, j \in DOMAIN Body[t].ins : Body[t].ins[i] = Body[t].ins[j] => i = j
    /\ \A op \in Spent(t) :
          /\ op \in unspent
          /\ Output(op).recipient \in Body[t].signers
          /\ op \in DOMAIN origins => SpendableAt(origins[op], height, review)
    /\ Value(Created(t)) + Body[t].fee <= Value(Spent(t))

\* A migration claim; claimed is the set of classical addresses already used.
ValidClaim(t, claimed, height, review) ==
    /\ Body[t].ins = <<>> /\ Body[t].fee = 0
    /\ InWindow(height)
    /\ review[Body[t].source] = "active"
    /\ Body[t].source \notin claimed
    /\ Len(Body[t].outs) = 1
    /\ Value(Created(t)) = SourceAmount[Body[t].source]
    /\ Body[t].source \in Body[t].signers

ValidTx(t, unspent, origins, claimed, height, review) ==
    /\ WellFormed(t)
    /\ IF IsClaim(t) THEN ValidClaim(t, claimed, height, review)
                     ELSE ValidTransfer(t, unspent, origins, height, review)

(***************************************************************************)
(* Blocks.  A parent is a record with the parent branch's UTXO view, the   *)
(* set of sources it claimed and the supply it issued.                     *)
(***************************************************************************)
Claims(txs)     == {i \in 2..Len(txs) : IsClaim(txs[i])}
ClaimedBy(txs)  == {Body[txs[i]].source : i \in Claims(txs)}
MintedBy(txs)   == SumFunction([i \in Claims(txs) |-> Value(Created(txs[i]))])
FeesOf(txs)     == SumFunction([i \in 2..Len(txs) |-> Body[txs[i]].fee])

IsReward(t) ==
    /\ ~IsClaim(t) /\ Body[t].ins = <<>> /\ Body[t].fee = 0
    /\ Len(Body[t].outs) = 1
    /\ WellFormed(t)

IsAllocation(t) ==
    /\ ~IsClaim(t) /\ Body[t].ins = <<>> /\ Body[t].fee = 0
    /\ Body[t].stamp = 0
    /\ WellFormed(t)

Total(supply) == supply.genesis + supply.subsidy + supply.minted

Issue(supply, txs, height) ==
    [supply EXCEPT !.subsidy = @ + Subsidy(height), !.minted = @ + MintedBy(txs)]

WithinPool(supply) == PoolCap > 0 => supply.minted <= PoolCap

WithinOtherCaps(supply) ==
    /\ GenesisCap > 0  => supply.genesis <= GenesisCap
    /\ EmissionCap > 0 => supply.subsidy <= EmissionCap
    /\ Total(supply) <= MaxMoney

\* _validate_supply_limits
WithinCaps(supply) == WithinPool(supply) /\ WithinOtherCaps(supply)

\* A slip for the mutants: only the claims of this block are looked at.
ClaimedInBlock(parent, txs, i) == ClaimedBy(SubSeq(txs, 1, i - 1))

\* Sources that transaction i of a block may not claim: those claimed on the
\* parent's branch and earlier in the block.
AlreadyClaimed(parent, txs, i) == parent.claimed \cup ClaimedBy(SubSeq(txs, 1, i - 1))

\* The transactions of a block are valid in order, each against the view its
\* predecessors leave.
ValidInOrder(parent, txs, height, review) ==
    \A i \in 2..Len(txs) :
        LET view == ViewUpTo(parent.view, txs, height, i - 1)
        IN  ValidTx(txs[i], DOMAIN view, view, AlreadyClaimed(parent, txs, i),
                    height, review)

\* spent_in_block and claimed_in_block.
NoRepeats(txs) ==
    \A i, j \in 2..Len(txs) :
        i # j => /\ Spent(txs[i]) \cap Spent(txs[j]) = {}
                 /\ IsClaim(txs[i]) /\ IsClaim(txs[j])
                      => Body[txs[i]].source # Body[txs[j]].source

RewardExact(txs, height) ==
    Value(Created(txs[1])) = Subsidy(height) + FeesOf(txs)

\* A slip for the mutants: value may disappear.
NothingInflated(view, supply) == Value(DOMAIN view) <= Total(supply)

\* _validate_supply_invariant: the unspent outputs are worth what was issued.
Reconciles(view, supply) == Value(DOMAIN view) = Total(supply)

WithinEpoch(epochMinted, txs) == EpochCap > 0 => epochMinted + MintedBy(txs) <= EpochCap

ValidBlockOn(parent, txs, height, epochMinted, review) ==
    /\ txs # <<>>
    /\ IsReward(txs[1])
    /\ RewardExact(txs, height)
    /\ NoRepeats(txs)
    /\ Claims(txs) # {} => WithinEpoch(epochMinted, txs)
    /\ ValidInOrder(parent, txs, height, review)
    /\ WithinCaps(Issue(parent.supply, txs, height))
    /\ Reconciles(ViewAfter(parent.view, txs, height), Issue(parent.supply, txs, height))
=============================================================================
