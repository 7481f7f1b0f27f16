----------------------------- MODULE ClaimPlans -----------------------------
(***************************************************************************)
(* What a node answers to wallets that prepare a claim or a transfer: the  *)
(* quote and the preflight of a migration claim, the plan of a batch of    *)
(* claims, the selection of inputs and the state of an output (service.py).*)
(* They repeat rules of Ledger and ChainNode in code of their own, from    *)
(* the tables of the canonical chain.  Disputes and snapshots are folded   *)
(* into the review status of a source, as in ChainNode.                    *)
(***************************************************************************)
EXTENDS ChainNode

CONSTANTS
    SourceOrder,    \* the seeded sources in the order of a batch plan
    BatchLimit      \* limit of migration_claim_batch_plan

ASSUME ClaimPlansAssumption ==
    /\ SourceOrder \in Seq(Source) /\ IsInjective(SourceOrder) /\ BatchLimit \in Nat

-----------------------------------------------------------------------------
(* Claims. *)

NotNegative(n) == IF n < 0 THEN 0 ELSE n

\* supply_snapshot; without a pool cap nothing remains.
PoolRemaining ==
    NotNegative(PoolCap - IF best = NoBlock THEN 0 ELSE blocks[best].supply.minted)

\* _migration_epoch_minted_for_head, for the height after the one of the next block.
QuotedEpochRemaining ==
    NotNegative(EpochCap - IF best = NoBlock THEN 0 ELSE EpochMinted(PathTo(best), BlockCount + 1))

\* A slip for the mutants: the epoch is not looked at.
ClaimableInPool(s) ==
    /\ review[s] = "active" /\ s \notin claims
    /\ SourceAmount[s] <= PoolRemaining

\* migration_claim_quote: the field claimable.
Claimable(s) ==
    /\ review[s] = "active" /\ s \notin claims
    /\ SourceAmount[s] <= PoolRemaining
    /\ EpochCap > 0 => SourceAmount[s] <= QuotedEpochRemaining

\* preflight_migration_claim: the field ready, which the quote it returns is not part of.
Ready(s) == InWindow(BlockCount) /\ review[s] = "active" /\ s \notin claims

\* build_migration_claim_draft, once its owner has signed it.
IsDraftOf(x, s) ==
    /\ IsClaim(x) /\ Body[x].source = s /\ s \in Body[x].signers
    /\ Body[x].ins = <<>> /\ Body[x].fee = 0
    /\ Len(Body[x].outs) = 1 /\ Value(Created(x)) = SourceAmount[s]

Claimed(plan) == SumFunction([s \in ToSet(plan) |-> SourceAmount[s]])

\* A slip for the mutants: each claim is compared with the whole pool.
PlanWithoutTotal(plan, s) ==
    IF Claimable(s) /\ Len(plan) < BatchLimit THEN Append(plan, s) ELSE plan

\* One source of migration_claim_batch_plan.
PlanNext(plan, s) ==
    IF Claimable(s) /\ Len(plan) < BatchLimit /\ Claimed(plan) + SourceAmount[s] <= PoolRemaining
    THEN Append(plan, s) ELSE plan

BatchPlan ==
    LET plan[n \in 0..Len(SourceOrder)] ==
          IF n = 0 THEN <<>> ELSE PlanNext(plan[n - 1], SourceOrder[n])
    IN  plan[Len(SourceOrder)]

-----------------------------------------------------------------------------
(* Outputs. *)

\* migration_claim_finality, _migration_output_finality_status
Finality(s, origin, height) ==
    CASE review[s] = "revoked"         -> "fraud_resolved_frozen"
      [] review[s] = "quarantined"     -> "frozen_dispute"
      [] review[s] = "active" /\ height < origin + Escrow -> "escrow_locked"
      [] OTHER                         -> "unlocked"

\* A slip for the mutants: the state of a claimed output is not asked for.
SpendabilityOfCoins(origin, height) ==
    IF origin.coinbase /\ height < origin.height + Maturity THEN "coinbase_locked" ELSE "spendable"

\* _utxo_spendability_status
Spendability(origin, height) ==
    IF origin.coinbase /\ height < origin.height + Maturity THEN "coinbase_locked"
    ELSE IF origin.source \in Source THEN Finality(origin.source, origin.height, height)
    ELSE "spendable"

\* The outputs of an owner that select_inputs does not pass over, in utxo_spendability_report.
SpendableNow(owner) ==
    {op \in utxos : /\ Output(op).recipient = owner
                    /\ Spendability(blocks[best].view[op], BlockCount) \in {"spendable", "unlocked"}}

\* What select_inputs may return: outputs until the target is reached, in the table's order.
Selections(owner, target) ==
    {S \in SUBSET SpendableNow(owner) :
        Value(S) >= target /\ \E last \in S : Value(S \ {last}) < target}

\* A transfer that its owner made of such a selection, each input once.
IsTransferOf(x, owner) ==
    /\ ~IsClaim(x) /\ WellFormed(x) /\ IsInjective(Body[x].ins)
    /\ Spent(x) \in Selections(owner, Value(Created(x)) + Body[x].fee)

-----------------------------------------------------------------------------
\* A source that the quote calls claimable and the preflight ready is one whose draft
\* submit_transaction admits, if the quote and the admission look at the same epoch (the
\* quote looks one block too far, so at the last height of an epoch they differ) and the
\* draft pays something (a conversion ratio may round the amount down to zero).
QuotedIsAdmitted ==
    LET sameEpoch == BlockCount \div EpochLength = (BlockCount + 1) \div EpochLength
    IN  Quiet /\ sameEpoch =>
          \A s \in ToSet(SourceOrder), x \in Tx :
              Claimable(s) /\ Ready(s) /\ IsDraftOf(x, s) /\ WellFormed(x)
                  => Admissible(x, utxos)

\* The claims of a batch plan can be mined together in the next block, whatever part of the
\* pool is used up, if the epoch of that block has room for them all (the plan compares the
\* room of the epoch after it with each claim alone) and the other caps for its subsidy.
PlannedBatchMines ==
    Quiet /\ best # NoBlock /\ InWindow(BlockCount) =>
        \A q \in [DOMAIN BatchPlan -> Tx], r \in Rewards(best, <<>>) :
            LET txs == <<r>> \o q
            IN  /\ \A i \in DOMAIN q : IsDraftOf(q[i], BatchPlan[i]) /\ WellFormed(q[i])
                /\ EpochHasRoom(txs) /\ WithinOtherCaps(NextSupply(txs))
                => ValidBlock(best, txs)

\* A transfer of inputs that select_inputs returned is valid at once, whatever was mined,
\* claimed, reviewed or abandoned in a reorg before.
SelectionSpends ==
    Quiet /\ best # NoBlock =>
        \A x \in Submittable :
            (\E owner \in Body[x].signers : IsTransferOf(x, owner))
                => ValidTx(x, utxos, blocks[best].view, claims, BlockCount, review)
=============================================================================
