--------------------------- MODULE AnswersProofs ---------------------------
(***************************************************************************)
(* What a node tells wallets and operators, and what it mines, follows     *)
(* from the invariants of its tables: the quote of a claim, the selection  *)
(* of inputs, the integrity report, a batch plan and a block of the        *)
(* mempool.                                                                *)
(***************************************************************************)
EXTENDS BranchProofs, ClaimPlans, IntegrityReports

(***************************************************************************)
(* Amounts.                                                                *)
(***************************************************************************)
LEMMA MintedType ==
    ASSUME NEW txs \in Seq(Tx)
    PROVE  MintedBy(txs) \in Int
<1> DEFINE I == Claims(txs)
           e == [i \in I |-> Value(Created(txs[i]))]
<1>1. Len(txs) \in Nat /\ I \subseteq 2..Len(txs) /\ I \subseteq DOMAIN txs
  BY DEF Claims
<1>2. IsFiniteSet(I)
  <2>1. IsFiniteSet(2..Len(txs))
    BY <1>1, FS_Interval
  <2> HIDE DEF I
  <2> QED BY <1>1, <2>1, FS_Subset
<1>3. \A i \in I : txs[i] \in Tx
  BY <1>1
<1>4. \A i \in I : e[i] \in Int
  BY <1>3, CreatedWorth
<1>5. MintedBy(txs) = SumFunctionOnSet(e, I)
  BY DEF MintedBy, SumFunction
<1> HIDE DEF I, e
<1> QED BY <1>2, <1>4, <1>5, SumType

LEMMA EpochMintedType ==
    ASSUME SoundInv, NEW h \in Stored, NEW n
    PROVE  EpochMinted(PathTo(h), n) \in Int
<1> DEFINE S == {b \in PathTo(h) : blocks[b].height \div EpochLength = n \div EpochLength}
           f == [b \in S |-> MintedBy(blocks[b].txs)]
<1>1. S \subseteq Stored /\ S \subseteq Hash /\ \A b \in S : blocks[b].txs \in Seq(Tx)
  BY DEF SoundInv, IInv, OneBlockPerHeight, TypeOK, IsRow
<1>2. IsFiniteSet(S)
  <2> HIDE DEF S
  <2> QED BY <1>1, SubsidyAssumption, FS_Subset
<1>3. \A b \in S : f[b] \in Int
  BY <1>1, MintedType
<1>4. EpochMinted(PathTo(h), n) = SumFunctionOnSet(f, S)
  BY DEF EpochMinted, SumFunction
<1> HIDE DEF S, f
<1> QED BY <1>2, <1>3, <1>4, SumType

\* The epoch alone counts.
LEMMA SameEpoch ==
    ASSUME NEW path, NEW m, NEW n, m \div EpochLength = n \div EpochLength
    PROVE  EpochMinted(path, m) = EpochMinted(path, n)
BY DEF EpochMinted

LEMMA HeadIs ==
    ASSUME SoundInv, best # NoBlock
    PROVE  /\ best \in Stored /\ utxos = DOMAIN blocks[best].view
           /\ claims = blocks[best].claimed /\ canonical = PathTo(best)
           /\ BlockCount = blocks[best].height + 1 /\ BlockCount \in Nat
           /\ blocks[best].height \in Nat
           /\ IsView(blocks[best].view) /\ SupplyIs(best)
           /\ blocks[best].supply.minted \in Int
<1>1. /\ best \in Stored /\ utxos = DOMAIN blocks[best].view
      /\ claims = blocks[best].claimed /\ canonical = PathTo(best)
  BY DEF SoundInv, IInv, IndexesMatchHead
<1>2. IsRow(blocks[best]) /\ BlockCount = blocks[best].height + 1
  BY <1>1 DEF SoundInv, IInv, TypeOK, BlockCount
<1>3. SupplyIs(best)
  BY <1>1, SuppliesRight
<1>4. Converted(blocks[best].claimed) \in Int
  <2> DEFINE S == blocks[best].claimed
             f == [s \in S |-> SourceAmount[s]]
  <2>1. S \subseteq Source
    BY <1>2 DEF IsRow
  <2>2. IsFiniteSet(S) /\ \A s \in S : f[s] \in Int
    BY <2>1, AmountsAssumption, FS_Subset
  <2>3. Converted(S) = SumFunctionOnSet(f, S)
    BY DEF Converted, SumFunction
  <2> HIDE DEF S, f
  <2>4. Converted(S) \in Int
    BY <2>2, <2>3, SumType
  <2> QED BY <2>4 DEF S
<1>5. blocks[best].supply.minted \in Int
  BY <1>3, <1>4 DEF SupplyIs
<1> QED BY <1>1, <1>2, <1>3, <1>5 DEF IsRow

\* Outputs that some transaction makes.
Made(ops) == \A op \in ops : op \in Outpoint /\ op \in Created(op[1])

LEMMA MadeAmount ==
    ASSUME NEW op \in Outpoint, op \in Created(op[1])
    PROVE  Amount(op) \in Int
<1>1. op[1] \in Tx
  BY DEF Outpoint
<1>2. PICK i \in DOMAIN Body[op[1]].outs : op = <<op[1], i>>
  BY DEF Created
<1>3. op[2] = i
  BY <1>2
<1> QED BY <1>1, <1>2, <1>3, AmountsAssumption DEF Amount, Output

LEMMA ValueType ==
    ASSUME NEW ops, IsFiniteSet(ops), Made(ops)
    PROVE  Value(ops) \in Int
<1> DEFINE f == [op \in ops |-> Amount(op)]
<1>1. \A op \in ops : f[op] \in Int
  BY MadeAmount DEF Made
<1>2. Value(ops) = SumFunctionOnSet(f, ops)
  BY DEF Value, SumFunction
<1> HIDE DEF f
<1> QED BY <1>1, <1>2, SumType

LEMMA SpentFinite ==
    ASSUME NEW x \in Tx
    PROVE  IsFiniteSet(Spent(x))
<1> DEFINE ins == Body[x].ins
<1>1. ins \in Seq(Outpoint)
  BY AmountsAssumption
<1>2. Len(ins) \in Nat /\ DOMAIN ins = 1..Len(ins)
  BY <1>1
<1>3. IsFiniteSet(DOMAIN ins)
  <2>1. IsFiniteSet(1..Len(ins))
    BY <1>2, FS_Interval
  <2> HIDE DEF ins
  <2> QED BY <1>2, <2>1, Zenon
<1>4. ins \in Surjection(DOMAIN ins, Spent(x))
  <2>1. ins = [i \in DOMAIN ins |-> ins[i]]
    BY <1>1
  <2>2. \A i \in DOMAIN ins : ins[i] \in Spent(x)
    BY DEF Spent
  <2>3. \A op \in Spent(x) : \E i \in DOMAIN ins : ins[i] = op
    BY DEF Spent
  <2> HIDE DEF ins
  <2> QED BY <2>1, <2>2, <2>3 DEF Surjection
<1> HIDE DEF ins
<1> QED BY <1>3, <1>4, FS_Surjection

(***************************************************************************)
(* Claims that are quoted, and inputs that are selected.                   *)
(***************************************************************************)
\* What a well-formed draft pays is positive.
LEMMA DraftWorth ==
    ASSUME NEW s, NEW x \in Tx, IsDraftOf(x, s), WellFormed(x)
    PROVE  Value(Created(x)) = SourceAmount[s] /\ SourceAmount[s] \in Int /\ SourceAmount[s] > 0
<1> DEFINE outs == Body[x].outs
           e == [i \in DOMAIN outs |-> outs[i].amount]
<1>1. /\ Len(outs) = 1 /\ DOMAIN outs = 1..Len(outs)
      /\ \A i \in DOMAIN outs : outs[i].amount \in Int
      /\ Value(Created(x)) = SourceAmount[s]
  BY AmountsAssumption DEF IsDraftOf
<1>2. DOMAIN outs = {1}
  BY <1>1
<1>3. outs[1].amount > 0 /\ e[1] \in Int /\ e[1] = outs[1].amount
  BY <1>1, <1>2 DEF WellFormed
<1>4. Value(Created(x)) = SumFunctionOnSet(e, {1})
  <2>1. Value(Created(x)) = Allocated(x) /\ Allocated(x) = SumFunction(e)
    BY CreatedWorth DEF Allocated
  <2>2. SumFunction(e) = SumFunctionOnSet(e, DOMAIN outs)
    BY DEF SumFunction
  <2> HIDE DEF e, outs
  <2> QED BY <1>2, <2>1, <2>2, Zenon
<1> HIDE DEF e
<1>5. SumFunctionOnSet(e, {1}) = e[1]
  <2>1. IsFiniteSet({}) /\ {} \cup {1} = {1}
    BY FS_EmptySet
  <2>2. \A y \in {} \cup {1} : e[y] \in Int
    BY <1>3
  <2>3. SumFunctionOnSet(e, {} \cup {1}) = SumFunctionOnSet(e, {}) + e[1]
    BY <2>1, <2>2, SumAdd
  <2>4. SumFunctionOnSet(e, {1}) = SumFunctionOnSet(e, {}) + e[1]
    BY <2>1, <2>3, Zenon
  <2> QED BY <1>3, <2>4, SumOfNone
<1> QED BY <1>1, <1>3, <1>4, <1>5

LEMMA QuoteHolds == SoundInv => QuotedIsAdmitted
<1> SUFFICES ASSUME SoundInv, BlockCount \div EpochLength = (BlockCount + 1) \div EpochLength,
                    NEW s \in ToSet(SourceOrder), NEW x \in Tx,
                    Claimable(s), Ready(s), IsDraftOf(x, s), WellFormed(x)
             PROVE  Admissible(x, utxos)
  BY DEF QuotedIsAdmitted
<1> DEFINE view == IF best = NoBlock THEN EmptyView ELSE blocks[best].view
<1>1. ValidTx(x, utxos, view, claims, BlockCount, review)
  BY DEF ValidTx, ValidClaim, IsDraftOf, Claimable, Ready
<1> DEFINE minted == IF best = NoBlock THEN 0 ELSE blocks[best].supply.minted
           inEpoch == IF best = NoBlock THEN 0 ELSE EpochMinted(PathTo(best), BlockCount)
<1>2. ASSUME PoolCap > 0
      PROVE  minted + Value(Created(x)) <= PoolCap
  <2>1. SourceAmount[s] <= NotNegative(PoolCap - minted)
    BY <1>2 DEF Claimable, PoolRemaining
  <2>2. minted \in Int /\ PoolCap \in Int
    BY <1>2, HeadIs, AmountsAssumption
  <2> HIDE DEF minted
  <2> QED BY <2>1, <2>2, DraftWorth DEF NotNegative
<1>3. ASSUME EpochCap > 0
      PROVE  inEpoch + Value(Created(x)) <= EpochCap
  <2>1. inEpoch = IF best = NoBlock THEN 0 ELSE EpochMinted(PathTo(best), BlockCount + 1)
    BY SameEpoch
  <2>2. SourceAmount[s] <= NotNegative(EpochCap - inEpoch)
    BY <1>3, <2>1 DEF Claimable, QuotedEpochRemaining
  <2>3. inEpoch \in Int /\ EpochCap \in Int
    BY <1>3, HeadIs, EpochMintedType, AmountsAssumption
  <2> HIDE DEF inEpoch
  <2> QED BY <2>2, <2>3, DraftWorth DEF NotNegative
<1> QED BY <1>1, <1>2, <1>3 DEF Admissible, ClaimFitsCaps

\* A claim that the quote calls claimable and the preflight ready is admitted to the mempool,
\* whatever was mined, abandoned or reviewed before, with any caps and epochs (but for the
\* last height of an epoch, and a source that is converted to nothing).
THEOREM QuotesAreHonoured == Spec => []QuotedIsAdmitted
<1>1. SoundInv => QuotedIsAdmitted
  BY QuoteHolds
<1> QED BY <1>1, SoundInit, SoundNext, PTL DEF Spec

\* An output that is reported spendable meets the height conditions of a transfer.
LEMMA ReportedSpendable ==
    ASSUME SoundInv, NEW origin \in Origin, NEW height \in Nat,
           Spendability(origin, height) \in {"spendable", "unlocked"}
    PROVE  SpendableAt(origin, height, review)
<1>0. /\ origin.height \in Nat /\ origin.coinbase \in BOOLEAN
      /\ Maturity \in Nat /\ Escrow \in Nat
      /\ \A s \in Source : review[s] \in ReviewStatus
  BY LedgerAssumption DEF SoundInv, IInv, TypeOK, Origin
<1>1. ~ (origin.coinbase /\ height < origin.height + Maturity)
  <2>1. ASSUME origin.coinbase /\ height < origin.height + Maturity
        PROVE  Spendability(origin, height) = "coinbase_locked"
    BY <2>1 DEF Spendability
  <2> QED BY <2>1
<1>2. ASSUME origin.source \in Source
      PROVE  /\ review[origin.source] = "active"
             /\ ~ (height < origin.height + Escrow)
  <2>1. Spendability(origin, height) = Finality(origin.source, origin.height, height)
    BY <1>1, <1>2 DEF Spendability
  <2>2. Finality(origin.source, origin.height, height) \in {"spendable", "unlocked"}
    BY <2>1, Zenon
  <2>3. review[origin.source] \in {"active", "quarantined", "revoked"}
    BY <1>0, <1>2 DEF ReviewStatus
  <2> QED BY <2>2, <2>3 DEF Finality
<1> QED BY <1>0, <1>1, <1>2 DEF SpendableAt, MigrationFinal

LEMMA SelectionHolds == SoundInv => SelectionSpends
<1> SUFFICES ASSUME SoundInv, best # NoBlock, NEW x \in Submittable,
                    NEW owner \in Body[x].signers, IsTransferOf(x, owner)
             PROVE  ValidTx(x, utxos, blocks[best].view, claims, BlockCount, review)
  BY DEF SelectionSpends
<1> DEFINE view == blocks[best].view
<1>1. /\ utxos = DOMAIN view /\ IsView(view) /\ BlockCount \in Nat
  BY HeadIs
<1>2. PICK last \in Spent(x) : /\ Value(Spent(x)) >= Value(Created(x)) + Body[x].fee
                               /\ Spent(x) \subseteq SpendableNow(owner)
  BY DEF IsTransferOf, Selections
<1>3. Body[x].ins # <<>>
  BY <1>2 DEF Spent
<1>4. \A i, j \in DOMAIN Body[x].ins : Body[x].ins[i] = Body[x].ins[j] => i = j
  BY DEF IsTransferOf, IsInjective
<1>5. ASSUME NEW op \in Spent(x)
      PROVE  /\ op \in utxos /\ Output(op).recipient \in Body[x].signers
             /\ SpendableAt(view[op], BlockCount, review)
  <2>1. /\ op \in utxos /\ Output(op).recipient = owner
        /\ Spendability(view[op], BlockCount) \in {"spendable", "unlocked"}
    BY <1>2, <1>5 DEF SpendableNow
  <2>2. view[op] \in Origin
    BY <1>1, <2>1 DEF IsView
  <2> QED BY <1>1, <2>1, <2>2, ReportedSpendable
<1>6. Value(Created(x)) + Body[x].fee <= Value(Spent(x))
  <2>1. Value(Spent(x)) \in Int /\ Value(Created(x)) \in Int /\ Body[x].fee \in Int
    <3>1. x \in Tx
      BY ChainNodeAssumption
    <3>2. Made(Spent(x))
      BY <1>1, <1>5, HeadIs, Origins DEF OriginsRight, Made
    <3> QED BY <3>1, <3>2, SpentFinite, ValueType, CreatedWorth, AmountsAssumption
  <2> QED BY <1>2, <2>1
<1> QED BY <1>3, <1>4, <1>5, <1>6 DEF ValidTx, ValidTransfer, IsTransferOf

\* A transfer of inputs that select_inputs returned passes validation against the head: what
\* utxo_spendability_report calls spendable is spendable.
THEOREM SelectionsSpend == Spec => []SelectionSpends
<1>1. SoundInv => SelectionSpends
  BY SelectionHolds
<1> QED BY <1>1, SoundInit, SoundNext, PTL DEF Spec

(***************************************************************************)
(* The integrity report, made while handlers go on.                        *)
(***************************************************************************)
\* A branch has one block for each height.
LEMMA BranchSize ==
    ASSUME SoundInv, NEW h \in Stored
    PROVE  Cardinality(PathTo(h)) = blocks[h].height + 1
<1> DEFINE n == blocks[h].height
           f == [a \in PathTo(h) |-> blocks[a].height]
<1>1. /\ n \in Nat /\ PathTo(h) \subseteq Hash
      /\ {blocks[a].height : a \in PathTo(h)} = 0..n
      /\ \A a, b \in PathTo(h) : blocks[a].height = blocks[b].height => a = b
  BY DEF SoundInv, IInv, TypeOK, IsRow, OneBlockPerHeight
<1>2. IsFiniteSet(PathTo(h))
  BY <1>1, SubsidyAssumption, FS_Subset
<1>3. f \in Bijection(PathTo(h), 0..n)
  <2>1. f \in [PathTo(h) -> 0..n]
    BY <1>1
  <2>2. IsInjective(f)
    BY <1>1 DEF IsInjective
  <2>3. \A k \in 0..n : \E a \in PathTo(h) : f[a] = k
    BY <1>1
  <2> HIDE DEF f, n
  <2> QED BY <2>1, <2>2, <2>3 DEF Bijection, Injection, Surjection
<1>4. Cardinality(PathTo(h)) = Cardinality(0..n)
  <2> HIDE DEF f, n
  <2> QED BY <1>2, <1>3, FS_Bijection DEF ExistsBijection
<1>5. Cardinality(0..n) = n + 1
  <2> HIDE DEF n
  <2> QED BY <1>1, UpToHas
<1> QED BY <1>4, <1>5, Zenon

\* Genesis blocks that a node makes itself stay below the supply cap.
RootsWithin ==
    /\ \A h \in Stored : blocks[h].prev = NoBlock => Value(Created(blocks[h].txs[1])) <= MaxMoney
    /\ \A t \in Threads : job[t].at = "store" /\ job[t].prev = NoBlock
                            => Value(Created(job[t].txs[1])) <= MaxMoney

LEMMA RootJobs ==
    ASSUME ~PeerGenesis, IInv, [Next]_vars, NEW t \in Threads,
           job'[t].at = "store", job'[t].prev = NoBlock, job'[t] # job[t]
    PROVE  Value(Created(job'[t].txs[1])) <= MaxMoney
<1> USE DEF Goto, Done, Idle
<1>0. job \in [Threads -> Job] /\ NoBlock \notin Hash /\ Stored \subseteq Hash
  BY ChainNodeAssumption DEF IInv, TypeOK
<1>1. PICK u \in Threads : Step(u)
  <2>1. ~UNCHANGED vars
    BY DEF vars
  <2>2. ~Crash
    BY DEF Crash
  <2>3. ~ \E s \in Source, status \in ReviewStatus : SetReview(s, status)
    BY DEF SetReview
  <2> QED BY <2>1, <2>2, <2>3 DEF Next
<1>2. \A j : job' = [job EXCEPT ![u] = j] => u = t /\ job'[t] = j
  BY <1>0
<1>3. CASE CreateGenesis(u)
  <2>1. job'[t].txs = <<GenesisTx>> /\ Value(Created(GenesisTx)) <= MaxMoney
    BY <1>3, <1>2 DEF CreateGenesis
  <2> QED BY <2>1
<1>4. CASE Build(u)
  <2>1. ~Done(u)
    BY <1>2
  <2>2. /\ job[u].at = "build"
        /\ \E r, h : job'[t] = [at |-> "store", hash |-> h, prev |-> job[u].head,
                               txs |-> <<r>> \o job[u].queue, local |-> FALSE]
    BY <1>2, <1>4, <2>1 DEF Build, At
  <2>3. job[u].head \in Hash
    BY <1>0, <2>2 DEF Job
  <2> QED BY <1>0, <2>2, <2>3
<1>5. CASE Import(u)
  <2>1. Stored \cup (IF PeerGenesis THEN {NoBlock} ELSE {}) = Stored
    OBVIOUS
  <2>2. \E prev \in Stored : \E h, txs :
           job' = [job EXCEPT ![u] = [at |-> "store", hash |-> h, prev |-> prev,
                                      txs |-> txs, local |-> FALSE]]
    BY <1>5, <2>1 DEF Import
  <2>3. \E prev \in Stored : \E h, txs :
           job'[t] = [at |-> "store", hash |-> h, prev |-> prev, txs |-> txs, local |-> FALSE]
    BY <1>2, <2>2
  <2> QED BY <1>0, <2>3
<1>6. CASE Submit(u) \/ ReadUtxos(u) \/ Check(u) \/ CheckConflicts(u) \/ SavePending(u)
  BY <1>6, <1>2 DEF Submit, ReadUtxos, Check, CheckConflicts, SavePending
<1>7. CASE Mine(u) \/ ReadPending(u) \/ SelectBestChain(u) \/ ApplyBestChain(u)
  BY <1>7, <1>2 DEF Mine, ReadPending, SelectBestChain, ApplyBestChain
<1>8. CASE StoreBlock(u)
  BY <1>8, <1>2 DEF StoreBlock
<1> QED BY <1>1, <1>3, <1>4, <1>5, <1>6, <1>7, <1>8 DEF Step

LEMMA RootsNext ==
    ASSUME ~PeerGenesis, SoundInv, RootsWithin, [Next]_vars
    PROVE  RootsWithin'
<1>1. IInv
  BY DEF SoundInv
<1>2. \A t \in Threads : job'[t].at = "store" /\ job'[t].prev = NoBlock
                            => Value(Created(job'[t].txs[1])) <= MaxMoney
  <2> SUFFICES ASSUME NEW t \in Threads, job'[t].at = "store", job'[t].prev = NoBlock
               PROVE  Value(Created(job'[t].txs[1])) <= MaxMoney
    OBVIOUS
  <2>1. CASE job'[t] = job[t]
    BY <2>1 DEF RootsWithin
  <2>2. CASE job'[t] # job[t]
    BY <1>1, <2>2, RootJobs
  <2> QED BY <2>1, <2>2
<1>3. \A h \in Stored' : blocks'[h].prev = NoBlock => Value(Created(blocks'[h].txs[1])) <= MaxMoney
  <2>1. CASE blocks' = blocks
    BY <2>1 DEF RootsWithin, Stored
  <2>2. ASSUME NEW t \in Threads, StoreBlock(t), job[t].hash \notin Stored
        PROVE  \A h \in Stored' : blocks'[h].prev = NoBlock
                  => Value(Created(blocks'[h].txs[1])) <= MaxMoney
    <3>1. /\ Stored' = Stored \cup {job[t].hash} /\ \A g \in Stored : blocks'[g] = blocks[g]
          /\ blocks'[job[t].hash] = Row(job[t].prev, job[t].txs) /\ job[t].at = "store"
      BY <1>1, <2>2, StoredRow
    <3>2. Row(job[t].prev, job[t].txs).prev = job[t].prev /\ Row(job[t].prev, job[t].txs).txs = job[t].txs
      BY RowIs DEF GenesisRow, RowAbove
    <3> QED BY <3>1, <3>2 DEF RootsWithin
  <2> QED BY <1>1, <2>1, <2>2, RowsChange
<1> QED BY <1>2, <1>3 DEF RootsWithin

LEMMA NothingOverIssued ==
    ASSUME SoundInv, RootsWithin, NEW h \in Stored
    PROVE  Total(blocks[h].supply) <= MaxMoney
<1>1. CASE blocks[h].prev = NoBlock
  <2> DEFINE worth == Value(Created(blocks[h].txs[1]))
  <2>1. blocks[h] = GenesisRow(blocks[h].txs) /\ blocks[h].txs[1] \in Tx
    BY <1>1, RootRow, ToSetHas DEF SoundRoot
  <2>2. \A txs : GenesisRow(txs).supply = [genesis |-> Value(Created(txs[1])), subsidy |-> 0, minted |-> 0]
    BY DEF GenesisRow
  <2>3. blocks[h].supply = [genesis |-> worth, subsidy |-> 0, minted |-> 0]
    BY <2>1, <2>2, Zenon
  <2>4. worth \in Int
    BY <2>1, CreatedWorth
  <2>5. worth <= MaxMoney
    BY <1>1 DEF RootsWithin
  <2> HIDE DEF worth
  <2> QED BY <2>3, <2>4, <2>5 DEF Total
<1>2. CASE blocks[h].prev # NoBlock
  <2> DEFINE prev == blocks[h].prev
             new == Issue(blocks[prev].supply, blocks[h].txs, blocks[prev].height + 1)
  <2>1. SoundChild(blocks[prev], blocks[h].txs) /\ blocks[h] = RowAbove(blocks[prev], prev, blocks[h].txs)
    BY <1>2, ChildOf
  <2>2. WithinCaps(new)
    BY <2>1 DEF SoundChild
  <2>3. blocks[h].supply = new
    <3>1. \A parent, txs : RowAbove(parent, prev, txs).supply = Issue(parent.supply, txs, parent.height + 1)
      BY DEF RowAbove
    <3> QED BY <2>1, <3>1, Zenon
  <2> HIDE DEF new
  <2> QED BY <2>2, <2>3 DEF WithinCaps, WithinOtherCaps
<1> QED BY <1>1, <1>2

\* No branch pays a claim in two places.
LEMMA NoRepeatedClaims ==
    ASSUME SoundInv, NEW h, h \in Stored \cup {NoBlock}
    PROVE  ~RepeatedClaims(h)
<1> SUFFICES ASSUME NEW p \in Places(h), NEW q \in Places(h), p # q,
                    IsClaim(TxAt(p)), IsClaim(TxAt(q)), Body[TxAt(p)].source = Body[TxAt(q)].source
             PROVE  FALSE
  BY DEF RepeatedClaims
<1>1. h \in Stored
  BY DEF Places, Branch
<1>2. ASSUME NEW r \in Places(h), IsClaim(TxAt(r))
      PROVE  /\ r = <<r[1], r[2]>> /\ r[1] \in PathTo(h) /\ r[1] \in Stored
             /\ r[2] \in Claims(blocks[r[1]].txs)
             /\ Body[TxAt(r)].source \in ClaimedBy(blocks[r[1]].txs)
  <2>1. PICK b \in PathTo(h) : r \in {b} \X DOMAIN blocks[b].txs
    BY <1>1, ChainNodeAssumption DEF Places, Branch, SoundInv, IInv, TypeOK
  <2>2. r = <<r[1], r[2]>> /\ r[1] = b /\ r[2] \in DOMAIN blocks[b].txs /\ TxAt(r) = blocks[b].txs[r[2]]
    BY <2>1 DEF TxAt
  <2>3. b \in Stored /\ blocks[b].txs \in Seq(Tx)
    BY <1>1 DEF SoundInv, IInv, OneBlockPerHeight, TypeOK, IsRow
  <2>4. ~IsClaim(blocks[b].txs[1])
    <3>1. CASE blocks[b].prev = NoBlock
      BY <2>3, <3>1, RootRow DEF SoundRoot, IsAllocation
    <3>2. CASE blocks[b].prev # NoBlock
      BY <2>3, <3>2, ChildOf DEF SoundChild, IsReward
    <3> QED BY <3>1, <3>2
  <2>5. r[2] \in 2..Len(blocks[b].txs)
    BY <1>2, <2>2, <2>3, <2>4
  <2>6. r[2] \in Claims(blocks[b].txs)
    BY <1>2, <2>2, <2>5 DEF Claims
  <2> QED BY <2>2, <2>3, <2>6 DEF ClaimedBy
<1>3. p[1] = q[1]
  BY <1>1, <1>2 DEF SoundInv, IInv, ClaimedOncePerBranch
<1>4. p[2] = q[2]
  <2>1. /\ p[2] \in Claims(blocks[p[1]].txs) /\ q[2] \in Claims(blocks[p[1]].txs) /\ p[1] \in Stored
        /\ Body[blocks[p[1]].txs[p[2]]].source = Body[blocks[p[1]].txs[q[2]]].source
    BY <1>2, <1>3 DEF TxAt
  <2> QED BY <2>1 DEF SoundInv, IInv, ClaimedOncePerBranch
<1> QED BY <1>2, <1>3, <1>4

\* Of the checks that look at one branch, only the one for repeated ids can fail.
LEMMA ChecksOfBranch ==
    ASSUME SoundInv, RootsWithin, NEW head \in Stored \cup {NoBlock}, NEW stored
    PROVE  /\ FailedChecks(head, stored, best) \subseteq {"transaction_ids_unique", "utxo_index_matches_replay"}
           /\ stored = Replayed(head) => "utxo_index_matches_replay" \notin FailedChecks(head, stored, best)
<1>1. ~RepeatedClaims(head)
  BY NoRepeatedClaims
<1>2. ~ (Issued(best) > MaxMoney)
  <2>1. CASE best = NoBlock
    BY <2>1, AmountsAssumption DEF Issued
  <2>2. CASE best # NoBlock
    <3>1. best \in Stored
      BY <2>2, HeadIs
    <3>2. Total(blocks[best].supply) <= MaxMoney
      BY <3>1, NothingOverIssued
    <3>3. Issued(best) = Total(blocks[best].supply)
      BY <2>2 DEF Issued, Total
    <3>4. Total(blocks[best].supply) \in Int
      BY <3>1, SuppliesRight DEF SupplyIs, Supply, Total
    <3> QED BY <3>2, <3>3, <3>4, AmountsAssumption
  <2> QED BY <2>1, <2>2
<1>3. Value(Replayed(head)) = Issued(head)
  <2>1. CASE head = NoBlock
    <3> DEFINE f == [op \in {} |-> Amount(op)]
    <3>1. Value({}) = SumFunctionOnSet(f, {})
      BY DEF Value, SumFunction
    <3> HIDE DEF f
    <3> QED BY <2>1, <3>1, SumOfNone DEF Replayed, Issued
  <2>2. CASE head # NoBlock
    <3>1. Value(DOMAIN blocks[head].view) = Total(blocks[head].supply)
      BY <2>2, SuppliesRight DEF SupplyIs
    <3> QED BY <2>2, <3>1 DEF Replayed, Issued, Total
  <2> QED BY <2>1, <2>2
<1> QED BY <1>1, <1>2, <1>3 DEF FailedChecks, CheckNames

\* What a report knows so far.
ReportKnows ==
    /\ moved \in BOOLEAN
    /\ report.at \in {"idle", "utxos", "supply", "height", "done"}
    /\ report.at # "idle" =>
          /\ report.head \in Stored \cup {NoBlock}
          /\ ~moved => best = report.head
    /\ report.at = "supply" /\ ~moved => report.stored = Replayed(report.head)
    /\ report.at \in {"height", "done"} =>
          /\ report.failed \subseteq {"transaction_ids_unique", "utxo_index_matches_replay"}
          /\ ~moved => "utxo_index_matches_replay" \notin report.failed
    /\ report.at = "done" /\ ~moved => report.height = Cardinality(Branch(report.head))

ReportInv == SoundInv /\ RootsWithin /\ ReportKnows

LEMMA TablesOfHead ==
    ASSUME SoundInv
    PROVE  /\ best \in Stored \cup {NoBlock} /\ utxos = Replayed(best)
           /\ BlockCount = Cardinality(Branch(best))
<1>1. CASE best = NoBlock
  BY <1>1, FS_EmptySet DEF SoundInv, IInv, IndexesMatchHead, Replayed, Branch, BlockCount
<1>2. CASE best # NoBlock
  BY <1>2, HeadIs, BranchSize DEF Replayed, Branch
<1> QED BY <1>1, <1>2

LEMMA ReportSteps ==
    ASSUME ReportInv, StartReport \/ ReadStored \/ ReadSupply \/ ReadHeight
    PROVE  ReportInv'
<1>1. UNCHANGED vars
  BY DEF StartReport, ReadStored, ReadSupply, ReadHeight
<1>2. SoundInv' /\ RootsWithin'
  <2>1. SoundInv'
    BY <1>1, SoundNext DEF ReportInv
  <2>2. RootsWithin'
    BY <1>1 DEF ReportInv, RootsWithin, vars, Stored
  <2> QED BY <2>1, <2>2
<1>3. /\ blocks' = blocks /\ best' = best /\ utxos' = utxos /\ Stored' = Stored
      /\ \A h : Replayed(h)' = Replayed(h) /\ Branch(h)' = Branch(h)
  BY <1>1 DEF vars, Stored, Replayed, Branch, PathTo
<1>4. CASE StartReport
  <2>1. report' = [at |-> "utxos", head |-> best] /\ moved' = FALSE
    BY <1>4 DEF StartReport
  <2>2. best \in Stored \cup {NoBlock}
    BY TablesOfHead DEF ReportInv
  <2> QED BY <1>2, <1>3, <2>1, <2>2 DEF ReportInv, ReportKnows
<1>5. CASE ReadStored
  <2>1. /\ report.at = "utxos" /\ report.head \in Stored \cup {NoBlock}
        /\ report' = [at |-> "supply", head |-> report.head, stored |-> utxos]
        /\ moved' = moved /\ moved \in BOOLEAN
        /\ ~moved => best = report.head
    BY <1>5 DEF ReadStored, ReportInv, ReportKnows
  <2>2. ~moved => utxos = Replayed(report.head)
    BY <2>1, TablesOfHead DEF ReportInv
  <2>3. /\ report'.at = "supply" /\ report'.head = report.head /\ report'.stored = utxos
    BY <2>1
  <2>4. Replayed(report.head)' = Replayed(report.head)
    BY <1>3, <2>3 DEF Replayed
  <2>5. ReportKnows'
    BY <1>3, <2>1, <2>2, <2>3, <2>4 DEF ReportKnows
  <2> QED BY <1>2, <2>5 DEF ReportInv
<1>6. CASE ReadSupply
  <2>1. /\ report.at = "supply" /\ report.head \in Stored \cup {NoBlock}
        /\ report' = [at |-> "height", head |-> report.head,
                      failed |-> FailedChecks(report.head, report.stored, best)]
        /\ moved' = moved /\ moved \in BOOLEAN
        /\ ~moved => best = report.head /\ report.stored = Replayed(report.head)
    BY <1>6 DEF ReadSupply, ReportInv, ReportKnows
  <2>2. /\ FailedChecks(report.head, report.stored, best)
               \subseteq {"transaction_ids_unique", "utxo_index_matches_replay"}
        /\ ~moved => "utxo_index_matches_replay" \notin FailedChecks(report.head, report.stored, best)
    BY <2>1, ChecksOfBranch DEF ReportInv
  <2> QED BY <1>2, <1>3, <2>1, <2>2 DEF ReportInv, ReportKnows
<1>7. CASE ReadHeight
  BY <1>2, <1>3, <1>7, TablesOfHead DEF ReadHeight, ReportInv, ReportKnows
<1> QED BY <1>2, <1>4, <1>5, <1>6, <1>7

LEMMA ServeStep ==
    ASSUME ~PeerGenesis, ReportInv, Serve
    PROVE  ReportInv'
<1>1. SoundInv' /\ RootsWithin'
  BY SoundNext, RootsNext DEF ReportInv, Serve
<1>2. Stored \subseteq Stored' /\ \A g \in Stored : blocks'[g] = blocks[g]
  <2>1. [Next]_vars /\ IInv
    BY DEF Serve, ReportInv, SoundInv
  <2> QED BY <2>1, RowsChange, StoredRow DEF Stored
<1>3. \A h \in Stored \cup {NoBlock} : Replayed(h)' = Replayed(h) /\ Branch(h)' = Branch(h)
  BY <1>2 DEF Replayed, Branch, PathTo
<1>4. report' = report /\ moved' = (moved \/ best' # best)
  BY DEF Serve
<1>5. ReportKnows'
  BY <1>2, <1>3, <1>4 DEF ReportInv, ReportKnows
<1> QED BY <1>1, <1>5 DEF ReportInv

LEMMA ReportNextInv ==
    ASSUME ~PeerGenesis, ReportInv, [ReportNext]_<<vars, reportVars>>
    PROVE  ReportInv'
<1>1. CASE ReportNext
  BY <1>1, ReportSteps, ServeStep DEF ReportNext
<1>2. CASE UNCHANGED <<vars, reportVars>>
  <2>1. UNCHANGED vars /\ report' = report /\ moved' = moved
    BY <1>2 DEF reportVars
  <2>2. SoundInv'
    BY <2>1, SoundNext DEF ReportInv
  <2>3. RootsWithin'
    BY <2>1 DEF ReportInv, RootsWithin, vars, Stored
  <2>4. ReportKnows'
    BY <2>1 DEF ReportInv, ReportKnows, vars, Stored, Replayed, Branch, PathTo
  <2> QED BY <2>2, <2>3, <2>4 DEF ReportInv
<1> QED BY <1>1, <1>2

\* A report made while handlers store and apply blocks and crash raises no false alarm: but for
\* repeated ids no check of a branch fails, and outputs and height differ from the branch of the
\* reported head only if another head was applied meanwhile.  (A genesis block of a peer is not
\* compared with the caps, so the node's branches are supposed to start with its own.)
THEOREM NoFalseAlarms == ASSUME ~PeerGenesis PROVE ReportSpec => []AlarmsExplained
<1>1. Init /\ ReportInit => ReportInv
  <2> SUFFICES ASSUME Init, ReportInit PROVE ReportInv
    OBVIOUS
  <2>1. SoundInv
    BY SoundInit
  <2>2. RootsWithin
    BY DEF Init, RootsWithin, Stored, Idle
  <2>3. ReportKnows
    BY DEF ReportInit, ReportKnows, Idle
  <2> QED BY <2>1, <2>2, <2>3 DEF ReportInv
<1>2. ReportInv /\ [ReportNext]_<<vars, reportVars>> => ReportInv'
  BY ReportNextInv
<1>3. ReportInv => AlarmsExplained
  BY DEF ReportInv, ReportKnows, AlarmsExplained
<1> QED BY <1>1, <1>2, <1>3, PTL DEF ReportSpec

(***************************************************************************)
(* The next block: a reward and transactions that are each valid on the    *)
(* head's branch.                                                          *)
(***************************************************************************)
HeadView == IF best = NoBlock THEN EmptyView ELSE blocks[best].view

ValidAtHead(x) == ValidTx(x, utxos, HeadView, claims, BlockCount, review)

\* Transactions that are new on the head's branch and do not conflict; all but the reward
\* are valid on it and leave nothing over.
Candidate(txs) ==
    /\ txs \in Seq(Tx) /\ 1 \in DOMAIN txs /\ IsReward(txs[1])
    /\ \A i \in DOMAIN txs : txs[i] \notin Included(best)
    /\ \A i \in 2..Len(txs) : ValidAtHead(txs[i]) /\ (IsClaim(txs[i]) \/ Exact(txs[i]))
    /\ NoRepeats(txs)

\* A transaction that the branch does not have pays no output of its view.
LEMMA NewHere ==
    ASSUME SoundInv, best # NoBlock, NEW t, t \notin Included(best), NEW op \in utxos
    PROVE  op \notin Created(t)
<1>1. best \in Stored /\ op \in DOMAIN blocks[best].view
  BY HeadIs
<1>2. PICK b \in Stored : Maker(b, PathTo(best), op, blocks[best].view[op])
  BY <1>1, Origins DEF OriginsRight
<1>3. op[1] \in Included(best)
  BY <1>2 DEF Maker, Included
<1>4. op \in Created(t) => op[1] = t
  BY DEF Created
<1> QED BY <1>3, <1>4

LEMMA CandidateFacts ==
    ASSUME SoundInv, best # NoBlock, NEW txs, Candidate(txs)
    PROVE  /\ Len(txs) \in Nat /\ Len(txs) >= 1 /\ DOMAIN txs = 1..Len(txs)
           /\ \A i \in 1..Len(txs) : txs[i] \in Tx
           /\ ~IsClaim(txs[1]) /\ Spent(txs[1]) = {}
           /\ \A i \in 2..Len(txs) : /\ ValidTx(txs[i], utxos, blocks[best].view, claims, BlockCount, review)
                                     /\ IsClaim(txs[i]) <=> Spent(txs[i]) = {}
           /\ \A i, j \in 1..Len(txs) : i # j => txs[i] # txs[j] /\ Spent(txs[i]) \cap Spent(txs[j]) = {}
           /\ \A i \in 1..Len(txs) : \A op \in utxos : op \notin Created(txs[i])
<1>1. /\ Len(txs) \in Nat /\ Len(txs) >= 1 /\ DOMAIN txs = 1..Len(txs)
      /\ \A i \in 1..Len(txs) : txs[i] \in Tx
  BY DEF Candidate
<1>2. ~IsClaim(txs[1]) /\ Body[txs[1]].ins = <<>>
  BY DEF Candidate, IsReward
<1>3. Spent(txs[1]) = {}
  BY <1>2 DEF Spent
<1>4. ASSUME NEW i \in 2..Len(txs)
      PROVE  /\ ValidTx(txs[i], utxos, blocks[best].view, claims, BlockCount, review)
             /\ IsClaim(txs[i]) <=> Spent(txs[i]) = {}
  <2>1. ValidTx(txs[i], utxos, blocks[best].view, claims, BlockCount, review)
    BY <1>4 DEF Candidate, ValidAtHead, HeadView
  <2>2. CASE IsClaim(txs[i])
    <3>1. Body[txs[i]].ins = <<>>
      BY <2>1, <2>2 DEF ValidTx, ValidClaim
    <3> QED BY <2>1, <2>2, <3>1 DEF Spent
  <2>3. CASE ~IsClaim(txs[i])
    <3>1. Body[txs[i]].ins # <<>>
      BY <2>1, <2>3 DEF ValidTx, ValidTransfer
    <3>2. Body[txs[i]].ins \in Seq(Outpoint)
      BY <1>1, <1>4, AmountsAssumption
    <3>3. 1 \in DOMAIN Body[txs[i]].ins
      BY <3>1, <3>2, NonEmpty
    <3> QED BY <2>1, <2>3, <3>3 DEF Spent
  <2> QED BY <2>2, <2>3
<1>5. ASSUME NEW i \in 1..Len(txs), NEW j \in 1..Len(txs), i # j
      PROVE  txs[i] # txs[j] /\ Spent(txs[i]) \cap Spent(txs[j]) = {}
  <2>1. CASE i = 1
    BY <1>1, <1>2, <1>3, <1>4, <1>5, <2>1
  <2>2. CASE j = 1
    BY <1>1, <1>2, <1>3, <1>4, <1>5, <2>2
  <2>3. CASE i # 1 /\ j # 1
    <3>1. i \in 2..Len(txs) /\ j \in 2..Len(txs)
      BY <1>1, <2>3
    <3>2. /\ Spent(txs[i]) \cap Spent(txs[j]) = {}
          /\ IsClaim(txs[i]) /\ IsClaim(txs[j]) => Body[txs[i]].source # Body[txs[j]].source
      BY <1>5, <3>1 DEF Candidate, NoRepeats
    <3> QED BY <1>4, <3>1, <3>2
  <2> QED BY <2>1, <2>2, <2>3
<1>6. \A i \in 1..Len(txs) : \A op \in utxos : op \notin Created(txs[i])
  BY <1>1, NewHere DEF Candidate
<1> QED BY <1>1, <1>2, <1>3, <1>4, <1>5, <1>6

\* What the branch has unspent, and the earlier transactions do not spend, is still there
\* and has the origin it had.
LEMMA StaysInView ==
    ASSUME NEW view, NEW txs, NEW height, NEW n, NEW op \in DOMAIN view,
           \A i \in 1..n : op \notin Spent(txs[i]) /\ op \notin Created(txs[i])
    PROVE  /\ op \in DOMAIN ViewUpTo(view, txs, height, n)
           /\ ViewUpTo(view, txs, height, n)[op] = view[op]
<1>1. op \in DOMAIN ViewUpTo(view, txs, height, n)
  BY DEF ViewUpTo
<1> QED BY <1>1, ViewOld

LEMMA CandidateInOrder ==
    ASSUME SoundInv, best # NoBlock, NEW txs, Candidate(txs)
    PROVE  ValidInOrder(blocks[best], txs, BlockCount, review)
<1> SUFFICES ASSUME NEW i \in 2..Len(txs)
             PROVE  ValidTx(txs[i], DOMAIN ViewUpTo(blocks[best].view, txs, BlockCount, i - 1),
                            ViewUpTo(blocks[best].view, txs, BlockCount, i - 1),
                            AlreadyClaimed(blocks[best], txs, i), BlockCount, review)
  BY DEF ValidInOrder
<1> DEFINE view == blocks[best].view
           now  == ViewUpTo(view, txs, BlockCount, i - 1)
           t    == txs[i]
<1>1. /\ utxos = DOMAIN view /\ claims = blocks[best].claimed
      /\ Len(txs) \in Nat /\ i \in 1..Len(txs) /\ ValidTx(t, utxos, view, claims, BlockCount, review)
      /\ \A j \in 1..(i - 1) : j \in 1..Len(txs) /\ j # i
  BY HeadIs, CandidateFacts
<1>2. CASE IsClaim(t)
  <2>1. Body[t].source \notin AlreadyClaimed(blocks[best], txs, i)
    <3> SUFFICES ASSUME NEW j \in Claims(SubSeq(txs, 1, i - 1)),
                        Body[SubSeq(txs, 1, i - 1)[j]].source = Body[t].source
                 PROVE  FALSE
      <4>1. Body[t].source \notin claims
        BY <1>1, <1>2 DEF ValidTx, ValidClaim
      <4> QED BY <1>1, <4>1 DEF AlreadyClaimed, ClaimedBy
    <3>1. /\ Len(SubSeq(txs, 1, i - 1)) = i - 1 /\ \A k \in 1..(i - 1) : SubSeq(txs, 1, i - 1)[k] = txs[k]
      BY <1>1 DEF Candidate
    <3>2. j \in 2..(i - 1) /\ j \in 1..(i - 1) /\ IsClaim(txs[j]) /\ Body[txs[j]].source = Body[t].source
      <4>1. j \in 2..(i - 1) /\ IsClaim(SubSeq(txs, 1, i - 1)[j])
        BY <3>1 DEF Claims
      <4> QED BY <1>1, <3>1, <4>1
    <3>3. j \in 2..Len(txs) /\ j # i
      BY <1>1, <3>2
    <3> QED BY <1>2, <3>2, <3>3 DEF Candidate, NoRepeats
  <2> QED BY <1>1, <1>2, <2>1 DEF ValidTx, ValidClaim
<1>3. CASE ~IsClaim(t)
  <2>1. ASSUME NEW op \in Spent(t)
        PROVE  op \in DOMAIN now /\ now[op] = view[op]
    <3>1. op \in utxos
      BY <1>1, <1>3, <2>1 DEF ValidTx, ValidTransfer
    <3>2. \A j \in 1..(i - 1) : op \notin Spent(txs[j]) /\ op \notin Created(txs[j])
      <4> SUFFICES ASSUME NEW j \in 1..(i - 1)
                   PROVE  op \notin Spent(txs[j]) /\ op \notin Created(txs[j])
        OBVIOUS
      <4>1. Spent(t) \cap Spent(txs[j]) = {} /\ op \notin Created(txs[j])
        BY <1>1, <3>1, CandidateFacts
      <4> QED BY <2>1, <4>1
    <3> HIDE DEF t
    <3> QED BY <1>1, <3>1, <3>2, StaysInView
  <2>2. ValidTransfer(t, utxos, view, BlockCount, review) /\ WellFormed(t)
    BY <1>1, <1>3 DEF ValidTx
  <2>3. ValidTransfer(t, DOMAIN now, now, BlockCount, review)
    <3> HIDE DEF now, t, view
    <3>1. \A op \in Spent(t) : op \in DOMAIN view
      BY <1>1, <2>2 DEF ValidTransfer
    <3> QED BY <2>1, <2>2, <3>1 DEF ValidTransfer
  <2> QED BY <1>3, <2>2, <2>3 DEF ValidTx
<1> QED BY <1>2, <1>3

(* What the unspent outputs are worth, transaction by transaction. *)

LEMMA CreatedFinite ==
    ASSUME NEW x \in Tx
    PROVE  IsFiniteSet(Created(x)) /\ Made(Created(x))
<1> DEFINE D == DOMAIN Body[x].outs
           m == [i \in D |-> <<x, i>>]
<1>1. Len(Body[x].outs) \in Nat /\ D = 1..Len(Body[x].outs)
  BY AmountsAssumption
<1>2. IsFiniteSet(D)
  <2>1. IsFiniteSet(1..Len(Body[x].outs))
    BY <1>1, FS_Interval
  <2> HIDE DEF D
  <2> QED BY <1>1, <2>1, Zenon
<1>3. m \in Surjection(D, Created(x))
  BY DEF Surjection, Created
<1>4. IsFiniteSet(Created(x))
  <2> HIDE DEF D, m
  <2> QED BY <1>2, <1>3, FS_Surjection
<1>5. \A op \in Created(x) : op \in Outpoint /\ op \in Created(op[1])
  BY MakerOf
<1> QED BY <1>4, <1>5 DEF Made

LEMMA ViewFinite ==
    ASSUME SoundInv
    PROVE  \A h \in Stored : IsFiniteSet(DOMAIN blocks[h].view)
<1> DEFINE T == {h \in Stored : IsFiniteSet(DOMAIN blocks[h].view)}
<1>0. ASSUME NEW view, IsFiniteSet(DOMAIN view), NEW txs \in Seq(Tx), NEW height
      PROVE  IsFiniteSet(DOMAIN ViewUpTo(view, txs, height, Len(txs)))
  <2> DEFINE In(n) == DOMAIN ViewUpTo(view, txs, height, n)
             Q == {n \in Nat : n <= Len(txs) => IsFiniteSet(In(n))}
  <2>1. 0 \in Q
    BY <1>0, ViewUpToNone
  <2>2. ASSUME NEW n \in Nat, n \in Q
        PROVE  n + 1 \in Q
    <3> SUFFICES ASSUME n + 1 <= Len(txs) PROVE IsFiniteSet(In(n + 1))
      OBVIOUS
    <3>1. IsFiniteSet(In(n)) /\ txs[n + 1] \in Tx
      BY <2>2
    <3>2. In(n + 1) = (In(n) \ Spent(txs[n + 1])) \cup Created(txs[n + 1])
      BY OneMoreTx DEF ApplyTx
    <3> HIDE DEF In
    <3>3. IsFiniteSet(In(n) \ Spent(txs[n + 1])) /\ IsFiniteSet(Created(txs[n + 1]))
      BY <3>1, FS_Difference, CreatedFinite
    <3>4. IsFiniteSet((In(n) \ Spent(txs[n + 1])) \cup Created(txs[n + 1]))
      BY <3>3, FS_Union
    <3> QED BY <3>2, <3>4, Zenon
  <2>3. \A n \in Nat : n \in Q
    <3> HIDE DEF Q
    <3> QED BY <2>1, <2>2, InductionOnNat
  <2> QED BY <2>3
<1>1. ASSUME NEW h \in Stored, blocks[h].prev = NoBlock
      PROVE  h \in T
  <2>1. blocks[h].view = ViewUpTo(EmptyView, blocks[h].txs, 0, 1) /\ blocks[h].txs \in Seq(Tx)
        /\ Len(blocks[h].txs) = 1
    BY <1>1, RootView, RootRow DEF SoundRoot
  <2>2. DOMAIN EmptyView = {} /\ IsFiniteSet({})
    BY FS_EmptySet DEF EmptyView
  <2>3. IsFiniteSet(DOMAIN ViewUpTo(EmptyView, blocks[h].txs, 0, Len(blocks[h].txs)))
    BY <1>0, <2>1, <2>2
  <2> QED BY <2>1, <2>3
<1>2. ASSUME NEW h \in Stored, NEW prev \in Stored, blocks[h].prev = prev, prev # NoBlock, prev \in T
      PROVE  h \in T
  <2>1. /\ blocks[h].view = ViewUpTo(blocks[prev].view, blocks[h].txs, blocks[h].height, Len(blocks[h].txs))
        /\ blocks[h].txs \in Seq(Tx)
    BY <1>2, ChildView, ChildOf
  <2>2. IsFiniteSet(DOMAIN blocks[prev].view)
    BY <1>2
  <2>3. IsFiniteSet(DOMAIN ViewUpTo(blocks[prev].view, blocks[h].txs, blocks[h].height, Len(blocks[h].txs)))
    BY <1>0, <2>1, <2>2
  <2> QED BY <2>1, <2>3
<1>3. \A h \in Stored : h \in T
  <2> HIDE DEF T
  <2> QED BY <1>1, <1>2, BranchInduction
<1> QED BY <1>3

LEMMA ValueUnion ==
    ASSUME NEW A, NEW B, IsFiniteSet(A), IsFiniteSet(B), Made(A), Made(B), A \cap B = {}
    PROVE  Value(A \cup B) = Value(A) + Value(B)
<1> DEFINE f == [op \in A \cup B |-> Amount(op)]
           a == [op \in A |-> Amount(op)]
           b == [op \in B |-> Amount(op)]
<1>1. \A op \in A \cup B : f[op] \in Int
  BY MadeAmount DEF Made
<1>2. \A op \in A : f[op] = a[op]
  OBVIOUS
<1>3. \A op \in B : f[op] = b[op]
  OBVIOUS
<1>4. /\ Value(A \cup B) = SumFunctionOnSet(f, A \cup B)
      /\ Value(A) = SumFunctionOnSet(a, A) /\ Value(B) = SumFunctionOnSet(b, B)
  BY DEF Value, SumFunction
<1> HIDE DEF f, a, b
<1>5. SumFunctionOnSet(f, A) = SumFunctionOnSet(a, A)
  BY <1>2, SumAgrees
<1>6. SumFunctionOnSet(f, B) = SumFunctionOnSet(b, B)
  BY <1>3, SumAgrees
<1>7. SumFunctionOnSet(f, A \cup B) = SumFunctionOnSet(f, A) + SumFunctionOnSet(f, B)
  BY <1>1, SumUnion
<1> QED BY <1>4, <1>5, <1>6, <1>7

\* A transaction that spends of U and makes what is not in U.
LEMMA ApplyWorth ==
    ASSUME NEW U, IsFiniteSet(U), Made(U), NEW t \in Tx, Spent(t) \subseteq U, Created(t) \cap U = {}
    PROVE  /\ IsFiniteSet(ApplyTx(U, t)) /\ Made(ApplyTx(U, t))
           /\ Value(ApplyTx(U, t)) = Value(U) - Value(Spent(t)) + Value(Created(t))
           /\ Value(U) \in Int /\ Value(Spent(t)) \in Int /\ Value(Created(t)) \in Int
<1> DEFINE rest == U \ Spent(t)
<1>1. IsFiniteSet(rest) /\ Made(rest) /\ IsFiniteSet(Spent(t)) /\ Made(Spent(t))
  BY FS_Difference, SpentFinite DEF Made
<1>2. IsFiniteSet(Created(t)) /\ Made(Created(t))
  BY CreatedFinite
<1>3. /\ rest \cup Created(t) = ApplyTx(U, t) /\ rest \cap Created(t) = {}
      /\ rest \cup Spent(t) = U /\ rest \cap Spent(t) = {}
  BY DEF ApplyTx
<1> HIDE DEF rest
<1>4. IsFiniteSet(rest \cup Created(t)) /\ Made(rest \cup Created(t))
  BY <1>1, <1>2, FS_Union DEF Made
<1>5. Value(rest \cup Created(t)) = Value(rest) + Value(Created(t))
  BY <1>1, <1>2, <1>3, ValueUnion
<1>6. Value(rest \cup Spent(t)) = Value(rest) + Value(Spent(t))
  BY <1>1, <1>3, ValueUnion
<1>7. Value(rest) \in Int /\ Value(Spent(t)) \in Int
  BY <1>1, ValueType
<1>8. Value(Created(t)) \in Int
  BY <1>2, ValueType
<1>9. Value(U) \in Int
  BY ValueType
<1>10. /\ Value(ApplyTx(U, t)) = Value(rest) + Value(Created(t))
       /\ Value(U) = Value(rest) + Value(Spent(t))
       /\ IsFiniteSet(ApplyTx(U, t)) /\ Made(ApplyTx(U, t))
  BY <1>3, <1>4, <1>5, <1>6, Zenon
<1> QED BY <1>7, <1>8, <1>9, <1>10

\* What the claims of the first transactions mint, and the fees they pay.
Mints(txs) == [i \in 2..Len(txs) |-> IF IsClaim(txs[i]) THEN Value(Created(txs[i])) ELSE 0]
Pays(txs)  == [i \in 2..Len(txs) |-> Body[txs[i]].fee]

LEMMA MintsAndPays ==
    ASSUME NEW txs \in Seq(Tx)
    PROVE  /\ \A i \in 2..Len(txs) : Mints(txs)[i] \in Int /\ Pays(txs)[i] \in Int
           /\ MintedBy(txs) = SumFunctionOnSet(Mints(txs), 2..Len(txs))
           /\ FeesOf(txs) = SumFunctionOnSet(Pays(txs), 2..Len(txs))
<1> DEFINE D == 2..Len(txs)
           I == Claims(txs)
           R == D \ I
           m == Mints(txs)
           e == [i \in I |-> Value(Created(txs[i]))]
<1>1. /\ Len(txs) \in Nat /\ \A i \in D : txs[i] \in Tx
      /\ I \subseteq D /\ \A i \in D : i \in I <=> IsClaim(txs[i])
  BY DEF Claims
<1>2. \A i \in D : m[i] \in Int /\ Pays(txs)[i] \in Int
  BY <1>1, CreatedWorth, AmountsAssumption DEF Mints, Pays
<1>3. FeesOf(txs) = SumFunctionOnSet(Pays(txs), D)
  BY DEF FeesOf, Pays, SumFunction
<1>4. MintedBy(txs) = SumFunctionOnSet(e, I)
  BY DEF MintedBy, SumFunction
<1>5. \A i \in I : e[i] = m[i]
  BY <1>1 DEF Mints
<1>6. \A i \in R : m[i] = 0
  BY <1>1 DEF Mints
<1>7. IsFiniteSet(D)
  BY <1>1, FS_Interval
<1>8. I \cup R = D /\ I \cap R = {}
  BY <1>1
<1> HIDE DEF D, I, m, e, R
<1>9. IsFiniteSet(I) /\ IsFiniteSet(R)
  BY <1>7, <1>8, FS_Subset
<1>10. SumFunctionOnSet(e, I) = SumFunctionOnSet(m, I) /\ SumFunctionOnSet(m, R) = 0
  BY <1>5, <1>6, <1>9, SumAgrees, SumOfZeros
<1>11. SumFunctionOnSet(m, I \cup R) = SumFunctionOnSet(m, I) + SumFunctionOnSet(m, R)
  BY <1>2, <1>8, <1>9, SumUnion
<1>12. SumFunctionOnSet(m, I) \in Int
  BY <1>2, <1>8, <1>9, SumType
<1>13. MintedBy(txs) = SumFunctionOnSet(m, D)
  <2>1. SumFunctionOnSet(m, I \cup R) = SumFunctionOnSet(m, D)
    BY <1>8, Zenon
  <2> QED BY <1>4, <1>10, <1>11, <1>12, <2>1
<1> QED BY <1>2, <1>3, <1>13 DEF D, m

\* The outputs after the first n transactions.
LEMMA CandidateWorth ==
    ASSUME SoundInv, best # NoBlock, NEW txs, Candidate(txs)
    PROVE  Value(DOMAIN ViewUpTo(blocks[best].view, txs, BlockCount, Len(txs)))
              = Value(utxos) + Value(Created(txs[1])) + MintedBy(txs) - FeesOf(txs)
<1> DEFINE view  == blocks[best].view
           In(n) == DOMAIN ViewUpTo(view, txs, BlockCount, n)
           m     == Mints(txs)
           f     == Pays(txs)
           Worth(n) == /\ IsFiniteSet(In(n)) /\ Made(In(n))
                       /\ Value(In(n)) = Value(utxos) + Value(Created(txs[1]))
                                           + SumFunctionOnSet(m, 2..n) - SumFunctionOnSet(f, 2..n)
           T == {n \in Nat : 1 <= n /\ n <= Len(txs) => Worth(n)}
<1>1. /\ utxos = DOMAIN view /\ best \in Stored
      /\ Len(txs) \in Nat /\ Len(txs) >= 1 /\ \A i \in 1..Len(txs) : txs[i] \in Tx
      /\ Spent(txs[1]) = {} /\ txs \in Seq(Tx)
  BY HeadIs, CandidateFacts DEF Candidate
<1>2. IsFiniteSet(utxos) /\ Made(utxos) /\ Value(utxos) \in Int
  <2>1. IsFiniteSet(utxos) /\ Made(utxos)
    BY <1>1, ViewFinite, Origins DEF OriginsRight, Made
  <2> QED BY <2>1, ValueType
<1>3. In(0) = utxos /\ \A n \in Nat : In(n + 1) = ApplyTx(In(n), txs[n + 1])
  BY <1>1, ViewUpToNone, OneMoreTx
\* What a transaction spends is there, and what it makes is not.
<1>4. ASSUME NEW n \in Nat, n + 1 <= Len(txs)
      PROVE  Spent(txs[n + 1]) \subseteq In(n) /\ Created(txs[n + 1]) \cap In(n) = {}
  <2>1. /\ n + 1 \in 1..Len(txs)
        /\ \A j \in 1..n : j \in 1..Len(txs) /\ j # n + 1
    BY <1>1, <1>4
  <2>2. ASSUME NEW op \in Spent(txs[n + 1])
        PROVE  op \in In(n)
    <3>1. n + 1 \in 2..Len(txs) /\ ~IsClaim(txs[n + 1])
      BY <1>1, <2>1, <2>2, CandidateFacts
    <3>2. ValidTx(txs[n + 1], utxos, view, claims, BlockCount, review)
      BY <3>1, CandidateFacts
    <3>3. op \in utxos
      BY <2>2, <3>1, <3>2 DEF ValidTx, ValidTransfer
    <3>4. \A j \in 1..n : op \notin Spent(txs[j]) /\ op \notin Created(txs[j])
      <4> SUFFICES ASSUME NEW j \in 1..n
                   PROVE  op \notin Spent(txs[j]) /\ op \notin Created(txs[j])
        OBVIOUS
      <4>1. Spent(txs[n + 1]) \cap Spent(txs[j]) = {} /\ op \notin Created(txs[j])
        BY <2>1, <3>3, CandidateFacts
      <4> QED BY <2>2, <4>1
    <3> QED BY <1>1, <3>3, <3>4, StaysInView
  <2>3. ASSUME NEW op \in In(n), op \in Created(txs[n + 1])
        PROVE  FALSE
    <3>1. CASE \E i \in 1..n : op \in Created(txs[i])
      <4>1. PICK i \in 1..n : op \in Created(txs[i])
        BY <3>1
      <4>2. txs[i] = op[1] /\ txs[n + 1] = op[1]
        BY <2>3, <4>1 DEF Created
      <4> QED BY <2>1, <4>1, <4>2, CandidateFacts
    <3>2. CASE op \in DOMAIN view
      BY <1>1, <2>1, <2>3, <3>2, CandidateFacts
    <3> QED BY <2>3, <3>1, <3>2, ViewHas
  <2> QED BY <2>2, <2>3
<1>5. 0 \in T
  OBVIOUS
<1> HIDE DEF In, m, f
<1>6. Worth(1)
  <2>1. Spent(txs[1]) \subseteq In(0) /\ Created(txs[1]) \cap In(0) = {} /\ In(1) = ApplyTx(In(0), txs[1])
    <3>1. 0 \in Nat /\ 0 + 1 = 1 /\ 0 + 1 <= Len(txs)
      BY <1>1
    <3> QED BY <1>3, <1>4, <3>1
  <2>2. txs[1] \in Tx /\ 2..1 = {}
    BY <1>1
  <2>3. /\ IsFiniteSet(In(1)) /\ Made(In(1))
        /\ Value(In(1)) = Value(utxos) - Value(Spent(txs[1])) + Value(Created(txs[1]))
        /\ Value(Created(txs[1])) \in Int
    BY <1>2, <1>3, <2>1, <2>2, ApplyWorth
  <2>4. Value(Spent(txs[1])) = 0
    <3> DEFINE e == [op \in {} |-> Amount(op)]
    <3>1. Value({}) = SumFunctionOnSet(e, {})
      BY DEF Value, SumFunction
    <3> HIDE DEF e
    <3> QED BY <1>1, <3>1, SumOfNone
  <2>5. SumFunctionOnSet(m, 2..1) = 0 /\ SumFunctionOnSet(f, 2..1) = 0
    BY <2>2, SumOfNone
  <2> QED BY <1>2, <2>3, <2>4, <2>5
<1>7. ASSUME NEW n \in Nat, n \in T
      PROVE  n + 1 \in T
  <2>1. CASE n = 0
    BY <1>6, <2>1
  <2>2. CASE n > 0 /\ n + 1 <= Len(txs)
    <3> DEFINE x == txs[n + 1]
               D == 2..n
    <3>1. Worth(n) /\ x \in Tx /\ n + 1 \in 2..Len(txs)
      BY <1>1, <1>7, <2>2
    <3>2. /\ IsFiniteSet(In(n + 1)) /\ Made(In(n + 1))
          /\ Value(In(n + 1)) = Value(In(n)) - Value(Spent(x)) + Value(Created(x))
          /\ Value(In(n)) \in Int /\ Value(Spent(x)) \in Int /\ Value(Created(x)) \in Int
      BY <1>3, <1>4, <2>2, <3>1, ApplyWorth
    <3>3. /\ \A i \in D \cup {n + 1} : m[i] \in Int /\ f[i] \in Int
          /\ IsFiniteSet(D) /\ n + 1 \notin D /\ D \cup {n + 1} = 2..(n + 1)
      <4>1. IsFiniteSet(2..n)
        BY FS_Interval
      <4>2. \A i \in 2..(n + 1) : i \in 2..Len(txs)
        BY <1>1, <2>2
      <4>3. n + 1 \notin D /\ D \cup {n + 1} = 2..(n + 1)
        BY <2>2
      <4> QED BY <1>1, <4>1, <4>2, <4>3, MintsAndPays DEF m, f
    <3>4. m[n + 1] - f[n + 1] = Value(Created(x)) - Value(Spent(x))
      <4>1. ValidTx(x, utxos, view, claims, BlockCount, review) /\ (IsClaim(x) \/ Exact(x))
        BY <3>1, CandidateFacts DEF Candidate
      <4>2. m[n + 1] = (IF IsClaim(x) THEN Value(Created(x)) ELSE 0) /\ f[n + 1] = Body[x].fee
        BY <3>1 DEF m, f, Mints, Pays
      <4>3. Body[x].fee \in Int
        BY <3>1, AmountsAssumption
      <4>4. CASE IsClaim(x)
        <5>1. Body[x].fee = 0 /\ Spent(x) = {}
          BY <3>1, <4>1, <4>4, CandidateFacts DEF ValidTx, ValidClaim
        <5>2. Value(Spent(x)) = 0
          <6> DEFINE e == [op \in {} |-> Amount(op)]
          <6>1. Value({}) = SumFunctionOnSet(e, {})
            BY DEF Value, SumFunction
          <6> HIDE DEF e
          <6> QED BY <5>1, <6>1, SumOfNone
        <5> HIDE DEF x
        <5> QED BY <3>2, <4>2, <4>4, <5>1, <5>2
      <4>5. CASE ~IsClaim(x)
        <5>1. Value(Created(x)) + Body[x].fee = Value(Spent(x))
          BY <4>1, <4>5 DEF Exact
        <5> HIDE DEF x
        <5> QED BY <3>2, <4>2, <4>3, <4>5, <5>1
      <4> QED BY <4>4, <4>5
    <3> HIDE DEF D, x, Worth
    <3>5. /\ SumFunctionOnSet(m, D \cup {n + 1}) = SumFunctionOnSet(m, D) + m[n + 1]
          /\ SumFunctionOnSet(f, D \cup {n + 1}) = SumFunctionOnSet(f, D) + f[n + 1]
          /\ SumFunctionOnSet(m, D) \in Int /\ SumFunctionOnSet(f, D) \in Int
      <4>0. /\ \A i \in D \cup {n + 1} : m[i] \in Int
            /\ \A i \in D \cup {n + 1} : f[i] \in Int
            /\ IsFiniteSet(D) /\ n + 1 \notin D
        BY <3>3
      <4>1. SumFunctionOnSet(m, D \cup {n + 1}) = SumFunctionOnSet(m, D) + m[n + 1]
        BY <4>0, SumAdd
      <4>2. SumFunctionOnSet(f, D \cup {n + 1}) = SumFunctionOnSet(f, D) + f[n + 1]
        BY <4>0, SumAdd
      <4>3. SumFunctionOnSet(m, D) \in Int
        BY <3>3, SumType
      <4>4. SumFunctionOnSet(f, D) \in Int
        BY <3>3, SumType
      <4> QED BY <4>1, <4>2, <4>3, <4>4
    <3>6. Value(In(n)) = Value(utxos) + Value(Created(txs[1]))
                           + SumFunctionOnSet(m, D) - SumFunctionOnSet(f, D)
      BY <3>1 DEF Worth, D
    <3>7. Value(Created(txs[1])) \in Int /\ m[n + 1] \in Int /\ f[n + 1] \in Int
      <4>1. txs[1] \in Tx
        BY <1>1
      <4>2. Value(Created(txs[1])) \in Int
        BY <4>1, CreatedWorth
      <4> QED BY <3>3, <4>2
    <3>8. Value(In(n + 1)) = Value(utxos) + Value(Created(txs[1]))
                           + SumFunctionOnSet(m, D \cup {n + 1}) - SumFunctionOnSet(f, D \cup {n + 1})
      BY <1>2, <3>2, <3>4, <3>5, <3>6, <3>7
    <3>9. Worth(n + 1)
      BY <3>2, <3>3, <3>8 DEF Worth
    <3> QED BY <3>9
  <2>3. CASE ~ (n + 1 <= Len(txs))
    BY <2>3
  <2> QED BY <2>1, <2>2, <2>3
<1>8. \A n \in Nat : n \in T
  <2> HIDE DEF T
  <2> QED BY <1>5, <1>7, InductionOnNat
<1>9. Worth(Len(txs))
  BY <1>1, <1>8
<1> QED BY <1>1, <1>9, MintsAndPays DEF In, m, f

\* Such a block is valid, if it pays the right reward and the caps have room for its claims.
LEMMA CandidateMines ==
    ASSUME SoundInv, best # NoBlock, NEW txs, Candidate(txs), RewardExact(txs, BlockCount),
           WithinCaps(NextSupply(txs)), EpochHasRoom(txs)
    PROVE  ValidBlock(best, txs)
<1>1. /\ best \in Stored /\ utxos = DOMAIN blocks[best].view /\ NextHeight(best) = BlockCount
      /\ SupplyIs(best) /\ BlockCount \in Nat
  BY HeadIs DEF NextHeight
<1>2. Subsidy(BlockCount) \in Int
  <2>1. BlockCount \in 0..Cardinality(Hash)
    BY HeadIs, HeightBounded, SubsidyAssumption, FS_CardinalityType
  <2> QED BY <2>1, SubsidyAssumption
<1>3. MintedBy(txs) \in Int /\ FeesOf(txs) \in Int
  <2>1. txs \in Seq(Tx) /\ IsFiniteSet(2..Len(txs))
    BY FS_Interval DEF Candidate
  <2> DEFINE D == 2..Len(txs)
  <2>2. IsFiniteSet(D) /\ \A i \in D : Pays(txs)[i] \in Int
    BY <2>1, MintsAndPays
  <2>3. FeesOf(txs) = SumFunctionOnSet(Pays(txs), D)
    BY <2>1, MintsAndPays
  <2> HIDE DEF D
  <2> QED BY <2>1, <2>2, <2>3, MintedType, SumType
<1>4. Reconciles(ViewAfter(blocks[best].view, txs, BlockCount), NextSupply(txs))
  <2>1. blocks[best].supply \in Supply /\ Value(utxos) = Total(blocks[best].supply)
    BY <1>1 DEF SupplyIs
  <2>2. /\ NextSupply(txs).genesis = blocks[best].supply.genesis
        /\ NextSupply(txs).subsidy = blocks[best].supply.subsidy + Subsidy(BlockCount)
        /\ NextSupply(txs).minted = blocks[best].supply.minted + MintedBy(txs)
    BY <1>2, <1>3, <2>1, IssueAdds DEF NextSupply
  <2>3. Value(Created(txs[1])) = Subsidy(BlockCount) + FeesOf(txs)
    BY DEF RewardExact
  <2>4. Value(DOMAIN ViewUpTo(blocks[best].view, txs, BlockCount, Len(txs)))
          = Value(utxos) + Value(Created(txs[1])) + MintedBy(txs) - FeesOf(txs)
    BY CandidateWorth
  <2>5. Value(DOMAIN ViewUpTo(blocks[best].view, txs, BlockCount, Len(txs))) = Total(NextSupply(txs))
    <3> DEFINE old == blocks[best].supply
               new == NextSupply(txs)
    <3>1. old.genesis \in Int /\ old.subsidy \in Int /\ old.minted \in Int
      BY <2>1 DEF Supply
    <3>2. Value(utxos) = old.genesis + old.subsidy + old.minted
      BY <2>1 DEF Total
    <3>3. Total(new) = new.genesis + new.subsidy + new.minted
      BY DEF Total
    <3> HIDE DEF old, new
    <3>4. /\ new.genesis = old.genesis /\ new.subsidy = old.subsidy + Subsidy(BlockCount)
          /\ new.minted = old.minted + MintedBy(txs)
      BY <2>2 DEF old, new
    <3>5. Value(DOMAIN ViewUpTo(blocks[best].view, txs, BlockCount, Len(txs))) = Total(new)
      BY <1>2, <1>3, <2>3, <2>4, <3>1, <3>2, <3>3, <3>4
    <3> QED BY <3>5 DEF new
  <2> QED BY <2>5 DEF Reconciles, ViewAfter
<1>5. ValidInOrder(blocks[best], txs, BlockCount, review)
  BY CandidateInOrder
<1>6. ValidBlockOn(blocks[best], txs, BlockCount, EpochMinted(PathTo(best), BlockCount), review)
  BY <1>4, <1>5 DEF ValidBlockOn, Candidate, EpochHasRoom, NextSupply
<1> QED BY <1>1, <1>6 DEF ValidBlock

(***************************************************************************)
(* The mempool of a node that makes its own blocks, one request at a time: *)
(* what is pending can be mined.                                           *)
(***************************************************************************)

\* A node without blocks of peers and reviews, and with claims that stay open.
LocalOnly == OneHandler /\ ~PeerBlocks /\ ~Reviews /\ ~ (ClaimEnd > 0)

OncePerBranch ==
    \A h \in Stored : \A b, c \in PathTo(h) :
        b # c => ToSet(blocks[b].txs) \cap ToSet(blocks[c].txs) = {}

PendingMineable ==
    \A x \in pending : ValidAtHead(x) /\ (best # NoBlock => x \notin Included(best))

\* A block of the head, made of pending transactions that its branch does not have.
Extends(prev, txs) ==
    /\ prev = best
    /\ \A i \in 2..Len(txs) : txs[i] \in pending
    /\ best # NoBlock => ToSet(txs) \cap Included(best) = {}

LocalJob(j) ==
    /\ j.at \in {"conflict", "save"} => ValidAtHead(j.tx)
    /\ j.at \in {"queue", "build"} => j.head = best
    /\ j.at = "build" => ToSet(j.queue) \subseteq pending
    /\ j.at = "store" => Extends(j.prev, j.txs)
    /\ j.at \in {"select", "apply"} => Extends(blocks[j.hash].prev, blocks[j.hash].txs)

LocalInv ==
    /\ SoundInv /\ MempoolInv
    /\ OncePerBranch /\ PendingMineable
    /\ \A t \in Threads : LocalJob(job[t])

\* A claim of a source that the branch has not claimed is not on the branch.
LEMMA ClaimIsNew ==
    ASSUME SoundInv, best # NoBlock, NEW x \in Tx, IsClaim(x), Body[x].source \notin claims
    PROVE  x \notin Included(best)
<1> SUFFICES ASSUME NEW b \in PathTo(best), x \in ToSet(blocks[b].txs)
             PROVE  FALSE
  BY DEF Included
<1>1. best \in Stored /\ b \in Stored /\ claims = blocks[best].claimed
  BY HeadIs, Branching
<1>2. Body[x].source \in ClaimedBy(blocks[b].txs)
  BY <1>1, ClaimIsCounted
<1>3. ClaimedBy(blocks[b].txs) \subseteq blocks[best].claimed
  BY <1>1 DEF SoundInv, IInv, ChecksStillHold, ClaimsCovered
<1> QED BY <1>1, <1>2, <1>3

\* What is valid on the head is not on its branch: a claim would be counted there, and what a
\* transfer spends would be gone.
LEMMA ValidIsNew ==
    ASSUME SoundInv, OncePerBranch, best # NoBlock, NEW x \in Tx, ValidAtHead(x)
    PROVE  x \notin Included(best)
<1> SUFFICES ASSUME NEW b \in PathTo(best), x \in ToSet(blocks[b].txs)
             PROVE  FALSE
  BY DEF Included
<1>1. /\ best \in Stored /\ b \in Stored /\ utxos = DOMAIN blocks[best].view
      /\ claims = blocks[best].claimed
  BY HeadIs, Branching
<1>2. CASE IsClaim(x)
  <2>1. Body[x].source \notin claims
    BY <1>2 DEF ValidAtHead, ValidTx, ValidClaim
  <2>2. x \in Included(best)
    BY <1>1 DEF Included
  <2> QED BY <1>2, <2>1, <2>2, ClaimIsNew
<1>3. CASE ~IsClaim(x)
  <2>1. Body[x].ins # <<>> /\ \A op \in Spent(x) : op \in utxos
    BY <1>3 DEF ValidAtHead, ValidTx, ValidTransfer
  <2>2. PICK op \in Spent(x) : TRUE
    <3>1. Body[x].ins \in Seq(Outpoint)
      BY AmountsAssumption
    <3>2. 1 \in DOMAIN Body[x].ins
      BY <2>1, <3>1, NonEmpty
    <3> QED BY <3>2 DEF Spent
  <2>3. op \in Spent(x) \cap DOMAIN blocks[best].view
    BY <1>1, <2>1, <2>2
  <2>4. PaidTwice(op, PathTo(best))
    BY <1>1, <2>3, SpentIsGone
  <2>5. PICK c, d \in PathTo(best) : c # d /\ op[1] \in ToSet(blocks[c].txs) \cap ToSet(blocks[d].txs)
    BY <2>4 DEF PaidTwice
  <2> QED BY <1>1, <2>5 DEF OncePerBranch
<1> QED BY <1>2, <1>3

LEMMA QueueIsPending ==
    ASSUME SoundInv, NEW queue \in Queues
    PROVE  queue \in Seq(Tx) /\ ToSet(queue) \subseteq pending
<1>1. PICK n \in 0..MaxPerBlock : queue \in [1..n -> pending]
  BY DEF Queues
<1> QED BY <1>1, QueuesType DEF SoundInv, ToSet

\* A block of a reward and of a queue.
LEMMA RewardFirst ==
    ASSUME NEW r \in Tx, NEW q \in Seq(Tx)
    PROVE  /\ <<r>> \o q \in Seq(Tx) /\ Len(<<r>> \o q) = Len(q) + 1 /\ (<<r>> \o q)[1] = r
           /\ \A i \in 2..Len(<<r>> \o q) : i - 1 \in 1..Len(q) /\ (<<r>> \o q)[i] = q[i - 1]
           /\ ToSet(<<r>> \o q) = {r} \cup ToSet(q)
<1>1. /\ <<r>> \o q \in Seq(Tx) /\ Len(<<r>> \o q) = Len(q) + 1 /\ (<<r>> \o q)[1] = r
      /\ \A i \in 2..Len(<<r>> \o q) : i - 1 \in 1..Len(q) /\ (<<r>> \o q)[i] = q[i - 1]
  OBVIOUS
<1>2. ToSet(<<r>> \o q) = {r} \cup ToSet(q)
  <2> DEFINE txs == <<r>> \o q
  <2>1. txs \in Seq(Tx) /\ Len(q) \in Nat /\ \A i \in 1..Len(q) : i + 1 \in 1..Len(txs) /\ txs[i + 1] = q[i]
    OBVIOUS
  <2>2. 1 \in 1..Len(txs) /\ txs[1] = r
    OBVIOUS
  <2>3. \A i \in 1..Len(txs) : i = 1 \/ (i - 1 \in 1..Len(q) /\ txs[i] = q[i - 1])
    BY <1>1
  <2> HIDE DEF txs
  <2>4. \A x \in ToSet(txs) : x \in {r} \cup ToSet(q)
    <3> SUFFICES ASSUME NEW x \in ToSet(txs) PROVE x \in {r} \cup ToSet(q)
      OBVIOUS
    <3>1. PICK i \in 1..Len(txs) : x = txs[i]
      BY <2>1, ToSetHas
    <3>2. CASE i = 1
      BY <2>2, <3>1, <3>2
    <3>3. CASE i - 1 \in 1..Len(q) /\ txs[i] = q[i - 1]
      <4>1. q[i - 1] \in ToSet(q)
        BY <3>3, ToSetHas
      <4> QED BY <3>1, <3>3, <4>1
    <3> QED BY <2>3, <3>2, <3>3
  <2>5. \A x \in {r} \cup ToSet(q) : x \in ToSet(txs)
    BY <2>1, <2>2, ToSetHas
  <2> QED BY <2>4, <2>5 DEF txs
<1> QED BY <1>1, <1>2

\* Rewards are new.
LEMMA RewardIsNew ==
    ASSUME SoundInv, NEW h \in Stored, NEW head, NEW queue, NEW r \in Rewards(head, queue)
    PROVE  r \in Tx /\ r \notin Included(h) /\ IsReward(r) /\ RewardExact(<<r>> \o queue, NextHeight(head))
<1>1. PathTo(h) \subseteq Stored
  BY DEF SoundInv, IInv, OneBlockPerHeight
<1> QED BY <1>1 DEF Rewards, UsedTxs, Included

(* The steps of a submission. *)

\* The head is where it was, and what is pending too.
SameHead == UNCHANGED <<blocks, utxos, claims, best, review>>

LEMMA SameAtHead ==
    ASSUME SameHead
    PROVE  /\ \A x : ValidAtHead(x)' <=> ValidAtHead(x)
           /\ Stored' = Stored /\ OncePerBranch' <=> OncePerBranch
           /\ \A h : Included(h)' = Included(h)
BY DEF SameHead, ValidAtHead, HeadView, BlockCount, Stored, OncePerBranch, Included, PathTo

LEMMA JobKept ==
    ASSUME SameHead, pending \subseteq pending', NEW t, job'[t] = job[t], LocalJob(job[t])
    PROVE  LocalJob(job[t])'
<1>1. \A txs : Included(best)' = Included(best)
  BY SameAtHead DEF SameHead
<1>2. \A prev, txs : Extends(prev, txs) => Extends(prev, txs)'
  BY <1>1 DEF Extends, SameHead
<1>3. \A h : blocks'[h] = blocks[h]
  BY DEF SameHead
<1>4. \A x : ValidAtHead(x)' <=> ValidAtHead(x)
  BY SameAtHead
<1> QED BY <1>2, <1>3, <1>4 DEF LocalJob, SameHead

LEMMA LocalReads ==
    ASSUME LocalOnly, LocalInv, NEW t \in Threads,
           \/ Submit(t) \/ ReadUtxos(t) \/ Check(t) \/ CheckConflicts(t) \/ CreateGenesis(t)
           \/ Mine(t) \/ ReadPending(t) \/ Build(t) \/ SelectBestChain(t)
    PROVE  UNCHANGED tables /\ LocalJob(job[t])'
<1> USE DEF Goto, Done, Idle, At
<1>0. job \in [Threads -> Job] /\ job[t] \in Job /\ LocalJob(job[t]) /\ SubmitFits(job[t])
  BY DEF LocalInv, SoundInv, IInv, TypeOK, MempoolInv
<1>1. UNCHANGED tables
  BY DEF Submit, ReadUtxos, Check, CheckConflicts, CreateGenesis, Mine, ReadPending, Build, SelectBestChain
<1>2. /\ SameHead /\ pending' = pending /\ best' = best
      /\ \A x : ValidAtHead(x)' <=> ValidAtHead(x)
      /\ Included(best)' = Included(best) /\ blocks' = blocks
  BY <1>1, SameAtHead DEF tables, SameHead
<1>3. \A j : job' = [job EXCEPT ![t] = j] => job'[t] = j
  BY <1>0
<1>4. job'[t].at \in {"idle", "view", "check"} => LocalJob(job[t])'
  BY DEF LocalJob
<1>5. CASE Submit(t)
  <2>1. job'[t].at \in {"idle", "view"}
    BY <1>0, <1>5 DEF Submit
  <2> QED BY <1>1, <1>4, <2>1
<1>6. CASE ReadUtxos(t)
  BY <1>1, <1>3, <1>4, <1>6 DEF ReadUtxos
<1>7. CASE Check(t)
  <2>1. CASE Admissible(job[t].tx, job[t].unspent)
    <3>1. job[t].at = "check" /\ job'[t] = [at |-> "conflict", tx |-> job[t].tx]
      BY <1>3, <1>7, <2>1 DEF Check
    <3>2. job[t].unspent = utxos
      BY <1>0, <3>1 DEF SubmitFits
    <3>3. ValidAtHead(job[t].tx)
      BY <2>1, <3>2 DEF Admissible, ValidAtHead, HeadView
    <3> QED BY <1>1, <1>2, <3>1, <3>3 DEF LocalJob
  <2>2. CASE ~Admissible(job[t].tx, job[t].unspent)
    BY <1>1, <1>3, <1>4, <1>7, <2>2 DEF Check
  <2> QED BY <2>1, <2>2
<1>8. CASE CheckConflicts(t)
  <2>1. CASE \E y \in pending : Conflict(job[t].tx, y)
    BY <1>1, <1>3, <1>4, <1>8, <2>1 DEF CheckConflicts
  <2>2. CASE ~ \E y \in pending : Conflict(job[t].tx, y)
    <3>1. job[t].at = "conflict" /\ job'[t] = [at |-> "save", tx |-> job[t].tx]
      BY <1>3, <1>8, <2>2 DEF CheckConflicts
    <3>2. ValidAtHead(job[t].tx)
      BY <1>0, <3>1 DEF LocalJob
    <3> QED BY <1>1, <1>2, <3>1, <3>2 DEF LocalJob
  <2> QED BY <2>1, <2>2
<1>9. CASE CreateGenesis(t)
  <2>1. /\ best = NoBlock
        /\ job'[t] = [at |-> "store", hash |-> GenesisHash, prev |-> NoBlock,
                      txs |-> <<GenesisTx>>, local |-> TRUE]
    BY <1>3, <1>9 DEF CreateGenesis
  <2>2. Len(<<GenesisTx>>) = 1 /\ 2..1 = {}
    OBVIOUS
  <2>3. Extends(NoBlock, <<GenesisTx>>)'
    BY <1>2, <2>1, <2>2 DEF Extends
  <2> QED BY <1>1, <2>1, <2>3 DEF LocalJob
<1>10. CASE Mine(t)
  BY <1>1, <1>2, <1>3, <1>10 DEF Mine, LocalJob
<1>11. CASE ReadPending(t)
  <2>1. PICK queue \in Queues : job'[t] = [at |-> "build", head |-> job[t].head, queue |-> queue]
    BY <1>3, <1>11 DEF ReadPending
  <2>2. ToSet(queue) \subseteq pending /\ job[t].head = best
    BY <1>0, <1>11, QueueIsPending DEF ReadPending, LocalJob, LocalInv
  <2> QED BY <1>1, <1>2, <2>1, <2>2 DEF LocalJob
<1>12. CASE Build(t)
  <2>1. CASE Done(t)
    <3>1. job'[t].at = "idle"
      BY <1>0, <2>1
    <3> QED BY <1>1, <1>4, <3>1
  <2>2. CASE ~Done(t)
    <3> DEFINE q == job[t].queue
    <3>1. PICK r, h :
             /\ r \in Rewards(job[t].head, q)
             /\ job'[t] = [at |-> "store", hash |-> h, prev |-> job[t].head,
                           txs |-> <<r>> \o q, local |-> FALSE]
      BY <1>3, <1>12, <2>2 DEF Build
    <3>2. /\ job[t].head = best /\ ToSet(q) \subseteq pending /\ q \in Seq(Tx) /\ best # NoBlock
          /\ SoundInv
      BY <1>0, <1>12, ChainNodeAssumption DEF Build, LocalJob, LocalInv, Job
    <3> HIDE DEF q
    <3>3. /\ r \in Tx /\ r \notin Included(best)
      BY <3>1, <3>2, HeadIs, RewardIsNew
    <3>4. /\ ToSet(<<r>> \o q) = {r} \cup ToSet(q)
          /\ \A i \in 2..Len(<<r>> \o q) : (<<r>> \o q)[i] \in ToSet(q)
      <4>1. \A i \in 2..Len(<<r>> \o q) : i - 1 \in 1..Len(q) /\ (<<r>> \o q)[i] = q[i - 1]
        BY <3>2, <3>3, RewardFirst
      <4>2. \A i \in 1..Len(q) : q[i] \in ToSet(q)
        BY <3>2, ToSetHas
      <4> QED BY <3>2, <3>3, <4>1, <4>2, RewardFirst
    <3>5. \A x \in ToSet(q) : x \notin Included(best)
      BY <3>2 DEF LocalInv, PendingMineable
    <3>6. Extends(best, <<r>> \o q)
      BY <3>2, <3>3, <3>4, <3>5 DEF Extends
    <3>7. job'[t].at = "store" /\ job'[t].prev = best /\ job'[t].txs = <<r>> \o q
      BY <3>1, <3>2
    <3>8. Extends(job[t].prev, job[t].txs)'
      BY <1>2, <3>6, <3>7 DEF Extends
    <3> QED BY <1>1, <3>7, <3>8 DEF LocalJob
  <2> QED BY <2>1, <2>2
<1>13. CASE SelectBestChain(t)
  <2>1. CASE Better(job[t].hash, best)
    <3>1. job[t].at = "select" /\ job'[t] = [at |-> "apply", hash |-> job[t].hash]
      BY <1>3, <1>13, <2>1 DEF SelectBestChain
    <3>2. Extends(blocks[job[t].hash].prev, blocks[job[t].hash].txs)
      BY <1>0, <3>1 DEF LocalJob
    <3>3. \A prev, txs : Extends(prev, txs)' <=> Extends(prev, txs)
      BY <1>2 DEF Extends
    <3> QED BY <1>1, <1>2, <3>1, <3>2, <3>3 DEF LocalJob
  <2>2. CASE ~Better(job[t].hash, best)
    BY <1>1, <1>3, <1>4, <1>13, <2>2 DEF SelectBestChain
  <2> QED BY <2>1, <2>2
<1> QED BY <1>5, <1>6, <1>7, <1>8, <1>9, <1>10, <1>11, <1>12, <1>13

LEMMA LocalSaves ==
    ASSUME LocalOnly, LocalInv, NEW t \in Threads, SavePending(t)
    PROVE  OncePerBranch' /\ PendingMineable' /\ LocalJob(job[t])'
<1> USE DEF Goto, Done, Idle, At
<1>0. job \in [Threads -> Job] /\ job[t] \in Job /\ LocalJob(job[t])
  BY DEF LocalInv, SoundInv, IInv, TypeOK
<1>1. /\ job[t].at = "save" /\ pending' = pending \cup {job[t].tx} /\ SameHead
      /\ job' = [job EXCEPT ![t] = [at |-> "idle"]]
  BY DEF SavePending, SameHead
<1>2. job[t].tx \in Tx /\ ValidAtHead(job[t].tx)
  BY <1>0, <1>1, ChainNodeAssumption DEF Job, LocalJob
<1>3. \A x \in pending' : ValidAtHead(x) /\ (best # NoBlock => x \notin Included(best))
  BY <1>1, <1>2, ValidIsNew DEF LocalInv, PendingMineable
<1>4. /\ \A x : ValidAtHead(x)' <=> ValidAtHead(x)
      /\ Included(best)' = Included(best) /\ best' = best
  BY <1>1, SameAtHead DEF SameHead
<1>5. PendingMineable'
  BY <1>3, <1>4 DEF PendingMineable
<1>6. OncePerBranch'
  BY <1>1, SameAtHead DEF LocalInv
<1>7. job'[t] = [at |-> "idle"]
  BY <1>0, <1>1
<1> QED BY <1>5, <1>6, <1>7 DEF LocalJob

LEMMA LocalStores ==
    ASSUME LocalOnly, LocalInv, NEW t \in Threads, StoreBlock(t)
    PROVE  OncePerBranch' /\ PendingMineable' /\ LocalJob(job[t])'
<1> USE DEF Goto, Done, Idle, At
<1>0. job \in [Threads -> Job] /\ job[t] \in Job /\ LocalJob(job[t]) /\ SoundInv /\ IInv
  BY DEF LocalInv, SoundInv, IInv, TypeOK
<1>1. CASE job[t].hash \in Stored
  <2>1. SameHead /\ job' = [job EXCEPT ![t] = [at |-> "idle"]] /\ pending' = pending
    BY <1>1 DEF StoreBlock, SameHead
  <2>2. job'[t] = [at |-> "idle"]
    BY <1>0, <2>1
  <2>3. /\ \A x : ValidAtHead(x)' <=> ValidAtHead(x)
        /\ Included(best)' = Included(best) /\ best' = best
        /\ OncePerBranch'
    BY <2>1, SameAtHead DEF SameHead, LocalInv
  <2>4. PendingMineable'
    BY <2>1, <2>3 DEF PendingMineable, LocalInv
  <2> QED BY <2>2, <2>3, <2>4 DEF LocalJob
<1>2. CASE job[t].hash \notin Stored
  <2> DEFINE h == job[t].hash
             prev == job[t].prev
             txs == job[t].txs
  <2>1. /\ Stored' = Stored \cup {h} /\ \A g \in Stored : blocks'[g] = blocks[g]
        /\ blocks'[h] = Row(prev, txs) /\ job[t].at = "store"
    BY <1>0, <1>2, StoredRow
  <2>2. /\ utxos' = utxos /\ claims' = claims /\ best' = best /\ review' = review /\ pending' = pending
        /\ job'[t].at \in {"apply", "select"} /\ job'[t].hash = h
    <3>1. job' = [job EXCEPT ![t] = [at |-> IF job[t].local THEN "apply" ELSE "select", hash |-> h]]
      BY <1>2 DEF StoreBlock
    <3>2. job'[t] = [at |-> IF job[t].local THEN "apply" ELSE "select", hash |-> h]
      BY <1>0, <3>1
    <3> QED BY <3>2 DEF StoreBlock
  <2>3. Extends(prev, txs) /\ prev = best
    BY <1>0, <2>1 DEF LocalJob, Extends
  <2>4. best # NoBlock => best \in Stored /\ PathTo(best) \subseteq Stored
    BY <1>0, HeadIs DEF IInv, OneBlockPerHeight
  <2>5. \A g \in Stored : PathTo(g)' = PathTo(g) /\ PathTo(g) \subseteq Stored
    BY <1>0, <2>1 DEF PathTo, IInv, OneBlockPerHeight
  <2>6. best # NoBlock => Included(best)' = Included(best)
    <3> SUFFICES ASSUME best # NoBlock PROVE Included(best)' = Included(best)
      OBVIOUS
    <3>1. \A b \in PathTo(best) : blocks'[b] = blocks[b]
      BY <2>1, <2>4
    <3>2. PathTo(best)' = PathTo(best)
      BY <2>1, <2>2, <2>4 DEF PathTo
    <3>3. Included(best)' = UNION {ToSet(blocks'[b].txs) : b \in PathTo(best)}
      BY <3>2, Zenon DEF Included
    <3>4. \A b \in PathTo(best) : ToSet(blocks'[b].txs) = ToSet(blocks[b].txs)
      BY <3>1
    <3>5. UNION {ToSet(blocks'[b].txs) : b \in PathTo(best)} = UNION {ToSet(blocks[b].txs) : b \in PathTo(best)}
      BY <3>4
    <3> QED BY <3>3, <3>5 DEF Included
  <2>7. \A x : ValidAtHead(x)' <=> ValidAtHead(x)
    <3>1. HeadView' = HeadView /\ BlockCount' = BlockCount
      BY <2>1, <2>2, <2>4 DEF HeadView, BlockCount
    <3> QED BY <2>2, <3>1 DEF ValidAtHead
  <2>8. PendingMineable'
    BY <2>2, <2>6, <2>7 DEF PendingMineable, LocalInv
  <2>9. blocks'[h].prev = prev /\ blocks'[h].txs = txs
    BY <2>1, RowIs DEF GenesisRow, RowAbove
  <2>10. LocalJob(job[t])'
    <3>1. \A p, s : Extends(p, s) => Extends(p, s)'
      BY <2>2, <2>6 DEF Extends
    <3>2. /\ job'[t].at \in {"apply", "select"}
          /\ Extends(blocks'[job'[t].hash].prev, blocks'[job'[t].hash].txs)
      BY <2>2, <2>3, <2>9
    <3> QED BY <3>1, <3>2 DEF LocalJob
  <2>11. OncePerBranch'
    <3> SUFFICES ASSUME NEW g \in Stored', NEW b \in PathTo(g)', NEW c \in PathTo(g)', b # c
                 PROVE  ToSet(blocks'[b].txs) \cap ToSet(blocks'[c].txs) = {}
      BY DEF OncePerBranch
    <3>1. CASE g \in Stored
      <4>1. b \in PathTo(g) /\ c \in PathTo(g) /\ b \in Stored /\ c \in Stored
        BY <2>5, <3>1
      <4>2. ToSet(blocks[b].txs) \cap ToSet(blocks[c].txs) = {}
        BY <3>1, <4>1 DEF LocalInv, OncePerBranch
      <4> QED BY <2>1, <4>1, <4>2
    <3>2. CASE g = h
      <4>1. CASE prev = NoBlock
        <5>1. blocks'[h].path = {}
          BY <2>1, <4>1, RowIs DEF GenesisRow
        <5> QED BY <3>2, <5>1 DEF PathTo
      <4>2. CASE prev # NoBlock
        <5>1. blocks'[h].path = blocks[best].path \cup {best}
          BY <2>1, <2>3, <4>2, RowIs DEF RowAbove
        <5>2. PathTo(g)' = PathTo(best) \cup {h}
          BY <3>2, <5>1 DEF PathTo
        <5>3. \A a \in PathTo(best) : /\ a \in Stored /\ blocks'[a] = blocks[a]
                                      /\ ToSet(blocks[a].txs) \subseteq Included(best)
          BY <2>1, <2>3, <2>4, <4>2 DEF Included
        <5>4. ToSet(txs) \cap Included(best) = {}
          BY <2>3, <4>2 DEF Extends
        <5>5. CASE b = h
          BY <2>9, <5>2, <5>3, <5>4, <5>5
        <5>6. CASE c = h
          BY <2>9, <5>2, <5>3, <5>4, <5>6
        <5>7. CASE b # h /\ c # h
          <6>1. best \in Stored /\ b \in PathTo(best) /\ c \in PathTo(best)
            BY <2>3, <2>4, <4>2, <5>2, <5>7
          <6>2. ToSet(blocks[b].txs) \cap ToSet(blocks[c].txs) = {}
            BY <6>1 DEF LocalInv, OncePerBranch
          <6> QED BY <5>3, <6>1, <6>2
        <5> QED BY <5>5, <5>6, <5>7
      <4> QED BY <4>1, <4>2
    <3> QED BY <2>1, <3>1, <3>2
  <2> QED BY <2>8, <2>10, <2>11
<1> QED BY <1>1, <1>2
(* The step that makes a block the head. *)

\* What is valid on the head, and not in the block on top of it, is valid on that block: the
\* block takes no output or claim away but by its own pending transactions.
LEMMA StillMineable ==
    ASSUME LocalOnly, LocalInv, NEW h \in Stored, Extends(blocks[h].prev, blocks[h].txs),
           NEW x \in pending, x \notin Included(h)
    PROVE  ValidTx(x, DOMAIN blocks[h].view, blocks[h].view, blocks[h].claimed,
                   blocks[h].height + 1, review)
<1> DEFINE txs == blocks[h].txs
<1>1. /\ SoundInv /\ ValidTx(x, utxos, HeadView, claims, BlockCount, review)
      /\ blocks[h].prev = best /\ blocks[h].height \in Nat
  BY DEF LocalInv, PendingMineable, ValidAtHead, Extends, SoundInv, IInv, TypeOK, IsRow
<1>2. CASE best = NoBlock
  <2>1. utxos = {} /\ claims = {} /\ BlockCount = 0
    BY <1>1, <1>2 DEF SoundInv, IInv, IndexesMatchHead, BlockCount
  <2>2. IsClaim(x)
    <3> SUFFICES ASSUME ~IsClaim(x) PROVE FALSE
      OBVIOUS
    <3>1. Body[x].ins # <<>> /\ \A op \in Spent(x) : op \in utxos
      BY <1>1 DEF ValidTx, ValidTransfer
    <3>2. x \in Tx
      BY ChainNodeAssumption DEF LocalInv, SoundInv, IInv, TypeOK
    <3>3. Body[x].ins \in Seq(Outpoint)
      BY <3>2, AmountsAssumption
    <3>4. 1 \in DOMAIN Body[x].ins
      BY <3>1, <3>3, NonEmpty
    <3> QED BY <2>1, <3>1, <3>4 DEF Spent
  <2>3. blocks[h].claimed = {}
    <3>1. blocks[h] = GenesisRow(txs)
      BY <1>1, <1>2, RootRow
    <3> HIDE DEF txs
    <3> QED BY <3>1 DEF GenesisRow
  <2>4. InWindow(0) => InWindow(blocks[h].height + 1)
    BY <1>1, AmountsAssumption DEF InWindow, LocalOnly
  <2> QED BY <1>1, <2>1, <2>2, <2>3, <2>4 DEF ValidTx, ValidClaim
<1>3. CASE best # NoBlock
  <2>1. /\ best \in Stored /\ utxos = DOMAIN blocks[best].view /\ claims = blocks[best].claimed
        /\ BlockCount = blocks[h].height /\ IsView(blocks[best].view)
    BY <1>1, <1>3, HeadIs, ChildOf
  <2>2. /\ blocks[h].view = ViewUpTo(blocks[best].view, txs, blocks[h].height, Len(txs))
        /\ txs \in Seq(Tx) /\ SoundChild(blocks[best], txs)
        /\ blocks[h] = RowAbove(blocks[best], best, txs)
    BY <1>1, <1>3, ChildOf, ChildView
  <2>3. blocks[h].claimed = claims \cup ClaimedBy(txs)
    BY <2>1, <2>2 DEF RowAbove
  <2>4. /\ \A i \in 1..Len(txs) : txs[i] # x /\ txs[i] \notin Included(best)
        /\ \A i \in 2..Len(txs) : txs[i] \in pending
        /\ txs # <<>> /\ Spent(txs[1]) = {}
    <3>1. \A i \in 1..Len(txs) : txs[i] \in ToSet(txs)
      BY <2>2, ToSetHas
    <3>2. ToSet(txs) \subseteq Included(h)
      BY DEF Included, PathTo
    <3>3. ToSet(txs) \cap Included(best) = {} /\ \A i \in 2..Len(txs) : txs[i] \in pending
      BY <1>3 DEF Extends
    <3>4. IsReward(txs[1]) /\ txs # <<>>
      BY <2>2 DEF SoundChild
    <3>5. Spent(txs[1]) = {}
      BY <3>4 DEF IsReward, Spent
    <3> QED BY <3>1, <3>2, <3>3, <3>4, <3>5
  <2>5. \A i \in 2..Len(txs) : /\ Spent(txs[i]) \cap Spent(x) = {}
                               /\ IsClaim(txs[i]) /\ IsClaim(x) => Body[txs[i]].source # Body[x].source
    <3>1. \A i \in 2..Len(txs) : i \in 1..Len(txs)
      BY <2>2
    <3> QED BY <2>4, <3>1 DEF LocalInv, MempoolInv, PendingConsistent
  <2>6. CASE IsClaim(x)
    <3>1. Body[x].source \notin ClaimedBy(txs)
      BY <2>5, <2>6 DEF ClaimedBy, Claims
    <3>2. InWindow(BlockCount) => InWindow(blocks[h].height + 1)
      BY <1>1, <2>1, AmountsAssumption DEF InWindow, LocalOnly
    <3> QED BY <1>1, <2>3, <2>6, <3>1, <3>2 DEF ValidTx, ValidClaim
  <2>7. CASE ~IsClaim(x)
    <3>1. ASSUME NEW op \in Spent(x)
          PROVE  /\ op \in DOMAIN blocks[h].view
                 /\ SpendableAt(blocks[h].view[op], blocks[h].height + 1, review)
      <4>1. op \in utxos /\ SpendableAt(blocks[best].view[op], blocks[h].height, review)
        BY <1>1, <1>3, <2>1, <2>7 DEF ValidTx, ValidTransfer, HeadView
      <4>2. \A i \in 1..Len(txs) : op \notin Spent(txs[i]) /\ op \notin Created(txs[i])
        <5> SUFFICES ASSUME NEW i \in 1..Len(txs)
                     PROVE  op \notin Spent(txs[i]) /\ op \notin Created(txs[i])
          OBVIOUS
        <5>1. op \notin Created(txs[i])
          BY <1>1, <1>3, <2>4, <4>1, NewHere
        <5>2. i = 1 \/ i \in 2..Len(txs)
          BY <2>2
        <5> QED BY <2>4, <2>5, <3>1, <5>1, <5>2
      <4>3. op \in DOMAIN blocks[h].view /\ blocks[h].view[op] = blocks[best].view[op]
        BY <2>1, <2>2, <4>1, <4>2, StaysInView
      <4>4. blocks[best].view[op].height \in Nat
        BY <2>1, <4>1 DEF IsView, Origin
      <4>5. SpendableAt(blocks[best].view[op], blocks[h].height + 1, review)
        BY <1>1, <4>1, <4>4, LedgerAssumption DEF SpendableAt, MigrationFinal
      <4> QED BY <4>3, <4>5
    <3> QED BY <1>1, <2>7, <3>1 DEF ValidTx, ValidTransfer
  <2> QED BY <2>6, <2>7
<1> QED BY <1>2, <1>3

LEMMA LocalApplies ==
    ASSUME LocalOnly, LocalInv, NEW t \in Threads, ApplyBestChain(t)
    PROVE  OncePerBranch' /\ PendingMineable' /\ LocalJob(job[t])'
<1> USE DEF Goto, Done, Idle, At
<1>0. job \in [Threads -> Job] /\ LocalJob(job[t]) /\ JobFits(job[t]) /\ SoundInv
  BY DEF LocalInv, SoundInv, IInv, TypeOK, ChecksStillHold
<1>1. /\ job[t].at = "apply" /\ job' = [job EXCEPT ![t] = [at |-> "idle"]]
      /\ blocks' = blocks /\ review' = review
      /\ utxos' = DOMAIN blocks[job[t].hash].view /\ claims' = blocks[job[t].hash].claimed
      /\ pending' = pending \ Included(job[t].hash) /\ best' = job[t].hash
  BY DEF ApplyBestChain
<1>2. LocalJob(job[t])'
  <2>1. job'[t] = [at |-> "idle"]
    BY <1>0, <1>1
  <2> QED BY <2>1 DEF LocalJob
<1>3. OncePerBranch'
  BY <1>1 DEF LocalInv, OncePerBranch, Stored, PathTo
<1>4. PICK h : h = job[t].hash
  OBVIOUS
<1>5. h \in Stored /\ h # NoBlock /\ Extends(blocks[h].prev, blocks[h].txs)
  BY <1>0, <1>1, <1>4, ChainNodeAssumption DEF JobFits, LocalJob, SoundInv, IInv, TypeOK
<1>6. best' = h /\ Included(h)' = Included(h) /\ pending' = pending \ Included(h)
  BY <1>1, <1>4 DEF Included, PathTo
<1>7. HeadView' = blocks[h].view /\ BlockCount' = blocks[h].height + 1
  BY <1>1, <1>5, <1>6 DEF HeadView, BlockCount
<1>8. \A x \in pending' : ValidAtHead(x)' /\ x \notin Included(h)
  <2> SUFFICES ASSUME NEW x \in pending'
               PROVE  ValidAtHead(x)' /\ x \notin Included(h)
    OBVIOUS
  <2>1. ValidTx(x, DOMAIN blocks[h].view, blocks[h].view, blocks[h].claimed,
                blocks[h].height + 1, review)
    BY <1>5, <1>6, StillMineable
  <2> QED BY <1>1, <1>4, <1>6, <1>7, <2>1 DEF ValidAtHead
<1>9. Included(best)' = Included(h)
  BY <1>6 DEF Included, PathTo
<1>10. PendingMineable'
  BY <1>8, <1>9 DEF PendingMineable
<1> QED BY <1>2, <1>3, <1>10

LEMMA LocalNext ==
    ASSUME LocalOnly, LocalInv, [Next]_vars
    PROVE  LocalInv'
<1>1. SoundInv' /\ MempoolInv'
  BY SoundNext, MempoolNext DEF LocalInv, LocalOnly
<1>2. CASE \E t \in Threads : Step(t)
  <2>1. PICK t \in Threads : Step(t)
    BY <1>2
  <2>2. \A u \in Threads : u = t
    BY DEF LocalOnly, OneHandler
  <2>3. OncePerBranch' /\ PendingMineable' /\ LocalJob(job[t])'
    <3>1. CASE SavePending(t)
      BY <3>1, LocalSaves
    <3>2. CASE StoreBlock(t)
      BY <3>2, LocalStores
    <3>3. CASE ApplyBestChain(t)
      BY <3>3, LocalApplies
    <3>4. CASE ~SavePending(t) /\ ~StoreBlock(t) /\ ~ApplyBestChain(t)
      <4>1. UNCHANGED tables /\ LocalJob(job[t])'
        BY <2>1, <3>4, LocalReads DEF Step, Import, LocalOnly
      <4>2. /\ SameHead /\ pending' = pending /\ best' = best
            /\ \A x : ValidAtHead(x)' <=> ValidAtHead(x)
            /\ Included(best)' = Included(best) /\ OncePerBranch'
        BY <4>1, SameAtHead DEF tables, SameHead, LocalInv
      <4>3. PendingMineable'
        BY <4>2 DEF LocalInv, PendingMineable
      <4> QED BY <4>1, <4>2, <4>3
    <3> QED BY <3>1, <3>2, <3>3, <3>4
  <2> QED BY <1>1, <2>2, <2>3 DEF LocalInv
<1>3. CASE ~ \E t \in Threads : Step(t)
  <2>1. UNCHANGED tables /\ (job' = job \/ job' = [t \in Threads |-> Idle])
    BY <1>3 DEF Next, SetReview, Crash, LocalOnly, vars, tables
  <2>2. /\ SameHead /\ pending' = pending /\ best' = best
        /\ \A x : ValidAtHead(x)' <=> ValidAtHead(x)
        /\ Included(best)' = Included(best) /\ OncePerBranch'
    BY <2>1, SameAtHead DEF tables, SameHead, LocalInv
  <2>3. PendingMineable'
    BY <2>2 DEF LocalInv, PendingMineable
  <2>4. \A t \in Threads : LocalJob(job[t])'
    <3> SUFFICES ASSUME NEW t \in Threads PROVE LocalJob(job[t])'
      OBVIOUS
    <3>1. CASE job' = job
      <4>1. job'[t] = job[t] /\ LocalJob(job[t])
        BY <3>1 DEF LocalInv
      <4> QED BY <2>2, <4>1, JobKept
    <3>2. CASE job' = [u \in Threads |-> Idle]
      BY <3>2 DEF Idle, LocalJob
    <3> QED BY <2>1, <3>1, <3>2
  <2> QED BY <1>1, <2>2, <2>3, <2>4 DEF LocalInv
<1> QED BY <1>2, <1>3

\* The block that would be built now is one of transactions that are each valid on the head.
LEMMA NextIsCandidate ==
    ASSUME LocalInv, best # NoBlock, NEW queue \in Queues, NEW r \in Rewards(best, queue),
           \A x \in ToSet(queue) : IsClaim(x) \/ Exact(x)
    PROVE  Candidate(<<r>> \o queue) /\ RewardExact(<<r>> \o queue, BlockCount)
<1> DEFINE txs == <<r>> \o queue
<1>1. SoundInv /\ best \in Stored /\ NextHeight(best) = BlockCount
  BY HeadIs DEF LocalInv, NextHeight
<1>2. queue \in Seq(Tx) /\ ToSet(queue) \subseteq pending
  BY <1>1, QueueIsPending
<1>3. r \in Tx /\ r \notin Included(best) /\ IsReward(r) /\ RewardExact(txs, BlockCount)
  BY <1>1, RewardIsNew
<1>4. /\ txs \in Seq(Tx) /\ Len(txs) = Len(queue) + 1 /\ txs[1] = r
      /\ \A i \in 2..Len(txs) : i - 1 \in 1..Len(queue) /\ txs[i] = queue[i - 1]
      /\ Len(queue) \in Nat
  BY <1>2, <1>3, RewardFirst
<1>5. \A i \in 1..Len(queue) : queue[i] \in ToSet(queue) /\ queue[i] \in pending
  BY <1>2, ToSetHas
<1>6. \A i, j \in 1..Len(queue) : i # j => queue[i] # queue[j]
  <2>1. PICK n \in 0..MaxPerBlock :
           /\ queue \in [1..n -> pending]
           /\ \A i, j \in 1..n : i < j => queue[i] # queue[j]
    BY DEF Queues
  <2>2. Len(queue) = n
    BY <1>2, <2>1
  <2> SUFFICES ASSUME NEW i \in 1..Len(queue), NEW j \in 1..Len(queue), i # j
               PROVE  queue[i] # queue[j]
    OBVIOUS
  <2>3. i \in 1..n /\ j \in 1..n /\ (i < j \/ j < i)
    BY <1>4, <2>2
  <2> QED BY <2>1, <2>3
<1> HIDE DEF txs
<1>7. 1 \in DOMAIN txs /\ DOMAIN txs = 1..Len(txs)
  BY <1>4
<1>8. \A i \in 2..Len(txs) : /\ txs[i] \in pending /\ txs[i] \notin Included(best)
                             /\ ValidAtHead(txs[i]) /\ (IsClaim(txs[i]) \/ Exact(txs[i]))
  BY <1>4, <1>5 DEF LocalInv, PendingMineable
<1>9. \A i \in DOMAIN txs : txs[i] \notin Included(best)
  BY <1>3, <1>4, <1>7, <1>8
<1>10. NoRepeats(txs)
  <2> SUFFICES ASSUME NEW i \in 2..Len(txs), NEW j \in 2..Len(txs), i # j
               PROVE  /\ Spent(txs[i]) \cap Spent(txs[j]) = {}
                      /\ IsClaim(txs[i]) /\ IsClaim(txs[j]) => Body[txs[i]].source # Body[txs[j]].source
    BY DEF NoRepeats
  <2>1. /\ i - 1 \in 1..Len(queue) /\ j - 1 \in 1..Len(queue) /\ i - 1 # j - 1
        /\ txs[i] = queue[i - 1] /\ txs[j] = queue[j - 1]
    BY <1>4
  <2>2. txs[i] # txs[j]
    BY <1>6, <2>1
  <2> QED BY <1>8, <2>2 DEF LocalInv, MempoolInv, PendingConsistent
<1>11. Candidate(txs)
  BY <1>3, <1>4, <1>7, <1>8, <1>9, <1>10 DEF Candidate
<1> QED BY <1>3, <1>11 DEF txs

\* A node that takes no blocks of peers and whose operators leave the sources alone, that
\* serves one request at a time and may crash between its steps, can mine what it admitted
\* (submit_transaction, mine_pending_transactions), while claims have no last height: a claim
\* still pending when the window closes would make every later block invalid.
THEOREM MinedFromPending ==
    ASSUME LocalOnly
    PROVE  Spec => []MiningSucceeds
<1>1. Init => LocalInv
  <2> SUFFICES ASSUME Init PROVE LocalInv
    OBVIOUS
  <2>1. /\ pending = {} /\ canonical = {} /\ Stored = {} /\ \A t \in Threads : job[t].at = "idle"
    BY DEF Init, Idle, Stored
  <2>2. MempoolInv
    BY <2>1 DEF MempoolInv, PendingConsistent, SubmitFits
  <2> QED BY <2>1, <2>2, SoundInit DEF LocalInv, OncePerBranch, PendingMineable, LocalJob
<1>2. LocalInv /\ [Next]_vars => LocalInv'
  BY LocalNext
<1>3. LocalInv => MiningSucceeds
  <2> SUFFICES ASSUME LocalInv, best # NoBlock, NEW queue \in Queues, NEW r \in Rewards(best, queue),
                      \A x \in ToSet(queue) : IsClaim(x) \/ Exact(x),
                      WithinCaps(NextSupply(<<r>> \o queue)), EpochHasRoom(<<r>> \o queue)
               PROVE  ValidBlock(best, <<r>> \o queue)
    BY DEF MiningSucceeds
  <2>1. Candidate(<<r>> \o queue) /\ RewardExact(<<r>> \o queue, BlockCount)
    BY NextIsCandidate
  <2> QED BY <2>1, CandidateMines DEF LocalInv
<1> QED BY <1>1, <1>2, <1>3, PTL DEF Spec
(***************************************************************************)
(* The plan of a batch of claims.                                          *)
(***************************************************************************)

LEMMA ClaimedIs ==
    ASSUME NEW p \in Seq(Source)
    PROVE  /\ ToSet(p) \subseteq Source /\ IsFiniteSet(ToSet(p))
           /\ Claimed(p) = SumFunctionOnSet(SourceAmount, ToSet(p))
           /\ Claimed(p) \in Int
<1> DEFINE S == ToSet(p)
           f == [s \in S |-> SourceAmount[s]]
<1>1. S \subseteq Source
  BY ToSetHas
<1>2. Claimed(p) = SumFunctionOnSet(f, S)
  BY DEF Claimed, SumFunction
<1>3. \A s \in S : f[s] = SourceAmount[s]
  OBVIOUS
<1> HIDE DEF S, f
<1>4. IsFiniteSet(S) /\ \A s \in S : SourceAmount[s] \in Int
  BY <1>1, FS_Subset, AmountsAssumption
<1>5. SumFunctionOnSet(f, S) = SumFunctionOnSet(SourceAmount, S)
  BY <1>3, <1>4, SumAgrees
<1>6. SumFunctionOnSet(SourceAmount, S) \in Int
  BY <1>4, SumType
<1> QED BY <1>1, <1>2, <1>4, <1>5, <1>6 DEF S

\* A plan made of the first n sources: each once and claimable, all together within what
\* remains of the pool.
PlanFits(p, n) ==
    /\ p \in Seq(Source)
    /\ \A i, j \in 1..Len(p) : p[i] = p[j] => i = j
    /\ \A i \in 1..Len(p) : Claimable(p[i]) /\ \E k \in 1..n : SourceOrder[k] = p[i]
    /\ Claimed(p) <= PoolRemaining

LEMMA EmptyPlanFits ==
    ASSUME SoundInv
    PROVE  PlanFits(<<>>, 0)
<1>1. PoolRemaining >= 0
  <2>1. best # NoBlock => blocks[best].supply.minted \in Int
    BY HeadIs
  <2> QED BY <2>1, AmountsAssumption DEF PoolRemaining, NotNegative
<1>2. Claimed(<<>>) = 0
  <2>1. <<>> \in Seq(Source) /\ ToSet(<<>>) = {}
    BY DEF ToSet
  <2>2. Claimed(<<>>) = SumFunctionOnSet(SourceAmount, ToSet(<<>>))
    BY <2>1, ClaimedIs
  <2> QED BY <2>1, <2>2, SumOfNone
<1>3. <<>> \in Seq(Source) /\ 1..Len(<<>>) = {}
  OBVIOUS
<1> QED BY <1>1, <1>2, <1>3 DEF PlanFits

LEMMA PlanNextFits ==
    ASSUME SoundInv, NEW n \in Nat, n + 1 \in 1..Len(SourceOrder), NEW p, PlanFits(p, n)
    PROVE  PlanFits(PlanNext(p, SourceOrder[n + 1]), n + 1)
<1> DEFINE s == SourceOrder[n + 1]
<1>1. s \in Source /\ Len(SourceOrder) \in Nat /\ DOMAIN SourceOrder = 1..Len(SourceOrder)
  BY ClaimPlansAssumption
<1>2. \A k \in 1..n : k \in 1..(n + 1) /\ SourceOrder[k] # s
  BY <1>1, ClaimPlansAssumption DEF IsInjective
<1> HIDE DEF s
<1>3. CASE Claimable(s) /\ Len(p) < BatchLimit /\ Claimed(p) + SourceAmount[s] <= PoolRemaining
  <2> DEFINE new == Append(p, s)
  <2>1. PlanNext(p, s) = new
    BY <1>3 DEF PlanNext
  <2>2. /\ p \in Seq(Source) /\ new \in Seq(Source) /\ Len(p) \in Nat
        /\ Len(new) = Len(p) + 1 /\ new[Len(p) + 1] = s
        /\ \A i \in 1..Len(p) : new[i] = p[i]
    BY <1>1 DEF PlanFits
  <2>3. \A i \in 1..Len(p) : Claimable(p[i]) /\ p[i] # s /\ \E k \in 1..(n + 1) : SourceOrder[k] = p[i]
    BY <1>2 DEF PlanFits
  <2>4. ToSet(new) = ToSet(p) \cup {s} /\ s \notin ToSet(p)
    <3> HIDE DEF new
    <3>1. \A x \in ToSet(p) : x # s
      BY <2>2, <2>3, ToSetHas
    <3>2. \A x \in ToSet(new) : x \in ToSet(p) \cup {s}
      <4> SUFFICES ASSUME NEW x \in ToSet(new) PROVE x \in ToSet(p) \cup {s}
        OBVIOUS
      <4>1. PICK i \in 1..Len(new) : x = new[i]
        BY <2>2, ToSetHas
      <4>2. CASE i = Len(p) + 1
        BY <2>2, <4>1, <4>2
      <4>3. CASE i # Len(p) + 1
        <5>1. i \in 1..Len(p)
          BY <2>2, <4>3
        <5>2. p[i] \in ToSet(p)
          BY <2>2, <5>1, ToSetHas
        <5> QED BY <2>2, <4>1, <5>1, <5>2
      <4> QED BY <4>2, <4>3
    <3>3. \A x \in ToSet(p) : x \in ToSet(new)
      <4> SUFFICES ASSUME NEW x \in ToSet(p) PROVE x \in ToSet(new)
        OBVIOUS
      <4>1. PICK i \in 1..Len(p) : x = p[i]
        BY <2>2, ToSetHas
      <4>2. i \in 1..Len(new) /\ x = new[i]
        BY <2>2, <4>1
      <4> QED BY <2>2, <4>2, ToSetHas
    <3>4. s \in ToSet(new)
      <4>1. Len(p) + 1 \in 1..Len(new)
        BY <2>2
      <4> QED BY <2>2, <4>1, ToSetHas
    <3> QED BY <3>1, <3>2, <3>3, <3>4
  <2>5. Claimed(new) = Claimed(p) + SourceAmount[s]
    <3> DEFINE S == ToSet(p)
    <3>1. /\ S \subseteq Source /\ IsFiniteSet(S) /\ ToSet(new) = S \cup {s} /\ s \notin S
          /\ Claimed(p) = SumFunctionOnSet(SourceAmount, S)
          /\ Claimed(new) = SumFunctionOnSet(SourceAmount, ToSet(new))
      BY <2>2, <2>4, ClaimedIs
    <3>2. \A x \in S \cup {s} : SourceAmount[x] \in Int
      BY <1>1, <3>1, AmountsAssumption
    <3> HIDE DEF S, new
    <3>3. SumFunctionOnSet(SourceAmount, S \cup {s}) = SumFunctionOnSet(SourceAmount, S) + SourceAmount[s]
      BY <3>1, <3>2, SumAdd
    <3> QED BY <3>1, <3>3
  <2> HIDE DEF new
  <2>6. \A i \in 1..Len(new) : i \in 1..Len(p) \/ (i = Len(p) + 1 /\ new[i] = s)
    BY <2>2
  <2>7. \A i, j \in 1..Len(new) : new[i] = new[j] => i = j
    <3> SUFFICES ASSUME NEW i \in 1..Len(new), NEW j \in 1..Len(new), new[i] = new[j]
                 PROVE  i = j
      OBVIOUS
    <3>1. CASE i \in 1..Len(p) /\ j \in 1..Len(p)
      BY <2>2, <3>1 DEF PlanFits
    <3>2. CASE i \notin 1..Len(p) \/ j \notin 1..Len(p)
      BY <2>2, <2>3, <2>6, <3>2
    <3> QED BY <3>1, <3>2
  <2>8. \A i \in 1..Len(new) : Claimable(new[i]) /\ \E k \in 1..(n + 1) : SourceOrder[k] = new[i]
    <3> SUFFICES ASSUME NEW i \in 1..Len(new)
                 PROVE  Claimable(new[i]) /\ \E k \in 1..(n + 1) : SourceOrder[k] = new[i]
      OBVIOUS
    <3>1. CASE i \in 1..Len(p)
      BY <2>2, <2>3, <3>1
    <3>2. CASE i = Len(p) + 1 /\ new[i] = s
      <4>1. n + 1 \in 1..(n + 1) /\ SourceOrder[n + 1] = s
        BY DEF s
      <4> QED BY <1>3, <3>2, <4>1
    <3> QED BY <2>6, <3>1, <3>2
  <2>9. PlanFits(new, n + 1)
    BY <1>3, <2>2, <2>5, <2>7, <2>8 DEF PlanFits
  <2> QED BY <2>1, <2>9 DEF s
<1>4. CASE ~(Claimable(s) /\ Len(p) < BatchLimit /\ Claimed(p) + SourceAmount[s] <= PoolRemaining)
  <2>1. PlanNext(p, s) = p
    BY <1>4 DEF PlanNext
  <2>2. PlanFits(p, n + 1)
    BY <1>2 DEF PlanFits
  <2> QED BY <2>1, <2>2 DEF s
<1> QED BY <1>3, <1>4

\* The recursion of BatchPlan has a solution.
IsPlanning(a, m) == a = [n \in 0..m |-> IF n = 0 THEN <<>> ELSE PlanNext(a[n - 1], SourceOrder[n])]

LEMMA PlanningExists == \A m \in Nat : \E a : IsPlanning(a, m)
<1> DEFINE T == {m \in Nat : \E a : IsPlanning(a, m)}
<1>1. 0 \in T
  <2> DEFINE a == [n \in 0..0 |-> <<>>]
  <2>1. a = [n \in 0..0 |-> IF n = 0 THEN <<>> ELSE PlanNext(a[n - 1], SourceOrder[n])]
    OBVIOUS
  <2> HIDE DEF a
  <2> QED BY <2>1 DEF IsPlanning
<1>2. ASSUME NEW m \in Nat, m \in T PROVE m + 1 \in T
  <2>1. PICK w : w = [n \in 0..m |-> IF n = 0 THEN <<>> ELSE PlanNext(w[n - 1], SourceOrder[n])]
    BY <1>2 DEF IsPlanning
  <2> DEFINE a == [n \in 0..(m + 1) |-> IF n <= m THEN w[n] ELSE PlanNext(w[m], SourceOrder[m + 1])]
  <2>2. \A n \in 0..m : a[n] = w[n]
    OBVIOUS
  <2>3. a[m + 1] = PlanNext(w[m], SourceOrder[m + 1])
    OBVIOUS
  <2>4. \A n \in 0..m : w[n] = IF n = 0 THEN <<>> ELSE PlanNext(w[n - 1], SourceOrder[n])
    BY <2>1
  <2>5. ASSUME NEW n \in 0..(m + 1)
        PROVE  a[n] = IF n = 0 THEN <<>> ELSE PlanNext(a[n - 1], SourceOrder[n])
    <3>1. CASE n = m + 1
      <4>1. n # 0 /\ n - 1 = m /\ m \in 0..m
        BY <3>1
      <4> HIDE DEF a
      <4> QED BY <3>1, <4>1, <2>2, <2>3
    <3>2. CASE n # m + 1
      <4>1. n \in 0..m /\ (n # 0 => n - 1 \in 0..m)
        BY <3>2
      <4> HIDE DEF a
      <4> QED BY <4>1, <2>2, <2>4
    <3> QED BY <3>1, <3>2
  <2>6. DOMAIN a = 0..(m + 1) /\ a = [n \in DOMAIN a |-> a[n]]
    OBVIOUS
  <2> HIDE DEF a
  <2>7. a = [n \in 0..(m + 1) |-> IF n = 0 THEN <<>> ELSE PlanNext(a[n - 1], SourceOrder[n])]
    BY <2>5, <2>6
  <2> QED BY <2>7 DEF IsPlanning
<1> HIDE DEF T
<1>3. \A m \in Nat : m \in T
  BY <1>1, <1>2, InductionOnNat
<1> QED BY <1>3 DEF T

LEMMA PlanFitsPool ==
    ASSUME SoundInv
    PROVE  PlanFits(BatchPlan, Len(SourceOrder))
<1> DEFINE N == Len(SourceOrder)
           a == CHOOSE w : w = [n \in 0..N |-> IF n = 0 THEN <<>> ELSE PlanNext(w[n - 1], SourceOrder[n])]
<1>0. N \in Nat
  BY ClaimPlansAssumption
<1>1. BatchPlan = a[N]
  BY DEF BatchPlan
<1>2. a = CHOOSE w : IsPlanning(w, N)
  BY DEF IsPlanning
<1> HIDE DEF a
<1>3. IsPlanning(a, N)
  <2>1. \E w : IsPlanning(w, N)
    BY <1>0, PlanningExists
  <2> HIDE DEF N
  <2> QED BY <1>2, <2>1
<1>4. \A n \in 0..N : a[n] = IF n = 0 THEN <<>> ELSE PlanNext(a[n - 1], SourceOrder[n])
  <2> HIDE DEF N
  <2>1. a = [n \in 0..N |-> IF n = 0 THEN <<>> ELSE PlanNext(a[n - 1], SourceOrder[n])]
    BY <1>3 DEF IsPlanning
  <2> QED BY <2>1
<1> DEFINE T == {n \in Nat : n <= N => PlanFits(a[n], n)}
<1>5. 0 \in T
  <2>1. 0 \in 0..N
    BY <1>0
  <2>2. a[0] = <<>>
    BY <1>4, <2>1
  <2>3. PlanFits(a[0], 0)
    BY <2>2, EmptyPlanFits
  <2> QED BY <2>3
<1>6. ASSUME NEW n \in Nat, n \in T PROVE n + 1 \in T
  <2> SUFFICES ASSUME n + 1 <= N PROVE PlanFits(a[n + 1], n + 1)
    OBVIOUS
  <2>1. PlanFits(a[n], n) /\ n + 1 \in 1..N /\ n + 1 \in 0..N /\ (n + 1) - 1 = n /\ n + 1 # 0
    BY <1>0, <1>6
  <2>2. a[n + 1] = PlanNext(a[n], SourceOrder[n + 1])
    BY <1>4, <2>1
  <2>3. PlanFits(PlanNext(a[n], SourceOrder[n + 1]), n + 1)
    BY <2>1, PlanNextFits
  <2> QED BY <2>2, <2>3
<1>7. \A n \in Nat : n \in T
  <2> HIDE DEF T
  <2> QED BY <1>5, <1>6, InductionOnNat
<1> QED BY <1>0, <1>1, <1>7

\* A branch never issues more from the pool than its cap.
LEMMA PoolKept ==
    ASSUME SoundInv, NEW h \in Stored, PoolCap > 0
    PROVE  blocks[h].supply.minted <= PoolCap
<1>1. CASE blocks[h].prev = NoBlock
  <2>1. blocks[h] = GenesisRow(blocks[h].txs)
    BY <1>1, RootRow
  <2>2. \A txs : GenesisRow(txs).supply.minted = 0
    BY DEF GenesisRow
  <2>3. blocks[h].supply.minted = 0
    BY <2>1, <2>2, Zenon
  <2> QED BY <2>3, AmountsAssumption
<1>2. CASE blocks[h].prev # NoBlock
  <2> DEFINE prev == blocks[h].prev
  <2>1. /\ blocks[h] = RowAbove(blocks[prev], prev, blocks[h].txs)
        /\ SoundChild(blocks[prev], blocks[h].txs)
    BY <1>2, ChildOf
  <2>2. \A parent, txs : RowAbove(parent, prev, txs).supply = Issue(parent.supply, txs, parent.height + 1)
    BY DEF RowAbove
  <2>3. blocks[h].supply = Issue(blocks[prev].supply, blocks[h].txs, blocks[prev].height + 1)
    <3> HIDE DEF prev
    <3> QED BY <2>1, <2>2, Zenon
  <2>4. WithinCaps(blocks[h].supply)
    <3> HIDE DEF prev
    <3> QED BY <2>1, <2>3 DEF SoundChild
  <2> QED BY <2>4 DEF WithinCaps, WithinPool
<1> QED BY <1>1, <1>2

\* What the next block adds to the supply.
LEMMA NextMinted ==
    ASSUME SoundInv, best # NoBlock, NEW txs \in Seq(Tx)
    PROVE  NextSupply(txs).minted = blocks[best].supply.minted + MintedBy(txs)
<1>1. best \in Stored /\ BlockCount = blocks[best].height + 1 /\ BlockCount \in Nat /\ SupplyIs(best)
  BY HeadIs
<1>2. BlockCount \in 0..Cardinality(Hash)
  BY <1>1, HeightBounded, SubsidyAssumption, FS_CardinalityType
<1>3. blocks[best].supply \in Supply /\ Subsidy(BlockCount) \in Int /\ MintedBy(txs) \in Int
  BY <1>1, <1>2, MintedType, SubsidyAssumption DEF SupplyIs
<1> QED BY <1>3, IssueAdds DEF NextSupply

\* The drafts of a plan, with a reward.
LEMMA BatchHolds == SoundInv => PlannedBatchMines
<1> SUFFICES ASSUME SoundInv, best # NoBlock, InWindow(BlockCount),
                    NEW q \in [DOMAIN BatchPlan -> Tx], NEW r \in Rewards(best, <<>>),
                    \A i \in DOMAIN q : IsDraftOf(q[i], BatchPlan[i]) /\ WellFormed(q[i]),
                    EpochHasRoom(<<r>> \o q), WithinOtherCaps(NextSupply(<<r>> \o q))
             PROVE  ValidBlock(best, <<r>> \o q)
  BY DEF PlannedBatchMines
<1> DEFINE plan == BatchPlan
           txs == <<r>> \o q
<1>1. best \in Stored /\ NextHeight(best) = BlockCount
  BY HeadIs DEF NextHeight
<1>2. PlanFits(plan, Len(SourceOrder))
  BY PlanFitsPool
<1>3. /\ plan \in Seq(Source) /\ DOMAIN plan = 1..Len(plan) /\ Len(plan) \in Nat
      /\ \A i, j \in 1..Len(plan) : plan[i] = plan[j] => i = j
      /\ \A i \in 1..Len(plan) : Claimable(plan[i])
      /\ Claimed(plan) <= PoolRemaining
  <2> HIDE DEF plan
  <2> QED BY <1>2 DEF PlanFits
<1>4. q \in Seq(Tx) /\ Len(q) = Len(plan)
  BY <1>3
<1>5. r \in Tx /\ r \notin Included(best) /\ IsReward(r) /\ RewardExact(<<r>> \o <<>>, BlockCount)
  BY <1>1, RewardIsNew
<1>6. /\ txs \in Seq(Tx) /\ Len(txs) = Len(q) + 1 /\ txs[1] = r
      /\ \A i \in 2..Len(txs) : i - 1 \in 1..Len(q) /\ txs[i] = q[i - 1]
  BY <1>4, <1>5, RewardFirst
<1>7. \A i \in 1..Len(plan) :
         /\ q[i] \in Tx /\ IsClaim(q[i]) /\ Body[q[i]].source = plan[i] /\ Spent(q[i]) = {}
         /\ Body[q[i]].fee = 0 /\ Value(Created(q[i])) = SourceAmount[plan[i]]
         /\ ValidAtHead(q[i]) /\ plan[i] \notin claims
  <2> HIDE DEF plan
  <2> SUFFICES ASSUME NEW i \in 1..Len(plan)
               PROVE  /\ q[i] \in Tx /\ IsClaim(q[i]) /\ Body[q[i]].source = plan[i] /\ Spent(q[i]) = {}
                      /\ Body[q[i]].fee = 0 /\ Value(Created(q[i])) = SourceAmount[plan[i]]
                      /\ ValidAtHead(q[i]) /\ plan[i] \notin claims
    OBVIOUS
  <2>1. q[i] \in Tx /\ IsDraftOf(q[i], plan[i]) /\ WellFormed(q[i]) /\ Claimable(plan[i])
    BY <1>3 DEF plan
  <2>2. Spent(q[i]) = {}
    BY <2>1 DEF IsDraftOf, Spent
  <2>3. ValidAtHead(q[i])
    BY <2>1 DEF ValidAtHead, ValidTx, ValidClaim, IsDraftOf, Claimable
  <2> QED BY <2>1, <2>2, <2>3 DEF IsDraftOf, Claimable
<1> HIDE DEF plan, txs
<1>8. \A i \in 2..Len(txs) :
         /\ i - 1 \in 1..Len(plan) /\ txs[i] = q[i - 1]
         /\ IsClaim(txs[i]) /\ ValidAtHead(txs[i]) /\ txs[i] \notin Included(best)
  <2> SUFFICES ASSUME NEW i \in 2..Len(txs)
               PROVE  /\ i - 1 \in 1..Len(plan) /\ txs[i] = q[i - 1]
                      /\ IsClaim(txs[i]) /\ ValidAtHead(txs[i]) /\ txs[i] \notin Included(best)
    OBVIOUS
  <2>1. i - 1 \in 1..Len(plan) /\ txs[i] = q[i - 1]
    BY <1>4, <1>6
  <2>2. q[i - 1] \notin Included(best)
    BY <1>7, <2>1, ClaimIsNew
  <2> QED BY <1>7, <2>1, <2>2
<1>9. 1 \in DOMAIN txs /\ DOMAIN txs = 1..Len(txs) /\ Len(txs) = Len(plan) + 1
  BY <1>3, <1>4, <1>6
<1>10. NoRepeats(txs)
  <2> SUFFICES ASSUME NEW i \in 2..Len(txs), NEW j \in 2..Len(txs), i # j
               PROVE  /\ Spent(txs[i]) \cap Spent(txs[j]) = {}
                      /\ Body[txs[i]].source # Body[txs[j]].source
    BY DEF NoRepeats
  <2>1. i - 1 \in 1..Len(plan) /\ j - 1 \in 1..Len(plan) /\ i - 1 # j - 1
    BY <1>8
  <2>2. plan[i - 1] # plan[j - 1]
    BY <1>3, <2>1
  <2> QED BY <1>7, <1>8, <2>1, <2>2
<1>11. Candidate(txs)
  <2>1. \A i \in DOMAIN txs : txs[i] \notin Included(best)
    BY <1>5, <1>6, <1>8, <1>9
  <2> QED BY <1>5, <1>6, <1>8, <1>9, <1>10, <2>1 DEF Candidate
<1>12. Claims(txs) = 2..Len(txs) /\ IsFiniteSet(2..Len(txs))
  <2>1. Claims(txs) = 2..Len(txs)
    BY <1>8 DEF Claims
  <2> QED BY <1>3, <1>9, <2>1, FS_Interval
<1>13. RewardExact(txs, BlockCount)
  <2> DEFINE I == 2..Len(txs)
             fee == [i \in I |-> Body[txs[i]].fee]
  <2>1. FeesOf(txs) = SumFunctionOnSet(fee, I)
    BY DEF FeesOf, SumFunction
  <2>2. \A i \in I : fee[i] = 0
    BY <1>7, <1>8
  <2>3. FeesOf(<<r>> \o <<>>) = 0 /\ (<<r>> \o <<>>)[1] = r
    <3> DEFINE e == [i \in {} |-> Body[(<<r>> \o <<>>)[i]].fee]
    <3>1. <<r>> \o <<>> = <<r>> /\ Len(<<r>>) = 1 /\ 2..1 = {} /\ <<r>>[1] = r
      BY <1>5
    <3>2. FeesOf(<<r>>) = SumFunctionOnSet([i \in 2..Len(<<r>>) |-> Body[<<r>>[i]].fee], 2..Len(<<r>>))
      BY DEF FeesOf, SumFunction
    <3>3. FeesOf(<<r>>) = 0
      BY <3>1, <3>2, SumOfNone
    <3> QED BY <3>1, <3>3
  <2> HIDE DEF I, fee
  <2>4. SumFunctionOnSet(fee, I) = 0
    <3>1. IsFiniteSet(I)
      BY <1>12 DEF I
    <3> QED BY <2>2, <3>1, SumOfZeros
  <2> QED BY <1>5, <1>6, <2>1, <2>3, <2>4 DEF RewardExact
<1>14. MintedBy(txs) = Claimed(plan)
  <2> DEFINE I == 2..Len(txs)
             worth == [i \in I |-> Value(Created(txs[i]))]
             m == [i \in I |-> plan[i - 1]]
  <2>1. MintedBy(txs) = SumFunctionOnSet(worth, I)
    <3>1. MintedBy(txs) = SumFunctionOnSet([i \in Claims(txs) |-> Value(Created(txs[i]))], Claims(txs))
      BY DEF MintedBy, SumFunction
    <3> QED BY <1>12, <3>1
  <2>2. \A i \in I : m[i] = plan[i - 1] /\ i - 1 \in 1..Len(plan)
    BY <1>8
  <2>3. \A i, j \in I : m[i] = m[j] => i = j
    <3> HIDE DEF m
    <3> SUFFICES ASSUME NEW i \in I, NEW j \in I, m[i] = m[j] PROVE i = j
      OBVIOUS
    <3>1. i - 1 = j - 1
      BY <1>3, <2>2
    <3> QED BY <3>1
  <2>4. \A i \in I : worth[i] = SourceAmount[m[i]] /\ worth[i] \in Int
    <3> SUFFICES ASSUME NEW i \in I PROVE worth[i] = SourceAmount[m[i]] /\ worth[i] \in Int
      OBVIOUS
    <3>1. worth[i] = SourceAmount[plan[i - 1]] /\ m[i] = plan[i - 1] /\ plan[i - 1] \in Source
      BY <1>3, <1>7, <1>8
    <3> QED BY <3>1, AmountsAssumption
  <2>5. {m[i] : i \in I} = ToSet(plan)
    <3>1. \A i \in I : m[i] \in ToSet(plan)
      <4> HIDE DEF m
      <4> QED BY <1>3, <2>2, ToSetHas
    <3>2. \A s \in ToSet(plan) : \E i \in I : s = m[i]
      <4> SUFFICES ASSUME NEW s \in ToSet(plan) PROVE \E i \in I : s = m[i]
        OBVIOUS
      <4>1. PICK k \in 1..Len(plan) : s = plan[k]
        BY <1>3, ToSetHas
      <4>2. k + 1 \in I /\ m[k + 1] = plan[k]
        BY <1>3, <1>9
      <4> QED BY <4>1, <4>2
    <3> HIDE DEF m
    <3> QED BY <3>1, <3>2
  <2>6. IsFiniteSet(I)
    BY <1>12
  <2> HIDE DEF I, worth, m
  <2>7. SumFunctionOnSet(SourceAmount, {m[i] : i \in I}) = SumFunctionOnSet(worth, I)
    BY <2>3, <2>4, <2>6, SumImage
  <2>8. Claimed(plan) = SumFunctionOnSet(SourceAmount, ToSet(plan))
    BY <1>3, ClaimedIs
  <2> QED BY <2>1, <2>5, <2>7, <2>8
<1>15. WithinPool(NextSupply(txs))
  <2> SUFFICES ASSUME PoolCap > 0 PROVE NextSupply(txs).minted <= PoolCap
    BY DEF WithinPool
  <2>1. NextSupply(txs).minted = blocks[best].supply.minted + MintedBy(txs)
    BY <1>1, <1>6, NextMinted
  <2>2. blocks[best].supply.minted \in Int /\ blocks[best].supply.minted <= PoolCap /\ PoolCap \in Int
    BY <1>1, HeadIs, PoolKept, AmountsAssumption
  <2>3. Claimed(plan) <= NotNegative(PoolCap - blocks[best].supply.minted) /\ Claimed(plan) \in Int
    BY <1>3, ClaimedIs DEF PoolRemaining
  <2> QED BY <1>14, <2>1, <2>2, <2>3 DEF NotNegative
<1>16. WithinCaps(NextSupply(txs)) /\ EpochHasRoom(txs)
  BY <1>15 DEF WithinCaps, txs
<1>17. ValidBlock(best, txs)
  BY <1>11, <1>13, <1>16, CandidateMines
<1> QED BY <1>17 DEF txs

\* The claims of a batch plan can be mined together in the next block, after any history of
\* blocks, forks, crashes and reviews, for any seeds and any cap of the pool
\* (migration_claim_batch_plan, validate_block).
THEOREM BatchesMine == Spec => []PlannedBatchMines
<1> QED BY BatchHolds, SoundInit, SoundNext, PTL DEF Spec
=============================================================================
