-------------------------- MODULE ChainNodeProofs --------------------------
(***************************************************************************)
(* Invariants of ChainNode that hold for every set of handler threads,     *)
(* every transaction universe and any sequence of crashes.                 *)
(***************************************************************************)
EXTENDS ChainNode, TLAPS

USE DEF NoBlock

(***************************************************************************)
(* Operators of the ledger.                                                *)
(***************************************************************************)

\* A view extended by the transactions of a block is a view.
LEMMA ViewAfterType ==
    ASSUME NEW view, IsView(view), NEW txs \in Seq(Tx), NEW height \in Nat
    PROVE  IsView(ViewAfter(view, txs, height))
<1> DEFINE n == Len(txs)
           made(op) == {i \in 1..n : op \in Created(txs[i])}
           ops == DOMAIN view \cup UNION {Created(txs[i]) : i \in 1..n}
           v == ViewAfter(view, txs, height)
<1>1. \A i \in 1..n : txs[i] \in Tx
  OBVIOUS
<1>2. \A i \in 1..n : Created(txs[i]) \subseteq Outpoint
  BY <1>1, LedgerAssumption DEF Created, Outpoint
<1>3. ops \subseteq Outpoint
  BY <1>2 DEF IsView
<1>4. DOMAIN v \subseteq ops
  BY DEF ViewAfter, ViewUpTo
<1>5. ASSUME NEW op \in DOMAIN v PROVE v[op] \in Origin
  <2>1. op[1] \in Tx /\ op \in ops
    BY <1>3, <1>4, <1>5 DEF Outpoint
  <2>2. CASE made(op) = {}
    <3>1. v[op] = view[op]
      BY <1>5, <2>2 DEF ViewAfter, ViewUpTo
    <3>2. op \in DOMAIN view
      BY <2>1, <2>2
    <3> QED BY <3>1, <3>2 DEF IsView
  <2>3. CASE made(op) # {}
    <3>1. v[op] = [height   |-> height,
                   coinbase |-> height > 0 /\ made(op) = {1},
                   source   |-> IF IsClaim(op[1]) THEN Body[op[1]].source ELSE NoSource]
      BY <1>5, <2>3 DEF ViewAfter, ViewUpTo
    <3>2. (IF IsClaim(op[1]) THEN Body[op[1]].source ELSE NoSource) \in Source \cup {NoSource}
      BY <2>1, LedgerAssumption DEF IsClaim
    <3>3. (height > 0 /\ made(op) = {1}) \in BOOLEAN
      OBVIOUS
    <3> QED BY <3>1, <3>2, <3>3 DEF Origin
  <2> QED BY <2>2, <2>3
<1> QED BY <1>3, <1>4, <1>5 DEF IsView

\* A view without outpoints is a view.
LEMMA EmptyViewType == IsView(EmptyView)
BY DEF IsView, EmptyView

\* The sources claimed by a block are sources.
LEMMA ClaimedByType ==
    ASSUME NEW txs \in Seq(Tx) PROVE ClaimedBy(txs) \subseteq Source
<1>1. \A i \in Claims(txs) : txs[i] \in Tx /\ IsClaim(txs[i])
  BY DEF Claims
<1> QED BY <1>1, LedgerAssumption DEF ClaimedBy, IsClaim

\* A block of one transaction claims nothing.
LEMMA SingleClaimsNothing ==
    ASSUME NEW txs, Len(txs) = 1 PROVE Claims(txs) = {} /\ ClaimedBy(txs) = {}
BY DEF Claims, ClaimedBy

\* A valid block claims each source once, and none that its branch has claimed.
LEMMA ValidBlockIsFresh ==
    ASSUME NEW prev \in Stored, prev # NoBlock, NEW txs \in Seq(Tx), ValidBlock(prev, txs)
    PROVE  FreshClaims(prev, txs)
<1>1. NoRepeats(txs) /\ ValidInOrder(blocks[prev], txs, NextHeight(prev), review)
  BY DEF ValidBlock, ValidBlockOn
<1>2. \A i, j \in Claims(txs) : Body[txs[i]].source = Body[txs[j]].source => i = j
  BY <1>1 DEF NoRepeats, Claims
<1>3. ASSUME NEW i \in Claims(txs) PROVE Body[txs[i]].source \notin blocks[prev].claimed
  <2>1. i \in 2..Len(txs) /\ IsClaim(txs[i])
    BY <1>3 DEF Claims
  <2>2. \E view : ValidTx(txs[i], DOMAIN view, view, AlreadyClaimed(blocks[prev], txs, i),
                          NextHeight(prev), review)
    BY <1>1, <2>1 DEF ValidInOrder
  <2>3. Body[txs[i]].source \notin AlreadyClaimed(blocks[prev], txs, i)
    BY <2>1, <2>2 DEF ValidTx, ValidClaim
  <2> QED BY <2>3 DEF AlreadyClaimed
<1> QED BY <1>2, <1>3 DEF FreshClaims, ClaimedBy

(***************************************************************************)
(* Rows.                                                                   *)
(***************************************************************************)

\* The row that store_block adds has the type of a row.
LEMMA RowType ==
    ASSUME TypeOK, NEW prev \in Hash \cup {NoBlock}, NEW txs \in Seq(Tx),
           prev # NoBlock => prev \in Stored
    PROVE  IsRow(Row(prev, txs))
<1>1. CASE prev = NoBlock
  <2>1. IsView(ViewAfter(EmptyView, txs, 0))
    BY EmptyViewType, ViewAfterType
  <2> QED BY <1>1, <2>1, ChainNodeAssumption DEF Row, GenesisRow, IsRow
<1>2. CASE prev # NoBlock
  <2>1. IsRow(blocks[prev]) /\ prev \in Hash
    BY <1>2 DEF TypeOK
  <2>2. NextHeight(prev) \in Nat /\ blocks[prev].work + BlockWork \in Nat \ {0}
    <3>1. blocks[prev].height \in Nat /\ blocks[prev].work \in Nat \ {0} /\ BlockWork \in Nat \ {0}
      BY <2>1, ChainNodeAssumption DEF IsRow
    <3> QED BY <3>1 DEF NextHeight
  <2>3. IsView(ViewAfter(blocks[prev].view, txs, NextHeight(prev)))
    BY <2>1, <2>2, ViewAfterType DEF IsRow
  <2>4. blocks[prev].path \cup {prev} \subseteq Hash
    BY <2>1 DEF IsRow
  <2>5. blocks[prev].claimed \cup ClaimedBy(txs) \subseteq Source
    BY <2>1, ClaimedByType DEF IsRow
  <2> QED BY <1>2, <2>2, <2>3, <2>4, <2>5 DEF Row, ChildRow, RowOver, IsRow
<1> QED BY <1>1, <1>2

(***************************************************************************)
(* Steps.                                                                  *)
(***************************************************************************)

\* What is said of the rows alone is kept by a step that stores no block.
LEMMA RowsKept ==
    ASSUME IInv, blocks' = blocks
    PROVE  ClaimsCovered' /\ OneBlockPerHeight' /\ ClaimedOncePerBranch'
<1>1. ClaimsCovered'
  BY DEF IInv, ChecksStillHold, ClaimsCovered, Stored, PathTo
<1>2. OneBlockPerHeight'
  BY DEF IInv, OneBlockPerHeight, Stored, PathTo
<1>3. ClaimedOncePerBranch'
  BY DEF IInv, ClaimedOncePerBranch, Stored, PathTo
<1> QED BY <1>1, <1>2, <1>3

\* A step that only moves one handler preserves the invariant if the handler's
\* new local variables fit the tables.
LEMMA JobStep ==
    ASSUME IInv, UNCHANGED tables, NEW t \in Threads, NEW j \in Job,
           Goto(t, j), JobFits(j)
    PROVE  IInv'
<1>1. job' \in [Threads -> Job]
  BY DEF IInv, TypeOK, Goto
<1>2. \A u \in Threads : JobFits(job'[u])
  BY DEF IInv, ChecksStillHold, TypeOK, Goto
<1>3. \A u \in Threads : JobFits(job[u])'
  BY <1>2 DEF tables, JobFits, FreshClaims, Stored
<1>4. TypeOK'
  BY <1>1 DEF IInv, TypeOK, tables, Stored
<1>5. IndexesMatchHead'
  BY DEF IInv, tables, IndexesMatchHead, Stored, PathTo
<1>6. ClaimsCovered' /\ OneBlockPerHeight' /\ ClaimedOncePerBranch'
  BY RowsKept DEF tables
<1> QED BY <1>3, <1>4, <1>5, <1>6 DEF IInv, ChecksStillHold

\* A handler may always return.
LEMMA DoneStep ==
    ASSUME IInv, UNCHANGED tables, NEW t \in Threads, Done(t)
    PROVE  IInv'
<1>1. Idle \in Job /\ JobFits(Idle)
  BY DEF Idle, Job, JobFits
<1> QED BY <1>1, JobStep DEF Done

\* A node with an empty database satisfies the invariant.
LEMMA InitInv == Init => IInv
<1> SUFFICES ASSUME Init PROVE IInv
  OBVIOUS
<1>1. Stored = {} /\ best = NoBlock /\ canonical = {} /\ utxos = {} /\ claims = {}
  BY DEF Init, Stored
<1>2. Idle \in Job /\ JobFits(Idle)
  BY DEF Idle, Job, JobFits
<1>3. TypeOK
  <2>1. review \in [Source -> ReviewStatus]
    BY DEF Init, ReviewStatus
  <2>2. job \in [Threads -> Job]
    BY <1>2 DEF Init
  <2> QED BY <1>1, <2>1, <2>2 DEF TypeOK, Init
<1>4. \A t \in Threads : JobFits(job[t])
  BY <1>2 DEF Init
<1>5. ClaimsCovered /\ OneBlockPerHeight /\ ClaimedOncePerBranch /\ IndexesMatchHead
  BY <1>1 DEF ClaimsCovered, OneBlockPerHeight, ClaimedOncePerBranch, IndexesMatchHead
<1> QED BY <1>3, <1>4, <1>5 DEF IInv, ChecksStillHold

\* The steps of submit_transaction before its INSERT change local variables only.
LEMMA SubmitSteps ==
    ASSUME IInv, NEW t \in Threads,
           Submit(t) \/ ReadUtxos(t) \/ Check(t) \/ CheckConflicts(t)
    PROVE  IInv'
<1>1. ASSUME At(t, "view") \/ At(t, "check") \/ At(t, "conflict")
      PROVE  job[t].tx \in Submittable
  <2>1. job[t] \in Job
    BY DEF IInv, TypeOK
  <2> QED BY <1>1, <2>1 DEF Job, At
<1>2. ASSUME NEW x \in Submittable, NEW place \in {"view", "conflict", "save"}
      PROVE  /\ [at |-> place, tx |-> x] \in Job
             /\ JobFits([at |-> place, tx |-> x])
  BY DEF Job, JobFits
<1>3. CASE Submit(t)
  <2>1. UNCHANGED tables
    BY <1>3 DEF Submit
  <2>2. PICK x \in Submittable : Goto(t, [at |-> "view", tx |-> x]) \/ Done(t)
    BY <1>3 DEF Submit
  <2>3. CASE Goto(t, [at |-> "view", tx |-> x])
    BY <1>2, <2>1, <2>3, JobStep
  <2> QED BY <2>1, <2>2, <2>3, DoneStep
<1>4. CASE ReadUtxos(t)
  <2> DEFINE j == [at |-> "check", tx |-> job[t].tx, unspent |-> utxos]
  <2>1. UNCHANGED tables /\ Goto(t, j) /\ At(t, "view")
    BY <1>4 DEF ReadUtxos
  <2>2. utxos \in SUBSET Outpoint
    BY DEF IInv, TypeOK
  <2>3. j \in Job
    BY <1>1, <2>1, <2>2 DEF Job
  <2>4. JobFits(j)
    BY DEF JobFits
  <2> HIDE DEF j
  <2> QED BY <2>1, <2>3, <2>4, JobStep
<1>5. CASE Check(t)
  <2>1. UNCHANGED tables /\ At(t, "check")
    BY <1>5 DEF Check
  <2>2. Goto(t, [at |-> "conflict", tx |-> job[t].tx]) \/ Done(t)
    BY <1>5 DEF Check
  <2>3. CASE Goto(t, [at |-> "conflict", tx |-> job[t].tx])
    BY <1>1, <1>2, <2>1, <2>3, JobStep
  <2> QED BY <2>1, <2>2, <2>3, DoneStep
<1>6. CASE CheckConflicts(t)
  <2>1. UNCHANGED tables /\ At(t, "conflict")
    BY <1>6 DEF CheckConflicts
  <2>2. Goto(t, [at |-> "save", tx |-> job[t].tx]) \/ Done(t)
    BY <1>6 DEF CheckConflicts
  <2>3. CASE Goto(t, [at |-> "save", tx |-> job[t].tx])
    BY <1>1, <1>2, <2>1, <2>3, JobStep
  <2> QED BY <2>1, <2>2, <2>3, DoneStep
<1> QED BY <1>3, <1>4, <1>5, <1>6

\* A valid block may be handed to store_block.
LEMMA StoreJob ==
    ASSUME IInv, NEW h \in Hash, NEW prev \in Stored \cup {NoBlock}, NEW txs \in Seq(Tx),
           NEW local \in BOOLEAN, ValidBlock(prev, txs), UNCHANGED tables,
           NEW t \in Threads,
           Goto(t, [at |-> "store", hash |-> h, prev |-> prev, txs |-> txs, local |-> local])
    PROVE  IInv'
<1> DEFINE j == [at |-> "store", hash |-> h, prev |-> prev, txs |-> txs, local |-> local]
<1>1. prev \in Hash \cup {NoBlock}
  BY DEF IInv, TypeOK
<1>2. j \in Job
  BY <1>1 DEF Job
<1>3. IF prev = NoBlock THEN Len(txs) = 1 ELSE prev \in Stored /\ FreshClaims(prev, txs)
  BY ValidBlockIsFresh DEF ValidBlock
<1>4. JobFits(j)
  BY <1>3 DEF JobFits
<1>5. Goto(t, j)
  OBVIOUS
<1> HIDE DEF j
<1> QED BY <1>2, <1>4, <1>5, JobStep

\* A block built from the pending table is a sequence of transactions.
LEMMA QueuesType ==
    ASSUME IInv, NEW queue \in Queues PROVE queue \in Seq(Tx)
<1>1. PICK n \in 0..MaxPerBlock : queue \in [1..n -> pending]
  BY DEF Queues
<1>2. pending \subseteq Tx
  BY ChainNodeAssumption DEF IInv, TypeOK
<1> QED BY <1>1, <1>2, ChainNodeAssumption

\* Validating a block, made here or by a peer, and choosing between two heads
\* change local variables only.
LEMMA BlockSteps ==
    ASSUME IInv, NEW t \in Threads,
           \/ CreateGenesis(t) \/ Mine(t) \/ ReadPending(t) \/ Build(t) \/ Import(t)
           \/ SelectBestChain(t)
    PROVE  IInv'
<1>1. job[t] \in Job /\ JobFits(job[t])
  BY DEF IInv, ChecksStillHold, TypeOK
<1>2. CASE CreateGenesis(t)
  <2>1. <<GenesisTx>> \in Seq(Tx) /\ GenesisHash \in Hash
    BY ChainNodeAssumption
  <2>2. /\ UNCHANGED tables /\ ValidBlock(NoBlock, <<GenesisTx>>)
        /\ Goto(t, [at |-> "store", hash |-> GenesisHash, prev |-> NoBlock,
                    txs |-> <<GenesisTx>>, local |-> TRUE])
    BY <1>2 DEF CreateGenesis
  <2> QED BY <2>1, <2>2, StoreJob
<1>3. CASE Mine(t)
  <2>1. best \in Stored /\ best \in Hash
    BY <1>3 DEF Mine, IInv, IndexesMatchHead, TypeOK
  <2>2. /\ [at |-> "queue", head |-> best] \in Job
        /\ JobFits([at |-> "queue", head |-> best])
    BY <2>1 DEF Job, JobFits
  <2>3. UNCHANGED tables /\ Goto(t, [at |-> "queue", head |-> best])
    BY <1>3 DEF Mine
  <2> QED BY <2>2, <2>3, JobStep
<1>4. CASE ReadPending(t)
  <2>1. UNCHANGED tables /\ At(t, "queue")
    BY <1>4 DEF ReadPending
  <2>2. PICK queue \in Queues :
           Goto(t, [at |-> "build", head |-> job[t].head, queue |-> queue])
    BY <1>4 DEF ReadPending
  <2> DEFINE j == [at |-> "build", head |-> job[t].head, queue |-> queue]
  <2>3. job[t].head \in Stored /\ job[t].head \in Hash
    BY <1>1, <2>1 DEF JobFits, At, Job
  <2>4. queue \in Seq(Tx)
    BY QueuesType
  <2>5. j \in Job /\ JobFits(j) /\ Goto(t, j)
    BY <2>2, <2>3, <2>4 DEF Job, JobFits
  <2> HIDE DEF j
  <2> QED BY <2>1, <2>5, JobStep
<1>5. CASE Build(t)
  <2>1. UNCHANGED tables /\ At(t, "build")
    BY <1>5 DEF Build
  <2>2. job[t].head \in Stored /\ job[t].queue \in Seq(Tx)
    BY <1>1, <2>1 DEF JobFits, At, Job
  <2>3. CASE Done(t)
    BY <2>1, <2>3, DoneStep
  <2>4. CASE ~Done(t)
    <3>1. PICK r \in Tx, h \in Hash :
            /\ ValidBlock(job[t].head, <<r>> \o job[t].queue)
            /\ Goto(t, [at |-> "store", hash |-> h, prev |-> job[t].head,
                        txs |-> <<r>> \o job[t].queue, local |-> FALSE])
      BY <1>5, <2>4 DEF Build, Rewards
    <3>2. <<r>> \o job[t].queue \in Seq(Tx)
      BY <2>2
    <3> QED BY <2>1, <2>2, <3>1, <3>2, StoreJob
  <2> QED BY <2>3, <2>4
<1>6. CASE Import(t)
  <2>1. PICK prev \in Stored \cup {NoBlock}, first \in Tx,
             rest \in BoundedSeq(Submittable, MaxPeerTxs - 1) :
          /\ ValidBlock(prev, <<first>> \o rest)
          /\ \E h \in Hash :
                Goto(t, [at |-> "store", hash |-> h, prev |-> prev,
                         txs |-> <<first>> \o rest, local |-> FALSE])
    BY <1>6, Zenon DEF Import
  <2>2. rest \in Seq(Submittable)
    BY ChainNodeAssumption DEF BoundedSeq, SeqOf
  <2>3. rest \in Seq(Tx)
    BY <2>2, ChainNodeAssumption
  <2>4. <<first>> \o rest \in Seq(Tx)
    BY <2>3
  <2>5. UNCHANGED tables
    BY <1>6 DEF Import
  <2> QED BY <2>1, <2>4, <2>5, StoreJob
<1>7. CASE SelectBestChain(t)
  <2> DEFINE j == [at |-> "apply", hash |-> job[t].hash]
  <2>1. UNCHANGED tables /\ At(t, "select")
    BY <1>7 DEF SelectBestChain
  <2>2. j \in Job /\ JobFits(j)
    BY <1>1, <2>1 DEF Job, JobFits, At
  <2>3. Goto(t, j) \/ Done(t)
    BY <1>7 DEF SelectBestChain
  <2> HIDE DEF j
  <2> QED BY <2>1, <2>2, <2>3, JobStep, DoneStep
<1> QED BY <1>2, <1>3, <1>4, <1>5, <1>6, <1>7

\* A crash loses the local variables of every handler, and no table.
LEMMA CrashStep == ASSUME IInv, Crash PROVE IInv'
<1>1. Idle \in Job /\ JobFits(Idle)
  BY DEF Idle, Job, JobFits
<1>2. UNCHANGED tables /\ job' = [t \in Threads |-> Idle]
  BY DEF Crash
<1>3. job' \in [Threads -> Job]
  BY <1>1, <1>2
<1>4. \A u \in Threads : JobFits(job[u])'
  <2>1. \A u \in Threads : JobFits(job'[u])
    BY <1>1, <1>2
  <2> QED BY <1>2, <2>1 DEF tables, JobFits, FreshClaims, Stored
<1>5. TypeOK'
  BY <1>2, <1>3 DEF IInv, TypeOK, tables, Stored
<1>6. IndexesMatchHead'
  BY <1>2 DEF IInv, tables, IndexesMatchHead, Stored, PathTo
<1>7. ClaimsCovered' /\ OneBlockPerHeight' /\ ClaimedOncePerBranch'
  BY <1>2, RowsKept DEF tables
<1> QED BY <1>4, <1>5, <1>6, <1>7 DEF IInv, ChecksStillHold

\* An operator's review changes no index and no branch.
LEMMA ReviewStep ==
    ASSUME IInv, NEW s \in Source, NEW status \in ReviewStatus, SetReview(s, status)
    PROVE  IInv'
<1>1. UNCHANGED <<blocks, canonical, utxos, claims, pending, best, job>>
  BY DEF SetReview
<1>2. review' \in [Source -> ReviewStatus]
  BY DEF SetReview, IInv, TypeOK
<1>3. TypeOK'
  BY <1>1, <1>2 DEF IInv, TypeOK, Stored
<1>4. \A u \in Threads : JobFits(job[u])'
  BY <1>1 DEF IInv, ChecksStillHold, JobFits, FreshClaims, Stored
<1>5. IndexesMatchHead'
  BY <1>1 DEF IInv, IndexesMatchHead, Stored, PathTo
<1>6. ClaimsCovered' /\ OneBlockPerHeight' /\ ClaimedOncePerBranch'
  BY <1>1, RowsKept
<1> QED BY <1>3, <1>4, <1>5, <1>6 DEF IInv, ChecksStillHold

\* A step that leaves the rows alone and one handler idle preserves what the
\* other handlers know.
LEMMA OthersFit ==
    ASSUME IInv, NEW t \in Threads, Done(t), blocks' = blocks
    PROVE  job' \in [Threads -> Job] /\ \A u \in Threads : JobFits(job[u])'
<1>1. Idle \in Job /\ JobFits(Idle)
  BY DEF Idle, Job, JobFits
<1>2. job' \in [Threads -> Job]
  BY <1>1 DEF Done, Goto, IInv, TypeOK
<1>3. \A u \in Threads : JobFits(job'[u])
  BY <1>1 DEF Done, Goto, IInv, ChecksStillHold, TypeOK
<1> QED BY <1>2, <1>3 DEF JobFits, FreshClaims, Stored

\* The INSERT of save_pending.
LEMMA SaveStep == ASSUME IInv, NEW t \in Threads, SavePending(t) PROVE IInv'
<1>1. UNCHANGED <<blocks, canonical, utxos, claims, best, review>> /\ Done(t)
  BY DEF SavePending
<1>2. pending' \subseteq Submittable
  <2>1. job[t] \in Job
    BY DEF IInv, TypeOK
  <2>2. job[t].tx \in Submittable
    BY <2>1 DEF SavePending, At, Job
  <2> QED BY <2>2 DEF SavePending, IInv, TypeOK
<1>3. TypeOK'
  BY <1>1, <1>2, OthersFit DEF IInv, TypeOK, Stored
<1>4. IndexesMatchHead'
  BY <1>1 DEF IInv, IndexesMatchHead, Stored, PathTo
<1>5. ClaimsCovered' /\ OneBlockPerHeight' /\ ClaimedOncePerBranch'
  BY <1>1, RowsKept
<1> QED BY <1>1, <1>3, <1>4, <1>5, OthersFit DEF IInv, ChecksStillHold

\* apply_best_chain moves every index to the same block, which is stored.
LEMMA ApplyStep == ASSUME IInv, NEW t \in Threads, ApplyBestChain(t) PROVE IInv'
<1> DEFINE h == job[t].hash
<1>1. h \in Stored /\ h \in Hash /\ h # NoBlock
  <2>1. h \in Stored
    BY DEF IInv, ChecksStillHold, JobFits, ApplyBestChain, At
  <2> QED BY <2>1, ChainNodeAssumption DEF IInv, TypeOK
<1>2. /\ blocks' = blocks /\ review' = review /\ best' = h /\ Done(t)
      /\ canonical' = PathTo(h) /\ utxos' = DOMAIN blocks[h].view
      /\ claims' = blocks[h].claimed /\ pending' \subseteq pending
  BY DEF ApplyBestChain
<1> HIDE DEF h
<1>3. IsRow(blocks[h])
  BY <1>1 DEF IInv, TypeOK
<1>4. TypeOK'
  <2>1. canonical' \subseteq Hash
    BY <1>1, <1>2, <1>3 DEF PathTo, IsRow
  <2>2. utxos' \subseteq Outpoint /\ claims' \subseteq Source
    BY <1>2, <1>3 DEF IsRow, IsView
  <2>3. Stored' \subseteq Hash /\ \A g \in Stored' : IsRow(blocks'[g])
    BY <1>2 DEF IInv, TypeOK, Stored
  <2>4. pending' \subseteq Submittable /\ review' \in [Source -> ReviewStatus]
    BY <1>2 DEF IInv, TypeOK
  <2>5. job' \in [Threads -> Job]
    BY <1>2, OthersFit
  <2> QED BY <1>1, <1>2, <2>1, <2>2, <2>3, <2>4, <2>5 DEF TypeOK, IsRow, IsView
<1>5. IndexesMatchHead'
  BY <1>1, <1>2 DEF IndexesMatchHead, Stored, PathTo
<1>6. ClaimsCovered' /\ OneBlockPerHeight' /\ ClaimedOncePerBranch'
  BY <1>2, RowsKept
<1> QED BY <1>2, <1>4, <1>5, <1>6, OthersFit DEF IInv, ChecksStillHold

(***************************************************************************)
(* The step that adds a row.                                               *)
(***************************************************************************)

\* store_block extends the blocks table with a row whose branch is its parent's
\* and itself, and returns to the fork choice.
LEMMA StoreStep == ASSUME IInv, NEW t \in Threads, StoreBlock(t) PROVE IInv'
<1>1. job[t] \in Job /\ JobFits(job[t]) /\ At(t, "store")
  BY DEF IInv, ChecksStillHold, TypeOK, StoreBlock
<1>2. PICK h \in Hash, prev \in Hash \cup {NoBlock}, txs \in Seq(Tx) :
         job[t].hash = h /\ job[t].prev = prev /\ job[t].txs = txs
  BY <1>1 DEF Job, At
<1> DEFINE row == Row(prev, txs)
           j == [at |-> IF job[t].local THEN "apply" ELSE "select", hash |-> h]
<1>3. IF prev = NoBlock THEN Len(txs) = 1 ELSE prev \in Stored /\ FreshClaims(prev, txs)
  BY <1>1, <1>2 DEF JobFits, At
<1>4. UNCHANGED <<canonical, utxos, claims, pending, best, review>>
  BY DEF StoreBlock
<1>5. CASE h \in Stored
  BY <1>2, <1>4, <1>5, DoneStep DEF StoreBlock, tables
<1>6. CASE h \notin Stored
  <2>1. /\ Stored' = Stored \cup {h}
        /\ \A g \in Stored : blocks'[g] = blocks[g]
        /\ blocks'[h] = row
    BY <1>2, <1>6 DEF StoreBlock, Stored
  <2>2. Goto(t, j)
    BY <1>2, <1>6 DEF StoreBlock
  <2>3. IsRow(row)
    BY <1>3, RowType DEF IInv
  <2>4. j \in Job
    BY DEF Job
  <2> HIDE DEF row, j
  <2>5. ASSUME NEW g \in Stored
        PROVE  /\ PathTo(g) \subseteq Stored /\ PathTo(g)' = PathTo(g)
               /\ blocks'[g] = blocks[g] /\ g # h
    BY <1>6, <2>1 DEF PathTo, IInv, OneBlockPerHeight
  <2>6. PathTo(h)' = IF prev = NoBlock THEN {h} ELSE PathTo(prev) \cup {h}
    BY <2>1 DEF PathTo, row, Row, GenesisRow, ChildRow, RowOver
  <2>7. /\ row.txs = txs
        /\ prev # NoBlock => /\ row.height = blocks[prev].height + 1
                             /\ row.claimed = blocks[prev].claimed \cup ClaimedBy(txs)
        /\ prev = NoBlock => row.height = 0
    BY DEF row, Row, GenesisRow, ChildRow, RowOver, NextHeight
  <2>8. TypeOK'
    <3>1. job' \in [Threads -> Job]
      BY <2>2, <2>4 DEF Goto, IInv, TypeOK
    <3>2. Stored' \subseteq Hash /\ \A g \in Stored' : IsRow(blocks'[g])
      BY <2>1, <2>3 DEF IInv, TypeOK
    <3>3. \A g \in Stored' : IsRow(blocks[g])'
      BY <3>2 DEF IsRow, IsView
    <3>4. /\ canonical' \subseteq Hash /\ utxos' \subseteq Outpoint
          /\ claims' \subseteq Source /\ pending' \subseteq Submittable
          /\ best' \in Hash \cup {NoBlock} /\ review' \in [Source -> ReviewStatus]
      BY <1>4 DEF IInv, TypeOK
    <3> QED BY <3>1, <3>2, <3>3, <3>4 DEF TypeOK
  <2>9. \A u \in Threads : JobFits(job[u])'
    <3>1. \A u \in Threads : u # t => job'[u] = job[u]
      BY <2>2 DEF Goto, IInv, TypeOK
    <3>2. job'[t] = j
      BY <2>2 DEF Goto, IInv, TypeOK
    <3>3. h \in Stored'
      BY <2>1
    <3>4. JobFits(job[t])'
      BY <3>2, <3>3 DEF JobFits, j
    <3>5. ASSUME NEW u \in Threads, u # t PROVE JobFits(job[u])'
      <4>1. job[u] \in Job /\ JobFits(job[u]) /\ job'[u] = job[u]
        BY <3>1, <3>5 DEF IInv, ChecksStillHold, TypeOK
      <4> QED BY <2>1, <4>1 DEF JobFits, FreshClaims
    <3> QED BY <3>4, <3>5
  <2>10. ClaimsCovered'
    <3>1. ASSUME NEW g \in Stored, NEW b \in PathTo(g)'
          PROVE  ClaimedBy(blocks'[b].txs) \subseteq blocks'[g].claimed
      BY <2>1, <2>5 DEF IInv, ChecksStillHold, ClaimsCovered
    <3>2. ASSUME NEW b \in PathTo(h)'
          PROVE  ClaimedBy(blocks'[b].txs) \subseteq blocks'[h].claimed
      <4>1. CASE prev = NoBlock
        BY <1>3, <2>1, <2>6, <2>7, <4>1, SingleClaimsNothing
      <4>2. CASE prev # NoBlock /\ b = h
        BY <2>1, <2>7, <4>2
      <4>3. CASE prev # NoBlock /\ b # h
        <5>1. prev \in Stored /\ b \in PathTo(prev)
          BY <1>3, <2>6, <4>3
        <5>2. b \in Stored /\ blocks'[b] = blocks[b]
          BY <2>1, <2>5, <5>1
        <5>3. ClaimedBy(blocks[b].txs) \subseteq blocks[prev].claimed
          BY <5>1 DEF IInv, ChecksStillHold, ClaimsCovered
        <5> QED BY <2>1, <2>7, <4>3, <5>2, <5>3
      <4> QED BY <4>1, <4>2, <4>3
    <3> QED BY <2>1, <3>1, <3>2 DEF ClaimsCovered
  <2>11. IndexesMatchHead'
    BY <1>4, <2>1, <2>5 DEF IInv, IndexesMatchHead
  <2>12. OneBlockPerHeight'
    <3> DEFINE heights(g) == {blocks[a].height : a \in PathTo(g)}
    <3>1. ASSUME NEW g \in Stored
          PROVE  /\ PathTo(g)' \subseteq Stored'
                 /\ \A a, b \in PathTo(g)' : blocks'[a].height = blocks'[b].height => a = b
                 /\ {blocks'[a].height : a \in PathTo(g)'} = 0..blocks'[g].height
      <4>1. /\ PathTo(g) \subseteq Stored
            /\ \A a, b \in PathTo(g) : blocks[a].height = blocks[b].height => a = b
            /\ heights(g) = 0..blocks[g].height
        BY DEF IInv, OneBlockPerHeight
      <4>2. \A a \in PathTo(g) : blocks'[a] = blocks[a]
        BY <2>1, <4>1
      <4>3. PathTo(g)' = PathTo(g) /\ blocks'[g] = blocks[g]
        BY <2>5
      <4>4. {blocks'[a].height : a \in PathTo(g)'} = heights(g)
        BY <4>2, <4>3
      <4> QED BY <2>1, <4>1, <4>2, <4>3, <4>4
    <3>2. CASE prev = NoBlock
      <4>1. PathTo(h)' = {h} /\ blocks'[h].height = 0
        BY <2>1, <2>6, <2>7, <3>2
      <4>2. {blocks'[a].height : a \in {h}} = 0..0
        BY <4>1
      <4> QED BY <2>1, <3>1, <4>1, <4>2 DEF OneBlockPerHeight
    <3>3. CASE prev # NoBlock
      <4> DEFINE top == blocks[prev].height
      <4>1. prev \in Stored /\ top \in Nat
        BY <1>3, <3>3 DEF IInv, TypeOK, IsRow
      <4>2. /\ PathTo(prev) \subseteq Stored
            /\ \A a, b \in PathTo(prev) : blocks[a].height = blocks[b].height => a = b
            /\ heights(prev) = 0..top
        BY <4>1 DEF IInv, OneBlockPerHeight
      <4>3. PathTo(h)' = PathTo(prev) \cup {h} /\ blocks'[h].height = top + 1
        BY <2>1, <2>6, <2>7, <3>3
      <4>4. \A a \in PathTo(prev) : blocks'[a] = blocks[a] /\ blocks[a].height \in 0..top
        BY <2>1, <4>2
      <4>5. \A a, b \in PathTo(h)' : blocks'[a].height = blocks'[b].height => a = b
        <5> HIDE DEF top
        <5> QED BY <4>1, <4>2, <4>3, <4>4
      <4>6. {blocks'[a].height : a \in PathTo(h)'} = heights(prev) \cup {top + 1}
        BY <4>3, <4>4
      <4>7. (0..top) \cup {top + 1} = 0..(top + 1)
        BY <4>1
      <4>8. PathTo(h)' \subseteq Stored'
        BY <2>1, <4>2, <4>3
      <4> QED BY <2>1, <3>1, <4>2, <4>3, <4>5, <4>6, <4>7, <4>8 DEF OneBlockPerHeight
    <3> QED BY <3>2, <3>3
  <2>13. ClaimedOncePerBranch'
    <3>1. ASSUME NEW g \in Stored
          PROVE  /\ \A i, k \in Claims(blocks'[g].txs) :
                       Body[blocks'[g].txs[i]].source = Body[blocks'[g].txs[k]].source => i = k
                 /\ \A a, b \in PathTo(g)' :
                       a # b => ClaimedBy(blocks'[a].txs) \cap ClaimedBy(blocks'[b].txs) = {}
      <4>1. PathTo(g)' = PathTo(g) /\ \A a \in PathTo(g) : blocks'[a] = blocks[a]
        BY <2>1, <2>5
      <4>2. \A i, k \in Claims(blocks[g].txs) :
               Body[blocks[g].txs[i]].source = Body[blocks[g].txs[k]].source => i = k
        BY DEF IInv, ClaimedOncePerBranch
      <4>3. \A a, b \in PathTo(g) : a # b => ClaimedBy(blocks[a].txs) \cap ClaimedBy(blocks[b].txs) = {}
        BY DEF IInv, ClaimedOncePerBranch
      <4>4. blocks'[g] = blocks[g]
        BY <2>5
      <4> QED BY <4>1, <4>2, <4>3, <4>4
    <3>2. \A i, k \in Claims(txs) : Body[txs[i]].source = Body[txs[k]].source => i = k
      BY <1>3, SingleClaimsNothing DEF FreshClaims
    <3>3. ASSUME NEW a \in PathTo(h)', NEW b \in PathTo(h)', a # b
          PROVE  ClaimedBy(blocks'[a].txs) \cap ClaimedBy(blocks'[b].txs) = {}
      <4>1. prev # NoBlock /\ prev \in Stored
        BY <1>3, <2>6, <3>3
      <4>2. \A c \in PathTo(prev) :
               /\ blocks'[c] = blocks[c] /\ c # h
               /\ ClaimedBy(blocks[c].txs) \subseteq blocks[prev].claimed
        BY <2>1, <2>5, <4>1 DEF IInv, ChecksStillHold, ClaimsCovered
      <4>3. ClaimedBy(txs) \cap blocks[prev].claimed = {}
        BY <1>3, <4>1 DEF FreshClaims
      <4>4. CASE a \in PathTo(prev) /\ b \in PathTo(prev)
        BY <3>3, <4>1, <4>2, <4>4 DEF IInv, ClaimedOncePerBranch
      <4>5. CASE a = h
        <5>1. b \in PathTo(prev)
          BY <2>6, <3>3, <4>1, <4>5
        <5> QED BY <2>1, <2>7, <4>2, <4>3, <4>5, <5>1
      <4>6. CASE b = h
        <5>1. a \in PathTo(prev)
          BY <2>6, <3>3, <4>1, <4>6
        <5> QED BY <2>1, <2>7, <4>2, <4>3, <4>6, <5>1
      <4> QED BY <2>6, <4>1, <4>4, <4>5, <4>6
    <3>4. \A i, k \in Claims(blocks'[h].txs) :
             Body[blocks'[h].txs[i]].source = Body[blocks'[h].txs[k]].source => i = k
      BY <2>1, <2>7, <3>2
    <3>5. ASSUME NEW g \in Stored'
          PROVE  /\ \A i, k \in Claims(blocks'[g].txs) :
                       Body[blocks'[g].txs[i]].source = Body[blocks'[g].txs[k]].source => i = k
                 /\ \A a, b \in PathTo(g)' :
                       a # b => ClaimedBy(blocks'[a].txs) \cap ClaimedBy(blocks'[b].txs) = {}
      <4>1. CASE g = h
        BY <3>3, <3>4, <4>1
      <4>2. CASE g # h
        BY <2>1, <3>1, <4>2
      <4> QED BY <4>1, <4>2
    <3> QED BY <3>5 DEF ClaimedOncePerBranch
  <2> QED BY <2>8, <2>9, <2>10, <2>11, <2>12, <2>13 DEF IInv, ChecksStillHold
<1> QED BY <1>5, <1>6

(***************************************************************************)
(* The invariant and what follows from it.                                 *)
(***************************************************************************)

\* Every step of every handler, a review or a crash preserves the invariant.
LEMMA NextInv == IInv /\ [Next]_vars => IInv'
<1> SUFFICES ASSUME IInv, [Next]_vars PROVE IInv'
  OBVIOUS
<1>1. CASE UNCHANGED vars
  <2>1. UNCHANGED tables /\ job' = job
    BY <1>1 DEF vars, tables
  <2>2. TypeOK' /\ IndexesMatchHead'
    BY <2>1 DEF IInv, TypeOK, IndexesMatchHead, tables, Stored, PathTo
  <2>3. \A t \in Threads : JobFits(job[t])'
    BY <2>1 DEF IInv, ChecksStillHold, JobFits, FreshClaims, tables, Stored
  <2>4. ClaimsCovered' /\ OneBlockPerHeight' /\ ClaimedOncePerBranch'
    BY <2>1, RowsKept DEF tables
  <2> QED BY <2>2, <2>3, <2>4 DEF IInv, ChecksStillHold
<1>2. ASSUME NEW t \in Threads, Step(t) PROVE IInv'
  BY <1>2, SubmitSteps, BlockSteps, SaveStep, StoreStep, ApplyStep DEF Step
<1>3. ASSUME NEW s \in Source, NEW status \in ReviewStatus, SetReview(s, status) PROVE IInv'
  BY <1>3, ReviewStep
<1>4. CASE Crash
  BY <1>4, CrashStep
<1> QED BY <1>1, <1>2, <1>3, <1>4 DEF Next

\* The invariant holds in every reachable state of a node, for any number of
\* handler threads, any transactions and blocks, and any crashes.
THEOREM Invariant == Spec => []IInv
<1> QED BY InitInv, NextInv, PTL DEF Spec

\* Types: every table and local variable of the handlers keeps its type.
THEOREM Typing == Spec => []TypeOK
<1>1. IInv => TypeOK
  BY DEF IInv
<1> QED BY <1>1, Invariant, PTL

\* The canonical flags, the utxos table and the migration_claims table are those
\* of the block best_head_hash names: apply_best_chain replaces all of them in one
\* SQLite transaction, so no interleaving and no crash leaves them apart.
THEOREM Indexes == Spec => []IndexesMatchHead
<1>1. IInv => IndexesMatchHead
  BY DEF IInv
<1> QED BY <1>1, Invariant, PTL

\* Stored branches reach a root through stored blocks, one at each height, so
\* path_to_root and block_at_height agree on every branch.
THEOREM Branches == Spec => []OneBlockPerHeight
<1>1. IInv => OneBlockPerHeight
  BY DEF IInv
<1> QED BY <1>1, Invariant, PTL

\* No branch that the node stores pays a classical address's migration claim
\* twice, whoever made the blocks and in whatever order they arrived.
THEOREM NoDoubleClaim == Spec => []ClaimedOncePerBranch
<1>1. IInv => ClaimedOncePerBranch
  BY DEF IInv
<1> QED BY <1>1, Invariant, PTL

\* What a handler checked under one connection still holds when it uses the
\* result under another: the parent is stored, and the claims of a validated
\* block are fresh on its branch, up to the INSERT of store_block.
THEOREM ChecksHold == Spec => []ChecksStillHold
<1>1. IInv => ChecksStillHold
  BY DEF IInv
<1> QED BY <1>1, Invariant, PTL

(***************************************************************************)
(* What validate_block established about a block whose parent is a row.    *)
(***************************************************************************)
SoundRoot(txs) ==
    /\ Len(txs) = 1 /\ IsAllocation(txs[1])
    /\ Reconciles(ViewAfter(EmptyView, txs, 0), GenesisRow(txs).supply)

SoundChild(parent, txs) ==
    /\ txs # <<>> /\ IsReward(txs[1]) /\ NoRepeats(txs)
    /\ \E status \in [Source -> ReviewStatus] : ValidInOrder(parent, txs, parent.height + 1, status)
    /\ WithinCaps(Issue(parent.supply, txs, parent.height + 1))
    /\ Reconciles(ViewAfter(parent.view, txs, parent.height + 1),
                  Issue(parent.supply, txs, parent.height + 1))

SoundOn(rows, prev, txs) ==
    IF prev = NoBlock THEN SoundRoot(txs) ELSE prev \in DOMAIN rows /\ SoundChild(rows[prev], txs)

\* The row of a block, as a function of the parent's row.
RowAbove(parent, prev, txs) ==
    [height |-> parent.height + 1, prev |-> prev, txs |-> txs,
     work |-> parent.work + BlockWork, path |-> parent.path \cup {prev},
     view |-> ViewAfter(parent.view, txs, parent.height + 1),
     claimed |-> parent.claimed \cup ClaimedBy(txs),
     supply |-> Issue(parent.supply, txs, parent.height + 1)]

RowRight(rows, r) ==
    /\ SoundOn(rows, r.prev, r.txs)
    /\ r = IF r.prev = NoBlock THEN GenesisRow(r.txs) ELSE RowAbove(rows[r.prev], r.prev, r.txs)

\* Every stored row is a valid block's, with the view, the claims and the supply that follow
\* from its parent's; and a block that is about to be stored was found valid on its parent.
RowsSound == \A h \in Stored : RowRight(blocks, blocks[h])
JobsSound == \A t \in Threads : job[t].at = "store" => SoundOn(blocks, job[t].prev, job[t].txs)

SoundInv == IInv /\ RowsSound /\ JobsSound

LEMMA ValidIsSound ==
    ASSUME IInv, NEW prev, NEW txs, ValidBlock(prev, txs)
    PROVE  SoundOn(blocks, prev, txs)
<1>1. CASE prev = NoBlock
  BY <1>1 DEF ValidBlock, SoundOn, SoundRoot
<1>2. CASE prev # NoBlock
  <2>1. /\ prev \in Stored
        /\ txs # <<>> /\ IsReward(txs[1]) /\ NoRepeats(txs)
        /\ ValidInOrder(blocks[prev], txs, blocks[prev].height + 1, review)
        /\ WithinCaps(Issue(blocks[prev].supply, txs, blocks[prev].height + 1))
        /\ Reconciles(ViewAfter(blocks[prev].view, txs, blocks[prev].height + 1),
                      Issue(blocks[prev].supply, txs, blocks[prev].height + 1))
    BY <1>2 DEF ValidBlock, ValidBlockOn, NextHeight
  <2>2. review \in [Source -> ReviewStatus]
    BY DEF IInv, TypeOK
  <2> QED BY <1>2, <2>1, <2>2 DEF SoundOn, SoundChild, Stored
<1> QED BY <1>1, <1>2

LEMMA RowIs ==
    ASSUME NEW prev, NEW txs
    PROVE  Row(prev, txs) = IF prev = NoBlock THEN GenesisRow(txs)
                            ELSE RowAbove(blocks[prev], prev, txs)
BY DEF Row, ChildRow, RowOver, RowAbove, NextHeight

\* What is known of a block stays known while rows are kept.
LEMMA SoundKept ==
    ASSUME NEW rows, NEW more, DOMAIN rows \subseteq DOMAIN more,
           \A g \in DOMAIN rows : more[g] = rows[g]
    PROVE  /\ \A prev, txs : SoundOn(rows, prev, txs) => SoundOn(more, prev, txs)
           /\ \A r : RowRight(rows, r) => RowRight(more, r)
<1>1. \A prev, txs : SoundOn(rows, prev, txs) => SoundOn(more, prev, txs)
  BY DEF SoundOn
<1>2. \A r : RowRight(rows, r) /\ r.prev # NoBlock => r.prev \in DOMAIN rows
  BY DEF RowRight, SoundOn
<1> QED BY <1>1, <1>2 DEF RowRight

\* What a step does to the blocks that are about to be stored.
LEMMA StoreJobs ==
    ASSUME IInv, [Next]_vars
    PROVE  \A t \in Threads : job'[t].at = "store" =>
              \/ job'[t] = job[t]
              \/ ValidBlock(job'[t].prev, job'[t].txs) /\ UNCHANGED tables
<1> SUFFICES ASSUME NEW t \in Threads, job'[t].at = "store", job'[t] # job[t]
             PROVE  ValidBlock(job'[t].prev, job'[t].txs) /\ UNCHANGED tables
  OBVIOUS
<1> USE DEF Goto, Done, Idle
<1>0. job \in [Threads -> Job]
  BY DEF IInv, TypeOK
<1>1. PICK u \in Threads : Step(u)
  <2>1. ~UNCHANGED vars
    BY DEF vars
  <2>2. ~Crash
    BY DEF Crash
  <2>3. ~ \E s \in Source, status \in ReviewStatus : SetReview(s, status)
    BY DEF SetReview
  <2> QED BY <2>1, <2>2, <2>3 DEF Next
<1>2. \A j : job' = [job EXCEPT ![u] = j] => u = t /\ job'[t] = j
  BY <1>0
<1>3. CASE CreateGenesis(u)
  BY <1>3, <1>2 DEF CreateGenesis
<1>4. CASE Build(u)
  <2>1. ~Done(u)
    BY <1>2
  <2>2. PICK r \in Tx, h \in Hash :
           /\ ValidBlock(job[u].head, <<r>> \o job[u].queue)
           /\ Goto(u, [at |-> "store", hash |-> h, prev |-> job[u].head,
                       txs |-> <<r>> \o job[u].queue, local |-> FALSE])
    BY <1>4, <2>1 DEF Build, Rewards
  <2>3. UNCHANGED tables
    BY <1>4 DEF Build
  <2> QED BY <1>2, <2>2, <2>3
<1>5. CASE Import(u)
  BY <1>5, <1>2 DEF Import
<1>6. CASE Submit(u) \/ ReadUtxos(u) \/ Check(u) \/ CheckConflicts(u) \/ SavePending(u)
  BY <1>6, <1>2 DEF Submit, ReadUtxos, Check, CheckConflicts, SavePending
<1>7. CASE Mine(u) \/ ReadPending(u) \/ SelectBestChain(u) \/ ApplyBestChain(u)
  BY <1>7, <1>2 DEF Mine, ReadPending, SelectBestChain, ApplyBestChain
<1>8. CASE StoreBlock(u)
  BY <1>8, <1>2 DEF StoreBlock
<1> QED BY <1>1, <1>3, <1>4, <1>5, <1>6, <1>7, <1>8 DEF Step

\* Rows change in one step only.
LEMMA RowsChange ==
    ASSUME IInv, [Next]_vars
    PROVE  \/ blocks' = blocks
           \/ \E t \in Threads : StoreBlock(t) /\ job[t].hash \notin Stored
<1> SUFFICES ASSUME blocks' # blocks
             PROVE  \E t \in Threads : StoreBlock(t) /\ job[t].hash \notin Stored
  OBVIOUS
<1>1. PICK u \in Threads : Step(u)
  BY DEF Next, vars, Crash, SetReview, tables
<1>2. StoreBlock(u)
  BY <1>1 DEF Step, tables, Submit, ReadUtxos, Check, CheckConflicts, SavePending, CreateGenesis, Mine,
              ReadPending, Build, Import, SelectBestChain, ApplyBestChain
<1> QED BY <1>2 DEF StoreBlock

LEMMA StoredRow ==
    ASSUME IInv, NEW t \in Threads, StoreBlock(t), job[t].hash \notin Stored
    PROVE  /\ Stored' = Stored \cup {job[t].hash}
           /\ \A g \in Stored : blocks'[g] = blocks[g]
           /\ blocks'[job[t].hash] = Row(job[t].prev, job[t].txs)
           /\ job[t].at = "store" /\ job[t] \in Job /\ job[t].hash \in Hash
BY DEF StoreBlock, Stored, At, IInv, TypeOK, Job

LEMMA SoundNext == SoundInv /\ [Next]_vars => SoundInv'
<1> SUFFICES ASSUME SoundInv, [Next]_vars PROVE SoundInv'
  OBVIOUS
<1>1. IInv /\ IInv'
  BY NextInv DEF SoundInv
<1>2. Stored \subseteq Stored' /\ \A g \in Stored : blocks'[g] = blocks[g]
  BY <1>1, RowsChange, StoredRow DEF Stored
<1>3. RowsSound'
  <2>1. CASE blocks' = blocks
    BY <2>1 DEF SoundInv, RowsSound, Stored
  <2>2. ASSUME NEW t \in Threads, StoreBlock(t), job[t].hash \notin Stored
        PROVE  RowsSound'
    <3> DEFINE h == job[t].hash
               prev == job[t].prev
               txs == job[t].txs
               row == Row(prev, txs)
    <3>1. Stored' = Stored \cup {h} /\ blocks'[h] = row /\ job[t].at = "store"
      BY <1>1, <2>2, StoredRow
    <3>2. SoundOn(blocks, prev, txs)
      BY <3>1 DEF SoundInv, JobsSound
    <3>3. RowRight(blocks, row)
      <4>1. row.prev = prev /\ row.txs = txs
        BY RowIs DEF GenesisRow, RowAbove
      <4> QED BY <3>2, <4>1, RowIs DEF RowRight
    <3> HIDE DEF h, prev, txs, row
    <3>4. \A r : RowRight(blocks, r) => RowRight(blocks', r)
      BY <1>2, SoundKept DEF Stored
    <3>5. \A g \in Stored : RowRight(blocks, blocks[g])
      BY DEF SoundInv, RowsSound
    <3> QED BY <1>2, <3>1, <3>3, <3>4, <3>5 DEF RowsSound
  <2> QED BY <1>1, <2>1, <2>2, RowsChange
<1>4. JobsSound'
  <2>1. \A t \in Threads : job'[t].at = "store" => SoundOn(blocks, job'[t].prev, job'[t].txs)
    BY <1>1, StoreJobs, ValidIsSound DEF SoundInv, JobsSound
  <2>2. \A prev, txs : SoundOn(blocks, prev, txs) => SoundOn(blocks', prev, txs)
    BY <1>2, SoundKept DEF Stored
  <2> QED BY <2>1, <2>2 DEF JobsSound
<1> QED BY <1>1, <1>3, <1>4 DEF SoundInv

LEMMA SoundInit == Init => SoundInv
<1> SUFFICES ASSUME Init PROVE SoundInv
  OBVIOUS
<1>1. Stored = {} /\ \A t \in Threads : job[t].at = "idle"
  BY DEF Init, Stored, Idle
<1> QED BY <1>1, InitInv DEF SoundInv, RowsSound, JobsSound
=============================================================================
