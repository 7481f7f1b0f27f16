---------------------------- MODULE BranchProofs ----------------------------
(***************************************************************************)
(* What the invariants of ChainNodeProofs give along one branch, from its  *)
(* root up: where the spent outputs come from, what the unspent outputs    *)
(* are worth; and, for a node that serves one request at a time, the       *)
(* mempool and fork choice.                                                *)
(***************************************************************************)
EXTENDS ChainNodeProofs, FiniteSums

(***************************************************************************)
(* The blocks table is a forest: facts about one branch, from its root up. *)
(***************************************************************************)
LEMMA RootRow ==
    ASSUME SoundInv, NEW h \in Stored, blocks[h].prev = NoBlock
    PROVE  /\ blocks[h] = GenesisRow(blocks[h].txs) /\ SoundRoot(blocks[h].txs)
           /\ blocks[h].height = 0 /\ PathTo(h) = {h} /\ blocks[h].txs \in Seq(Tx)
<1>1. RowRight(blocks, blocks[h]) /\ IsRow(blocks[h])
  BY DEF SoundInv, RowsSound, IInv, TypeOK
<1>2. blocks[h] = GenesisRow(blocks[h].txs) /\ SoundRoot(blocks[h].txs)
  BY <1>1 DEF RowRight, SoundOn
<1> QED BY <1>1, <1>2 DEF GenesisRow, PathTo, IsRow

LEMMA ChildOf ==
    ASSUME SoundInv, NEW h \in Stored, NEW prev, blocks[h].prev = prev, prev # NoBlock
    PROVE  /\ prev \in Stored /\ SoundChild(blocks[prev], blocks[h].txs)
           /\ blocks[h] = RowAbove(blocks[prev], prev, blocks[h].txs)
           /\ blocks[h].txs \in Seq(Tx) /\ blocks[prev].height \in Nat
           /\ blocks[h].height = blocks[prev].height + 1
           /\ PathTo(h) = PathTo(prev) \cup {h}
           /\ PathTo(h) \subseteq Stored
           /\ h \notin PathTo(prev)
           /\ \A a \in PathTo(prev) : a \in Stored /\ blocks[a].height \in 0..blocks[prev].height
<1>1. RowRight(blocks, blocks[h]) /\ IsRow(blocks[h])
  BY DEF SoundInv, RowsSound, IInv, TypeOK
<1>2. /\ prev \in Stored /\ SoundChild(blocks[prev], blocks[h].txs)
      /\ blocks[h] = RowAbove(blocks[prev], prev, blocks[h].txs)
  BY <1>1 DEF RowRight, SoundOn, Stored
<1>3. /\ blocks[h].height = blocks[prev].height + 1
      /\ PathTo(h) = PathTo(prev) \cup {h}
  BY <1>2 DEF RowAbove, PathTo
<1>4. blocks[prev].height \in Nat /\ blocks[h].txs \in Seq(Tx)
  BY <1>1, <1>2 DEF SoundInv, IInv, TypeOK, IsRow
<1>5. /\ PathTo(prev) \subseteq Stored /\ PathTo(h) \subseteq Stored
      /\ {blocks[a].height : a \in PathTo(prev)} = 0..blocks[prev].height
  BY <1>2 DEF SoundInv, IInv, OneBlockPerHeight
<1>6. \A a \in PathTo(prev) : a \in Stored /\ blocks[a].height \in 0..blocks[prev].height
  BY <1>5
<1>7. h \notin PathTo(prev)
  BY <1>3, <1>4, <1>6
<1> QED BY <1>2, <1>3, <1>4, <1>5, <1>6, <1>7

\* What holds of roots, and of a block whenever it holds of its parent, holds of every block.
LEMMA BranchInduction ==
    ASSUME SoundInv, NEW T,
           \A h \in Stored : blocks[h].prev = NoBlock => h \in T,
           \A h, prev \in Stored : blocks[h].prev = prev /\ prev # NoBlock /\ prev \in T => h \in T
    PROVE  \A h \in Stored : h \in T
<1> DEFINE H == {blocks[h].height : h \in Stored \ T}
<1>1. SUFFICES ASSUME H # {} PROVE FALSE
  OBVIOUS
<1>2. H \subseteq Nat
  BY DEF SoundInv, IInv, TypeOK, IsRow
<1>3. PICK n \in H : \A m \in H : n <= m
  <2> HIDE DEF H
  <2> QED BY <1>1, <1>2, LeastNat
<1>4. PICK h \in Stored \ T : blocks[h].height = n
  BY <1>3
<1>5. blocks[h].prev # NoBlock
  BY <1>4
<1> DEFINE prev == blocks[h].prev
<1>6. prev \in Stored /\ blocks[prev].height \in Nat /\ blocks[h].height = blocks[prev].height + 1
  BY <1>5, ChildOf
<1>7. prev \notin T
  BY <1>4, <1>5, <1>6
<1>8. blocks[prev].height \in H
  BY <1>6, <1>7
<1>9. n <= blocks[prev].height
  <2> HIDE DEF H, prev
  <2> QED BY <1>3, <1>8
<1>10. n = blocks[prev].height + 1 /\ blocks[prev].height \in Nat
  BY <1>4, <1>6
<1> QED BY <1>9, <1>10

\* The branch of a block of a branch is part of it.
LEMMA Branching ==
    ASSUME SoundInv
    PROVE  \A h \in Stored : \A b \in PathTo(h) : b \in Stored /\ PathTo(b) \subseteq PathTo(h)
<1> DEFINE T == {h \in Stored : \A b \in PathTo(h) : b \in Stored /\ PathTo(b) \subseteq PathTo(h)}
<1>1. ASSUME NEW h \in Stored, blocks[h].prev = NoBlock
      PROVE  h \in T
  BY <1>1, RootRow
<1>2. ASSUME NEW h \in Stored, NEW prev \in Stored, blocks[h].prev = prev, prev # NoBlock, prev \in T
      PROVE  h \in T
  <2>1. PathTo(h) = PathTo(prev) \cup {h}
    BY <1>2, ChildOf
  <2> QED BY <2>1, <1>2
<1>3. \A h \in Stored : h \in T
  <2> HIDE DEF T
  <2> QED BY <1>1, <1>2, BranchInduction
<1> QED BY <1>3

(***************************************************************************)
(* Views.                                                                  *)
(***************************************************************************)

\* An outpoint determines the transaction that makes it.
LEMMA MakerOf ==
    ASSUME NEW t \in Tx, NEW op \in Created(t)
    PROVE  op[1] = t /\ op \in Outpoint /\ op \in Created(op[1])
<1>1. PICK i \in DOMAIN Body[t].outs : op = <<t, i>>
  BY DEF Created
<1>2. op[1] = t /\ i \in Nat \ {0}
  BY <1>1, LedgerAssumption
<1> QED BY <1>1, <1>2 DEF Outpoint, Created

\* What the view contains after n transactions of a block, and the origin it records.
LEMMA ViewHas ==
    ASSUME NEW view, NEW txs, NEW height, NEW n, NEW op,
           op \in DOMAIN ViewUpTo(view, txs, height, n)
    PROVE  \/ \E i \in 1..n : op \in Created(txs[i])
           \/ op \in DOMAIN view /\ \A i \in 1..n : op \notin Created(txs[i])
BY DEF ViewUpTo

LEMMA ViewLost ==
    ASSUME NEW view, NEW txs, NEW height, NEW n, NEW op,
           op \in DOMAIN ViewUpTo(view, txs, height, n), NEW i \in 1..n, op \in Spent(txs[i])
    PROVE  \E j \in 1..n : op \in Created(txs[j]) /\ ~ (j < i)
BY DEF ViewUpTo

LEMMA ViewOld ==
    ASSUME NEW view, NEW txs, NEW height, NEW n, NEW op,
           op \in DOMAIN ViewUpTo(view, txs, height, n), \A i \in 1..n : op \notin Created(txs[i])
    PROVE  ViewUpTo(view, txs, height, n)[op] = view[op]
BY DEF ViewUpTo

LEMMA ViewNew ==
    ASSUME NEW view, NEW txs, NEW height, NEW n, NEW op,
           op \in DOMAIN ViewUpTo(view, txs, height, n), NEW i \in 1..n, op \in Created(txs[i])
    PROVE  ViewUpTo(view, txs, height, n)[op] =
              [height   |-> height,
               coinbase |-> height > 0 /\ {k \in 1..n : op \in Created(txs[k])} = {1},
               source   |-> IF IsClaim(op[1]) THEN Body[op[1]].source ELSE NoSource]
BY DEF ViewUpTo

LEMMA NonEmpty ==
    ASSUME NEW S, NEW s \in Seq(S), s # <<>>
    PROVE  1 \in DOMAIN s
OBVIOUS

\* No transaction after the first of a block is a reward, or is there twice.
LEMMA OnlyOneReward ==
    ASSUME NEW parent, NEW txs \in Seq(Tx), SoundChild(parent, txs)
    PROVE  /\ 1 \in DOMAIN txs /\ ~IsClaim(txs[1]) /\ Spent(txs[1]) = {}
           /\ \A i \in 2..Len(txs) : IsClaim(txs[i]) <=> Spent(txs[i]) = {}
           /\ \A i, j \in 1..Len(txs) : txs[i] = txs[j] => i = j
<1>1. 1 \in DOMAIN txs /\ ~IsClaim(txs[1]) /\ Body[txs[1]].ins = <<>>
  BY DEF SoundChild, IsReward
<1>2. Spent(txs[1]) = {}
  BY <1>1 DEF Spent
<1>3. ASSUME NEW i \in 2..Len(txs)
      PROVE  IsClaim(txs[i]) <=> Spent(txs[i]) = {}
  <2>1. PICK status, view : ValidTx(txs[i], DOMAIN view, view, AlreadyClaimed(parent, txs, i),
                                    parent.height + 1, status)
    BY <1>3 DEF SoundChild, ValidInOrder
  <2>2. CASE IsClaim(txs[i])
    <3>1. Body[txs[i]].ins = <<>>
      BY <2>1, <2>2 DEF ValidTx, ValidClaim
    <3> QED BY <2>2, <3>1 DEF Spent
  <2>3. CASE ~IsClaim(txs[i])
    <3>1. Body[txs[i]].ins # <<>>
      BY <2>1, <2>3 DEF ValidTx, ValidTransfer
    <3>2. Body[txs[i]].ins \in Seq(Outpoint)
      BY <1>3, AmountsAssumption
    <3>3. 1 \in DOMAIN Body[txs[i]].ins
      BY <3>1, <3>2, NonEmpty
    <3> QED BY <2>3, <3>3 DEF Spent
  <2> QED BY <2>2, <2>3
<1>4. ASSUME NEW i \in 1..Len(txs), NEW j \in 1..Len(txs), txs[i] = txs[j], i # j
      PROVE  FALSE
  <2>1. i # 1 /\ j # 1
    BY <1>1, <1>2, <1>3, <1>4
  <2>2. i \in 2..Len(txs) /\ j \in 2..Len(txs)
    BY <2>1
  <2>3. NoRepeats(txs)
    BY DEF SoundChild
  <2>4. Spent(txs[i]) \cap Spent(txs[i]) = {}
    BY <1>4, <2>2, <2>3 DEF NoRepeats
  <2>5. ~ IsClaim(txs[i])
    BY <1>4, <2>2, <2>3 DEF NoRepeats
  <2> QED BY <1>3, <2>2, <2>4, <2>5
<1> QED BY <1>1, <1>2, <1>3, <1>4

(***************************************************************************)
(* Origins, and the coinbase maturity of what is spent.                    *)
(***************************************************************************)

\* The block of branch to which the origin of an outpoint in it belongs: the highest
\* that contains the transaction.
Maker(b, branch, op, origin) ==
    /\ b \in branch /\ op[1] \in ToSet(blocks[b].txs)
    /\ \A a \in branch : op[1] \in ToSet(blocks[a].txs) => blocks[a].height <= blocks[b].height
    /\ origin.height = blocks[b].height
    /\ blocks[b].height > 0 /\ blocks[b].txs[1] = op[1] => origin.coinbase
    /\ IsClaim(op[1]) => origin.source = Body[op[1]].source

OriginsRight(h) ==
    \A op \in DOMAIN blocks[h].view :
        /\ op \in Created(op[1]) /\ op \in Outpoint
        /\ \E b \in Stored : Maker(b, PathTo(h), op, blocks[h].view[op])

LEMMA ToSetHas ==
    ASSUME NEW S, NEW s \in Seq(S)
    PROVE  /\ \A i \in 1..Len(s) : s[i] \in ToSet(s) /\ s[i] \in S
           /\ \A x \in ToSet(s) : \E i \in 1..Len(s) : x = s[i]
BY DEF ToSet

\* The view of a row.
LEMMA RootView ==
    ASSUME SoundInv, NEW h \in Stored, blocks[h].prev = NoBlock
    PROVE  blocks[h].view = ViewUpTo(EmptyView, blocks[h].txs, 0, 1)
<1>1. blocks[h] = GenesisRow(blocks[h].txs) /\ Len(blocks[h].txs) = 1
  BY RootRow DEF SoundRoot
<1>2. \A txs : GenesisRow(txs).view = ViewUpTo(EmptyView, txs, 0, Len(txs))
  BY DEF GenesisRow, ViewAfter
<1> QED BY <1>1, <1>2, Zenon

LEMMA ChildView ==
    ASSUME SoundInv, NEW h \in Stored, NEW prev, blocks[h].prev = prev, prev # NoBlock
    PROVE  blocks[h].view = ViewUpTo(blocks[prev].view, blocks[h].txs, blocks[h].height,
                                     Len(blocks[h].txs))
<1>1. /\ blocks[h] = RowAbove(blocks[prev], prev, blocks[h].txs)
      /\ blocks[h].height = blocks[prev].height + 1
  BY ChildOf
<1>2. \A parent, txs : RowAbove(parent, prev, txs).view
                        = ViewUpTo(parent.view, txs, parent.height + 1, Len(txs))
  BY DEF RowAbove, ViewAfter
<1>3. blocks[h].view = RowAbove(blocks[prev], prev, blocks[h].txs).view
  BY <1>1, Zenon
<1>4. blocks[h].view = ViewUpTo(blocks[prev].view, blocks[h].txs, blocks[prev].height + 1,
                                Len(blocks[h].txs))
  BY <1>2, <1>3, Zenon
<1> QED BY <1>1, <1>4, Zenon

\* A transaction of the block on top of a branch is made higher than any before.
LEMMA MadeHere ==
    ASSUME SoundInv, NEW h \in Stored, NEW prev, blocks[h].prev = prev, prev # NoBlock,
           NEW n \in 0..Len(blocks[h].txs), NEW i \in 1..n, NEW op \in Created(blocks[h].txs[i]),
           NEW view, op \in DOMAIN ViewUpTo(view, blocks[h].txs, blocks[h].height, n)
    PROVE  /\ op \in Created(op[1]) /\ op \in Outpoint
           /\ Maker(h, PathTo(h), op, ViewUpTo(view, blocks[h].txs, blocks[h].height, n)[op])
<1> DEFINE txs == blocks[h].txs
           height == blocks[h].height
<1>1. txs \in Seq(Tx) /\ i \in 1..Len(txs) /\ txs[i] \in Tx /\ txs[i] \in ToSet(txs) /\ h \in PathTo(h)
  BY ChildOf, ToSetHas DEF PathTo
<1>2. op[1] = txs[i] /\ op \in Outpoint /\ op \in Created(op[1])
  BY <1>1, MakerOf
<1>3. \A a \in PathTo(h) : blocks[a].height <= blocks[h].height
  BY ChildOf
<1> DEFINE origin == ViewUpTo(view, txs, height, n)[op]
<1>4. /\ origin.height = height
      /\ origin.coinbase = (height > 0 /\ {k \in 1..n : op \in Created(txs[k])} = {1})
      /\ origin.source = IF IsClaim(op[1]) THEN Body[op[1]].source ELSE NoSource
  <2> HIDE DEF txs, height
  <2>1. origin = [height |-> height,
                  coinbase |-> height > 0 /\ {k \in 1..n : op \in Created(txs[k])} = {1},
                  source   |-> IF IsClaim(op[1]) THEN Body[op[1]].source ELSE NoSource]
    BY ViewNew DEF txs, height
  <2> HIDE DEF origin
  <2> QED BY <2>1
<1>5. ASSUME height > 0, txs[1] = op[1]
      PROVE  origin.coinbase
  <2>1. \A k \in 1..n : op \in Created(txs[k]) => k = 1
    <3>1. \A k \in 1..n : k \in 1..Len(txs) /\ 1 \in 1..Len(txs) /\ txs[k] \in Tx
      BY <1>1, ToSetHas
    <3>2. \A k \in 1..n : op \in Created(txs[k]) => txs[k] = txs[1]
      BY <3>1, <1>5, MakerOf
    <3>3. \A a, b \in 1..Len(txs) : txs[a] = txs[b] => a = b
      BY <1>1, ChildOf, OnlyOneReward
    <3> HIDE DEF txs
    <3> QED BY <3>1, <3>2, <3>3
  <2>2. 1 \in 1..n /\ op \in Created(txs[1])
    BY <1>2, <1>5
  <2>3. {k \in 1..n : op \in Created(txs[k])} = {1}
    BY <2>1, <2>2
  <2> HIDE DEF origin, txs, height
  <2> QED BY <1>4, <1>5, <2>3
<1> HIDE DEF origin
<1>6. Maker(h, PathTo(h), op, origin)
  BY <1>1, <1>2, <1>3, <1>4, <1>5 DEF Maker
<1> QED BY <1>2, <1>6 DEF origin

LEMMA Origins ==
    ASSUME SoundInv
    PROVE  \A h \in Stored : OriginsRight(h)
<1> DEFINE T == {h \in Stored : OriginsRight(h)}
<1>1. ASSUME NEW h \in Stored, blocks[h].prev = NoBlock
      PROVE  h \in T
  <2> DEFINE txs == blocks[h].txs
             view == ViewUpTo(EmptyView, txs, 0, 1)
  <2>1. /\ txs \in Seq(Tx) /\ Len(txs) = 1 /\ ~IsClaim(txs[1]) /\ PathTo(h) = {h}
        /\ blocks[h].height = 0 /\ blocks[h].view = view
    <3>1. blocks[h].view = view
      BY <1>1, RootView, Zenon
    <3>2. \A x : IsAllocation(x) => ~IsClaim(x)
      BY DEF IsAllocation
    <3> HIDE DEF view
    <3> QED BY <1>1, <3>1, <3>2, RootRow DEF SoundRoot
  <2>2. ASSUME NEW op \in DOMAIN view
        PROVE  /\ op \in Created(op[1]) /\ op \in Outpoint
               /\ Maker(h, PathTo(h), op, view[op])
    <3>1. op \in Created(txs[1]) /\ txs[1] \in Tx /\ txs[1] \in ToSet(txs)
      <4>1. op \notin DOMAIN EmptyView
        BY DEF EmptyView
      <4>2. \E i \in 1..1 : op \in Created(txs[i])
        <5> HIDE DEF txs
        <5> QED BY <2>2, <4>1, ViewHas
      <4> QED BY <2>1, <4>2, ToSetHas
    <3>2. op[1] = txs[1] /\ op \in Created(op[1]) /\ op \in Outpoint
      BY <3>1, MakerOf
    <3>3. view[op] = [height |-> 0, coinbase |-> 0 > 0 /\ {k \in 1..1 : op \in Created(txs[k])} = {1},
                      source |-> IF IsClaim(op[1]) THEN Body[op[1]].source ELSE NoSource]
      <4> HIDE DEF txs
      <4> QED BY <2>2, <3>1, ViewNew
    <3>4. view[op].height = 0
      <4> HIDE DEF view, txs
      <4> QED BY <3>3
    <3> HIDE DEF view
    <3> QED BY <2>1, <3>1, <3>2, <3>4 DEF Maker
  <2> HIDE DEF view
  <2> QED BY <2>1, <2>2 DEF OriginsRight
<1>2. ASSUME NEW h \in Stored, NEW prev \in Stored, blocks[h].prev = prev, prev # NoBlock, prev \in T
      PROVE  h \in T
  <2> DEFINE txs == blocks[h].txs
             height == blocks[h].height
             before == blocks[prev].view
             view == ViewUpTo(before, txs, height, Len(txs))
  <2>1. blocks[h].view = view /\ txs \in Seq(Tx) /\ Len(txs) \in Nat
    <3>1. blocks[h].view = view
      BY <1>2, ChildView, Zenon
    <3> HIDE DEF view
    <3> QED BY <1>2, <3>1, ChildOf
  <2>2. ASSUME NEW op \in DOMAIN view
        PROVE  /\ op \in Created(op[1]) /\ op \in Outpoint
               /\ \E b \in Stored : Maker(b, PathTo(h), op, view[op])
    <3>1. CASE \E i \in 1..Len(txs) : op \in Created(txs[i])
      <4>1. PICK i \in 1..Len(txs) : op \in Created(txs[i])
        BY <3>1
      <4>2. Len(txs) \in 0..Len(blocks[h].txs) /\ op \in Created(blocks[h].txs[i])
        BY <2>1, <4>1
      <4>3. op \in DOMAIN ViewUpTo(before, blocks[h].txs, blocks[h].height, Len(blocks[h].txs))
        BY <2>2
      <4>4. /\ op \in Created(op[1]) /\ op \in Outpoint
            /\ Maker(h, PathTo(h), op,
                     ViewUpTo(before, blocks[h].txs, blocks[h].height, Len(blocks[h].txs))[op])
        <5> HIDE DEF before, view
        <5> QED BY <1>2, <4>1, <4>2, <4>3, MadeHere
      <4> HIDE DEF before
      <4> QED BY <4>4
    <3>2. CASE \A i \in 1..Len(txs) : op \notin Created(txs[i])
      <4>1. op \in DOMAIN before /\ view[op] = before[op]
        <5> HIDE DEF txs, height, before
        <5> QED BY <2>2, <3>2, ViewHas, ViewOld
      <4>2. /\ op \in Created(op[1]) /\ op \in Outpoint
            /\ \E b \in Stored : Maker(b, PathTo(prev), op, before[op])
        BY <1>2, <4>1 DEF OriginsRight
      <4>3. op[1] \notin ToSet(txs)
        BY <2>1, <3>2, <4>2, ToSetHas
      <4>4. PathTo(h) = PathTo(prev) \cup {h}
        BY <1>2, ChildOf
      <4>5. \A b : Maker(b, PathTo(prev), op, before[op]) => Maker(b, PathTo(h), op, before[op])
        BY <4>3, <4>4 DEF Maker
      <4> HIDE DEF view, before
      <4> QED BY <4>1, <4>2, <4>5
    <3> QED BY <3>1, <3>2
  <2> HIDE DEF view
  <2> QED BY <2>1, <2>2 DEF OriginsRight
<1>3. \A h \in Stored : h \in T
  <2> HIDE DEF T
  <2> QED BY <1>1, <1>2, BranchInduction
<1> QED BY <1>3

\* A claim of a branch is among the claims of its block.
LEMMA ClaimIsCounted ==
    ASSUME SoundInv, NEW b \in Stored, NEW t \in ToSet(blocks[b].txs), IsClaim(t)
    PROVE  Body[t].source \in ClaimedBy(blocks[b].txs)
<1> DEFINE txs == blocks[b].txs
<1>1. txs \in Seq(Tx) /\ ~IsClaim(txs[1])
  <2>1. CASE blocks[b].prev = NoBlock
    BY <2>1, RootRow DEF SoundRoot, IsAllocation
  <2>2. CASE blocks[b].prev # NoBlock
    BY <2>2, ChildOf DEF SoundChild, IsReward
  <2> QED BY <2>1, <2>2
<1>2. PICK i \in 1..Len(txs) : t = txs[i]
  BY <1>1, ToSetHas
<1>3. i \in Claims(txs)
  BY <1>1, <1>2 DEF Claims
<1> QED BY <1>2, <1>3 DEF ClaimedBy

\* What SpendsMature says of one input.
MatureSpend(h, op) ==
    \E b \in PathTo(h) :
        /\ op[1] \in ToSet(blocks[b].txs)
        /\ \A a \in PathTo(h) : op[1] \in ToSet(blocks[a].txs) => blocks[a].height <= blocks[b].height
        /\ blocks[b].height > 0 /\ blocks[b].txs[1] = op[1]
              => blocks[h].height >= blocks[b].height + Maturity
        /\ IsClaim(op[1]) => blocks[h].height >= blocks[b].height + Escrow

\* The check of the origin bounds the height.
LEMMA SpendableIsMature ==
    ASSUME NEW b, NEW branch, NEW op, NEW origin, Maker(b, branch, op, origin), op[1] \in Tx,
           NEW height, NEW status, SpendableAt(origin, height, status)
    PROVE  /\ blocks[b].height > 0 /\ blocks[b].txs[1] = op[1] => height >= blocks[b].height + Maturity
           /\ IsClaim(op[1]) => height >= blocks[b].height + Escrow
<1>1. IsClaim(op[1]) => origin.source \in Source
  BY LedgerAssumption DEF Maker, IsClaim
<1> QED BY <1>1 DEF Maker, SpendableAt, MigrationFinal

LEMMA ChildSpendsMature ==
    ASSUME SoundInv, NEW h \in Stored, NEW prev, blocks[h].prev = prev, prev # NoBlock,
           NEW k \in 1..Len(blocks[h].txs), NEW op \in Spent(blocks[h].txs[k])
    PROVE  MatureSpend(h, op)
<1> DEFINE txs == blocks[h].txs
           height == blocks[h].height
           before == blocks[prev].view
           view == ViewUpTo(before, txs, height, k - 1)
<1>1. /\ prev \in Stored /\ SoundChild(blocks[prev], txs) /\ txs \in Seq(Tx)
      /\ height = blocks[prev].height + 1
      /\ PathTo(h) = PathTo(prev) \cup {h} /\ h \notin PathTo(prev)
      /\ PathTo(h) \subseteq Stored /\ h \in PathTo(h)
      /\ Len(txs) \in Nat
  BY ChildOf DEF PathTo
<1>2. k \in 2..Len(txs) /\ ~IsClaim(txs[k])
  <2>1. Spent(txs[1]) = {}
    BY <1>1, OnlyOneReward
  <2>2. k # 1
    <3> HIDE DEF txs
    <3>1. op \in Spent(txs[k])
      BY DEF txs
    <3> QED BY <2>1, <3>1
  <2>3. \A i \in 2..Len(txs) : IsClaim(txs[i]) <=> Spent(txs[i]) = {}
    BY <1>1, OnlyOneReward
  <2>4. k \in 2..Len(txs) /\ op \in Spent(txs[k])
    BY <1>1, <2>2
  <2> HIDE DEF txs
  <2> QED BY <2>3, <2>4
<1>3. PICK status : ValidTx(txs[k], DOMAIN view, view, AlreadyClaimed(blocks[prev], txs, k), height, status)
  <2>1. PICK status \in [Source -> ReviewStatus] : ValidInOrder(blocks[prev], txs, height, status)
    BY <1>1 DEF SoundChild
  <2>2. ValidTx(txs[k], DOMAIN view, view, AlreadyClaimed(blocks[prev], txs, k), height, status)
    <3> HIDE DEF txs, height
    <3> QED BY <1>2, <2>1 DEF ValidInOrder
  <2> QED BY <2>2
<1>4. op \in DOMAIN view /\ SpendableAt(view[op], height, status)
  <2>1. op \in Spent(txs[k])
    OBVIOUS
  <2> HIDE DEF view, txs, height
  <2> QED BY <1>2, <1>3, <2>1 DEF ValidTx, ValidTransfer
<1>5. CASE \E i \in 1..(k - 1) : op \in Created(txs[i])
  <2>1. PICK i \in 1..(k - 1) : op \in Created(txs[i])
    BY <1>5
  <2>2. /\ op \in Created(op[1]) /\ op \in Outpoint
        /\ Maker(h, PathTo(h), op, view[op])
    <3>1. k - 1 \in 0..Len(blocks[h].txs)
      BY <1>1, <1>2
    <3>2. /\ op \in Created(op[1]) /\ op \in Outpoint
          /\ Maker(h, PathTo(h), op,
                   ViewUpTo(before, blocks[h].txs, blocks[h].height, k - 1)[op])
      <4>1. op \in DOMAIN ViewUpTo(before, blocks[h].txs, blocks[h].height, k - 1)
        BY <1>4
      <4> HIDE DEF before, view
      <4> QED BY <2>1, <3>1, <4>1, MadeHere
    <3> HIDE DEF before
    <3> QED BY <3>2
  <2>3. op[1] \in Tx
    BY <2>2 DEF Outpoint
  <2> HIDE DEF view
  <2>4. /\ height > 0 /\ txs[1] = op[1] => height >= height + Maturity
        /\ IsClaim(op[1]) => height >= height + Escrow
    BY <1>4, <2>2, <2>3, SpendableIsMature
  <2> QED BY <1>1, <2>2, <2>4 DEF Maker, MatureSpend
<1>6. CASE \A i \in 1..(k - 1) : op \notin Created(txs[i])
  <2>1. op \in DOMAIN before /\ view[op] = before[op]
    <3> HIDE DEF txs, height, before
    <3> QED BY <1>4, <1>6, ViewHas, ViewOld
  <2>2. op \in Created(op[1]) /\ op \in Outpoint /\ op[1] \in Tx
    BY <1>1, <2>1, Origins DEF OriginsRight, Outpoint
  <2>3. PICK b \in Stored : Maker(b, PathTo(prev), op, before[op])
    BY <1>1, <2>1, Origins DEF OriginsRight
  <2> HIDE DEF view, before
  <2>4. /\ blocks[b].height > 0 /\ blocks[b].txs[1] = op[1] => height >= blocks[b].height + Maturity
        /\ IsClaim(op[1]) => height >= blocks[b].height + Escrow
    BY <1>4, <2>1, <2>2, <2>3, SpendableIsMature
  <2>5. CASE op[1] \notin ToSet(txs)
    BY <1>1, <2>3, <2>4, <2>5 DEF Maker, MatureSpend
  <2>6. CASE op[1] \in ToSet(txs)
    <3>1. PICK m \in 1..Len(txs) : op[1] = txs[m]
      BY <1>1, <2>6, ToSetHas
    <3>2. txs[1] # op[1]
      <4>1. op \notin Created(txs[1])
        BY <1>2, <1>6
      <4> QED BY <2>2, <4>1
    <3>3. ~IsClaim(op[1])
      <4> SUFFICES ASSUME IsClaim(op[1]) PROVE FALSE
        OBVIOUS
      <4>1. b \in PathTo(prev) /\ op[1] \in ToSet(blocks[b].txs)
        BY <2>3 DEF Maker
      <4>2. Body[op[1]].source \in ClaimedBy(blocks[b].txs) \cap ClaimedBy(blocks[h].txs)
        BY <2>3, <2>6, <4>1, ClaimIsCounted
      <4>3. ClaimedBy(blocks[b].txs) \cap ClaimedBy(blocks[h].txs) = {}
        BY <1>1, <4>1 DEF SoundInv, IInv, ClaimedOncePerBranch
      <4> QED BY <4>2, <4>3
    <3>4. \A a \in PathTo(h) : blocks[a].height <= blocks[h].height
      BY ChildOf
    <3> QED BY <1>1, <2>6, <3>2, <3>3, <3>4 DEF MatureSpend
  <2> QED BY <2>5, <2>6
<1> QED BY <1>5, <1>6

LEMMA SoundIsMature == SoundInv => SpendsMature
<1> SUFFICES ASSUME SoundInv,
                    NEW h \in Stored, NEW x \in ToSet(blocks[h].txs), NEW op \in Spent(x)
             PROVE  MatureSpend(h, op)
  BY DEF SpendsMature, MatureSpend
<1>1. PICK k \in 1..Len(blocks[h].txs) : x = blocks[h].txs[k]
  BY ToSetHas DEF SoundInv, IInv, TypeOK, IsRow
<1>2. blocks[h].prev # NoBlock
  <2> SUFFICES ASSUME blocks[h].prev = NoBlock PROVE FALSE
    OBVIOUS
  <2>1. k = 1 /\ IsAllocation(blocks[h].txs[1])
    BY <1>1, RootRow DEF SoundRoot
  <2> QED BY <1>1, <2>1 DEF IsAllocation, Spent
<1> QED BY <1>1, <1>2, ChildSpendsMature

\* Whatever the interleaving of handlers, crashes and reorgs, every input that a stored
\* block spends was made earlier on its own branch, a reward is spent no sooner than
\* Maturity blocks after the latest block that paid it, and a migration output no sooner
\* than Escrow blocks after its claim (validate_block, _utxo_origin_metadata_for_head).
THEOREM SpendsAreMature == Spec => []SpendsMature
<1>1. Init => SoundInv
  BY SoundInit
<1>2. SoundInv /\ [Next]_vars => SoundInv'
  BY SoundNext
<1>3. SoundInv => SpendsMature
  BY SoundIsMature
<1> QED BY <1>1, <1>2, <1>3, PTL DEF Spec

(***************************************************************************)
(* The supply.                                                             *)
(***************************************************************************)
Allocated(t) == SumFunction([i \in DOMAIN Body[t].outs |-> Body[t].outs[i].amount])
SubsidyTo(n) == SumFunction([m \in 1..n |-> Subsidy(m)])
Converted(S) == SumFunction([s \in S |-> SourceAmount[s]])

Supply == [genesis : Int, subsidy : Int, minted : Int]

SupplyIs(h) ==
    /\ blocks[h].supply \in Supply
    /\ Value(DOMAIN blocks[h].view) = Total(blocks[h].supply)
    /\ \A b \in PathTo(h) : blocks[b].height = 0 =>
          blocks[h].supply.genesis = Allocated(blocks[b].txs[1])
    /\ blocks[h].supply.subsidy = SubsidyTo(blocks[h].height)
    /\ blocks[h].supply.minted = Converted(blocks[h].claimed)

\* A branch has as many blocks as heights, each of another hash.
LEMMA HeightBounded ==
    ASSUME SoundInv, NEW h \in Stored
    PROVE  blocks[h].height \in Nat /\ blocks[h].height < Cardinality(Hash)
<1> DEFINE n == blocks[h].height
           Heights == {blocks[a].height : a \in PathTo(h)}
<1>1. n \in Nat /\ PathTo(h) \subseteq Hash /\ Heights = 0..n
  BY DEF SoundInv, IInv, TypeOK, IsRow, OneBlockPerHeight
<1>2. IsFiniteSet(Hash) /\ IsFiniteSet(PathTo(h)) /\ Cardinality(PathTo(h)) <= Cardinality(Hash)
  BY <1>1, SubsidyAssumption, FS_Subset
<1>3. Cardinality(Heights) <= Cardinality(PathTo(h))
  <2> DEFINE f == [a \in PathTo(h) |-> blocks[a].height]
  <2>1. f \in Surjection(PathTo(h), Heights)
    BY DEF Surjection
  <2> HIDE DEF f, Heights
  <2> QED BY <1>2, <2>1, FS_Surjection
<1>4. Cardinality(0..n) = n + 1
  <2> HIDE DEF n
  <2> QED BY <1>1, FS_Interval
<1>5. Cardinality(Heights) = n + 1
  BY <1>1, <1>4, Zenon
<1> HIDE DEF n, Heights
<1>6. Cardinality(Hash) \in Nat /\ Cardinality(PathTo(h)) \in Nat
  BY <1>2, FS_CardinalityType
<1>7. n < Cardinality(Hash)
  BY <1>1, <1>2, <1>3, <1>5, <1>6
<1> QED BY <1>1, <1>7 DEF n

\* What a transaction creates is worth its outputs.
LEMMA CreatedWorth ==
    ASSUME NEW t \in Tx
    PROVE  Value(Created(t)) = Allocated(t) /\ Allocated(t) \in Int
<1> DEFINE outs == Body[t].outs
           I == DOMAIN outs
           m == [i \in I |-> <<t, i>>]
           e == [i \in I |-> outs[i].amount]
           f == [op \in Created(t) |-> Amount(op)]
<1>1. IsFiniteSet(I) /\ \A i \in I : e[i] \in Int
  <2>1. /\ Len(outs) \in Nat /\ I = 1..Len(outs)
        /\ \A i \in I : outs[i].amount \in Int
    BY AmountsAssumption
  <2>2. IsFiniteSet(1..Len(outs))
    BY <2>1, FS_Interval
  <2> QED BY <2>1, <2>2
<1>2. \A i, j \in I : m[i] = m[j] => i = j
  OBVIOUS
<1>3. \A i \in I : m[i] \in Created(t) /\ e[i] = f[m[i]]
  BY DEF Created, Amount, Output
<1>4. {m[i] : i \in I} = Created(t)
  BY DEF Created
<1>5. SumFunction(f) = SumFunctionOnSet(f, Created(t)) /\ SumFunction(e) = SumFunctionOnSet(e, I)
  BY DEF SumFunction
<1>6. Value(Created(t)) = SumFunction(f) /\ Allocated(t) = SumFunction(e)
  BY DEF Value, Allocated
<1> HIDE DEF m, e, f, I
<1>7. SumFunctionOnSet(f, {m[i] : i \in I}) = SumFunctionOnSet(e, I)
  BY <1>1, <1>2, <1>3, SumImage
<1>8. SumFunctionOnSet(f, Created(t)) = SumFunctionOnSet(e, I)
  BY <1>4, <1>7, Zenon
<1>9. SumFunctionOnSet(e, I) \in Int
  BY <1>1, SumType
<1> QED BY <1>5, <1>6, <1>8, <1>9

LEMMA SubsidyStep ==
    ASSUME NEW n \in Nat, \A k \in 0..(n + 1) : Subsidy(k) \in Int
    PROVE  SubsidyTo(n + 1) = SubsidyTo(n) + Subsidy(n + 1) /\ SubsidyTo(n) \in Int
<1> DEFINE f == [k \in 1..(n + 1) |-> Subsidy(k)]
           e == [k \in 1..n |-> Subsidy(k)]
<1>1. SubsidyTo(n + 1) = SumFunctionOnSet(f, 1..(n + 1)) /\ SubsidyTo(n) = SumFunctionOnSet(e, 1..n)
  BY DEF SubsidyTo, SumFunction
<1>2. 1..(n + 1) = (1..n) \cup {n + 1} /\ n + 1 \notin 1..n
  OBVIOUS
<1>3. IsFiniteSet(1..n)
  BY FS_Interval
<1>4. /\ \A k \in (1..n) \cup {n + 1} : f[k] \in Int
      /\ \A k \in 1..n : e[k] = f[k] /\ e[k] \in Int
      /\ f[n + 1] = Subsidy(n + 1)
  OBVIOUS
<1> HIDE DEF f, e
<1>5. SumFunctionOnSet(f, (1..n) \cup {n + 1}) = SumFunctionOnSet(f, 1..n) + f[n + 1]
  BY <1>2, <1>3, <1>4, SumAdd
<1>6. SumFunctionOnSet(e, 1..n) = SumFunctionOnSet(f, 1..n)
  BY <1>3, <1>4, SumAgrees
<1>7. SumFunctionOnSet(e, 1..n) \in Int
  BY <1>3, <1>4, SumType
<1>8. SubsidyTo(n + 1) = SumFunctionOnSet(f, (1..n) \cup {n + 1})
  BY <1>1, <1>2, Zenon
<1> QED BY <1>1, <1>4, <1>5, <1>6, <1>7, <1>8

\* The claims of a block are worth the converted amounts of the sources they add.
LEMMA MintedWorth ==
    ASSUME NEW parent, NEW txs \in Seq(Tx), SoundChild(parent, txs), parent.claimed \subseteq Source
    PROVE  /\ Converted(parent.claimed \cup ClaimedBy(txs))
                 = Converted(parent.claimed) + MintedBy(txs)
           /\ Converted(parent.claimed) \in Int /\ MintedBy(txs) \in Int
<1> DEFINE I == Claims(txs)
           old == parent.claimed
           new == ClaimedBy(txs)
           m == [i \in I |-> Body[txs[i]].source]
           e == [i \in I |-> Value(Created(txs[i]))]
           f == [s \in old \cup new |-> SourceAmount[s]]
           g == [s \in old |-> SourceAmount[s]]
<1>1. \A i \in I : /\ i \in 2..Len(txs) /\ IsClaim(txs[i]) /\ txs[i] \in Tx
                   /\ m[i] \in Source /\ m[i] = Body[txs[i]].source
                   /\ m[i] \in new
  <2>1. \A i \in I : i \in 2..Len(txs) /\ IsClaim(txs[i]) /\ txs[i] \in Tx
    BY DEF Claims
  <2> QED BY <2>1, LedgerAssumption DEF IsClaim, ClaimedBy
<1>2. \A i \in I : e[i] = SourceAmount[m[i]] /\ m[i] \notin old
  <2> TAKE i \in I
  <2>1. i \in 2..Len(txs)
    BY <1>1
  <2>2. PICK status, view : ValidTx(txs[i], DOMAIN view, view, AlreadyClaimed(parent, txs, i),
                                    parent.height + 1, status)
    BY <2>1 DEF SoundChild, ValidInOrder
  <2>3. /\ Body[txs[i]].source \notin AlreadyClaimed(parent, txs, i)
        /\ Value(Created(txs[i])) = SourceAmount[Body[txs[i]].source]
    BY <1>1, <2>2 DEF ValidTx, ValidClaim
  <2> QED BY <2>3 DEF AlreadyClaimed
<1>3. \A i, j \in I : m[i] = m[j] => i = j
  <2>1. NoRepeats(txs)
    BY DEF SoundChild
  <2> QED BY <1>1, <2>1 DEF NoRepeats
<1>4. new = {m[i] : i \in I} /\ new \subseteq Source /\ old \cap new = {}
  BY <1>1, <1>2 DEF ClaimedBy
<1>5. IsFiniteSet(old) /\ IsFiniteSet(new) /\ \A s \in Source : SourceAmount[s] \in Int
  BY <1>4, AmountsAssumption, FS_Subset
<1>6. IsFiniteSet(I)
  <2>1. Len(txs) \in Nat /\ I \subseteq 2..Len(txs)
    BY DEF Claims
  <2>2. IsFiniteSet(2..Len(txs))
    BY <2>1, FS_Interval
  <2> HIDE DEF I
  <2> QED BY <2>1, <2>2, FS_Subset
<1>7. /\ \A s \in old \cup new : f[s] \in Int
      /\ \A s \in old : f[s] = g[s] /\ g[s] \in Int
      /\ \A i \in I : e[i] = f[m[i]] /\ e[i] \in Int
  BY <1>1, <1>2, <1>4, <1>5
<1>8. /\ Converted(old \cup new) = SumFunctionOnSet(f, old \cup new)
      /\ Converted(old) = SumFunctionOnSet(g, old)
      /\ MintedBy(txs) = SumFunctionOnSet(e, I)
  BY DEF Converted, MintedBy, SumFunction
<1> HIDE DEF I, old, new, m, e, f, g
<1>9. SumFunctionOnSet(f, old \cup new) = SumFunctionOnSet(f, old) + SumFunctionOnSet(f, new)
  BY <1>4, <1>5, <1>7, SumUnion
<1>10. SumFunctionOnSet(f, old) = SumFunctionOnSet(g, old) /\ SumFunctionOnSet(g, old) \in Int
  BY <1>5, <1>7, SumAgrees, SumType
<1>11. SumFunctionOnSet(f, {m[i] : i \in I}) = SumFunctionOnSet(e, I) /\ SumFunctionOnSet(e, I) \in Int
  BY <1>3, <1>6, <1>7, SumImage, SumType
<1>12. SumFunctionOnSet(f, new) = SumFunctionOnSet(e, I)
  BY <1>4, <1>11, Zenon
<1>13. Converted(old \cup new) = Converted(old) + MintedBy(txs) /\ Converted(old) \in Int /\ MintedBy(txs) \in Int
  BY <1>8, <1>9, <1>10, <1>11, <1>12
<1> QED BY <1>13 DEF old, new

LEMMA RootSupply ==
    ASSUME SoundInv, NEW h \in Stored, blocks[h].prev = NoBlock
    PROVE  SupplyIs(h)
<1> DEFINE txs == blocks[h].txs
<1>1. /\ blocks[h] = GenesisRow(txs) /\ Reconciles(ViewAfter(EmptyView, txs, 0), GenesisRow(txs).supply)
      /\ PathTo(h) = {h} /\ txs[1] \in Tx /\ blocks[h].height = 0
  BY RootRow, ToSetHas DEF SoundRoot
<1>2. /\ GenesisRow(txs).supply = [genesis |-> Value(Created(txs[1])), subsidy |-> 0, minted |-> 0]
      /\ GenesisRow(txs).view = ViewAfter(EmptyView, txs, 0)
      /\ GenesisRow(txs).claimed = {}
  BY DEF GenesisRow
<1> HIDE DEF txs
<1>3. /\ blocks[h].supply = [genesis |-> Value(Created(txs[1])), subsidy |-> 0, minted |-> 0]
      /\ blocks[h].claimed = {}
  BY <1>1, <1>2, Zenon
<1>4. Value(DOMAIN blocks[h].view) = Total(blocks[h].supply)
  BY <1>1, <1>2, Zenon DEF Reconciles
<1>5. Value(Created(txs[1])) = Allocated(txs[1]) /\ Allocated(txs[1]) \in Int
  BY <1>1, CreatedWorth
<1>6. SubsidyTo(0) = 0
  <2> DEFINE f == [m \in 1..0 |-> Subsidy(m)]
  <2>1. DOMAIN f = {}
    OBVIOUS
  <2>2. SubsidyTo(0) = SumFunctionOnSet(f, DOMAIN f)
    BY DEF SubsidyTo, SumFunction
  <2> HIDE DEF f
  <2>3. SubsidyTo(0) = SumFunctionOnSet(f, {})
    BY <2>1, <2>2, Zenon
  <2> QED BY <2>3, SumOfNone
<1>7. Converted({}) = 0
  <2> DEFINE f == [s \in {} |-> SourceAmount[s]]
  <2>1. DOMAIN f = {}
    OBVIOUS
  <2>2. Converted({}) = SumFunctionOnSet(f, DOMAIN f)
    BY DEF Converted, SumFunction
  <2> HIDE DEF f
  <2>3. Converted({}) = SumFunctionOnSet(f, {})
    BY <2>1, <2>2, Zenon
  <2> QED BY <2>3, SumOfNone
<1>8. SubsidyTo(blocks[h].height) = 0 /\ Converted(blocks[h].claimed) = 0
  BY <1>1, <1>3, <1>6, <1>7, Zenon
<1>9. blocks[h].supply \in Supply
  BY <1>3, <1>5 DEF Supply
<1>10. \A b \in PathTo(h) : blocks[h].supply.genesis = Allocated(blocks[b].txs[1])
  BY <1>1, <1>3, <1>5 DEF txs
<1> QED BY <1>3, <1>4, <1>8, <1>9, <1>10 DEF SupplyIs

LEMMA IssueAdds ==
    ASSUME NEW old \in Supply, NEW txs, NEW height, Subsidy(height) \in Int, MintedBy(txs) \in Int
    PROVE  /\ Issue(old, txs, height) \in Supply
           /\ Issue(old, txs, height).genesis = old.genesis
           /\ Issue(old, txs, height).subsidy = old.subsidy + Subsidy(height)
           /\ Issue(old, txs, height).minted = old.minted + MintedBy(txs)
<1> DEFINE s == Subsidy(height)
           m == MintedBy(txs)
           new == [[old EXCEPT !.subsidy = @ + s] EXCEPT !.minted = @ + m]
<1>1. Issue(old, txs, height) = new
  BY DEF Issue, Supply
<1>2. s \in Int /\ m \in Int
  OBVIOUS
<1>3. /\ new \in Supply /\ new.genesis = old.genesis
      /\ new.subsidy = old.subsidy + s /\ new.minted = old.minted + m
  <2> HIDE DEF s, m
  <2>1. PICK a, b, c \in Int : old = [genesis |-> a, subsidy |-> b, minted |-> c]
    BY DEF Supply
  <2> DEFINE mid == [old EXCEPT !.subsidy = @ + s]
  <2>2. mid = [genesis |-> a, subsidy |-> b + s, minted |-> c]
    BY <2>1
  <2>3. new = [mid EXCEPT !.minted = @ + m]
    OBVIOUS
  <2> HIDE DEF mid
  <2>4. new = [genesis |-> a, subsidy |-> b + s, minted |-> c + m]
    BY <2>2, <2>3
  <2>5. b + s \in Int /\ c + m \in Int
    BY <1>2
  <2> HIDE DEF new
  <2>6. new \in Supply
    BY <2>4, <2>5 DEF Supply
  <2> QED BY <2>1, <2>4, <2>6
<1> HIDE DEF new
<1> QED BY <1>1, <1>3

LEMMA ChildSupply ==
    ASSUME SoundInv, NEW h \in Stored, NEW prev \in Stored, blocks[h].prev = prev, prev # NoBlock,
           SupplyIs(prev)
    PROVE  SupplyIs(h)
<1> DEFINE txs == blocks[h].txs
           parent == blocks[prev]
           n == parent.height
<1>1. /\ SoundChild(parent, txs) /\ txs \in Seq(Tx) /\ parent.claimed \subseteq Source
      /\ n \in Nat /\ blocks[h].height = n + 1
      /\ PathTo(h) = PathTo(prev) \cup {h}
  BY ChildOf DEF SoundInv, IInv, TypeOK, IsRow
<1>2. /\ blocks[h] = RowAbove(parent, prev, txs)
      /\ RowAbove(parent, prev, txs).supply = Issue(parent.supply, txs, n + 1)
      /\ RowAbove(parent, prev, txs).view = ViewAfter(parent.view, txs, n + 1)
      /\ RowAbove(parent, prev, txs).claimed = parent.claimed \cup ClaimedBy(txs)
  BY ChildOf DEF RowAbove
<1>3. \A k \in 0..(n + 1) : Subsidy(k) \in Int
  <2>1. n + 1 < Cardinality(Hash) /\ Cardinality(Hash) \in Nat
    BY <1>1, HeightBounded, SubsidyAssumption, FS_CardinalityType
  <2> HIDE DEF n
  <2>2. \A k \in 0..(n + 1) : k \in 0..Cardinality(Hash)
    BY <1>1, <2>1
  <2> QED BY <2>2, SubsidyAssumption
<1> HIDE DEF txs, parent
<1>4. /\ blocks[h].supply = Issue(parent.supply, txs, n + 1)
      /\ blocks[h].claimed = parent.claimed \cup ClaimedBy(txs)
  BY <1>2, Zenon
<1>5. Value(DOMAIN blocks[h].view) = Total(blocks[h].supply)
  BY <1>1, <1>2, Zenon DEF SoundChild, Reconciles
<1>6. /\ parent.supply \in Supply /\ parent.supply.subsidy = SubsidyTo(n)
      /\ parent.supply.minted = Converted(parent.claimed)
      /\ \A b \in PathTo(prev) : blocks[b].height = 0 =>
            parent.supply.genesis = Allocated(blocks[b].txs[1])
  BY DEF SupplyIs, parent
<1>7. /\ SubsidyTo(n + 1) = SubsidyTo(n) + Subsidy(n + 1) /\ Subsidy(n + 1) \in Int
      /\ SubsidyTo(n) \in Int
  <2> HIDE DEF n
  <2>1. n + 1 \in 0..(n + 1)
    BY <1>1
  <2> QED BY <1>1, <1>3, <2>1, SubsidyStep
<1>8. /\ Converted(parent.claimed \cup ClaimedBy(txs)) = Converted(parent.claimed) + MintedBy(txs)
      /\ MintedBy(txs) \in Int /\ Converted(parent.claimed) \in Int
  BY <1>1, MintedWorth
<1>9. /\ blocks[h].supply \in Supply /\ blocks[h].supply.genesis = parent.supply.genesis
      /\ blocks[h].supply.subsidy = parent.supply.subsidy + Subsidy(n + 1)
      /\ blocks[h].supply.minted = parent.supply.minted + MintedBy(txs)
  <2> DEFINE old == parent.supply
             new == Issue(old, txs, n + 1)
  <2>1. old \in Supply /\ Subsidy(n + 1) \in Int /\ MintedBy(txs) \in Int
    BY <1>6, <1>7, <1>8
  <2> HIDE DEF n, old
  <2>2. /\ new \in Supply /\ new.genesis = old.genesis
        /\ new.subsidy = old.subsidy + Subsidy(n + 1)
        /\ new.minted = old.minted + MintedBy(txs)
    BY <2>1, IssueAdds
  <2>3. blocks[h].supply = new
    BY <1>4, Zenon DEF old
  <2> HIDE DEF new
  <2> QED BY <2>2, <2>3 DEF old
<1>10. /\ blocks[h].supply.subsidy = SubsidyTo(n + 1)
       /\ blocks[h].supply.minted = Converted(parent.claimed \cup ClaimedBy(txs))
  BY <1>6, <1>7, <1>8, <1>9
<1>11. /\ blocks[h].supply.subsidy = SubsidyTo(blocks[h].height)
       /\ blocks[h].supply.minted = Converted(blocks[h].claimed)
  BY <1>1, <1>4, <1>10, Zenon
<1>12. \A b \in PathTo(h) : blocks[b].height = 0 =>
          blocks[h].supply.genesis = Allocated(blocks[b].txs[1])
  BY <1>1, <1>6, <1>9
<1> QED BY <1>5, <1>9, <1>11, <1>12 DEF SupplyIs

LEMMA SuppliesRight ==
    ASSUME SoundInv
    PROVE  \A h \in Stored : SupplyIs(h)
<1> DEFINE T == {h \in Stored : SupplyIs(h)}
<1>1. /\ \A h \in Stored : blocks[h].prev = NoBlock => h \in T
      /\ \A h, prev \in Stored : blocks[h].prev = prev /\ prev # NoBlock /\ prev \in T => h \in T
  BY RootSupply, ChildSupply
<1>2. \A h \in Stored : h \in T
  <2> HIDE DEF T
  <2> QED BY <1>1, BranchInduction
<1> QED BY <1>2

LEMMA SoundReconciles == SoundInv => SupplyReconciles
<1> SUFFICES ASSUME SoundInv, best # NoBlock PROVE SupplyReconciles
  BY DEF SupplyReconciles
<1> DEFINE n == blocks[best].height
           first == CHOOSE b \in canonical : blocks[b].height = 0
           outs == Body[blocks[first].txs[1]].outs
<1>1. /\ best \in Stored /\ canonical = PathTo(best)
      /\ utxos = DOMAIN blocks[best].view /\ claims = blocks[best].claimed
  BY DEF SoundInv, IInv, IndexesMatchHead
<1>2. SupplyIs(best)
  BY <1>1, SuppliesRight
<1>3. \E b \in canonical : blocks[b].height = 0
  <2>1. {blocks[a].height : a \in PathTo(best)} = 0..n /\ n \in Nat
    BY <1>1 DEF SoundInv, IInv, OneBlockPerHeight, TypeOK, IsRow
  <2>2. 0 \in {blocks[a].height : a \in PathTo(best)}
    BY <2>1
  <2> QED BY <1>1, <2>2
<1>4. first \in PathTo(best) /\ blocks[first].height = 0
  BY <1>1, <1>3
<1>5. Value(utxos) = Total(blocks[best].supply)
  BY <1>1, <1>2, Zenon DEF SupplyIs
<1>6. blocks[best].supply.genesis = Allocated(blocks[first].txs[1])
  <2> HIDE DEF first
  <2> QED BY <1>2, <1>4 DEF SupplyIs
<1>7. blocks[best].supply.subsidy = SubsidyTo(n) /\ blocks[best].supply.minted = Converted(claims)
  BY <1>1, <1>2, Zenon DEF SupplyIs
<1>8. Value(utxos) = Allocated(blocks[first].txs[1]) + SubsidyTo(n) + Converted(claims)
  <2> HIDE DEF first, n
  <2> QED BY <1>5, <1>6, <1>7 DEF Total
<1>9. /\ Allocated(blocks[first].txs[1]) = SumFunction([i \in DOMAIN outs |-> outs[i].amount])
      /\ SubsidyTo(n) = SumFunction([m \in 1..n |-> Subsidy(m)])
      /\ Converted(claims) = SumFunction([s \in claims |-> SourceAmount[s]])
  BY DEF Allocated, SubsidyTo, Converted
<1> HIDE DEF n, outs
<1>10. Value(utxos) = SumFunction([i \in DOMAIN outs |-> outs[i].amount])
                        + SumFunction([m \in 1..n |-> Subsidy(m)])
                        + SumFunction([s \in claims |-> SourceAmount[s]])
  <2> HIDE DEF first
  <2> QED BY <1>8, <1>9, Zenon
<1> QED BY <1>10 DEF SupplyReconciles, n, outs

\* Whatever the interleaving of handlers, crashes and reorgs, the utxos table is worth the
\* allocation of its genesis block, the subsidies of its blocks and the converted amounts
\* of the claimed sources, to the unit (supply_snapshot).
THEOREM SupplyAlwaysReconciles == Spec => []SupplyReconciles
<1>1. Init => SoundInv
  BY SoundInit
<1>2. SoundInv /\ [Next]_vars => SoundInv'
  BY SoundNext
<1>3. SoundInv => SupplyReconciles
  BY SoundReconciles
<1> QED BY <1>1, <1>2, <1>3, PTL DEF Spec

(***************************************************************************)
(* The mempool of a node that serves one request at a time.                *)
(***************************************************************************)
OneHandler == \A t, u \in Threads : t = u

\* What a submission has established so far, of tables that no other handler changes.
SubmitFits(j) ==
    /\ j.at = "check" => j.unspent = utxos
    /\ j.at \in {"conflict", "save"} =>
          IF IsClaim(j.tx) THEN Spent(j.tx) = {} /\ Body[j.tx].source \notin claims
                           ELSE Spent(j.tx) # {} /\ Spent(j.tx) \subseteq utxos
    /\ j.at = "save" => \A y \in pending : ~Conflict(j.tx, y)

MempoolInv == PendingConsistent /\ \A t \in Threads : SubmitFits(job[t])

\* An output that a branch spends is unspent at its end only if it was paid again.
LEMMA SpentIsGone ==
    ASSUME SoundInv
    PROVE  \A h \in Stored : \A b \in PathTo(h) : \A x \in ToSet(blocks[b].txs) :
              \A op \in Spent(x) \cap DOMAIN blocks[h].view : PaidTwice(op, PathTo(h))
<1> DEFINE Gone(h) == \A b \in PathTo(h) : \A x \in ToSet(blocks[b].txs) :
                         \A op \in Spent(x) \cap DOMAIN blocks[h].view : PaidTwice(op, PathTo(h))
           T == {h \in Stored : Gone(h)}
<1>1. ASSUME NEW h \in Stored, blocks[h].prev = NoBlock
      PROVE  h \in T
  <2>1. PathTo(h) = {h} /\ Len(blocks[h].txs) = 1 /\ Body[blocks[h].txs[1]].ins = <<>> /\ blocks[h].txs \in Seq(Tx)
    BY <1>1, RootRow DEF SoundRoot, IsAllocation
  <2>2. \A x \in ToSet(blocks[h].txs) : Spent(x) = {}
    BY <2>1, ToSetHas DEF Spent
  <2> QED BY <2>1, <2>2
<1>2. ASSUME NEW h \in Stored, NEW prev \in Stored, blocks[h].prev = prev, prev # NoBlock, prev \in T
      PROVE  h \in T
  <2> SUFFICES ASSUME NEW b \in PathTo(h), NEW x \in ToSet(blocks[b].txs),
                      NEW op \in Spent(x), op \in DOMAIN blocks[h].view
               PROVE  PaidTwice(op, PathTo(h))
    OBVIOUS
  <2> DEFINE txs == blocks[h].txs
             height == blocks[h].height
             before == blocks[prev].view
  <2>1. /\ SoundChild(blocks[prev], txs) /\ txs \in Seq(Tx) /\ Len(txs) \in Nat
        /\ height = blocks[prev].height + 1
        /\ PathTo(h) = PathTo(prev) \cup {h} /\ h \notin PathTo(prev)
    BY <1>2, ChildOf
  <2>2. op \in DOMAIN ViewUpTo(before, txs, height, Len(txs))
    BY <1>2, ChildView, Zenon
  <2>3. \A a \in PathTo(prev) : op[1] \in ToSet(blocks[a].txs) /\ op[1] \in ToSet(txs)
                                   => PaidTwice(op, PathTo(h))
    BY <2>1 DEF PaidTwice
  <2>4. \A i \in 1..Len(txs) : op \in Created(txs[i]) => op[1] = txs[i] /\ op[1] \in ToSet(txs)
    BY <2>1, ToSetHas, MakerOf
  <2>5. CASE b = h
    <3>1. PICK i \in 1..Len(txs) : x = txs[i]
      BY <2>1, <2>5, ToSetHas
    <3>2. op \in Spent(txs[i])
      BY <3>1
    <3>3. PICK j \in 1..Len(txs) : op \in Created(txs[j]) /\ ~ (j < i)
      <4> HIDE DEF txs, height, before
      <4> QED BY <2>2, <3>2, ViewLost
    <3>4. \A k \in 1..(i - 1) : op \notin Created(txs[k])
      <4> SUFFICES ASSUME NEW k \in 1..(i - 1), op \in Created(txs[k]) PROVE FALSE
        OBVIOUS
      <4>1. k \in 1..Len(txs) /\ k # j
        BY <2>1, <3>1, <3>3
      <4>2. txs[k] = txs[j]
        BY <2>4, <3>3, <4>1
      <4> QED BY <2>1, <3>3, <4>1, <4>2, OnlyOneReward
    <3>5. op \in DOMAIN before
      <4>1. i \in 2..Len(txs) /\ ~IsClaim(txs[i])
        <5>1. Spent(txs[1]) = {} /\ \A m \in 2..Len(txs) : IsClaim(txs[m]) <=> Spent(txs[m]) = {}
          BY <2>1, OnlyOneReward
        <5> HIDE DEF txs
        <5>2. i # 1
          BY <3>2, <5>1
        <5>3. i \in 2..Len(txs)
          BY <2>1, <3>1, <5>2
        <5> QED BY <3>2, <5>1, <5>3
      <4>2. PICK status \in [Source -> ReviewStatus] : ValidInOrder(blocks[prev], txs, height, status)
        BY <2>1 DEF SoundChild
      <4>3. op \in DOMAIN ViewUpTo(before, txs, height, i - 1)
        <5> DEFINE view == ViewUpTo(before, txs, height, i - 1)
        <5>1. ValidTx(txs[i], DOMAIN view, view, AlreadyClaimed(blocks[prev], txs, i), height, status)
          <6> HIDE DEF txs, height
          <6> QED BY <4>1, <4>2 DEF ValidInOrder
        <5> HIDE DEF view, txs, height
        <5>2. op \in DOMAIN view
          BY <3>2, <4>1, <5>1 DEF ValidTx, ValidTransfer
        <5> QED BY <5>2 DEF view
      <4> HIDE DEF txs, height, before
      <4> QED BY <3>4, <4>3, ViewHas
    <3>6. PICK c \in Stored : Maker(c, PathTo(prev), op, before[op])
      BY <3>5, Origins DEF OriginsRight
    <3>7. c \in PathTo(prev) /\ op[1] \in ToSet(blocks[c].txs)
      BY <3>6 DEF Maker
    <3> QED BY <2>3, <2>4, <3>3, <3>7
  <2>6. CASE b \in PathTo(prev) /\ op \in DOMAIN before
    <3>1. PaidTwice(op, PathTo(prev))
      BY <1>2, <2>6
    <3> QED BY <2>1, <3>1 DEF PaidTwice
  <2>7. CASE b \in PathTo(prev) /\ op \notin DOMAIN before
    <3>1. \E i \in 1..Len(txs) : op \in Created(txs[i])
      <4> HIDE DEF txs, height, before
      <4> QED BY <2>2, <2>7, ViewHas
    <3>2. b \in Stored /\ PathTo(b) \subseteq PathTo(prev)
      BY <2>7, Branching
    <3>3. \E c \in PathTo(b) : op[1] \in ToSet(blocks[c].txs)
      BY <3>2, SoundIsMature DEF SpendsMature
    <3> QED BY <2>3, <2>4, <3>1, <3>2, <3>3
  <2> QED BY <2>1, <2>5, <2>6, <2>7
<1>3. \A h \in Stored : h \in T
  <2> HIDE DEF T
  <2> QED BY <1>1, <1>2, BranchInduction
<1> QED BY <1>3

\* The rows of the canonical chain are kept.
LEMMA PendingKept ==
    ASSUME SoundInv, [Next]_vars, PendingConsistent, canonical' = canonical, pending' = pending
    PROVE  PendingConsistent'
<1>1. canonical \subseteq Stored
  BY DEF SoundInv, IInv, IndexesMatchHead, OneBlockPerHeight
<1>2. \A b \in canonical : blocks'[b] = blocks[b]
  BY <1>1, RowsChange, StoredRow DEF SoundInv
<1> QED BY <1>2 DEF PendingConsistent, PaidTwice

LEMMA PendingSaved ==
    ASSUME SoundInv, MempoolInv, NEW t \in Threads, SavePending(t)
    PROVE  PendingConsistent'
<1> DEFINE x == job[t].tx
<1>1. /\ pending' = pending \cup {x} /\ UNCHANGED <<blocks, canonical>>
      /\ job[t].at = "save" /\ SubmitFits(job[t]) /\ x \in Tx
  <2>1. job[t].at = "save"
    BY DEF SavePending, At
  <2>2. job[t] \in Job
    BY DEF SoundInv, IInv, TypeOK
  <2>3. x \in Tx
    BY <2>1, <2>2, ChainNodeAssumption DEF Job
  <2> QED BY <2>1, <2>3 DEF SavePending, MempoolInv
<1> HIDE DEF x
<1>2. /\ \A y \in pending : ~Conflict(x, y)
      /\ IF IsClaim(x) THEN Spent(x) = {} /\ Body[x].source \notin claims
                       ELSE Spent(x) # {} /\ Spent(x) \subseteq utxos
  BY <1>1 DEF SubmitFits, x
<1>3. \A y \in pending : /\ Spent(x) \cap Spent(y) = {} /\ Spent(y) \cap Spent(x) = {}
                         /\ IsClaim(x) /\ IsClaim(y) => Body[x].source # Body[y].source
  BY <1>2 DEF Conflict
<1>4. \A y, z \in pending' : y # z =>
          /\ Spent(y) \cap Spent(z) = {}
          /\ IsClaim(y) /\ IsClaim(z) => Body[y].source # Body[z].source
  BY <1>1, <1>3 DEF MempoolInv, PendingConsistent
<1>5. ASSUME NEW b \in canonical, x \in ToSet(blocks[b].txs)
      PROVE  Spent(x) # {} /\ \A op \in Spent(x) : PaidTwice(op, canonical)
  <2>1. /\ best \in Stored /\ canonical = PathTo(best) /\ b \in Stored
        /\ utxos = DOMAIN blocks[best].view /\ claims = blocks[best].claimed
    BY <1>5 DEF SoundInv, IInv, IndexesMatchHead, OneBlockPerHeight
  <2>2. ~IsClaim(x)
    <3> SUFFICES ASSUME IsClaim(x) PROVE FALSE
      OBVIOUS
    <3>1. Body[x].source \in ClaimedBy(blocks[b].txs)
      BY <1>5, <2>1, ClaimIsCounted
    <3>2. ClaimedBy(blocks[b].txs) \subseteq claims
      BY <1>5, <2>1 DEF SoundInv, IInv, ChecksStillHold, ClaimsCovered
    <3> QED BY <1>2, <3>1, <3>2
  <2>3. Spent(x) # {} /\ Spent(x) \subseteq DOMAIN blocks[best].view
    BY <1>2, <2>1, <2>2
  <2> QED BY <1>5, <2>1, <2>3, SpentIsGone
<1>6. \A b \in canonical : \A y \in pending' \cap ToSet(blocks[b].txs) :
          Spent(y) # {} /\ \A op \in Spent(y) : PaidTwice(op, canonical)
  BY <1>1, <1>5 DEF MempoolInv, PendingConsistent
<1> QED BY <1>1, <1>4, <1>6 DEF PendingConsistent, PaidTwice

LEMMA PendingApplied ==
    ASSUME MempoolInv, NEW t \in Threads, ApplyBestChain(t)
    PROVE  PendingConsistent'
<1> DEFINE h == job[t].hash
<1>1. /\ canonical' = PathTo(h) /\ pending' = pending \ Included(h) /\ blocks' = blocks
  BY DEF ApplyBestChain
<1>2. \A b \in canonical' : \A x \in ToSet(blocks[b].txs) : x \notin pending'
  BY <1>1 DEF Included
<1>3. pending' \subseteq pending
  BY <1>1
<1> QED BY <1>1, <1>2, <1>3 DEF MempoolInv, PendingConsistent

\* What admission checked of a transaction.
LEMMA AdmittedFits ==
    ASSUME NEW x \in Tx, Admissible(x, utxos)
    PROVE  IF IsClaim(x) THEN Spent(x) = {} /\ Body[x].source \notin claims
                         ELSE Spent(x) # {} /\ Spent(x) \subseteq utxos
<1>1. PICK origins, height, status : ValidTx(x, utxos, origins, claims, height, status)
  BY DEF Admissible
<1>2. CASE IsClaim(x)
  BY <1>1, <1>2 DEF ValidTx, ValidClaim, Spent
<1>3. CASE ~IsClaim(x)
  <2>1. Body[x].ins # <<>> /\ Spent(x) \subseteq utxos
    BY <1>1, <1>3 DEF ValidTx, ValidTransfer
  <2>2. 1 \in DOMAIN Body[x].ins
    BY <2>1, AmountsAssumption, NonEmpty
  <2> QED BY <1>3, <2>1, <2>2 DEF Spent
<1> QED BY <1>2, <1>3

\* What a submission has established survives every step but its own.
LEMMA SubmitStep ==
    ASSUME OneHandler, SoundInv, MempoolInv, NEW t \in Threads, Step(t)
    PROVE  SubmitFits(job[t])'
<1> USE DEF Goto, Done, Idle, At, tables
<1>0. job \in [Threads -> Job] /\ job[t] \in Job /\ SubmitFits(job[t])
  BY DEF SoundInv, IInv, TypeOK, MempoolInv
<1>1. \A j : job' = [job EXCEPT ![t] = j] => job'[t] = j
  BY <1>0
<1>2. job'[t].at \notin {"check", "conflict", "save"} => SubmitFits(job[t])'
  BY DEF SubmitFits
<1>3. CASE Submit(t) \/ SavePending(t) \/ CreateGenesis(t) \/ Mine(t) \/ ReadPending(t) \/ Import(t)
  <2>1. job'[t].at \notin {"check", "conflict", "save"}
    <3>1. CASE Submit(t) \/ SavePending(t) \/ CreateGenesis(t) \/ Mine(t)
      BY <1>0, <3>1 DEF Submit, SavePending, CreateGenesis, Mine
    <3>2. CASE ReadPending(t)
      BY <1>0, <3>2 DEF ReadPending
    <3>3. CASE Import(t)
      <4>1. PICK h, prev, txs : Goto(t, [at |-> "store", hash |-> h, prev |-> prev, txs |-> txs,
                                         local |-> FALSE])
        BY <3>3 DEF Import
      <4> QED BY <1>0, <4>1
    <3> QED BY <1>3, <3>1, <3>2, <3>3
  <2> QED BY <1>2, <2>1
<1>4. CASE StoreBlock(t) \/ SelectBestChain(t) \/ ApplyBestChain(t)
  BY <1>1, <1>2, <1>4 DEF StoreBlock, SelectBestChain, ApplyBestChain
<1>5. CASE Build(t)
  <2>1. CASE Done(t)
    <3>1. job'[t].at \notin {"check", "conflict", "save"}
      BY <1>0, <2>1
    <3> QED BY <1>2, <3>1
  <2>2. CASE ~Done(t)
    <3>1. PICK r, h : Goto(t, [at |-> "store", hash |-> h, prev |-> job[t].head,
                               txs |-> <<r>> \o job[t].queue, local |-> FALSE])
      BY <1>5, <2>2 DEF Build
    <3>2. job'[t].at \notin {"check", "conflict", "save"}
      BY <1>0, <3>1
    <3> QED BY <1>2, <3>2
  <2> QED BY <2>1, <2>2
<1>6. CASE ReadUtxos(t)
  BY <1>1, <1>6 DEF ReadUtxos, SubmitFits
<1>7. CASE Check(t)
  <2>1. CASE Admissible(job[t].tx, job[t].unspent)
    <3>1. job[t].at = "check" /\ job'[t] = [at |-> "conflict", tx |-> job[t].tx] /\ UNCHANGED <<utxos, claims>>
      BY <1>1, <1>7, <2>1 DEF Check
    <3>2. job[t].unspent = utxos /\ job[t].tx \in Tx
      BY <1>0, <3>1, ChainNodeAssumption DEF Job, SubmitFits
    <3>3. Admissible(job[t].tx, utxos)
      BY <2>1, <3>2, Zenon
    <3> QED BY <3>1, <3>2, <3>3, AdmittedFits DEF SubmitFits
  <2>2. CASE ~Admissible(job[t].tx, job[t].unspent)
    BY <1>1, <1>2, <1>7, <2>2 DEF Check
  <2> QED BY <2>1, <2>2
<1>8. CASE CheckConflicts(t)
  <2>1. CASE \E y \in pending : Conflict(job[t].tx, y)
    BY <1>1, <1>2, <1>8, <2>1 DEF CheckConflicts
  <2>2. CASE ~ \E y \in pending : Conflict(job[t].tx, y)
    <3>1. /\ job[t].at = "conflict" /\ job'[t] = [at |-> "save", tx |-> job[t].tx]
          /\ UNCHANGED <<utxos, claims, pending>>
      BY <1>1, <1>8, <2>2 DEF CheckConflicts
    <3> QED BY <1>0, <2>2, <3>1 DEF SubmitFits
  <2> QED BY <2>1, <2>2
<1> QED BY <1>3, <1>4, <1>5, <1>6, <1>7, <1>8 DEF Step

LEMMA MempoolNext ==
    ASSUME OneHandler, SoundInv, MempoolInv, [Next]_vars
    PROVE  MempoolInv'
<1>1. PendingConsistent'
  <2>1. CASE canonical' = canonical /\ pending' = pending
    BY <2>1, PendingKept DEF MempoolInv
  <2>2. CASE ~ (canonical' = canonical /\ pending' = pending)
    <3>1. PICK t \in Threads : Step(t)
      BY <2>2 DEF Next, vars, Crash, SetReview, tables
    <3>2. SavePending(t) \/ ApplyBestChain(t)
      BY <2>2, <3>1 DEF Step, tables, Submit, ReadUtxos, Check, CheckConflicts, CreateGenesis, Mine,
                  ReadPending, Build, Import, StoreBlock, SelectBestChain
    <3> QED BY <3>2, PendingSaved, PendingApplied
  <2> QED BY <2>1, <2>2
<1>2. ASSUME NEW t \in Threads
      PROVE  SubmitFits(job[t])'
  <2>1. CASE \E u \in Threads : Step(u)
    <3>1. Step(t)
      BY <2>1 DEF OneHandler
    <3> QED BY <3>1, SubmitStep
  <2>2. CASE Crash
    BY <2>2 DEF Crash, Idle, SubmitFits
  <2>3. CASE UNCHANGED vars \/ \E s \in Source, status \in ReviewStatus : SetReview(s, status)
    <3>1. UNCHANGED <<utxos, claims, pending, job>>
      BY <2>3 DEF vars, SetReview
    <3>2. SubmitFits(job[t])
      BY DEF MempoolInv
    <3> QED BY <3>1, <3>2 DEF SubmitFits
  <2> QED BY <2>1, <2>2, <2>3 DEF Next
<1> QED BY <1>1, <1>2 DEF MempoolInv

\* A node that serves one request at a time, with crashes and operators' reviews between its
\* steps, keeps no two pending transactions that spend one output or claim one source, and
\* none of the canonical chain unless its inputs were paid again (submit_transaction,
\* apply_best_chain).
THEOREM PendingStaysConsistent ==
    ASSUME OneHandler
    PROVE  Spec => []PendingConsistent
<1>1. Init => SoundInv /\ MempoolInv
  <2> SUFFICES ASSUME Init PROVE SoundInv /\ MempoolInv
    OBVIOUS
  <2>1. /\ pending = {} /\ canonical = {} /\ \A t \in Threads : job[t].at = "idle"
    BY DEF Init, Idle
  <2> QED BY <2>1, SoundInit DEF MempoolInv, PendingConsistent, SubmitFits
<1>2. SoundInv /\ MempoolInv /\ [Next]_vars => (SoundInv /\ MempoolInv)'
  BY SoundNext, MempoolNext
<1>3. SoundInv /\ MempoolInv => PendingConsistent
  BY DEF MempoolInv
<1> QED BY <1>1, <1>2, <1>3, PTL DEF Spec

(***************************************************************************)
(* Fork choice of a node that serves one request at a time.                *)
(***************************************************************************)
HeadIsBestOf(D) ==
    IF best = NoBlock THEN D = {}
    ELSE best \in D /\ \A g \in D \ {best} : Better(best, g)

\* The head is the best block dealt with, and a handler applies better ones only.
ForkChoiceInv ==
    /\ HeadIsBestOf(Decided)
    /\ \A t \in Threads :
          /\ At(t, "store") => job[t].local \in BOOLEAN /\ (job[t].local => best = NoBlock)
          /\ At(t, "apply") => Better(job[t].hash, best)

Considering(t) == At(t, "select") \/ At(t, "apply")

LEMMA DecidedIs ==
    ASSUME OneHandler, NEW t \in Threads
    PROVE  /\ Considering(t) => Decided = Stored \ {job[t].hash}
           /\ ~Considering(t) => Decided = Stored
           /\ Considering(t)' => Decided' = Stored' \ {job'[t].hash}
           /\ ~Considering(t)' => Decided' = Stored'
<1>1. \A u \in Threads : u = t
  BY DEF OneHandler
<1>2. \A u \in Threads : (At(u, "select") \/ At(u, "apply")) <=> Considering(t)
  BY <1>1 DEF Considering, At
<1>3. \A u \in Threads : (At(u, "select") \/ At(u, "apply"))' <=> Considering(t)'
  BY <1>1 DEF Considering, At
<1> QED BY <1>1, <1>2, <1>3 DEF Decided

LEMMA BetterOrder ==
    ASSUME SoundInv, NEW f \in Stored, NEW g \in Stored, NEW h \in Stored
    PROVE  /\ Better(f, g) /\ Better(g, h) => Better(f, h)
           /\ f # g => Better(f, g) \/ Better(g, f)
<1>1. \A a \in Stored : a \in Nat /\ a # NoBlock /\ blocks[a].work \in Nat
  BY ChainNodeAssumption DEF SoundInv, IInv, TypeOK, IsRow
<1> QED BY <1>1 DEF Better

\* The steps that the abstract specification does not see.
LEMMA ForkChoiceStutters ==
    ASSUME OneHandler, SoundInv, ForkChoiceInv, NEW t \in Threads, Step(t),
           ~(SelectBestChain(t) \/ ApplyBestChain(t))
    PROVE  /\ ForkChoiceInv'
           /\ Decided' = Decided /\ best' = best /\ \A h \in Decided : blocks'[h] = blocks[h]
<1> USE DEF Goto, Done, Idle, At, tables
<1>0. job \in [Threads -> Job] /\ job[t] \in Job /\ \A u \in Threads : u = t
  BY DEF SoundInv, IInv, TypeOK, OneHandler
<1>1. CASE StoreBlock(t) /\ job[t].hash \in Stored
  <2>1. UNCHANGED <<blocks, best>> /\ job[t].at = "store" /\ job'[t].at = "idle"
    BY <1>0, <1>1 DEF StoreBlock
  <2>2. Decided' = Decided
    BY <2>1, DecidedIs DEF Considering, Stored
  <2> QED BY <1>0, <2>1, <2>2 DEF ForkChoiceInv, HeadIsBestOf, Better
<1>2. CASE StoreBlock(t) /\ job[t].hash \notin Stored
  <2> DEFINE h == job[t].hash
  <2>1. /\ Stored' = Stored \cup {h} /\ \A g \in Stored : blocks'[g] = blocks[g]
        /\ best' = best /\ job[t].at = "store" /\ h \notin Stored
    BY <1>2, StoredRow DEF StoreBlock, SoundInv
  <2>2. job'[t] = [at |-> IF job[t].local THEN "apply" ELSE "select", hash |-> h]
    BY <1>0, <1>2 DEF StoreBlock
  <2>3. Decided = Stored /\ Decided' = Stored
    <3>1. Considering(t)' /\ job'[t].hash = h /\ ~Considering(t)
      BY <2>1, <2>2 DEF Considering
    <3>2. Decided' = Stored' \ {job'[t].hash} /\ Decided = Stored
      BY <3>1, DecidedIs, Zenon
    <3> HIDE DEF h
    <3> QED BY <2>1, <3>1, <3>2
  <2>4. HeadIsBestOf(Decided) /\ \A g \in Decided : blocks'[g] = blocks[g]
    BY <2>1, <2>3 DEF ForkChoiceInv
  <2>5. HeadIsBestOf(Decided)'
    BY <2>1, <2>3, <2>4 DEF HeadIsBestOf, Better
  <2>6. job'[t].at = "apply" => best' = NoBlock
    BY <2>1, <2>2 DEF ForkChoiceInv
  <2> HIDE DEF h
  <2> QED BY <1>0, <2>1, <2>2, <2>3, <2>5, <2>6 DEF ForkChoiceInv, Better
<1>3. CASE ~StoreBlock(t)
  <2>1. UNCHANGED <<blocks, best>>
    BY <1>3 DEF Step, Submit, ReadUtxos, Check, CheckConflicts, SavePending, CreateGenesis, Mine,
                ReadPending, Build, Import
  <2>2. job[t].at \notin {"select", "apply"}
    BY <1>3 DEF Step, Submit, ReadUtxos, Check, CheckConflicts, SavePending, CreateGenesis, Mine,
                ReadPending, Build, Import
  <2>3. /\ job'[t].at \notin {"select", "apply"}
        /\ job'[t].at = "store" => job'[t].local \in BOOLEAN /\ (job'[t].local => best = NoBlock)
    <3>1. CASE Submit(t) \/ SavePending(t) \/ Mine(t)
      BY <1>0, <3>1 DEF Submit, SavePending, Mine
    <3>7. CASE CreateGenesis(t)
      <4>1. best = NoBlock /\ job'[t] = [at |-> "store", hash |-> GenesisHash, prev |-> NoBlock,
                                        txs |-> <<GenesisTx>>, local |-> TRUE]
        BY <1>0, <3>7 DEF CreateGenesis
      <4> QED BY <4>1
    <3>2. CASE ReadUtxos(t) \/ Check(t) \/ CheckConflicts(t)
      BY <1>0, <3>2 DEF ReadUtxos, Check, CheckConflicts
    <3>3. CASE ReadPending(t)
      BY <1>0, <3>3 DEF ReadPending
    <3>4. CASE Build(t) /\ ~Done(t)
      <4>1. PICK r, h : Goto(t, [at |-> "store", hash |-> h, prev |-> job[t].head,
                                 txs |-> <<r>> \o job[t].queue, local |-> FALSE])
        BY <3>4 DEF Build
      <4> QED BY <1>0, <4>1
    <3>5. CASE Import(t)
      <4>1. PICK h, prev, txs : Goto(t, [at |-> "store", hash |-> h, prev |-> prev, txs |-> txs,
                                         local |-> FALSE])
        BY <3>5 DEF Import
      <4> QED BY <1>0, <4>1
    <3>6. CASE Done(t)
      BY <1>0, <3>6
    <3> QED BY <1>3, <3>1, <3>2, <3>3, <3>4, <3>5, <3>6, <3>7 DEF Step
  <2>4. Decided' = Decided
    BY <2>1, <2>2, <2>3, DecidedIs DEF Considering, Stored
  <2> QED BY <1>0, <2>1, <2>3, <2>4 DEF ForkChoiceInv, HeadIsBestOf, Better
<1> QED BY <1>1, <1>2, <1>3

\* The steps that consider a block.
LEMMA ForkChoiceConsiders ==
    ASSUME OneHandler, SoundInv, ForkChoiceInv, NEW t \in Threads,
           SelectBestChain(t) \/ ApplyBestChain(t)
    PROVE  /\ ForkChoiceInv' /\ blocks' = blocks
           /\ \/ Decided' = Decided /\ best' = best
              \/ /\ job[t].hash \in Hash /\ job[t].hash \notin Decided
                 /\ Decided' = Decided \cup {job[t].hash}
                 /\ best' \in Decided' /\ \A g \in Decided' \ {best'} : Better(best', g)
<1> USE DEF Goto, Done, Idle, At, tables
<1> DEFINE h == job[t].hash
<1>0. job \in [Threads -> Job] /\ \A u \in Threads : u = t
  BY DEF SoundInv, IInv, TypeOK, OneHandler
<1>1. /\ blocks' = blocks /\ Considering(t) /\ Decided = Stored \ {h}
  BY DecidedIs DEF Considering, SelectBestChain, ApplyBestChain
<1>2. h \in Stored /\ h \in Hash
  <2>1. job[t].at \in {"select", "apply"} /\ JobFits(job[t])
    BY <1>1 DEF SoundInv, IInv, ChecksStillHold, Considering
  <2> QED BY <2>1 DEF JobFits, SoundInv, IInv, TypeOK
<1>3. /\ h \notin Decided /\ Decided \cup {h} = Stored /\ Decided \subseteq Stored /\ h # NoBlock
  BY <1>1, <1>2, ChainNodeAssumption
<1> HIDE DEF h
<1>4. /\ best = NoBlock => Decided = {}
      /\ best # NoBlock => best \in Decided /\ \A g \in Decided \ {best} : Better(best, g)
  BY DEF ForkChoiceInv, HeadIsBestOf
<1>5. CASE SelectBestChain(t) /\ Better(h, best)
  <2>1. best' = best /\ job'[t] = [at |-> "apply", hash |-> h]
    BY <1>0, <1>5 DEF SelectBestChain, h
  <2>2. Decided' = Decided
    BY <1>1, <2>1, DecidedIs DEF Considering, Stored
  <2> QED BY <1>0, <1>1, <1>5, <2>1, <2>2 DEF ForkChoiceInv, HeadIsBestOf, Better
<1>6. CASE SelectBestChain(t) /\ ~Better(h, best)
  <2>1. best' = best /\ job'[t].at = "idle"
    BY <1>0, <1>6 DEF SelectBestChain, h
  <2>2. Decided' = Stored
    BY <1>1, <2>1, DecidedIs DEF Considering, Stored
  <2>3. best # NoBlock /\ best \in Decided /\ best # h
    BY <1>3, <1>4, <1>6 DEF Better
  <2>4. Better(best, h)
    BY <1>2, <1>3, <1>6, <2>3, BetterOrder
  <2>5. best \in Stored /\ \A g \in Stored \ {best} : Better(best, g)
    BY <1>3, <1>4, <2>3, <2>4
  <2>6. ForkChoiceInv'
    BY <1>0, <1>1, <2>1, <2>2, <2>3, <2>5 DEF ForkChoiceInv, HeadIsBestOf, Better
  <2> QED BY <1>1, <1>2, <1>3, <2>1, <2>2, <2>5, <2>6 DEF Better, h
<1>7. CASE ApplyBestChain(t)
  <2>1. best' = h /\ job'[t].at = "idle" /\ Better(h, best)
    BY <1>0, <1>7 DEF ApplyBestChain, h, ForkChoiceInv
  <2>2. Decided' = Stored
    BY <1>1, <2>1, DecidedIs DEF Considering, Stored
  <2>3. \A g \in Decided : Better(h, g)
    <3> TAKE g \in Decided
    <3>1. best # NoBlock /\ best \in Decided
      BY <1>4
    <3>2. g = best \/ Better(best, g)
      BY <1>4, <3>1
    <3> QED BY <1>2, <1>3, <2>1, <3>1, <3>2, BetterOrder
  <2>4. h \in Stored /\ \A g \in Stored \ {h} : Better(h, g)
    BY <1>2, <1>3, <2>3
  <2>5. ForkChoiceInv'
    BY <1>0, <1>1, <1>3, <2>1, <2>2, <2>4 DEF ForkChoiceInv, HeadIsBestOf, Better
  <2> QED BY <1>1, <1>2, <1>3, <2>1, <2>2, <2>4, <2>5 DEF Better, h
<1> QED BY <1>5, <1>6, <1>7

\* The cumulative work of the blocks dealt with: the abstract specification's work.
WorkOf == [h \in Decided |-> blocks[h].work]

LEMMA StutterMaps ==
    ASSUME Decided' = Decided, best' = best, \A h \in Decided : blocks'[h] = blocks[h]
    PROVE  UNCHANGED <<WorkOf, best>>
BY DEF WorkOf

LEMMA ConsiderMaps ==
    ASSUME NEW h \in Hash, h \notin Decided, Decided' = Decided \cup {h}, blocks' = blocks,
           best' \in Decided', \A g \in Decided' \ {best'} : Better(best', g), NoBlock \notin Decided'
    PROVE  Abstract!Next
<1>1. /\ DOMAIN WorkOf = Decided /\ DOMAIN WorkOf' = Decided'
      /\ \A g \in Decided : WorkOf[g] = blocks[g].work
      /\ \A g \in Decided' : WorkOf'[g] = blocks[g].work
  BY DEF WorkOf
<1>2. \A g \in Decided' \ {best'} : \/ blocks[best'].work > blocks[g].work
                                    \/ blocks[best'].work = blocks[g].work /\ best' > g
  BY DEF Better
<1>3. \A g \in Decided' \ {best'} : \/ WorkOf'[best'] > WorkOf'[g]
                                    \/ WorkOf'[best'] = WorkOf'[g] /\ best' > g
  BY <1>1, <1>2
<1>4. Abstract!Considered = Decided /\ Abstract!Considered' = Decided'
  BY DEF Abstract!Considered
<1>5. Abstract!IsBest(best)'
  BY <1>3, <1>4 DEF Abstract!IsBest, Abstract!Prefers, WorkOf
<1>6. \A g \in Decided : WorkOf'[g] = WorkOf[g]
  BY <1>1
<1>7. Abstract!Consider(h)
  BY <1>4, <1>5, <1>6 DEF Abstract!Consider, WorkOf
<1> QED BY <1>7 DEF Abstract!Next

LEMMA ForkChoiceNext ==
    ASSUME OneHandler, ~Crashes, SoundInv, ForkChoiceInv, [Next]_vars
    PROVE  ForkChoiceInv' /\ (Abstract!Next \/ UNCHANGED <<WorkOf, best>>)
<1>1. CASE \E t \in Threads : Step(t)
  <2>1. PICK t \in Threads : Step(t)
    BY <1>1
  <2>2. CASE SelectBestChain(t) \/ ApplyBestChain(t)
    <3>1. SoundInv'
      BY SoundNext
    <3>2. \A h \in Stored' : h # NoBlock
      BY <3>1, ChainNodeAssumption DEF SoundInv, IInv, TypeOK
    <3>3. NoBlock \notin Decided'
      BY <3>2 DEF Decided
    <3> QED BY <2>2, <3>3, ForkChoiceConsiders, StutterMaps, ConsiderMaps
  <2>3. CASE ~(SelectBestChain(t) \/ ApplyBestChain(t))
    BY <2>1, <2>3, ForkChoiceStutters, StutterMaps
  <2> QED BY <2>2, <2>3
<1>2. CASE ~ \E t \in Threads : Step(t)
  <2>1. UNCHANGED <<blocks, best, job>>
    BY <1>2 DEF Next, vars, Crash, SetReview
  <2>2. Decided' = Decided
    BY <2>1 DEF Decided, Stored, At
  <2>3. ForkChoiceInv'
    BY <2>1, <2>2 DEF ForkChoiceInv, HeadIsBestOf, Better, At
  <2> QED BY <2>1, <2>2, <2>3, StutterMaps
<1> QED BY <1>1, <1>2

LEMMA ForkChoiceInit ==
    ASSUME Init
    PROVE  ForkChoiceInv /\ Abstract!Init
<1>1. Stored = {} /\ best = NoBlock /\ \A t \in Threads : job[t].at = "idle"
  BY DEF Init, Stored, Idle
<1>2. Decided = {}
  BY <1>1 DEF Decided
<1>3. WorkOf = [h \in {} |-> 0]
  BY <1>2 DEF WorkOf
<1> QED BY <1>1, <1>2, <1>3 DEF ForkChoiceInv, HeadIsBestOf, At, Abstract!Init, WorkOf

\* A node that serves one request at a time and does not crash implements fork choice:
\* every block it stores is considered once, and its head is the best block considered so
\* far (_select_best_chain, apply_best_chain; protocol.md, sections 5 and 5.2).  The run
\* fork_choice_race shows what two handlers do.
THEOREM ForkChoiceRefined ==
    ASSUME OneHandler, ~Crashes
    PROVE  Spec => ImplementsBestChain
<1>1. Init => SoundInv /\ ForkChoiceInv /\ Abstract!Init
  BY SoundInit, ForkChoiceInit
<1>2. SoundInv /\ ForkChoiceInv /\ [Next]_vars =>
         (SoundInv /\ ForkChoiceInv)' /\ [Abstract!Next]_<<WorkOf, best>>
  BY SoundNext, ForkChoiceNext
<1> QED BY <1>1, <1>2, PTL DEF Spec, ImplementsBestChain, Abstract!Spec, WorkOf

\* Between two requests of such a node its head is the best of all the blocks it stores.
THEOREM HeadStaysBest ==
    ASSUME OneHandler, ~Crashes
    PROVE  Spec => []HeadIsBest
<1>1. Init => SoundInv /\ ForkChoiceInv
  BY SoundInit, ForkChoiceInit
<1>2. SoundInv /\ ForkChoiceInv /\ [Next]_vars => (SoundInv /\ ForkChoiceInv)'
  BY SoundNext, ForkChoiceNext
<1>3. SoundInv /\ ForkChoiceInv => HeadIsBest
  <2> SUFFICES ASSUME SoundInv, ForkChoiceInv, Quiet, Stored # {}
               PROVE  best # NoBlock /\ \A h \in Stored \ {best} : ~Better(h, best)
    BY DEF HeadIsBest
  <2>1. Decided = Stored
    BY DEF Quiet, Decided, At
  <2>2. best \in Stored /\ best # NoBlock /\ \A h \in Stored \ {best} : Better(best, h)
    BY <2>1 DEF ForkChoiceInv, HeadIsBestOf
  <2>3. \A a \in Stored : a \in Nat /\ a # NoBlock /\ blocks[a].work \in Nat
    BY ChainNodeAssumption DEF SoundInv, IInv, TypeOK, IsRow
  <2> QED BY <2>2, <2>3 DEF Better
<1> QED BY <1>1, <1>2, <1>3, PTL DEF Spec

(***************************************************************************)
(* A row's view, computed at once, against the replay of its branch.       *)
(***************************************************************************)

\* One more transaction of a block: the outputs it spends go, the outputs it makes come.
LEMMA OneMoreTx ==
    ASSUME NEW view, NEW txs, NEW height, NEW n \in Nat
    PROVE  DOMAIN ViewUpTo(view, txs, height, n + 1)
              = ApplyTx(DOMAIN ViewUpTo(view, txs, height, n), txs[n + 1])
<1> DEFINE In(k) == DOMAIN ViewUpTo(view, txs, height, k)
           Known(op, k) == op \in DOMAIN view \/ \E i \in 1..k : op \in Created(txs[i])
           Kept(op, k) == \A i \in 1..k : op \in Spent(txs[i]) =>
                             \E j \in 1..k : op \in Created(txs[j]) /\ ~ (j < i)
<1>1. \A k : In(k) = {op \in DOMAIN view \cup UNION {Created(txs[i]) : i \in 1..k} : Kept(op, k)}
  BY DEF ViewUpTo
<1>2. \A k, op : op \in In(k) <=> Known(op, k) /\ Kept(op, k)
  <2>1. \A k, op : op \in UNION {Created(txs[i]) : i \in 1..k} <=> \E i \in 1..k : op \in Created(txs[i])
    OBVIOUS
  <2> HIDE DEF Kept, In
  <2> QED BY <1>1, <2>1
<1>3. 1..(n + 1) = (1..n) \cup {n + 1} /\ \A i \in 1..n : i < n + 1
  OBVIOUS
<1> HIDE DEF In
<1>4. ASSUME NEW op, op \in Created(txs[n + 1]) PROVE op \in In(n + 1)
  BY <1>2, <1>3, <1>4
<1>5. ASSUME NEW op, op \notin Created(txs[n + 1])
      PROVE  op \in In(n + 1) <=> op \in In(n) /\ op \notin Spent(txs[n + 1])
  <2>1. Known(op, n + 1) <=> Known(op, n)
    BY <1>3, <1>5
  <2>2. ASSUME Kept(op, n + 1) PROVE Kept(op, n) /\ op \notin Spent(txs[n + 1])
    BY <1>3, <1>5, <2>2
  <2>3. ASSUME Kept(op, n), op \notin Spent(txs[n + 1]) PROVE Kept(op, n + 1)
    BY <1>3, <2>3
  <2> QED BY <1>2, <2>1, <2>2, <2>3
<1>6. In(n + 1) = ApplyTx(In(n), txs[n + 1])
  BY <1>4, <1>5 DEF ApplyTx
<1> QED BY <1>6 DEF In

LEMMA ViewUpToNone ==
    ASSUME NEW view, NEW txs, NEW height
    PROVE  DOMAIN ViewUpTo(view, txs, height, 0) = DOMAIN view
BY DEF ViewUpTo

\* The view after a block is the replay of its transactions.
LEMMA ViewIsReplay ==
    ASSUME NEW view, NEW txs, NEW height, Len(txs) \in Nat
    PROVE  DOMAIN ViewAfter(view, txs, height) = ApplyTxs(DOMAIN view, txs)
<1> DEFINE D == 0..Len(txs)
           Turn(w, n) == IF n = 0 THEN DOMAIN view ELSE ApplyTx(w[n - 1], txs[n])
           Is(w) == w = [n \in D |-> Turn(w, n)]
           u == [n \in D |-> DOMAIN ViewUpTo(view, txs, height, n)]
<1>1. ApplyTxs(DOMAIN view, txs) = (CHOOSE w : Is(w))[Len(txs)]
  BY DEF ApplyTxs
<1>2. \A n \in D : u[n] = Turn(u, n)
  <2>1. u[0] = Turn(u, 0)
    BY ViewUpToNone
  <2>2. ASSUME NEW n \in D, n # 0 PROVE u[n] = Turn(u, n)
    <3>1. n - 1 \in Nat /\ n - 1 \in D /\ (n - 1) + 1 = n
      BY <2>2
    <3>2. DOMAIN ViewUpTo(view, txs, height, (n - 1) + 1)
             = ApplyTx(DOMAIN ViewUpTo(view, txs, height, n - 1), txs[(n - 1) + 1])
      BY <3>1, OneMoreTx
    <3> QED BY <2>2, <3>1, <3>2, Zenon
  <2> QED BY <2>1, <2>2
<1>3. Is(u)
  <2>1. u = [n \in D |-> u[n]]
    OBVIOUS
  <2> QED BY <1>2, <2>1, Zenon
<1> DEFINE w == CHOOSE x : Is(x)
<1>4. Is(w)
  <2> HIDE DEF Is, u
  <2> QED BY <1>3
<1>5. \A n \in D : w[n] = Turn(w, n)
  <2> HIDE DEF w
  <2> QED BY <1>4
<1> DEFINE T == {n \in Nat : n \in D => w[n] = u[n]}
<1> HIDE DEF w, Is
<1>6. 0 \in T
  BY <1>2, <1>5
<1>7. ASSUME NEW n \in Nat, n \in T PROVE n + 1 \in T
  <2>1. SUFFICES ASSUME n + 1 \in D PROVE w[n + 1] = u[n + 1]
    OBVIOUS
  <2>2. n \in D /\ (n + 1) - 1 = n /\ n + 1 # 0
    BY <2>1
  <2>3. w[n] = u[n]
    BY <1>7, <2>2
  <2>4. Turn(w, n + 1) = Turn(u, n + 1)
    <3>1. w[(n + 1) - 1] = u[(n + 1) - 1]
      BY <2>2, <2>3
    <3> HIDE DEF u
    <3> QED BY <3>1
  <2> HIDE DEF Turn, u
  <2> QED BY <1>2, <1>5, <2>1, <2>4
<1>8. Len(txs) \in T
  <2> HIDE DEF T
  <2> QED BY <1>6, <1>7, InductionOnNat
<1>9. w[Len(txs)] = u[Len(txs)] /\ Len(txs) \in D
  BY <1>8
<1>10. u[Len(txs)] = DOMAIN ViewAfter(view, txs, height)
  BY <1>9 DEF ViewAfter
<1> QED BY <1>1, <1>9, <1>10 DEF w

LEMMA SoundReplays == SoundInv => RowsReplay
<1> SUFFICES ASSUME SoundInv PROVE RowsReplay
  OBVIOUS
<1> DEFINE Turn(w, h) ==
             ApplyTxs(IF blocks[h].prev = NoBlock THEN {} ELSE w[blocks[h].prev], blocks[h].txs)
           Is(w) == w = [h \in Stored |-> Turn(w, h)]
           u == [h \in Stored |-> DOMAIN blocks[h].view]
<1>1. Replay = CHOOSE w : Is(w)
  BY DEF Replay
<1>2. ASSUME NEW h \in Stored PROVE u[h] = Turn(u, h)
  <2>1. CASE blocks[h].prev = NoBlock
    <3>1. blocks[h] = GenesisRow(blocks[h].txs) /\ blocks[h].txs \in Seq(Tx)
      BY <2>1, RootRow
    <3>2. blocks[h].view = ViewAfter(EmptyView, blocks[h].txs, 0)
      BY <3>1 DEF GenesisRow
    <3>3. DOMAIN EmptyView = {}
      BY DEF EmptyView
    <3>4. DOMAIN ViewAfter(EmptyView, blocks[h].txs, 0) = ApplyTxs(DOMAIN EmptyView, blocks[h].txs)
      BY <3>1, ViewIsReplay
    <3> QED BY <2>1, <3>2, <3>3, <3>4
  <2>2. CASE blocks[h].prev # NoBlock
    <3> DEFINE prev == blocks[h].prev
    <3>1. /\ prev \in Stored /\ blocks[h].txs \in Seq(Tx)
          /\ blocks[h] = RowAbove(blocks[prev], prev, blocks[h].txs)
      BY <2>2, ChildOf
    <3>2. blocks[h].view = ViewAfter(blocks[prev].view, blocks[h].txs, blocks[prev].height + 1)
      BY <3>1 DEF RowAbove
    <3>3. DOMAIN ViewAfter(blocks[prev].view, blocks[h].txs, blocks[prev].height + 1)
             = ApplyTxs(DOMAIN blocks[prev].view, blocks[h].txs)
      BY <3>1, ViewIsReplay
    <3> QED BY <2>2, <3>1, <3>2, <3>3
  <2> QED BY <2>1, <2>2
<1>3. Is(u)
  <2>1. u = [h \in Stored |-> u[h]]
    OBVIOUS
  <2> QED BY <1>2, <2>1, Zenon
<1> DEFINE w == CHOOSE x : Is(x)
<1>4. Is(w)
  <2> HIDE DEF Is, u
  <2> QED BY <1>3
<1>5. \A h \in Stored : w[h] = Turn(w, h)
  <2> HIDE DEF w
  <2> QED BY <1>4
<1> DEFINE T == {h \in Stored : w[h] = u[h]}
<1> HIDE DEF w, Is
<1>6. ASSUME NEW h \in Stored, blocks[h].prev = NoBlock PROVE h \in T
  <2>1. Turn(w, h) = Turn(u, h)
    BY <1>6
  <2> HIDE DEF Turn, u
  <2> QED BY <1>2, <1>5, <2>1
<1>7. ASSUME NEW h \in Stored, NEW prev \in Stored, blocks[h].prev = prev, prev # NoBlock, prev \in T
      PROVE  h \in T
  <2>1. w[prev] = u[prev]
    BY <1>7
  <2>2. Turn(w, h) = Turn(u, h)
    <3> HIDE DEF u
    <3> QED BY <1>7, <2>1
  <2> HIDE DEF Turn, u
  <2> QED BY <1>2, <1>5, <2>2
<1>8. \A h \in Stored : h \in T
  <2> HIDE DEF T
  <2> QED BY <1>6, <1>7, BranchInduction
<1>9. \A h \in Stored : Replay[h] = DOMAIN blocks[h].view
  <2>1. Replay = w
    BY <1>1 DEF w
  <2>2. \A h \in Stored : w[h] = u[h]
    BY <1>8
  <2> QED BY <2>1, <2>2
<1> QED BY <1>9 DEF RowsReplay

\* The outputs that a row's view lists as unspent are those that replaying the transactions of
\* its branch leaves, one after the other from the root (utxos_for_head), for every branch a node
\* stores: so the node's ways of computing them agree.
THEOREM RowsAreReplays == Spec => []RowsReplay
<1>1. SoundInv => RowsReplay
  BY SoundReplays
<1> QED BY <1>1, SoundInit, SoundNext, PTL DEF Spec
=============================================================================
