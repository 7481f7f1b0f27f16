---------------------------- MODULE V2NodeProofs ----------------------------
(***************************************************************************)
(* Proofs about V2Node and GoConformance, for every network: any nodes,    *)
(* any blocks valid or not, any order of accepting, syncing, crashing and  *)
(* replaying, and any order in which the Go checker is given the blocks.   *)
(***************************************************************************)
EXTENDS GoConformance, FiniteSums

\* What a node has in memory, k with tip t: blocks with their work, and the best
\* of them.
Memory(k, t) ==
    /\ DOMAIN k \subseteq Hash
    /\ t \in DOMAIN k
    /\ \A h \in DOMAIN k : k[h].work \in Nat
    /\ \A h \in DOMAIN k : /\ k[h].work <= k[t].work
                           /\ k[h].work = k[t].work => h >= t

\* The thread is at a place it may be, and after a write it is idle or goes on with
\* its sync; a row to be replayed is not in memory yet.
Place(k, j) ==
    /\ j.at \in {"down", "idle", "sync", "store", "replay"}
    /\ j.at = "store" => j.block \in Hash /\ j.then.at \in {"idle", "sync"}
    /\ j.at = "replay" => j.todo \cap DOMAIN k = {}

\* Where memory k and disk d differ, the thread has the difference in hand.
Agrees(k, d, j) ==
    /\ j.at \in {"idle", "sync"} => DOMAIN k = d
    /\ j.at = "store" => DOMAIN k = d \cup {j.block}
    /\ j.at = "replay" => DOMAIN k \cup j.todo = d

Good(n, k, t, d, j) ==
    /\ Memory(k, t)
    /\ Place(k, j)
    /\ j.at = "down" => k = GenesisOnly /\ t = Genesis
    /\ n \notin FlakyDisk => Agrees(k, d, j)

\* The inductive invariant.
IInv ==
    /\ known = [n \in Nodes |-> known[n]] /\ tip = [n \in Nodes |-> tip[n]]
    /\ disk = [n \in Nodes |-> disk[n]] /\ job = [n \in Nodes |-> job[n]]
    /\ \A n \in Nodes : Good(n, known[n], tip[n], disk[n], job[n])

LEMMA GenesisMemory == Memory(GenesisOnly, Genesis)
BY V2NodeAssumption DEF Memory, GenesisOnly, GenesisRow

\* Accepting a block keeps the best block at the tip.
LEMMA BetterMemory ==
    ASSUME NEW k, NEW t, Memory(k, t), NEW h \in Hash, h \notin DOMAIN k,
           NEW row, row.work \in Nat,
           NEW rows, rows = [g \in DOMAIN k \cup {h} |-> IF g = h THEN row ELSE k[g]]
    PROVE  /\ Memory(rows, IF WinsOverTip(rows, h, t) THEN h ELSE t)
           /\ DOMAIN rows = DOMAIN k \cup {h}
<1> DEFINE best == IF WinsOverTip(rows, h, t) THEN h ELSE t
           w(g) == rows[g].work
<1>1. /\ DOMAIN rows = DOMAIN k \cup {h} /\ rows[h] = row
      /\ \A g \in DOMAIN k : rows[g] = k[g]
  OBVIOUS
<1>2. DOMAIN k \subseteq Nat /\ h \in Nat /\ t \in DOMAIN k /\ t \in Nat
  BY V2NodeAssumption DEF Memory
<1>3. \A g \in DOMAIN k : w(g) \in Nat /\ w(g) <= w(t) /\ (w(g) = w(t) => g >= t)
  BY <1>1 DEF Memory
<1>4. w(h) \in Nat /\ w(t) \in Nat
  BY <1>1, <1>2, <1>3
<1>5. \A g \in DOMAIN rows : w(g) <= w(best) /\ (w(g) = w(best) => g >= best)
  <2>1. CASE WinsOverTip(rows, h, t)
    <3>1. best = h /\ (w(h) > w(t) \/ (w(h) = w(t) /\ h < t))
      BY <2>1 DEF WinsOverTip
    <3> QED BY <1>1, <1>2, <1>3, <1>4, <3>1
  <2>2. CASE ~WinsOverTip(rows, h, t)
    <3>1. best = t /\ w(h) <= w(t) /\ (w(h) = w(t) => h >= t)
      BY <1>2, <1>4, <2>2 DEF WinsOverTip
    <3> QED BY <1>1, <1>2, <1>3, <1>4, <3>1
  <2> QED BY <2>1, <2>2
<1>6. best \in DOMAIN rows
  BY <1>1, <1>2
<1>7. DOMAIN rows \subseteq Hash /\ \A g \in DOMAIN rows : rows[g].work \in Nat
  BY <1>1, <1>3, <1>4 DEF Memory
<1> QED BY <1>1, <1>5, <1>6, <1>7 DEF Memory

\* A step of one node that leaves it in a good state keeps the invariant.
LEMMA Update ==
    ASSUME IInv, NEW n \in Nodes, NEW k, NEW t, NEW d, NEW j,
           known' = [known EXCEPT ![n] = k], tip' = [tip EXCEPT ![n] = t],
           disk' = [disk EXCEPT ![n] = d], job' = [job EXCEPT ![n] = j],
           Good(n, k, t, d, j)
    PROVE  IInv'
<1>1. /\ known' = [m \in Nodes |-> IF m = n THEN k ELSE known[m]]
      /\ tip' = [m \in Nodes |-> IF m = n THEN t ELSE tip[m]]
      /\ disk' = [m \in Nodes |-> IF m = n THEN d ELSE disk[m]]
      /\ job' = [m \in Nodes |-> IF m = n THEN j ELSE job[m]]
  BY DEF IInv
<1>2. \A m \in Nodes : Good(m, known'[m], tip'[m], disk'[m], job'[m])
  BY <1>1 DEF IInv
<1> QED BY <1>1, <1>2 DEF IInv, Good

\* What is not assigned stays as it is.
LEMMA Same ==
    ASSUME IInv, NEW n \in Nodes
    PROVE  /\ known = [known EXCEPT ![n] = known[n]] /\ tip = [tip EXCEPT ![n] = tip[n]]
           /\ disk = [disk EXCEPT ![n] = disk[n]]
BY DEF IInv

\* The parts of a Remember step.
LEMMA Remembered ==
    ASSUME IInv, NEW n \in Nodes, NEW h \in Hash, h \notin DOMAIN known[n],
           Acceptable(n, h), Remember(n, h)
    PROVE  \E k, t : /\ known' = [known EXCEPT ![n] = k] /\ tip' = [tip EXCEPT ![n] = t]
                     /\ Memory(k, t) /\ DOMAIN k = DOMAIN known[n] \cup {h}
<1> DEFINE rows == [g \in DOMAIN known[n] \cup {h} |->
                      IF g = h THEN RowOf(n, h) ELSE known[n][g]]
           best == IF WinsOverTip(rows, h, tip[n]) THEN h ELSE tip[n]
<1>1. known' = [known EXCEPT ![n] = rows] /\ tip' = [tip EXCEPT ![n] = best]
  BY DEF Remember, IInv
<1>2. Memory(known[n], tip[n])
  BY DEF IInv, Good
<1>3. /\ RowOf(n, h).work = known[n][Block[h].prev].work + BlockWork
      /\ Block[h].prev \in DOMAIN known[n]
  BY DEF RowOf, Acceptable
<1>4. RowOf(n, h).work \in Nat
  BY <1>2, <1>3, V2NodeAssumption DEF Memory
<1>5. Memory(rows, best) /\ DOMAIN rows = DOMAIN known[n] \cup {h}
  BY <1>2, <1>4, BetterMemory
<1> QED BY <1>1, <1>5

\* Each action of a node keeps the invariant.
LEMMA StepKeeps ==
    ASSUME IInv, NEW n \in Nodes, Step(n)
    PROVE  IInv'
<1> DEFINE k0 == known[n]
           t0 == tip[n]
           d0 == disk[n]
           j0 == job[n]
<1>1. Good(n, k0, t0, d0, j0)
  BY DEF IInv
<1>2. CASE \E h \in Hash : AcceptBlock(n, h)
  <2>1. PICK h \in Hash : AcceptBlock(n, h)
    BY <1>2
  <2>2. /\ j0.at = "idle" /\ Acceptable(n, h) /\ h \notin DOMAIN k0 /\ Remember(n, h)
        /\ Goto(n, Storing(h, Idle)) /\ disk' = disk
    BY <2>1 DEF AcceptBlock, At
  <2>3. PICK k, t : /\ known' = [known EXCEPT ![n] = k] /\ tip' = [tip EXCEPT ![n] = t]
                    /\ Memory(k, t) /\ DOMAIN k = DOMAIN k0 \cup {h}
    BY <2>2, Remembered
  <2>4. Good(n, k, t, d0, Storing(h, Idle))
    BY <1>1, <2>2, <2>3 DEF Good, Place, Agrees, Storing, Idle
  <2> QED BY <2>2, <2>3, <2>4, Same, Update DEF Goto
<1>3. CASE StoreBlock(n)
  <2> DEFINE d == d0 \cup {j0.block}
             j == j0.then
  <2>1. /\ j0.at = "store" /\ disk' = [disk EXCEPT ![n] = d]
        /\ Goto(n, j) /\ known' = known /\ tip' = tip
    BY <1>3 DEF StoreBlock, At, IInv
  <2>2. Good(n, k0, t0, d, j)
    BY <1>1, <2>1 DEF Good, Place, Agrees
  <2> HIDE DEF d, j
  <2> QED BY <2>1, <2>2, Same, Update DEF Goto
<1>4. CASE StoreFails(n)
  <2>1. /\ n \in FlakyDisk /\ Goto(n, Idle)
        /\ known' = known /\ tip' = tip /\ disk' = disk
    BY <1>4 DEF StoreFails
  <2>2. Good(n, k0, t0, d0, Idle)
    BY <1>1, <2>1 DEF Good, Place, Idle
  <2> QED BY <2>1, <2>2, Same, Update DEF Goto
<1>5. CASE \E peer \in Nodes : SyncFrom(n, peer)
  <2>1. PICK peer \in Nodes : SyncFrom(n, peer)
    BY <1>5
  <2> DEFINE j == Syncing(CanonicalBlocks(peer), tip[peer])
  <2>2. /\ j0.at = "idle" /\ Goto(n, j)
        /\ known' = known /\ tip' = tip /\ disk' = disk
    BY <2>1 DEF SyncFrom, At
  <2>3. j.at = "sync"
    BY DEF Syncing
  <2> HIDE DEF j
  <2>4. Good(n, k0, t0, d0, j)
    BY <1>1, <2>2, <2>3 DEF Good, Place, Agrees
  <2> QED BY <2>2, <2>4, Same, Update DEF Goto
<1>6. CASE SyncNext(n)
  <2> DEFINE h == Head(j0.queue)
             rest == Syncing(Tail(j0.queue), j0.goal)
  <2>1. j0.at = "sync" /\ disk' = disk
    BY <1>6 DEF SyncNext, At
  <2>2. rest.at = "sync" /\ Idle.at = "idle"
    BY DEF Syncing, Idle
  <2> HIDE DEF rest
  <2>3. CASE \E j \in {Idle, rest} : Goto(n, j) /\ UNCHANGED <<known, tip>>
    <3>1. PICK j \in {Idle, rest} : Goto(n, j) /\ UNCHANGED <<known, tip>>
      BY <2>3
    <3>2. Good(n, k0, t0, d0, j)
      BY <1>1, <2>1, <2>2, <3>1 DEF Good, Place, Agrees
    <3> QED BY <2>1, <3>1, <3>2, Same, Update DEF Goto
  <2>4. CASE /\ Acceptable(n, h) /\ h \notin DOMAIN k0
             /\ Remember(n, h) /\ Goto(n, Storing(h, rest))
    <3>1. h \in Hash
      BY <2>4 DEF Acceptable
    <3>2. PICK k, t : /\ known' = [known EXCEPT ![n] = k] /\ tip' = [tip EXCEPT ![n] = t]
                      /\ Memory(k, t) /\ DOMAIN k = DOMAIN k0 \cup {h}
      BY <2>4, <3>1, Remembered
    <3>3. Good(n, k, t, d0, Storing(h, rest))
      BY <1>1, <2>1, <2>2, <3>1, <3>2 DEF Good, Place, Agrees, Storing
    <3> QED BY <2>1, <2>4, <3>2, <3>3, Same, Update DEF Goto
  <2> QED BY <1>6, <2>3, <2>4 DEF SyncNext, rest
<1>7. CASE Crash(n)
  <2>1. /\ known' = [known EXCEPT ![n] = GenesisOnly] /\ tip' = [tip EXCEPT ![n] = Genesis]
        /\ Goto(n, Down) /\ disk' = disk
    BY <1>7 DEF Crash
  <2>2. Good(n, GenesisOnly, Genesis, d0, Down)
    BY GenesisMemory DEF Good, Place, Agrees, Down
  <2> QED BY <2>1, <2>2, Same, Update DEF Goto
<1>8. CASE Start(n)
  <2> DEFINE d == d0 \cup {Genesis}
             j == Replaying(d0 \ {Genesis})
  <2>1. /\ j0.at = "down" /\ disk' = [disk EXCEPT ![n] = d]
        /\ Goto(n, j) /\ known' = known /\ tip' = tip
    BY <1>8 DEF Start, At, IInv
  <2>2. DOMAIN k0 = {Genesis}
    BY <1>1, <2>1 DEF Good, GenesisOnly
  <2>3. Good(n, k0, t0, d, j)
    BY <1>1, <2>1, <2>2 DEF Good, Place, Agrees, Replaying
  <2> HIDE DEF d, j
  <2> QED BY <2>1, <2>3, Same, Update DEF Goto
<1>9. CASE Replay(n)
  <2>1. j0.at = "replay" /\ disk' = disk
    BY <1>9 DEF Replay, At
  <2>2. CASE j0.todo = {} /\ Goto(n, Idle) /\ UNCHANGED <<known, tip>>
    <3>1. j0.todo = {} /\ Goto(n, Idle) /\ known' = known /\ tip' = tip
      BY <2>2
    <3>2. n \notin FlakyDisk => DOMAIN k0 = d0
      BY <1>1, <2>1, <3>1 DEF Good, Agrees
    <3>3. Good(n, k0, t0, d0, Idle)
      BY <1>1, <3>2 DEF Good, Place, Agrees, Idle
    <3>4. /\ known' = [known EXCEPT ![n] = k0] /\ tip' = [tip EXCEPT ![n] = t0]
          /\ disk' = [disk EXCEPT ![n] = d0] /\ job' = [job EXCEPT ![n] = Idle]
      BY <2>1, <3>1, Same DEF Goto
    <3> QED BY <3>3, <3>4, Update
  <2>3. CASE \E h \in Lowest(j0.todo) : /\ Acceptable(n, h) /\ Remember(n, h)
                                        /\ Goto(n, Replaying(j0.todo \ {h}))
    <3>1. PICK h \in j0.todo : /\ Acceptable(n, h) /\ Remember(n, h)
                               /\ Goto(n, Replaying(j0.todo \ {h}))
      BY <2>3 DEF Lowest
    <3>2. h \in Hash /\ h \notin DOMAIN k0
      BY <1>1, <2>1, <3>1 DEF Good, Place, Acceptable
    <3>3. PICK k, t : /\ known' = [known EXCEPT ![n] = k] /\ tip' = [tip EXCEPT ![n] = t]
                      /\ Memory(k, t) /\ DOMAIN k = DOMAIN k0 \cup {h}
      BY <3>1, <3>2, Remembered
    <3>4. Good(n, k, t, d0, Replaying(j0.todo \ {h}))
      BY <1>1, <2>1, <3>1, <3>3 DEF Good, Place, Agrees, Replaying
    <3> QED BY <2>1, <3>1, <3>3, <3>4, Same, Update DEF Goto
  <2>4. CASE /\ known' = [known EXCEPT ![n] = GenesisOnly]
             /\ tip' = [tip EXCEPT ![n] = Genesis] /\ Goto(n, Down)
    <3>1. Good(n, GenesisOnly, Genesis, d0, Down)
      BY GenesisMemory DEF Good, Place, Agrees, Down
    <3> QED BY <2>1, <2>4, <3>1, Same, Update DEF Goto
  <2> QED BY <1>9, <2>2, <2>3, <2>4 DEF Replay
<1> QED BY <1>2, <1>3, <1>4, <1>5, <1>6, <1>7, <1>8, <1>9 DEF Step

LEMMA InitOK == Init => IInv
<1> SUFFICES ASSUME Init PROVE IInv
  OBVIOUS
<1>1. \A n \in Nodes : Good(n, GenesisOnly, Genesis, {}, Down)
  BY GenesisMemory DEF Good, Place, Agrees, Down
<1> QED BY <1>1 DEF Init, IInv

\* The invariant of a node's memory, disk and thread, for every network.
THEOREM Invariant == Spec => []IInv
<1>1. IInv /\ [Next]_vars => IInv'
  <2> SUFFICES ASSUME IInv, [Next]_vars PROVE IInv'
    OBVIOUS
  <2>1. CASE \E n \in Nodes : Step(n)
    BY <2>1, StepKeeps
  <2>2. CASE UNCHANGED vars
    BY <2>2 DEF IInv, vars
  <2> QED BY <2>1, <2>2 DEF Next
<1> QED BY <1>1, InitOK, PTL DEF Spec

\* The tip of a node is the best block in its memory at every step of accepting,
\* syncing and replaying, whatever was refused, lost or not written.
THEOREM BestTip == Spec => []TipIsBest
<1>1. IInv => TipIsBest
  BY DEF IInv, Good, Memory, TipIsBest
<1> QED BY <1>1, Invariant, PTL

\* Where writes succeed, memory and disk agree between requests, in every network
\* and after any crashes.
THEOREM Persistent == Spec => []Durable
<1>1. IInv => Durable
  BY DEF IInv, Good, Agrees, Durable, At
<1> QED BY <1>1, Invariant, PTL

(***************************************************************************)
(* The blocks that any node ever accepted.  K has each of them with the    *)
(* row that accept_block computed: the row follows from the parent's row,  *)
(* on which the block is valid.  The memory of every node is a part of K,  *)
(* the rows on disk are of blocks of K, and a reply that a sync works      *)
(* through is a chain of K that starts on top of the node's memory.        *)
(***************************************************************************)

\* RowOf, as a function of the parent's row.
RowAfter(parent, h) ==
    [utxos  |-> StatesOf(parent, Block[h].txs)[Len(Block[h].txs)],
     txids  |-> parent.txids \cup {Block[h].txs[i] : i \in DOMAIN Block[h].txs},
     work   |-> parent.work + BlockWork,
     height |-> Block[h].height]

\* What Acceptable asks of the row of the parent.
ValidOn(parent, h) ==
    LET txs == Block[h].txs
    IN  /\ \A i \in DOMAIN txs :
              /\ txs[i] \notin parent.txids
              /\ \A j \in 1..(i - 1) : txs[j] # txs[i]
              /\ Applicable(txs[i], StatesOf(parent, txs)[i - 1])
        /\ Value(StatesOf(parent, txs)[Len(txs)]) <= MaxSupply
        /\ Few(StatesOf(parent, txs)[Len(txs)])
        /\ Block[h].height = parent.height + 1
        /\ Block[h].sound

Rooted(k) ==
    /\ Genesis \in DOMAIN k /\ k[Genesis] = GenesisRow
    /\ \A h \in DOMAIN k \ {Genesis} :
          Block[h].prev \in DOMAIN k /\ k[h] = RowAfter(k[Block[h].prev], h)

Part(k, K) == DOMAIN k \subseteq DOMAIN K /\ \A h \in DOMAIN k : k[h] = K[h]

With(k, h) == [g \in DOMAIN k \cup {h} |->
                 IF g = h THEN RowAfter(k[Block[h].prev], h) ELSE k[g]]

\* All blocks accepted so far.
Accepted(K) ==
    /\ Rooted(K) /\ DOMAIN K \subseteq Hash
    /\ \A h \in DOMAIN K \ {Genesis} : ValidOn(K[Block[h].prev], h)
    /\ \A h \in DOMAIN K : K[h].height \in Nat

\* What is left of a reply, for memory k.
Chain(j, k, K) ==
    /\ j.queue \in Seq(DOMAIN K \ {Genesis})
    /\ \A i \in DOMAIN j.queue :
          IF i = 1 THEN Block[j.queue[1]].prev \in DOMAIN k
          ELSE Block[j.queue[i]].prev = j.queue[i - 1]
    /\ IF j.queue = <<>> THEN j.goal \in DOMAIN k ELSE j.goal = j.queue[Len(j.queue)]

Fetches(j, k, K) ==
    /\ j.at = "sync" => Chain(j, k, K)
    /\ j.at = "store" => /\ j.block \in DOMAIN k
                         /\ j.then.at = "sync" => Chain(j.then, k, K)

\* The rows of a table have their parents in it.
Closed(d) == \A h \in d \ {Genesis} : Block[h].prev \in d

Follows(n, k, d, j, K) ==
    /\ Rooted(k) /\ Part(k, K) /\ d \subseteq DOMAIN K
    /\ n \notin FlakyDisk => Closed(d)
    /\ Fetches(j, k, K)

History(K) ==
    /\ Accepted(K)
    /\ \A n \in Nodes : Follows(n, known[n], disk[n], job[n], K)

LEMMA AcceptableIs ==
    ASSUME NEW n \in Nodes, NEW h
    PROVE  Acceptable(n, h) <=> /\ h \in Hash \ {Genesis} /\ Block[h].prev \in DOMAIN known[n]
                                /\ ValidOn(known[n][Block[h].prev], h)
BY DEF Acceptable, HeaderOK, ValidOn

LEMMA RememberIs ==
    ASSUME IInv, NEW n \in Nodes, NEW h, Remember(n, h)
    PROVE  known' = [known EXCEPT ![n] = With(known[n], h)]
BY DEF Remember, With, RowOf, RowAfter, IInv

LEMMA GenesisIn == ASSUME NEW K, Accepted(K) PROVE Rooted(GenesisOnly) /\ Part(GenesisOnly, K)
BY DEF Accepted, Rooted, Part, GenesisOnly

\* The height of a block is in its row, and only genesis is at 0.
LEMMA Heights ==
    ASSUME NEW K, Accepted(K), NEW h \in DOMAIN K
    PROVE  /\ K[h].height \in Nat
           /\ h = Genesis => K[h].height = 0
           /\ h # Genesis => /\ Block[h].prev \in DOMAIN K /\ Block[h].height = K[h].height
                             /\ K[h].height = K[Block[h].prev].height + 1
                             /\ K[Block[h].prev].height \in Nat
<1>1. K[h].height \in Nat
  BY DEF Accepted
<1>2. h = Genesis => K[h].height = 0
  BY DEF Accepted, Rooted, GenesisRow
<1>3. ASSUME h # Genesis
      PROVE  /\ Block[h].prev \in DOMAIN K /\ Block[h].height = K[h].height
             /\ K[h].height = K[Block[h].prev].height + 1
             /\ K[Block[h].prev].height \in Nat
  <2>1. Block[h].prev \in DOMAIN K /\ K[h] = RowAfter(K[Block[h].prev], h)
    BY <1>3 DEF Accepted, Rooted
  <2>2. K[h].height = Block[h].height
    BY <2>1 DEF RowAfter
  <2>3. Block[h].height = K[Block[h].prev].height + 1
    BY <1>3 DEF Accepted, ValidOn
  <2> QED BY <2>1, <2>2, <2>3 DEF Accepted
<1> QED BY <1>1, <1>2, <1>3

\* A block that is valid on top of a node's memory, in the node and in K.
LEMMA Learn ==
    ASSUME NEW K, Accepted(K), NEW k, Rooted(k), Part(k, K),
           NEW h \in Hash, h # Genesis, h \notin DOMAIN k, Block[h].prev \in DOMAIN k,
           ValidOn(k[Block[h].prev], h)
    PROVE  \E L : /\ Accepted(L) /\ Part(K, L)
                  /\ Rooted(With(k, h)) /\ Part(With(k, h), L)
<1> DEFINE p == Block[h].prev
           m == With(k, h)
<1>1. /\ DOMAIN m = DOMAIN k \cup {h} /\ m[h] = RowAfter(k[p], h)
      /\ \A g \in DOMAIN k : m[g] = k[g]
  BY DEF With
<1>2. k[p] = K[p] /\ p \in DOMAIN K
  BY DEF Part
<1>3. Rooted(m)
  <2>1. Genesis \in DOMAIN m /\ m[Genesis] = GenesisRow
    BY <1>1 DEF Rooted
  <2>2. ASSUME NEW g \in DOMAIN m \ {Genesis}
        PROVE  Block[g].prev \in DOMAIN m /\ m[g] = RowAfter(m[Block[g].prev], g)
    <3>1. CASE g = h
      BY <1>1, <3>1
    <3>2. CASE g # h
      <4>1. Block[g].prev \in DOMAIN k /\ k[g] = RowAfter(k[Block[g].prev], g)
        BY <1>1, <3>2 DEF Rooted
      <4> QED BY <1>1, <3>2, <4>1
    <3> QED BY <3>1, <3>2
  <2> QED BY <2>1, <2>2 DEF Rooted
<1>4. CASE h \in DOMAIN K
  <2>1. K[h] = RowAfter(K[p], h)
    BY <1>4 DEF Accepted, Rooted
  <2>2. Part(m, K)
    BY <1>1, <1>2, <1>4, <2>1 DEF Part
  <2>3. Part(K, K)
    BY DEF Part
  <2> QED BY <1>3, <2>2, <2>3
<1>5. CASE h \notin DOMAIN K
  <2> DEFINE L == With(K, h)
  <2>1. /\ DOMAIN L = DOMAIN K \cup {h} /\ L[h] = RowAfter(K[p], h)
        /\ \A g \in DOMAIN K : L[g] = K[g]
    BY <1>5 DEF With
  <2> HIDE DEF L
  <2>2. Part(K, L)
    BY <2>1 DEF Part
  <2>3. Part(m, L)
    BY <1>1, <1>2, <2>1 DEF Part
  <2>4. Genesis \in DOMAIN K /\ L[Genesis] = GenesisRow /\ DOMAIN L \subseteq Hash
    BY <2>1 DEF Accepted, Rooted
  <2>5. ASSUME NEW g \in DOMAIN L \ {Genesis}
        PROVE  /\ Block[g].prev \in DOMAIN L /\ L[g] = RowAfter(L[Block[g].prev], g)
               /\ ValidOn(L[Block[g].prev], g)
    <3>1. CASE g = h
      BY <1>2, <2>1, <3>1
    <3>2. CASE g # h
      <4>1. g \in DOMAIN K \ {Genesis}
        BY <2>1, <3>2
      <4>2. /\ Block[g].prev \in DOMAIN K /\ K[g] = RowAfter(K[Block[g].prev], g)
            /\ ValidOn(K[Block[g].prev], g)
        BY <4>1 DEF Accepted, Rooted
      <4> QED BY <2>1, <4>1, <4>2
    <3> QED BY <3>1, <3>2
  <2>6. \A g \in DOMAIN L : L[g].height \in Nat
    <3>1. L[h].height = Block[h].height /\ Block[h].height = K[p].height + 1 /\ K[p].height \in Nat
      <4>1. L[h].height = Block[h].height
        BY <2>1 DEF RowAfter
      <4>2. Block[h].height = k[p].height + 1
        BY DEF ValidOn
      <4> QED BY <1>2, <4>1, <4>2 DEF Accepted
    <3>2. \A g \in DOMAIN K : L[g].height \in Nat
      BY <2>1 DEF Accepted
    <3> QED BY <2>1, <3>1, <3>2
  <2>7. Rooted(L)
    BY <2>1, <2>4, <2>5 DEF Rooted
  <2>8. Accepted(L)
    BY <2>4, <2>5, <2>6, <2>7 DEF Accepted
  <2> QED BY <1>3, <2>2, <2>3, <2>8
<1> QED BY <1>4, <1>5

\* What a node has learned stays known, and so does what is left of a reply.
LEMMA FollowsGrows ==
    ASSUME NEW K, NEW L, Part(K, L), NEW n, NEW k, NEW d, NEW j, Follows(n, k, d, j, K)
    PROVE  Follows(n, k, d, j, L)
<1>1. Part(k, L) /\ d \subseteq DOMAIN L
  BY DEF Follows, Part
<1>2. ASSUME NEW r, Chain(r, k, K) PROVE Chain(r, k, L)
  <2>1. r.queue \in Seq(DOMAIN L \ {Genesis})
    BY <1>2 DEF Chain, Part
  <2> QED BY <1>2, <2>1 DEF Chain
<1>3. Fetches(j, k, L)
  BY <1>2 DEF Follows, Fetches
<1> QED BY <1>1, <1>3 DEF Follows

LEMMA ChainGrows ==
    ASSUME NEW k, NEW m, Part(k, m), NEW K, NEW r, Chain(r, k, K)
    PROVE  Chain(r, m, K)
BY DEF Chain, Part

(***************************************************************************)
(* The walk of canonical_blocks.                                           *)
(***************************************************************************)
IsWalk(w, t, m) == w = [i \in 0..m |-> IF i = 0 THEN t ELSE Block[w[i - 1]].prev]

LEMMA WalkExists == \A m \in Nat : \A t : \E w : IsWalk(w, t, m)
<1> SUFFICES ASSUME NEW t PROVE \A m \in Nat : \E w : IsWalk(w, t, m)
  OBVIOUS
<1> DEFINE T == {m \in Nat : \E w : IsWalk(w, t, m)}
<1>1. 0 \in T
  <2> DEFINE w == [i \in 0..0 |-> t]
  <2>1. w = [i \in 0..0 |-> IF i = 0 THEN t ELSE Block[w[i - 1]].prev]
    OBVIOUS
  <2> HIDE DEF w
  <2> QED BY <2>1 DEF IsWalk
<1>2. ASSUME NEW m \in Nat, m \in T PROVE m + 1 \in T
  <2>1. PICK w : w = [i \in 0..m |-> IF i = 0 THEN t ELSE Block[w[i - 1]].prev]
    BY <1>2 DEF IsWalk
  <2> DEFINE x == [i \in 0..(m + 1) |-> IF i <= m THEN w[i] ELSE Block[w[m]].prev]
  <2>2. \A i \in 0..m : x[i] = w[i]
    OBVIOUS
  <2>3. x[m + 1] = Block[w[m]].prev
    OBVIOUS
  <2>4. \A i \in 0..m : w[i] = IF i = 0 THEN t ELSE Block[w[i - 1]].prev
    BY <2>1
  <2>5. ASSUME NEW i \in 0..(m + 1)
        PROVE  x[i] = IF i = 0 THEN t ELSE Block[x[i - 1]].prev
    <3>1. CASE i = m + 1
      <4>1. i # 0 /\ i - 1 = m /\ m \in 0..m
        BY <3>1
      <4> HIDE DEF x
      <4> QED BY <3>1, <4>1, <2>2, <2>3
    <3>2. CASE i # m + 1
      <4>1. i \in 0..m /\ (i # 0 => i - 1 \in 0..m)
        BY <3>2
      <4> HIDE DEF x
      <4> QED BY <4>1, <2>2, <2>4
    <3> QED BY <3>1, <3>2
  <2>6. DOMAIN x = 0..(m + 1) /\ x = [i \in DOMAIN x |-> x[i]]
    OBVIOUS
  <2> HIDE DEF x
  <2>7. x = [i \in 0..(m + 1) |-> IF i = 0 THEN t ELSE Block[x[i - 1]].prev]
    BY <2>5, <2>6
  <2> QED BY <2>7 DEF IsWalk
<1> HIDE DEF T
<1>3. \A m \in Nat : m \in T
  BY <1>1, <1>2, InductionOnNat
<1> QED BY <1>3 DEF T

LEMMA CanonicalIs ==
    ASSUME NEW n \in Nodes, known[n][tip[n]].height \in Nat
    PROVE  LET m == known[n][tip[n]].height
           IN  \E w : /\ \A i \in 0..m : w[i] = IF i = 0 THEN tip[n] ELSE Block[w[i - 1]].prev
                      /\ CanonicalBlocks(n) = [i \in 1..m |-> w[m - i]]
<1> DEFINE m == known[n][tip[n]].height
           walk == CHOOSE w : w = [i \in 0..m |-> IF i = 0 THEN tip[n] ELSE Block[w[i - 1]].prev]
<1>1. CanonicalBlocks(n) = [i \in 1..m |-> walk[m - i]]
  BY DEF CanonicalBlocks
<1>2. walk = CHOOSE w : IsWalk(w, tip[n], m)
  BY DEF IsWalk
<1> HIDE DEF walk
<1>3. IsWalk(walk, tip[n], m)
  <2>1. \E w : IsWalk(w, tip[n], m)
    BY WalkExists
  <2> HIDE DEF m
  <2> QED BY <1>2, <2>1
<1>4. \A i \in 0..m : walk[i] = IF i = 0 THEN tip[n] ELSE Block[walk[i - 1]].prev
  <2> HIDE DEF m
  <2>1. walk = [i \in 0..m |-> IF i = 0 THEN tip[n] ELSE Block[walk[i - 1]].prev]
    BY <1>3 DEF IsWalk
  <2> QED BY <2>1
<1> QED BY <1>1, <1>4

\* A chain that is handed out can be put on top of any memory.
LEMMA CanonicalIsChain ==
    ASSUME NEW K, Accepted(K), NEW n \in Nodes, Rooted(known[n]), Part(known[n], K),
           tip[n] \in DOMAIN known[n], NEW k, Rooted(k)
    PROVE  Chain(Syncing(CanonicalBlocks(n), tip[n]), k, K)
<1> DEFINE t == tip[n]
           m == known[n][tip[n]].height
           q == CanonicalBlocks(n)
<1>1. t \in DOMAIN K /\ K[t].height = m /\ m \in Nat
  BY DEF Part, Accepted
<1>2. PICK w : /\ \A i \in 0..m : w[i] = IF i = 0 THEN t ELSE Block[w[i - 1]].prev
               /\ q = [i \in 1..m |-> w[m - i]]
  BY <1>1, CanonicalIs
<1> HIDE DEF q, m, t
<1>3. \A i \in 0..m : w[i] \in DOMAIN K /\ K[w[i]].height = m - i
  <2> DEFINE T == {i \in Nat : i <= m => w[i] \in DOMAIN K /\ K[w[i]].height = m - i}
  <2>1. 0 \in T
    BY <1>1, <1>2
  <2>2. ASSUME NEW i \in Nat, i \in T PROVE i + 1 \in T
    <3> SUFFICES ASSUME i + 1 <= m PROVE w[i + 1] \in DOMAIN K /\ K[w[i + 1]].height = m - (i + 1)
      OBVIOUS
    <3>1. w[i] \in DOMAIN K /\ K[w[i]].height = m - i /\ m - i # 0
      BY <1>1, <2>2
    <3>2. w[i] # Genesis
      BY <3>1, Heights
    <3>3. i + 1 \in 0..m /\ i + 1 # 0 /\ (i + 1) - 1 = i
      BY <1>1
    <3>4. w[i + 1] = Block[w[i]].prev
      BY <1>2, <3>3
    <3>5. /\ w[i + 1] \in DOMAIN K /\ K[w[i]].height = K[w[i + 1]].height + 1
          /\ K[w[i + 1]].height \in Nat
      BY <3>1, <3>2, <3>4, Heights
    <3> QED BY <1>1, <3>1, <3>5
  <2> HIDE DEF T
  <2>3. \A i \in Nat : i \in T
    BY <2>1, <2>2, InductionOnNat
  <2> QED BY <2>3 DEF T
<1>4. \A i \in 1..m : q[i] \in DOMAIN K \ {Genesis}
  <2> SUFFICES ASSUME NEW i \in 1..m PROVE q[i] \in DOMAIN K \ {Genesis}
    OBVIOUS
  <2>1. m - i \in 0..m /\ m - (m - i) = i /\ i # 0
    BY <1>1
  <2>2. q[i] = w[m - i]
    BY <1>2
  <2>3. w[m - i] \in DOMAIN K /\ K[w[m - i]].height # 0
    BY <1>3, <2>1
  <2> QED BY <2>2, <2>3, Heights
<1>5. q \in Seq(DOMAIN K \ {Genesis}) /\ DOMAIN q = 1..m /\ Len(q) = m
  <2>1. q \in [1..m -> DOMAIN K \ {Genesis}]
    BY <1>2, <1>4
  <2> QED BY <1>1, <2>1
<1>6. ASSUME NEW i \in DOMAIN q
      PROVE  IF i = 1 THEN Block[q[1]].prev \in DOMAIN k ELSE Block[q[i]].prev = q[i - 1]
  <2>1. i \in 1..m /\ m - i \in 0..m /\ m - i + 1 \in 0..m /\ m - i + 1 # 0 /\ (m - i + 1) - 1 = m - i
    BY <1>1, <1>5
  <2>2. q[i] = w[m - i] /\ w[m - i + 1] = Block[w[m - i]].prev
    BY <1>2, <2>1
  <2>3. CASE i = 1
    <3>1. m - i + 1 = m /\ m - m = 0 /\ m \in 0..m
      BY <1>1, <2>3
    <3>2. w[m] \in DOMAIN K /\ K[w[m]].height = 0
      BY <1>3, <3>1
    <3>3. w[m] = Genesis
      <4>1. w[m] # Genesis => K[w[m]].height = K[Block[w[m]].prev].height + 1 /\ K[Block[w[m]].prev].height \in Nat
        BY <3>2, Heights
      <4> QED BY <3>2, <4>1
    <3>4. Block[q[1]].prev = Genesis
      BY <2>2, <2>3, <3>1, <3>3
    <3> QED BY <2>3, <3>4 DEF Rooted
  <2>4. CASE i # 1
    <3>1. i - 1 \in 1..m /\ m - (i - 1) = m - i + 1
      BY <1>1, <2>1, <2>4
    <3>2. q[i - 1] = w[m - (i - 1)]
      BY <1>2, <3>1
    <3> QED BY <2>2, <2>4, <3>1, <3>2
  <2> QED BY <2>3, <2>4
<1>7. IF q = <<>> THEN t \in DOMAIN k ELSE t = q[Len(q)]
  <2>1. CASE m = 0
    <3>1. t = Genesis
      <4>1. t # Genesis => K[t].height = K[Block[t].prev].height + 1 /\ K[Block[t].prev].height \in Nat
        BY <1>1, Heights
      <4> QED BY <1>1, <2>1, <4>1 DEF m
    <3>2. q = <<>>
      BY <1>5, <2>1
    <3> QED BY <3>1, <3>2 DEF Rooted
  <2>2. CASE m # 0
    <3>1. m \in 1..m /\ m - m = 0 /\ 0 \in 0..m
      BY <1>1, <2>2
    <3>2. q[m] = w[0] /\ w[0] = t
      BY <1>2, <3>1
    <3>3. q # <<>>
      BY <1>5, <2>2
    <3> QED BY <1>5, <3>2, <3>3
  <2> QED BY <2>1, <2>2
<1>8. Syncing(q, t).queue = q /\ Syncing(q, t).goal = t
  BY DEF Syncing
<1>9. Chain(Syncing(q, t), k, K)
  BY <1>5, <1>6, <1>7, <1>8 DEF Chain
<1> QED BY <1>9 DEF q, t

\* The first block of a reply can be accepted.
LEMMA HeadFits ==
    ASSUME NEW K, Accepted(K), NEW k, Part(k, K), NEW r, Chain(r, k, K), r.queue # <<>>,
           NEW h, h = Head(r.queue)
    PROVE  /\ h \in Hash \ {Genesis} /\ Block[h].prev \in DOMAIN k
           /\ ValidOn(k[Block[h].prev], h)
<1>1. h = r.queue[1] /\ 1 \in DOMAIN r.queue /\ h \in DOMAIN K \ {Genesis}
  BY DEF Chain
<1>2. Block[h].prev \in DOMAIN k
  BY <1>1 DEF Chain
<1>3. ValidOn(K[Block[h].prev], h) /\ h \in Hash
  BY <1>1 DEF Accepted
<1> QED BY <1>1, <1>2, <1>3 DEF Part

\* What is left after it fits on the memory that has it.
LEMMA RestFits ==
    ASSUME NEW K, NEW k, NEW m, Part(k, m), NEW r, Chain(r, k, K), r.queue # <<>>,
           Head(r.queue) \in DOMAIN m
    PROVE  Chain(Syncing(Tail(r.queue), r.goal), m, K)
<1> DEFINE q == r.queue
           u == Tail(q)
           s == Syncing(u, r.goal)
<1>1. /\ q \in Seq(DOMAIN K \ {Genesis}) /\ q # <<>>
      /\ \A i \in DOMAIN q : i # 1 => Block[q[i]].prev = q[i - 1]
      /\ r.goal = q[Len(q)] /\ q[1] \in DOMAIN m
  BY DEF Chain
<1>2. /\ u \in Seq(DOMAIN K \ {Genesis}) /\ Len(u) = Len(q) - 1 /\ Len(q) \in Nat
      /\ \A i \in 1..Len(u) : u[i] = q[i + 1]
      /\ DOMAIN u = 1..Len(u) /\ DOMAIN q = 1..Len(q)
  BY <1>1
<1>3. s.queue = u /\ s.goal = r.goal
  BY DEF Syncing
<1>4. ASSUME NEW i \in DOMAIN u
      PROVE  IF i = 1 THEN Block[u[1]].prev \in DOMAIN m ELSE Block[u[i]].prev = u[i - 1]
  <2>1. i + 1 \in DOMAIN q /\ i + 1 # 1 /\ (i + 1) - 1 = i /\ u[i] = q[i + 1]
    BY <1>2
  <2>2. Block[u[i]].prev = q[i]
    BY <1>1, <2>1
  <2>3. i # 1 => i - 1 \in 1..Len(u) /\ (i - 1) + 1 = i
    BY <1>2
  <2>4. i # 1 => u[i - 1] = q[i]
    BY <1>2, <2>3
  <2> QED BY <1>1, <2>2, <2>4
<1>5. IF u = <<>> THEN r.goal \in DOMAIN m ELSE r.goal = u[Len(u)]
  <2>1. CASE u = <<>>
    <3>1. Len(q) = 1
      <4>1. Len(u) = 0
        <5>1. Len(<<>>) = 0
          OBVIOUS
        <5> HIDE DEF u
        <5> QED BY <2>1, <5>1, Zenon
      <4> HIDE DEF u
      <4> QED BY <1>2, <4>1
    <3> QED BY <1>1, <2>1, <3>1
  <2>2. CASE u # <<>>
    <3>1. Len(u) \in 1..Len(u) /\ Len(u) + 1 = Len(q)
      BY <1>2, <2>2
    <3>2. u[Len(u)] = q[Len(q)]
      BY <1>2, <3>1
    <3> QED BY <1>1, <2>2, <3>2
  <2> QED BY <2>1, <2>2
<1> HIDE DEF u, q, s
<1>6. Chain(s, m, K)
  BY <1>2, <1>3, <1>4, <1>5 DEF Chain
<1> QED BY <1>6 DEF s, u, q

-----------------------------------------------------------------------------
(* Every step keeps the history, or adds a block to it. *)

Historic == \E K : History(K)

LEMMA HistoryUpdate ==
    ASSUME IInv, NEW n \in Nodes, NEW k, NEW d, NEW j,
           known' = [known EXCEPT ![n] = k], disk' = [disk EXCEPT ![n] = d],
           job' = [job EXCEPT ![n] = j],
           NEW K, History(K), NEW L, Accepted(L), Part(K, L), Follows(n, k, d, j, L)
    PROVE  Historic'
<1>1. /\ known' = [m \in Nodes |-> IF m = n THEN k ELSE known[m]]
      /\ disk' = [m \in Nodes |-> IF m = n THEN d ELSE disk[m]]
      /\ job' = [m \in Nodes |-> IF m = n THEN j ELSE job[m]]
  BY DEF IInv
<1>2. \A m \in Nodes : Follows(m, known[m], disk[m], job[m], L)
  BY FollowsGrows DEF History
<1>3. \A m \in Nodes : Follows(m, known'[m], disk'[m], job'[m], L)
  BY <1>1, <1>2
<1>4. History(L)'
  BY <1>3 DEF History
<1> QED BY <1>4 DEF Historic

\* What accepting a block adds.
LEMMA LearnedBlock ==
    ASSUME IInv, NEW K, History(K), NEW n \in Nodes,
           NEW h, h \notin DOMAIN known[n], Acceptable(n, h), Remember(n, h)
    PROVE  \E L, k : /\ Accepted(L) /\ Part(K, L) /\ Rooted(k) /\ Part(k, L)
                     /\ known' = [known EXCEPT ![n] = k]
                     /\ Part(known[n], k) /\ h \in DOMAIN k
<1> DEFINE k0 == known[n]
<1>1. /\ h \in Hash /\ h # Genesis /\ h \notin DOMAIN k0 /\ Block[h].prev \in DOMAIN k0
      /\ ValidOn(k0[Block[h].prev], h)
  BY AcceptableIs
<1>2. Accepted(K) /\ Rooted(k0) /\ Part(k0, K)
  BY DEF History, Follows
<1>3. known' = [known EXCEPT ![n] = With(k0, h)]
  BY RememberIs
<1>4. Part(k0, With(k0, h)) /\ h \in DOMAIN With(k0, h)
  BY DEF Part, With
<1> HIDE DEF k0
<1>5. \E L : /\ Accepted(L) /\ Part(K, L)
             /\ Rooted(With(k0, h)) /\ Part(With(k0, h), L)
  BY <1>1, <1>2, Learn
<1> QED BY <1>3, <1>4, <1>5 DEF k0

LEMMA PartTransitive ==
    ASSUME NEW k, NEW K, NEW L, Part(k, K), Part(K, L) PROVE Part(k, L)
BY DEF Part

LEMMA HistoryStep ==
    ASSUME IInv, IInv', NEW K, History(K), NEW n \in Nodes, Step(n)
    PROVE  Historic'
<1> DEFINE k0 == known[n]
           d0 == disk[n]
           j0 == job[n]
<1>0. Accepted(K) /\ Follows(n, k0, d0, j0, K) /\ Part(K, K)
  BY DEF History, Part
<1>1. /\ Rooted(k0) /\ Part(k0, K) /\ d0 \subseteq DOMAIN K
      /\ n \notin FlakyDisk => Closed(d0) /\ Agrees(k0, d0, j0)
      /\ Fetches(j0, k0, K) /\ Place(k0, j0)
  BY <1>0 DEF Follows, IInv, Good
<1>2. CASE \E h \in Hash : AcceptBlock(n, h)
  <2>1. PICK h \in Hash : AcceptBlock(n, h)
    BY <1>2
  <2>2. /\ Acceptable(n, h) /\ h \notin DOMAIN k0 /\ Remember(n, h)
        /\ Goto(n, Storing(h, Idle)) /\ disk' = disk
    BY <2>1 DEF AcceptBlock
  <2>3. PICK L, k : /\ Accepted(L) /\ Part(K, L) /\ Rooted(k) /\ Part(k, L)
                    /\ known' = [known EXCEPT ![n] = k]
                    /\ Part(known[n], k) /\ h \in DOMAIN k
    BY <2>2, LearnedBlock
  <2>4. Fetches(Storing(h, Idle), k, L)
    BY <2>3 DEF Fetches, Storing, Idle
  <2>5. Follows(n, k, d0, Storing(h, Idle), L)
    BY <1>1, <2>3, <2>4 DEF Follows, Part
  <2> QED BY <2>2, <2>3, <2>5, Same, HistoryUpdate DEF Goto
<1>3. CASE StoreBlock(n)
  <2> DEFINE d == d0 \cup {j0.block}
             j == j0.then
  <2>1. /\ j0.at = "store" /\ disk' = [disk EXCEPT ![n] = d]
        /\ Goto(n, j) /\ known' = known
    BY <1>3 DEF StoreBlock, At, IInv
  <2>2. d \subseteq DOMAIN K
    BY <1>1, <2>1 DEF Fetches, Part
  <2>3. n \notin FlakyDisk => Closed(d)
    BY <1>1, <2>1 DEF Agrees, Closed, Rooted
  <2>4. Fetches(j, k0, K)
    BY <1>1, <2>1 DEF Fetches, Place
  <2> HIDE DEF d, j
  <2>5. Follows(n, k0, d, j, K)
    BY <1>1, <2>2, <2>3, <2>4 DEF Follows
  <2> QED BY <1>0, <2>1, <2>5, Same, HistoryUpdate DEF Goto
<1>4. CASE StoreFails(n)
  <2>1. Goto(n, Idle) /\ known' = known /\ disk' = disk
    BY <1>4 DEF StoreFails
  <2>2. Follows(n, k0, d0, Idle, K)
    BY <1>1 DEF Follows, Fetches, Idle
  <2> QED BY <1>0, <2>1, <2>2, Same, HistoryUpdate DEF Goto
<1>5. CASE \E peer \in Nodes : SyncFrom(n, peer)
  <2>1. PICK peer \in Nodes : SyncFrom(n, peer)
    BY <1>5
  <2> DEFINE j == Syncing(CanonicalBlocks(peer), tip[peer])
  <2>2. Goto(n, j) /\ known' = known /\ disk' = disk
    BY <2>1 DEF SyncFrom
  <2>3. /\ Rooted(known[peer]) /\ Part(known[peer], K)
        /\ tip[peer] \in DOMAIN known[peer]
    BY DEF History, Follows, IInv, Good, Memory
  <2>4. Chain(j, k0, K) /\ j.at = "sync"
    <3>1. Chain(j, k0, K)
      BY <1>0, <1>1, <2>3, CanonicalIsChain
    <3> QED BY <3>1 DEF Syncing
  <2> HIDE DEF j
  <2>5. Follows(n, k0, d0, j, K)
    BY <1>1, <2>4 DEF Follows, Fetches
  <2> QED BY <1>0, <2>2, <2>5, Same, HistoryUpdate DEF Goto
<1>6. CASE SyncNext(n)
  <2> DEFINE h == Head(j0.queue)
             rest == Syncing(Tail(j0.queue), j0.goal)
  <2>1. j0.at = "sync" /\ disk' = disk /\ Chain(j0, k0, K)
    BY <1>1, <1>6 DEF SyncNext, At, Fetches
  <2>2. CASE Goto(n, Idle) /\ UNCHANGED <<known, tip>>
    <3>1. Follows(n, k0, d0, Idle, K)
      BY <1>1 DEF Follows, Fetches, Idle
    <3> QED BY <1>0, <2>1, <2>2, <3>1, Same, HistoryUpdate DEF Goto
  <2>3. CASE /\ j0.queue # <<>> /\ h \in DOMAIN k0
             /\ Goto(n, rest) /\ UNCHANGED <<known, tip>>
    <3>1. Part(k0, k0)
      BY DEF Part
    <3>2. Chain(rest, k0, K)
      BY <2>1, <2>3, <3>1, RestFits
    <3>3. rest.at = "sync"
      BY DEF Syncing
    <3> HIDE DEF rest
    <3>4. Follows(n, k0, d0, rest, K)
      BY <1>1, <3>2, <3>3 DEF Follows, Fetches
    <3> QED BY <1>0, <2>1, <2>3, <3>4, Same, HistoryUpdate DEF Goto
  <2>4. CASE /\ j0.queue # <<>> /\ Acceptable(n, h) /\ h \notin DOMAIN k0
             /\ Remember(n, h) /\ Goto(n, Storing(h, rest))
    <3>1. PICK L, k : /\ Accepted(L) /\ Part(K, L) /\ Rooted(k) /\ Part(k, L)
                      /\ known' = [known EXCEPT ![n] = k]
                      /\ Part(known[n], k) /\ h \in DOMAIN k
      BY <2>4, LearnedBlock
    <3>2. Follows(n, k0, d0, j0, L)
      BY <1>0, <3>1, FollowsGrows
    <3>3. Chain(j0, k0, L)
      BY <2>1, <3>2 DEF Follows, Fetches
    <3>4. Chain(rest, k, L)
      BY <2>4, <3>1, <3>3, RestFits
    <3> HIDE DEF rest
    <3>5. Fetches(Storing(h, rest), k, L)
      BY <3>1, <3>4 DEF Fetches, Storing
    <3>6. Follows(n, k, d0, Storing(h, rest), L)
      BY <3>1, <3>2, <3>5 DEF Follows
    <3> QED BY <2>1, <2>4, <3>1, <3>6, Same, HistoryUpdate DEF Goto
  <2> QED BY <1>6, <2>2, <2>3, <2>4 DEF SyncNext
<1>7. CASE Crash(n)
  <2>1. /\ known' = [known EXCEPT ![n] = GenesisOnly]
        /\ Goto(n, Down) /\ disk' = disk
    BY <1>7 DEF Crash
  <2>2. Follows(n, GenesisOnly, d0, Down, K)
    BY <1>0, <1>1, GenesisIn DEF Follows, Fetches, Down
  <2> QED BY <1>0, <2>1, <2>2, Same, HistoryUpdate DEF Goto
<1>8. CASE Start(n)
  <2> DEFINE d == d0 \cup {Genesis}
             j == Replaying(d0 \ {Genesis})
  <2>1. disk' = [disk EXCEPT ![n] = d] /\ Goto(n, j) /\ known' = known
    BY <1>8 DEF Start, IInv
  <2>2. d \subseteq DOMAIN K /\ (n \notin FlakyDisk => Closed(d))
    BY <1>0, <1>1 DEF Accepted, Rooted, Closed
  <2>3. Fetches(j, k0, K)
    BY DEF Fetches, Replaying
  <2> HIDE DEF d, j
  <2>4. Follows(n, k0, d, j, K)
    BY <1>1, <2>2, <2>3 DEF Follows
  <2> QED BY <1>0, <2>1, <2>4, Same, HistoryUpdate DEF Goto
<1>9. CASE Replay(n)
  <2>1. j0.at = "replay" /\ disk' = disk
    BY <1>9 DEF Replay, At
  <2>2. CASE j0.todo = {} /\ Goto(n, Idle) /\ UNCHANGED <<known, tip>>
    <3>1. Follows(n, k0, d0, Idle, K)
      BY <1>1 DEF Follows, Fetches, Idle
    <3> QED BY <1>0, <2>1, <2>2, <3>1, Same, HistoryUpdate DEF Goto
  <2>3. CASE \E h \in Lowest(j0.todo) : /\ Acceptable(n, h) /\ Remember(n, h)
                                        /\ Goto(n, Replaying(j0.todo \ {h}))
    <3>1. PICK h \in j0.todo : /\ Acceptable(n, h) /\ Remember(n, h)
                               /\ Goto(n, Replaying(j0.todo \ {h}))
      BY <2>3 DEF Lowest
    <3>2. h \notin DOMAIN k0
      BY <1>1, <2>1, <3>1 DEF Place
    <3>3. PICK L, k : /\ Accepted(L) /\ Part(K, L) /\ Rooted(k) /\ Part(k, L)
                      /\ known' = [known EXCEPT ![n] = k]
                      /\ Part(known[n], k) /\ h \in DOMAIN k
      BY <3>1, <3>2, LearnedBlock
    <3>4. Fetches(Replaying(j0.todo \ {h}), k, L)
      BY DEF Fetches, Replaying
    <3>5. Follows(n, k, d0, Replaying(j0.todo \ {h}), L)
      BY <1>1, <3>3, <3>4 DEF Follows, Part
    <3> QED BY <2>1, <3>1, <3>3, <3>5, Same, HistoryUpdate DEF Goto
  <2>4. CASE /\ known' = [known EXCEPT ![n] = GenesisOnly] /\ Goto(n, Down)
    <3>1. Follows(n, GenesisOnly, d0, Down, K)
      BY <1>0, <1>1, GenesisIn DEF Follows, Fetches, Down
    <3> QED BY <1>0, <2>1, <2>4, <3>1, Same, HistoryUpdate DEF Goto
  <2> QED BY <1>9, <2>2, <2>3, <2>4 DEF Replay
<1> QED BY <1>2, <1>3, <1>4, <1>5, <1>6, <1>7, <1>8, <1>9 DEF Step

LEMMA HistoryInit == Init => Historic
<1> SUFFICES ASSUME Init PROVE Historic
  OBVIOUS
<1>1. /\ DOMAIN GenesisOnly = {Genesis} /\ GenesisOnly[Genesis] = GenesisRow
      /\ GenesisRow.height = 0
  BY DEF GenesisOnly, GenesisRow
<1>2. Accepted(GenesisOnly) /\ Part(GenesisOnly, GenesisOnly)
  BY <1>1, V2NodeAssumption DEF Accepted, Rooted, Part
<1>3. Fetches(Down, GenesisOnly, GenesisOnly)
  BY DEF Fetches, Down
<1>4. \A n \in Nodes : Follows(n, GenesisOnly, {}, Down, GenesisOnly)
  BY <1>1, <1>2, <1>3 DEF Follows, Accepted, Closed
<1>5. \A n \in Nodes : known[n] = GenesisOnly /\ disk[n] = {} /\ job[n] = Down
  BY DEF Init
<1>6. History(GenesisOnly)
  BY <1>2, <1>4, <1>5 DEF History
<1> QED BY <1>6 DEF Historic

\* There is one record of all accepted blocks of which every node, its table and the
\* replies it works through are a part.
THEOREM OneHistory == Spec => []Historic
<1>1. IInv /\ IInv' /\ Historic /\ [Next]_vars => Historic'
  <2> SUFFICES ASSUME IInv, IInv', Historic, [Next]_vars PROVE Historic'
    OBVIOUS
  <2>1. PICK K : History(K)
    BY DEF Historic
  <2>2. CASE \E n \in Nodes : Step(n)
    BY <2>1, <2>2, HistoryStep
  <2>3. CASE UNCHANGED vars
    BY <2>1, <2>3 DEF History, Historic, vars
  <2> QED BY <2>2, <2>3 DEF Next
<1> QED BY <1>1, HistoryInit, Invariant, PTL DEF Spec

\* Nodes that have a block have the same state after it, in every network: rows follow
\* from the block and its ancestors, never from the node's tip or its past.
THEOREM SameStates == Spec => []StatesAgree
<1>1. Historic => StatesAgree
  <2> SUFFICES ASSUME NEW K, History(K) PROVE StatesAgree
    BY DEF Historic
  <2>1. \A n \in Nodes : Part(known[n], K)
    BY DEF History, Follows
  <2> QED BY <2>1 DEF Part, StatesAgree
<1> QED BY <1>1, OneHistory, PTL

\* A node whose writes succeed can always start again: whatever the crashes and the
\* syncs before, the table holds the parent of each row, and the parent is lower.
THEOREM Restartable == Spec => []RestartSucceeds
<1>1. IInv /\ Historic => RestartSucceeds
  <2> SUFFICES ASSUME IInv, NEW K, History(K), NEW n \in Nodes \ FlakyDisk, At(n, "replay"),
                      NEW h \in Lowest(job[n].todo)
               PROVE  Acceptable(n, h)
    BY DEF Historic, RestartSucceeds
  <2> DEFINE k == known[n]
             p == Block[h].prev
  <2>1. /\ Accepted(K) /\ Rooted(k) /\ Part(k, K) /\ Closed(disk[n]) /\ disk[n] \subseteq DOMAIN K
        /\ DOMAIN k \cup job[n].todo = disk[n] /\ job[n].todo \cap DOMAIN k = {}
    BY DEF History, Follows, IInv, Good, Agrees, Place, At
  <2>2. h \in job[n].todo /\ \A g \in job[n].todo : Block[h].height <= Block[g].height
    BY DEF Lowest
  <2>3. /\ h \in DOMAIN K /\ h # Genesis /\ p \in disk[n] /\ p \in DOMAIN K
        /\ Genesis \in DOMAIN k
    BY <2>1, <2>2 DEF Rooted, Closed
  <2>4. p \in DOMAIN k
    <3> SUFFICES ASSUME p \in job[n].todo PROVE FALSE
      BY <2>1, <2>3
    <3>1. p # Genesis
      BY <2>1, <2>3
    <3>2. Block[h].height = K[h].height /\ K[h].height = K[p].height + 1 /\ K[p].height \in Nat
      BY <2>1, <2>3, Heights
    <3>3. Block[p].height = K[p].height
      BY <2>1, <2>3, <3>1, Heights
    <3>4. Block[h].height <= Block[p].height
      BY <2>2
    <3> QED BY <3>2, <3>3, <3>4
  <2>5. h \in Hash /\ ValidOn(k[p], h)
    BY <2>1, <2>3, <2>4 DEF Accepted, Part
  <2> QED BY <2>3, <2>4, <2>5, AcceptableIs
<1> QED BY <1>1, Invariant, OneHistory, PTL

\* No block that another node serves is refused, though both nodes go on changing
\* between the reply and its use, and a finished sync leaves the node with a tip that
\* is no worse than the one it fetched.
THEOREM Catches == Spec => []SyncCatchesUp
<1>1. IInv /\ Historic => SyncCatchesUp
  <2> SUFFICES ASSUME IInv, NEW K, History(K), NEW n \in Nodes, At(n, "sync")
               PROVE  IF job[n].queue # <<>> THEN Acceptable(n, Head(job[n].queue))
                      ELSE /\ job[n].goal \in DOMAIN known[n]
                           /\ ~WinsOverTip(known[n], job[n].goal, tip[n])
    BY DEF Historic, SyncCatchesUp
  <2>1. Accepted(K) /\ Part(known[n], K) /\ Chain(job[n], known[n], K) /\ Memory(known[n], tip[n])
    BY DEF History, Follows, Fetches, At, IInv, Good
  <2>2. CASE job[n].queue # <<>>
    <3> DEFINE h == Head(job[n].queue)
    <3>1. /\ h \in Hash \ {Genesis} /\ Block[h].prev \in DOMAIN known[n]
          /\ ValidOn(known[n][Block[h].prev], h)
      BY <2>1, <2>2, HeadFits
    <3> HIDE DEF h
    <3>2. Acceptable(n, h)
      BY <3>1, AcceptableIs
    <3> QED BY <2>2, <3>2 DEF h
  <2>3. CASE job[n].queue = <<>>
    <3> DEFINE g == job[n].goal
    <3>1. g \in DOMAIN known[n]
      BY <2>1, <2>3 DEF Chain
    <3>2. /\ known[n][g].work \in Nat /\ known[n][tip[n]].work \in Nat
          /\ known[n][g].work <= known[n][tip[n]].work
          /\ known[n][g].work = known[n][tip[n]].work => g >= tip[n]
          /\ g \in Nat /\ tip[n] \in Nat
      BY <2>1, <3>1, V2NodeAssumption DEF Memory
    <3>3. ~WinsOverTip(known[n], g, tip[n])
      BY <3>2 DEF WinsOverTip
    <3> QED BY <2>3, <3>1, <3>3
  <2> QED BY <2>2, <2>3
<1> QED BY <1>1, Invariant, OneHistory, PTL

(***************************************************************************)
(* Fees are burned: by induction along the transactions of a block, and    *)
(* along the heights of the blocks ever accepted.                          *)
(***************************************************************************)
\* Finite coins and transactions that account for the supply.
Accounted(utxos, txids) ==
    /\ IsFiniteSet(utxos) /\ utxos \subseteq DOMAIN Coin
    /\ IsFiniteSet(txids) /\ txids \subseteq DOMAIN Transfer
    /\ SumFunctionOnSet(Amounts, utxos) + SumFunctionOnSet(Fees, txids) = MaxSupply

LEMMA ValueIs == \A ops : Value(ops) = SumFunctionOnSet(Amounts, ops)
BY DEF Value

LEMMA AmountsAreNat ==
    /\ \A op \in DOMAIN Coin : Amounts[op] \in Nat
    /\ \A t \in DOMAIN Transfer : Fees[t] \in Nat
BY TransferAssumption DEF Amounts, Fees

LEMMA CreatedIsFinite ==
    ASSUME NEW t \in DOMAIN Transfer
    PROVE  IsFiniteSet(Created(t)) /\ Created(t) \subseteq DOMAIN Coin
<1> DEFINE D == DOMAIN Transfer[t].outs
           f == [i \in D |-> <<t, i>>]
<1>1. IsFiniteSet(D) /\ Created(t) \subseteq DOMAIN Coin
  BY TransferAssumption
<1>2. f \in Surjection(D, {f[i] : i \in D})
  BY DEF Surjection
<1>3. Created(t) = {f[i] : i \in D}
  BY DEF Created
<1> HIDE DEF f, D
<1>4. IsFiniteSet({f[i] : i \in D})
  BY <1>1, <1>2, FS_Surjection
<1> QED BY <1>1, <1>3, <1>4

\* One transfer: its fee is what the coins lose.
LEMMA OneTransfer ==
    ASSUME NEW utxos, NEW txids, Accounted(utxos, txids),
           NEW t \in DOMAIN Transfer, t \notin txids, Applicable(t, utxos)
    PROVE  Accounted(Apply(t, utxos), txids \cup {t})
<1> DEFINE spent == Spent(t)
           kept == utxos \ spent
           made == Created(t)
           V(S) == SumFunctionOnSet(Amounts, S)
           F(S) == SumFunctionOnSet(Fees, S)
<1>1. spent \subseteq utxos /\ made \cap kept = {}
  BY DEF Applicable, Spent
<1>2. V(spent) = V(made) + Fees[t]
  <2>1. Value(spent) = Value(made) + Transfer[t].fee
    BY DEF Applicable, Balanced
  <2>2. Fees[t] = Transfer[t].fee
    BY DEF Fees
  <2> HIDE DEF spent, made
  <2> QED BY <2>1, <2>2, ValueIs
<1>3. IsFiniteSet(made) /\ made \subseteq DOMAIN Coin
  BY CreatedIsFinite
<1>4. /\ IsFiniteSet(spent) /\ IsFiniteSet(kept)
      /\ spent \cup kept = utxos /\ spent \cap kept = {} /\ kept \subseteq DOMAIN Coin
      /\ utxos \subseteq DOMAIN Coin /\ IsFiniteSet(txids) /\ txids \subseteq DOMAIN Transfer
      /\ V(utxos) + F(txids) = MaxSupply
  BY <1>1, FS_Subset DEF Accounted
<1>5. Apply(t, utxos) = kept \cup made
  BY DEF Apply
<1> HIDE DEF spent, kept, made
<1>6. V(spent \cup kept) = V(spent) + V(kept)
  <2>1. \A x \in spent \cup kept : Amounts[x] \in Int
    BY <1>4, AmountsAreNat
  <2> QED BY <1>4, <2>1, SumUnion
<1>7. V(kept \cup made) = V(kept) + V(made)
  <2>1. \A x \in kept \cup made : Amounts[x] \in Int
    BY <1>3, <1>4, AmountsAreNat
  <2>2. kept \cap made = {}
    BY <1>1
  <2> QED BY <1>3, <1>4, <2>1, <2>2, SumUnion
<1>8. F(txids \cup {t}) = F(txids) + Fees[t]
  <2>1. \A x \in txids \cup {t} : Fees[x] \in Int
    BY <1>4, AmountsAreNat
  <2> QED BY <1>4, <2>1, SumAdd
<1>9. V(spent \cup kept) = V(utxos)
  BY <1>4, Zenon
<1>10. V(kept) \in Int /\ V(made) \in Int /\ F(txids) \in Int /\ Fees[t] \in Int
  <2>1. \A x \in kept : Amounts[x] \in Int
    BY <1>4, AmountsAreNat
  <2>2. \A x \in made : Amounts[x] \in Int
    BY <1>3, AmountsAreNat
  <2>3. \A x \in txids : Fees[x] \in Int
    BY <1>4, AmountsAreNat
  <2> QED BY <1>3, <1>4, <2>1, <2>2, <2>3, SumType, AmountsAreNat
<1>11. V(kept \cup made) + F(txids \cup {t}) = MaxSupply
  <2> HIDE DEF V, F
  <2> QED BY <1>2, <1>4, <1>6, <1>7, <1>8, <1>9, <1>10
<1>12. IsFiniteSet(kept \cup made) /\ IsFiniteSet(txids \cup {t})
  BY <1>3, <1>4, FS_Union, FS_AddElement
<1>13. Accounted(kept \cup made, txids \cup {t})
  BY <1>3, <1>4, <1>11, <1>12 DEF Accounted
<1> QED BY <1>5, <1>13, Zenon

\* The recursion of StatesOf has a solution.
IsRun(a, x, txs, m) ==
    a = [i \in 0..m |-> IF i = 0 THEN x ELSE Apply(txs[i], a[i - 1])]

LEMMA RunExists == \A m \in Nat : \A x, txs : \E a : IsRun(a, x, txs, m)
<1> SUFFICES ASSUME NEW x, NEW txs PROVE \A m \in Nat : \E a : IsRun(a, x, txs, m)
  OBVIOUS
<1> DEFINE T == {m \in Nat : \E a : IsRun(a, x, txs, m)}
<1>1. 0 \in T
  <2> DEFINE a == [i \in 0..0 |-> x]
  <2>1. a = [i \in 0..0 |-> IF i = 0 THEN x ELSE Apply(txs[i], a[i - 1])]
    OBVIOUS
  <2> HIDE DEF a
  <2> QED BY <2>1 DEF IsRun
<1>2. ASSUME NEW m \in Nat, m \in T PROVE m + 1 \in T
  <2>1. PICK w : w = [i \in 0..m |-> IF i = 0 THEN x ELSE Apply(txs[i], w[i - 1])]
    BY <1>2 DEF IsRun
  <2> DEFINE a == [i \in 0..(m + 1) |-> IF i <= m THEN w[i] ELSE Apply(txs[m + 1], w[m])]
  <2>2. \A i \in 0..m : a[i] = w[i]
    OBVIOUS
  <2>3. a[m + 1] = Apply(txs[m + 1], w[m])
    OBVIOUS
  <2>4. \A i \in 0..m : w[i] = IF i = 0 THEN x ELSE Apply(txs[i], w[i - 1])
    BY <2>1
  <2>5. ASSUME NEW i \in 0..(m + 1)
        PROVE  a[i] = IF i = 0 THEN x ELSE Apply(txs[i], a[i - 1])
    <3>1. CASE i = m + 1
      <4>1. i # 0 /\ i - 1 = m /\ m \in 0..m
        BY <3>1
      <4> HIDE DEF a
      <4> QED BY <3>1, <4>1, <2>2, <2>3
    <3>2. CASE i # m + 1
      <4>1. i \in 0..m /\ (i # 0 => i - 1 \in 0..m)
        BY <3>2
      <4> HIDE DEF a
      <4> QED BY <4>1, <2>2, <2>4
    <3> QED BY <3>1, <3>2
  <2>6. DOMAIN a = 0..(m + 1) /\ a = [i \in DOMAIN a |-> a[i]]
    OBVIOUS
  <2> HIDE DEF a
  <2>7. a = [i \in 0..(m + 1) |-> IF i = 0 THEN x ELSE Apply(txs[i], a[i - 1])]
    BY <2>5, <2>6
  <2> QED BY <2>7 DEF IsRun
<1> HIDE DEF T
<1>3. \A m \in Nat : m \in T
  BY <1>1, <1>2, InductionOnNat
<1> QED BY <1>3 DEF T

LEMMA StatesOfIs ==
    ASSUME NEW row, NEW txs, Len(txs) \in Nat
    PROVE  \A i \in 0..Len(txs) :
              StatesOf(row, txs)[i] = IF i = 0 THEN row.utxos
                                      ELSE Apply(txs[i], StatesOf(row, txs)[i - 1])
<1> DEFINE m == Len(txs)
           after == CHOOSE a : a = [i \in 0..m |-> IF i = 0 THEN row.utxos ELSE Apply(txs[i], a[i - 1])]
<1>1. StatesOf(row, txs) = after
  BY DEF StatesOf
<1>2. after = CHOOSE a : IsRun(a, row.utxos, txs, m)
  BY DEF IsRun
<1> HIDE DEF after
<1>3. IsRun(after, row.utxos, txs, m)
  <2>1. \E a : IsRun(a, row.utxos, txs, m)
    BY RunExists
  <2> HIDE DEF m
  <2> QED BY <1>2, <2>1
<1>4. \A i \in 0..m : after[i] = IF i = 0 THEN row.utxos ELSE Apply(txs[i], after[i - 1])
  <2> HIDE DEF m
  <2>1. after = [i \in 0..m |-> IF i = 0 THEN row.utxos ELSE Apply(txs[i], after[i - 1])]
    BY <1>3 DEF IsRun
  <2> QED BY <2>1
<1> QED BY <1>1, <1>4, Zenon

\* One block.
LEMMA OneBlock ==
    ASSUME NEW row, NEW h \in Hash, Accounted(row.utxos, row.txids), ValidOn(row, h)
    PROVE  Accounted(RowAfter(row, h).utxos, RowAfter(row, h).txids)
<1> DEFINE txs == Block[h].txs
           after == StatesOf(row, txs)
           ids(i) == row.txids \cup {txs[j] : j \in 1..i}
           T == {i \in Nat : i <= Len(txs) => Accounted(after[i], ids(i))}
<1>1. txs \in Seq(DOMAIN Transfer) /\ Len(txs) \in Nat /\ DOMAIN txs = 1..Len(txs)
  BY TransferAssumption
<1>2. \A i \in 0..Len(txs) : after[i] = IF i = 0 THEN row.utxos ELSE Apply(txs[i], after[i - 1])
  <2> HIDE DEF txs
  <2> QED BY <1>1, StatesOfIs
<1>3. \A i \in 1..Len(txs) : /\ txs[i] \notin row.txids
                             /\ \A j \in 1..(i - 1) : txs[j] # txs[i]
                             /\ Applicable(txs[i], after[i - 1])
  BY <1>1 DEF ValidOn
<1> HIDE DEF after, txs
<1>4. 0 \in T
  <2>1. ids(0) = row.txids /\ after[0] = row.utxos
    BY <1>1, <1>2
  <2> HIDE DEF ids
  <2>2. Accounted(after[0], ids(0))
    BY <2>1, Zenon
  <2> QED BY <2>2
<1>5. ASSUME NEW i \in Nat, i \in T PROVE i + 1 \in T
  <2> SUFFICES ASSUME i + 1 <= Len(txs) PROVE Accounted(after[i + 1], ids(i + 1))
    OBVIOUS
  <2> DEFINE t == txs[i + 1]
  <2>1. Accounted(after[i], ids(i))
    BY <1>1, <1>5
  <2>2. i + 1 \in 1..Len(txs) /\ i + 1 \in 0..Len(txs) /\ i + 1 # 0 /\ (i + 1) - 1 = i
    BY <1>1
  <2>3. after[i + 1] = Apply(t, after[i])
    BY <1>2, <2>2
  <2>4. t \in DOMAIN Transfer
    BY <1>1, <2>2
  <2>5. t \notin ids(i)
    BY <1>3, <2>2
  <2>6. Applicable(t, after[i])
    BY <1>3, <2>2
  <2>7. ids(i + 1) = ids(i) \cup {t}
    <3>1. 1..(i + 1) = 1..i \cup {i + 1}
      OBVIOUS
    <3> QED BY <3>1
  <2> HIDE DEF ids, t
  <2>8. Accounted(Apply(t, after[i]), ids(i) \cup {t})
    BY <2>1, <2>4, <2>5, <2>6, OneTransfer
  <2> QED BY <2>3, <2>7, <2>8, Zenon
<1>6. \A i \in Nat : i \in T
  <2> HIDE DEF T
  <2> QED BY <1>4, <1>5, InductionOnNat
<1>7. Accounted(after[Len(txs)], ids(Len(txs)))
  <2>1. \A i \in Nat : i <= Len(txs) => Accounted(after[i], ids(i))
    <3> HIDE DEF ids
    <3> QED BY <1>6
  <2>2. Len(txs) \in Nat /\ Len(txs) <= Len(txs)
    BY <1>1
  <2> HIDE DEF ids
  <2> QED BY <2>1, <2>2
<1>8. RowAfter(row, h).utxos = after[Len(txs)] /\ RowAfter(row, h).txids = ids(Len(txs))
  BY <1>1 DEF RowAfter, after, txs
<1> QED BY <1>7, <1>8, Zenon

\* All blocks.
LEMMA AllAccounted ==
    ASSUME NEW K, Accepted(K)
    PROVE  \A h \in DOMAIN K : Accounted(K[h].utxos, K[h].txids)
<1> DEFINE T == {m \in Nat : \A h \in DOMAIN K :
                               K[h].height = m => Accounted(K[h].utxos, K[h].txids)}
<1>1. Accounted(GenesisRow.utxos, GenesisRow.txids)
  <2>1. SumFunctionOnSet(Amounts, Allocations) = MaxSupply
    BY TransferAssumption, ValueIs
  <2>2. \A op \in Allocations : Amounts[op] \in Nat
    BY TransferAssumption, AmountsAreNat
  <2>3. SumFunctionOnSet(Amounts, Allocations) \in Nat
    BY <2>2, TransferAssumption, SumNat
  <2>4. GenesisRow.utxos = Allocations /\ GenesisRow.txids = {}
    BY DEF GenesisRow
  <2>5. SumFunctionOnSet(Fees, {}) = 0 /\ IsFiniteSet({})
    BY SumOfNone, FS_EmptySet
  <2>6. Accounted(Allocations, {})
    BY <2>1, <2>3, <2>5, TransferAssumption DEF Accounted
  <2> QED BY <2>4, <2>6, Zenon
<1>2. K[Genesis] = GenesisRow
  BY DEF Accepted, Rooted
<1>3. ASSUME NEW h \in DOMAIN K, h # Genesis,
             Accounted(K[Block[h].prev].utxos, K[Block[h].prev].txids)
      PROVE  Accounted(K[h].utxos, K[h].txids)
  <2>1. /\ h \in Hash /\ ValidOn(K[Block[h].prev], h)
        /\ K[h] = RowAfter(K[Block[h].prev], h)
    BY <1>3 DEF Accepted, Rooted
  <2>2. Accounted(RowAfter(K[Block[h].prev], h).utxos, RowAfter(K[Block[h].prev], h).txids)
    BY <1>3, <2>1, OneBlock
  <2> QED BY <2>1, <2>2, Zenon
<1>4. 0 \in T
  <2> SUFFICES ASSUME NEW h \in DOMAIN K, K[h].height = 0
               PROVE  Accounted(K[h].utxos, K[h].txids)
    OBVIOUS
  <2>1. h # Genesis => K[h].height = K[Block[h].prev].height + 1 /\ K[Block[h].prev].height \in Nat
    BY Heights
  <2>2. h = Genesis
    BY <2>1
  <2> QED BY <1>1, <1>2, <2>2
<1>5. ASSUME NEW m \in Nat, m \in T PROVE m + 1 \in T
  <2> SUFFICES ASSUME NEW h \in DOMAIN K, K[h].height = m + 1
               PROVE  Accounted(K[h].utxos, K[h].txids)
    OBVIOUS
  <2>1. h # Genesis
    BY Heights
  <2>2. /\ Block[h].prev \in DOMAIN K /\ K[h].height = K[Block[h].prev].height + 1
        /\ K[Block[h].prev].height \in Nat
    BY <2>1, Heights
  <2>3. K[Block[h].prev].height = m
    BY <2>2
  <2>4. Accounted(K[Block[h].prev].utxos, K[Block[h].prev].txids)
    BY <1>5, <2>2, <2>3
  <2> QED BY <1>3, <2>1, <2>4
<1>6. \A m \in Nat : m \in T
  <2> HIDE DEF T
  <2> QED BY <1>4, <1>5, InductionOnNat
<1> QED BY <1>6 DEF Accepted

\* On every branch that a node keeps, the coins and the fees paid so far make up the
\* supply of the manifest, for any transfers in any order.
THEOREM FeesAreBurned == Spec => []FeesBurned
<1>1. Historic => FeesBurned
  <2> SUFFICES ASSUME NEW K, History(K), NEW n \in Nodes, NEW h \in DOMAIN known[n]
               PROVE  Value(known[n][h].utxos) + SumFunctionOnSet(Fees, known[n][h].txids) = MaxSupply
    BY DEF Historic, FeesBurned
  <2>1. h \in DOMAIN K /\ known[n][h] = K[h] /\ Accepted(K)
    BY DEF History, Follows, Part
  <2>2. Accounted(K[h].utxos, K[h].txids)
    BY <2>1, AllAccounted
  <2>3. Value(K[h].utxos) + SumFunctionOnSet(Fees, K[h].txids) = MaxSupply
    BY <2>2, ValueIs DEF Accounted
  <2> QED BY <2>1, <2>3, Zenon
<1> QED BY <1>1, OneHistory, PTL

(***************************************************************************)
(* The Go engine.  Its map of coins has the coin of each unspent outpoint, *)
(* so each of its checks is one of the node's: its sums run over inputs    *)
(* and outputs in a row, the node's over sets of outpoints, and none of    *)
(* them leaves int64 because the coins of a branch never exceed the supply.*)
(***************************************************************************)
CoinsOf(utxos) == [op \in utxos |-> Coin[op]]

LEMMA TotalOfCoins ==
    ASSUME NEW utxos, utxos \subseteq DOMAIN Coin, IsFiniteSet(utxos)
    PROVE  Total(CoinsOf(utxos)) = Value(utxos)
<1> DEFINE c == CoinsOf(utxos)
           e == [op \in DOMAIN c |-> c[op].amount]
<1>1. DOMAIN c = utxos /\ \A op \in utxos : e[op] = Amounts[op]
  BY DEF CoinsOf, Amounts
<1>2. Total(c) = SumFunctionOnSet(e, DOMAIN c)
  BY DEF Total
<1> HIDE DEF e, c
<1>3. SumFunctionOnSet(e, utxos) = SumFunctionOnSet(Amounts, utxos)
  BY <1>1, SumAgrees
<1>4. Total(c) = Value(utxos)
  BY <1>1, <1>2, <1>3, ValueIs
<1> QED BY <1>4 DEF c

\* The inputs name different outpoints of the coins.
Takes(t, utxos) ==
    /\ \A i \in DOMAIN Inputs(t) : Inputs(t)[i].coin \in utxos
    /\ \A i, j \in DOMAIN Inputs(t) : Inputs(t)[i].coin = Inputs(t)[j].coin => i = j

LEMMA TotalOfInputs ==
    ASSUME NEW t \in DOMAIN Transfer, NEW utxos, utxos \subseteq DOMAIN Coin, Takes(t, utxos)
    PROVE  Total([i \in DOMAIN Inputs(t) |-> CoinsOf(utxos)[Inputs(t)[i].coin]]) = Value(Spent(t))
<1> DEFINE I == DOMAIN Inputs(t)
           m == [i \in I |-> Inputs(t)[i].coin]
           c == [i \in I |-> CoinsOf(utxos)[Inputs(t)[i].coin]]
           e == [i \in DOMAIN c |-> c[i].amount]
<1>1. Total(c) = SumFunctionOnSet(e, DOMAIN c) /\ DOMAIN c = I
  BY DEF Total
<1>2. IsFiniteSet(I)
  BY TransferAssumption DEF Inputs
<1>3. Spent(t) = {m[i] : i \in I}
  BY DEF Spent, Inputs
<1>4. \A i, j \in I : m[i] = m[j] => i = j
  BY DEF Takes
<1>5. ASSUME NEW i \in I PROVE e[i] = Amounts[m[i]] /\ e[i] \in Int
  <2>1. m[i] = Inputs(t)[i].coin /\ m[i] \in utxos /\ m[i] \in DOMAIN Coin
    BY DEF Takes
  <2>2. e[i] = Coin[m[i]].amount
    BY <2>1 DEF CoinsOf
  <2>3. Amounts[m[i]] = Coin[m[i]].amount /\ Amounts[m[i]] \in Nat
    BY <2>1, AmountsAreNat DEF Amounts
  <2> QED BY <2>2, <2>3
<1> HIDE DEF m, e
<1>6. Renames(m, I, Spent(t), e, Amounts)
  BY <1>3, <1>4, <1>5 DEF Renames
<1> HIDE DEF I, c
<1>7. SumFunctionOnSet(Amounts, Spent(t)) = SumFunctionOnSet(e, I)
  BY <1>2, <1>6, SumRenamed
<1>8. Total(c) = Value(Spent(t))
  BY <1>1, <1>7, ValueIs
<1> QED BY <1>8 DEF c, I

LEMMA TotalOfOutputs ==
    ASSUME NEW t \in DOMAIN Transfer
    PROVE  Total(Outputs(t)) = Value(Created(t))
<1> DEFINE c == Outputs(t)
           I == DOMAIN Transfer[t].outs
           m == [i \in I |-> <<t, i>>]
           e == [i \in DOMAIN c |-> c[i].amount]
<1>1. Total(c) = SumFunctionOnSet(e, DOMAIN c) /\ DOMAIN c = I
  BY DEF Total, Outputs
<1>2. IsFiniteSet(I) /\ \A i \in I : <<t, i>> \in DOMAIN Coin
  BY TransferAssumption DEF Created
<1>3. Created(t) = {m[i] : i \in I}
  BY DEF Created
<1>4. \A i, j \in I : m[i] = m[j] => i = j
  OBVIOUS
<1>5. ASSUME NEW i \in I PROVE e[i] = Amounts[m[i]] /\ e[i] \in Int
  <2>1. e[i] = Coin[m[i]].amount
    BY DEF Outputs
  <2>2. Amounts[m[i]] = Coin[m[i]].amount /\ Amounts[m[i]] \in Nat
    BY <1>2, AmountsAreNat DEF Amounts
  <2> QED BY <2>1, <2>2
<1> HIDE DEF m, e
<1>6. Renames(m, I, Created(t), e, Amounts)
  BY <1>3, <1>4, <1>5 DEF Renames
<1> HIDE DEF I, c
<1>7. SumFunctionOnSet(Amounts, Created(t)) = SumFunctionOnSet(e, I)
  BY <1>2, <1>6, SumRenamed
<1>8. Total(c) = Value(Created(t))
  BY <1>1, <1>7, ValueIs
<1> QED BY <1>8 DEF c

\* What the loop asks of a transfer, the id apart.
GoTakes(t, coins) ==
    /\ WellFormedTx(t) /\ Owns(t, coins) /\ Pays(t, coins)
    /\ NewOutpoints(t) \cap Unspent(t, coins) = {}
    /\ Few(DOMAIN applyTransfer(t, coins))

\* Engine and node agree on a transfer, but for the coins that the engine counts.
LEMMA TransferAgrees ==
    ASSUME NEW t \in DOMAIN Transfer, NEW utxos, utxos \subseteq DOMAIN Coin,
           IsFiniteSet(utxos), Value(utxos) <= MaxInt64
    PROVE  /\ GoTakes(t, CoinsOf(utxos)) <=> Applicable(t, utxos) /\ Few(Apply(t, utxos))
           /\ applyTransfer(t, CoinsOf(utxos)) = CoinsOf(Apply(t, utxos))
<1> DEFINE c == CoinsOf(utxos)
           ins == [i \in DOMAIN Inputs(t) |-> c[Inputs(t)[i].coin]]
           fee == Transfer[t].fee
<1>1. DOMAIN c = utxos /\ \A op \in utxos : c[op] = Coin[op]
  BY DEF CoinsOf
<1>2. /\ Inputs(t) = Transfer[t].ins
      /\ Unspent(t, c) = utxos \ Spent(t) /\ NewOutpoints(t) = Created(t)
  BY <1>1 DEF Inputs, Outputs, Unspent, Spent, NewOutpoints, Created
<1>3. \A i \in DOMAIN Outputs(t) : Outputs(t)[i].amount > 0
  BY GoConformanceAssumption DEF Outputs, Created
<1>4. WellFormedTx(t) <=> /\ Transfer[t].ins # <<>> /\ Transfer[t].outs # <<>>
                          /\ \A i, j \in DOMAIN Inputs(t) :
                                Inputs(t)[i].coin = Inputs(t)[j].coin => i = j
  BY <1>2, <1>3 DEF WellFormedTx, IsInjective
<1>5. Owns(t, c) <=> \A i \in DOMAIN Inputs(t) :
                        /\ Inputs(t)[i].coin \in utxos
                        /\ Coin[Inputs(t)[i].coin].recipient = Inputs(t)[i].owner
  BY <1>1 DEF Owns
<1>6. Applicable(t, utxos) <=>
        /\ WellFormedTx(t) /\ Owns(t, c) /\ Balanced(t)
        /\ NewOutpoints(t) \cap Unspent(t, c) = {}
  BY <1>2, <1>4, <1>5 DEF Applicable
<1>7. ASSUME WellFormedTx(t), Owns(t, c) PROVE Pays(t, c) <=> Balanced(t)
  <2>1. Takes(t, utxos)
    BY <1>4, <1>5, <1>7 DEF Takes
  <2>2. Total(ins) = Value(Spent(t)) /\ Total(Outputs(t)) = Value(Created(t))
    BY <2>1, TotalOfInputs, TotalOfOutputs
  <2>3. Spent(t) \subseteq utxos
    BY <2>1 DEF Takes, Spent, Inputs
  <2>4. Value(Spent(t)) <= Value(utxos) /\ Value(Spent(t)) \in Nat /\ Value(utxos) \in Nat
    <3>1. IsFiniteSet(Spent(t))
      BY <2>3, FS_Subset
    <3>2. \A op \in utxos : Amounts[op] \in Nat
      BY AmountsAreNat
    <3>3. SumFunctionOnSet(Amounts, Spent(t)) <= SumFunctionOnSet(Amounts, utxos)
      BY <2>3, <3>2, SumOfPart
    <3>4. SumFunctionOnSet(Amounts, Spent(t)) \in Nat /\ SumFunctionOnSet(Amounts, utxos) \in Nat
      BY <2>3, <3>1, <3>2, SumNat
    <3> QED BY <3>3, <3>4, ValueIs
  <2>5. Value(Created(t)) \in Nat
    <3>1. IsFiniteSet(Created(t)) /\ \A op \in Created(t) : Amounts[op] \in Nat
      BY CreatedIsFinite, AmountsAreNat
    <3>2. SumFunctionOnSet(Amounts, Created(t)) \in Nat
      BY <3>1, SumNat
    <3> QED BY <3>2, ValueIs
  <2>6. fee \in Nat /\ MaxInt64 \in Nat
    BY TransferAssumption, GoConformanceAssumption
  <2>7. Pays(t, c) <=> /\ Total(ins) <= MaxInt64 /\ Total(Outputs(t)) <= MaxInt64
                       /\ Total(Outputs(t)) <= MaxInt64 - fee
                       /\ Total(ins) = Total(Outputs(t)) + fee
    BY DEF Pays, Fits
  <2> HIDE DEF ins, fee
  <2>8. Pays(t, c) <=> Value(Spent(t)) = Value(Created(t)) + fee
    BY <2>2, <2>4, <2>5, <2>6, <2>7
  <2> QED BY <2>8 DEF Balanced, fee
<1>8. applyTransfer(t, c) = CoinsOf(Apply(t, utxos))
  <2>1. \A op \in NewOutpoints(t) : Outputs(t)[op[2]] = Coin[op]
    BY DEF NewOutpoints, Outputs
  <2> QED BY <1>1, <1>2, <2>1 DEF applyTransfer, CoinsOf, Apply
<1>9. DOMAIN applyTransfer(t, c) = Apply(t, utxos)
  BY <1>8 DEF CoinsOf
<1> HIDE DEF c
<1>10. GoTakes(t, c) <=> Applicable(t, utxos) /\ Few(Apply(t, utxos))
  BY <1>6, <1>7, <1>9 DEF GoTakes
<1> QED BY <1>8, <1>10 DEF c

\* The loop of AcceptBlock.
Begun(coins) == [ok |-> TRUE, seen |-> {}, coins |-> coins]

IsLoop(a, coins, branch, txs, m) ==
    a = [i \in 0..m |-> IF i = 0 THEN Begun(coins) ELSE RunTransaction(txs[i], branch, a[i - 1])]

LEMMA LoopExists == \A m \in Nat : \A coins, branch, txs : \E a : IsLoop(a, coins, branch, txs, m)
<1> SUFFICES ASSUME NEW x, NEW branch, NEW txs
             PROVE  \A m \in Nat : \E a : IsLoop(a, x, branch, txs, m)
  OBVIOUS
<1> DEFINE T == {m \in Nat : \E a : IsLoop(a, x, branch, txs, m)}
           F(a, i) == IF i = 0 THEN Begun(x) ELSE RunTransaction(txs[i], branch, a[i - 1])
<1>1. 0 \in T
  <2> DEFINE a == [i \in 0..0 |-> Begun(x)]
  <2>1. a = [i \in 0..0 |-> F(a, i)]
    OBVIOUS
  <2> HIDE DEF a
  <2> QED BY <2>1 DEF IsLoop
<1>2. ASSUME NEW m \in Nat, m \in T PROVE m + 1 \in T
  <2>1. PICK w : w = [i \in 0..m |-> F(w, i)]
    BY <1>2 DEF IsLoop
  <2> DEFINE a == [i \in 0..(m + 1) |-> IF i <= m THEN w[i]
                                        ELSE RunTransaction(txs[m + 1], branch, w[m])]
  <2>2. \A i \in 0..m : a[i] = w[i]
    OBVIOUS
  <2>3. a[m + 1] = RunTransaction(txs[m + 1], branch, w[m])
    OBVIOUS
  <2>4. \A i \in 0..m : w[i] = F(w, i)
    BY <2>1
  <2>5. DOMAIN a = 0..(m + 1) /\ a = [i \in DOMAIN a |-> a[i]]
    OBVIOUS
  <2> HIDE DEF a
  <2>6. ASSUME NEW i \in 0..(m + 1) PROVE a[i] = F(a, i)
    <3>1. CASE i = m + 1
      <4>1. i # 0 /\ i - 1 = m /\ m \in 0..m
        BY <3>1
      <4> QED BY <3>1, <4>1, <2>2, <2>3
    <3>2. CASE i # m + 1
      <4>1. i \in 0..m /\ (i # 0 => i - 1 \in 0..m)
        BY <3>2
      <4> QED BY <4>1, <2>2, <2>4
    <3> QED BY <3>1, <3>2
  <2>7. a = [i \in 0..(m + 1) |-> F(a, i)]
    BY <2>5, <2>6
  <2> QED BY <2>7 DEF IsLoop
<1> HIDE DEF T
<1>3. \A m \in Nat : m \in T
  BY <1>1, <1>2, InductionOnNat
<1> QED BY <1>3 DEF T

LEMMA RunTransactionsIs ==
    ASSUME NEW go, NEW h, Len(Block[h].txs) \in Nat
    PROVE  LET txs == Block[h].txs
               parent == Block[h].prev
           IN  \E a : /\ a[0] = Begun(go.states[parent])
                      /\ \A i \in 1..Len(txs) :
                            a[i] = RunTransaction(txs[i], go.branchTxIDs[parent], a[i - 1])
                      /\ RunTransactions(go, h) = a[Len(txs)]
<1> DEFINE txs == Block[h].txs
           m == Len(txs)
           x == go.states[Block[h].prev]
           branch == go.branchTxIDs[Block[h].prev]
           run == CHOOSE a : a = [i \in 0..m |-> IF i = 0 THEN [ok |-> TRUE, seen |-> {}, coins |-> x]
                                                 ELSE RunTransaction(txs[i], branch, a[i - 1])]
<1>1. RunTransactions(go, h) = run[m]
  BY DEF RunTransactions
<1>2. run = CHOOSE a : IsLoop(a, x, branch, txs, m)
  BY DEF IsLoop, Begun
<1> HIDE DEF run, x, branch
<1>3. IsLoop(run, x, branch, txs, m)
  <2>1. \E a : IsLoop(a, x, branch, txs, m)
    BY LoopExists
  <2> HIDE DEF m, txs
  <2> QED BY <1>2, <2>1
<1>4. \A i \in 0..m : run[i] = IF i = 0 THEN Begun(x) ELSE RunTransaction(txs[i], branch, run[i - 1])
  <2> HIDE DEF m, txs
  <2>1. run = [i \in 0..m |-> IF i = 0 THEN Begun(x) ELSE RunTransaction(txs[i], branch, run[i - 1])]
    BY <1>3 DEF IsLoop
  <2> QED BY <2>1
<1>5. run[0] = Begun(x) /\ \A i \in 1..m : run[i] = RunTransaction(txs[i], branch, run[i - 1])
  <2> HIDE DEF m, txs
  <2>1. m \in Nat
    BY DEF m, txs
  <2>2. 0 \in 0..m /\ \A i \in 1..m : i \in 0..m /\ i # 0
    BY <2>1
  <2> QED BY <1>4, <2>2
<1> QED BY <1>1, <1>5 DEF x, branch

\* The engine has of block p what the node keeps in a row.
Keeps(go, p, row) ==
    /\ p \in DOMAIN go.states
    /\ go.states[p] = CoinsOf(row.utxos) /\ go.branchTxIDs[p] = row.txids
    /\ go.work[p] = row.work /\ Block[p].height = row.height

\* The first i transactions of a block are right, on top of a row, and leave few coins.
FirstFit(row, txs, i) ==
    \A k \in 1..i : /\ txs[k] \notin row.txids
                    /\ \A j \in 1..(k - 1) : txs[j] # txs[k]
                    /\ Applicable(txs[k], StatesOf(row, txs)[k - 1])
                    /\ Few(StatesOf(row, txs)[k])

LEMMA InSupply ==
    ASSUME NEW utxos, NEW txids, Accounted(utxos, txids)
    PROVE  /\ Value(utxos) \in Nat /\ Value(utxos) <= MaxSupply /\ Value(utxos) <= MaxInt64
           /\ utxos \subseteq DOMAIN Coin /\ IsFiniteSet(utxos)
<1>1. /\ utxos \subseteq DOMAIN Coin /\ IsFiniteSet(utxos)
      /\ txids \subseteq DOMAIN Transfer /\ IsFiniteSet(txids)
      /\ SumFunctionOnSet(Amounts, utxos) + SumFunctionOnSet(Fees, txids) = MaxSupply
  BY DEF Accounted
<1>2. SumFunctionOnSet(Amounts, utxos) \in Nat /\ SumFunctionOnSet(Fees, txids) \in Nat
  BY <1>1, AmountsAreNat, SumNat
<1>3. Value(utxos) = SumFunctionOnSet(Amounts, utxos)
  BY ValueIs
<1>4. MaxInt64 \in Nat /\ MaxSupply <= MaxInt64
  BY GoConformanceAssumption
<1> QED BY <1>1, <1>2, <1>3, <1>4

\* After i transactions the loop has the coins and the ids, unless one was wrong.
LoopHas(b, row, txs, i) ==
    IF FirstFit(row, txs, i)
    THEN /\ b = [ok |-> TRUE, seen |-> {txs[j] : j \in 1..i},
                 coins |-> CoinsOf(StatesOf(row, txs)[i])]
         /\ Accounted(StatesOf(row, txs)[i], row.txids \cup {txs[j] : j \in 1..i})
    ELSE "ok" \in DOMAIN b /\ b.ok = FALSE

LEMMA LoopAgrees ==
    ASSUME NEW row, NEW txs, txs \in Seq(DOMAIN Transfer), Accounted(row.utxos, row.txids),
           NEW a, a[0] = Begun(CoinsOf(row.utxos)),
           \A i \in 1..Len(txs) : a[i] = RunTransaction(txs[i], row.txids, a[i - 1])
    PROVE  \A i \in 0..Len(txs) : LoopHas(a[i], row, txs, i)
<1> DEFINE m == Len(txs)
           after == StatesOf(row, txs)
           ids(i) == {txs[j] : j \in 1..i}
           Right(i) == [ok |-> TRUE, seen |-> ids(i), coins |-> CoinsOf(after[i])]
           P(i) == IF FirstFit(row, txs, i)
                   THEN a[i] = Right(i) /\ Accounted(after[i], row.txids \cup ids(i))
                   ELSE "ok" \in DOMAIN a[i] /\ a[i].ok = FALSE
           T == {i \in Nat : i <= m => P(i)}
<1>1. m \in Nat /\ DOMAIN txs = 1..m /\ \A i \in 1..m : txs[i] \in DOMAIN Transfer
  OBVIOUS
<1>2. \A i \in 0..m : after[i] = IF i = 0 THEN row.utxos ELSE Apply(txs[i], after[i - 1])
  BY <1>1, StatesOfIs
<1>3. \A i \in 1..m : a[i] = RunTransaction(txs[i], row.txids, a[i - 1])
  OBVIOUS
<1>4. 0 \in T
  <2>1. ids(0) = {} /\ after[0] = row.utxos
    BY <1>1, <1>2
  <2>2. FirstFit(row, txs, 0)
    BY DEF FirstFit
  <2>3. row.txids \cup {} = row.txids
    OBVIOUS
  <2> HIDE DEF ids, after
  <2>4. a[0] = Right(0)
    BY <2>1 DEF Begun
  <2>5. Accounted(after[0], row.txids \cup ids(0))
    BY <2>1, <2>3, Zenon
  <2> QED BY <2>2, <2>4, <2>5
<1> HIDE DEF after, m
<1>5. ASSUME NEW i \in Nat, i \in T PROVE i + 1 \in T
  <2> HIDE DEF P
  <2> SUFFICES ASSUME i + 1 <= m PROVE P(i + 1)
    OBVIOUS
  <2> USE DEF P
  <2> DEFINE t == txs[i + 1]
             b == a[i]
             New == /\ t \notin row.txids \cup ids(i)
                    /\ Applicable(t, after[i]) /\ Few(after[i + 1])
  <2>1. /\ i + 1 \in 1..m /\ i + 1 \in 0..m /\ i + 1 # 0 /\ (i + 1) - 1 = i /\ i <= m
        /\ 1..(i + 1) = 1..i \cup {i + 1}
    BY <1>1
  <2>2. t \in DOMAIN Transfer /\ P(i)
    BY <1>1, <1>5, <2>1
  <2>3. after[i + 1] = Apply(t, after[i]) /\ a[i + 1] = RunTransaction(t, row.txids, b)
    BY <1>2, <1>3, <2>1
  <2>4. FirstFit(row, txs, i + 1) <=> FirstFit(row, txs, i) /\ New
    <3> DEFINE Q(k) == /\ txs[k] \notin row.txids
                       /\ \A j \in 1..(k - 1) : txs[j] # txs[k]
                       /\ Applicable(txs[k], after[k - 1])
                       /\ Few(after[k])
    <3>1. \A k \in {i, i + 1} : FirstFit(row, txs, k) <=> \A l \in 1..k : Q(l)
      BY DEF FirstFit, after
    <3>2. Q(i + 1) <=> New
      BY <2>1
    <3> HIDE DEF Q, New
    <3> QED BY <2>1, <3>1, <3>2
  <2>5. ids(i + 1) = ids(i) \cup {t}
    BY <2>1
  <2>6. CASE FirstFit(row, txs, i)
    <3>1. b = Right(i) /\ Accounted(after[i], row.txids \cup ids(i))
      BY <2>2, <2>6
    <3>2. b.ok /\ b.seen = ids(i) /\ b.coins = CoinsOf(after[i]) /\ "ok" \in DOMAIN b
      BY <3>1
    <3>3. /\ GoTakes(t, CoinsOf(after[i])) <=> Applicable(t, after[i]) /\ Few(Apply(t, after[i]))
          /\ applyTransfer(t, CoinsOf(after[i])) = CoinsOf(Apply(t, after[i]))
      BY <2>2, <3>1, InSupply, TransferAgrees
    <3> HIDE DEF ids, t, b, P
    <3>4. a[i + 1] = IF New
                     THEN [ok |-> TRUE, seen |-> ids(i) \cup {t}, coins |-> CoinsOf(Apply(t, after[i]))]
                     ELSE [b EXCEPT !.ok = FALSE]
      BY <2>3, <3>2, <3>3 DEF RunTransaction, GoTakes
    <3>5. CASE New
      <4>1. Accounted(Apply(t, after[i]), row.txids \cup ids(i) \cup {t})
        BY <2>2, <3>1, <3>5, OneTransfer
      <4>2. row.txids \cup ids(i) \cup {t} = row.txids \cup ids(i + 1)
        BY <2>5
      <4>3. Accounted(after[i + 1], row.txids \cup ids(i + 1))
        BY <2>3, <4>1, <4>2, Zenon
      <4>4. a[i + 1] = Right(i + 1)
        BY <2>3, <2>5, <3>4, <3>5
      <4> QED BY <2>4, <2>6, <3>5, <4>3, <4>4 DEF P
    <3>6. CASE ~New
      <4>1. "ok" \in DOMAIN a[i + 1] /\ a[i + 1].ok = FALSE
        BY <3>2, <3>4, <3>6
      <4> QED BY <2>4, <3>6, <4>1 DEF P
    <3> QED BY <3>5, <3>6
  <2>7. CASE ~FirstFit(row, txs, i)
    <3>1. "ok" \in DOMAIN b /\ b.ok = FALSE
      BY <2>2, <2>7
    <3> HIDE DEF b
    <3>2. a[i + 1] = [b EXCEPT !.ok = FALSE]
      BY <2>3, <3>1 DEF RunTransaction
    <3>3. "ok" \in DOMAIN a[i + 1] /\ a[i + 1].ok = FALSE
      BY <3>1, <3>2
    <3> QED BY <2>4, <2>7, <3>3
  <2> QED BY <2>6, <2>7
<1>6. \A i \in Nat : i \in T
  <2> HIDE DEF T
  <2> QED BY <1>4, <1>5, InductionOnNat
<1>7. \A i \in 0..m : P(i)
  <2> HIDE DEF P
  <2> QED BY <1>1, <1>6
<1> QED BY <1>7 DEF after, m, LoopHas

\* Engine and node agree on a block in the limits of the engine, and on what is kept
\* with it.
LEMMA BlockAgrees ==
    ASSUME NEW h \in Hash, NEW row, Accounted(row.utxos, row.txids),
           NEW go, Keeps(go, Block[h].prev, row)
    PROVE  /\ GoAccepts(go, h) <=> /\ ValidOn(row, h) /\ FewThroughout(row, h)
                                   /\ h \in DOMAIN go.states \/ InGoLimits(row, h)
           /\ GoAccepts(go, h) =>
                /\ RunTransactions(go, h).coins = CoinsOf(RowAfter(row, h).utxos)
                /\ row.txids \cup RunTransactions(go, h).seen = RowAfter(row, h).txids
<1> DEFINE txs == Block[h].txs
           m == Len(txs)
           p == Block[h].prev
           end == StatesOf(row, txs)[m]
           ids == {txs[i] : i \in 1..m}
           run == RunTransactions(go, h)
<1>1. txs \in Seq(DOMAIN Transfer) /\ m \in Nat /\ DOMAIN txs = 1..m
  BY TransferAssumption
<1>2. /\ p \in DOMAIN go.states /\ go.states[p] = CoinsOf(row.utxos)
      /\ go.branchTxIDs[p] = row.txids /\ Block[p].height = row.height
      /\ go.work[p] = row.work
  BY DEF Keeps
<1>3. PICK a : /\ a[0] = Begun(CoinsOf(row.utxos))
               /\ \A i \in 1..m : a[i] = RunTransaction(txs[i], row.txids, a[i - 1])
               /\ run = a[m]
  <2>1. Len(Block[h].txs) \in Nat
    BY <1>1
  <2> QED BY <1>2, <2>1, RunTransactionsIs
<1>4. IF FirstFit(row, txs, m)
      THEN /\ run = [ok |-> TRUE, seen |-> ids, coins |-> CoinsOf(end)]
           /\ Accounted(end, row.txids \cup ids)
      ELSE run.ok = FALSE
  <2> HIDE DEF txs, run
  <2>1. \A i \in 0..m : LoopHas(a[i], row, txs, i)
    BY <1>1, <1>3, LoopAgrees
  <2>2. m \in 0..m
    BY <1>1
  <2> QED BY <1>3, <2>1, <2>2 DEF LoopHas
<1> DEFINE workFits == row.work <= MaxUint64 - BlockWork
           isKnown == h \in DOMAIN go.states
<1>5. ValidOn(row, h) /\ FewThroughout(row, h) <=>
         /\ FirstFit(row, txs, m) /\ Value(end) <= MaxSupply /\ Few(end)
         /\ Block[h].height = row.height + 1 /\ Block[h].sound
  BY <1>1 DEF ValidOn, FirstFit, FewThroughout
<1>6. GoAccepts(go, h) <=>
         /\ Block[h].height = row.height + 1 /\ Block[h].sound
         /\ run.ok /\ Total(run.coins) <= MaxInt64 /\ Total(run.coins) <= MaxSupply
         /\ Few(DOMAIN run.coins)
         /\ isKnown \/ workFits
  BY <1>2 DEF GoAccepts, Passed, Fits
<1>7. /\ RowAfter(row, h).utxos = end
      /\ RowAfter(row, h).txids = row.txids \cup ids
  BY <1>1 DEF RowAfter
<1>0. InGoLimits(row, h) <=> FewThroughout(row, h) /\ workFits
  BY DEF InGoLimits
<1> HIDE DEF run, end, ids, workFits, isKnown
<1>8. CASE FirstFit(row, txs, m)
  <2>1. /\ run.ok /\ run.seen = ids /\ run.coins = CoinsOf(end)
        /\ Accounted(end, row.txids \cup ids)
    BY <1>4, <1>8
  <2>2. Total(run.coins) = Value(end) /\ Value(end) <= MaxSupply /\ Value(end) <= MaxInt64
    BY <2>1, InSupply, TotalOfCoins
  <2>3. DOMAIN run.coins = end
    BY <2>1 DEF CoinsOf
  <2>4. GoAccepts(go, h) <=> ValidOn(row, h) /\ FewThroughout(row, h) /\ (isKnown \/ workFits)
    BY <1>5, <1>6, <1>8, <2>1, <2>2, <2>3
  <2> QED BY <1>0, <1>7, <2>1, <2>4 DEF run, isKnown
<1>9. CASE ~FirstFit(row, txs, m)
  BY <1>4, <1>5, <1>6, <1>9
<1> QED BY <1>8, <1>9

\* The engine has the blocks D of memory k, and the best of them at its tip.
Mirrors(go, k, D) ==
    /\ D \subseteq DOMAIN k
    /\ DOMAIN go.states = D /\ DOMAIN go.branchTxIDs = D /\ DOMAIN go.work = D
    /\ \A h \in D : /\ go.states[h] = CoinsOf(k[h].utxos)
                    /\ go.branchTxIDs[h] = k[h].txids /\ go.work[h] = k[h].work
    /\ go.tipHash \in D
    /\ \A h \in D : /\ k[h].work <= k[go.tipHash].work
                    /\ k[h].work = k[go.tipHash].work => h >= go.tipHash

\* A node's memory: rows of blocks, each valid on its parent's.
Grown(k) ==
    /\ Rooted(k) /\ DOMAIN k \subseteq Hash
    /\ \A h \in DOMAIN k : /\ k[h].work \in Nat /\ Block[h].height = k[h].height
                           /\ Accounted(k[h].utxos, k[h].txids)
    /\ \A h \in DOMAIN k \ {Genesis} : ValidOn(k[Block[h].prev], h)

LEMMA MirrorsGenesis ==
    ASSUME NEW k, Grown(k) PROVE Mirrors(NewV2ConsensusNode, k, {Genesis})
<1>1. Genesis \in DOMAIN k /\ k[Genesis] = GenesisRow /\ Genesis \in Nat
  BY V2NodeAssumption DEF Grown, Rooted
<1> QED BY <1>1 DEF Mirrors, NewV2ConsensusNode, GenesisRow, CoinsOf

\* A block of the memory is in the limits of the engine.
Within(k, h) == InGoLimits(k[Block[h].prev], h)

\* One more block of the memory, whose parent the engine has.
LEMMA MirrorsMore ==
    ASSUME NEW k, Grown(k), NEW D, NEW go, Mirrors(go, k, D),
           NEW h \in DOMAIN k \ {Genesis}, Block[h].prev \in D,
           h \in D => Within(k, h)
    PROVE  /\ GoAccepts(go, h) <=> Within(k, h)
           /\ GoAccepts(go, h) => Mirrors(GoAccept(go, h), k, D \cup {h})
<1> DEFINE p == Block[h].prev
           run == RunTransactions(go, h)
           new == GoAccept(go, h)
           work == Put(go.work, h, go.work[p] + BlockWork)
<1>1. /\ h \in Hash /\ p \in DOMAIN k /\ k[h] = RowAfter(k[p], h) /\ ValidOn(k[p], h)
      /\ Accounted(k[p].utxos, k[p].txids) /\ Keeps(go, p, k[p])
  BY DEF Grown, Rooted, Mirrors, Keeps
<1>0. GoAccepts(go, h) <=> Within(k, h)
  <2>1. DOMAIN go.states = D
    BY DEF Mirrors
  <2> HIDE DEF p
  <2>2. GoAccepts(go, h) <=> FewThroughout(k[p], h) /\ (h \in D \/ InGoLimits(k[p], h))
    BY <1>1, <2>1, BlockAgrees DEF p
  <2>3. h \in D => InGoLimits(k[p], h)
    BY DEF Within, p
  <2> QED BY <2>2, <2>3 DEF Within, InGoLimits, p
<1> SUFFICES ASSUME GoAccepts(go, h) PROVE Mirrors(new, k, D \cup {h})
  BY <1>0
<1>2. run.coins = CoinsOf(k[h].utxos) /\ k[p].txids \cup run.seen = k[h].txids
  BY <1>1, BlockAgrees
<1>3. /\ k[h].work = k[p].work + BlockWork
      /\ go.work[p] = k[p].work /\ go.branchTxIDs[p] = k[p].txids
  BY <1>1 DEF RowAfter, Mirrors
<1>4. CASE h \in D
  <2>1. new = go /\ D \cup {h} = D
    BY <1>4 DEF GoAccept, Mirrors
  <2> QED BY <1>2, <2>1
<1>5. CASE h \notin D
  <2> DEFINE E == D \cup {h}
             g == go.tipHash
  <2>1. /\ DOMAIN go.states = D /\ DOMAIN go.branchTxIDs = D /\ DOMAIN go.work = D
        /\ D \subseteq DOMAIN k /\ g \in D
    BY DEF Mirrors
  <2>2. /\ new.states = Put(go.states, h, run.coins)
        /\ new.branchTxIDs = Put(go.branchTxIDs, h, go.branchTxIDs[p] \cup run.seen)
        /\ new.work = work /\ new.tipHash = TipAfter(work, h, g)
    BY <1>5, <2>1 DEF GoAccept
  <2> HIDE DEF new, run, work
  <2>3. /\ DOMAIN new.states = E /\ DOMAIN new.branchTxIDs = E /\ DOMAIN new.work = E
        /\ new.states[h] = CoinsOf(k[h].utxos) /\ new.branchTxIDs[h] = k[h].txids
        /\ new.work[h] = k[h].work
        /\ \A b \in D : /\ new.states[b] = go.states[b]
                        /\ new.branchTxIDs[b] = go.branchTxIDs[b] /\ new.work[b] = go.work[b]
    BY <1>2, <1>3, <1>5, <2>1, <2>2 DEF Put, work
  <2>4. \A b \in E : /\ new.states[b] = CoinsOf(k[b].utxos)
                     /\ new.branchTxIDs[b] = k[b].txids /\ new.work[b] = k[b].work
    BY <2>3 DEF Mirrors
  <2>5. \A b \in E : b \in Nat /\ k[b].work \in Nat
    BY <2>1, V2NodeAssumption DEF Grown
  <2>6. \A b \in D : k[b].work <= k[g].work /\ (k[b].work = k[g].work => b >= g)
    BY DEF Mirrors
  <2>7. new.tipHash = IF k[h].work > k[g].work \/ (k[h].work = k[g].work /\ h < g) THEN h ELSE g
    <3>1. work[h] = k[h].work /\ work[g] = k[g].work
      BY <2>1, <2>2, <2>4
    <3> QED BY <2>2, <3>1 DEF TipAfter
  <2>8. /\ new.tipHash \in E
        /\ \A b \in E : /\ k[b].work <= k[new.tipHash].work
                        /\ k[b].work = k[new.tipHash].work => b >= new.tipHash
    <3>1. CASE k[h].work > k[g].work \/ (k[h].work = k[g].work /\ h < g)
      <4>1. new.tipHash = h
        BY <2>7, <3>1
      <4> QED BY <2>1, <2>5, <2>6, <3>1, <4>1
    <3>2. CASE ~(k[h].work > k[g].work \/ (k[h].work = k[g].work /\ h < g))
      <4>1. new.tipHash = g
        BY <2>7, <3>2
      <4> QED BY <2>1, <2>5, <2>6, <3>2, <4>1
    <3> QED BY <3>1, <3>2
  <2>9. Mirrors(new, k, E)
    BY <2>1, <2>3, <2>4, <2>8 DEF Mirrors
  <2> QED BY <1>2, <2>9 DEF new
<1> QED BY <1>4, <1>5

\* The loop of consensuscheck.
CheckStep(given, i, before) ==
    IF Listed[i] \in given THEN CheckBlock(Listed[i], before) ELSE before

Answer(node) == [ok |-> TRUE, node |-> node]

IsCheck(a, given, m) ==
    a = [i \in 0..m |-> IF i = 0 THEN Answer(NewV2ConsensusNode) ELSE CheckStep(given, i, a[i - 1])]

LEMMA CheckExists == \A m \in Nat : \A given : \E a : IsCheck(a, given, m)
<1> SUFFICES ASSUME NEW given PROVE \A m \in Nat : \E a : IsCheck(a, given, m)
  OBVIOUS
<1> DEFINE T == {m \in Nat : \E a : IsCheck(a, given, m)}
           F(a, i) == IF i = 0 THEN Answer(NewV2ConsensusNode) ELSE CheckStep(given, i, a[i - 1])
<1>1. 0 \in T
  <2> DEFINE a == [i \in 0..0 |-> Answer(NewV2ConsensusNode)]
  <2>1. a = [i \in 0..0 |-> F(a, i)]
    OBVIOUS
  <2> HIDE DEF a
  <2> QED BY <2>1 DEF IsCheck
<1>2. ASSUME NEW m \in Nat, m \in T PROVE m + 1 \in T
  <2>1. PICK w : w = [i \in 0..m |-> F(w, i)]
    BY <1>2 DEF IsCheck
  <2> DEFINE a == [i \in 0..(m + 1) |-> IF i <= m THEN w[i] ELSE CheckStep(given, m + 1, w[m])]
  <2>2. \A i \in 0..m : a[i] = w[i]
    OBVIOUS
  <2>3. a[m + 1] = CheckStep(given, m + 1, w[m])
    OBVIOUS
  <2>4. \A i \in 0..m : w[i] = F(w, i)
    BY <2>1
  <2>5. DOMAIN a = 0..(m + 1) /\ a = [i \in DOMAIN a |-> a[i]]
    OBVIOUS
  <2> HIDE DEF a
  <2>6. ASSUME NEW i \in 0..(m + 1) PROVE a[i] = F(a, i)
    <3>1. CASE i = m + 1
      <4>1. i # 0 /\ i - 1 = m /\ m \in 0..m
        BY <3>1
      <4> QED BY <3>1, <4>1, <2>2, <2>3
    <3>2. CASE i # m + 1
      <4>1. i \in 0..m /\ (i # 0 => i - 1 \in 0..m)
        BY <3>2
      <4> QED BY <4>1, <2>2, <2>4
    <3> QED BY <3>1, <3>2
  <2>7. a = [i \in 0..(m + 1) |-> F(a, i)]
    BY <2>5, <2>6
  <2> QED BY <2>7 DEF IsCheck
<1> HIDE DEF T
<1>3. \A m \in Nat : m \in T
  BY <1>1, <1>2, InductionOnNat
<1> QED BY <1>3 DEF T

LEMMA ConsensusCheckIs ==
    ASSUME NEW given
    PROVE  \E a : /\ a[0] = Answer(NewV2ConsensusNode)
                  /\ \A i \in 1..Len(Listed) : a[i] = CheckStep(given, i, a[i - 1])
                  /\ ConsensusCheck(given) = a[Len(Listed)]
<1> DEFINE m == Len(Listed)
           check == CHOOSE a : a = [i \in 0..m |->
                      IF i = 0 THEN [ok |-> TRUE, node |-> NewV2ConsensusNode]
                      ELSE IF Listed[i] \in given THEN CheckBlock(Listed[i], a[i - 1])
                      ELSE a[i - 1]]
<1>0. m \in Nat
  BY GoConformanceAssumption
<1>1. ConsensusCheck(given) = check[m]
  BY DEF ConsensusCheck
<1>2. check = CHOOSE a : IsCheck(a, given, m)
  BY DEF IsCheck, CheckStep, Answer
<1> HIDE DEF check, m
<1>3. IsCheck(check, given, m)
  BY <1>0, <1>2, CheckExists
<1>4. check = [i \in 0..m |-> IF i = 0 THEN Answer(NewV2ConsensusNode) ELSE CheckStep(given, i, check[i - 1])]
  BY <1>3 DEF IsCheck
<1>5. 0 \in 0..m /\ \A i \in 1..m : i \in 0..m /\ i # 0
  BY <1>0
<1>6. check[0] = Answer(NewV2ConsensusNode) /\ \A i \in 1..m : check[i] = CheckStep(given, i, check[i - 1])
  BY <1>4, <1>5
<1> QED BY <1>1, <1>6 DEF m

\* The blocks of a memory that are among the first i of the list, and the genesis block.
ListedUpTo(k, i) == {Genesis} \cup {h \in DOMAIN k : \E j \in 1..i : Listed[j] = h}

\* All of these blocks of a memory, the genesis block apart, are in the limits.
AllWithin(k, D) == \A h \in D \ {Genesis} : Within(k, h)

\* An answer after the blocks D of a memory.
Answers(b, k, D) ==
    IF AllWithin(k, D) THEN \E go : b = Answer(go) /\ Mirrors(go, k, D)
    ELSE "ok" \in DOMAIN b /\ b.ok = FALSE

\* Given a memory, consensuscheck ends with all of it, unless a block is out of limits.
LEMMA CheckMirrors ==
    ASSUME NEW k, Grown(k)
    PROVE  Answers(ConsensusCheck(DOMAIN k), k, DOMAIN k)
<1> DEFINE m == Len(Listed)
           K == DOMAIN k
<1>1. /\ m \in Nat /\ DOMAIN Listed = 1..m /\ K \subseteq Hash /\ Genesis \in K
      /\ \A j \in 1..m : Listed[j] \in Hash \ {Genesis}
      /\ \A h \in Hash \ {Genesis} : \E j \in 1..m : Listed[j] = h
      /\ \A j \in 1..m : Block[Listed[j]].prev \in Hash \ {Genesis} =>
            \E i \in 1..(j - 1) : Listed[i] = Block[Listed[j]].prev
  BY GoConformanceAssumption DEF Range, Grown, Rooted
<1>2. PICK a : /\ a[0] = Answer(NewV2ConsensusNode)
               /\ \A i \in 1..m : a[i] = CheckStep(K, i, a[i - 1])
               /\ ConsensusCheck(K) = a[m]
  BY ConsensusCheckIs
<1> DEFINE T == {i \in Nat : i <= m => Answers(a[i], k, ListedUpTo(k, i))}
<1> HIDE DEF m, K
<1>3. 0 \in T
  <2>1. ListedUpTo(k, 0) = {Genesis}
    BY DEF ListedUpTo
  <2>2. Mirrors(NewV2ConsensusNode, k, {Genesis})
    BY MirrorsGenesis
  <2>3. AllWithin(k, {Genesis})
    BY DEF AllWithin
  <2> QED BY <1>2, <2>1, <2>2, <2>3 DEF Answers
<1>4. ASSUME NEW i \in Nat, i \in T PROVE i + 1 \in T
  <2> SUFFICES ASSUME i + 1 <= m
               PROVE  Answers(a[i + 1], k, ListedUpTo(k, i + 1))
    OBVIOUS
  <2> DEFINE h == Listed[i + 1]
             D == ListedUpTo(k, i)
  <2>1. /\ i + 1 \in 1..m /\ (i + 1) - 1 = i /\ i <= m
        /\ 1..(i + 1) = 1..i \cup {i + 1}
    BY <1>1
  <2>2. Answers(a[i], k, D)
    BY <1>4, <2>1
  <2>3. a[i + 1] = CheckStep(K, i + 1, a[i]) /\ h \in Hash \ {Genesis}
    BY <1>1, <1>2, <2>1
  <2>4. CASE h \in K
    <3>1. ListedUpTo(k, i + 1) = D \cup {h}
      BY <2>1, <2>4 DEF ListedUpTo, K
    <3>2. Block[h].prev \in K
      BY <2>3, <2>4 DEF Grown, Rooted, K
    <3>3. Block[h].prev \in D
      <4>1. CASE Block[h].prev = Genesis
        BY <4>1 DEF ListedUpTo
      <4>2. CASE Block[h].prev # Genesis
        <5>1. \E j \in 1..i : Listed[j] = Block[h].prev
          BY <1>1, <2>1, <3>2, <4>2
        <5> QED BY <3>2, <5>1 DEF ListedUpTo, K
      <4> QED BY <4>1, <4>2
    <3>4. a[i + 1] = CheckBlock(h, a[i])
      BY <2>3, <2>4 DEF CheckStep
    <3> HIDE DEF h, D
    <3>5. AllWithin(k, D \cup {h}) <=> AllWithin(k, D) /\ Within(k, h)
      BY <2>3 DEF AllWithin
    <3>6. CASE AllWithin(k, D)
      <4>1. PICK go : a[i] = Answer(go) /\ Mirrors(go, k, D)
        BY <2>2, <3>6 DEF Answers
      <4>2. h \in D => Within(k, h)
        BY <2>3, <3>6 DEF AllWithin
      <4>3. /\ GoAccepts(go, h) <=> Within(k, h)
            /\ GoAccepts(go, h) => Mirrors(GoAccept(go, h), k, D \cup {h})
        BY <2>3, <2>4, <3>3, <4>1, <4>2, MirrorsMore DEF K
      <4>4. a[i].ok /\ a[i].node = go /\ "ok" \in DOMAIN a[i]
        BY <4>1 DEF Answer
      <4>5. CASE Within(k, h)
        <5>1. a[i + 1] = Answer(GoAccept(go, h))
          BY <3>4, <4>3, <4>4, <4>5 DEF CheckBlock, Answer
        <5> QED BY <3>1, <3>5, <3>6, <4>3, <4>5, <5>1 DEF Answers
      <4>6. CASE ~Within(k, h)
        <5>1. a[i + 1] = [a[i] EXCEPT !.ok = FALSE]
          BY <3>4, <4>3, <4>4, <4>6 DEF CheckBlock
        <5>2. "ok" \in DOMAIN a[i + 1] /\ a[i + 1].ok = FALSE
          BY <4>4, <5>1
        <5> QED BY <3>1, <3>5, <4>6, <5>2 DEF Answers
      <4> QED BY <4>5, <4>6
    <3>7. CASE ~AllWithin(k, D)
      <4>1. "ok" \in DOMAIN a[i] /\ a[i].ok = FALSE
        BY <2>2, <3>7 DEF Answers
      <4>2. a[i + 1] = [a[i] EXCEPT !.ok = FALSE]
        BY <3>4, <4>1 DEF CheckBlock
      <4>3. "ok" \in DOMAIN a[i + 1] /\ a[i + 1].ok = FALSE
        BY <4>1, <4>2
      <4> QED BY <3>1, <3>5, <3>7, <4>3 DEF Answers
    <3> QED BY <3>6, <3>7
  <2>5. CASE h \notin K
    <3>1. ListedUpTo(k, i + 1) = D
      BY <2>1, <2>5 DEF ListedUpTo, K
    <3>2. a[i + 1] = a[i]
      BY <2>3, <2>5 DEF CheckStep
    <3> QED BY <2>2, <3>1, <3>2
  <2> QED BY <2>4, <2>5
<1>5. \A i \in Nat : i \in T
  <2> HIDE DEF T
  <2> QED BY <1>3, <1>4, InductionOnNat
<1>6. Answers(a[m], k, ListedUpTo(k, m))
  BY <1>1, <1>5
<1>7. ListedUpTo(k, m) = K
  BY <1>1 DEF ListedUpTo, K
<1> QED BY <1>2, <1>6, <1>7 DEF K

\* An engine with the blocks of a memory accepts what the node accepts in the limits.
LEMMA NextAgrees ==
    ASSUME NEW n \in Nodes, Grown(known[n]), NEW go, Mirrors(go, known[n], DOMAIN known[n]),
           AllWithin(known[n], DOMAIN known[n]), NEW h \in Hash \ {Genesis}
    PROVE  GoAccepts(go, h) <=> Acceptable(n, h) /\ Within(known[n], h)
<1> DEFINE k == known[n]
           p == Block[h].prev
<1>1. Acceptable(n, h) <=> p \in DOMAIN k /\ ValidOn(k[p], h)
  BY AcceptableIs
<1>2. CASE p \in DOMAIN k
  <2>1. Accounted(k[p].utxos, k[p].txids) /\ Keeps(go, p, k[p])
    BY <1>2 DEF Grown, Mirrors, Keeps
  <2>2. DOMAIN go.states = DOMAIN k
    BY DEF Mirrors
  <2>3. h \in DOMAIN k => Within(k, h)
    BY DEF AllWithin
  <2> HIDE DEF k, p
  <2>4. GoAccepts(go, h) <=> /\ ValidOn(k[p], h) /\ FewThroughout(k[p], h)
                             /\ h \in DOMAIN k \/ InGoLimits(k[p], h)
    BY <2>1, <2>2, BlockAgrees DEF p
  <2>5. Within(k, h) <=> InGoLimits(k[p], h)
    BY DEF Within, p
  <2>6. InGoLimits(k[p], h) => FewThroughout(k[p], h)
    BY DEF InGoLimits
  <2>7. GoAccepts(go, h) <=> ValidOn(k[p], h) /\ Within(k, h)
    BY <2>3, <2>4, <2>5, <2>6
  <2> QED BY <1>1, <1>2, <2>7 DEF k
<1>3. CASE p \notin DOMAIN k
  BY <1>1, <1>3 DEF GoAccepts, Mirrors
<1> QED BY <1>2, <1>3

LEMMA MemoryIsGrown ==
    ASSUME IInv, NEW K, History(K), NEW n \in Nodes
    PROVE  Grown(known[n])
<1> DEFINE k == known[n]
<1>1. Accepted(K) /\ Rooted(k) /\ Part(k, K) /\ Memory(k, tip[n])
  BY DEF History, Follows, IInv, Good
<1> HIDE DEF k
<1>2. ASSUME NEW h \in DOMAIN k
      PROVE  Block[h].height = k[h].height /\ Accounted(k[h].utxos, k[h].txids)
  <2>1. h \in DOMAIN K /\ k[h] = K[h]
    BY <1>1 DEF Part
  <2>2. Block[h].height = K[h].height
    BY <1>1, <2>1, Heights, GoConformanceAssumption
  <2>3. Accounted(K[h].utxos, K[h].txids)
    BY <1>1, <2>1, AllAccounted
  <2> QED BY <2>1, <2>2, <2>3
<1>3. ASSUME NEW h \in DOMAIN k \ {Genesis} PROVE ValidOn(k[Block[h].prev], h)
  <2>1. h \in DOMAIN K \ {Genesis} /\ Block[h].prev \in DOMAIN k
    BY <1>1 DEF Part, Rooted
  <2>2. ValidOn(K[Block[h].prev], h) /\ k[Block[h].prev] = K[Block[h].prev]
    BY <1>1, <2>1 DEF Accepted, Part
  <2> QED BY <2>2
<1>4. Grown(k)
  BY <1>1, <1>2, <1>3 DEF Grown, Memory
<1> QED BY <1>4 DEF k

\* In every state of every network, not only after a replay: if the blocks that a node has
\* in memory are in the limits of the Go engine, the Go program answers for them what the
\* node would, whatever the order in which it is given them; if not, it refuses one.
THEOREM EnginesAgree == Spec => [](\A n \in Nodes : CheckedLike(n))
<1>1. IInv /\ Historic => \A n \in Nodes : CheckedLike(n)
  <2> SUFFICES ASSUME IInv, NEW K, History(K), NEW n \in Nodes PROVE CheckedLike(n)
    BY DEF Historic
  <2> DEFINE k == known[n]
             t == tip[n]
  <2>1. Grown(k) /\ Memory(k, t)
    BY MemoryIsGrown DEF IInv, Good
  <2> DEFINE answer == ConsensusCheck(DOMAIN k)
  <2>8. Answers(answer, k, DOMAIN k)
    BY <2>1, CheckMirrors
  <2>9. AllWithin(k, DOMAIN k) <=>
          \A h \in DOMAIN known[n] \ {Genesis} : InGoLimits(known[n][Block[h].prev], h)
    BY DEF AllWithin, Within
  <2>10. CASE ~AllWithin(k, DOMAIN k)
    <3>1. answer.ok = FALSE
      BY <2>8, <2>10 DEF Answers
    <3> QED BY <2>9, <2>10, <3>1 DEF CheckedLike, AnswersLike
  <2> SUFFICES ASSUME AllWithin(k, DOMAIN k) PROVE CheckedLike(n)
    BY <2>10
  <2>2. PICK go : ConsensusCheck(DOMAIN k) = Answer(go) /\ Mirrors(go, k, DOMAIN k)
    BY <2>8 DEF Answers
  <2>3. \A h \in Hash \ {Genesis} :
          GoAccepts(go, h) <=> Acceptable(n, h) /\ InGoLimits(known[n][Block[h].prev], h)
    BY <2>1, <2>2, NextAgrees DEF Within
  <2> DEFINE g == go.tipHash
  <2>4. /\ g \in DOMAIN k /\ t \in DOMAIN k /\ g \in Nat /\ t \in Nat
        /\ k[g].work \in Nat /\ k[t].work \in Nat
        /\ k[t].work <= k[g].work /\ (k[t].work = k[g].work => t >= g)
        /\ k[g].work <= k[t].work /\ (k[g].work = k[t].work => g >= t)
    BY <2>1, <2>2, V2NodeAssumption DEF Mirrors, Memory
  <2>5. g = t
    <3> HIDE DEF k, g, t
    <3> QED BY <2>4
  <2>6. go.work[g] = k[t].work /\ DOMAIN go.states[g] = k[t].utxos
    BY <2>2, <2>4, <2>5 DEF Mirrors, CoinsOf
  <2>7. ConsensusCheck(DOMAIN known[n]).ok /\ ConsensusCheck(DOMAIN known[n]).node = go
    BY <2>2 DEF Answer
  <2>11. /\ go.tipHash = tip[n] /\ go.work[go.tipHash] = known[n][tip[n]].work
         /\ DOMAIN go.states[go.tipHash] = known[n][tip[n]].utxos
    BY <2>5, <2>6
  <2> HIDE DEF answer
  <2>12. AnswersLike(answer, n)
    <3>1. answer.ok /\ answer.node = go
      BY <2>7 DEF answer
    <3>2. \A h \in DOMAIN known[n] \ {Genesis} : InGoLimits(known[n][Block[h].prev], h)
      BY <2>9
    <3> QED BY <2>3, <2>11, <3>1, <3>2, Zenon DEF AnswersLike
  <2> QED BY <2>12 DEF CheckedLike, answer
<1> QED BY <1>1, Invariant, OneHistory, PTL

\* The Go checker answers for a node's table what the node has once it has replayed it, if
\* and only if the table is in the limits of the Go engine.
THEOREM CheckerIsRight == Spec => []CheckerAgrees
<1>1. (\A n \in Nodes : CheckedLike(n)) => CheckerAgrees
  BY DEF CheckerAgrees
<1> QED BY <1>1, EnginesAgree, PTL
=============================================================================
