--------------------------- MODULE SigningProofs ---------------------------
(***************************************************************************)
(* Proofs about signatures, made and verified.                             *)
(*                                                                         *)
(* KeyReservations, for any number of signer processes, leaves and         *)
(* reservations: the protocol keeps its promises whatever the order of the *)
(* steps.                                                                  *)
(*                                                                         *)
(* NodeIdentity, for any processes, threads and leaves: as long as no      *)
(* thread outlasts its own reservation, no two envelopes are signed with   *)
(* the same leaf.  The reservation that a thread holds keeps every other   *)
(* thread from the key pair that the process shares.                       *)
(*                                                                         *)
(* MerkleSignatures, for any height, digest length, tokens and number of   *)
(* reservations, crashes and reloads: no leaf signs twice, and so the      *)
(* secrets given away prove nothing that was not signed; and a signature   *)
(* verifies for its digest under its own index and path, and nothing else. *)
(*                                                                         *)
(* InputVerification, for any transfers, providers and number of threads,  *)
(* on nodes with two processors or more: the verdict is that of the        *)
(* inputs, and does not depend on the schedule of the threads.             *)
(*                                                                         *)
(* PeerSessions, for any nodes, handler threads, losses and times: a       *)
(* session that a node holds of a peer that does not call it is one that   *)
(* the peer accepts, as long as no handler outlives its call.              *)
(***************************************************************************)
EXTENDS NodeIdentity, MerkleSignatures, InputVerification, PeerSessions, FiniteSums, SequenceTheorems, TLAPS

(* Reservations of one key. *)

Blocking == {"pending", "requires_recovery"}

\* Table n is table o with some blocking reservations settled: their leaves stay,
\* and nothing becomes pending or completed.
Settles(o, n) ==
    /\ n \in Seq(Row) /\ Len(n) = Len(o)
    /\ \A i \in 1..Len(o) :
          /\ n[i].leaf = o[i].leaf /\ n[i].advanced = o[i].advanced
          /\ \/ n[i].status = o[i].status
             \/ o[i].status \in Blocking /\ n[i].status \notin {"pending", "completed"}

\* What TypeOK says of the table, in the form the steps below use.
LEMMA Table ==
    ASSUME NEW rs \in Seq(Row)
    PROVE  /\ Len(rs) \in Nat /\ DOMAIN rs = 1..Len(rs)
           /\ \A i \in 1..Len(rs) : rs[i] \in Row
BY LenProperties, ElementOfSeq

\* Sweeping a table settles it.
LEMMA SweepSettles ==
    ASSUME NEW rs \in Seq(Row) PROVE Settles(rs, Sweep(rs))
<1> DEFINE ns == Sweep(rs)
<1>1. /\ Len(rs) \in Nat /\ DOMAIN rs = 1..Len(rs)
      /\ \A i \in 1..Len(rs) : rs[i] \in Row
  BY Table
<1>2. ASSUME NEW i \in 1..Len(rs)
      PROVE  /\ ns[i] \in Row
             /\ ns[i].leaf = rs[i].leaf /\ ns[i].advanced = rs[i].advanced
             /\ \/ ns[i].status = rs[i].status
                \/ rs[i].status \in Blocking /\ ns[i].status \notin {"pending", "completed"}
  <2>1. rs[i] \in Row /\ ns[i] = IF rs[i].status = "pending" /\ rs[i].lapsed
                THEN [rs[i] EXCEPT !.status = IF rs[i].advanced THEN "expired"
                                                                ELSE "requires_recovery"]
                ELSE rs[i]
    BY <1>1, <1>2 DEF Sweep
  <2> QED BY <2>1 DEF Row, Status, Blocking
<1>3. ns \in [1..Len(rs) -> Row]
  BY <1>1, <1>2 DEF Sweep
<1>4. ns \in Seq(Row) /\ Len(ns) = Len(rs)
  BY <1>1, <1>3
<1> QED BY <1>2, <1>4 DEF Settles

\* So does changing one row in such a way.
LEMMA ExceptSettles ==
    ASSUME NEW rs \in Seq(Row), NEW i \in 1..Len(rs), NEW r \in Row,
           r.leaf = rs[i].leaf, r.advanced = rs[i].advanced,
           \/ r.status = rs[i].status
           \/ rs[i].status \in Blocking /\ r.status \notin {"pending", "completed"}
    PROVE  Settles(rs, [rs EXCEPT ![i] = r])
BY ExceptSeq DEF Settles

\* Settling twice is settling.
LEMMA SettlesTwice ==
    ASSUME NEW o \in Seq(Row), NEW m, NEW n, Settles(o, m), Settles(m, n)
    PROVE  Settles(o, n)
<1>1. Len(o) \in Nat
  BY LenProperties
<1> QED BY <1>1 DEF Settles

(***************************************************************************)
(* Steps that settle rows and leave the key and the released signatures    *)
(* alone preserve everything but the places of the signers.                *)
(***************************************************************************)
Places ==
    /\ signer' \in [Signers -> [at : {"idle", "reserved", "signed", "persist", "failing"},
                                row : Nat]]
    /\ \A s \in Signers : /\ signer'[s].at # "idle" => signer'[s].row \in 1..Len(rows')
                          /\ signer'[s].at = "persist" => scheme' = "stateless"
                          /\ signer'[s].at = "signed" => scheme' # "stateless"

LEMMA SettlingStep ==
    ASSUME IInv, Settles(rows, rows'), Places, UNCHANGED <<scheme, key, released>>
    PROVE  IInv'
<1> USE DEF IInv
<1>1. rows \in Seq(Row) /\ key \in Nat /\ released \subseteq DOMAIN rows /\ scheme \in Schemes
  BY DEF TypeOK
<1>2. rows' \in Seq(Row) /\ Len(rows') = Len(rows)
  BY DEF Settles
<1>3. /\ Len(rows) \in Nat /\ DOMAIN rows = 1..Len(rows) /\ DOMAIN rows' = 1..Len(rows)
      /\ \A i \in 1..Len(rows) : rows[i] \in Row
  BY <1>1, <1>2, Table
<1>4. \A i \in 1..Len(rows) :
          /\ rows'[i].leaf = rows[i].leaf /\ rows'[i].advanced = rows[i].advanced
          /\ rows'[i].status = "pending" => rows[i].status = "pending"
          /\ rows'[i].status = "completed" <=> rows[i].status = "completed"
          /\ rows'[i].status \in Blocking => rows[i].status \in Blocking
  BY DEF Settles, Blocking
<1>5. TypeOK'
  BY <1>1, <1>2, <1>3 DEF TypeOK, Places
<1>6. OwnRow'
  BY <1>2, <1>3 DEF OwnRow, Places
<1>7. BlockingIsLatest'
  BY <1>2, <1>3, <1>4 DEF BlockingIsLatest, Blocking
<1>8. (scheme # "stateless" => ReleasedWhenCompleted)'
  BY <1>1, <1>3, <1>4 DEF ReleasedWhenCompleted
<1>9. (scheme # "stateless" => PendingLeaf /\ CompletedLeaves)'
  <2> SUFFICES ASSUME scheme # "stateless" PROVE PendingLeaf' /\ CompletedLeaves'
    OBVIOUS
  <2>1. PendingLeaf'
    BY <1>3, <1>4 DEF PendingLeaf
  <2>2. CompletedLeaves'
    BY <1>3, <1>4 DEF CompletedLeaves
  <2> QED BY <2>1, <2>2
<1>10. BranchFits'
  BY DEF BranchFits, Places
<1> QED BY <1>5, <1>6, <1>7, <1>8, <1>9, <1>10

(***************************************************************************)
(* The steps.                                                              *)
(***************************************************************************)
SignerPlace == [at : {"idle", "reserved", "signed", "persist", "failing"}, row : Nat]

\* A signer that moves along keeps its row; one that returns gives it up.
LEMMA SignerSteps ==
    ASSUME IInv, NEW s \in Signers, Len(rows') = Len(rows), rows' \in Seq(Row), scheme' = scheme,
           \/ Return(s)
           \/ signer[s].at # "idle" /\ Goto(s, "failing")
           \/ signer[s].at # "idle" /\ scheme = "stateless" /\ Goto(s, "persist")
           \/ signer[s].at # "idle" /\ scheme # "stateless" /\ Goto(s, "signed")
    PROVE  Places
<1>1. /\ signer \in [Signers -> SignerPlace] /\ DOMAIN rows = 1..Len(rows)
      /\ \A u \in Signers : /\ signer[u].at # "idle" => signer[u].row \in DOMAIN rows
                            /\ signer[u].at = "persist" => scheme = "stateless"
                            /\ signer[u].at = "signed" => scheme # "stateless"
  BY LenProperties DEF IInv, TypeOK, OwnRow, BranchFits, SignerPlace
<1>2. CASE Return(s)
  BY <1>1, <1>2 DEF Return, Idle, Places, SignerPlace
<1>3. ASSUME NEW place \in {"failing", "persist", "signed"}, Goto(s, place),
             signer[s].at # "idle",
             place = "persist" => scheme = "stateless",
             place = "signed" => scheme # "stateless"
      PROVE  Places
  <2>1. signer[s] \in SignerPlace
    BY <1>1
  <2>2. signer' = [signer EXCEPT ![s] = [signer[s] EXCEPT !.at = place]]
    BY <1>3 DEF Goto
  <2>3. [signer[s] EXCEPT !.at = place] = [at |-> place, row |-> signer[s].row]
    BY <2>1 DEF SignerPlace
  <2> QED BY <1>1, <1>3, <2>1, <2>2, <2>3 DEF Places, SignerPlace
<1> QED BY <1>2, <1>3

\* Nothing of the table changes.
LEMMA SameSettles == ASSUME NEW rs \in Seq(Row) PROVE Settles(rs, rs)
BY DEF Settles

\* A settling step of the table that leaves the signers where they are.
LEMMA SignersStay ==
    ASSUME IInv, Settles(rows, rows'), UNCHANGED <<scheme, key, released, signer>>
    PROVE  IInv'
<1>1. DOMAIN rows = 1..Len(rows) /\ Len(rows') = Len(rows)
  BY LenProperties DEF IInv, TypeOK, Settles
<1>2. Places
  BY <1>1 DEF IInv, TypeOK, OwnRow, BranchFits, Places
<1> QED BY <1>2, SettlingStep

LEMMA InitInv == Init => IInv
<1> SUFFICES ASSUME Init PROVE IInv
  OBVIOUS
<1>1. rows \in Seq(Row) /\ DOMAIN rows = {} /\ released = {} /\ key = 0 /\ scheme \in Schemes
  BY DEF Init
<1>2. signer \in [Signers -> SignerPlace] /\ \A s \in Signers : signer[s].at = "idle"
  BY DEF Init, Idle, SignerPlace
<1> QED BY <1>1, <1>2 DEF IInv, TypeOK, SignerPlace, OwnRow, ReleasedWhenCompleted,
                          BranchFits, BlockingIsLatest, PendingLeaf, CompletedLeaves

\* Reserving: every earlier reservation is settled, so the new row is the only one
\* that blocks the key, and its leaf is above those of all completed rows.
LEMMA ReserveInv ==
    ASSUME IInv, NEW s \in Signers, Reserve(s) PROVE IInv'
<1> DEFINE old == Sweep(rows)
           advanced == scheme = "on_reserve"
           row == [owner |-> s, leaf |-> key, advanced |-> advanced,
                   status |-> "pending", lapsed |-> FALSE]
           n == Len(rows)
<1>1. rows \in Seq(Row) /\ key \in Nat /\ scheme \in Schemes
      /\ released \subseteq DOMAIN rows /\ signer \in [Signers -> SignerPlace]
  BY DEF IInv, TypeOK, SignerPlace
<1>2. n \in Nat /\ DOMAIN rows = 1..n
  BY <1>1, Table
<1>3. Settles(rows, old) /\ old \in Seq(Row) /\ Len(old) = n /\ DOMAIN old = 1..n
  BY <1>1, <1>2, SweepSettles, LenProperties DEF Settles
<1>4. row \in Row
  BY <1>1 DEF Row, Status
<1>5. /\ rows' = Append(old, row)
      /\ key' = IF advanced THEN key + 1 ELSE key
      /\ signer' = [signer EXCEPT ![s] = [at |-> "reserved", row |-> n + 1]]
      /\ scheme' = scheme /\ released' = released
      /\ \A i \in 1..n : old[i].status \notin Blocking
  BY <1>3 DEF Reserve, Available, Blocking
<1>6. /\ rows' \in Seq(Row) /\ Len(rows') = n + 1 /\ DOMAIN rows' = 1..(n + 1)
      /\ \A i \in 1..n : rows'[i] = old[i]
      /\ rows'[n + 1] = row
  <2>1. rows' \in Seq(Row)
    BY <1>3, <1>4, <1>5, AppendProperties
  <2>2. Len(rows') = n + 1 /\ (\A i \in 1..n : rows'[i] = old[i]) /\ rows'[n + 1] = row
    BY <1>3, <1>4, <1>5, AppendProperties
  <2> QED BY <2>1, <2>2, LenProperties
<1>7. \A i \in 1..n : /\ rows'[i].leaf = rows[i].leaf
                      /\ rows'[i].status \notin Blocking
                      /\ rows'[i].status = "completed" <=> rows[i].status = "completed"
  BY <1>3, <1>5, <1>6 DEF Settles, Blocking
<1>8. row.leaf = key /\ row.status = "pending" /\ row.advanced = advanced
  OBVIOUS
<1>9. TypeOK'
  <2>1. key' \in Nat
    BY <1>1, <1>5
  <2>2. signer' \in [Signers -> SignerPlace]
    BY <1>1, <1>2, <1>5 DEF SignerPlace
  <2> QED BY <1>1, <1>2, <1>5, <1>6, <2>1, <2>2 DEF TypeOK, SignerPlace
<1>10. OwnRow'
  BY <1>1, <1>2, <1>5, <1>6 DEF IInv, OwnRow, SignerPlace
<1>11. (scheme # "stateless" => ReleasedWhenCompleted)'
  BY <1>1, <1>2, <1>5, <1>7 DEF IInv, ReleasedWhenCompleted
<1>12. BranchFits'
  BY <1>1, <1>5 DEF IInv, BranchFits, SignerPlace
<1>13. BlockingIsLatest'
  BY <1>2, <1>6, <1>7 DEF BlockingIsLatest, Blocking
<1>14. (scheme # "stateless" => PendingLeaf /\ CompletedLeaves)'
  <2> SUFFICES ASSUME scheme # "stateless" PROVE PendingLeaf' /\ CompletedLeaves'
    BY <1>5
  <2>1. \A i \in 1..n : rows'[i].status = "completed" => rows[i].leaf < key
    BY <1>2, <1>7 DEF IInv, CompletedLeaves
  <2>2. \A i, j \in 1..n : rows'[i].status = "completed" /\ rows'[j].status = "completed"
                              /\ i # j => rows'[i].leaf # rows'[j].leaf
    BY <1>2, <1>7 DEF IInv, CompletedLeaves
  <2>3. PendingLeaf'
    <3> SUFFICES ASSUME NEW i \in 1..(n + 1), rows'[i].status = "pending"
                 PROVE  key' = IF rows'[i].advanced THEN rows'[i].leaf + 1 ELSE rows'[i].leaf
      BY <1>6 DEF PendingLeaf
    <3>1. i = n + 1
      BY <1>2, <1>7 DEF Blocking
    <3> QED BY <3>1, <1>5, <1>6, <1>8
  <2>4. \A i \in 1..n : rows[i].leaf \in Nat
    BY <1>1, Table DEF Row
  <2>5. key' \in Nat /\ key <= key'
    BY <1>1, <1>5
  <2>6. CompletedLeaves'
    <3> SUFFICES ASSUME NEW i \in 1..(n + 1), NEW j \in 1..(n + 1), rows'[i].status = "completed"
                 PROVE  /\ rows'[i].leaf < key'
                        /\ rows'[j].status = "pending" => rows'[i].leaf < rows'[j].leaf
                        /\ rows'[j].status = "completed" /\ i # j => rows'[i].leaf # rows'[j].leaf
      BY <1>6 DEF CompletedLeaves
    <3>1. i \in 1..n
      BY <1>2, <1>6, <1>8
    <3>2. rows'[i].leaf < key /\ rows'[i].leaf \in Nat
      BY <2>1, <2>4, <3>1, <1>7
    <3>3. CASE j = n + 1
      <4>1. rows'[j].leaf = key /\ rows'[j].status = "pending"
        BY <3>3, <1>6, <1>8
      <4> QED BY <4>1, <3>2, <2>5, <1>1
    <3>4. CASE j \in 1..n
      BY <3>4, <3>1, <3>2, <2>2, <2>5, <1>1, <1>7 DEF Blocking
    <3> QED BY <3>3, <3>4, <1>2
  <2> QED BY <2>3, <2>6
<1> QED BY <1>9, <1>10, <1>11, <1>12, <1>13, <1>14 DEF IInv

\* Completing: the pending row is the latest and its leaf is the next one, or was
\* until it was reserved, so writing the key back does not take it back.
LEMMA CompleteInv ==
    ASSUME IInv, NEW s \in Signers, Complete(s) PROVE IInv' /\ key' >= key
<1> DEFINE r == signer[s].row
           n == Len(rows)
<1>1. /\ rows \in Seq(Row) /\ key \in Nat /\ scheme \in Schemes
      /\ released \subseteq DOMAIN rows /\ signer \in [Signers -> SignerPlace]
  BY DEF IInv, TypeOK, SignerPlace
<1>2. /\ n \in Nat /\ DOMAIN rows = 1..n
      /\ \A i \in 1..n : rows[i] \in Row
  BY <1>1, Table
<1>3. signer[s].at = "signed" /\ r \in 1..n /\ scheme # "stateless"
  BY <1>2 DEF Complete, IInv, OwnRow, BranchFits
<1>4. CASE Mine(s).status # "pending"
  <2>1. Goto(s, "failing") /\ UNCHANGED <<scheme, key, rows, released>>
    BY <1>4 DEF Complete
  <2>2. Places
    BY <1>1, <1>3, <2>1, SignerSteps
  <2>3. Settles(rows, rows')
    BY <1>1, <2>1, SameSettles
  <2> QED BY <1>1, <2>1, <2>2, <2>3, SettlingStep
<1>5. CASE Mine(s).status = "pending"
  <2> DEFINE done == [rows[r] EXCEPT !.status = "completed"]
  <2>1. /\ key' = rows[r].leaf + 1 /\ rows' = [rows EXCEPT ![r] = done]
        /\ released' = released \cup {r} /\ Return(s) /\ scheme' = scheme
    BY <1>5 DEF Complete, Mine
  <2>2. done \in Row /\ done.status = "completed" /\ done.leaf = rows[r].leaf
    <3>1. done = [owner |-> rows[r].owner, leaf |-> rows[r].leaf,
                  advanced |-> rows[r].advanced, status |-> "completed",
                  lapsed |-> rows[r].lapsed]
      BY <1>2, <1>3 DEF Row
    <3> QED BY <1>2, <1>3, <3>1 DEF Row, Status
  <2>3. /\ rows' \in Seq(Row) /\ Len(rows') = n /\ DOMAIN rows' = 1..n
        /\ \A i \in 1..n : rows'[i] = IF i = r THEN done ELSE rows[i]
    <3>1. rows' \in Seq(Row) /\ Len(rows') = n
          /\ \A i \in 1..n : rows'[i] = IF i = r THEN done ELSE rows[i]
      BY <1>1, <1>3, <2>1, <2>2, ExceptSeq
    <3> QED BY <3>1, LenProperties
  <2>4. rows[r].status = "pending" /\ r = n
        /\ \A i \in 1..n : rows[i].status \in Blocking => i = n
    BY <1>2, <1>3, <1>5 DEF IInv, BlockingIsLatest, Mine, Blocking
  <2>5. key = (IF rows[r].advanced THEN rows[r].leaf + 1 ELSE rows[r].leaf)
        /\ rows[r].leaf \in Nat
    BY <1>2, <1>3, <2>4 DEF IInv, PendingLeaf, Row
  <2>6. key' \in Nat /\ key' >= key
    BY <2>1, <2>5
  <2>7. Places
    BY <2>1, <2>3, SignerSteps
  <2>8. TypeOK'
    BY <1>1, <1>2, <1>3, <2>1, <2>3, <2>6, <2>7 DEF TypeOK, Places
  <2>9. OwnRow' /\ BranchFits'
    BY <2>3, <2>7 DEF OwnRow, BranchFits, Places
  <2>10. ReleasedWhenCompleted'
    BY <1>1, <1>2, <1>3, <2>1, <2>2, <2>3 DEF IInv, ReleasedWhenCompleted
  <2>11. \A i \in 1..n : rows'[i].status \notin Blocking
    BY <2>2, <2>3, <2>4 DEF Blocking
  <2>12. BlockingIsLatest' /\ PendingLeaf'
    BY <2>3, <2>11 DEF BlockingIsLatest, PendingLeaf, Blocking
  <2>13. \A i \in 1..n \ {r} : rows[i].status = "completed" =>
            rows[i].leaf < rows[r].leaf /\ rows[i].leaf \in Nat
    BY <1>2, <1>3, <2>4 DEF IInv, CompletedLeaves, Row
  <2>14. \A i, j \in 1..n \ {r} :
            rows[i].status = "completed" /\ rows[j].status = "completed" /\ i # j
               => rows[i].leaf # rows[j].leaf
    BY <1>2, <1>3 DEF IInv, CompletedLeaves
  <2>15. CompletedLeaves'
    <3> SUFFICES ASSUME NEW i \in 1..n, NEW j \in 1..n, rows'[i].status = "completed"
                 PROVE  /\ rows'[i].leaf < key'
                        /\ rows'[j].status = "pending" => rows'[i].leaf < rows'[j].leaf
                        /\ rows'[j].status = "completed" /\ i # j => rows'[i].leaf # rows'[j].leaf
      BY <2>3 DEF CompletedLeaves
    <3>1. rows'[j].status # "pending"
      BY <2>11 DEF Blocking
    <3>2. rows'[i].leaf < key'
      BY <2>1, <2>2, <2>3, <2>5, <2>13
    <3>3. ASSUME rows'[j].status = "completed", i # j PROVE rows'[i].leaf # rows'[j].leaf
      <4>1. CASE i = r
        <5>1. j # r /\ rows'[i].leaf = rows[r].leaf /\ rows'[j] = rows[j]
          BY <4>1, <3>3, <2>2, <2>3
        <5>2. rows[j].leaf < rows[r].leaf /\ rows[j].leaf \in Nat
          BY <5>1, <3>3, <2>13
        <5> QED BY <5>1, <5>2, <2>5
      <4>2. CASE j = r
        <5>1. i # r /\ rows'[j].leaf = rows[r].leaf /\ rows'[i] = rows[i]
          BY <4>2, <3>3, <2>2, <2>3
        <5>2. rows[i].leaf < rows[r].leaf /\ rows[i].leaf \in Nat
          BY <5>1, <2>13
        <5> QED BY <5>1, <5>2, <2>5
      <4>3. CASE i # r /\ j # r
        <5>1. rows'[i] = rows[i] /\ rows'[j] = rows[j]
          BY <4>3, <2>3
        <5> QED BY <5>1, <4>3, <3>3, <2>14
      <4> QED BY <4>1, <4>2, <4>3
    <3> QED BY <3>1, <3>2, <3>3
  <2> QED BY <1>3, <2>6, <2>8, <2>9, <2>10, <2>12, <2>15 DEF IInv
<1> QED BY <1>4, <1>5

\* A stateless key: what is released is on no leaf.
LEMMA PersistInv ==
    ASSUME IInv, NEW s \in Signers, Persist(s) PROVE IInv'
<1>1. /\ rows \in Seq(Row) /\ released \subseteq DOMAIN rows
      /\ signer \in [Signers -> SignerPlace]
      /\ DOMAIN rows = 1..Len(rows)
  BY LenProperties DEF IInv, TypeOK, SignerPlace
<1>2. scheme = "stateless" /\ signer[s].row \in DOMAIN rows
  BY DEF Persist, IInv, BranchFits, OwnRow
<1>3. /\ released' = released \cup {signer[s].row} /\ Return(s)
      /\ UNCHANGED <<scheme, key, rows>>
  BY DEF Persist
<1>4. Places
  BY <1>1, <1>3, SignerSteps
<1>5. TypeOK'
  BY <1>1, <1>2, <1>3, <1>4 DEF IInv, TypeOK, Places
<1>6. OwnRow' /\ BranchFits'
  BY <1>1, <1>3, <1>4 DEF OwnRow, BranchFits, Places
<1>7. BlockingIsLatest'
  BY <1>3 DEF IInv, BlockingIsLatest
<1> QED BY <1>2, <1>3, <1>5, <1>6, <1>7 DEF IInv

\* The steps of a signer that settle at most its own reservation.
LEMMA SignInv ==
    ASSUME IInv, NEW s \in Signers, Sign(s) \/ Fail(s) \/ Crash(s) PROVE IInv'
<1>1. /\ rows \in Seq(Row) /\ signer \in [Signers -> SignerPlace]
      /\ Len(rows) \in Nat /\ DOMAIN rows = 1..Len(rows)
      /\ \A i \in 1..Len(rows) : rows[i] \in Row
  BY Table DEF IInv, TypeOK, SignerPlace
<1>2. CASE Sign(s)
  <2>1. UNCHANGED <<scheme, key, rows, released>> /\ signer[s].at # "idle"
    BY <1>2 DEF Sign
  <2>2. Places
    <3>1. \/ Goto(s, "failing")
          \/ scheme = "stateless" /\ Goto(s, "persist")
          \/ scheme # "stateless" /\ Goto(s, "signed")
      BY <1>2 DEF Sign
    <3> QED BY <1>1, <2>1, <3>1, SignerSteps
  <2>3. Settles(rows, rows')
    BY <1>1, <2>1, SameSettles
  <2> QED BY <2>1, <2>2, <2>3, SettlingStep
<1>3. CASE Fail(s)
  <2> DEFINE r == signer[s].row
             failed == [rows[r] EXCEPT !.status = "failed"]
  <2>1. r \in 1..Len(rows) /\ Return(s) /\ UNCHANGED <<scheme, key, released>>
    BY <1>1, <1>3 DEF Fail, IInv, OwnRow
  <2>2. Settles(rows, rows')
    <3>1. CASE rows[r].status # "pending"
      <4>1. rows' = rows
        BY <1>3, <3>1 DEF Fail, Mine
      <4> QED BY <1>1, <4>1, SameSettles
    <3>2. CASE rows[r].status = "pending"
      <4>1. rows' = [rows EXCEPT ![r] = failed]
        BY <1>3, <3>2 DEF Fail, Mine
      <4>2. rows[r] \in Row
        BY <1>1, <2>1
      <4>3. failed = [owner |-> rows[r].owner, leaf |-> rows[r].leaf,
                      advanced |-> rows[r].advanced, status |-> "failed",
                      lapsed |-> rows[r].lapsed]
        BY <4>2 DEF Row
      <4>4. failed \in Row /\ failed.leaf = rows[r].leaf /\ failed.status = "failed"
            /\ failed.advanced = rows[r].advanced
        BY <4>2, <4>3 DEF Row, Status
      <4>5. rows[r].status \in Blocking /\ failed.status \notin {"pending", "completed"}
        BY <3>2, <4>4 DEF Blocking
      <4> QED BY <1>1, <2>1, <4>1, <4>4, <4>5, ExceptSettles
    <3> QED BY <3>1, <3>2
  <2>3. Places
    BY <2>1, <2>2, SignerSteps DEF Settles
  <2> QED BY <2>1, <2>2, <2>3, SettlingStep
<1>4. CASE Crash(s)
  <2>1. UNCHANGED <<scheme, key, rows, released>> /\ Return(s)
    BY <1>4 DEF Crash
  <2>2. Places
    BY <1>1, <2>1, SignerSteps
  <2>3. Settles(rows, rows')
    BY <1>1, <2>1, SameSettles
  <2> QED BY <2>1, <2>2, <2>3, SettlingStep
<1> QED BY <1>2, <1>3, <1>4

\* Time, reports and the operator settle reservations.
LEMMA TableInv ==
    ASSUME IInv, (\E i \in 1..MaxRows : Lapse(i)) \/ Refresh \/ Recover PROVE IInv'
<1>1. /\ rows \in Seq(Row) /\ Len(rows) \in Nat /\ DOMAIN rows = 1..Len(rows)
      /\ \A i \in 1..Len(rows) : rows[i] \in Row
  BY Table DEF IInv, TypeOK
<1>2. ASSUME NEW i \in 1..MaxRows, Lapse(i) PROVE IInv'
  <2> DEFINE late == [rows[i] EXCEPT !.lapsed = TRUE]
  <2>1. i \in 1..Len(rows) /\ rows' = [rows EXCEPT ![i] = late]
        /\ UNCHANGED <<scheme, key, signer, released>>
    BY <1>1, <1>2 DEF Lapse
  <2>2. rows[i] \in Row
    BY <1>1, <2>1
  <2>3. late \in Row
    BY <2>2 DEF Row
  <2>4. late.leaf = rows[i].leaf /\ late.status = rows[i].status
        /\ late.advanced = rows[i].advanced
    BY <2>2 DEF Row
  <2>5. Settles(rows, rows')
    BY <1>1, <2>1, <2>3, <2>4, ExceptSettles
  <2> QED BY <2>1, <2>5, SignersStay
<1>3. CASE Refresh
  <2>1. Settles(rows, rows') /\ UNCHANGED <<scheme, key, signer, released>>
    BY <1>1, <1>3, SweepSettles DEF Refresh
  <2> QED BY <2>1, SignersStay
<1>4. CASE Recover
  <2> DEFINE swept == Sweep(rows)
             n == Len(rows)
             row == [swept[n] EXCEPT !.status = "recovered"]
  <2>1. /\ rows # <<>> /\ swept[n].status = "requires_recovery"
        /\ rows' = [swept EXCEPT ![n] = row]
        /\ UNCHANGED <<scheme, key, signer, released>>
    BY <1>4 DEF Recover
  <2>2. Settles(rows, swept) /\ swept \in Seq(Row) /\ Len(swept) = n
    BY <1>1, SweepSettles DEF Settles
  <2>3. n \in 1..n
    <3>1. n # 0
      BY <1>1, <2>1, EmptySeq
    <3> QED BY <1>1, <3>1
  <2>4. swept[n] \in Row
    BY <2>2, <2>3, ElementOfSeq
  <2>5. row = [owner |-> swept[n].owner, leaf |-> swept[n].leaf,
               advanced |-> swept[n].advanced, status |-> "recovered",
               lapsed |-> swept[n].lapsed]
    BY <2>4 DEF Row
  <2>6. row \in Row /\ row.leaf = swept[n].leaf /\ row.status = "recovered"
        /\ row.advanced = swept[n].advanced
    BY <2>4, <2>5 DEF Row, Status
  <2>7. swept[n].status \in Blocking /\ row.status \notin {"pending", "completed"}
    BY <2>1, <2>6 DEF Blocking
  <2>8. Settles(swept, rows')
    BY <2>1, <2>2, <2>3, <2>6, <2>7, ExceptSettles
  <2>9. Settles(rows, rows')
    BY <1>1, <2>2, <2>8, SettlesTwice
  <2> QED BY <2>1, <2>9, SignersStay
<1> QED BY <1>2, <1>3, <1>4

\* Every step preserves the invariant and leaves the key at least where it was.
LEMMA NextInv == IInv /\ [Next]_vars => IInv' /\ key' >= key
<1> SUFFICES ASSUME IInv, [Next]_vars PROVE IInv' /\ key' >= key
  OBVIOUS
<1>1. key \in Nat
  BY DEF IInv, TypeOK
<1>2. ASSUME NEW s \in Signers, Step(s) PROVE IInv' /\ key' >= key
  <2>1. CASE Reserve(s)
    <3>1. key' >= key
      BY <1>1, <2>1 DEF Reserve
    <3> QED BY <2>1, <3>1, ReserveInv
  <2>2. CASE Complete(s)
    BY <2>2, CompleteInv
  <2>3. CASE Persist(s)
    <3>1. key' = key
      BY <2>3 DEF Persist
    <3> QED BY <1>1, <2>3, <3>1, PersistInv
  <2>4. CASE Sign(s) \/ Fail(s) \/ Crash(s)
    <3>1. key' = key
      BY <2>4 DEF Sign, Fail, Crash
    <3> QED BY <1>1, <2>4, <3>1, SignInv
  <2> QED BY <1>2, <2>1, <2>2, <2>3, <2>4 DEF Step
<1>3. CASE (\E i \in 1..MaxRows : Lapse(i)) \/ Refresh \/ Recover
  <2>1. key' = key
    BY <1>3 DEF Lapse, Refresh, Recover
  <2> QED BY <1>1, <1>3, <2>1, TableInv
<1>4. CASE UNCHANGED vars
  <2>1. UNCHANGED <<scheme, key, released, signer>> /\ rows' = rows
    BY <1>4 DEF vars
  <2>2. Settles(rows, rows')
    BY <2>1, SameSettles DEF IInv, TypeOK
  <2> QED BY <1>1, <2>1, <2>2, SignersStay
<1> QED BY <1>2, <1>3, <1>4 DEF Next

\* The inductive invariant holds of every behaviour of the protocol.
THEOREM Invariant == Spec => []IInv
<1>1. IInv /\ [Next]_vars => IInv'
  BY NextInv
<1> QED BY InitInv, <1>1, PTL DEF Spec

\* No leaf of a stateful key is in two released signatures, for any number of
\* signers and leaves: sign_for_address with reserve_wallet_key_state and
\* complete_wallet_key_reservation.
THEOREM NoLeafTwice == Spec => []OneSignaturePerLeaf
<1>1. IInv => OneSignaturePerLeaf
  BY DEF IInv, TypeOK, ReleasedWhenCompleted, CompletedLeaves, OneSignaturePerLeaf
<1> QED BY <1>1, Invariant, PTL

\* A reservation that blocks its key is always the one recover_wallet_key looks at.
THEOREM Recoverable == Spec => []BlockingIsLatest
<1>1. IInv => BlockingIsLatest
  BY DEF IInv
<1> QED BY <1>1, Invariant, PTL

\* No step puts the stored key back (complete_wallet_key_reservation writes the
\* state of a signer that may have been overtaken).
THEOREM KeyAdvances == Spec => NoRollback
<1>1. IInv /\ [Next]_vars => [key' >= key]_vars
  BY NextInv
<1> QED BY <1>1, Invariant, PTL DEF Spec, NoRollback

(* Envelopes. *)

IdentityPlace == [at : {"idle", "reserved", "assigned", "signed", "failing"}, row : Nat]
Active(t) == signer[t].at \in {"reserved", "assigned", "signed"}

IdentityTypes ==
    /\ scheme \in Schemes /\ key \in Nat /\ rows \in Seq(Row)
    /\ signer \in [Signers -> IdentityPlace]
    /\ released \subseteq 1..Len(rows)
    /\ keypair \in [Process -> Nat]
    /\ usedLeaf \in [1..MaxRows -> Nat \cup {-1}] /\ Len(rows) <= MaxRows

\* Busy threads work on rows of their own.
RowsApart ==
    \A t, u \in Signers : signer[t].at # "idle" =>
        /\ signer[t].row \in 1..Len(rows)
        /\ t # u /\ signer[u].at # "idle" => signer[t].row # signer[u].row

\* Nobody else settles the row of a thread that has not signed and written back: its time
\* does not pass.
ActivePending ==
    \A t \in Signers : Active(t) => Mine(t).status = "pending" /\ ~Mine(t).lapsed

AdvancedFits ==
    \A i \in 1..Len(rows) : rows[i].advanced <=> scheme = "on_reserve"

\* What left the node is past, for the key and for a reservation under way.
ReleasedPast ==
    \A e \in released :
        /\ rows[e].status = "completed" /\ usedLeaf[e] \in Nat /\ usedLeaf[e] < key
        /\ \A i \in 1..Len(rows) : rows[i].status = "pending" => usedLeaf[e] < rows[i].leaf

\* The attribute is what the thread that holds the reservation made of it.
KeypairFits ==
    \A t \in Signers :
        LET k == keypair[ProcessOf[t]]
        IN  /\ signer[t].at = "assigned" =>
                   k = IF Mine(t).advanced THEN Mine(t).leaf + 1 ELSE Mine(t).leaf
            /\ signer[t].at = "signed" => k = Mine(t).leaf + 1 /\ usedLeaf[signer[t].row] = Mine(t).leaf

Stateful ==
    scheme # "stateless" => PendingLeaf /\ ReleasedPast /\ KeypairFits /\ OneEnvelopePerLeaf

\* The inductive invariant.
IdentityInv ==
    /\ IdentityTypes /\ RowsApart /\ BlockingIsLatest /\ ActivePending /\ AdvancedFits
    /\ Stateful

LEMMA RowFacts ==
    ASSUME IdentityInv
    PROVE  /\ Len(rows) \in Nat /\ DOMAIN rows = 1..Len(rows)
           /\ \A i \in 1..Len(rows) : rows[i] \in Row /\ rows[i].leaf \in Nat
           /\ \A t \in Signers : signer[t] \in IdentityPlace
           /\ \A t \in Signers : signer[t].at # "idle" => signer[t].row \in 1..Len(rows)
<1>1. rows \in Seq(Row)
  BY DEF IdentityInv, IdentityTypes
<1>2. /\ Len(rows) \in Nat /\ DOMAIN rows = 1..Len(rows)
      /\ \A i \in 1..Len(rows) : rows[i] \in Row
  BY <1>1, Table
<1> QED BY <1>2 DEF IdentityInv, IdentityTypes, RowsApart, Row

\* At most one thread is active: its row is the latest.
LEMMA OneActive ==
    ASSUME IdentityInv, NEW t \in Signers, Active(t)
    PROVE  /\ signer[t].row = Len(rows) /\ signer[t].row \in 1..Len(rows)
           /\ \A u \in Signers : u # t => ~Active(u)
<1>1. \A u \in Signers : Active(u) => signer[u].row = Len(rows) /\ signer[u].at # "idle"
  BY RowFacts DEF IdentityInv, ActivePending, BlockingIsLatest, Mine, Active
<1> QED BY <1>1, RowFacts DEF IdentityInv, RowsApart, Active

(***************************************************************************)
(* Steps that settle rows no active thread holds, and after which threads  *)
(* are where they were, have given up or are back.                         *)
(***************************************************************************)
LEMMA Settling ==
    ASSUME IdentityInv, Settles(rows, rows'), UNCHANGED <<scheme, key, released, usedLeaf>>,
           signer' \in [Signers -> IdentityPlace], keypair' \in [Process -> Nat],
           \A t \in Signers :
               \/ signer'[t] = signer[t]
               \/ signer'[t].at = "idle"
               \/ signer'[t].at = "failing" /\ signer[t].at # "idle" /\ signer'[t].row = signer[t].row,
           \A t \in Signers : Active(t) /\ Active(t)' =>
               /\ rows'[signer[t].row] = rows[signer[t].row]
               /\ keypair'[ProcessOf[t]] = keypair[ProcessOf[t]]
    PROVE  IdentityInv'
<1>1. /\ Len(rows) \in Nat /\ Len(rows') = Len(rows) /\ rows' \in Seq(Row)
      /\ DOMAIN rows = 1..Len(rows) /\ DOMAIN rows' = 1..Len(rows)
  BY RowFacts, LenProperties DEF Settles
<1>2. \A i \in 1..Len(rows) :
          /\ rows'[i].leaf = rows[i].leaf /\ rows'[i].advanced = rows[i].advanced
          /\ rows'[i].status = "pending" => rows[i].status = "pending"
          /\ rows[i].status = "completed" => rows'[i].status = "completed"
          /\ rows'[i].status \in Blocking => rows[i].status \in Blocking
  BY DEF Settles, Blocking
<1>3. \A t \in Signers : Active(t)' => /\ Active(t) /\ signer'[t] = signer[t]
                                       /\ rows'[signer[t].row] = rows[signer[t].row]
                                       /\ keypair'[ProcessOf[t]] = keypair[ProcessOf[t]]
  BY DEF Active
<1>4. IdentityTypes'
  BY <1>1 DEF IdentityInv, IdentityTypes
<1>5. RowsApart'
  BY <1>1 DEF IdentityInv, RowsApart
<1>6. BlockingIsLatest'
  BY <1>1, <1>2 DEF IdentityInv, BlockingIsLatest, Blocking
<1>7. ActivePending'
  BY <1>3 DEF IdentityInv, ActivePending, Mine
<1>8. AdvancedFits'
  BY <1>1, <1>2 DEF IdentityInv, AdvancedFits
<1>9. Stateful'
  <2> SUFFICES ASSUME scheme # "stateless"
               PROVE  PendingLeaf' /\ ReleasedPast' /\ KeypairFits' /\ OneEnvelopePerLeaf'
    BY DEF Stateful
  <2>1. PendingLeaf'
    BY <1>1, <1>2 DEF IdentityInv, Stateful, PendingLeaf
  <2>2. ReleasedPast'
    <3>1. ReleasedPast /\ released \subseteq 1..Len(rows)
      BY DEF IdentityInv, IdentityTypes, Stateful
    <3>2. \A e \in released :
              /\ rows'[e].status = "completed" /\ usedLeaf[e] \in Nat /\ usedLeaf[e] < key
              /\ \A i \in 1..Len(rows) : rows'[i].status = "pending" => usedLeaf[e] < rows'[i].leaf
      BY <1>2, <3>1 DEF ReleasedPast
    <3> QED BY <1>1, <3>2 DEF ReleasedPast
  <2>3. KeypairFits'
    BY <1>3 DEF IdentityInv, Stateful, KeypairFits, Active, Mine
  <2>4. OneEnvelopePerLeaf'
    BY DEF IdentityInv, Stateful, OneEnvelopePerLeaf, Envelopes
  <2> QED BY <2>1, <2>2, <2>3, <2>4
<1> QED BY <1>4, <1>5, <1>6, <1>7, <1>8, <1>9 DEF IdentityInv

\* A sweep leaves the rows of active threads alone.
LEMMA SweepActive ==
    ASSUME IdentityInv, NEW t \in Signers, Active(t)
    PROVE  Sweep(rows)[signer[t].row] = rows[signer[t].row]
<1>1. signer[t].row \in DOMAIN rows
  BY RowFacts, OneActive
<1> QED BY <1>1 DEF Sweep, IdentityInv, ActivePending, Mine

\* Where threads go when one of them moves on, and the others stay.
LEMMA ThreadMoves ==
    ASSUME IdentityInv, NEW t \in Signers, NEW place \in {"assigned", "signed", "failing"},
           Goto(t, place)
    PROVE  /\ signer' \in [Signers -> IdentityPlace]
           /\ \A u \in Signers : u # t => signer'[u] = signer[u]
           /\ signer'[t].at = place /\ signer'[t].row = signer[t].row
<1>1. signer \in [Signers -> IdentityPlace]
  BY DEF IdentityInv, IdentityTypes
<1> QED BY <1>1 DEF Goto, IdentityPlace

LEMMA ThreadReturns ==
    ASSUME IdentityInv, NEW t \in Signers, Return(t)
    PROVE  /\ signer' \in [Signers -> IdentityPlace]
           /\ \A u \in Signers : u # t => signer'[u] = signer[u]
           /\ signer'[t].at = "idle"
BY DEF IdentityInv, IdentityTypes, Return, Idle, IdentityPlace

LEMMA FailingKeeps ==
    ASSUME IdentityInv, NEW t \in Signers, SigningFails(t)
    PROVE  IdentityInv'
<1>1. /\ Goto(t, "failing") /\ signer[t].at # "idle"
      /\ UNCHANGED <<scheme, key, rows, released, keypair, usedLeaf>>
  BY DEF SigningFails
<1>2. Settles(rows, rows')
  BY <1>1, SameSettles DEF IdentityInv, IdentityTypes
<1>3. keypair' \in [Process -> Nat]
  BY <1>1 DEF IdentityInv, IdentityTypes
<1> QED BY <1>1, <1>2, <1>3, ThreadMoves, Settling

LEMMA GiveUpKeeps ==
    ASSUME IdentityInv, NEW t \in Signers, GiveUp(t)
    PROVE  IdentityInv'
<1> DEFINE r == signer[t].row
           failed == [rows[r] EXCEPT !.status = "failed"]
<1>1. /\ Return(t) /\ signer[t].at = "failing"
      /\ UNCHANGED <<scheme, key, released, keypair, usedLeaf>>
      /\ rows' = IF rows[r].status = "pending" THEN [rows EXCEPT ![r] = failed] ELSE rows
  BY DEF GiveUp, Fail, Mine
<1>2. r \in 1..Len(rows) /\ rows[r] \in Row /\ rows \in Seq(Row) /\ keypair' \in [Process -> Nat]
  BY <1>1, RowFacts DEF IdentityInv, IdentityTypes
<1>3. failed \in Row /\ failed.leaf = rows[r].leaf /\ failed.advanced = rows[r].advanced
      /\ failed.status = "failed"
  BY <1>2 DEF Row, Status
<1> HIDE DEF failed
<1>4. Settles(rows, rows')
  BY <1>1, <1>2, <1>3, ExceptSettles, SameSettles DEF Blocking
<1>5. \A i \in 1..Len(rows) : i # r => rows'[i] = rows[i]
  BY <1>1, <1>2, <1>3, ExceptSeq
<1>6. \A u \in Signers : Active(u) => signer[u].row # r /\ signer[u].row \in 1..Len(rows)
  BY <1>1 DEF IdentityInv, RowsApart, Active
<1> QED BY <1>1, <1>2, <1>4, <1>5, <1>6, ThreadReturns, Settling

LEMMA RestartKeeps ==
    ASSUME IdentityInv, NEW p \in Process, Restart(p)
    PROVE  IdentityInv'
<1>1. /\ signer' = [t \in Signers |-> IF ProcessOf[t] = p THEN Idle ELSE signer[t]]
      /\ keypair' = [keypair EXCEPT ![p] = key]
      /\ UNCHANGED <<scheme, key, rows, released, usedLeaf>>
  BY DEF Restart
<1>2. Settles(rows, rows')
  BY <1>1, SameSettles DEF IdentityInv, IdentityTypes
<1>3. signer' \in [Signers -> IdentityPlace] /\ keypair' \in [Process -> Nat]
  BY <1>1 DEF IdentityInv, IdentityTypes, Idle, IdentityPlace
<1>4. \A t \in Signers : IF ProcessOf[t] = p THEN signer'[t].at = "idle" ELSE signer'[t] = signer[t]
  BY <1>1 DEF Idle
<1>5. \A t \in Signers : Active(t)' => keypair'[ProcessOf[t]] = keypair[ProcessOf[t]]
  BY <1>1, <1>4, NodeIdentityAssumption DEF Active, IdentityInv, IdentityTypes
<1> QED BY <1>1, <1>2, <1>3, <1>4, <1>5, Settling

LEMMA LapseKeeps ==
    ASSUME ~MayStall, IdentityInv, NEW i \in 1..MaxRows, LapseOf(i)
    PROVE  IdentityInv'
<1> DEFINE late == [rows[i] EXCEPT !.lapsed = TRUE]
<1>1. /\ i \in 1..Len(rows) /\ rows' = [rows EXCEPT ![i] = late]
      /\ UNCHANGED <<scheme, key, signer, released, keypair, usedLeaf>>
      /\ \A t \in Signers : signer[t] # Idle => signer[t].row # i
  BY RowFacts DEF LapseOf, Lapse
<1>2. rows[i] \in Row /\ rows \in Seq(Row) /\ keypair' \in [Process -> Nat]
      /\ signer' \in [Signers -> IdentityPlace]
  BY <1>1, RowFacts DEF IdentityInv, IdentityTypes
<1>3. /\ late \in Row /\ late.leaf = rows[i].leaf /\ late.advanced = rows[i].advanced
      /\ late.status = rows[i].status
  BY <1>2 DEF Row
<1> HIDE DEF late
<1>4. Settles(rows, rows')
  BY <1>1, <1>2, <1>3, ExceptSettles
<1>5. \A j \in 1..Len(rows) : j # i => rows'[j] = rows[j]
  BY <1>1, <1>2, <1>3, ExceptSeq
<1>6. \A t \in Signers : Active(t) => signer[t].row # i /\ signer[t].row \in 1..Len(rows)
  BY <1>1, OneActive DEF Active, Idle
<1> QED BY <1>1, <1>2, <1>4, <1>5, <1>6, Settling

LEMMA MaintainKeeps ==
    ASSUME IdentityInv, Maintain
    PROVE  IdentityInv'
<1> DEFINE old == Sweep(rows)
           n == Len(rows)
           row == [old[n] EXCEPT !.status = "recovered"]
<1>1. UNCHANGED <<scheme, key, signer, released, keypair, usedLeaf>>
  BY DEF Maintain, Refresh, Recover
<1>2. rows \in Seq(Row) /\ keypair' \in [Process -> Nat] /\ signer' \in [Signers -> IdentityPlace]
      /\ n \in Nat /\ DOMAIN rows = 1..n
  BY <1>1, RowFacts DEF IdentityInv, IdentityTypes
<1>3. Settles(rows, old) /\ old \in Seq(Row) /\ Len(old) = n
  BY <1>2, SweepSettles DEF Settles
<1>4. \A t \in Signers : Active(t) =>
          /\ old[signer[t].row] = rows[signer[t].row] /\ signer[t].row = n
          /\ rows[signer[t].row].status = "pending"
  BY SweepActive, OneActive DEF IdentityInv, ActivePending, Mine
<1>5. CASE rows' = old
  BY <1>1, <1>2, <1>3, <1>4, <1>5, Settling
<1>6. CASE /\ rows # <<>> /\ old[n].status = "requires_recovery"
           /\ rows' = [old EXCEPT ![n] = row]
  <2>1. n \in 1..n
    BY <1>2, <1>6
  <2>2. old[n] \in Row
    BY <1>3, <2>1, ElementOfSeq
  <2>3. row \in Row /\ row.leaf = old[n].leaf /\ row.advanced = old[n].advanced
        /\ row.status = "recovered"
    BY <2>2 DEF Row, Status
  <2> HIDE DEF row
  <2>4. Settles(old, rows')
    BY <1>3, <1>6, <2>1, <2>3, ExceptSettles DEF Blocking
  <2>5. Settles(rows, rows')
    BY <1>2, <1>3, <2>4, SettlesTwice
  <2>6. \A t \in Signers : ~Active(t)
    BY <1>4, <1>6
  <2> QED BY <1>1, <1>2, <2>5, <2>6, Settling
<1> QED BY <1>5, <1>6 DEF Maintain, Refresh, Recover
(***************************************************************************)
(* The steps of the thread that holds the reservation.                     *)
(***************************************************************************)

\* Reserving: no thread is active, and every leaf that left the node is below the new one.
LEMMA ReserveKeeps ==
    ASSUME IdentityInv, NEW t \in Signers, ReserveLeaf(t)
    PROVE  IdentityInv'
<1> DEFINE old == Sweep(rows)
           advanced == scheme = "on_reserve"
           row == [owner |-> t, leaf |-> key, advanced |-> advanced,
                   status |-> "pending", lapsed |-> FALSE]
           n == Len(rows)
           place == [at |-> "reserved", row |-> n + 1]
<1>1. /\ rows \in Seq(Row) /\ key \in Nat /\ n \in Nat /\ DOMAIN rows = 1..n
      /\ signer \in [Signers -> IdentityPlace]
  BY RowFacts DEF IdentityInv, IdentityTypes
<1>2. Settles(rows, old) /\ old \in Seq(Row) /\ Len(old) = n /\ DOMAIN old = 1..n
  BY <1>1, SweepSettles, LenProperties DEF Settles
<1>3. /\ row \in Row /\ row.leaf = key /\ row.status = "pending" /\ row.advanced = advanced
      /\ ~row.lapsed
  BY <1>1 DEF Row, Status
<1>4. /\ rows' = Append(old, row) /\ key' = IF advanced THEN key + 1 ELSE key
      /\ signer' = [signer EXCEPT ![t] = place] /\ signer[t] = Idle /\ n < MaxRows
      /\ UNCHANGED <<scheme, released, keypair, usedLeaf>>
      /\ \A i \in 1..n : old[i].status \notin Blocking
  BY <1>2 DEF ReserveLeaf, Reserve, Available, Blocking
<1> HIDE DEF row
<1>5. /\ rows' \in Seq(Row) /\ Len(rows') = n + 1 /\ DOMAIN rows' = 1..(n + 1)
      /\ \A i \in 1..n : rows'[i] = old[i]
      /\ rows'[n + 1] = row
  <2>1. rows' \in Seq(Row) /\ Len(rows') = n + 1
        /\ (\A i \in 1..n : rows'[i] = old[i]) /\ rows'[n + 1] = row
    BY <1>2, <1>3, <1>4, AppendProperties
  <2> QED BY <2>1, LenProperties
<1>6. \A i \in 1..n : /\ rows'[i].status \notin Blocking
                      /\ rows'[i].advanced = rows[i].advanced
                      /\ rows[i].status = "completed" => rows'[i].status = "completed"
  BY <1>2, <1>4, <1>5 DEF Settles, Blocking
<1>7. \A u \in Signers : ~Active(u)
  BY <1>4, SweepActive, OneActive DEF IdentityInv, ActivePending, Mine, Blocking
<1>8. /\ signer'[t] = place /\ signer'[t].at = "reserved" /\ signer'[t].row = n + 1
      /\ \A u \in Signers : u # t => signer'[u] = signer[u]
      /\ signer' \in [Signers -> IdentityPlace]
  BY <1>1, <1>4 DEF IdentityPlace
<1>9. IdentityTypes'
  BY <1>1, <1>4, <1>5, <1>8, KeyReservationsAssumption DEF IdentityInv, IdentityTypes
<1>10. RowsApart'
  BY <1>1, <1>5, <1>8 DEF IdentityInv, RowsApart
<1>11. BlockingIsLatest'
  BY <1>1, <1>5, <1>6 DEF BlockingIsLatest, Blocking
<1>12. ActivePending'
  BY <1>3, <1>5, <1>7, <1>8 DEF ActivePending, Active, Mine
<1>13. AdvancedFits'
  <2> SUFFICES ASSUME NEW i \in 1..(n + 1) PROVE rows'[i].advanced <=> scheme' = "on_reserve"
    BY <1>5 DEF AdvancedFits
  <2>1. i = n + 1 \/ i \in 1..n
    BY <1>1
  <2>2. i \in 1..n => (rows'[i].advanced <=> scheme = "on_reserve")
    BY <1>6, Zenon DEF IdentityInv, AdvancedFits
  <2>3. i = n + 1 => (rows'[i].advanced <=> scheme = "on_reserve")
    BY <1>3, <1>5, Zenon
  <2> QED BY <1>4, <2>1, <2>2, <2>3, Zenon
<1>14. Stateful'
  <2> SUFFICES ASSUME scheme # "stateless"
               PROVE  PendingLeaf' /\ ReleasedPast' /\ KeypairFits' /\ OneEnvelopePerLeaf'
    BY <1>4 DEF Stateful
  <2>1. \A i \in 1..(n + 1) : rows'[i].status = "pending" => i = n + 1
    BY <1>1, <1>6 DEF Blocking
  <2>2. PendingLeaf'
    BY <1>3, <1>4, <1>5, <2>1 DEF PendingLeaf
  <2>3. \A e \in released : /\ e \in 1..n /\ rows[e].status = "completed"
                            /\ usedLeaf[e] \in Nat /\ usedLeaf[e] < key
    BY DEF IdentityInv, IdentityTypes, Stateful, ReleasedPast
  <2>4. \A e \in released : usedLeaf[e] < key'
    BY <1>1, <1>4, <2>3
  <2>5. ReleasedPast'
    BY <1>3, <1>4, <1>5, <1>6, <2>1, <2>3, <2>4 DEF ReleasedPast
  <2>6. KeypairFits'
    BY <1>7, <1>8 DEF KeypairFits, Active
  <2>7. OneEnvelopePerLeaf'
    BY <1>4 DEF IdentityInv, Stateful, OneEnvelopePerLeaf, Envelopes
  <2> QED BY <2>2, <2>5, <2>6, <2>7
<1> QED BY <1>9, <1>10, <1>11, <1>12, <1>13, <1>14 DEF IdentityInv

\* What an active thread does before it writes back leaves the table alone.
LEMMA ActiveMoves ==
    ASSUME IdentityInv, NEW t \in Signers, Active(t), NEW place \in {"assigned", "signed"},
           Goto(t, place), UNCHANGED <<scheme, key, rows, released>>,
           keypair' \in [Process -> Nat], usedLeaf' \in [1..MaxRows -> Nat \cup {-1}],
           \A i \in 1..MaxRows : i # signer[t].row => usedLeaf'[i] = usedLeaf[i],
           LET k == keypair'[ProcessOf[t]]
           IN  /\ place = "assigned" => k = IF Mine(t).advanced THEN Mine(t).leaf + 1 ELSE Mine(t).leaf
               /\ place = "signed" /\ scheme # "stateless" =>
                      k = Mine(t).leaf + 1 /\ usedLeaf'[signer[t].row] = Mine(t).leaf
    PROVE  IdentityInv'
<1>1. /\ signer' \in [Signers -> IdentityPlace]
      /\ \A u \in Signers : u # t => signer'[u] = signer[u] /\ ~Active(u)
      /\ signer'[t].at = place /\ signer'[t].row = signer[t].row
  BY ThreadMoves, OneActive
<1>2. IdentityTypes'
  BY <1>1 DEF IdentityInv, IdentityTypes
<1>3. RowsApart' /\ BlockingIsLatest' /\ ActivePending' /\ AdvancedFits'
  <2>1. RowsApart'
    BY <1>1 DEF IdentityInv, RowsApart, Active
  <2>2. BlockingIsLatest' /\ AdvancedFits'
    BY DEF IdentityInv, BlockingIsLatest, AdvancedFits
  <2>3. ActivePending'
    BY <1>1 DEF IdentityInv, ActivePending, Active, Mine
  <2> QED BY <2>1, <2>2, <2>3
<1>4. Stateful'
  <2> SUFFICES ASSUME scheme # "stateless"
               PROVE  PendingLeaf' /\ ReleasedPast' /\ KeypairFits' /\ OneEnvelopePerLeaf'
    BY DEF Stateful
  <2>1. \A e \in released : e \in 1..MaxRows /\ e # signer[t].row /\ usedLeaf'[e] = usedLeaf[e]
    <3>1. Mine(t).status = "pending"
      BY DEF IdentityInv, ActivePending
    <3>2. \A e \in released : e \in 1..MaxRows /\ rows[e].status = "completed"
      BY RowFacts, KeyReservationsAssumption DEF IdentityInv, IdentityTypes, Stateful, ReleasedPast
    <3> QED BY <3>1, <3>2 DEF Mine
  <2>2. PendingLeaf'
    BY DEF IdentityInv, Stateful, PendingLeaf
  <2>3. ReleasedPast'
    BY <2>1 DEF IdentityInv, Stateful, ReleasedPast
  <2>4. KeypairFits'
    BY <1>1 DEF KeypairFits, Active, Mine
  <2>5. OneEnvelopePerLeaf'
    BY <2>1 DEF IdentityInv, Stateful, OneEnvelopePerLeaf, Envelopes
  <2> QED BY <2>2, <2>3, <2>4, <2>5
<1> QED BY <1>2, <1>3, <1>4 DEF IdentityInv

LEMMA AssignKeeps ==
    ASSUME IdentityInv, NEW t \in Signers, Assign(t)
    PROVE  IdentityInv'
<1> DEFINE k == IF Mine(t).advanced THEN Mine(t).leaf + 1 ELSE Mine(t).leaf
<1>1. Active(t) /\ Goto(t, "assigned") /\ UNCHANGED <<scheme, key, rows, released, usedLeaf>>
      /\ keypair' = [keypair EXCEPT ![ProcessOf[t]] = k]
  BY DEF Assign, Active
<1>2. k \in Nat
  BY <1>1, OneActive, RowFacts DEF Mine
<1> HIDE DEF k
<1>3. keypair' \in [Process -> Nat] /\ keypair'[ProcessOf[t]] = k
  BY <1>1, <1>2, NodeIdentityAssumption DEF IdentityInv, IdentityTypes
<1>4. usedLeaf' \in [1..MaxRows -> Nat \cup {-1}] /\ \A i \in 1..MaxRows : usedLeaf'[i] = usedLeaf[i]
  BY <1>1 DEF IdentityInv, IdentityTypes
<1> QED BY <1>1, <1>3, <1>4, ActiveMoves DEF k
LEMMA SignKeepsLeaf ==
    ASSUME IdentityInv, NEW t \in Signers, SignClaims(t)
    PROVE  IdentityInv'
<1> DEFINE p == ProcessOf[t]
           leaf == IF scheme = "on_sign" THEN keypair[p] ELSE Mine(t).leaf
           k == IF scheme = "on_sign" THEN keypair[p] + 1 ELSE keypair[p]
           r == signer[t].row
<1>1. /\ Active(t) /\ signer[t].at = "assigned" /\ Goto(t, "signed")
      /\ UNCHANGED <<scheme, key, rows, released>>
      /\ keypair' = [keypair EXCEPT ![p] = k] /\ usedLeaf' = [usedLeaf EXCEPT ![r] = leaf]
  BY DEF SignClaims, Active
<1>2. r \in 1..Len(rows) /\ r \in 1..MaxRows /\ Mine(t).leaf \in Nat
  BY <1>1, OneActive, RowFacts, KeyReservationsAssumption DEF IdentityInv, IdentityTypes, Mine
<1>3. p \in Process /\ keypair[p] \in Nat /\ keypair \in [Process -> Nat]
  BY NodeIdentityAssumption DEF IdentityInv, IdentityTypes
<1>4. leaf \in Nat /\ k \in Nat
  BY <1>2, <1>3
<1>5. scheme # "stateless" => leaf = Mine(t).leaf /\ k = Mine(t).leaf + 1
  <2> SUFFICES ASSUME scheme # "stateless" PROVE leaf = Mine(t).leaf /\ k = Mine(t).leaf + 1
    OBVIOUS
  <2>1. keypair[p] = IF Mine(t).advanced THEN Mine(t).leaf + 1 ELSE Mine(t).leaf
    BY <1>1 DEF IdentityInv, Stateful, KeypairFits
  <2>2. Mine(t).advanced <=> scheme = "on_reserve"
    BY <1>2, Zenon DEF IdentityInv, AdvancedFits, Mine
  <2>3. scheme \in {"on_reserve", "on_sign"}
    BY KeyReservationsAssumption DEF IdentityInv, IdentityTypes
  <2>4. CASE scheme = "on_reserve"
    <3>1. keypair[p] = Mine(t).leaf + 1
      BY <2>1, <2>2, <2>4, Zenon
    <3> QED BY <2>4, <3>1
  <2>5. CASE scheme = "on_sign"
    <3>1. ~Mine(t).advanced
      BY <2>2, <2>5
    <3>2. keypair[p] = Mine(t).leaf
      BY <2>1, <3>1, Zenon
    <3> QED BY <2>5, <3>2
  <2> QED BY <2>3, <2>4, <2>5
<1> HIDE DEF leaf, k
<1>6. keypair' \in [Process -> Nat] /\ keypair'[p] = k
  BY <1>1, <1>3, <1>4
<1>7. /\ usedLeaf' \in [1..MaxRows -> Nat \cup {-1}] /\ usedLeaf'[r] = leaf
      /\ \A i \in 1..MaxRows : i # r => usedLeaf'[i] = usedLeaf[i]
  BY <1>1, <1>2, <1>4 DEF IdentityInv, IdentityTypes
<1> QED BY <1>1, <1>5, <1>6, <1>7, ActiveMoves

\* Writing back: the attribute is one past the reserved leaf, and the envelope leaves.
LEMMA WriteBackKeeps ==
    ASSUME IdentityInv, NEW t \in Signers, WriteBack(t)
    PROVE  IdentityInv'
<1> DEFINE r == signer[t].row
           n == Len(rows)
           done == [rows[r] EXCEPT !.status = "completed"]
<1>1. Active(t) /\ signer[t].at = "signed"
  BY DEF WriteBack, Active
<1>2. /\ r = n /\ r \in 1..n /\ rows[r] \in Row /\ rows[r].leaf \in Nat
      /\ \A u \in Signers : u # t => ~Active(u)
      /\ rows[r].status = "pending" /\ n \in Nat /\ DOMAIN rows = 1..n /\ rows \in Seq(Row)
  BY <1>1, OneActive, RowFacts DEF IdentityInv, IdentityTypes, ActivePending, Mine
<1>3. /\ key' = keypair[ProcessOf[t]] /\ rows' = [rows EXCEPT ![r] = done]
      /\ released' = released \cup {r} /\ Return(t) /\ UNCHANGED <<scheme, keypair, usedLeaf>>
  BY <1>2 DEF WriteBack, Mine
<1>4. done \in Row /\ done.status = "completed" /\ done.leaf = rows[r].leaf
      /\ done.advanced = rows[r].advanced
  BY <1>2 DEF Row, Status
<1> HIDE DEF done
<1>5. /\ rows' \in Seq(Row) /\ Len(rows') = n /\ DOMAIN rows' = 1..n
      /\ \A i \in 1..n : rows'[i] = IF i = r THEN done ELSE rows[i]
  <2>1. rows' \in Seq(Row) /\ Len(rows') = n
        /\ \A i \in 1..n : rows'[i] = IF i = r THEN done ELSE rows[i]
    BY <1>2, <1>3, <1>4, ExceptSeq
  <2> QED BY <2>1, LenProperties
<1>6. /\ signer' \in [Signers -> IdentityPlace] /\ signer'[t].at = "idle"
      /\ \A u \in Signers : u # t => signer'[u] = signer[u]
  BY <1>3, ThreadReturns
<1>7. \A u \in Signers : ~Active(u)'
  BY <1>2, <1>6 DEF Active
<1>8. \A i \in 1..n : rows'[i].status \notin Blocking
  BY <1>2, <1>4, <1>5 DEF IdentityInv, BlockingIsLatest, Blocking
<1>9. IdentityTypes'
  BY <1>2, <1>3, <1>5, <1>6, NodeIdentityAssumption DEF IdentityInv, IdentityTypes
<1>10. RowsApart'
  BY <1>5, <1>6 DEF IdentityInv, RowsApart
<1>11. BlockingIsLatest' /\ ActivePending' /\ PendingLeaf'
  BY <1>5, <1>7, <1>8 DEF BlockingIsLatest, ActivePending, PendingLeaf, Blocking
<1>12. AdvancedFits'
  <2>1. \A i \in 1..n : rows'[i].advanced = rows[i].advanced
    BY <1>4, <1>5
  <2> QED BY <1>3, <1>5, <2>1, Zenon DEF IdentityInv, AdvancedFits
<1>13. Stateful'
  <2> SUFFICES ASSUME scheme # "stateless" PROVE ReleasedPast' /\ KeypairFits' /\ OneEnvelopePerLeaf'
    BY <1>3, <1>11 DEF Stateful
  <2>1. key' = rows[r].leaf + 1 /\ usedLeaf[r] = rows[r].leaf
    BY <1>1, <1>3 DEF IdentityInv, Stateful, KeypairFits, Mine
  <2>2. \A e \in released : /\ e \in 1..n /\ rows[e].status = "completed" /\ e # r
                            /\ usedLeaf[e] \in Nat /\ usedLeaf[e] < rows[r].leaf
    BY <1>2 DEF IdentityInv, IdentityTypes, Stateful, ReleasedPast
  <2>3. \A e \in released' : /\ e \in 1..n /\ rows'[e].status = "completed"
                             /\ usedLeaf[e] \in Nat /\ usedLeaf[e] < key'
    BY <1>2, <1>3, <1>4, <1>5, <2>1, <2>2
  <2>4. ReleasedPast'
    BY <1>3, <1>5, <1>8, <2>3 DEF ReleasedPast, Blocking
  <2>5. OneEnvelopePerLeaf'
    <3>1. \A i, j \in released : usedLeaf[i] # -1 /\ usedLeaf[j] # -1 /\ i # j =>
                                       usedLeaf[i] # usedLeaf[j]
      BY DEF IdentityInv, Stateful, OneEnvelopePerLeaf, Envelopes
    <3>2. \A i \in released : usedLeaf[i] # usedLeaf[r]
      BY <1>2, <2>1, <2>2
    <3> QED BY <1>3, <3>1, <3>2 DEF OneEnvelopePerLeaf, Envelopes
  <2>6. KeypairFits'
    BY <1>7 DEF KeypairFits, Active
  <2> QED BY <2>4, <2>5, <2>6
<1> QED BY <1>9, <1>10, <1>11, <1>12, <1>13 DEF IdentityInv

LEMMA IdentityStarts == IdentityInit => IdentityInv
<1> SUFFICES ASSUME IdentityInit PROVE IdentityInv
  OBVIOUS
<1>1. /\ scheme \in Schemes /\ key = 0 /\ rows = <<>> /\ released = {}
      /\ signer = [t \in Signers |-> Idle]
      /\ keypair = [p \in Process |-> 0] /\ usedLeaf = [i \in 1..MaxRows |-> -1]
  BY DEF IdentityInit, Init
<1>2. rows \in Seq(Row) /\ Len(rows) = 0 /\ DOMAIN rows = {}
  BY <1>1
<1>3. signer \in [Signers -> IdentityPlace] /\ \A t \in Signers : signer[t].at = "idle"
  BY <1>1 DEF Idle, IdentityPlace
<1>4. IdentityTypes
  BY <1>1, <1>2, <1>3, KeyReservationsAssumption DEF IdentityTypes
<1>5. RowsApart /\ BlockingIsLatest /\ ActivePending /\ AdvancedFits
  BY <1>2, <1>3 DEF RowsApart, BlockingIsLatest, ActivePending, AdvancedFits, Active
<1>6. Stateful
  BY <1>1, <1>2, <1>3 DEF Stateful, PendingLeaf, ReleasedPast, KeypairFits, OneEnvelopePerLeaf, Envelopes
<1> QED BY <1>4, <1>5, <1>6 DEF IdentityInv

LEMMA IdentityStep == ~MayStall /\ IdentityInv /\ [IdentityNext]_identityVars => IdentityInv'
<1> SUFFICES ASSUME ~MayStall, IdentityInv, [IdentityNext]_identityVars PROVE IdentityInv'
  OBVIOUS
<1>1. ASSUME NEW t \in Signers, Thread(t) PROVE IdentityInv'
  BY <1>1, ReserveKeeps, AssignKeeps, SignKeepsLeaf, FailingKeeps, WriteBackKeeps, GiveUpKeeps DEF Thread
<1>2. ASSUME UNCHANGED identityVars PROVE IdentityInv'
  <2>1. Settles(rows, rows')
    BY <1>2, SameSettles DEF identityVars, vars, IdentityInv, IdentityTypes
  <2>2. signer' \in [Signers -> IdentityPlace] /\ keypair' \in [Process -> Nat]
    BY <1>2 DEF identityVars, vars, IdentityInv, IdentityTypes
  <2> QED BY <1>2, <2>1, <2>2, Settling DEF identityVars, vars
<1> QED BY <1>1, <1>2, RestartKeeps, LapseKeeps, MaintainKeeps DEF IdentityNext

\* As long as no thread outlasts its own reservation, no two envelopes that left the node
\* are signed with the same leaf, for any number of threads and processes, crashes and
\* recoveries (NodeIdentityManager.sign_claims, auth.py).
THEOREM LeavesApart == ASSUME ~MayStall PROVE IdentitySpec => []OneEnvelopePerLeaf
<1>1. IdentityInv /\ [IdentityNext]_identityVars => IdentityInv'
  BY IdentityStep
<1>2. IdentityInv => OneEnvelopePerLeaf
  BY DEF IdentityInv, Stateful, OneEnvelopePerLeaf
<1> QED BY <1>1, <1>2, IdentityStarts, PTL DEF IdentitySpec

(* Signatures made. *)

LeafOf(p) == p[2].leaf_public_key

\* What a signature that was made looks like.
WellMade(p) ==
    /\ p[1] \in Digests /\ LeafOf(p) \in Nat
    /\ p[2].lamport_signature = LamportSign(LeafOf(p), p[1])

\* A key pair's state knows of the signatures in S: their leaves were taken and will not be
\* used again, and no leaf is reserved twice.
Covers(state, S) ==
    /\ state.next_index \in Nat
    /\ \A r \in state.reservations : r[2] \in Nat /\ r[2] < state.next_index
    /\ \A r, q \in state.reservations : r[2] = q[2] => r = q
    /\ \A p \in S : LeafOf(p) < state.next_index /\ \A r \in state.reservations : r[2] # LeafOf(p)

LeavesOnce(S) == \A p, q \in S : LeafOf(p) = LeafOf(q) => p[1] = q[1]

States == [next_index : Nat, reservations : SUBSET (Nat \X Nat), consumed : SUBSET Nat]

\* The inductive invariant.
MerkleInv ==
    /\ pair \in States /\ stored \in States /\ drawn \in Nat
    /\ \A p \in made \cup published : WellMade(p)
    /\ Covers(pair, made \cup published)
    /\ Covers(stored, published)
    /\ LeavesOnce(made \cup published)

LEMMA ReserveTokenKeeps ==
    ASSUME MerkleInv, ReserveToken
    PROVE  MerkleInv'
<1> DEFINE new == <<drawn + 1, pair.next_index>>
<1>1. pair.next_index \in Nat /\ drawn \in Nat /\ new[2] = pair.next_index /\ new \in Nat \X Nat
  BY DEF MerkleInv, States
<1>2. /\ pair' = [pair EXCEPT !.next_index = @ + 1, !.reservations = @ \cup {new}]
      /\ UNCHANGED <<stored, made, published>> /\ drawn' = drawn + 1
  BY DEF ReserveToken
<1> HIDE DEF new
<1>3. /\ pair'.next_index = pair.next_index + 1
      /\ pair'.reservations = pair.reservations \cup {new}
      /\ pair' \in States
  <2>1. pair.reservations \cup {new} \in SUBSET (Nat \X Nat)
    <3>1. pair.reservations \in SUBSET (Nat \X Nat)
      BY DEF MerkleInv, States
    <3> QED BY <1>1, <3>1, Zenon
  <2>2. pair' = [next_index |-> pair.next_index + 1, reservations |-> pair.reservations \cup {new},
                 consumed |-> pair.consumed]
    BY <1>2 DEF MerkleInv, States
  <2>3. pair.next_index + 1 \in Nat /\ pair.consumed \in SUBSET Nat
    BY <1>1 DEF MerkleInv, States
  <2> QED BY <2>1, <2>2, <2>3, Zenon DEF States
<1>4. Covers(pair, made \cup published) /\ \A p \in made \cup published : LeafOf(p) \in Nat
  BY DEF MerkleInv, WellMade
<1>5. Covers(pair', made \cup published)
  BY <1>1, <1>3, <1>4 DEF Covers
<1> QED BY <1>1, <1>2, <1>3, <1>5 DEF MerkleInv

\* The token of a leaf is used up before the signature is made.
LEMMA SignKeeps ==
    ASSUME MerkleInv, NEW token \in Token, NEW leaf \in Leaf, NEW digest \in Signed,
           SignWithReservation(token, leaf, digest)
    PROVE  MerkleInv'
<1> DEFINE r == <<token, leaf>>
           p == <<digest, SignatureOf(leaf, digest)>>
<1>1. r \in pair.reservations /\ r[2] = leaf /\ r[2] \in Nat /\ r[1] \in Nat
  BY DEF MerkleInv, Covers, SignWithReservation, States
<1>2. p[1] = digest /\ LeafOf(p) = leaf /\ WellMade(p)
  BY <1>1, MerkleAssumption DEF LeafOf, SignatureOf, WellMade
<1>3. /\ pair' = [pair EXCEPT !.reservations = @ \ {r}, !.consumed = @ \cup {token}]
      /\ made' = made \cup {p} /\ UNCHANGED <<stored, drawn, published>>
  BY DEF SignWithReservation
<1>4. token \in Nat
  BY <1>1
<1> HIDE DEF r, p
<1>5. /\ pair'.next_index = pair.next_index /\ pair'.reservations = pair.reservations \ {r}
      /\ pair' \in States
  BY <1>3, <1>4 DEF MerkleInv, States
<1>6. Covers(pair, made \cup published) /\ LeavesOnce(made \cup published)
  BY DEF MerkleInv
<1>7. Covers(pair', made' \cup published')
  BY <1>1, <1>2, <1>3, <1>5, <1>6 DEF Covers
<1>8. \A q \in made \cup published : LeafOf(q) # leaf
  BY <1>1, <1>6 DEF Covers
<1>9. LeavesOnce(made' \cup published')
  BY <1>2, <1>3, <1>6, <1>8 DEF LeavesOnce
<1> QED BY <1>2, <1>3, <1>5, <1>7, <1>9 DEF MerkleInv

LEMMA StoreKeeps == MerkleInv /\ Store => MerkleInv'
<1> SUFFICES ASSUME MerkleInv, Store PROVE MerkleInv'
  OBVIOUS
<1>1. /\ stored' = pair /\ published' = made \cup published /\ made' = {}
      /\ UNCHANGED <<pair, drawn>>
  BY DEF Store
<1>2. made' \cup published' = made \cup published
  BY <1>1
<1> QED BY <1>1, <1>2 DEF MerkleInv

\* A reload forgets what was made since the last store; what left the process was stored.
LEMMA ReloadKeeps == MerkleInv /\ Reload => MerkleInv'
<1> SUFFICES ASSUME MerkleInv, Reload PROVE MerkleInv'
  OBVIOUS
<1>1. pair' = stored /\ made' = {} /\ UNCHANGED <<stored, drawn, published>>
  BY DEF Reload
<1>2. made' \cup published' = published
  BY <1>1
<1> QED BY <1>1, <1>2 DEF MerkleInv, LeavesOnce

LEMMA MerkleStarts == MerkleInit => MerkleInv
BY DEF MerkleInit, MerkleInv, GenerateKeypair, States, Covers, LeavesOnce

LEMMA MerkleStep == MerkleInv /\ [MerkleNext]_merkleVars => MerkleInv'
<1> SUFFICES ASSUME MerkleInv, [MerkleNext]_merkleVars PROVE MerkleInv'
  OBVIOUS
<1>1. ASSUME UNCHANGED merkleVars PROVE MerkleInv'
  BY <1>1 DEF merkleVars, MerkleInv, Covers, LeavesOnce, WellMade, LeafOf
<1> QED BY <1>1, ReserveTokenKeeps, SignKeeps, StoreKeeps, ReloadKeeps DEF MerkleNext

GivenAway(leaf, i, bit) == <<leaf, i, bit>> \in Revealed(leaf)

\* A secret that is given away was part of a signature of its leaf, on its digest's side.
LEMMA SecretsSigned ==
    ASSUME MerkleInv, NEW leaf, NEW i \in 1..HashBits, NEW bit, GivenAway(leaf, i, bit)
    PROVE  \E p \in published : LeafOf(p) = leaf /\ p[1] \in Digests /\ p[1][i] = bit
<1>1. PICK p \in published, k \in 1..HashBits :
          LeafOf(p) = leaf /\ p[2].lamport_signature[k] = <<leaf, i, bit>>
  BY DEF GivenAway, Revealed, LeafOf
<1>2. WellMade(p)
  BY DEF MerkleInv
<1>3. p[2].lamport_signature[k] = <<leaf, k, p[1][k]>>
  BY <1>1, <1>2 DEF WellMade, LamportSign
<1> QED BY <1>1, <1>2, <1>3 DEF WellMade

\* Nobody can put a signature together that was not made: each leaf gives away the secrets
\* of one digest only (sign_with_reservation, reference_backend.py).
THEOREM Unforgeable == MerkleSpec => []NothingUnsigned
<1>1. MerkleInv => NothingUnsigned
  <2> SUFFICES ASSUME MerkleInv, NEW leaf \in Leaf, NEW digest \in Digests,
                      \A i \in 1..HashBits : GivenAway(leaf, i, digest[i])
               PROVE  \E p \in published : p[1] = digest /\ LeafOf(p) = leaf
    BY DEF NothingUnsigned, LeafOf, GivenAway
  <2>1. 1 \in 1..HashBits
    BY MerkleAssumption
  <2>2. PICK p \in published : LeafOf(p) = leaf /\ p[1] \in Digests
    BY <2>1, SecretsSigned
  <2>3. ASSUME NEW i \in 1..HashBits PROVE p[1][i] = digest[i]
    <3>1. PICK q \in published : LeafOf(q) = leaf /\ q[1][i] = digest[i]
      BY SecretsSigned
    <3>2. q[1] = p[1]
      BY <2>2, <3>1 DEF MerkleInv, LeavesOnce
    <3> QED BY <3>1, <3>2
  <2>4. p[1] = digest
    <3>1. p[1] = [i \in 1..HashBits |-> p[1][i]] /\ digest = [i \in 1..HashBits |-> digest[i]]
      BY <2>2, Zenon DEF Digests
    <3> QED BY <2>3, <3>1, Zenon
  <2> QED BY <2>2, <2>4
<1> QED BY <1>1, MerkleStarts, MerkleStep, PTL DEF MerkleSpec

-----------------------------------------------------------------------------
(* Powers and quotients.  The prover knows nothing of exponents: that each  *)
(* is twice the one before follows from the number of subsets.             *)

LEMMA PowerOfTwo ==
    ASSUME NEW n \in Nat
    PROVE  2 ^ n \in Nat /\ 2 ^ n > 0 /\ 2 ^ (n + 1) = 2 * 2 ^ n
<1> DEFINE A == SUBSET (1..n)
           B == {s \cup {n + 1} : s \in A}
           f == [s \in A |-> s \cup {n + 1}]
<1>1. IsFiniteSet(1..n) /\ Cardinality(1..n) = n /\ IsFiniteSet(1..(n + 1))
      /\ Cardinality(1..(n + 1)) = n + 1
  <2>1. n + 1 \in Nat /\ 1 \in Int /\ n \in Int
    OBVIOUS
  <2> QED BY <2>1, FS_Interval
<1>2. IsFiniteSet(A) /\ Cardinality(A) = 2 ^ n /\ Cardinality(SUBSET (1..(n + 1))) = 2 ^ (n + 1)
  BY <1>1, FS_SUBSET
<1>3. Cardinality(A) \in Nat /\ Cardinality(A) # 0
  <2>1. A # {}
    OBVIOUS
  <2> HIDE DEF A
  <2> QED BY <2>1, <1>2, FS_CardinalityType, FS_EmptySet
<1>4. ExistsBijection(A, B)
  <2>1. \A s \in A : f[s] = s \cup {n + 1} /\ f[s] \in B
    OBVIOUS
  <2>2. \A u \in B : \E s \in A : f[s] = u
    OBVIOUS
  <2>3. ASSUME NEW s \in A, NEW u \in A, f[s] = f[u] PROVE s = u
    <3>1. n + 1 \notin s /\ n + 1 \notin u /\ s \cup {n + 1} = u \cup {n + 1}
      BY <2>1, <2>3
    <3> QED BY <3>1
  <2>4. f \in [A -> B] /\ DOMAIN f = A
    BY <2>1
  <2> HIDE DEF A, B, f
  <2>5. f \in Bijection(A, B)
    BY <2>2, <2>3, <2>4 DEF Bijection, Injection, Surjection, IsInjective
  <2> QED BY <2>5 DEF ExistsBijection
<1>5. IsFiniteSet(B) /\ Cardinality(B) = Cardinality(A)
  <2> HIDE DEF A, B, f
  <2> QED BY <1>2, <1>4, FS_Bijection
<1>6. SUBSET (1..(n + 1)) = A \cup B
  <2>1. ASSUME NEW s \in SUBSET (1..(n + 1)), s \notin A PROVE s \in B
    <3>1. n + 1 \in s
      BY <2>1
    <3>2. s \ {n + 1} \in A /\ s = (s \ {n + 1}) \cup {n + 1}
      BY <3>1
    <3> QED BY <3>2
  <2>2. A \subseteq SUBSET (1..(n + 1))
    OBVIOUS
  <2>3. B \subseteq SUBSET (1..(n + 1))
    <3>1. ASSUME NEW s \in A PROVE s \cup {n + 1} \in SUBSET (1..(n + 1))
      OBVIOUS
    <3> QED BY <3>1, Zenon
  <2> HIDE DEF A, B
  <2> QED BY <2>1, <2>2, <2>3
<1>7. A \cap B = {}
  OBVIOUS
<1> HIDE DEF A, B, f
<1>8. Cardinality(A \cap B) = 0
  BY <1>7, FS_EmptySet
<1>9. Cardinality(A \cup B) = Cardinality(A) + Cardinality(B) - Cardinality(A \cap B)
  BY <1>2, <1>5, FS_Union
<1>11. 2 ^ (n + 1) = Cardinality(A) + Cardinality(A)
  <2>1. 2 ^ (n + 1) = Cardinality(A \cup B)
    BY <1>2, <1>6, Zenon
  <2>2. Cardinality(A \cup B) = Cardinality(A) + Cardinality(A)
    BY <1>3, <1>5, <1>8, <1>9
  <2> QED BY <2>1, <2>2
<1> QED BY <1>2, <1>3, <1>11

\* A quotient is the number with a remainder below the divisor.
LEMMA QuotientIs ==
    ASSUME NEW a \in Nat, NEW d \in Nat, d > 0, NEW q \in Nat, NEW r \in Nat, r < d, a = q * d + r
    PROVE  a \div d = q
<1>1. (a \div d) \in Int /\ (a % d) \in 0..(d - 1) /\ a = d * (a \div d) + (a % d)
  OBVIOUS
<1> DEFINE p == a \div d
           s == a % d
<1>2. p \in Int /\ s \in 0..(d - 1) /\ a = p * d + s
  BY <1>1
<1> HIDE DEF p, s
<1>3. ASSUME p > q PROVE FALSE
  <2>1. PICK c \in Nat : p = q + 1 + c
    <3>1. p - q - 1 \in Nat /\ p = q + 1 + (p - q - 1)
      BY <1>2, <1>3
    <3> QED BY <3>1
  <2>2. (q + 1 + c) * d = q * d + d + c * d /\ c * d >= 0 /\ c * d \in Int /\ q * d \in Int
    OBVIOUS
  <2> QED BY <1>2, <2>1, <2>2
<1>4. ASSUME p < q PROVE FALSE
  <2>1. PICK c \in Nat : q = p + 1 + c
    <3>1. q - p - 1 \in Nat /\ q = p + 1 + (q - p - 1)
      BY <1>2, <1>4
    <3> QED BY <3>1
  <2>2. (p + 1 + c) * d = p * d + d + c * d /\ c * d >= 0 /\ c * d \in Int /\ p * d \in Int
    BY <1>2
  <2> QED BY <1>2, <2>1, <2>2
<1>5. p = q
  BY <1>2, <1>3, <1>4
<1> QED BY <1>5 DEF p

-----------------------------------------------------------------------------
(* Where a leaf is at each height. *)

Position(leaf, k) == leaf \div 2 ^ k

LEMMA PositionFacts ==
    ASSUME NEW leaf \in Leaf, NEW k \in Nat
    PROVE  /\ Position(leaf, k) \in Nat
           /\ Position(leaf, k) = 2 * Position(leaf, k + 1) + (Position(leaf, k) % 2)
           /\ Position(leaf, k) % 2 \in {0, 1}
           /\ Position(leaf, k) * 2 ^ k <= leaf /\ leaf < Position(leaf, k) * 2 ^ k + 2 ^ k
           /\ Position(leaf, 0) = leaf
<1> DEFINE w == 2 ^ k
           q == leaf \div w
           r == leaf % w
           b == q % 2
           h == q \div 2
<1>0. leaf \in Nat
  BY PowerOfTwo, MerkleAssumption DEF Leaf, LeafCount
<1>1. w \in Nat /\ w > 0 /\ 2 ^ (k + 1) = 2 * w
  BY PowerOfTwo
<1> HIDE DEF w
<1>2. q \in Nat /\ r \in 0..(w - 1) /\ leaf = q * w + r
  BY <1>0, <1>1
<1> HIDE DEF q, r
<1>3. b \in {0, 1} /\ h \in Nat /\ q = 2 * h + b
  BY <1>2
<1> HIDE DEF b, h
<1>4. leaf = h * (2 * w) + (b * w + r) /\ b * w + r \in Nat /\ b * w + r < 2 * w
  <2>1. CASE b = 0
    BY <1>1, <1>2, <1>3, <2>1
  <2>2. CASE b = 1
    BY <1>1, <1>2, <1>3, <2>2
  <2> QED BY <1>3, <2>1, <2>2
<1>5. leaf \div (2 * w) = h
  <2>1. 2 * w \in Nat /\ 2 * w > 0
    BY <1>1
  <2> HIDE DEF w
  <2> QED BY <1>0, <1>3, <1>4, <2>1, QuotientIs
<1>6. Position(leaf, k) = q /\ Position(leaf, k + 1) = h
  BY <1>1, <1>5 DEF Position, q, w
<1>7. leaf \div 1 = leaf
  BY <1>0
<1>8. Position(leaf, 0) = leaf
  BY <1>7 DEF Position
<1>9. q * w <= leaf /\ leaf < q * w + w
  BY <1>1, <1>2
<1>10. Position(leaf, k) % 2 = b /\ Position(leaf, k + 1) = h
  BY <1>6 DEF b
<1>11. Position(leaf, k) * 2 ^ k <= leaf /\ leaf < Position(leaf, k) * 2 ^ k + 2 ^ k
  BY <1>6, <1>9 DEF w
<1>12. Position(leaf, k) = 2 * Position(leaf, k + 1) + (Position(leaf, k) % 2)
  BY <1>3, <1>6, <1>10
<1> QED BY <1>2, <1>3, <1>6, <1>8, <1>10, <1>11, <1>12

\* The leaves below a node: j counts the nodes at height k.
Span(k, j) == [x \in 1..2 ^ k |-> j * 2 ^ k + x - 1]
NodeRow(k) == 0..(2 ^ (Height - k) - 1)

LEMMA SpanFacts ==
    ASSUME NEW k \in Nat, NEW j \in Nat
    PROVE  /\ Span(k, j) \in Seq(Nat) /\ Len(Span(k, j)) = 2 ^ k
           /\ \A x \in 1..2 ^ k : Span(k, j)[x] = j * 2 ^ k + x - 1
<1> DEFINE w == 2 ^ k
<1>1. w \in Nat /\ w > 0
  BY PowerOfTwo
<1>2. Span(k, j) = [x \in 1..w |-> j * w + x - 1]
  BY DEF Span
<1>3. \A x \in 1..w : j * w + x - 1 \in Nat
  <2> HIDE DEF w
  <2>1. j * w \in Nat
    BY <1>1
  <2> QED BY <1>1, <2>1
<1>4. Span(k, j) \in [1..w -> Nat]
  BY <1>2, <1>3
<1> HIDE DEF w
<1>5. Span(k, j) \in Seq(Nat) /\ Len(Span(k, j)) = w
  BY <1>1, <1>4
<1>6. \A x \in 1..w : Span(k, j)[x] = j * w + x - 1
  BY <1>2
<1> QED BY <1>5, <1>6 DEF w

LEMMA LeafSpan == ASSUME NEW j \in Nat PROVE Span(0, j) = LeafHash(j)
<1>1. 2 ^ 0 = 1
  OBVIOUS
<1>2. Span(0, j) = [x \in 1..1 |-> j * 1 + x - 1]
  BY <1>1 DEF Span
<1>3. Len(Span(0, j)) = 1 /\ Span(0, j) \in Seq(Nat) /\ Span(0, j)[1] = j
  BY <1>1, <1>2, SpanFacts
<1> QED BY <1>3 DEF LeafHash

\* A node covers what the two below it do, the left one first.
LEMMA SpanHalves ==
    ASSUME NEW k \in Nat, NEW j \in Nat
    PROVE  Span(k + 1, j) = MerkleParent(Span(k, 2 * j), Span(k, 2 * j + 1))
<1> DEFINE w == 2 ^ k
           a == Span(k, 2 * j)
           b == Span(k, 2 * j + 1)
           c == Span(k + 1, j)
<1>1. w \in Nat /\ w > 0 /\ 2 ^ (k + 1) = 2 * w
  BY PowerOfTwo
<1>2. /\ a \in Seq(Nat) /\ Len(a) = w /\ \A x \in 1..w : a[x] = (2 * j) * w + x - 1
      /\ b \in Seq(Nat) /\ Len(b) = w /\ \A x \in 1..w : b[x] = (2 * j + 1) * w + x - 1
  BY SpanFacts
<1>3. c \in Seq(Nat) /\ Len(c) = 2 * w /\ \A x \in 1..(2 * w) : c[x] = j * (2 * w) + x - 1
  <2>1. /\ Span(k + 1, j) \in Seq(Nat) /\ Len(Span(k + 1, j)) = 2 ^ (k + 1)
        /\ \A x \in 1..2 ^ (k + 1) : Span(k + 1, j)[x] = j * 2 ^ (k + 1) + x - 1
    <3>1. k + 1 \in Nat
      OBVIOUS
    <3> QED BY <3>1, SpanFacts
  <2> HIDE DEF w
  <2> QED BY <1>1, <2>1 DEF c
<1> HIDE DEF w, a, b, c
<1>4. /\ a \o b \in Seq(Nat) /\ Len(a \o b) = 2 * w
      /\ \A x \in 1..(2 * w) : (a \o b)[x] = IF x <= w THEN a[x] ELSE b[x - w]
  <2>1. w + w = 2 * w
    BY <1>1
  <2>2. /\ a \o b \in Seq(Nat) /\ Len(a \o b) = Len(a) + Len(b)
        /\ \A x \in 1..Len(a) + Len(b) : (a \o b)[x] = IF x <= Len(a) THEN a[x] ELSE b[x - Len(a)]
    BY <1>2, ConcatProperties
  <2>3. Len(a) = w /\ Len(a) + Len(b) = 2 * w
    BY <1>2, <2>1
  <2> HIDE DEF a, b
  <2> QED BY <2>2, <2>3
<1>5. ASSUME NEW x \in 1..(2 * w) PROVE c[x] = (a \o b)[x]
  <2>1. CASE x <= w
    BY <1>1, <1>2, <1>3, <1>4, <2>1
  <2>2. CASE x > w
    <3>0. x \in Int /\ ~(x <= w) /\ x - w \in 1..w
      BY <1>1, <2>2
    <3>1. x - w \in 1..w /\ (a \o b)[x] = b[x - w]
      BY <1>4, <3>0
    <3>2. b[x - w] = (2 * j + 1) * w + (x - w) - 1
      BY <1>2, <3>1
    <3> QED BY <1>1, <1>3, <3>1, <3>2
  <2>3. x <= w \/ x > w
    BY <1>1
  <2> QED BY <2>1, <2>2, <2>3
<1>6. c = a \o b
  BY <1>3, <1>4, <1>5, SeqEqual
<1> QED BY <1>6 DEF a, b, c, MerkleParent

LEMMA RowOfNodes ==
    ASSUME NEW k \in 0..Height
    PROVE  /\ NodeRow(k) \subseteq Nat /\ 0 \in NodeRow(Height)
           /\ k > 0 => \A j \in NodeRow(k) : 2 * j \in NodeRow(k - 1) /\ 2 * j + 1 \in NodeRow(k - 1)
<1> DEFINE w == 2 ^ (Height - k)
<1>1. w \in Nat /\ w > 0 /\ 2 ^ (Height - k + 1) = 2 * w
  <2>1. Height - k \in Nat
    BY MerkleAssumption
  <2> QED BY <2>1, PowerOfTwo
<1>2. 2 ^ (Height - (k - 1)) = 2 * w
  <2>1. Height - (k - 1) = Height - k + 1
    BY MerkleAssumption
  <2> QED BY <1>1, <2>1
<1>3. 0 \in NodeRow(Height)
  <2>1. Height - Height = 0 /\ 2 ^ 0 = 1
    BY MerkleAssumption
  <2>2. 2 ^ (Height - Height) = 1
    BY <2>1, Zenon
  <2> QED BY <2>2 DEF NodeRow
<1>4. NodeRow(k) = 0..(w - 1) /\ NodeRow(k - 1) = 0..(2 * w - 1)
  BY <1>2 DEF NodeRow
<1> HIDE DEF w
<1> QED BY <1>1, <1>3, <1>4

\* _build_merkle_tree puts at each height the nodes over the spans of that size.
LEMMA LevelsAre == \A k \in 0..Height : \A j \in NodeRow(k) : Levels[k][j] = Span(k, j)
<1> DEFINE Solves(level) ==
             level = [k \in 0..Height |-> [j \in 0..(2 ^ (Height - k) - 1) |->
                         IF k = 0 THEN LeafHash(j)
                         ELSE MerkleParent(level[k - 1][2 * j], level[k - 1][2 * j + 1])]]
           w == [k \in 0..Height |-> [j \in NodeRow(k) |-> Span(k, j)]]
<1>1. Height \in Nat
  BY MerkleAssumption
<1>2. ASSUME NEW k \in 0..Height, NEW j \in NodeRow(k)
      PROVE  Span(k, j) = IF k = 0 THEN LeafHash(j)
                          ELSE MerkleParent(w[k - 1][2 * j], w[k - 1][2 * j + 1])
  <2>1. j \in Nat
    BY RowOfNodes
  <2>2. CASE k = 0
    BY <2>1, <2>2, LeafSpan
  <2>3. CASE k # 0
    <3>1. k - 1 \in Nat /\ k - 1 \in 0..Height /\ k - 1 + 1 = k
      BY <1>1, <2>3
    <3>2. 2 * j \in NodeRow(k - 1) /\ 2 * j + 1 \in NodeRow(k - 1)
      BY <2>3, RowOfNodes
    <3>3. w[k - 1][2 * j] = Span(k - 1, 2 * j) /\ w[k - 1][2 * j + 1] = Span(k - 1, 2 * j + 1)
      BY <3>1, <3>2
    <3>4. Span(k - 1 + 1, j) = MerkleParent(Span(k - 1, 2 * j), Span(k - 1, 2 * j + 1))
      BY <2>1, <3>1, SpanHalves
    <3> QED BY <2>3, <3>1, <3>3, <3>4
  <2> QED BY <2>2, <2>3
<1>3. Solves(w)
  <2> DEFINE v == w
  <2>1. v = w
    OBVIOUS
  <2> HIDE DEF v
  <2>2. ASSUME NEW k \in 0..Height
        PROVE  [j \in NodeRow(k) |-> Span(k, j)]
               = [j \in 0..(2 ^ (Height - k) - 1) |->
                     IF k = 0 THEN LeafHash(j)
                     ELSE MerkleParent(v[k - 1][2 * j], v[k - 1][2 * j + 1])]
    <3>1. \A j \in NodeRow(k) : Span(k, j) = IF k = 0 THEN LeafHash(j)
                                ELSE MerkleParent(v[k - 1][2 * j], v[k - 1][2 * j + 1])
      BY <1>2, <2>1
    <3> QED BY <3>1, Zenon DEF NodeRow
  <2>3. Solves(v)
    BY <2>1, <2>2, Zenon
  <2> HIDE DEF Solves, w
  <2> QED BY <2>1, <2>3
<1>4. Solves(Levels)
  <2>1. Levels = CHOOSE level : Solves(level)
    BY DEF Levels
  <2> HIDE DEF Solves, w
  <2> QED BY <1>3, <2>1
<1>5. ASSUME NEW k \in 0..Height, NEW j \in NodeRow(k)
      PROVE  Levels[k][j] = IF k = 0 THEN LeafHash(j)
                            ELSE MerkleParent(Levels[k - 1][2 * j], Levels[k - 1][2 * j + 1])
  <2> DEFINE v == Levels
  <2>1. v = Levels
    OBVIOUS
  <2>2. v = [k_1 \in 0..Height |-> [j_1 \in NodeRow(k_1) |->
                IF k_1 = 0 THEN LeafHash(j_1)
                ELSE MerkleParent(v[k_1 - 1][2 * j_1], v[k_1 - 1][2 * j_1 + 1])]]
    BY <1>4, Zenon DEF NodeRow
  <2> HIDE DEF v
  <2>4. v[k] = [j_1 \in NodeRow(k) |-> IF k = 0 THEN LeafHash(j_1)
                ELSE MerkleParent(v[k - 1][2 * j_1], v[k - 1][2 * j_1 + 1])]
    BY <2>2, Zenon
  <2>3. v[k][j] = IF k = 0 THEN LeafHash(j)
                  ELSE MerkleParent(v[k - 1][2 * j], v[k - 1][2 * j + 1])
    BY <2>4, Zenon
  <2> QED BY <2>1, <2>3
<1> HIDE DEF Solves, w
<1> DEFINE T == {k \in Nat : k <= Height => \A j \in NodeRow(k) : Levels[k][j] = Span(k, j)}
<1>6. 0 \in T
  <2> SUFFICES ASSUME NEW j \in NodeRow(0) PROVE Levels[0][j] = Span(0, j)
    OBVIOUS
  <2>1. 0 \in 0..Height
    BY <1>1
  <2>2. j \in Nat
    BY <2>1, RowOfNodes
  <2> QED BY <1>5, <2>1, <2>2, LeafSpan
<1>7. ASSUME NEW k \in Nat, k \in T PROVE k + 1 \in T
  <2> SUFFICES ASSUME k + 1 <= Height, NEW j \in NodeRow(k + 1)
               PROVE  Levels[k + 1][j] = Span(k + 1, j)
    OBVIOUS
  <2>1. k \in 0..Height /\ k + 1 \in 0..Height /\ k + 1 - 1 = k /\ k + 1 > 0 /\ k + 1 # 0
    BY <1>1
  <2>2. 2 * j \in NodeRow(k) /\ 2 * j + 1 \in NodeRow(k) /\ j \in Nat
    BY <2>1, RowOfNodes
  <2>3. Levels[k][2 * j] = Span(k, 2 * j) /\ Levels[k][2 * j + 1] = Span(k, 2 * j + 1)
    BY <1>7, <2>1, <2>2
  <2>4. Levels[k + 1][j] = MerkleParent(Levels[k][2 * j], Levels[k][2 * j + 1])
    BY <1>5, <2>1
  <2> QED BY <2>2, <2>3, <2>4, SpanHalves
<1>8. \A k \in Nat : k \in T
  <2> HIDE DEF T
  <2> QED BY <1>6, <1>7, InductionOnNat
<1> QED BY <1>1, <1>8

-----------------------------------------------------------------------------
(* The way up from a leaf. *)

\* The node at height k, from the one below and the path.
UpNext(node, index, path, k) ==
    IF (index \div 2 ^ (k - 1)) % 2 = 0 THEN MerkleParent(node, path[k]) ELSE MerkleParent(path[k], node)

IsClimb(up, hash, index, path, n) ==
    up = [k \in 0..n |-> IF k = 0 THEN hash ELSE UpNext(up[k - 1], index, path, k)]

\* The recursion of RootFromAuthPath has a solution.
LEMMA ClimbExists ==
    ASSUME NEW hash, NEW index, NEW path
    PROVE  \A n \in Nat : \E up : IsClimb(up, hash, index, path, n)
<1> DEFINE T == {n \in Nat : \E up : IsClimb(up, hash, index, path, n)}
<1>1. 0 \in T
  <2> DEFINE a == [k \in 0..0 |-> hash]
  <2>1. a = [k \in 0..0 |-> IF k = 0 THEN hash ELSE UpNext(a[k - 1], index, path, k)]
    OBVIOUS
  <2> HIDE DEF a
  <2> QED BY <2>1 DEF IsClimb
<1>2. ASSUME NEW n \in Nat, n \in T PROVE n + 1 \in T
  <2>1. PICK w : w = [k \in 0..n |-> IF k = 0 THEN hash ELSE UpNext(w[k - 1], index, path, k)]
    BY <1>2 DEF IsClimb
  <2> DEFINE a == [k \in 0..(n + 1) |-> IF k <= n THEN w[k] ELSE UpNext(w[n], index, path, n + 1)]
  <2>2. \A k \in 0..n : a[k] = w[k]
    OBVIOUS
  <2>3. a[n + 1] = UpNext(w[n], index, path, n + 1)
    OBVIOUS
  <2>4. \A k \in 0..n : w[k] = IF k = 0 THEN hash ELSE UpNext(w[k - 1], index, path, k)
    BY <2>1
  <2>5. ASSUME NEW k \in 0..(n + 1)
        PROVE  a[k] = IF k = 0 THEN hash ELSE UpNext(a[k - 1], index, path, k)
    <3>1. CASE k = n + 1
      <4>1. k # 0 /\ k - 1 = n /\ n \in 0..n
        BY <3>1
      <4> HIDE DEF a
      <4> QED BY <3>1, <4>1, <2>2, <2>3
    <3>2. CASE k # n + 1
      <4>1. k \in 0..n /\ (k # 0 => k - 1 \in 0..n)
        BY <3>2
      <4> HIDE DEF a
      <4> QED BY <4>1, <2>2, <2>4
    <3> QED BY <3>1, <3>2
  <2>6. DOMAIN a = 0..(n + 1) /\ a = [k \in DOMAIN a |-> a[k]]
    OBVIOUS
  <2> HIDE DEF a
  <2>7. a = [k \in 0..(n + 1) |-> IF k = 0 THEN hash ELSE UpNext(a[k - 1], index, path, k)]
    BY <2>5, <2>6
  <2> QED BY <2>7 DEF IsClimb
<1> HIDE DEF T
<1>3. \A n \in Nat : n \in T
  BY <1>1, <1>2, InductionOnNat
<1> QED BY <1>3 DEF T

LEMMA RootIsClimb ==
    ASSUME NEW hash, NEW index, NEW path, Len(path) \in Nat
    PROVE  \E up : /\ RootFromAuthPath(hash, index, path) = up[Len(path)]
                   /\ up[0] = hash
                   /\ \A k \in 0..Len(path) : k # 0 => up[k] = UpNext(up[k - 1], index, path, k)
<1> DEFINE N == Len(path)
           a == CHOOSE up : up = [k \in 0..N |-> IF k = 0 THEN hash
                                   ELSE IF (index \div 2 ^ (k - 1)) % 2 = 0
                                        THEN MerkleParent(up[k - 1], path[k])
                                        ELSE MerkleParent(path[k], up[k - 1])]
<1>1. RootFromAuthPath(hash, index, path) = a[N]
  BY DEF RootFromAuthPath
<1>2. a = [k \in 0..N |-> IF k = 0 THEN hash
                          ELSE IF (index \div 2 ^ (k - 1)) % 2 = 0
                               THEN MerkleParent(a[k - 1], path[k])
                               ELSE MerkleParent(path[k], a[k - 1])]
  <2>1. \E up : IsClimb(up, hash, index, path, N)
    BY ClimbExists
  <2> QED BY <2>1, Zenon DEF IsClimb, UpNext
<1> HIDE DEF a, N
<1>3. a[0] = hash /\ \A k \in 0..N : k # 0 => a[k] = UpNext(a[k - 1], index, path, k)
  <2>1. N \in Nat
    BY DEF N
  <2>2. 0 \in 0..N
    BY <2>1
  <2> QED BY <1>2, <2>2, Zenon DEF UpNext
<1> QED BY <1>1, <1>3 DEF N

LEMMA PositionInRow ==
    ASSUME NEW leaf \in Leaf
    PROVE  /\ \A k \in 0..Height : Position(leaf, k) \in NodeRow(k)
           /\ Position(leaf, Height) = 0
           /\ \A k \in 0..(Height - 1) : Sibling(Position(leaf, k)) \in NodeRow(k)
<1>0. Height \in Nat /\ leaf \in Nat
  BY PowerOfTwo, MerkleAssumption DEF Leaf, LeafCount
<1> DEFINE T == {k \in Nat : k <= Height => Position(leaf, k) \in NodeRow(k)}
<1>1. 0 \in T
  <2>1. Position(leaf, 0) = leaf /\ Height - 0 = Height
    BY <1>0, PositionFacts
  <2>2. NodeRow(0) = Leaf
    BY <2>1, Zenon DEF NodeRow, Leaf, LeafCount
  <2> QED BY <2>1, <2>2
<1>2. ASSUME NEW k \in Nat, k + 1 <= Height
      PROVE  /\ 2 ^ (Height - (k + 1)) \in Nat /\ 2 ^ (Height - k) = 2 * 2 ^ (Height - (k + 1))
  <2>1. Height - (k + 1) \in Nat /\ Height - (k + 1) + 1 = Height - k
    BY <1>0, <1>2
  <2>2. 2 ^ (Height - (k + 1) + 1) = 2 * 2 ^ (Height - (k + 1)) /\ 2 ^ (Height - (k + 1)) \in Nat
    BY <2>1, PowerOfTwo
  <2> QED BY <2>1, <2>2, Zenon
<1>3. ASSUME NEW k \in Nat, k \in T PROVE k + 1 \in T
  <2> SUFFICES ASSUME k + 1 <= Height PROVE Position(leaf, k + 1) \in NodeRow(k + 1)
    OBVIOUS
  <2> DEFINE v == 2 ^ (Height - (k + 1))
  <2>1. v \in Nat /\ NodeRow(k) = 0..(2 * v - 1) /\ NodeRow(k + 1) = 0..(v - 1)
    BY <1>2 DEF NodeRow
  <2>2. Position(leaf, k) \in NodeRow(k)
    BY <1>0, <1>3
  <2>3. /\ Position(leaf, k) \in Nat /\ Position(leaf, k + 1) \in Nat
        /\ Position(leaf, k) = 2 * Position(leaf, k + 1) + (Position(leaf, k) % 2)
        /\ Position(leaf, k) % 2 \in {0, 1}
    BY PositionFacts
  <2> HIDE DEF v
  <2> QED BY <2>1, <2>2, <2>3
<1> HIDE DEF T
<1>4. \A k \in Nat : k \in T
  BY <1>1, <1>3, InductionOnNat
<1>5. \A k \in 0..Height : Position(leaf, k) \in NodeRow(k)
  BY <1>0, <1>4 DEF T
<1>6. Position(leaf, Height) = 0
  <2>1. Height \in 0..Height /\ Height - Height = 0 /\ 2 ^ 0 = 1
    BY <1>0
  <2>2. 2 ^ (Height - Height) = 1
    BY <2>1, Zenon
  <2>3. NodeRow(Height) = 0..0
    BY <2>2 DEF NodeRow
  <2>4. Position(leaf, Height) \in NodeRow(Height)
    BY <1>5, <2>1
  <2> QED BY <2>3, <2>4
<1>7. ASSUME NEW k \in 0..(Height - 1) PROVE Sibling(Position(leaf, k)) \in NodeRow(k)
  <2> DEFINE v == 2 ^ (Height - (k + 1))
  <2>1. v \in Nat /\ NodeRow(k) = 0..(2 * v - 1)
    BY <1>0, <1>2 DEF NodeRow
  <2>2. Position(leaf, k) \in NodeRow(k)
    BY <1>0, <1>5
  <2>3. /\ Position(leaf, k) \in Nat /\ Position(leaf, k + 1) \in Nat
        /\ Position(leaf, k) = 2 * Position(leaf, k + 1) + (Position(leaf, k) % 2)
        /\ Position(leaf, k) % 2 \in {0, 1}
    BY PositionFacts
  <2> HIDE DEF v
  <2> QED BY <2>1, <2>2, <2>3 DEF Sibling
<1> QED BY <1>5, <1>6, <1>7

LEMMA PathIs ==
    ASSUME NEW leaf \in Leaf
    PROVE  /\ Len(AuthPath(leaf)) = Height /\ Height \in Nat
           /\ \A k \in 1..Height : AuthPath(leaf)[k] = Span(k - 1, Sibling(Position(leaf, k - 1)))
           /\ \A k \in 1..Height : Sibling(Position(leaf, k - 1)) \in Nat
<1>0. Height \in Nat
  BY MerkleAssumption
<1>1. AuthPath(leaf) = [k \in 1..Height |-> Levels[k - 1][Sibling(Position(leaf, k - 1))]]
  BY DEF AuthPath, Position
<1>2. Len(AuthPath(leaf)) = Height
  BY <1>0, <1>1
<1>3. ASSUME NEW k \in 1..Height
      PROVE  /\ AuthPath(leaf)[k] = Span(k - 1, Sibling(Position(leaf, k - 1)))
             /\ Sibling(Position(leaf, k - 1)) \in Nat
  <2>1. k - 1 \in 0..(Height - 1) /\ k - 1 \in 0..Height
    BY <1>0
  <2>2. Sibling(Position(leaf, k - 1)) \in NodeRow(k - 1)
    BY <2>1, PositionInRow
  <2> QED BY <1>1, <2>1, <2>2, LevelsAre, RowOfNodes
<1> QED BY <1>0, <1>2, <1>3

\* Where v is in the hash of the node over index at height k, if it is leaf z.
HoldsAt(node, index, k, z, v) ==
    /\ z - Position(index, k) * 2 ^ k \in 0..(2 ^ k - 1)
    /\ node[z - Position(index, k) * 2 ^ k + 1] = v

HashAt(node, k) == node \in Seq(Nat) /\ Len(node) = 2 ^ k

\* One step up leaves what is in the hash at the place of its leaf.
LEMMA HoldsUp ==
    ASSUME NEW index \in Leaf, NEW path, NEW k \in Nat, NEW node,
           HashAt(node, k), HashAt(path[k + 1], k)
    PROVE  /\ HashAt(UpNext(node, index, path, k + 1), k + 1)
           /\ \A z \in Int : \A v : HoldsAt(node, index, k, z, v)
                              => HoldsAt(UpNext(node, index, path, k + 1), index, k + 1, z, v)
<1> DEFINE w == 2 ^ k
           p == Position(index, k)
           q == Position(index, k + 1)
           sib == path[k + 1]
           up == UpNext(node, index, path, k + 1)
<1>1. w \in Nat /\ w > 0 /\ 2 ^ (k + 1) = 2 * w /\ k + 1 - 1 = k
  BY PowerOfTwo
<1>2. p \in Nat /\ q \in Nat /\ p % 2 \in {0, 1} /\ p = 2 * q + (p % 2)
  <2>1. k + 1 \in Nat
    OBVIOUS
  <2> QED BY <2>1, PositionFacts
<1>3. up = IF p % 2 = 0 THEN node \o sib ELSE sib \o node
  BY <1>1 DEF UpNext, MerkleParent, Position
<1>4. node \in Seq(Nat) /\ Len(node) = w /\ sib \in Seq(Nat) /\ Len(sib) = w
  BY DEF HashAt
<1>5. \A z, v : HoldsAt(node, index, k, z, v) <=> z - p * w \in 0..(w - 1) /\ node[z - p * w + 1] = v
  BY DEF HoldsAt
<1>6. \A z, v : HoldsAt(up, index, k + 1, z, v)
                 <=> z - q * (2 * w) \in 0..(2 * w - 1) /\ up[z - q * (2 * w) + 1] = v
  BY <1>1 DEF HoldsAt
<1>7. HashAt(up, k + 1) <=> up \in Seq(Nat) /\ Len(up) = 2 * w
  BY <1>1 DEF HashAt
<1> HIDE DEF w, p, q, sib, up
<1>8. /\ node \o sib \in Seq(Nat) /\ Len(node \o sib) = Len(node) + Len(sib)
      /\ \A x \in 1..Len(node) + Len(sib) :
            (node \o sib)[x] = IF x <= Len(node) THEN node[x] ELSE sib[x - Len(node)]
      /\ sib \o node \in Seq(Nat) /\ Len(sib \o node) = Len(sib) + Len(node)
      /\ \A x \in 1..Len(sib) + Len(node) :
            (sib \o node)[x] = IF x <= Len(sib) THEN sib[x] ELSE node[x - Len(sib)]
  BY <1>4, ConcatProperties
<1>9. w + w = 2 * w
  BY <1>1
<1>10. HashAt(up, k + 1)
  BY <1>3, <1>4, <1>7, <1>8, <1>9
<1>11. ASSUME NEW z \in Int, NEW v, HoldsAt(node, index, k, z, v)
       PROVE  HoldsAt(up, index, k + 1, z, v)
  <2> DEFINE o == z - p * w
  <2>1. o \in 0..(w - 1) /\ node[o + 1] = v
    BY <1>5, <1>11
  <2>2. CASE p % 2 = 0
    <3>1. z - q * (2 * w) = o
      <4>1. p = 2 * q
        BY <1>2, <2>2
      <4> QED BY <1>1, <1>2, <4>1
    <3> HIDE DEF o
    <3>2. o + 1 \in 1..Len(node) + Len(sib) /\ o + 1 <= Len(node)
      BY <1>1, <1>4, <2>1
    <3>3. up[o + 1] = node[o + 1]
      BY <1>3, <1>8, <2>2, <3>2
    <3> QED BY <1>1, <1>6, <2>1, <3>1, <3>3
  <2>3. CASE p % 2 = 1
    <3>1. z - q * (2 * w) = o + w
      <4>1. p = 2 * q + 1
        BY <1>2, <2>3
      <4> QED BY <1>1, <1>2, <4>1
    <3> HIDE DEF o
    <3>2. /\ o + w + 1 \in 1..Len(sib) + Len(node) /\ ~(o + w + 1 <= Len(sib))
          /\ o + w + 1 - Len(sib) = o + 1 /\ o + w \in 0..(2 * w - 1)
      <4>1. Len(node) = w /\ Len(sib) = w /\ o \in 0..(w - 1) /\ w \in Nat
        BY <1>1, <1>4, <2>1
      <4> QED BY <4>1
    <3>3. up[o + w + 1] = node[o + 1]
      BY <1>3, <1>8, <2>3, <3>2
    <3> QED BY <1>6, <2>1, <3>1, <3>2, <3>3
  <2> QED BY <1>2, <2>2, <2>3
<1> QED BY <1>10, <1>11 DEF up

\* A leaf's own index and path lead to the root.
LEMMA OwnPathProves ==
    ASSUME NEW leaf \in Leaf
    PROVE  RootFromAuthPath(LeafHash(leaf), leaf, AuthPath(leaf)) = Root
<1> DEFINE path == AuthPath(leaf)
<1>0. Height \in Nat /\ Len(path) = Height /\ leaf \in Nat
  BY PathIs, PowerOfTwo DEF Leaf, LeafCount
<1>1. PICK up : /\ RootFromAuthPath(LeafHash(leaf), leaf, path) = up[Height]
                /\ up[0] = LeafHash(leaf)
                /\ \A k \in 0..Height : k # 0 => up[k] = UpNext(up[k - 1], leaf, path, k)
  <2> HIDE DEF path
  <2> QED BY <1>0, RootIsClimb
<1> DEFINE T == {k \in Nat : k <= Height => up[k] = Span(k, Position(leaf, k))}
<1>2. 0 \in T
  <2>1. Position(leaf, 0) = leaf
    BY PositionFacts
  <2> QED BY <1>0, <1>1, <2>1, LeafSpan
<1>3. ASSUME NEW k \in Nat, k \in T PROVE k + 1 \in T
  <2> SUFFICES ASSUME k + 1 <= Height PROVE up[k + 1] = Span(k + 1, Position(leaf, k + 1))
    OBVIOUS
  <2> DEFINE p == Position(leaf, k)
             q == Position(leaf, k + 1)
  <2>1. p \in Nat /\ q \in Nat /\ p = 2 * q + (p % 2) /\ p % 2 \in {0, 1}
    BY PositionFacts
  <2>2. k + 1 - 1 = k /\ k + 1 \in 0..Height /\ k + 1 # 0 /\ k + 1 \in 1..Height
    BY <1>0
  <2>3. up[k] = Span(k, p)
    BY <1>0, <1>3
  <2>4. path[k + 1] = Span(k, Sibling(p))
    BY <2>2, PathIs
  <2>5. up[k + 1] = UpNext(up[k], leaf, path, k + 1)
    BY <1>1, <2>2
  <2>6. up[k + 1] = IF p % 2 = 0 THEN MerkleParent(Span(k, p), Span(k, Sibling(p)))
                    ELSE MerkleParent(Span(k, Sibling(p)), Span(k, p))
    BY <2>2, <2>3, <2>4, <2>5 DEF UpNext, Position
  <2>7. Span(k + 1, q) = MerkleParent(Span(k, 2 * q), Span(k, 2 * q + 1))
    BY <2>1, SpanHalves
  <2> HIDE DEF p, q
  <2>8. CASE p % 2 = 0
    <3>1. p = 2 * q /\ Sibling(p) = 2 * q + 1
      BY <2>1, <2>8 DEF Sibling
    <3>2. up[k + 1] = MerkleParent(Span(k, p), Span(k, Sibling(p)))
      BY <2>6, <2>8
    <3> QED BY <2>7, <3>1, <3>2 DEF q
  <2>9. CASE p % 2 = 1
    <3>1. p = 2 * q + 1 /\ Sibling(p) = 2 * q
      BY <2>1, <2>9 DEF Sibling
    <3>2. up[k + 1] = MerkleParent(Span(k, Sibling(p)), Span(k, p))
      BY <2>6, <2>9
    <3> QED BY <2>7, <3>1, <3>2 DEF q
  <2> QED BY <2>1, <2>8, <2>9
<1> HIDE DEF T, path
<1>4. \A k \in Nat : k \in T
  BY <1>2, <1>3, InductionOnNat
<1>5. up[Height] = Span(Height, 0)
  BY <1>0, <1>4, PositionInRow DEF T
<1>6. Levels[Height][0] = Span(Height, 0)
  BY <1>0, LevelsAre, RowOfNodes
<1> QED BY <1>1, <1>5, <1>6 DEF Root, path

LEMMA TwoLeaves ==
    ASSUME NEW x \in Nat, NEW y \in Nat
    PROVE  <<x>> \o <<y>> = <<x, y>>
<1> DEFINE a == <<x>>
           b == <<y>>
           c == <<x, y>>
<1>1. /\ a \in Seq(Nat) /\ Len(a) = 1 /\ a[1] = x /\ b \in Seq(Nat) /\ Len(b) = 1 /\ b[1] = y
      /\ c \in Seq(Nat) /\ Len(c) = 2 /\ c[1] = x /\ c[2] = y
  OBVIOUS
<1> HIDE DEF a, b, c
<1>2. /\ a \o b \in Seq(Nat) /\ Len(a \o b) = Len(a) + Len(b)
      /\ \A i \in 1..Len(a) + Len(b) : (a \o b)[i] = IF i <= Len(a) THEN a[i] ELSE b[i - Len(a)]
  BY <1>1, ConcatProperties
<1>3. \A i \in 1..2 : (a \o b)[i] = c[i]
  BY <1>1, <1>2
<1>4. a \o b = c
  BY <1>1, <1>2, <1>3, SeqEqual
<1> QED BY <1>4 DEF a, b, c

\* No other index or path does.
LEMMA OthersFail ==
    ASSUME NEW leaf \in Leaf, NEW index \in Leaf, NEW other \in Leaf,
           RootFromAuthPath(LeafHash(leaf), index, AuthPath(other)) = Root
    PROVE  index = leaf /\ other = leaf
<1> DEFINE path == AuthPath(other)
<1>0. /\ Height \in Nat /\ Height > 0 /\ Len(path) = Height
      /\ leaf \in Nat /\ index \in Nat /\ other \in Nat /\ 0 \in Nat
  BY PathIs, PowerOfTwo, MerkleAssumption DEF Leaf, LeafCount
<1>1. PICK up : /\ Root = up[Height]
                /\ up[0] = LeafHash(leaf)
                /\ \A k \in 0..Height : k # 0 => up[k] = UpNext(up[k - 1], index, path, k)
  <2>1. RootFromAuthPath(LeafHash(leaf), index, path) = Root
    OBVIOUS
  <2> HIDE DEF path
  <2> QED BY <1>0, <2>1, RootIsClimb
<1>2. \A k \in Nat : k + 1 <= Height =>
          /\ HashAt(path[k + 1], k) /\ path[k + 1] = Span(k, Sibling(Position(other, k)))
          /\ up[k + 1] = UpNext(up[k], index, path, k + 1)
  <2> SUFFICES ASSUME NEW k \in Nat, k + 1 <= Height
               PROVE  /\ HashAt(path[k + 1], k)
                      /\ path[k + 1] = Span(k, Sibling(Position(other, k)))
                      /\ up[k + 1] = UpNext(up[k], index, path, k + 1)
    OBVIOUS
  <2>1. k + 1 \in 1..Height /\ k + 1 - 1 = k /\ k + 1 \in 0..Height /\ k + 1 # 0
    BY <1>0
  <2>2. path[k + 1] = Span(k, Sibling(Position(other, k))) /\ Sibling(Position(other, k)) \in Nat
    BY <2>1, PathIs
  <2>3. HashAt(path[k + 1], k)
    BY <2>2, SpanFacts DEF HashAt
  <2> QED BY <1>1, <2>1, <2>2, <2>3
<1> HIDE DEF path
<1>3. HashAt(up[0], 0) /\ HoldsAt(up[0], index, 0, index, leaf)
  <2>1. 2 ^ 0 = 1 /\ Position(index, 0) = index
    BY PositionFacts
  <2>2. up[0] = <<leaf>>
    BY <1>1 DEF LeafHash
  <2>3. up[0] \in Seq(Nat) /\ Len(up[0]) = 1 /\ up[0][1] = leaf
    BY <1>0, <2>2
  <2>4. index - Position(index, 0) * 1 = 0
    BY <1>0, <2>1
  <2>5. index - Position(index, 0) * 2 ^ 0 = 0 /\ 2 ^ 0 - 1 = 0
    BY <2>1, <2>4
  <2>6. HoldsAt(up[0], index, 0, index, leaf)
    BY <2>3, <2>5 DEF HoldsAt
  <2>7. HashAt(up[0], 0)
    BY <2>1, <2>3 DEF HashAt
  <2> QED BY <2>6, <2>7
<1>4. HashAt(up[1], 1) /\ HoldsAt(up[1], index, 1, index, leaf)
      /\ HoldsAt(up[1], index, 1, Sibling(index), Sibling(other))
  <2>1. /\ Position(index, 0) = index /\ Position(other, 0) = other
        /\ index = 2 * Position(index, 1) + (index % 2) /\ index % 2 \in {0, 1}
        /\ Position(index, 1) \in Nat /\ 2 ^ 1 = 2 /\ 2 ^ 0 = 1
    <3>1. 0 + 1 = 1 /\ 1 \in Nat /\ 2 ^ 1 = 2 /\ 2 ^ 0 = 1
      OBVIOUS
    <3>2. /\ Position(index, 0) = 2 * Position(index, 0 + 1) + (Position(index, 0) % 2)
          /\ Position(index, 0) % 2 \in {0, 1} /\ Position(index, 0) = index
          /\ Position(other, 0) = other
      BY <1>0, PositionFacts
    <3>3. index = 2 * Position(index, 1) + (index % 2) /\ index % 2 \in {0, 1}
      BY <3>1, <3>2, Zenon
    <3>4. Position(index, 1) \in Nat
      BY <3>1, PositionFacts
    <3> QED BY <3>1, <3>2, <3>3, <3>4
  <2>2. /\ 0 + 1 <= Height /\ 0 + 1 = 1
    BY <1>0
  <2>3. /\ HashAt(path[1], 0) /\ path[1] = Span(0, Sibling(other))
        /\ up[1] = UpNext(up[0], index, path, 1)
    BY <1>0, <1>2, <2>1, <2>2
  <2>4. HashAt(up[1], 1) /\ HoldsAt(up[1], index, 1, index, leaf)
    <3>1. index \in Int
      BY <1>0
    <3> QED BY <1>0, <1>3, <2>2, <2>3, <3>1, HoldsUp
  <2>5. Sibling(other) \in Nat
    <3>1. 0 \in 0..(Height - 1) /\ 0 \in 0..Height
      BY <1>0
    <3>2. Sibling(Position(other, 0)) \in NodeRow(0) /\ NodeRow(0) \subseteq Nat
      BY <3>1, PositionInRow, RowOfNodes
    <3> QED BY <2>1, <3>2
  <2>6. path[1] = <<Sibling(other)>> /\ up[0] = <<leaf>>
    BY <1>1, <2>3, <2>5, LeafSpan DEF LeafHash
  <2>7. index \div 2 ^ (1 - 1) = index
    BY <2>1 DEF Position
  <2>8. up[1] = IF index % 2 = 0 THEN <<leaf, Sibling(other)>> ELSE <<Sibling(other), leaf>>
    <3>1. <<leaf>> \o <<Sibling(other)>> = <<leaf, Sibling(other)>>
          /\ <<Sibling(other)>> \o <<leaf>> = <<Sibling(other), leaf>>
      BY <1>0, <2>5, TwoLeaves
    <3>2. up[1] = IF index % 2 = 0 THEN <<leaf>> \o <<Sibling(other)>>
                  ELSE <<Sibling(other)>> \o <<leaf>>
      BY <2>3, <2>6, <2>7, Zenon DEF UpNext, MerkleParent
    <3> QED BY <3>1, <3>2, Zenon
  <2>9. Sibling(index) - Position(index, 1) * 2 = IF index % 2 = 0 THEN 1 ELSE 0
    BY <1>0, <2>1 DEF Sibling
  <2>10. HoldsAt(up[1], index, 1, Sibling(index), Sibling(other))
    <3>1. Sibling(index) - Position(index, 1) * 2 ^ 1 = IF index % 2 = 0 THEN 1 ELSE 0
      BY <2>1, <2>9
    <3>2. 2 ^ 1 - 1 = 1
      BY <2>1
    <3>3. CASE index % 2 = 0
      <4>1. up[1][2] = Sibling(other) /\ Sibling(index) - Position(index, 1) * 2 ^ 1 = 1
        BY <2>8, <3>1, <3>3
      <4> QED BY <3>2, <4>1 DEF HoldsAt
    <3>4. CASE index % 2 = 1
      <4>1. up[1][1] = Sibling(other) /\ Sibling(index) - Position(index, 1) * 2 ^ 1 = 0
        BY <2>8, <3>1, <3>4
      <4> QED BY <3>2, <4>1 DEF HoldsAt
    <3> QED BY <2>1, <3>3, <3>4
  <2> QED BY <2>4, <2>10
<1> DEFINE T == {k \in Nat : k + 1 <= Height =>
                   /\ HashAt(up[k + 1], k + 1) /\ HoldsAt(up[k + 1], index, k + 1, index, leaf)
                   /\ HoldsAt(up[k + 1], index, k + 1, Sibling(index), Sibling(other))}
<1>5. 0 \in T
  <2>1. 0 + 1 = 1
    OBVIOUS
  <2> QED BY <1>4, <2>1
<1>6. index \in Int /\ Sibling(index) \in Int
  BY <1>0 DEF Sibling
<1>7. ASSUME NEW k \in Nat, k \in T PROVE k + 1 \in T
  <2> SUFFICES ASSUME k + 1 + 1 <= Height
               PROVE  /\ HashAt(up[k + 1 + 1], k + 1 + 1)
                      /\ HoldsAt(up[k + 1 + 1], index, k + 1 + 1, index, leaf)
                      /\ HoldsAt(up[k + 1 + 1], index, k + 1 + 1, Sibling(index), Sibling(other))
    OBVIOUS
  <2>1. /\ HashAt(up[k + 1], k + 1) /\ HoldsAt(up[k + 1], index, k + 1, index, leaf)
        /\ HoldsAt(up[k + 1], index, k + 1, Sibling(index), Sibling(other))
    BY <1>0, <1>7
  <2>2. k + 1 \in Nat
    OBVIOUS
  <2> DEFINE m == k + 1
  <2> HIDE DEF T, m
  <2>3. m \in Nat /\ m + 1 <= Height
    BY <2>2 DEF m
  <2>4. HashAt(path[m + 1], m) /\ up[m + 1] = UpNext(up[m], index, path, m + 1)
    BY <1>2, <2>3
  <2>5. /\ HashAt(up[m], m) /\ HoldsAt(up[m], index, m, index, leaf)
        /\ HoldsAt(up[m], index, m, Sibling(index), Sibling(other))
    BY <2>1 DEF m
  <2>6. /\ HashAt(up[m + 1], m + 1)
        /\ HoldsAt(up[m + 1], index, m + 1, index, leaf)
        /\ HoldsAt(up[m + 1], index, m + 1, Sibling(index), Sibling(other))
    BY <1>6, <2>3, <2>4, <2>5, HoldsUp
  <2> QED BY <2>6 DEF m
<1> HIDE DEF T
<1>8. \A k \in Nat : k \in T
  BY <1>5, <1>7, InductionOnNat
<1>9. /\ HoldsAt(Root, index, Height, index, leaf)
      /\ HoldsAt(Root, index, Height, Sibling(index), Sibling(other))
  <2>1. Height - 1 \in Nat /\ Height - 1 + 1 = Height
    BY <1>0
  <2>2. Height - 1 \in T
    BY <1>8, <2>1
  <2> QED BY <1>0, <1>1, <2>1, <2>2 DEF T
<1>10. Root = Span(Height, 0)
  BY <1>0, LevelsAre, RowOfNodes DEF Root
<1>11. Position(index, Height) = 0
  BY PositionInRow
<1>12. ASSUME NEW z \in Int, NEW v, HoldsAt(Root, index, Height, z, v) PROVE v = z
  <2> DEFINE w == 2 ^ Height
  <2>1. w \in Nat
    BY <1>0, PowerOfTwo
  <2>2. \A x \in 1..w : Root[x] = 0 * w + x - 1
    <3>1. \A x \in 1..2 ^ Height : Span(Height, 0)[x] = 0 * 2 ^ Height + x - 1
      BY <1>0, SpanFacts
    <3> QED BY <1>10, <3>1
  <2>3. z - 0 * w \in 0..(w - 1) /\ Root[z - 0 * w + 1] = v
    BY <1>11, <1>12 DEF HoldsAt
  <2> HIDE DEF w
  <2>4. z - 0 * w = z /\ z + 1 \in 1..w
    BY <2>1, <2>3
  <2>5. Root[z + 1] = v /\ Root[z + 1] = 0 * w + (z + 1) - 1
    BY <2>2, <2>3, <2>4
  <2> QED BY <2>1, <2>5
<1>13. index = leaf /\ Sibling(index) = Sibling(other)
  BY <1>6, <1>9, <1>12
<1> QED BY <1>0, <1>13 DEF Sibling

-----------------------------------------------------------------------------
\* A signature that was made is the one of its leaf and digest.
AsSigned(p) == \E leaf \in Leaf, digest \in Digests : p = <<digest, SignatureOf(leaf, digest)>>

SignedInv == \A p \in made \cup published : AsSigned(p)

LEMMA SignedStep == SignedInv /\ [MerkleNext]_merkleVars => SignedInv'
<1> SUFFICES ASSUME SignedInv, [MerkleNext]_merkleVars PROVE SignedInv'
  OBVIOUS
<1> USE DEF SignedInv, AsSigned
<1>1. ASSUME NEW token \in Token, NEW leaf \in Leaf, NEW digest \in Signed,
             SignWithReservation(token, leaf, digest)
      PROVE  SignedInv'
  <2>1. digest \in Digests
    BY MerkleAssumption
  <2> QED BY <1>1, <2>1 DEF SignWithReservation
<1>2. ASSUME ReserveToken \/ Store \/ Reload \/ UNCHANGED merkleVars PROVE SignedInv'
  BY <1>2 DEF ReserveToken, Store, Reload, merkleVars
<1> QED BY <1>1, <1>2 DEF MerkleNext

LEMMA SecretsOfOneDigest ==
    ASSUME NEW leaf, NEW a \in Digests, NEW b \in Digests
    PROVE  LamportVerify(b, LamportSign(leaf, a), leaf) <=> a = b
<1>1. HashBits \in Nat
  BY MerkleAssumption
<1>2. Len(LamportSign(leaf, a)) = HashBits
  BY <1>1 DEF LamportSign
<1>3. \A i \in 1..HashBits : LamportSign(leaf, a)[i] = <<leaf, i, b[i]>> <=> a[i] = b[i]
  BY DEF LamportSign
<1>4. a = [i \in 1..HashBits |-> a[i]] /\ b = [i \in 1..HashBits |-> b[i]]
  BY Zenon DEF Digests
<1>5. (\A i \in 1..HashBits : a[i] = b[i]) <=> a = b
  BY <1>4, Zenon
<1> QED BY <1>2, <1>3, <1>5 DEF LamportVerify

\* A signature presented under another index and path.
Presented(s, index, path) == [s EXCEPT !.leaf_index = index, !.auth_path = path]

LEMMA PresentedIs ==
    ASSUME NEW leaf, NEW lamport, NEW own, NEW index, NEW path
    PROVE  Presented([leaf_index |-> leaf, leaf_public_key |-> leaf, lamport_signature |-> lamport,
                      auth_path |-> own], index, path)
           = [leaf_index |-> index, leaf_public_key |-> leaf, lamport_signature |-> lamport,
              auth_path |-> path]
<1> DEFINE Shape == [leaf_index : {leaf, index}, leaf_public_key : {leaf},
                     lamport_signature : {lamport}, auth_path : {own, path}]
           s == [leaf_index |-> leaf, leaf_public_key |-> leaf, lamport_signature |-> lamport,
                 auth_path |-> own]
           r == [leaf_index |-> index, leaf_public_key |-> leaf, lamport_signature |-> lamport,
                 auth_path |-> own]
<1>1. Presented(s, index, path) = [[s EXCEPT !.leaf_index = index] EXCEPT !.auth_path = path]
  BY DEF Presented
<1>2. s \in Shape /\ r \in Shape
  OBVIOUS
<1>3. [s EXCEPT !.leaf_index = index] = r
  BY <1>2
<1>4. [r EXCEPT !.auth_path = path]
      = [leaf_index |-> index, leaf_public_key |-> leaf, lamport_signature |-> lamport,
         auth_path |-> path]
  BY <1>2
<1> QED BY <1>1, <1>3, <1>4

LEMMA VerifiesAsItself ==
    ASSUME NEW leaf \in Leaf, NEW digest \in Digests,
           NEW index \in -1..(2 * LeafCount), NEW other \in Leaf, NEW d \in Digests
    PROVE  Verify(d, Presented(SignatureOf(leaf, digest), index, AuthPath(other)), Height, Root)
           <=> index = leaf /\ other = leaf /\ d = digest
<1> DEFINE s == [leaf_index |-> index, leaf_public_key |-> leaf,
                 lamport_signature |-> LamportSign(leaf, digest), auth_path |-> AuthPath(other)]
<1>1. Presented(SignatureOf(leaf, digest), index, AuthPath(other)) = s
  BY PresentedIs DEF SignatureOf
<1>2. Verify(d, s, Height, Root) <=>
          /\ index >= 0 /\ index < 2 ^ Height
          /\ Len(AuthPath(other)) = Height
          /\ LamportVerify(d, LamportSign(leaf, digest), leaf)
          /\ RootFromAuthPath(LeafHash(leaf), index, AuthPath(other)) = Root
  BY Zenon DEF Verify
<1>3. Len(AuthPath(other)) = Height /\ (LamportVerify(d, LamportSign(leaf, digest), leaf) <=> d = digest)
  BY PathIs, SecretsOfOneDigest
<1>4. LeafCount \in Nat /\ 2 ^ Height = LeafCount /\ leaf \in 0..(LeafCount - 1) /\ index \in Int
  BY PowerOfTwo, MerkleAssumption DEF LeafCount, Leaf
<1>5. index >= 0 /\ index < 2 ^ Height <=> index \in Leaf
  BY <1>4 DEF Leaf
<1>6. index = leaf /\ other = leaf =>
          index \in Leaf /\ RootFromAuthPath(LeafHash(leaf), index, AuthPath(other)) = Root
  BY OwnPathProves
<1>7. index \in Leaf /\ RootFromAuthPath(LeafHash(leaf), index, AuthPath(other)) = Root
      => index = leaf /\ other = leaf
  BY OthersFail
<1> HIDE DEF s
<1> QED BY <1>1, <1>2, <1>3, <1>5, <1>6, <1>7

\* A published signature verifies, for trees of every height and digests of every length, and
\* only as what was signed: no index past the leaves and no other path stands for its leaf
\* (_root_from_auth_path, crypto.py).
THEOREM OneReading == MerkleSpec => []OneIndexPerSignature
<1>1. MerkleInit => SignedInv
  BY DEF MerkleInit, SignedInv
<1>2. SignedInv => OneIndexPerSignature
  <2> SUFFICES ASSUME SignedInv, NEW p \in published, NEW index \in -1..(2 * LeafCount),
                      NEW leaf \in Leaf, NEW digest \in Digests
               PROVE  Verify(digest, Presented(p[2], index, AuthPath(leaf)), Height, Root)
                      <=> index = p[2].leaf_index /\ leaf = p[2].leaf_index /\ digest = p[1]
    BY Zenon DEF OneIndexPerSignature, Presented
  <2>1. PICK own \in Leaf, d \in Digests : p = <<d, SignatureOf(own, d)>>
    BY DEF SignedInv, AsSigned
  <2>2. p[1] = d /\ p[2] = SignatureOf(own, d)
    BY <2>1
  <2>3. p[2].leaf_index = own
    BY <2>2 DEF SignatureOf
  <2>4. Verify(digest, Presented(SignatureOf(own, d), index, AuthPath(leaf)), Height, Root)
        <=> index = own /\ leaf = own /\ digest = d
    BY VerifiesAsItself
  <2> QED BY <2>2, <2>3, <2>4
<1> QED BY <1>1, <1>2, SignedStep, PTL DEF MerkleSpec

--------------------------------------------------------------------------------
(* Inputs verified. *)

ManyProcessors == \A n \in Host : Cpus[n] >= 2

\* What is known at each stage of a call.
VerificationInv ==
    /\ host \in Host /\ transfer \in Transfers
    /\ stage \in {"called", "batch", "python", "pool", "rust", "answered"}
    /\ stage \in {"batch", "python", "pool", "rust"} => \A i \in Inputs : ~Unusable(i)
    /\ stage = "rust" => transfer.native /\ Extension[host] /\ \A i \in Inputs : InputAt(i).owned
    /\ stage \in {"called", "batch", "python"} => finished = {} /\ refuted = {}
    /\ stage \in {"pool", "rust"} => refuted = {i \in finished : ~VerifyOneInput(i)}
    /\ VerdictRight /\ FirstFailureNamed

\* A transfer has an input, and inputs are counted from one.
LEMMA SomeInput ==
    ASSUME transfer \in Transfers
    PROVE  /\ Len(transfer.inputs) \in Nat \ {0} /\ 1 \in Inputs
           /\ \A i \in Inputs : i \in Nat /\ i >= 1 /\ i <= Len(transfer.inputs)
<1>1. transfer.inputs \in Seq(Input) /\ transfer.inputs # <<>>
  BY VerificationAssumption
<1>2. Len(transfer.inputs) \in Nat /\ Len(transfer.inputs) # 0
  BY <1>1
<1> QED BY <1>2 DEF Inputs

LEMMA SameCall ==
    ASSUME UNCHANGED <<host, transfer>>
    PROVE  /\ Inputs' = Inputs
           /\ \A i : /\ InputAt(i)' = InputAt(i) /\ Unusable(i)' = Unusable(i)
                     /\ VerifyOneInput(i)' = VerifyOneInput(i)
                     /\ SignatureHolds(i)' = SignatureHolds(i)
BY DEF Inputs, InputAt, Unusable, VerifyOneInput, SignatureHolds

\* The answers a call may give: the two properties, of an answer to be.
Right(verified) == verified <=> \A i \in Inputs : ~Unusable(i) /\ VerifyOneInput(i)
Named(i) ==
    LET unusable == {j \in Inputs : Unusable(j)}
    IN  \/ IsFirst(i, unusable)
        \/ unusable = {} /\ IsFirst(i, {j \in Inputs : ~VerifyOneInput(j)})
        \/ /\ unusable = {} /\ transfer.native
           /\ IsFirst(i, {j \in Inputs : ~InputAt(j).owned})

LEMMA ReplyKeeps ==
    ASSUME VerificationInv, NEW v \in BOOLEAN, NEW i, Reply(v, i),
           UNCHANGED <<host, transfer, running, finished, refuted>>,
           Right(v), ~v => Named(i)
    PROVE  VerificationInv'
<1>1. stage' = "answered" /\ answer'.verified = v /\ answer'.named = i
  BY DEF Reply, Answer
<1>2. VerdictRight'
  BY <1>1, SameCall DEF Right, VerdictRight
<1>3. FirstFailureNamed'
  BY <1>1, SameCall DEF Named, FirstFailureNamed, IsFirst
<1> QED BY <1>1, <1>2, <1>3 DEF VerificationInv

LEMMA PrecheckKeeps ==
    ASSUME VerificationInv, Precheck
    PROVE  VerificationInv'
<1>1. CASE \E i \in Inputs : IsFirst(i, {j \in Inputs : Unusable(j)}) /\ Reply(FALSE, i)
  <2>1. PICK i \in Inputs : IsFirst(i, {j \in Inputs : Unusable(j)}) /\ Reply(FALSE, i)
    BY <1>1
  <2>2. Right(FALSE) /\ Named(i)
    BY <2>1 DEF Right, Named, IsFirst
  <2> QED BY <2>1, <2>2, ReplyKeeps DEF Precheck
<1>2. CASE (\A i \in Inputs : ~Unusable(i)) /\ stage' = "batch" /\ UNCHANGED answer
  BY <1>2, SameCall DEF VerificationInv, Precheck, VerdictRight, FirstFailureNamed
<1> QED BY <1>1, <1>2 DEF Precheck

LEMMA NativeBatchKeeps ==
    ASSUME VerificationInv, NativeBatch
    PROVE  VerificationInv'
<1>1. UNCHANGED <<host, transfer, running, finished, refuted>> /\ stage = "batch"
  BY DEF NativeBatch
<1>2. (\A i \in Inputs : ~Unusable(i)) /\ finished = {} /\ refuted = {}
  BY <1>1 DEF VerificationInv
<1>3. CASE stage' = "python" /\ UNCHANGED answer
  BY <1>1, <1>2, <1>3, SameCall DEF VerificationInv, VerdictRight, FirstFailureNamed
<1>4. CASE /\ transfer.native /\ \A i \in Inputs : Batchable(i)
           /\ BatchRuns /\ stage' = "rust" /\ UNCHANGED answer
  BY <1>1, <1>2, <1>4, SameCall DEF VerificationInv, VerdictRight, FirstFailureNamed, Batchable,
                                         BatchRuns
<1>5. CASE \E i \in Inputs : /\ transfer.native /\ IsFirst(i, {j \in Inputs : ~Batchable(j)})
                             /\ ~InputAt(i).owned /\ Reply(FALSE, i)
  <2>1. PICK i \in Inputs : /\ transfer.native /\ IsFirst(i, {j \in Inputs : ~Batchable(j)})
                            /\ ~InputAt(i).owned /\ Reply(FALSE, i)
    BY <1>5
  <2>2. IsFirst(i, {j \in Inputs : ~InputAt(j).owned})
    BY <2>1 DEF IsFirst, Batchable
  <2>3. Right(FALSE) /\ Named(i)
    BY <1>2, <2>1, <2>2 DEF Right, Named, VerifyOneInput
  <2> QED BY <1>1, <2>1, <2>3, ReplyKeeps
<1> QED BY <1>3, <1>4, <1>5 DEF NativeBatch

\* With two processors the caller verifies alone only what has one input.
LEMMA DispatchKeeps ==
    ASSUME ManyProcessors, VerificationInv, Dispatch
    PROVE  VerificationInv'
<1>1. UNCHANGED <<host, transfer, running, finished, refuted>> /\ stage = "python"
  BY DEF Dispatch
<1>2. (\A i \in Inputs : ~Unusable(i)) /\ finished = {} /\ refuted = {}
  BY <1>1 DEF VerificationInv
<1>3. CASE stage' = "pool" /\ UNCHANGED answer
  BY <1>1, <1>2, <1>3, SameCall DEF VerificationInv, VerdictRight, FirstFailureNamed
<1>4. CASE /\ Len(transfer.inputs) = 1 \/ Threads <= 1
           /\ Reply(VerifyOneInput(1), IF VerifyOneInput(1) THEN 0 ELSE 1)
  <2>1. Len(transfer.inputs) \in Nat \ {0} /\ Cpus[host] \in Nat /\ Cpus[host] >= 2
    BY SomeInput, VerificationAssumption DEF VerificationInv, ManyProcessors
  <2>2. Len(transfer.inputs) = 1
    <3> DEFINE k == Len(transfer.inputs)
               cpus == Cpus[host]
    <3>1. k = 1 \/ Threads <= 1
      BY <1>4
    <3>2. Threads = IF cpus < k THEN cpus ELSE k
      BY DEF Threads
    <3>3. k \in Nat \ {0} /\ cpus \in Nat /\ cpus >= 2
      BY <2>1
    <3> HIDE DEF k, cpus
    <3>4. k = 1
      BY <3>1, <3>2, <3>3
    <3> QED BY <3>4 DEF k
  <2>3. Inputs = {1}
    BY <2>2 DEF Inputs
  <2> DEFINE v == VerifyOneInput(1)
  <2>4. v \in BOOLEAN
    BY DEF VerifyOneInput, SignatureHolds
  <2>5. Right(v) /\ (~v => Named(1))
    BY <1>2, <2>3 DEF Right, Named, IsFirst
  <2> HIDE DEF v
  <2>6. Reply(v, IF v THEN 0 ELSE 1)
    BY <1>4 DEF v
  <2> QED BY <1>1, <2>4, <2>5, <2>6, ReplyKeeps
<1> QED BY <1>3, <1>4 DEF Dispatch

\* A thread that reaches a verdict records that of VerifyOneInput: the extension's looks at
\* the signature alone, but the addresses were compared.
LEMMA VerdictKeeps ==
    ASSUME VerificationInv, NEW i \in Inputs, NEW holds \in BOOLEAN, Verdict(i, holds),
           stage \in {"pool", "rust"}, holds = VerifyOneInput(i),
           UNCHANGED <<host, transfer, stage, answer>>
    PROVE  VerificationInv'
<1>1. refuted = {j \in finished : ~VerifyOneInput(j)}
  BY DEF VerificationInv
<1>2. refuted' = {j \in finished' : ~VerifyOneInput(j)'}
  BY <1>1, SameCall DEF Verdict
<1> QED BY <1>2, SameCall DEF VerificationInv, VerdictRight, FirstFailureNamed

LEMMA ThreadsKeep ==
    ASSUME VerificationInv, NEW i \in Inputs, Take(i) \/ Finish(i) \/ RustVerify(i)
    PROVE  VerificationInv'
<1>1. CASE Take(i)
  BY <1>1, SameCall DEF VerificationInv, Take, VerdictRight, FirstFailureNamed
<1>2. CASE Finish(i)
  <2>1. VerifyOneInput(i) \in BOOLEAN
    BY DEF VerifyOneInput, SignatureHolds
  <2> QED BY <1>2, <2>1, VerdictKeeps DEF Finish
<1>3. CASE RustVerify(i)
  <2>1. RustHolds(i) = VerifyOneInput(i) /\ RustHolds(i) \in BOOLEAN
    BY <1>3 DEF VerificationInv, RustVerify, RustHolds, VerifyOneInput, SignatureHolds
  <2> QED BY <1>3, <2>1, VerdictKeeps DEF RustVerify
<1> QED BY <1>1, <1>2, <1>3

LEMMA DecideKeeps ==
    ASSUME VerificationInv, stage \in {"pool", "rust"}, Decide
    PROVE  VerificationInv'
<1>1. /\ refuted = {j \in Inputs : ~VerifyOneInput(j)} /\ \A j \in Inputs : ~Unusable(j)
      /\ UNCHANGED <<host, transfer, running, finished, refuted>>
  BY DEF Decide, VerificationInv
<1>2. CASE refuted = {} /\ Reply(TRUE, 0)
  <2>1. Right(TRUE)
    BY <1>1, <1>2 DEF Right
  <2> QED BY <1>1, <1>2, <2>1, ReplyKeeps
<1>3. CASE \E i \in refuted : IsFirst(i, refuted) /\ Reply(FALSE, i)
  <2>1. PICK i \in refuted : IsFirst(i, refuted) /\ Reply(FALSE, i)
    BY <1>3
  <2>2. Right(FALSE) /\ Named(i)
    BY <1>1, <2>1 DEF Right, Named
  <2> QED BY <1>1, <2>1, <2>2, ReplyKeeps
<1> QED BY <1>2, <1>3 DEF Decide

LEMMA VerificationStep ==
    ASSUME ManyProcessors, VerificationInv, [VerificationNext]_verificationVars
    PROVE  VerificationInv'
<1>1. CASE UNCHANGED verificationVars
  BY <1>1, SameCall DEF verificationVars, VerificationInv, VerdictRight, FirstFailureNamed
<1> QED BY <1>1, PrecheckKeeps, NativeBatchKeeps, DispatchKeeps, ThreadsKeep, DecideKeeps
        DEF VerificationNext, GatherPool, GatherBatch

\* On a node with two processors or more a transfer is verified exactly when each of its inputs
\* spends another known coin and verifies, and a refusal names the first input at fault,
\* however the threads were scheduled (verify_transaction_inputs, verification.py).
THEOREM VerificationDecides ==
    ASSUME ManyProcessors
    PROVE  VerificationSpec => []AnswerRight
<1>1. VerificationInit => VerificationInv
  BY DEF VerificationInit, CallOf, VerificationInv, VerdictRight, FirstFailureNamed
<1>2. VerificationInv /\ [VerificationNext]_verificationVars => VerificationInv'
  BY ManyProcessors, VerificationStep
<1>3. VerificationInv => AnswerRight
  BY DEF VerificationInv, AnswerRight
<1> QED BY <1>1, <1>2, <1>3, PTL DEF VerificationSpec

-----------------------------------------------------------------------------
(* Sessions of peers. *)

\* Node ids tell nodes apart, and no handler outlives the call that it answers.
PromptAndApart == ~LateWorkers /\ \A m, n \in Node : IdOf[m] = IdOf[n] => m = n

InHand == {"acked", "upsert", "expire", "store"}

\* A row that counts: neither ended nor run out.
Lives(m, s) == session[m][s] # None /\ session[m][s].active /\ session[m][s].exp > time

\* Node q gave out s for n, until exp or longer.
Gives(q, n, s, exp) ==
    /\ ident[q][IdOf[n]] = n
    /\ session[q][s] # None /\ session[q][s].id = IdOf[n] /\ session[q][s].url = n
    /\ exp <= session[q][s].exp
    /\ session[q][s].active \/ session[q][s].exp <= time

CallsOwnPeers == \A n \in Node : call[n] # AtRest => call[n].peer \in Peers[n]

\* A handler answers a call that waits for it, and no other handler answers that call.
HandlersAwaited ==
    \A q \in Node, w \in Workers : worker[q][w] # AtRest =>
        LET j == worker[q][w]
            c == call[j.from]
        IN  /\ c # AtRest /\ c.peer = q
            /\ j.at \in {"admit", "upsert", "expire", "issue"} => c.at = "await"
            /\ j.at \in {"check", "touch", "serve"} => c.at = "waiting" /\ c.sid = j.sid
            /\ \A v \in Workers : worker[q][v] # AtRest /\ worker[q][v].from = j.from => v = w

\* What ties session s at node m to node r: a row that counts, a call or a handler.
Ties(s, m, r) ==
    \/ Lives(m, s) /\ session[m][s].id = IdOf[r]
    \/ Holds(call[m], s) /\ call[m].peer = r
    \/ \E w \in Workers : Holds(worker[m][w], s) /\ worker[m][w].from = r

\* A session id stands for one pair of nodes.
OfPair(s, a, b) == \A m, r \in Node : Ties(s, m, r) => <<m, r>> \in {<<a, b>>, <<b, a>>}
OnePair == \A s \in Session : \E a, b \in Node : OfPair(s, a, b)

\* Between check and touch the row is still that of the caller.
TouchFits ==
    \A q \in Node, w \in Workers : worker[q][w].at = "touch" =>
        LET j == worker[q][w]
        IN  /\ session[q][j.sid] # None /\ session[q][j.sid].id = IdOf[j.from]
            /\ session[q][j.sid].url = j.from

AdmittedFits ==
    /\ \A q \in Node, w \in Workers : worker[q][w].at \in {"expire", "issue"} =>
          ident[q][IdOf[worker[q][w].from]] = worker[q][w].from
    /\ \A q \in Node, w \in Workers : worker[q][w].at = "issue" =>
          worker[q][w].exp <= time + TTL
    /\ \A n \in Node : call[n].at \in {"expire", "store"} =>
          ident[n][IdOf[call[n].peer]] = call[n].peer
    /\ \A n \in Node, i \in Id : ident[n][i] # None => IdOf[ident[n][i]] = i

\* Node n has peer q, which does not call back.
Calls(n, q) == q \in Peers[n] /\ n \notin Peers[q]

\* Rows that n has of such a peer: q gave them out, and n shakes hands only when it has none.
RowsFit ==
    \A n, q \in Node : Calls(n, q) =>
        /\ \A s \in Session : Lives(n, s) /\ session[n][s].id = IdOf[q] =>
              /\ Gives(q, n, s, session[n][s].exp)
              /\ session[n][s].exp <= time + TTL
              /\ ident[n][IdOf[q]] = q
              /\ call[n].at \in {"handshake", "await"} \cup InHand => call[n].peer # q
        /\ call[n].at \in InHand /\ call[n].peer = q =>
              Gives(q, n, call[n].sid, call[n].exp) /\ call[n].exp <= time + TTL

HeldInv ==
    /\ SessionsTypeOK
    /\ CallsOwnPeers /\ HandlersAwaited /\ OnePair /\ TouchFits /\ AdmittedFits /\ RowsFit

-----------------------------------------------------------------------------
(* Types. *)

WithSession == InHand \cup {"request", "waiting", "served"}
CallStates ==
    {AtRest} \cup [at : {"handshake", "await"}, peer : Node]
             \cup [at : InHand, peer : Node, sid : Session, exp : Nat]
             \cup [at : {"request", "waiting", "served"}, peer : Node, sid : Session]
WorkerStates ==
    {AtRest} \cup [at : {"admit", "upsert", "expire"}, from : Node]
             \cup [at : {"issue"}, from : Node, exp : Nat]
             \cup [at : {"check", "touch", "serve"}, from : Node, sid : Session]

LEMMA SessionTypes ==
    SessionsTypeOK <=>
        /\ time \in Nat /\ lost \in [Node -> Nat]
        /\ ident \in [Node -> [Id -> Node \cup {None}]]
        /\ session \in [Node -> [Session -> SessionRow \cup {None}]]
        /\ call \in [Node -> CallStates]
        /\ worker \in [Node -> [Workers -> WorkerStates]]
BY DEF SessionsTypeOK, CallStates, WorkerStates, InHand

LEMMA SessionTypesNext ==
    SessionsTypeOK' <=>
        /\ time' \in Nat /\ lost' \in [Node -> Nat]
        /\ ident' \in [Node -> [Id -> Node \cup {None}]]
        /\ session' \in [Node -> [Session -> SessionRow \cup {None}]]
        /\ call' \in [Node -> CallStates]
        /\ worker' \in [Node -> [Workers -> WorkerStates]]
BY DEF SessionsTypeOK, CallStates, WorkerStates, InHand

LEMMA RowsAreRows == \A r \in SessionRow : r # None
<1> SUFFICES ASSUME NEW r \in SessionRow PROVE r # None
  OBVIOUS
<1>1. "at" \in DOMAIN None /\ "at" \notin DOMAIN r
  BY DEF None, SessionRow
<1> QED BY <1>1

\* What the places of a call have.
LEMMA CallFields ==
    ASSUME NEW c \in CallStates
    PROVE  /\ c = AtRest <=> c.at = "idle"
           /\ c.at \in {"idle", "handshake", "await"} \cup WithSession
           /\ c # AtRest => c.peer \in Node
           /\ c.at \in WithSession => c.sid \in Session
           /\ c.at \in InHand => c.exp \in Nat
           /\ \A s : Holds(c, s) <=> c.at \in WithSession /\ c.sid = s
<1>1. CASE c = AtRest
  <2>1. DOMAIN c = {"at"} /\ c.at = "idle"
    BY <1>1 DEF AtRest
  <2> QED BY <1>1, <2>1 DEF Holds, WithSession, InHand
<1>2. CASE c \in [at : {"handshake", "await"}, peer : Node]
  <2>1. DOMAIN c = {"at", "peer"} /\ c.at \in {"handshake", "await"} /\ c.peer \in Node
    BY <1>2
  <2>2. c # AtRest
    BY <2>1 DEF AtRest
  <2> QED BY <2>1, <2>2 DEF Holds, WithSession, InHand
<1>3. CASE c \in [at : InHand, peer : Node, sid : Session, exp : Nat]
  <2>1. /\ DOMAIN c = {"at", "peer", "sid", "exp"} /\ c.at \in InHand /\ c.peer \in Node
        /\ c.sid \in Session /\ c.exp \in Nat
    BY <1>3
  <2>2. c # AtRest
    BY <2>1 DEF AtRest, InHand
  <2> QED BY <2>1, <2>2 DEF Holds, WithSession, InHand
<1>4. CASE c \in [at : {"request", "waiting", "served"}, peer : Node, sid : Session]
  <2>1. /\ DOMAIN c = {"at", "peer", "sid"} /\ c.at \in {"request", "waiting", "served"}
        /\ c.peer \in Node /\ c.sid \in Session
    BY <1>4
  <2>2. c # AtRest
    BY <2>1 DEF AtRest
  <2> QED BY <2>1, <2>2 DEF Holds, WithSession, InHand
<1> QED BY <1>1, <1>2, <1>3, <1>4 DEF CallStates

\* What the places of a handler have.
LEMMA WorkerFields ==
    ASSUME NEW j \in WorkerStates
    PROVE  /\ j = AtRest <=> j.at = "idle"
           /\ j.at \in {"idle", "admit", "upsert", "expire", "issue", "check", "touch", "serve"}
           /\ j # AtRest => j.from \in Node
           /\ j.at = "issue" => j.exp \in Nat
           /\ j.at \in {"check", "touch", "serve"} => j.sid \in Session
           /\ \A s : Holds(j, s) <=> j.at \in {"check", "touch", "serve"} /\ j.sid = s
<1>1. CASE j = AtRest
  <2>1. DOMAIN j = {"at"} /\ j.at = "idle"
    BY <1>1 DEF AtRest
  <2> QED BY <1>1, <2>1 DEF Holds
<1>2. CASE j \in [at : {"admit", "upsert", "expire"}, from : Node]
  <2>1. DOMAIN j = {"at", "from"} /\ j.at \in {"admit", "upsert", "expire"} /\ j.from \in Node
    BY <1>2
  <2>2. j # AtRest
    BY <2>1 DEF AtRest
  <2> QED BY <2>1, <2>2 DEF Holds
<1>3. CASE j \in [at : {"issue"}, from : Node, exp : Nat]
  <2>1. DOMAIN j = {"at", "from", "exp"} /\ j.at = "issue" /\ j.from \in Node /\ j.exp \in Nat
    BY <1>3
  <2>2. j # AtRest
    BY <2>1 DEF AtRest
  <2> QED BY <2>1, <2>2 DEF Holds
<1>4. CASE j \in [at : {"check", "touch", "serve"}, from : Node, sid : Session]
  <2>1. /\ DOMAIN j = {"at", "from", "sid"} /\ j.at \in {"check", "touch", "serve"}
        /\ j.from \in Node /\ j.sid \in Session
    BY <1>4
  <2>2. j # AtRest
    BY <2>1 DEF AtRest
  <2> QED BY <2>1, <2>2 DEF Holds
<1> QED BY <1>1, <1>2, <1>3, <1>4 DEF WorkerStates

\* A session id that is drawn is one that nobody holds.
LEMMA FreshIsUnused ==
    ASSUME Unused # {}
    PROVE  FreshSession \in Unused /\ FreshSession \in Session
<1>1. Unused \subseteq Session /\ Session \subseteq Nat
  BY PeerSessionsAssumption DEF Unused, Session
<1>2. \E s \in Unused : \A r \in Unused : s <= r
  <2> DEFINE T == Unused
  <2>1. T \subseteq Nat /\ T # {}
    BY <1>1
  <2> HIDE DEF T
  <2>2. \E x \in T : \A y \in T : x <= y
    BY <2>1, LeastNat
  <2> QED BY <2>2 DEF T
<1> QED BY <1>1, <1>2 DEF FreshSession

-----------------------------------------------------------------------------
(* The steps.  A call or a handler moves on, and one table of a node changes. *)

CallGoes(n, c) == call' = [m \in Node |-> IF m = n THEN c ELSE call[m]]
WorkerGoes(q, w, j) ==
    worker' = [m \in Node |-> [v \in Workers |-> IF m = q /\ v = w THEN j ELSE worker[m][v]]]

LEMMA CallMoves ==
    ASSUME SessionsTypeOK, NEW n \in Node, NEW c, CallTo(n, c)
    PROVE  CallGoes(n, c)
BY SessionTypes DEF CallTo, CallGoes

LEMMA WorkerMoves ==
    ASSUME SessionsTypeOK, NEW q \in Node, NEW w \in Workers, NEW j, WorkerTo(q, w, j)
    PROVE  WorkerGoes(q, w, j)
<1>1. worker = [m \in Node |-> [v \in Workers |-> worker[m][v]]]
  BY SessionTypes
<1>2. worker' = [worker EXCEPT ![q] = [worker[q] EXCEPT ![w] = j]]
  BY DEF WorkerTo
<1>3. [worker[q] EXCEPT ![w] = j] = [v \in Workers |-> IF v = w THEN j ELSE worker[q][v]]
  BY SessionTypes
<1>4. worker' = [m \in Node |-> IF m = q THEN [v \in Workers |-> IF v = w THEN j ELSE worker[q][v]]
                                         ELSE worker[m]]
  BY <1>2, <1>3, SessionTypes
<1>5. \A m \in Node : worker[m] = [v \in Workers |-> worker[m][v]]
  BY SessionTypes
<1> QED BY <1>4, <1>5 DEF WorkerGoes

\* A session stays with its pair as long as nothing ties it to others.
LEMMA PairStays ==
    ASSUME OnePair, NEW s \in Session,
           \A m, r \in Node : Ties(s, m, r)' => Ties(s, m, r) \/ Ties(s, r, m)
    PROVE  \E a, b \in Node : OfPair(s, a, b)'
<1>1. PICK a \in Node, b \in Node : OfPair(s, a, b)
  BY DEF OnePair
<1>2. OfPair(s, a, b)'
  BY <1>1 DEF OfPair
<1> QED BY <1>2

\* What the invariant says of a caller and a peer.
LEMMA RowsOfPair ==
    ASSUME HeldInv, NEW n \in Node, NEW q \in Node, Calls(n, q)
    PROVE  /\ \A s \in Session : Lives(n, s) /\ session[n][s].id = IdOf[q] =>
                 /\ Gives(q, n, s, session[n][s].exp)
                 /\ session[n][s].exp <= time + TTL
                 /\ ident[n][IdOf[q]] = q
                 /\ call[n].at \in {"handshake", "await"} \cup InHand => call[n].peer # q
           /\ call[n].at \in InHand /\ call[n].peer = q =>
                 Gives(q, n, call[n].sid, call[n].exp) /\ call[n].exp <= time + TTL
BY DEF HeldInv, RowsFit

\* A call moves on, and keeps the session it had or takes one of its rows.
LEMMA CallStep ==
    ASSUME HeldInv, PromptAndApart, NEW n \in Node, NEW c \in CallStates,
           CallGoes(n, c), UNCHANGED <<time, ident, session, worker>>,
           lost' \in [Node -> Nat],
           ~Waits(n), c.at \notin {"await", "waiting"},
           c # AtRest => c.peer \in Peers[n],
           \A s : Holds(c, s) => Ties(s, n, c.peer),
           c.at = "handshake" /\ Calls(n, c.peer) =>
              \A s \in Session : ~ (Lives(n, s) /\ session[n][s].id = IdOf[c.peer]),
           c.at \in InHand =>
              /\ call[n].at \in InHand /\ c.peer = call[n].peer /\ c.sid = call[n].sid
              /\ c.exp = call[n].exp,
           c.at \in {"expire", "store"} => ident[n][IdOf[c.peer]] = c.peer
    PROVE  HeldInv'
<1>0. /\ SessionsTypeOK /\ CallsOwnPeers /\ HandlersAwaited /\ OnePair /\ TouchFits
      /\ AdmittedFits /\ RowsFit
  BY DEF HeldInv
<1>1. /\ call' = [m \in Node |-> IF m = n THEN c ELSE call[m]] /\ call'[n] = c
      /\ \A m \in Node \ {n} : call'[m] = call[m]
      /\ \A m \in Node : call[m] \in CallStates
      /\ \A m \in Node, w \in Workers : worker[m][w] \in WorkerStates
  BY <1>0, SessionTypes DEF CallGoes
<1>2. SessionsTypeOK'
  BY <1>0, <1>1, SessionTypes, SessionTypesNext
<1>3. CallsOwnPeers'
  BY <1>0, <1>1 DEF CallsOwnPeers
<1>4. \A q \in Node, w \in Workers : worker[q][w] # AtRest =>
          worker[q][w].from # n /\ worker[q][w].from \in Node
  BY <1>0, <1>1, WorkerFields DEF HandlersAwaited, Waits
<1>5. HandlersAwaited'
  BY <1>0, <1>1, <1>4 DEF HandlersAwaited
<1>6. \A m \in Node : \A s : Lives(m, s)' <=> Lives(m, s)
  BY DEF Lives
<1>7. OnePair'
  <2> SUFFICES ASSUME NEW s \in Session PROVE \E a, b \in Node : OfPair(s, a, b)'
    BY DEF OnePair
  <2>1. ASSUME NEW m \in Node, NEW r \in Node, Ties(s, m, r)' PROVE Ties(s, m, r)
    BY <1>1, <1>6, <2>1 DEF Ties
  <2> QED BY <1>0, <2>1, PairStays
<1>8. TouchFits'
  BY <1>0 DEF TouchFits
<1>9. AdmittedFits'
  BY <1>0, <1>1 DEF AdmittedFits
<1>10. RowsFit'
  <2> SUFFICES ASSUME NEW m \in Node, NEW q \in Node, Calls(m, q)
               PROVE  /\ \A s \in Session : Lives(m, s) /\ session[m][s].id = IdOf[q] =>
                            /\ Gives(q, m, s, session[m][s].exp)
                            /\ session[m][s].exp <= time + TTL
                            /\ ident[m][IdOf[q]] = q
                            /\ call'[m].at \in {"handshake", "await"} \cup InHand => call'[m].peer # q
                      /\ call'[m].at \in InHand /\ call'[m].peer = q =>
                            Gives(q, m, call'[m].sid, call'[m].exp) /\ call'[m].exp <= time + TTL
    BY <1>6 DEF RowsFit, Gives
  <2>1. CASE m # n
    BY <1>1, <2>1, RowsOfPair
  <2>2. CASE m = n
    BY <1>1, <2>2, RowsOfPair
  <2> QED BY <2>1, <2>2
<1> QED BY <1>2, <1>3, <1>5, <1>7, <1>8, <1>9, <1>10 DEF HeldInv

LEMMA BeginKeeps ==
    ASSUME HeldInv, PromptAndApart, NEW n \in Node, NEW p \in Node, Begin(n, p)
    PROVE  HeldInv'
<1>1. SessionsTypeOK /\ call[n] = AtRest /\ p \in Peers[n] /\ ~Waits(n) /\ lost' \in [Node -> Nat]
      /\ UNCHANGED <<time, ident, session, worker>>
  BY SessionTypes DEF HeldInv, Begin, Waits, AtRest
<1>2. CASE ident[n][IdOf[p]] = p /\ Usable(n, p) # {}
  <2>1. PICK s \in Chosen(n, p) : CallTo(n, [at |-> "request", peer |-> p, sid |-> s])
    BY <1>2 DEF Begin
  <2> DEFINE c == [at |-> "request", peer |-> p, sid |-> s]
  <2>2. s \in Session /\ Lives(n, s) /\ session[n][s].id = IdOf[p]
    BY DEF Chosen, Usable, Live, Lives
  <2>3. c \in CallStates /\ c.at = "request" /\ c.peer = p /\ c # AtRest /\ c.sid = s
    BY <2>2 DEF CallStates, AtRest
  <2>4. CallGoes(n, c)
    BY <1>1, <2>1, CallMoves
  <2> HIDE DEF c
  <2>5. \A r : Holds(c, r) => Ties(r, n, c.peer)
    BY <2>2, <2>3, CallFields DEF Ties
  <2> QED BY <1>1, <2>3, <2>4, <2>5, CallStep DEF InHand
<1>3. CASE ~ (ident[n][IdOf[p]] = p /\ Usable(n, p) # {})
  <2> DEFINE c == [at |-> "handshake", peer |-> p]
  <2>1. CallTo(n, c)
    BY <1>3 DEF Begin
  <2>2. c \in CallStates /\ c.at = "handshake" /\ c.peer = p
    BY DEF CallStates
  <2>3. CallGoes(n, c)
    BY <1>1, <2>1, CallMoves
  <2>4. \A r : ~Holds(c, r)
    BY <2>2, CallFields DEF WithSession, InHand
  <2> HIDE DEF c
  <2>5. Calls(n, p) => \A s \in Session : ~ (Lives(n, s) /\ session[n][s].id = IdOf[p])
    BY <1>3, RowsOfPair DEF Usable, Lives, Live
  <2> QED BY <1>1, <2>2, <2>3, <2>4, <2>5, CallStep DEF InHand
<1> QED BY <1>2, <1>3

LEMMA CheckAckKeeps ==
    ASSUME HeldInv, PromptAndApart, NEW n \in Node, CheckAck(n)
    PROVE  HeldInv'
<1>1. /\ SessionsTypeOK /\ call[n] \in CallStates /\ call[n].at = "acked" /\ lost' \in [Node -> Nat]
      /\ UNCHANGED <<time, ident, session, worker>>
  BY SessionTypes DEF HeldInv, CheckAck
<1>2. /\ ~Waits(n) /\ call[n] # AtRest /\ call[n].peer \in Peers[n]
      /\ call[n].sid \in Session /\ Ties(call[n].sid, n, call[n].peer)
  BY <1>1, CallFields DEF HeldInv, CallsOwnPeers, Waits, Ties, WithSession, InHand
<1> DEFINE c == [call[n] EXCEPT !.at = "upsert"]
<1>3. /\ c \in CallStates /\ c.at = "upsert" /\ c.peer = call[n].peer /\ c.sid = call[n].sid
      /\ c.exp = call[n].exp
  BY <1>1 DEF CallStates, InHand, AtRest
<1>4. CallTo(n, c) \/ CallTo(n, AtRest)
  BY DEF CheckAck
<1> HIDE DEF c
<1>5. CASE CallTo(n, c)
  <2>1. CallGoes(n, c)
    BY <1>1, <1>5, CallMoves
  <2>2. \A r : Holds(c, r) => Ties(r, n, c.peer)
    BY <1>2, <1>3, CallFields
  <2> QED BY <1>1, <1>2, <1>3, <2>1, <2>2, CallStep DEF InHand
<1>6. CASE CallTo(n, AtRest)
  <2>1. CallGoes(n, AtRest)
    BY <1>1, <1>6, CallMoves
  <2>2. AtRest \in CallStates /\ AtRest.at = "idle"
    BY DEF CallStates, AtRest
  <2>3. \A r : ~Holds(AtRest, r)
    BY <2>2, CallFields DEF WithSession, InHand
  <2> QED BY <1>1, <1>2, <2>1, <2>2, <2>3, CallStep DEF InHand
<1> QED BY <1>4, <1>5, <1>6

LEMMA EndCallKeeps ==
    ASSUME HeldInv, PromptAndApart, NEW n \in Node, EndCall(n)
    PROVE  HeldInv'
<1>1. /\ SessionsTypeOK /\ call[n] \in CallStates /\ call[n].at = "served" /\ lost' \in [Node -> Nat]
      /\ UNCHANGED <<time, ident, session, worker>>
  BY SessionTypes DEF HeldInv, EndCall
<1>2. /\ ~Waits(n) /\ call[n] # AtRest /\ call[n].peer \in Peers[n]
      /\ call[n].sid \in Session /\ Ties(call[n].sid, n, call[n].peer)
  BY <1>1, CallFields DEF HeldInv, CallsOwnPeers, Waits, Ties, WithSession, InHand
<1> DEFINE c == [call[n] EXCEPT !.at = "request"]
<1>3. c \in CallStates /\ c.at = "request" /\ c.peer = call[n].peer /\ c.sid = call[n].sid
  BY <1>1 DEF CallStates, InHand, AtRest
<1>4. CallTo(n, c) \/ CallTo(n, AtRest)
  BY DEF EndCall
<1> HIDE DEF c
<1>5. CASE CallTo(n, c)
  <2>1. CallGoes(n, c)
    BY <1>1, <1>5, CallMoves
  <2>2. \A r : Holds(c, r) => Ties(r, n, c.peer)
    BY <1>2, <1>3, CallFields
  <2> QED BY <1>1, <1>2, <1>3, <2>1, <2>2, CallStep DEF InHand
<1>6. CASE CallTo(n, AtRest)
  <2>1. CallGoes(n, AtRest)
    BY <1>1, <1>6, CallMoves
  <2>2. AtRest \in CallStates /\ AtRest.at = "idle"
    BY DEF CallStates, AtRest
  <2>3. \A r : ~Holds(AtRest, r)
    BY <2>2, CallFields DEF WithSession, InHand
  <2> QED BY <1>1, <1>2, <2>1, <2>2, <2>3, CallStep DEF InHand
<1> QED BY <1>4, <1>5, <1>6

LEMMA TimeOutKeeps ==
    ASSUME HeldInv, PromptAndApart, NEW n \in Node, TimeOut(n)
    PROVE  HeldInv'
<1>1. /\ SessionsTypeOK /\ call[n] \in CallStates /\ call[n].at = "acked"
      /\ UNCHANGED <<time, ident, session, worker>> /\ CallTo(n, AtRest)
  BY SessionTypes DEF HeldInv, TimeOut, PromptAndApart
<1>2. lost' \in [Node -> Nat]
  BY <1>1, SessionTypes DEF TimeOut
<1>3. CallGoes(n, AtRest) /\ ~Waits(n)
  BY <1>1, CallMoves DEF Waits
<1>4. AtRest \in CallStates /\ AtRest.at = "idle"
  BY DEF CallStates, AtRest
<1>5. \A r : ~Holds(AtRest, r)
  BY <1>4, CallFields DEF WithSession, InHand
<1> QED BY <1>1, <1>2, <1>3, <1>4, <1>5, CallStep DEF InHand

LEMMA AdmitServerKeeps ==
    ASSUME HeldInv, PromptAndApart, NEW n \in Node, AdmitServer(n)
    PROVE  HeldInv'
<1> DEFINE c == [call[n] EXCEPT !.at = "expire"]
           r == call[n].peer
<1>0. /\ SessionsTypeOK /\ CallsOwnPeers /\ HandlersAwaited /\ OnePair /\ TouchFits
      /\ AdmittedFits /\ RowsFit
  BY DEF HeldInv
<1>1. /\ call[n] \in CallStates /\ call[n].at = "upsert" /\ CallTo(n, c)
      /\ ident' = [ident EXCEPT ![n][IdOf[r]] = r]
      /\ UNCHANGED <<time, session, worker, lost>>
  BY <1>0, SessionTypes DEF AdmitServer, Admit
<1>2. /\ c \in CallStates /\ c.at = "expire" /\ c.peer = r /\ c.sid = call[n].sid
      /\ c.exp = call[n].exp /\ r \in Peers[n] /\ r \in Node /\ c # AtRest /\ call[n] # AtRest
  BY <1>0, <1>1, CallFields DEF CallStates, InHand, AtRest, CallsOwnPeers
<1>3. CallGoes(n, c)
  BY <1>0, <1>1, CallMoves
<1>4. /\ call' = [m \in Node |-> IF m = n THEN c ELSE call[m]] /\ call'[n] = c
      /\ \A m \in Node \ {n} : call'[m] = call[m]
      /\ \A m \in Node : call[m] \in CallStates
      /\ \A m \in Node, w \in Workers : worker[m][w] \in WorkerStates
  BY <1>0, <1>3, SessionTypes DEF CallGoes
<1>5. IdOf[r] \in Id /\ \A m \in Node : IdOf[m] \in Id
  BY <1>2, PeerSessionsAssumption
<1>6. /\ ident' \in [Node -> [Id -> Node \cup {None}]]
      /\ \A m \in Node, i \in Id : ident'[m][i] = IF m = n /\ i = IdOf[r] THEN r ELSE ident[m][i]
  BY <1>0, <1>1, <1>2, <1>5, SessionTypes
<1> HIDE DEF c, r
<1>7. \A m \in Node, k \in Node : ident[m][IdOf[k]] = k => ident'[m][IdOf[k]] = k
  BY <1>2, <1>5, <1>6 DEF PromptAndApart
<1>8. SessionsTypeOK'
  BY <1>0, <1>1, <1>2, <1>4, <1>6, SessionTypes, SessionTypesNext
<1>9. CallsOwnPeers'
  BY <1>0, <1>2, <1>4 DEF CallsOwnPeers
<1>10. \A q \in Node, w \in Workers : worker[q][w] # AtRest =>
          worker[q][w].from # n /\ worker[q][w].from \in Node
  BY <1>0, <1>1, <1>4, WorkerFields DEF HandlersAwaited
<1>11. HandlersAwaited'
  BY <1>0, <1>1, <1>4, <1>10 DEF HandlersAwaited
<1>12. \A m \in Node : \A s : Lives(m, s)' <=> Lives(m, s)
  BY <1>1 DEF Lives
<1>13. OnePair'
  <2> SUFFICES ASSUME NEW s \in Session PROVE \E a, b \in Node : OfPair(s, a, b)'
    BY DEF OnePair
  <2>1. Holds(c, s) => Holds(call[n], s)
    BY <1>1, <1>2, CallFields DEF InHand, WithSession
  <2>2. ASSUME NEW m \in Node, NEW k \in Node, Ties(s, m, k)' PROVE Ties(s, m, k)
    BY <1>1, <1>2, <1>4, <1>12, <2>1, <2>2 DEF Ties, r
  <2> QED BY <1>0, <2>2, PairStays
<1>14. TouchFits'
  BY <1>0, <1>1 DEF TouchFits
<1>15. AdmittedFits'
  <2>1. \A q \in Node, w \in Workers : worker[q][w].at \in {"expire", "issue"} =>
            worker[q][w].from \in Node
    BY <1>4, WorkerFields
  <2>2. \A m \in Node : call'[m].at \in {"expire", "store"} =>
            ident'[m][IdOf[call'[m].peer]] = call'[m].peer
    <3> SUFFICES ASSUME NEW m \in Node, call'[m].at \in {"expire", "store"}
                 PROVE  ident'[m][IdOf[call'[m].peer]] = call'[m].peer
      OBVIOUS
    <3>1. CASE m = n
      BY <1>2, <1>4, <1>5, <1>6, <3>1
    <3>2. CASE m # n
      <4>1. call'[m] = call[m] /\ call[m].peer \in Node
        BY <1>4, <3>2, CallFields
      <4> QED BY <1>0, <1>7, <4>1 DEF AdmittedFits
    <3> QED BY <3>1, <3>2
  <2>3. \A m \in Node, i \in Id : ident'[m][i] # None => IdOf[ident'[m][i]] = i
    BY <1>0, <1>6 DEF AdmittedFits
  <2>4. \A q \in Node, w \in Workers : worker[q][w].at \in {"expire", "issue"} =>
            ident'[q][IdOf[worker[q][w].from]] = worker[q][w].from
    BY <1>0, <1>7, <2>1 DEF AdmittedFits
  <2>5. \A q \in Node, w \in Workers : worker[q][w].at = "issue" => worker[q][w].exp <= time + TTL
    BY <1>0 DEF AdmittedFits
  <2> QED BY <1>1, <2>2, <2>3, <2>4, <2>5 DEF AdmittedFits
<1>16. RowsFit'
  <2> SUFFICES ASSUME NEW m \in Node, NEW q \in Node, Calls(m, q)
               PROVE  /\ \A s \in Session : Lives(m, s) /\ session[m][s].id = IdOf[q] =>
                            /\ Gives(q, m, s, session[m][s].exp)'
                            /\ session[m][s].exp <= time + TTL
                            /\ ident'[m][IdOf[q]] = q
                            /\ call'[m].at \in {"handshake", "await"} \cup InHand => call'[m].peer # q
                      /\ call'[m].at \in InHand /\ call'[m].peer = q =>
                            /\ Gives(q, m, call[m].sid, call[m].exp)'
                            /\ call[m].exp <= time + TTL /\ call'[m].sid = call[m].sid
                            /\ call'[m].exp = call[m].exp
    BY <1>1, <1>12 DEF RowsFit, Gives
  <2>2. /\ call'[m].at \in InHand => call[m].at \in InHand
        /\ call'[m].at \in {"handshake", "await"} \cup InHand
              => call[m].at \in {"handshake", "await"} \cup InHand
        /\ call'[m].at \in InHand => call'[m].sid = call[m].sid /\ call'[m].exp = call[m].exp
        /\ call'[m].at \in {"handshake", "await"} \cup InHand => call'[m].peer = call[m].peer
    BY <1>1, <1>2, <1>4 DEF r, InHand
  <2>3. ASSUME call'[m].at \in InHand, call'[m].peer = q
        PROVE  Gives(q, m, call[m].sid, call[m].exp)' /\ call[m].exp <= time + TTL
    <3>1. Gives(q, m, call[m].sid, call[m].exp) /\ call[m].exp <= time + TTL
      BY <2>2, <2>3, RowsOfPair
    <3> QED BY <1>1, <1>7, <2>2, <2>3, <3>1 DEF Gives
  <2>4. ASSUME NEW s \in Session, Lives(m, s), session[m][s].id = IdOf[q]
        PROVE  Gives(q, m, s, session[m][s].exp)'
    <3>1. Gives(q, m, s, session[m][s].exp)
      BY <2>4, RowsOfPair
    <3> QED BY <1>1, <1>7, <3>1 DEF Gives
  <2> QED BY <1>7, <2>2, <2>3, <2>4, RowsOfPair
<1> QED BY <1>8, <1>9, <1>11, <1>13, <1>14, <1>15, <1>16 DEF HeldInv

\* The rows K of node q end.
Ends(q, K) ==
    session' = [m \in Node |-> [s \in Session |->
                   IF m = q /\ s \in K THEN [session[m][s] EXCEPT !.active = FALSE] ELSE session[m][s]]]

LEMMA RowsEnd ==
    ASSUME HeldInv, NEW q \in Node, NEW K, \A s \in K \cap Session : session[q][s] # None, Ends(q, K),
           UNCHANGED <<time, ident>>,
           \A n \in Node, s \in Session : s \in K /\ Calls(n, q) /\ session[q][s].id = IdOf[n]
              => session[q][s].exp <= time \/ (call[n].at = "await" /\ call[n].peer = q)
    PROVE  /\ session' \in [Node -> [Session -> SessionRow \cup {None}]]
           /\ \A m \in Node, s \in Session :
                 /\ session'[m][s] # None <=> session[m][s] # None
                 /\ session[m][s] # None =>
                       /\ session'[m][s].id = session[m][s].id
                       /\ session'[m][s].url = session[m][s].url
                       /\ session'[m][s].exp = session[m][s].exp
                 /\ Lives(m, s)' => Lives(m, s)
           /\ \A n \in Node, r \in Node, s \in Session, e \in Nat :
                 Calls(n, r) /\ Gives(r, n, s, e) /\ ~ (call[n].at = "await" /\ call[n].peer = r)
                    => Gives(r, n, s, e)'
<1>1. /\ SessionsTypeOK
      /\ \A m \in Node, s \in Session : session[m][s] \in SessionRow \cup {None}
  BY SessionTypes DEF HeldInv
<1>2. \A m \in Node, s \in Session :
         session'[m][s] = IF m = q /\ s \in K THEN [session[m][s] EXCEPT !.active = FALSE]
                                              ELSE session[m][s]
  BY DEF Ends
<1>3. \A r \in SessionRow :
         /\ [r EXCEPT !.active = FALSE] \in SessionRow
         /\ [r EXCEPT !.active = FALSE].id = r.id /\ [r EXCEPT !.active = FALSE].url = r.url
         /\ [r EXCEPT !.active = FALSE].exp = r.exp /\ [r EXCEPT !.active = FALSE].active = FALSE
  BY DEF SessionRow
<1>4. ASSUME NEW m \in Node, NEW s \in Session
      PROVE  /\ session'[m][s] \in SessionRow \cup {None}
             /\ session'[m][s] # None <=> session[m][s] # None
             /\ session[m][s] # None =>
                   /\ session'[m][s].id = session[m][s].id
                   /\ session'[m][s].url = session[m][s].url
                   /\ session'[m][s].exp = session[m][s].exp
                   /\ session'[m][s].active = IF m = q /\ s \in K THEN FALSE ELSE session[m][s].active
  <2>1. CASE session[m][s] = None
    <3>1. ~ (m = q /\ s \in K)
      BY <2>1
    <3> QED BY <1>1, <1>2, <2>1, <3>1
  <2>2. CASE session[m][s] # None
    <3>1. session[m][s] \in SessionRow
      BY <1>1, <2>2
    <3>2. CASE m = q /\ s \in K
      <4>1. session'[m][s] = [session[m][s] EXCEPT !.active = FALSE]
        BY <1>2, <3>2
      <4>2. session'[m][s] \in SessionRow /\ session'[m][s] # None
        BY <1>3, <3>1, <4>1, RowsAreRows
      <4> QED BY <1>3, <2>2, <3>1, <3>2, <4>1, <4>2
    <3>3. CASE ~ (m = q /\ s \in K)
      <4>1. session'[m][s] = session[m][s]
        BY <1>2, <3>3
      <4> QED BY <2>2, <3>1, <3>3, <4>1
    <3> QED BY <3>2, <3>3
  <2> QED BY <2>1, <2>2
<1>5. session' \in [Node -> [Session -> SessionRow \cup {None}]]
  BY <1>4 DEF Ends
<1>6. \A m \in Node, s \in Session : Lives(m, s)' => Lives(m, s)
  BY <1>4 DEF Lives
<1>7. ASSUME NEW n \in Node, NEW r \in Node, NEW s \in Session, NEW e \in Nat,
             Calls(n, r), Gives(r, n, s, e), ~ (call[n].at = "await" /\ call[n].peer = r)
      PROVE  Gives(r, n, s, e)'
  <2>1. /\ ident[r][IdOf[n]] = n
        /\ session[r][s] # None /\ session[r][s].id = IdOf[n] /\ session[r][s].url = n
        /\ e <= session[r][s].exp
        /\ session[r][s].active \/ session[r][s].exp <= time
    BY <1>7 DEF Gives
  <2>2. r = q /\ s \in K => session[r][s].exp <= time
    BY <1>7, <2>1
  <2> QED BY <1>4, <2>1, <2>2 DEF Gives
<1> QED BY <1>4, <1>5, <1>6, <1>7

LEMMA DropOldSessionsKeeps ==
    ASSUME HeldInv, PromptAndApart, NEW n \in Node, DropOldSessions(n)
    PROVE  HeldInv'
<1> DEFINE c == [call[n] EXCEPT !.at = "store"]
           r == call[n].peer
           K == {s \in Session : Live(n, s, IdOf[r])}
<1>0. /\ SessionsTypeOK /\ CallsOwnPeers /\ HandlersAwaited /\ OnePair /\ TouchFits
      /\ AdmittedFits /\ RowsFit
  BY DEF HeldInv
<1>1. /\ call[n] \in CallStates /\ call[n].at = "expire" /\ CallTo(n, c) /\ Expire(n, IdOf[r])
      /\ UNCHANGED <<time, ident, worker, lost>>
  BY <1>0, SessionTypes DEF DropOldSessions
<1>2. /\ c \in CallStates /\ c.at = "store" /\ c.peer = r /\ c.sid = call[n].sid
      /\ c.exp = call[n].exp /\ r \in Peers[n] /\ r \in Node /\ c # AtRest /\ call[n] # AtRest
  BY <1>0, <1>1, CallFields DEF CallStates, InHand, AtRest, CallsOwnPeers
<1>3. CallGoes(n, c)
  BY <1>0, <1>1, CallMoves
<1>4. /\ call' = [m \in Node |-> IF m = n THEN c ELSE call[m]] /\ call'[n] = c
      /\ \A m \in Node \ {n} : call'[m] = call[m]
      /\ \A m \in Node : call[m] \in CallStates
      /\ \A m \in Node, w \in Workers : worker[m][w] \in WorkerStates
  BY <1>0, <1>3, SessionTypes DEF CallGoes
<1>5. Ends(n, K)
  <2>1. session' = [session EXCEPT ![n] = [s \in Session |->
                      IF s \in K THEN [session[n][s] EXCEPT !.active = FALSE] ELSE session[n][s]]]
    BY <1>1 DEF Expire
  <2>2. session = [m \in Node |-> session[m]] /\ \A m \in Node : session[m] = [s \in Session |-> session[m][s]]
    BY <1>0, SessionTypes
  <2> HIDE DEF K
  <2> QED BY <2>1, <2>2 DEF Ends
<1>6. /\ \A s \in K \cap Session : session[n][s] # None
      /\ \A m \in Node, s \in Session : s \in K /\ Calls(m, n) /\ session[n][s].id = IdOf[m]
              => session[n][s].exp <= time \/ (call[m].at = "await" /\ call[m].peer = n)
  BY <1>2 DEF Live, PromptAndApart, Calls
<1> HIDE DEF c, r, K
<1>7. /\ session' \in [Node -> [Session -> SessionRow \cup {None}]]
      /\ \A m \in Node, s \in Session :
            /\ session'[m][s] # None <=> session[m][s] # None
            /\ session[m][s] # None =>
                  /\ session'[m][s].id = session[m][s].id
                  /\ session'[m][s].url = session[m][s].url
                  /\ session'[m][s].exp = session[m][s].exp
            /\ Lives(m, s)' => Lives(m, s)
      /\ \A m \in Node, k \in Node, s \in Session, e \in Nat :
            Calls(m, k) /\ Gives(k, m, s, e) /\ ~ (call[m].at = "await" /\ call[m].peer = k)
               => Gives(k, m, s, e)'
  BY <1>1, <1>5, <1>6, RowsEnd
<1>8. SessionsTypeOK'
  BY <1>0, <1>1, <1>2, <1>4, <1>7, SessionTypes, SessionTypesNext
<1>9. CallsOwnPeers'
  BY <1>0, <1>2, <1>4 DEF CallsOwnPeers
<1>10. \A q \in Node, w \in Workers : worker[q][w] # AtRest =>
          worker[q][w].from # n /\ worker[q][w].from \in Node
  BY <1>0, <1>1, <1>4, WorkerFields DEF HandlersAwaited
<1>11. HandlersAwaited'
  BY <1>0, <1>1, <1>4, <1>10 DEF HandlersAwaited
<1>13. OnePair'
  <2> SUFFICES ASSUME NEW s \in Session PROVE \E a, b \in Node : OfPair(s, a, b)'
    BY DEF OnePair
  <2>1. Holds(c, s) => Holds(call[n], s)
    BY <1>1, <1>2, CallFields DEF InHand, WithSession
  <2>2. \A m \in Node : Lives(m, s)' => Lives(m, s) /\ session'[m][s].id = session[m][s].id
    BY <1>7 DEF Lives
  <2>3. ASSUME NEW m \in Node, NEW k \in Node, Ties(s, m, k)' PROVE Ties(s, m, k)
    BY <1>1, <1>2, <1>4, <2>1, <2>2, <2>3 DEF Ties, r
  <2> QED BY <1>0, <2>3, PairStays
<1>14. TouchFits'
  <2>1. \A q \in Node, w \in Workers : worker[q][w].at = "touch" => worker[q][w].sid \in Session
    BY <1>4, WorkerFields
  <2> QED BY <1>0, <1>1, <1>7, <2>1 DEF TouchFits
<1>15. AdmittedFits'
  BY <1>0, <1>1, <1>2, <1>4 DEF AdmittedFits, r
<1>16. RowsFit'
  <2> SUFFICES ASSUME NEW m \in Node, NEW q \in Node, Calls(m, q)
               PROVE  /\ \A s \in Session : Lives(m, s)' /\ session'[m][s].id = IdOf[q] =>
                            /\ Gives(q, m, s, session[m][s].exp)'
                            /\ session'[m][s].exp <= time + TTL
                            /\ ident[m][IdOf[q]] = q
                            /\ call'[m].at \in {"handshake", "await"} \cup InHand => call'[m].peer # q
                      /\ call'[m].at \in InHand /\ call'[m].peer = q =>
                            Gives(q, m, call[m].sid, call[m].exp)' /\ call'[m].exp <= time + TTL
    BY <1>1 DEF RowsFit
  <2>2. /\ call'[m].at \in InHand => call[m].at \in InHand
        /\ call'[m].at \in {"handshake", "await"} \cup InHand
              => call[m].at \in {"handshake", "await"} \cup InHand
        /\ call'[m].at \in InHand => call'[m].sid = call[m].sid /\ call'[m].exp = call[m].exp
        /\ call'[m].at \in {"handshake", "await"} \cup InHand => call'[m].peer = call[m].peer
    BY <1>1, <1>2, <1>4 DEF r, InHand
  <2>3. ASSUME call'[m].at \in InHand, call'[m].peer = q
        PROVE  Gives(q, m, call[m].sid, call[m].exp)' /\ call'[m].exp <= time + TTL
    <3>1. /\ Gives(q, m, call[m].sid, call[m].exp) /\ call[m].exp <= time + TTL
          /\ call[m].sid \in Session /\ call[m].exp \in Nat /\ call[m].at # "await"
      BY <1>4, <2>2, <2>3, RowsOfPair, CallFields DEF WithSession, InHand
    <3>2. \A s1 \in Session, e1 \in Nat : Gives(q, m, s1, e1) => Gives(q, m, s1, e1)'
      BY <1>7, <2>2, <2>3, <3>1
    <3>3. /\ call'[m].sid = call[m].sid /\ call'[m].exp = call[m].exp
          /\ call'[m].sid \in Session /\ call'[m].exp \in Nat
          /\ Gives(q, m, call'[m].sid, call'[m].exp)
      BY <2>2, <2>3, <3>1
    <3> HIDE DEF Gives
    <3>4. \A s1 \in Session, e1 \in Nat : s1 = call'[m].sid /\ e1 = call'[m].exp =>
             Gives(q, m, s1, e1)'
      BY <3>2, <3>3
    <3> QED BY <3>1, <3>3, <3>4 DEF Gives
  <2>4. ASSUME NEW s \in Session, Lives(m, s)', session'[m][s].id = IdOf[q]
        PROVE  /\ Gives(q, m, s, session[m][s].exp)'
               /\ Lives(m, s) /\ session[m][s].id = IdOf[q] /\ session'[m][s].exp = session[m][s].exp
    <3>1. Lives(m, s) /\ session[m][s].id = IdOf[q] /\ session'[m][s].exp = session[m][s].exp
      BY <1>7, <2>4 DEF Lives
    <3>2. /\ Gives(q, m, s, session[m][s].exp) /\ session[m][s].exp \in Nat
          /\ ~ (call[m].at = "await" /\ call[m].peer = q)
      BY <1>0, <3>1, RowsOfPair, SessionTypes DEF SessionRow, Lives
    <3>3. \A e1 \in Nat : Gives(q, m, s, e1) => Gives(q, m, s, e1)'
      BY <1>7, <3>2
    <3> QED BY <3>1, <3>2, <3>3 DEF Gives
  <2> QED BY <2>2, <2>3, <2>4, RowsOfPair
<1> QED BY <1>8, <1>9, <1>11, <1>13, <1>14, <1>15, <1>16 DEF HeldInv

\* What a node has of a peer stays right as rows, calls and time go on.
LEMMA RowsStay ==
    ASSUME HeldInv, SessionsTypeOK', time <= time',
           \A m, r \in Node, s \in Session :
              Calls(m, r) /\ Lives(m, s)' /\ session'[m][s].id = IdOf[r] =>
                 \/ /\ Lives(m, s) /\ session[m][s].id = IdOf[r]
                    /\ session'[m][s].exp = session[m][s].exp
                 \/ /\ \A e1 \in Nat : e1 = session'[m][s].exp => Gives(r, m, s, e1)'
                    /\ session'[m][s].exp <= time' + TTL /\ ident'[m][IdOf[r]] = r
                    /\ call'[m].at \in {"handshake", "await"} \cup InHand => call'[m].peer # r,
           \A m, r \in Node, s \in Session, e \in Nat :
              Calls(m, r) /\ Ties(s, m, r) /\ Gives(r, m, s, e) /\ e <= time + TTL =>
                 (call[m].at = "await" /\ call[m].peer = r) \/ Gives(r, m, s, e)',
           \A m, r \in Node : ident[m][IdOf[r]] = r => ident'[m][IdOf[r]] = r,
           \A m \in Node : call'[m].at \in {"handshake", "await"} \cup InHand =>
              \/ call'[m] = call[m]
              \/ /\ call[m].at = "handshake" /\ call'[m].at = "await"
                 /\ call'[m].peer = call[m].peer
              \/ /\ call[m].at = "await" /\ call'[m].at = "acked" /\ call'[m].peer = call[m].peer
                 /\ \A r \in Node, s1 \in Session, e1 \in Nat :
                       r = call[m].peer /\ s1 = call'[m].sid /\ e1 = call'[m].exp =>
                          Gives(r, m, s1, e1)'
                 /\ call'[m].exp <= time' + TTL
    PROVE  RowsFit'
<1>1. /\ SessionsTypeOK /\ time \in Nat /\ time' \in Nat /\ TTL \in Nat
      /\ \A m \in Node : call[m] \in CallStates /\ call'[m] \in CallStates
      /\ \A m \in Node, s \in Session :
            /\ session[m][s] \in SessionRow \cup {None} /\ session'[m][s] \in SessionRow \cup {None}
  BY SessionTypes, SessionTypesNext, PeerSessionsAssumption DEF HeldInv
<1> SUFFICES ASSUME NEW m \in Node, NEW r \in Node, Calls(m, r)
             PROVE  /\ \A s \in Session : Lives(m, s)' /\ session'[m][s].id = IdOf[r] =>
                          /\ Gives(r, m, s, session[m][s].exp)'
                          /\ session'[m][s].exp <= time' + TTL
                          /\ ident'[m][IdOf[r]] = r
                          /\ call'[m].at \in {"handshake", "await"} \cup InHand => call'[m].peer # r
                    /\ call'[m].at \in InHand /\ call'[m].peer = r =>
                          Gives(r, m, call[m].sid, call[m].exp)' /\ call'[m].exp <= time' + TTL
  BY DEF RowsFit
<1>2. call'[m].at \in {"handshake", "await"} \cup InHand /\ call'[m].peer = r =>
         call[m].at \in {"handshake", "await"} \cup InHand /\ call[m].peer = r
  BY DEF InHand
<1>3. ASSUME NEW s \in Session, Lives(m, s)', session'[m][s].id = IdOf[r]
      PROVE  /\ Gives(r, m, s, session[m][s].exp)'
             /\ session'[m][s].exp <= time' + TTL
             /\ ident'[m][IdOf[r]] = r
             /\ call'[m].at \in {"handshake", "await"} \cup InHand => call'[m].peer # r
  <2>1. session'[m][s].exp \in Nat
    BY <1>1, <1>3 DEF Lives, SessionRow
  <2>2. CASE /\ Lives(m, s) /\ session[m][s].id = IdOf[r]
             /\ session'[m][s].exp = session[m][s].exp
    <3>1. /\ Gives(r, m, s, session[m][s].exp) /\ session[m][s].exp <= time + TTL
          /\ ident[m][IdOf[r]] = r
          /\ call[m].at \in {"handshake", "await"} \cup InHand => call[m].peer # r
      BY <2>2, RowsOfPair
    <3>a. Ties(s, m, r) /\ ~ (call[m].at = "await" /\ call[m].peer = r)
      BY <2>2, <3>1 DEF Ties
    <3>2. \A e1 \in Nat : e1 = session'[m][s].exp => Gives(r, m, s, e1)'
      BY <2>1, <2>2, <3>1, <3>a
    <3>3. Gives(r, m, s, session[m][s].exp)'
      BY <2>1, <3>2 DEF Gives
    <3>4. ident'[m][IdOf[r]] = r
      BY <3>1
    <3>5. session'[m][s].exp <= time' + TTL
      BY <1>1, <2>1, <2>2, <3>1
    <3> QED BY <1>2, <3>1, <3>3, <3>4, <3>5
  <2>3. CASE ~ (/\ Lives(m, s) /\ session[m][s].id = IdOf[r]
                /\ session'[m][s].exp = session[m][s].exp)
    <3>1. /\ \A e1 \in Nat : e1 = session'[m][s].exp => Gives(r, m, s, e1)'
          /\ session'[m][s].exp <= time' + TTL /\ ident'[m][IdOf[r]] = r
          /\ call'[m].at \in {"handshake", "await"} \cup InHand => call'[m].peer # r
      BY <1>3, <2>3
    <3> QED BY <2>1, <3>1 DEF Gives
  <2> QED BY <2>2, <2>3
<1>4. ASSUME call'[m].at \in InHand, call'[m].peer = r
      PROVE  Gives(r, m, call[m].sid, call[m].exp)' /\ call'[m].exp <= time' + TTL
  <2>1. call'[m].sid \in Session /\ call'[m].exp \in Nat
    BY <1>1, <1>4, CallFields DEF WithSession
  <2>2. CASE call'[m] = call[m]
    <3>1. Gives(r, m, call[m].sid, call[m].exp) /\ call[m].exp <= time + TTL
      BY <1>4, <2>2, RowsOfPair
    <3>2. ~ (call[m].at = "await" /\ call[m].peer = r) /\ Ties(call[m].sid, m, r)
      BY <1>1, <1>4, <2>2, CallFields DEF InHand, WithSession, Ties
    <3>3. \A s1 \in Session, e1 \in Nat : s1 = call'[m].sid /\ e1 = call'[m].exp => Gives(r, m, s1, e1)'
      BY <2>1, <2>2, <3>1, <3>2
    <3>4. Gives(r, m, call[m].sid, call[m].exp)'
      <4> DEFINE s1 == call'[m].sid
                 e1 == call'[m].exp
      <4>1. s1 \in Session /\ e1 \in Nat
        BY <2>1
      <4>2. \A s2 \in Session, e2 \in Nat : s2 = s1 /\ e2 = e1 => Gives(r, m, s2, e2)'
        BY <3>3
      <4> QED BY <4>1, <4>2 DEF Gives
    <3>5. call'[m].exp <= time' + TTL
      <4>1. call[m].exp \in Nat /\ call[m].exp <= time + TTL
        BY <2>1, <2>2, <3>1
      <4> QED BY <1>1, <2>2, <4>1
    <3> QED BY <3>4, <3>5
  <2>3. CASE call'[m] # call[m]
    <3>1. call[m].peer = r /\ call'[m].exp <= time' + TTL
      BY <1>2, <1>4, <2>3 DEF InHand
    <3>2. \A s1 \in Session, e1 \in Nat : s1 = call'[m].sid /\ e1 = call'[m].exp => Gives(r, m, s1, e1)'
      BY <1>4, <2>3, <3>1 DEF InHand
    <3> QED BY <2>1, <3>1, <3>2 DEF Gives
  <2> QED BY <2>2, <2>3
<1> QED BY <1>3, <1>4

\* No row changes, and calls start no exchange of sessions but what they were at.
LEMMA SameRows ==
    ASSUME HeldInv, SessionsTypeOK', UNCHANGED <<time, session>>,
           \A m, r \in Node : ident[m][IdOf[r]] = r => ident'[m][IdOf[r]] = r,
           \A m \in Node : call'[m].at \in {"handshake", "await"} \cup InHand =>
              \/ call'[m] = call[m]
              \/ /\ call[m].at = "handshake" /\ call'[m].at = "await"
                 /\ call'[m].peer = call[m].peer
    PROVE  RowsFit'
<1>1. time <= time'
  BY SessionTypes DEF HeldInv
<1>2. \A m \in Node, s \in Session : Lives(m, s)' => Lives(m, s)
  BY DEF Lives
<1>3. \A m, r \in Node, s \in Session :
         Calls(m, r) /\ Lives(m, s)' /\ session'[m][s].id = IdOf[r] =>
            /\ Lives(m, s) /\ session[m][s].id = IdOf[r]
            /\ session'[m][s].exp = session[m][s].exp
  BY <1>2
<1>5. \A m \in Node : call'[m].at \in {"handshake", "await"} \cup InHand =>
         \/ call'[m] = call[m]
         \/ /\ call[m].at = "handshake" /\ call'[m].at = "await"
            /\ call'[m].peer = call[m].peer
         \/ /\ call[m].at = "await" /\ call'[m].at = "acked" /\ call'[m].peer = call[m].peer
            /\ \A r \in Node, s1 \in Session, e1 \in Nat :
                  r = call[m].peer /\ s1 = call'[m].sid /\ e1 = call'[m].exp =>
                     Gives(r, m, s1, e1)'
            /\ call'[m].exp <= time' + TTL
  OBVIOUS
<1>6. \A m, r \in Node, s \in Session :
         Calls(m, r) /\ Lives(m, s)' /\ session'[m][s].id = IdOf[r] =>
            \/ /\ Lives(m, s) /\ session[m][s].id = IdOf[r]
               /\ session'[m][s].exp = session[m][s].exp
            \/ /\ \A e1 \in Nat : e1 = session'[m][s].exp => Gives(r, m, s, e1)'
               /\ session'[m][s].exp <= time' + TTL /\ ident'[m][IdOf[r]] = r
               /\ call'[m].at \in {"handshake", "await"} \cup InHand => call'[m].peer # r
  BY <1>3
<1>7. \A m, r \in Node, s \in Session, e \in Nat :
         Calls(m, r) /\ Ties(s, m, r) /\ Gives(r, m, s, e) /\ e <= time + TTL =>
            (call[m].at = "await" /\ call[m].peer = r) \/ Gives(r, m, s, e)'
  BY DEF Gives
<1> QED BY <1>1, <1>5, <1>6, <1>7, RowsStay, Zenon

\* A handler moves on, or ends and answers its caller.
HandlerGoes(q, w, n, j, c) ==
    /\ worker[q][w] # AtRest /\ n = worker[q][w].from
    /\ WorkerGoes(q, w, j) /\ CallGoes(n, c)
    /\ \/ j = AtRest
       \/ /\ j # AtRest /\ j.from = n /\ c = call[n]
          /\ \/ /\ worker[q][w].at \in {"admit", "upsert", "expire", "issue"}
                /\ j.at \in {"admit", "upsert", "expire", "issue"}
             \/ /\ worker[q][w].at \in {"check", "touch", "serve"}
                /\ j.at \in {"check", "touch", "serve"} /\ j.sid = worker[q][w].sid
    /\ c # AtRest => c.peer = q

\* No other handler answers the call.
LEMMA HandlersGo ==
    ASSUME HeldInv, NEW q \in Node, NEW w \in Workers, NEW n \in Node,
           NEW j \in WorkerStates, NEW c \in CallStates, HandlerGoes(q, w, n, j, c)
    PROVE  /\ call[n] # AtRest /\ call[n].peer = q
           /\ call'[n] = c /\ \A m \in Node \ {n} : call'[m] = call[m]
           /\ worker'[q][w] = j
           /\ \A m \in Node, v \in Workers : m # q \/ v # w => worker'[m][v] = worker[m][v]
           /\ CallsOwnPeers' /\ HandlersAwaited'
           /\ call' \in [Node -> CallStates] /\ worker' \in [Node -> [Workers -> WorkerStates]]
<1>0. /\ SessionsTypeOK /\ CallsOwnPeers /\ HandlersAwaited
      /\ worker[q][w] # AtRest /\ n = worker[q][w].from
      /\ WorkerGoes(q, w, j) /\ CallGoes(n, c)
  BY DEF HeldInv, HandlerGoes
<1>1. /\ call' = [m \in Node |-> IF m = n THEN c ELSE call[m]] /\ call'[n] = c
      /\ \A m \in Node \ {n} : call'[m] = call[m]
      /\ \A m \in Node : call[m] \in CallStates
  BY <1>0, SessionTypes DEF CallGoes
<1>2. /\ worker' = [m \in Node |-> [v \in Workers |-> IF m = q /\ v = w THEN j ELSE worker[m][v]]]
      /\ worker'[q][w] = j
      /\ \A m \in Node, v \in Workers : m # q \/ v # w => worker'[m][v] = worker[m][v]
      /\ \A m \in Node, v \in Workers : worker[m][v] \in WorkerStates
  BY <1>0, SessionTypes DEF WorkerGoes
<1>3. call[n] # AtRest /\ call[n].peer = q
  BY <1>0 DEF HandlersAwaited
<1>5. CallsOwnPeers'
  BY <1>0, <1>1, <1>3 DEF CallsOwnPeers, HandlerGoes
<1>a. ASSUME NEW m \in Node, NEW v \in Workers, worker[m][v] # AtRest
      PROVE  /\ worker[m][v].from \in Node
             /\ call[worker[m][v].from] # AtRest /\ call[worker[m][v].from].peer = m
             /\ \A u \in Workers :
                   worker[m][u] # AtRest /\ worker[m][u].from = worker[m][v].from => u = v
  BY <1>0, <1>2, <1>a, WorkerFields DEF HandlersAwaited
<1>6. \A m \in Node, v \in Workers : worker[m][v] # AtRest /\ (m # q \/ v # w) => worker[m][v].from # n
  <2> SUFFICES ASSUME NEW m \in Node, NEW v \in Workers, worker[m][v] # AtRest, worker[m][v].from = n
               PROVE  m = q /\ v = w
    OBVIOUS
  <2>1. m = q
    BY <1>3, <1>a
  <2>2. \A u \in Workers : worker[q][u] # AtRest /\ worker[q][u].from = n => u = v
    BY <1>a, <2>1
  <2>3. worker[q][w] # AtRest /\ worker[q][w].from = n
    BY <1>0
  <2> QED BY <2>1, <2>2, <2>3
<1>7. HandlersAwaited'
  <2> SUFFICES ASSUME NEW m \in Node, NEW v \in Workers, worker'[m][v] # AtRest
               PROVE  LET i == worker'[m][v]
                          d == call'[i.from]
                      IN  /\ d # AtRest /\ d.peer = m
                          /\ i.at \in {"admit", "upsert", "expire", "issue"} => d.at = "await"
                          /\ i.at \in {"check", "touch", "serve"} => d.at = "waiting" /\ d.sid = i.sid
                          /\ \A u \in Workers :
                                worker'[m][u] # AtRest /\ worker'[m][u].from = i.from => u = v
    BY DEF HandlersAwaited
  <2>1. CASE m = q /\ v = w
    <3>1. j # AtRest /\ worker'[m][v] = j /\ call'[n] = call[n] /\ j.from = n
      BY <1>1, <1>2, <2>1 DEF HandlerGoes
    <3>2. \A u \in Workers : worker'[m][u] # AtRest /\ worker'[m][u].from = n => u = v
      BY <1>2, <1>6, <2>1
    <3>3. /\ worker[q][w].at \in {"admit", "upsert", "expire", "issue"} => call[n].at = "await"
          /\ worker[q][w].at \in {"check", "touch", "serve"} =>
                call[n].at = "waiting" /\ call[n].sid = worker[q][w].sid
      BY <1>0 DEF HandlersAwaited
    <3> QED BY <1>3, <2>1, <3>1, <3>2, <3>3 DEF HandlerGoes
  <2>2. CASE m # q \/ v # w
    <3>1. worker'[m][v] = worker[m][v] /\ worker[m][v].from # n /\ worker[m][v].from \in Node
      BY <1>2, <1>6, <2>2, WorkerFields
    <3>2. call'[worker[m][v].from] = call[worker[m][v].from]
      BY <1>1, <3>1
    <3>3. ASSUME NEW u \in Workers, worker'[m][u] # AtRest, worker'[m][u].from = worker[m][v].from
          PROVE  u = v
      <4>1. ~ (m = q /\ u = w)
        <5> SUFFICES ASSUME m = q, u = w PROVE FALSE
          OBVIOUS
        <5>1. j # AtRest /\ j.from = worker[m][v].from
          BY <1>2, <3>3
        <5> QED BY <3>1, <5>1 DEF HandlerGoes
      <4> QED BY <1>2, <1>a, <3>1, <3>3, <4>1
    <3>4. LET i == worker[m][v]
              d == call[i.from]
          IN  /\ d # AtRest /\ d.peer = m
              /\ i.at \in {"admit", "upsert", "expire", "issue"} => d.at = "await"
              /\ i.at \in {"check", "touch", "serve"} => d.at = "waiting" /\ d.sid = i.sid
      BY <1>0, <3>1 DEF HandlersAwaited
    <3> QED BY <3>1, <3>2, <3>3, <3>4
  <2> QED BY <2>1, <2>2
<1>8. call' \in [Node -> CallStates] /\ worker' \in [Node -> [Workers -> WorkerStates]]
  BY <1>1, <1>2
<1> QED BY <1>1, <1>2, <1>3, <1>5, <1>7, <1>8

LEMMA HandlerStep ==
    ASSUME HeldInv, NEW q \in Node, NEW w \in Workers, NEW n \in Node,
           NEW j \in WorkerStates, NEW c \in CallStates, HandlerGoes(q, w, n, j, c),
           c.at \notin {"expire", "store"},
           UNCHANGED <<time, lost>>,
           ident' \in [Node -> [Id -> Node \cup {None}]],
           \A m, r \in Node : ident[m][IdOf[r]] = r => ident'[m][IdOf[r]] = r,
           \A m \in Node, i \in Id : ident'[m][i] # None => IdOf[ident'[m][i]] = i,
           session' \in [Node -> [Session -> SessionRow \cup {None}]],
           j.at \in {"expire", "issue"} => ident'[q][IdOf[n]] = n,
           j.at = "issue" => j.exp <= time + TTL,
           j.at = "touch" =>
              /\ session'[q][j.sid] # None /\ session'[q][j.sid].id = IdOf[n]
              /\ session'[q][j.sid].url = n,
           \A m \in Node, v \in Workers : worker[m][v].at = "touch" =>
              LET s == worker[m][v].sid
              IN  session'[m][s] # None /\ session'[m][s].id = session[m][s].id
                     /\ session'[m][s].url = session[m][s].url
    PROVE  SessionsTypeOK' /\ CallsOwnPeers' /\ HandlersAwaited' /\ TouchFits' /\ AdmittedFits'
<1>0. SessionsTypeOK /\ TouchFits /\ AdmittedFits
  BY DEF HeldInv
<1>1. /\ call[n] # AtRest /\ call[n].peer = q
      /\ call'[n] = c /\ \A m \in Node \ {n} : call'[m] = call[m]
      /\ worker'[q][w] = j
      /\ \A m \in Node, v \in Workers : m # q \/ v # w => worker'[m][v] = worker[m][v]
      /\ CallsOwnPeers' /\ HandlersAwaited'
      /\ call' \in [Node -> CallStates] /\ worker' \in [Node -> [Workers -> WorkerStates]]
  BY HandlersGo
<1>2. /\ \A m \in Node : call[m] \in CallStates
      /\ \A m \in Node, v \in Workers : worker[m][v] \in WorkerStates
      /\ j # AtRest => j.from = n
  BY <1>0, SessionTypes DEF HandlerGoes
<1>4. SessionsTypeOK'
  <2>1. time' \in Nat /\ lost' \in [Node -> Nat]
    BY <1>0, SessionTypes
  <2> QED BY <1>1, <2>1, SessionTypesNext
<1>8. TouchFits'
  <2> SUFFICES ASSUME NEW m \in Node, NEW v \in Workers, worker'[m][v].at = "touch"
               PROVE  LET i == worker'[m][v]
                      IN  /\ session'[m][i.sid] # None /\ session'[m][i.sid].id = IdOf[i.from]
                          /\ session'[m][i.sid].url = i.from
    BY DEF TouchFits
  <2>1. CASE m = q /\ v = w
    BY <1>1, <1>2, <2>1 DEF AtRest
  <2>2. CASE m # q \/ v # w
    <3>1. worker'[m][v] = worker[m][v]
      BY <1>1, <2>2
    <3>2. LET i == worker[m][v]
          IN  /\ session[m][i.sid] # None /\ session[m][i.sid].id = IdOf[i.from]
              /\ session[m][i.sid].url = i.from
      BY <1>0, <3>1 DEF TouchFits
    <3> QED BY <3>1, <3>2
  <2> QED BY <2>1, <2>2
<1>9. AdmittedFits'
  <2>1. \A m \in Node, v \in Workers : worker'[m][v].at \in {"expire", "issue"} =>
            ident'[m][IdOf[worker'[m][v].from]] = worker'[m][v].from
    <3> SUFFICES ASSUME NEW m \in Node, NEW v \in Workers, worker'[m][v].at \in {"expire", "issue"}
                 PROVE  ident'[m][IdOf[worker'[m][v].from]] = worker'[m][v].from
      OBVIOUS
    <3>1. CASE m = q /\ v = w
      BY <1>1, <1>2, <3>1 DEF AtRest
    <3>2. CASE m # q \/ v # w
      <4>1. worker'[m][v] = worker[m][v] /\ worker[m][v].from \in Node
        BY <1>1, <1>2, <3>2, WorkerFields DEF AtRest
      <4>2. ident[m][IdOf[worker[m][v].from]] = worker[m][v].from
        BY <1>0, <4>1 DEF AdmittedFits
      <4> QED BY <4>1, <4>2
    <3> QED BY <3>1, <3>2
  <2>2. \A m \in Node, v \in Workers : worker'[m][v].at = "issue" =>
            worker'[m][v].exp <= time' + TTL
    <3> SUFFICES ASSUME NEW m \in Node, NEW v \in Workers, worker'[m][v].at = "issue"
                 PROVE  worker'[m][v].exp <= time' + TTL
      OBVIOUS
    <3>1. CASE m = q /\ v = w
      BY <1>1, <3>1
    <3>2. CASE m # q \/ v # w
      <4>1. worker'[m][v] = worker[m][v]
        BY <1>1, <3>2
      <4>2. worker[m][v].exp <= time + TTL
        BY <1>0, <4>1 DEF AdmittedFits
      <4> QED BY <4>1, <4>2
    <3> QED BY <3>1, <3>2
  <2>3. \A m \in Node : call'[m].at \in {"expire", "store"} =>
            ident'[m][IdOf[call'[m].peer]] = call'[m].peer
    <3> SUFFICES ASSUME NEW m \in Node, call'[m].at \in {"expire", "store"}
                 PROVE  ident'[m][IdOf[call'[m].peer]] = call'[m].peer
      OBVIOUS
    <3>1. m # n /\ call'[m] = call[m] /\ call[m].peer \in Node /\ IdOf[call[m].peer] \in Id
      BY <1>1, <1>2, CallFields, PeerSessionsAssumption DEF AtRest
    <3>2. ident[m][IdOf[call[m].peer]] = call[m].peer
      BY <1>0, <3>1 DEF AdmittedFits
    <3> QED BY <3>1, <3>2
  <2> QED BY <2>1, <2>2, <2>3 DEF AdmittedFits
<1> QED BY <1>1, <1>4, <1>8, <1>9

\* A handler ties no session to a node that was not tied to it.
LEMMA HandlerTies ==
    ASSUME HeldInv, NEW q \in Node, NEW w \in Workers, NEW n \in Node,
           NEW j \in WorkerStates, NEW c \in CallStates, HandlerGoes(q, w, n, j, c),
           \A s \in Session : Holds(j, s) => Holds(worker[q][w], s),
           \A s \in Session : Holds(c, s) => Holds(call[n], s),
           \A m, r \in Node, s \in Session :
              Lives(m, s)' /\ session'[m][s].id = IdOf[r] => Ties(s, m, r)
    PROVE  OnePair'
<1>1. /\ call[n] # AtRest /\ call[n].peer = q
      /\ call'[n] = c /\ \A m \in Node \ {n} : call'[m] = call[m]
      /\ worker'[q][w] = j
      /\ \A m \in Node, v \in Workers : m # q \/ v # w => worker'[m][v] = worker[m][v]
  BY HandlersGo
<1>2. /\ \A s : Holds(j, s) => j # AtRest
      /\ \A s : Holds(c, s) => c # AtRest
  BY WorkerFields, CallFields DEF WithSession, InHand
<1>3. /\ j # AtRest => j.from = worker[q][w].from
      /\ c # AtRest => c.peer = q
  BY DEF HandlerGoes
<1>4. OnePair
  BY DEF HeldInv
<1> SUFFICES ASSUME NEW s \in Session PROVE \E a, b \in Node : OfPair(s, a, b)'
  BY DEF OnePair
<1>5. ASSUME NEW m \in Node, NEW r \in Node, Ties(s, m, r)' PROVE Ties(s, m, r)
  <2>1. CASE Lives(m, s)' /\ session'[m][s].id = IdOf[r]
    BY <2>1
  <2>2. CASE Holds(call'[m], s) /\ call'[m].peer = r
    <3>1. Holds(call[m], s) /\ call[m].peer = r
      BY <1>1, <1>2, <1>3, <2>2
    <3> QED BY <3>1 DEF Ties
  <2>3. CASE \E v \in Workers : Holds(worker'[m][v], s) /\ worker'[m][v].from = r
    <3>1. PICK v \in Workers : Holds(worker'[m][v], s) /\ worker'[m][v].from = r
      BY <2>3
    <3>2. Holds(worker[m][v], s) /\ worker[m][v].from = r
      <4>1. CASE m = q /\ v = w
        BY <1>1, <1>2, <1>3, <3>1, <4>1
      <4>2. CASE m # q \/ v # w
        BY <1>1, <3>1, <4>2
      <4> QED BY <4>1, <4>2
    <3> QED BY <3>2 DEF Ties
  <2> QED BY <1>5, <2>1, <2>2, <2>3 DEF Ties
<1> QED BY <1>4, <1>5, PairStays

\* The call of the node whose handler moves, unless it is answered, goes on as it is.
LEMMA CallStays ==
    ASSUME SessionsTypeOK, NEW n \in Node, UNCHANGED call
    PROVE  CallGoes(n, call[n])
BY SessionTypes DEF CallGoes

LEMMA AdmitCallerKeeps ==
    ASSUME HeldInv, PromptAndApart, NEW q \in Node, NEW w \in Workers, AdmitCaller(q, w)
    PROVE  HeldInv'
<1> DEFINE j == [worker[q][w] EXCEPT !.at = "expire"]
           n == worker[q][w].from
<1>0. SessionsTypeOK /\ OnePair /\ AdmittedFits
  BY DEF HeldInv
<1>1. /\ worker[q][w] \in WorkerStates /\ worker[q][w].at = "upsert" /\ WorkerTo(q, w, j)
      /\ ident' = [ident EXCEPT ![q][IdOf[n]] = n]
      /\ UNCHANGED <<time, session, call, lost>>
  BY <1>0, SessionTypes DEF AdmitCaller, Admit
<1>2. /\ j \in WorkerStates /\ j.at = "expire" /\ j.from = n /\ j # AtRest /\ n \in Node
      /\ worker[q][w] # AtRest
  BY <1>1, WorkerFields DEF WorkerStates, AtRest
<1>3. WorkerGoes(q, w, j)
  BY <1>0, <1>1, WorkerMoves
<1>4. IdOf[n] \in Id /\ \A m \in Node : IdOf[m] \in Id
  BY <1>2, PeerSessionsAssumption
<1>5. /\ ident' \in [Node -> [Id -> Node \cup {None}]]
      /\ \A m \in Node, i \in Id : ident'[m][i] = IF m = q /\ i = IdOf[n] THEN n ELSE ident[m][i]
  BY <1>0, <1>1, <1>2, <1>4, SessionTypes
<1> HIDE DEF j, n
<1>6. /\ \A m, k \in Node : ident[m][IdOf[k]] = k => ident'[m][IdOf[k]] = k
      /\ \A m \in Node, i \in Id : ident'[m][i] # None => IdOf[ident'[m][i]] = i
      /\ ident'[q][IdOf[n]] = n
  BY <1>0, <1>2, <1>4, <1>5 DEF PromptAndApart, AdmittedFits
<1>7. HandlerGoes(q, w, n, j, call[n]) /\ call[n] \in CallStates /\ call[n].at = "await"
      /\ session \in [Node -> [Session -> SessionRow \cup {None}]]
  <2>1. call[n] # AtRest /\ call[n].peer = q /\ call[n].at = "await"
    BY <1>1, <1>2 DEF HeldInv, HandlersAwaited, n
  <2>2. CallGoes(n, call[n])
    BY <1>0, <1>1, <1>2, CallStays
  <2> QED BY <1>0, <1>1, <1>2, <1>3, <2>1, <2>2, SessionTypes DEF HandlerGoes, n
<1>8. TouchFits
  BY DEF HeldInv
<1>9. \A m \in Node, v \in Workers : worker[m][v].at = "touch" =>
         session[m][worker[m][v].sid] # None
  BY <1>8 DEF TouchFits
<1>10. SessionsTypeOK' /\ CallsOwnPeers' /\ HandlersAwaited' /\ TouchFits' /\ AdmittedFits'
  <2>1. /\ call[n].at \notin {"expire", "store"} /\ j.at \notin {"issue", "touch"}
        /\ ident' \in [Node -> [Id -> Node \cup {None}]]
        /\ session' \in [Node -> [Session -> SessionRow \cup {None}]]
        /\ UNCHANGED <<time, lost>>
    BY <1>1, <1>2, <1>5, <1>7
  <2>2. \A m \in Node, v \in Workers : worker[m][v].at = "touch" =>
           LET s == worker[m][v].sid
           IN  session'[m][s] # None /\ session'[m][s].id = session[m][s].id
                  /\ session'[m][s].url = session[m][s].url
    BY <1>1, <1>9
  <2> QED BY <1>2, <1>6, <1>7, <2>1, <2>2, HandlerStep
<1>11. \A m \in Node, s \in Session : Lives(m, s)' <=> Lives(m, s)
  BY <1>1 DEF Lives
<1>12. OnePair'
  <2>1. \A s \in Session : ~Holds(j, s)
    BY <1>2, WorkerFields
  <2>2. \A m, r \in Node, s \in Session :
           Lives(m, s)' /\ session'[m][s].id = IdOf[r] => Ties(s, m, r)
    BY <1>1, <1>11 DEF Ties
  <2> QED BY <1>2, <1>7, <2>1, <2>2, HandlerTies
<1>13. RowsFit'
  BY <1>1, <1>6, <1>10, SameRows
<1> QED BY <1>10, <1>12, <1>13 DEF HeldInv

LEMMA ServeKeeps ==
    ASSUME HeldInv, PromptAndApart, NEW q \in Node, NEW w \in Workers, Serve(q, w)
    PROVE  HeldInv'
<1> DEFINE n == worker[q][w].from
           c == [call[n] EXCEPT !.at = "served"]
<1>0. SessionsTypeOK /\ OnePair /\ AdmittedFits /\ TouchFits
  BY DEF HeldInv
<1>1. /\ worker[q][w] \in WorkerStates /\ worker[q][w].at = "serve" /\ WorkerTo(q, w, AtRest)
      /\ UNCHANGED <<time, ident, session, lost>>
  BY <1>0, SessionTypes DEF Serve
<1>2. worker[q][w] # AtRest /\ n \in Node
  BY <1>1, WorkerFields
<1>3. call[n] # AtRest /\ call[n].peer = q /\ call[n].at = "waiting" /\ call[n] \in CallStates
  BY <1>0, <1>1, <1>2, SessionTypes DEF HeldInv, HandlersAwaited
<1>4. c \in CallStates /\ c.at = "served" /\ c.peer = q /\ c.sid = call[n].sid
  BY <1>3 DEF CallStates, InHand, AtRest
<1>5. CallTo(n, c)
  BY <1>3 DEF Serve, CallTo
<1>6. WorkerGoes(q, w, AtRest) /\ CallGoes(n, c)
  BY <1>0, <1>1, <1>2, <1>5, WorkerMoves, CallMoves
<1> HIDE DEF n, c
<1>7. AtRest \in WorkerStates /\ AtRest.at = "idle"
  BY DEF WorkerStates, AtRest
<1>8. HandlerGoes(q, w, n, AtRest, c)
  BY <1>2, <1>4, <1>6 DEF HandlerGoes, n
<1>9. /\ ident \in [Node -> [Id -> Node \cup {None}]]
      /\ session \in [Node -> [Session -> SessionRow \cup {None}]]
      /\ \A m \in Node, i \in Id : ident[m][i] # None => IdOf[ident[m][i]] = i
      /\ \A m \in Node, v \in Workers : worker[m][v].at = "touch" =>
            session[m][worker[m][v].sid] # None
  BY <1>0, SessionTypes DEF AdmittedFits, TouchFits
<1>10. SessionsTypeOK' /\ CallsOwnPeers' /\ HandlersAwaited' /\ TouchFits' /\ AdmittedFits'
  BY <1>1, <1>2, <1>4, <1>7, <1>8, <1>9, HandlerStep
<1>11. \A m \in Node, s \in Session : Lives(m, s)' <=> Lives(m, s)
  BY <1>1 DEF Lives
<1>12. OnePair'
  <2>1. \A s \in Session : ~Holds(AtRest, s)
    BY <1>7, WorkerFields
  <2>2. \A m, r \in Node, s \in Session :
           Lives(m, s)' /\ session'[m][s].id = IdOf[r] => Ties(s, m, r)
    BY <1>1, <1>11 DEF Ties
  <2>3. \A s \in Session : Holds(c, s) => Holds(call[n], s)
    BY <1>3, <1>4, CallFields DEF WithSession
  <2> QED BY <1>2, <1>4, <1>7, <1>8, <2>1, <2>2, <2>3, HandlerTies
<1>13. RowsFit'
  <2>1. \A m \in Node : call'[m] = call[m] \/ call'[m].at = "served"
    BY <1>0, <1>4, <1>6, SessionTypes DEF CallGoes
  <2> QED BY <1>1, <1>10, <2>1, SameRows DEF InHand
<1> QED BY <1>10, <1>12, <1>13 DEF HeldInv

\* A handler ends rows of its node, and its caller waits on or is refused.
LEMMA EndingStep ==
    ASSUME HeldInv, NEW q \in Node, NEW w \in Workers, NEW n \in Node,
           NEW j \in WorkerStates, NEW c \in CallStates, HandlerGoes(q, w, n, j, c),
           NEW K, \A s \in K \cap Session : session[q][s] # None, Ends(q, K),
           UNCHANGED <<time, ident, lost>>,
           \A m \in Node, s \in Session : s \in K /\ Calls(m, q) /\ session[q][s].id = IdOf[m]
              => session[q][s].exp <= time \/ (call[m].at = "await" /\ call[m].peer = q),
           c \in {call[n], AtRest}, call[n].at \in {"await", "waiting"},
           \A s \in Session : Holds(j, s) => Holds(worker[q][w], s),
           j.at \in {"expire", "issue"} => ident[q][IdOf[n]] = n,
           j.at = "issue" => j.exp <= time + TTL,
           j.at = "touch" =>
              /\ session[q][j.sid] # None /\ session[q][j.sid].id = IdOf[n]
              /\ session[q][j.sid].url = n
    PROVE  HeldInv'
<1>0. SessionsTypeOK /\ TouchFits /\ AdmittedFits
  BY DEF HeldInv
<1>1. /\ session' \in [Node -> [Session -> SessionRow \cup {None}]]
      /\ \A m \in Node, s \in Session :
            /\ session'[m][s] # None <=> session[m][s] # None
            /\ session[m][s] # None =>
                  /\ session'[m][s].id = session[m][s].id
                  /\ session'[m][s].url = session[m][s].url
                  /\ session'[m][s].exp = session[m][s].exp
            /\ Lives(m, s)' => Lives(m, s)
      /\ \A m, r \in Node, s \in Session, e \in Nat :
            Calls(m, r) /\ Gives(r, m, s, e) /\ ~ (call[m].at = "await" /\ call[m].peer = r)
               => Gives(r, m, s, e)'
  BY RowsEnd
<1>2. /\ ident' \in [Node -> [Id -> Node \cup {None}]]
      /\ \A m, r \in Node : ident[m][IdOf[r]] = r => ident'[m][IdOf[r]] = r
      /\ \A m \in Node, i \in Id : ident'[m][i] # None => IdOf[ident'[m][i]] = i
      /\ c.at \notin {"expire", "store"}
  <2>1. AtRest.at = "idle"
    BY DEF AtRest
  <2> QED BY <1>0, <2>1, SessionTypes DEF AdmittedFits
<1>3. \A m \in Node, v \in Workers : worker[m][v].at = "touch" =>
         LET s == worker[m][v].sid
         IN  session'[m][s] # None /\ session'[m][s].id = session[m][s].id
                /\ session'[m][s].url = session[m][s].url
  <2> SUFFICES ASSUME NEW m \in Node, NEW v \in Workers, worker[m][v].at = "touch"
               PROVE  LET s == worker[m][v].sid
                      IN  session'[m][s] # None /\ session'[m][s].id = session[m][s].id
                             /\ session'[m][s].url = session[m][s].url
    OBVIOUS
  <2>1. session[m][worker[m][v].sid] # None
    BY <1>0 DEF TouchFits
  <2>2. worker[m][v].sid \in Session
    BY <1>0, WorkerFields, SessionTypes
  <2> QED BY <1>1, <2>1, <2>2
<1>4. j.at = "touch" =>
         /\ session'[q][j.sid] # None /\ session'[q][j.sid].id = IdOf[n]
         /\ session'[q][j.sid].url = n
  BY <1>1, WorkerFields
<1>5. SessionsTypeOK' /\ CallsOwnPeers' /\ HandlersAwaited' /\ TouchFits' /\ AdmittedFits'
  <2>1. j.at \in {"expire", "issue"} => ident'[q][IdOf[n]] = n
    OBVIOUS
  <2> QED BY <1>1, <1>2, <1>3, <1>4, <2>1, HandlerStep
<1>6. OnePair'
  <2>1. \A m, r \in Node, s \in Session :
           Lives(m, s)' /\ session'[m][s].id = IdOf[r] => Ties(s, m, r)
    BY <1>1 DEF Ties, Lives
  <2>2. \A s \in Session : Holds(c, s) => Holds(call[n], s)
    <3>1. AtRest \in CallStates /\ AtRest.at = "idle"
      BY DEF CallStates, AtRest
    <3>2. \A s : ~Holds(AtRest, s)
      BY <3>1, CallFields DEF WithSession, InHand
    <3> QED BY <3>2
  <2> QED BY <2>1, <2>2, HandlerTies
<1>7. RowsFit'
  <2>1. time <= time'
    BY <1>0, SessionTypes
  <2>2. \A m, r \in Node, s \in Session :
           Calls(m, r) /\ Lives(m, s)' /\ session'[m][s].id = IdOf[r] =>
              /\ Lives(m, s) /\ session[m][s].id = IdOf[r]
              /\ session'[m][s].exp = session[m][s].exp
    BY <1>1 DEF Lives
  <2>3. \A m \in Node : call'[m] = call[m] \/ call'[m].at = "idle"
    BY <1>0, HandlersGo DEF AtRest
  <2>4. \A m \in Node : call'[m].at \in {"handshake", "await"} \cup InHand => call'[m] = call[m]
    BY <2>3 DEF InHand
  <2> QED BY <1>1, <1>2, <1>5, <2>1, <2>2, <2>4, RowsStay
<1> QED BY <1>5, <1>6, <1>7 DEF HeldInv

LEMMA EndSessionsKeeps ==
    ASSUME HeldInv, PromptAndApart, NEW q \in Node, NEW w \in Workers, EndSessions(q, w)
    PROVE  HeldInv'
<1> DEFINE n == worker[q][w].from
           j == [at |-> "issue", from |-> n, exp |-> time + TTL]
           K == {s \in Session : Live(q, s, IdOf[n])}
<1>0. SessionsTypeOK /\ AdmittedFits
  BY DEF HeldInv
<1>1. /\ worker[q][w] \in WorkerStates /\ worker[q][w].at = "expire" /\ WorkerTo(q, w, j)
      /\ Expire(q, IdOf[n])
      /\ UNCHANGED <<time, ident, call, lost>>
  BY <1>0, SessionTypes DEF EndSessions
<1>2. worker[q][w] # AtRest /\ n \in Node
  BY <1>1, WorkerFields
<1>3. call[n] # AtRest /\ call[n].peer = q /\ call[n].at = "await" /\ call[n] \in CallStates
  BY <1>0, <1>1, <1>2, SessionTypes DEF HeldInv, HandlersAwaited
<1>4. /\ j \in WorkerStates /\ j.at = "issue" /\ j.from = n /\ j.exp = time + TTL /\ j # AtRest
  BY <1>0, <1>2, SessionTypes, PeerSessionsAssumption DEF WorkerStates, AtRest
<1>5. HandlerGoes(q, w, n, j, call[n])
  <2>1. WorkerGoes(q, w, j) /\ CallGoes(n, call[n])
    BY <1>0, <1>1, <1>2, WorkerMoves, CallStays
  <2> HIDE DEF j, n
  <2>2. n = worker[q][w].from
    BY DEF n
  <2> QED BY <1>1, <1>2, <1>3, <1>4, <2>1, <2>2 DEF HandlerGoes
<1>6. Ends(q, K)
  <2>1. session' = [session EXCEPT ![q] = [s \in Session |->
                      IF s \in K THEN [session[q][s] EXCEPT !.active = FALSE] ELSE session[q][s]]]
    BY <1>1 DEF Expire
  <2>2. session = [m \in Node |-> session[m]] /\ \A m \in Node : session[m] = [s \in Session |-> session[m][s]]
    BY <1>0, SessionTypes
  <2> HIDE DEF K
  <2> QED BY <2>1, <2>2 DEF Ends
<1>7. /\ \A s \in K \cap Session : session[q][s] # None
      /\ \A m \in Node, s \in Session : s \in K /\ Calls(m, q) /\ session[q][s].id = IdOf[m]
            => session[q][s].exp <= time \/ (call[m].at = "await" /\ call[m].peer = q)
  BY <1>2, <1>3 DEF Live, PromptAndApart
<1>8. ident[q][IdOf[n]] = n
  BY <1>0, <1>1 DEF AdmittedFits
<1> HIDE DEF n, j, K
<1>9. \A s \in Session : ~Holds(j, s)
  BY <1>4, WorkerFields
<1>10. j.exp <= time + TTL
  BY <1>0, <1>4, SessionTypes, PeerSessionsAssumption
<1> QED BY <1>1, <1>2, <1>3, <1>4, <1>5, <1>6, <1>7, <1>8, <1>9, <1>10, EndingStep

\* The rows that a prune ends have run out.
LEMMA PruneEnds ==
    ASSUME HeldInv, NEW q \in Node, Prune(q)
    PROVE  \E K : /\ Ends(q, K) /\ \A s \in K \cap Session : session[q][s] # None
                  /\ \A s \in Session : s \in K => session[q][s].exp <= time
<1> DEFINE K == {s \in Session : /\ session[q][s] # None /\ session[q][s].active
                                 /\ session[q][s].exp <= time}
<1>1. session' = [session EXCEPT ![q] = [s \in Session |->
                    IF s \in K THEN [session[q][s] EXCEPT !.active = FALSE] ELSE session[q][s]]]
  BY DEF Prune
<1>2. session = [m \in Node |-> session[m]] /\ \A m \in Node : session[m] = [s \in Session |-> session[m][s]]
  BY SessionTypes DEF HeldInv
<1>3. /\ \A s \in K \cap Session : session[q][s] # None
      /\ \A s \in Session : s \in K => session[q][s].exp <= time
  OBVIOUS
<1> HIDE DEF K
<1>4. Ends(q, K)
  BY <1>1, <1>2 DEF Ends
<1> QED BY <1>3, <1>4

\* A handler that refuses frees its caller.
LEMMA RefuseGoes ==
    ASSUME HeldInv, NEW q \in Node, NEW w \in Workers, worker[q][w] # AtRest, Refuse(q, w)
    PROVE  HandlerGoes(q, w, worker[q][w].from, AtRest, AtRest)
<1> DEFINE n == worker[q][w].from
<1>1. worker[q][w] \in WorkerStates /\ SessionsTypeOK /\ HandlersAwaited
  BY SessionTypes DEF HeldInv
<1>2. n \in Node
  BY <1>1, WorkerFields
<1>3. call[n] # AtRest /\ call[n].peer = q /\ call[n].at \in {"await", "waiting"}
  BY <1>1, WorkerFields DEF HandlersAwaited
<1>4. CallTo(n, AtRest) /\ WorkerTo(q, w, AtRest)
  BY <1>3 DEF Refuse, Waits, CallTo
<1>5. CallGoes(n, AtRest) /\ WorkerGoes(q, w, AtRest)
  BY <1>1, <1>2, <1>4, CallMoves, WorkerMoves
<1> QED BY <1>5 DEF HandlerGoes

LEMMA RefuseKeeps ==
    ASSUME HeldInv, NEW q \in Node, NEW w \in Workers, worker[q][w] # AtRest, Refuse(q, w),
           Prune(q), UNCHANGED <<time, ident, lost>>
    PROVE  HeldInv'
<1>1. PICK K : /\ Ends(q, K) /\ \A s \in K \cap Session : session[q][s] # None
               /\ \A s \in Session : s \in K => session[q][s].exp <= time
  BY PruneEnds
<1>2. /\ HandlerGoes(q, w, worker[q][w].from, AtRest, AtRest)
      /\ AtRest \in WorkerStates /\ AtRest \in CallStates /\ AtRest.at = "idle"
  BY RefuseGoes DEF WorkerStates, CallStates, AtRest
<1>3. /\ worker[q][w] \in WorkerStates /\ worker[q][w].from \in Node
      /\ \A s \in Session : ~Holds(AtRest, s)
  <2>1. worker[q][w] \in WorkerStates
    BY SessionTypes DEF HeldInv
  <2>2. worker[q][w].from \in Node
    BY <2>1, WorkerFields
  <2>3. \A s : ~Holds(AtRest, s)
    BY <1>2, WorkerFields
  <2> QED BY <2>1, <2>2, <2>3
<1>4. call[worker[q][w].from].at \in {"await", "waiting"}
  BY <1>3, WorkerFields DEF HeldInv, HandlersAwaited
<1>5. /\ \A m \in Node, s \in Session : s \in K /\ Calls(m, q) /\ session[q][s].id = IdOf[m]
            => session[q][s].exp <= time \/ (call[m].at = "await" /\ call[m].peer = q)
      /\ AtRest.at \notin {"expire", "issue", "touch"}
  BY <1>1, <1>2
<1> QED BY <1>1, <1>2, <1>3, <1>4, <1>5, EndingStep

LEMMA CheckAdmissionKeeps ==
    ASSUME HeldInv, PromptAndApart, NEW q \in Node, NEW w \in Workers, CheckAdmission(q, w)
    PROVE  HeldInv'
<1> DEFINE n == worker[q][w].from
           j == [worker[q][w] EXCEPT !.at = "upsert"]
<1>1. /\ SessionsTypeOK /\ worker[q][w] \in WorkerStates /\ worker[q][w].at = "admit" /\ Prune(q)
      /\ UNCHANGED <<time, ident, lost>>
  BY SessionTypes DEF CheckAdmission, HeldInv
<1>2. worker[q][w] # AtRest /\ n \in Node
  BY <1>1, WorkerFields
<1>3. CASE Admissible(q, n)
  <2>1. WorkerTo(q, w, j) /\ UNCHANGED call
    BY <1>3 DEF CheckAdmission
  <2>2. call[n] # AtRest /\ call[n].peer = q /\ call[n].at = "await" /\ call[n] \in CallStates
    BY <1>1, <1>2, SessionTypes DEF HeldInv, HandlersAwaited
  <2>3. j \in WorkerStates /\ j.at = "upsert" /\ j.from = n /\ j # AtRest
    BY <1>1, <1>2 DEF WorkerStates, AtRest
  <2>4. WorkerGoes(q, w, j) /\ CallGoes(n, call[n])
    BY <1>1, <1>2, <2>1, WorkerMoves, CallStays
  <2> HIDE DEF j
  <2>5. HandlerGoes(q, w, n, j, call[n])
    BY <1>1, <1>2, <2>2, <2>3, <2>4 DEF HandlerGoes
  <2>6. PICK K : /\ Ends(q, K) /\ \A s \in K \cap Session : session[q][s] # None
                 /\ \A s \in Session : s \in K => session[q][s].exp <= time
    BY <1>1, PruneEnds
  <2>7. \A s \in Session : ~Holds(j, s)
    BY <2>3, WorkerFields
  <2> HIDE DEF n
  <2>8. \A m \in Node, s \in Session : s \in K /\ Calls(m, q) /\ session[q][s].id = IdOf[m]
           => session[q][s].exp <= time \/ (call[m].at = "await" /\ call[m].peer = q)
    BY <2>6
  <2> QED BY <1>1, <1>2, <2>2, <2>3, <2>5, <2>6, <2>7, <2>8, EndingStep
<1>4. CASE ~Admissible(q, n)
  <2>1. Refuse(q, w)
    BY <1>4 DEF CheckAdmission
  <2> QED BY <1>1, <1>2, <2>1, RefuseKeeps
<1> QED BY <1>3, <1>4

LEMMA CheckSessionKeeps ==
    ASSUME HeldInv, PromptAndApart, NEW q \in Node, NEW w \in Workers, CheckSession(q, w)
    PROVE  HeldInv'
<1> DEFINE n == worker[q][w].from
           j == [worker[q][w] EXCEPT !.at = "touch"]
           s0 == worker[q][w].sid
<1>1. /\ SessionsTypeOK /\ worker[q][w] \in WorkerStates /\ worker[q][w].at = "check" /\ Prune(q)
      /\ UNCHANGED <<time, ident, lost>>
  BY SessionTypes DEF CheckSession, HeldInv
<1>2. worker[q][w] # AtRest /\ n \in Node
  BY <1>1, WorkerFields
<1>3. CASE Accepts(q, n, s0)
  <2>1. WorkerTo(q, w, j) /\ UNCHANGED call
    BY <1>3 DEF CheckSession
  <2>2. call[n] # AtRest /\ call[n].peer = q /\ call[n].at = "waiting" /\ call[n] \in CallStates
    BY <1>1, <1>2, SessionTypes DEF HeldInv, HandlersAwaited
  <2>3. j \in WorkerStates /\ j.at = "touch" /\ j.from = n /\ j # AtRest /\ j.sid = s0
    BY <1>1, <1>2 DEF WorkerStates, AtRest
  <2>4. WorkerGoes(q, w, j) /\ CallGoes(n, call[n])
    BY <1>1, <1>2, <2>1, WorkerMoves, CallStays
  <2>5. session[q][s0] # None /\ session[q][s0].id = IdOf[n] /\ session[q][s0].url = n
    BY <1>3 DEF Accepts, Live
  <2> HIDE DEF j
  <2>6. HandlerGoes(q, w, n, j, call[n])
    BY <1>1, <1>2, <2>2, <2>3, <2>4 DEF HandlerGoes
  <2>7. PICK K : /\ Ends(q, K) /\ \A s \in K \cap Session : session[q][s] # None
                 /\ \A s \in Session : s \in K => session[q][s].exp <= time
    BY <1>1, PruneEnds
  <2>8. \A s \in Session : Holds(j, s) => Holds(worker[q][w], s)
    BY <1>1, <2>3, WorkerFields
  <2>9. \A m \in Node, s \in Session : s \in K /\ Calls(m, q) /\ session[q][s].id = IdOf[m]
           => session[q][s].exp <= time \/ (call[m].at = "await" /\ call[m].peer = q)
    BY <2>7
  <2> HIDE DEF n, s0
  <2> QED BY <1>1, <1>2, <2>2, <2>3, <2>5, <2>6, <2>7, <2>8, <2>9, EndingStep
<1>4. CASE ~Accepts(q, n, s0)
  <2>1. Refuse(q, w)
    BY <1>4 DEF CheckSession
  <2> QED BY <1>1, <1>2, <2>1, RefuseKeeps
<1> QED BY <1>3, <1>4

\* A handler answers a call of its own node's caller.
LEMMA HandlerCalls ==
    ASSUME HeldInv, NEW q \in Node, NEW w \in Workers, worker[q][w] # AtRest
    PROVE  /\ worker[q][w] \in WorkerStates /\ worker[q][w].from \in Node
           /\ call[worker[q][w].from] \in CallStates /\ call[worker[q][w].from] # AtRest
           /\ call[worker[q][w].from].peer = q /\ q \in Peers[worker[q][w].from]
           /\ worker[q][w].at \in {"admit", "upsert", "expire", "issue"} =>
                 call[worker[q][w].from].at = "await"
           /\ worker[q][w].at \in {"check", "touch", "serve"} =>
                 /\ call[worker[q][w].from].at = "waiting"
                 /\ call[worker[q][w].from].sid = worker[q][w].sid
<1>1. worker[q][w] \in WorkerStates /\ \A m \in Node : call[m] \in CallStates
  BY SessionTypes DEF HeldInv
<1>2. worker[q][w].from \in Node
  BY <1>1, WorkerFields
<1> QED BY <1>1, <1>2 DEF HeldInv, HandlersAwaited, CallsOwnPeers

\* One row of node q is written.
Writes(q, s, row) ==
    session' = [m \in Node |-> [r \in Session |-> IF m = q /\ r = s THEN row ELSE session[m][r]]]

LEMMA RowWritten ==
    ASSUME SessionsTypeOK, NEW q \in Node, NEW s \in Session, NEW row \in SessionRow,
           session' = [session EXCEPT ![q][s] = row]
    PROVE  Writes(q, s, row)
<1>1. session = [m \in Node |-> session[m]] /\ \A m \in Node : session[m] = [r \in Session |-> session[m][r]]
  BY SessionTypes
<1>2. session' = [session EXCEPT ![q] = [session[q] EXCEPT ![s] = row]]
  OBVIOUS
<1>3. [session[q] EXCEPT ![s] = row] = [r \in Session |-> IF r = s THEN row ELSE session[q][r]]
  BY <1>1
<1>4. session' = [m \in Node |-> IF m = q THEN [r \in Session |-> IF r = s THEN row ELSE session[q][r]]
                                          ELSE session[m]]
  BY <1>1, <1>2, <1>3
<1> QED BY <1>1, <1>4 DEF Writes

LEMMA WriteFields ==
    ASSUME SessionsTypeOK, NEW q \in Node, NEW s \in Session, NEW row \in SessionRow,
           Writes(q, s, row)
    PROVE  /\ session' \in [Node -> [Session -> SessionRow \cup {None}]]
           /\ session'[q][s] = row /\ row # None
           /\ \A m \in Node, r \in Session : m # q \/ r # s => session'[m][r] = session[m][r]
<1>1. \A m \in Node, r \in Session : session[m][r] \in SessionRow \cup {None}
  BY SessionTypes
<1> QED BY <1>1, RowsAreRows DEF Writes

LEMMA TouchKeeps ==
    ASSUME HeldInv, PromptAndApart, NEW q \in Node, NEW w \in Workers, Touch(q, w)
    PROVE  HeldInv'
<1> DEFINE n == worker[q][w].from
           s0 == worker[q][w].sid
           j == [worker[q][w] EXCEPT !.at = "serve"]
           row == [[session[q][s0] EXCEPT !.exp = time + TTL] EXCEPT !.active = TRUE]
<1>0. SessionsTypeOK /\ TouchFits /\ AdmittedFits /\ OnePair
  BY DEF HeldInv
<1>1. /\ worker[q][w] \in WorkerStates /\ worker[q][w].at = "touch" /\ WorkerTo(q, w, j)
      /\ UNCHANGED <<time, ident, call, lost>>
  BY <1>0, SessionTypes DEF Touch
<1>2. worker[q][w] # AtRest /\ s0 \in Session
  BY <1>1, WorkerFields
<1>3. /\ n \in Node /\ call[n] # AtRest /\ call[n].peer = q /\ call[n].at = "waiting"
      /\ call[n] \in CallStates /\ q \in Peers[n]
  BY <1>1, <1>2, HandlerCalls
<1>4. j \in WorkerStates /\ j.at = "serve" /\ j.from = n /\ j # AtRest /\ j.sid = s0
  BY <1>1, <1>2, <1>3 DEF WorkerStates, AtRest
<1>5. WorkerGoes(q, w, j) /\ CallGoes(n, call[n])
  BY <1>0, <1>1, <1>3, WorkerMoves, CallStays
<1>6. session[q][s0] \in SessionRow /\ session[q][s0].id = IdOf[n] /\ session[q][s0].url = n
  BY <1>0, <1>1, <1>2, SessionTypes DEF TouchFits
<1>7. /\ row \in SessionRow /\ row.id = session[q][s0].id /\ row.url = session[q][s0].url
      /\ row.exp = time + TTL /\ row.active
  <2>1. time + TTL \in Nat
    BY <1>0, SessionTypes, PeerSessionsAssumption
  <2>2. \A x \in SessionRow, e \in Nat :
           LET y == [[x EXCEPT !.exp = e] EXCEPT !.active = TRUE]
           IN  y \in SessionRow /\ y.id = x.id /\ y.url = x.url /\ y.exp = e /\ y.active
    BY DEF SessionRow
  <2> QED BY <1>6, <2>1, <2>2
<1>8. session' = [session EXCEPT ![q][s0] = row]
  <2>1. session' = [session EXCEPT ![q][s0].exp = time + TTL, ![q][s0].active = TRUE]
    BY DEF Touch
  <2>2. session \in [Node -> [Session -> SessionRow \cup {None}]] /\ s0 \in Session
    BY <1>0, <1>2, SessionTypes
  <2>3. [session EXCEPT ![q][s0].exp = time + TTL, ![q][s0].active = TRUE]
           = [[session EXCEPT ![q][s0] = [session[q][s0] EXCEPT !.exp = time + TTL]]
                 EXCEPT ![q][s0] = row]
    BY <2>2
  <2> HIDE DEF row, s0
  <2>4. \A x : [[session EXCEPT ![q][s0] = x] EXCEPT ![q][s0] = row] = [session EXCEPT ![q][s0] = row]
    BY <2>2
  <2> QED BY <2>1, <2>3, <2>4
<1> HIDE DEF row, j, s0, n
<1>9. Writes(q, s0, row)
  BY <1>0, <1>2, <1>7, <1>8, RowWritten
<1>10. /\ session' \in [Node -> [Session -> SessionRow \cup {None}]]
       /\ session'[q][s0] = row /\ row # None
       /\ \A m \in Node, r \in Session : m # q \/ r # s0 => session'[m][r] = session[m][r]
  BY <1>0, <1>2, <1>7, <1>9, WriteFields
<1>11. HandlerGoes(q, w, n, j, call[n])
  BY <1>1, <1>2, <1>3, <1>4, <1>5 DEF HandlerGoes, n, s0
<1>12. /\ ident' \in [Node -> [Id -> Node \cup {None}]]
       /\ \A m \in Node, i \in Id : ident'[m][i] # None => IdOf[ident'[m][i]] = i
  BY <1>0, <1>1, SessionTypes DEF AdmittedFits
<1>13. \A m \in Node, v \in Workers : worker[m][v].at = "touch" =>
          LET s == worker[m][v].sid
          IN  session'[m][s] # None /\ session'[m][s].id = session[m][s].id
                 /\ session'[m][s].url = session[m][s].url
  <2> SUFFICES ASSUME NEW m \in Node, NEW v \in Workers, worker[m][v].at = "touch"
               PROVE  LET s == worker[m][v].sid
                      IN  session'[m][s] # None /\ session'[m][s].id = session[m][s].id
                             /\ session'[m][s].url = session[m][s].url
    OBVIOUS
  <2>1. session[m][worker[m][v].sid] # None /\ worker[m][v].sid \in Session
    BY <1>0, WorkerFields, SessionTypes DEF TouchFits
  <2>2. CASE m = q /\ worker[m][v].sid = s0
    BY <1>7, <1>10, <2>2
  <2>3. CASE m # q \/ worker[m][v].sid # s0
    BY <1>10, <2>1, <2>3
  <2> QED BY <2>2, <2>3
<1>14. SessionsTypeOK' /\ CallsOwnPeers' /\ HandlersAwaited' /\ TouchFits' /\ AdmittedFits'
  <2>1. \A m, r \in Node : ident[m][IdOf[r]] = r => ident'[m][IdOf[r]] = r
    BY <1>1
  <2>2. call[n].at \notin {"expire", "store"} /\ j.at \notin {"expire", "issue", "touch"}
    BY <1>3, <1>4
  <2> QED BY <1>1, <1>3, <1>4, <1>10, <1>11, <1>12, <1>13, <2>1, <2>2, HandlerStep
<1>15. \A m \in Node, s \in Session : Lives(m, s)' =>
          \/ m = q /\ s = s0
          \/ Lives(m, s) /\ session'[m][s] = session[m][s]
  BY <1>1, <1>10 DEF Lives
<1>16. Holds(worker[q][w], s0)
  BY <1>1, <1>2, WorkerFields DEF s0
<1>17. \A r \in Node : session'[q][s0].id = IdOf[r] => r = n
  <2>1. session'[q][s0].id = IdOf[n]
    BY <1>6, <1>7, <1>10
  <2> QED BY <1>3, <2>1 DEF PromptAndApart
<1>18. OnePair'
  <2>1. \A m, r \in Node, s \in Session :
           Lives(m, s)' /\ session'[m][s].id = IdOf[r] => Ties(s, m, r)
    BY <1>15, <1>16, <1>17 DEF Ties, n
  <2>2. \A s \in Session : Holds(j, s) => Holds(worker[q][w], s)
    BY <1>4, <1>16, WorkerFields
  <2> QED BY <1>3, <1>4, <1>11, <2>1, <2>2, HandlerTies
<1>19. RowsFit'
  <2>1. time <= time'
    BY <1>0, <1>1, SessionTypes
  <2>2. \A m, r \in Node, s \in Session :
           Calls(m, r) /\ Lives(m, s)' /\ session'[m][s].id = IdOf[r] =>
              /\ Lives(m, s) /\ session[m][s].id = IdOf[r]
              /\ session'[m][s].exp = session[m][s].exp
    BY <1>3, <1>15, <1>17 DEF Calls
  <2>3. ASSUME NEW m \in Node, NEW r \in Node, NEW s \in Session, NEW e \in Nat,
               Gives(r, m, s, e), e <= time + TTL
        PROVE  Gives(r, m, s, e)'
    <3>1. CASE r = q /\ s = s0
      BY <1>1, <1>7, <1>10, <2>3, <3>1 DEF Gives
    <3>2. CASE r # q \/ s # s0
      BY <1>1, <1>10, <2>3, <3>2 DEF Gives
    <3> QED BY <3>1, <3>2
  <2>4. \A m \in Node : call'[m] = call[m]
    BY <1>1
  <2>5. \A m, r \in Node : ident[m][IdOf[r]] = r => ident'[m][IdOf[r]] = r
    BY <1>1
  <2> QED BY <1>14, <2>1, <2>2, <2>3, <2>4, <2>5, RowsStay
<1> QED BY <1>14, <1>18, <1>19 DEF HeldInv

\* An id that is drawn is tied to nothing.
LEMMA FreshIsFree ==
    ASSUME SessionsTypeOK, NEW s \in Unused
    PROVE  /\ \A m \in Node : ~Lives(m, s) /\ ~Holds(call[m], s)
           /\ \A m \in Node, v \in Workers : ~Holds(worker[m][v], s)
           /\ \A m, r \in Node : ~Ties(s, m, r)
<1>1. time \in Nat /\ s \in Session /\ \A m \in Node : session[m][s] \in SessionRow \cup {None}
  BY SessionTypes DEF Unused
<1>2. \A m \in Node : ~Lives(m, s)
  <2> SUFFICES ASSUME NEW m \in Node, Lives(m, s) PROVE FALSE
    OBVIOUS
  <2>1. session[m][s] # None /\ session[m][s].active /\ session[m][s].exp > time
    BY DEF Lives
  <2>2. session[m][s].exp <= time /\ session[m][s].exp \in Nat
    BY <1>1, <2>1 DEF Unused, SessionRow
  <2> QED BY <1>1, <2>1, <2>2
<1>3. /\ \A m \in Node : ~Holds(call[m], s)
      /\ \A m \in Node, v \in Workers : ~Holds(worker[m][v], s)
  BY DEF Unused
<1> QED BY <1>2, <1>3 DEF Ties

LEMMA IssueKeeps ==
    ASSUME HeldInv, PromptAndApart, NEW q \in Node, NEW w \in Workers, Issue(q, w)
    PROVE  HeldInv'
<1> DEFINE n == worker[q][w].from
           s0 == FreshSession
           row == [id |-> IdOf[n], url |-> n, exp |-> worker[q][w].exp, active |-> TRUE]
           c == [at |-> "acked", peer |-> q, sid |-> s0, exp |-> Whole(worker[q][w].exp)]
<1>0. SessionsTypeOK /\ TouchFits /\ AdmittedFits /\ OnePair
  BY DEF HeldInv
<1>1. /\ worker[q][w] \in WorkerStates /\ worker[q][w].at = "issue" /\ WorkerTo(q, w, AtRest)
      /\ Unused # {} /\ StoreRow(q, s0, n, worker[q][w].exp)
      /\ UNCHANGED <<time, ident, lost>>
  BY <1>0, SessionTypes DEF Issue
<1>2. worker[q][w] # AtRest /\ worker[q][w].exp \in Nat /\ s0 \in Unused /\ s0 \in Session
  BY <1>1, WorkerFields, FreshIsUnused
<1>3. /\ n \in Node /\ call[n] # AtRest /\ call[n].peer = q /\ call[n].at = "await"
      /\ q \in Peers[n]
  BY <1>1, <1>2, HandlerCalls
<1>4. Whole(worker[q][w].exp) \in Nat /\ Whole(worker[q][w].exp) <= worker[q][w].exp
  BY <1>2 DEF Whole
<1>5. /\ c \in CallStates /\ c.at = "acked" /\ c.peer = q /\ c.sid = s0
      /\ c.exp = Whole(worker[q][w].exp)
  BY <1>2, <1>4 DEF CallStates, InHand
<1>6. /\ row \in SessionRow /\ row.id = IdOf[n] /\ row.url = n
      /\ row.exp = worker[q][w].exp /\ row.active
  BY <1>2, <1>3, PeerSessionsAssumption DEF SessionRow
<1>7. CallTo(n, c)
  BY <1>3 DEF Issue, CallTo
<1>8. WorkerGoes(q, w, AtRest) /\ CallGoes(n, c)
  BY <1>0, <1>1, <1>3, <1>7, WorkerMoves, CallMoves
<1>9. session' = [session EXCEPT ![q][s0] = row]
  BY <1>1 DEF StoreRow
<1>a. ident[q][IdOf[n]] = n /\ worker[q][w].exp <= time + TTL
  BY <1>0, <1>1 DEF AdmittedFits
<1> HIDE DEF row, c, s0, n
<1>10. Writes(q, s0, row)
  BY <1>0, <1>2, <1>6, <1>9, RowWritten
<1>11. /\ session' \in [Node -> [Session -> SessionRow \cup {None}]]
       /\ session'[q][s0] = row /\ row # None
       /\ \A m \in Node, r \in Session : m # q \/ r # s0 => session'[m][r] = session[m][r]
  BY <1>0, <1>2, <1>6, <1>10, WriteFields
<1>12. AtRest \in WorkerStates /\ AtRest.at = "idle"
  BY DEF WorkerStates, AtRest
<1>13. HandlerGoes(q, w, n, AtRest, c)
  BY <1>2, <1>5, <1>8 DEF HandlerGoes, n
<1>14. /\ \A m \in Node : ~Lives(m, s0) /\ ~Holds(call[m], s0)
       /\ \A m \in Node, v \in Workers : ~Holds(worker[m][v], s0)
       /\ \A m, r \in Node : ~Ties(s0, m, r)
  BY <1>0, <1>2, FreshIsFree
<1>15. SessionsTypeOK' /\ CallsOwnPeers' /\ HandlersAwaited' /\ TouchFits' /\ AdmittedFits'
  <2>1. /\ ident' \in [Node -> [Id -> Node \cup {None}]]
        /\ \A m \in Node, i \in Id : ident'[m][i] # None => IdOf[ident'[m][i]] = i
        /\ \A m, r \in Node : ident[m][IdOf[r]] = r => ident'[m][IdOf[r]] = r
    BY <1>0, <1>1, SessionTypes DEF AdmittedFits
  <2>2. c.at \notin {"expire", "store"} /\ AtRest.at \notin {"expire", "issue", "touch"}
    BY <1>5, <1>12
  <2>3. \A m \in Node, v \in Workers : worker[m][v].at = "touch" =>
           LET s == worker[m][v].sid
           IN  session'[m][s] # None /\ session'[m][s].id = session[m][s].id
                  /\ session'[m][s].url = session[m][s].url
    <3> SUFFICES ASSUME NEW m \in Node, NEW v \in Workers, worker[m][v].at = "touch"
                 PROVE  LET s == worker[m][v].sid
                        IN  session'[m][s] # None /\ session'[m][s].id = session[m][s].id
                               /\ session'[m][s].url = session[m][s].url
      OBVIOUS
    <3>1. worker[m][v] \in WorkerStates
      BY <1>0, SessionTypes
    <3>2. worker[m][v].sid \in Session /\ Holds(worker[m][v], worker[m][v].sid)
      BY <3>1, WorkerFields
    <3>3. session[m][worker[m][v].sid] # None
      BY <1>0 DEF TouchFits
    <3> QED BY <1>11, <1>14, <3>2, <3>3
  <2> QED BY <1>1, <1>3, <1>5, <1>11, <1>12, <1>13, <2>1, <2>2, <2>3, HandlerStep
<1>16. /\ call'[n] = c /\ \A m \in Node \ {n} : call'[m] = call[m]
       /\ worker'[q][w] = AtRest
       /\ \A m \in Node, v \in Workers : m # q \/ v # w => worker'[m][v] = worker[m][v]
  BY <1>3, <1>5, <1>12, <1>13, HandlersGo
<1>17. /\ \A m \in Node, s \in Session : Lives(m, s)' =>
             \/ m = q /\ s = s0
             \/ Lives(m, s) /\ session'[m][s] = session[m][s]
       /\ \A r \in Node : session'[q][s0].id = IdOf[r] => r = n
  <2>1. session'[q][s0].id = IdOf[n]
    BY <1>6, <1>11
  <2> QED BY <1>1, <1>3, <1>11, <2>1 DEF Lives, PromptAndApart
<1>18. \A s : ~Holds(AtRest, s)
  BY <1>12, WorkerFields
<1>19. OnePair'
  <2> SUFFICES ASSUME NEW s \in Session PROVE \E a, b \in Node : OfPair(s, a, b)'
    BY DEF OnePair
  <2>1. CASE s = s0
    <3> SUFFICES ASSUME NEW m \in Node, NEW r \in Node, Ties(s, m, r)'
                 PROVE  <<m, r>> \in {<<q, n>>, <<n, q>>}
      BY <1>3 DEF OfPair
    <3>1. CASE Lives(m, s)' /\ session'[m][s].id = IdOf[r]
      BY <1>14, <1>17, <2>1, <3>1
    <3>2. CASE Holds(call'[m], s) /\ call'[m].peer = r
      BY <1>5, <1>14, <1>16, <2>1, <3>2
    <3>3. CASE \E v \in Workers : Holds(worker'[m][v], s) /\ worker'[m][v].from = r
      BY <1>14, <1>16, <1>18, <2>1, <3>3
    <3> QED BY <3>1, <3>2, <3>3 DEF Ties
  <2>2. CASE s # s0
    <3>1. ~Holds(c, s)
      BY <1>5, <2>2, CallFields
    <3>2. ASSUME NEW m \in Node, NEW r \in Node, Ties(s, m, r)' PROVE Ties(s, m, r)
      <4>1. CASE Lives(m, s)' /\ session'[m][s].id = IdOf[r]
        BY <1>17, <2>2, <4>1 DEF Ties
      <4>2. CASE Holds(call'[m], s) /\ call'[m].peer = r
        BY <1>16, <3>1, <4>2 DEF Ties
      <4>3. CASE \E v \in Workers : Holds(worker'[m][v], s) /\ worker'[m][v].from = r
        BY <1>16, <1>18, <4>3 DEF Ties
      <4> QED BY <3>2, <4>1, <4>2, <4>3 DEF Ties
    <3> QED BY <1>0, <3>2, PairStays
  <2> QED BY <2>1, <2>2
<1>20. RowsFit'
  <2>1. time <= time'
    BY <1>0, <1>1, SessionTypes
  <2>2. \A m, r \in Node, s \in Session :
           Calls(m, r) /\ Lives(m, s)' /\ session'[m][s].id = IdOf[r] =>
              /\ Lives(m, s) /\ session[m][s].id = IdOf[r]
              /\ session'[m][s].exp = session[m][s].exp
    BY <1>3, <1>17 DEF Calls
  <2>3. ASSUME NEW m \in Node, NEW r \in Node, NEW s \in Session, NEW e \in Nat,
               Ties(s, m, r), Gives(r, m, s, e)
        PROVE  Gives(r, m, s, e)'
    <3>1. s # s0
      BY <1>14, <2>3
    <3> QED BY <1>1, <1>11, <2>3, <3>1 DEF Gives
  <2>4. \A m, r \in Node : ident[m][IdOf[r]] = r => ident'[m][IdOf[r]] = r
    BY <1>1
  <2>5. \A m \in Node, s1 \in Session, e1 \in Nat :
           m = n /\ s1 = c.sid /\ e1 = c.exp => Gives(q, m, s1, e1)'
    BY <1>1, <1>4, <1>5, <1>6, <1>11, <1>a DEF Gives
  <2>6. c.exp <= time' + TTL
    BY <1>0, <1>1, <1>2, <1>4, <1>5, <1>a, SessionTypes, PeerSessionsAssumption
  <2>7. \A m \in Node : call'[m].at \in {"handshake", "await"} \cup InHand =>
           \/ call'[m] = call[m]
           \/ /\ call[m].at = "handshake" /\ call'[m].at = "await"
              /\ call'[m].peer = call[m].peer
           \/ /\ call[m].at = "await" /\ call'[m].at = "acked" /\ call'[m].peer = call[m].peer
              /\ \A r \in Node, s1 \in Session, e1 \in Nat :
                    r = call[m].peer /\ s1 = call'[m].sid /\ e1 = call'[m].exp =>
                       Gives(r, m, s1, e1)'
              /\ call'[m].exp <= time' + TTL
    <3> SUFFICES ASSUME NEW m \in Node, m = n
                 PROVE  /\ call[m].at = "await" /\ call'[m].at = "acked"
                        /\ call'[m].peer = call[m].peer
                        /\ \A r \in Node, s1 \in Session, e1 \in Nat :
                              r = call[m].peer /\ s1 = call'[m].sid /\ e1 = call'[m].exp =>
                                 Gives(r, m, s1, e1)'
                        /\ call'[m].exp <= time' + TTL
      BY <1>16
    <3>1. /\ call[m].at = "await" /\ call[m].peer = q /\ call'[m] = c
      BY <1>3, <1>16
    <3>2. \A r \in Node, s1 \in Session, e1 \in Nat :
             r = q /\ s1 = c.sid /\ e1 = c.exp => Gives(r, m, s1, e1)'
      BY <2>5
    <3> QED BY <1>5, <2>6, <3>1, <3>2
  <2> QED BY <1>15, <2>1, <2>2, <2>3, <2>4, <2>7, RowsStay
<1> QED BY <1>15, <1>19, <1>20 DEF HeldInv

LEMMA DeliverKeeps ==
    ASSUME HeldInv, PromptAndApart, NEW n \in Node, NEW w \in Workers, Deliver(n, w)
    PROVE  HeldInv'
<1>0. /\ SessionsTypeOK /\ CallsOwnPeers /\ HandlersAwaited /\ OnePair /\ TouchFits
      /\ AdmittedFits /\ RowsFit
  BY DEF HeldInv
<1> DEFINE p == call[n].peer
<1>1. /\ call[n] \in CallStates /\ call[n].at \in {"handshake", "request"}
      /\ worker[p][w] = AtRest /\ UNCHANGED <<time, ident, session, lost>>
  BY <1>0, SessionTypes DEF Deliver, Sent
<1>2. p \in Node /\ p \in Peers[n] /\ call[n] # AtRest
  BY <1>0, <1>1, CallFields DEF CallsOwnPeers, AtRest
<1>3. PICK j \in WorkerStates, c \in CallStates :
         /\ WorkerTo(p, w, j) /\ CallTo(n, c) /\ j # AtRest /\ j.from = n /\ c.peer = p
         /\ \/ j.at = "admit" /\ c.at = "await" /\ call[n].at = "handshake"
            \/ j.at = "check" /\ c.at = "waiting" /\ call[n].at = "request"
               /\ j.sid = call[n].sid /\ c.sid = call[n].sid
  <2>1. CASE call[n].at = "handshake"
    <3> DEFINE j == [at |-> "admit", from |-> n]
               c == [call[n] EXCEPT !.at = "await"]
    <3>1. WorkerTo(p, w, j) /\ CallTo(n, c)
      BY <2>1 DEF Deliver, WorkerTo
    <3>2. j \in WorkerStates /\ j.at = "admit" /\ j.from = n /\ j # AtRest
      BY DEF WorkerStates, AtRest
    <3>3. c \in CallStates /\ c.at = "await" /\ c.peer = p
      BY <1>1, <2>1 DEF CallStates, InHand, AtRest
    <3> HIDE DEF j, c
    <3> QED BY <2>1, <3>1, <3>2, <3>3
  <2>2. CASE call[n].at = "request"
    <3> DEFINE j == [at |-> "check", from |-> n, sid |-> call[n].sid]
               c == [call[n] EXCEPT !.at = "waiting"]
    <3>1. WorkerTo(p, w, j) /\ CallTo(n, c)
      BY <2>2 DEF Deliver, WorkerTo
    <3>2. j \in WorkerStates /\ j.at = "check" /\ j.from = n /\ j # AtRest /\ j.sid = call[n].sid
      <4>1. call[n].sid \in Session
        BY <1>1, <2>2, CallFields DEF WithSession
      <4> QED BY <4>1 DEF WorkerStates, AtRest
    <3>3. c \in CallStates /\ c.at = "waiting" /\ c.peer = p /\ c.sid = call[n].sid
      BY <1>1, <2>2 DEF CallStates, InHand, AtRest
    <3> HIDE DEF j, c
    <3> QED BY <2>2, <3>1, <3>2, <3>3
  <2> QED BY <1>1, <2>1, <2>2
<1>4. /\ call'[n] = c /\ \A m \in Node \ {n} : call'[m] = call[m]
      /\ call' \in [Node -> CallStates]
  <2>1. CallGoes(n, c)
    BY <1>0, <1>3, CallMoves
  <2>2. \A m \in Node : call[m] \in CallStates
    BY <1>0, SessionTypes
  <2> QED BY <2>1, <2>2 DEF CallGoes
<1>5. /\ worker'[p][w] = j
      /\ \A m \in Node, v \in Workers : m # p \/ v # w => worker'[m][v] = worker[m][v]
      /\ worker' \in [Node -> [Workers -> WorkerStates]]
      /\ \A m \in Node, v \in Workers : worker[m][v] \in WorkerStates
  <2>1. WorkerGoes(p, w, j)
    BY <1>0, <1>2, <1>3, WorkerMoves
  <2>2. \A m \in Node, v \in Workers : worker[m][v] \in WorkerStates
    BY <1>0, SessionTypes
  <2> QED BY <1>2, <2>1, <2>2 DEF WorkerGoes
<1> HIDE DEF p
<1>6. SessionsTypeOK'
  BY <1>0, <1>1, <1>4, <1>5, SessionTypes, SessionTypesNext
<1>7. CallsOwnPeers'
  BY <1>0, <1>2, <1>3, <1>4 DEF CallsOwnPeers
<1>8. ASSUME NEW q \in Node, NEW v \in Workers, worker[q][v] # AtRest
      PROVE  /\ worker[q][v].from \in Node /\ worker[q][v].from # n
             /\ ~ (q = p /\ v = w)
  <2>1. /\ worker[q][v].from \in Node /\ call[worker[q][v].from].at \in {"await", "waiting"}
    BY <1>8, HandlerCalls, WorkerFields
  <2> QED BY <1>1, <1>8, <2>1 DEF p
<1>9. HandlersAwaited'
  <2> SUFFICES ASSUME NEW q \in Node, NEW v \in Workers, worker'[q][v] # AtRest
               PROVE  LET i == worker'[q][v]
                          d == call'[i.from]
                      IN  /\ d # AtRest /\ d.peer = q
                          /\ i.at \in {"admit", "upsert", "expire", "issue"} => d.at = "await"
                          /\ i.at \in {"check", "touch", "serve"} => d.at = "waiting" /\ d.sid = i.sid
                          /\ \A u \in Workers :
                                worker'[q][u] # AtRest /\ worker'[q][u].from = i.from => u = v
    BY DEF HandlersAwaited
  <2>1. CASE q = p /\ v = w
    <3>1. worker'[q][v] = j /\ call'[n] = c /\ c # AtRest
      BY <1>3, <1>4, <1>5, <2>1 DEF AtRest
    <3>2. \A u \in Workers : worker'[q][u] # AtRest /\ worker'[q][u].from = n => u = v
      BY <1>5, <1>8, <2>1
    <3> QED BY <1>3, <2>1, <3>1, <3>2
  <2>2. CASE q # p \/ v # w
    <3>1. worker'[q][v] = worker[q][v] /\ worker[q][v] # AtRest
      BY <1>5, <2>2
    <3>2. worker[q][v].from # n /\ call'[worker[q][v].from] = call[worker[q][v].from]
      BY <1>4, <1>8, <3>1
    <3>3. LET i == worker[q][v]
              d == call[i.from]
          IN  /\ d # AtRest /\ d.peer = q
              /\ i.at \in {"admit", "upsert", "expire", "issue"} => d.at = "await"
              /\ i.at \in {"check", "touch", "serve"} => d.at = "waiting" /\ d.sid = i.sid
              /\ \A u \in Workers : worker[q][u] # AtRest /\ worker[q][u].from = i.from => u = v
      BY <1>0, <3>1 DEF HandlersAwaited
    <3>4. ASSUME NEW u \in Workers, worker'[q][u] # AtRest, worker'[q][u].from = worker[q][v].from
          PROVE  u = v
      <4>1. CASE q = p /\ u = w
        BY <1>3, <1>5, <3>2, <3>4, <4>1
      <4>2. CASE q # p \/ u # w
        BY <1>5, <3>3, <3>4, <4>2
      <4> QED BY <4>1, <4>2
    <3> QED BY <3>1, <3>2, <3>3, <3>4
  <2> QED BY <2>1, <2>2
<1>10. \A q \in Node, v \in Workers : worker'[q][v].at \in {"touch", "expire", "issue"} =>
          worker'[q][v] = worker[q][v]
  BY <1>3, <1>5
<1>11. TouchFits'
  <2> SUFFICES ASSUME NEW q \in Node, NEW v \in Workers, worker[q][v].at = "touch"
               PROVE  LET i == worker[q][v]
                      IN  /\ session[q][i.sid] # None /\ session[q][i.sid].id = IdOf[i.from]
                          /\ session[q][i.sid].url = i.from
    BY <1>1, <1>10 DEF TouchFits
  <2> QED BY <1>0 DEF TouchFits
<1>12. AdmittedFits'
  <2>1. \A m \in Node : call'[m].at \in {"expire", "store"} => call'[m] = call[m]
    BY <1>3, <1>4
  <2>2. \A m \in Node : call'[m].at \in {"expire", "store"} =>
           ident'[m][IdOf[call'[m].peer]] = call'[m].peer
    BY <1>0, <1>1, <2>1 DEF AdmittedFits
  <2>3. \A q \in Node, v \in Workers : worker'[q][v].at \in {"expire", "issue"} =>
           ident'[q][IdOf[worker'[q][v].from]] = worker'[q][v].from
    BY <1>0, <1>1, <1>10 DEF AdmittedFits
  <2>4. \A q \in Node, v \in Workers : worker'[q][v].at = "issue" =>
           worker'[q][v].exp <= time' + TTL
    BY <1>0, <1>1, <1>10 DEF AdmittedFits
  <2>5. \A m \in Node, i \in Id : ident'[m][i] # None => IdOf[ident'[m][i]] = i
    BY <1>0, <1>1 DEF AdmittedFits
  <2> QED BY <2>2, <2>3, <2>4, <2>5 DEF AdmittedFits
<1>13. OnePair'
  <2> SUFFICES ASSUME NEW s \in Session PROVE \E a, b \in Node : OfPair(s, a, b)'
    BY DEF OnePair
  <2>1. /\ Holds(c, s) => Holds(call[n], s)
        /\ Holds(j, s) => Holds(call[n], s)
    BY <1>1, <1>3, CallFields, WorkerFields DEF WithSession, InHand
  <2>2. \A m \in Node : Lives(m, s)' => Lives(m, s)
    BY <1>1 DEF Lives
  <2>3. ASSUME NEW m \in Node, NEW r \in Node, Ties(s, m, r)' PROVE Ties(s, m, r) \/ Ties(s, r, m)
    <3>1. CASE Lives(m, s)' /\ session'[m][s].id = IdOf[r]
      BY <1>1, <2>2, <3>1 DEF Ties
    <3>2. CASE Holds(call'[m], s) /\ call'[m].peer = r
      BY <1>3, <1>4, <2>1, <3>2 DEF Ties, p
    <3>3. CASE \E v \in Workers : Holds(worker'[m][v], s) /\ worker'[m][v].from = r
      <4>1. PICK v \in Workers : Holds(worker'[m][v], s) /\ worker'[m][v].from = r
        BY <3>3
      <4>2. CASE m = p /\ v = w
        <5>1. Holds(call[n], s) /\ r = n /\ m = call[n].peer
          BY <1>3, <1>5, <2>1, <4>1, <4>2 DEF p
        <5> QED BY <5>1 DEF Ties
      <4>3. CASE m # p \/ v # w
        <5>1. Holds(worker[m][v], s) /\ worker[m][v].from = r
          BY <1>5, <4>1, <4>3
        <5> QED BY <5>1 DEF Ties
      <4> QED BY <4>2, <4>3
    <3> QED BY <2>3, <3>1, <3>2, <3>3 DEF Ties
  <2> QED BY <1>0, <2>3, PairStays
<1>14. RowsFit'
  <2>1. \A m, r \in Node : ident[m][IdOf[r]] = r => ident'[m][IdOf[r]] = r
    BY <1>1
  <2>2. \A m \in Node : call'[m].at \in {"handshake", "await"} \cup InHand =>
           \/ call'[m] = call[m]
           \/ /\ call[m].at = "handshake" /\ call'[m].at = "await"
              /\ call'[m].peer = call[m].peer
    BY <1>3, <1>4 DEF InHand, p
  <2> QED BY <1>1, <1>6, <2>1, <2>2, SameRows
<1> QED BY <1>6, <1>7, <1>9, <1>11, <1>12, <1>13, <1>14 DEF HeldInv

\* Two ties of a session join the same two nodes.
LEMMA SamePair ==
    ASSUME OnePair, NEW s \in Session, NEW m \in Node, NEW r \in Node, NEW k \in Node, NEW l \in Node,
           Ties(s, m, r), Ties(s, k, l)
    PROVE  (m = k /\ r = l) \/ (m = l /\ r = k)
<1>1. PICK a \in Node, b \in Node : OfPair(s, a, b)
  BY DEF OnePair
<1>2. (m = a /\ r = b) \/ (m = b /\ r = a)
  BY <1>1 DEF OfPair
<1>3. (k = a /\ l = b) \/ (k = b /\ l = a)
  BY <1>1 DEF OfPair
<1> QED BY <1>2, <1>3

LEMMA StoreSessionKeeps ==
    ASSUME HeldInv, PromptAndApart, NEW n \in Node, StoreSession(n)
    PROVE  HeldInv'
<1> DEFINE p == call[n].peer
           s0 == call[n].sid
           row == [id |-> IdOf[p], url |-> p, exp |-> call[n].exp, active |-> TRUE]
           c == [at |-> "request", peer |-> p, sid |-> s0]
<1>0. /\ SessionsTypeOK /\ CallsOwnPeers /\ HandlersAwaited /\ OnePair /\ TouchFits
      /\ AdmittedFits /\ RowsFit
  BY DEF HeldInv
<1>1. /\ call[n] \in CallStates /\ call[n].at = "store" /\ StoreRow(n, s0, p, call[n].exp)
      /\ CallTo(n, c) /\ UNCHANGED <<time, ident, worker, lost>>
  BY <1>0, SessionTypes DEF StoreSession
<1>2. /\ call[n] # AtRest /\ p \in Node /\ s0 \in Session /\ call[n].exp \in Nat
      /\ Holds(call[n], s0)
  BY <1>1, CallFields DEF WithSession, InHand
<1>3. p \in Peers[n] /\ Ties(s0, n, p)
  BY <1>0, <1>2 DEF CallsOwnPeers, Ties
<1>4. c \in CallStates /\ c.at = "request" /\ c.peer = p /\ c.sid = s0 /\ c # AtRest
  BY <1>2 DEF CallStates, AtRest
<1>5. /\ row \in SessionRow /\ row.id = IdOf[p] /\ row.url = p /\ row.exp = call[n].exp
      /\ row.active
  BY <1>2, PeerSessionsAssumption DEF SessionRow
<1>6. CallGoes(n, c)
  BY <1>0, <1>1, CallMoves
<1>7. session' = [session EXCEPT ![n][s0] = row]
  BY <1>1 DEF StoreRow
<1>8. /\ ident[n][IdOf[p]] = p
      /\ Calls(n, p) => Gives(p, n, s0, call[n].exp) /\ call[n].exp <= time + TTL
  BY <1>0, <1>1, <1>2, RowsOfPair DEF AdmittedFits, InHand
<1> HIDE DEF row, c, s0, p
<1>9. Writes(n, s0, row)
  BY <1>0, <1>2, <1>5, <1>7, RowWritten
<1>10. /\ session' \in [Node -> [Session -> SessionRow \cup {None}]]
       /\ session'[n][s0] = row /\ row # None
       /\ \A m \in Node, r \in Session : m # n \/ r # s0 => session'[m][r] = session[m][r]
  BY <1>0, <1>2, <1>5, <1>9, WriteFields
<1>11. /\ call'[n] = c /\ \A m \in Node \ {n} : call'[m] = call[m]
       /\ call' \in [Node -> CallStates]
  <2>1. \A m \in Node : call[m] \in CallStates
    BY <1>0, SessionTypes
  <2> QED BY <1>4, <1>6, <2>1 DEF CallGoes
<1>12. SessionsTypeOK'
  BY <1>0, <1>1, <1>10, <1>11, SessionTypes, SessionTypesNext
<1>13. CallsOwnPeers'
  BY <1>0, <1>3, <1>4, <1>11 DEF CallsOwnPeers
<1>14. \A q \in Node, v \in Workers : worker[q][v] # AtRest =>
          worker[q][v].from # n /\ worker[q][v].from \in Node
  <2> SUFFICES ASSUME NEW q \in Node, NEW v \in Workers, worker[q][v] # AtRest
               PROVE  worker[q][v].from # n /\ worker[q][v].from \in Node
    OBVIOUS
  <2>1. /\ worker[q][v].from \in Node /\ call[worker[q][v].from].at \in {"await", "waiting"}
    BY HandlerCalls, WorkerFields
  <2> QED BY <1>1, <2>1
<1>15. HandlersAwaited'
  BY <1>0, <1>1, <1>11, <1>14 DEF HandlersAwaited
<1>16. TouchFits'
  <2> SUFFICES ASSUME NEW q \in Node, NEW v \in Workers, worker[q][v].at = "touch"
               PROVE  LET i == worker[q][v]
                      IN  /\ session'[q][i.sid] # None /\ session'[q][i.sid].id = IdOf[i.from]
                          /\ session'[q][i.sid].url = i.from
    BY <1>1 DEF TouchFits
  <2> DEFINE i == worker[q][v]
  <2>1. /\ session[q][i.sid] # None /\ session[q][i.sid].id = IdOf[i.from]
        /\ session[q][i.sid].url = i.from
    BY <1>0 DEF TouchFits
  <2>2. i \in WorkerStates
    BY <1>0, SessionTypes
  <2>3. i.sid \in Session /\ i.from \in Node /\ Holds(i, i.sid) /\ i # AtRest
    BY <2>2, WorkerFields
  <2>4. CASE q = n /\ i.sid = s0
    <3>1. Ties(s0, n, i.from)
      BY <2>3, <2>4 DEF Ties
    <3>2. i.from = p
      BY <1>0, <1>2, <1>3, <2>3, <3>1, SamePair
    <3> QED BY <1>5, <1>10, <2>4, <3>2
  <2>5. CASE q # n \/ i.sid # s0
    BY <1>10, <2>1, <2>3, <2>5
  <2> QED BY <2>4, <2>5
<1>17. AdmittedFits'
  <2>1. \A m \in Node : call'[m].at \in {"expire", "store"} => call'[m] = call[m]
    BY <1>4, <1>11
  <2>2. \A m \in Node : call'[m].at \in {"expire", "store"} =>
           ident'[m][IdOf[call'[m].peer]] = call'[m].peer
    BY <1>0, <1>1, <2>1 DEF AdmittedFits
  <2> QED BY <1>0, <1>1, <2>2 DEF AdmittedFits
<1>18. /\ \A m \in Node, s \in Session : Lives(m, s)' =>
             \/ m = n /\ s = s0
             \/ Lives(m, s) /\ session'[m][s] = session[m][s]
       /\ \A r \in Node : session'[n][s0].id = IdOf[r] => r = p
  <2>1. session'[n][s0].id = IdOf[p]
    BY <1>5, <1>10
  <2> QED BY <1>1, <1>2, <1>10, <2>1 DEF Lives, PromptAndApart
<1>19. OnePair'
  <2> SUFFICES ASSUME NEW s \in Session PROVE \E a, b \in Node : OfPair(s, a, b)'
    BY DEF OnePair
  <2>1. Holds(c, s) => Holds(call[n], s)
    BY <1>2, <1>4, CallFields
  <2>2. ASSUME NEW m \in Node, NEW r \in Node, Ties(s, m, r)' PROVE Ties(s, m, r)
    <3>1. CASE Lives(m, s)' /\ session'[m][s].id = IdOf[r]
      BY <1>3, <1>18, <3>1 DEF Ties
    <3>2. CASE Holds(call'[m], s) /\ call'[m].peer = r
      BY <1>4, <1>11, <2>1, <3>2 DEF Ties, p
    <3>3. CASE \E v \in Workers : Holds(worker'[m][v], s) /\ worker'[m][v].from = r
      BY <1>1, <3>3 DEF Ties
    <3> QED BY <2>2, <3>1, <3>2, <3>3 DEF Ties
  <2> QED BY <1>0, <2>2, PairStays
<1>20. RowsFit'
  <2>1. time <= time'
    BY <1>0, <1>1, SessionTypes
  <2>2. ASSUME NEW m \in Node, NEW r \in Node, NEW s \in Session, NEW e \in Nat,
               Calls(m, r), Ties(s, m, r), Gives(r, m, s, e)
        PROVE  Gives(r, m, s, e)'
    <3>1. ~ (r = n /\ s = s0)
      <4> SUFFICES ASSUME r = n, s = s0 PROVE FALSE
        OBVIOUS
      <4>1. (m = n /\ r = p) \/ (m = p /\ r = n)
        BY <1>0, <1>2, <1>3, <2>2, SamePair
      <4> QED BY <1>3, <2>2, <4>1 DEF Calls
    <3> QED BY <1>1, <1>10, <2>2, <3>1 DEF Gives
  <2>3. \A m, r \in Node, s \in Session :
           Calls(m, r) /\ Lives(m, s)' /\ session'[m][s].id = IdOf[r] =>
              \/ /\ Lives(m, s) /\ session[m][s].id = IdOf[r]
                 /\ session'[m][s].exp = session[m][s].exp
              \/ /\ \A e1 \in Nat : e1 = session'[m][s].exp => Gives(r, m, s, e1)'
                 /\ session'[m][s].exp <= time' + TTL /\ ident'[m][IdOf[r]] = r
                 /\ call'[m].at \in {"handshake", "await"} \cup InHand => call'[m].peer # r
    <3> SUFFICES ASSUME NEW m \in Node, NEW r \in Node, NEW s \in Session,
                        Calls(m, r), m = n, s = s0, session'[m][s].id = IdOf[r]
                 PROVE  /\ \A e1 \in Nat : e1 = session'[m][s].exp => Gives(r, m, s, e1)'
                        /\ session'[m][s].exp <= time' + TTL /\ ident'[m][IdOf[r]] = r
                        /\ call'[m].at \in {"handshake", "await"} \cup InHand => call'[m].peer # r
      BY <1>18
    <3>1. r = p /\ session'[m][s].exp = call[n].exp
      BY <1>5, <1>10, <1>18
    <3>2. \A e1 \in Nat : e1 = call[n].exp => Gives(r, m, s, e1)
      BY <1>8, <3>1
    <3>3. \A e1 \in Nat : e1 = call[n].exp => Gives(r, m, s, e1)'
      BY <1>3, <2>2, <3>1, <3>2
    <3>4. call'[m].at = "request"
      BY <1>4, <1>11
    <3>5. session'[m][s].exp <= time' + TTL /\ ident'[m][IdOf[r]] = r
      BY <1>1, <1>8, <3>1
    <3> QED BY <3>1, <3>3, <3>4, <3>5 DEF InHand
  <2>4. \A m, r \in Node : ident[m][IdOf[r]] = r => ident'[m][IdOf[r]] = r
    BY <1>1
  <2>5. \A m \in Node : call'[m].at \in {"handshake", "await"} \cup InHand => call'[m] = call[m]
    BY <1>4, <1>11 DEF InHand
  <2> QED BY <1>12, <2>1, <2>2, <2>3, <2>4, <2>5, RowsStay
<1> QED BY <1>12, <1>13, <1>15, <1>16, <1>17, <1>19, <1>20 DEF HeldInv

LEMMA TickKeeps ==
    ASSUME HeldInv, Tick
    PROVE  HeldInv'
<1>0. /\ SessionsTypeOK /\ CallsOwnPeers /\ HandlersAwaited /\ OnePair /\ TouchFits
      /\ AdmittedFits /\ RowsFit
  BY DEF HeldInv
<1>1. /\ time \in Nat /\ time' = time + 1 /\ TTL \in Nat
      /\ UNCHANGED <<ident, session, call, worker, lost>>
  BY <1>0, SessionTypes, PeerSessionsAssumption DEF Tick
<1>2. SessionsTypeOK'
  BY <1>0, <1>1, SessionTypes, SessionTypesNext
<1>3. CallsOwnPeers' /\ HandlersAwaited' /\ TouchFits'
  BY <1>0, <1>1 DEF CallsOwnPeers, HandlersAwaited, TouchFits
<1>4. AdmittedFits'
  <2>1. \A q \in Node, v \in Workers : worker[q][v].at = "issue" => worker[q][v].exp <= time' + TTL
    <3> SUFFICES ASSUME NEW q \in Node, NEW v \in Workers, worker[q][v].at = "issue"
                 PROVE  worker[q][v].exp <= time' + TTL
      OBVIOUS
    <3>1. worker[q][v] \in WorkerStates
      BY <1>0, SessionTypes
    <3>2. worker[q][v].exp \in Nat
      BY <3>1, WorkerFields
    <3>3. worker[q][v].exp <= time + TTL
      BY <1>0 DEF AdmittedFits
    <3> QED BY <1>1, <3>2, <3>3
  <2> QED BY <1>0, <1>1, <2>1 DEF AdmittedFits
<1>5. \A m \in Node, s \in Session : Lives(m, s)' => Lives(m, s)
  <2> SUFFICES ASSUME NEW m \in Node, NEW s \in Session, session[m][s] # None,
                      session[m][s].exp > time'
               PROVE  session[m][s].exp > time
    BY <1>1 DEF Lives
  <2>1. session[m][s].exp \in Nat
    BY <1>0, SessionTypes DEF SessionRow
  <2> QED BY <1>1, <2>1
<1>6. OnePair'
  <2> SUFFICES ASSUME NEW s \in Session PROVE \E a, b \in Node : OfPair(s, a, b)'
    BY DEF OnePair
  <2>1. ASSUME NEW m \in Node, NEW r \in Node, Ties(s, m, r)' PROVE Ties(s, m, r)
    BY <1>1, <1>5, <2>1 DEF Ties
  <2> QED BY <1>0, <2>1, PairStays
<1>7. RowsFit'
  <2>1. time <= time'
    BY <1>1
  <2>2. \A m, r \in Node, s \in Session :
           Calls(m, r) /\ Lives(m, s)' /\ session'[m][s].id = IdOf[r] =>
              /\ Lives(m, s) /\ session[m][s].id = IdOf[r]
              /\ session'[m][s].exp = session[m][s].exp
    BY <1>1, <1>5
  <2>3. ASSUME NEW m \in Node, NEW r \in Node, NEW s \in Session, NEW e \in Nat, Gives(r, m, s, e)
        PROVE  Gives(r, m, s, e)'
    <3>1. session[r][s].exp \in Nat
      BY <1>0, <2>3, SessionTypes DEF Gives, SessionRow
    <3> QED BY <1>1, <2>3, <3>1 DEF Gives
  <2>4. \A m, r \in Node : ident[m][IdOf[r]] = r => ident'[m][IdOf[r]] = r
    BY <1>1
  <2>5. \A m \in Node : call'[m] = call[m]
    BY <1>1
  <2> QED BY <1>2, <2>1, <2>2, <2>3, <2>4, <2>5, RowsStay
<1> QED BY <1>2, <1>3, <1>4, <1>6, <1>7 DEF HeldInv

LEMMA HeldInvHolds ==
    ASSUME PromptAndApart
    PROVE  SessionsSpec => []HeldInv
<1>1. SessionsInit => HeldInv
  <2> SUFFICES ASSUME SessionsInit PROVE HeldInv
    OBVIOUS
  <2>1. AtRest.at = "idle" /\ AtRest \in CallStates /\ AtRest \in WorkerStates
    BY DEF AtRest, CallStates, WorkerStates
  <2>2. SessionsTypeOK
    BY <2>1, SessionTypes DEF SessionsInit
  <2>3. /\ \A n \in Node : call[n] = AtRest /\ \A w \in Workers : worker[n][w] = AtRest
        /\ \A n \in Node, s \in Session : session[n][s] = None
        /\ \A n \in Node, i \in Id : ident[n][i] = None
    BY DEF SessionsInit
  <2>4. \A s : ~Holds(AtRest, s)
    BY <2>1, CallFields DEF WithSession, InHand
  <2>5. \A s \in Session, m, r \in Node : ~Ties(s, m, r)
    BY <2>3, <2>4 DEF Ties, Lives
  <2>6. OnePair
    BY <2>5, PeerSessionsAssumption DEF OnePair, OfPair
  <2>7. CallsOwnPeers /\ HandlersAwaited /\ TouchFits /\ AdmittedFits
    BY <2>1, <2>3 DEF CallsOwnPeers, HandlersAwaited, TouchFits, AdmittedFits
  <2>8. RowsFit
    BY <2>1, <2>3 DEF RowsFit, Lives, InHand
  <2> QED BY <2>2, <2>6, <2>7, <2>8 DEF HeldInv
<1>2. HeldInv /\ [SessionsNext]_sessionVars => HeldInv'
  <2> SUFFICES ASSUME HeldInv, [SessionsNext]_sessionVars PROVE HeldInv'
    OBVIOUS
  <2>1. ASSUME NEW n \in Node, Caller(n) PROVE HeldInv'
    BY <2>1, BeginKeeps, CheckAckKeeps, AdmitServerKeeps, DropOldSessionsKeeps,
       StoreSessionKeeps, EndCallKeeps, DeliverKeeps DEF Caller
  <2>2. ASSUME NEW n \in Node, TimeOut(n) PROVE HeldInv'
    BY <2>2, TimeOutKeeps
  <2>3. ASSUME NEW q \in Node, NEW w \in Workers, Handler(q, w) PROVE HeldInv'
    BY <2>3, CheckAdmissionKeeps, AdmitCallerKeeps, EndSessionsKeeps, IssueKeeps,
       CheckSessionKeeps, TouchKeeps, ServeKeeps DEF Handler
  <2>4. CASE UNCHANGED sessionVars
    BY <2>4 DEF HeldInv, sessionVars, SessionsTypeOK, CallsOwnPeers, HandlersAwaited, OnePair,
                OfPair, Ties, TouchFits, AdmittedFits, RowsFit, Lives, Gives
  <2>5. \A n \in CalledNodes : n \in Node
    BY PeerSessionsAssumption DEF CalledNodes
  <2> QED BY <2>1, <2>2, <2>3, <2>4, <2>5, TickKeeps DEF SessionsNext, Callers
<1> QED BY <1>1, <1>2, PTL DEF SessionsSpec

\* ensure_peer_admission and _authenticate_peer_envelope agree about a session: the one that a
\* node takes for its next call is accepted by the peer, however many handler threads it has
\* and wherever replies are lost, as long as the peer does not call the node.
THEOREM SessionsAreHeld ==
    ASSUME PromptAndApart
    PROVE  SessionsSpec => []HeldSessionWorks
<1>1. ASSUME HeldInv PROVE HeldSessionWorks
  <2> SUFFICES ASSUME NEW n \in Node, NEW p \in Node, Calls(n, p), NEW s \in Chosen(n, p)
               PROVE  Accepts(p, n, s)
    BY DEF HeldSessionWorks, Calls
  <2>1. /\ s \in Session /\ Lives(n, s) /\ session[n][s].id = IdOf[p] /\ session[n][s].exp > time
    BY DEF Chosen, Usable, Live, Lives
  <2>2. Gives(p, n, s, session[n][s].exp)
    BY <1>1, <2>1, RowsOfPair
  <2>3. /\ session[p][s] # None /\ session[p][s].id = IdOf[n] /\ session[p][s].url = n
        /\ session[n][s].exp <= session[p][s].exp /\ ident[p][IdOf[n]] = n
        /\ session[p][s].active \/ session[p][s].exp <= time
    BY <2>2 DEF Gives
  <2>4. time \in Nat /\ session[n][s].exp \in Nat /\ session[p][s].exp \in Nat
    BY <1>1, <2>1, <2>3, SessionTypes DEF HeldInv, SessionRow, Lives
  <2>5. session[p][s].exp > time
    BY <2>1, <2>3, <2>4
  <2>6. session[p][s].active
    BY <2>3, <2>4, <2>5
  <2> QED BY <2>3, <2>5, <2>6 DEF Accepts, Live
<1> QED BY <1>1, HeldInvHolds, PTL
=============================================================================
