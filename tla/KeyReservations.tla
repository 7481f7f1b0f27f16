--------------------------- MODULE KeyReservations ---------------------------
(***************************************************************************)
(* One stored signing key shared by several signer processes: the          *)
(* reservation protocol of SQLiteWalletStateStore (wallet_store.py) as     *)
(* LocalWalletSigner.sign_for_address (signer.py) drives it.  Each store   *)
(* operation is one BEGIN IMMEDIATE transaction and so one step; a signer  *)
(* may stall, be overtaken or die between any two of them.                 *)
(*                                                                         *)
(* The key state is the number of the next one-time leaf.  What a provider *)
(* does to it is the scheme:                                               *)
(*   on_reserve  reserving takes the leaf (the XMSS-style providers)       *)
(*   on_sign     reserving only names it, signing takes it (LMS and XMSS   *)
(*               through liboqs)                                           *)
(*   stateless   there is no leaf and nothing to reserve (ML-DSA, native): *)
(*               reserve_signing_material returns None                     *)
(***************************************************************************)
EXTENDS Integers, Sequences

CONSTANTS
    Signers,    \* processes that share the key, each with an owner id
    Schemes,    \* the schemes of this instance
    Leaves,     \* one-time leaves of a key
    MaxRows     \* bound: reservations made in a behaviour

ASSUME KeyReservationsAssumption ==
    /\ Schemes \subseteq {"on_reserve", "on_sign", "stateless"}
    /\ Leaves \in Nat /\ MaxRows \in Nat

VARIABLES
    scheme,     \* of the key
    key,        \* wallet_keys: the next leaf
    rows,       \* wallet_signing_reservations, in the order of created_at
    signer,     \* where each process is, and the row it reserved
    released    \* rows whose signature sign_for_address returned

vars == <<scheme, key, rows, signer, released>>

Status == {"pending", "completed", "failed", "expired", "requires_recovery", "recovered"}
Row == [owner : Signers, leaf : Nat, advanced : BOOLEAN, status : Status,
        lapsed : BOOLEAN]       \* lapsed: expires_at has passed

Idle == [at |-> "idle", row |-> 0]
Mine(s) == rows[signer[s].row]
Goto(s, place) == signer' = [signer EXCEPT ![s].at = place]
Return(s) == signer' = [signer EXCEPT ![s] = Idle]

Init ==
    /\ scheme \in Schemes
    /\ key = 0 /\ rows = <<>> /\ released = {}
    /\ signer = [s \in Signers |-> Idle]

\* A slip for the mutants: the key of a lapsed reservation always needs recovery.
SweepAll(rs) ==
    [i \in DOMAIN rs |->
        IF rs[i].status = "pending" /\ rs[i].lapsed
        THEN [rs[i] EXCEPT !.status = "requires_recovery"]
        ELSE rs[i]]

\* _expire_completed_reservations: a lapsed reservation whose leaf was taken is
\* over; one whose leaf may or may not have been used waits for an operator.
Sweep(rs) ==
    [i \in DOMAIN rs |->
        IF rs[i].status = "pending" /\ rs[i].lapsed
        THEN [rs[i] EXCEPT !.status = IF rs[i].advanced THEN "expired"
                                                        ELSE "requires_recovery"]
        ELSE rs[i]]

\* _assert_key_is_available
Available(rs) == \A i \in DOMAIN rs : rs[i].status \notin {"pending", "requires_recovery"}

\* A slip for the mutants: a lapsed reservation is not in the way of another, and
\* keeps its status.
ReserveUnswept(s) ==
    /\ signer[s] = Idle
    /\ Len(rows) < MaxRows
    /\ \A i \in DOMAIN rows : rows[i].status \in {"pending", "requires_recovery"} => rows[i].lapsed
    /\ scheme # "stateless" => key < Leaves
    /\ LET advanced == scheme = "on_reserve"
       IN  /\ key' = IF advanced THEN key + 1 ELSE key
           /\ rows' = Append(rows, [owner |-> s, leaf |-> key, advanced |-> advanced,
                                    status |-> "pending", lapsed |-> FALSE])
    /\ signer' = [signer EXCEPT ![s] = [at |-> "reserved", row |-> Len(rows) + 1]]
    /\ UNCHANGED <<scheme, released>>

\* reserve_wallet_key_state; a refusal rolls everything back, the sweep included.
Reserve(s) ==
    /\ signer[s] = Idle
    /\ Len(rows) < MaxRows
    /\ Available(Sweep(rows))
    /\ scheme # "stateless" => key < Leaves
    /\ LET advanced == scheme = "on_reserve"
       IN  /\ key' = IF advanced THEN key + 1 ELSE key
           /\ rows' = Append(Sweep(rows), [owner |-> s, leaf |-> key, advanced |-> advanced,
                                           status |-> "pending", lapsed |-> FALSE])
    /\ signer' = [signer EXCEPT ![s] = [at |-> "reserved", row |-> Len(rows) + 1]]
    /\ UNCHANGED <<scheme, released>>

\* sign_with_reservation, or sign for a stateless key; in memory.
Sign(s) ==
    /\ signer[s].at = "reserved"
    /\ \/ Goto(s, IF scheme = "stateless" THEN "persist" ELSE "signed")
       \/ Goto(s, "failing")
    /\ UNCHANGED <<scheme, key, rows, released>>

\* A slip for the mutants: the status of the reservation is not looked at.
CompleteAnyway(s) ==
    /\ signer[s].at = "signed"
    /\ key' = Mine(s).leaf + 1
    /\ rows' = [rows EXCEPT ![signer[s].row].status = "completed"]
    /\ released' = released \cup {signer[s].row}
    /\ Return(s)
    /\ UNCHANGED scheme

\* complete_wallet_key_reservation writes back the key state of this signer, and
\* sign_for_address returns the signature.  That the reservation has lapsed is no
\* obstacle, as long as no other transaction has swept it.
Complete(s) ==
    /\ signer[s].at = "signed"
    /\ IF Mine(s).status = "pending"
       THEN /\ key' = Mine(s).leaf + 1
            /\ rows' = [rows EXCEPT ![signer[s].row].status = "completed"]
            /\ released' = released \cup {signer[s].row}
            /\ Return(s)
       ELSE /\ Goto(s, "failing")
            /\ UNCHANGED <<key, rows, released>>
    /\ UNCHANGED scheme

\* _persist_key: the branch without a reservation saves the (unchanged) key and
\* returns the signature.
Persist(s) ==
    /\ signer[s].at = "persist"
    /\ released' = released \cup {signer[s].row}
    /\ Return(s)
    /\ UNCHANGED <<scheme, key, rows>>

\* fail_wallet_key_reservation
Fail(s) ==
    /\ signer[s].at = "failing"
    /\ rows' = IF Mine(s).status = "pending"
               THEN [rows EXCEPT ![signer[s].row].status = "failed"]
               ELSE rows
    /\ Return(s)
    /\ UNCHANGED <<scheme, key, released>>

\* The process dies; another starts, with a new owner id and the stored key.
Crash(s) ==
    /\ signer[s] # Idle
    /\ Return(s)
    /\ UNCHANGED <<scheme, key, rows, released>>

\* The time to live of a reservation passes.
Lapse(i) ==
    /\ i \in DOMAIN rows
    /\ rows[i].status = "pending" /\ ~rows[i].lapsed
    /\ rows' = [rows EXCEPT ![i].lapsed = TRUE]
    /\ UNCHANGED <<scheme, key, signer, released>>

\* refresh_reservation_states, from a status report.
Refresh ==
    /\ rows' = Sweep(rows)
    /\ UNCHANGED <<scheme, key, signer, released>>

\* recover_wallet_key: the operator acknowledges the latest reservation.
Recover ==
    /\ rows # <<>>
    /\ Sweep(rows)[Len(rows)].status = "requires_recovery"
    /\ rows' = [Sweep(rows) EXCEPT ![Len(rows)].status = "recovered"]
    /\ UNCHANGED <<scheme, key, signer, released>>

Step(s) == Reserve(s) \/ Sign(s) \/ Complete(s) \/ Persist(s) \/ Fail(s) \/ Crash(s)

Next ==
    \/ \E s \in Signers : Step(s)
    \/ \E i \in 1..MaxRows : Lapse(i)
    \/ Refresh \/ Recover

Spec == Init /\ [][Next]_vars

\* Time passes; nobody is obliged to sign, to report or to recover.
FairSpec == Spec /\ \A i \in 1..MaxRows : WF_vars(Lapse(i))

(***************************************************************************)
(* Properties.                                                             *)
(***************************************************************************)

\* The key, the reservations and the signers keep their types.
TypeOK ==
    /\ scheme \in Schemes /\ key \in Nat
    /\ rows \in Seq(Row)
    /\ signer \in [Signers -> [at : {"idle", "reserved", "signed", "persist", "failing"},
                               row : Nat]]
    /\ released \subseteq DOMAIN rows

\* No leaf of a stateful key is in two signatures that left a signer, whoever
\* stalled, died, was overtaken or was recovered (protocol.md, section 6: MUST NOT
\* reuse a signing leaf).
OneSignaturePerLeaf ==
    scheme # "stateless" =>
        \A i, j \in released : i # j => rows[i].leaf # rows[j].leaf

\* A signature leaves the signer after its reservation is completed (README.md,
\* PQ Signing Flow).
ReleasedWhenCompleted == \A i \in released : rows[i].status = "completed"

\* A late write of a signer never puts the stored key state back.
NoRollback == [][key' >= key]_vars

\* A key whose leaf is taken when it is reserved frees itself, whatever happens to
\* the signers: again and again a reservation would be granted.
FreesItself == scheme = "on_reserve" => []<>Available(Sweep(rows))

\* A reservation that blocks its key is the latest one of the key: recover_wallet_key
\* looks at no other, so an older one would block the key for good.
BlockingIsLatest ==
    \A i \in DOMAIN rows : rows[i].status \in {"pending", "requires_recovery"} => i = Len(rows)

\* A pending reservation holds the next leaf (the one before it, if taken).
PendingLeaf ==
    \A i \in DOMAIN rows :
        rows[i].status = "pending" =>
            key = IF rows[i].advanced THEN rows[i].leaf + 1 ELSE rows[i].leaf

\* Completed reservations have leaves of their own, below every leaf to come.
CompletedLeaves ==
    \A i, j \in DOMAIN rows :
        rows[i].status = "completed" =>
            /\ rows[i].leaf < key
            /\ rows[j].status = "pending" => rows[i].leaf < rows[j].leaf
            /\ rows[j].status = "completed" /\ i # j => rows[i].leaf # rows[j].leaf

\* A busy signer works on a row of the table.
OwnRow == \A s \in Signers : signer[s].at # "idle" => signer[s].row \in DOMAIN rows

\* Which branch of sign_for_address a signer is in follows from the scheme.
BranchFits ==
    \A s \in Signers :
        /\ signer[s].at = "persist" => scheme = "stateless"
        /\ signer[s].at = "signed" => scheme # "stateless"

\* The inductive invariant: with a stateful scheme only completed rows are released.
IInv ==
    /\ TypeOK /\ OwnRow
    /\ scheme # "stateless" => ReleasedWhenCompleted
    /\ BranchFits
    /\ BlockingIsLatest
    /\ scheme # "stateless" => PendingLeaf /\ CompletedLeaves
=============================================================================
