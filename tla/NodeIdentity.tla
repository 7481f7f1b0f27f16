----------------------------- MODULE NodeIdentity -----------------------------
(***************************************************************************)
(* The key a node signs its envelopes with: NodeIdentityManager.sign_claims *)
(* (auth.py) over the reservations of wallet_store.py.  Unlike a wallet    *)
(* signer, the manager keeps the key pair in one attribute that all handler *)
(* threads of the process assign, sign with and write back; a command line *)
(* tool is another process on the same store.  A signer of KeyReservations *)
(* is a thread here.                                                       *)
(***************************************************************************)
EXTENDS KeyReservations, FiniteSets

CONSTANTS
    Process,        \* processes of the node
    ProcessOf,      \* the process of each thread in Signers
    MayStall        \* whether a thread may outlast its own reservation

ASSUME NodeIdentityAssumption ==
    ProcessOf \in [Signers -> Process] /\ MayStall \in BOOLEAN

VARIABLES
    keypair,    \* keypair[p]: self._keypair of the process, as its next leaf
    usedLeaf    \* the leaf that each reservation's signature was made with

identityVars == <<vars, keypair, usedLeaf>>

IdentityTypeOK ==
    /\ scheme \in Schemes /\ key \in Nat /\ rows \in Seq(Row)
    /\ signer \in [Signers -> [at : {"idle", "reserved", "assigned", "signed", "failing"}, row : Nat]]
    /\ released \subseteq DOMAIN rows
    /\ keypair \in [Process -> Nat]
    /\ usedLeaf \in [1..MaxRows -> Nat \cup {-1}]

IdentityInit ==
    /\ Init
    /\ keypair = [p \in Process |-> 0]
    /\ usedLeaf = [i \in 1..MaxRows |-> -1]

\* reserve_wallet_key_state, from the key as it is stored.
ReserveLeaf(t) == Reserve(t) /\ UNCHANGED <<keypair, usedLeaf>>

\* A slip for the mutants: the reservation's state is read and dropped.
KeepOldState(t) ==
    /\ signer[t].at = "reserved"
    /\ Goto(t, "assigned")
    /\ UNCHANGED <<scheme, key, rows, released, keypair, usedLeaf>>

\* The attribute takes the state that the reservation returned.
Assign(t) ==
    /\ signer[t].at = "reserved"
    /\ keypair' = [keypair EXCEPT ![ProcessOf[t]] = IF Mine(t).advanced THEN Mine(t).leaf + 1
                                                                        ELSE Mine(t).leaf]
    /\ Goto(t, "assigned")
    /\ UNCHANGED <<scheme, key, rows, released, usedLeaf>>

\* sign_with_reservation on the attribute: with the reserved leaf where reserving takes it,
\* and with the attribute's own next leaf, which signing takes, where it does not.  As in the
\* provider of crypto.py and in LMS through liboqs, nothing compares the reservation with the
\* attribute; where a provider does (XMSS through liboqs, the reference backend), it refuses
\* some of these steps, and SigningFails stands for that.
SignClaims(t) ==
    LET p == ProcessOf[t]
        leaf == IF scheme = "on_sign" THEN keypair[p] ELSE Mine(t).leaf
    IN  /\ signer[t].at = "assigned"
        /\ usedLeaf' = [usedLeaf EXCEPT ![signer[t].row] = leaf]
        /\ keypair' = [keypair EXCEPT ![p] = IF scheme = "on_sign" THEN @ + 1 ELSE @]
        /\ Goto(t, "signed")
        /\ UNCHANGED <<scheme, key, rows, released>>

SigningFails(t) ==
    /\ signer[t].at = "assigned"
    /\ Goto(t, "failing")
    /\ UNCHANGED <<scheme, key, rows, released, keypair, usedLeaf>>

\* complete_wallet_key_reservation with the attribute as it is by now; the envelope leaves.
WriteBack(t) ==
    /\ signer[t].at = "signed"
    /\ IF Mine(t).status = "pending"
       THEN /\ key' = keypair[ProcessOf[t]]
            /\ rows' = [rows EXCEPT ![signer[t].row].status = "completed"]
            /\ released' = released \cup {signer[t].row}
            /\ Return(t)
       ELSE /\ Goto(t, "failing")
            /\ UNCHANGED <<key, rows, released>>
    /\ UNCHANGED <<scheme, keypair, usedLeaf>>

GiveUp(t) == Fail(t) /\ UNCHANGED <<keypair, usedLeaf>>

\* The process dies with all its threads, and loads the stored key when it starts again.
Restart(p) ==
    /\ signer' = [t \in Signers |-> IF ProcessOf[t] = p THEN Idle ELSE signer[t]]
    /\ keypair' = [keypair EXCEPT ![p] = key]
    /\ UNCHANGED <<scheme, key, rows, released, usedLeaf>>

\* Without stalls a reservation lapses only when its thread is gone.
LapseOf(i) ==
    /\ MayStall \/ \A t \in Signers : signer[t] # Idle => signer[t].row # i
    /\ Lapse(i)
    /\ UNCHANGED <<keypair, usedLeaf>>

Maintain == (Refresh \/ Recover) /\ UNCHANGED <<keypair, usedLeaf>>

Thread(t) ==
    ReserveLeaf(t) \/ Assign(t) \/ SignClaims(t) \/ SigningFails(t) \/ WriteBack(t) \/ GiveUp(t)

IdentityNext ==
    \/ \E t \in Signers : Thread(t)
    \/ \E p \in Process : Restart(p)
    \/ \E i \in 1..MaxRows : LapseOf(i)
    \/ Maintain

IdentitySpec == IdentityInit /\ [][IdentityNext]_identityVars

-----------------------------------------------------------------------------
\* Reservations whose envelope left the node.
Envelopes == {i \in released : usedLeaf[i] # -1}

\* No two envelopes that left the node are signed with the same leaf (protocol.md, section 6:
\* "MUST NOT reuse a signing leaf").  Threads share the attribute without a lock; only the
\* reservation, one at a time, keeps one thread's key state out of another's write.
OneEnvelopePerLeaf ==
    scheme # "stateless" =>
        \A i, j \in Envelopes : i # j => usedLeaf[i] # usedLeaf[j]

\* The stored key is past every leaf that left the node, so that no later reservation,
\* in whichever process, names one again.
StoredKeyIsPast == scheme # "stateless" => \A i \in Envelopes : usedLeaf[i] < key
=============================================================================
