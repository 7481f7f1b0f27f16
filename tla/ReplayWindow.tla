---------------------------- MODULE ReplayWindow ----------------------------
(***************************************************************************)
(* One node receives signed peer requests: the timestamp check of          *)
(* verify_signed_envelope (auth.py) and the table peer_nonces, as          *)
(* _authenticate_peer_envelope (service.py) and mark_peer_nonce            *)
(* (storage.py) use them, in several handler threads.                      *)
(*                                                                         *)
(* Time is in half seconds: the node compares whole seconds when it checks *)
(* a timestamp and fractions when it prunes.  An envelope stands for its   *)
(* nonce: two requests never share one.                                    *)
(***************************************************************************)
EXTENDS Integers, FiniteSets

CONSTANTS
    Receivers,      \* handler threads
    Envelope,       \* signed requests that may arrive, each any number of times
    SignerOf,       \* the peer identity of an envelope
    StampOf,        \* its timestamp, in whole seconds
    Skew,           \* auth_time_skew_seconds
    NonceCapacity,  \* MAX_PEER_NONCES_PER_IDENTITY
    MaxStall,       \* bound: half seconds a handler takes from check to insert
    MaxClock        \* bound: the last half second of a behaviour

ASSUME ReplayWindowAssumption ==
    /\ IsFiniteSet(Envelope)
    /\ StampOf \in [Envelope -> Nat]
    /\ DOMAIN SignerOf = Envelope
    /\ Skew \in Nat /\ NonceCapacity \in Nat /\ MaxStall \in Nat /\ MaxClock \in Nat

VARIABLES
    clock,      \* time.time() of the node
    nonces,     \* peer_nonces: the envelopes marked, with the time of the mark
    receiver,   \* where each handler is
    accepted    \* how often each envelope was let through

replayVars == <<clock, nonces, receiver, accepted>>

Free == [at |-> "free"]
Second(t) == t \div 2
\* nonce_retention_seconds, in half seconds: twice the skew and one second more.
Retention == 2 * (2 * Skew + 1)

ReplayTypeOK ==
    /\ clock \in Nat
    /\ nonces \subseteq [env : Envelope, seen : Nat]
    /\ accepted \in [Envelope -> Nat]
    /\ receiver \in [Receivers ->
          {Free} \cup [at : {"prune"}, env : Envelope, since : Nat]
                 \cup [at : {"insert"}, env : Envelope, since : Nat, seen : Nat]]

ReplayInit ==
    /\ clock = 0
    /\ nonces = {}
    /\ receiver = [t \in Receivers |-> Free]
    /\ accepted = [e \in Envelope |-> 0]

InWindow(e) == Second(clock) - StampOf[e] \in -Skew..Skew

\* verify_signed_envelope: the signature, the target and the timestamp are right.
Verify(t, e) ==
    /\ receiver[t] = Free
    /\ InWindow(e)
    /\ receiver' = [receiver EXCEPT ![t] = [at |-> "prune", env |-> e, since |-> clock]]
    /\ UNCHANGED <<clock, nonces, accepted>>

\* A slip for the mutants: rows are kept for twice the skew only.
ExpiredEarly(r, now) == r.seen < now - 4 * Skew
\* Another: rows are kept for a skew too long.
ExpiredLate(r, now) == r.seen < now - Retention - 2 * Skew
Expired(r, now) == r.seen < now - Retention

\* The DELETE of mark_peer_nonce, committed by itself; seen_at is the time that the caller
\* read at some moment between the check of the timestamp and the DELETE.
Prune(t) ==
    /\ receiver[t].at = "prune"
    /\ \E now \in receiver[t].since..clock :
          /\ nonces' = {r \in nonces : ~Expired(r, now)}
          /\ receiver' = [receiver EXCEPT ![t] = [at |-> "insert", env |-> receiver[t].env,
                                                  since |-> receiver[t].since, seen |-> now]]
    /\ UNCHANGED <<clock, accepted>>

RowsOf(s) == {r \in nonces : SignerOf[r.env] = s}
Known(e) == \E r \in nonces : r.env = e
Room(s) == Cardinality(RowsOf(s)) < NonceCapacity

\* The BEGIN IMMEDIATE transaction of mark_peer_nonce; the request is served.
Insert(t) ==
    LET e == receiver[t].env
    IN  /\ receiver[t].at = "insert"
        /\ ~Known(e) /\ Room(SignerOf[e])
        /\ nonces' = nonces \cup {[env |-> e, seen |-> receiver[t].seen]}
        /\ accepted' = [accepted EXCEPT ![e] = @ + 1]
        /\ receiver' = [receiver EXCEPT ![t] = Free]
        /\ UNCHANGED clock

\* The same transaction, rolled back: the nonce is known, or there is no room.
Refuse(t) ==
    LET e == receiver[t].env
    IN  /\ receiver[t].at = "insert"
        /\ Known(e) \/ ~Room(SignerOf[e])
        /\ receiver' = [receiver EXCEPT ![t] = Free]
        /\ UNCHANGED <<clock, nonces, accepted>>

\* Time passes, while signatures are verified and locks are waited for.
Tick ==
    /\ clock < MaxClock
    /\ \A t \in Receivers : receiver[t] # Free => clock - receiver[t].since < MaxStall
    /\ clock' = clock + 1
    /\ UNCHANGED <<nonces, receiver, accepted>>

ReplayNext ==
    \/ \E t \in Receivers : (\E e \in Envelope : Verify(t, e)) \/ Prune(t) \/ Insert(t) \/ Refuse(t)
    \/ Tick

ReplaySpec == ReplayInit /\ [][ReplayNext]_replayVars

\* The extra second of the retention, less what the two granularities of time take.
Margin == 1

\* An envelope that was let through is let through again, however often and late it is
\* delivered, only by a handler that took longer than the margin from the check of the timestamp
\* to the mark: a row is pruned no sooner than that after the check refuses its envelope for
\* good (verify_signed_envelope and mark_peer_nonce).
NoReplay ==
    [][\A t \in Receivers :
          LET e == receiver[t].env
          IN  /\ receiver[t].at = "insert" /\ accepted'[e] # accepted[e] /\ receiver'[t] = Free
              /\ clock - receiver[t].since <= Margin
              => accepted[e] = 0]_replayVars

\* The window of an identity never passes its capacity, whoever inserts at the same time.
WindowBounded == \A e \in Envelope : Cardinality(RowsOf(SignerOf[e])) <= NonceCapacity

\* A fresh envelope is refused only when the identity used up its capacity within the
\* retention period: rows that are due do not keep a peer out.
RefusedOnlyWhenFull ==
    [][\A t \in Receivers :
          /\ receiver[t] # Free /\ receiver'[t] = Free
          /\ ~Known(receiver[t].env) /\ accepted' = accepted
          => Cardinality({r \in RowsOf(SignerOf[receiver[t].env]) :
                             r.seen >= receiver[t].seen - Retention}) >= NonceCapacity]_replayVars
=============================================================================
