-------------------------- MODULE NodePartsProofs --------------------------
(***************************************************************************)
(* Proofs about the parts of a node that nothing connects (MCNodeParts).   *)
(*                                                                         *)
(* ReplayWindow, for any requests, timestamps, skew, capacity and number   *)
(* of handlers: only a handler that takes longer than the margin of the    *)
(* retention from the check of the timestamp to the mark serves a request  *)
(* again, and the window of an identity stays within its capacity.  If     *)
(* none takes longer than the retention, a fresh request is refused only   *)
(* when the identity used up its capacity within that time.                *)
(*                                                                         *)
(* HttpServer, for any clients, slots and queue: the slots are conserved.  *)
(* What must be known besides is that a connection waits for accept once   *)
(* only, and holds no slot while it does.                                  *)
(*                                                                         *)
(* RateLimit, for any clients, limit and bounds of the table: in a minute  *)
(* a client gets at most two windows' worth through.  The invariant splits *)
(* the sum of what was let through where the client's window starts.       *)
(*                                                                         *)
(* SourceIngestion, for any exports, signers and desks: a bundle is        *)
(* imported as it was approved, whole, and a no-op leaves the tables.      *)
(*                                                                         *)
(* Emission, for any policy: the segment-wise closed form is the sum over  *)
(* the blocks, and a chain is paid what it says.                           *)
(***************************************************************************)
EXTENDS ReplayWindow, RateLimit, HttpServer, SourceIngestion, Emission, FiniteSums

(* The replay window. *)

\* The first and the last half second at which the timestamp of e is accepted.
Opens(e) == 2 * (StampOf[e] - Skew)
Closes(e) == 2 * (StampOf[e] + Skew) + 1

\* A handler that is under way looked while the window was open, and MaxStall ago at most.
HandlersInTime ==
    \A t \in Receivers : receiver[t] # Free =>
        LET j == receiver[t]
        IN  /\ Opens(j.env) <= j.since /\ j.since <= Closes(j.env)
            /\ j.since <= clock /\ clock <= j.since + MaxStall
            /\ j.at = "insert" => j.since <= j.seen /\ j.seen <= clock

RowsInTime == \A r \in nonces : Opens(r.env) <= r.seen

\* What was let through is still known, or late for good: later than a handler that looked
\* within the margin can be.
KnownOrLate == \A e \in Envelope : accepted[e] > 0 => Known(e) \/ clock > Closes(e) + Margin

\* The inductive invariant.
ReplayInv == ReplayTypeOK /\ HandlersInTime /\ RowsInTime /\ KnownOrLate

LEMMA Halves ==
    ASSUME NEW c \in Nat
    PROVE  Second(c) \in Nat /\ 2 * Second(c) <= c /\ c <= 2 * Second(c) + 1
BY DEF Second

LEMMA Window ==
    ASSUME clock \in Nat, NEW e \in Envelope, InWindow(e)
    PROVE  Opens(e) <= clock /\ clock <= Closes(e)
<1>1. StampOf[e] \in Nat /\ Skew \in Nat /\ Second(clock) \in Nat
  BY Halves, ReplayWindowAssumption
<1>2. -Skew <= Second(clock) - StampOf[e] /\ Second(clock) - StampOf[e] <= Skew
  BY <1>1 DEF InWindow
<1>3. 2 * Second(clock) <= clock /\ clock <= 2 * Second(clock) + 1
  BY Halves
<1> QED BY <1>1, <1>2, <1>3 DEF Opens, Closes

LEMMA WindowInts ==
    ASSUME NEW e \in Envelope
    PROVE  Opens(e) \in Int /\ Closes(e) \in Int /\ Closes(e) = Opens(e) + 4 * Skew + 1
           /\ Skew \in Nat /\ MaxStall \in Nat /\ Retention = 4 * Skew + 2 /\ Margin = 1
BY ReplayWindowAssumption DEF Opens, Closes, Retention, Margin

\* Where a handler is, by its name.
LEMMA ReceiverFields ==
    ASSUME ReplayTypeOK, NEW t \in Receivers
    PROVE  /\ receiver[t].at = "prune" => receiver[t] \in [at : {"prune"}, env : Envelope, since : Nat]
           /\ receiver[t].at = "insert" =>
                  receiver[t] \in [at : {"insert"}, env : Envelope, since : Nat, seen : Nat]
           /\ receiver[t] # Free => receiver[t].env \in Envelope /\ receiver[t].since \in Nat
           /\ receiver[t].at \in {"prune", "insert"} => receiver[t] # Free
BY DEF ReplayTypeOK, Free
\* A request that was let through is known to a handler that looked within the margin.
LEMMA PendingKnows ==
    ASSUME ReplayInv, NEW t \in Receivers, receiver[t] # Free,
           clock - receiver[t].since <= Margin, accepted[receiver[t].env] > 0
    PROVE  Known(receiver[t].env)
<1> DEFINE e == receiver[t].env
<1>1. e \in Envelope /\ receiver[t].since \in Nat /\ clock \in Nat
  BY ReceiverFields DEF ReplayInv, ReplayTypeOK
<1>2. receiver[t].since <= Closes(e)
  BY DEF ReplayInv, HandlersInTime
<1>3. ~(clock > Closes(e) + Margin)
  BY <1>1, <1>2, WindowInts
<1> QED BY <1>1, <1>3 DEF ReplayInv, KnownOrLate

LEMMA VerifyKeeps ==
    ASSUME ReplayInv, NEW t \in Receivers, NEW e \in Envelope, Verify(t, e)
    PROVE  ReplayInv'
<1> DEFINE j == [at |-> "prune", env |-> e, since |-> clock]
<1>1. receiver' = [u \in Receivers |-> IF u = t THEN j ELSE receiver[u]]
  BY DEF Verify, ReplayInv, ReplayTypeOK
<1>2. UNCHANGED <<clock, nonces, accepted>> /\ clock \in Nat
  BY DEF Verify, ReplayInv, ReplayTypeOK
<1>3. ReplayTypeOK'
  BY <1>1, <1>2 DEF ReplayInv, ReplayTypeOK
<1>4. HandlersInTime'
  <2>1. Opens(e) <= clock /\ clock <= Closes(e) /\ clock <= clock + MaxStall
    BY <1>2, Window, WindowInts DEF Verify
  <2> QED BY <1>1, <1>2, <2>1 DEF ReplayInv, HandlersInTime
<1>5. RowsInTime' /\ KnownOrLate'
  BY <1>2 DEF ReplayInv, RowsInTime, KnownOrLate, Known
<1> QED BY <1>3, <1>4, <1>5 DEF ReplayInv

LEMMA PruneKeeps ==
    ASSUME ReplayInv, NEW t \in Receivers, Prune(t)
    PROVE  ReplayInv'
<1>0. PICK now \in receiver[t].since..clock :
          /\ nonces' = {r \in nonces : ~Expired(r, now)}
          /\ receiver' = [receiver EXCEPT ![t] = [at |-> "insert", env |-> receiver[t].env,
                                                  since |-> receiver[t].since, seen |-> now]]
  BY DEF Prune
<1> DEFINE j == [at |-> "insert", env |-> receiver[t].env, since |-> receiver[t].since,
                 seen |-> now]
<1>1. receiver' = [u \in Receivers |-> IF u = t THEN j ELSE receiver[u]]
  BY <1>0 DEF ReplayInv, ReplayTypeOK
<1>2. /\ UNCHANGED <<clock, accepted>> /\ clock \in Nat /\ nonces' \subseteq nonces
      /\ receiver[t].env \in Envelope /\ receiver[t].since \in Nat /\ receiver[t] # Free
      /\ now \in Nat /\ receiver[t].since <= now /\ now <= clock
  BY <1>0, ReceiverFields DEF Prune, ReplayInv, ReplayTypeOK
<1>3. ReplayTypeOK'
  BY <1>1, <1>2 DEF ReplayInv, ReplayTypeOK
<1>4. HandlersInTime'
  BY <1>1, <1>2 DEF ReplayInv, HandlersInTime
<1>5. ASSUME NEW e \in Envelope, accepted[e] > 0, Known(e), clock <= Closes(e) + Margin
      PROVE  Known(e)'
  <2>1. PICK r \in nonces : r.env = e
    BY <1>5 DEF Known
  <2>2. r.seen \in Nat /\ Opens(e) <= r.seen
    BY <2>1 DEF ReplayInv, ReplayTypeOK, RowsInTime
  <2>3. ~(r.seen < now - Retention)
    BY <1>2, <1>5, <2>2, WindowInts
  <2>4. r \in nonces'
    BY <1>0, <2>1, <2>3 DEF Expired
  <2> QED BY <2>1, <2>4 DEF Known
<1>6. KnownOrLate'
  <2>1. Margin = 1 /\ \A e \in Envelope : Closes(e) \in Int
    BY WindowInts DEF Margin
  <2> QED BY <1>2, <1>5, <2>1 DEF ReplayInv, KnownOrLate
<1>7. RowsInTime'
  BY <1>2 DEF ReplayInv, RowsInTime
<1> QED BY <1>3, <1>4, <1>6, <1>7 DEF ReplayInv

LEMMA InsertKeeps ==
    ASSUME ReplayInv, NEW t \in Receivers, Insert(t)
    PROVE  ReplayInv'
<1> DEFINE e == receiver[t].env
           row == [env |-> e, seen |-> receiver[t].seen]
<1>1. /\ e \in Envelope /\ receiver[t].seen \in Nat /\ receiver[t].since \in Nat
      /\ receiver[t] # Free /\ clock \in Nat /\ clock' = clock
  BY ReceiverFields DEF Insert, ReplayInv, ReplayTypeOK
<1>2. receiver' = [u \in Receivers |-> IF u = t THEN Free ELSE receiver[u]]
  BY DEF Insert, ReplayInv, ReplayTypeOK
<1>3. accepted' = [f \in Envelope |-> IF f = e THEN accepted[e] + 1 ELSE accepted[f]]
  BY DEF Insert, ReplayInv, ReplayTypeOK
<1>5. nonces' = nonces \cup {row} /\ row.env = e /\ row.seen = receiver[t].seen
      /\ row \in [env : Envelope, seen : Nat]
  BY <1>1 DEF Insert
<1> HIDE DEF row
<1>6. ReplayTypeOK'
  BY <1>1, <1>2, <1>3, <1>5 DEF ReplayInv, ReplayTypeOK
<1>7. HandlersInTime'
  BY <1>1, <1>2 DEF ReplayInv, HandlersInTime
<1>8. RowsInTime'
  <2>1. Opens(e) <= receiver[t].since /\ receiver[t].since <= receiver[t].seen
    BY <1>1 DEF ReplayInv, HandlersInTime, Insert
  <2>2. Opens(e) <= row.seen
    BY <1>1, <1>5, <2>1, WindowInts
  <2> QED BY <1>5, <2>2 DEF ReplayInv, RowsInTime
<1>9. KnownOrLate'
  BY <1>1, <1>3, <1>5 DEF ReplayInv, KnownOrLate, Known
<1> QED BY <1>6, <1>7, <1>8, <1>9 DEF ReplayInv

LEMMA RefuseKeeps ==
    ASSUME ReplayInv, NEW t \in Receivers, Refuse(t)
    PROVE  ReplayInv'
<1>1. receiver' = [u \in Receivers |-> IF u = t THEN Free ELSE receiver[u]]
      /\ UNCHANGED <<clock, nonces, accepted>>
  BY DEF Refuse, ReplayInv, ReplayTypeOK
<1>2. ReplayTypeOK' /\ HandlersInTime'
  BY <1>1 DEF ReplayInv, ReplayTypeOK, HandlersInTime
<1> QED BY <1>1, <1>2 DEF ReplayInv, RowsInTime, KnownOrLate, Known

LEMMA TickKeeps ==
    ASSUME ReplayInv, Tick
    PROVE  ReplayInv'
<1>1. clock \in Nat /\ clock' = clock + 1 /\ UNCHANGED <<nonces, receiver, accepted>>
  BY DEF Tick, ReplayInv, ReplayTypeOK
<1>2. ReplayTypeOK'
  BY <1>1 DEF ReplayInv, ReplayTypeOK
<1>3. HandlersInTime'
  <2> SUFFICES ASSUME NEW t \in Receivers, receiver[t] # Free
               PROVE  /\ receiver[t].since <= clock' /\ clock' <= receiver[t].since + MaxStall
                      /\ receiver[t].at = "insert" => receiver[t].seen <= clock'
    BY <1>1 DEF ReplayInv, HandlersInTime
  <2>1. receiver[t].since \in Nat /\ clock - receiver[t].since < MaxStall /\ MaxStall \in Nat
    BY ReceiverFields, ReplayWindowAssumption DEF Tick, ReplayInv
  <2>2. receiver[t].since <= clock
    BY DEF ReplayInv, HandlersInTime
  <2>3. receiver[t].at = "insert" => receiver[t].seen \in Nat /\ receiver[t].seen <= clock
    BY ReceiverFields DEF ReplayInv, HandlersInTime
  <2> QED BY <1>1, <2>1, <2>2, <2>3
<1>4. KnownOrLate'
  <2>1. Margin = 1 /\ \A e \in Envelope : Closes(e) \in Int
    BY WindowInts DEF Margin
  <2> QED BY <1>1, <2>1 DEF ReplayInv, KnownOrLate, Known
<1> QED BY <1>1, <1>2, <1>3, <1>4 DEF ReplayInv, RowsInTime

LEMMA ReplayStep == ReplayInv /\ [ReplayNext]_replayVars => ReplayInv'
<1> SUFFICES ASSUME ReplayInv, [ReplayNext]_replayVars PROVE ReplayInv'
  OBVIOUS
<1>1. ASSUME UNCHANGED replayVars PROVE ReplayInv'
  BY <1>1 DEF replayVars, ReplayInv, ReplayTypeOK, HandlersInTime, RowsInTime, KnownOrLate, Known
<1> QED BY <1>1, VerifyKeeps, PruneKeeps, InsertKeeps, RefuseKeeps, TickKeeps DEF ReplayNext

LEMMA ReplayStarts == ReplayInit => ReplayInv
BY DEF ReplayInit, ReplayInv, ReplayTypeOK, HandlersInTime, RowsInTime, KnownOrLate

\* A request is new to each handler that marks it within the margin of its look at the
\* timestamp.
LEMMA MarkedOnce ==
    ASSUME ReplayInv, [ReplayNext]_replayVars, NEW t \in Receivers,
           receiver[t].at = "insert", receiver'[t] = Free,
           accepted'[receiver[t].env] # accepted[receiver[t].env],
           clock - receiver[t].since <= Margin
    PROVE  accepted[receiver[t].env] = 0
<1>1. /\ ReplayTypeOK /\ receiver[t] # Free /\ receiver[t].env \in Envelope
      /\ accepted[receiver[t].env] \in Nat
  BY ReceiverFields DEF ReplayInv, ReplayTypeOK
<1>2. PICK u \in Receivers : Insert(u)
  BY <1>1 DEF ReplayNext, Verify, Prune, Refuse, Tick, replayVars
<1>3. receiver' = [receiver EXCEPT ![u] = Free]
  BY <1>2 DEF Insert
<1>4. receiver'[t] = IF t = u THEN Free ELSE receiver[t]
  BY <1>1, <1>3 DEF ReplayTypeOK
<1>5. u = t
  BY <1>1, <1>4
<1>6. ~Known(receiver[t].env)
  BY <1>2, <1>5 DEF Insert
<1> QED BY <1>1, <1>6, PendingKnows

\* Whatever the requests, the clock, the handlers and the time each of them takes, a request
\* that was let through is let through again only by a handler that took longer than the margin
\* from the check of the timestamp to the mark (mark_peer_nonce, storage.py).
THEOREM Replay == ReplaySpec => NoReplay
<1>1. ReplayInv /\ [ReplayNext]_replayVars => ReplayInv'
  BY ReplayStep
<1>2. ReplayInv /\ [ReplayNext]_replayVars =>
          [\A t \in Receivers :
              LET e == receiver[t].env
              IN  /\ receiver[t].at = "insert" /\ accepted'[e] # accepted[e] /\ receiver'[t] = Free
                  /\ clock - receiver[t].since <= Margin
                  => accepted[e] = 0]_replayVars
  BY MarkedOnce
<1> QED BY <1>1, <1>2, ReplayStarts, PTL DEF ReplaySpec, NoReplay
-----------------------------------------------------------------------------
(* The capacity. *)

RowsFinite == ReplayTypeOK /\ IsFiniteSet(nonces) /\ WindowBounded

LEMMA ReplayTyped ==
    ASSUME ReplayTypeOK, [ReplayNext]_replayVars
    PROVE  ReplayTypeOK'
<1> USE DEF ReplayTypeOK
<1>1. ASSUME NEW t \in Receivers, NEW e \in Envelope, Verify(t, e) PROVE ReplayTypeOK'
  BY <1>1 DEF Verify
<1>2. ASSUME NEW t \in Receivers, Prune(t) PROVE ReplayTypeOK'
  BY <1>2, ReceiverFields DEF Prune
<1>3. ASSUME NEW t \in Receivers, Insert(t) PROVE ReplayTypeOK'
  BY <1>3, ReceiverFields DEF Insert
<1>4. ASSUME NEW t \in Receivers, Refuse(t) PROVE ReplayTypeOK'
  BY <1>4 DEF Refuse
<1>5. ASSUME Tick PROVE ReplayTypeOK'
  BY <1>5 DEF Tick
<1>6. ASSUME UNCHANGED replayVars PROVE ReplayTypeOK'
  BY <1>6 DEF replayVars
<1> QED BY <1>1, <1>2, <1>3, <1>4, <1>5, <1>6 DEF ReplayNext

LEMMA SubsetOfRows ==
    ASSUME RowsFinite, nonces' \subseteq nonces
    PROVE  IsFiniteSet(nonces') /\ WindowBounded'
<1>1. IsFiniteSet(nonces')
  BY FS_Subset DEF RowsFinite
<1>2. ASSUME NEW e \in Envelope PROVE Cardinality(RowsOf(SignerOf[e])') <= NonceCapacity
  <2>1. /\ RowsOf(SignerOf[e]) \in SUBSET nonces
        /\ RowsOf(SignerOf[e])' \in SUBSET RowsOf(SignerOf[e])
    BY DEF RowsOf
  <2>2. IsFiniteSet(RowsOf(SignerOf[e]))
    BY <2>1, FS_Subset DEF RowsFinite
  <2>3. IsFiniteSet(RowsOf(SignerOf[e])')
    BY <2>1, <2>2, FS_Subset
  <2>4. Cardinality(RowsOf(SignerOf[e])') <= Cardinality(RowsOf(SignerOf[e]))
    BY <2>1, <2>2, FS_Subset
  <2>5. /\ Cardinality(RowsOf(SignerOf[e])) \in Nat /\ Cardinality(RowsOf(SignerOf[e])') \in Nat
        /\ NonceCapacity \in Nat
    BY <2>2, <2>3, FS_CardinalityType, ReplayWindowAssumption
  <2> QED BY <2>4, <2>5 DEF RowsFinite, WindowBounded
<1> QED BY <1>1, <1>2 DEF WindowBounded

LEMMA InsertBounded ==
    ASSUME RowsFinite, NEW t \in Receivers, Insert(t)
    PROVE  IsFiniteSet(nonces') /\ WindowBounded'
<1> DEFINE e == receiver[t].env
           row == [env |-> e, seen |-> receiver[t].seen]
           s == SignerOf[e]
<1>1. nonces' = nonces \cup {row} /\ row.env = e /\ Room(s)
  BY DEF Insert
<1> HIDE DEF row
<1>2. IsFiniteSet(nonces')
  BY <1>1, FS_AddElement DEF RowsFinite
<1>3. ASSUME NEW f \in Envelope PROVE Cardinality(RowsOf(SignerOf[f])') <= NonceCapacity
  <2>1. RowsOf(SignerOf[f]) \in SUBSET nonces
    BY DEF RowsOf
  <2>2. IsFiniteSet(RowsOf(SignerOf[f])) /\ Cardinality(RowsOf(SignerOf[f])) \in Nat
    BY <2>1, FS_Subset, FS_CardinalityType DEF RowsFinite
  <2>3. CASE SignerOf[f] = s
    <3>1. RowsOf(SignerOf[f])' = RowsOf(SignerOf[f]) \cup {row}
      BY <1>1, <2>3 DEF RowsOf
    <3>2. Cardinality(RowsOf(SignerOf[f])) < NonceCapacity
      BY <1>1, <2>3 DEF Room
    <3>3. Cardinality(RowsOf(SignerOf[f])') \in
              {Cardinality(RowsOf(SignerOf[f])), Cardinality(RowsOf(SignerOf[f])) + 1}
      BY <2>2, <3>1, FS_AddElement
    <3>4. NonceCapacity \in Nat
      BY ReplayWindowAssumption
    <3> QED BY <2>2, <3>2, <3>3, <3>4
  <2>4. CASE SignerOf[f] # s
    <3>1. RowsOf(SignerOf[f])' = RowsOf(SignerOf[f])
      BY <1>1, <2>4 DEF RowsOf
    <3> QED BY <3>1 DEF RowsFinite, WindowBounded
  <2> QED BY <2>3, <2>4
<1> QED BY <1>2, <1>3 DEF WindowBounded

LEMMA CapacityStarts == ReplayInit => RowsFinite
<1> SUFFICES ASSUME ReplayInit PROVE IsFiniteSet(nonces) /\ WindowBounded
  BY ReplayStarts DEF RowsFinite, ReplayInv
<1>1. nonces = {} /\ \A e \in Envelope : RowsOf(SignerOf[e]) = {}
  BY DEF ReplayInit, RowsOf
<1> QED BY <1>1, FS_EmptySet, ReplayWindowAssumption DEF WindowBounded

LEMMA CapacityStep == RowsFinite /\ [ReplayNext]_replayVars => RowsFinite'
<1> SUFFICES ASSUME RowsFinite, [ReplayNext]_replayVars PROVE RowsFinite'
  OBVIOUS
<1>1. ReplayTypeOK'
  BY ReplayTyped DEF RowsFinite
<1>2. CASE \E t \in Receivers : Insert(t)
  BY <1>1, <1>2, InsertBounded DEF RowsFinite
<1>3. CASE ~\E t \in Receivers : Insert(t)
  <2>1. nonces' \subseteq nonces
    BY <1>3 DEF ReplayNext, replayVars, Verify, Prune, Refuse, Tick
  <2> QED BY <1>1, <2>1, SubsetOfRows DEF RowsFinite
<1> QED BY <1>2, <1>3

\* The window of an identity never passes its capacity, however many handlers insert and
\* however long they stall: the count and the insert are one transaction.
THEOREM Capacity == ReplaySpec => []WindowBounded
<1>1. RowsFinite => WindowBounded
  BY DEF RowsFinite
<1> QED BY <1>1, CapacityStarts, CapacityStep, PTL DEF ReplaySpec
-----------------------------------------------------------------------------
(* What a refusal says. *)

\* A handler about to insert has no row before it that was due when it pruned: a row
\* another handler put in since is younger.
FreshRows ==
    \A t \in Receivers : receiver[t].at = "insert" =>
        \A r \in nonces : r.seen >= receiver[t].seen - Retention

\* The inductive invariant.
RefusalInv == RowsFinite /\ HandlersInTime /\ FreshRows

LEMMA RefusalStep ==
    ASSUME MaxStall <= Retention, RefusalInv, [ReplayNext]_replayVars
    PROVE  RefusalInv'
<1>0. /\ RowsFinite /\ ReplayTypeOK /\ HandlersInTime /\ FreshRows
      /\ receiver = [u \in Receivers |-> receiver[u]] /\ clock \in Nat
      /\ \A r \in nonces : r.seen \in Nat
      /\ MaxStall \in Nat /\ Retention \in Nat
  BY ReplayWindowAssumption DEF RefusalInv, RowsFinite, ReplayTypeOK, Retention
<1>1. RowsFinite'
  BY <1>0, CapacityStep
<1>2. ASSUME NEW t \in Receivers, NEW e \in Envelope, Verify(t, e)
      PROVE  HandlersInTime' /\ FreshRows'
  <2>1. receiver' = [u \in Receivers |-> IF u = t
                        THEN [at |-> "prune", env |-> e, since |-> clock] ELSE receiver[u]]
        /\ UNCHANGED <<clock, nonces>>
    BY <1>0, <1>2 DEF Verify
  <2>2. Opens(e) <= clock /\ clock <= Closes(e) /\ clock <= clock + MaxStall
    BY <1>0, <1>2, Window DEF Verify
  <2> QED BY <1>0, <2>1, <2>2 DEF HandlersInTime, FreshRows
<1>3. ASSUME NEW t \in Receivers, Prune(t)
      PROVE  HandlersInTime' /\ FreshRows'
  <2>0. PICK now \in receiver[t].since..clock :
            /\ nonces' = {r \in nonces : ~Expired(r, now)}
            /\ receiver' = [receiver EXCEPT ![t] = [at |-> "insert", env |-> receiver[t].env,
                                                    since |-> receiver[t].since, seen |-> now]]
    BY <1>3 DEF Prune
  <2>1. receiver' = [u \in Receivers |-> IF u = t
                        THEN [at |-> "insert", env |-> receiver[t].env,
                              since |-> receiver[t].since, seen |-> now] ELSE receiver[u]]
        /\ clock' = clock /\ receiver[t] # Free /\ receiver[t].since \in Nat
        /\ now \in Nat /\ receiver[t].since <= now /\ now <= clock
    BY <1>0, <1>3, <2>0, ReceiverFields DEF Prune
  <2>2. HandlersInTime'
    BY <1>0, <2>1 DEF HandlersInTime
  <2>3. \A r \in nonces' : r \in nonces /\ r.seen >= now - Retention
    BY <1>0, <2>0, <2>1 DEF Expired
  <2> QED BY <1>0, <2>1, <2>2, <2>3 DEF FreshRows
<1>4. ASSUME NEW t \in Receivers, Insert(t)
      PROVE  HandlersInTime' /\ FreshRows'
  <2> DEFINE row == [env |-> receiver[t].env, seen |-> receiver[t].seen]
  <2>1. receiver' = [u \in Receivers |-> IF u = t THEN Free ELSE receiver[u]]
        /\ clock' = clock /\ nonces' = nonces \cup {row} /\ row.seen = receiver[t].seen
        /\ receiver[t].at = "insert"
    BY <1>0, <1>4 DEF Insert
  <2> HIDE DEF row
  <2>2. receiver[t].seen \in Nat /\ receiver[t].since \in Nat
        /\ clock <= receiver[t].since + MaxStall /\ receiver[t].since <= receiver[t].seen
    BY <1>0, <2>1, ReceiverFields DEF HandlersInTime
  <2>3. row.seen >= clock - Retention
    BY <1>0, <2>1, <2>2
  <2>4. ASSUME NEW u \in Receivers, receiver'[u].at = "insert"
        PROVE  \A r \in nonces' : r.seen >= receiver'[u].seen - Retention
    <3>1. receiver'[u] = receiver[u]
      BY <2>1, <2>4 DEF Free
    <3>2. receiver[u].seen \in Nat /\ receiver[u].seen <= clock
      BY <1>0, <2>4, <3>1, ReceiverFields DEF HandlersInTime
    <3>3. row.seen >= receiver[u].seen - Retention
      BY <1>0, <2>1, <2>2, <2>3, <3>2
    <3>4. \A r \in nonces : r.seen >= receiver[u].seen - Retention
      BY <1>0, <2>4, <3>1 DEF FreshRows
    <3> QED BY <2>1, <3>1, <3>3, <3>4
  <2>5. HandlersInTime'
    BY <1>0, <2>1 DEF HandlersInTime
  <2> QED BY <2>4, <2>5 DEF FreshRows
<1>5. ASSUME NEW t \in Receivers, Refuse(t)
      PROVE  HandlersInTime' /\ FreshRows'
  <2>1. receiver' = [u \in Receivers |-> IF u = t THEN Free ELSE receiver[u]]
        /\ UNCHANGED <<clock, nonces>>
    BY <1>0, <1>5 DEF Refuse
  <2> QED BY <1>0, <2>1 DEF HandlersInTime, FreshRows, Free
<1>6. ASSUME Tick
      PROVE  HandlersInTime' /\ FreshRows'
  <2>1. clock' = clock + 1 /\ UNCHANGED <<nonces, receiver>>
    BY <1>6 DEF Tick
  <2>2. ASSUME NEW t \in Receivers, receiver[t] # Free
        PROVE  /\ receiver[t].since <= clock' /\ clock' <= receiver[t].since + MaxStall
               /\ receiver[t].at = "insert" => receiver[t].seen <= clock'
    <3>1. receiver[t].since \in Nat /\ clock - receiver[t].since < MaxStall
      BY <1>0, <1>6, <2>2, ReceiverFields DEF Tick
    <3>2. receiver[t].since <= clock
      BY <1>0, <2>2 DEF HandlersInTime
    <3>3. receiver[t].at = "insert" => receiver[t].seen \in Nat /\ receiver[t].seen <= clock
      BY <1>0, <2>2, ReceiverFields DEF HandlersInTime
    <3> QED BY <1>0, <2>1, <3>1, <3>2, <3>3
  <2> QED BY <1>0, <2>1, <2>2 DEF HandlersInTime, FreshRows
<1>7. ASSUME UNCHANGED replayVars
      PROVE  HandlersInTime' /\ FreshRows'
  BY <1>0, <1>7 DEF replayVars, HandlersInTime, FreshRows
<1>8. HandlersInTime' /\ FreshRows'
  BY <1>2, <1>3, <1>4, <1>5, <1>6, <1>7 DEF ReplayNext
<1> QED BY <1>1, <1>8 DEF RefusalInv

\* When a handler gives a fresh request up, every row of the identity is one it may not
\* prune, and they fill its window.
LEMMA RefusalIsRight ==
    ASSUME RefusalInv, [ReplayNext]_replayVars, NEW t \in Receivers,
           receiver[t] # Free, receiver'[t] = Free,
           ~Known(receiver[t].env), accepted' = accepted
    PROVE  Cardinality({r \in RowsOf(SignerOf[receiver[t].env]) :
                           r.seen >= receiver[t].seen - Retention}) >= NonceCapacity
<1> DEFINE s == SignerOf[receiver[t].env]
<1>0. RowsFinite /\ ReplayTypeOK /\ receiver \in [Receivers -> {receiver[u] : u \in Receivers}]
  BY DEF RefusalInv, RowsFinite, ReplayTypeOK
<1>1. Refuse(t)
  <2>1. ASSUME NEW u \in Receivers, NEW e \in Envelope, Verify(u, e) PROVE FALSE
    BY <1>0, <2>1 DEF Verify, Free
  <2>2. ASSUME NEW u \in Receivers, Prune(u) PROVE FALSE
    BY <1>0, <2>2 DEF Prune, Free
  <2>3. ASSUME NEW u \in Receivers, Insert(u) PROVE FALSE
    <3>1. receiver[u].env \in Envelope
      BY <1>0, <2>3, ReceiverFields DEF Insert
    <3>2. accepted[receiver[u].env] \in Nat
          /\ accepted'[receiver[u].env] = accepted[receiver[u].env] + 1
      BY <1>0, <2>3, <3>1 DEF Insert, ReplayTypeOK
    <3> QED BY <3>2
  <2>4. ASSUME NEW u \in Receivers, Refuse(u), u # t PROVE FALSE
    BY <1>0, <2>4 DEF Refuse
  <2>5. ~Tick /\ ~UNCHANGED replayVars
    BY DEF Tick, replayVars
  <2> QED BY <2>1, <2>2, <2>3, <2>4, <2>5 DEF ReplayNext
<1>2. ~Room(s) /\ receiver[t].at = "insert"
  BY <1>1 DEF Refuse
<1>3. {r \in RowsOf(s) : r.seen >= receiver[t].seen - Retention} = RowsOf(s)
  BY <1>2 DEF RefusalInv, FreshRows, RowsOf
<1>4. RowsOf(s) \in SUBSET nonces
  BY DEF RowsOf
<1>5. Cardinality(RowsOf(s)) \in Nat /\ NonceCapacity \in Nat
  BY <1>0, <1>4, FS_Subset, FS_CardinalityType, ReplayWindowAssumption DEF RowsFinite
<1>6. Cardinality(RowsOf(s)) >= NonceCapacity
  BY <1>2, <1>5 DEF Room
<1> QED BY <1>3, <1>6

\* A fresh request is refused only when its identity filled the window within the retention
\* period, for any number of handlers, as long as none stalls between check and insert for
\* longer than that period: the prune and the count are two transactions
\* (mark_peer_nonce, storage.py), and a row put in between them must not be one due.
THEOREM RefusalsAreRight == ASSUME MaxStall <= Retention PROVE ReplaySpec => RefusedOnlyWhenFull
<1>1. ReplayInit => RefusalInv
  BY CapacityStarts DEF ReplayInit, RefusalInv, HandlersInTime, FreshRows, Free
<1>2. RefusalInv /\ [ReplayNext]_replayVars => RefusalInv'
  BY RefusalStep
<1>3. RefusalInv /\ [ReplayNext]_replayVars
      => [\A t \in Receivers :
          /\ receiver[t] # Free /\ receiver'[t] = Free
          /\ ~Known(receiver[t].env) /\ accepted' = accepted
          => Cardinality({r \in RowsOf(SignerOf[receiver[t].env]) :
                             r.seen >= receiver[t].seen - Retention}) >= NonceCapacity]_replayVars
  BY RefusalIsRight
<1> QED BY <1>1, <1>2, <1>3, PTL DEF ReplaySpec, RefusedOnlyWhenFull
-----------------------------------------------------------------------------
(* The slots. *)

QueueOK ==
    /\ queue \in Seq(Connection)
    /\ \A i \in 1..Len(queue) : phase[queue[i]] = "queued"
    /\ \A i, j \in 1..Len(queue) : i # j => queue[i] # queue[j]

\* The inductive invariant.
SlotsInv ==
    /\ phase \in [Connection -> Phases]
    /\ slots \in Nat
    /\ QueueOK
    /\ SlotsConserved

LEMMA HoldersFinite == IsFiniteSet(Holders) /\ Cardinality(Holders) \in Nat
<1>1. Holders \in SUBSET Connection
  BY DEF Holders
<1> QED BY <1>1, FS_Subset, FS_CardinalityType, HttpAssumption

\* Where a connection moves decides who holds a slot.
LEMMA HoldersMove ==
    ASSUME phase \in [Connection -> Phases], NEW c \in Connection, NEW p \in Phases, Move(c, p)
    PROVE  /\ phase' \in [Connection -> Phases]
           /\ \A d \in Connection : phase'[d] = IF d = c THEN p ELSE phase[d]
           /\ Holders' = IF p \in Holding THEN Holders \cup {c} ELSE Holders \ {c}
BY DEF Move, Holders

\* The queue is as it was, and none of those in it moves.
LEMMA QueueStays ==
    ASSUME SlotsInv, NEW c \in Connection, NEW p \in Phases, Move(c, p), phase[c] # "queued",
           queue' = queue
    PROVE  QueueOK'
<1>1. \A i \in 1..Len(queue) : queue[i] \in Connection
  BY DEF SlotsInv, QueueOK
<1> QED BY <1>1, HoldersMove DEF SlotsInv, QueueOK

\* A connection moves and keeps its slot, or stays without one.
LEMMA MoveKeepsSlots ==
    ASSUME SlotsInv, NEW c \in Connection, NEW p \in Phases, Move(c, p),
           p \in Holding <=> phase[c] \in Holding, QueueOK', slots' = slots
    PROVE  SlotsInv'
<1>1. Holders' = Holders
  BY HoldersMove DEF SlotsInv, Holders
<1> QED BY <1>1, HoldersMove DEF SlotsInv, SlotsConserved

\* A connection gives its slot back.
LEMMA GiveBackKeepsSlots ==
    ASSUME SlotsInv, NEW c \in Connection, Move(c, "away"), phase[c] \in Holding,
           queue' = queue, slots' = slots + 1
    PROVE  SlotsInv'
<1>1. "away" \in Phases /\ "away" \notin Holding /\ phase[c] # "queued"
  BY DEF Phases, Holding
<1>2. QueueOK'
  BY <1>1, QueueStays
<1>3. Holders' = Holders \ {c} /\ c \in Holders
  BY <1>1, HoldersMove DEF SlotsInv, Holders
<1>4. Cardinality(Holders') = Cardinality(Holders) - 1
  BY <1>3, HoldersFinite, FS_RemoveElement
<1> QED BY <1>1, <1>2, <1>4, HoldersMove, HoldersFinite DEF SlotsInv, SlotsConserved

\* What the acceptor takes off the queue.
LEMMA AcceptKeepsQueue ==
    ASSUME SlotsInv, NEW c \in Connection, Accepting(c), NEW p \in Phases, Move(c, p)
    PROVE  QueueOK' /\ phase[c] = "queued"
<1>1. /\ queue # <<>> /\ queue \in Seq(Connection) /\ Len(queue) > 0
      /\ c = queue[1] /\ queue' = Tail(queue)
  BY DEF Accepting, SlotsInv, QueueOK
<1>2. /\ queue' \in Seq(Connection) /\ Len(queue') = Len(queue) - 1
      /\ \A i \in 1..Len(queue') : queue'[i] = queue[i + 1] /\ i + 1 \in 1..Len(queue)
  BY <1>1
<1>3. phase[c] = "queued" /\ \A i \in 1..Len(queue') : queue'[i] # c /\ queue'[i] \in Connection
  BY <1>1, <1>2 DEF SlotsInv, QueueOK
<1>4. \A i \in 1..Len(queue') : phase'[queue'[i]] = "queued"
  BY <1>2, <1>3, HoldersMove DEF SlotsInv, QueueOK
<1>5. \A i, j \in 1..Len(queue') : i # j => queue'[i] # queue'[j]
  BY <1>2 DEF SlotsInv, QueueOK
<1> QED BY <1>2, <1>3, <1>4, <1>5 DEF QueueOK

LEMMA ConnectKeeps ==
    ASSUME SlotsInv, NEW c \in Connection, Connect(c)
    PROVE  SlotsInv'
<1>1. /\ phase[c] = "away" /\ queue' = Append(queue, c) /\ Move(c, "queued") /\ slots' = slots
      /\ "queued" \in Phases /\ "queued" \notin Holding /\ "away" \notin Holding
  BY DEF Connect, Phases, Holding
<1>2. /\ queue' \in Seq(Connection) /\ Len(queue') = Len(queue) + 1
      /\ \A i \in 1..Len(queue) : queue'[i] = queue[i] /\ queue[i] \in Connection
      /\ queue'[Len(queue) + 1] = c
  BY <1>1 DEF SlotsInv, QueueOK
<1>3. \A i \in 1..Len(queue) : queue[i] # c
  BY <1>1 DEF SlotsInv, QueueOK
<1>4. \A i \in 1..Len(queue') : phase'[queue'[i]] = "queued"
  BY <1>1, <1>2, <1>3, HoldersMove DEF SlotsInv, QueueOK
<1>5. \A i, j \in 1..Len(queue') : i # j => queue'[i] # queue'[j]
  BY <1>2, <1>3 DEF SlotsInv, QueueOK
<1>6. QueueOK'
  BY <1>2, <1>4, <1>5 DEF QueueOK
<1> QED BY <1>1, <1>6, MoveKeepsSlots

LEMMA TakeSlotKeeps ==
    ASSUME SlotsInv, NEW c \in Connection, TakeSlot(c)
    PROVE  SlotsInv'
<1>1. /\ Accepting(c) /\ slots > 0 /\ slots' = slots - 1 /\ Move(c, "starting")
      /\ "starting" \in Phases /\ "starting" \in Holding /\ "queued" \notin Holding
  BY DEF TakeSlot, Phases, Holding
<1>2. QueueOK' /\ phase[c] = "queued"
  BY <1>1, AcceptKeepsQueue
<1>3. Holders' = Holders \cup {c} /\ c \notin Holders
  BY <1>1, <1>2, HoldersMove DEF SlotsInv, Holders
<1>4. Cardinality(Holders') = Cardinality(Holders) + 1
  BY <1>3, HoldersFinite, FS_AddElement
<1> QED BY <1>1, <1>2, <1>4, HoldersMove, HoldersFinite DEF SlotsInv, SlotsConserved

LEMMA TurnAwayKeeps ==
    ASSUME SlotsInv, NEW c \in Connection, TurnAway(c)
    PROVE  SlotsInv'
<1>1. /\ Accepting(c) /\ slots' = slots /\ Move(c, "away")
      /\ "away" \in Phases /\ "away" \notin Holding /\ "queued" \notin Holding
  BY DEF TurnAway, Phases, Holding
<1>2. QueueOK' /\ phase[c] = "queued"
  BY <1>1, AcceptKeepsQueue
<1> QED BY <1>1, <1>2, MoveKeepsSlots

\* The steps of a connection that holds a slot and keeps it.
LEMMA ServeKeeps ==
    ASSUME SlotsInv, NEW c \in Connection,
           StartThread(c) \/ ReadFails(c) \/ HeaderRead(c) \/ BodyRead(c) \/ Route(c)
    PROVE  SlotsInv'
<1>1. phase[c] \in Holding /\ phase[c] # "queued" /\ UNCHANGED <<queue, slots>>
  BY DEF StartThread, ReadFails, HeaderRead, BodyRead, Route, Reading, Holding
<1>2. PICK p \in Holding : Move(c, p)
  BY DEF StartThread, ReadFails, HeaderRead, BodyRead, Route, Holding
<1>3. p \in Phases
  BY DEF Phases
<1>4. QueueOK'
  BY <1>1, <1>2, <1>3, QueueStays
<1> QED BY <1>1, <1>2, <1>3, <1>4, MoveKeepsSlots

LEMMA SlotsInit == HttpInit => SlotsInv
<1> SUFFICES ASSUME HttpInit PROVE SlotsInv
  OBVIOUS
<1>1. phase \in [Connection -> Phases] /\ slots \in Nat /\ slots = MaxSlots
  BY HttpAssumption DEF HttpInit, Phases
<1>2. QueueOK
  BY DEF HttpInit, QueueOK
<1>3. Holders = {}
  BY DEF HttpInit, Holders, Holding
<1> QED BY <1>1, <1>2, <1>3, FS_EmptySet DEF SlotsInv, SlotsConserved

LEMMA SlotsStep == SlotsInv /\ [HttpNext]_httpVars => SlotsInv'
<1> SUFFICES ASSUME SlotsInv, [HttpNext]_httpVars PROVE SlotsInv'
  OBVIOUS
<1>1. ASSUME NEW c \in Connection, Connect(c) \/ Acceptor(c) \/ Chunk(c) \/ Handler(c)
      PROVE  SlotsInv'
  <2>1. ASSUME StartFails(c) PROVE SlotsInv'
    BY <2>1, GiveBackKeepsSlots DEF StartFails, Holding
  <2>2. ASSUME Close(c) PROVE SlotsInv'
    BY <2>2, GiveBackKeepsSlots DEF Close, Holding
  <2>3. ASSUME Chunk(c) PROVE SlotsInv'
    BY <2>3 DEF Chunk, SlotsInv, QueueOK, SlotsConserved, Holders
  <2> QED BY <1>1, <2>1, <2>2, <2>3, ConnectKeeps, TakeSlotKeeps, TurnAwayKeeps, ServeKeeps
          DEF Acceptor, Handler
<1>2. ASSUME UNCHANGED httpVars PROVE SlotsInv'
  BY <1>2 DEF httpVars, SlotsInv, QueueOK, SlotsConserved, Holders
<1> QED BY <1>1, <1>2 DEF HttpNext

\* However clients connect, stall and leave, and whether or not threads start, the slots
\* that are free and those that are held are all there are (process_request, api.py).
THEOREM Slots == HttpSpec => []SlotsConserved
<1>1. SlotsInv => SlotsConserved
  BY DEF SlotsInv
<1> QED BY <1>1, SlotsInit, SlotsStep, PTL DEF HttpSpec

(* The import of snapshots. *)

Bundles == {a.bundle : a \in Normalized}
SnapshotRows == [bundle : Bundles, signer : Signer \cup {"none"}, status : Review, reviewed : BOOLEAN]
SourceRows ==
    [bundle : Bundles \cup {NoBundle}, network : Network, amount : Nat, status : Review,
     reviewed : BOOLEAN]

\* What was approved is what is imported: the bundle of an approval has the amounts of its
\* records, and the snapshot imported under it keeps that bundle.
ApprovalsRight ==
    \A p \in approvals : /\ p.decision \in {"approved", "rejected"}
                         /\ p.bundle.entries = EntriesOf(p.manifest.records)

DesksRight ==
    \A t \in Desks : desk[t].at = "import" =>
        LET b == desk[t].bundle
            p == desk[t].approval
        IN  /\ b \in Bundles
            /\ p \in approvals /\ p.decision = "approved" /\ p.bundle = b
            /\ desk[t].noop => /\ snapshots[b.ref] # Absent
                               /\ \A en \in b.entries : sources[en.addr] # Absent

UnderRight ==
    \A r \in Ref : under[r] # NoApproval =>
        /\ under[r] \in approvals /\ under[r].decision = "approved"
        /\ snapshots[r] # Absent /\ snapshots[r].bundle = under[r].bundle

TablesRight ==
    /\ snapshots \in [Ref -> SnapshotRows \cup {Absent}]
    /\ sources \in [Address -> SourceRows \cup {Absent}]
    /\ desk \in [Desks -> {AtRest} \cup [at : {"import"}, bundle : Bundles, noop : BOOLEAN,
                                         approval : approvals]]
    /\ under \in [Ref -> approvals \cup {NoApproval}]

IngestionInv == TablesRight /\ ApprovalsRight /\ DesksRight /\ UnderRight

\* What normalization makes of an export.
LEMMA BundleIs ==
    ASSUME NEW b \in Bundles
    PROVE  /\ b.ref \in Ref /\ b.network \in Network /\ b # NoBundle
           /\ \A en \in b.entries : en.addr \in Address /\ en.amount \in Nat
<1>1. PICK e \in Export : Normalizable(e) /\ b = BundleOf(e)
  BY DEF Bundles, Normalized, Normalize
<1>2. \A r \in RecordsOf[e] : r.addr \in Address /\ r.amount \in Int /\ r.amount > 0
  BY <1>1, SourceIngestionAssumption DEF Normalizable
<1>3. b.ref = RefOf[e] /\ b.network = NetworkOf[e] /\ b.entries = EntriesOf(RecordsOf[e])
  BY <1>1 DEF BundleOf
<1>4. \A en \in b.entries : en.addr \in Address /\ en.amount \in Nat
  BY <1>2, <1>3 DEF EntriesOf
<1>5. b # NoBundle
  BY <1>1 DEF BundleOf, NoBundle
<1> QED BY <1>3, <1>4, <1>5, SourceIngestionAssumption

\* A valid artifact's bundle has the amounts of its records.
LEMMA ValidIsWhole ==
    ASSUME NEW a \in Artifact, Valid(a)
    PROVE  /\ a.bundle \in Bundles /\ a.manifest.records = a.records
           /\ a.bundle.entries = EntriesOf(a.records)
<1>1. PICK e \in Export : a.manifest = [bundle |-> BundleOf(e), records |-> RecordsOf[e],
                                        provenance |-> e]
  BY DEF Artifact, Normalized, Normalize
<1>2. a.bundle = BundleOf(e) /\ a.records = RecordsOf[e] /\ a.manifest.records = a.records
  BY <1>1 DEF Valid
<1>3. a.bundle \in Bundles
  BY DEF Artifact, Bundles
<1> QED BY <1>2, <1>3 DEF BundleOf

LEMMA RowTypes ==
    ASSUME NEW b \in Bundles, NEW signer \in Signer \cup {"none"}
    PROVE  /\ SnapshotRow(b, signer) \in SnapshotRows /\ SnapshotRow(b, signer) # Absent
           /\ SnapshotRow(b, signer).bundle = b
           /\ \A en \in b.entries : SourceRow(b, en) \in SourceRows /\ SourceRow(b, en) # Absent
<1>1. SnapshotRow(b, signer) \in SnapshotRows /\ SnapshotRow(b, signer).bundle = b
  BY DEF SnapshotRow, SnapshotRows, Review
<1>2. SnapshotRow(b, signer) # Absent
  BY DEF SnapshotRow, Absent
<1>3. \A en \in b.entries : SourceRow(b, en) \in SourceRows
  BY BundleIs DEF SourceRow, SourceRows, Review
<1>4. \A en \in b.entries : SourceRow(b, en) # Absent
  BY DEF SourceRow, Absent
<1> QED BY <1>1, <1>2, <1>3, <1>4

LEMMA EntryIs ==
    ASSUME NEW b \in Bundles, NEW addr \in AddrsOf(b)
    PROVE  EntryAt(b, addr) \in b.entries /\ EntryAt(b, addr).addr = addr
<1>1. \E en \in b.entries : en.addr = addr
  BY DEF AddrsOf
<1> QED BY <1>1 DEF EntryAt

\* An import keeps the types, adds rows, and leaves every snapshot that is there the bundle
\* it has; an import that fits where all rows are there changes none.
LEMMA StoreKeeps ==
    ASSUME TablesRight, NEW b \in Bundles, NEW signer \in Signer \cup {"none"}, Store(b, signer)
    PROVE  /\ snapshots' \in [Ref -> SnapshotRows \cup {Absent}]
           /\ sources' \in [Address -> SourceRows \cup {Absent}]
           /\ \A r \in Ref : snapshots[r] # Absent =>
                 snapshots'[r] # Absent /\ snapshots'[r].bundle = snapshots[r].bundle
           /\ \A a \in Address : sources[a] # Absent => sources'[a] # Absent
           /\ Fits(snapshots, sources, b, signer) =>
                 snapshots'[b.ref] # Absent /\ snapshots'[b.ref].bundle = b
           /\ snapshots[b.ref] # Absent /\ (\A en \in b.entries : sources[en.addr] # Absent)
                 => UNCHANGED <<snapshots, sources>>
<1>0. b.ref \in Ref /\ \A en \in b.entries : en.addr \in Address
  BY BundleIs
<1>1. CASE ~Fits(snapshots, sources, b, signer)
  BY <1>1 DEF Store, TablesRight
<1>2. CASE Fits(snapshots, sources, b, signer)
  <2> DEFINE row == SnapshotRow(b, signer)
  <2>1. snapshots' = [snapshots EXCEPT ![b.ref] = row] /\ sources' = WithSources(sources, b)
    BY <1>2 DEF Store
  <2>2. /\ snapshots[b.ref] \in {Absent, row}
        /\ \A en \in b.entries : sources[en.addr] \in {Absent, SourceRow(b, en)}
    BY <1>2 DEF Fits
  <2>3. /\ row \in SnapshotRows /\ row # Absent /\ row.bundle = b
        /\ \A en \in b.entries : SourceRow(b, en) \in SourceRows /\ SourceRow(b, en) # Absent
    BY RowTypes
  <2> HIDE DEF row
  <2>4. /\ snapshots' \in [Ref -> SnapshotRows \cup {Absent}]
        /\ \A r \in Ref : snapshots'[r] = IF r = b.ref THEN row ELSE snapshots[r]
    BY <1>0, <2>1, <2>3 DEF TablesRight
  <2>5. \A a \in Address : sources'[a] = IF a \in AddrsOf(b) THEN SourceRow(b, EntryAt(b, a)) ELSE sources[a]
    BY <2>1 DEF WithSources
  <2>6. \A a \in AddrsOf(b) : /\ SourceRow(b, EntryAt(b, a)) \in SourceRows
                              /\ SourceRow(b, EntryAt(b, a)) # Absent
                              /\ sources[a] \in {Absent, SourceRow(b, EntryAt(b, a))}
    BY <2>2, <2>3, EntryIs
  <2>7. sources' \in [Address -> SourceRows \cup {Absent}]
    <3>1. sources' = [a \in Address |-> sources'[a]]
      BY <2>1 DEF WithSources
    <3>2. \A a \in Address : sources'[a] \in SourceRows \cup {Absent}
      BY <2>5, <2>6 DEF TablesRight
    <3> QED BY <3>1, <3>2
  <2>8. ASSUME snapshots[b.ref] # Absent, \A en \in b.entries : sources[en.addr] # Absent
        PROVE  UNCHANGED <<snapshots, sources>>
    <3>1. snapshots[b.ref] = row
      BY <2>2, <2>8
    <3>2. snapshots' = snapshots
      BY <1>0, <2>1, <3>1 DEF TablesRight
    <3>3. \A a \in AddrsOf(b) : sources[a] = SourceRow(b, EntryAt(b, a))
      <4>1. \A a \in AddrsOf(b) : sources[a] # Absent
        BY <2>8 DEF AddrsOf
      <4> QED BY <2>6, <4>1
    <3>4. \A a \in Address : sources'[a] = sources[a]
      BY <2>5, <3>3
    <3>5. sources' = sources
      BY <2>7, <3>4 DEF TablesRight
    <3> QED BY <3>2, <3>5
  <2> QED BY <1>0, <2>2, <2>3, <2>4, <2>5, <2>6, <2>7, <2>8
<1> QED BY <1>1, <1>2

\* What the tables keep, whatever is written, is what the handlers rely on.
LEMMA IngestionKept ==
    ASSUME IngestionInv, UNCHANGED <<approvals, desk, under>>,
           snapshots' \in [Ref -> SnapshotRows \cup {Absent}],
           sources' \in [Address -> SourceRows \cup {Absent}],
           \A r \in Ref : snapshots[r] # Absent =>
              snapshots'[r] # Absent /\ snapshots'[r].bundle = snapshots[r].bundle,
           \A a \in Address : sources[a] # Absent => sources'[a] # Absent
    PROVE  IngestionInv'
<1>1. TablesRight' /\ ApprovalsRight'
  BY DEF IngestionInv, TablesRight, ApprovalsRight
<1>2. DesksRight'
  <2> SUFFICES ASSUME NEW t \in Desks, desk[t].at = "import"
               PROVE  LET b == desk[t].bundle
                          p == desk[t].approval
                      IN  /\ b \in Bundles
                          /\ p \in approvals /\ p.decision = "approved" /\ p.bundle = b
                          /\ desk[t].noop => /\ snapshots'[b.ref] # Absent
                                             /\ \A en \in b.entries : sources'[en.addr] # Absent
    BY DEF DesksRight
  <2> DEFINE b == desk[t].bundle
  <2>1. /\ b \in Bundles
        /\ desk[t].approval \in approvals /\ desk[t].approval.decision = "approved"
        /\ desk[t].approval.bundle = b
        /\ desk[t].noop => /\ snapshots[b.ref] # Absent
                           /\ \A en \in b.entries : sources[en.addr] # Absent
    BY DEF IngestionInv, DesksRight
  <2> HIDE DEF b
  <2>2. b.ref \in Ref /\ \A en \in b.entries : en.addr \in Address
    BY <2>1, BundleIs
  <2> QED BY <2>1, <2>2 DEF b
<1>3. UnderRight'
  BY DEF IngestionInv, UnderRight
<1> QED BY <1>1, <1>2, <1>3 DEF IngestionInv

LEMMA ApproveKeeps ==
    ASSUME IngestionInv, NEW a \in Artifact, NEW decision \in {"approved", "rejected"},
           Approve(a, decision)
    PROVE  IngestionInv'
<1> DEFINE p == [decision |-> decision, bundle |-> a.bundle, manifest |-> a.manifest]
<1>1. /\ approvals' = approvals \cup {p} /\ UNCHANGED <<snapshots, sources, desk, under>>
      /\ Valid(a)
  BY DEF Approve, ValidArtifact
<1>2. a.bundle.entries = EntriesOf(a.manifest.records)
  BY <1>1, ValidIsWhole
<1>3. ApprovalsRight'
  BY <1>1, <1>2 DEF IngestionInv, ApprovalsRight
<1> HIDE DEF p
<1>4. TablesRight'
  <2>1. approvals \subseteq approvals'
    BY <1>1
  <2>2. desk \in [Desks -> {AtRest} \cup [at : {"import"}, bundle : Bundles, noop : BOOLEAN,
                                          approval : approvals']]
    BY <2>1 DEF IngestionInv, TablesRight
  <2>3. under \in [Ref -> approvals' \cup {NoApproval}]
    BY <2>1 DEF IngestionInv, TablesRight
  <2> QED BY <1>1, <2>2, <2>3 DEF IngestionInv, TablesRight
<1>5. DesksRight' /\ UnderRight'
  BY <1>1 DEF IngestionInv, DesksRight, UnderRight
<1> QED BY <1>3, <1>4, <1>5 DEF IngestionInv

LEMMA PlanKeeps ==
    ASSUME IngestionInv, NEW t \in Desks, NEW a \in Artifact, NEW p \in approvals,
           PlanApproved(t, a, p)
    PROVE  IngestionInv'
<1> DEFINE b == a.bundle
           j == [at |-> "import", bundle |-> b, noop |-> SafeNoop(b), approval |-> p]
<1>1. /\ desk' = [desk EXCEPT ![t] = j] /\ UNCHANGED <<snapshots, sources, approvals, under>>
      /\ Valid(a) /\ p.decision = "approved" /\ p.bundle = b
  BY DEF PlanApproved, Approves
<1>2. b \in Bundles
  BY <1>1, ValidIsWhole
<1>3. SafeNoop(b) \in BOOLEAN
  BY DEF SafeNoop
<1>4. SafeNoop(b) => snapshots[b.ref] # Absent /\ \A en \in b.entries : sources[en.addr] # Absent
  BY DEF SafeNoop, WouldAdd, KnownSource
<1> HIDE DEF b
<1>5. j \in [at : {"import"}, bundle : Bundles, noop : BOOLEAN, approval : approvals]
  BY <1>2, <1>3
<1>6. TablesRight'
  BY <1>1, <1>5 DEF IngestionInv, TablesRight
<1>7. \A u \in Desks : desk'[u] = IF u = t THEN j ELSE desk[u]
  BY <1>1 DEF IngestionInv, TablesRight
<1>8. DesksRight'
  BY <1>1, <1>2, <1>4, <1>7 DEF IngestionInv, DesksRight
<1>9. ApprovalsRight' /\ UnderRight'
  BY <1>1 DEF IngestionInv, ApprovalsRight, UnderRight
<1> QED BY <1>6, <1>8, <1>9 DEF IngestionInv

LEMMA SignerIs ==
    ASSUME NEW envelope \in SnapshotEnvelope
    PROVE  envelope.signer \in Signer \cup {"none"}
BY DEF SnapshotEnvelope, NoEnvelope

LEMMA ImportKeeps ==
    ASSUME IngestionInv, NEW t \in Desks, NEW envelope \in SnapshotEnvelope,
           ImportApproved(t, envelope)
    PROVE  IngestionInv' /\ (desk[t].noop => UNCHANGED <<snapshots, sources>>)
<1> DEFINE b == desk[t].bundle
           p == desk[t].approval
           signer == envelope.signer
           stored == Signed(b, envelope) /\ Fits(snapshots, sources, b, signer)
<1>1. /\ desk[t].at = "import" /\ desk' = [desk EXCEPT ![t] = AtRest] /\ approvals' = approvals
      /\ IF Signed(b, envelope) THEN Store(b, signer) ELSE UNCHANGED <<snapshots, sources>>
      /\ under' = IF stored THEN [under EXCEPT ![b.ref] = p] ELSE under
  BY DEF ImportApproved
<1>2. /\ b \in Bundles /\ p \in approvals /\ p.decision = "approved" /\ p.bundle = b
      /\ desk[t].noop => /\ snapshots[b.ref] # Absent
                         /\ \A en \in b.entries : sources[en.addr] # Absent
  BY <1>1 DEF IngestionInv, DesksRight
<1>3. b.ref \in Ref /\ \A en \in b.entries : en.addr \in Address
  BY <1>2, BundleIs
<1>4. signer \in Signer \cup {"none"}
  BY SignerIs
<1> HIDE DEF b, p, signer
<1>5. /\ snapshots' \in [Ref -> SnapshotRows \cup {Absent}]
      /\ sources' \in [Address -> SourceRows \cup {Absent}]
      /\ \A r \in Ref : snapshots[r] # Absent =>
            snapshots'[r] # Absent /\ snapshots'[r].bundle = snapshots[r].bundle
      /\ \A a \in Address : sources[a] # Absent => sources'[a] # Absent
      /\ stored => snapshots'[b.ref] # Absent /\ snapshots'[b.ref].bundle = b
      /\ desk[t].noop => UNCHANGED <<snapshots, sources>>
  <2>1. CASE Signed(b, envelope)
    <3>1. TablesRight /\ Store(b, signer)
      BY <1>1, <2>1 DEF IngestionInv
    <3> QED BY <1>2, <1>4, <3>1, StoreKeeps
  <2>2. CASE ~Signed(b, envelope)
    BY <1>1, <2>2 DEF IngestionInv, TablesRight
  <2> QED BY <2>1, <2>2
<1> HIDE DEF stored
<1>6. /\ \A u \in Desks : desk'[u] = IF u = t THEN AtRest ELSE desk[u]
      /\ \A r \in Ref : under'[r] = IF stored /\ r = b.ref THEN p ELSE under[r]
      /\ under' \in [Ref -> approvals \cup {NoApproval}]
  BY <1>1, <1>2, <1>3 DEF IngestionInv, TablesRight
<1>7. TablesRight'
  BY <1>1, <1>5, <1>6 DEF IngestionInv, TablesRight
<1>8. DesksRight'
  <2> SUFFICES ASSUME NEW u \in Desks, desk'[u].at = "import"
               PROVE  LET c == desk'[u].bundle
                          q == desk'[u].approval
                      IN  /\ c \in Bundles
                          /\ q \in approvals' /\ q.decision = "approved" /\ q.bundle = c
                          /\ desk'[u].noop => /\ snapshots'[c.ref] # Absent
                                              /\ \A en \in c.entries : sources'[en.addr] # Absent
    BY DEF DesksRight
  <2> DEFINE c == desk[u].bundle
  <2>1. desk'[u] = desk[u]
    BY <1>6 DEF AtRest
  <2>2. /\ c \in Bundles
        /\ desk[u].approval \in approvals /\ desk[u].approval.decision = "approved"
        /\ desk[u].approval.bundle = c
        /\ desk[u].noop => /\ snapshots[c.ref] # Absent
                           /\ \A en \in c.entries : sources[en.addr] # Absent
    BY <2>1 DEF IngestionInv, DesksRight
  <2> HIDE DEF c
  <2>3. c.ref \in Ref /\ \A en \in c.entries : en.addr \in Address
    BY <2>2, BundleIs
  <2> QED BY <1>1, <1>5, <2>1, <2>2, <2>3 DEF c
<1>9. UnderRight'
  BY <1>1, <1>2, <1>5, <1>6 DEF IngestionInv, UnderRight
<1>10. ApprovalsRight'
  BY <1>1 DEF IngestionInv, ApprovalsRight
<1> QED BY <1>5, <1>7, <1>8, <1>9, <1>10 DEF IngestionInv

LEMMA ReviewKeeps ==
    ASSUME IngestionInv, NEW r \in Ref, NEW st \in Decisions, ReviewSnapshot(r, st)
    PROVE  IngestionInv'
<1>1. st \in Review
  BY SourceIngestionAssumption DEF Review
<1>2. /\ snapshots \in [Ref -> SnapshotRows \cup {Absent}] /\ snapshots[r] # Absent
      /\ snapshots' = [snapshots EXCEPT ![r].status = st, ![r].reviewed = TRUE]
      /\ sources' = [a \in Address |->
            IF sources[a] # Absent /\ sources[a].bundle.ref = r
            THEN [sources[a] EXCEPT !.status = st, !.reviewed = TRUE] ELSE sources[a]]
      /\ sources \in [Address -> SourceRows \cup {Absent}]
      /\ UNCHANGED <<approvals, desk, under>>
  BY DEF ReviewSnapshot, IngestionInv, TablesRight
<1>3. \A x \in SnapshotRows : /\ [x EXCEPT !.status = st, !.reviewed = TRUE] \in SnapshotRows
                              /\ [x EXCEPT !.status = st, !.reviewed = TRUE].bundle = x.bundle
  BY <1>1 DEF SnapshotRows
<1>4. \A x \in SourceRows : [x EXCEPT !.status = st, !.reviewed = TRUE] \in SourceRows
  BY <1>1 DEF SourceRows
<1>5. (\A x \in SnapshotRows : x # Absent) /\ (\A x \in SourceRows : x # Absent)
  BY DEF SnapshotRows, SourceRows, Review, Absent
<1>6. /\ snapshots' \in [Ref -> SnapshotRows \cup {Absent}]
      /\ \A q \in Ref : snapshots[q] # Absent =>
            snapshots'[q] # Absent /\ snapshots'[q].bundle = snapshots[q].bundle
  <2> DEFINE x == snapshots[r]
             y == [x EXCEPT !.status = st, !.reviewed = TRUE]
  <2>1. x \in SnapshotRows
    BY <1>2
  <2>2. y \in SnapshotRows /\ y.bundle = x.bundle /\ y # Absent
    BY <1>3, <1>5, <2>1
  <2>3. snapshots' = [snapshots EXCEPT ![r] = y]
    BY <1>2
  <2> HIDE DEF y
  <2> QED BY <1>2, <2>2, <2>3
<1>7. /\ sources' \in [Address -> SourceRows \cup {Absent}]
      /\ \A a \in Address : sources[a] # Absent => sources'[a] # Absent
  <2>1. \A a \in Address : sources'[a] = IF sources[a] # Absent /\ sources[a].bundle.ref = r
            THEN [sources[a] EXCEPT !.status = st, !.reviewed = TRUE] ELSE sources[a]
    BY <1>2
  <2>2. \A a \in Address : sources[a] # Absent => sources'[a] \in SourceRows
    BY <1>2, <1>4, <2>1
  <2>3. \A a \in Address : sources[a] = Absent => sources'[a] = Absent
    BY <2>1
  <2>4. sources' = [a \in Address |-> sources'[a]]
    BY <1>2
  <2> QED BY <1>5, <2>2, <2>3, <2>4
<1> QED BY <1>2, <1>6, <1>7, IngestionKept

LEMMA SeedKeeps ==
    ASSUME IngestionInv, NEW a \in Address, NEW n \in Network, SeedDirectly(a, n)
    PROVE  IngestionInv'
<1> DEFINE row == [bundle |-> NoBundle, network |-> n, amount |-> SeedAmount, status |-> "active",
                   reviewed |-> TRUE]
<1>1. row \in SourceRows /\ row # Absent
  BY SourceIngestionAssumption DEF SourceRows, Review, Absent
<1>2. sources' = [sources EXCEPT ![a] = row] /\ UNCHANGED <<snapshots, approvals, desk, under>>
  BY DEF SeedDirectly
<1> HIDE DEF row
<1>3. /\ snapshots' \in [Ref -> SnapshotRows \cup {Absent}]
      /\ sources' \in [Address -> SourceRows \cup {Absent}]
      /\ \A x \in Address : sources[x] # Absent => sources'[x] # Absent
      /\ \A r \in Ref : snapshots'[r] = snapshots[r]
  BY <1>1, <1>2 DEF IngestionInv, TablesRight
<1> QED BY <1>2, <1>3, IngestionKept

LEMMA ImportBundleKeeps ==
    ASSUME IngestionInv, NEW a \in Normalized, NEW envelope \in SnapshotEnvelope,
           ImportBundle(a.bundle, envelope)
    PROVE  IngestionInv'
<1>1. a.bundle \in Bundles /\ envelope.signer \in Signer \cup {"none"} /\ TablesRight
  BY SignerIs DEF Bundles, IngestionInv
<1>2. Store(a.bundle, envelope.signer) /\ UNCHANGED <<approvals, desk, under>>
  BY DEF ImportBundle
<1>3. /\ snapshots' \in [Ref -> SnapshotRows \cup {Absent}]
      /\ sources' \in [Address -> SourceRows \cup {Absent}]
      /\ \A r \in Ref : snapshots[r] # Absent =>
            snapshots'[r] # Absent /\ snapshots'[r].bundle = snapshots[r].bundle
      /\ \A x \in Address : sources[x] # Absent => sources'[x] # Absent
  BY <1>1, <1>2, StoreKeeps
<1> QED BY <1>2, <1>3, IngestionKept

LEMMA IngestionInitInv == IngestionInit => IngestionInv
BY DEF IngestionInit, IngestionInv, TablesRight, ApprovalsRight, DesksRight, UnderRight, AtRest

LEMMA IngestionStep ==
    ASSUME IngestionInv, [IngestionNext]_ingestionVars
    PROVE  IngestionInv'
<1>1. CASE UNCHANGED ingestionVars
  BY <1>1 DEF ingestionVars, IngestionInv, TablesRight, ApprovalsRight, DesksRight, UnderRight
<1> QED BY <1>1, ApproveKeeps, PlanKeeps, ImportKeeps, ImportBundleKeeps, SeedKeeps, ReviewKeeps
        DEF IngestionNext

\* What is imported under an approval has the amounts of the records that were approved,
\* for any exports, artifacts, operators, signers and threads
\* (import_approved_source_ingestion).
THEOREM ApprovedIsImported == IngestionSpec => []ImportedAsApproved
<1>1. IngestionInit => IngestionInv
  BY IngestionInitInv
<1>2. IngestionInv /\ [IngestionNext]_ingestionVars => IngestionInv'
  BY IngestionStep
<1>3. IngestionInv => ImportedAsApproved
  BY DEF IngestionInv, ApprovalsRight, UnderRight, ImportedAsApproved
<1> QED BY <1>1, <1>2, <1>3, PTL DEF IngestionSpec

\* The import of a plan that said safe_noop changes no row, whatever happened since the plan
\* and whoever signed the artifact (_source_ingestion_idempotency_evidence).
THEOREM NoopsKeep == IngestionSpec => SafeNoopKeeps
<1> DEFINE Unmoved == \A t \in Desks : desk[t].at = "import" /\ desk[t].noop /\ desk'[t] = AtRest
                                      => UNCHANGED <<snapshots, sources>>
<1>1. IngestionInit => IngestionInv
  BY IngestionInitInv
<1>2. IngestionInv /\ [IngestionNext]_ingestionVars => IngestionInv'
  BY IngestionStep
<1>3. IngestionInv /\ [IngestionNext]_ingestionVars => [Unmoved]_ingestionVars
  <2> SUFFICES ASSUME IngestionInv, IngestionNext,
                      NEW t \in Desks, desk[t].at = "import", desk[t].noop, desk'[t] = AtRest
               PROVE  UNCHANGED <<snapshots, sources>>
    OBVIOUS
  <2>1. desk[t] # AtRest /\ desk \in [Desks -> {AtRest} \cup [at : {"import"}, bundle : Bundles,
                                                              noop : BOOLEAN, approval : approvals]]
    BY DEF AtRest, IngestionInv, TablesRight
  <2>2. \E u \in Desks : (\E a \in Artifact, p \in approvals : PlanApproved(u, a, p))
                         \/ \E envelope \in SnapshotEnvelope : ImportApproved(u, envelope)
    BY <2>1 DEF IngestionNext, Approve, ImportBundle, SeedDirectly, ReviewSnapshot
  <2>3. PICK u \in Desks : (\E a \in Artifact, p \in approvals : PlanApproved(u, a, p))
                           \/ \E envelope \in SnapshotEnvelope : ImportApproved(u, envelope)
    BY <2>2
  <2>4. CASE \E a \in Artifact, p \in approvals : PlanApproved(u, a, p)
    BY <2>1, <2>4 DEF PlanApproved
  <2>5. CASE \E envelope \in SnapshotEnvelope : ImportApproved(u, envelope)
    <3>1. u = t
      BY <2>1, <2>5 DEF ImportApproved
    <3> QED BY <2>5, <3>1, ImportKeeps
  <2> QED BY <2>3, <2>4, <2>5
<1> QED BY <1>1, <1>2, <1>3, PTL DEF IngestionSpec, SafeNoopKeeps

\* Two items of a valid batch that name different snapshots do not stand in each other's
\* way (validate_source_export_batch).
THEOREM BatchesImport == IngestionSpec => []BatchImports
<1>1. IngestionInit => IngestionInv
  BY IngestionInitInv
<1>2. IngestionInv /\ [IngestionNext]_ingestionVars => IngestionInv'
  BY IngestionStep
<1>3. IngestionInv => BatchImports
  <2> SUFFICES ASSUME IngestionInv, NEW pair \in PairOfBatch,
                      Fits(snapshots, sources, pair[1].bundle, "none"),
                      Fits(snapshots, sources, pair[2].bundle, "none")
               PROVE  Fits([snapshots EXCEPT ![pair[1].bundle.ref] = SnapshotRow(pair[1].bundle, "none")],
                           WithSources(sources, pair[1].bundle), pair[2].bundle, "none")
    BY DEF BatchImports
  <2> DEFINE a == pair[1].bundle
             b == pair[2].bundle
  <2>1. /\ pair[1] \in Artifact /\ Valid(pair[1]) /\ pair[2] \in Artifact /\ Valid(pair[2])
        /\ ValidBatch(pair) /\ a.ref # b.ref /\ pair \in ValidArtifact \X ValidArtifact
    BY DEF PairOfBatch, ValidArtifact
  <2>2. ~Conflict(pair[1].records, pair[2].records)
    <3>1. 1 \in DOMAIN pair /\ 2 \in DOMAIN pair
      BY <2>1
    <3> QED BY <2>1, <3>1 DEF ValidBatch
  <2>3. /\ a \in Bundles /\ b \in Bundles
        /\ a.entries = EntriesOf(pair[1].records) /\ b.entries = EntriesOf(pair[2].records)
    BY <2>1, ValidIsWhole
  <2>4. \A en \in b.entries : en.addr \notin AddrsOf(a)
    BY <2>2, <2>3 DEF AddrsOf, EntriesOf, Conflict
  <2>5. b.ref \in Ref /\ \A en \in b.entries : en.addr \in Address
    BY <2>3, BundleIs
  <2>6. a.ref # b.ref /\ Fits(snapshots, sources, b, "none")
    BY <2>1
  <2> HIDE DEF a, b
  <2>7. [snapshots EXCEPT ![a.ref] = SnapshotRow(a, "none")][b.ref] = snapshots[b.ref]
    BY <2>5, <2>6 DEF IngestionInv, TablesRight
  <2>8. \A en \in b.entries : WithSources(sources, a)[en.addr] = sources[en.addr]
    BY <2>4, <2>5 DEF WithSources
  <2>9. Fits([snapshots EXCEPT ![a.ref] = SnapshotRow(a, "none")], WithSources(sources, a), b, "none")
    BY <2>6, <2>7, <2>8 DEF Fits
  <2> QED BY <2>9 DEF a, b
<1> QED BY <1>1, <1>2, <1>3, PTL DEF IngestionSpec

(* The limit on transactions. *)

Ages == 0..(Minute - 1)

\* A client of which no window was dropped got no more through than its window counts, and
\* before the window no more than a window lets through; without a window nothing now.
LimitKept ==
    \A c \in Client \ forgotten :
        IF c \in Active
        THEN LET w == windows[c]
             IN  /\ SumFunctionOnSet(allowed[c], 0..w.age) <= w.count
                 /\ SumFunctionOnSet(allowed[c], 0..w.age) <= Limit
                 /\ SumFunctionOnSet(allowed[c], (w.age + 1)..(Minute - 1)) <= Limit
        ELSE /\ allowed[c][0] = 0
             /\ SumFunctionOnSet(allowed[c], Ages) <= Limit

LimitInv == LimitTypeOK /\ LimitKept

LEMMA SpansFinite == \A a, b \in Int : IsFiniteSet(a..b)
BY FS_Interval

LEMMA SpanType ==
    ASSUME NEW f, \A i \in Ages : f[i] \in Nat, NEW a \in Nat
    PROVE  /\ SumFunctionOnSet(f, a..(Minute - 1)) \in Nat
           /\ a < Minute => SumFunctionOnSet(f, 0..a) \in Nat
<1> DEFINE A == a..(Minute - 1)
           B == 0..a
<1>1. IsFiniteSet(A) /\ IsFiniteSet(B)
  BY SpansFinite, RateLimitAssumption
<1>2. \A i \in A : f[i] \in Nat
  BY RateLimitAssumption DEF Ages
<1>3. a < Minute => \A i \in B : f[i] \in Nat
  BY RateLimitAssumption DEF Ages
<1> HIDE DEF A, B
<1>4. SumFunctionOnSet(f, A) \in Nat
  BY <1>1, <1>2, SumNat
<1>5. a < Minute => SumFunctionOnSet(f, B) \in Nat
  BY <1>1, <1>3, SumNat
<1> QED BY <1>4, <1>5 DEF A, B

LEMMA SpanSplit ==
    ASSUME NEW f, \A i \in Ages : f[i] \in Nat, NEW a \in Ages
    PROVE  SumFunctionOnSet(f, Ages)
           = SumFunctionOnSet(f, 0..a) + SumFunctionOnSet(f, (a + 1)..(Minute - 1))
<1> DEFINE A == 0..a
           B == (a + 1)..(Minute - 1)
<1>1. A \cup B = Ages /\ A \cap B = {} /\ \A i \in A \cup B : f[i] \in Int
  BY RateLimitAssumption DEF Ages
<1>2. IsFiniteSet(A) /\ IsFiniteSet(B)
  BY SpansFinite, RateLimitAssumption DEF Ages
<1> HIDE DEF A, B
<1>3. SumFunctionOnSet(f, A \cup B) = SumFunctionOnSet(f, A) + SumFunctionOnSet(f, B)
  BY <1>1, <1>2, SumUnion
<1> QED BY <1>1, <1>3 DEF A, B

LEMMA SpanPart ==
    ASSUME NEW f, \A i \in Ages : f[i] \in Nat, NEW a \in Nat, NEW b \in Int, b < Minute,
           NEW x \in Nat, NEW y \in Int, a <= x, y <= b
    PROVE  SumFunctionOnSet(f, x..y) <= SumFunctionOnSet(f, a..b)
<1>1. \A i \in a..b : f[i] \in Nat
  BY RateLimitAssumption DEF Ages
<1>2. x..y \in SUBSET (a..b)
  OBVIOUS
<1>3. IsFiniteSet(a..b)
  BY SpansFinite
<1> QED BY <1>1, <1>2, <1>3, SumOfPart

\* One request more at age 0.
LEMMA SpanAllow ==
    ASSUME NEW f, \A i \in Ages : f[i] \in Nat, NEW g, g[0] = f[0] + 1,
           \A i \in Ages : i # 0 => g[i] = f[i], NEW a \in Ages
    PROVE  /\ SumFunctionOnSet(g, 0..a) = SumFunctionOnSet(f, 0..a) + 1
           /\ SumFunctionOnSet(g, (a + 1)..(Minute - 1))
              = SumFunctionOnSet(f, (a + 1)..(Minute - 1))
<1>1. IsFiniteSet(0..a) /\ IsFiniteSet((a + 1)..(Minute - 1)) /\ 0 \in 0..a
  BY SpansFinite, RateLimitAssumption DEF Ages
<1>2. \A i \in (a + 1)..(Minute - 1) : g[i] = f[i]
  BY RateLimitAssumption DEF Ages
<1>3. /\ \A i \in 0..a : f[i] \in Int
      /\ \A i \in 0..a : i # 0 => g[i] = f[i]
  BY RateLimitAssumption DEF Ages
<1>4. SumFunctionOnSet(g, (a + 1)..(Minute - 1)) = SumFunctionOnSet(f, (a + 1)..(Minute - 1))
  BY <1>1, <1>2, SumAgrees
<1>5. SumFunctionOnSet(g, 0..a) = SumFunctionOnSet(f, 0..a) + 1
  <2> DEFINE A == 0..a
  <2>1. IsFiniteSet(A) /\ 0 \in A /\ (\A i \in A : f[i] \in Int) /\ \A i \in A : i # 0 => g[i] = f[i]
    BY <1>1, <1>3
  <2> HIDE DEF A
  <2>2. SumFunctionOnSet(g, A) = SumFunctionOnSet(f, A) + 1
    BY <2>1, SumOneMore
  <2> QED BY <2>2 DEF A
<1> QED BY <1>4, <1>5

\* All requests one unit older.
LEMMA SpanAge ==
    ASSUME NEW f, \A i \in Ages : f[i] \in Nat,
           NEW g, \A i \in Ages : i # 0 => g[i] = f[i - 1],
           NEW a \in Nat, NEW b \in Int, b < Minute - 1
    PROVE  SumFunctionOnSet(g, (a + 1)..(b + 1)) = SumFunctionOnSet(f, a..b)
<1>1. IsFiniteSet(a..b) /\ a..b \subseteq Int
  BY SpansFinite
<1>2. \A i \in a..b : f[i] = g[i + 1] /\ f[i] \in Int
  BY RateLimitAssumption DEF Ages
<1>3. (a + 1)..(b + 1) = {i + 1 : i \in a..b}
  <2>1. ASSUME NEW i \in (a + 1)..(b + 1) PROVE i \in {j + 1 : j \in a..b}
    <3>1. i - 1 \in a..b /\ (i - 1) + 1 = i
      OBVIOUS
    <3> QED BY <3>1
  <2>2. ASSUME NEW i \in a..b PROVE i + 1 \in (a + 1)..(b + 1)
    OBVIOUS
  <2> QED BY <2>1, <2>2
<1>4. Shifted(f, g, a..b, (a + 1)..(b + 1))
  BY <1>1, <1>2, <1>3 DEF Shifted
<1> QED BY <1>1, <1>4, SumShifted

LEMMA LimitStarts == LimitInit => LimitInv
<1> SUFFICES ASSUME LimitInit PROVE LimitInv
  OBVIOUS
<1>1. LimitTypeOK
  BY RateLimitAssumption DEF LimitInit, LimitTypeOK
<1>2. ASSUME NEW c \in Client
      PROVE  allowed[c][0] = 0 /\ SumFunctionOnSet(allowed[c], Ages) = 0
  <2> DEFINE f == [i \in Ages |-> 0]
  <2>1. allowed[c] = f
    BY DEF LimitInit, Ages
  <2>2. 0 \in Ages
    BY RateLimitAssumption DEF Ages
  <2>3. SumFunctionOnSet(f, Ages) = 0
    <3>1. IsFiniteSet(Ages) /\ \A i \in Ages : f[i] = 0
      BY SpansFinite, RateLimitAssumption DEF Ages
    <3> HIDE DEF f
    <3> QED BY <3>1, SumOfZeros
  <2> QED BY <2>1, <2>2, <2>3
<1>3. Active = {}
  BY DEF LimitInit, Active
<1> QED BY <1>1, <1>2, <1>3, RateLimitAssumption DEF LimitInv, LimitKept

\* What is known of a client without a dropped window.
LEMMA ClientType ==
    ASSUME LimitTypeOK, NEW c \in Client
    PROVE  /\ allowed[c] = [i \in Ages |-> allowed[c][i]] /\ \A i \in Ages : allowed[c][i] \in Nat
           /\ c \in Active => /\ windows[c].age \in Ages /\ windows[c].count \in 1..(Limit + 1)
                              /\ windows[c] = [age |-> windows[c].age, count |-> windows[c].count]
BY RateLimitAssumption DEF LimitTypeOK, Active, Ages

\* A request that is counted: the window of c, which it may start, has one more.
LEMMA CountKeeps ==
    ASSUME LimitInv, NEW c \in Client \ forgotten,
           NEW a, NEW n \in 0..Limit,
           c \in Active => a = windows[c].age /\ n = windows[c].count,
           c \notin Active => a = 0 /\ n = 0,
           NEW f, \A i \in Ages : f[i] \in Nat,
           \/ n < Limit /\ f[0] = allowed[c][0] + 1 /\ \A i \in Ages : i # 0 => f[i] = allowed[c][i]
           \/ n = Limit /\ f = allowed[c]
    PROVE  /\ SumFunctionOnSet(f, 0..a) <= n + 1
           /\ SumFunctionOnSet(f, 0..a) <= Limit
           /\ SumFunctionOnSet(f, (a + 1)..(Minute - 1)) <= Limit
<1> DEFINE g == allowed[c]
<1>1. /\ \A i \in Ages : g[i] \in Nat
      /\ a \in Ages
  <2>1. \A i \in Ages : g[i] \in Nat
    BY ClientType DEF LimitInv
  <2>2. CASE c \in Active
    BY <2>1, <2>2, ClientType DEF LimitInv
  <2>3. CASE c \notin Active
    BY <2>1, <2>3, RateLimitAssumption DEF Ages
  <2> QED BY <2>1, <2>2, <2>3
<1>2. /\ SumFunctionOnSet(g, 0..a) <= n
      /\ SumFunctionOnSet(g, (a + 1)..(Minute - 1)) <= Limit
  <2>1. CASE c \in Active
    BY <2>1 DEF LimitInv, LimitKept
  <2>2. CASE c \notin Active
    <3>1. a = 0 /\ n = 0 /\ g[0] = 0 /\ SumFunctionOnSet(g, Ages) <= Limit
      BY <2>2 DEF LimitInv, LimitKept
    <3>2. SumFunctionOnSet(g, 0..0) = 0
      <4>1. 0..0 = {0} /\ IsFiniteSet({0}) /\ {0} \ {0} = {}
        <5>1. IsFiniteSet({0})
          BY FS_Singleton
        <5> QED BY <5>1
      <4>2. SumFunctionOnSet(g, {0}) = g[0] + SumFunctionOnSet(g, {0} \ {0})
        <5> DEFINE Z == {0}
        <5>1. IsFiniteSet(Z) /\ 0 \in Z /\ \A i \in Z : g[i] \in Int
          BY <3>1, <4>1
        <5> HIDE DEF Z, g
        <5>2. SumFunctionOnSet(g, Z) = g[0] + SumFunctionOnSet(g, Z \ {0})
          BY <5>1, SumTakeOut
        <5> QED BY <5>2 DEF Z
      <4>3. SumFunctionOnSet(g, {0}) = 0 + 0
        BY <3>1, <4>1, <4>2, SumOfNone
      <4> QED BY <4>1, <4>3
    <3>3. SumFunctionOnSet(g, 1..(Minute - 1)) <= SumFunctionOnSet(g, Ages)
      <4> HIDE DEF g
      <4>1. SumFunctionOnSet(g, 1..(Minute - 1)) <= SumFunctionOnSet(g, 0..(Minute - 1))
        BY <1>1, SpanPart, RateLimitAssumption
      <4> QED BY <4>1 DEF Ages
    <3>4. SumFunctionOnSet(g, 1..(Minute - 1)) \in Nat /\ SumFunctionOnSet(g, Ages) \in Nat
      <4> HIDE DEF g
      <4> QED BY <1>1, SpanType DEF Ages
    <3>5. SumFunctionOnSet(g, 1..(Minute - 1)) <= Limit
      BY <3>1, <3>3, <3>4, RateLimitAssumption
    <3>6. a + 1 = 1 /\ 0..a = 0..0
      BY <3>1
    <3> QED BY <3>1, <3>2, <3>5, <3>6
  <2> QED BY <2>1, <2>2
<1>3. SumFunctionOnSet(g, 0..a) \in Nat /\ SumFunctionOnSet(g, (a + 1)..(Minute - 1)) \in Nat
    <2>1. a \in Nat /\ a < Minute /\ a + 1 \in Nat
    BY <1>1, RateLimitAssumption DEF Ages
  <2> HIDE DEF g
  <2>2. SumFunctionOnSet(g, 0..a) \in Nat
    BY <1>1, <2>1, SpanType
  <2>3. SumFunctionOnSet(g, (a + 1)..(Minute - 1)) \in Nat
    BY <1>1, <2>1, SpanType
  <2> QED BY <2>2, <2>3
<1>4. CASE f = g
  BY <1>1, <1>2, <1>3, <1>4, RateLimitAssumption
<1>5. CASE n < Limit /\ f[0] = g[0] + 1 /\ \A i \in Ages : i # 0 => f[i] = g[i]
    <2>1. a \in Ages
    BY <1>1
  <2> HIDE DEF g
  <2>2. /\ SumFunctionOnSet(f, 0..a) = SumFunctionOnSet(g, 0..a) + 1
        /\ SumFunctionOnSet(f, (a + 1)..(Minute - 1)) = SumFunctionOnSet(g, (a + 1)..(Minute - 1))
    BY <1>1, <1>5, <2>1, SpanAllow
  <2> QED BY <1>1, <1>2, <1>3, <1>5, <2>2, RateLimitAssumption
<1> QED BY <1>4, <1>5


\* What becomes of a client whose window neither changes nor is dropped while it is active.
LEMMA PruningKeeps ==
    ASSUME LimitInv, NEW K, K \subseteq DOMAIN windows,
           NEW d \in Client, d \notin forgotten', forgotten' = forgotten \cup (Active \ K),
           d \in DOMAIN windows' <=> d \in K,
           d \in K => windows'[d] = windows[d],
           allowed'[d] = allowed[d]
    PROVE  IF d \in Active'
           THEN LET w == windows'[d]
                IN  /\ SumFunctionOnSet(allowed'[d], 0..w.age) <= w.count
                    /\ SumFunctionOnSet(allowed'[d], 0..w.age) <= Limit
                    /\ SumFunctionOnSet(allowed'[d], (w.age + 1)..(Minute - 1)) <= Limit
           ELSE allowed'[d][0] = 0 /\ SumFunctionOnSet(allowed'[d], Ages) <= Limit
<1>1. d \notin forgotten /\ (d \in Active => d \in K)
  OBVIOUS
<1>2. d \in Active' <=> d \in Active
  BY <1>1 DEF Active
<1>3. d \in Active => windows'[d] = windows[d]
  BY <1>1
<1> QED BY <1>1, <1>2, <1>3 DEF LimitInv, LimitKept

LEMMA CountStep ==
    ASSUME LimitInv, NEW c \in Client, NEW K, K \subseteq DOMAIN windows,
           NEW table, DOMAIN table = K, \A d \in K : table[d] = windows[d],
           forgotten' = forgotten \cup (Active \ K), redis' = redis,
           Counted(table, c).count <= Limit, CountOne(table, c),
           IF UsedUp(table, c) THEN UNCHANGED allowed ELSE Allow(c)
    PROVE  LimitInv'
<1> DEFINE w == Counted(table, c)
<1>1. /\ w = [age |-> w.age, count |-> w.count] /\ w.age \in Ages /\ w.count \in 0..Limit
      /\ c \in Active /\ c \in K => w = windows[c]
      /\ ~ (c \in Active /\ c \in K) => w.age = 0 /\ w.count = 0
  <2>1. CASE c \in Active /\ c \in K
    <3>1. w = windows[c]
      BY <2>1 DEF Counted, Active
    <3>2. windows[c].age \in Ages /\ windows[c].count \in 1..(Limit + 1)
          /\ windows[c] = [age |-> windows[c].age, count |-> windows[c].count]
      BY <2>1, ClientType DEF LimitInv
    <3>3. w.count <= Limit
      OBVIOUS
    <3> HIDE DEF w
    <3> QED BY <2>1, <3>1, <3>2, <3>3, RateLimitAssumption
  <2>2. CASE ~ (c \in Active /\ c \in K)
    <3>1. w = [age |-> 0, count |-> 0]
      BY <2>2 DEF Counted, Active
    <3> HIDE DEF w
    <3> QED BY <2>2, <3>1, RateLimitAssumption DEF Ages
  <2> QED BY <2>1, <2>2
<1>2. /\ DOMAIN windows' = K \cup {c}
      /\ windows'[c] = [age |-> w.age, count |-> w.count + 1]
      /\ \A d \in K : d # c => windows'[d] = windows[d]
  <2>1. windows' = [d \in K \cup {c} |-> IF d = c THEN [w EXCEPT !.count = @ + 1] ELSE table[d]]
    BY DEF CountOne
  <2>2. [w EXCEPT !.count = @ + 1] = [age |-> w.age, count |-> w.count + 1]
    <3> HIDE DEF w
    <3> QED BY <1>1
  <2> HIDE DEF w
  <2> QED BY <2>1, <2>2
<1> HIDE DEF w
<1>3. LimitTypeOK'
  <2>1. /\ forgotten' \subseteq Client /\ redis' \in BOOLEAN
        /\ K \subseteq Client /\ \A d \in DOMAIN windows : windows[d] \in [age : 0..Minute, count : 1..(Limit + 1)]
    BY DEF LimitInv, LimitTypeOK, Active
  <2>2. windows'[c] \in [age : 0..Minute, count : 1..(Limit + 1)]
    BY <1>1, <1>2, RateLimitAssumption DEF Ages
  <2>3. \A d \in DOMAIN windows' : windows'[d] \in [age : 0..Minute, count : 1..(Limit + 1)]
    BY <1>2, <2>1, <2>2
  <2>4. allowed' \in [Client -> [0..(Minute - 1) -> Nat]]
    <3>1. allowed \in [Client -> [0..(Minute - 1) -> Nat]]
      BY DEF LimitInv, LimitTypeOK
    <3>2. CASE UsedUp(table, c)
      BY <3>1, <3>2
    <3>3. CASE ~ UsedUp(table, c)
      <4> DEFINE f == allowed[c]
                 y == IF c \in forgotten THEN f[0] ELSE f[0] + 1
                 g == [f EXCEPT ![0] = y]
      <4>1. f \in [0..(Minute - 1) -> Nat] /\ y \in Nat
        BY <3>1, RateLimitAssumption
      <4>2. g \in [0..(Minute - 1) -> Nat]
        <5> HIDE DEF f, y
        <5> QED BY <4>1
      <4>3. allowed' = [allowed EXCEPT ![c] = g]
        BY <3>1, <3>3 DEF Allow
      <4> HIDE DEF f, g
      <4> QED BY <3>1, <4>2, <4>3
    <3> QED BY <3>2, <3>3
  <2>5. DOMAIN windows' \subseteq Client
    BY <1>2, <2>1
  <2> QED BY <2>1, <2>3, <2>4, <2>5 DEF LimitTypeOK
<1>4. ASSUME NEW d \in Client, d \notin forgotten', d # c
      PROVE  IF d \in Active'
             THEN LET v == windows'[d]
                  IN  /\ SumFunctionOnSet(allowed'[d], 0..v.age) <= v.count
                      /\ SumFunctionOnSet(allowed'[d], 0..v.age) <= Limit
                      /\ SumFunctionOnSet(allowed'[d], (v.age + 1)..(Minute - 1)) <= Limit
             ELSE allowed'[d][0] = 0 /\ SumFunctionOnSet(allowed'[d], Ages) <= Limit
  <2>1. allowed'[d] = allowed[d]
    BY <1>4 DEF LimitInv, LimitTypeOK, Allow
  <2>2. (d \in DOMAIN windows' <=> d \in K) /\ (d \in K => windows'[d] = windows[d])
    BY <1>2, <1>4
  <2> QED BY <1>4, <2>1, <2>2, PruningKeeps
<1>5. ASSUME c \notin forgotten'
      PROVE  /\ c \in Active'
             /\ SumFunctionOnSet(allowed'[c], 0..w.age) <= w.count + 1
             /\ SumFunctionOnSet(allowed'[c], 0..w.age) <= Limit
             /\ SumFunctionOnSet(allowed'[c], (w.age + 1)..(Minute - 1)) <= Limit
  <2>1. c \in Client \ forgotten /\ (c \in Active => c \in K)
    BY <1>5
  <2>2. c \in Active'
    BY <1>1, <1>2, RateLimitAssumption DEF Active, Ages
  <2>3. /\ c \in Active => w.age = windows[c].age /\ w.count = windows[c].count
        /\ c \notin Active => w.age = 0 /\ w.count = 0
    BY <1>1, <2>1
  <2>4. \A i \in Ages : allowed'[c][i] \in Nat
    BY <1>3 DEF LimitTypeOK, Ages
  <2>5. \/ w.count < Limit /\ allowed'[c][0] = allowed[c][0] + 1
           /\ \A i \in Ages : i # 0 => allowed'[c][i] = allowed[c][i]
        \/ w.count = Limit /\ allowed'[c] = allowed[c]
    <3>1. CASE w.count = Limit
      BY <3>1, RateLimitAssumption DEF UsedUp, w
    <3>2. CASE w.count # Limit
      <4>1. w.count < Limit
        BY <1>1, <3>2, RateLimitAssumption
      <4>2. ~ UsedUp(table, c)
        BY <1>1, <4>1, RateLimitAssumption DEF UsedUp, w
      <4>3. Allow(c) /\ c \notin forgotten
        BY <2>1, <4>2
      <4>4. allowed[c] \in [Ages -> Nat] /\ 0 \in Ages /\ c \in DOMAIN allowed
        BY RateLimitAssumption DEF LimitInv, LimitTypeOK, Ages
      <4>5. allowed'[c] = [allowed[c] EXCEPT ![0] = @ + 1]
        BY <4>3, <4>4 DEF Allow
      <4> QED BY <4>1, <4>4, <4>5
    <3> QED BY <3>1, <3>2
  <2> DEFINE f == allowed'[c]
  <2>6. /\ SumFunctionOnSet(f, 0..w.age) <= w.count + 1
        /\ SumFunctionOnSet(f, 0..w.age) <= Limit
        /\ SumFunctionOnSet(f, (w.age + 1)..(Minute - 1)) <= Limit
    <3>1. \A i \in Ages : f[i] \in Nat
      BY <2>4
    <3>2. \/ w.count < Limit /\ f[0] = allowed[c][0] + 1
             /\ \A i \in Ages : i # 0 => f[i] = allowed[c][i]
          \/ w.count = Limit /\ f = allowed[c]
      BY <2>5
    <3>3. w.count \in 0..Limit
      BY <1>1
    <3> HIDE DEF f
    <3> QED BY <2>1, <2>3, <3>1, <3>2, <3>3, CountKeeps
  <2> QED BY <2>2, <2>6
<1>6. LimitKept'
  <2> SUFFICES ASSUME NEW d \in Client, d \notin forgotten'
               PROVE  (IF d \in Active
                       THEN LET v == windows[d]
                            IN  /\ SumFunctionOnSet(allowed[d], 0..v.age) <= v.count
                                /\ SumFunctionOnSet(allowed[d], 0..v.age) <= Limit
                                /\ SumFunctionOnSet(allowed[d], (v.age + 1)..(Minute - 1)) <= Limit
                       ELSE allowed[d][0] = 0 /\ SumFunctionOnSet(allowed[d], Ages) <= Limit)'
    BY DEF LimitKept
  <2>1. CASE d # c
    BY <1>4, <2>1 DEF Ages
  <2>2. CASE d = c
    <3>1. windows'[c].age = w.age /\ windows'[c].count = w.count + 1
      BY <1>2
    <3> QED BY <1>5, <2>2, <3>1
  <2> QED BY <2>1, <2>2
<1> QED BY <1>3, <1>6 DEF LimitInv


LEMMA LocalRequestKeeps ==
    ASSUME LimitInv, NEW c \in Client, LocalRequest(c)
    PROVE  LimitInv'
<1>1. PICK K \in Kept :
         LET table == Restrict(windows, K)
         IN  /\ ~redis
             /\ forgotten' = forgotten \cup (Active \ K)
             /\ IF UsedUp(table, c)
                THEN windows' = table /\ UNCHANGED allowed
                ELSE CountOne(table, c) /\ Allow(c)
             /\ UNCHANGED redis
  BY DEF LocalRequest
<1> DEFINE table == Restrict(windows, K)
<1>2. K \subseteq DOMAIN windows
  BY DEF Kept, NewestOf, Active
<1>3. DOMAIN table = K /\ \A d \in K : table[d] = windows[d]
  BY DEF Restrict
<1>4. CASE UsedUp(table, c)
  <2>1. windows' = table /\ allowed' = allowed
    BY <1>1, <1>4
  <2>2. DOMAIN windows' = K /\ \A d \in K : windows'[d] = windows[d]
    BY <1>3, <2>1
  <2>3. LimitTypeOK'
    BY <1>1, <1>2, <2>1, <2>2 DEF LimitInv, LimitTypeOK, Active
  <2>4. LimitKept'
    <3> SUFFICES ASSUME NEW d \in Client, d \notin forgotten'
                 PROVE  (IF d \in Active
                         THEN LET v == windows[d]
                              IN  /\ SumFunctionOnSet(allowed[d], 0..v.age) <= v.count
                                  /\ SumFunctionOnSet(allowed[d], 0..v.age) <= Limit
                                  /\ SumFunctionOnSet(allowed[d], (v.age + 1)..(Minute - 1)) <= Limit
                         ELSE allowed[d][0] = 0 /\ SumFunctionOnSet(allowed[d], Ages) <= Limit)'
      BY DEF LimitKept
    <3>1. /\ forgotten' = forgotten \cup (Active \ K)
          /\ d \in DOMAIN windows' <=> d \in K
          /\ d \in K => windows'[d] = windows[d]
          /\ allowed'[d] = allowed[d]
      BY <1>1, <2>1, <2>2
    <3> QED BY <1>2, <3>1, PruningKeeps DEF Ages
  <2> QED BY <2>3, <2>4 DEF LimitInv
<1>5. CASE ~ UsedUp(table, c)
  <2>1. /\ forgotten' = forgotten \cup (Active \ K) /\ redis' = redis
        /\ CountOne(table, c) /\ Allow(c)
    BY <1>1, <1>5
  <2>2. Counted(table, c).count <= Limit
    <3>1. Counted(table, c).count \in Int
      BY <1>2, <1>3 DEF Counted, LimitInv, LimitTypeOK
    <3> QED BY <1>5, <3>1, RateLimitAssumption DEF UsedUp
  <2> HIDE DEF table
  <2> QED BY <1>2, <1>3, <1>5, <2>1, <2>2, CountStep
<1> QED BY <1>4, <1>5

LEMMA RedisRequestKeeps ==
    ASSUME LimitInv, NEW c \in Client, RedisRequest(c)
    PROVE  LimitInv'
<1> DEFINE K == DOMAIN windows
<1>1. /\ forgotten' = forgotten \cup (Active \ K) /\ redis' = redis
      /\ Counted(windows, c).count <= Limit /\ CountOne(windows, c)
      /\ IF UsedUp(windows, c) THEN UNCHANGED allowed ELSE Allow(c)
  BY DEF RedisRequest, Active
<1> QED BY <1>1, CountStep

\* A unit of time later.
LEMMA LimitTickKeeps ==
    ASSUME LimitInv, LimitTick
    PROVE  LimitInv'
<1> DEFINE aged == [c \in DOMAIN windows |->
                       [windows[c] EXCEPT !.age = IF @ < Minute THEN @ + 1 ELSE @]]
<1>1. ASSUME NEW c \in DOMAIN windows
      PROVE  /\ windows[c].age \in 0..Minute /\ windows[c].count \in 1..(Limit + 1)
             /\ windows[c].age < Minute => aged[c].age = windows[c].age + 1
             /\ windows[c].age = Minute => aged[c].age = Minute
             /\ aged[c].age \in 0..Minute /\ aged[c].count = windows[c].count
             /\ aged[c] \in [age : 0..Minute, count : 1..(Limit + 1)]
  <2> DEFINE w == windows[c]
             x == IF w.age < Minute THEN w.age + 1 ELSE w.age
  <2>1. w.age \in 0..Minute /\ w.count \in 1..(Limit + 1) /\ w = [age |-> w.age, count |-> w.count]
    BY DEF LimitInv, LimitTypeOK
  <2>2. aged[c] = [w EXCEPT !.age = x]
    OBVIOUS
  <2> HIDE DEF w, aged
  <2>3. aged[c] = [age |-> x, count |-> w.count]
    BY <2>1, <2>2
  <2>4. x \in 0..Minute /\ (w.age < Minute => x = w.age + 1) /\ (w.age = Minute => x = Minute)
    BY <2>1, RateLimitAssumption
  <2> HIDE DEF x
  <2> QED BY <2>1, <2>3, <2>4 DEF w
<1>2. /\ DOMAIN windows' \subseteq DOMAIN windows
      /\ \A c \in DOMAIN windows' : windows'[c] = aged[c]
      /\ \A c \in DOMAIN windows : c \in DOMAIN windows' \/ aged[c].age >= Minute
  <2>1. DOMAIN aged = DOMAIN windows
    OBVIOUS
  <2>2. windows' = IF redis THEN Restrict(aged, {c \in DOMAIN aged : aged[c].age < Minute}) ELSE aged
    BY DEF LimitTick
  <2>3. \A c \in DOMAIN windows : aged[c].age \in Int
    BY <1>1
  <2> HIDE DEF aged
  <2> QED BY <2>1, <2>2, <2>3, RateLimitAssumption DEF Restrict
<1> HIDE DEF aged
<1>3. \A c \in Client : allowed'[c] = [i \in 0..(Minute - 1) |-> IF i = 0 THEN 0 ELSE allowed[c][i - 1]]
  BY DEF LimitTick
<1>4. LimitTypeOK'
  <2>1. redis' = redis /\ forgotten' = forgotten
    BY DEF LimitTick
  <2>2. allowed' \in [Client -> [0..(Minute - 1) -> Nat]]
    <3>1. \A c \in Client : allowed'[c] \in [0..(Minute - 1) -> Nat]
      <4> SUFFICES ASSUME NEW c \in Client PROVE allowed'[c] \in [0..(Minute - 1) -> Nat]
        OBVIOUS
      <4> DEFINE f == allowed[c]
      <4>1. \A i \in 0..(Minute - 1) : f[i] \in Nat
        BY ClientType DEF LimitInv, Ages
      <4>2. allowed'[c] = [i \in 0..(Minute - 1) |-> IF i = 0 THEN 0 ELSE f[i - 1]]
        BY <1>3
      <4> HIDE DEF f
      <4>3. \A i \in 0..(Minute - 1) : (IF i = 0 THEN 0 ELSE f[i - 1]) \in Nat
        BY <4>1, RateLimitAssumption
      <4> QED BY <4>2, <4>3
    <3>2. allowed' = [c \in Client |-> allowed'[c]]
      BY DEF LimitTick
    <3> QED BY <3>1, <3>2
  <2>3. \A c \in DOMAIN windows' : windows'[c] \in [age : 0..Minute, count : 1..(Limit + 1)]
    BY <1>1, <1>2, RateLimitAssumption
  <2> QED BY <1>2, <2>1, <2>2, <2>3 DEF LimitInv, LimitTypeOK
<1>5. LimitKept'
  <2> SUFFICES ASSUME NEW d \in Client, d \notin forgotten'
               PROVE  (IF d \in Active
                       THEN LET v == windows[d]
                            IN  /\ SumFunctionOnSet(allowed[d], 0..v.age) <= v.count
                                /\ SumFunctionOnSet(allowed[d], 0..v.age) <= Limit
                                /\ SumFunctionOnSet(allowed[d], (v.age + 1)..(Minute - 1)) <= Limit
                       ELSE allowed[d][0] = 0 /\ SumFunctionOnSet(allowed[d], Ages) <= Limit)'
    BY DEF LimitKept
  <2> DEFINE f == allowed[d]
             g == allowed'[d]
  <2>1. /\ d \notin forgotten /\ 0 \in Ages
        /\ \A i \in Ages : f[i] \in Nat
        /\ \A i \in Ages : i # 0 => g[i] = f[i - 1]
        /\ g[0] = 0
        /\ \A i \in Ages : g[i] \in Nat
    <3>1. \A i \in Ages : f[i] \in Nat
      BY ClientType DEF LimitInv
    <3>2. \A i \in Ages : g[i] \in Nat
      BY <1>4, ClientType DEF LimitTypeOK, Ages
    <3>3. d \notin forgotten /\ 0 \in Ages
      BY RateLimitAssumption DEF LimitTick, Ages
    <3>4. g = [i \in Ages |-> IF i = 0 THEN 0 ELSE f[i - 1]]
      BY <1>3 DEF Ages
    <3> HIDE DEF f, g
    <3> QED BY <3>1, <3>2, <3>3, <3>4
  <2> HIDE DEF f, g
  <2>2. \A b \in 0..(Minute - 2) :
           SumFunctionOnSet(g, 0..(b + 1)) <= SumFunctionOnSet(f, 0..b)
    <3> SUFFICES ASSUME NEW b \in 0..(Minute - 2)
                 PROVE  SumFunctionOnSet(g, 0..(b + 1)) <= SumFunctionOnSet(f, 0..b)
      OBVIOUS
    <3> DEFINE B == 0..(b + 1)
    <3>1. IsFiniteSet(B) /\ 0 \in B /\ B \ {0} = 1..(b + 1) /\ \A i \in B : g[i] \in Int
      <4>1. IsFiniteSet(B)
        BY SpansFinite
      <4> QED BY <2>1, <4>1, RateLimitAssumption DEF Ages
    <3>2. SumFunctionOnSet(g, B) = g[0] + SumFunctionOnSet(g, B \ {0})
      <4> HIDE DEF B
      <4> QED BY <3>1, SumTakeOut
    <3>3. SumFunctionOnSet(g, 1..(b + 1)) = SumFunctionOnSet(f, 0..b)
      <4>1. SumFunctionOnSet(g, (0 + 1)..(b + 1)) = SumFunctionOnSet(f, 0..b)
        <5>1. b \in Int /\ b < Minute - 1
          BY RateLimitAssumption
        <5> QED BY <2>1, <5>1, SpanAge
      <4> QED BY <4>1
    <3>4. SumFunctionOnSet(f, 0..b) \in Nat
      BY <2>1, SpanType, RateLimitAssumption
    <3>5. SumFunctionOnSet(g, B) = 0 + SumFunctionOnSet(f, 0..b)
      BY <2>1, <3>1, <3>2, <3>3
    <3> QED BY <3>4, <3>5
  <2>3. ASSUME NEW x \in Nat, x <= Limit, SumFunctionOnSet(f, 0..(Minute - 1)) <= x
        PROVE  SumFunctionOnSet(g, Ages) <= x
    <3>1. CASE Minute = 1
      <4>1. Ages = {0} /\ IsFiniteSet({0}) /\ \A i \in {0} : g[i] = 0
        BY <2>1, <3>1, FS_Singleton DEF Ages
      <4>2. SumFunctionOnSet(g, {0}) = 0
        BY <4>1, SumOfZeros
      <4> QED BY <4>1, <4>2
    <3>2. CASE Minute # 1
      <4>1. Minute - 2 \in Nat /\ Minute - 2 + 1 = Minute - 1 /\ Minute - 2 \in 0..(Minute - 2)
        BY <3>2, RateLimitAssumption
      <4>2. SumFunctionOnSet(g, 0..(Minute - 1)) <= SumFunctionOnSet(f, 0..(Minute - 2))
        BY <2>2, <4>1
      <4>3. SumFunctionOnSet(f, 0..(Minute - 2)) <= SumFunctionOnSet(f, 0..(Minute - 1))
        BY <2>1, <4>1, SpanPart, RateLimitAssumption
      <4>4. SumFunctionOnSet(f, 0..(Minute - 2)) \in Nat /\ SumFunctionOnSet(f, 0..(Minute - 1)) \in Nat
        BY <2>1, <4>1, SpanType, RateLimitAssumption
      <4>5. SumFunctionOnSet(g, 0..(Minute - 1)) \in Nat
        BY <2>1, SpanType
      <4> QED BY <2>3, <4>2, <4>3, <4>4, <4>5 DEF Ages
    <3> QED BY <3>1, <3>2
  <2>0. d \in Active => /\ d \in DOMAIN windows /\ windows[d].age \in Ages
                         /\ windows[d].count \in 1..(Limit + 1)
    BY ClientType DEF LimitInv, Active
  <2>4. CASE d \in Active /\ windows[d].age < Minute - 1
    <3> DEFINE a == windows[d].age
    <3>1. /\ a \in 0..(Minute - 2) /\ a + 1 \in Ages
          /\ d \in Active' /\ windows'[d].age = a + 1 /\ windows'[d].count = windows[d].count
      <4>1. a \in 0..(Minute - 2) /\ a < Minute /\ a + 1 \in Ages /\ a + 1 < Minute /\ ~ (a + 1 >= Minute)
        BY <2>0, <2>4, RateLimitAssumption DEF Ages
      <4>2. aged[d].age = a + 1 /\ aged[d].count = windows[d].count
        BY <1>1, <2>0, <2>4, <4>1
      <4>3. d \in DOMAIN windows' /\ windows'[d] = aged[d]
        BY <1>2, <2>0, <2>4, <4>1, <4>2
      <4> QED BY <4>1, <4>2, <4>3 DEF Active
    <3>2. /\ SumFunctionOnSet(f, 0..a) <= windows[d].count
          /\ SumFunctionOnSet(f, 0..a) <= Limit
          /\ SumFunctionOnSet(f, (a + 1)..(Minute - 1)) <= Limit
      BY <2>1, <2>4 DEF LimitInv, LimitKept, f
    <3>3. windows[d].count \in Nat
      BY <2>0, <2>4, RateLimitAssumption
    <3> HIDE DEF a
    <3>4. SumFunctionOnSet(g, 0..(a + 1)) <= SumFunctionOnSet(f, 0..a)
      BY <2>2, <3>1
    <3>0. a \in Nat /\ a + 1 \in Nat /\ (a + 1) + 1 \in Nat /\ a < Minute /\ a + 1 < Minute
      BY <3>1, RateLimitAssumption
    <3>5. SumFunctionOnSet(f, 0..a) \in Nat /\ SumFunctionOnSet(g, 0..(a + 1)) \in Nat
      BY <2>1, <3>0, SpanType
    <3>6. SumFunctionOnSet(g, ((a + 1) + 1)..(Minute - 1)) <= Limit
      <4>1. SumFunctionOnSet(g, ((a + 1) + 1)..((Minute - 2) + 1)) = SumFunctionOnSet(f, (a + 1)..(Minute - 2))
        <5>1. a + 1 \in Nat /\ Minute - 2 \in Int /\ Minute - 2 < Minute - 1
          BY <3>1, RateLimitAssumption
        <5> QED BY <2>1, <5>1, SpanAge
      <4>2. SumFunctionOnSet(f, (a + 1)..(Minute - 2)) <= SumFunctionOnSet(f, (a + 1)..(Minute - 1))
        BY <2>1, <3>1, SpanPart, RateLimitAssumption
      <4>3. SumFunctionOnSet(f, (a + 1)..(Minute - 1)) \in Nat
        BY <2>1, <3>0, SpanType
      <4>4. SumFunctionOnSet(g, ((a + 1) + 1)..(Minute - 1)) \in Nat
        BY <2>1, <3>0, SpanType
      <4>5. (Minute - 2) + 1 = Minute - 1
        BY RateLimitAssumption
      <4>6. SumFunctionOnSet(g, ((a + 1) + 1)..(Minute - 1)) = SumFunctionOnSet(f, (a + 1)..(Minute - 2))
        BY <4>1, <4>5
      <4> QED BY <3>2, <4>2, <4>3, <4>4, <4>6, RateLimitAssumption
    <3>7. SumFunctionOnSet(g, 0..(a + 1)) <= windows[d].count /\ SumFunctionOnSet(g, 0..(a + 1)) <= Limit
      BY <3>2, <3>3, <3>4, <3>5, RateLimitAssumption
    <3> QED BY <3>1, <3>6, <3>7 DEF g
  <2>5. CASE d \in Active /\ ~ (windows[d].age < Minute - 1)
    <3>1. windows[d].age = Minute - 1 /\ d \notin Active'
      <4>1. windows[d].age = Minute - 1 /\ windows[d].age < Minute /\ (Minute - 1) + 1 = Minute
        BY <2>0, <2>5, RateLimitAssumption DEF Ages
      <4>2. aged[d].age = Minute
        BY <1>1, <2>0, <2>5, <4>1
      <4> QED BY <1>2, <4>1, <4>2, RateLimitAssumption DEF Active
    <3>2. SumFunctionOnSet(f, 0..(Minute - 1)) <= Limit
      BY <2>1, <2>5, <3>1 DEF LimitInv, LimitKept, f
    <3>3. SumFunctionOnSet(g, Ages) <= Limit
      BY <2>3, <3>2, RateLimitAssumption
    <3> QED BY <2>1, <3>1, <3>3 DEF g, Ages
  <2>6. CASE d \notin Active
    <3>1. d \notin Active'
      <4>1. d \in DOMAIN windows' => d \in DOMAIN windows /\ windows'[d] = aged[d]
        BY <1>2
      <4>2. d \in DOMAIN windows => windows[d].age = Minute
        <5>1. d \in DOMAIN windows => windows[d].age \in 0..Minute
          BY <1>1
        <5> QED BY <2>6, <5>1, RateLimitAssumption DEF Active
      <4>3. d \in DOMAIN windows => aged[d].age = Minute
        BY <1>1, <4>2
      <4> QED BY <4>1, <4>3, RateLimitAssumption DEF Active
    <3>2. SumFunctionOnSet(f, 0..(Minute - 1)) <= Limit
      BY <2>1, <2>6 DEF LimitInv, LimitKept, f, Ages
    <3>3. SumFunctionOnSet(g, Ages) <= Limit
      BY <2>3, <3>2, RateLimitAssumption
    <3> QED BY <2>1, <3>1, <3>3 DEF g, Ages
  <2> QED BY <2>4, <2>5, <2>6
<1> QED BY <1>4, <1>5 DEF LimitInv


LEMMA LimitStep ==
    ASSUME LimitInv, [LimitNext]_limitVars
    PROVE  LimitInv'
<1>1. CASE UNCHANGED limitVars
  BY <1>1 DEF limitVars, LimitInv, LimitTypeOK, LimitKept, Active
<1> QED BY <1>1, LocalRequestKeeps, RedisRequestKeeps, LimitTickKeeps DEF LimitNext

\* Within any minute, a client of which no window was dropped gets at most two windows' worth
\* of transactions through, with the table of the process or with the counters of Redis
\* (_allow_public_transaction).
THEOREM TwoWindows == LimitSpec => []AtMostTwoWindows
<1>1. LimitInv => AtMostTwoWindows
  <2> SUFFICES ASSUME LimitInv, NEW c \in Client \ forgotten
               PROVE  SumFunctionOnSet(allowed[c], 0..(Minute - 1)) <= 2 * Limit
    BY DEF AtMostTwoWindows
  <2> DEFINE f == allowed[c]
             a == windows[c].age
  <2>1. \A i \in Ages : f[i] \in Nat
    BY ClientType DEF LimitInv
  <2>2. CASE c \in Active
    <3>1. a \in Ages /\ a \in Nat /\ a + 1 \in Nat /\ a < Minute
      <4>1. a \in Ages
        BY <2>2, ClientType DEF LimitInv
      <4> HIDE DEF a
      <4> QED BY <4>1, RateLimitAssumption DEF Ages
    <3>2. SumFunctionOnSet(f, 0..a) <= Limit /\ SumFunctionOnSet(f, (a + 1)..(Minute - 1)) <= Limit
      BY <2>2 DEF LimitInv, LimitKept
    <3> HIDE DEF f, a
    <3>3. SumFunctionOnSet(f, 0..a) \in Nat /\ SumFunctionOnSet(f, (a + 1)..(Minute - 1)) \in Nat
      BY <2>1, <3>1, SpanType
    <3>4. SumFunctionOnSet(f, Ages)
          = SumFunctionOnSet(f, 0..a) + SumFunctionOnSet(f, (a + 1)..(Minute - 1))
      BY <2>1, <3>1, SpanSplit
    <3> QED BY <3>2, <3>3, <3>4, RateLimitAssumption DEF f, Ages
  <2>3. CASE c \notin Active
    <3>1. SumFunctionOnSet(f, 0..(Minute - 1)) <= Limit
      BY <2>3 DEF LimitInv, LimitKept, Ages
    <3> HIDE DEF f
    <3>2. SumFunctionOnSet(f, 0..(Minute - 1)) \in Nat
      BY <2>1, SpanType
    <3> QED BY <3>1, <3>2, RateLimitAssumption DEF f
  <2> QED BY <2>2, <2>3
<1> QED BY <1>1, LimitStarts, LimitStep, PTL DEF LimitSpec


\* The table of the process holds one window more than the cap at most, however many clients
\* come (_allow_public_transaction).
THEOREM TableStaysBounded == LimitSpec => []TableBounded
<1> DEFINE Bounded == IsFiniteSet(DOMAIN windows) /\ TableBounded
<1>1. LimitInit => Bounded
  <2>1. LimitInit => DOMAIN windows = {}
    BY DEF LimitInit
  <2> QED BY <2>1, FS_EmptySet, RateLimitAssumption DEF TableBounded
<1>2. LimitInv /\ Bounded /\ [LimitNext]_limitVars => Bounded'
  <2> SUFFICES ASSUME LimitInv, Bounded, [LimitNext]_limitVars PROVE Bounded'
    OBVIOUS
  <2>0. redis' = redis /\ DOMAIN windows' \subseteq Client /\ IsFiniteSet(DOMAIN windows')
    <3>1. redis' = redis
      BY DEF LimitNext, LimitTick, LocalRequest, RedisRequest, limitVars
    <3>2. DOMAIN windows' \subseteq Client
      BY LimitStep DEF LimitInv, LimitTypeOK
    <3> QED BY <3>1, <3>2, FS_Subset, RateLimitAssumption
  <2> SUFFICES ASSUME ~redis PROVE Cardinality(DOMAIN windows') <= TableCap + 1
    BY <2>0 DEF TableBounded
  <2>1. CASE UNCHANGED limitVars
    BY <2>1 DEF limitVars, TableBounded
  <2>2. CASE LimitTick
    BY <2>2 DEF LimitTick, TableBounded
  <2>3. ASSUME NEW c \in Client, LocalRequest(c) PROVE Cardinality(DOMAIN windows') <= TableCap + 1
    <3>1. PICK K \in Kept : DOMAIN windows' \subseteq K \cup {c}
      BY <2>3 DEF LocalRequest, CountOne, Restrict
    <3>2. K \subseteq DOMAIN windows /\ Active \subseteq DOMAIN windows
      BY DEF Kept, NewestOf, Active
    <3>3. IsFiniteSet(K) /\ Cardinality(K) \in Nat
      BY <3>2, FS_Subset, FS_CardinalityType
    <3>4. Cardinality(K) <= TableCap
      BY RateLimitAssumption DEF Kept, NewestOf
    <3>5. /\ IsFiniteSet(K \cup {c})
          /\ Cardinality(K \cup {c}) <= Cardinality(K) + 1
          /\ Cardinality(K \cup {c}) \in Nat
      <4>1. CASE c \in K
        <5>1. K \cup {c} = K
          BY <4>1
        <5>2. IsFiniteSet(K) /\ Cardinality(K) <= Cardinality(K) + 1 /\ Cardinality(K) \in Nat
          BY <3>3
        <5> QED BY <5>1, <5>2, Zenon
      <4>2. CASE c \notin K
        <5>1. IsFiniteSet(K \cup {c}) /\ Cardinality(K \cup {c}) = Cardinality(K) + 1
          BY <3>3, <4>2, FS_AddElement
        <5> QED BY <3>3, <5>1
      <4> QED BY <4>1, <4>2
    <3>6. Cardinality(DOMAIN windows') <= Cardinality(K \cup {c}) /\ Cardinality(DOMAIN windows') \in Nat
      BY <2>0, <3>1, <3>5, FS_Subset, FS_CardinalityType
    <3> QED BY <3>3, <3>4, <3>5, <3>6, RateLimitAssumption
  <2>4. ASSUME NEW c \in Client, RedisRequest(c) PROVE FALSE
    BY <2>4 DEF RedisRequest
  <2> QED BY <2>1, <2>2, <2>3, <2>4 DEF LimitNext
<1>3. Bounded => TableBounded
  OBVIOUS
<1> QED BY <1>1, <1>2, <1>3, LimitStarts, LimitStep, PTL DEF LimitSpec

-----------------------------------------------------------------------------
(* Emission. *)

Policy == [initial : Nat, interval : Nat, cap : Nat]

LEMMA HalvedIs ==
    ASSUME NEW n
    PROVE  \A k \in 0..HalvingCutoff :
               Halved(n)[k] = IF k = 0 THEN n ELSE Halved(n)[k - 1] \div 2
<1> DEFINE C == HalvingCutoff
           Next(f, k) == IF k = 0 THEN n ELSE f[k - 1] \div 2
           Right(f, m) == /\ f = [k \in 0..C |-> f[k]]
                          /\ \A k \in 0..C : k <= m => f[k] = Next(f, k)
           T == {m \in Nat : \E f : Right(f, m)}
           P(f) == f = [k \in 0..C |-> IF k = 0 THEN n ELSE f[k - 1] \div 2]
<1>0. C \in Nat
  BY CurrencyAssumption
<1>1. 0 \in T
  <2> DEFINE f == [k \in 0..C |-> n]
  <2>1. f = [k \in 0..C |-> f[k]]
    OBVIOUS
  <2>2. \A k \in 0..C : k <= 0 => f[k] = Next(f, k)
    BY <1>0
  <2>3. Right(f, 0)
    <3> HIDE DEF f, Next
    <3> QED BY <2>1, <2>2
  <2> HIDE DEF f, Right
  <2> QED BY <2>3
<1>2. ASSUME NEW m \in Nat, m \in T
      PROVE  m + 1 \in T
  <2>1. PICK f : Right(f, m)
    BY <1>2
  <2> DEFINE h == [k \in 0..C |-> IF k <= m THEN f[k] ELSE Next(f, k)]
  <2>2. ASSUME NEW k \in 0..C, k <= m + 1
        PROVE  h[k] = Next(h, k)
    <3>1. h[k] = Next(f, k)
      <4>1. CASE k <= m
        BY <4>1, <2>1
      <4>2. CASE ~ (k <= m)
        BY <4>2
      <4> QED BY <4>1, <4>2
    <3>2. k # 0 => h[k - 1] = f[k - 1]
      BY <1>0, <2>2
    <3> HIDE DEF h
    <3> QED BY <3>1, <3>2
  <2>3. Right(h, m + 1)
    <3>1. h = [k \in 0..C |-> h[k]]
      OBVIOUS
    <3> HIDE DEF h, Next
    <3> QED BY <3>1, <2>2
  <2> HIDE DEF h, Right
  <2> QED BY <2>3
<1>3. C \in T
  <2> HIDE DEF T
  <2> QED BY <1>0, <1>1, <1>2, InductionOnNat
<1>4. PICK f : Right(f, C)
  BY <1>3
<1>5. P(f)
  <2>1. f = [k \in 0..C |-> f[k]]
    BY <1>4
  <2>2. \A k \in 0..C : f[k] = IF k = 0 THEN n ELSE f[k - 1] \div 2
    <3>1. ASSUME NEW k \in 0..C
          PROVE  f[k] = Next(f, k)
      <4>1. k <= C
        BY <1>0
      <4> HIDE DEF Next
      <4> QED BY <1>4, <4>1
    <3> QED BY <3>1
  <2> QED BY <2>1, <2>2
<1>6. Halved(n) = CHOOSE g : P(g)
  BY DEF Halved
<1>7. P(Halved(n))
  <2> HIDE DEF P
  <2> QED BY <1>5, <1>6
<1>8. Halved(n) = [k \in 0..C |-> IF k = 0 THEN n ELSE Halved(n)[k - 1] \div 2]
  BY <1>7
<1> QED BY <1>8

LEMMA HalvedFalls ==
    ASSUME NEW n \in Nat
    PROVE  /\ \A k \in 0..HalvingCutoff : Halved(n)[k] \in Nat
           /\ \A k, j \in 0..HalvingCutoff : k <= j /\ Halved(n)[k] = 0 => Halved(n)[j] = 0
<1> DEFINE C == HalvingCutoff
           f == Halved(n)
           T == {k \in Nat : k <= C => f[k] \in Nat}
<1>0. C \in Nat
  BY CurrencyAssumption
<1>1. \A k \in 0..C : f[k] = IF k = 0 THEN n ELSE f[k - 1] \div 2
  BY HalvedIs
<1> HIDE DEF f
<1>2. 0 \in T
  BY <1>0, <1>1
<1>3. ASSUME NEW k \in Nat, k \in T
      PROVE  k + 1 \in T
  <2>1. CASE k + 1 <= C
    <3>1. f[k] \in Nat /\ f[k + 1] = f[k] \div 2
      BY <1>0, <1>1, <1>3, <2>1
    <3>2. f[k] \div 2 \in Nat
      BY <3>1
    <3> QED BY <3>1, <3>2
  <2>2. CASE ~ (k + 1 <= C)
    BY <2>2
  <2> QED BY <2>1, <2>2
<1>4. \A k \in Nat : k \in T
  <2> HIDE DEF T
  <2> QED BY <1>2, <1>3, InductionOnNat
<1>5. \A k \in 0..C : f[k] \in Nat
  BY <1>0, <1>4
<1>6. ASSUME NEW k \in 0..C, f[k] = 0
      PROVE  \A j \in 0..C : k <= j => f[j] = 0
  <2> DEFINE R == {d \in Nat : k + d <= C => f[k + d] = 0}
  <2>1. 0 \in R
    BY <1>0, <1>6
  <2>2. ASSUME NEW d \in Nat, d \in R
        PROVE  d + 1 \in R
    <3>1. CASE k + (d + 1) <= C
      <4>1. k + d \in 0..C /\ k + (d + 1) \in 0..C /\ (k + (d + 1)) - 1 = k + d /\ k + (d + 1) # 0
        BY <1>0, <3>1
      <4>2. f[k + d] = 0
        BY <2>2, <4>1, <1>0
      <4>3. f[k + (d + 1)] = f[k + d] \div 2
        BY <1>1, <4>1
      <4> QED BY <4>2, <4>3
    <3>2. CASE ~ (k + (d + 1) <= C)
      BY <3>2
    <3> QED BY <3>1, <3>2
  <2>3. \A d \in Nat : d \in R
    <3> HIDE DEF R
    <3> QED BY <2>1, <2>2, InductionOnNat
  <2>4. ASSUME NEW j \in 0..C, k <= j
        PROVE  f[j] = 0
    <3>1. j - k \in Nat /\ k + (j - k) = j /\ j <= C
      BY <1>0, <2>4
    <3>2. j - k \in R
      BY <2>3, <3>1
    <3>3. k + (j - k) <= C => f[k + (j - k)] = 0
      BY <3>2
    <3> QED BY <3>1, <3>3
  <2> QED BY <2>4
<1> QED BY <1>5, <1>6 DEF f

LEMMA Dividing ==
    ASSUME NEW k \in Nat, NEW d \in Nat, d > 0
    PROVE  k \div d \in Nat /\ (k \div d) * d <= k /\ k < (k \div d) * d + d
OBVIOUS

LEMMA DividedAlike ==
    ASSUME NEW k \in Nat, NEW d \in Nat, d > 0, NEW j \in Nat, k <= j
    PROVE  /\ k \div d <= j \div d
           /\ j < (k \div d + 1) * d => j \div d = k \div d
OBVIOUS
LEMMA SubsidyFalls ==
    ASSUME NEW p \in Policy
    PROVE  /\ \A k \in Nat : UncappedSubsidy(p, k) \in Nat
           /\ \A k, j \in Nat : k > 0 /\ k <= j /\ UncappedSubsidy(p, k) = 0
                                  => UncappedSubsidy(p, j) = 0
           /\ p.interval > 0 =>
                 \A k, j \in Nat : k > 0 /\ k <= j /\ j \div p.interval = k \div p.interval
                                       => UncappedSubsidy(p, j) = UncappedSubsidy(p, k)
           /\ p.interval = 0 => \A k \in Nat : k > 0 => UncappedSubsidy(p, k) = p.initial
<1>0. HalvingCutoff \in Nat /\ p.initial \in Nat /\ p.interval \in Nat
  BY CurrencyAssumption DEF Policy
<1>1. CASE p.interval = 0
  BY <1>0, <1>1 DEF UncappedSubsidy
<1>2. CASE p.interval > 0
  <2> DEFINE I == p.interval
             f == Halved(p.initial)
             u(k) == IF k <= 0 \/ k \div I >= HalvingCutoff THEN 0 ELSE f[k \div I]
  <2>1. \A k \in Nat : UncappedSubsidy(p, k) = u(k)
    BY <1>0, <1>2 DEF UncappedSubsidy
  <2>2. /\ \A k \in 0..HalvingCutoff : f[k] \in Nat
        /\ \A k, j \in 0..HalvingCutoff : k <= j /\ f[k] = 0 => f[j] = 0
    BY <1>0, HalvedFalls
  <2> HIDE DEF f
  <2>3. \A k \in Nat : u(k) \in Nat
    BY <1>0, <1>2, <2>2, Dividing
  <2>4. ASSUME NEW k \in Nat, NEW j \in Nat, k > 0, k <= j, u(k) = 0
        PROVE  u(j) = 0
    <3>1. k \div I \in Nat /\ j \div I \in Nat /\ k \div I <= j \div I
      BY <1>0, <1>2, <2>4, Dividing, DividedAlike
    <3>2. CASE j \div I >= HalvingCutoff
      BY <3>2
    <3>3. CASE ~ (j \div I >= HalvingCutoff)
      <4>1. k \div I \in 0..HalvingCutoff /\ j \div I \in 0..HalvingCutoff
        BY <1>0, <3>1, <3>3
      <4>2. f[k \div I] = 0
        BY <1>0, <2>4, <3>1, <3>3
      <4> QED BY <2>2, <3>1, <4>1, <4>2
    <3> QED BY <3>2, <3>3
  <2>5. ASSUME NEW k \in Nat, NEW j \in Nat, k > 0, k <= j, j \div I = k \div I
        PROVE  u(j) = u(k)
    BY <2>5
  <2> HIDE DEF u
  <2> QED BY <1>2, <2>1, <2>3, <2>4, <2>5
<1> QED BY <1>0, <1>1, <1>2

\* From height k to the end of its stretch the subsidy is the same.
LEMMA SameInStretch ==
    ASSUME NEW p \in Policy, NEW h \in Nat, NEW k \in 1..h, p.interval > 0
    PROVE  /\ SegmentEnd(p, k, h) \in k..h
           /\ \A j \in k..SegmentEnd(p, k, h) : UncappedSubsidy(p, j) = UncappedSubsidy(p, k)
<1> DEFINE I == p.interval
           next == (k \div I + 1) * I
           e == SegmentEnd(p, k, h)
<1>0. I \in Nat /\ k \in Nat /\ k > 0 /\ k <= h
  BY DEF Policy
<1>1. k \div I \in Nat /\ (k \div I) * I <= k /\ k < (k \div I) * I + I
  BY <1>0, Dividing
<1>2. next \in Nat /\ k < next
  <2>1. next = (k \div I) * I + I
    BY <1>0, <1>1
  <2>2. (k \div I) * I \in Nat
    BY <1>0, <1>1
  <2> HIDE DEF next
  <2> QED BY <1>0, <1>1, <2>1, <2>2
<1>3. e = Least(h, Greatest(k, next - 1))
  BY DEF SegmentEnd
<1> HIDE DEF next, e
<1>4. e \in k..h /\ e < next
  BY <1>0, <1>2, <1>3 DEF Least, Greatest
<1>5. ASSUME NEW j \in k..e
      PROVE  UncappedSubsidy(p, j) = UncappedSubsidy(p, k)
  <2>1. j \in Nat /\ k <= j /\ j < next
    BY <1>0, <1>2, <1>4
  <2>2. j \div I = k \div I
    BY <1>0, <2>1, DividedAlike DEF next
  <2> QED BY <1>0, <2>1, <2>2, SubsidyFalls
<1> QED BY <1>4, <1>5 DEF e

\* What the blocks up to a height are paid before the cap.
UncappedSubsidies(p, h) == [j \in 1..h |-> UncappedSubsidy(p, j)]

\* The segment-wise closed form is the sum over the blocks: the recursion has the sums as a
\* solution, and no other.
LEMMA ClosedFormIsSum ==
    ASSUME NEW p \in Policy, NEW h \in Nat
    PROVE  CumulativeUncapped(p, h) = SumFunctionOnSet(UncappedSubsidies(p, h), 1..h)
<1> DEFINE u == UncappedSubsidies(p, h)
           Body(g, k) == LET subsidy == UncappedSubsidy(p, k)
                         IN  IF k > h \/ subsidy = 0 THEN 0
                             ELSE IF p.interval = 0 THEN subsidy * (h - k + 1)
                             ELSE subsidy * (SegmentEnd(p, k, h) - k + 1) + g[SegmentEnd(p, k, h) + 1]
           P(g) == g = [k \in 1..(h + 1) |-> LET subsidy == UncappedSubsidy(p, k)
                         IN  IF k > h \/ subsidy = 0 THEN 0
                             ELSE IF p.interval = 0 THEN subsidy * (h - k + 1)
                             ELSE subsidy * (SegmentEnd(p, k, h) - k + 1) + g[SegmentEnd(p, k, h) + 1]]
           W == [k \in 1..(h + 1) |-> SumFunctionOnSet(u, k..h)]
<1>0. p.interval \in Nat /\ (p.interval = 0 \/ p.interval > 0)
  BY DEF Policy
<1>1. \A j \in 1..h : u[j] = UncappedSubsidy(p, j) /\ u[j] \in Nat
  BY SubsidyFalls DEF UncappedSubsidies
<1> HIDE DEF u
<1>2. ASSUME NEW k \in 1..(h + 1)
      PROVE  W[k] = Body(W, k)
  <2>1. CASE k > h
    <3>1. k..h = {}
      BY <2>1
    <3>2. W[k] = 0
      BY <3>1, SumOfNone
    <3> QED BY <2>1, <3>2
  <2>2. CASE k <= h
    <3>1. /\ k \in 1..h /\ k \in Nat /\ k > 0 /\ IsFiniteSet(k..h)
          /\ \A j \in k..h : j \in 1..h
      BY <2>2, FS_Interval
    <3>2. CASE u[k] = 0
      <4>1. \A j \in k..h : u[j] = 0
        BY <1>1, <3>1, <3>2, SubsidyFalls
      <4>2. W[k] = 0
        BY <3>1, <4>1, SumOfZeros
      <4> QED BY <1>1, <3>1, <3>2, <4>2
    <3>3. CASE u[k] # 0 /\ p.interval = 0
      <4>1. \A j \in k..(k + (h - k + 1) - 1) : u[j] = u[k]
        <5>1. k + (h - k + 1) - 1 = h
          BY <3>1
        <5> QED BY <1>1, <3>1, <3>3, <5>1, SubsidyFalls
      <4>2. h - k + 1 \in Nat /\ k + (h - k + 1) - 1 = h
        BY <3>1
      <4>3. SumFunctionOnSet(u, k..(k + (h - k + 1) - 1)) = u[k] * (h - k + 1)
        <5>1. u[k] \in Int /\ k \in Int
          BY <1>1, <3>1
        <5> HIDE DEF W, Body
        <5> QED BY <4>1, <4>2, <5>1, SumOfConstant
      <4>4. W[k] = u[k] * (h - k + 1)
        BY <4>2, <4>3
      <4> HIDE DEF W
      <4> QED BY <1>1, <2>2, <3>1, <3>3, <4>4
    <3>4. CASE u[k] # 0 /\ p.interval > 0
      <4> DEFINE e == SegmentEnd(p, k, h)
      <4>1. e \in k..h /\ \A j \in k..e : UncappedSubsidy(p, j) = UncappedSubsidy(p, k)
        BY <3>1, <3>4, SameInStretch
      <4> HIDE DEF e
      <4>2. /\ e - k + 1 \in Nat /\ k + (e - k + 1) - 1 = e
            /\ k..h = (k..e) \cup ((e + 1)..h) /\ (k..e) \cap ((e + 1)..h) = {}
            /\ e + 1 \in 1..(h + 1)
        BY <3>1, <4>1
      <4>3. SumFunctionOnSet(u, k..e) = u[k] * (e - k + 1)
        <5>1. \A j \in k..(k + (e - k + 1) - 1) : u[j] = u[k]
          BY <1>1, <3>1, <4>1, <4>2
        <5>2. u[k] \in Int /\ k \in Int
          BY <1>1, <3>1
        <5>3. SumFunctionOnSet(u, k..(k + (e - k + 1) - 1)) = u[k] * (e - k + 1)
          BY <4>2, <5>1, <5>2, SumOfConstant
        <5> QED BY <4>2, <5>3
      <4>4. SumFunctionOnSet(u, (k..e) \cup ((e + 1)..h))
              = SumFunctionOnSet(u, k..e) + SumFunctionOnSet(u, (e + 1)..h)
        <5>1. IsFiniteSet(k..e) /\ IsFiniteSet((e + 1)..h)
          BY <3>1, <4>1, FS_Interval
        <5>2. \A j \in (k..e) \cup ((e + 1)..h) : u[j] \in Int
          BY <1>1, <3>1, <4>2
        <5> QED BY <4>2, <5>1, <5>2, SumUnion
      <4>5. W[k] = u[k] * (e - k + 1) + W[e + 1]
        BY <4>2, <4>3, <4>4
      <4>6. k <= h /\ UncappedSubsidy(p, k) = u[k] /\ p.interval # 0
        BY <1>1, <2>2, <3>1, <3>4
      <4> HIDE DEF W
      <4> QED BY <3>1, <3>4, <4>5, <4>6 DEF e
    <3> QED BY <1>0, <3>2, <3>3, <3>4
  <2> QED BY <2>1, <2>2
<1>3. P(W)
  <2>1. W = [k \in 1..(h + 1) |-> W[k]]
    OBVIOUS
  <2>2. \A k \in 1..(h + 1) : W[k] = Body(W, k)
    BY <1>2
  <2> HIDE DEF W
  <2> QED BY <2>1, <2>2, Zenon
<1> DEFINE from == CHOOSE g : P(g)
<1>4. P(from)
  <2> HIDE DEF P, W
  <2> QED BY <1>3
<1>5. \A k \in 1..(h + 1) : from[k] = Body(from, k)
  <2> HIDE DEF from
  <2> QED BY <1>4
<1> HIDE DEF P, W, from
<1> DEFINE T == {d \in Nat : \A k \in 1..(h + 1) : k + d >= h + 1 => from[k] = W[k]}
<1>6. 0 \in T
  <2>1. ASSUME NEW k \in 1..(h + 1), k + 0 >= h + 1
        PROVE  from[k] = W[k]
    <3>1. k > h
      BY <2>1
    <3> QED BY <1>2, <1>5, <3>1
  <2> QED BY <2>1
<1>7. ASSUME NEW d \in Nat, d \in T
      PROVE  d + 1 \in T
  <2>1. ASSUME NEW k \in 1..(h + 1), k + (d + 1) >= h + 1
        PROVE  from[k] = W[k]
    <3>1. CASE k > h \/ UncappedSubsidy(p, k) = 0 \/ p.interval = 0
      BY <1>2, <1>5, <3>1
    <3>2. CASE k <= h /\ p.interval > 0
      <4>1. k \in 1..h
        BY <3>2
      <4>2. SegmentEnd(p, k, h) \in k..h
        BY <3>2, <4>1, SameInStretch
      <4>3. from[SegmentEnd(p, k, h) + 1] = W[SegmentEnd(p, k, h) + 1]
        <5>1. SegmentEnd(p, k, h) + 1 \in 1..(h + 1) /\ (SegmentEnd(p, k, h) + 1) + d >= h + 1
          BY <2>1, <4>1, <4>2
        <5> QED BY <1>7, <5>1
      <4>4. Body(from, k) = Body(W, k)
        BY <4>3
      <4> HIDE DEF Body
      <4> QED BY <1>2, <1>5, <4>4
    <3> QED BY <1>0, <3>1, <3>2
  <2> QED BY <2>1
<1>8. h \in T
  <2> HIDE DEF T
  <2> QED BY <1>6, <1>7, InductionOnNat
<1>9. CumulativeUncapped(p, h) = IF h <= 0 THEN 0 ELSE from[1]
  BY DEF CumulativeUncapped, from, P
<1>10. h > 0 => from[1] = W[1]
  BY <1>8
<1>11. W[1] = SumFunctionOnSet(u, 1..h)
  BY DEF W
<1>12. h = 0 => SumFunctionOnSet(u, 1..h) = 0
  <2>1. h = 0 => 1..h = {}
    OBVIOUS
  <2> QED BY <2>1, SumOfNone
<1> QED BY <1>9, <1>10, <1>11, <1>12 DEF u

LEMMA OneMoreBlock ==
    ASSUME NEW p \in Policy, NEW h \in Nat
    PROVE  /\ CumulativeUncapped(p, h) \in Nat /\ UncappedSubsidy(p, h + 1) \in Nat
           /\ CumulativeUncapped(p, h + 1) = CumulativeUncapped(p, h) + UncappedSubsidy(p, h + 1)
<1> DEFINE u == UncappedSubsidies(p, h)
           w == UncappedSubsidies(p, h + 1)
<1>1. /\ \A j \in 1..h : u[j] = w[j] /\ u[j] \in Nat
      /\ \A j \in 1..(h + 1) : w[j] \in Nat
      /\ w[h + 1] = UncappedSubsidy(p, h + 1)
  <2>1. \A j \in Nat : UncappedSubsidy(p, j) \in Nat
    BY SubsidyFalls
  <2>2. (\A j \in 1..h : j \in Nat /\ j \in 1..(h + 1)) /\ \A j \in 1..(h + 1) : j \in Nat
    OBVIOUS
  <2>3. \A j \in 1..h : u[j] = UncappedSubsidy(p, j)
    BY DEF UncappedSubsidies
  <2>4. \A j \in 1..(h + 1) : w[j] = UncappedSubsidy(p, j)
    BY DEF UncappedSubsidies
  <2>5. h + 1 \in 1..(h + 1)
    OBVIOUS
  <2> HIDE DEF u, w
  <2> QED BY <2>1, <2>2, <2>3, <2>4, <2>5
<1> HIDE DEF u, w
<1>2. 1..(h + 1) = (1..h) \cup {h + 1} /\ h + 1 \notin 1..h /\ IsFiniteSet(1..h)
  BY FS_Interval
<1>3. SumFunctionOnSet(w, (1..h) \cup {h + 1}) = SumFunctionOnSet(w, 1..h) + w[h + 1]
  <2>1. \A j \in (1..h) \cup {h + 1} : w[j] \in Int
    BY <1>1, <1>2
  <2> DEFINE A == 1..h
  <2>2. IsFiniteSet(A) /\ h + 1 \notin A /\ \A j \in A \cup {h + 1} : w[j] \in Int
    BY <1>2, <2>1
  <2> HIDE DEF A
  <2>3. SumFunctionOnSet(w, A \cup {h + 1}) = SumFunctionOnSet(w, A) + w[h + 1]
    BY <2>2, SumAdd
  <2> QED BY <2>3 DEF A
<1>4. SumFunctionOnSet(w, 1..h) = SumFunctionOnSet(u, 1..h)
  BY <1>1, <1>2, SumAgrees
<1>5. SumFunctionOnSet(u, 1..h) \in Nat
  BY <1>1, <1>2, SumNat
<1>6. /\ CumulativeUncapped(p, h) = SumFunctionOnSet(u, 1..h)
      /\ CumulativeUncapped(p, h + 1) = SumFunctionOnSet(w, 1..(h + 1))
  <2>1. h + 1 \in Nat
    OBVIOUS
  <2> QED BY <2>1, ClosedFormIsSum DEF u, w
<1>7. w[h + 1] \in Nat
  BY <1>1
<1> QED BY <1>1, <1>2, <1>3, <1>4, <1>5, <1>6, <1>7

\* The block after height h is paid what the schedule still lacks.
LEMMA ScheduleStep ==
    ASSUME NEW p \in Policy, NEW h \in Nat
    PROVE  CumulativeSubsidy(p, h + 1) = CumulativeSubsidy(p, h) + SubsidyAtHeight(p, h + 1)
<1> DEFINE U == CumulativeUncapped(p, h)
           V == CumulativeUncapped(p, h + 1)
           s == UncappedSubsidy(p, h + 1)
<1>1. U \in Nat /\ s \in Nat /\ V = U + s
  BY OneMoreBlock
<1>2. p.cap \in Nat
  BY DEF Policy
<1>3. (h + 1) - 1 = h
  OBVIOUS
<1>4. SubsidyAtHeight(p, h + 1) = IF p.cap = 0 \/ s = 0 THEN s ELSE Least(s, Greatest(0, p.cap - U))
  BY <1>3 DEF SubsidyAtHeight
<1>5. /\ CumulativeSubsidy(p, h) = IF p.cap = 0 THEN U ELSE Least(U, p.cap)
      /\ CumulativeSubsidy(p, h + 1) = IF p.cap = 0 THEN V ELSE Least(V, p.cap)
  BY DEF CumulativeSubsidy
<1> HIDE DEF U, V, s
<1> QED BY <1>1, <1>2, <1>4, <1>5 DEF Least, Greatest

EmissionInv ==
    /\ policy \in Policy /\ height \in Nat
    /\ IssuedMatchesSchedule

\* Block by block a chain is paid what the closed form of the schedule reports for its
\* height, for any initial subsidy, halving interval and cap: at halvings, at the last one, and
\* at the cap, where a block is paid the rest.
THEOREM ScheduleKept == EmissionSpec => []IssuedMatchesSchedule
<1>1. EmissionInit => EmissionInv
  <2> SUFFICES ASSUME EmissionInit PROVE EmissionInv
    OBVIOUS
  <2>1. policy \in Policy /\ height = 0 /\ issued = 0
    BY EmissionAssumption DEF EmissionInit, Policy
  <2>2. CumulativeUncapped(policy, 0) = 0
    BY DEF CumulativeUncapped
  <2>3. CumulativeSubsidy(policy, 0) = 0
    BY <2>1, <2>2 DEF CumulativeSubsidy, Least, Policy
  <2> QED BY <2>1, <2>3 DEF EmissionInv, IssuedMatchesSchedule
<1>2. EmissionInv /\ [IssueBlock]_emissionVars => EmissionInv'
  <2> SUFFICES ASSUME EmissionInv, [IssueBlock]_emissionVars PROVE EmissionInv'
    OBVIOUS
  <2>1. CASE IssueBlock
    <3>1. /\ policy' = policy /\ height' = height + 1
          /\ issued' = issued + SubsidyAtHeight(policy, height + 1)
      BY <2>1 DEF IssueBlock
    <3>2. CumulativeSubsidy(policy, height + 1)
            = CumulativeSubsidy(policy, height) + SubsidyAtHeight(policy, height + 1)
      BY ScheduleStep DEF EmissionInv
    <3>3. issued' = CumulativeSubsidy(policy', height')
      BY <3>1, <3>2 DEF EmissionInv, IssuedMatchesSchedule
    <3>4. IssuedMatchesSchedule'
      BY <3>3 DEF IssuedMatchesSchedule
    <3> QED BY <3>1, <3>4 DEF EmissionInv
  <2>2. CASE UNCHANGED emissionVars
    BY <2>2 DEF EmissionInv, IssuedMatchesSchedule, emissionVars
  <2> QED BY <2>1, <2>2
<1>3. EmissionInv => IssuedMatchesSchedule
  BY DEF EmissionInv
<1> QED BY <1>1, <1>2, <1>3, PTL DEF EmissionSpec
=============================================================================
