---------------------------- MODULE PeerSessions ----------------------------
(***************************************************************************)
(* Admission and sessions between nodes: ensure_peer_admission on the side *)
(* that calls, accept_peer_handshake and _authenticate_peer_envelope on    *)
(* the side that answers (service.py), over the tables peer_identities and *)
(* peer_sessions of each node (storage.py).  Both sides of a session are   *)
(* rows of one table: a node files the session it was given under the node *)
(* id of the peer that gave it.                                            *)
(*                                                                         *)
(* Every store call is a connection of its own, so the answers of a node's *)
(* handler threads and its own calls interleave; reads with no write       *)
(* between them are one step.  Envelopes and nonces are ReplayWindow's     *)
(* subject: here every envelope is fresh and signed by its sender.  Time   *)
(* is in half seconds, as a handshake reports the expiry in whole seconds. *)
(***************************************************************************)
EXTENDS Integers, FiniteSets

CONSTANTS
    Node,           \* nodes; a node is its address and its URL
    Id, IdOf,       \* node ids, and the id each node is configured with
    Peers,          \* Peers[n]: the nodes n calls
    Workers,        \* handler threads of a node
    MaxAdmitted,    \* max_admitted_peers
    TTL,            \* peer_session_ttl_seconds, in half seconds
    LateWorkers,    \* whether a call may time out while its handler goes on
    MaxSessions,    \* bound: sessions that are live or in use at one time
    MaxLost,        \* bound: MaxLost[n], replies to n lost in a behaviour
    MaxClock        \* bound: the last half second of a behaviour

ASSUME PeerSessionsAssumption ==
    /\ IsFiniteSet(Workers) /\ Workers # {} /\ IsFiniteSet(Id) /\ Node # {}
    /\ IdOf \in [Node -> Id] /\ Peers \in [Node -> SUBSET Node]
    /\ MaxAdmitted \in Nat \ {0} /\ TTL \in Nat /\ LateWorkers \in BOOLEAN
    /\ MaxSessions \in Nat /\ MaxLost \in [Node -> Nat] /\ MaxClock \in Nat

VARIABLES
    time,       \* time.time(), the same on every node
    ident,      \* ident[n][i]: peer_identities, the node admitted under id i
    session,    \* session[n][s]: peer_sessions
    call,       \* call[n]: where n's own call (a sync) is
    worker,     \* worker[n][w]: where each handler thread is
    lost        \* lost[n]: replies to n lost so far

sessionVars == <<time, ident, session, call, worker, lost>>

None == [at |-> "none"]
AtRest == [at |-> "idle"]
Session == 1..MaxSessions
Whole(t) == 2 * (t \div 2)      \* int(expires_at)

SessionRow == [id : Id, url : Node, exp : Nat, active : BOOLEAN]

SessionsTypeOK ==
    /\ time \in Nat  /\ lost \in [Node -> Nat]
    /\ ident \in [Node -> [Id -> Node \cup {None}]]
    /\ session \in [Node -> [Session -> SessionRow \cup {None}]]
    /\ call \in [Node ->
          {AtRest} \cup [at : {"handshake", "await"}, peer : Node]
                 \cup [at : {"acked", "upsert", "expire", "store"}, peer : Node,
                       sid : Session, exp : Nat]
                 \cup [at : {"request", "waiting", "served"}, peer : Node, sid : Session]]
    /\ worker \in [Node -> [Workers ->
          {AtRest} \cup [at : {"admit", "upsert", "expire"}, from : Node]
                 \cup [at : {"issue"}, from : Node, exp : Nat]
                 \cup [at : {"check", "touch", "serve"}, from : Node, sid : Session]]]

SessionsInit ==
    /\ time = 0 /\ lost = [n \in Node |-> 0]
    /\ ident = [n \in Node |-> [i \in Id |-> None]]
    /\ session = [n \in Node |-> [s \in Session |-> None]]
    /\ call = [n \in Node |-> AtRest]
    /\ worker = [n \in Node |-> [w \in Workers |-> AtRest]]

-----------------------------------------------------------------------------
(* The table peer_sessions. *)

Live(n, s, i) == session[n][s] # None /\ session[n][s].active /\ session[n][s].id = i

\* expire_peer_sessions_for_node
Expire(n, i) ==
    session' = [session EXCEPT ![n] = [s \in Session |->
                   IF Live(n, s, i) THEN [@[s] EXCEPT !.active = FALSE] ELSE @[s]]]

\* prune_expired_peer_sessions
Prune(n) ==
    session' = [session EXCEPT ![n] = [s \in Session |->
                   IF @[s] # None /\ @[s].active /\ @[s].exp <= time
                   THEN [@[s] EXCEPT !.active = FALSE] ELSE @[s]]]

\* upsert_peer_session
StoreRow(n, s, p, exp) ==
    session' = [session EXCEPT ![n][s] = [id |-> IdOf[p], url |-> p, exp |-> exp, active |-> TRUE]]

\* active_peer_session_for_node: of the live rows the one that expires last.
Usable(n, p) == {s \in Session : Live(n, s, IdOf[p]) /\ session[n][s].exp > time}
Chosen(n, p) == {s \in Usable(n, p) : \A r \in Usable(n, p) : session[n][r].exp <= session[n][s].exp}

\* token_hex never draws an id twice.  An id nobody can tell from a new one does for it
\* here: no row under it is live, and no call and no handler holds it.
Holds(j, s) == "sid" \in DOMAIN j /\ j.sid = s
Unused ==
    {s \in Session :
        /\ \A n \in Node : session[n][s] # None /\ session[n][s].active => session[n][s].exp <= time
        /\ \A n \in Node : ~Holds(call[n], s) /\ \A w \in Workers : ~Holds(worker[n][w], s)}
FreshSession == CHOOSE s \in Unused : \A r \in Unused : s <= r

-----------------------------------------------------------------------------
(* Admission: the checks and the write of _admit_peer. *)

AdmittedAt(n) == {i \in Id : ident[n][i] # None}

\* Not itself, not another address under a known id, and room for a new id
\* (_enforce_peer_admission_policy).
Admissible(n, p) ==
    /\ IdOf[p] # IdOf[n]
    /\ ident[n][IdOf[p]] \in {None, p}
    /\ ident[n][IdOf[p]] = None => Cardinality(AdmittedAt(n)) < MaxAdmitted

\* upsert_peer_identity
Admit(n, p) == ident' = [ident EXCEPT ![n][IdOf[p]] = p]

-----------------------------------------------------------------------------
(* The caller: ensure_peer_admission, then requests under the session. *)

CallTo(n, c) == call' = [call EXCEPT ![n] = c]

\* The session it has, or a handshake.
Begin(n, p) ==
    /\ call[n] = AtRest /\ p \in Peers[n]
    /\ IF ident[n][IdOf[p]] = p /\ Usable(n, p) # {}
       THEN \E s \in Chosen(n, p) : CallTo(n, [at |-> "request", peer |-> p, sid |-> s])
       ELSE CallTo(n, [at |-> "handshake", peer |-> p])
    /\ UNCHANGED <<time, ident, session, worker, lost>>

\* The acknowledgement must not be stale, and the peer admissible.
CheckAck(n) ==
    LET c == call[n]
    IN  /\ c.at = "acked"
        /\ CallTo(n, IF c.exp > time /\ Admissible(n, c.peer) THEN [c EXCEPT !.at = "upsert"] ELSE AtRest)
        /\ UNCHANGED <<time, ident, session, worker, lost>>

AdmitServer(n) ==
    /\ call[n].at = "upsert"
    /\ Admit(n, call[n].peer)
    /\ CallTo(n, [call[n] EXCEPT !.at = "expire"])
    /\ UNCHANGED <<time, session, worker, lost>>

DropOldSessions(n) ==
    /\ call[n].at = "expire"
    /\ Expire(n, IdOf[call[n].peer])
    /\ CallTo(n, [call[n] EXCEPT !.at = "store"])
    /\ UNCHANGED <<time, ident, worker, lost>>

\* A slip for the mutants: the caller's copy lives as long again.
StoreOwnTTL(n) ==
    /\ call[n].at = "store"
    /\ StoreRow(n, call[n].sid, call[n].peer, time + TTL)
    /\ CallTo(n, [at |-> "request", peer |-> call[n].peer, sid |-> call[n].sid])
    /\ UNCHANGED <<time, ident, worker, lost>>

StoreSession(n) ==
    /\ call[n].at = "store"
    /\ StoreRow(n, call[n].sid, call[n].peer, call[n].exp)
    /\ CallTo(n, [at |-> "request", peer |-> call[n].peer, sid |-> call[n].sid])
    /\ UNCHANGED <<time, ident, worker, lost>>

\* A served call ends, or goes on with its next request (summary, then blocks).
EndCall(n) ==
    /\ call[n].at = "served"
    /\ \/ CallTo(n, AtRest)
       \/ CallTo(n, [call[n] EXCEPT !.at = "request"])
    /\ UNCHANGED <<time, ident, session, worker, lost>>

-----------------------------------------------------------------------------
(* Delivery: a free handler thread takes the request.  A connection that is *)
(* closed because none is free changes nothing on either side, and is no   *)
(* step here.                                                              *)

Waits(n) == call[n].at \in {"await", "waiting"}
Sent(n) == call[n].at \in {"handshake", "request"}
Handles(p, w, n) == worker[p][w] # AtRest /\ worker[p][w].from = n

Deliver(n, w) ==
    LET c == call[n]
        p == c.peer
    IN  /\ Sent(n) /\ worker[p][w] = AtRest
        /\ IF c.at = "handshake"
           THEN /\ worker' = [worker EXCEPT ![p][w] = [at |-> "admit", from |-> n]]
                /\ CallTo(n, [c EXCEPT !.at = "await"])
           ELSE /\ worker' = [worker EXCEPT ![p][w] = [at |-> "check", from |-> n, sid |-> c.sid]]
                /\ CallTo(n, [c EXCEPT !.at = "waiting"])
        /\ UNCHANGED <<time, ident, session, lost>>

\* The caller gives up: its request was lost, or the acknowledgement on its way back,
\* or the handler is late.
TimeOut(n) ==
    /\ call[n].at = "acked" \/ (LateWorkers /\ Waits(n))
    /\ lost[n] < MaxLost[n]
    /\ lost' = [lost EXCEPT ![n] = @ + 1]
    /\ CallTo(n, AtRest)
    /\ UNCHANGED <<time, ident, session, worker>>

-----------------------------------------------------------------------------
(* The handler: accept_peer_handshake. *)

WorkerTo(p, w, j) == worker' = [worker EXCEPT ![p][w] = j]
Refuse(p, w) ==
    /\ WorkerTo(p, w, AtRest)
    /\ LET n == worker[p][w].from
       IN  call' = IF Waits(n) /\ call[n].peer = p THEN [call EXCEPT ![n] = AtRest] ELSE call

\* _authenticate_peer_envelope prunes; _admit_peer reads the identities.
CheckAdmission(p, w) ==
    LET j == worker[p][w]
    IN  /\ j.at = "admit"
        /\ Prune(p)
        /\ IF Admissible(p, j.from)
           THEN WorkerTo(p, w, [j EXCEPT !.at = "upsert"]) /\ UNCHANGED call
           ELSE Refuse(p, w)
        /\ UNCHANGED <<time, ident, lost>>

AdmitCaller(p, w) ==
    /\ worker[p][w].at = "upsert"
    /\ Admit(p, worker[p][w].from)
    /\ WorkerTo(p, w, [worker[p][w] EXCEPT !.at = "expire"])
    /\ UNCHANGED <<time, session, call, lost>>

\* _issue_peer_session: older sessions of the identity end, ...
EndSessions(p, w) ==
    LET j == worker[p][w]
    IN  /\ j.at = "expire"
        /\ Expire(p, IdOf[j.from])
        /\ WorkerTo(p, w, [at |-> "issue", from |-> j.from, exp |-> time + TTL])
        /\ UNCHANGED <<time, ident, call, lost>>

\* A slip for the mutants: the new session is filed under the node's own name.
IssueToSelf(p, w) ==
    LET j == worker[p][w]
        s == FreshSession
    IN  /\ j.at = "issue" /\ Unused # {}
        /\ StoreRow(p, s, p, j.exp)
        /\ WorkerTo(p, w, AtRest)
        /\ call' = IF call[j.from].at = "await" /\ call[j.from].peer = p
                   THEN [call EXCEPT ![j.from] = [at |-> "acked", peer |-> p, sid |-> s,
                                                  exp |-> Whole(j.exp)]]
                   ELSE call
        /\ UNCHANGED <<time, ident, lost>>

\* ... and a new one is given to the caller, if it still waits.
Issue(p, w) ==
    LET j == worker[p][w]
        s == FreshSession
    IN  /\ j.at = "issue" /\ Unused # {}
        /\ StoreRow(p, s, j.from, j.exp)
        /\ WorkerTo(p, w, AtRest)
        /\ call' = IF call[j.from].at = "await" /\ call[j.from].peer = p
                   THEN [call EXCEPT ![j.from] = [at |-> "acked", peer |-> p, sid |-> s,
                                                  exp |-> Whole(j.exp)]]
                   ELSE call
        /\ UNCHANGED <<time, ident, lost>>

-----------------------------------------------------------------------------
(* The handler of any other request: _authenticate_peer_envelope. *)

Accepts(p, n, s) ==
    /\ ident[p][IdOf[n]] = n
    /\ Live(p, s, IdOf[n]) /\ session[p][s].url = n /\ session[p][s].exp > time

CheckSession(p, w) ==
    LET j == worker[p][w]
    IN  /\ j.at = "check"
        /\ Prune(p)
        /\ IF Accepts(p, j.from, j.sid)
           THEN WorkerTo(p, w, [j EXCEPT !.at = "touch"]) /\ UNCHANGED call
           ELSE Refuse(p, w)
        /\ UNCHANGED <<time, ident, lost>>

\* touch_peer_session: extends the row, and makes it active whatever it was.
Touch(p, w) ==
    LET j == worker[p][w]
    IN  /\ j.at = "touch"
        /\ session' = [session EXCEPT ![p][j.sid].exp = time + TTL, ![p][j.sid].active = TRUE]
        /\ WorkerTo(p, w, [j EXCEPT !.at = "serve"])
        /\ UNCHANGED <<time, ident, call, lost>>

Serve(p, w) ==
    LET j == worker[p][w]
        n == j.from
    IN  /\ j.at = "serve"
        /\ WorkerTo(p, w, AtRest)
        /\ call' = IF call[n].at = "waiting" /\ call[n].peer = p
                   THEN [call EXCEPT ![n].at = "served"] ELSE call
        /\ UNCHANGED <<time, ident, session, lost>>

Tick ==
    /\ time < MaxClock
    /\ time' = time + 1
    /\ UNCHANGED <<ident, session, call, worker, lost>>

Caller(n) ==
    \/ \E p \in Node : Begin(n, p)
    \/ CheckAck(n) \/ AdmitServer(n) \/ DropOldSessions(n) \/ StoreSession(n) \/ EndCall(n)
    \/ (\E w \in Workers : Deliver(n, w))

Handler(p, w) ==
    \/ CheckAdmission(p, w) \/ AdmitCaller(p, w) \/ EndSessions(p, w) \/ Issue(p, w)
    \/ CheckSession(p, w) \/ Touch(p, w) \/ Serve(p, w)

Callers == {n \in Node : Peers[n] # {}}
CalledNodes == UNION {Peers[n] : n \in Node}

SessionsNext ==
    \/ \E n \in Callers : Caller(n) \/ TimeOut(n)
    \/ \E p \in CalledNodes, w \in Workers : Handler(p, w)
    \/ Tick

\* An operator or an application starts calls again and again, and handlers go on; replies
\* need not arrive, and time need not pass at any pace.
SessionsFairness ==
    /\ \A n \in Callers : WF_sessionVars(Caller(n))
    /\ \A p \in CalledNodes, w \in Workers : WF_sessionVars(Handler(p, w))

SessionsSpec == SessionsInit /\ [][SessionsNext]_sessionVars /\ SessionsFairness

-----------------------------------------------------------------------------
\* A session a node would use for its next call is one its peer accepts: no loss, expiry or
\* second handshake leaves a caller with a session that was ended or ran out at the other
\* side first, as long as that side does not call back.  Two nodes that call each other and
\* shake hands at the same time do drop each other's sessions.
HeldSessionWorks ==
    \A n, p \in Node :
        /\ p \in Peers[n] /\ n \notin Peers[p]
        /\ ident[n][IdOf[p]] = p
        => \A s \in Chosen(n, p) : Accepts(p, n, s)

\* Threads that count the admitted peers before either admits its own may pass the limit, but
\* only by as many as can do so at once, less one: the node's handlers and its own call.
AdmissionBounded ==
    \A n \in Node : Cardinality(AdmittedAt(n)) <= MaxAdmitted + Cardinality(Workers)

\* A node that goes on calling a peer is served again and again once each has admitted the
\* other: a lost session or an expired one is replaced.
KeepsBeingServed ==
    \A n \in Callers : \A p \in Peers[n] :
        []<>(ident[p][IdOf[n]] = n /\ ident[n][IdOf[p]] = p) => []<>(call[n].at = "served")
=============================================================================
