------------------------------ MODULE HttpServer ------------------------------
(***************************************************************************)
(* BoundedThreadingHTTPServer and NodeRequestHandler (api.py): one thread  *)
(* accepts connections, each served connection has a thread and a slot of  *)
(* its own, and a client may stall at any byte.  A connection carries one  *)
(* request, since the handler speaks HTTP/1.0.                             *)
(***************************************************************************)
EXTENDS Integers, Sequences, FiniteSets

CONSTANTS
    Connection,     \* clients' connections; a client may connect again once answered
    MaxSlots,       \* max_http_concurrent_requests
    QueueSize,      \* request_queue_size: connections the system holds for accept
    MaxChunks       \* bound: the reads a request needs for its header, and for its body

ASSUME HttpAssumption ==
    /\ IsFiniteSet(Connection) /\ MaxSlots \in Nat \ {0}
    /\ QueueSize \in Nat \ {0} /\ MaxChunks \in Nat

VARIABLES
    queue,      \* connections that wait for accept, oldest first
    phase,      \* where each connection is
    left,       \* the reads its header or body still needs
    slots       \* the free slots of _request_slots

httpVars == <<queue, phase, left, slots>>

\* "starting" is the acceptor between acquire and the start of the thread.
Holding == {"starting", "header", "body", "route", "closing"}
Phases == Holding \cup {"away", "queued"}
Holders == {c \in Connection : phase[c] \in Holding}

HttpTypeOK ==
    /\ phase \in [Connection -> Phases]
    /\ left \in [Connection -> 0..MaxChunks]
    /\ slots \in Nat
    /\ queue \in Seq(Connection) /\ Len(queue) <= QueueSize

HttpInit ==
    /\ queue = <<>>
    /\ phase = [c \in Connection |-> "away"]
    /\ left = [c \in Connection |-> 0]
    /\ slots = MaxSlots

Move(c, p) == phase' = [phase EXCEPT ![c] = p]

Connect(c) ==
    /\ phase[c] = "away" /\ Len(queue) < QueueSize
    /\ queue' = Append(queue, c)
    /\ Move(c, "queued")
    /\ UNCHANGED <<left, slots>>

\* The one acceptor: it starts no second connection before it is done with the first.
Accepting(c) ==
    /\ queue # <<>> /\ c = Head(queue)
    /\ \A d \in Connection : phase[d] # "starting"
    /\ queue' = Tail(queue)

\* process_request: a slot is free.
TakeSlot(c) ==
    /\ Accepting(c) /\ slots > 0
    /\ slots' = slots - 1
    /\ Move(c, "starting")
    /\ UNCHANGED left

\* process_request: acquire(blocking=False) fails, and the request is shut down at once.
TurnAway(c) ==
    /\ Accepting(c) /\ slots = 0
    /\ Move(c, "away")
    /\ UNCHANGED <<left, slots>>

\* The thread runs; get_request has left the TLS handshake to it, and setup has set the timeout.
StartThread(c) ==
    /\ phase[c] = "starting"
    /\ \E n \in 0..MaxChunks : left' = [left EXCEPT ![c] = n]
    /\ Move(c, "header")
    /\ UNCHANGED <<queue, slots>>

\* A slip for the mutants: the slot stays taken.
StartFailsHolding(c) ==
    /\ phase[c] = "starting"
    /\ Move(c, "away")
    /\ UNCHANGED <<queue, left, slots>>

\* The thread cannot be started: the slot is given back, and the request is shut down.
StartFails(c) ==
    /\ phase[c] = "starting"
    /\ slots' = slots + 1
    /\ Move(c, "away")
    /\ UNCHANGED <<queue, left>>

Reading(c) == phase[c] \in {"header", "body"}

\* Bytes arrive; nothing makes a client send them.
Chunk(c) ==
    /\ Reading(c) /\ left[c] > 0
    /\ left' = [left EXCEPT ![c] = @ - 1]
    /\ UNCHANGED <<queue, phase, slots>>

\* A slip for the mutants: no timeout on the connection's reads.
NoTimeout(c) == FALSE /\ UNCHANGED httpVars

\* settimeout, or the client goes away: every read ends.
ReadFails(c) ==
    /\ Reading(c) /\ left[c] > 0
    /\ Move(c, "closing")
    /\ UNCHANGED <<queue, left, slots>>

\* do_GET, and do_POST without a body, go on to the route.  do_POST reads the body only
\* after the rate limit and the operator's token have let the request through; a request
\* turned down there is closed with its body unread.
HeaderRead(c) ==
    /\ phase[c] = "header" /\ left[c] = 0
    /\ \E p \in {"route", "body", "closing"} : Move(c, p)
    /\ \E n \in 0..MaxChunks : left' = [left EXCEPT ![c] = n]
    /\ UNCHANGED <<queue, slots>>

\* _read_json: the body is decoded, or answered with an error.
BodyRead(c) ==
    /\ phase[c] = "body" /\ left[c] = 0
    /\ \E p \in {"route", "closing"} : Move(c, p)
    /\ UNCHANGED <<queue, left, slots>>

\* The route calls the service, and answers or raises.
Route(c) ==
    /\ phase[c] = "route"
    /\ Move(c, "closing")
    /\ UNCHANGED <<queue, left, slots>>

\* process_request_thread: however the handler ended, the request is shut down and the
\* slot is given back.
Close(c) ==
    /\ phase[c] = "closing"
    /\ slots' = slots + 1
    /\ left' = [left EXCEPT ![c] = 0]
    /\ Move(c, "away")
    /\ UNCHANGED queue

Acceptor(c) == TakeSlot(c) \/ TurnAway(c) \/ StartThread(c) \/ StartFails(c)
Handler(c) == ReadFails(c) \/ HeaderRead(c) \/ BodyRead(c) \/ Route(c) \/ Close(c)

HttpNext == \E c \in Connection : Connect(c) \/ Acceptor(c) \/ Chunk(c) \/ Handler(c)

\* The system schedules every thread, and a read does not outlast its timeout.
HttpFairness ==
    \A c \in Connection : WF_httpVars(Acceptor(c)) /\ WF_httpVars(Handler(c))

HttpSpec == HttpInit /\ [][HttpNext]_httpVars /\ HttpFairness

\* A slot is free exactly when no connection holds it: none leaks when a thread cannot
\* start, a client stalls or a handler raises, and none is given back twice.
SlotsConserved == slots + Cardinality(Holders) = MaxSlots

\* Whatever other clients do, each connection is answered or closed in the end: those that
\* stall hold neither the acceptor nor a slot for good.
EveryConnectionEnds ==
    \A c \in Connection : (phase[c] # "away") ~> (phase[c] = "away")
===============================================================================
