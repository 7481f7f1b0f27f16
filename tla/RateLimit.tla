----------------------------- MODULE RateLimit -----------------------------
(***************************************************************************)
(* The limit on public transactions per client: _allow_public_transaction  *)
(* (api.py) with its table in the process, or with the counters of a Redis *)
(* server that several nodes share (rate_limit.py).  Handler threads take  *)
(* a lock, and the server runs the script alone, so a request is one step. *)
(* Windows have an age instead of a start: only the difference to the      *)
(* clock is ever used.                                                     *)
(***************************************************************************)
EXTENDS Integers, FiniteSets, Functions

CONSTANTS
    Client,         \* addresses of clients
    Limit,          \* max_public_transaction_requests_per_minute
    Minute,         \* the length of a window, in units of time
    TableCap,       \* 4096: windows from which on the table is pruned
    TableKeep       \* 2048: windows that are kept when too many are active

ASSUME RateLimitAssumption ==
    /\ IsFiniteSet(Client) /\ Limit \in Nat \ {0} /\ Minute \in Nat \ {0}
    /\ TableKeep \in Nat /\ TableCap \in Nat /\ TableKeep <= TableCap

VARIABLES
    redis,      \* whether the counters are Redis'
    windows,    \* the window of each client that has one: its age, and the requests counted
    allowed,    \* allowed[c][i]: requests of c let through i units ago,
                \* until its window is dropped
    forgotten   \* history: clients whose window was dropped before its end

limitVars == <<redis, windows, allowed, forgotten>>

LimitTypeOK ==
    /\ redis \in BOOLEAN /\ forgotten \subseteq Client
    /\ DOMAIN windows \subseteq Client
    /\ \A c \in DOMAIN windows : windows[c] \in [age : 0..Minute, count : 1..(Limit + 1)]
    /\ allowed \in [Client -> [0..(Minute - 1) -> Nat]]

LimitInit ==
    /\ redis \in BOOLEAN /\ windows = <<>> /\ forgotten = {}
    /\ allowed = [c \in Client |-> [i \in 0..(Minute - 1) |-> 0]]

Active == {c \in DOMAIN windows : windows[c].age < Minute}

\* Any k windows of S that started last.
NewestOf(S, k) ==
    {T \in SUBSET S : /\ Cardinality(T) = k
                      /\ \A c \in T, d \in S \ T : windows[c].age <= windows[d].age}

\* What the table is pruned to before a client is looked up.
Kept ==
    IF Cardinality(DOMAIN windows) <= TableCap THEN {DOMAIN windows}
    ELSE IF Cardinality(Active) <= TableCap THEN {Active}
    ELSE NewestOf(Active, TableKeep)

Counted(table, c) ==
    IF c \in DOMAIN table /\ table[c].age < Minute THEN table[c] ELSE [age |-> 0, count |-> 0]

\* A slip for the mutants: one request too many.
UsedUpAbove(table, c) == Counted(table, c).count > Limit
UsedUp(table, c) == Counted(table, c).count >= Limit

CountOne(table, c) ==
    windows' = [d \in DOMAIN table \cup {c} |->
                   IF d = c THEN [Counted(table, c) EXCEPT !.count = @ + 1] ELSE table[d]]
Allow(c) == allowed' = [allowed EXCEPT ![c][0] = IF c \in forgotten THEN @ ELSE @ + 1]

\* A request is counted when it is let through.
LocalRequest(c) ==
    \E K \in Kept :
        LET table == Restrict(windows, K)
        IN  /\ ~redis
            /\ forgotten' = forgotten \cup (Active \ K)
            /\ IF UsedUp(table, c)
               THEN windows' = table /\ UNCHANGED allowed
               ELSE CountOne(table, c) /\ Allow(c)
            /\ UNCHANGED redis

\* The script counts every request; above the limit, counting on changes nothing.
RedisRequest(c) ==
    /\ redis /\ Counted(windows, c).count <= Limit
    /\ CountOne(windows, c)
    /\ IF UsedUp(windows, c) THEN UNCHANGED allowed ELSE Allow(c)
    /\ UNCHANGED <<redis, forgotten>>

\* Time passes, and Redis drops the counters that are over.
LimitTick ==
    /\ LET aged == [c \in DOMAIN windows |->
                       [windows[c] EXCEPT !.age = IF @ < Minute THEN @ + 1 ELSE @]]
       IN  windows' = IF redis THEN Restrict(aged, {c \in DOMAIN aged : aged[c].age < Minute}) ELSE aged
    /\ allowed' = [c \in Client |->
                      [i \in 0..(Minute - 1) |-> IF i = 0 THEN 0 ELSE allowed[c][i - 1]]]
    /\ UNCHANGED <<redis, forgotten>>

LimitNext == LimitTick \/ \E c \in Client : LocalRequest(c) \/ RedisRequest(c)

LimitSpec == LimitInit /\ [][LimitNext]_limitVars

\* Within any minute, wherever it starts, a client gets at most two windows' worth through,
\* unless its window was dropped to bound the table.
AtMostTwoWindows ==
    \A c \in Client \ forgotten : SumFunctionOnSet(allowed[c], 0..(Minute - 1)) <= 2 * Limit

\* The table stays bounded however many clients come.
TableBounded == ~redis => Cardinality(DOMAIN windows) <= TableCap + 1
=============================================================================
