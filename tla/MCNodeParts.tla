----------------------------- MODULE MCNodeParts -----------------------------
(***************************************************************************)
(* Parts of a node that share no state: the emission schedule, the window  *)
(* of peer nonces, the limit on public transactions, the slots of the HTTP *)
(* server, the rounds of the peer sync and the import of snapshots.  A     *)
(* behaviour is one of one part; the others rest.                          *)
(***************************************************************************)
EXTENDS Emission, ReplayWindow, RateLimit, HttpServer, PeerSync, SourceIngestion, TLC

CONSTANTS e1, e2, e3, p1, n1, n2, n3, n4, x1, x2, x3, x4

\* Three requests of one peer: two that overlap in time, and one when they are forgotten.
MCSignerOf == [e \in Envelope |-> p1]
MCStampOf == e1 :> 1 @@ e2 :> 2 @@ e3 :> 5

\* One miner n1, n2 that asks n1 and then n3, n3 that asks n2 and then n4, which is not
\* there: the chain reaches n3 through n2 only, in batches of two.
MCPeers == n1 :> <<>> @@ n2 :> <<n1, n3>> @@ n3 :> <<n2, n4>> @@ n4 :> <<>>
MCParent == [x \in Block |-> x - 1]
MCHeight == [x \in Block \cup {Genesis} |-> x - 1]
MCFoundBy == [x \in Block |-> n1]

\* Two exports of each reference: x1 and x4 differ in the transaction of a record only, x2
\* has a record of x1 and one of x3, and x3 is of another chain.
MCRefOf == x1 :> "r1" @@ x2 :> "r2" @@ x3 :> "r2" @@ x4 :> "r1"
MCNetworkOf == [e \in Export |-> IF e = x3 THEN "new" ELSE "old"]
Row(a, n, t) == [addr |-> a, amount |-> n, tx |-> t]
MCRecordsOf ==
    x1 :> {Row("x", 1, 1)} @@ x2 :> {Row("x", 1, 1), Row("y", 1, 2)}
    @@ x3 :> {Row("y", 1, 2)} @@ x4 :> {Row("x", 1, 3)}

VARIABLE part

Parts == {"emission", "replay", "limit", "http", "sync", "ingestion"}

vars == <<part, emissionVars, replayVars, limitVars, httpVars, syncVars, ingestionVars>>

\* A part that rests has one initial state.
Init ==
    /\ part \in Parts
    /\ EmissionInit /\ ReplayInit /\ LimitInit /\ HttpInit /\ SyncInit /\ IngestionInit
    /\ part # "emission" => policy = [initial |-> 0, interval |-> 0, cap |-> 0]
    /\ part # "limit" => ~redis

Next ==
    \/ /\ part = "emission" /\ IssueBlock
       /\ UNCHANGED <<part, replayVars, limitVars, httpVars, syncVars, ingestionVars>>
    \/ /\ part = "replay" /\ ReplayNext
       /\ UNCHANGED <<part, emissionVars, limitVars, httpVars, syncVars, ingestionVars>>
    \/ /\ part = "limit" /\ LimitNext
       /\ UNCHANGED <<part, emissionVars, replayVars, httpVars, syncVars, ingestionVars>>
    \/ /\ part = "http" /\ HttpNext
       /\ UNCHANGED <<part, emissionVars, replayVars, limitVars, syncVars, ingestionVars>>
    \/ /\ part = "sync" /\ SyncNext
       /\ UNCHANGED <<part, emissionVars, replayVars, limitVars, httpVars, ingestionVars>>
    \/ /\ part = "ingestion" /\ IngestionNext
       /\ UNCHANGED <<part, emissionVars, replayVars, limitVars, httpVars, syncVars>>

\* The fairness of HttpServer and of PeerSync, whose rounds rest in the other parts.
Spec ==
    /\ Init /\ [][Next]_vars /\ HttpFairness
    /\ \A n \in Node :
          WF_vars(/\ part = "sync" /\ (Round(n) \/ RequestFails(n))
                  /\ UNCHANGED <<part, emissionVars, replayVars, limitVars, httpVars, ingestionVars>>)

\* Converges, of behaviours in which the nodes sync.
SyncConverges == part = "sync" => Converges
===============================================================================
