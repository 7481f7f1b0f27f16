----------------------------- MODULE MCOperators -----------------------------
(***************************************************************************)
(* A node under load: two of its handlers serve at the same time; or its   *)
(* operators review sources and judge disputes, or have a report made of   *)
(* the chain, while one handler serves.  A behaviour is one of one part;   *)
(* the others rest.                                                        *)
(***************************************************************************)
EXTENDS MCMigrationReview, MCChainNode, IntegrityReports

CONSTANT Handlers       \* those that serve at the same time

VARIABLE part

operatorsVars == <<part, migrationVars, vars, reportVars>>

\* The node with these handlers.
Loaded == INSTANCE ChainNode WITH Threads <- Handlers

OperatorsInit ==
    /\ part \in {"handlers", "reviews", "report"}
    /\ IF part = "handlers" THEN Loaded!Init ELSE Init
    /\ MigrationInit /\ ReportInit

Submitting(j) == j.at \in {"view", "check", "conflict", "save"}

\* Bound: the handlers that serve at the same time submit and import claims only.
OnlyClaims ==
    \A h \in Handlers :
        /\ Submitting(job'[h]) => IsClaim(job'[h].tx)
        /\ job'[h].at = "store" => ToSet(job'[h].txs) \cap {"pay"} = {}

\* Bound: nothing is submitted while the report is made.
OnlyBlocks == \A t \in Threads : ~Submitting(job'[t])

OperatorsNext ==
    \/ /\ part = "handlers" /\ Loaded!Next /\ OnlyClaims
       /\ UNCHANGED <<part, migrationVars, reportVars>>
    \/ part = "reviews" /\ MigrationNext /\ UNCHANGED <<part, vars, reportVars>>
    \/ part = "report" /\ ReportNext /\ OnlyBlocks /\ UNCHANGED <<part, migrationVars>>

OperatorsSpec == OperatorsInit /\ [][OperatorsNext]_operatorsVars

OperatorsSymmetry == Permutations(Handlers) \cup DisputeSymmetry
==============================================================================
