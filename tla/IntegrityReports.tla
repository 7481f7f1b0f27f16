-------------------------- MODULE IntegrityReports --------------------------
(***************************************************************************)
(* security_invariant_report (service.py): a node replays its canonical    *)
(* chain and compares it with its tables.  The report takes no lock       *)
(* either: it reads the head, the outputs and, for supply_snapshot, the    *)
(* head again in connections of their own, while handlers store and apply  *)
(* blocks.  State roots, disputes and the wallet's reservations, which the *)
(* report lists too, are left out.                                         *)
(***************************************************************************)
EXTENDS ChainNode

VARIABLES
    report,     \* the report: how far it is, and what it read
    moved       \* history: a head was applied since the report began

reportVars == <<report, moved>>

\* Names of the checks that a report makes.
CheckNames == {"utxo_index_matches_replay", "transaction_ids_unique", "migration_claims_unique",
               "supply_caps_intact", "supply_matches_replay"}

ReportTypeOK ==
    /\ moved \in BOOLEAN
    /\ report.at \in {"idle", "utxos", "supply", "height", "done"}
    /\ report.at = "done" => report.failed \subseteq CheckNames

ReportInit == report = Idle /\ moved = FALSE

----------------------------------------------------------------------------
(* What a replay of the branch of h gives; h may be NoBlock. *)

Branch(h) == IF h = NoBlock THEN {} ELSE PathTo(h)
Replayed(h) == IF h = NoBlock THEN {} ELSE DOMAIN blocks[h].view
Issued(h) ==
    IF h = NoBlock THEN 0
    ELSE blocks[h].supply.genesis + blocks[h].supply.subsidy + blocks[h].supply.minted

\* The places of transactions on a branch.
Places(h) == UNION {{b} \X DOMAIN blocks[b].txs : b \in Branch(h)}
TxAt(p) == blocks[p[1]].txs[p[2]]

RepeatedIds(h) == \E p, q \in Places(h) : p # q /\ TxAt(p) = TxAt(q)
RepeatedClaims(h) ==
    \E p, q \in Places(h) : /\ p # q /\ IsClaim(TxAt(p)) /\ IsClaim(TxAt(q))
                            /\ Body[TxAt(p)].source = Body[TxAt(q)].source

\* A slip for the mutants: the replay is compared with the figures of supply_snapshot.
FailedBySnapshot(head, stored, supplyHead) ==
    {c \in CheckNames : c = "supply_matches_replay" /\ Value(Replayed(head)) # Issued(supplyHead)}

\* The checks that fail, of a report on head whose stored outputs were read later, and whose
\* supply was taken of the head of its own time.
FailedChecks(head, stored, supplyHead) ==
    {c \in CheckNames :
        \/ c = "utxo_index_matches_replay" /\ stored # Replayed(head)
        \/ c = "transaction_ids_unique" /\ RepeatedIds(head)
        \/ c = "migration_claims_unique" /\ RepeatedClaims(head)
        \/ c = "supply_caps_intact" /\ Issued(supplyHead) > MaxMoney
        \/ c = "supply_matches_replay" /\ Value(Replayed(head)) # Issued(head)}

----------------------------------------------------------------------------
(* The report, a connection at a time. *)

\* best_head_hash, and the blocks on the path to it, which never change
StartReport ==
    /\ report.at \in {"idle", "done"}
    /\ report' = [at |-> "utxos", head |-> best]
    /\ moved' = FALSE
    /\ UNCHANGED vars

\* all_utxos
ReadStored ==
    /\ report.at = "utxos"
    /\ report' = [at |-> "supply", head |-> report.head, stored |-> utxos]
    /\ UNCHANGED <<vars, moved>>

\* supply_snapshot: the head as it is now; with it the checks are decided.
ReadSupply ==
    /\ report.at = "supply"
    /\ report' = [at |-> "height", head |-> report.head,
                  failed |-> FailedChecks(report.head, report.stored, best)]
    /\ UNCHANGED <<vars, moved>>

\* block_count
ReadHeight ==
    /\ report.at = "height"
    /\ report' = [at |-> "done", head |-> report.head, failed |-> report.failed,
                  height |-> BlockCount]
    /\ UNCHANGED <<vars, moved>>

\* Handlers go on meanwhile.
Serve ==
    /\ Next
    /\ moved' = (moved \/ best' # best)
    /\ UNCHANGED report

ReportNext == StartReport \/ ReadStored \/ ReadSupply \/ ReadHeight \/ Serve

ReportSpec == Init /\ ReportInit /\ [][ReportNext]_<<vars, reportVars>>

----------------------------------------------------------------------------
\* The report raises no false alarm: whatever handlers do, the checks that look at one branch
\* pass (but for repeated ids), and the outputs and the height differ from the branch of the head
\* only if a head was applied while the report was made.
AlarmsExplained ==
    report.at = "done" =>
        /\ report.failed \subseteq {"transaction_ids_unique", "utxo_index_matches_replay"}
        /\ ~moved => /\ "utxo_index_matches_replay" \notin report.failed
                     /\ report.height = Cardinality(Branch(report.head))
=============================================================================
