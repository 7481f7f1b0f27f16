-------------------------- MODULE MigrationReview --------------------------
(***************************************************************************)
(* How one node reviews the sources of migration claims: snapshots and     *)
(* sources with their review status, and disputes on sources (service.py,  *)
(* storage.py).  Handler threads run the operations of operators and the   *)
(* public reads that expire disputes; every store call is a connection of  *)
(* its own, so a step here.  Blocks that claim a source or spend a claimed *)
(* output are checked and stored in one step: what happens inside is       *)
(* ChainNode's subject.                                                    *)
(*                                                                         *)
(* Amounts, addresses on the old chain and signatures are left out: two    *)
(* bundles differ, and rows of different origin differ.  The entries of a  *)
(* bundle are active and unreviewed.                                       *)
(***************************************************************************)
EXTENDS Integers, FiniteSets

CONSTANTS
    Address,        \* classical addresses
    Ref, NoRef,     \* snapshot references, and the empty one
    Bundle,         \* snapshots that may be imported
    RefOf,          \* the reference of a bundle
    EntriesOf,      \* the addresses of its entries
    Dispute,        \* dispute ids
    Desks,          \* handler threads
    Judges,         \* those that submit evidence and resolve disputes
    Curators,       \* those that import, seed and review snapshots and sources
    Window,         \* migration_dispute_window_blocks
    EscrowBlocks,   \* migration_escrow_blocks
    Stubbed,        \* bound: the addresses that are seeded
    Contested,      \* bound: the addresses that are claimed, disputed and reviewed
    Decisions,      \* bound: the statuses operators set themselves
    TopHeight       \* bound: blocks of a behaviour

ASSUME MigrationReviewAssumption ==
    /\ NoRef \notin Ref /\ "none" \notin Bundle /\ Judges \subseteq Desks /\ Curators \subseteq Desks
    /\ RefOf \in [Bundle -> Ref] /\ EntriesOf \in [Bundle -> SUBSET Address]
    /\ Stubbed \subseteq Address /\ Contested \subseteq Address
    /\ Decisions \subseteq {"active", "quarantined", "revoked"}
    /\ Window \in Nat /\ EscrowBlocks \in Nat /\ TopHeight \in Nat

VARIABLES
    blockCount,     \* block_count
    snapshots,  \* migration_snapshots
    sources,    \* migration_sources
    disputes,   \* migration_disputes
    claimed,    \* claimed[a]: the height of the claim of a
    spent,      \* the addresses whose claimed output is spent
    desk,       \* where each handler thread is
    condemned   \* history: the addresses on which a dispute was ever found fraudulent

migrationVars == <<blockCount, snapshots, sources, disputes, claimed, spent, desk, condemned>>

Absent == [status |-> "absent"]
Review == {"active", "quarantined", "revoked"}
\* Where a row comes from: a bundle, or nobody's (a stub, a seeded source).
Provenance == Bundle \cup {"none"}
Open == {"open", "evidence_submitted"}
Closed == {"resolved_valid", "resolved_fraud", "expired"}
Rest == [at |-> "rest"]
Then == Address \cup {"none"}

MigrationTypeOK ==
    /\ blockCount \in Nat
    /\ snapshots \in [Ref -> [from : Provenance, status : Review, reviewed : BOOLEAN] \cup {Absent}]
    /\ sources \in [Address -> [ref : Ref \cup {NoRef}, from : Provenance, status : Review,
                                reviewed : BOOLEAN] \cup {Absent}]
    /\ disputes \in [Dispute -> [addr : Address, deadline : Nat, status : Open \cup Closed] \cup {Absent}]
    /\ claimed \in [Address -> Nat \cup {-1}]
    /\ spent \subseteq Address /\ condemned \subseteq Address
    /\ desk \in [Desks ->
          {Rest} \cup [at : {"import"}, bundle : Bundle]
                 \cup [at : {"seed"}, addr : Address, ref : Ref \cup {NoRef}]
                 \cup [at : {"expire"}, height : Nat, due : SUBSET Dispute, then : Then]
                 \cup [at : {"release"}, due : SUBSET Dispute, then : Then]
                 \cup [at : {"insert"}, addr : Address]
                 \cup [at : {"evidence"}, dispute : Dispute]
                 \cup [at : {"verdict"}, dispute : Dispute, outcome : {"resolved_valid", "resolved_fraud"}]
                 \cup [at : {"review"}, addr : Address, status : Review]]

MigrationInit ==
    /\ blockCount = 0
    /\ snapshots = [r \in Ref |-> Absent]
    /\ sources = [a \in Address |-> Absent]
    /\ disputes = [d \in Dispute |-> Absent]
    /\ claimed = [a \in Address |-> -1]
    /\ spent = {} /\ condemned = {}
    /\ desk = [t \in Desks |-> Rest]

DeskTo(t, j) == desk' = [desk EXCEPT ![t] = j]
ChainUnchanged == UNCHANGED <<blockCount, claimed, spent>>

-----------------------------------------------------------------------------
(* Snapshots and sources. *)

FreshRow(ref, b) == [ref |-> ref, from |-> b, status |-> "active", reviewed |-> FALSE]
FreshSnapshot(b) == [from |-> b, status |-> "active", reviewed |-> FALSE]

\* source_ingestion_import_plan: no entry would change a source under review.
PlanReady(b) == \A a \in EntriesOf[b] : sources[a].status \in {"absent", "active"}

\* import_approved_source_ingestion makes the plan, import_migration_snapshot does without.
PlanImport(t, b) ==
    /\ desk[t] = Rest /\ PlanReady(b)
    /\ DeskTo(t, [at |-> "import", bundle |-> b])
    /\ UNCHANGED <<snapshots, sources, disputes, condemned>> /\ ChainUnchanged

\* What is there must be what the import would write.
Importable(b) ==
    /\ snapshots[RefOf[b]] \in {Absent, FreshSnapshot(b)}
    /\ \A a \in EntriesOf[b] : sources[a] \in {Absent, FreshRow(RefOf[b], b)}

\* A slip for the mutants: an import that meets a conflict keeps what it wrote before.
ImportPartly(t, b) ==
    /\ desk[t] \in {Rest, [at |-> "import", bundle |-> b]}
    /\ snapshots' = [snapshots EXCEPT ![RefOf[b]] = FreshSnapshot(b)]
    /\ sources' = IF Importable(b)
                  THEN [a \in Address |-> IF a \in EntriesOf[b] THEN FreshRow(RefOf[b], b) ELSE sources[a]]
                  ELSE sources
    /\ DeskTo(t, Rest)
    /\ UNCHANGED <<disputes, condemned>> /\ ChainUnchanged

\* One transaction; a conflict rolls it back.
ImportBundle(t, b) ==
    /\ desk[t] \in {Rest, [at |-> "import", bundle |-> b]}
    /\ IF Importable(b)
       THEN /\ snapshots' = [snapshots EXCEPT ![RefOf[b]] = FreshSnapshot(b)]
            /\ sources' = [a \in Address |-> IF a \in EntriesOf[b] THEN FreshRow(RefOf[b], b) ELSE sources[a]]
       ELSE UNCHANGED <<snapshots, sources>>
    /\ DeskTo(t, Rest)
    /\ UNCHANGED <<disputes, condemned>> /\ ChainUnchanged

\* seed_migration_source: first a stub for the snapshot,
SeedStub(t, a, r) ==
    /\ desk[t] = Rest
    /\ snapshots' = IF r = NoRef \/ snapshots[r] # Absent THEN snapshots
                    ELSE [snapshots EXCEPT ![r] = [from |-> "none", status |-> "active", reviewed |-> TRUE]]
    /\ DeskTo(t, [at |-> "seed", addr |-> a, ref |-> r])
    /\ UNCHANGED <<sources, disputes, condemned>> /\ ChainUnchanged

\* then the source, over whatever was there.
SeedSource(t) ==
    LET j == desk[t]
    IN  /\ j.at = "seed"
        /\ sources' = [sources EXCEPT ![j.addr] =
                          [ref |-> j.ref, from |-> "none", status |-> "active", reviewed |-> TRUE]]
        /\ DeskTo(t, Rest)
        /\ UNCHANGED <<snapshots, disputes, condemned>> /\ ChainUnchanged

\* set_migration_snapshot_status, with or without the sources.
SetSnapshotStatus(t, r, st, cascade) ==
    /\ desk[t] = Rest /\ snapshots[r] # Absent
    /\ snapshots' = [snapshots EXCEPT ![r].status = st, ![r].reviewed = TRUE]
    /\ sources' = IF cascade
                  THEN [a \in Address |->
                           IF sources[a] # Absent /\ sources[a].ref = r
                           THEN [sources[a] EXCEPT !.status = st, !.reviewed = TRUE] ELSE sources[a]]
                  ELSE sources
    /\ UNCHANGED <<disputes, desk, condemned>> /\ ChainUnchanged

SetStatus(a, st) ==
    sources' = IF sources[a] = Absent THEN sources
               ELSE [sources EXCEPT ![a].status = st, ![a].reviewed = TRUE]

\* set_migration_source_status: an operator, or the last step of a dispute's operation.
SetSourceStatus(t, a, st) ==
    /\ desk[t] = Rest /\ sources[a] # Absent
    /\ SetStatus(a, st)
    /\ UNCHANGED <<snapshots, disputes, desk, condemned>> /\ ChainUnchanged

ReviewSource(t) ==
    /\ desk[t].at = "review"
    /\ SetStatus(desk[t].addr, desk[t].status)
    /\ DeskTo(t, Rest)
    /\ UNCHANGED <<snapshots, disputes, condemned>> /\ ChainUnchanged

-----------------------------------------------------------------------------
(* Disputes. *)

IsOpen(d) == disputes[d].status \in Open
Overdue(d, h) == IsOpen(d) /\ disputes[d].deadline < h

\* expire_migration_disputes: what is due at the height it reads,
StartExpiry(t, then) ==
    /\ desk[t] = Rest
    /\ then \in {"none"} \cup {a \in Address : sources[a] # Absent}
    /\ DeskTo(t, [at |-> "expire", height |-> blockCount, due |-> {d \in Dispute : Overdue(d, blockCount)},
              then |-> then])
    /\ UNCHANGED <<snapshots, sources, disputes, condemned>> /\ ChainUnchanged

\* A slip for the mutants: the update does not look at the status.
ExpireClosed(t) ==
    LET j == desk[t]
    IN  /\ j.at = "expire"
        /\ disputes' = [d \in Dispute |->
              IF disputes[d] # Absent /\ disputes[d].deadline < j.height
              THEN [disputes[d] EXCEPT !.status = "expired"] ELSE disputes[d]]
        /\ DeskTo(t, [at |-> "release", due |-> j.due, then |-> j.then])
        /\ UNCHANGED <<snapshots, sources, condemned>> /\ ChainUnchanged

\* the update of all that are due,
Expire(t) ==
    LET j == desk[t]
    IN  /\ j.at = "expire"
        /\ disputes' = [d \in Dispute |->
              IF Overdue(d, j.height) THEN [disputes[d] EXCEPT !.status = "expired"] ELSE disputes[d]]
        /\ DeskTo(t, [at |-> "release", due |-> j.due, then |-> j.then])
        /\ UNCHANGED <<snapshots, sources, condemned>> /\ ChainUnchanged

\* and the sources of those that were due at the read, one by one.
Release(t, d) ==
    /\ desk[t].at = "release" /\ d \in desk[t].due
    /\ SetStatus(disputes[d].addr, "active")
    /\ DeskTo(t, [desk[t] EXCEPT !.due = @ \ {d}])
    /\ UNCHANGED <<snapshots, disputes, condemned>> /\ ChainUnchanged

\* A read is answered; an operation that began with it goes on.
Expired(t) ==
    /\ desk[t].at = "release" /\ desk[t].due = {}
    /\ DeskTo(t, IF desk[t].then = "none" THEN Rest ELSE [at |-> "insert", addr |-> desk[t].then])
    /\ UNCHANGED <<snapshots, sources, disputes, condemned>> /\ ChainUnchanged

\* open_migration_dispute (its packet, and so StartExpiry, comes first).
OpenDispute(t, d) ==
    /\ desk[t].at = "insert" /\ disputes[d] = Absent
    /\ disputes' = [disputes EXCEPT ![d] = [addr |-> desk[t].addr, deadline |-> blockCount + Window,
                                            status |-> "open"]]
    /\ DeskTo(t, [at |-> "review", addr |-> desk[t].addr, status |-> "quarantined"])
    /\ UNCHANGED <<snapshots, sources, condemned>> /\ ChainUnchanged

TakesEvidence(d) == IsOpen(d) /\ blockCount <= disputes[d].deadline

\* submit_migration_dispute_evidence: the check, then the write.
CheckEvidence(t, d) ==
    /\ t \in Judges /\ desk[t] = Rest /\ TakesEvidence(d)
    /\ DeskTo(t, [at |-> "evidence", dispute |-> d])
    /\ UNCHANGED <<snapshots, sources, disputes, condemned>> /\ ChainUnchanged

SubmitEvidence(t) ==
    LET d == desk[t].dispute
    IN  /\ desk[t].at = "evidence"
        /\ disputes' = [disputes EXCEPT ![d].status = "evidence_submitted"]
        /\ DeskTo(t, [at |-> "review", addr |-> disputes[d].addr, status |-> "quarantined"])
        /\ UNCHANGED <<snapshots, sources, condemned>> /\ ChainUnchanged

\* resolve_migration_dispute: likewise.
CheckResolvable(t, d, outcome) ==
    /\ t \in Judges /\ desk[t] = Rest /\ IsOpen(d)
    /\ DeskTo(t, [at |-> "verdict", dispute |-> d, outcome |-> outcome])
    /\ UNCHANGED <<snapshots, sources, disputes, condemned>> /\ ChainUnchanged

Resolve(t) ==
    LET j == desk[t]
        fraud == j.outcome = "resolved_fraud"
        a == disputes[j.dispute].addr
    IN  /\ j.at = "verdict"
        /\ disputes' = [disputes EXCEPT ![j.dispute].status = j.outcome]
        /\ condemned' = IF fraud THEN condemned \cup {a} ELSE condemned
        /\ DeskTo(t, [at |-> "review", addr |-> a, status |-> IF fraud THEN "revoked" ELSE "active"])
        /\ UNCHANGED <<snapshots, sources>> /\ ChainUnchanged

-----------------------------------------------------------------------------
(* Blocks. *)

\* _validate_migration_claim, as far as review decides.
MayClaim(a) ==
    /\ sources[a].status = "active" /\ claimed[a] = -1
    /\ sources[a].ref \in Ref => snapshots[sources[a].ref].status \in {"active", "absent"}

\* _migration_output_finality_status
Spendable(a) ==
    /\ claimed[a] >= 0 /\ blockCount >= claimed[a] + EscrowBlocks
    /\ sources[a].status = "active"
    /\ \A d \in Dispute : disputes[d] # Absent /\ disputes[d].addr = a =>
                              disputes[d].status \notin Open \cup {"resolved_fraud"}

\* The next block claims the sources in C and spends the outputs of S.
Block(C, S) ==
    /\ blockCount < TopHeight
    /\ \A a \in C : MayClaim(a)
    /\ \A a \in S : Spendable(a) /\ a \notin spent
    /\ claimed' = [a \in Address |-> IF a \in C THEN blockCount ELSE claimed[a]]
    /\ spent' = spent \cup S
    /\ blockCount' = blockCount + 1
    /\ UNCHANGED <<snapshots, sources, disputes, desk, condemned>>

-----------------------------------------------------------------------------
Curate(t) ==
    \/ \E b \in Bundle : PlanImport(t, b) \/ ImportBundle(t, b)
    \/ \E a \in Stubbed, r \in Ref \cup {NoRef} : SeedStub(t, a, r)
    \/ SeedSource(t)
    \/ \E r \in Ref, st \in Decisions, cascade \in BOOLEAN : SetSnapshotStatus(t, r, st, cascade)
    \/ \E a \in Contested, st \in Decisions : SetSourceStatus(t, a, st)

HandleDispute(t) ==
    \/ \E then \in Contested \cup {"none"} : StartExpiry(t, then)
    \/ Expire(t) \/ Expired(t)
    \/ \E d \in Dispute : Release(t, d) \/ OpenDispute(t, d) \/ CheckEvidence(t, d)
    \/ \E d \in Dispute, outcome \in {"resolved_valid", "resolved_fraud"} : CheckResolvable(t, d, outcome)
    \/ SubmitEvidence(t) \/ Resolve(t) \/ ReviewSource(t)

MigrationNext ==
    \/ \E t \in Curators : Curate(t)
    \/ \E t \in Desks : HandleDispute(t)
    \/ \E C, S \in SUBSET Contested : Block(C, S)

MigrationSpec == MigrationInit /\ [][MigrationNext]_migrationVars

-----------------------------------------------------------------------------
\* A source that was ever found fraudulent never pays out: its claimed output stays frozen,
\* whatever is reviewed, seeded, disputed, imported or expired later.
FraudFreezes == [][\A a \in condemned : a \in spent' => a \in spent]_migrationVars

\* A snapshot that was imported is there with all of its entries.
ImportedWhole ==
    \A r \in Ref : snapshots[r] # Absent /\ snapshots[r].from \in Bundle =>
        \A a \in EntriesOf[snapshots[r].from] : sources[a] # Absent

\* A source names a snapshot that is there, so that a review of the snapshot reaches it.
SourcesHaveSnapshots ==
    \A a \in Address : sources[a] # Absent /\ sources[a].ref # NoRef => snapshots[sources[a].ref] # Absent

-----------------------------------------------------------------------------
(* The inductive invariant.  VerdictsStand and PendingOnOpen need that one  *)
(* thread judges: between its check and its write nobody else gives a      *)
(* verdict.                                                                *)

Fraud(d) == disputes[d].status = "resolved_fraud"

\* A verdict of fraud is still in the table.
VerdictsStand ==
    \A a \in condemned : \E d \in Dispute : Fraud(d) /\ disputes[d].addr = a

\* What a judge is about to write is not over a verdict of fraud.
PendingOnOpen ==
    \A t \in Desks : desk[t].at \in {"evidence", "verdict"} =>
        t \in Judges /\ disputes[desk[t].dispute] # Absent /\ ~Fraud(desk[t].dispute)

\* A seed that waits for its second step has its stub.
StubFirst ==
    \A t \in Desks : desk[t].at = "seed" /\ desk[t].ref # NoRef => snapshots[desk[t].ref] # Absent

\* The review of a dispute's source goes with its dispute, and a release with one that was there.
DueKnown ==
    \A t \in Desks : desk[t].at \in {"expire", "release"} =>
        \A d \in desk[t].due : disputes[d] # Absent

\* Everything the four properties rest on: the tables keep their types, verdicts of fraud
\* stay, and no row points to nothing.
MigrationIInv ==
    /\ MigrationTypeOK
    /\ VerdictsStand /\ PendingOnOpen
    /\ StubFirst /\ DueKnown
    /\ ImportedWhole /\ SourcesHaveSnapshots
=============================================================================
