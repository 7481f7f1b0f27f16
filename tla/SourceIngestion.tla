--------------------------- MODULE SourceIngestion ---------------------------
(***************************************************************************)
(* From the export of an old chain to the migration tables of a node:      *)
(* normalisation, the checks of a normalised artifact and of a batch, the  *)
(* operator's approval, the import plan and the import                     *)
(* (source_ingestion.py, snapshot.py, service.py, storage.py).             *)
(*                                                                         *)
(* A hash stands for the content it is computed from.  The artifacts are   *)
(* files that operators keep, mix and edit, so a call may get any mixture  *)
(* of parts; but a manifest is one that normalize_source_export made, the  *)
(* only code that computes its hash.  Merkle roots, counts and totals of   *)
(* equal contents are equal.                                               *)
(***************************************************************************)
EXTENDS Integers, FiniteSets, Sequences

CONSTANTS
    Address,        \* classical addresses
    Ref,            \* snapshot references
    Network,        \* old chains
    Export,         \* exports that operators normalise
    RefOf, NetworkOf, RecordsOf,       \* what an export says
    Signer,             \* nodes that sign snapshots, each an address and a node id
    Trusted,            \* those with an address of migration_trusted_snapshot_signers
    TrustedNodes,       \* those with a node id of migration_trusted_snapshot_nodes
    RequireSigned,      \* migration_require_snapshot_signatures
    SeedAmount,         \* what an operator seeds, without a snapshot
    Desks,              \* handler threads that import under an approval
    Decisions,          \* bound: the statuses that operators set
    MaxApprovals        \* bound: approvals of a behaviour

ASSUME SourceIngestionAssumption ==
    /\ RefOf \in [Export -> Ref] /\ NetworkOf \in [Export -> Network]
    /\ RecordsOf \in [Export -> SUBSET [addr : Address, amount : Int, tx : Nat]]
    /\ Trusted \subseteq Signer /\ TrustedNodes \subseteq Signer
    /\ RequireSigned \in BOOLEAN /\ SeedAmount \in Nat \ {0}
    /\ Decisions \subseteq {"active", "quarantined", "revoked"} /\ MaxApprovals \in Nat

VARIABLES
    snapshots,  \* migration_snapshots
    sources,    \* migration_sources
    approvals,  \* the approvals that operators wrote
    desk,       \* where each thread is
    under       \* history: the approval a snapshot was imported under

ingestionVars == <<snapshots, sources, approvals, desk, under>>

-----------------------------------------------------------------------------
(* Artifacts. *)

\* What normalize_source_export and validate_snapshot_bundle accept.
Normalizable(e) ==
    /\ RecordsOf[e] # {}
    /\ \A r \in RecordsOf[e] : r.amount > 0
    /\ \A r, s \in RecordsOf[e] : r.addr = s.addr => r = s

EntriesOf(records) == {[addr |-> r.addr, amount |-> r.amount] : r \in records}

BundleOf(e) == [ref |-> RefOf[e], network |-> NetworkOf[e], entries |-> EntriesOf(RecordsOf[e])]

\* normalize_source_export; the provenance names all of the export.
Normalize(e) ==
    [bundle |-> BundleOf(e), records |-> RecordsOf[e], provenance |-> e,
     manifest |-> [bundle |-> BundleOf(e), records |-> RecordsOf[e], provenance |-> e]]

Normalized == {Normalize(e) : e \in {x \in Export : Normalizable(x)}}

Artifact ==
    [bundle : {a.bundle : a \in Normalized}, records : {a.records : a \in Normalized},
     provenance : {a.provenance : a \in Normalized}, manifest : {a.manifest : a \in Normalized}]

\* A slip for the mutants: the bundle is not compared.
ValidButBundle(a) ==
    a.manifest.records = a.records /\ a.manifest.provenance = a.provenance

\* validate_ingestion_manifest
Valid(a) ==
    /\ a.manifest.bundle = a.bundle
    /\ a.manifest.records = a.records
    /\ a.manifest.provenance = a.provenance

ValidArtifact == {a \in Artifact : Valid(a)}

\* A slip for the mutants: a record is a duplicate only with its amount.
ConflictWithAmount(records, others) == records \cap others # {}

\* _batch_record_conflicts
Conflict(records, others) == \E r \in records, s \in others : r.addr = s.addr

\* validate_source_export_batch, and before it normalize_source_export_batch.
ValidBatch(batch) ==
    /\ batch # <<>>
    /\ \A i \in DOMAIN batch : Valid(batch[i])
    /\ \A i, j \in DOMAIN batch : i # j => ~Conflict(batch[i].records, batch[j].records)

\* validate_ingestion_approval
Approves(p, a) ==
    /\ Valid(a)
    /\ p.decision = "approved" /\ p.bundle = a.bundle /\ p.manifest = a.manifest

NoEnvelope == [signer |-> "none"]
SnapshotEnvelope == {NoEnvelope} \cup [signer : Signer, bundle : {a.bundle : a \in Normalized}]

\* The policy of import_migration_snapshot on the envelope of a bundle; a list of trusted
\* addresses or node ids that is empty asks for nothing.
Signed(b, envelope) ==
    IF envelope = NoEnvelope THEN ~RequireSigned
    ELSE /\ envelope.bundle = b
         /\ \A list \in {Trusted, TrustedNodes} : list # {} => envelope.signer \in list

-----------------------------------------------------------------------------
(* Tables. *)

Absent == [status |-> "absent"]
Review == {"active", "quarantined", "revoked"}
NoBundle == [ref |-> "none"]
NoApproval == [decision |-> "none"]
AtRest == [at |-> "rest"]

IngestionTypeOK ==
    LET bundles == {a.bundle : a \in Normalized}
        approval == [decision : {"approved", "rejected"}, bundle : bundles,
                     manifest : {a.manifest : a \in Normalized}]
    IN  /\ snapshots \in [Ref -> [bundle : bundles, signer : Signer \cup {"none"}, status : Review,
                                  reviewed : BOOLEAN] \cup {Absent}]
        /\ sources \in [Address -> [bundle : bundles \cup {NoBundle}, network : Network,
                                    amount : Nat, status : Review, reviewed : BOOLEAN] \cup {Absent}]
        /\ approvals \subseteq approval
        /\ under \in [Ref -> approval \cup {NoApproval}]
        /\ \A t \in Desks :
              desk[t] = AtRest \/ desk[t] \in [at : {"import"}, bundle : bundles, noop : BOOLEAN,
                                               approval : approval]

IngestionInit ==
    /\ snapshots = [r \in Ref |-> Absent] /\ sources = [a \in Address |-> Absent]
    /\ approvals = {} /\ desk = [t \in Desks |-> AtRest]
    /\ under = [r \in Ref |-> NoApproval]

SnapshotRow(b, signer) == [bundle |-> b, signer |-> signer, status |-> "active", reviewed |-> FALSE]
SourceRow(b, entry) ==
    [bundle |-> b, network |-> b.network, amount |-> entry.amount, status |-> "active", reviewed |-> FALSE]

AddrsOf(b) == {en.addr : en \in b.entries}
EntryAt(b, addr) == CHOOSE en \in b.entries : en.addr = addr

\* Every row that is there is the one the import would write.
Fits(table, rows, b, signer) ==
    /\ table[b.ref] \in {Absent, SnapshotRow(b, signer)}
    /\ \A en \in b.entries : rows[en.addr] \in {Absent, SourceRow(b, en)}

WithSources(rows, b) ==
    [a \in Address |-> IF a \in AddrsOf(b) THEN SourceRow(b, EntryAt(b, a)) ELSE rows[a]]

\* A slip for the mutants: a snapshot of the same contents takes the new signer.
StoreAndResign(b, signer) ==
    IF snapshots[b.ref] # Absent /\ snapshots[b.ref].bundle = b
    THEN snapshots' = [snapshots EXCEPT ![b.ref].signer = signer] /\ UNCHANGED sources
    ELSE IF Fits(snapshots, sources, b, signer)
    THEN snapshots' = [snapshots EXCEPT ![b.ref] = SnapshotRow(b, signer)] /\ sources' = WithSources(sources, b)
    ELSE UNCHANGED <<snapshots, sources>>

\* storage.import_migration_snapshot: one transaction, which a conflict rolls back.
Store(b, signer) ==
    IF Fits(snapshots, sources, b, signer)
    THEN snapshots' = [snapshots EXCEPT ![b.ref] = SnapshotRow(b, signer)] /\ sources' = WithSources(sources, b)
    ELSE UNCHANGED <<snapshots, sources>>

-----------------------------------------------------------------------------
(* reconcile_migration_snapshot, against the sources of the bundle's network. *)

KnownSource(b, en) == sources[en.addr] # Absent /\ sources[en.addr].network = b.network
WouldAdd(b) == {en \in b.entries : ~KnownSource(b, en)}
Changed(b) ==
    {en \in b.entries : KnownSource(b, en) /\ (sources[en.addr].amount # en.amount \/ sources[en.addr].status # "active")}
LocalMissing(b) ==
    {a \in Address \ AddrsOf(b) :
        sources[a] # Absent /\ sources[a].network = b.network /\ sources[a].bundle.ref = b.ref}

\* _source_ingestion_idempotency_evidence
SafeNoop(b) ==
    /\ snapshots[b.ref] # Absent /\ snapshots[b.ref].bundle = b
    /\ WouldAdd(b) = {} /\ Changed(b) = {} /\ LocalMissing(b) = {}

-----------------------------------------------------------------------------
(* Actions. *)

\* approve_source_ingestion
Approve(a, decision) ==
    /\ a \in ValidArtifact /\ Cardinality(approvals) < MaxApprovals
    /\ approvals' = approvals \cup {[decision |-> decision, bundle |-> a.bundle, manifest |-> a.manifest]}
    /\ UNCHANGED <<snapshots, sources, desk, under>>

\* import_approved_source_ingestion: the plan, and when it is ready,
PlanApproved(t, a, p) ==
    /\ desk[t] = AtRest
    /\ Approves(p, a) /\ Changed(a.bundle) = {}
    /\ desk' = [desk EXCEPT ![t] = [at |-> "import", bundle |-> a.bundle, noop |-> SafeNoop(a.bundle),
                                    approval |-> p]]
    /\ UNCHANGED <<snapshots, sources, approvals, under>>

\* the import, with the envelope that came with the artifact.
ImportApproved(t, envelope) ==
    LET b == desk[t].bundle
    IN  /\ desk[t].at = "import"
        /\ IF Signed(b, envelope) THEN Store(b, envelope.signer) ELSE UNCHANGED <<snapshots, sources>>
        /\ under' = IF Signed(b, envelope) /\ Fits(snapshots, sources, b, envelope.signer)
                    THEN [under EXCEPT ![b.ref] = desk[t].approval] ELSE under
        /\ desk' = [desk EXCEPT ![t] = AtRest]
        /\ UNCHANGED approvals

\* import_migration_snapshot of a bundle, without a plan.
ImportBundle(b, envelope) ==
    /\ Signed(b, envelope)
    /\ Store(b, envelope.signer)
    /\ UNCHANGED <<approvals, desk, under>>

\* seed_migration_source without a snapshot, and the reviews of operators.
SeedDirectly(a, n) ==
    /\ sources' = [sources EXCEPT ![a] = [bundle |-> NoBundle, network |-> n, amount |-> SeedAmount,
                                          status |-> "active", reviewed |-> TRUE]]
    /\ UNCHANGED <<snapshots, approvals, desk, under>>

ReviewSnapshot(r, st) ==
    /\ snapshots[r] # Absent
    /\ snapshots' = [snapshots EXCEPT ![r].status = st, ![r].reviewed = TRUE]
    /\ sources' = [a \in Address |->
          IF sources[a] # Absent /\ sources[a].bundle.ref = r
          THEN [sources[a] EXCEPT !.status = st, !.reviewed = TRUE] ELSE sources[a]]
    /\ UNCHANGED <<approvals, desk, under>>

IngestionNext ==
    \/ \E a \in Artifact, decision \in {"approved", "rejected"} : Approve(a, decision)
    \/ \E t \in Desks, a \in Artifact, p \in approvals : PlanApproved(t, a, p)
    \/ \E t \in Desks, envelope \in SnapshotEnvelope : ImportApproved(t, envelope)
    \/ \E a \in Normalized, envelope \in SnapshotEnvelope : ImportBundle(a.bundle, envelope)
    \/ \E a \in Address, n \in Network : SeedDirectly(a, n)
    \/ \E r \in Ref, st \in Decisions : ReviewSnapshot(r, st)

IngestionSpec == IngestionInit /\ [][IngestionNext]_ingestionVars

-----------------------------------------------------------------------------
\* An import whose plan said safe_noop changes no row, whatever was imported, seeded or
\* reviewed between the plan and the import, and whoever signed the artifact.
SafeNoopKeeps ==
    [][\A t \in Desks : desk[t].at = "import" /\ desk[t].noop /\ desk'[t] = AtRest
                          => UNCHANGED <<snapshots, sources>>]_ingestionVars

PairOfBatch ==
    {pair \in ValidArtifact \X ValidArtifact : ValidBatch(pair) /\ pair[1].bundle.ref # pair[2].bundle.ref}

\* The items of a valid batch do not stand in each other's way: two that could be imported
\* now can be imported one after the other, unless they name the same snapshot.
BatchImports ==
    \A pair \in PairOfBatch :
        LET a == pair[1].bundle
            b == pair[2].bundle
        IN  Fits(snapshots, sources, a, "none") /\ Fits(snapshots, sources, b, "none")
            => Fits([snapshots EXCEPT ![a.ref] = SnapshotRow(a, "none")], WithSources(sources, a), b, "none")

\* What is imported under an approval are the amounts of the records that an operator
\* approved, though artifacts are mixed from parts and several may share a bundle.
ImportedAsApproved ==
    \A r \in Ref : under[r] # NoApproval =>
        /\ under[r].decision = "approved" /\ under[r] \in approvals
        /\ snapshots[r].bundle.entries = EntriesOf(under[r].manifest.records)
=============================================================================
