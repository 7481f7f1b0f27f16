------------------------ MODULE MigrationReviewProofs ------------------------
(***************************************************************************)
(* Proofs about MigrationReview, for any addresses, snapshots, disputes,   *)
(* handler threads, operators, windows and heights.  What the tables say   *)
(* of one another holds without conditions; that fraud freezes for good is *)
(* proved for a node on which one thread judges.                           *)
(***************************************************************************)
EXTENDS MigrationReview, TLAPS

SnapshotRow == [from : Provenance, status : Review, reviewed : BOOLEAN]
SourceRow == [ref : Ref \cup {NoRef}, from : Provenance, status : Review, reviewed : BOOLEAN]
DisputeRow == [addr : Address, deadline : Nat, status : Open \cup Closed]

Importing == [at : {"import"}, bundle : Bundle]
Seeding == [at : {"seed"}, addr : Address, ref : Ref \cup {NoRef}]
Expiring == [at : {"expire"}, height : Nat, due : SUBSET Dispute, then : Then]
Releasing == [at : {"release"}, due : SUBSET Dispute, then : Then]
Inserting == [at : {"insert"}, addr : Address]
GivingEvidence == [at : {"evidence"}, dispute : Dispute]
Judging == [at : {"verdict"}, dispute : Dispute, outcome : {"resolved_valid", "resolved_fraud"}]
Reviewing == [at : {"review"}, addr : Address, status : Review]
Place ==
    {Rest} \cup Importing \cup Seeding \cup Expiring \cup Releasing \cup Inserting
           \cup GivingEvidence \cup Judging \cup Reviewing

SnapshotsOK == snapshots \in [Ref -> SnapshotRow \cup {Absent}]
SourcesOK == sources \in [Address -> SourceRow \cup {Absent}]
DisputesOK == disputes \in [Dispute -> DisputeRow \cup {Absent}]
ChainOK == blockCount \in Nat /\ claimed \in [Address -> Nat \cup {-1}] /\ spent \subseteq Address
DeskOK == desk \in [Desks -> Place]

LEMMA TypeParts ==
    MigrationTypeOK <=>
        /\ SnapshotsOK /\ SourcesOK /\ DisputesOK /\ ChainOK /\ DeskOK
        /\ condemned \subseteq Address
BY DEF MigrationTypeOK, SnapshotsOK, SourcesOK, DisputesOK, ChainOK, DeskOK, Place, SnapshotRow,
       SourceRow, DisputeRow, Importing, Seeding, Expiring, Releasing, Inserting, GivingEvidence,
       Judging, Reviewing

LEMMA TypePartsNext ==
    MigrationTypeOK' <=>
        /\ SnapshotsOK' /\ SourcesOK' /\ DisputesOK' /\ ChainOK' /\ DeskOK'
        /\ condemned' \subseteq Address
BY DEF MigrationTypeOK, SnapshotsOK, SourcesOK, DisputesOK, ChainOK, DeskOK, Place, SnapshotRow,
       SourceRow, DisputeRow, Importing, Seeding, Expiring, Releasing, Inserting, GivingEvidence,
       Judging, Reviewing

\* What a thread's place says, by its name.
LEMMA PlaceFields ==
    ASSUME NEW j \in Place
    PROVE  /\ j.at = "import" => j \in Importing
           /\ j.at = "seed" => j \in Seeding
           /\ j.at = "expire" => j \in Expiring
           /\ j.at = "release" => j \in Releasing
           /\ j.at = "insert" => j \in Inserting
           /\ j.at = "evidence" => j \in GivingEvidence
           /\ j.at = "verdict" => j \in Judging
           /\ j.at = "review" => j \in Reviewing
BY DEF Place, Rest, Importing, Seeding, Expiring, Releasing, Inserting, GivingEvidence, Judging,
       Reviewing

\* What a thread's next place must say: a seed has its stub, a release its disputes, and
\* a judge the dispute that was checked.
PlaceFits(j, snaps, disps) ==
    /\ j.at = "seed" /\ j.ref # NoRef => snaps[j.ref] # Absent
    /\ j.at \in {"expire", "release"} => \A d \in j.due : disps[d] # Absent
    /\ j.at \in {"evidence", "verdict"} => disps[j.dispute] # Absent

\* A judge writes to a dispute that is there (the part of PendingOnOpen that holds whoever
\* judges).
PendingKnown ==
    \A t \in Desks : desk[t].at \in {"evidence", "verdict"} => disputes[desk[t].dispute] # Absent

\* The tables and what they say of one another: the part of MigrationIInv that holds
\* whoever judges.
TablesOK ==
    /\ MigrationTypeOK
    /\ StubFirst /\ DueKnown /\ PendingKnown
    /\ ImportedWhole /\ SourcesHaveSnapshots

\* A thread goes to a place that fits, and no snapshot and no dispute is lost.
LEMMA DeskStep ==
    ASSUME TablesOK, NEW t \in Desks, NEW j \in Place, DeskTo(t, j),
           PlaceFits(j, snapshots', disputes'),
           \A r \in Ref : snapshots[r] # Absent => snapshots'[r] # Absent,
           \A d \in Dispute : disputes[d] # Absent => disputes'[d] # Absent
    PROVE  DeskOK' /\ StubFirst' /\ DueKnown' /\ PendingKnown'
<1>1. DeskOK
  BY TypeParts DEF TablesOK
<1>2. desk' = [u \in Desks |-> IF u = t THEN j ELSE desk[u]]
  BY <1>1 DEF DeskTo, DeskOK
<1>3. DeskOK'
  BY <1>1, <1>2 DEF DeskOK
<1>4. ASSUME NEW u \in Desks, desk'[u].at = "seed", desk'[u].ref # NoRef
      PROVE  snapshots'[desk'[u].ref] # Absent
  <2>1. CASE u = t
    BY <1>2, <1>4, <2>1 DEF PlaceFits
  <2>2. CASE u # t
    <3>1. desk'[u] = desk[u] /\ desk[u] \in Place
      BY <1>1, <1>2, <2>2 DEF DeskOK
    <3>2. desk[u].ref \in Ref
      BY <1>4, <3>1, PlaceFields DEF Seeding
    <3> QED BY <1>4, <3>1, <3>2 DEF TablesOK, StubFirst
  <2> QED BY <2>1, <2>2
<1>5. ASSUME NEW u \in Desks, desk'[u].at \in {"expire", "release"}, NEW d \in desk'[u].due
      PROVE  disputes'[d] # Absent
  <2>1. CASE u = t
    BY <1>2, <1>5, <2>1 DEF PlaceFits
  <2>2. CASE u # t
    <3>1. desk'[u] = desk[u] /\ desk[u] \in Place
      BY <1>1, <1>2, <2>2 DEF DeskOK
    <3>2. d \in Dispute
      BY <1>5, <3>1, PlaceFields DEF Expiring, Releasing
    <3> QED BY <1>5, <3>1, <3>2 DEF TablesOK, DueKnown
  <2> QED BY <2>1, <2>2
<1>6. ASSUME NEW u \in Desks, desk'[u].at \in {"evidence", "verdict"}
      PROVE  disputes'[desk'[u].dispute] # Absent
  <2>1. CASE u = t
    BY <1>2, <1>6, <2>1 DEF PlaceFits
  <2>2. CASE u # t
    <3>1. desk'[u] = desk[u] /\ desk[u] \in Place
      BY <1>1, <1>2, <2>2 DEF DeskOK
    <3>2. desk[u].dispute \in Dispute
      BY <1>6, <3>1, PlaceFields DEF GivingEvidence, Judging
    <3> QED BY <1>6, <3>1, <3>2 DEF TablesOK, PendingKnown
  <2> QED BY <2>1, <2>2
<1> QED BY <1>3, <1>4, <1>5, <1>6 DEF StubFirst, DueKnown, PendingKnown

\* What a step may do to the rows of snapshots and sources.
RowsStay ==
    /\ \A r \in Ref : snapshots[r] # Absent => snapshots'[r] # Absent
    /\ \A a \in Address : sources[a] # Absent => sources'[a] # Absent
    /\ \A r \in Ref : snapshots'[r] # Absent /\ snapshots'[r].from \in Bundle =>
           \/ snapshots[r] # Absent /\ snapshots[r].from = snapshots'[r].from
           \/ \A a \in EntriesOf[snapshots'[r].from] : sources'[a] # Absent
    /\ \A a \in Address : sources'[a] # Absent =>
           \/ sources[a] # Absent /\ sources[a].ref = sources'[a].ref
           \/ sources'[a].ref = NoRef
           \/ snapshots'[sources'[a].ref] # Absent

\* Snapshots and sources change in such a way that what they say of one another stays.
LEMMA TableStep ==
    ASSUME TablesOK, SnapshotsOK', SourcesOK', RowsStay
    PROVE  ImportedWhole' /\ SourcesHaveSnapshots'
<1>1. ASSUME NEW r \in Ref, snapshots'[r] # Absent, snapshots'[r].from \in Bundle,
             NEW a \in EntriesOf[snapshots'[r].from]
      PROVE  sources'[a] # Absent
  <2>1. a \in Address
    BY <1>1, MigrationReviewAssumption
  <2> QED BY <1>1, <2>1 DEF TablesOK, ImportedWhole, RowsStay
<1>2. ASSUME NEW a \in Address, sources'[a] # Absent, sources'[a].ref # NoRef
      PROVE  snapshots'[sources'[a].ref] # Absent
  <2>1. sources'[a].ref \in Ref
    BY <1>2 DEF SourcesOK, SourceRow
  <2> QED BY <1>2, <2>1 DEF TablesOK, SourcesHaveSnapshots, RowsStay
<1> QED BY <1>1, <1>2 DEF ImportedWhole, SourcesHaveSnapshots

\* A step that only moves a thread.
LEMMA MoveKeeps ==
    ASSUME TablesOK, NEW t \in Desks, NEW j \in Place, DeskTo(t, j),
           PlaceFits(j, snapshots, disputes),
           UNCHANGED <<snapshots, sources, disputes, condemned>>, ChainUnchanged
    PROVE  TablesOK'
<1>1. DeskOK' /\ StubFirst' /\ DueKnown' /\ PendingKnown'
  BY DeskStep
<1>2. SnapshotsOK' /\ SourcesOK' /\ DisputesOK' /\ ChainOK' /\ condemned' \subseteq Address
  BY TypeParts DEF TablesOK, ChainUnchanged, SnapshotsOK, SourcesOK, DisputesOK, ChainOK
<1>3. ImportedWhole' /\ SourcesHaveSnapshots'
  BY DEF TablesOK, ImportedWhole, SourcesHaveSnapshots
<1> QED BY <1>1, <1>2, <1>3, TypePartsNext DEF TablesOK

\* A step that writes snapshots or sources, and moves its thread.
LEMMA WriteKeeps ==
    ASSUME TablesOK, NEW t \in Desks, NEW j \in Place, DeskTo(t, j),
           PlaceFits(j, snapshots', disputes),
           SnapshotsOK', SourcesOK', RowsStay,
           UNCHANGED <<disputes, condemned>>, ChainUnchanged
    PROVE  TablesOK'
<1>1. DeskOK' /\ StubFirst' /\ DueKnown' /\ PendingKnown'
  BY DeskStep DEF RowsStay
<1>2. DisputesOK' /\ ChainOK' /\ condemned' \subseteq Address
  BY TypeParts DEF TablesOK, ChainUnchanged, DisputesOK, ChainOK
<1>3. ImportedWhole' /\ SourcesHaveSnapshots'
  BY TableStep
<1> QED BY <1>1, <1>2, <1>3, TypePartsNext DEF TablesOK

\* A step that writes disputes.
LEMMA DisputeKeeps ==
    ASSUME TablesOK, NEW t \in Desks, NEW j \in Place, DeskTo(t, j),
           PlaceFits(j, snapshots, disputes'),
           DisputesOK', \A d \in Dispute : disputes[d] # Absent => disputes'[d] # Absent,
           condemned' \subseteq Address,
           UNCHANGED <<snapshots, sources>>, ChainUnchanged
    PROVE  TablesOK'
<1>1. DeskOK' /\ StubFirst' /\ DueKnown' /\ PendingKnown'
  BY DeskStep
<1>2. SnapshotsOK' /\ SourcesOK' /\ ChainOK'
  BY TypeParts DEF TablesOK, ChainUnchanged, SnapshotsOK, SourcesOK, ChainOK
<1>3. ImportedWhole' /\ SourcesHaveSnapshots'
  BY DEF TablesOK, ImportedWhole, SourcesHaveSnapshots
<1> QED BY <1>1, <1>2, <1>3, TypePartsNext DEF TablesOK

\* The rows that an import writes, and a seeded row, are rows.
LEMMA FreshRows ==
    ASSUME NEW b \in Bundle
    PROVE  /\ FreshSnapshot(b) \in SnapshotRow /\ FreshSnapshot(b) # Absent
           /\ FreshSnapshot(b).from = b
           /\ FreshRow(RefOf[b], b) \in SourceRow /\ FreshRow(RefOf[b], b) # Absent
           /\ FreshRow(RefOf[b], b).ref = RefOf[b] /\ RefOf[b] \in Ref
           /\ EntriesOf[b] \subseteq Address
BY MigrationReviewAssumption
   DEF FreshSnapshot, FreshRow, SnapshotRow, SourceRow, Absent, Provenance, Review

LEMMA ImportKeeps ==
    ASSUME TablesOK, NEW t \in Desks, NEW b \in Bundle, ImportBundle(t, b)
    PROVE  TablesOK'
<1> DEFINE row == FreshRow(RefOf[b], b)
<1>1. SnapshotsOK /\ SourcesOK
  BY TypeParts DEF TablesOK
<1>2. Rest \in Place /\ Rest.at = "rest"
  BY DEF Place, Rest
<1>3. DeskTo(t, Rest) /\ UNCHANGED <<disputes, condemned>> /\ ChainUnchanged
  BY DEF ImportBundle
<1>4. PlaceFits(Rest, snapshots', disputes)
  BY <1>2 DEF PlaceFits
<1>5. CASE Importable(b)
  <2>1. /\ snapshots' = [r \in Ref |-> IF r = RefOf[b] THEN FreshSnapshot(b) ELSE snapshots[r]]
        /\ sources' = [a \in Address |-> IF a \in EntriesOf[b] THEN row ELSE sources[a]]
    BY <1>1, <1>5 DEF ImportBundle, SnapshotsOK
  <2>2. SnapshotsOK'
    BY <1>1, <2>1, FreshRows DEF SnapshotsOK
  <2>3. SourcesOK'
    BY <1>1, <2>1, FreshRows DEF SourcesOK
  <2>4. snapshots'[RefOf[b]] # Absent
    BY <2>1, FreshRows
  <2>5. \A a \in Address : sources'[a] # Absent =>
           \/ sources[a] # Absent /\ sources[a].ref = sources'[a].ref
           \/ snapshots'[sources'[a].ref] # Absent
    BY <2>1, <2>4, FreshRows
  <2>6. \A r \in Ref : snapshots'[r] # Absent /\ snapshots'[r].from \in Bundle =>
           \/ snapshots[r] # Absent /\ snapshots[r].from = snapshots'[r].from
           \/ \A a \in EntriesOf[snapshots'[r].from] : sources'[a] # Absent
    BY <2>1, FreshRows
  <2>7. RowsStay
    BY <2>1, <2>5, <2>6, FreshRows DEF RowsStay
  <2> QED BY <1>2, <1>3, <1>4, <2>2, <2>3, <2>7, WriteKeeps
<1>6. CASE ~Importable(b)
  <2>1. UNCHANGED <<snapshots, sources>>
    BY <1>6 DEF ImportBundle
  <2> QED BY <1>2, <1>3, <1>4, <2>1, MoveKeeps
<1> QED BY <1>5, <1>6

LEMMA SeedStubKeeps ==
    ASSUME TablesOK, NEW t \in Desks, NEW a \in Stubbed, NEW r \in Ref \cup {NoRef}, SeedStub(t, a, r)
    PROVE  TablesOK'
<1> DEFINE j == [at |-> "seed", addr |-> a, ref |-> r]
           stub == [from |-> "none", status |-> "active", reviewed |-> TRUE]
<1>1. SnapshotsOK /\ SourcesOK
  BY TypeParts DEF TablesOK
<1>2. j \in Place /\ j.at = "seed" /\ j.ref = r
  BY MigrationReviewAssumption DEF Place, Seeding
<1>3. DeskTo(t, j) /\ UNCHANGED <<sources, disputes, condemned>> /\ ChainUnchanged
  BY DEF SeedStub
<1>4. stub \in SnapshotRow /\ stub # Absent /\ stub.from \notin Bundle
  BY MigrationReviewAssumption DEF SnapshotRow, Absent, Provenance, Review
<1>5. /\ snapshots' \in [Ref -> SnapshotRow \cup {Absent}]
      /\ \A q \in Ref : \/ snapshots'[q] = snapshots[q]
                        \/ snapshots'[q] # Absent /\ snapshots'[q].from \notin Bundle
      /\ \A q \in Ref : snapshots[q] # Absent => snapshots'[q] # Absent
      /\ r # NoRef => snapshots'[r] # Absent
  <2>1. CASE r = NoRef \/ snapshots[r] # Absent
    BY <1>1, <2>1 DEF SeedStub, SnapshotsOK
  <2>2. CASE r # NoRef /\ snapshots[r] = Absent
    <3>1. snapshots' = [q \in Ref |-> IF q = r THEN stub ELSE snapshots[q]]
      BY <1>1, <2>2 DEF SeedStub, SnapshotsOK
    <3> QED BY <1>1, <1>4, <2>2, <3>1 DEF SnapshotsOK
  <2> QED BY <2>1, <2>2
<1> HIDE DEF j, stub
<1>6. PlaceFits(j, snapshots', disputes)
  BY <1>2, <1>5 DEF PlaceFits
<1>7. SnapshotsOK' /\ SourcesOK'
  BY <1>1, <1>3, <1>5 DEF SnapshotsOK, SourcesOK
<1>8. RowsStay
  BY <1>3, <1>5 DEF RowsStay
<1> QED BY <1>2, <1>3, <1>6, <1>7, <1>8, WriteKeeps

LEMMA SeedSourceKeeps ==
    ASSUME TablesOK, NEW t \in Desks, SeedSource(t)
    PROVE  TablesOK'
<1> DEFINE j == desk[t]
           row == [ref |-> j.ref, from |-> "none", status |-> "active", reviewed |-> TRUE]
<1>1. SnapshotsOK /\ SourcesOK /\ DeskOK
  BY TypeParts DEF TablesOK
<1>2. j \in Seeding /\ j.at = "seed"
  BY <1>1, PlaceFields DEF SeedSource, DeskOK
<1>3. DeskTo(t, Rest) /\ UNCHANGED <<snapshots, disputes, condemned>> /\ ChainUnchanged
  BY DEF SeedSource
<1>4. Rest \in Place /\ PlaceFits(Rest, snapshots', disputes)
  BY DEF Place, Rest, PlaceFits
<1>5. sources' = [a \in Address |-> IF a = j.addr THEN row ELSE sources[a]]
  BY <1>1 DEF SeedSource, SourcesOK
<1>6. row \in SourceRow /\ row # Absent /\ row.ref = j.ref
  BY <1>2 DEF Seeding, SourceRow, Absent, Provenance, Review
<1>7. j.ref # NoRef => snapshots[j.ref] # Absent
  BY <1>2 DEF TablesOK, StubFirst
<1>8. SnapshotsOK' /\ SourcesOK'
  BY <1>1, <1>3, <1>5, <1>6 DEF SnapshotsOK, SourcesOK
<1> HIDE DEF row
<1>9. RowsStay
  BY <1>3, <1>5, <1>6, <1>7 DEF RowsStay
<1> QED BY <1>3, <1>4, <1>8, <1>9, WriteKeeps

\* A review of a row keeps its origin and its reference.
LEMMA ReviewedSource ==
    ASSUME NEW row \in SourceRow, NEW st \in Review
    PROVE  LET new == [row EXCEPT !.status = st, !.reviewed = TRUE]
           IN  new \in SourceRow /\ new # Absent /\ new.ref = row.ref
BY DEF SourceRow, Review, Absent

LEMMA ReviewedSnapshot ==
    ASSUME NEW row \in SnapshotRow, NEW st \in Review
    PROVE  LET new == [row EXCEPT !.status = st, !.reviewed = TRUE]
           IN  new \in SnapshotRow /\ new # Absent /\ new.from = row.from
BY DEF SnapshotRow, Review, Absent

LEMMA StatusSet ==
    ASSUME TablesOK, NEW a \in Address, NEW st \in Review, SetStatus(a, st), snapshots' = snapshots
    PROVE  SnapshotsOK' /\ SourcesOK' /\ RowsStay
<1>1. SnapshotsOK /\ SourcesOK
  BY TypeParts DEF TablesOK
<1>2. CASE sources[a] = Absent
  BY <1>1, <1>2 DEF SetStatus, SnapshotsOK, SourcesOK, RowsStay
<1>3. CASE sources[a] # Absent
  <2> DEFINE new == [sources[a] EXCEPT !.status = st, !.reviewed = TRUE]
  <2>1. sources[a] \in SourceRow
    BY <1>1, <1>3 DEF SourcesOK
  <2>2. new \in SourceRow /\ new # Absent /\ new.ref = sources[a].ref
    BY <2>1, ReviewedSource
  <2>3. sources' = [b \in Address |-> IF b = a THEN new ELSE sources[b]]
    BY <1>1, <1>3 DEF SetStatus, SourcesOK
  <2> HIDE DEF new
  <2> QED BY <1>1, <1>3, <2>2, <2>3 DEF SnapshotsOK, SourcesOK, RowsStay
<1> QED BY <1>2, <1>3

\* A thread that does not move still fits.
LEMMA StillFits ==
    ASSUME TablesOK, NEW t \in Desks, RowsStay
    PROVE  desk[t] \in Place /\ PlaceFits(desk[t], snapshots', disputes)
<1>1. desk[t] \in Place
  BY TypeParts DEF TablesOK, DeskOK
<1>2. desk[t].at = "seed" => desk[t].ref \in Ref \cup {NoRef}
  BY <1>1, PlaceFields DEF Seeding
<1> QED BY <1>1, <1>2 DEF PlaceFits, TablesOK, StubFirst, DueKnown, PendingKnown, RowsStay

LEMMA SetSnapshotStatusKeeps ==
    ASSUME TablesOK, NEW t \in Desks, NEW r \in Ref, NEW st \in Decisions, NEW cascade \in BOOLEAN,
           SetSnapshotStatus(t, r, st, cascade)
    PROVE  TablesOK'
<1> DEFINE new == [snapshots[r] EXCEPT !.status = st, !.reviewed = TRUE]
           reviewed(a) == [sources[a] EXCEPT !.status = st, !.reviewed = TRUE]
<1>1. SnapshotsOK /\ SourcesOK /\ DeskOK /\ st \in Review
  BY TypeParts, MigrationReviewAssumption DEF TablesOK, Review
<1>2. new \in SnapshotRow /\ new # Absent /\ new.from = snapshots[r].from
  BY <1>1, ReviewedSnapshot DEF SetSnapshotStatus, SnapshotsOK
<1>3. snapshots' = [q \in Ref |-> IF q = r THEN new ELSE snapshots[q]] /\ snapshots[r] # Absent
  BY <1>1 DEF SetSnapshotStatus, SnapshotsOK
<1>4. ASSUME NEW a \in Address, sources[a] # Absent
      PROVE  reviewed(a) \in SourceRow /\ reviewed(a) # Absent /\ reviewed(a).ref = sources[a].ref
  BY <1>1, <1>4, ReviewedSource DEF SourcesOK
<1>5. sources' = [a \in Address |-> IF cascade /\ sources[a] # Absent /\ sources[a].ref = r
                                     THEN reviewed(a) ELSE sources[a]]
  BY <1>1 DEF SetSnapshotStatus, SourcesOK
<1> HIDE DEF new, reviewed
<1>6. SnapshotsOK'
  BY <1>1, <1>2, <1>3 DEF SnapshotsOK
<1>7. SourcesOK'
  BY <1>1, <1>4, <1>5 DEF SourcesOK
<1>8. \A a \in Address :
         /\ sources[a] # Absent => sources'[a] # Absent
         /\ sources'[a] # Absent => sources[a] # Absent /\ sources[a].ref = sources'[a].ref
  BY <1>4, <1>5
<1>9. RowsStay
  BY <1>2, <1>3, <1>8 DEF RowsStay
<1>10. DeskTo(t, desk[t]) /\ UNCHANGED <<disputes, condemned>> /\ ChainUnchanged
  BY <1>1 DEF SetSnapshotStatus, DeskTo, DeskOK
<1> QED BY <1>6, <1>7, <1>9, <1>10, StillFits, WriteKeeps

LEMMA SetSourceStatusKeeps ==
    ASSUME TablesOK, NEW t \in Desks, NEW a \in Contested, NEW st \in Decisions,
           SetSourceStatus(t, a, st)
    PROVE  TablesOK'
<1>1. a \in Address /\ st \in Review /\ DeskOK
  BY MigrationReviewAssumption, TypeParts DEF Review, TablesOK
<1>2. SnapshotsOK' /\ SourcesOK' /\ RowsStay
  BY <1>1, StatusSet DEF SetSourceStatus
<1>3. DeskTo(t, desk[t]) /\ UNCHANGED <<disputes, condemned>> /\ ChainUnchanged
  BY <1>1 DEF SetSourceStatus, DeskTo, DeskOK
<1> QED BY <1>2, <1>3, StillFits, WriteKeeps

LEMMA ReviewSourceKeeps ==
    ASSUME TablesOK, NEW t \in Desks, ReviewSource(t)
    PROVE  TablesOK'
<1>1. desk[t] \in Reviewing
  BY TypeParts, PlaceFields DEF TablesOK, DeskOK, ReviewSource
<1>2. SnapshotsOK' /\ SourcesOK' /\ RowsStay
  BY <1>1, StatusSet DEF ReviewSource, Reviewing
<1>3. Rest \in Place /\ PlaceFits(Rest, snapshots', disputes)
  BY DEF Place, Rest, PlaceFits
<1> QED BY <1>2, <1>3, WriteKeeps DEF ReviewSource

LEMMA ReleaseKeeps ==
    ASSUME TablesOK, NEW t \in Desks, NEW d \in Dispute, Release(t, d)
    PROVE  TablesOK'
<1> DEFINE j == [desk[t] EXCEPT !.due = @ \ {d}]
<1>1. DisputesOK /\ desk[t] \in Releasing /\ d \in desk[t].due
  BY TypeParts, PlaceFields DEF TablesOK, DeskOK, Release
<1>2. disputes[d] \in DisputeRow
  BY <1>1 DEF TablesOK, DueKnown, DisputesOK, Release
<1>3. SnapshotsOK' /\ SourcesOK' /\ RowsStay
  BY <1>2, StatusSet DEF Release, DisputeRow, Review
<1>4. j \in Place /\ j.at = "release" /\ j.due \subseteq desk[t].due
  BY <1>1 DEF Place, Releasing
<1>5. PlaceFits(j, snapshots', disputes)
  BY <1>1, <1>4 DEF PlaceFits, TablesOK, DueKnown, Release
<1>6. DeskTo(t, j)
  BY DEF Release
<1> QED BY <1>3, <1>4, <1>5, <1>6, WriteKeeps DEF Release

-----------------------------------------------------------------------------
(* The steps that move a thread, and those that write disputes. *)

LEMMA PlanImportKeeps ==
    ASSUME TablesOK, NEW t \in Desks, NEW b \in Bundle, PlanImport(t, b)
    PROVE  TablesOK'
<1> DEFINE j == [at |-> "import", bundle |-> b]
<1>1. j \in Place /\ j.at = "import"
  BY DEF Place, Importing
<1>2. PlaceFits(j, snapshots, disputes)
  BY <1>1 DEF PlaceFits
<1> QED BY <1>1, <1>2, MoveKeeps DEF PlanImport

LEMMA StartExpiryKeeps ==
    ASSUME TablesOK, NEW t \in Desks, NEW then \in Contested \cup {"none"}, StartExpiry(t, then)
    PROVE  TablesOK'
<1> DEFINE due == {d \in Dispute : Overdue(d, blockCount)}
           j == [at |-> "expire", height |-> blockCount, due |-> due, then |-> then]
<1>1. \A d \in due : disputes[d] # Absent
  BY DEF Overdue, IsOpen, Absent, Open
<1>2. due \in SUBSET Dispute /\ blockCount \in Nat /\ then \in Then
  BY TypeParts, MigrationReviewAssumption DEF TablesOK, ChainOK, Then
<1>3. DeskTo(t, j)
  BY DEF StartExpiry
<1> HIDE DEF due
<1>4. j \in Place /\ j.at = "expire" /\ j.due = due
  BY <1>2 DEF Place, Expiring
<1>5. PlaceFits(j, snapshots, disputes)
  BY <1>1, <1>4 DEF PlaceFits
<1> QED BY <1>3, <1>4, <1>5, MoveKeeps DEF StartExpiry

LEMMA ExpiredKeeps ==
    ASSUME TablesOK, NEW t \in Desks, Expired(t)
    PROVE  TablesOK'
<1> DEFINE j == IF desk[t].then = "none" THEN Rest ELSE [at |-> "insert", addr |-> desk[t].then]
<1>1. desk[t] \in Releasing
  BY TypeParts, PlaceFields DEF TablesOK, DeskOK, Expired
<1>2. j \in Place /\ j.at \in {"rest", "insert"}
  BY <1>1 DEF Place, Rest, Inserting, Releasing, Then
<1>3. PlaceFits(j, snapshots, disputes)
  BY <1>2 DEF PlaceFits
<1> QED BY <1>2, <1>3, MoveKeeps DEF Expired

LEMMA CheckEvidenceKeeps ==
    ASSUME TablesOK, NEW t \in Desks, NEW d \in Dispute, CheckEvidence(t, d)
    PROVE  TablesOK'
<1> DEFINE j == [at |-> "evidence", dispute |-> d]
<1>1. j \in Place /\ j.at = "evidence" /\ j.dispute = d
  BY DEF Place, GivingEvidence
<1>2. disputes[d] # Absent
  BY DEF CheckEvidence, TakesEvidence, IsOpen, Open, Absent
<1>3. PlaceFits(j, snapshots, disputes)
  BY <1>1, <1>2 DEF PlaceFits
<1> QED BY <1>1, <1>3, MoveKeeps DEF CheckEvidence

LEMMA CheckResolvableKeeps ==
    ASSUME TablesOK, NEW t \in Desks, NEW d \in Dispute,
           NEW outcome \in {"resolved_valid", "resolved_fraud"}, CheckResolvable(t, d, outcome)
    PROVE  TablesOK'
<1> DEFINE j == [at |-> "verdict", dispute |-> d, outcome |-> outcome]
<1>1. j \in Place /\ j.at = "verdict" /\ j.dispute = d
  BY DEF Place, Judging
<1>2. disputes[d] # Absent
  BY DEF CheckResolvable, IsOpen, Open, Absent
<1>3. PlaceFits(j, snapshots, disputes)
  BY <1>1, <1>2 DEF PlaceFits
<1> QED BY <1>1, <1>3, MoveKeeps DEF CheckResolvable

\* A new status makes a row of a row.
LEMMA StatusOfRow ==
    ASSUME NEW row \in DisputeRow, NEW st \in Open \cup Closed
    PROVE  LET new == [row EXCEPT !.status = st]
           IN  new \in DisputeRow /\ new # Absent /\ new.addr = row.addr /\ new.status = st
BY DEF DisputeRow, Absent, Open, Closed

LEMMA ExpireKeeps ==
    ASSUME TablesOK, NEW t \in Desks, Expire(t)
    PROVE  TablesOK'
<1> DEFINE old == desk[t]
           j == [at |-> "release", due |-> old.due, then |-> old.then]
           expired(d) == [disputes[d] EXCEPT !.status = "expired"]
<1>1. DisputesOK /\ old \in Expiring /\ old.at = "expire"
  BY TypeParts, PlaceFields DEF TablesOK, DeskOK, Expire
<1>2. disputes' = [d \in Dispute |-> IF Overdue(d, old.height) THEN expired(d) ELSE disputes[d]]
  BY DEF Expire
<1>3. ASSUME NEW d \in Dispute, Overdue(d, old.height)
      PROVE  expired(d) \in DisputeRow /\ expired(d) # Absent
  <2>1. disputes[d] \in DisputeRow
    BY <1>1, <1>3 DEF DisputesOK, Overdue, IsOpen, Absent, Open
  <2> QED BY <2>1, StatusOfRow DEF Closed
<1> HIDE DEF expired
<1>4. DisputesOK' /\ \A d \in Dispute : disputes[d] # Absent => disputes'[d] # Absent
  BY <1>1, <1>2, <1>3 DEF DisputesOK
<1>5. j \in Place /\ j.at = "release" /\ j.due = old.due
  BY <1>1 DEF Place, Expiring, Releasing
<1>6. \A d \in old.due : d \in Dispute /\ disputes[d] # Absent
  BY <1>1 DEF TablesOK, DueKnown, Expiring
<1>7. PlaceFits(j, snapshots, disputes')
  BY <1>4, <1>5, <1>6 DEF PlaceFits
<1>8. DeskTo(t, j) /\ condemned' \subseteq Address
  BY TypeParts DEF Expire, TablesOK
<1> QED BY <1>4, <1>5, <1>7, <1>8, DisputeKeeps DEF Expire

LEMMA OpenDisputeKeeps ==
    ASSUME TablesOK, NEW t \in Desks, NEW d \in Dispute, OpenDispute(t, d)
    PROVE  TablesOK'
<1> DEFINE a == desk[t].addr
           row == [addr |-> a, deadline |-> blockCount + Window, status |-> "open"]
           j == [at |-> "review", addr |-> a, status |-> "quarantined"]
<1>1. DisputesOK /\ blockCount \in Nat /\ a \in Address
  BY TypeParts, PlaceFields DEF TablesOK, DeskOK, ChainOK, OpenDispute, Inserting
<1>2. row \in DisputeRow /\ row # Absent
  BY <1>1, MigrationReviewAssumption DEF DisputeRow, Open, Absent
<1>3. disputes' = [e \in Dispute |-> IF e = d THEN row ELSE disputes[e]]
  BY <1>1 DEF OpenDispute, DisputesOK
<1>4. j \in Place /\ j.at = "review"
  BY <1>1 DEF Place, Reviewing, Review
<1>5. DeskTo(t, j) /\ condemned' \subseteq Address
  BY TypeParts DEF OpenDispute, TablesOK
<1> HIDE DEF row
<1>6. DisputesOK' /\ \A e \in Dispute : disputes[e] # Absent => disputes'[e] # Absent
  BY <1>1, <1>2, <1>3 DEF DisputesOK
<1>7. PlaceFits(j, snapshots, disputes')
  BY <1>4 DEF PlaceFits
<1> QED BY <1>4, <1>5, <1>6, <1>7, DisputeKeeps DEF OpenDispute

LEMMA SubmitEvidenceKeeps ==
    ASSUME TablesOK, NEW t \in Desks, SubmitEvidence(t)
    PROVE  TablesOK'
<1> DEFINE d == desk[t].dispute
           row == [disputes[d] EXCEPT !.status = "evidence_submitted"]
           j == [at |-> "review", addr |-> disputes[d].addr, status |-> "quarantined"]
<1>1. DisputesOK /\ d \in Dispute
  BY TypeParts, PlaceFields DEF TablesOK, DeskOK, SubmitEvidence, GivingEvidence
<1>2. disputes[d] \in DisputeRow
  BY <1>1 DEF TablesOK, PendingKnown, DisputesOK, SubmitEvidence
<1>3. row \in DisputeRow /\ row # Absent
  BY <1>2, StatusOfRow DEF Open
<1>4. disputes' = [e \in Dispute |-> IF e = d THEN row ELSE disputes[e]]
  BY <1>1 DEF SubmitEvidence, DisputesOK
<1>5. j \in Place /\ j.at = "review"
  BY <1>2 DEF Place, Reviewing, Review, DisputeRow
<1>6. DeskTo(t, j) /\ condemned' \subseteq Address
  BY TypeParts DEF SubmitEvidence, TablesOK
<1> HIDE DEF row
<1>7. DisputesOK' /\ \A e \in Dispute : disputes[e] # Absent => disputes'[e] # Absent
  BY <1>1, <1>3, <1>4 DEF DisputesOK
<1>8. PlaceFits(j, snapshots, disputes')
  BY <1>5 DEF PlaceFits
<1> QED BY <1>5, <1>6, <1>7, <1>8, DisputeKeeps DEF SubmitEvidence

LEMMA ResolveKeeps ==
    ASSUME TablesOK, NEW t \in Desks, Resolve(t)
    PROVE  TablesOK'
<1> DEFINE d == desk[t].dispute
           fraud == desk[t].outcome = "resolved_fraud"
           row == [disputes[d] EXCEPT !.status = desk[t].outcome]
           j == [at |-> "review", addr |-> disputes[d].addr,
                 status |-> IF fraud THEN "revoked" ELSE "active"]
<1>1. DisputesOK /\ d \in Dispute /\ desk[t].outcome \in Closed
  BY TypeParts, PlaceFields DEF TablesOK, DeskOK, Resolve, Judging, Closed
<1>2. disputes[d] \in DisputeRow
  BY <1>1 DEF TablesOK, PendingKnown, DisputesOK, Resolve
<1>3. row \in DisputeRow /\ row # Absent
  BY <1>1, <1>2, StatusOfRow
<1>4. disputes' = [e \in Dispute |-> IF e = d THEN row ELSE disputes[e]]
  BY <1>1 DEF Resolve, DisputesOK
<1>5. j \in Place /\ j.at = "review"
  BY <1>2 DEF Place, Reviewing, Review, DisputeRow
<1>6. DeskTo(t, j)
  BY DEF Resolve
<1>7. condemned' \subseteq Address
  BY <1>2, TypeParts DEF Resolve, TablesOK, DisputeRow
<1> HIDE DEF row
<1>8. DisputesOK' /\ \A e \in Dispute : disputes[e] # Absent => disputes'[e] # Absent
  BY <1>1, <1>3, <1>4 DEF DisputesOK
<1>9. PlaceFits(j, snapshots, disputes')
  BY <1>5 DEF PlaceFits
<1> QED BY <1>5, <1>6, <1>7, <1>8, <1>9, DisputeKeeps DEF Resolve

LEMMA BlockKeeps ==
    ASSUME TablesOK, NEW C \in SUBSET Contested, NEW S \in SUBSET Contested, Block(C, S)
    PROVE  TablesOK'
<1>1. UNCHANGED <<snapshots, sources, disputes, desk, condemned>>
  BY DEF Block
<1>2. ChainOK'
  BY TypeParts, MigrationReviewAssumption DEF TablesOK, ChainOK, Block
<1>3. SnapshotsOK' /\ SourcesOK' /\ DisputesOK' /\ DeskOK' /\ condemned' \subseteq Address
  BY <1>1, TypeParts DEF TablesOK, SnapshotsOK, SourcesOK, DisputesOK, DeskOK
<1>4. StubFirst' /\ DueKnown' /\ PendingKnown' /\ ImportedWhole' /\ SourcesHaveSnapshots'
  BY <1>1 DEF TablesOK, StubFirst, DueKnown, PendingKnown, ImportedWhole, SourcesHaveSnapshots
<1> QED BY <1>2, <1>3, <1>4, TypePartsNext DEF TablesOK

LEMMA TablesInit == MigrationInit => TablesOK
<1> SUFFICES ASSUME MigrationInit PROVE TablesOK
  OBVIOUS
<1>1. \A t \in Desks : desk[t] = Rest /\ desk[t].at = "rest"
  BY DEF MigrationInit, Rest
<1>2. SnapshotsOK /\ SourcesOK /\ DisputesOK /\ ChainOK /\ DeskOK /\ condemned \subseteq Address
  BY DEF MigrationInit, SnapshotsOK, SourcesOK, DisputesOK, ChainOK, DeskOK, Place
<1>3. StubFirst /\ DueKnown /\ PendingKnown
  BY <1>1 DEF StubFirst, DueKnown, PendingKnown
<1>4. ImportedWhole /\ SourcesHaveSnapshots
  BY DEF MigrationInit, ImportedWhole, SourcesHaveSnapshots
<1> QED BY <1>2, <1>3, <1>4, TypeParts DEF TablesOK

LEMMA TablesStep == TablesOK /\ [MigrationNext]_migrationVars => TablesOK'
<1> SUFFICES ASSUME TablesOK, [MigrationNext]_migrationVars PROVE TablesOK'
  OBVIOUS
<1> USE MigrationReviewAssumption
<1>1. ASSUME NEW t \in Curators, Curate(t) PROVE TablesOK'
  <2>1. t \in Desks
    OBVIOUS
  <2>2. ASSUME NEW b \in Bundle, PlanImport(t, b) \/ ImportBundle(t, b) PROVE TablesOK'
    BY <2>1, <2>2, PlanImportKeeps, ImportKeeps
  <2>3. ASSUME NEW a \in Stubbed, NEW r \in Ref \cup {NoRef}, SeedStub(t, a, r) PROVE TablesOK'
    BY <2>1, <2>3, SeedStubKeeps
  <2>4. ASSUME SeedSource(t) PROVE TablesOK'
    BY <2>1, <2>4, SeedSourceKeeps
  <2>5. ASSUME NEW r \in Ref, NEW st \in Decisions, NEW cascade \in BOOLEAN,
               SetSnapshotStatus(t, r, st, cascade)
        PROVE  TablesOK'
    BY <2>1, <2>5, SetSnapshotStatusKeeps
  <2>6. ASSUME NEW a \in Contested, NEW st \in Decisions, SetSourceStatus(t, a, st) PROVE TablesOK'
    BY <2>1, <2>6, SetSourceStatusKeeps
  <2> QED BY <1>1, <2>2, <2>3, <2>4, <2>5, <2>6 DEF Curate
<1>2. ASSUME NEW t \in Desks, HandleDispute(t) PROVE TablesOK'
  <2>1. ASSUME NEW then \in Contested \cup {"none"}, StartExpiry(t, then) PROVE TablesOK'
    BY <2>1, StartExpiryKeeps
  <2>2. ASSUME NEW d \in Dispute, Release(t, d) \/ OpenDispute(t, d) \/ CheckEvidence(t, d)
        PROVE  TablesOK'
    BY <2>2, ReleaseKeeps, OpenDisputeKeeps, CheckEvidenceKeeps
  <2>3. ASSUME NEW d \in Dispute, NEW outcome \in {"resolved_valid", "resolved_fraud"},
               CheckResolvable(t, d, outcome)
        PROVE  TablesOK'
    BY <2>3, CheckResolvableKeeps
  <2>4. ASSUME Expire(t) \/ Expired(t) \/ SubmitEvidence(t) \/ Resolve(t) \/ ReviewSource(t)
        PROVE  TablesOK'
    BY <2>4, ExpireKeeps, ExpiredKeeps, SubmitEvidenceKeeps, ResolveKeeps, ReviewSourceKeeps
  <2> QED BY <1>2, <2>1, <2>2, <2>3, <2>4 DEF HandleDispute
<1>3. ASSUME NEW C \in SUBSET Contested, NEW S \in SUBSET Contested, Block(C, S) PROVE TablesOK'
  BY <1>3, BlockKeeps
<1>4. ASSUME UNCHANGED migrationVars PROVE TablesOK'
  <2>1. /\ SnapshotsOK' /\ SourcesOK' /\ DisputesOK' /\ ChainOK' /\ DeskOK'
        /\ condemned' \subseteq Address
    BY <1>4, TypeParts
       DEF TablesOK, migrationVars, SnapshotsOK, SourcesOK, DisputesOK, ChainOK, DeskOK
  <2>2. StubFirst' /\ DueKnown' /\ PendingKnown' /\ ImportedWhole' /\ SourcesHaveSnapshots'
    BY <1>4 DEF TablesOK, migrationVars, StubFirst, DueKnown, PendingKnown, ImportedWhole,
                SourcesHaveSnapshots
  <2> QED BY <2>1, <2>2, TypePartsNext DEF TablesOK
<1> QED BY <1>1, <1>2, <1>3, <1>4 DEF MigrationNext

\* The tables keep their types and a snapshot that was imported keeps all of its entries,
\* however operators, disputes and blocks interleave (import_migration_snapshot,
\* storage.py).
THEOREM Imports == MigrationSpec => []ImportedWhole
<1>1. TablesOK => ImportedWhole
  BY DEF TablesOK
<1> QED BY <1>1, TablesInit, TablesStep, PTL DEF MigrationSpec

\* A source never names a snapshot that is not there: a seed writes its stub first, so a
\* review of the snapshot reaches the source (seed_migration_source, service.py).
THEOREM Stubs == MigrationSpec => []SourcesHaveSnapshots
<1>1. TablesOK => SourcesHaveSnapshots
  BY DEF TablesOK
<1> QED BY <1>1, TablesInit, TablesStep, PTL DEF MigrationSpec

-----------------------------------------------------------------------------
(* Verdicts of fraud, on a node on which one thread judges. *)

OneJudge == \A s, t \in Judges : s = t

Pending(j) == j.at \in {"evidence", "verdict"}
VerdictsOK == TablesOK /\ VerdictsStand /\ PendingOnOpen

\* Verdicts stay where they are, and a thread that comes to write looked first.
LEMMA VerdictStep ==
    ASSUME VerdictsOK, NEW t \in Desks, NEW j, DeskTo(t, j),
           Pending(j) => /\ t \in Judges /\ disputes[j.dispute] # Absent
                         /\ ~Fraud(j.dispute) /\ j.dispute \in Dispute,
           \A d \in Dispute : Fraud(d) => disputes'[d] = disputes[d],
           \A d \in Dispute : disputes[d] # Absent /\ ~Fraud(d) =>
               disputes'[d] # Absent /\ disputes'[d].status # "resolved_fraud",
           condemned' = condemned
    PROVE  VerdictsStand' /\ PendingOnOpen'
<1>1. DeskOK
  BY TypeParts DEF VerdictsOK, TablesOK
<1>2. desk' = [u \in Desks |-> IF u = t THEN j ELSE desk[u]]
  BY <1>1 DEF DeskTo, DeskOK
<1>3. ASSUME NEW u \in Desks, Pending(desk'[u])
      PROVE  /\ u \in Judges /\ disputes'[desk'[u].dispute] # Absent
             /\ disputes'[desk'[u].dispute].status # "resolved_fraud"
  <2>1. CASE u = t
    BY <1>2, <1>3, <2>1
  <2>2. CASE u # t
    <3>1. desk'[u] = desk[u] /\ desk[u] \in Place
      BY <1>1, <1>2, <2>2 DEF DeskOK
    <3>2. desk[u].dispute \in Dispute
      BY <1>3, <3>1, PlaceFields DEF GivingEvidence, Judging, Pending
    <3> QED BY <1>3, <3>1, <3>2 DEF VerdictsOK, PendingOnOpen, Pending
  <2> QED BY <2>1, <2>2
<1>4. VerdictsStand'
  BY DEF VerdictsOK, VerdictsStand, Fraud
<1> QED BY <1>3, <1>4 DEF PendingOnOpen, Pending, Fraud

\* Nothing but threads' places changes of what verdicts are about.
LEMMA VerdictsRest ==
    ASSUME VerdictsOK, NEW t \in Desks, NEW j, DeskTo(t, j), ~Pending(j),
           UNCHANGED <<disputes, condemned>>
    PROVE  VerdictsStand' /\ PendingOnOpen'
BY VerdictStep DEF Fraud

LEMMA VerdictsStay ==
    ASSUME VerdictsOK, UNCHANGED <<desk, disputes, condemned>>
    PROVE  VerdictsStand' /\ PendingOnOpen'
BY DEF VerdictsOK, VerdictsStand, PendingOnOpen, Fraud

LEMMA CheckKeepsVerdicts ==
    ASSUME VerdictsOK, NEW t \in Desks, NEW d \in Dispute,
           \/ CheckEvidence(t, d)
           \/ \E outcome \in {"resolved_valid", "resolved_fraud"} : CheckResolvable(t, d, outcome)
    PROVE  VerdictsStand' /\ PendingOnOpen'
<1>1. disputes[d] # Absent /\ ~Fraud(d) /\ t \in Judges /\ UNCHANGED <<disputes, condemned>>
  BY DEF CheckEvidence, CheckResolvable, TakesEvidence, IsOpen, Open, Absent, Fraud
<1>2. PICK j : DeskTo(t, j) /\ j.dispute = d
  BY DEF CheckEvidence, CheckResolvable
<1> QED BY <1>1, <1>2, VerdictStep DEF Fraud

LEMMA ExpireKeepsVerdicts ==
    ASSUME VerdictsOK, NEW t \in Desks, Expire(t)
    PROVE  VerdictsStand' /\ PendingOnOpen'
<1> DEFINE old == desk[t]
           j == [at |-> "release", due |-> old.due, then |-> old.then]
<1>1. DisputesOK
  BY TypeParts DEF VerdictsOK, TablesOK
<1>2. DeskTo(t, j) /\ ~Pending(j) /\ condemned' = condemned
  BY DEF Expire, Pending
<1>3. ASSUME NEW d \in Dispute, Fraud(d) PROVE disputes'[d] = disputes[d]
  BY <1>3 DEF Expire, Fraud, Overdue, IsOpen, Open
<1>4. ASSUME NEW d \in Dispute, disputes[d] # Absent, ~Fraud(d)
      PROVE  disputes'[d] # Absent /\ disputes'[d].status # "resolved_fraud"
  <2>1. disputes[d] \in DisputeRow
    BY <1>1, <1>4 DEF DisputesOK
  <2>2. disputes'[d] \in {disputes[d], [disputes[d] EXCEPT !.status = "expired"]}
    BY DEF Expire
  <2> DEFINE new == [disputes[d] EXCEPT !.status = "expired"]
  <2>3. new # Absent /\ new.status = "expired"
    BY <2>1, StatusOfRow DEF Closed
  <2> HIDE DEF new
  <2>4. disputes'[d] \in {disputes[d], new}
    BY <2>2 DEF new
  <2> QED BY <1>4, <2>3, <2>4 DEF Fraud
<1> HIDE DEF j
<1> QED BY <1>2, <1>3, <1>4, VerdictStep

LEMMA OpenKeepsVerdicts ==
    ASSUME VerdictsOK, NEW t \in Desks, NEW d \in Dispute, OpenDispute(t, d)
    PROVE  VerdictsStand' /\ PendingOnOpen'
<1> DEFINE row == [addr |-> desk[t].addr, deadline |-> blockCount + Window, status |-> "open"]
           j == [at |-> "review", addr |-> desk[t].addr, status |-> "quarantined"]
<1>1. DisputesOK
  BY TypeParts DEF VerdictsOK, TablesOK
<1>2. DeskTo(t, j) /\ ~Pending(j) /\ condemned' = condemned
  BY DEF OpenDispute, Pending
<1>3. disputes' = [e \in Dispute |-> IF e = d THEN row ELSE disputes[e]]
  BY <1>1 DEF OpenDispute, DisputesOK
<1>4. /\ row # Absent /\ row.status # "resolved_fraud"
      /\ disputes[d] = Absent /\ ~Fraud(d)
  BY DEF Absent, OpenDispute, Fraud
<1> HIDE DEF row, j
<1> QED BY <1>2, <1>3, <1>4, VerdictStep DEF Fraud

LEMMA EvidenceKeepsVerdicts ==
    ASSUME VerdictsOK, NEW t \in Desks, SubmitEvidence(t)
    PROVE  VerdictsStand' /\ PendingOnOpen'
<1> DEFINE d == desk[t].dispute
           row == [disputes[d] EXCEPT !.status = "evidence_submitted"]
           j == [at |-> "review", addr |-> disputes[d].addr, status |-> "quarantined"]
<1>1. DisputesOK /\ d \in Dispute
  BY TypeParts, PlaceFields DEF VerdictsOK, TablesOK, DeskOK, SubmitEvidence, GivingEvidence
<1>2. disputes[d] \in DisputeRow /\ ~Fraud(d)
  BY <1>1 DEF VerdictsOK, PendingOnOpen, DisputesOK, SubmitEvidence
<1>3. row # Absent /\ row.status # "resolved_fraud"
  BY <1>2, StatusOfRow DEF Open
<1>4. disputes' = [e \in Dispute |-> IF e = d THEN row ELSE disputes[e]]
  BY <1>1 DEF SubmitEvidence, DisputesOK
<1>5. DeskTo(t, j) /\ ~Pending(j) /\ condemned' = condemned
  BY DEF SubmitEvidence, Pending
<1> HIDE DEF row, j
<1> QED BY <1>2, <1>3, <1>4, <1>5, VerdictStep DEF Fraud

\* The one judge writes, and no other thread is about to.
LEMMA ResolveKeepsVerdicts ==
    ASSUME OneJudge, VerdictsOK, NEW t \in Desks, Resolve(t)
    PROVE  VerdictsStand' /\ PendingOnOpen'
<1> DEFINE d == desk[t].dispute
           row == [disputes[d] EXCEPT !.status = desk[t].outcome]
<1>1. DisputesOK /\ DeskOK /\ desk[t] \in Judging /\ d \in Dispute
  BY TypeParts, PlaceFields DEF VerdictsOK, TablesOK, DeskOK, Resolve, Judging
<1>2. disputes[d] \in DisputeRow /\ ~Fraud(d) /\ t \in Judges
  BY <1>1 DEF VerdictsOK, PendingOnOpen, DisputesOK, Resolve
<1>3. row.addr = disputes[d].addr /\ row.status = desk[t].outcome
  BY <1>1, <1>2, StatusOfRow DEF Judging, Closed
<1>4. disputes' = [e \in Dispute |-> IF e = d THEN row ELSE disputes[e]]
  BY <1>1 DEF Resolve, DisputesOK
<1> HIDE DEF row
<1>5. PendingOnOpen'
  <2> SUFFICES ASSUME NEW u \in Desks, desk'[u].at \in {"evidence", "verdict"} PROVE FALSE
    BY DEF PendingOnOpen
  <2>1. desk'[t].at = "review"
    BY <1>1 DEF Resolve, DeskTo, DeskOK
  <2>2. u # t => desk'[u] = desk[u]
    BY <1>1 DEF Resolve, DeskTo, DeskOK
  <2>3. u # t /\ u \in Judges
    BY <2>1, <2>2 DEF VerdictsOK, PendingOnOpen
  <2> QED BY <1>2, <2>3 DEF OneJudge
<1>6. VerdictsStand'
  <2> SUFFICES ASSUME NEW a \in condemned'
               PROVE  \E e \in Dispute : disputes'[e].status = "resolved_fraud" /\ disputes'[e].addr = a
    BY DEF VerdictsStand, Fraud
  <2>1. CASE a \in condemned
    <3>1. PICK e \in Dispute : Fraud(e) /\ disputes[e].addr = a
      BY <2>1 DEF VerdictsOK, VerdictsStand
    <3>2. disputes'[e] = disputes[e]
      BY <1>2, <1>4, <3>1
    <3> QED BY <3>1, <3>2 DEF Fraud
  <2>2. CASE a \notin condemned
    <3>1. a = disputes[d].addr /\ desk[t].outcome = "resolved_fraud"
      BY <2>2 DEF Resolve
    <3> QED BY <1>1, <1>3, <1>4, <3>1
  <2> QED BY <2>1, <2>2
<1> QED BY <1>5, <1>6

LEMMA VerdictsNext == OneJudge /\ VerdictsOK /\ [MigrationNext]_migrationVars => VerdictsOK'
<1> SUFFICES ASSUME OneJudge, VerdictsOK, [MigrationNext]_migrationVars
             PROVE  VerdictsStand' /\ PendingOnOpen'
  BY TablesStep DEF VerdictsOK
<1> USE MigrationReviewAssumption
<1>1. ASSUME NEW t \in Curators, Curate(t) PROVE VerdictsStand' /\ PendingOnOpen'
  <2>1. t \in Desks
    OBVIOUS
  <2>2. \/ UNCHANGED <<desk, disputes, condemned>>
        \/ \E j : DeskTo(t, j) /\ ~Pending(j) /\ UNCHANGED <<disputes, condemned>>
    BY <1>1 DEF Curate, PlanImport, ImportBundle, SeedStub, SeedSource, SetSnapshotStatus, SetSourceStatus,
                Rest, Pending
  <2> QED BY <2>1, <2>2, VerdictsStay, VerdictsRest
<1>2. ASSUME NEW t \in Desks, HandleDispute(t) PROVE VerdictsStand' /\ PendingOnOpen'
  <2>1. ASSUME NEW then \in Contested \cup {"none"}, StartExpiry(t, then)
        PROVE  VerdictsStand' /\ PendingOnOpen'
    BY <2>1, VerdictsRest DEF StartExpiry, Pending
  <2>2. ASSUME Expired(t) PROVE VerdictsStand' /\ PendingOnOpen'
    <3>1. ~Pending(Rest) /\ ~Pending([at |-> "insert", addr |-> desk[t].then])
      BY DEF Rest, Pending
    <3> QED BY <2>2, <3>1, VerdictsRest DEF Expired
  <2>3. ASSUME ReviewSource(t) PROVE VerdictsStand' /\ PendingOnOpen'
    BY <2>3, VerdictsRest DEF ReviewSource, Rest, Pending
  <2>4. ASSUME NEW d \in Dispute, Release(t, d) PROVE VerdictsStand' /\ PendingOnOpen'
    <3>1. desk[t] \in Releasing
      BY <2>4, TypeParts, PlaceFields DEF VerdictsOK, TablesOK, DeskOK, Release
    <3>2. ~Pending([desk[t] EXCEPT !.due = @ \ {d}])
      BY <3>1 DEF Releasing, Pending
    <3> QED BY <2>4, <3>2, VerdictsRest DEF Release
  <2> QED BY <1>2, <2>1, <2>2, <2>3, <2>4, ExpireKeepsVerdicts, OpenKeepsVerdicts,
             CheckKeepsVerdicts, EvidenceKeepsVerdicts, ResolveKeepsVerdicts
          DEF HandleDispute
<1>3. ASSUME NEW C \in SUBSET Contested, NEW S \in SUBSET Contested, Block(C, S)
      PROVE  VerdictsStand' /\ PendingOnOpen'
  BY <1>3, VerdictsStay DEF Block
<1>4. ASSUME UNCHANGED migrationVars PROVE VerdictsStand' /\ PendingOnOpen'
  BY <1>4, VerdictsStay DEF migrationVars
<1> QED BY <1>1, <1>2, <1>3, <1>4 DEF MigrationNext

LEMMA VerdictsInit == MigrationInit => VerdictsOK
<1> SUFFICES ASSUME MigrationInit PROVE VerdictsStand /\ PendingOnOpen
  BY TablesInit DEF VerdictsOK
<1>1. \A t \in Desks : desk[t].at = "rest"
  BY DEF MigrationInit, Rest
<1> QED BY <1>1 DEF MigrationInit, VerdictsStand, PendingOnOpen

\* With one judge a verdict of fraud is never written over, by evidence, expiry or another
\* verdict, and so the whole invariant of MigrationReview holds.
THEOREM Verdicts == ASSUME OneJudge PROVE MigrationSpec => []MigrationIInv
<1>1. VerdictsOK => MigrationIInv
  BY DEF VerdictsOK, TablesOK, MigrationIInv
<1>2. VerdictsOK /\ [MigrationNext]_migrationVars => VerdictsOK'
  BY VerdictsNext
<1> QED BY <1>1, <1>2, VerdictsInit, PTL DEF MigrationSpec

\* With one judge the claimed output of a source that was ever found fraudulent stays
\* frozen: every block asks the disputes, and the verdict is still there
\* (_migration_output_finality_status, service.py).
THEOREM Freeze == ASSUME OneJudge PROVE MigrationSpec => FraudFreezes
<1>1. MigrationIInv /\ [MigrationNext]_migrationVars =>
          \A a \in condemned : a \in spent' => a \in spent
  <2> SUFFICES ASSUME MigrationIInv, [MigrationNext]_migrationVars,
                      NEW a \in condemned, a \in spent', a \notin spent
               PROVE  FALSE
    OBVIOUS
  <2>1. PICK C \in SUBSET Contested, S \in SUBSET Contested : Block(C, S)
    BY DEF MigrationNext, migrationVars, Curate, PlanImport, ImportBundle, SeedStub, SeedSource,
           SetSnapshotStatus, SetSourceStatus, HandleDispute, StartExpiry, Expire, Expired, Release,
           OpenDispute, CheckEvidence, CheckResolvable, SubmitEvidence, Resolve, ReviewSource,
           ChainUnchanged
  <2>2. Spendable(a)
    BY <2>1 DEF Block
  <2>3. PICK d \in Dispute : Fraud(d) /\ disputes[d].addr = a
    BY DEF MigrationIInv, VerdictsStand
  <2> QED BY <2>2, <2>3 DEF Spendable, Fraud, Absent
<1>2. MigrationIInv /\ [MigrationNext]_migrationVars =>
          [\A a \in condemned : a \in spent' => a \in spent]_migrationVars
  BY <1>1
<1>3. MigrationSpec => []MigrationIInv
  BY Verdicts
<1> QED BY <1>2, <1>3, PTL DEF MigrationSpec, FraudFreezes
==============================================================================
