------------------------- MODULE MCMigrationReview -------------------------
(* The instances of MigrationReview: x is claimed and disputed, y is seeded *)
(* before and after the bundle that holds both is imported.                 *)
EXTENDS MigrationReview, TLC

CONSTANTS t1, t2, d1, d2, b1, r1, x, y

MCRefOf == [b \in Bundle |-> r1]
MCEntriesOf == [b \in Bundle |-> Address]

\* Disputes are told apart by nothing but their rows.
DisputeSymmetry == Permutations(Dispute)
=============================================================================
