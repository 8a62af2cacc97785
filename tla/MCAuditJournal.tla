--------------------------- MODULE MCAuditJournal ---------------------------
(* Instances of AuditJournal for TLC. *)
EXTENDS AuditJournal

CONSTANTS w1, w2, r1

\* Writers are alike.
SymmetricWriters == Permutations(Writers)
=============================================================================
