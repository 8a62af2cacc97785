------------------------------ MODULE AuditLog ------------------------------
(***************************************************************************)
(* What the audit journal promises its callers: one log that every         *)
(* operation of the vault appends to and that nothing in the program       *)
(* shortens, reorders or rewrites.  Hands outside the program may, and     *)
(* then nothing is promised about the log's contents any more.             *)
(***************************************************************************)
EXTENDS SequencesExt

CONSTANT Entries

VARIABLES log, trusted

Init == log = <<>> /\ trusted = TRUE

AppendEntry ==
  /\ trusted
  /\ LET after == log' IN after # <<>> /\ Front(after) = log /\ Last(after) \in Entries
  /\ UNCHANGED trusted

Outside == ~trusted'

Next == AppendEntry \/ Outside

Spec == Init /\ [][Next]_<<log, trusted>>
=============================================================================
