----------------------------- MODULE MCJournals -----------------------------
(* The two journals Skarbiec appends to, for TLC: the audit journal, and the *)
(* capability state.  A behaviour explores one of the two; the other stands  *)
(* still.                                                                    *)
EXTENDS MCAuditJournal, MCCapability

\* Writers are alike, and so are nonces.
JournalsAlike == SymmetricWriters \cup Permutations(Nonces)

VARIABLE auditing

\* A reader is promised something of a journal no hand has touched; what happens
\* to one that reads another is not explored.
Undisturbed == tampered => \A r \in Readers : reader[r].at = "idle"

MCInit ==
  /\ auditing \in BOOLEAN /\ Init
  /\ CapInit /\ (auditing => challenges = {})
MCNext ==
  /\ UNCHANGED auditing
  /\ \/ auditing /\ Next /\ Undisturbed' /\ UNCHANGED capVars
     \/ ~auditing /\ CapNext /\ UNCHANGED vars
MCSpec == MCInit /\ [][MCNext]_<<auditing, vars, capVars>>
=============================================================================
