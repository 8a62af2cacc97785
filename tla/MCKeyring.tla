------------------------------ MODULE MCKeyring ------------------------------
\* The key file on a small instance.
EXTENDS Keyring, TLC

CONSTANTS k1, k2, b1, b2, p1, c1, c2, t1

\* A GnuPG home: none, one with a protected signing half, one with a key whose
\* halves are both in the clear beside one whose secret is elsewhere.
MCHomes ==
  {Absent,
   [k \in {k1} |-> [public |-> b1, sealing |-> NoPhrase, signing |-> p1]],
   [k \in {k1} |-> [public |-> b1, sealing |-> p1, signing |-> Absent]],
   [k \in {k1, k2} |-> [public |-> b2, sealing |-> IF k = k1 THEN NoPhrase ELSE Absent,
                        signing |-> IF k = k1 THEN NoPhrase ELSE Absent]]}

\* Commands are alike.
MCAlike == Permutations(Commands)

\* Two explorations in one run: commands racing each other while a load either
\* is not under way or has its answer, and loads racing one command of a host
\* without a GnuPG home.
VARIABLE racing
AllIdle == \A c \in Commands : cmd[c].pc = "idle"
Resting == \A t \in Threads : thread[t].pc \in {"idle", "loaded"}
\* Commands add the keys of the home, or one key where there is none.
Added == IF home = Absent THEN {k1} ELSE DOMAIN home
MCInit == KInit /\ racing \in BOOLEAN /\ (~racing => home = Absent)
MCNext ==
  /\ KNext /\ UNCHANGED racing
  /\ \A c \in Commands : IF cmd'[c].keys = Absent THEN TRUE
                          ELSE DOMAIN cmd'[c].keys \subseteq Added
  /\ IF racing THEN (thread' # thread => AllIdle /\ cache = Absent) /\ (cmd' # cmd => Resting)
     ELSE Cardinality({c \in Commands : cmd'[c].pc # "idle"}) < 2
MCSpec == MCInit /\ [][MCNext]_<<kvars, racing>>
=============================================================================
