------------------------------- MODULE MCFiles -------------------------------
(* Secrets outside the vault document, for TLC: the key file beside it,      *)
(* tokens tools keep in their files, and secrets pushed to a CI target.  A   *)
(* behaviour explores one of the three; the others stand still.              *)
EXTENDS MCKeyring, ToolTokens, CiSecrets

\* Commands and imports are alike.
FilesAlike == MCAlike \cup Permutations(Importers) \cup Permutations(CiCommands)

\* Of tokens: two imports at once, or one beside a rename and the tool's sign-in.
\* Of a CI target: until commands overlap, after which nothing is claimed of it; one of
\* its items is purged and set anew at will, the others are edited.
VARIABLE focus
Purged == CHOOSE i \in Bound : TRUE

FilesInit ==
  /\ focus \in {"keys", "imports", "sign-in", "ci"}
  /\ MCInit /\ (focus # "keys" => home = Absent /\ phrase.now = NoPhrase /\ ~racing)
  /\ TInit /\ (focus \notin {"imports", "sign-in"} => tool = "npm" /\ \A e \in Entries : asks[e] = None)
  /\ CInit /\ (focus # "ci" => place = "github")
FilesNext ==
  /\ UNCHANGED focus
  /\ \/ focus = "keys" /\ MCNext /\ UNCHANGED <<tvars, cvars>>
     \/ /\ focus \in {"imports", "sign-in"} /\ TNext /\ UNCHANGED <<kvars, racing, cvars>>
        /\ IF focus = "imports" THEN tokens' = tokens /\ ren' = ren
           ELSE Cardinality({m \in Importers : imp'[m].pc # "idle"}) < 2
     \/ focus = "ci" /\ ~overlapped /\ CNext /\ UNCHANGED <<kvars, racing, tvars>>
        /\ \A i \in Bound : i = Purged \/ revision'[i] >= revision[i]
FilesSpec == FilesInit /\ [][FilesNext]_<<focus, kvars, racing, tvars, cvars>>
=============================================================================
