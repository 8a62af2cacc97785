---------------------------- MODULE MCVaultStore ----------------------------
(***************************************************************************)
(* Instances of VaultStore for TLC: two processes, two items; the first    *)
(* process may be a step of the move t1 (--fence t1).                      *)
(***************************************************************************)
EXTENDS VaultStore, TLC

CONSTANTS p1, p2, a, b, t1, t2

\* p1 runs as a step of the move t1, p2 as an ordinary command.
MCPass == (p1 :> t1) @@ (p2 :> NoTxn)

\* One document of another host, at a generation this host reaches too.
MCOneRemote == {[gen |-> 1, items |-> {a}]}

\* Two explorations in one run: with the mirror, one move, one generation and the
\* loss of the file, and without these two moves, two generations and the copies
\* a restore brings back.
\* What is left out never starts; a process inside the lock is never held up.
VARIABLE mirrored

Mirrors == {"mirror", "forced mirror"}
MCInit == Init /\ mirrored \in BOOLEAN
MCNext ==
  /\ Next /\ UNCHANGED mirrored
  /\ IF mirrored
     THEN /\ \A p \in Procs : job'[p] \notin {"restore", "forced pull"} /\ txn'[p] # t2
          /\ \A p \in Procs : job'[p] = "save" /\ job[p] # "save" => mem[p].gen = 0
          /\ UNCHANGED copies \/ pc' # pc
     ELSE /\ mirror' = mirror /\ ~Vanish
          /\ \A p \in Procs : job'[p] \notin Mirrors
MCFairSpec ==
  /\ MCInit /\ [][MCNext]_<<vars, mirrored>>
  /\ \A p \in Procs : WF_vars(InsideLock(p))
=============================================================================
