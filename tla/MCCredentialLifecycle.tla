----------------------- MODULE MCCredentialLifecycle -----------------------
(* Instances of CredentialLifecycle for TLC. *)
EXTENDS CredentialLifecycle, TLC

CONSTANTS p1, p2

\* Processes are alike.
SymmetricProcs == Permutations(Procs)

\* Two explorations in one run: two requests one after the other, of processes
\* that never meet, and one request two processes work on at once, neither of
\* which dies with the lock: nobody else would get it before an operator removed it.
VARIABLE alone

MCInit == Init /\ alone \in BOOLEAN
MCNext ==
  /\ Next /\ UNCHANGED alone
  /\ IF alone THEN \A p, q \in Procs : p # q => proc'[p] = Idle \/ proc'[q] = Idle
     ELSE next' <= 2 /\ lock' # Gone
MCSpec == MCInit /\ [][MCNext]_<<vars, alone>>
=============================================================================
