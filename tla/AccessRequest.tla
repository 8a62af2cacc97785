---------------------------- MODULE AccessRequest ----------------------------
(***************************************************************************)
(* Access requests (access/request): an agent files a request into the     *)
(* register, a person with role owner or admin and a key on this host      *)
(* decides, and an approval issues the grant the request names before the  *)
(* register records it.  Writers hold a kernel lock for one                *)
(* read-modify-write and then poke a FIFO; `request watch` shows every     *)
(* pending request in a dialog and blocks on the FIFO in between.          *)
(*                                                                         *)
(* What is asked for is one of three forms of grant; the agent, resource   *)
(* and reason of a request are part of its id here, so requests that ask   *)
(* the same question share one of the Questions.                           *)
(***************************************************************************)
EXTENDS Integers, Sequences, FiniteSets

CONSTANTS
  ReqIds,     \* request ids, each given out once
  People,     \* uids that may be recipients
  Clerks,     \* command-line processes that file and decide
  Watcher,    \* the watching process
  WatchedBy,  \* the uid it decides as
  Questions,  \* what may be asked, one per agent, resource, action and grant
  FormOf,     \* FormOf[q]: the form of grant q asks for
  FirstRoles, \* FirstRoles[p]: "owner", "admin" or "none"
  NoReq       \* nothing

\* A lifetime is a number of seconds; the last one stands for --until-revoked.
Lifetimes == 1..2
UntilRevokedLife == 2
Uses == {0, 1, 2}   \* 0: none stated
Forms == {"capability", "consumer", "record"}

\* A decision, a record of the register, and the terms of a grant.
Decisions == [by : People \cup {"requester"}, answer : {"approve", "denied", "withdrawn"},
              life : {0} \cup Lifetimes, uses : Uses]
Records == [q : Questions, decider : {"owner", "admin"} \cup People, dual : BOOLEAN,
            state : {"pending", "approved", "denied", "withdrawn"}, decisions : Seq(Decisions)]
Terms == [life : Lifetimes, uses : Uses]

Procs == Clerks \cup {Watcher}

ASSUME RequestAssumption ==
  /\ Watcher \notin Clerks /\ WatchedBy \in People
  /\ NoReq \notin Procs \cup Records \cup Terms
  /\ FormOf \in [Questions -> Forms]
  /\ FirstRoles \in [People -> {"owner", "admin", "none"}]

VARIABLES
  register,  \* register[r]: the record, or NoReq
  regLock,   \* who holds the register's lock
  clerk,     \* where each process is, and the record it will save
  roles,     \* roles[p]: what the vault's recipients table says of p
  grants,    \* the grants issued for requests, in order
  fifo,      \* whether a poke is unread; -1 while the FIFO does not exist
  watch,     \* the watcher's loop
  said,      \* history: what people stated about requests
  stopped    \* history: a process died, or a grant could not be issued or recorded

requestVars == <<register, regLock, clerk, roles, grants, fifo, watch, said, stopped>>

AtDesk == [at |-> "idle", req |-> NoReq, rec |-> NoReq, give |-> NoReq]

ReqInit ==
  /\ register = [r \in ReqIds |-> NoReq]
  /\ regLock = NoReq
  /\ clerk = [p \in Procs |-> AtDesk]
  /\ roles = FirstRoles
  /\ grants = <<>>
  /\ fifo = -1
  /\ watch = [at |-> "off", asked |-> {}, todo |-> {}]
  /\ said = {}
  /\ stopped = FALSE

-----------------------------------------------------------------------------
Pending(rec) == rec # NoReq /\ rec.state = "pending"

\* The same question asked while the first is open.
SameQuestion(rec, q) == Pending(rec) /\ rec.q = q

\* request file, POST /v1/access-requests and the broker: whether two deciders
\* are needed is asked so, or read off the item's tags before the lock; an open question is answered again only
\* to the broker (reuse).
Files(p, r, q, decider, dual, reuse) ==
  /\ clerk[p].at = "idle" /\ regLock = NoReq
  /\ register[r] = NoReq
  /\ ~(reuse /\ \E o \in ReqIds : SameQuestion(register[o], q))
  /\ regLock' = p
  /\ clerk' = [clerk EXCEPT ![p] = [at |-> "save", req |-> r, give |-> NoReq,
       rec |-> [q |-> q, decider |-> decider, dual |-> dual,
                state |-> "pending", decisions |-> <<>>]]]
  /\ UNCHANGED <<register, roles, grants, fifo, watch, said, stopped>>

Decided(rec, by) == \E i \in DOMAIN rec.decisions : rec.decisions[i].by = by

\* Mutant: whoever decided before may decide again.
MayDecideAgain(rec, by) ==
  /\ Pending(rec)
  /\ roles[by] \in {"owner", "admin"}
  /\ rec.decider \in {"admin", by} \/ (rec.decider = "owner" /\ roles[by] = "owner")

\* Who may decide: a pending request's named decider, in role, with a key on
\* this host, who has not decided it before.
MayDecide(rec, by) ==
  /\ Pending(rec)
  /\ roles[by] \in {"owner", "admin"}
  /\ rec.decider \in {"admin", by} \/ (rec.decider = "owner" /\ roles[by] = "owner")
  /\ ~Decided(rec, by)

\* A capability has uses and always ends; a standing grant has no uses.
UsesFit(form, life, uses) ==
  CASE form = "capability" -> uses # 0 /\ life # UntilRevokedLife
    [] form = "consumer" -> uses = 0
    [] form = "record" -> TRUE

Approvals(rec) == {i \in DOMAIN rec.decisions : rec.decisions[i].answer = "approve"}

Enough(rec) == Cardinality(Approvals(rec)) >= IF rec.dual THEN 2 ELSE 1

\* The narrower of the deciders' lifetimes, the fewest of the uses they stated.
Bounds(rec) ==
  LET all == {rec.decisions[i] : i \in Approvals(rec)}
      stated == {d.uses : d \in all} \ {0}
  IN [life |-> CHOOSE n \in {d.life : d \in all} : \A d \in all : n <= d.life,
      uses |-> IF stated = {} THEN 0 ELSE CHOOSE n \in stated : \A k \in stated : n <= k]

\* request approve: under the lock, who and what is checked, the decision is
\* added, and once enough deciders approved the grant is issued.
Approves(p, r, by, life, uses) ==
  /\ clerk[p].at = "idle" /\ regLock = NoReq
  /\ MayDecide(register[r], by)
  /\ UsesFit(FormOf[register[r].q], life, uses)
  /\ LET decision == [by |-> by, answer |-> "approve", life |-> life, uses |-> uses]
         rec == [register[r] EXCEPT !.decisions = Append(@, decision)]
     IN /\ clerk' = [clerk EXCEPT ![p] = IF Enough(rec)
                       THEN [at |-> "issue", req |-> r, rec |-> [rec EXCEPT !.state = "approved"], give |-> Bounds(rec)]
                       ELSE [at |-> "save", req |-> r, rec |-> rec, give |-> NoReq]]
        /\ said' = said \cup {[req |-> r, by |-> by, life |-> life, uses |-> uses]}
  /\ regLock' = p
  /\ UNCHANGED <<register, roles, grants, fifo, watch, stopped>>

Holds(q) == \E i \in DOMAIN grants : grants[i].live /\ register[grants[i].req].q = q

LeavesDesk(p) == regLock' = NoReq /\ clerk' = [clerk EXCEPT ![p] = AtDesk]

\* issue: a capability with the request's id, a standing grant of a consumer who
\* holds none yet, or only the record.
IssuesGrant(p) ==
  /\ clerk[p].at = "issue"
  /\ FormOf[clerk[p].rec.q] = "consumer" => ~Holds(clerk[p].rec.q)
  /\ grants' = Append(grants, [req |-> clerk[p].req, live |-> TRUE,
                               life |-> clerk[p].give.life, uses |-> clerk[p].give.uses])
  /\ clerk' = [clerk EXCEPT ![p].at = "save"]
  /\ UNCHANGED <<register, regLock, roles, fifo, watch, said, stopped>>

\* The grant is refused, or its consumer holds one: nothing is recorded.
IssueFails(p) ==
  /\ clerk[p].at = "issue"
  /\ ~stopped \/ (FormOf[clerk[p].rec.q] = "consumer" /\ Holds(clerk[p].rec.q))
  /\ LeavesDesk(p)
  /\ stopped' = TRUE
  /\ UNCHANGED <<register, roles, grants, fifo, watch, said>>

\* request deny, or request withdraw by a decider or the agent who asked.
Closes(p, r, by, answer) ==
  /\ clerk[p].at = "idle" /\ regLock = NoReq
  /\ IF by = "requester" THEN answer = "withdrawn" /\ Pending(register[r]) ELSE MayDecide(register[r], by)
  /\ regLock' = p
  /\ clerk' = [clerk EXCEPT ![p] = [at |-> "save", req |-> r, give |-> NoReq,
       rec |-> [register[r] EXCEPT !.state = answer,
                  !.decisions = Append(@, [by |-> by, answer |-> answer, life |-> 0, uses |-> 0])]]]
  /\ UNCHANGED <<register, roles, grants, fifo, watch, said, stopped>>

\* The staged register replaces the file.
Saves(p) ==
  /\ clerk[p].at = "save"
  /\ register' = [register EXCEPT ![clerk[p].req] = clerk[p].rec]
  /\ clerk' = [clerk EXCEPT ![p].at = "poke"]
  /\ UNCHANGED <<regLock, roles, grants, fifo, watch, said, stopped>>

\* Mutant: nobody is poked.
PokesNobody(p) ==
  /\ clerk[p].at = "poke"
  /\ LeavesDesk(p)
  /\ UNCHANGED <<register, roles, grants, fifo, watch, said, stopped>>

\* A watcher's FIFO gets a byte; then the operation is journalled and done.
Pokes(p) ==
  /\ clerk[p].at = "poke"
  /\ fifo' = IF fifo = 0 THEN 1 ELSE fifo
  /\ LeavesDesk(p)
  /\ UNCHANGED <<register, roles, grants, watch, said, stopped>>

\* A process dies; the kernel releases its lock.  One stop is explored.
ClerkDies(p) ==
  /\ clerk[p].at # "idle" /\ ~stopped
  /\ regLock' = IF regLock = p THEN NoReq ELSE regLock
  /\ clerk' = [clerk EXCEPT ![p] = AtDesk]
  /\ watch' = IF p = Watcher THEN [at |-> "off", asked |-> {}, todo |-> {}] ELSE watch
  /\ fifo' = IF p = Watcher THEN 0 ELSE fifo
  /\ stopped' = TRUE
  /\ UNCHANGED <<register, roles, grants, said>>

-----------------------------------------------------------------------------
(* request watch.  It reads the register without the lock.                 *)

WatchStarts ==
  /\ watch.at = "off"
  /\ fifo' = IF fifo = -1 THEN 0 ELSE fifo
  /\ watch' = [at |-> "load", asked |-> {}, todo |-> {}]
  /\ UNCHANGED <<register, regLock, clerk, roles, grants, said, stopped>>

WatchLoads ==
  /\ watch.at = "load"
  /\ LET open == {r \in ReqIds : Pending(register[r])} \ watch.asked
     IN watch' = [watch EXCEPT !.at = "ask", !.asked = @ \cup open,
                               !.todo = {r \in open : ~Decided(register[r], WatchedBy)}]
  /\ UNCHANGED <<register, regLock, clerk, roles, grants, fifo, said, stopped>>

\* The person answers one dialog, and the answer is applied like a command's;
\* what may not be applied any more is shown and dropped.
WatchAsks(r) ==
  /\ watch.at = "ask" /\ r \in watch.todo /\ clerk[Watcher].at = "idle"
  /\ watch' = [watch EXCEPT !.todo = @ \ {r}]
  /\ UNCHANGED <<register, regLock, clerk, roles, grants, fifo, said, stopped>>

WatchWaits ==
  /\ watch.at = "ask" /\ watch.todo = {} /\ clerk[Watcher].at = "idle"
  /\ watch' = [watch EXCEPT !.at = "wait"]
  /\ UNCHANGED <<register, regLock, clerk, roles, grants, fifo, said, stopped>>

WatchWakes ==
  /\ watch.at = "wait" /\ fifo > 0
  /\ fifo' = fifo - 1
  /\ watch' = [watch EXCEPT !.at = "load"]
  /\ UNCHANGED <<register, regLock, clerk, roles, grants, said, stopped>>

-----------------------------------------------------------------------------
(* The vault around it: roles change, grants are revoked.                   *)

RoleChanges(who) ==
  /\ roles[who] # "none" /\ roles' = [roles EXCEPT ![who] = "none"]
  /\ UNCHANGED <<register, regLock, clerk, grants, fifo, watch, said, stopped>>

Revokes(i) ==
  /\ grants[i].live /\ grants' = [grants EXCEPT ![i].live = FALSE]
  /\ UNCHANGED <<register, regLock, clerk, roles, fifo, watch, said, stopped>>

\* Who acts as whom: a command names any uid, the watcher its own.
Persons(p) == IF p = Watcher THEN {WatchedBy} ELSE People
Deciding(p, r) == p # Watcher \/ (watch.at = "ask" /\ r \in watch.asked /\ r \notin watch.todo)

RequestSteps ==
  \/ \E p \in Procs : IssuesGrant(p) \/ Saves(p) \/ Pokes(p)
  \/ WatchLoads \/ WatchWaits \/ WatchWakes
  \/ \E r \in ReqIds : WatchAsks(r)

ReqNext ==
  \/ RequestSteps
  \/ \E p \in Procs : IssueFails(p) \/ ClerkDies(p)
  \/ \E p \in Clerks, r \in ReqIds, q \in Questions, d \in {"owner", "admin"} \cup People, dual, reuse \in BOOLEAN :
       Files(p, r, q, d, dual, reuse)
  \/ \E p \in Procs, r \in ReqIds :
       /\ Deciding(p, r)
       /\ \/ \E by \in Persons(p), life \in Lifetimes, uses \in Uses : Approves(p, r, by, life, uses)
          \/ \E by \in Persons(p) : Closes(p, r, by, "denied")
          \/ \E by \in Persons(p) \cup {"requester"} : p # Watcher /\ Closes(p, r, by, "withdrawn")
  \/ WatchStarts
  \/ \E who \in People : RoleChanges(who)
  \/ \E i \in DOMAIN grants : Revokes(i)

ReqSpec == ReqInit /\ [][ReqNext]_requestVars /\ WF_requestVars(RequestSteps)

-----------------------------------------------------------------------------
(* Properties.                                                             *)

\* Types, and that a process between its check and its save holds the lock.
ReqTypeOK ==
  /\ \A p \in Procs : clerk[p].at # "idle" <=> regLock = p
  /\ fifo \in -1..1
  /\ \A r \in ReqIds : register[r] # NoReq =>
       /\ register[r].state \in {"pending", "approved", "denied", "withdrawn"}
       /\ register[r].q \in Questions

\* Whatever people said in which order, a grant lives no longer and counts no
\* more uses than one of its deciders stated, and one that needs two deciders
\* had two different ones (decide.rs, approve).
GrantedAsDecided ==
  \A i \in DOMAIN grants : LET g == grants[i] IN
    \E some \in SUBSET {s \in said : s.req = g.req} :
      /\ Cardinality({s.by : s \in some}) >= IF register[g.req].dual THEN 2 ELSE 1
      /\ \A s \in some : g.life <= s.life /\ (s.uses # 0 => g.uses # 0 /\ g.uses <= s.uses)

\* Unless a process stopped between the grant and the record of it, a request
\* has one grant exactly when the register says it was approved.
RegisterTellsGrants ==
  ~stopped => \A r \in ReqIds :
    LET n == Cardinality({i \in DOMAIN grants : grants[i].req = r})
    IN /\ n <= 1
       /\ n = 1 <=> \/ register[r] # NoReq /\ register[r].state = "approved"
                    \/ \E p \in Procs : clerk[p].req = r /\ clerk[p].at = "save" /\ clerk[p].give # NoReq

\* Every grant is a decision of the people who may take it, and the register
\* tells which (decide.rs, approve, close): whoever decides, withdraws, loses a
\* role or revokes while another waits for the lock.
GrantsAreDecisions == ReqTypeOK /\ GrantedAsDecided /\ RegisterTellsGrants

\* A watcher that runs is asked about every request that stays pending, though
\* the poke may come while it loads, asks or is not there yet (register.rs,
\* wake; watch.rs): unless a process died before it could poke.
WatcherAsksAll ==
  \A r \in ReqIds :
    (Pending(register[r]) /\ watch.at # "off") ~> (~Pending(register[r]) \/ r \in watch.asked \/ stopped)
==============================================================================
