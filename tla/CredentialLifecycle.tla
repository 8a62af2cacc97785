------------------------ MODULE CredentialLifecycle ------------------------
(***************************************************************************)
(* The credential lifecycle (src/credential): commands and listener        *)
(* threads submit operations on one managed credential to Weles, which     *)
(* changes the password at the provider, stages the new value in the vault *)
(* and is polled until the staged revision is committed, rolled back or    *)
(* frozen.  One request record is kept per credential, in the vault; every *)
(* step opens the vault and saves against the generation it opened (module *)
(* VaultStore), so the saves of one handle are one action here, which may  *)
(* stop after any of them, while a copy of the record lives on across      *)
(* Weles's answer.  Request n stages value n; value 0 is the one before.   *)
(* Weles is external.                                                      *)
(***************************************************************************)
EXTENDS Naturals, Sequences

CONSTANTS
  Procs,        \* commands run with --local, and threads of the listener
  Ops,          \* the operations a run submits
  Identity,     \* the provider is microsoft_entra: completion needs a receipt
  Free,         \* nobody owns the credential operation lock
  Gone,         \* a process that died owns it
  None,         \* no record, no answer
  MaxRequests,  \* bound on the requests made
  MaxRev        \* bound on the item's revision

AllOps == {"acquire", "adopt", "rotate", "verify", "remove"}

Requests == 1..MaxRequests

ASSUME LifecycleAssumption ==
  /\ MaxRequests \in Nat /\ MaxRev \in Nat \ {0} /\ Identity \in BOOLEAN
  /\ Ops \subseteq AllOps
  /\ Free # Gone /\ {Free, Gone} \cap Procs = {}

VARIABLES
  item,    \* the credential item
  record,  \* operation:credential/<id>, the request record, or None
  lock,    \* who owns <vault>.credential-operation.lock
  proc,    \* what each process does
  weles,   \* what Weles did about each request
  next     \* the next request id

vars == <<item, record, lock, proc, weles, next>>

\* on_managed_item, stages_revision
OnManaged(op) == op \in {"rotate", "verify", "remove"}
Stages(op) == op \in {"rotate", "verify"}

Idle == [pc |-> "idle", mode |-> "none", op |-> "none", rec |-> None, answer |-> None, status |-> "none"]

\* No item yet, or one Weles manages.
Init ==
  /\ \E live \in BOOLEAN :
       item = [live |-> live, rev |-> IF live THEN 1 ELSE 0, by |-> 0, made |-> 0, life |-> "none",
               of |-> 0, created |-> FALSE, tagged |-> FALSE, block |-> FALSE, pending |-> 0,
               same |-> FALSE]
  /\ record = None
  /\ lock = Free
  /\ proc = [p \in Procs |-> Idle]
  /\ weles = [n \in Requests |-> [at |-> "idle", op |-> "none", effect |-> "none"]]
  /\ next = 1

-----------------------------------------------------------------------------
(* What the vault says.                                                    *)

\* quarantine_state: the record, the tag or the context block says so.
Quarantined ==
  \/ record # None /\ record.status = "quarantined"
  \/ item.tagged
  \/ item.live /\ item.block

\* lifecycle_state
LifecycleState ==
  CASE Quarantined -> "quarantined"
    [] ~Quarantined /\ ~item.live -> "unmanaged"
    [] ~Quarantined /\ item.live -> IF item.life = "none" THEN "managed" ELSE item.life

\* store_context: refused for an item that is not active or holds a candidate.
MayStore(i) == i.live /\ i.pending = 0

\* store_context, of the lifecycle block: one more revision of the same value.
Stored(i, life, n) == [i EXCEPT !.rev = @ + 1, !.life = life, !.of = n, !.created = FALSE]

\* set_managed_item of an item that is not there.
Created(i, n, life) ==
  [i EXCEPT !.live = TRUE, !.rev = @ + 1, !.by = n, !.made = n, !.life = life,
            !.of = IF life = "none" THEN 0 ELSE n, !.created = (life = "adopting"),
            !.tagged = FALSE, !.block = FALSE]

\* activate_staged_revision and discard_staged_revision
Activated(i) == [i EXCEPT !.by = i.pending, !.rev = @ + 1, !.pending = 0, !.same = FALSE]
Discarded(i) == [i EXCEPT !.pending = 0, !.same = FALSE]

\* trash_managed_item
Trashed(i) == [i EXCEPT !.live = FALSE]

\* quarantine_credential: the tag, and the context when nothing is staged.
Freezes(i, n) ==
  LET tagged == [i EXCEPT !.tagged = TRUE]
  IN IF ~i.live THEN <<i>>
     ELSE IF i.pending # 0 THEN <<tagged>>
     ELSE <<tagged, [Stored(tagged, "quarantined", n) EXCEPT !.block = TRUE]>>

\* Mutant: an answer is only looked at for an unknown effect.
UnresolvedEffectOnly(a) == a.effect = "unknown"

\* enforce_provider_effect: nobody can say which password the provider accepts.
Unresolved(a) ==
  \/ a.effect = "unknown"
  \/ /\ a.status \in {"operation_failed", "unsupported_operation", "needs_configuration"}
     /\ a.effect = "changed" /\ a.rollback # "completed"

\* enforce_retry_barrier
RetryBarred(op) ==
  /\ record # None /\ record.answer # None
  /\ record.status \notin {"completed", "quarantine_resolved"}
  /\ \/ record.answer.effect = "unknown"
     \/ record.answer.effect = "changed" /\ record.answer.rollback # "completed" /\ op # "verify"

InFlight == {"submitting", "pending", "needs_human_approval"}

-----------------------------------------------------------------------------
(* Weles, external: a request runs, may wait for approval, changes the     *)
(* provider and may undo that, and ends.  It tells the truth about its     *)
(* effect or says it does not know.                                        *)

Running(n) == weles[n].at = "running"

\* authorize_managed_write
Authorized(n) ==
  /\ record # None /\ record.id = n /\ record.op = weles[n].op
  /\ record.status \in {"submitting", "pending"}
  /\ ~Quarantined

\* PUT /v1/items, mode stage: the candidate of a rotation, or the value verified.
WelesStages(n, same) ==
  /\ Running(n) /\ Stages(weles[n].op)
  /\ Authorized(n)
  /\ item.live /\ item.rev = record.base
  /\ item.pending = 0
  /\ same => weles[n].op = "verify"
  /\ item' = [item EXCEPT !.pending = n, !.same = same]
  /\ UNCHANGED <<record, lock, proc, weles, next>>

\* PUT /v1/items, mode acquire: the item is created.
WelesAcquires(n) ==
  /\ Running(n) /\ weles[n].op = "acquire"
  /\ Authorized(n)
  /\ ~item.live /\ item.rev < MaxRev
  /\ item' = Created(item, n, "none")
  /\ UNCHANGED <<record, lock, proc, weles, next>>

WelesMoves(n, at, effect) ==
  /\ weles' = [weles EXCEPT ![n].at = at, ![n].effect = effect]
  /\ UNCHANGED <<item, record, lock, proc, next>>

\* The provider accepts another password, or the one before again.
WelesChanges(n) ==
  /\ Running(n) /\ weles[n].op = "rotate" /\ weles[n].effect = "none"
  /\ WelesMoves(n, "running", "changed")
WelesUndoes(n) ==
  /\ Running(n) /\ weles[n].effect = "changed"
  /\ WelesMoves(n, "running", "undone")

\* A person is asked.
WelesWaits(n) == Running(n) /\ WelesMoves(n, "waiting", weles[n].effect)

\* The operation ends; a rotation completes only when the password changed.
WelesEnds(n, at) ==
  /\ Running(n)
  /\ at = "completed" /\ weles[n].op = "rotate" => weles[n].effect = "changed"
  /\ WelesMoves(n, at, weles[n].effect)

Weles(n) ==
  \/ \E same \in BOOLEAN : WelesStages(n, same)
  \/ WelesAcquires(n)
  \/ WelesChanges(n) \/ WelesUndoes(n) \/ WelesWaits(n)
  \/ WelesEnds(n, "completed") \/ WelesEnds(n, "failed")

Answer(status, effect, rollback, receipt) ==
  [status |-> status, effect |-> effect, rollback |-> rollback, receipt |-> receipt]

StatusOf ==
  [running |-> "operation_queued", waiting |-> "needs_human_approval",
   completed |-> "operation_completed", failed |-> "operation_failed",
   refused |-> "unsupported_operation"]

\* admit, run_weles: what Weles says of request n, or that it was sent and no
\* answer came.
Answers(n) ==
  LET effect == IF weles[n].effect = "none" THEN "none" ELSE "changed"
      rollback == IF weles[n].effect = "undone" THEN "completed" ELSE "none"
  IN {Answer(StatusOf[weles[n].at], effect, rollback, receipt) :
        receipt \in {Identity /\ weles[n].at = "completed", FALSE}}
       \cup {Answer("operation_failed", "unknown", "none", FALSE)}

\* admit: Weles's route or bearer is not resolved, so nothing was sent.
Unsent == Answer("needs_configuration", "none", "none", FALSE)

-----------------------------------------------------------------------------
(* The processes.                                                          *)

To(p, new) == proc' = [proc EXCEPT ![p] = new]

\* The operation ends, and with it the lock it owns.
Leave(p) ==
  /\ To(p, Idle)
  /\ lock' = IF lock = p THEN Free ELSE lock

\* The saves of one vault handle, in their order: after the last the process
\* goes on as then; after an earlier one a refused save, a journal that cannot be
\* written or a crash stops it.
Saves(p, saved, then) ==
  \E k \in DOMAIN saved :
    /\ saved[k].rev <= MaxRev
    /\ item' = saved[k]
    /\ To(p, IF k = Len(saved) THEN then ELSE [then EXCEPT !.pc = "cut"])

\* read_submission: a quarantined credential is refused before the lock is taken.
Ask(p, op) ==
  /\ proc[p] = Idle
  /\ ~Quarantined
  /\ To(p, [Idle EXCEPT !.pc = "asked", !.mode = "submit", !.op = op])
  /\ UNCHANGED <<item, record, lock, weles, next>>

\* preflight: what the item has to be.
Admitted(op) ==
  /\ op = "acquire" => ~item.live
  /\ op = "adopt" => LifecycleState # "managed"
  /\ OnManaged(op) => item.live /\ LifecycleState = "managed"

\* preflight: an earlier request whose submission is not known to have arrived
\* is taken up again.
Resumable(op) == record # None /\ record.status = "submitting" /\ record.op = op

NewRecord(op) ==
  [id |-> next, op |-> op, status |-> "submitting", answer |-> None, base |-> item.rev,
   shape |-> IF op # "adopt" THEN "none" ELSE IF item.live THEN "staged" ELSE "created"]

\* start_operation under the lock: preflight, and the request to be recorded.
Preflight(p) ==
  LET op == proc[p].op
  IN /\ proc[p].pc = "asked"
     /\ lock = Free /\ lock' = p
     /\ Admitted(op) /\ ~RetryBarred(op)
     /\ \E rec \in {record, NewRecord(op)} :
          /\ \/ rec = record /\ Resumable(op) /\ next' = next
             \/ /\ rec = NewRecord(op) /\ next <= MaxRequests /\ next' = next + 1
                /\ record # None => record.status \notin InFlight
          /\ To(p, [proc[p] EXCEPT !.pc = IF op = "adopt" THEN "stage" ELSE "save", !.rec = rec])
     /\ UNCHANGED <<item, record, weles>>

\* stage_adopted_candidate: the operator's password becomes the candidate of the
\* item, or the first value of a new one.
StageCandidate(p) ==
  LET n == proc[p].rec.id
      marked == IF item.of = n THEN item ELSE Stored(item, "adopting", n)
      then == [proc[p] EXCEPT !.pc = "save"]
  IN /\ proc[p].pc = "stage"
     /\ \/ /\ proc[p].rec.shape = "staged" /\ item.live
           /\ (item.of = n \/ MayStore(item)) /\ item.pending \in {0, n}
           /\ Saves(p, <<marked, [marked EXCEPT !.pending = n]>>, then)
        \/ /\ proc[p].rec.shape = "created" /\ (item.live => item.of = n)
           /\ Saves(p, <<IF item.live THEN item ELSE Created(item, n, "adopting")>>, then)
     /\ UNCHANGED <<record, lock, weles, next>>

\* save_request, and the journal.
SaveRequest(p) ==
  /\ proc[p].pc = "save"
  /\ record' = proc[p].rec
  /\ To(p, [proc[p] EXCEPT !.pc = "ask"])
  /\ UNCHANGED <<item, lock, weles, next>>

\* save_request, and a journal that cannot be written: an operation failure.
AuditFails(p) ==
  /\ proc[p].pc = "save"
  /\ record' = [proc[p].rec EXCEPT !.status = "operation_failed"]
  /\ Leave(p)
  /\ UNCHANGED <<item, weles, next>>

\* run_weles: the request is sent.  A submission starts the operation, or is
\* refused, the first time it arrives; a resumption lets it run on.
Send(p, at) ==
  LET n == proc[p].rec.id
      now == weles[n].at
  IN /\ proc[p].pc = "ask"
     /\ at \in CASE proc[p].mode = "submit" /\ now = "idle" -> {"running", "refused"}
                 [] proc[p].mode = "resume" /\ now = "waiting" -> {"running"}
                 [] OTHER -> {now}
     /\ weles' = [weles EXCEPT ![n].at = at, ![n].op = proc[p].rec.op]
     /\ To(p, [proc[p] EXCEPT !.pc = "sent"])
     /\ UNCHANGED <<item, record, lock, next>>

\* run_weles: nothing is sent.
SendNothing(p) ==
  /\ proc[p].pc = "ask"
  /\ To(p, [proc[p] EXCEPT !.pc = "answered", !.answer = Unsent])
  /\ UNCHANGED <<item, record, lock, weles, next>>

\* run_weles: the answer is read.
Receive(p) ==
  /\ proc[p].pc = "sent"
  /\ \E a \in Answers(proc[p].rec.id) : To(p, [proc[p] EXCEPT !.pc = "answered", !.answer = a])
  /\ UNCHANGED <<item, record, lock, weles, next>>

\* run_weles: an answer that breaks the wire contract.  start and resume record a
\* failure, a poll nothing.
ReceiveGarbled(p) ==
  /\ proc[p].pc = "sent" /\ proc[p].mode \in {"submit", "resume"}
  /\ record' = [proc[p].rec EXCEPT !.status = "operation_failed"]
  /\ Leave(p)
  /\ UNCHANGED <<item, weles, next>>

\* enforce_provider_effect: the item is frozen before anything is recorded.
Freeze(p) ==
  /\ proc[p].pc = "answered" /\ Unresolved(proc[p].answer)
  /\ Saves(p, Freezes(item, proc[p].rec.id), [proc[p] EXCEPT !.pc = "frozen"])
  /\ UNCHANGED <<record, lock, weles, next>>

\* What start, resume and a poll record of an answer.
Recorded(mode, status) ==
  IF status = "operation_queued" \/ (status = "operation_completed" /\ mode = "resume")
  THEN "pending" ELSE status

Settled == {"operation_completed", "operation_failed"}

\* update_request: the copy of the record read before, with the answer.  A poll
\* goes on to settle.
RecordAnswer(p) ==
  LET status == IF proc[p].pc = "frozen" THEN "quarantined"
                ELSE Recorded(proc[p].mode, proc[p].answer.status)
  IN /\ \/ proc[p].pc = "answered" /\ ~Unresolved(proc[p].answer)
        \/ proc[p].pc = "frozen"
     /\ record' = [proc[p].rec EXCEPT !.status = status, !.answer = proc[p].answer]
     /\ IF proc[p].mode = "status" /\ status \in Settled
        THEN To(p, [proc[p] EXCEPT !.pc = "settle", !.status = status, !.answer = None]) /\ UNCHANGED lock
        ELSE Leave(p)
     /\ UNCHANGED <<item, weles, next>>

-----------------------------------------------------------------------------
(* credential status.                                                      *)

\* status_once: Weles is asked while the answer can still change.  No lock is
\* taken.
Poll(p) ==
  /\ proc[p] = Idle
  /\ record # None /\ record.status \in {"pending", "needs_human_approval"}
  /\ To(p, [Idle EXCEPT !.pc = "ask", !.mode = "status", !.rec = record])
  /\ UNCHANGED <<item, record, lock, weles, next>>

\* status_once reaches settle with the answer it recorded, or with the status it
\* found: what it settles was read in the same handle.
Settles(p, status) ==
  \/ proc[p].pc = "settle" /\ proc[p].status = status
  \/ proc[p] = Idle /\ record # None /\ record.status = status

\* The request settled: its id and operation are those read before Weles was asked.
Settling(p) == IF proc[p] = Idle THEN record ELSE proc[p].rec

\* The record settle read, to be written back with its new status.
Closing(status) == [Idle EXCEPT !.pc = "close", !.mode = "status", !.rec = record, !.status = status]

\* Mutant: whatever is staged is taken for the request's.
ConfirmsAny(n, op) ==
  CASE op = "acquire" -> item.live /\ item.made = n
    [] op = "adopt" /\ record.shape = "created" -> item.live /\ item.made = n
    [] op \in {"adopt", "rotate"} /\ record.shape # "created" -> item.pending # 0
    [] op = "verify" -> item.pending = n /\ item.same
    [] op = "remove" -> item.live /\ item.pending = 0

\* settle: what the operation promised is there.
Confirms(n, op) ==
  CASE op = "acquire" -> item.live /\ item.made = n
    [] op = "adopt" /\ record.shape = "created" -> item.live /\ item.made = n
    [] op = "adopt" /\ record.shape # "created" -> item.pending = n
    [] op = "rotate" -> item.pending = n
    [] op = "verify" -> item.pending = n /\ item.same
    [] op = "remove" -> item.live /\ item.pending = 0

\* settle: the staged revision becomes current, was the current one, or the item
\* goes.
Done(op) ==
  CASE op = "rotate" \/ (op = "adopt" /\ record.shape # "created") -> Activated(item)
    [] op = "verify" -> Discarded(item)
    [] op = "remove" -> Trashed(item)
    [] OTHER -> item

\* receipt_matches, of the record as it stands.
Proven(n) == Identity => record.answer # None /\ record.answer.receipt /\ record.id = n

\* settle, completed: commit and write the lifecycle block.
Commit(p) ==
  LET s == Settling(p)
      done == Done(s.op)
  IN /\ Settles(p, "operation_completed")
     /\ Proven(s.id) /\ Confirms(s.id, s.op)
     /\ done.live => MayStore(done)
     /\ Saves(p, IF done.live THEN <<done, Stored(done, "managed", s.id)>> ELSE <<done>>,
              Closing("completed"))
     /\ UNCHANGED <<record, lock, weles, next>>

\* settle, completed: what was promised is not there.
Disagree(p) ==
  /\ Settles(p, "operation_completed")
  /\ LET s == Settling(p) IN Proven(s.id) /\ ~Confirms(s.id, s.op) /\ s.op # "remove"
  /\ To(p, Closing("inconsistent"))
  /\ UNCHANGED <<item, record, lock, weles, next>>

\* settle, completed without a receipt for this principal: freeze.
Distrust(p) ==
  /\ Settles(p, "operation_completed")
  /\ ~Proven(Settling(p).id)
  /\ Saves(p, Freezes(item, Settling(p).id), Closing("quarantined"))
  /\ UNCHANGED <<record, lock, weles, next>>

\* update_request of the record read before, with the new status.
Close(p) ==
  /\ proc[p].pc = "close"
  /\ record' = [proc[p].rec EXCEPT !.status = proc[p].status]
  /\ Leave(p)
  /\ UNCHANGED <<item, weles, next>>

\* discard_staged_revision of request n's candidate, if it is there.
Dropped(n) == IF item.pending = n THEN Discarded(item) ELSE item

\* trash_adopted_item: only the item this adopt created, untouched since.
Untouched(i, n) ==
  /\ MayStore(i)
  /\ i.created /\ i.of = n /\ i.life = "adopting"
  /\ i.rev = 1 /\ i.by = n

\* settle, failed: the candidate goes, and the item this adopt created.
RollBack(p) ==
  LET s == Settling(p)
      left == Dropped(s.id)
  IN /\ Settles(p, "operation_failed")
     /\ Saves(p,
          CASE s.op = "adopt" /\ record.shape = "created" /\ Untouched(left, s.id) -> <<left, Trashed(left)>>
            [] s.op = "adopt" /\ record.shape = "staged" /\ MayStore(left) ->
                 <<left, Stored(left, "unmanaged", s.id)>>
            [] OTHER -> <<left>>,
          Idle)
     /\ UNCHANGED <<record, lock, weles, next>>

-----------------------------------------------------------------------------
(* credential resume and credential quarantine resolve.                    *)

Waiting(p) ==
  /\ proc[p] = Idle /\ lock = Free /\ lock' = p
  /\ ~Quarantined
  /\ record # None /\ record.status = "needs_human_approval"

\* resume, in time: the approval is handed back.
Resume(p) ==
  /\ Waiting(p)
  /\ To(p, [Idle EXCEPT !.pc = "ask", !.mode = "resume", !.rec = record])
  /\ UNCHANGED <<item, record, weles, next>>

\* resume, too late: the candidate goes back and the record stops blocking.
Expire(p) ==
  LET left == Dropped(record.id)
  IN /\ Waiting(p)
     /\ record.shape = "created" => Untouched(left, record.id)
     /\ Saves(p, IF record.shape = "created" THEN <<left, Trashed(left)>> ELSE <<left>>,
              Closing("approval_expired"))
     /\ UNCHANGED <<record, weles, next>>

Decisions == {"keep", "activate", "discard"}

\* resolve_quarantine: the operator decides about the candidate.
Resolve(p, decision) ==
  LET decided == CASE decision = "activate" -> Activated(item)
                   [] decision = "discard" -> Discarded(item)
                   [] decision = "keep" -> item
      clear == [decided EXCEPT !.tagged = FALSE]
  IN /\ proc[p] = Idle /\ lock = Free /\ lock' = p
     /\ Quarantined /\ record # None
     /\ decision # "keep" => item.pending = record.id
     /\ Saves(p,
          CASE ~decided.live -> <<decided>>
            [] decided.live /\ decided.pending # 0 -> <<decided, clear>>
            [] decided.live /\ decided.pending = 0 ->
                 <<decided, clear, [Stored(clear, "unmanaged", record.id) EXCEPT !.block = FALSE]>>,
          Closing("quarantine_resolved"))
     /\ UNCHANGED <<record, weles, next>>

\* A step fails - a save refused, a journal not written, a bail - and the
\* operation ends.
Fail(p) ==
  /\ proc[p] # Idle
  /\ Leave(p)
  /\ UNCHANGED <<item, record, weles, next>>

\* The process dies with the lock file behind it.
Die(p) ==
  /\ lock = p
  /\ To(p, Idle)
  /\ lock' = Gone
  /\ UNCHANGED <<item, record, weles, next>>

\* The operator removes the lock file a dead process left.
RemoveLock ==
  /\ lock = Gone /\ lock' = Free
  /\ UNCHANGED <<item, record, proc, weles, next>>

Next ==
  \/ \E p \in Procs :
       \/ \E op \in Ops : Ask(p, op)
       \/ Preflight(p) \/ StageCandidate(p) \/ SaveRequest(p) \/ AuditFails(p)
       \/ \E at \in {"idle"} \cup DOMAIN StatusOf : Send(p, at)
       \/ SendNothing(p) \/ Receive(p) \/ ReceiveGarbled(p) \/ Freeze(p) \/ RecordAnswer(p)
       \/ Poll(p) \/ Commit(p) \/ Disagree(p) \/ Distrust(p) \/ Close(p) \/ RollBack(p)
       \/ Resume(p) \/ Expire(p)
       \/ \E decision \in Decisions : Resolve(p, decision)
       \/ Fail(p) \/ Die(p)
  \/ \E n \in Requests : Weles(n)
  \/ RemoveLock

Spec == Init /\ [][Next]_vars

-----------------------------------------------------------------------------
(* Properties.                                                             *)

\* Outside quarantine, where an operator decides, a staged value becomes the one
\* everybody reads only when Weles completed the request that staged it, whichever
\* of several polls settles it and however often one was cut short.
ActivatesCompleted ==
  [][\A n \in Requests :
       item.pending = n /\ item.by # n /\ item'.by = n => weles[n].at = "completed" \/ Quarantined]_vars

\* The candidate of request n is dropped without becoming current.
Loses(n) == item.pending = n /\ item'.pending # n /\ item'.by # n

\* freeze.rs: "the provider may hold exactly the value we staged, so the staged
\* candidate must survive instead of being rolled back away".
CandidateSurvives == [][\A n \in Requests : Loses(n) => weles[n].effect # "changed"]_vars

\* A credential status that settles the failure Weles answered never discards the
\* candidate the provider now accepts: what Weles reports of its effect has frozen
\* the credential before.
AnsweredCandidateSurvives ==
  [][\A n \in Requests :
       /\ Loses(n)
       /\ record.answer # None /\ record.answer.status = "operation_failed"
       /\ record.status = "operation_failed"
       => weles[n].effect # "changed"]_vars
=============================================================================
