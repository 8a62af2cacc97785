--------------------------- MODULE LifecycleProofs ---------------------------
(***************************************************************************)
(* Proofs about CredentialLifecycle: for any number of processes, requests *)
(* and revisions, all of them at once, what becomes of a staged candidate. *)
(***************************************************************************)
EXTENDS CredentialLifecycle, TLAPS

-----------------------------------------------------------------------------
(* The inductive invariant.                                                *)

IsItem(i) ==
  i = [live |-> i.live, rev |-> i.rev, by |-> i.by, made |-> i.made, life |-> i.life, of |-> i.of,
       created |-> i.created, tagged |-> i.tagged, block |-> i.block, pending |-> i.pending, same |-> i.same]
IsRec(r) ==
  r = [id |-> r.id, op |-> r.op, status |-> r.status, answer |-> r.answer, base |-> r.base, shape |-> r.shape]
IsProc(q) ==
  q = [pc |-> q.pc, mode |-> q.mode, op |-> q.op, rec |-> q.rec, answer |-> q.answer, status |-> q.status]
IsWork(w) == w = [at |-> w.at, op |-> w.op, effect |-> w.effect]

\* Only an item that is there has a candidate.
ItemSound(i) == IsItem(i) /\ (i.pending # 0 => i.live)

\* What Weles did of request n, f[n] being its operation: only a rotation
\* changes the provider, and nothing is done of a request not yet made.
WorkSound(n, f) ==
  /\ IsWork(weles[n]) /\ weles[n].at \in {"idle"} \cup DOMAIN StatusOf
  /\ weles[n].op \in {"none", f[n]}
  /\ weles[n].effect # "none" => weles[n].op = "rotate"
  /\ n >= next => weles[n].op = "none"

\* A failure Weles answered for and that needs no freeze.
FailedClean(n) == weles[n].at = "failed" /\ weles[n].effect # "changed"

\* A copy of a request record says of its request what is so, however old it is.
RecSound(r, f) ==
  /\ IsRec(r) /\ r.id \in Requests /\ r.id < next /\ r.op = f[r.id]
  /\ r.status = "submitting" => r.answer = None
  /\ r.status = "needs_human_approval" => r.answer = None \/ r.answer.status = "needs_human_approval"
  /\ r.status \in {"pending", "needs_human_approval"} => weles[r.id].at # "idle"
  /\ r.status = "operation_completed" => weles[r.id].at = "completed"
  /\ r.status = "operation_failed" /\ r.answer # None /\ r.answer.status = "operation_failed"
       => FailedClean(r.id)

\* So does an answer that is still in a process's hands.
AnswerSound(a, n) ==
  /\ a.status \notin {"submitting", "pending"}
  /\ a.status = "operation_completed" => weles[n].at = "completed"
  /\ a.status \in {"operation_queued", "needs_human_approval"} => weles[n].at # "idle"
  /\ a.status = "operation_failed" /\ ~Unresolved(a) => FailedClean(n)

Before == {"stage", "save"}
After == {"ask", "sent", "answered", "frozen", "settle", "close"}
Ends == {"completed", "inconsistent", "quarantined", "approval_expired", "quarantine_resolved"}

\* What a process holds at each place of its operation.
ProcSound(q, f) ==
  /\ IsProc(q)
  /\ q.pc = "asked" => q.op \in Ops /\ q.mode = "submit"
  /\ q.pc \in Before \cup After => RecSound(q.rec, f) /\ q.mode \in {"submit", "resume", "status"}
  /\ q.pc \in Before => q.mode = "submit" /\ q.rec.status = "submitting"
  /\ q.pc \in After => RecSound(record, f)
  /\ q.pc \in {"ask", "sent"} /\ q.mode = "submit" => q.rec.status = "submitting"
  /\ q.pc \in {"ask", "sent"} /\ q.mode = "resume" => q.rec.status = "needs_human_approval"
  /\ q.pc = "ask" /\ q.mode # "submit" => weles[q.rec.id].at # "idle"
  /\ q.pc = "sent" => weles[q.rec.id].at # "idle"
  /\ q.pc = "answered" => AnswerSound(q.answer, q.rec.id)
  /\ q.pc = "settle" /\ q.status = "operation_completed" => weles[q.rec.id].at = "completed"
  /\ q.pc = "settle" /\ q.status = "operation_failed" => FailedClean(q.rec.id)
  /\ q.pc = "close" => q.status \in Ends

Sound(f) ==
  /\ f = [n \in Requests |-> f[n]] /\ \A n \in Requests : f[n] \in AllOps
  /\ next \in Nat \ {0}
  /\ ItemSound(item)
  /\ weles = [n \in Requests |-> weles[n]] /\ \A n \in Requests : WorkSound(n, f)
  /\ record = None \/ RecSound(record, f)
  /\ proc = [p \in Procs |-> proc[p]] /\ \A p \in Procs : ProcSound(proc[p], f)

LifecycleInv == \E f \in [Requests -> AllOps] : Sound(f)

\* What a step makes of the candidate: it stays, there is none, it becomes current
\* of a request that completed or at an operator's word, or it goes.
AnsweredFailure ==
  record.answer # None /\ record.answer.status = "operation_failed" /\ record.status = "operation_failed"
CandidateMoves ==
  \/ item'.pending = item.pending /\ item'.by = item.by
  \/ item.pending = 0
  \/ item'.by = item.pending /\ (Quarantined \/ weles[item.pending].at = "completed")
  \/ item'.by = item.by /\ (AnsweredFailure => weles[item.pending].effect # "changed")
-----------------------------------------------------------------------------
(* What is known stays known.                                              *)

\* Weles takes back nothing it did.
LaterWork ==
  \A n \in Requests : /\ weles[n].at # "idle" => weles'[n].at # "idle"
                      /\ weles[n].at = "completed" => weles'[n].at = "completed"
                      /\ FailedClean(n) => (FailedClean(n))'
SameWork == UNCHANGED <<weles, next>>

LEMMA RecLater ==
  ASSUME NEW f, NEW r, RecSound(r, f), LaterWork, next \in Nat, next' \in {next, next + 1}
  PROVE  (RecSound(r, f))'
<1>1. r.id \in Requests /\ r.id < next'
  BY DEF RecSound, Requests
<1> QED BY <1>1 DEF RecSound, LaterWork

LEMMA AnswerLater ==
  ASSUME NEW a, NEW n \in Requests, AnswerSound(a, n), LaterWork
  PROVE  (AnswerSound(a, n))'
BY DEF AnswerSound, LaterWork, Unresolved

LEMMA ProcLater ==
  ASSUME NEW f, NEW q, ProcSound(q, f), LaterWork, next \in Nat, next' \in {next, next + 1},
         record' = record \/ (RecSound(record, f))'
  PROVE  (ProcSound(q, f))'
<1>1. RecSound(q.rec, f) => q.rec.id \in Requests
  BY DEF RecSound
<1>2. PICK r : r = q.rec
  OBVIOUS
<1>3. RecSound(r, f) => (RecSound(r, f))'
  BY RecLater
<1>4. RecSound(record, f) => (RecSound(record, f))'
  <2>1. PICK s : s = record
    OBVIOUS
  <2>2. RecSound(s, f) => (RecSound(s, f))'
    BY RecLater
  <2> QED BY <2>1, <2>2 DEF RecSound
<1>5. RecSound(q.rec, f) => (RecSound(q.rec, f))'
  BY <1>2, <1>3
<1>6. RecSound(q.rec, f) /\ AnswerSound(q.answer, q.rec.id) => (AnswerSound(q.answer, q.rec.id))'
  <2>1. PICK a, n : a = q.answer /\ n = q.rec.id
    OBVIOUS
  <2>2. n \in Requests /\ AnswerSound(a, n) => (AnswerSound(a, n))'
    BY AnswerLater
  <2> QED BY <1>1, <2>1, <2>2
<1>7. q.pc \in After => (RecSound(record, f))'
  BY <1>4 DEF ProcSound
<1> HIDE DEF RecSound, AnswerSound
<1> QED BY <1>1, <1>5, <1>6, <1>7 DEF ProcSound, LaterWork, Before, After

\* A step of one process, or of none.
LEMMA Moved ==
  ASSUME NEW f, Sound(f), LaterWork, next' \in {next, next + 1}, ItemSound(item'),
         weles' = [n \in Requests |-> weles'[n]], \A n \in Requests : (WorkSound(n, f))',
         record' = record \/ (RecSound(record, f))',
         \/ proc' = proc
         \/ \E p \in Procs : \E q : proc' = [proc EXCEPT ![p] = q] /\ (ProcSound(q, f))'
  PROVE  Sound(f)'
<1>1. next \in Nat \ {0} /\ next' \in Nat \ {0}
  BY DEF Sound
<1>2. \A q : ProcSound(q, f) => (ProcSound(q, f))'
  BY <1>1, ProcLater
<1>3. /\ proc' = [p \in Procs |-> proc'[p]]
      /\ \A p \in Procs : (ProcSound(proc[p], f))'
  <2>1. proc = [p \in Procs |-> proc[p]] /\ \A p \in Procs : ProcSound(proc[p], f)
    BY DEF Sound
  <2>2. ASSUME NEW p \in Procs, NEW q, q = proc'[p]
        PROVE  (ProcSound(q, f))'
    <3>1. CASE proc' = proc
      BY <1>2, <2>1, <2>2, <3>1
    <3>2. CASE \E r \in Procs : \E s : proc' = [proc EXCEPT ![r] = s] /\ (ProcSound(s, f))'
      BY <1>2, <2>1, <2>2, <3>2
    <3> QED BY <3>1, <3>2
  <2> QED BY <2>1, <2>2
<1>4. (record = None \/ RecSound(record, f))'
  <2>1. PICK s : s = record
    OBVIOUS
  <2>2. RecSound(s, f) => (RecSound(s, f))'
    BY <1>1, RecLater
  <2> QED BY <2>1, <2>2 DEF Sound
<1> QED BY <1>1, <1>3, <1>4 DEF Sound

LEMMA ProcMoved ==
  ASSUME NEW f, Sound(f), SameWork, ItemSound(item'), record' = record \/ (RecSound(record, f))',
         \/ proc' = proc
         \/ \E p \in Procs : \E q : proc' = [proc EXCEPT ![p] = q] /\ (ProcSound(q, f))'
  PROVE  Sound(f)'
<1>1. LaterWork /\ next' \in {next, next + 1}
  BY DEF SameWork, LaterWork, FailedClean
<1>2. weles' = [n \in Requests |-> weles'[n]] /\ \A n \in Requests : (WorkSound(n, f))'
  BY DEF Sound, SameWork, WorkSound
<1> QED BY <1>1, <1>2, Moved

\* The same facts of the same work are the same.
LEMMA SameRec ==
  ASSUME NEW f, NEW r, RecSound(r, f), SameWork
  PROVE  (RecSound(r, f))'
BY DEF RecSound, SameWork, FailedClean

LEMMA IdleFacts == IsProc(Idle) /\ Idle.pc = "idle"
BY DEF Idle, IsProc
-----------------------------------------------------------------------------
(* The item.                                                               *)

\* What is written beside the candidate leaves it as it is.
Beside(i, j) == IsItem(j) /\ j.pending = i.pending /\ j.by = i.by /\ j.live = i.live

LEMMA StoredFacts ==
  ASSUME NEW i, IsItem(i), NEW life, NEW n, NEW j, j = Stored(i, life, n)
  PROVE  Beside(i, j)
<1>1. PICK rev, no : rev = i.rev + 1 /\ no = FALSE
  OBVIOUS
<1>2. j = [i EXCEPT !.rev = rev, !.life = life, !.of = n, !.created = no]
  BY <1>1 DEF Stored
<1> QED BY <1>2 DEF IsItem, Beside

LEMMA TaggedFacts ==
  ASSUME NEW i, IsItem(i), NEW b, NEW j, j = [i EXCEPT !.tagged = b] \/ j = [i EXCEPT !.block = b]
  PROVE  Beside(i, j)
BY DEF IsItem, Beside

LEMMA ActivatedFacts ==
  ASSUME NEW i, IsItem(i), NEW j, j = Activated(i)
  PROVE  IsItem(j) /\ j.pending = 0 /\ j.by = i.pending /\ j.live = i.live
<1>1. PICK rev, no, by : rev = i.rev + 1 /\ no = FALSE /\ by = i.pending
  OBVIOUS
<1>2. j = [i EXCEPT !.by = by, !.rev = rev, !.pending = 0, !.same = no]
  BY <1>1 DEF Activated
<1>3. IsItem(j)
  BY <1>2 DEF IsItem
<1>4. j.pending = 0 /\ j.by = by /\ j.live = i.live
  BY <1>2 DEF IsItem
<1> QED BY <1>1, <1>3, <1>4

LEMMA DiscardedFacts ==
  ASSUME NEW i, IsItem(i), NEW j, j = Discarded(i)
  PROVE  IsItem(j) /\ j.pending = 0 /\ j.by = i.by /\ j.live = i.live
<1>1. PICK no : no = FALSE
  OBVIOUS
<1>2. j = [i EXCEPT !.pending = 0, !.same = no]
  BY <1>1 DEF Discarded
<1> QED BY <1>2 DEF IsItem

LEMMA TrashedFacts ==
  ASSUME NEW i, IsItem(i), NEW j, j = Trashed(i)
  PROVE  IsItem(j) /\ j.pending = i.pending /\ j.by = i.by
<1>1. PICK no : no = FALSE
  OBVIOUS
<1>2. j = [i EXCEPT !.live = no]
  BY <1>1 DEF Trashed
<1> QED BY <1>2 DEF IsItem

LEMMA CreatedFacts ==
  ASSUME NEW i, IsItem(i), NEW n, NEW life, NEW j, j = Created(i, n, life)
  PROVE  IsItem(j) /\ j.live
<1>1. PICK rev, no, of, yes, c : /\ rev = i.rev + 1 /\ no = FALSE /\ of = (IF life = "none" THEN 0 ELSE n)
                                /\ yes = TRUE /\ c = (life = "adopting")
  OBVIOUS
<1>2. j = [i EXCEPT !.live = yes, !.rev = rev, !.by = n, !.made = n, !.life = life, !.of = of,
                    !.created = c, !.tagged = no, !.block = no]
  BY <1>1 DEF Created
<1>3. IsItem(j) /\ j.live = yes
  BY <1>2 DEF IsItem
<1> QED BY <1>1, <1>3

\* The saves of one handle: one, two or three.
LEMMA SavesFacts ==
  ASSUME NEW p, NEW then
  PROVE  /\ \A a : Saves(p, <<a>>, then) => item' = a /\ proc' = [proc EXCEPT ![p] = then]
         /\ \A a, b : Saves(p, <<a, b>>, then)
              => item' \in {a, b} /\ \E q \in {then, [then EXCEPT !.pc = "cut"]} : proc' = [proc EXCEPT ![p] = q]
         /\ \A a, b, c : Saves(p, <<a, b, c>>, then)
              => item' \in {a, b, c} /\ \E q \in {then, [then EXCEPT !.pc = "cut"]} : proc' = [proc EXCEPT ![p] = q]
BY DEF Saves, To

\* The candidate stays, and the item is as sound as it was.
LEMMA StaysBeside ==
  ASSUME ItemSound(item), item' = item \/ Beside(item, item')
  PROVE  ItemSound(item') /\ CandidateMoves
BY DEF ItemSound, Beside, CandidateMoves
-----------------------------------------------------------------------------
(* The steps that leave the item as it is.                                 *)

LEMMA ProcStep ==
  ASSUME NEW f, Sound(f), SameWork, ItemSound(item'), record' = record \/ (RecSound(record, f))',
         NEW p \in Procs, NEW q, proc' = [proc EXCEPT ![p] = q], ProcSound(q, f)
  PROVE  Sound(f)'
<1>1. LaterWork /\ next \in Nat /\ next' \in {next, next + 1}
  BY DEF SameWork, LaterWork, FailedClean, Sound
<1>2. (ProcSound(q, f))'
  BY <1>1, ProcLater
<1> QED BY <1>2, ProcMoved

LEMMA Quiet ==
  ASSUME NEW f, Sound(f), SameWork, item' = item, record' = record \/ (RecSound(record, f))',
         NEW p \in Procs, NEW q, proc' = [proc EXCEPT ![p] = q], ProcSound(q, f)
  PROVE  Sound(f)' /\ CandidateMoves
<1>1. ItemSound(item') /\ CandidateMoves
  BY DEF Sound, CandidateMoves
<1> QED BY <1>1, ProcStep

LEMMA ProcFacts ==
  ASSUME NEW f, Sound(f), NEW p \in Procs
  PROVE  ProcSound(proc[p], f) /\ IsProc(proc[p]) /\ (record = None \/ RecSound(record, f))
BY DEF Sound, ProcSound

\* A process that is idle or was stopped holds nothing.
LEMMA Held0 ==
  ASSUME NEW f, NEW q, IsProc(q), q.pc \in {"idle", "cut"}
  PROVE  ProcSound(q, f)
BY DEF ProcSound, Before, After

LEMMA Ask_step ==
  ASSUME NEW f, Sound(f), NEW p \in Procs, NEW op \in Ops, Ask(p, op)
  PROVE  Sound(f)' /\ CandidateMoves
<1>1. PICK q : q = [Idle EXCEPT !.pc = "asked", !.mode = "submit", !.op = op]
  OBVIOUS
<1>2. IsProc(q) /\ q.pc = "asked" /\ q.mode = "submit" /\ q.op = op
  BY <1>1 DEF Idle, IsProc
<1>3. ProcSound(q, f)
  BY <1>2 DEF ProcSound, Before, After
<1> QED BY <1>1, <1>3, Quiet DEF Ask, To, SameWork

LEMMA Leave_step ==
  ASSUME NEW f, Sound(f), NEW p \in Procs, proc' = [proc EXCEPT ![p] = Idle], item' = item,
         SameWork, record' = record \/ (RecSound(record, f))'
  PROVE  Sound(f)' /\ CandidateMoves
<1>1. PICK q : q = Idle
  OBVIOUS
<1>2. ProcSound(q, f)
  BY <1>1, IdleFacts, Held0
<1> QED BY <1>1, <1>2, Quiet

LEMMA SaveRequest_step ==
  ASSUME NEW f, Sound(f), NEW p \in Procs, SaveRequest(p)
  PROVE  Sound(f)' /\ CandidateMoves
<1>1. PICK c, q, r : c = proc[p] /\ q = [c EXCEPT !.pc = "ask"] /\ r = c.rec
  OBVIOUS
<1>2. ProcSound(c, f) /\ IsProc(c) /\ c.pc = "save"
  BY <1>1, ProcFacts DEF SaveRequest
<1>3. /\ proc' = [proc EXCEPT ![p] = q] /\ record' = r /\ item' = item /\ SameWork
  BY <1>1 DEF SaveRequest, To, SameWork
<1>4. RecSound(r, f) /\ r.status = "submitting" /\ c.mode = "submit"
  BY <1>1, <1>2 DEF ProcSound, Before
<1>5. IsProc(q) /\ q.pc = "ask" /\ q.mode = "submit" /\ q.rec = r
  BY <1>1, <1>2, <1>4 DEF IsProc
<1>6. (RecSound(r, f))'
  BY <1>3, <1>4, SameRec
<1>7. (RecSound(record, f))'
  BY <1>3, <1>6
<1>8. (ProcSound(q, f))'
  BY <1>4, <1>5, <1>6, <1>7 DEF ProcSound, Before, After
<1>9. ItemSound(item') /\ CandidateMoves
  BY <1>3 DEF Sound, CandidateMoves
<1> QED BY <1>3, <1>7, <1>8, <1>9, ProcMoved

\* A record that failed and that Weles never answered for.
LEMMA FailedFacts ==
  ASSUME NEW f, NEW r, RecSound(r, f), r.status \in {"submitting", "needs_human_approval"}, SameWork
  PROVE  (RecSound([r EXCEPT !.status = "operation_failed"], f))'
<1>1. PICK s : s = [r EXCEPT !.status = "operation_failed"]
  OBVIOUS
<1>2. IsRec(s) /\ s.id = r.id /\ s.op = r.op /\ s.answer = r.answer /\ s.status = "operation_failed"
  BY <1>1 DEF RecSound, IsRec
<1>3. (RecSound(s, f))'
  BY <1>2 DEF RecSound, SameWork
<1> QED BY <1>1, <1>3

LEMMA AuditFails_step ==
  ASSUME NEW f, Sound(f), NEW p \in Procs, AuditFails(p)
  PROVE  Sound(f)' /\ CandidateMoves
<1>1. PICK c, r : c = proc[p] /\ r = c.rec
  OBVIOUS
<1>2. /\ record' = [r EXCEPT !.status = "operation_failed"] /\ proc' = [proc EXCEPT ![p] = Idle]
      /\ item' = item /\ SameWork /\ c.pc = "save"
  BY <1>1 DEF AuditFails, Leave, To, SameWork
<1>3. RecSound(r, f) /\ r.status = "submitting"
  BY <1>1, <1>2, ProcFacts DEF ProcSound, Before
<1>4. (RecSound([r EXCEPT !.status = "operation_failed"], f))'
  BY <1>2, <1>3, FailedFacts
<1>5. (RecSound(record, f))'
  BY <1>2, <1>4
<1> QED BY <1>2, <1>5, Leave_step

LEMMA ReceiveGarbled_step ==
  ASSUME NEW f, Sound(f), NEW p \in Procs, ReceiveGarbled(p)
  PROVE  Sound(f)' /\ CandidateMoves
<1>1. PICK c, r : c = proc[p] /\ r = c.rec
  OBVIOUS
<1>2. /\ record' = [r EXCEPT !.status = "operation_failed"] /\ proc' = [proc EXCEPT ![p] = Idle]
      /\ item' = item /\ SameWork /\ c.pc = "sent" /\ c.mode \in {"submit", "resume"}
  BY <1>1 DEF ReceiveGarbled, Leave, To, SameWork
<1>3. RecSound(r, f) /\ r.status \in {"submitting", "needs_human_approval"}
  BY <1>1, <1>2, ProcFacts DEF ProcSound, Before, After
<1>4. (RecSound([r EXCEPT !.status = "operation_failed"], f))'
  BY <1>2, <1>3, FailedFacts
<1>5. (RecSound(record, f))'
  BY <1>2, <1>4
<1> QED BY <1>2, <1>5, Leave_step

LEMMA SendNothing_step ==
  ASSUME NEW f, Sound(f), NEW p \in Procs, SendNothing(p)
  PROVE  Sound(f)' /\ CandidateMoves
<1>1. PICK c, q, a : c = proc[p] /\ a = Unsent /\ q = [c EXCEPT !.pc = "answered", !.answer = a]
  OBVIOUS
<1>2. ProcSound(c, f) /\ IsProc(c) /\ c.pc = "ask"
  BY <1>1, ProcFacts DEF SendNothing
<1>3. IsProc(q) /\ q.pc = "answered" /\ q.mode = c.mode /\ q.rec = c.rec /\ q.answer = a
  BY <1>1, <1>2 DEF IsProc
<1>4. AnswerSound(a, q.rec.id)
  BY <1>1 DEF Unsent, Answer, AnswerSound
<1>5. ProcSound(q, f)
  BY <1>2, <1>3, <1>4 DEF ProcSound, Before, After
<1> QED BY <1>1, <1>5, Quiet DEF SendNothing, To, SameWork

LEMMA Receive_step ==
  ASSUME NEW f, Sound(f), NEW p \in Procs, Receive(p)
  PROVE  Sound(f)' /\ CandidateMoves
<1>1. PICK c : c = proc[p]
  OBVIOUS
<1>2. ProcSound(c, f) /\ IsProc(c) /\ c.pc = "sent"
  BY <1>1, ProcFacts DEF Receive
<1>3. PICK n : n = c.rec.id
  OBVIOUS
<1>4. n \in Requests /\ weles[n].at # "idle"
  BY <1>2, <1>3 DEF ProcSound, RecSound, After
<1>5. PICK a \in Answers(n) : proc' = [proc EXCEPT ![p] = [c EXCEPT !.pc = "answered", !.answer = a]]
  BY <1>1, <1>3 DEF Receive, To
<1>6. AnswerSound(a, n)
  <2>1. WorkSound(n, f)
    BY <1>4 DEF Sound
  <2>2. PICK w : w = weles[n]
    OBVIOUS
  <2>3. w.at \in {"running", "waiting", "completed", "failed", "refused"}
    BY <1>4, <2>1, <2>2 DEF WorkSound, StatusOf
  <2>4. \/ a = Answer("operation_failed", "unknown", "none", FALSE)
        \/ \E receipt : a = Answer(StatusOf[w.at], IF w.effect = "none" THEN "none" ELSE "changed",
                                   IF w.effect = "undone" THEN "completed" ELSE "none", receipt)
    BY <1>5, <2>2 DEF Answers
  <2>5. CASE a = Answer("operation_failed", "unknown", "none", FALSE)
    BY <2>5 DEF Answer, AnswerSound, Unresolved
  <2>6. ASSUME NEW receipt,
               a = Answer(StatusOf[w.at], IF w.effect = "none" THEN "none" ELSE "changed",
                          IF w.effect = "undone" THEN "completed" ELSE "none", receipt)
        PROVE  AnswerSound(a, n)
    <3>1. /\ a.status = StatusOf[w.at] /\ a.effect = (IF w.effect = "none" THEN "none" ELSE "changed")
          /\ a.rollback = (IF w.effect = "undone" THEN "completed" ELSE "none")
      BY <2>6 DEF Answer
    <3>2. /\ a.status = "operation_completed" => w.at = "completed"
          /\ a.status = "operation_failed" => w.at = "failed"
          /\ a.status \notin {"submitting", "pending"}
      BY <2>3, <3>1 DEF StatusOf
    <3>3. a.status = "operation_failed" /\ ~Unresolved(a) => w.effect # "changed"
      BY <3>1 DEF Unresolved
    <3> QED BY <1>4, <2>2, <3>2, <3>3 DEF AnswerSound, FailedClean
  <2> QED BY <2>4, <2>5, <2>6
<1>7. PICK q : q = [c EXCEPT !.pc = "answered", !.answer = a]
  OBVIOUS
<1>8. IsProc(q) /\ q.pc = "answered" /\ q.mode = c.mode /\ q.rec = c.rec /\ q.answer = a
  BY <1>2, <1>7 DEF IsProc
<1>9. ProcSound(q, f)
  BY <1>2, <1>3, <1>6, <1>8 DEF ProcSound, Before, After
<1> QED BY <1>5, <1>7, <1>9, Quiet DEF Receive, SameWork
\* The answer is recorded on the copy read before.
LEMMA RecordAnswer_step ==
  ASSUME NEW f, Sound(f), NEW p \in Procs, RecordAnswer(p)
  PROVE  Sound(f)' /\ CandidateMoves
<1>1. PICK c, r, a, status, mode :
        /\ c = proc[p] /\ r = c.rec /\ a = c.answer /\ mode = c.mode
        /\ status = IF c.pc = "frozen" THEN "quarantined" ELSE Recorded(c.mode, c.answer.status)
  OBVIOUS
<1>2. /\ (c.pc = "answered" /\ ~Unresolved(a)) \/ c.pc = "frozen"
      /\ record' = [r EXCEPT !.status = status, !.answer = a] /\ item' = item /\ SameWork
      /\ \/ /\ mode = "status" /\ status \in Settled
            /\ proc' = [proc EXCEPT ![p] = [c EXCEPT !.pc = "settle", !.status = status, !.answer = None]]
         \/ proc' = [proc EXCEPT ![p] = Idle]
  BY <1>1 DEF RecordAnswer, To, Leave, SameWork
<1>3. ProcSound(c, f) /\ IsProc(c)
  BY <1>1, ProcFacts
<1>4. RecSound(r, f) /\ mode \in {"submit", "resume", "status"} /\ RecSound(record, f)
  BY <1>1, <1>2, <1>3 DEF ProcSound, After
<1>5. c.pc = "answered" => AnswerSound(a, r.id) /\ status = Recorded(mode, a.status)
  BY <1>1, <1>3 DEF ProcSound
<1>6. /\ status = "operation_completed" => weles[r.id].at = "completed"
      /\ status \in {"pending", "needs_human_approval"} => weles[r.id].at # "idle"
      /\ status = "needs_human_approval" => a.status = "needs_human_approval"
      /\ status = "operation_failed" => FailedClean(r.id)
      /\ status # "submitting"
  <2>1. CASE c.pc = "frozen"
    BY <1>1, <2>1
  <2>2. CASE c.pc = "answered" /\ ~Unresolved(a)
    <3>1. /\ AnswerSound(a, r.id)
          /\ status = IF a.status = "operation_queued" \/ (a.status = "operation_completed" /\ mode = "resume")
                      THEN "pending" ELSE a.status
      BY <1>5, <2>2 DEF Recorded
    <3>2. a.status # "submitting" /\ a.status # "pending"
      BY <3>1 DEF AnswerSound
    <3> QED BY <2>2, <3>1, <3>2 DEF AnswerSound
  <2> QED BY <1>2, <2>1, <2>2
<1>7. PICK s : s = [r EXCEPT !.status = status, !.answer = a]
  OBVIOUS
<1>8. IsRec(s) /\ s.id = r.id /\ s.op = r.op /\ s.answer = a /\ s.status = status
  BY <1>4, <1>7 DEF RecSound, IsRec
<1>9. RecSound(s, f)
  BY <1>4, <1>6, <1>8 DEF RecSound
<1>10. (RecSound(record, f))'
  <2>1. (RecSound(s, f))'
    BY <1>2, <1>9, SameRec
  <2> QED BY <1>2, <1>7, <2>1
<1>11. CASE proc' = [proc EXCEPT ![p] = Idle]
  BY <1>2, <1>10, <1>11, Leave_step
<1>12. CASE proc' = [proc EXCEPT ![p] = [c EXCEPT !.pc = "settle", !.status = status, !.answer = None]]
  <2>1. PICK q : q = [c EXCEPT !.pc = "settle", !.status = status, !.answer = None]
    OBVIOUS
  <2>2. IsProc(q) /\ q.pc = "settle" /\ q.mode = mode /\ q.rec = r /\ q.status = status
    BY <1>1, <1>3, <2>1 DEF IsProc
  <2>3. ProcSound(q, f)
    BY <1>4, <1>6, <2>2 DEF ProcSound, Before, After
  <2> QED BY <1>2, <1>10, <1>12, <2>1, <2>3, Quiet
<1> QED BY <1>2, <1>11, <1>12

LEMMA Poll_step ==
  ASSUME NEW f, Sound(f), NEW p \in Procs, Poll(p)
  PROVE  Sound(f)' /\ CandidateMoves
<1>1. PICK q, r : r = record /\ q = [Idle EXCEPT !.pc = "ask", !.mode = "status", !.rec = r]
  OBVIOUS
<1>2. RecSound(r, f) /\ r.status \in {"pending", "needs_human_approval"}
  BY <1>1 DEF Poll, Sound
<1>3. IsProc(q) /\ q.pc = "ask" /\ q.mode = "status" /\ q.rec = r
  BY <1>1 DEF Idle, IsProc
<1>4. weles[r.id].at # "idle" /\ RecSound(record, f)
  BY <1>1, <1>2 DEF RecSound
<1>5. ProcSound(q, f)
  BY <1>2, <1>3, <1>4 DEF ProcSound, Before, After
<1> QED BY <1>1, <1>5, Quiet DEF Poll, To, SameWork

LEMMA Resume_step ==
  ASSUME NEW f, Sound(f), NEW p \in Procs, Resume(p)
  PROVE  Sound(f)' /\ CandidateMoves
<1>1. PICK q, r : r = record /\ q = [Idle EXCEPT !.pc = "ask", !.mode = "resume", !.rec = r]
  OBVIOUS
<1>2. RecSound(r, f) /\ r.status = "needs_human_approval"
  BY <1>1 DEF Resume, Waiting, Sound
<1>3. IsProc(q) /\ q.pc = "ask" /\ q.mode = "resume" /\ q.rec = r
  BY <1>1 DEF Idle, IsProc
<1>4. weles[r.id].at # "idle" /\ RecSound(record, f)
  BY <1>1, <1>2 DEF RecSound
<1>5. ProcSound(q, f)
  BY <1>2, <1>3, <1>4 DEF ProcSound, Before, After
<1> QED BY <1>1, <1>5, Quiet DEF Resume, To, SameWork

\* The record a settled operation is to be written back on.
LEMMA ClosingFacts ==
  ASSUME NEW f, RecSound(record, f), NEW status \in Ends, NEW q, q = Closing(status)
  PROVE  ProcSound(q, f) /\ IsProc(q)
<1>1. PICK r : r = record
  OBVIOUS
<1>2. q = [Idle EXCEPT !.pc = "close", !.mode = "status", !.rec = r, !.status = status]
  BY <1>1 DEF Closing
<1>3. IsProc(q) /\ q.pc = "close" /\ q.mode = "status" /\ q.rec = r /\ q.status = status
  BY <1>2 DEF Idle, IsProc
<1> QED BY <1>1, <1>3 DEF ProcSound, Before, After

\* What is settled: a request that ended so.
LEMMA SettledFacts ==
  ASSUME NEW f, Sound(f), NEW p \in Procs, NEW status, Settles(p, status)
  PROVE  /\ RecSound(record, f) /\ RecSound(Settling(p), f)
         /\ status = "operation_completed" => weles[Settling(p).id].at = "completed"
         /\ status = "operation_failed" => \/ FailedClean(Settling(p).id)
                                           \/ Settling(p) = record
<1>1. PICK c : c = proc[p]
  OBVIOUS
<1>2. ProcSound(c, f) /\ (record = None \/ RecSound(record, f))
  BY <1>1, ProcFacts
<1>3. CASE c.pc = "settle" /\ c.status = status
  <2>1. c # Idle
    BY <1>3, IdleFacts
  <2>2. Settling(p) = c.rec
    BY <1>1, <2>1 DEF Settling
  <2> QED BY <1>2, <1>3, <2>2 DEF ProcSound, After
<1>4. CASE c = Idle /\ record # None /\ record.status = status
  <2>1. Settling(p) = record
    BY <1>1, <1>4 DEF Settling
  <2> QED BY <1>2, <1>4, <2>1 DEF RecSound
<1> QED BY <1>1, <1>3, <1>4 DEF Settles

LEMMA Disagree_step ==
  ASSUME NEW f, Sound(f), NEW p \in Procs, Disagree(p)
  PROVE  Sound(f)' /\ CandidateMoves
<1>1. PICK q : q = Closing("inconsistent")
  OBVIOUS
<1>2. RecSound(record, f)
  BY SettledFacts DEF Disagree
<1>3. ProcSound(q, f)
  BY <1>1, <1>2, ClosingFacts DEF Ends
<1> QED BY <1>1, <1>3, Quiet DEF Disagree, To, SameWork

LEMMA Close_step ==
  ASSUME NEW f, Sound(f), NEW p \in Procs, Close(p)
  PROVE  Sound(f)' /\ CandidateMoves
<1>1. PICK c, r, status : c = proc[p] /\ r = c.rec /\ status = c.status
  OBVIOUS
<1>2. /\ c.pc = "close" /\ record' = [r EXCEPT !.status = status] /\ item' = item /\ SameWork
      /\ proc' = [proc EXCEPT ![p] = Idle]
  BY <1>1 DEF Close, Leave, To, SameWork
<1>3. RecSound(r, f) /\ status \in Ends
  BY <1>1, <1>2, ProcFacts DEF ProcSound, After
<1>4. PICK s : s = [r EXCEPT !.status = status]
  OBVIOUS
<1>5. IsRec(s) /\ s.id = r.id /\ s.op = r.op /\ s.answer = r.answer /\ s.status = status
  BY <1>3, <1>4 DEF RecSound, IsRec
<1>6. RecSound(s, f)
  BY <1>3, <1>5 DEF RecSound, Ends
<1>7. (RecSound(record, f))'
  <2>1. (RecSound(s, f))'
    BY <1>2, <1>6, SameRec
  <2> QED BY <1>2, <1>4, <2>1
<1> QED BY <1>2, <1>7, Leave_step

\* A step that fails, a process that dies, and what happens elsewhere.
LEMMA Stop_step ==
  ASSUME NEW f, Sound(f), NEW p \in Procs, Fail(p) \/ Die(p)
  PROVE  Sound(f)' /\ CandidateMoves
<1>1. proc' = [proc EXCEPT ![p] = Idle] /\ item' = item /\ record' = record /\ SameWork
  BY DEF Fail, Die, Leave, To, SameWork
<1> QED BY <1>1, Leave_step

LEMMA Still_step ==
  ASSUME NEW f, Sound(f), RemoveLock \/ UNCHANGED vars
  PROVE  Sound(f)' /\ CandidateMoves
<1>1. proc' = proc /\ item' = item /\ record' = record /\ SameWork
  BY DEF RemoveLock, vars, SameWork
<1>2. ItemSound(item') /\ CandidateMoves
  BY <1>1 DEF Sound, CandidateMoves
<1> QED BY <1>1, <1>2, ProcMoved
-----------------------------------------------------------------------------
(* Requests made and sent, and what Weles does of them.                    *)

LEMMA WorkStep ==
  ASSUME NEW f, Sound(f), NEW n \in Requests, NEW v, weles' = [weles EXCEPT ![n] = v], next' = next,
         IsWork(v), v.at \in {"idle"} \cup DOMAIN StatusOf, v.op \in {"none", f[n]},
         v.effect # "none" => v.op = "rotate", n >= next => v.op = "none",
         weles[n].at # "idle" => v.at # "idle", weles[n].at = "completed" => v.at = "completed",
         FailedClean(n) => v.at = "failed" /\ v.effect # "changed"
  PROVE  /\ LaterWork /\ weles' = [m \in Requests |-> weles'[m]]
         /\ \A m \in Requests : (WorkSound(m, f))'
<1>1. weles = [m \in Requests |-> weles[m]] /\ \A m \in Requests : WorkSound(m, f)
  BY DEF Sound
<1>2. /\ weles' = [m \in Requests |-> weles'[m]] /\ weles'[n] = v
      /\ \A m \in Requests : m # n => weles'[m] = weles[m]
  BY <1>1
<1>3. LaterWork
  BY <1>2 DEF LaterWork, FailedClean
<1>4. ASSUME NEW m \in Requests
      PROVE  (WorkSound(m, f))'
  <2>1. CASE m = n
    BY <1>2, <2>1 DEF WorkSound
  <2>2. CASE m # n
    BY <1>1, <1>2, <2>2 DEF WorkSound
  <2> QED BY <2>1, <2>2
<1> QED BY <1>2, <1>3, <1>4

LEMMA Send_step ==
  ASSUME NEW f, Sound(f), NEW p \in Procs, NEW at \in {"idle"} \cup DOMAIN StatusOf, Send(p, at)
  PROVE  Sound(f)' /\ CandidateMoves
<1>1. PICK c, r, q : c = proc[p] /\ r = c.rec /\ q = [c EXCEPT !.pc = "sent"]
  OBVIOUS
<1>2. ProcSound(c, f) /\ IsProc(c) /\ c.pc = "ask"
  BY <1>1, ProcFacts DEF Send
<1>3. /\ RecSound(r, f) /\ RecSound(record, f) /\ c.mode \in {"submit", "resume", "status"}
      /\ c.mode # "submit" => weles[r.id].at # "idle"
      /\ c.mode = "submit" => r.status = "submitting"
      /\ c.mode = "resume" => r.status = "needs_human_approval"
  BY <1>1, <1>2 DEF ProcSound, After
<1>4. PICK n, w, v : n = r.id /\ w = weles[n] /\ v = [w EXCEPT !.at = at, !.op = r.op]
  OBVIOUS
<1>5. n \in Requests /\ n < next /\ r.op = f[n] /\ next \in Nat /\ WorkSound(n, f)
  BY <1>3, <1>4 DEF RecSound, Sound
<1>6. weles' = [weles EXCEPT ![n] = v]
  BY <1>1, <1>4 DEF Send
<1>7. at \in CASE c.mode = "submit" /\ w.at = "idle" -> {"running", "refused"}
               [] c.mode = "resume" /\ w.at = "waiting" -> {"running"}
               [] OTHER -> {w.at}
  BY <1>1, <1>4 DEF Send
<1>8. at # "idle" /\ (at = w.at \/ w.at \in {"idle", "waiting"})
  BY <1>3, <1>4, <1>7
<1>9. IsWork(w) /\ w.op \in {"none", f[n]} /\ (w.effect # "none" => w.op = "rotate")
  BY <1>4, <1>5 DEF WorkSound
<1>10. IsWork(v) /\ v.at = at /\ v.op = f[n] /\ v.effect = w.effect
  BY <1>4, <1>5, <1>9 DEF IsWork
<1>11. ~(n >= next)
  BY <1>5 DEF Requests
<1>12. proc' = [proc EXCEPT ![p] = q] /\ item' = item /\ record' = record /\ next' = next
  BY <1>1 DEF Send, To
<1>13. /\ LaterWork /\ weles' = [m \in Requests |-> weles'[m]]
       /\ \A m \in Requests : (WorkSound(m, f))'
  <2>1. FailedClean(n) => v.at = "failed" /\ v.effect # "changed"
    BY <1>4, <1>8, <1>10 DEF FailedClean
  <2>2. v.at \in {"idle"} \cup DOMAIN StatusOf
    BY <1>10
  <2>3. v.op \in {"none", f[n]}
    BY <1>10
  <2>4. v.effect # "none" => v.op = "rotate"
    BY <1>9, <1>10, <1>5
  <2>5. weles[n].at # "idle" => v.at # "idle"
    BY <1>8, <1>10
  <2>6. weles[n].at = "completed" => v.at = "completed"
    BY <1>4, <1>8, <1>10
  <2>7. n \in Requests /\ (n >= next => v.op = "none")
    BY <1>5, <1>11
  <2> QED BY <1>6, <1>10, <1>12, <2>1, <2>2, <2>3, <2>4, <2>5, <2>6, <2>7, WorkStep
<1>14. weles'[n].at # "idle"
  BY <1>5, <1>6, <1>8, <1>10 DEF Sound
<1>15. IsProc(q) /\ q.pc = "sent" /\ q.mode = c.mode /\ q.rec = r
  BY <1>1, <1>2 DEF IsProc
<1>16. next' \in {next, next + 1} /\ (RecSound(r, f))'
  BY <1>3, <1>5, <1>12, <1>13, RecLater
<1>17. (RecSound(record, f))'
  <2>1. PICK s : s = record
    OBVIOUS
  <2>2. (RecSound(s, f))'
    BY <1>3, <1>5, <1>13, <1>16, <2>1, RecLater
  <2> QED BY <1>12, <2>1, <2>2
<1>18. (ProcSound(q, f))'
  BY <1>3, <1>4, <1>14, <1>15, <1>16, <1>17 DEF ProcSound, Before, After
<1>19. ItemSound(item') /\ CandidateMoves
  BY <1>12 DEF Sound, CandidateMoves
<1> QED BY <1>12, <1>13, <1>16, <1>18, <1>19, Moved

\* What Weles does of a request that runs, and the item aside.
LEMMA WelesMoves_step ==
  ASSUME NEW f, Sound(f), NEW n \in Requests, Running(n), NEW at \in DOMAIN StatusOf, NEW effect,
         WelesMoves(n, at, effect), effect # "none" => weles[n].op = "rotate"
  PROVE  Sound(f)' /\ CandidateMoves
<1>1. PICK w, v : w = weles[n] /\ v = [w EXCEPT !.at = at, !.effect = effect]
  OBVIOUS
<1>2. WorkSound(n, f) /\ next \in Nat
  BY DEF Sound
<1>3. weles' = [weles EXCEPT ![n] = v] /\ next' = next
      /\ item' = item /\ record' = record /\ proc' = proc
  BY <1>1 DEF WelesMoves
<1>4. IsWork(w) /\ w.at = "running" /\ w.op \in {"none", f[n]} /\ (n >= next => w.op = "none")
  BY <1>1, <1>2 DEF WorkSound, Running
<1>5. IsWork(v) /\ v.at = at /\ v.op = w.op /\ v.effect = effect
  BY <1>1, <1>4 DEF IsWork
<1>6. at # "idle" /\ ~FailedClean(n)
  BY <1>1, <1>4 DEF StatusOf, FailedClean
<1>7. /\ LaterWork /\ weles' = [m \in Requests |-> weles'[m]]
      /\ \A m \in Requests : (WorkSound(m, f))'
  BY <1>1, <1>3, <1>4, <1>5, <1>6, WorkStep
<1>8. ItemSound(item') /\ CandidateMoves
  BY <1>3 DEF Sound, CandidateMoves
<1>9. next' \in {next, next + 1}
  BY <1>3
<1> QED BY <1>3, <1>7, <1>8, <1>9, Moved

LEMMA Weles_step ==
  ASSUME NEW f, Sound(f), NEW n \in Requests, Weles(n)
  PROVE  Sound(f)' /\ CandidateMoves
<1>1. IsItem(item) /\ ItemSound(item)
  BY DEF Sound, ItemSound
<1>2. ASSUME NEW same \in BOOLEAN, WelesStages(n, same)
      PROVE  Sound(f)' /\ CandidateMoves
  <2>1. /\ item' = [item EXCEPT !.pending = n, !.same = same] /\ item.live /\ item.pending = 0
        /\ proc' = proc /\ record' = record /\ SameWork
    BY <1>2 DEF WelesStages, SameWork
  <2>2. PICK i, j : i = item /\ j = item'
    OBVIOUS
  <2>3. IsItem(j) /\ j.live = i.live
    <3>0. PICK b : b = same
      OBVIOUS
    <3>1. IsItem(i) /\ j = [i EXCEPT !.pending = n, !.same = b]
      BY <1>1, <2>1, <2>2, <3>0
    <3> QED BY <3>1 DEF IsItem
  <2>4. ItemSound(item')
    BY <2>1, <2>2, <2>3 DEF ItemSound
  <2> QED BY <2>1, <2>4, ProcMoved DEF CandidateMoves
<1>3. CASE WelesAcquires(n)
  <2>1. /\ item' = Created(item, n, "none") /\ ~item.live
        /\ proc' = proc /\ record' = record /\ SameWork
    BY <1>3 DEF WelesAcquires, SameWork
  <2>2. PICK i, j : i = item /\ j = item'
    OBVIOUS
  <2>3. IsItem(j) /\ j.live
    BY <1>1, <2>1, <2>2, CreatedFacts
  <2>4. ItemSound(item') /\ item.pending = 0
    BY <1>1, <2>1, <2>2, <2>3 DEF ItemSound
  <2> QED BY <2>1, <2>4, ProcMoved DEF CandidateMoves
<1>4. ASSUME Running(n), NEW at \in {"running", "waiting", "completed", "failed"}, WelesMoves(n, at, weles[n].effect)
      PROVE  Sound(f)' /\ CandidateMoves
  <2>1. PICK effect : effect = weles[n].effect
    OBVIOUS
  <2>2. WelesMoves(n, at, effect) /\ (effect # "none" => weles[n].op = "rotate")
    BY <1>4, <2>1 DEF WelesMoves, Sound, WorkSound
  <2>3. at \in DOMAIN StatusOf
    BY DEF StatusOf
  <2> QED BY <1>4, <2>2, <2>3, WelesMoves_step
<1>5. CASE WelesChanges(n)
  <2>1. Running(n) /\ weles[n].op = "rotate" /\ WelesMoves(n, "running", "changed")
    BY <1>5 DEF WelesChanges
  <2>2. "running" \in DOMAIN StatusOf
    BY DEF StatusOf
  <2> QED BY <2>1, <2>2, WelesMoves_step
<1>6. CASE WelesUndoes(n)
  <2>1. Running(n) /\ weles[n].effect = "changed" /\ WelesMoves(n, "running", "undone")
    BY <1>6 DEF WelesUndoes
  <2>2. weles[n].op = "rotate"
    BY <2>1 DEF Sound, WorkSound
  <2>3. "running" \in DOMAIN StatusOf
    BY DEF StatusOf
  <2> QED BY <2>1, <2>2, <2>3, WelesMoves_step
<1>7. CASE WelesWaits(n) \/ WelesEnds(n, "completed") \/ WelesEnds(n, "failed")
  BY <1>4, <1>7 DEF WelesWaits, WelesEnds
<1> QED BY <1>2, <1>3, <1>5, <1>6, <1>7 DEF Weles-----------------------------------------------------------------------------
(* The steps that save the item.                                           *)

\* What the candidate would become were the item saved as j.
MovesTo(j) ==
  \/ j.pending = item.pending /\ j.by = item.by
  \/ item.pending = 0
  \/ j.by = item.pending /\ (Quarantined \/ weles[item.pending].at = "completed")
  \/ j.by = item.by /\ (AnsweredFailure => weles[item.pending].effect # "changed")

LEMMA MovesBeside ==
  ASSUME NEW i, NEW j, MovesTo(i), j.pending = i.pending, j.by = i.by
  PROVE  MovesTo(j)
BY DEF MovesTo

\* A handle that stopped after one of its saves, or went on as then.
Went(p, then) == \E q \in {then, [then EXCEPT !.pc = "cut"]} : proc' = [proc EXCEPT ![p] = q]

LEMMA Saved ==
  ASSUME NEW f, Sound(f), SameWork, record' = record, ItemSound(item'), MovesTo(item'),
         NEW p \in Procs, NEW then, ProcSound(then, f), IsProc(then), Went(p, then)
  PROVE  Sound(f)' /\ CandidateMoves
<1>1. CandidateMoves
  BY DEF CandidateMoves, MovesTo
<1>2. CASE proc' = [proc EXCEPT ![p] = then]
  BY <1>1, <1>2, ProcStep
<1>3. CASE proc' = [proc EXCEPT ![p] = [then EXCEPT !.pc = "cut"]]
  <2>1. PICK q : q = [then EXCEPT !.pc = "cut"]
    OBVIOUS
  <2>2. IsProc(q) /\ q.pc = "cut"
    BY <2>1 DEF IsProc
  <2>3. ProcSound(q, f)
    BY <2>2, Held0
  <2> QED BY <1>1, <1>3, <2>1, <2>3, ProcStep
<1> QED BY <1>2, <1>3 DEF Went

\* The saves of one handle, all of them allowed.
LEMMA OneSave ==
  ASSUME NEW p, NEW then, NEW a, Saves(p, <<a>>, then)
  PROVE  item' = a /\ Went(p, then)
BY SavesFacts DEF Went

LEMMA TwoSaves ==
  ASSUME NEW p, NEW then, NEW a, NEW b, Saves(p, <<a, b>>, then)
  PROVE  item' \in {a, b} /\ Went(p, then)
BY SavesFacts DEF Went

LEMMA ThreeSaves ==
  ASSUME NEW p, NEW then, NEW a, NEW b, NEW c, Saves(p, <<a, b, c>>, then)
  PROVE  item' \in {a, b, c} /\ Went(p, then)
BY SavesFacts DEF Went

LEMMA FreezesFacts ==
  ASSUME IsItem(item), NEW p, NEW n, NEW then, Saves(p, Freezes(item, n), then)
  PROVE  (item' = item \/ Beside(item, item')) /\ Went(p, then)
<1>1. PICK i, yes : i = item /\ yes = TRUE
  OBVIOUS
<1>2. PICK t : t = [i EXCEPT !.tagged = yes]
  OBVIOUS
<1>3. PICK s : s = Stored(t, "quarantined", n)
  OBVIOUS
<1>4. PICK z : z = [s EXCEPT !.block = yes]
  OBVIOUS
<1>5. Beside(i, t)
  BY <1>1, <1>2, TaggedFacts
<1>6. Beside(t, s)
  BY <1>3, <1>5, StoredFacts DEF Beside
<1>7. Beside(s, z)
  BY <1>4, <1>6, TaggedFacts DEF Beside
<1>8. Beside(i, z)
  BY <1>5, <1>6, <1>7 DEF Beside
<1>9. Saves(p, <<i>>, then) \/ Saves(p, <<t>>, then) \/ Saves(p, <<t, z>>, then)
  BY <1>1, <1>2, <1>3, <1>4 DEF Freezes
<1>10. CASE Saves(p, <<i>>, then)
  BY <1>1, <1>10, OneSave
<1>11. CASE Saves(p, <<t>>, then)
  BY <1>1, <1>5, <1>11, OneSave
<1>12. CASE Saves(p, <<t, z>>, then)
  BY <1>1, <1>5, <1>8, <1>12, TwoSaves
<1> QED BY <1>9, <1>10, <1>11, <1>12

LEMMA Freeze_step ==
  ASSUME NEW f, Sound(f), NEW p \in Procs, Freeze(p)
  PROVE  Sound(f)' /\ CandidateMoves
<1>1. PICK c, n, q : c = proc[p] /\ n = c.rec.id /\ q = [c EXCEPT !.pc = "frozen"]
  OBVIOUS
<1>2. c.pc = "answered" /\ Saves(p, Freezes(item, n), q) /\ record' = record /\ SameWork
  BY <1>1 DEF Freeze, SameWork
<1>3. ProcSound(c, f) /\ IsProc(c)
  BY <1>1, ProcFacts
<1>4. IsProc(q) /\ q.pc = "frozen" /\ q.mode = c.mode /\ q.rec = c.rec
  BY <1>1, <1>3 DEF IsProc
<1>5. ProcSound(q, f)
  BY <1>2, <1>3, <1>4 DEF ProcSound, Before, After
<1>6. (item' = item \/ Beside(item, item')) /\ Went(p, q)
  BY <1>2, FreezesFacts DEF Sound, ItemSound
<1>7. ItemSound(item') /\ MovesTo(item')
  BY <1>6, StaysBeside DEF Sound, MovesTo, Beside
<1> QED BY <1>2, <1>4, <1>5, <1>6, <1>7, Saved

LEMMA Distrust_step ==
  ASSUME NEW f, Sound(f), NEW p \in Procs, Distrust(p)
  PROVE  Sound(f)' /\ CandidateMoves
<1>1. PICK n, q : n = Settling(p).id /\ q = Closing("quarantined")
  OBVIOUS
<1>2. Saves(p, Freezes(item, n), q) /\ record' = record /\ SameWork
  BY <1>1 DEF Distrust, SameWork
<1>3. RecSound(record, f)
  BY SettledFacts DEF Distrust
<1>4. ProcSound(q, f) /\ IsProc(q)
  BY <1>1, <1>3, ClosingFacts DEF Ends
<1>5. (item' = item \/ Beside(item, item')) /\ Went(p, q)
  BY <1>2, FreezesFacts DEF Sound, ItemSound
<1>6. ItemSound(item') /\ MovesTo(item')
  BY <1>5, StaysBeside DEF Sound, MovesTo, Beside
<1> QED BY <1>2, <1>4, <1>5, <1>6, Saved
\* stage_adopted_candidate stages where nothing is, or what it staged itself.
LEMMA StageCandidate_step ==
  ASSUME NEW f, Sound(f), NEW p \in Procs, StageCandidate(p)
  PROVE  Sound(f)' /\ CandidateMoves
<1>1. PICK c, n, i, q : c = proc[p] /\ n = c.rec.id /\ i = item /\ q = [c EXCEPT !.pc = "save"]
  OBVIOUS
<1>2. PICK m : m = IF i.of = n THEN i ELSE Stored(i, "adopting", n)
  OBVIOUS
<1>3. c.pc = "stage" /\ record' = record /\ SameWork
  BY <1>1 DEF StageCandidate, SameWork
<1>4. ProcSound(c, f) /\ IsProc(c) /\ IsItem(i) /\ ItemSound(i)
  BY <1>1, ProcFacts DEF Sound, ItemSound
<1>5. IsProc(q) /\ q.pc = "save" /\ q.mode = c.mode /\ q.rec = c.rec
  BY <1>1, <1>4 DEF IsProc
<1>6. ProcSound(q, f)
  BY <1>3, <1>4, <1>5 DEF ProcSound, Before, After
<1>7. IsItem(m) /\ m.pending = i.pending /\ m.by = i.by /\ m.live = i.live
  BY <1>2, <1>4, StoredFacts DEF Beside
<1>8. PICK s : s = [m EXCEPT !.pending = n]
  OBVIOUS
<1>9. IsItem(s) /\ s.by = i.by /\ s.live = i.live /\ s.pending = n
  BY <1>7, <1>8 DEF IsItem
<1>10. CASE i.live /\ i.pending \in {0, n} /\ Saves(p, <<m, s>>, q)
  <2>1. item' \in {m, s} /\ Went(p, q)
    BY <1>10, TwoSaves
  <2>2. ItemSound(m) /\ ItemSound(s)
    BY <1>7, <1>9, <1>10 DEF ItemSound
  <2>3. MovesTo(m) /\ MovesTo(s)
    BY <1>1, <1>7, <1>9, <1>10 DEF MovesTo
  <2> QED BY <1>3, <1>5, <1>6, <2>1, <2>2, <2>3, Saved
<1>11. CASE Saves(p, <<IF i.live THEN i ELSE Created(i, n, "adopting")>>, q)
  <2>1. PICK j : j = IF i.live THEN i ELSE Created(i, n, "adopting")
    OBVIOUS
  <2>2. item' = j /\ Went(p, q)
    BY <1>11, <2>1, OneSave
  <2>3. ItemSound(j)
    BY <1>4, <2>1, CreatedFacts DEF ItemSound
  <2>4. MovesTo(j)
    BY <1>1, <1>4, <2>1 DEF MovesTo, ItemSound
  <2> QED BY <1>3, <1>5, <1>6, <2>2, <2>3, <2>4, Saved
<1> QED BY <1>1, <1>2, <1>8, <1>10, <1>11 DEF StageCandidate

\* What settles a completed operation: the candidate of this request becomes
\* current, a value verified or an item without a candidate goes.
LEMMA DoneFacts ==
  ASSUME NEW f, Sound(f), NEW s, RecSound(s, f), weles[s.id].at = "completed", Confirms(s.id, s.op),
         NEW d, d = Done(s.op)
  PROVE  ItemSound(d) /\ MovesTo(d)
<1>1. PICK i, n, op : i = item /\ n = s.id /\ op = s.op
  OBVIOUS
<1>2. IsItem(i) /\ ItemSound(i)
  BY <1>1 DEF Sound, ItemSound
<1>3. n \in Requests /\ op = f[n] /\ op \in AllOps /\ WorkSound(n, f) /\ weles[n].at = "completed"
  BY <1>1 DEF RecSound, Sound
<1>4. CASE op = "rotate" \/ (op = "adopt" /\ record.shape # "created")
  <2>1. i.pending = n /\ d = Activated(i)
    BY <1>1, <1>4 DEF Confirms, Done
  <2>2. IsItem(d) /\ d.pending = 0 /\ d.by = i.pending
    BY <1>2, <2>1, ActivatedFacts
  <2> QED BY <1>1, <1>3, <2>1, <2>2 DEF ItemSound, MovesTo
<1>5. CASE op = "verify"
  <2>1. i.pending = n /\ d = Discarded(i)
    BY <1>1, <1>5 DEF Confirms, Done
  <2>2. IsItem(d) /\ d.pending = 0 /\ d.by = i.by
    BY <1>2, <2>1, DiscardedFacts
  <2>3. weles[n].effect # "changed"
    BY <1>3, <1>5 DEF WorkSound
  <2> QED BY <1>1, <2>1, <2>2, <2>3 DEF ItemSound, MovesTo
<1>6. CASE op = "remove"
  <2>1. i.pending = 0 /\ d = Trashed(i)
    BY <1>1, <1>6 DEF Confirms, Done
  <2>2. IsItem(d) /\ d.pending = i.pending
    BY <1>2, <2>1, TrashedFacts
  <2> QED BY <1>1, <2>1, <2>2 DEF ItemSound, MovesTo
<1>7. CASE op = "acquire" \/ (op = "adopt" /\ record.shape = "created")
  <2>1. d = i
    BY <1>1, <1>7 DEF Done
  <2> QED BY <1>1, <1>2, <2>1 DEF MovesTo
<1> QED BY <1>3, <1>4, <1>5, <1>6, <1>7 DEF AllOps

LEMMA Commit_step ==
  ASSUME NEW f, Sound(f), NEW p \in Procs, Commit(p)
  PROVE  Sound(f)' /\ CandidateMoves
<1>1. PICK s, d, q : s = Settling(p) /\ d = Done(s.op) /\ q = Closing("completed")
  OBVIOUS
<1>2. PICK e : e = Stored(d, "managed", s.id)
  OBVIOUS
<1>3. /\ Settles(p, "operation_completed") /\ Confirms(s.id, s.op)
      /\ Saves(p, <<d, e>>, q) \/ Saves(p, <<d>>, q)
      /\ record' = record /\ SameWork
  BY <1>1, <1>2 DEF Commit, SameWork
<1>4. RecSound(record, f) /\ RecSound(s, f) /\ weles[s.id].at = "completed"
  BY <1>1, <1>3, SettledFacts
<1>5. ItemSound(d) /\ MovesTo(d)
  BY <1>1, <1>3, <1>4, DoneFacts
<1>6. Beside(d, e)
  BY <1>2, <1>5, StoredFacts DEF ItemSound
<1>7. ItemSound(e) /\ MovesTo(e)
  BY <1>5, <1>6, MovesBeside DEF Beside, ItemSound
<1>8. ProcSound(q, f) /\ IsProc(q)
  BY <1>1, <1>4, ClosingFacts DEF Ends
<1>9. item' \in {d, e} /\ Went(p, q)
  BY <1>3, OneSave, TwoSaves
<1> QED BY <1>3, <1>5, <1>7, <1>8, <1>9, Saved
\* A candidate goes that the provider is not known to accept.
LEMMA DroppedFacts ==
  ASSUME NEW f, Sound(f), NEW n, NEW d, d = Dropped(n),
         AnsweredFailure => weles[n].effect # "changed"
  PROVE  ItemSound(d) /\ MovesTo(d)
<1>1. PICK i : i = item
  OBVIOUS
<1>2. IsItem(i) /\ ItemSound(i)
  BY <1>1 DEF Sound, ItemSound
<1>3. CASE i.pending = n
  <2>1. d = Discarded(i)
    BY <1>1, <1>3 DEF Dropped
  <2>2. IsItem(d) /\ d.pending = 0 /\ d.by = i.by
    BY <1>2, <2>1, DiscardedFacts
  <2> QED BY <1>1, <1>3, <2>2 DEF ItemSound, MovesTo
<1>4. CASE i.pending # n
  <2>1. d = i
    BY <1>1, <1>4 DEF Dropped
  <2> QED BY <1>1, <1>2, <2>1 DEF MovesTo
<1> QED BY <1>3, <1>4

\* An item without a candidate may be trashed.
LEMMA TrashedSound ==
  ASSUME NEW i, ItemSound(i), MovesTo(i), i.pending = 0, NEW j, j = Trashed(i)
  PROVE  ItemSound(j) /\ MovesTo(j)
<1>1. IsItem(j) /\ j.pending = i.pending /\ j.by = i.by
  BY TrashedFacts DEF ItemSound
<1> QED BY <1>1, MovesBeside DEF ItemSound

LEMMA StoredSound ==
  ASSUME NEW i, ItemSound(i), MovesTo(i), NEW life, NEW n, NEW j, j = Stored(i, life, n)
  PROVE  ItemSound(j) /\ MovesTo(j)
<1>1. Beside(i, j)
  BY StoredFacts DEF ItemSound
<1> QED BY <1>1, MovesBeside DEF Beside, ItemSound

LEMMA FailureFacts ==
  ASSUME NEW f, RecSound(record, f), AnsweredFailure
  PROVE  weles[record.id].effect # "changed"
BY DEF RecSound, AnsweredFailure, FailedClean

LEMMA RollBack_step ==
  ASSUME NEW f, Sound(f), NEW p \in Procs, RollBack(p)
  PROVE  Sound(f)' /\ CandidateMoves
<1>1. PICK s, d, q : s = Settling(p) /\ d = Dropped(s.id) /\ q = Idle
  OBVIOUS
<1>2. PICK t, e : t = Trashed(d) /\ e = Stored(d, "unmanaged", s.id)
  OBVIOUS
<1>3. /\ Settles(p, "operation_failed")
      /\ \/ Untouched(d, s.id) /\ Saves(p, <<d, t>>, q)
         \/ Saves(p, <<d, e>>, q)
         \/ Saves(p, <<d>>, q)
      /\ record' = record /\ SameWork
  BY <1>1, <1>2 DEF RollBack, SameWork
<1>4. AnsweredFailure => weles[s.id].effect # "changed"
  BY <1>1, <1>3, SettledFacts, FailureFacts DEF FailedClean
<1>5. ItemSound(d) /\ MovesTo(d)
  BY <1>1, <1>4, DroppedFacts
<1>6. Untouched(d, s.id) => ItemSound(t) /\ MovesTo(t)
  BY <1>2, <1>5, TrashedSound DEF Untouched, MayStore
<1>7. ItemSound(e) /\ MovesTo(e)
  BY <1>2, <1>5, StoredSound
<1>8. ProcSound(q, f) /\ IsProc(q)
  BY <1>1, IdleFacts, Held0
<1>9. ItemSound(item') /\ MovesTo(item') /\ Went(p, q)
  BY <1>3, <1>5, <1>6, <1>7, OneSave, TwoSaves
<1> QED BY <1>3, <1>8, <1>9, Saved

LEMMA Expire_step ==
  ASSUME NEW f, Sound(f), NEW p \in Procs, Expire(p)
  PROVE  Sound(f)' /\ CandidateMoves
<1>1. PICK n, d, q : n = record.id /\ d = Dropped(n) /\ q = Closing("approval_expired")
  OBVIOUS
<1>2. PICK t : t = Trashed(d)
  OBVIOUS
<1>3. /\ record # None /\ record.status = "needs_human_approval"
      /\ \/ Untouched(d, n) /\ Saves(p, <<d, t>>, q)
         \/ Saves(p, <<d>>, q)
      /\ record' = record /\ SameWork
  BY <1>1, <1>2 DEF Expire, Waiting, SameWork
<1>4. ~AnsweredFailure /\ RecSound(record, f)
  BY <1>3 DEF AnsweredFailure, Sound
<1>5. ItemSound(d) /\ MovesTo(d)
  BY <1>1, <1>4, DroppedFacts
<1>6. Untouched(d, n) => ItemSound(t) /\ MovesTo(t)
  BY <1>2, <1>5, TrashedSound DEF Untouched, MayStore
<1>7. ProcSound(q, f) /\ IsProc(q)
  BY <1>1, <1>4, ClosingFacts DEF Ends
<1>8. ItemSound(item') /\ MovesTo(item') /\ Went(p, q)
  BY <1>3, <1>5, <1>6, OneSave, TwoSaves
<1> QED BY <1>3, <1>7, <1>8, Saved

\* An operator decides about the candidate of this request, in quarantine.
LEMMA Resolve_step ==
  ASSUME NEW f, Sound(f), NEW p \in Procs, NEW decision \in Decisions, Resolve(p, decision)
  PROVE  Sound(f)' /\ CandidateMoves
<1>1. PICK i, d, q, no : /\ i = item /\ q = Closing("quarantine_resolved") /\ no = FALSE
                         /\ d = CASE decision = "activate" -> Activated(item)
                                  [] decision = "discard" -> Discarded(item)
                                  [] decision = "keep" -> item
  OBVIOUS
<1>2. PICK c : c = [d EXCEPT !.tagged = no]
  OBVIOUS
<1>3. PICK e : e = Stored(c, "unmanaged", record.id)
  OBVIOUS
<1>4. PICK g : g = [e EXCEPT !.block = no]
  OBVIOUS
<1>5. /\ Quarantined /\ record # None /\ (decision # "keep" => i.pending = record.id)
      /\ record' = record /\ SameWork
  BY <1>1 DEF Resolve, SameWork
<1>6. Saves(p, <<d>>, q) \/ Saves(p, <<d, c>>, q) \/ Saves(p, <<d, c, g>>, q)
  BY <1>1, <1>2, <1>3, <1>4 DEF Resolve
<1>7. RecSound(record, f) /\ IsItem(i) /\ ItemSound(i)
  BY <1>1, <1>5 DEF Sound, ItemSound
<1>8. ItemSound(d) /\ MovesTo(d)
  <2>1. CASE decision = "activate"
    <3>1. IsItem(d) /\ d.pending = 0 /\ d.by = i.pending
      BY <1>1, <1>7, <2>1, ActivatedFacts
    <3> QED BY <1>1, <1>5, <3>1 DEF ItemSound, MovesTo
  <2>2. CASE decision = "discard"
    <3>1. IsItem(d) /\ d.pending = 0 /\ d.by = i.by
      BY <1>1, <1>7, <2>2, DiscardedFacts
    <3>2. AnsweredFailure => weles[i.pending].effect # "changed"
      BY <1>5, <1>7, <2>2, FailureFacts
    <3> QED BY <1>1, <3>1, <3>2 DEF ItemSound, MovesTo
  <2>3. CASE decision = "keep"
    BY <1>1, <1>7, <2>3 DEF MovesTo
  <2> QED BY <2>1, <2>2, <2>3 DEF Decisions
<1>9. Beside(d, c)
  BY <1>2, <1>8, TaggedFacts DEF ItemSound
<1>10. Beside(c, e)
  BY <1>3, <1>9, StoredFacts DEF Beside
<1>11. Beside(e, g)
  BY <1>4, <1>10, TaggedFacts DEF Beside
<1>12. ItemSound(c) /\ MovesTo(c) /\ ItemSound(g) /\ MovesTo(g)
  BY <1>8, <1>9, <1>10, <1>11, MovesBeside DEF Beside, ItemSound
<1>13. ProcSound(q, f) /\ IsProc(q)
  BY <1>1, <1>7, ClosingFacts DEF Ends
<1>14. item' \in {d, c, g} /\ Went(p, q)
  BY <1>6, OneSave, TwoSaves, ThreeSaves
<1> QED BY <1>5, <1>8, <1>12, <1>13, <1>14, Saved-----------------------------------------------------------------------------
(* A new request.                                                          *)

\* The request made gets its operation; of those made before nothing changes.
Fresh(f, g, op) == g = [f EXCEPT ![next] = op] /\ next' = next + 1 /\ weles' = weles

LEMMA RecFresh ==
  ASSUME NEW f, NEW g, NEW op, NEW r, Sound(f), Fresh(f, g, op), RecSound(r, f)
  PROVE  (RecSound(r, g))'
<1>1. r.id \in Requests /\ r.id < next /\ next \in Nat /\ f = [n \in Requests |-> f[n]]
  BY DEF RecSound, Sound
<1>2. r.id < next' /\ g[r.id] = f[r.id]
  BY <1>1 DEF Fresh, Requests
<1> QED BY <1>2 DEF RecSound, FailedClean, Fresh

LEMMA ProcFresh ==
  ASSUME NEW f, NEW g, NEW op, NEW q, Sound(f), Fresh(f, g, op), record' = record, ProcSound(q, f)
  PROVE  (ProcSound(q, g))'
<1>1. PICK r, s : r = q.rec /\ s = record
  OBVIOUS
<1>2. RecSound(r, f) => (RecSound(r, g))'
  BY RecFresh
<1>3. RecSound(s, f) => (RecSound(s, g))'
  BY RecFresh
<1>4. PICK a, n : a = q.answer /\ n = q.rec.id
  OBVIOUS
<1>5. AnswerSound(a, n) => (AnswerSound(a, n))'
  BY DEF AnswerSound, FailedClean, Unresolved, Fresh
<1>6. q.pc \in Before \cup After => (RecSound(q.rec, g))'
  BY <1>1, <1>2 DEF ProcSound
<1>7. q.pc \in After => (RecSound(record, g))'
  BY <1>1, <1>3 DEF ProcSound
<1>8. q.pc = "answered" => (AnswerSound(q.answer, q.rec.id))'
  BY <1>4, <1>5 DEF ProcSound
<1>9. weles' = weles /\ \A m : (FailedClean(m))' <=> FailedClean(m)
  BY DEF Fresh, FailedClean
<1> HIDE DEF RecSound, AnswerSound
<1> QED BY <1>6, <1>7, <1>8, <1>9 DEF ProcSound

LEMMA Preflight_step ==
  ASSUME NEW f, Sound(f), NEW p \in Procs, Preflight(p)
  PROVE  \E g : Sound(g)' /\ CandidateMoves
<1>1. PICK c, op, pc : c = proc[p] /\ op = c.op /\ pc = IF op = "adopt" THEN "stage" ELSE "save"
  OBVIOUS
<1>2. c.pc = "asked" /\ item' = item /\ record' = record /\ weles' = weles
  BY <1>1 DEF Preflight
<1>3. PICK rec : /\ proc' = [proc EXCEPT ![p] = [c EXCEPT !.pc = pc, !.rec = rec]]
                 /\ \/ rec = record /\ Resumable(op) /\ next' = next
                    \/ rec = NewRecord(op) /\ next <= MaxRequests /\ next' = next + 1
  BY <1>1 DEF Preflight, To
<1>4. PICK q : q = [c EXCEPT !.pc = pc, !.rec = rec]
  OBVIOUS
<1>5. ProcSound(c, f) /\ IsProc(c) /\ c.mode = "submit" /\ op \in AllOps
  BY <1>1, <1>2, ProcFacts, LifecycleAssumption DEF ProcSound
<1>6. IsProc(q) /\ q.pc \in Before /\ q.mode = "submit" /\ q.rec = rec
  BY <1>1, <1>4, <1>5 DEF IsProc, Before
<1>7. CandidateMoves /\ ItemSound(item')
  BY <1>2 DEF CandidateMoves, Sound
<1>8. CASE rec = record /\ Resumable(op) /\ next' = next
  <2>1. RecSound(rec, f) /\ rec.status = "submitting"
    BY <1>8 DEF Resumable, Sound
  <2>2. ProcSound(q, f)
    BY <1>6, <2>1 DEF ProcSound, Before, After
  <2> QED BY <1>2, <1>3, <1>4, <1>8, <2>2, Quiet DEF SameWork
<1>9. CASE rec = NewRecord(op) /\ next <= MaxRequests /\ next' = next + 1
  <2>1. PICK g : g = [f EXCEPT ![next] = op]
    OBVIOUS
  <2>2. Fresh(f, g, op)
    BY <1>2, <1>9, <2>1 DEF Fresh
  <2>3. /\ f = [n \in Requests |-> f[n]] /\ (\A n \in Requests : f[n] \in AllOps)
        /\ next \in Nat \ {0} /\ next \in Requests
    BY <1>9, LifecycleAssumption DEF Sound, Requests
  <2>4. /\ g = [n \in Requests |-> g[n]] /\ (\A n \in Requests : g[n] \in AllOps) /\ g[next] = op
        /\ \A n \in Requests : n # next => g[n] = f[n]
    BY <1>5, <2>1, <2>3
  <2>5. ASSUME NEW n \in Requests
        PROVE  (WorkSound(n, g))'
    <3>1. WorkSound(n, f)
      BY DEF Sound
    <3>2. n >= next' => n >= next /\ n # next
      BY <1>9, <2>3 DEF Requests
    <3>3. CASE n = next
      <4>1. weles[n].op = "none"
        BY <2>3, <3>1, <3>3 DEF WorkSound
      <4> QED BY <1>2, <3>1, <4>1 DEF WorkSound
    <3>4. CASE n # next
      BY <1>2, <2>4, <3>1, <3>2, <3>4 DEF WorkSound
    <3> QED BY <3>3, <3>4
  <2>6. (record = None \/ RecSound(record, g))'
    <3>1. PICK s : s = record
      OBVIOUS
    <3>2. RecSound(s, f) => (RecSound(s, g))'
      BY <2>2, RecFresh
    <3> QED BY <1>2, <3>1, <3>2 DEF Sound
  <2>7. PICK id : id = next
    OBVIOUS
  <2>8. /\ IsRec(rec) /\ rec.id = id /\ rec.op = op /\ rec.status = "submitting" /\ rec.answer = None
    BY <1>9, <2>7 DEF NewRecord, IsRec
  <2>9. (RecSound(rec, g))'
    BY <1>9, <2>3, <2>4, <2>7, <2>8 DEF RecSound
  <2>10. (ProcSound(q, g))'
    BY <1>6, <2>8, <2>9 DEF ProcSound, Before, After
  <2>11. /\ proc' = [r \in Procs |-> proc'[r]]
         /\ \A r \in Procs : (ProcSound(proc[r], g))'
    <3>1. proc = [r \in Procs |-> proc[r]] /\ proc' = [proc EXCEPT ![p] = q]
      BY <1>3, <1>4 DEF Sound
    <3>2. ASSUME NEW r \in Procs, NEW s, s = proc'[r]
          PROVE  (ProcSound(s, g))'
      <4>1. CASE r = p
        <5>1. s = q
          BY <3>1, <3>2, <4>1
        <5> QED BY <2>10, <5>1
      <4>2. CASE r # p
        <5>1. s = proc[r]
          BY <3>1, <3>2, <4>2
        <5>2. ProcSound(s, f)
          BY <5>1 DEF Sound
        <5> QED BY <1>2, <2>2, <5>2, ProcFresh
      <4> QED BY <4>1, <4>2
    <3> QED BY <3>1, <3>2
  <2>12. weles' = [n \in Requests |-> weles'[n]] /\ next' \in Nat \ {0}
    BY <1>2, <1>9, <2>3 DEF Sound
  <2>13. Sound(g)'
    BY <1>7, <2>4, <2>5, <2>6, <2>11, <2>12 DEF Sound
  <2> QED BY <1>7, <2>13
<1> QED BY <1>3, <1>8, <1>9
-----------------------------------------------------------------------------
(* Every step, and the two promises.                                       *)

LEMMA LifecycleInit ==
  ASSUME Init
  PROVE  LifecycleInv
<1>1. PICK f : f = [n \in Requests |-> "verify"]
  OBVIOUS
<1>2. f \in [Requests -> AllOps] /\ f = [n \in Requests |-> f[n]] /\ \A n \in Requests : f[n] \in AllOps
  BY <1>1 DEF AllOps
<1>3. ItemSound(item)
  BY DEF Init, ItemSound, IsItem
<1>4. weles = [n \in Requests |-> weles[n]] /\ \A n \in Requests : WorkSound(n, f)
  BY DEF Init, WorkSound, IsWork
<1>5. proc = [p \in Procs |-> proc[p]] /\ \A p \in Procs : proc[p] = Idle
  BY DEF Init
<1>6. PICK q : q = Idle
  OBVIOUS
<1>7. ProcSound(q, f)
  BY <1>6, IdleFacts, Held0
<1>8. record = None /\ next \in Nat \ {0}
  BY DEF Init
<1>9. Sound(f)
  BY <1>2, <1>3, <1>4, <1>5, <1>6, <1>7, <1>8 DEF Sound
<1> QED BY <1>2, <1>9 DEF LifecycleInv

LEMMA LifecycleNext ==
  ASSUME LifecycleInv, [Next]_vars
  PROVE  LifecycleInv' /\ CandidateMoves
<1>1. PICK f : Sound(f)
  BY DEF LifecycleInv
<1>2. \E g : Sound(g)' /\ CandidateMoves
  <2>1. ASSUME NEW p \in Procs, NEW op \in Ops, Ask(p, op)
        PROVE  Sound(f)' /\ CandidateMoves
    BY <1>1, <2>1, Ask_step
  <2>2. ASSUME NEW p \in Procs, Preflight(p)
        PROVE  \E g : Sound(g)' /\ CandidateMoves
    BY <1>1, <2>2, Preflight_step
  <2>3. ASSUME NEW p \in Procs, StageCandidate(p) \/ SaveRequest(p) \/ AuditFails(p)
        PROVE  Sound(f)' /\ CandidateMoves
    BY <1>1, <2>3, StageCandidate_step, SaveRequest_step, AuditFails_step
  <2>4. ASSUME NEW p \in Procs, NEW at \in {"idle"} \cup DOMAIN StatusOf, Send(p, at)
        PROVE  Sound(f)' /\ CandidateMoves
    BY <1>1, <2>4, Send_step
  <2>5. ASSUME NEW p \in Procs, SendNothing(p) \/ Receive(p) \/ ReceiveGarbled(p) \/ Freeze(p) \/ RecordAnswer(p)
        PROVE  Sound(f)' /\ CandidateMoves
    BY <1>1, <2>5, SendNothing_step, Receive_step, ReceiveGarbled_step, Freeze_step, RecordAnswer_step
  <2>6. ASSUME NEW p \in Procs, Poll(p) \/ Commit(p) \/ Disagree(p) \/ Distrust(p) \/ Close(p) \/ RollBack(p)
        PROVE  Sound(f)' /\ CandidateMoves
    BY <1>1, <2>6, Poll_step, Commit_step, Disagree_step, Distrust_step, Close_step, RollBack_step
  <2>7. ASSUME NEW p \in Procs, Resume(p) \/ Expire(p) \/ Fail(p) \/ Die(p)
        PROVE  Sound(f)' /\ CandidateMoves
    BY <1>1, <2>7, Resume_step, Expire_step, Stop_step
  <2>8. ASSUME NEW p \in Procs, NEW decision \in Decisions, Resolve(p, decision)
        PROVE  Sound(f)' /\ CandidateMoves
    BY <1>1, <2>8, Resolve_step
  <2>9. ASSUME NEW n \in Requests, Weles(n)
        PROVE  Sound(f)' /\ CandidateMoves
    BY <1>1, <2>9, Weles_step
  <2>10. CASE RemoveLock \/ UNCHANGED vars
    BY <1>1, <2>10, Still_step
  <2> QED BY <2>1, <2>2, <2>3, <2>4, <2>5, <2>6, <2>7, <2>8, <2>9, <2>10 DEF Next
<1>3. PICK g : Sound(g)'
  BY <1>2
<1>4. g \in [Requests -> AllOps]
  BY <1>3 DEF Sound
<1> QED BY <1>2, <1>3, <1>4 DEF LifecycleInv

\* Every copy of a record, in the vault or in a process's hands, says what is so.
THEOREM LifecycleSound == Spec => []LifecycleInv
<1>1. Init => LifecycleInv
  BY LifecycleInit
<1>2. LifecycleInv /\ [Next]_vars => LifecycleInv'
  BY LifecycleNext
<1> QED BY <1>1, <1>2, PTL DEF Spec

\* What happens to a candidate when it stops being one.
LEMMA CandidateFate ==
  ASSUME CandidateMoves, NEW n \in Requests
  PROVE  /\ item.pending = n /\ item.by # n /\ item'.by = n => weles[n].at = "completed" \/ Quarantined
         /\ Loses(n) /\ AnsweredFailure => weles[n].effect # "changed"
BY DEF CandidateMoves, Loses, Requests

\* Whichever of any number of polls settles a request, and wherever it was cut
\* short: outside quarantine its candidate becomes current only once Weles
\* completed it.
THEOREM ActivationsCompleted == Spec => ActivatesCompleted
<1>1. LifecycleInv /\ [Next]_vars
        => [\A n \in Requests : item.pending = n /\ item.by # n /\ item'.by = n
                                  => weles[n].at = "completed" \/ Quarantined]_vars
  BY LifecycleNext, CandidateFate
<1> QED BY <1>1, LifecycleSound, PTL DEF Spec, ActivatesCompleted

\* No status that settles a failure Weles answered drops a candidate the provider
\* accepts: the answer froze the credential before.
THEOREM FailuresKeepCandidates == Spec => AnsweredCandidateSurvives
<1>1. LifecycleInv /\ [Next]_vars
        => [\A n \in Requests : /\ Loses(n)
                                /\ record.answer # None /\ record.answer.status = "operation_failed"
                                /\ record.status = "operation_failed"
                                => weles[n].effect # "changed"]_vars
  BY LifecycleNext, CandidateFate DEF AnsweredFailure
<1> QED BY <1>1, LifecycleSound, PTL DEF Spec, AnsweredCandidateSurvives
=============================================================================
