----------------------------- MODULE PeersProofs -----------------------------
(***************************************************************************)
(* Proofs about what passes between people and between hosts:              *)
(* DonationInbox, for any number of threads, commands, items, donors and   *)
(* donations; SharedAccess, for any number of items, users and dates;      *)
(* TlsExchange, for any number of addresses, records and faults; and       *)
(* CertificateChain, for any chains, trust anchors and years.              *)
(***************************************************************************)
EXTENDS DonationInbox, SharedAccess, TlsExchange, CertificateChain, FiniteSetTheorems, SequenceTheorems, TLAPS

-----------------------------------------------------------------------------
(* Donations: no decision about a vault that went on.                      *)

\* A vault opened before a merge is no newer than the vault, and as new only
\* when the rule it was asked still admits the donation.
RuleStands ==
  \A p \in Procs : /\ base[p] <= gen
                   /\ pc[p] = "merge" /\ base[p] = gen => Admits(job[p])

\* A process that works on a donation has one.
Working == \A p \in Procs : pc[p] # "idle" => job[p] \in Donations

MInv == TypeOK /\ Working /\ RuleStands

\* The end of an operation touches that process only.
LEMMA LeaveFacts ==
  ASSUME TypeOK, NEW p \in Procs, Leave(p)
  PROVE  /\ pc' \in [Procs -> {"idle", "enqueue", "queued", "accept", "merge", "merged", "refuse", "reject"}]
         /\ job' \in [Procs -> Donations \cup {Nothing}] /\ copy' \in [Procs -> SUBSET Donations]
         /\ base' \in [Procs -> 0..MaxGen] /\ lock' \in Threads \cup {Free}
         /\ pc'[p] = "idle" /\ base'[p] = 0 /\ lock' # p
         /\ lock' # lock => lock = p
         /\ \A q \in Procs \ {p} : pc'[q] = pc[q] /\ job'[q] = job[q] /\ base'[q] = base[q] /\ copy'[q] = copy[q]
BY InboxAssumption DEF TypeOK, Leave, Go, Procs

\* The steps that leave the vault alone keep MInv when they keep the types.
LEMMA RuleKept ==
  ASSUME MInv, TypeOK', UNCHANGED vault, Working',
         \A q \in Procs : base'[q] = base[q] \/ base'[q] = 0 \/ base'[q] = gen,
         \A q \in Procs : pc'[q] = "merge" =>
           \/ pc[q] = "merge" /\ job'[q] = job[q] /\ base'[q] = base[q]
           \/ Admits(job'[q])
  PROVE  MInv'
<1>1. gen \in Nat /\ \A q \in Procs : base[q] \in Nat
  BY InboxAssumption DEF MInv, TypeOK
<1>2. gen' = gen /\ writer' = writer
  BY DEF vault
<1> QED BY <1>1, <1>2 DEF MInv, RuleStands, Admits

\* Every step keeps MInv.
LEMMA MergeStep ==
  ASSUME MInv, Next
  PROVE  MInv'
<1> USE DEF MInv
<1>0. gen \in Nat /\ MaxGen \in Nat /\ MaxDonations \in Nat /\ donated \in Nat /\ 0 \in 0..MaxGen
  BY InboxAssumption DEF TypeOK
<1>1. ASSUME NEW p \in Procs, NEW i \in Items, NEW from \in Donors, Donate(p, i, from) PROVE MInv'
  <2> DEFINE d == [id |-> donated + 1, item |-> i, from |-> from]
  <2>1. d \in Donations
    BY <1>0, <1>1 DEF Donate, Donations
  <2>2. /\ job' = [job EXCEPT ![p] = d] /\ pc' = [pc EXCEPT ![p] = "enqueue"] /\ donated' = donated + 1
        /\ lock' \in {lock, p} /\ p \in Threads /\ donated < MaxDonations
        /\ UNCHANGED <<inbox, vault, copy, base, acked, settled>>
    BY <1>1 DEF Donate, Enter, Go
  <2>3. TypeOK'
    BY <1>0, <2>1, <2>2 DEF TypeOK, vault
  <2>4. Working'
    BY <2>1, <2>2 DEF Working, TypeOK
  <2>5. \A q \in Procs : pc'[q] = "merge" => pc[q] = "merge" /\ job'[q] = job[q] /\ base'[q] = base[q]
    BY <2>2 DEF TypeOK
  <2> QED BY <2>2, <2>3, <2>4, <2>5, RuleKept
<1>2. ASSUME NEW p \in Procs, NEW d \in Donations, NEW to \in {"accept", "reject"}, Take(p, d, to) PROVE MInv'
  <2>1. lock' = lock \/ (lock' = p /\ p \in Threads)
    BY <1>2 DEF Take, Enter
  <2>2. /\ job' = [job EXCEPT ![p] = d] /\ pc' = [pc EXCEPT ![p] = to]
        /\ copy' = [copy EXCEPT ![p] = inbox \ {d}]
        /\ UNCHANGED <<inbox, vault, base, history>>
    BY <1>2 DEF Take, Go
  <2>3. TypeOK'
    BY <2>1, <2>2 DEF TypeOK, vault, history
  <2>4. Working'
    BY <2>2 DEF Working, TypeOK
  <2>5. \A q \in Procs : pc'[q] = "merge" => pc[q] = "merge" /\ job'[q] = job[q] /\ base'[q] = base[q]
    BY <2>2 DEF TypeOK
  <2> QED BY <2>2, <2>3, <2>4, <2>5, RuleKept
<1>3. ASSUME NEW p \in Procs, EnqueueLoad(p) PROVE MInv'
  <2>2. /\ pc' = [pc EXCEPT ![p] = "queued"] /\ copy' = [copy EXCEPT ![p] = inbox \cup {job[p]}]
        /\ UNCHANGED <<inbox, vault, lock, job, base, history>> /\ job[p] \in Donations
    BY <1>3 DEF EnqueueLoad, Go, Working
  <2>3. TypeOK'
    BY <2>2 DEF TypeOK, vault, history
  <2>4. Working'
    BY <2>2 DEF Working, TypeOK
  <2>5. \A q \in Procs : pc'[q] = "merge" => pc[q] = "merge" /\ job'[q] = job[q] /\ base'[q] = base[q]
    BY <2>2 DEF TypeOK
  <2> QED BY <2>2, <2>3, <2>4, <2>5, RuleKept
<1>4. ASSUME NEW p \in Procs, EnqueueSave(p) \/ AcceptSave(p) \/ RejectSave(p) \/ Fail(p) PROVE MInv'
  <2>1. /\ Leave(p) /\ UNCHANGED <<vault, donated>> /\ pc[p] # "idle"
        /\ inbox' \in {inbox, copy[p]}
        /\ acked' \in {acked, acked \cup {job[p]}} /\ settled' \in {settled, settled \cup {job[p]}}
    BY <1>4 DEF EnqueueSave, AcceptSave, RejectSave, Fail, history
  <2>2. job[p] \in Donations
    BY <2>1 DEF Working
  <2>3. TypeOK'
    BY <2>1, <2>2, LeaveFacts DEF TypeOK, vault
  <2>4. Working'
    BY <2>1, LeaveFacts DEF Working
  <2>5. \A q \in Procs : pc'[q] = "merge" => pc[q] = "merge" /\ job'[q] = job[q] /\ base'[q] = base[q]
    BY <2>1, LeaveFacts
  <2>6. \A q \in Procs : base'[q] = base[q] \/ base'[q] = 0
    BY <2>1, LeaveFacts
  <2> QED BY <2>1, <2>3, <2>4, <2>5, <2>6, RuleKept
<1>5. ASSUME NEW p \in Procs, AcceptOpen(p) PROVE MInv'
  <2>1. /\ base' = [base EXCEPT ![p] = gen] /\ pc[p] = "accept"
        /\ pc' = [pc EXCEPT ![p] = IF Admits(job[p]) THEN "merge" ELSE "refuse"]
        /\ UNCHANGED <<inbox, vault, lock, job, copy, history>>
    BY <1>5 DEF AcceptOpen, Go
  <2>2. gen \in 0..MaxGen
    BY DEF TypeOK
  <2>3. TypeOK'
    BY <2>1, <2>2 DEF TypeOK, vault, history
  <2>4. Working'
    BY <2>1 DEF Working, TypeOK
  <2>5. \A q \in Procs : pc'[q] = "merge" =>
          (pc[q] = "merge" /\ job'[q] = job[q] /\ base'[q] = base[q]) \/ Admits(job'[q])
    BY <2>1 DEF TypeOK
  <2>6. \A q \in Procs : base'[q] = base[q] \/ base'[q] = gen
    BY <2>1 DEF TypeOK
  <2> QED BY <2>1, <2>3, <2>4, <2>5, <2>6, RuleKept
<1>6. ASSUME gen < MaxGen, gen' = gen + 1, TypeOK', Working', UNCHANGED base PROVE MInv'
  <2>1. \A p \in Procs : base'[p] <= gen /\ base'[p] \in Nat
    BY <1>0, <1>6 DEF RuleStands, TypeOK
  <2> QED BY <1>0, <1>6, <2>1 DEF RuleStands
<1>7. ASSUME NEW p \in Procs, AcceptWrite(p) PROVE MInv'
  <2>1. /\ pc' = [pc EXCEPT ![p] = "merged"] /\ writer' = [writer EXCEPT ![job[p].item] = job[p].from]
        /\ gen' = gen + 1 /\ gen < MaxGen /\ settled' = settled \cup {job[p]} /\ pc[p] = "merge"
        /\ UNCHANGED <<inbox, lock, job, copy, base, donated, acked>>
    BY <1>7 DEF AcceptWrite, Go
  <2>2. job[p] \in Donations /\ job[p].from \in Donors
    BY <2>1 DEF Working, Donations
  <2>a. writer' \in [Items -> Writers]
    BY <2>1, <2>2 DEF TypeOK, Writers
  <2>b. pc' \in [Procs -> {"idle", "enqueue", "queued", "accept", "merge", "merged", "refuse", "reject"}]
    BY <2>1 DEF TypeOK
  <2>c. gen' \in 0..MaxGen /\ settled' \subseteq Donations
    BY <1>0, <2>1, <2>2 DEF TypeOK
  <2>3. TypeOK'
    BY <2>1, <2>a, <2>b, <2>c DEF TypeOK
  <2>4. Working'
    BY <2>1 DEF Working, TypeOK
  <2> QED BY <1>6, <2>1, <2>3, <2>4
<1>8. ASSUME NEW i \in Items, NEW w \in {Owner, Managed, Nobody}, OwnerWrites(i, w) PROVE MInv'
  <2>1. /\ writer' = [writer EXCEPT ![i] = w] /\ gen' = gen + 1 /\ gen < MaxGen
        /\ UNCHANGED <<inbox, lock, pc, job, copy, base, history>>
    BY <1>8 DEF OwnerWrites
  <2>3. TypeOK' /\ Working'
    BY <1>0, <2>1 DEF TypeOK, Working, Writers, history
  <2> QED BY <1>6, <2>1, <2>3
<1> QED BY <1>1, <1>2, <1>3, <1>4, <1>5, <1>7, <1>8 DEF Next, Offer

\* MInv holds at the start.
LEMMA MergeStart == Init => MInv
BY InboxAssumption DEF Init, MInv, TypeOK, Working, RuleStands, Writers

\* MInv is kept by steps and stutters.
LEMMA MergeInductive == MInv /\ [Next]_vars => MInv'
<1>1. ASSUME MInv, UNCHANGED vars PROVE MInv'
  BY <1>1 DEF MInv, vars, TypeOK, Working, RuleStands, Admits
<1> QED BY <1>1, MergeStep

\* Every reachable state of the inbox is well typed.
THEOREM InboxTyped == Spec => []TypeOK
<1>1. MInv => TypeOK
  BY DEF MInv
<1> QED BY <1>1, MergeStart, MergeInductive, PTL DEF Spec

\* However many threads, commands and owners write the vault between the
\* question and the write, a merge replaces only what the admission rule admits.
THEOREM MergesAdmitted == Spec => MergeAdmitted
<1>1. MInv /\ [Next]_vars =>
        [\A p \in Procs : pc[p] = "merge" /\ pc'[p] = "merged" => Admits(job[p])]_vars
  <2> SUFFICES ASSUME MInv, Next, NEW p \in Procs, pc[p] = "merge", pc'[p] = "merged"
               PROVE  Admits(job[p])
    OBVIOUS
  <2>1. AcceptWrite(p)
    BY ZenonT(60) DEF MInv, TypeOK, Next, Offer, Donate, Take, EnqueueLoad, EnqueueSave, AcceptOpen, AcceptWrite,
       AcceptSave, RejectSave, Fail, OwnerWrites, Go, Leave
  <2> QED BY <2>1 DEF AcceptWrite, Current, MInv, RuleStands
<1> QED BY <1>1, MergeStart, MergeInductive, PTL DEF Spec, MergeAdmitted

-----------------------------------------------------------------------------
(* The listener alone: every operation runs under the write lock.          *)

Merging == {"accept", "merge", "merged", "refuse", "reject"}

\* A thread in an operation holds the lock, and the file is still as it loaded it.
Served ==
  \A p \in Threads :
    /\ pc[p] # "idle" => lock = p
    /\ pc[p] = "queued" => copy[p] = inbox \cup {job[p]}
    /\ pc[p] \in Merging => copy[p] = inbox \ {job[p]}

SInv == MInv /\ Served /\ AckedWaits

\* A thread entering finds the others idle, and from then on they stay so.
LEMMA OthersIdle ==
  ASSUME SInv, Commands = {}, NEW p \in Procs, lock \in {Free, p}
  PROVE  \A q \in Procs \ {p} : pc[q] = "idle"
BY InboxAssumption DEF SInv, Served, Procs

\* Every step of the listener keeps SInv.
LEMMA ServedStep ==
  ASSUME SInv, Commands = {}, Next
  PROVE  SInv'
<1> USE DEF SInv
<1>0. MInv'
  BY MergeStep
<1>1. Procs = Threads
  BY DEF Procs
<1>2. ASSUME NEW p \in Procs, pc'[p] # "idle", lock' = p, \A q \in Procs \ {p} : pc'[q] = "idle",
             pc'[p] = "queued" => copy'[p] = inbox' \cup {job'[p]},
             pc'[p] \in Merging => copy'[p] = inbox' \ {job'[p]}
      PROVE  Served'
  BY <1>1, <1>2 DEF Served, Merging
<1>3. ASSUME NEW p \in Procs, pc[p] # "idle"
      PROVE  lock = p /\ \A q \in Procs \ {p} : pc[q] = "idle"
  <2>1. lock = p
    BY <1>1, <1>3 DEF Served
  <2> QED BY <2>1, OthersIdle
<1>4. ASSUME NEW p \in Procs, NEW i \in Items, NEW from \in Donors, Donate(p, i, from) PROVE SInv'
  <2>1. lock = Free /\ lock' = p /\ pc' = [pc EXCEPT ![p] = "enqueue"] /\ UNCHANGED <<inbox, acked, settled>>
    BY <1>4 DEF Donate, Enter, Go
  <2>2. \A q \in Procs \ {p} : pc'[q] = "idle"
    BY <2>1, OthersIdle DEF MInv, TypeOK
  <2>3. pc'[p] = "enqueue"
    BY <2>1 DEF MInv, TypeOK
  <2>4. Served'
    BY <1>2, <2>1, <2>2, <2>3 DEF Merging
  <2> QED BY <1>0, <2>1, <2>4 DEF AckedWaits
<1>5. ASSUME NEW p \in Procs, NEW d \in Donations, NEW to \in {"accept", "reject"}, Take(p, d, to) PROVE SInv'
  <2>1. /\ lock = Free /\ lock' = p /\ pc' = [pc EXCEPT ![p] = to] /\ UNCHANGED <<inbox, acked, settled>>
        /\ job' = [job EXCEPT ![p] = d] /\ copy' = [copy EXCEPT ![p] = inbox \ {d}]
    BY <1>1, <1>5 DEF Take, Enter, Go, history
  <2>2. \A q \in Procs \ {p} : pc'[q] = "idle"
    BY <2>1, OthersIdle DEF MInv, TypeOK
  <2>3. pc'[p] = to /\ job'[p] = d /\ copy'[p] = inbox \ {d}
    BY <2>1 DEF MInv, TypeOK
  <2>4. Served'
    BY <1>2, <2>1, <2>2, <2>3
  <2> QED BY <1>0, <2>1, <2>4 DEF AckedWaits
<1>6. ASSUME NEW p \in Procs, EnqueueLoad(p) PROVE SInv'
  <2>1. /\ pc[p] = "enqueue" /\ UNCHANGED <<inbox, lock, job, acked, settled>>
        /\ pc' = [pc EXCEPT ![p] = "queued"] /\ copy' = [copy EXCEPT ![p] = inbox \cup {job[p]}]
    BY <1>6 DEF EnqueueLoad, Go, history
  <2>2. /\ pc'[p] = "queued" /\ copy'[p] = inbox \cup {job[p]}
        /\ \A q \in Procs \ {p} : pc'[q] = "idle"
    BY <2>1, <1>3 DEF MInv, TypeOK
  <2>3. Served'
    BY <1>2, <1>3, <2>1, <2>2 DEF Merging
  <2> QED BY <1>0, <2>1, <2>3 DEF AckedWaits
<1>7. ASSUME NEW p \in Procs, AcceptOpen(p) \/ AcceptWrite(p) PROVE SInv'
  <2>1. /\ pc[p] \in {"accept", "merge"} /\ UNCHANGED <<inbox, lock, job, copy, acked>>
        /\ settled \subseteq settled'
        /\ \E to \in {"merge", "refuse", "merged"} : pc' = [pc EXCEPT ![p] = to]
    BY <1>7 DEF AcceptOpen, AcceptWrite, Go, history
  <2>2. /\ pc'[p] \in {"merge", "refuse", "merged"}
        /\ \A q \in Procs \ {p} : pc'[q] = "idle"
    BY <2>1, <1>3 DEF MInv, TypeOK
  <2>3. copy[p] = inbox \ {job[p]}
    BY <1>1, <2>1 DEF Served, Merging
  <2>4. Served'
    BY <1>2, <1>3, <2>1, <2>2, <2>3 DEF Merging
  <2> QED BY <1>0, <2>1, <2>4 DEF AckedWaits
<1>8. ASSUME NEW p \in Procs, EnqueueSave(p) \/ AcceptSave(p) \/ RejectSave(p) \/ Fail(p) PROVE SInv'
  <2>1. Leave(p) /\ pc[p] # "idle"
    BY <1>8 DEF EnqueueSave, AcceptSave, RejectSave, Fail
  <2>2. \A q \in Procs : pc'[q] = "idle"
    BY <2>1, <1>3, LeaveFacts DEF MInv
  <2>3. Served'
    BY <1>1, <2>2 DEF Served, Merging
  <2>4. AckedWaits'
    <3>1. CASE EnqueueSave(p)
      <4>1. copy[p] = inbox \cup {job[p]} /\ inbox' = copy[p] /\ acked' = acked \cup {job[p]} /\ settled' = settled
        BY <1>1, <3>1 DEF EnqueueSave, Served
      <4> QED BY <4>1 DEF AckedWaits
    <3>2. CASE AcceptSave(p) \/ RejectSave(p)
      <4>1. copy[p] = inbox \ {job[p]} /\ inbox' = copy[p] /\ acked' = acked /\ settled' = settled \cup {job[p]}
        BY <1>1, <3>2 DEF AcceptSave, RejectSave, Served, Merging
      <4> QED BY <4>1 DEF AckedWaits
    <3>3. CASE Fail(p)
      BY <3>3 DEF Fail, history, AckedWaits
    <3> QED BY <1>8, <3>1, <3>2, <3>3
  <2> QED BY <1>0, <2>3, <2>4
<1>9. ASSUME NEW i \in Items, NEW w \in {Owner, Managed, Nobody}, OwnerWrites(i, w) PROVE SInv'
  BY <1>0, <1>9 DEF OwnerWrites, Served, AckedWaits, history
<1> QED BY <1>4, <1>5, <1>6, <1>7, <1>8, <1>9 DEF Next, Offer

\* With the listener the only writer of the inbox, a donation answered "pending"
\* waits in the file until it is merged, refused or rejected, for any number of
\* threads and whatever fails on the way.
THEOREM PendingDonationsWait == ASSUME Commands = {} PROVE Spec => []AckedWaits
<1>1. Init => SInv
  BY MergeStart DEF Init, SInv, Served, AckedWaits, Procs, Merging
<1>2. SInv /\ [Next]_vars => SInv'
  <2>1. ASSUME SInv, UNCHANGED vars PROVE SInv'
    BY <2>1, MergeInductive DEF SInv, vars, Served, AckedWaits
  <2> QED BY <2>1, ServedStep
<1>3. SInv => AckedWaits
  BY DEF SInv
<1> QED BY <1>1, <1>2, <1>3, PTL DEF Spec

-----------------------------------------------------------------------------
(* Shares that end (SharedAccess): the inductive invariant.                *)

GrantRecords ==
  [status : {"none", "pending", "activated"}, after : 0..MaxTime, added_to : SUBSET Shareable]
ShareCommands ==
  [kind : {"none", "share", "activate"}, uid : Users \cup {"none"}, left : SUBSET Shareable,
   added : SUBSET Shareable, until : 0..MaxTime, timed : SUBSET Shareable]

RecordsOK == emergency \in [Users -> GrantRecords] /\ cmd \in ShareCommands

\* A command between two saves gives to a registered user, and an activation on
\* a grant that is still due: whatever takes either away saves the document, and
\* so refuses the command.
GivesByRight ==
  /\ cmd.kind # "none" => cmd.uid \in registered
  /\ cmd.kind = "activate" => DueGrant(cmd.uid)

ShareInv == ShareTypeOK /\ RecordsOK /\ RemovedReadsNothing /\ GivesByRight

-----------------------------------------------------------------------------
(* The records.                                                            *)

\* What a command that begins is.
LEMMA GivesFacts ==
  ASSUME NEW kind \in {"none", "share", "activate"}, NEW u \in Users \cup {"none"},
         NEW items \in SUBSET Shareable, NEW until \in 0..MaxTime
  PROVE  /\ Gives(kind, u, items, until) \in ShareCommands
         /\ Gives(kind, u, items, until).kind = kind
         /\ Gives(kind, u, items, until).uid = u
BY DEF Gives, ShareCommands

LEMMA IdleFacts == Idle \in ShareCommands /\ Idle.kind = "none"
BY GivesFacts, SharingAssumption DEF Idle, NoEnd

\* A save by another command leaves none under way, and keeps ShareInv when what it
\* wrote does.
LEMMA SavesFacts ==
  ASSUME ShareInv, Saves, ShareTypeOK', emergency' \in [Users -> GrantRecords], RemovedReadsNothing'
  PROVE  ShareInv'
BY IdleFacts DEF ShareInv, Saves, RecordsOK, GivesByRight

\* A command that goes on with the same user, or ends, keeps ShareInv when nothing
\* it rests on changed.
LEMMA GoesOnFacts ==
  ASSUME ShareInv, ShareTypeOK', RemovedReadsNothing', cmd' \in ShareCommands,
         UNCHANGED <<registered, emergency, date>>,
         cmd'.kind = "none" \/ (cmd'.kind = cmd.kind /\ cmd'.uid = cmd.uid)
  PROVE  ShareInv'
BY DEF ShareInv, RecordsOK, GivesByRight, DueGrant

\* Taking users off items adds no reader.
LEMMA WithdrawnFacts ==
  ASSUME ShareInv, NEW u \in Users, NEW s
  PROVE  /\ Withdrawn(u, s) \in [Shareable -> SUBSET Users]
         /\ \A i \in Shareable : Withdrawn(u, s)[i] \subseteq readers[i]
         /\ \A i \in Shareable : i \in s => u \notin Withdrawn(u, s)[i]
BY DEF ShareInv, ShareTypeOK, Withdrawn

-----------------------------------------------------------------------------
(* The steps.                                                              *)

\* A command that saves once keeps ShareInv.
LEMMA SavingStep ==
  ASSUME ShareInv,
         \/ \E u \in Users :
              \/ register_recipient(u) \/ remove_recipient(u) \/ cancel(u) \/ revoke_emergency(u)
              \/ revoke_tagged(u) \/ \E t \in 1..MaxTime : grant(u, t)
              \/ \E i \in Shareable : revoke(i, u)
         \/ \E i \in Shareable : purge(i) \/ store(i)
         \/ expire
  PROVE  ShareInv'
<1>0. MaxTime \in Nat /\ 0 \in 0..MaxTime /\ NoGrant \in GrantRecords /\ NoGrant.status = "none"
  BY SharingAssumption DEF NoGrant, GrantRecords
<1> USE DEF ShareInv
<1>1. ASSUME NEW u \in Users, register_recipient(u) PROVE ShareInv'
  BY <1>1, SavesFacts DEF register_recipient, Saves, ShareTypeOK, RemovedReadsNothing, RecordsOK
<1>2. ASSUME NEW u \in Users, remove_recipient(u) PROVE ShareInv'
  <2>1. readers' \in [Shareable -> SUBSET Users] /\ \A i \in Shareable : readers'[i] \subseteq readers[i]
          /\ u \notin readers'[i]
    BY <1>2, WithdrawnFacts DEF remove_recipient
  <2>2. emergency' \in [Users -> GrantRecords] /\ emergency'[u].status = "none"
          /\ \A v \in Users \ {u} : emergency'[v] = emergency[v]
    BY <1>0, <1>2 DEF remove_recipient, RecordsOK
  <2>3. ShareTypeOK'
    BY <1>2, <2>1, <2>2 DEF remove_recipient, Saves, ShareTypeOK, GrantRecords
  <2>4. RemovedReadsNothing'
    BY <1>2, <2>1, <2>2 DEF remove_recipient, RemovedReadsNothing
  <2> QED BY <1>2, <2>2, <2>3, <2>4, SavesFacts DEF remove_recipient
<1>3. ASSUME NEW u \in Users, cancel(u) PROVE ShareInv'
  <2>1. emergency' \in [Users -> GrantRecords]
          /\ \A v \in Users : emergency'[v] = emergency[v] \/ emergency'[v].status = "none"
    BY <1>0, <1>3 DEF cancel, RecordsOK
  <2> QED BY <1>3, <2>1, SavesFacts
          DEF cancel, Saves, ShareTypeOK, RemovedReadsNothing, GrantRecords
<1>4. ASSUME NEW u \in Users, revoke_emergency(u) PROVE ShareInv'
  <2>1. emergency' \in [Users -> GrantRecords]
          /\ \A v \in Users : emergency'[v] = emergency[v] \/ emergency'[v].status = "none"
    BY <1>0, <1>4 DEF revoke_emergency, RecordsOK
  <2>2. readers' \in [Shareable -> SUBSET Users] /\ \A i \in Shareable : readers'[i] \subseteq readers[i]
    BY <1>4, WithdrawnFacts DEF revoke_emergency
  <2> QED BY <1>4, <2>1, <2>2, SavesFacts
          DEF revoke_emergency, Saves, ShareTypeOK, RemovedReadsNothing, GrantRecords
<1>5. ASSUME NEW u \in Users, revoke_tagged(u) PROVE ShareInv'
  <2>1. readers' \in [Shareable -> SUBSET Users] /\ \A i \in Shareable : readers'[i] \subseteq readers[i]
    BY <1>5, WithdrawnFacts DEF revoke_tagged
  <2> QED BY <1>5, <2>1, SavesFacts
          DEF revoke_tagged, Saves, ShareTypeOK, RemovedReadsNothing, RecordsOK
<1>6. CASE expire
  <2>1. readers' \in [Shareable -> SUBSET Users] /\ \A i \in Shareable : readers'[i] \subseteq readers[i]
    BY <1>6 DEF expire, ShareTypeOK
  <2>2. share_until' \in [Shareable -> [Users -> 0..MaxTime]]
    BY <1>0, <1>6 DEF expire, ShareTypeOK, NoEnd
  <2> QED BY <1>6, <2>1, <2>2, SavesFacts
          DEF expire, Saves, ShareTypeOK, RemovedReadsNothing, RecordsOK
<1>7. ASSUME NEW u \in Users, NEW t \in 1..MaxTime, grant(u, t) PROVE ShareInv'
  <2>1. [status |-> "pending", after |-> t, added_to |-> {}] \in GrantRecords
    BY <1>0 DEF GrantRecords
  <2>2. emergency' \in [Users -> GrantRecords] /\ \A v \in Users \ {u} : emergency'[v] = emergency[v]
    BY <1>7, <2>1 DEF grant, RecordsOK
  <2> QED BY <1>7, <2>2, SavesFacts
          DEF grant, Saves, ShareTypeOK, RemovedReadsNothing, GrantRecords
<1>8. ASSUME NEW u \in Users, NEW i \in Shareable, revoke(i, u) PROVE ShareInv'
  <2>1. readers' \in [Shareable -> SUBSET Users] /\ \A j \in Shareable : readers'[j] \subseteq readers[j]
    BY <1>8, WithdrawnFacts DEF revoke
  <2>2. share_until' \in [Shareable -> [Users -> 0..MaxTime]]
    BY <1>0, <1>8 DEF revoke, ShareTypeOK, NoEnd
  <2> QED BY <1>8, <2>1, <2>2, SavesFacts
          DEF revoke, Saves, ShareTypeOK, RemovedReadsNothing, RecordsOK
<1>9. ASSUME NEW i \in Shareable, purge(i) \/ store(i) PROVE ShareInv'
  <2>1. readers' \in [Shareable -> SUBSET Users] /\ \A j \in Shareable : readers'[j] \subseteq readers[j]
    BY <1>9 DEF purge, store, ShareTypeOK
  <2> QED BY <1>9, <2>1, SavesFacts
          DEF purge, store, Saves, ShareTypeOK, RemovedReadsNothing, RecordsOK
<1> QED BY <1>1, <1>2, <1>3, <1>4, <1>5, <1>6, <1>7, <1>8, <1>9

\* A command that saves several times, from its start to its end, keeps ShareInv.
LEMMA CommandStep ==
  ASSUME ShareInv,
         \/ \E u \in Users :
              \/ activate(u)
              \/ \E t \in {NoEnd} \cup 1..MaxTime :
                   share_tagged(u, t) \/ \E i \in Shareable : share(i, u, t)
         \/ \E i \in Shareable : ShareItem(i) \/ apply(i) \/ ActivateItem(i)
         \/ Activated
  PROVE  ShareInv'
<1>0. MaxTime \in Nat /\ {NoEnd} \cup 1..MaxTime \subseteq 0..MaxTime /\ NoEnd \in 0..MaxTime
  BY SharingAssumption DEF NoEnd
<1> USE DEF ShareInv
<1>1. ASSUME NEW u \in Users, NEW i \in Shareable, NEW t \in {NoEnd} \cup 1..MaxTime,
              share(i, u, t) PROVE ShareInv'
  <2>1. t \in 0..MaxTime
    BY <1>0
  <2>2. u \in registered /\ UNCHANGED <<registered, live, emergency, date>>
    BY <1>1 DEF share
  <2>3. share_until' \in [Shareable -> [Users -> 0..MaxTime]]
    BY <1>1, <2>1 DEF share, ShareTypeOK
  <2>4. readers' \in [Shareable -> SUBSET Users]
          /\ \A j \in Shareable : readers'[j] \subseteq readers[j] \cup {u}
    BY <1>1, SMTT(60) DEF share, ShareTypeOK
  <2>5. ShareTypeOK' /\ RemovedReadsNothing'
    BY <2>2, <2>3, <2>4 DEF ShareTypeOK, RemovedReadsNothing
  <2>6. cmd' = cmd \/ cmd' = Gives("share", u, {i}, NoEnd)
    BY <1>1 DEF share
  <2>7. Gives("share", u, {i}, NoEnd) \in ShareCommands
          /\ Gives("share", u, {i}, NoEnd).kind = "share" /\ Gives("share", u, {i}, NoEnd).uid = u
    BY <1>0, GivesFacts
  <2> QED BY <2>2, <2>5, <2>6, <2>7 DEF RecordsOK, GivesByRight, DueGrant
<1>2. ASSUME NEW u \in Users, NEW t \in {NoEnd} \cup 1..MaxTime, share_tagged(u, t) PROVE ShareInv'
  <2>1. PICK items \in SUBSET Shareable : cmd' = Gives("share", u, items, t)
    BY <1>2, SharingAssumption DEF share_tagged
  <2>2. cmd' \in ShareCommands /\ cmd'.kind = "share" /\ cmd'.uid = u
    BY <1>0, <2>1, GivesFacts
  <2> QED BY <1>2, <2>2
          DEF share_tagged, document, ShareTypeOK, RecordsOK, RemovedReadsNothing, GivesByRight
<1>3. ASSUME NEW i \in Shareable, ShareItem(i) PROVE ShareInv'
  <2>1. cmd.uid \in registered /\ cmd.uid \in Users /\ UNCHANGED <<registered, live, share_until, emergency, date>>
    BY <1>3 DEF ShareItem, GivesByRight, ShareTypeOK
  <2>2. readers' \in [Shareable -> SUBSET Users]
          /\ \A j \in Shareable : readers'[j] \subseteq readers[j] \cup {cmd.uid}
    BY <1>3, <2>1 DEF ShareItem, ShareTypeOK
  <2>3. ShareTypeOK' /\ RemovedReadsNothing'
    BY <2>1, <2>2 DEF ShareTypeOK, RemovedReadsNothing
  <2>4. cmd' \in ShareCommands /\ (cmd'.kind = "none" \/ (cmd'.kind = cmd.kind /\ cmd'.uid = cmd.uid))
    <3>1. PICK c : c = [cmd EXCEPT !.left = @ \ {i}]
      OBVIOUS
    <3>2. c \in ShareCommands /\ c.kind = cmd.kind /\ c.uid = cmd.uid
      BY <3>1 DEF RecordsOK, ShareCommands
    <3>3. cmd' \in {c, Idle} \/ cmd' = [c EXCEPT !.timed = {i}]
      BY <1>3, <3>1 DEF ShareItem
    <3> QED BY <3>2, <3>3, IdleFacts DEF ShareCommands
  <2> QED BY <2>1, <2>3, <2>4, GoesOnFacts
<1>4. ASSUME NEW i \in Shareable, apply(i) PROVE ShareInv'
  <2>1. cmd.until \in 0..MaxTime
    BY DEF RecordsOK, ShareCommands
  <2>2. share_until' \in [Shareable -> [Users -> 0..MaxTime]]
    BY <1>4, <2>1 DEF apply, ShareTypeOK
  <2>3. cmd' \in ShareCommands /\ (cmd'.kind = "none" \/ (cmd'.kind = cmd.kind /\ cmd'.uid = cmd.uid))
    <3>1. cmd' = Idle \/ cmd' = [cmd EXCEPT !.timed = {}]
      BY <1>4 DEF apply
    <3> QED BY <3>1, IdleFacts DEF RecordsOK, ShareCommands
  <2>4. ShareTypeOK' /\ RemovedReadsNothing'
    BY <1>4, <2>2 DEF apply, ShareTypeOK, RemovedReadsNothing
  <2> QED BY <1>4, <2>3, <2>4, GoesOnFacts DEF apply
<1>5. ASSUME NEW u \in Users, activate(u) PROVE ShareInv'
  <2>1. PICK items \in SUBSET Shareable : cmd' = Gives("activate", u, items, NoEnd)
    BY <1>5 DEF activate, ShareTypeOK
  <2>2. cmd' \in ShareCommands /\ cmd'.kind = "activate" /\ cmd'.uid = u
    BY <1>0, <2>1, GivesFacts
  <2>3. u \in registered
    BY <1>5 DEF activate, DueGrant, RemovedReadsNothing
  <2> QED BY <1>5, <2>2, <2>3
          DEF activate, document, DueGrant, ShareTypeOK, RecordsOK, RemovedReadsNothing, GivesByRight
<1>6. ASSUME NEW i \in Shareable, ActivateItem(i) PROVE ShareInv'
  <2>1. cmd.uid \in registered /\ cmd.uid \in Users /\ UNCHANGED <<registered, live, share_until, emergency, date>>
    BY <1>6 DEF ActivateItem, ShareTypeOK
  <2>2. readers' \in [Shareable -> SUBSET Users]
          /\ \A j \in Shareable : readers'[j] \subseteq readers[j] \cup {cmd.uid}
    BY <1>6, <2>1 DEF ActivateItem, ShareTypeOK
  <2>3. ShareTypeOK' /\ RemovedReadsNothing'
    BY <2>1, <2>2 DEF ShareTypeOK, RemovedReadsNothing
  <2>4. cmd' \in ShareCommands /\ cmd'.kind = cmd.kind /\ cmd'.uid = cmd.uid
    <3>1. PICK c : c = [cmd EXCEPT !.left = @ \ {i}]
      OBVIOUS
    <3>2. c \in ShareCommands /\ c.kind = cmd.kind /\ c.uid = cmd.uid /\ c.added = cmd.added
      BY <3>1 DEF RecordsOK, ShareCommands
    <3>3. cmd' = [c EXCEPT !.added = cmd.added \cup {i}]
      BY <1>6, <3>1 DEF ActivateItem, RecordsOK, ShareCommands
    <3> QED BY <3>2, <3>3 DEF ShareCommands
  <2> QED BY <2>1, <2>3, <2>4, GoesOnFacts
<1>7. ASSUME Activated PROVE ShareInv'
  <2>1. cmd.uid \in registered /\ cmd.uid \in Users /\ cmd.added \in SUBSET Shareable
    BY <1>7 DEF Activated, GivesByRight, ShareTypeOK, RecordsOK, ShareCommands
  <2>2. PICK e : e = [emergency EXCEPT ![cmd.uid].status = "activated"]
    OBVIOUS
  <2>3. e \in [Users -> GrantRecords] /\ \A v \in Users \ {cmd.uid} : e[v] = emergency[v]
    BY <2>1, <2>2 DEF RecordsOK, GrantRecords
  <2>4. emergency' = [e EXCEPT ![cmd.uid].added_to = cmd.added]
    BY <1>7, <2>2 DEF Activated
  <2>5. emergency' \in [Users -> GrantRecords] /\ \A v \in Users \ {cmd.uid} : emergency'[v] = emergency[v]
    BY <2>1, <2>3, <2>4 DEF GrantRecords
  <2>6. ShareTypeOK' /\ RemovedReadsNothing'
    BY <1>7, <2>1, <2>5 DEF Activated, ShareTypeOK, RemovedReadsNothing, GrantRecords
  <2> QED BY <1>7, <2>5, <2>6, IdleFacts DEF Activated, RecordsOK, GivesByRight
<1> QED BY <1>1, <1>2, <1>3, <1>4, <1>5, <1>6, <1>7

LEMMA SharedStep ==
  ASSUME ShareInv, [SNext]_svars
  PROVE  ShareInv'
<1>1. CASE Cut
  BY <1>1, IdleFacts
     DEF Cut, document, ShareInv, ShareTypeOK, RecordsOK, RemovedReadsNothing, GivesByRight
<1>2. CASE Tick
  BY <1>2, SharingAssumption
     DEF Tick, document, ShareInv, ShareTypeOK, RecordsOK, RemovedReadsNothing, GivesByRight, DueGrant,
         GrantRecords
<1>3. CASE UNCHANGED svars
  BY <1>3 DEF svars, ShareInv, ShareTypeOK, RecordsOK, RemovedReadsNothing, GivesByRight, DueGrant
<1>4. CASE Activated
  BY <1>4, CommandStep
<1>5. CASE expire
  BY <1>5, SavingStep
<1> QED BY <1>1, <1>2, <1>3, <1>4, <1>5, SavingStep, CommandStep DEF SNext

\* The only step of an activation that gives an item is one whose grant is due.
LEMMA GivingStep ==
  ASSUME ShareInv, [SNext]_svars
  PROVE  OnlyDueGrantShares
<1> SUFFICES ASSUME NEW i \in Shareable, NEW u \in Users, cmd.kind = "activate",
                    u \in readers'[i], u \notin readers[i]
             PROVE  u = cmd.uid
  BY DEF OnlyDueGrantShares, ShareInv, GivesByRight
<1>1. cmd # Idle
  BY IdleFacts
<1>2. readers' # readers
  OBVIOUS
<1>3. \A v \in Users : \A s : Withdrawn(v, s)[i] \subseteq readers[i]
  BY WithdrawnFacts
<1>4. ASSUME NEW j \in Shareable, ActivateItem(j) PROVE u = cmd.uid
  BY <1>4 DEF ActivateItem, ShareInv, ShareTypeOK
<1>5. ASSUME NEW v \in Users,
              remove_recipient(v) \/ revoke_tagged(v) \/ revoke_emergency(v)
                \/ \E j \in Shareable : revoke(j, v)
       PROVE  FALSE
  BY <1>3, <1>5 DEF remove_recipient, revoke_tagged, revoke_emergency, revoke
<1>6. ASSUME NEW j \in Shareable, purge(j) PROVE FALSE
  BY <1>6 DEF purge, ShareInv, ShareTypeOK
<1>7. ~expire
  BY DEF expire, ShareInv, ShareTypeOK
<1>8. \A j \in Shareable : ~ShareItem(j) /\ ~store(j) /\ ~apply(j)
  BY <1>2 DEF ShareItem, store, apply
<1>9. \A v \in Users :
        /\ ~register_recipient(v) /\ ~cancel(v) /\ ~activate(v)
        /\ \A t : ~grant(v, t) /\ ~share_tagged(v, t) /\ \A j \in Shareable : ~share(j, v, t)
  BY <1>1, <1>2 DEF register_recipient, cancel, activate, grant, share_tagged, share, Resting, document
<1>10. ~Activated /\ ~Cut /\ ~Tick /\ ~UNCHANGED svars
  BY <1>2 DEF Activated, Cut, Tick, document, svars
<1> QED BY <1>4, <1>5, <1>6, <1>7, <1>8, <1>9, <1>10 DEF SNext

\* Whatever commands, purges and dates come between two saves of a command: a
\* removed recipient reads nothing, and emergency access gives an item only
\* while its grant stands and is due.
THEOREM ReadersStandByRight == SharedSpec => ReadsByRight
<1>1. SInit => ShareInv
  <2>1. 0 \in 0..MaxTime /\ 1 \in 1..MaxTime
    BY SharingAssumption
  <2>2. NoGrant \in GrantRecords /\ NoGrant.status = "none" /\ NoGrant.added_to = {}
    BY <2>1 DEF NoGrant, GrantRecords
  <2> QED BY <2>1, <2>2, IdleFacts
          DEF SInit, ShareInv, ShareTypeOK, RecordsOK, RemovedReadsNothing, GivesByRight, NoEnd
<1>2. ShareInv => ShareTypeOK /\ RemovedReadsNothing
  BY DEF ShareInv
<1>3. ShareInv /\ [SNext]_svars => [OnlyDueGrantShares]_svars
  BY GivingStep
<1> QED BY <1>1, <1>2, <1>3, SharedStep, PTL DEF SharedSpec, ReadsByRight

-----------------------------------------------------------------------------
(* The exchange with a server: sequences.                                  *)

Listed(s) == s \in Seq(Range(s))

LEMMA ListOf ==
  ASSUME NEW S, NEW s \in Seq(S)
  PROVE  Listed(s) /\ Range(s) \subseteq S
BY DEF Listed, Range

LEMMA ListOne ==
  ASSUME NEW x
  PROVE  Listed(<<x>>) /\ Range(<<x>>) = {x}
BY DEF Listed, Range

LEMMA ListNone == Listed(<<>>) /\ Range(<<>>) = {}
BY DEF Listed, Range

LEMMA ListConcat ==
  ASSUME NEW a, NEW b, Listed(a), Listed(b)
  PROVE  Listed(a \o b) /\ Range(a \o b) \subseteq Range(a) \cup Range(b)
<1>1. a \in Seq(Range(a) \cup Range(b)) /\ b \in Seq(Range(a) \cup Range(b))
  BY DEF Listed
<1>2. a \o b \in Seq(Range(a) \cup Range(b))
  BY <1>1
<1> QED BY <1>2, ListOf

LEMMA ListTail ==
  ASSUME NEW a, Listed(a), a # <<>>
  PROVE  Listed(Tail(a)) /\ Range(Tail(a)) \subseteq Range(a) /\ Head(a) \in Range(a)
         /\ Head(a) = a[1]
<1>1. Tail(a) \in Seq(Range(a)) /\ Head(a) \in Range(a) /\ Head(a) = a[1]
  BY DEF Listed, Range
<1> QED BY <1>1, ListOf

\* The rest of a sequence, and of the messages that were read in pieces.
LEMMA ListRest ==
  ASSUME NEW a, Listed(a), NEW k \in Nat \ {0}
  PROVE  Listed(SubSeq(a, k, Len(a))) /\ Range(SubSeq(a, k, Len(a))) \subseteq Range(a)
<1>1. Len(a) \in Nat /\ \A i \in 1..Len(a) : a[i] \in Range(a)
  BY DEF Listed, Range
<1>2. SubSeq(a, k, Len(a)) \in Seq(Range(a))
  BY <1>1 DEF Listed
<1> QED BY <1>2, ListOf

\* Two or more lists in a row, and a function on 1..n.
LEMMA ListPairs ==
  ASSUME NEW x, NEW y
  PROVE  Listed(<<x, y>>) /\ Range(<<x, y>>) = {x, y}
BY DEF Listed, Range

LEMMA ListFun ==
  ASSUME NEW n \in Nat, NEW f, f = [i \in 1..n |-> f[i]]
  PROVE  Listed(f) /\ \A x \in Range(f) : \E i \in 1..n : x = f[i]
BY DEF Listed, Range

-----------------------------------------------------------------------------
(* The exchange with a server: the inductive invariant.                    *)

IsRecord(r) == r = Record(r.type, r.key, r.n, r.content)
IsPiece(q) == q = [message |-> q.message, piece |-> q.piece, pieces |-> q.pieces] /\ q.pieces \in {1, 2}
IsSaid(e) == e = [type |-> e.type, key |-> e.key, content |-> e.content]
IsPeer(p) ==
  p = [pc |-> p.pc, address |-> p.address, key |-> p.key, opened |-> p.opened, pending |-> p.pending,
       established |-> p.established, closed |-> p.closed, transcript |-> p.transcript, suite |-> p.suite,
       got |-> p.got, out |-> p.out, sent |-> p.sent, records |-> p.records]
IsServer(s) ==
  s = [up |-> s.up, hello |-> s.hello, deviates |-> s.deviates, trusted |-> s.trusted, signs |-> s.signs,
       framing |-> s.framing, pc |-> s.pc, transcript |-> s.transcript, key |-> s.key, n |-> s.n,
       said |-> s.said, heard |-> s.heard, read |-> s.read]

\* Nobody but the server says a message of its flight t, which it says only once.
Sayable(m, t) ==
  \/ m.kind \in {"ServerHello", "NewSessionTicket", "KeyUpdate"}
  \/ t # <<>> /\ m \in {t[3], t[4], t[5], t[6]}
PieceOf(q, t) == IsPiece(q) /\ Sayable(q.message, t)
Carries(s, t) == Listed(s) /\ \A q \in Range(s) : PieceOf(q, t)
RecordOf(r, t) == IsRecord(r) /\ (r.type = "handshake" => Carries(r.content, t))
Incoming(s, t) == Listed(s) /\ \A r \in Range(s) : RecordOf(r, t)
SaidOf(e, t) == IsSaid(e) /\ (e.type = "handshake" => PieceOf(e.content, t))
Sayings(s, t) == Listed(s) /\ \A e \in Range(s) : SaidOf(e, t)

\* Until the server answers it is only offered a hello, or what became of one.
Hellos(s) == Listed(s) /\ \A r \in Range(s) : IsRecord(r) /\ r.content.kind = "ClientHello"

\* What the server said in its flight, and to which hello.
Flight(s) ==
  LET t == s.transcript IN
  t # <<>> =>
    /\ t = <<t[1], t[2], t[3], t[4], t[5], t[6]>>
    /\ t[1].kind = "ClientHello" /\ t[2].kind = "ServerHello" /\ t[3].kind = "EncryptedExtensions"
    /\ t[4].kind \in {"Certificate", "CertificateRequest"} /\ t[4].trusted = s.trusted
    /\ t[5].kind = "CertificateVerify" /\ (t[5].signed[1] = "leaf" => s.signs)
    /\ t[6] \in {finished("server", <<t[1], t[2], t[3], t[4]>>),
                 finished("server", <<t[1], t[2], t[3], t[4], t[5]>>)}

Early == {"exchange", "connect", "hello"}
Asking == {"send", "reply"}

\* What the client has heard when it waits for the next message of the flight.
Chose(p, m) == m.kind = "ServerHello" /\ m.suite \in OFFERED /\ p.suite = m.suite
Heard(p, t) ==
  /\ p.pc \in Early \cup {"ServerHello"} => t = <<client_hello>>
  /\ p.pc = "EncryptedExtensions" => t = <<client_hello, t[2]>> /\ Chose(p, t[2])
  /\ p.pc = "Certificate" => /\ t = <<client_hello, t[2], t[3]>> /\ Chose(p, t[2])
                             /\ t[3].kind = "EncryptedExtensions"
  /\ p.pc = "CertificateVerify" => /\ t = <<client_hello, t[2], t[3], t[4]>> /\ Chose(p, t[2])
                                   /\ t[3].kind = "EncryptedExtensions"
                                   /\ t[4].kind = "Certificate" /\ t[4].trusted
  /\ p.pc = "Finished" => /\ t = <<client_hello, t[2], t[3], t[4], t[5]>> /\ Chose(p, t[2])
                          /\ t[3].kind = "EncryptedExtensions"
                          /\ t[4].kind = "Certificate" /\ t[4].trusted
                          /\ t[5].kind = "CertificateVerify" /\ t[5].signed[1] = "leaf"
                          /\ server.transcript # <<>> /\ t[5] = server.transcript[5]

ClientSound ==
  /\ peer.pc \in Early \cup Handshaking \cup Asking \cup {"answered", "refused"}
  /\ over = "loopback" => peer.pc \notin Handshaking \cup {"hello"}
  /\ over = "tls" =>
       /\ Heard(peer, peer.transcript)
       /\ peer.pc \in Early => peer.pending = <<>>
       /\ peer.pc \in Handshaking => Carries(peer.pending, server.transcript)
       /\ peer.pc \in Early \cup Handshaking => ~peer.established
       /\ peer.pc \in Asking => peer.established
       /\ peer.established => server.transcript # <<>>

\* No key that sealed a record is taken up again, and its numbers only grow.
SealedBy(s, label, out, sent) ==
  \A i \in DOMAIN s : s[i][1][1] = label \/ (s[i][1] = out /\ s[i][2] < sent)
SealSound ==
  /\ peer.sent \in Nat
  /\ \E K : sealed \in Seq(K \X Nat)
  /\ over = "loopback" => sealed = <<>>
  /\ peer.pc \in Early \cup Handshaking => sealed = <<>> /\ peer.sent = 0
  /\ peer.pc \in Handshaking \ {"ServerHello"} => peer.out[1] = <<"client", "hs_traffic">>
  /\ over = "tls" /\ peer.pc \in Asking =>
       /\ peer.out[1] = <<"client", "ap_traffic">>
       /\ SealedBy(sealed, <<"client", "hs_traffic">>, peer.out, peer.sent)
  /\ SealedOnce

ServerSound ==
  /\ server.hello.kind = "ServerHello"
  /\ server.pc = "hello" => server.transcript = <<>>
  /\ Flight(server) /\ Sayings(server.said, server.transcript)
  /\ Incoming(toClient, server.transcript)
  /\ over = "tls" /\ server.pc = "hello" => Hellos(toServer)

ExInv == /\ over \in {"tls", "loopback"} /\ IsPeer(peer) /\ IsServer(server)
         /\ ServerSound /\ ClientSound /\ EndsAgree /\ SealSound

-----------------------------------------------------------------------------
(* What is known stays known, and what is put together of it is.           *)

LEMMA KnownGrows ==
  ASSUME NEW t, NEW u, t = u \/ t = <<>>
  PROVE  /\ \A m : Sayable(m, t) => Sayable(m, u)
         /\ \A q : PieceOf(q, t) => PieceOf(q, u)
         /\ \A s : Carries(s, t) => Carries(s, u)
         /\ \A r : RecordOf(r, t) => RecordOf(r, u)
         /\ \A s : Incoming(s, t) => Incoming(s, u)
         /\ \A e : SaidOf(e, t) => SaidOf(e, u)
         /\ \A s : Sayings(s, t) => Sayings(s, u)
<1>1. \A m : Sayable(m, t) => Sayable(m, u)
  BY DEF Sayable
<1>2. \A q : PieceOf(q, t) => PieceOf(q, u)
  BY <1>1 DEF PieceOf
<1>3. \A s : Carries(s, t) => Carries(s, u)
  BY <1>2 DEF Carries
<1>4. \A r : RecordOf(r, t) => RecordOf(r, u)
  BY <1>3 DEF RecordOf
<1>5. \A s : Incoming(s, t) => Incoming(s, u)
  BY <1>4 DEF Incoming
<1>6. \A e : SaidOf(e, t) => SaidOf(e, u)
  BY <1>2 DEF SaidOf
<1>7. \A s : Sayings(s, t) => Sayings(s, u)
  BY <1>6 DEF Sayings
<1> QED BY <1>1, <1>2, <1>3, <1>4, <1>5, <1>6, <1>7

LEMMA IncomingFacts ==
  ASSUME NEW t
  PROVE  /\ \A r : RecordOf(r, t) => Incoming(<<r>>, t)
         /\ \A r, q : RecordOf(r, t) /\ RecordOf(q, t) => Incoming(<<r, q>>, t)
         /\ \A a, b : Incoming(a, t) /\ Incoming(b, t) => Incoming(a \o b, t)
         /\ \A a : Incoming(a, t) /\ a # <<>> =>
                     Incoming(Tail(a), t) /\ RecordOf(Head(a), t) /\ Head(a) = a[1]
<1>1. ASSUME NEW r, RecordOf(r, t)
      PROVE  Incoming(<<r>>, t)
  BY <1>1, ListOne DEF Incoming
<1>2. ASSUME NEW r, NEW q, RecordOf(r, t), RecordOf(q, t)
      PROVE  Incoming(<<r, q>>, t)
  <2>1. Listed(<<r, q>>) /\ Range(<<r, q>>) = {r, q}
    BY ListPairs
  <2> QED BY <1>2, <2>1 DEF Incoming
<1>3. ASSUME NEW a, NEW b, Incoming(a, t), Incoming(b, t)
      PROVE  Incoming(a \o b, t)
  BY <1>3, ListConcat DEF Incoming
<1>4. ASSUME NEW a, Incoming(a, t), a # <<>>
      PROVE  Incoming(Tail(a), t) /\ RecordOf(Head(a), t) /\ Head(a) = a[1]
  BY <1>4, ListTail DEF Incoming
<1> QED BY <1>1, <1>2, <1>3, <1>4

LEMMA SayingsFacts ==
  ASSUME NEW t
  PROVE  /\ Sayings(<<>>, t)
         /\ \A e : SaidOf(e, t) => Sayings(<<e>>, t)
         /\ \A a, b : Sayings(a, t) /\ Sayings(b, t) => Sayings(a \o b, t)
<1>1. Sayings(<<>>, t)
  BY ListNone DEF Sayings
<1>2. ASSUME NEW e, SaidOf(e, t)
      PROVE  Sayings(<<e>>, t)
  BY <1>2, ListOne DEF Sayings
<1>3. ASSUME NEW a, NEW b, Sayings(a, t), Sayings(b, t)
      PROVE  Sayings(a \o b, t)
  BY <1>3, ListConcat DEF Sayings
<1> QED BY <1>1, <1>2, <1>3

\* A message said in one piece or two.
LEMMA PiecesFacts ==
  ASSUME NEW t, NEW type, NEW key, NEW m, type = "handshake" => Sayable(m, t)
  PROVE  Sayings(Said(type, key, m), t) /\ Sayings(Pieces(type, key, m, 2), t)
<1> DEFINE item(i, k) == [type |-> type, key |-> key, content |-> [message |-> m, piece |-> i, pieces |-> k]]
<1>1. ASSUME NEW k \in {1, 2}
      PROVE  Sayings(Pieces(type, key, m, k), t)
  <2>1. PICK f : f = Pieces(type, key, m, k)
    OBVIOUS
  <2>2. f = [i \in 1..k |-> f[i]] /\ \A i \in 1..k : f[i] = item(i, k)
    BY <2>1 DEF Pieces
  <2>3. \A i \in 1..k : SaidOf(item(i, k), t)
    BY <1>1 DEF SaidOf, IsSaid, PieceOf, IsPiece
  <2> HIDE DEF item
  <2>4. Listed(f) /\ \A x \in Range(f) : \E i \in 1..k : x = f[i]
    BY <2>2, ListFun
  <2>5. Sayings(f, t)
    BY <2>2, <2>3, <2>4 DEF Sayings
  <2> QED BY <2>1, <2>5
<1> QED BY <1>1 DEF Said

-----------------------------------------------------------------------------
(* The steps of the server and the network.                                *)

LEMMA ServerStep ==
  ASSUME ExInv, UNCHANGED <<over, peer, sealed>>, IsServer(server'),
         server'.trusted = server.trusted, server'.signs = server.signs,
         server'.transcript = server.transcript \/ server.transcript = <<>>,
         (server'.transcript = server.transcript) \/ server.pc = "hello", ServerSound'
  PROVE  ExInv'
<1>1. PICK t, u, p : t = server.transcript /\ u = server'.transcript /\ p = peer
  OBVIOUS
<1>2. over = "tls" /\ peer.established => u = t /\ t # <<>>
  BY <1>1 DEF ExInv, ClientSound, ServerSound
<1>3. EndsAgree'
  BY <1>1, <1>2 DEF ExInv, EndsAgree
<1>4. \A s : Carries(s, t) => Carries(s, u)
  BY <1>1, KnownGrows
<1>5. over = "tls" => (Heard(peer, peer.transcript))'
  <2>1. server.transcript # <<>> => server'.transcript = server.transcript
    BY DEF ExInv, ServerSound
  <2>2. over = "tls" => Heard(p, p.transcript)
    BY <1>1 DEF ExInv, ClientSound
  <2>3. over = "tls" => (Heard(p, p.transcript))'
    BY <2>1, <2>2 DEF Heard, Chose
  <2> QED BY <1>1, <2>3
<1>6. ClientSound'
  BY <1>1, <1>2, <1>4, <1>5 DEF ExInv, ClientSound
<1>7. SealSound'
  BY DEF ExInv, SealSound, SealedOnce
<1> QED BY <1>3, <1>6, <1>7 DEF ExInv

\* One message more is one entry more.
LEMMA AppendSecond ==
  ASSUME NEW a, NEW b
  PROVE  Append(<<a>>, b) = <<a, b>>
<1> DEFINE S == {a, b}
<1>1. /\ <<a>> \in Seq(S) /\ Len(<<a>>) = 1 /\ b \in S
      /\ <<a, b>> \in Seq(S) /\ Len(<<a, b>>) = 2
  OBVIOUS
<1>2. /\ Append(<<a>>, b) \in Seq(S) /\ Len(Append(<<a>>, b)) = 2
      /\ \A i \in 1..2 : Append(<<a>>, b)[i] = <<a, b>>[i]
  BY <1>1
<1> HIDE DEF S
<1> QED BY <1>1, <1>2, SeqEqual

LEMMA AppendThird ==
  ASSUME NEW a, NEW b, NEW c
  PROVE  Append(<<a, b>>, c) = <<a, b, c>>
<1> DEFINE S == {a, b, c}
<1>1. /\ <<a, b>> \in Seq(S) /\ Len(<<a, b>>) = 2 /\ c \in S
      /\ <<a, b, c>> \in Seq(S) /\ Len(<<a, b, c>>) = 3
  OBVIOUS
<1>2. /\ Append(<<a, b>>, c) \in Seq(S) /\ Len(Append(<<a, b>>, c)) = 3
      /\ \A i \in 1..3 : Append(<<a, b>>, c)[i] = <<a, b, c>>[i]
  BY <1>1
<1> HIDE DEF S
<1> QED BY <1>1, <1>2, SeqEqual

LEMMA AppendFourth ==
  ASSUME NEW a, NEW b, NEW c, NEW d
  PROVE  Append(<<a, b, c>>, d) = <<a, b, c, d>>
<1> DEFINE S == {a, b, c, d}
<1>1. /\ <<a, b, c>> \in Seq(S) /\ Len(<<a, b, c>>) = 3 /\ d \in S
      /\ <<a, b, c, d>> \in Seq(S) /\ Len(<<a, b, c, d>>) = 4
  OBVIOUS
<1>2. /\ Append(<<a, b, c>>, d) \in Seq(S) /\ Len(Append(<<a, b, c>>, d)) = 4
      /\ \A i \in 1..4 : Append(<<a, b, c>>, d)[i] = <<a, b, c, d>>[i]
  BY <1>1
<1> HIDE DEF S
<1> QED BY <1>1, <1>2, SeqEqual

LEMMA AppendFifth ==
  ASSUME NEW a, NEW b, NEW c, NEW d, NEW e
  PROVE  Append(<<a, b, c, d>>, e) = <<a, b, c, d, e>>
<1> DEFINE S == {a, b, c, d, e}
<1>1. /\ <<a, b, c, d>> \in Seq(S) /\ Len(<<a, b, c, d>>) = 4 /\ e \in S
      /\ <<a, b, c, d, e>> \in Seq(S) /\ Len(<<a, b, c, d, e>>) = 5
  OBVIOUS
<1>2. /\ Append(<<a, b, c, d>>, e) \in Seq(S) /\ Len(Append(<<a, b, c, d>>, e)) = 5
      /\ \A i \in 1..5 : Append(<<a, b, c, d>>, e)[i] = <<a, b, c, d, e>>[i]
  BY <1>1
<1> HIDE DEF S
<1> QED BY <1>1, <1>2, SeqEqual

LEMMA AppendSixth ==
  ASSUME NEW a, NEW b, NEW c, NEW d, NEW e, NEW f
  PROVE  Append(<<a, b, c, d, e>>, f) = <<a, b, c, d, e, f>>
<1> DEFINE S == {a, b, c, d, e, f}
<1>1. /\ <<a, b, c, d, e>> \in Seq(S) /\ Len(<<a, b, c, d, e>>) = 5 /\ f \in S
      /\ <<a, b, c, d, e, f>> \in Seq(S) /\ Len(<<a, b, c, d, e, f>>) = 6
  OBVIOUS
<1>2. /\ Append(<<a, b, c, d, e>>, f) \in Seq(S) /\ Len(Append(<<a, b, c, d, e>>, f)) = 6
      /\ \A i \in 1..6 : Append(<<a, b, c, d, e>>, f)[i] = <<a, b, c, d, e, f>>[i]
  BY <1>1
<1> HIDE DEF S
<1> QED BY <1>1, <1>2, SeqEqual

\* Bytes in the clear that are no handshake.
LEMMA PlainFacts ==
  ASSUME NEW t, NEW key, NEW n, NEW content
  PROVE  /\ RecordOf(Record("alert", key, n, content), t)
         /\ RecordOf(EndOfStream, t)
         /\ RecordOf(Record("change_cipher_spec", key, n, content), t)
BY DEF RecordOf, IsRecord, Record, EndOfStream

LEMMA server_answers_step ==
  ASSUME ExInv, server_answers
  PROVE  ExInv'
<1>1. /\ server.pc = "hello" /\ over = "tls" /\ toServer # <<>>
      /\ UNCHANGED <<over, held, clock, peer, sealed, faults>>
  BY DEF server_answers
<1>2. server.transcript = <<>> /\ Flight(server) /\ Sayings(server.said, <<>>)
      /\ Incoming(toClient, <<>>) /\ Hellos(toServer) /\ IsServer(server)
      /\ server.hello.kind = "ServerHello"
  BY <1>1 DEF ExInv, ServerSound
<1>3. PICK m : m = Head(toServer).content
  OBVIOUS
<1>4. m.kind = "ClientHello"
  BY <1>1, <1>2, <1>3, ListTail DEF Hellos
<1>5. CASE /\ server' = [server EXCEPT !.pc = "gone"]
           /\ toClient' = toClient \o <<Record("alert", Plain, 0, "protocol_version"), EndOfStream>>
  <2>1. /\ IsServer(server') /\ server'.pc = "gone" /\ server'.trusted = server.trusted
        /\ server'.signs = server.signs /\ server'.transcript = server.transcript
        /\ server'.said = server.said /\ server'.hello = server.hello
    BY <1>2, <1>5 DEF IsServer
  <2>2. Incoming(toClient', <<>>)
    <3>1. Incoming(<<Record("alert", Plain, 0, "protocol_version"), EndOfStream>>, <<>>)
      BY PlainFacts, IncomingFacts
    <3> QED BY <1>2, <1>5, <3>1, IncomingFacts
  <2>3. ServerSound'
    BY <1>2, <2>1, <2>2 DEF ServerSound, Flight
  <2> QED BY <1>1, <2>1, <2>3, ServerStep
<1>6. ASSUME NEW alpn \in {"none", "http/1.1"},
             LET sh == IF Conforms /\ server.hello.suite \notin Head(toServer).content.suites
                          THEN GoodHello(CHOOSE x \in Head(toServer).content.suites : TRUE) ELSE server.hello
                 d == server.deviates
                 t == <<Head(toServer).content, sh>>  k == handshake_traffic("server", t)
                 ee == [kind |-> "EncryptedExtensions", alpn |-> IF d = "alpn" THEN "h2" ELSE alpn]
                 cert == [kind |-> IF d = "request" THEN "CertificateRequest" ELSE "Certificate",
                          context |-> d = "context", trusted |-> server.trusted]
                 t1 == <<Head(toServer).content, sh, ee, cert>>
                 cv == [kind |-> "CertificateVerify", fits |-> d # "unfit",
                        signed |-> <<IF server.signs THEN "leaf" ELSE "another", signed_content(t1)>>]
                 t2 == Append(t1, cv)
                 fin == IF d = "finished" THEN finished("server", t1) ELSE finished("server", t2)
                 t3 == Append(t2, fin)
             IN /\ server' = [server EXCEPT !.pc = "Finished", !.transcript = t3,
                      !.said = Said("handshake", Plain, sh)
                               \o Said("handshake", IF d = "spans" THEN Plain ELSE k, ee)
                               \o Pieces("handshake", k, cert, 2)
                               \o (IF d = "skip" THEN <<>> ELSE Said("handshake", k, cv))
                               \o Said("handshake", k, fin)
                               \o (IF d = "spans_finished" THEN Said("handshake", k, Ticket) ELSE <<>>)
                               \o (IF d = "ccs_late" THEN Said("change_cipher_spec", Plain, 1) ELSE <<>>)]
                /\ toClient' = toClient
      PROVE  ExInv'
  <2> DEFINE sh == IF Conforms /\ server.hello.suite \notin Head(toServer).content.suites
                   THEN GoodHello(CHOOSE x \in Head(toServer).content.suites : TRUE) ELSE server.hello
             d == server.deviates
             k == handshake_traffic("server", <<Head(toServer).content, sh>>)
             ee == [kind |-> "EncryptedExtensions", alpn |-> IF d = "alpn" THEN "h2" ELSE alpn]
             cert == [kind |-> IF d = "request" THEN "CertificateRequest" ELSE "Certificate",
                      context |-> d = "context", trusted |-> server.trusted]
             t1 == <<Head(toServer).content, sh, ee, cert>>
             cv == [kind |-> "CertificateVerify", fits |-> d # "unfit",
                    signed |-> <<IF server.signs THEN "leaf" ELSE "another", signed_content(t1)>>]
             t2 == Append(t1, cv)
             fin == IF d = "finished" THEN finished("server", t1) ELSE finished("server", t2)
             t == Append(t2, fin)
             said == Said("handshake", Plain, sh)
                     \o Said("handshake", IF d = "spans" THEN Plain ELSE k, ee)
                     \o Pieces("handshake", k, cert, 2)
                     \o (IF d = "skip" THEN <<>> ELSE Said("handshake", k, cv))
                     \o Said("handshake", k, fin)
                     \o (IF d = "spans_finished" THEN Said("handshake", k, Ticket) ELSE <<>>)
                     \o (IF d = "ccs_late" THEN Said("change_cipher_spec", Plain, 1) ELSE <<>>)
  <2>1. server' = [server EXCEPT !.pc = "Finished", !.transcript = t, !.said = said] /\ toClient' = toClient
    BY <1>6, Zenon
  <2>2. sh.kind = "ServerHello"
    BY <1>2 DEF GoodHello
  <2>3. /\ ee.kind = "EncryptedExtensions" /\ cert.kind \in {"Certificate", "CertificateRequest"}
        /\ cert.trusted = server.trusted /\ cv.kind = "CertificateVerify"
        /\ cv.signed[1] = "leaf" => server.signs
    OBVIOUS
  <2> HIDE DEF sh, d, k, ee, cert, cv
  <2>4. t1 = <<m, sh, ee, cert>>
    BY <1>3
  <2> HIDE DEF t1
  <2>5. t2 = <<m, sh, ee, cert, cv>>
    BY <2>4, AppendFifth, Zenon DEF t2
  <2>6. fin \in {finished("server", <<m, sh, ee, cert>>), finished("server", <<m, sh, ee, cert, cv>>)}
    BY <2>4, <2>5 DEF fin
  <2> HIDE DEF fin
  <2>7. t = <<m, sh, ee, cert, cv, fin>>
    BY <2>5, AppendSixth, ZenonT(60) DEF t
  <2> HIDE DEF t2, t
  <2>9. /\ IsServer(server') /\ server'.pc = "Finished" /\ server'.trusted = server.trusted
        /\ server'.signs = server.signs /\ server'.transcript = t
        /\ server'.said = said /\ server'.hello = server.hello
    <3> HIDE DEF said
    <3> QED BY <1>2, <2>1 DEF IsServer
  <2>10. /\ t # <<>> /\ t[1] = m /\ t[2] = sh /\ t[3] = ee /\ t[4] = cert /\ t[5] = cv /\ t[6] = fin
    BY <2>7
  <2>11. /\ Sayable(sh, t) /\ Sayable(ee, t) /\ Sayable(cert, t) /\ Sayable(cv, t) /\ Sayable(fin, t) /\ Sayable(Ticket, t)
    BY <2>2, <2>10 DEF Sayable, Ticket
  <2> HIDE DEF said
  <2>12. Sayings(said, t)
    <3>1. /\ Sayings(Said("handshake", Plain, sh), t)
          /\ Sayings(Said("handshake", IF d = "spans" THEN Plain ELSE k, ee), t)
          /\ Sayings(Pieces("handshake", k, cert, 2), t)
          /\ Sayings(Said("handshake", k, cv), t)
          /\ Sayings(Said("handshake", k, fin), t)
          /\ Sayings(Said("handshake", k, Ticket), t)
          /\ Sayings(Said("change_cipher_spec", Plain, 1), t)
      BY <2>11, PiecesFacts
    <3>2. PICK a, b, c, e, f, g, h :
            /\ a = Said("handshake", Plain, sh)
            /\ b = Said("handshake", IF d = "spans" THEN Plain ELSE k, ee)
            /\ c = Pieces("handshake", k, cert, 2)
            /\ e = IF d = "skip" THEN <<>> ELSE Said("handshake", k, cv)
            /\ f = Said("handshake", k, fin)
            /\ g = IF d = "spans_finished" THEN Said("handshake", k, Ticket) ELSE <<>>
            /\ h = IF d = "ccs_late" THEN Said("change_cipher_spec", Plain, 1) ELSE <<>>
      OBVIOUS
    <3>3. /\ Sayings(a, t) /\ Sayings(b, t) /\ Sayings(c, t) /\ Sayings(e, t)
          /\ Sayings(f, t) /\ Sayings(g, t) /\ Sayings(h, t)
      BY <3>1, <3>2, SayingsFacts
    <3>4. said = a \o b \o c \o e \o f \o g \o h
      BY <3>2 DEF said
    <3> QED BY <3>3, <3>4, SayingsFacts
  <2>13. Flight(server)'
    <3>1. t = <<t[1], t[2], t[3], t[4], t[5], t[6]>>
      BY <2>7
    <3> QED BY <1>4, <2>2, <2>3, <2>6, <2>9, <2>10, <3>1 DEF Flight
  <2>14. Incoming(toClient', t)
    BY <1>2, <2>1, KnownGrows
  <2>15. ServerSound'
    BY <1>2, <2>9, <2>12, <2>13, <2>14 DEF ServerSound
  <2> QED BY <1>1, <1>2, <2>9, <2>15, ServerStep
<1> QED BY <1>5, <1>6, ZenonT(60) DEF server_answers

\* A record of what the server says next carries what it says.
LEMMA server_says_step ==
  ASSUME ExInv, NEW n \in 1..8, server_says(n)
  PROVE  ExInv'
<1>1. /\ n \in 1..Len(server.said) /\ UNCHANGED <<over, held, clock, peer, toServer, sealed, faults>>
      /\ \A i \in 1..n : server.said[i].key = server.said[1].key /\ server.said[i].type = server.said[1].type
  BY DEF server_says
<1>2. PICK t, s : t = server.transcript /\ s = server.said
  OBVIOUS
<1>3. /\ Flight(server) /\ Sayings(s, t) /\ Incoming(toClient, t) /\ IsServer(server)
      /\ server.hello.kind = "ServerHello" /\ (server.pc = "hello" => t = <<>>)
      /\ over = "tls" /\ server.pc = "hello" => Hellos(toServer)
  BY <1>2 DEF ExInv, ServerSound
<1>4. PICK e : e = s[1]
  OBVIOUS
<1>5. PICK number : number = IF e.key = server.key THEN server.n ELSE 0
  OBVIOUS
<1>6. PICK content : content = IF e.type = "alert" THEN e.content.message
                               ELSE [i \in 1..n |-> IF e.type = "data" THEN s[i].content.message ELSE s[i].content]
  OBVIOUS
<1>7. PICK r : r = Record(e.type, e.key, number, content)
  OBVIOUS
<1>8. PICK ccs \in {<<>>, <<Record("change_cipher_spec", Plain, 0, 1)>>} :
        /\ server' = [server EXCEPT !.said = SubSeq(s, n + 1, Len(s)), !.key = e.key,
                                    !.n = IF e.key = Plain THEN 0 ELSE number + 1]
        /\ toClient' = toClient \o ccs \o <<r>>
  BY <1>2, <1>4, <1>5, <1>6, <1>7 DEF server_says
<1>9. /\ IsServer(server') /\ server'.pc = server.pc /\ server'.trusted = server.trusted
      /\ server'.signs = server.signs /\ server'.transcript = t /\ server'.hello = server.hello
      /\ server'.said = SubSeq(s, n + 1, Len(s))
  BY <1>2, <1>3, <1>8 DEF IsServer
<1>10. Sayings(server'.said, t)
  <2>1. PICK k \in Nat \ {0} : k = n + 1
    OBVIOUS
  <2>2. Listed(SubSeq(s, k, Len(s))) /\ Range(SubSeq(s, k, Len(s))) \subseteq Range(s)
    BY <1>3, ListRest DEF Sayings
  <2> QED BY <1>3, <1>9, <2>1, <2>2 DEF Sayings
<1>11. \A i \in 1..n : SaidOf(s[i], t)
  <2>1. \A i \in 1..Len(s) : s[i] \in Range(s)
    BY <1>3 DEF Sayings, Listed, Range
  <2> QED BY <1>1, <1>2, <1>3, <2>1 DEF Sayings
<1>12. e.type = "handshake" => Carries(content, t)
  <2>1. SUFFICES ASSUME e.type = "handshake"
                 PROVE  Carries(content, t)
    OBVIOUS
  <2>2. content = [i \in 1..n |-> s[i].content]
    BY <1>6, <2>1
  <2>3. \A i \in 1..n : PieceOf(s[i].content, t)
    BY <1>1, <1>2, <1>4, <1>11, <2>1 DEF SaidOf
  <2>4. content = [i \in 1..n |-> content[i]] /\ \A i \in 1..n : content[i] = s[i].content
    BY <2>2
  <2>5. Listed(content) /\ \A x \in Range(content) : \E i \in 1..n : x = content[i]
    BY <2>4, ListFun
  <2> QED BY <2>3, <2>4, <2>5 DEF Carries
<1>13. RecordOf(r, t)
  BY <1>7, <1>12 DEF RecordOf, IsRecord, Record
<1>14. Incoming(ccs, t)
  BY <1>8, PlainFacts, IncomingFacts, ListNone DEF Incoming
<1>15. Incoming(toClient', t)
  BY <1>3, <1>8, <1>13, <1>14, IncomingFacts
<1>16. ServerSound'
  BY <1>1, <1>2, <1>3, <1>9, <1>10, <1>15 DEF ServerSound, Flight, Hellos
<1> QED BY <1>1, <1>2, <1>9, <1>16, ServerStep

\* The reply: its head, its body, and what ends a chunked one.
ReplyLength == 1 + BodyItems + IF server.framing = "chunked" THEN 2 ELSE 0
LEMMA ReplyList ==
  /\ ReplyItems \in Seq({"head", "body", "last", "blank"}) /\ Len(ReplyItems) = ReplyLength
  /\ ReplyLength \in Nat /\ ReplyLength > BodyItems /\ DOMAIN ReplyItems = 1..Len(ReplyItems)
  /\ ReplyItems[1] = "head"
  /\ \A i \in 2..ReplyLength : ReplyItems[i] = IF i <= BodyItems + 1 THEN "body"
                                               ELSE IF i = BodyItems + 2 THEN "last" ELSE "blank"
<1>s. PICK S : S = {"head", "body", "last", "blank"}
  OBVIOUS
<1>1. PICK a, b, c, ab, x : /\ a = <<"head">> /\ b = [i \in 1..BodyItems |-> "body"]
                            /\ c = IF server.framing = "chunked" THEN <<"last", "blank">> ELSE <<>>
                            /\ ab = a \o b /\ x = ab \o c
  OBVIOUS
<1>2. BodyItems \in Nat
  BY TlsAssumption
<1>3. a \in Seq(S) /\ Len(a) = 1 /\ a[1] = "head"
  BY <1>s, <1>1
<1>4. b \in Seq(S) /\ Len(b) = BodyItems /\ \A i \in 1..BodyItems : b[i] = "body"
  BY <1>s, <1>1, <1>2
<1>5. c \in Seq(S) /\ Len(c) \in {0, 2} /\ (Len(c) = 2 => c[1] = "last" /\ c[2] = "blank")
      /\ ReplyLength = 1 + BodyItems + Len(c)
  <2>1. CASE server.framing = "chunked"
    <3>1. c = <<"last", "blank">>
      BY <1>1, <2>1
    <3>2. c \in Seq(S) /\ Len(c) = 2 /\ c[1] = "last" /\ c[2] = "blank"
      BY <1>s, <3>1
    <3> QED BY <2>1, <3>2 DEF ReplyLength
  <2>2. CASE server.framing # "chunked"
    <3>1. c = <<>>
      BY <1>1, <2>2
    <3>2. c \in Seq(S) /\ Len(c) = 0
      BY <1>s, <3>1
    <3> QED BY <2>2, <3>2 DEF ReplyLength
  <2> QED BY <2>1, <2>2
<1>6. /\ ab \in Seq(S) /\ Len(ab) = 1 + BodyItems
      /\ \A i \in 1..1 + BodyItems : ab[i] = IF i <= 1 THEN a[i] ELSE b[i - 1]
  <2>1. /\ ab \in Seq(S) /\ Len(ab) = Len(a) + Len(b)
        /\ \A i \in 1..Len(a) + Len(b) : ab[i] = IF i <= Len(a) THEN a[i] ELSE b[i - Len(a)]
    <3>1. a \in Seq(S) /\ b \in Seq(S) /\ ab = a \o b
      BY <1>1, <1>3, <1>4
    <3> QED BY <3>1, ConcatProperties
  <2> QED BY <1>3, <1>4, <2>1
<1>7. /\ x \in Seq(S) /\ Len(x) = ReplyLength
      /\ \A i \in 1..ReplyLength : x[i] = IF i <= 1 + BodyItems THEN ab[i] ELSE c[i - (1 + BodyItems)]
  <2>1. /\ x \in Seq(S) /\ Len(x) = Len(ab) + Len(c)
        /\ \A i \in 1..Len(ab) + Len(c) : x[i] = IF i <= Len(ab) THEN ab[i] ELSE c[i - Len(ab)]
    <3>1. ab \in Seq(S) /\ c \in Seq(S) /\ x = ab \o c
      BY <1>1, <1>5, <1>6
    <3> QED BY <3>1, ConcatProperties
  <2> QED BY <1>5, <1>6, <2>1
<1>8. x = ReplyItems
  BY <1>1 DEF ReplyItems
<1>9. ReplyLength \in Nat /\ ReplyLength > BodyItems
  BY <1>2, <1>5
<1>10. x[1] = "head"
  <2>1. 1 \in 1..ReplyLength /\ 1 <= 1 + BodyItems /\ 1 \in 1..1 + BodyItems
    BY <1>2, <1>9
  <2> QED BY <1>3, <1>6, <1>7, <2>1
<1>11. ASSUME NEW i \in 2..ReplyLength
       PROVE  x[i] = IF i <= BodyItems + 1 THEN "body" ELSE IF i = BodyItems + 2 THEN "last" ELSE "blank"
  <2>1. i \in 1..ReplyLength
    BY <1>9
  <2>2. CASE i <= BodyItems + 1
    <3>1. i \in 1..1 + BodyItems /\ ~(i <= 1) /\ i - 1 \in 1..BodyItems
      BY <1>2, <2>2
    <3>2. x[i] = ab[i] /\ ab[i] = b[i - 1]
      BY <1>2, <1>6, <1>7, <2>1, <2>2, <3>1
    <3> QED BY <1>4, <2>2, <3>1, <3>2
  <2>3. CASE ~(i <= BodyItems + 1)
    <3>1. Len(c) = 2 /\ ((i - (1 + BodyItems) = 1 /\ i = BodyItems + 2) \/ (i - (1 + BodyItems) = 2 /\ i # BodyItems + 2))
      <4>1. PICK k : k = Len(c)
        OBVIOUS
      <4> QED BY <1>2, <1>5, <2>3, <4>1
    <3>2. x[i] = c[i - (1 + BodyItems)]
      BY <1>2, <1>7, <2>1, <2>3
    <3> QED BY <1>5, <2>3, <3>1, <3>2
  <2> QED BY <2>2, <2>3
<1> QED BY <1>7, <1>8, <1>9, <1>10, <1>11, <1>s

LEMMA ReplySayings ==
  ASSUME NEW t, NEW key, NEW tickets \in BOOLEAN, NEW update \in BOOLEAN
  PROVE  Sayings(Reply(key, tickets, update), t)
<1>1. Sayable(Ticket, t) /\ Sayable([kind |-> "KeyUpdate"], t)
  BY DEF Sayable, Ticket
<1>2. /\ Sayings(Pieces("handshake", key, Ticket, 2), t)
      /\ Sayings(Said("handshake", key, [kind |-> "KeyUpdate"]), t)
      /\ Sayings(Said("alert", key, "close_notify"), t) /\ Sayings(Said("eof", Plain, 0), t)
  BY <1>1, PiecesFacts
<1>3. PICK items, n : items = ReplyItems /\ n = Len(items)
  OBVIOUS
<1>4. n \in Nat /\ DOMAIN items = 1..n
  BY <1>3, ReplyList
<1>5. PICK data : data = [i \in 1..n |-> Said("data", key, items[i])[1]]
  OBVIOUS
<1>6. Sayings(data, t)
  <2>1. data = [i \in 1..n |-> data[i]]
    BY <1>5
  <2>2. Listed(data) /\ \A x \in Range(data) : \E i \in 1..n : x = data[i]
    BY <1>4, <2>1, ListFun
  <2>3. \A i \in 1..n : SaidOf(data[i], t)
    BY <1>5 DEF Said, Pieces, SaidOf, IsSaid
  <2> QED BY <2>2, <2>3 DEF Sayings
<1>7. PICK a, b, g, h :
        /\ a = IF tickets THEN Pieces("handshake", key, Ticket, 2) ELSE <<>>
        /\ b = IF update THEN Said("handshake", key, [kind |-> "KeyUpdate"]) ELSE <<>>
        /\ g = IF over = "tls" THEN Said("alert", key, "close_notify") ELSE <<>>
        /\ h = Said("eof", Plain, 0)
  OBVIOUS
<1>8. Sayings(a, t) /\ Sayings(b, t) /\ Sayings(g, t) /\ Sayings(h, t)
  BY <1>2, <1>7, SayingsFacts
<1>9. PICK reply : reply = a \o b \o data \o g \o h
  OBVIOUS
<1>10. Sayings(reply, t)
  BY <1>6, <1>8, <1>9, SayingsFacts
<1>11. Reply(key, tickets, update) = reply
  BY <1>3, <1>4, <1>5, <1>7, <1>9 DEF Reply
<1> QED BY <1>10, <1>11

LEMMA server_hears_step ==
  ASSUME ExInv, server_hears
  PROVE  ExInv'
<1>1. /\ server.pc \in {"Finished", "request"} /\ UNCHANGED <<over, held, clock, peer, sealed, faults>>
  BY DEF server_hears
<1>2. PICK t : t = server.transcript
  OBVIOUS
<1>3. /\ Flight(server) /\ Sayings(server.said, t) /\ Incoming(toClient, t) /\ IsServer(server)
      /\ server.hello.kind = "ServerHello"
  BY <1>2 DEF ExInv, ServerSound
<1>4. /\ IsServer(server') /\ server'.pc # "hello" /\ server'.trusted = server.trusted
      /\ server'.signs = server.signs /\ server'.transcript = t /\ server'.hello = server.hello
      /\ Sayings(server'.said, t) /\ Incoming(toClient', t)
  <2>1. CASE /\ server' = [server EXCEPT !.pc = "gone"]
             /\ toClient' = toClient \o <<Record("alert", server.key, server.n, "decrypt_error"), EndOfStream>>
    <3>1. Incoming(<<Record("alert", server.key, server.n, "decrypt_error"), EndOfStream>>, t)
      BY PlainFacts, IncomingFacts
    <3>2. Incoming(toClient', t)
      BY <1>3, <2>1, <3>1, IncomingFacts
    <3> QED BY <1>2, <1>3, <2>1, <3>2 DEF IsServer
  <2>2. ASSUME NEW tickets \in BOOLEAN, NEW update \in BOOLEAN, UNCHANGED toClient,
               server' = CASE server.pc = "Finished" -> [server EXCEPT !.pc = "request"]
                           [] server.pc = "request" /\ server.heard + 1 < RequestRecords ->
                                [server EXCEPT !.heard = @ + 1, !.read = IF over = "tls" THEN @ + 1 ELSE @]
                           [] OTHER -> [server EXCEPT !.heard = @ + 1, !.pc = "replied",
                                         !.said = Reply(IF over = "tls" THEN application_traffic("server", server.transcript)
                                                        ELSE Plain, tickets, update)]
        PROVE  /\ IsServer(server') /\ server'.pc # "hello" /\ server'.trusted = server.trusted
               /\ server'.signs = server.signs /\ server'.transcript = t /\ server'.hello = server.hello
               /\ Sayings(server'.said, t) /\ Incoming(toClient', t)
    <3>1. PICK reply : reply = Reply(IF over = "tls" THEN application_traffic("server", server.transcript)
                                     ELSE Plain, tickets, update)
      OBVIOUS
    <3>2. Sayings(reply, t)
      BY <3>1, ReplySayings
    <3>3. \/ server' = [server EXCEPT !.pc = "request"]
          \/ server' = [server EXCEPT !.heard = @ + 1, !.read = IF over = "tls" THEN @ + 1 ELSE @]
          \/ server' = [server EXCEPT !.heard = @ + 1, !.pc = "replied", !.said = reply]
      BY <1>1, <2>2, <3>1
    <3>4. /\ IsServer(server') /\ server'.pc # "hello" /\ server'.trusted = server.trusted
          /\ server'.signs = server.signs /\ server'.transcript = t /\ server'.hello = server.hello
          /\ server'.said \in {server.said, reply}
      BY <1>1, <1>2, <1>3, <3>3 DEF IsServer
    <3> QED BY <1>3, <2>2, <3>2, <3>4
  <2> QED BY <2>1, <2>2 DEF server_hears
<1>5. ServerSound'
  BY <1>2, <1>3, <1>4 DEF ServerSound, Flight
<1> QED BY <1>1, <1>2, <1>4, <1>5, ServerStep

LEMMA loopback_hears_step ==
  ASSUME ExInv, loopback_hears
  PROVE  ExInv'
<1>1. /\ over = "loopback" /\ server' = [server EXCEPT !.pc = "request"]
      /\ UNCHANGED <<over, held, clock, peer, toServer, toClient, sealed, faults>>
  BY DEF loopback_hears
<1>2. /\ IsServer(server') /\ server'.pc = "request" /\ server'.trusted = server.trusted
      /\ server'.signs = server.signs /\ server'.transcript = server.transcript
      /\ server'.hello = server.hello /\ server'.said = server.said
  BY <1>1 DEF ExInv, IsServer
<1>3. ServerSound'
  BY <1>1, <1>2 DEF ExInv, ServerSound, Flight
<1> QED BY <1>1, <1>2, <1>3, ServerStep

LEMMA server_cut_step ==
  ASSUME ExInv, server_cut
  PROVE  ExInv'
<1>1. /\ server' = [server EXCEPT !.pc = "gone", !.said = <<>>] /\ toClient' = Append(toClient, EndOfStream)
      /\ UNCHANGED <<over, peer, toServer, sealed>>
  BY DEF server_cut
<1>2. /\ IsServer(server') /\ server'.pc = "gone" /\ server'.trusted = server.trusted
      /\ server'.signs = server.signs /\ server'.transcript = server.transcript
      /\ server'.hello = server.hello /\ server'.said = <<>>
  BY <1>1 DEF ExInv, IsServer
<1>3. PICK t : t = server.transcript
  OBVIOUS
<1>4. Incoming(toClient', t)
  <2>1. Incoming(toClient, t) /\ Incoming(<<EndOfStream>>, t) /\ Listed(toClient)
    BY <1>3, PlainFacts, IncomingFacts DEF ExInv, ServerSound, Incoming
  <2>2. toClient' = toClient \o <<EndOfStream>>
    <3>1. toClient \in Seq(Range(toClient) \cup {EndOfStream})
      BY <2>1 DEF Listed
    <3> QED BY <1>1, <3>1
  <2> QED BY <2>1, <2>2, IncomingFacts
<1>5. ServerSound'
  BY <1>1, <1>2, <1>3, <1>4, SayingsFacts DEF ExInv, ServerSound, Flight
<1> QED BY <1>1, <1>2, <1>5, ServerStep

\* What damage leaves of a record.
LEMMA DamageFacts ==
  ASSUME NEW r, NEW t, RecordOf(r, t)
  PROVE  RecordOf(Broken(r), t) /\ (DamageableIn(r) => RecordOf(DamagedIn(r), t))
<1>1. IsRecord(r) /\ (r.type = "handshake" => Carries(r.content, t))
  BY DEF RecordOf
<1>2. RecordOf(Broken(r), t)
  <2>1. PICK b : b = [r EXCEPT !.key = <<"damaged">>]
    OBVIOUS
  <2>2. IsRecord(b) /\ b.type = r.type /\ b.content = r.content
    BY <1>1, <2>1 DEF IsRecord, Record
  <2> QED BY <1>1, <2>1, <2>2 DEF Broken, RecordOf
<1>3. ASSUME r.key = Plain, r.type = "handshake", r.content[1].message.kind = "ServerHello"
      PROVE  RecordOf(DamagedIn(r), t)
  <2>1. PICK c, q, m : c = r.content /\ q = c[1] /\ m = q.message
    OBVIOUS
  <2>2. PICK m2 : m2 = [m EXCEPT !.suite = "AES_256_GCM_SHA384"]
    OBVIOUS
  <2>3. PICK q2 : q2 = [q EXCEPT !.message = m2]
    OBVIOUS
  <2>4. PICK c2 : c2 = [c EXCEPT ![1] = q2]
    OBVIOUS
  <2>5. PICK r2 : r2 = [r EXCEPT !.content = c2]
    OBVIOUS
  <2>6. r2 = DamagedIn(r)
    BY <1>3, <2>1, <2>2, <2>3, <2>4, <2>5 DEF DamagedIn
  <2>7. m2.kind = "ServerHello"
    BY <1>3, <2>1, <2>2
  <2>8. Listed(c) /\ \A x \in Range(c) : PieceOf(x, t)
    BY <1>1, <1>3, <2>1 DEF Carries
  <2>9. c \in Seq(Range(c)) /\ Len(c) \in Nat /\ DOMAIN c = 1..Len(c)
    BY <2>8 DEF Listed
  <2>10. CASE Len(c) = 0
    <3>1. c2 = c
      BY <2>4, <2>9, <2>10
    <3>2. IsRecord(r2) /\ r2.content = c
      BY <1>1, <2>5, <3>1 DEF IsRecord, Record
    <3> QED BY <1>1, <2>1, <2>6, <2>8, <3>2 DEF RecordOf, Carries
  <2>11. CASE Len(c) # 0
    <3>1. 1 \in 1..Len(c) /\ q \in Range(c)
      BY <2>1, <2>9, <2>11 DEF Range
    <3>2. PieceOf(q, t)
      BY <2>8, <3>1
    <3>3. PieceOf(q2, t)
      BY <2>3, <2>7, <3>2 DEF PieceOf, IsPiece, Sayable
    <3>4. c2 \in Seq(Range(c) \cup {q2})
      <4>1. c \in Seq(Range(c) \cup {q2})
        BY <2>9
      <4> QED BY <2>4, <3>1, <4>1, ExceptSeq
    <3>5. Listed(c2) /\ Range(c2) \subseteq Range(c) \cup {q2}
      BY <3>4, ListOf
    <3>6. Carries(c2, t)
      BY <2>8, <3>3, <3>5 DEF Carries
    <3>7. IsRecord(r2) /\ r2.content = c2
      BY <1>1, <2>5 DEF IsRecord, Record
    <3> QED BY <2>6, <3>6, <3>7 DEF RecordOf
  <2> QED BY <2>9, <2>10, <2>11
<1>4. r.key # Plain => DamagedIn(r) = Broken(r)
  BY DEF DamagedIn
<1> QED BY <1>2, <1>3, <1>4 DEF DamageableIn

LEMMA network_step ==
  ASSUME ExInv, network
  PROVE  ExInv'
<1>1. UNCHANGED <<over, held, clock, peer, server, sealed>>
  BY DEF network
<1>2. PICK t, s : t = server.transcript /\ s = toClient
  OBVIOUS
<1>3. Incoming(s, t) /\ Listed(s) /\ (over = "tls" /\ server.pc = "hello" => Hellos(toServer))
  BY <1>2 DEF ExInv, ServerSound, Incoming
<1>4. CASE toServer # <<>> /\ toServer' = <<DamagedOut(Head(toServer))>> \o Tail(toServer) /\ UNCHANGED toClient
  <2>1. ASSUME Hellos(toServer)
        PROVE  Hellos(toServer')
    <3>1. PICK a, r : a = toServer /\ r = Head(toServer)
      OBVIOUS
    <3>2. Listed(Tail(a)) /\ Range(Tail(a)) \subseteq Range(a) /\ r \in Range(a)
      BY <1>4, <2>1, <3>1, ListTail DEF Hellos
    <3>3. PICK d : d = DamagedOut(r)
      OBVIOUS
    <3>4. IsRecord(r) /\ r.content.kind = "ClientHello"
      BY <2>1, <3>1, <3>2 DEF Hellos
    <3>5. IsRecord(d) /\ d.content.kind = "ClientHello"
      <4>1. CASE r.key = Plain
        <5>1. PICK c : c = [r.content EXCEPT !.suites = {"CHACHA20_POLY1305_SHA256"}]
          OBVIOUS
        <5>2. c.kind = "ClientHello" /\ d = [r EXCEPT !.content = c]
          BY <3>3, <3>4, <4>1, <5>1 DEF DamagedOut
        <5> QED BY <3>4, <5>2 DEF IsRecord, Record
      <4>2. CASE r.key # Plain
        BY <3>3, <3>4, <4>2 DEF DamagedOut, Broken, IsRecord, Record
      <4> QED BY <4>1, <4>2
    <3>6. Listed(<<d>>) /\ Range(<<d>>) = {d}
      BY ListOne
    <3>7. Listed(<<d>> \o Tail(a)) /\ Range(<<d>> \o Tail(a)) \subseteq {d} \cup Range(Tail(a))
      BY <3>2, <3>6, ListConcat
    <3>8. toServer' = <<d>> \o Tail(a)
      BY <1>4, <3>1, <3>3
    <3> QED BY <2>1, <3>1, <3>2, <3>5, <3>7, <3>8 DEF Hellos
  <2>2. ServerSound'
    BY <1>1, <1>4, <2>1 DEF ExInv, ServerSound, Flight
  <2> QED BY <1>1, <2>2, ServerStep DEF ExInv
<1>5. ASSUME UNCHANGED toServer, Incoming(toClient', t)
      PROVE  ExInv'
  <2>1. ServerSound'
    BY <1>1, <1>2, <1>5 DEF ExInv, ServerSound, Flight, Hellos
  <2> QED BY <1>1, <2>1, ServerStep DEF ExInv
<1>6. CASE toClient # <<>> /\ UNCHANGED toServer /\ DamageableIn(Head(toClient))
           /\ toClient' = <<DamagedIn(Head(toClient))>> \o Tail(toClient)
  <2>1. Incoming(Tail(s), t) /\ RecordOf(Head(s), t)
    BY <1>2, <1>3, <1>6, IncomingFacts
  <2>2. Incoming(<<DamagedIn(Head(s))>>, t)
    BY <1>2, <1>6, <2>1, DamageFacts, IncomingFacts
  <2> QED BY <1>2, <1>5, <1>6, <2>1, <2>2, IncomingFacts
<1>7. CASE toClient # <<>> /\ UNCHANGED toServer /\ toClient' = <<Head(toClient)>> \o toClient
  <2>1. RecordOf(Head(s), t)
    BY <1>2, <1>3, <1>7, IncomingFacts
  <2>2. Incoming(<<Head(s)>>, t)
    BY <2>1, IncomingFacts
  <2> QED BY <1>2, <1>3, <1>5, <1>7, <2>2, IncomingFacts
<1>8. CASE Len(toClient) > 1 /\ UNCHANGED toServer
           /\ toClient' = <<toClient[2], toClient[1]>> \o SubSeq(toClient, 3, Len(toClient))
  <2>1. s[1] \in Range(s) /\ s[2] \in Range(s)
    BY <1>2, <1>3, <1>8 DEF Listed, Range
  <2>2. Incoming(<<s[2], s[1]>>, t)
    BY <1>3, <2>1, IncomingFacts DEF Incoming
  <2>3. Incoming(SubSeq(s, 3, Len(s)), t)
    BY <1>3, ListRest DEF Incoming
  <2> QED BY <1>2, <1>5, <1>8, <2>2, <2>3, IncomingFacts
<1>9. CASE toClient' = <<Record("alert", Plain, 0, "close_notify")>> \o toClient /\ UNCHANGED toServer
  <2>1. PICK c : c = Record("alert", Plain, 0, "close_notify")
    OBVIOUS
  <2>2. RecordOf(c, t)
    BY <2>1 DEF RecordOf, IsRecord, Record
  <2>3. Incoming(<<c>>, t)
    BY <2>2, IncomingFacts
  <2> QED BY <1>2, <1>3, <1>5, <1>9, <2>1, <2>3, IncomingFacts
<1> QED BY <1>4, <1>6, <1>7, <1>8, <1>9 DEF network

\* Time passes, or nothing happens.
LEMMA Clock_step ==
  ASSUME ExInv, Clock \/ UNCHANGED tvars
  PROVE  ExInv'
<1>1. UNCHANGED <<over, peer, server, toServer, toClient, sealed>>
  BY DEF Clock, tvars
<1>2. ServerSound'
  BY <1>1 DEF ExInv, ServerSound, Flight, Hellos
<1> QED BY <1>1, <1>2, ServerStep DEF ExInv

-----------------------------------------------------------------------------
(* The steps of the client.                                                *)

\* A step that hears nothing of the handshake and seals nothing.
LEMMA PeerQuiet ==
  ASSUME ExInv, UNCHANGED <<over, server, sealed>>, ServerSound', IsPeer(peer'),
         peer'.transcript = peer.transcript, peer'.suite = peer.suite, peer'.out = peer.out,
         peer'.sent = peer.sent, peer'.established = peer.established,
         peer'.pc \in Early \cup Handshaking \cup Asking \cup {"answered", "refused"},
         \/ peer'.pc = peer.pc
         \/ peer'.pc \in {"answered", "refused"}
         \/ peer.pc \in Early /\ peer'.pc \in Early \cup {"ServerHello"}
         \/ over = "loopback" /\ peer'.pc \in Asking,
         over = "loopback" => peer'.pc \notin Handshaking \cup {"hello"},
         over = "tls" /\ peer'.pc \in Early => peer'.pending = <<>>,
         over = "tls" /\ peer'.pc \in Handshaking => Carries(peer'.pending, server.transcript)
  PROVE  ExInv'
<1>1. EndsAgree'
  BY DEF ExInv, EndsAgree
<1>2. over = "tls" => (Heard(peer, peer.transcript))'
  BY DEF ExInv, ClientSound, Heard, Chose, Early, Handshaking, Asking
<1>3. ClientSound'
  BY <1>2 DEF ExInv, ClientSound, Early, Handshaking, Asking
<1>4. SealSound'
  BY DEF ExInv, SealSound, SealedBy, SealedOnce, Early, Handshaking, Asking
<1> QED BY <1>1, <1>3, <1>4 DEF ExInv

\* The streams of a step of the client: what it reads is gone, what it writes
\* while the server waits for a hello is one.
LEMMA PeerStreams ==
  ASSUME ExInv, UNCHANGED server, over' = over,
         toClient' = toClient \/ (toClient # <<>> /\ toClient' = Tail(toClient)),
         toServer' = toServer \/ ~(over = "tls" /\ server.pc = "hello")
  PROVE  ServerSound'
<1>1. Incoming(toClient', server.transcript)
  BY IncomingFacts, ZenonT(60) DEF ExInv, ServerSound
<1> QED BY <1>1 DEF ExInv, ServerSound, Flight, Hellos

LEMMA RefusedFacts ==
  ASSUME ExInv
  PROVE  /\ IsPeer(Refused(peer)) /\ Refused(peer).pc = "refused"
         /\ Refused(peer).transcript = peer.transcript /\ Refused(peer).suite = peer.suite
         /\ Refused(peer).out = peer.out /\ Refused(peer).sent = peer.sent
         /\ Refused(peer).established = peer.established
BY DEF ExInv, IsPeer, Refused

LEMMA RefusedStep ==
  ASSUME ExInv, UNCHANGED <<over, server, sealed>>, ServerSound', peer' = Refused(peer)
  PROVE  ExInv'
<1>1. PICK p : p = Refused(peer)
  OBVIOUS
<1>2. /\ IsPeer(p) /\ p.pc = "refused" /\ p.transcript = peer.transcript /\ p.suite = peer.suite
      /\ p.out = peer.out /\ p.sent = peer.sent /\ p.established = peer.established
  BY <1>1, RefusedFacts
<1>3. peer' = p
  BY <1>1
<1> QED BY <1>2, <1>3, PeerQuiet DEF Early, Handshaking

\* The client goes on to another place and changes nothing else but the address.
LEMMA MovesStep ==
  ASSUME ExInv, UNCHANGED <<over, server, sealed>>, ServerSound', NEW q, NEW address,
         peer' = [peer EXCEPT !.pc = q, !.address = address], peer.pc \in Early,
         \/ q \in {"exchange", "connect"}
         \/ q \in {"hello", "ServerHello"} /\ over = "tls"
         \/ q = "send" /\ over = "loopback"
  PROVE  ExInv'
<1>1. /\ IsPeer(peer') /\ peer'.pc = q /\ peer'.transcript = peer.transcript
      /\ peer'.suite = peer.suite /\ peer'.out = peer.out /\ peer'.sent = peer.sent
      /\ peer'.established = peer.established /\ peer'.pending = peer.pending
  BY DEF ExInv, IsPeer
<1>2. over = "tls" => peer.pending = <<>> /\ Carries(peer.pending, server.transcript)
  BY ListNone DEF ExInv, ClientSound, Carries
<1> QED BY <1>1, <1>2, PeerQuiet DEF Early, Handshaking, Asking

LEMMA ExchangeStep ==
  ASSUME ExInv, exchange \/ tcp_connect \/ passed \/ hello
  PROVE  ExInv'
<1>1. UNCHANGED <<over, server, sealed, toClient>>
  BY DEF exchange, tcp_connect, passed, hello
<1>2. ASSUME exchange \/ tcp_connect \/ passed
      PROVE  ServerSound'
  <2>1. toServer' = toServer
    BY <1>2 DEF exchange, tcp_connect, passed
  <2> QED BY <1>1, <2>1, PeerStreams
<1>3. CASE exchange
  <2>1. peer.pc = "exchange" /\ (peer' = [peer EXCEPT !.pc = "connect"] \/ peer' = Refused(peer))
    BY <1>3 DEF exchange
  <2>2. CASE peer' = [peer EXCEPT !.pc = "connect"]
    <3>1. peer' = [peer EXCEPT !.pc = "connect", !.address = peer.address]
      BY <2>2 DEF ExInv, IsPeer
    <3> QED BY <1>1, <1>2, <1>3, <2>1, <3>1, MovesStep DEF Early
  <2> QED BY <1>1, <1>2, <1>3, <2>1, <2>2, RefusedStep
<1>4. CASE tcp_connect
  <2>1. /\ peer.pc = "connect"
        /\ \/ peer' = [peer EXCEPT !.pc = IF over = "tls" THEN "hello" ELSE "send"]
           \/ peer' = [peer EXCEPT !.address = @ + 1]
           \/ peer' = Refused(peer)
    BY <1>4 DEF tcp_connect
  <2>2. CASE peer' = [peer EXCEPT !.pc = IF over = "tls" THEN "hello" ELSE "send"]
    <3>1. PICK q : q = IF over = "tls" THEN "hello" ELSE "send"
      OBVIOUS
    <3>2. peer' = [peer EXCEPT !.pc = q, !.address = peer.address]
      BY <2>2, <3>1 DEF ExInv, IsPeer
    <3> QED BY <1>1, <1>2, <1>4, <2>1, <3>1, <3>2, MovesStep DEF Early, ExInv
  <2>3. CASE peer' = [peer EXCEPT !.address = @ + 1]
    <3>1. PICK address : address = peer.address + 1
      OBVIOUS
    <3>2. peer' = [peer EXCEPT !.pc = "connect", !.address = address]
      BY <2>1, <2>3, <3>1 DEF ExInv, IsPeer
    <3> QED BY <1>1, <1>2, <1>4, <2>1, <3>2, MovesStep DEF Early
  <2> QED BY <1>1, <1>2, <1>4, <2>1, <2>2, <2>3, RefusedStep
<1>5. CASE passed
  <2>1. peer' = Refused(peer)
    BY <1>5 DEF passed
  <2> QED BY <1>1, <1>2, <1>5, <2>1, RefusedStep
<1>6. CASE hello
  <2>1. /\ peer.pc = "hello" /\ peer' = [peer EXCEPT !.pc = "ServerHello"]
        /\ toServer' = Append(toServer, Record("handshake", Plain, 0, client_hello))
    BY <1>6 DEF hello
  <2>2. over = "tls"
    BY <2>1 DEF ExInv, ClientSound
  <2>3. peer' = [peer EXCEPT !.pc = "ServerHello", !.address = peer.address]
    BY <2>1 DEF ExInv, IsPeer
  <2>4. Hellos(toServer) => Hellos(toServer')
    <3>1. PICK a, r : a = toServer /\ r = Record("handshake", Plain, 0, client_hello)
      OBVIOUS
    <3>2. IsRecord(r) /\ r.content.kind = "ClientHello"
      BY <3>1 DEF IsRecord, Record, client_hello
    <3>3. ASSUME Hellos(a)
          PROVE  Hellos(Append(a, r))
      <4>1. a \in Seq(Range(a) \cup {r})
        BY <3>3 DEF Hellos, Listed
      <4>2. Append(a, r) \in Seq(Range(a) \cup {r})
        BY <4>1
      <4>3. Listed(Append(a, r)) /\ Range(Append(a, r)) \subseteq Range(a) \cup {r}
        BY <4>2, ListOf
      <4> QED BY <3>2, <3>3, <4>3 DEF Hellos
    <3> QED BY <2>1, <3>1, <3>3
  <2>5. ServerSound'
    BY <1>1, <2>4 DEF ExInv, ServerSound, Flight
  <2> QED BY <1>1, <2>1, <2>2, <2>3, <2>5, MovesStep DEF Early
<1> QED BY <1>3, <1>4, <1>5, <1>6

LEMMA OpenFacts ==
  ASSUME IsPeer(peer), NEW r
  PROVE  /\ IsPeer(open(peer, r)) /\ open(peer, r).pc = peer.pc
         /\ open(peer, r).transcript = peer.transcript /\ open(peer, r).suite = peer.suite
         /\ open(peer, r).out = peer.out /\ open(peer, r).sent = peer.sent
         /\ open(peer, r).established = peer.established /\ open(peer, r).pending = peer.pending
BY DEF IsPeer, open

LEMMA receive_handshake_step ==
  ASSUME ExInv, receive_handshake
  PROVE  ExInv'
<1>1. PICK r : r = Head(toClient)
  OBVIOUS
<1>2. /\ peer.pc \in Handshaking /\ toClient # <<>> /\ toClient' = Tail(toClient)
      /\ UNCHANGED <<over, server, toServer, sealed>>
      /\ \/ peer' = peer
         \/ peer' = Refused(peer)
         \/ r.type = "handshake" /\ peer' = [open(peer, r) EXCEPT !.pending = @ \o r.content]
  <2>1. /\ peer.pc \in Handshaking /\ toClient # <<>> /\ toClient' = Tail(toClient)
        /\ UNCHANGED <<over, server, toServer, sealed>>
        /\ peer' = CASE r.type = "change_cipher_spec" -> peer
                    [] r.type # "change_cipher_spec" /\ (Fails(r) \/ record_closes(r) \/ r.type # "handshake" \/ r.content = <<>>) -> Refused(peer)
                    [] OTHER -> [open(peer, r) EXCEPT !.pending = @ \o r.content]
    BY <1>1 DEF receive_handshake
  <2>2. CASE r.type = "change_cipher_spec"
    BY <2>1, <2>2
  <2>3. CASE r.type # "change_cipher_spec" /\ (Fails(r) \/ record_closes(r) \/ r.type # "handshake" \/ r.content = <<>>)
    BY <2>1, <2>3
  <2>4. CASE r.type # "change_cipher_spec" /\ ~(Fails(r) \/ record_closes(r) \/ r.type # "handshake" \/ r.content = <<>>)
    BY <2>1, <2>4
  <2> QED BY <2>1, <2>2, <2>3, <2>4
<1>3. ServerSound'
  BY <1>2, PeerStreams
<1>4. /\ over = "tls" /\ Carries(peer.pending, server.transcript)
      /\ RecordOf(r, server.transcript)
  BY <1>1, <1>2, IncomingFacts DEF ExInv, ClientSound, ServerSound
<1>5. CASE peer' = peer
  BY <1>2, <1>3, <1>4, <1>5, PeerQuiet DEF ExInv, ClientSound, Early, Handshaking
<1>6. CASE r.type = "handshake" /\ peer' = [open(peer, r) EXCEPT !.pending = @ \o r.content]
  <2>1. PICK p, pending : p = open(peer, r) /\ pending = peer.pending \o r.content
    OBVIOUS
  <2>2. /\ IsPeer(p) /\ p.pc = peer.pc /\ p.transcript = peer.transcript /\ p.suite = peer.suite
        /\ p.out = peer.out /\ p.sent = peer.sent /\ p.established = peer.established
        /\ p.pending = peer.pending
    BY <2>1, OpenFacts DEF ExInv
  <2>3. peer' = [p EXCEPT !.pending = pending]
    BY <1>6, <2>1, <2>2
  <2>4. /\ IsPeer(peer') /\ peer'.pc = peer.pc /\ peer'.transcript = peer.transcript
        /\ peer'.suite = peer.suite /\ peer'.out = peer.out /\ peer'.sent = peer.sent
        /\ peer'.established = peer.established /\ peer'.pending = pending
    BY <2>2, <2>3 DEF IsPeer
  <2>5. Carries(pending, server.transcript)
    <3>1. Carries(r.content, server.transcript)
      BY <1>4, <1>6 DEF RecordOf
    <3> QED BY <1>4, <2>1, <3>1, ListConcat DEF Carries
  <2> QED BY <1>2, <1>3, <1>4, <2>4, <2>5, PeerQuiet DEF Early, Handshaking
<1> QED BY <1>2, <1>3, <1>5, <1>6, RefusedStep

\* What is read after the handshake.
LEMMA receive_step ==
  ASSUME ExInv, receive
  PROVE  ExInv'
<1>1. PICK r : r = Head(toClient)
  OBVIOUS
<1>2. /\ peer.pc = "reply" /\ toClient # <<>> /\ toClient' = Tail(toClient)
      /\ UNCHANGED <<over, server, toServer, sealed>>
      /\ \/ peer' = Refused(peer)
         \/ \E c \in {"sealed", "clear"} : peer' = [peer EXCEPT !.closed = c]
         \/ peer' = [peer EXCEPT !.got = @ \o r.content]
         \/ peer' = [open(peer, r) EXCEPT !.got = @ \o r.content]
         \/ peer' = [open(peer, r) EXCEPT !.pending = Undropped(@ \o r.content)]
  BY <1>1 DEF receive
<1>3. ServerSound'
  BY <1>2, PeerStreams
<1>4. CASE peer' = Refused(peer)
  BY <1>2, <1>3, <1>4, RefusedStep
<1>5. CASE peer' # Refused(peer)
  <2>1. PICK p : p = open(peer, r)
    OBVIOUS
  <2>2. /\ IsPeer(p) /\ p.pc = peer.pc /\ p.transcript = peer.transcript /\ p.suite = peer.suite
        /\ p.out = peer.out /\ p.sent = peer.sent /\ p.established = peer.established
    BY <2>1, OpenFacts DEF ExInv
  <2>3. PICK got, more, pending :
          got = peer.got \o r.content /\ more = p.got \o r.content /\ pending = Undropped(p.pending \o r.content)
    OBVIOUS
  <2>4. \/ \E c \in {"sealed", "clear"} : peer' = [peer EXCEPT !.closed = c]
        \/ peer' = [peer EXCEPT !.got = got]
        \/ peer' = [p EXCEPT !.got = more]
        \/ peer' = [p EXCEPT !.pending = pending]
    BY <1>2, <1>5, <2>1, <2>3
  <2>5. /\ IsPeer(peer') /\ peer'.pc = peer.pc /\ peer'.transcript = peer.transcript
        /\ peer'.suite = peer.suite /\ peer'.out = peer.out /\ peer'.sent = peer.sent
        /\ peer'.established = peer.established
    BY <2>2, <2>4 DEF ExInv, IsPeer
  <2> QED BY <1>2, <1>3, <2>5, PeerQuiet DEF Early, Handshaking, Asking
<1> QED BY <1>4, <1>5

\* Nothing in the clear is sealed.
LEMMA loopback_send_step ==
  ASSUME ExInv, loopback_send
  PROVE  ExInv'
<1>1. /\ peer.pc = "send" /\ over = "loopback" /\ peer' = Asked
      /\ UNCHANGED <<over, server, toClient, sealed>>
  BY DEF loopback_send
<1>2. ServerSound'
  BY <1>1, PeerStreams
<1>3. /\ IsPeer(peer') /\ peer'.pc \in Asking /\ peer'.transcript = peer.transcript
      /\ peer'.suite = peer.suite /\ peer'.out = peer.out /\ peer'.sent = peer.sent
      /\ peer'.established = peer.established
  BY <1>1 DEF ExInv, IsPeer, Asked, Asking
<1> QED BY <1>1, <1>2, <1>3, PeerQuiet DEF Early, Handshaking, Asking

\* One record more under the outgoing key, with a number it has not used.
LEMMA SealsOne ==
  ASSUME ExInv, over = "tls", peer.pc \in Asking, sealed' = Append(sealed, <<peer.out, peer.sent>>)
  PROVE  /\ SealedOnce' /\ (\E K : sealed \in Seq(K \X Nat))'
         /\ \A i \in DOMAIN sealed' : sealed'[i][1][1] = <<"client", "hs_traffic">>
                                      \/ (sealed'[i][1] = peer.out /\ sealed'[i][2] < peer.sent + 1)
<1>1. PICK K : sealed \in Seq(K \X Nat)
  BY DEF ExInv, SealSound
<1>2. PICK L, e : L = K \cup {peer.out} /\ e = <<peer.out, peer.sent>>
  OBVIOUS
<1>3. peer.sent \in Nat /\ e \in L \X Nat /\ e[1] = peer.out /\ e[2] = peer.sent
  BY <1>2 DEF ExInv, SealSound
<1>4. sealed \in Seq(L \X Nat) /\ Len(sealed) \in Nat
  BY <1>1, <1>2
<1>5. /\ sealed' \in Seq(L \X Nat) /\ DOMAIN sealed' = 1..(Len(sealed) + 1) /\ DOMAIN sealed = 1..Len(sealed)
      /\ sealed'[Len(sealed) + 1] = e /\ \A i \in 1..Len(sealed) : sealed'[i] = sealed[i]
  BY <1>2, <1>3, <1>4
<1>6. /\ peer.out[1] = <<"client", "ap_traffic">>
      /\ \A i \in 1..Len(sealed) : sealed[i][1][1] = <<"client", "hs_traffic">>
                                   \/ (sealed[i][1] = peer.out /\ sealed[i][2] < peer.sent)
  BY <1>5 DEF ExInv, SealSound, SealedBy
<1>7. \A i \in 1..Len(sealed) : sealed[i] # e
  <2>1. <<"client", "ap_traffic">> # <<"client", "hs_traffic">>
    OBVIOUS
  <2> QED BY <1>3, <1>6, <2>1
<1>8. SealedOnce'
  <2>1. \A i, j \in 1..Len(sealed) : i # j => sealed[i] # sealed[j]
    BY <1>5 DEF ExInv, SealSound, SealedOnce
  <2>2. ASSUME NEW i \in DOMAIN sealed', NEW j \in DOMAIN sealed', i # j
        PROVE  sealed'[i] # sealed'[j]
    <3>1. CASE i \in 1..Len(sealed) /\ j \in 1..Len(sealed)
      BY <1>5, <2>1, <2>2, <3>1
    <3>2. CASE i = Len(sealed) + 1 /\ j \in 1..Len(sealed)
      BY <1>5, <1>7, <3>2
    <3>3. CASE j = Len(sealed) + 1 /\ i \in 1..Len(sealed)
      BY <1>5, <1>7, <3>3
    <3> QED BY <1>4, <1>5, <2>2, <3>1, <3>2, <3>3
  <2> QED BY <2>2 DEF SealedOnce
<1>9. \A i \in 1..Len(sealed) : sealed[i] \in L \X Nat
  BY <1>4
<1>10. \A i \in DOMAIN sealed' : sealed'[i][1][1] = <<"client", "hs_traffic">>
                                 \/ (sealed'[i][1] = peer.out /\ sealed'[i][2] < peer.sent + 1)
  BY <1>3, <1>4, <1>5, <1>6, <1>9
<1> QED BY <1>5, <1>8, <1>10

LEMMA SealingStep ==
  ASSUME ExInv, over = "tls", peer.pc \in Asking, sealed' = Append(sealed, <<peer.out, peer.sent>>),
         UNCHANGED <<over, server>>, ServerSound', IsPeer(peer'),
         peer'.transcript = peer.transcript, peer'.suite = peer.suite, peer'.out = peer.out,
         peer'.established = peer.established,
         \/ peer'.pc \in Asking /\ peer'.sent = peer.sent + 1
         \/ peer'.pc \in {"answered", "refused"} /\ peer'.sent = peer.sent
  PROVE  ExInv'
<1>1. EndsAgree'
  BY DEF ExInv, EndsAgree
<1>2. ClientSound'
  BY DEF ExInv, ClientSound, Heard, Early, Handshaking, Asking
<1>3. SealSound'
  <2>1. /\ SealedOnce' /\ (\E K : sealed \in Seq(K \X Nat))'
        /\ \A i \in DOMAIN sealed' : sealed'[i][1][1] = <<"client", "hs_traffic">>
                                     \/ (sealed'[i][1] = peer.out /\ sealed'[i][2] < peer.sent + 1)
    BY SealsOne
  <2>2. peer.sent \in Nat /\ peer'.sent \in Nat /\ peer.out[1] = <<"client", "ap_traffic">>
    BY DEF ExInv, SealSound
  <2>3. peer'.pc \notin Early \cup Handshaking
    BY DEF Early, Handshaking, Asking
  <2>4. peer'.pc \in Asking => peer'.sent = peer.sent + 1
    BY DEF Asking
  <2> QED BY <2>1, <2>2, <2>3, <2>4 DEF SealSound, SealedBy
<1> QED BY <1>1, <1>2, <1>3 DEF ExInv

LEMMA AskingFacts ==
  ASSUME ExInv, over = "tls", peer.pc \in Asking
  PROVE  server.pc # "hello"
BY DEF ExInv, ClientSound, ServerSound

LEMMA send_step ==
  ASSUME ExInv, send
  PROVE  ExInv'
<1>1. /\ peer.pc = "send" /\ over = "tls" /\ sealed' = Append(sealed, <<peer.out, peer.sent>>)
      /\ UNCHANGED <<over, server, toClient>>
      /\ peer' = advance(Asked) \/ peer' = Refused(peer)
  BY DEF send
<1>2. ServerSound'
  BY <1>1, AskingFacts, PeerStreams DEF Asking
<1>3. CASE peer' = advance(Asked)
  <2>1. PICK p : p = Asked
    OBVIOUS
  <2>2. /\ IsPeer(p) /\ p.pc \in Asking /\ p.transcript = peer.transcript /\ p.suite = peer.suite
        /\ p.out = peer.out /\ p.sent = peer.sent /\ p.established = peer.established
    BY <1>1, <2>1 DEF ExInv, IsPeer, Asked, Asking
  <2>3. peer' = [p EXCEPT !.sent = @ + 1]
    BY <1>3, <2>1 DEF advance
  <2>4. /\ IsPeer(peer') /\ peer'.pc \in Asking /\ peer'.transcript = peer.transcript
        /\ peer'.suite = peer.suite /\ peer'.out = peer.out /\ peer'.sent = peer.sent + 1
        /\ peer'.established = peer.established
    BY <2>2, <2>3 DEF IsPeer
  <2> QED BY <1>1, <1>2, <2>4, SealingStep DEF Asking
<1>4. CASE peer' = Refused(peer)
  <2>1. PICK p : p = Refused(peer)
    OBVIOUS
  <2>2. /\ IsPeer(p) /\ p.pc = "refused" /\ p.transcript = peer.transcript /\ p.suite = peer.suite
        /\ p.out = peer.out /\ p.sent = peer.sent /\ p.established = peer.established
    BY <2>1, RefusedFacts
  <2> QED BY <1>1, <1>2, <1>4, <2>1, <2>2, SealingStep DEF Asking
<1> QED BY <1>1, <1>3, <1>4

LEMMA read_reply_step ==
  ASSUME ExInv, read_reply
  PROVE  ExInv'
<1>1. /\ peer.pc = "reply" /\ UNCHANGED <<over, server, toClient>>
      /\ \/ peer' = [peer EXCEPT !.pc = "answered"]
            /\ (toServer' = toServer \/ over = "tls")
            /\ sealed' = IF over = "tls" THEN Append(sealed, <<peer.out, peer.sent>>) ELSE sealed
         \/ peer' = Refused(peer) /\ UNCHANGED <<toServer, sealed>>
  BY DEF read_reply
<1>2. ServerSound'
  BY <1>1, AskingFacts, PeerStreams DEF Asking
<1>3. CASE /\ peer' = [peer EXCEPT !.pc = "answered"]
           /\ sealed' = IF over = "tls" THEN Append(sealed, <<peer.out, peer.sent>>) ELSE sealed
  <2>1. /\ IsPeer(peer') /\ peer'.pc = "answered" /\ peer'.transcript = peer.transcript
        /\ peer'.suite = peer.suite /\ peer'.out = peer.out /\ peer'.sent = peer.sent
        /\ peer'.established = peer.established
    BY <1>3 DEF ExInv, IsPeer
  <2>2. CASE over = "tls"
    BY <1>1, <1>2, <1>3, <2>1, <2>2, SealingStep DEF Asking
  <2>3. CASE over # "tls"
    BY <1>1, <1>2, <1>3, <2>1, <2>3, PeerQuiet DEF Early, Handshaking, Asking
  <2> QED BY <2>2, <2>3
<1> QED BY <1>1, <1>2, <1>3, RefusedStep

-----------------------------------------------------------------------------
(* The messages of the flight.                                             *)

\* The two ends' transcripts agree when their hashes do, up to the proofs.
LEMMA FinishedFacts ==
  ASSUME NEW h2, NEW h3, NEW h4, NEW h5, NEW t,
         h2.kind = "ServerHello", h3.kind = "EncryptedExtensions", h4.kind = "Certificate",
         h5.kind = "CertificateVerify", h5 = t[5], t = <<t[1], t[2], t[3], t[4], t[5], t[6]>>,
         t[1].kind = "ClientHello", t[2].kind = "ServerHello", t[3].kind = "EncryptedExtensions",
         t[4].kind \in {"Certificate", "CertificateRequest"},
         t[6] \in {finished("server", <<t[1], t[2], t[3], t[4]>>),
                   finished("server", <<t[1], t[2], t[3], t[4], t[5]>>)},
         t[6] = finished("server", <<client_hello, h2, h3, h4, h5>>)
  PROVE  /\ client_hello = t[1] /\ h2 = t[2] /\ h3 = t[3] /\ h4 = t[4]
         /\ t = <<client_hello, h2, h3, h4, h5, t[6]>>
<1>1. \A a, b : finished("server", a) = finished("server", b) => Contents(a) = Contents(b)
  <2>1. ASSUME NEW a, NEW b, finished("server", a) = finished("server", b)
        PROVE  Contents(a) = Contents(b)
    <3>1. PICK x, y : x = Contents(a) /\ y = Contents(b)
      OBVIOUS
    <3>2. [kind |-> "Finished", of |-> <<<<"server", "finished">>, x>>]
          = [kind |-> "Finished", of |-> <<<<"server", "finished">>, y>>]
      BY <2>1, <3>1 DEF finished, derive_secret, digest
    <3>3. <<<<"server", "finished">>, x>> = <<<<"server", "finished">>, y>>
      BY <3>2
    <3> QED BY <3>1, <3>3
  <2> QED BY <2>1
<1>2. PICK p, four, five : /\ p = <<client_hello, h2, h3, h4, h5>>
                           /\ four = <<t[1], t[2], t[3], t[4]>>
                           /\ five = <<t[1], t[2], t[3], t[4], t[5]>>
  OBVIOUS
<1>3. Contents(p) \in {Contents(four), Contents(five)}
  BY <1>1, <1>2
<1>4. DOMAIN Contents(p) = 1..5 /\ DOMAIN Contents(four) = 1..4
  BY <1>2 DEF Contents
<1>5. Contents(p) = Contents(five)
  <2>1. 5 \in 1..5 /\ 5 \notin 1..4
    OBVIOUS
  <2> QED BY <1>3, <1>4, <2>1
<1>6. \A i \in 1..5 : Content(p[i]) = Content(five[i])
  <2>1. \A i \in 1..5 : Contents(p)[i] = Content(p[i]) /\ Contents(five)[i] = Content(five[i])
    BY <1>2 DEF Contents
  <2> QED BY <1>5, <2>1
<1>7. /\ p[1] = client_hello /\ p[2] = h2 /\ p[3] = h3 /\ p[4] = h4
      /\ five[1] = t[1] /\ five[2] = t[2] /\ five[3] = t[3] /\ five[4] = t[4]
  BY <1>2
<1>8. /\ Content(client_hello) = Content(t[1]) /\ Content(h2) = Content(t[2])
      /\ Content(h3) = Content(t[3]) /\ Content(h4) = Content(t[4])
  BY <1>6, <1>7
<1>9. client_hello = t[1] /\ h2 = t[2] /\ h3 = t[3] /\ h4 = t[4]
  <2>1. client_hello.kind = "ClientHello"
    BY DEF client_hello
  <2> QED BY <1>8, <2>1 DEF Content
<1> QED BY <1>9

\* The message that comes next was said by the server, and what is left after it too.
LEMMA MessageFacts ==
  ASSUME ExInv, peer.pc \in Handshaking, Whole(peer.pending)
  PROVE  /\ over = "tls" /\ Sayable(Message, server.transcript)
         /\ Carries(Rest(peer.pending), server.transcript)
<1>1. over = "tls" /\ Carries(peer.pending, server.transcript)
  BY DEF ExInv, ClientSound
<1>2. PICK a, q, t : a = peer.pending /\ q = a[1] /\ t = server.transcript
  OBVIOUS
<1>3. Listed(a) /\ a # <<>> /\ \A x \in Range(a) : PieceOf(x, t)
  BY <1>1, <1>2 DEF Carries, Whole
<1>4. q \in Range(a)
  BY <1>2, <1>3, ListTail
<1>5. PieceOf(q, t)
  BY <1>3, <1>4
<1>6. q.pieces + 1 \in Nat \ {0} /\ Sayable(q.message, t)
  BY <1>5 DEF PieceOf, IsPiece
<1>7. PICK k \in Nat \ {0} : k = q.pieces + 1
  BY <1>6
<1>8. Listed(SubSeq(a, k, Len(a))) /\ Range(SubSeq(a, k, Len(a))) \subseteq Range(a)
  BY <1>3, ListRest
<1>9. Rest(peer.pending) = SubSeq(a, k, Len(a))
  BY <1>2, <1>7 DEF Rest
<1>10. Carries(Rest(peer.pending), t)
  BY <1>3, <1>8, <1>9 DEF Carries
<1> QED BY <1>1, <1>2, <1>6, <1>10 DEF Message

\* What the kind of a message tells about its place in the flight.
LEMMA PlaceFacts ==
  ASSUME ExInv, NEW m, Sayable(m, server.transcript)
  PROVE  /\ m.kind = "CertificateVerify" =>
              server.transcript # <<>> /\ m = server.transcript[5]
         /\ m.kind = "Finished" =>
              server.transcript # <<>> /\ m = server.transcript[6]
<1>1. PICK t : t = server.transcript
  OBVIOUS
<1>2. ASSUME m.kind \in {"CertificateVerify", "Finished"}
      PROVE  t # <<>> /\ m \in {t[3], t[4], t[5], t[6]}
  BY <1>1, <1>2 DEF Sayable
<1>3. t # <<>> => /\ t[3].kind = "EncryptedExtensions" /\ t[4].kind \in {"Certificate", "CertificateRequest"}
                  /\ t[5].kind = "CertificateVerify"
                  /\ t[6] \in {finished("server", <<t[1], t[2], t[3], t[4]>>),
                               finished("server", <<t[1], t[2], t[3], t[4], t[5]>>)}
  BY <1>1 DEF ExInv, ServerSound, Flight
<1>4. t # <<>> => t[6].kind = "Finished"
  BY <1>3 DEF finished
<1> QED BY <1>1, <1>2, <1>3, <1>4

\* A message before the Finished is transcribed.
LEMMA TranscribedFacts ==
  ASSUME ExInv, peer.pc \in Handshaking, NEW m, NEW p, p = Transcribed(m)
  PROVE  /\ IsPeer(p) /\ p.pc = NextPlace[peer.pc] /\ p.transcript = Append(peer.transcript, m)
         /\ p.pending = Rest(peer.pending) /\ p.suite = peer.suite /\ p.out = peer.out
         /\ p.sent = peer.sent /\ p.established = peer.established
<1>1. PICK pending, transcript, q : /\ pending = Rest(peer.pending) /\ q = NextPlace[peer.pc]
                                    /\ transcript = Append(peer.transcript, m)
  OBVIOUS
<1>2. p = [peer EXCEPT !.pending = pending, !.transcript = transcript, !.pc = q]
  BY <1>1 DEF Transcribed
<1> QED BY <1>1, <1>2 DEF ExInv, IsPeer

LEMMA EarlierStep ==
  ASSUME ExInv, peer.pc \in Handshaking, Whole(peer.pending), NEW m, m = Message,
         UNCHANGED <<over, server, sealed>>, ServerSound', IsPeer(peer'), Expected(m),
         peer'.pc = NextPlace[peer.pc], peer'.transcript = Append(peer.transcript, m),
         peer'.sent = peer.sent, peer'.established = peer.established,
         peer'.pending = Rest(peer.pending),
         \/ /\ peer.pc = "ServerHello" /\ peer'.suite = m.suite
            /\ peer'.out[1] = <<"client", "hs_traffic">>
         \/ /\ peer.pc \in {"EncryptedExtensions", "Certificate", "CertificateVerify"}
            /\ peer'.suite = peer.suite /\ peer'.out = peer.out
  PROVE  ExInv'
<1>1. /\ over = "tls" /\ Sayable(m, server.transcript) /\ Carries(peer'.pending, server.transcript)
  BY MessageFacts
<1>2. PICK t : t = peer.transcript
  OBVIOUS
<1>3. Heard(peer, t) /\ ~peer.established
  BY <1>1, <1>2 DEF ExInv, ClientSound
<1>4. (Heard(peer, peer.transcript))' /\ peer'.pc \in Handshaking \ {"ServerHello"}
  <2>1. CASE peer.pc = "ServerHello"
    <3>1. t = <<client_hello>> /\ peer'.pc = "EncryptedExtensions"
      BY <1>3, <2>1 DEF Heard, NextPlace
    <3>2. peer'.transcript = <<client_hello, m>>
      BY <1>2, <3>1, AppendSecond, Zenon
    <3>3. m.kind = "ServerHello" /\ m.suite \in OFFERED
      BY <2>1 DEF Expected, server_hello
    <3> QED BY <2>1, <3>1, <3>2, <3>3 DEF Heard, Chose, Early, Handshaking
  <2>2. CASE peer.pc = "EncryptedExtensions"
    <3>1. t = <<client_hello, t[2]>> /\ Chose(peer, t[2]) /\ peer'.pc = "Certificate"
      BY <1>3, <2>2 DEF Heard, NextPlace
    <3>2. peer'.transcript = <<client_hello, t[2], m>>
      BY <1>2, <3>1, AppendThird, Zenon
    <3>3. m.kind = "EncryptedExtensions"
      BY <2>2 DEF Expected
    <3> QED BY <2>2, <3>1, <3>2, <3>3 DEF Heard, Chose, Early, Handshaking
  <2>3. CASE peer.pc = "Certificate"
    <3>1. /\ t = <<client_hello, t[2], t[3]>> /\ Chose(peer, t[2]) /\ peer'.pc = "CertificateVerify"
          /\ t[3].kind = "EncryptedExtensions"
      BY <1>3, <2>3 DEF Heard, NextPlace
    <3>2. peer'.transcript = <<client_hello, t[2], t[3], m>>
      <4>1. PICK h1, h2, h3 : h1 = client_hello /\ h2 = t[2] /\ h3 = t[3]
        OBVIOUS
      <4>2. t = <<h1, h2, h3>>
        BY <3>1, <4>1, Zenon
      <4>3. peer'.transcript = Append(<<h1, h2, h3>>, m)
        BY <1>2, <4>2, Zenon
      <4>4. peer'.transcript = <<h1, h2, h3, m>>
        BY <4>3, AppendFourth, Zenon
      <4> QED BY <4>1, <4>4, Zenon
    <3>3. m.kind = "Certificate" /\ m.trusted
      BY <2>3 DEF Expected
    <3> QED BY <2>3, <3>1, <3>2, <3>3 DEF Heard, Chose, Early, Handshaking
  <2>4. CASE peer.pc = "CertificateVerify"
    <3>1. /\ t = <<client_hello, t[2], t[3], t[4]>> /\ Chose(peer, t[2]) /\ peer'.pc = "Finished"
          /\ t[3].kind = "EncryptedExtensions" /\ t[4].kind = "Certificate" /\ t[4].trusted
      BY <1>3, <2>4 DEF Heard, NextPlace
    <3>2. peer'.transcript = <<client_hello, t[2], t[3], t[4], m>>
      <4>1. PICK h1, h2, h3, h4 : h1 = client_hello /\ h2 = t[2] /\ h3 = t[3] /\ h4 = t[4]
        OBVIOUS
      <4>2. t = <<h1, h2, h3, h4>>
        BY <3>1, <4>1, Zenon
      <4>3. peer'.transcript = Append(<<h1, h2, h3, h4>>, m)
        BY <1>2, <4>2, Zenon
      <4>4. peer'.transcript = <<h1, h2, h3, h4, m>>
        BY <4>3, AppendFifth, Zenon
      <4> QED BY <4>1, <4>4, Zenon
    <3>3. m.kind = "CertificateVerify" /\ m.signed[1] = "leaf"
      BY <2>4 DEF Expected
    <3>4. server.transcript # <<>> /\ m = server.transcript[5]
      BY <1>1, <3>3, PlaceFacts
    <3> QED BY <2>4, <3>1, <3>2, <3>3, <3>4 DEF Heard, Chose, Early, Handshaking
  <2> QED BY <2>1, <2>2, <2>3, <2>4
<1>5. ClientSound'
  BY <1>1, <1>3, <1>4 DEF ClientSound, Early, Handshaking, Asking
<1>6. EndsAgree'
  BY <1>3 DEF EndsAgree
<1>7. SealSound'
  BY <1>1, <1>4 DEF ExInv, SealSound, SealedBy, SealedOnce, Early, Handshaking, Asking
<1> QED BY <1>5, <1>6, <1>7 DEF ExInv

\* The Finished is the last of the flight the server sent: the two ends heard the same.
LEMMA FlightAgrees ==
  ASSUME ExInv, peer.pc = "Finished", Whole(peer.pending), NEW m, m = Message, Expected(m)
  PROVE  /\ over = "tls" /\ server.transcript # <<>> /\ server.pc # "hello"
         /\ Append(peer.transcript, m) = server.transcript
         /\ server.trusted /\ server.signs /\ server.transcript[1] = client_hello
         /\ peer.suite \in OFFERED /\ server.transcript[2].suite = peer.suite
<1>1. over = "tls" /\ Sayable(m, server.transcript)
  BY MessageFacts DEF Handshaking
<1>2. PICK t, u : t = peer.transcript /\ u = server.transcript
  OBVIOUS
<1>3. PICK h2, h3, h4, h5 : h2 = t[2] /\ h3 = t[3] /\ h4 = t[4] /\ h5 = t[5]
  OBVIOUS
<1>4. Heard(peer, t)
  BY <1>1, <1>2 DEF ExInv, ClientSound
<1>5. /\ t = <<client_hello, h2, h3, h4, h5>> /\ Chose(peer, h2) /\ h3.kind = "EncryptedExtensions"
      /\ h4.kind = "Certificate" /\ h4.trusted /\ h5.kind = "CertificateVerify" /\ h5.signed[1] = "leaf"
      /\ u # <<>> /\ h5 = u[5]
  BY <1>2, <1>3, <1>4 DEF Heard
<1>6. m = finished("server", t)
  BY <1>2 DEF Expected
<1>7. m.kind = "Finished"
  BY <1>6 DEF finished
<1>8. m = u[6]
  BY <1>1, <1>2, <1>7, PlaceFacts
<1>9. /\ u = <<u[1], u[2], u[3], u[4], u[5], u[6]>>
      /\ u[1].kind = "ClientHello" /\ u[2].kind = "ServerHello" /\ u[3].kind = "EncryptedExtensions"
      /\ u[4].kind \in {"Certificate", "CertificateRequest"} /\ u[4].trusted = server.trusted
      /\ u[5].signed[1] = "leaf" => server.signs
      /\ u[6] \in {finished("server", <<u[1], u[2], u[3], u[4]>>),
                   finished("server", <<u[1], u[2], u[3], u[4], u[5]>>)}
  BY <1>2, <1>5, Zenon DEF ExInv, ServerSound, Flight
<1>10. h2.kind = "ServerHello" /\ h2.suite \in OFFERED /\ peer.suite = h2.suite
  BY <1>5 DEF Chose
<1>11. u[6] = finished("server", <<client_hello, h2, h3, h4, h5>>)
  BY <1>5, <1>6, <1>8, Zenon
<1>12. /\ client_hello = u[1] /\ h2 = u[2] /\ h3 = u[3] /\ h4 = u[4]
       /\ u = <<client_hello, h2, h3, h4, h5, u[6]>>
  BY <1>5, <1>9, <1>10, <1>11, FinishedFacts
<1>13. Append(t, m) = u
  <2>1. PICK h1 : h1 = client_hello
    OBVIOUS
  <2>2. Append(<<h1, h2, h3, h4, h5>>, m) = <<h1, h2, h3, h4, h5, m>>
    BY AppendSixth
  <2> QED BY <1>5, <1>8, <1>12, <2>1, <2>2, Zenon
<1>14. server.pc # "hello"
  BY <1>2, <1>5 DEF ExInv, ServerSound
<1>15. server.trusted /\ server.signs
  BY <1>5, <1>9, <1>12
<1> QED BY <1>1, <1>2, <1>5, <1>10, <1>12, <1>13, <1>14, <1>15

\* The client's Finished leaves: the first record it seals.
LEMMA FinishedStep ==
  ASSUME ExInv, peer.pc = "Finished", Whole(peer.pending), NEW m, m = Message, Expected(m),
         UNCHANGED <<over, server>>, ServerSound', IsPeer(peer'),
         sealed' = Append(sealed, <<peer.out, peer.sent>>),
         \/ peer'.pc = "refused" /\ peer'.established = peer.established /\ peer'.sent = peer.sent
         \/ /\ peer'.pc = "send" /\ peer'.transcript = Append(peer.transcript, m)
            /\ peer'.suite = peer.suite /\ peer'.established /\ peer'.sent = 0
            /\ peer'.out[1] = <<"client", "ap_traffic">>
  PROVE  ExInv'
<1>1. /\ over = "tls" /\ server.transcript # <<>>
      /\ Append(peer.transcript, m) = server.transcript
      /\ server.trusted /\ server.signs /\ server.transcript[1] = client_hello
      /\ peer.suite \in OFFERED /\ server.transcript[2].suite = peer.suite
  BY FlightAgrees
<1>2. sealed = <<>> /\ peer.sent = 0 /\ peer.out[1] = <<"client", "hs_traffic">> /\ ~peer.established
  BY <1>1 DEF ExInv, SealSound, ClientSound, Early, Handshaking
<1>3. PICK u : u = server.transcript
  OBVIOUS
<1>4. EndsAgree'
  <2>1. CASE peer'.pc = "refused" /\ peer'.established = peer.established
    BY <1>2, <2>1 DEF EndsAgree
  <2>2. CASE peer'.transcript = Append(peer.transcript, m) /\ peer'.suite = peer.suite
    <3>1. peer'.transcript = u
      BY <1>1, <1>3, <2>2
    <3> QED BY <1>1, <1>3, <2>2, <3>1 DEF EndsAgree
  <2> QED BY <2>1, <2>2
<1>5. ClientSound'
  BY <1>1, <1>2 DEF ClientSound, Heard, Early, Handshaking, Asking
<1>6. SealSound'
  <2>1. PICK e : e = <<peer.out, peer.sent>>
    OBVIOUS
  <2>2. sealed' = <<e>> /\ e[1] = peer.out
    BY <1>2, <2>1
  <2>3. (\E K : sealed \in Seq(K \X Nat))'
    <3>1. PICK K : K = {peer.out}
      OBVIOUS
    <3>2. e \in K \X Nat
      BY <1>2, <2>1, <3>1
    <3>3. <<e>> \in Seq(K \X Nat)
      BY <3>2
    <3> QED BY <2>2, <3>3, Zenon
  <2>4. DOMAIN sealed' = {1} /\ sealed'[1] = e
    <3>1. DOMAIN <<e>> = {1} /\ <<e>>[1] = e
      OBVIOUS
    <3> QED BY <2>2, <3>1, Zenon
  <2>5. SealedOnce'
    BY <2>4 DEF SealedOnce
  <2>6. SealedBy(sealed', <<"client", "hs_traffic">>, peer'.out, peer'.sent)
    BY <1>2, <2>2, <2>4 DEF SealedBy
  <2>7. peer'.sent = 0 /\ peer'.pc \in {"refused", "send"}
    BY <1>2
  <2> QED BY <1>1, <2>3, <2>5, <2>6, <2>7 DEF SealSound, Early, Handshaking, Asking
<1> QED BY <1>1, <1>4, <1>5, <1>6 DEF ExInv

\* A message of the flight, and the keys after it.
LEMMA flight_message_step ==
  ASSUME ExInv, flight_message
  PROVE  ExInv'
<1> DEFINE P == Transcribed(Message)
           spans == P.pending # <<>>
           keyed == [P EXCEPT !.suite = Message.suite, !.key = handshake_traffic("server", P.transcript), !.opened = 0,
                              !.out = handshake_traffic("client", P.transcript)]
           asks == [P EXCEPT !.key = application_traffic("server", P.transcript), !.opened = 0,
                             !.established = TRUE, !.sent = 0, !.out = application_traffic("client", P.transcript)]
<1>1. peer.pc \in Handshaking /\ Whole(peer.pending) /\ UNCHANGED <<over, server, toClient>>
  BY DEF flight_message
<1>2. \/ peer' = Refused(peer) /\ UNCHANGED <<toServer, sealed>>
      \/ /\ Expected(Message) /\ peer.pc = "ServerHello"
         /\ peer' = (IF spans THEN Refused(peer) ELSE keyed) /\ UNCHANGED <<toServer, sealed>>
      \/ /\ Expected(Message) /\ peer.pc = "Finished" /\ sealed' = Append(sealed, <<peer.out, peer.sent>>)
         /\ peer' = IF spans THEN Refused(peer) ELSE asks
      \/ /\ Expected(Message) /\ peer.pc \notin {"ServerHello", "Finished"}
         /\ peer' = P /\ UNCHANGED <<toServer, sealed>>
  BY DEF flight_message
<1>3. PICK m, p : m = Message /\ p = Transcribed(m)
  OBVIOUS
<1>4. /\ IsPeer(p) /\ p.pc = NextPlace[peer.pc] /\ p.transcript = Append(peer.transcript, m)
      /\ p.pending = Rest(peer.pending) /\ p.suite = peer.suite /\ p.out = peer.out
      /\ p.sent = peer.sent /\ p.established = peer.established
  BY <1>1, <1>3, TranscribedFacts
<1>5. P = p
  BY <1>3
<1>6. CASE peer' = Refused(peer) /\ UNCHANGED <<toServer, sealed>>
  BY <1>1, <1>6, PeerStreams, RefusedStep
<1>7. CASE /\ Expected(m) /\ peer.pc = "ServerHello"
           /\ peer' = (IF spans THEN Refused(peer) ELSE keyed) /\ UNCHANGED <<toServer, sealed>>
  <2>1. CASE spans
    BY <1>6, <1>7, <2>1
  <2>2. CASE ~spans
    <3>1. PICK k, out, s : /\ k = handshake_traffic("server", p.transcript) /\ s = m.suite
                           /\ out = handshake_traffic("client", p.transcript)
      OBVIOUS
    <3>2. peer' = [p EXCEPT !.suite = s, !.key = k, !.opened = 0, !.out = out]
      BY <1>3, <1>5, <1>7, <2>2, <3>1
    <3>3. out[1] = <<"client", "hs_traffic">>
      BY <3>1 DEF handshake_traffic, derive_secret
    <3>4. /\ IsPeer(peer') /\ peer'.pc = p.pc /\ peer'.transcript = p.transcript
          /\ peer'.sent = p.sent /\ peer'.established = p.established /\ peer'.pending = p.pending
          /\ peer'.suite = s /\ peer'.out = out
      BY <1>4, <3>2 DEF IsPeer
    <3>5. ServerSound'
      BY <1>1, <1>7, PeerStreams
    <3> HIDE DEF P, spans, keyed, asks
    <3> QED BY <1>1, <1>3, <1>4, <1>7, <3>1, <3>3, <3>4, <3>5, EarlierStep
  <2> QED BY <2>1, <2>2
<1>8. CASE /\ Expected(m) /\ peer.pc = "Finished" /\ sealed' = Append(sealed, <<peer.out, peer.sent>>)
           /\ peer' = IF spans THEN Refused(peer) ELSE asks
  <2>1. server.pc # "hello"
    BY <1>1, <1>3, <1>8, FlightAgrees
  <2>2. ServerSound'
    BY <1>1, <2>1, PeerStreams
  <2>3. CASE spans
    <3>1. /\ IsPeer(peer') /\ peer'.pc = "refused" /\ peer'.established = peer.established
          /\ peer'.sent = peer.sent
      BY <1>8, <2>3, RefusedFacts
    <3> HIDE DEF P, spans, keyed, asks
    <3> QED BY <1>1, <1>3, <1>8, <2>2, <3>1, FinishedStep
  <2>4. CASE ~spans
    <3>1. PICK k, out : /\ k = application_traffic("server", p.transcript)
                        /\ out = application_traffic("client", p.transcript)
      OBVIOUS
    <3>2. peer' = [p EXCEPT !.key = k, !.opened = 0, !.established = TRUE, !.sent = 0, !.out = out]
      BY <1>5, <1>8, <2>4, <3>1
    <3>3. out[1] = <<"client", "ap_traffic">>
      BY <3>1 DEF application_traffic, derive_secret
    <3>4. /\ IsPeer(peer') /\ peer'.pc = p.pc /\ peer'.transcript = p.transcript
          /\ peer'.sent = 0 /\ peer'.established /\ peer'.suite = p.suite /\ peer'.out = out
      BY <1>4, <3>2 DEF IsPeer
    <3>5. p.pc = "send"
      BY <1>4, <1>8 DEF NextPlace
    <3> HIDE DEF P, spans, keyed, asks
    <3> QED BY <1>1, <1>3, <1>4, <1>8, <2>2, <3>3, <3>4, <3>5, FinishedStep
  <2> QED BY <2>3, <2>4
<1>9. CASE /\ Expected(m) /\ peer.pc \notin {"ServerHello", "Finished"}
           /\ peer' = P /\ UNCHANGED <<toServer, sealed>>
  <2>1. ServerSound'
    BY <1>1, <1>9, PeerStreams
  <2>2. peer' = p /\ peer.pc \in {"EncryptedExtensions", "Certificate", "CertificateVerify"}
    BY <1>1, <1>5, <1>9 DEF Handshaking
  <2>3. /\ IsPeer(peer') /\ peer'.pc = NextPlace[peer.pc] /\ peer'.transcript = Append(peer.transcript, m)
        /\ peer'.pending = Rest(peer.pending) /\ peer'.suite = peer.suite /\ peer'.out = peer.out
        /\ peer'.sent = peer.sent /\ peer'.established = peer.established
    BY <1>4, <2>2
  <2> HIDE DEF P, spans, keyed, asks
  <2> QED BY <1>1, <1>3, <1>9, <2>1, <2>2, <2>3, EarlierStep
<1> HIDE DEF P, spans, keyed, asks
<1> QED BY <1>2, <1>3, <1>6, <1>7, <1>8, <1>9

-----------------------------------------------------------------------------
(* The exchange with a server: the theorem.                                *)

LEMMA ServersMet ==
  ASSUME NEW s \in Servers
  PROVE  /\ IsServer(s) /\ s.hello.kind = "ServerHello" /\ s.pc = "hello"
         /\ s.transcript = <<>> /\ s.said = <<>> /\ s.key = Plain /\ s.read = 0
         /\ s.framing \in {"length", "chunked", "close"}
<1>1. /\ IsServer(Server) /\ Server.hello.kind = "ServerHello" /\ Server.pc = "hello"
      /\ Server.transcript = <<>> /\ Server.said = <<>> /\ Server.key = Plain /\ Server.read = 0
      /\ Server.framing = "length"
  BY DEF Server, IsServer, GoodHello
<1>2. PICK c : c = Server
  OBVIOUS
<1>3. \A h \in ServerHellos : h.kind = "ServerHello"
  BY DEF ServerHellos, GoodHello
<1>4. PICK hellos, deviations : hellos = ServerHellos /\ deviations = Deviations
  OBVIOUS
<1>5. \/ \E f \in {"length", "chunked", "close"} : s = [c EXCEPT !.framing = f]
      \/ \E u : s = [c EXCEPT !.up = u]
      \/ s = [c EXCEPT !.trusted = FALSE]
      \/ s = [c EXCEPT !.signs = FALSE]
      \/ \E h \in hellos : s = [c EXCEPT !.hello = h]
      \/ \E d : s = [c EXCEPT !.deviates = d]
  <2>1. \/ \E f \in {"length", "chunked", "close"} : s = [c EXCEPT !.framing = f]
        \/ \E u \in {"refuses", "silent"} : s = [c EXCEPT !.up[1] = u]
        \/ s = [c EXCEPT !.up = [a \in 1..Addresses |-> "refuses"]]
        \/ s \in {[c EXCEPT !.trusted = FALSE], [c EXCEPT !.signs = FALSE]}
        \/ \E h \in hellos : s = [c EXCEPT !.hello = h]
        \/ \E d \in deviations : s = [c EXCEPT !.deviates = d]
    BY <1>2, <1>4, Zenon DEF Servers
  <2>2. ASSUME NEW u \in {"refuses", "silent"}, s = [c EXCEPT !.up[1] = u]
        PROVE  \E v : s = [c EXCEPT !.up = v]
    BY <2>2
  <2> QED BY <2>1, <2>2
<1>6. /\ IsServer(c) /\ c.hello.kind = "ServerHello" /\ c.pc = "hello"
      /\ c.transcript = <<>> /\ c.said = <<>> /\ c.key = Plain /\ c.read = 0 /\ c.framing = "length"
  BY <1>1, <1>2
<1>7. \A h \in hellos : h.kind = "ServerHello"
  BY <1>3, <1>4
<1> QED BY <1>5, <1>6, <1>7 DEF IsServer

LEMMA ExInitial == TInit => ExInv
<1> SUFFICES ASSUME TInit
             PROVE  ExInv
  OBVIOUS
<1>1. /\ over \in {"tls", "loopback"} /\ peer = Client /\ server \in Servers
      /\ toServer = <<>> /\ toClient = <<>> /\ sealed = <<>>
  BY DEF TInit
<1>2. /\ IsServer(server) /\ server.hello.kind = "ServerHello" /\ server.pc = "hello"
      /\ server.transcript = <<>> /\ server.said = <<>>
  BY <1>1, ServersMet
<1>3. ServerSound
  BY <1>1, <1>2, ListNone DEF ServerSound, Flight, Sayings, Incoming, Hellos
<1>4. /\ IsPeer(peer) /\ peer.pc = "exchange" /\ peer.pending = <<>> /\ ~peer.established
      /\ peer.transcript = <<client_hello>> /\ peer.sent = 0
  BY <1>1 DEF Client, IsPeer
<1>5. ClientSound /\ EndsAgree
  BY <1>4 DEF ClientSound, EndsAgree, Heard, Early, Handshaking, Asking
<1>6. SealSound
  <2>1. \E K : sealed \in Seq(K \X Nat)
    <3>1. PICK K : K = {}
      OBVIOUS
    <3>2. <<>> \in Seq(K \X Nat)
      OBVIOUS
    <3> QED BY <1>1, <3>2
  <2> QED BY <1>1, <1>4, <2>1 DEF SealSound, SealedOnce, Early, Handshaking, Asking
<1> QED BY <1>1, <1>2, <1>3, <1>4, <1>5, <1>6 DEF ExInv

LEMMA ExNext == ExInv /\ [TNext]_tvars => ExInv'
<1> SUFFICES ASSUME ExInv, [TNext]_tvars
             PROVE  ExInv'
  OBVIOUS
<1>1. CASE exchange \/ tcp_connect \/ passed \/ hello
  BY <1>1, ExchangeStep
<1>2. CASE receive_handshake
  BY <1>2, receive_handshake_step
<1>3. CASE flight_message
  BY <1>3, flight_message_step
<1>4. CASE send
  BY <1>4, send_step
<1>5. CASE loopback_send
  BY <1>5, loopback_send_step
<1>6. CASE receive
  BY <1>6, receive_step
<1>7. CASE read_reply
  BY <1>7, read_reply_step
<1>8. CASE Clock \/ UNCHANGED tvars
  BY <1>8, Clock_step
<1>9. CASE server_answers
  BY <1>9, server_answers_step
<1>10. CASE \E n \in 1..8 : server_says(n)
  BY <1>10, server_says_step
<1>11. CASE server_hears
  BY <1>11, server_hears_step
<1>12. CASE loopback_hears
  BY <1>12, loopback_hears_step
<1>13. CASE server_cut
  BY <1>13, server_cut_step
<1>14. CASE network
  BY <1>14, network_step
<1> QED BY <1>1, <1>2, <1>3, <1>4, <1>5, <1>6, <1>7, <1>8, <1>9, <1>10, <1>11, <1>12,
           <1>13, <1>14 DEF TNext, ClientNext

\* The channel a request is trusted to (crates/crypto tls, Protection::seal): the two
\* ends hold the same transcript, suite and server once the handshake is done, and no
\* key of the client seals two records with one number, whatever the server deviates
\* in and whatever happens to the stream, for every number of faults, addresses and
\* records and every last record number.
THEOREM ChannelHolds == TSpec => []ChannelAgrees
<1>1. ExInv => ChannelAgrees
  BY DEF ExInv, SealSound, ChannelAgrees
<1> QED BY <1>1, ExInitial, ExNext, PTL DEF TSpec

-----------------------------------------------------------------------------
(* The exchange with a server: the reply and its end.                      *)

\* A key no reply is sealed with: none, one the network damaged, one of the handshake.
Unapplied(key) == key = Plain \/ key = <<"damaged">> \/ key[1] = <<"server", "hs_traffic">>

LEMMA KeysApart ==
  ASSUME NEW t
  PROVE  /\ ~Unapplied(application_traffic("server", t)) /\ application_traffic("server", t) # Plain
         /\ Unapplied(Plain) /\ Unapplied(<<"damaged">>) /\ Unapplied(handshake_traffic("server", t))
BY DEF Unapplied, Plain, application_traffic, handshake_traffic, derive_secret

\* The first i records of the reply's key hold the first cut[i] of its items.
Cuts(cut, m, P) ==
  /\ m \in Nat /\ cut \in [0..m -> 0..Len(P)] /\ cut[0] = 0
  /\ \A i \in 1..m : cut[i - 1] <= cut[i]

\* A record on its way to the client, of the reply or before it.
Carried(r, K, cut, m, P) ==
  /\ r.key = K /\ r.n \in Nat /\ r.n < m
  /\ r.type = "data" => r.content = SubSeq(P, cut[r.n] + 1, cut[r.n + 1])
  /\ r.type # "data" => cut[r.n + 1] = cut[r.n]
  /\ r.type = "alert" => cut[r.n] = Len(P)
Prior(r) == Unapplied(r.key)
Coming(s, K, cut, m, P) == \A r \in Range(s) : Prior(r) \/ Carried(r, K, cut, m, P)

\* What is still to be said after d items: h pieces of other messages, the other
\* items, the close_notify of a TLS connection, and the end of the stream.
Saying(s, key, h, d, P, secure) ==
  /\ h \in Nat /\ d \in 0..Len(P) /\ (h > 0 => d = 0 /\ secure)
  /\ \A i \in 1..Len(s) :
       \/ i <= h /\ s[i].type = "handshake" /\ s[i].key = key
       \/ /\ h < i /\ i <= h + (Len(P) - d)
          /\ s[i].type = "data" /\ s[i].key = key /\ s[i].content.message = P[d + i - h]
       \/ i > h + (Len(P) - d) /\ s[i].type = "alert" /\ s[i].key = key /\ secure
       \/ i > h + (Len(P) - d) /\ i = Len(s) /\ s[i].type = "eof" /\ s[i].key = Plain

\* Where the server is with its flight and its reply.
ServerAt(sv, K, cut, m, P) ==
  /\ sv.pc \in {"hello", "Finished", "request", "replied", "gone"}
  /\ sv.pc \in {"hello", "request", "gone"} => sv.said = <<>>
  /\ sv.pc \in {"hello", "Finished", "request"} => m = 0 /\ Unapplied(sv.key)
  /\ sv.pc = "Finished" => \A e \in Range(sv.said) : Unapplied(e.key) /\ e.type \in {"handshake", "change_cipher_spec"}
  /\ sv.pc = "replied" =>
       /\ \E h : Saying(sv.said, K, h, cut[m], P, TRUE)
       /\ \/ m = 0 /\ Unapplied(sv.key)
          \/ sv.key = K /\ sv.n = m
          \/ sv.said = <<>>

\* What the client has of it: the items of the records it opened.
ClientHas(p, K, cut, m, P) ==
  /\ p.established => /\ p.key = K /\ p.opened \in 0..m /\ p.got = SubSeq(P, 1, cut[p.opened])
                      /\ p.closed = "sealed" => cut[p.opened] = Len(P)
  /\ ~p.established => p.got = <<>> /\ p.closed = "no"

ReplyKey(sv) == application_traffic("server", sv.transcript)
InStep(sv, p, s, cut, m, P) ==
  /\ Cuts(cut, m, P) /\ Coming(s, ReplyKey(sv), cut, m, P)
  /\ ServerAt(sv, ReplyKey(sv), cut, m, P) /\ ClientHas(p, ReplyKey(sv), cut, m, P)
TlsFits(sv, p, s, P) == \E cut, m : InStep(sv, p, s, cut, m, P)

\* A step that leaves what the client has of the reply, and sends it nothing new.
LEMMA HeldBack ==
  ASSUME NEW sv, NEW p, NEW s, NEW P, TlsFits(sv, p, s, P), NEW q, NEW u,
         q.got = p.got, q.closed = p.closed, q.established = p.established,
         p.established => q.key = p.key /\ q.opened = p.opened,
         \A r \in Range(u) : r \in Range(s) \/ Prior(r)
  PROVE  TlsFits(sv, q, u, P)
<1>1. PICK cut, m : InStep(sv, p, s, cut, m, P)
  BY DEF TlsFits
<1>2. Coming(u, ReplyKey(sv), cut, m, P)
  BY <1>1 DEF InStep, Coming
<1>3. ClientHas(q, ReplyKey(sv), cut, m, P)
  BY <1>1 DEF InStep, ClientHas
<1>4. InStep(sv, q, u, cut, m, P)
  BY <1>1, <1>2, <1>3 DEF InStep
<1> QED BY <1>4 DEF TlsFits

\* The client has its keys and nothing of the reply yet.
LEMMA Establishes ==
  ASSUME NEW sv, NEW p, NEW s, NEW P, TlsFits(sv, p, s, P), NEW q,
         ~p.established, q.got = p.got, q.closed = p.closed, q.established, q.key = ReplyKey(sv), q.opened = 0
  PROVE  TlsFits(sv, q, s, P)
<1>1. PICK cut, m : InStep(sv, p, s, cut, m, P)
  BY DEF TlsFits
<1>2. q.got = <<>> /\ q.closed = "no"
  BY <1>1 DEF InStep, ClientHas
<1>3. cut[0] = 0 /\ m \in Nat
  BY <1>1 DEF InStep, Cuts
<1>4. SubSeq(P, 1, 0) = <<>>
  BY SubSeqEmpty
<1>5. ClientHas(q, ReplyKey(sv), cut, m, P)
  BY <1>2, <1>3, <1>4 DEF ClientHas
<1>6. InStep(sv, q, s, cut, m, P)
  BY <1>1, <1>5 DEF InStep
<1> QED BY <1>6 DEF TlsFits

\* The client opens the next record of the reply's key, or hears its end.
LEMMA Receives ==
  ASSUME NEW sv, NEW p, NEW s, NEW P, NEW S, P \in Seq(S), TlsFits(sv, p, s, P), NEW q, NEW u, Range(u) \subseteq Range(s),
         NEW r, r \in Range(s), p.established, q.established = p.established, q.key = p.key,
         \/ /\ r.key = p.key /\ r.n = p.opened /\ q.opened = p.opened + 1 /\ p.closed = "no" /\ q.closed = p.closed
            /\ r.type = "data" => q.got = p.got \o r.content
            /\ r.type # "data" => q.got = p.got
         \/ /\ r.type = "alert" /\ q.opened = p.opened /\ q.got = p.got
            /\ q.closed = "clear" \/ (q.closed = "sealed" /\ r.key = p.key /\ r.n = p.opened)
  PROVE  TlsFits(sv, q, u, P)
<1>1. PICK cut, m : InStep(sv, p, s, cut, m, P)
  BY DEF TlsFits
<1>2. PICK K : K = ReplyKey(sv)
  OBVIOUS
<1>3. /\ p.key = K /\ p.opened \in 0..m /\ p.got = SubSeq(P, 1, cut[p.opened])
      /\ Prior(r) \/ Carried(r, K, cut, m, P)
      /\ m \in Nat /\ cut \in [0..m -> 0..Len(P)] /\ Cuts(cut, m, P)
  BY <1>1, <1>2 DEF InStep, ClientHas, Coming, Cuts
<1>4. K # Plain /\ ~Unapplied(K)
  BY <1>2, KeysApart DEF ReplyKey
<1>5. Len(P) \in Nat
  OBVIOUS
<1>6. Coming(u, K, cut, m, P)
  BY <1>1, <1>2 DEF InStep, Coming
<1>7. CASE /\ r.key = p.key /\ r.n = p.opened /\ q.opened = p.opened + 1 /\ p.closed = "no" /\ q.closed = p.closed
           /\ r.type = "data" => q.got = p.got \o r.content
           /\ r.type # "data" => q.got = p.got
  <2>1. Carried(r, K, cut, m, P)
    BY <1>3, <1>4, <1>7 DEF Prior
  <2>2. PICK o, a, b : o = p.opened /\ a = cut[o] /\ b = cut[o + 1]
    OBVIOUS
  <2>3. o \in Nat /\ o < m /\ o + 1 \in 1..m /\ a \in 0..Len(P) /\ b \in 0..Len(P)
    BY <1>3, <1>7, <2>1, <2>2, SMTT(60) DEF Carried
  <2>4. q.got = SubSeq(P, 1, b)
    <3>1. CASE r.type = "data"
      <4>1. q.got = SubSeq(P, 1, a) \o SubSeq(P, a + 1, b)
        BY <1>3, <1>7, <2>1, <2>2, <3>1 DEF Carried
      <4>2. a <= b
        <5>1. cut[(o + 1) - 1] <= cut[o + 1]
          BY <1>3, <2>3 DEF Cuts
        <5>2. (o + 1) - 1 = o
          BY <2>3
        <5> QED BY <2>2, <5>1, <5>2
      <4>3. 1 \in 1..Len(P) + 1 /\ a \in (1 - 1)..Len(P) /\ b \in a..Len(P)
        BY <1>5, <2>3, <4>2
      <4>4. SubSeq(P, 1, a) \o SubSeq(P, a + 1, b) = SubSeq(P, 1, b)
        BY <4>3, ConcatAdjacentSubSeq
      <4> QED BY <4>1, <4>4
    <3>2. CASE r.type # "data"
      BY <1>3, <1>7, <2>1, <2>2, <3>2 DEF Carried
    <3> QED BY <3>1, <3>2
  <2>5. q.opened \in 0..m /\ q.opened = o + 1 /\ q.closed = "no"
    BY <1>3, <1>7, <2>2, <2>3
  <2>6. ClientHas(q, K, cut, m, P)
    BY <1>3, <2>2, <2>4, <2>5 DEF ClientHas
  <2>7. InStep(sv, q, u, cut, m, P)
    BY <1>1, <1>2, <1>6, <2>6 DEF InStep
  <2> QED BY <2>7 DEF TlsFits
<1>8. CASE /\ r.type = "alert" /\ q.opened = p.opened /\ q.got = p.got
           /\ q.closed = "clear" \/ (q.closed = "sealed" /\ r.key = p.key /\ r.n = p.opened)
  <2>1. q.closed = "sealed" => Carried(r, K, cut, m, P) /\ r.n = p.opened
    BY <1>3, <1>4, <1>8 DEF Prior
  <2>2. q.closed = "sealed" => cut[p.opened] = Len(P)
    BY <1>8, <2>1 DEF Carried
  <2>3. ClientHas(q, K, cut, m, P)
    BY <1>3, <1>8, <2>2 DEF ClientHas
  <2>4. InStep(sv, q, u, cut, m, P)
    BY <1>1, <1>2, <1>6, <2>3 DEF InStep
  <2> QED BY <2>4 DEF TlsFits
<1> QED BY <1>7, <1>8

\* A reply taken as whole is whole.
Complete(got) == Bodies(got) = BodyItems /\ got[1] = "head" /\ "head" \notin Range(Tail(got))

\* Any beginning of the reply begins with its only head; all its body is there once
\* something that follows the body is.
LEMMA Begins ==
  ASSUME NEW c \in 0..ReplyLength, NEW got, got = SubSeq(ReplyItems, 1, c), got # <<>>,
         \/ Bodies(got) = BodyItems
         \/ c = ReplyLength
         \/ "last" \in Range(got) \/ "blank" \in Range(got)
  PROVE  Complete(got)
<1>1. PICK P, n, B : P = ReplyItems /\ n = ReplyLength /\ B = BodyItems
  OBVIOUS
<1>2. /\ P \in Seq({"head", "body", "last", "blank"}) /\ Len(P) = n /\ n \in Nat /\ n > B /\ B \in Nat
      /\ P[1] = "head"
      /\ \A i \in 2..n : P[i] = IF i <= B + 1 THEN "body" ELSE IF i = B + 2 THEN "last" ELSE "blank"
  BY <1>1, ReplyList, TlsAssumption
<1>3. c \in Nat /\ c <= n
  BY <1>1, <1>2
<1>4. /\ got \in Seq({"head", "body", "last", "blank"}) /\ Len(got) = c
      /\ \A i \in 1..c : got[i] = P[i]
  <2>1. \A i \in 1..c : P[i] \in {"head", "body", "last", "blank"}
    BY <1>2, <1>3
  <2>2. /\ SubSeq(P, 1, c) \in Seq({"head", "body", "last", "blank"})
        /\ Len(SubSeq(P, 1, c)) = IF 1 <= c THEN c - 1 + 1 ELSE 0
        /\ \A i \in 1..(c - 1 + 1) : SubSeq(P, 1, c)[i] = P[1 + i - 1]
    BY <1>3, <2>1, SubSeqProperties
  <2>3. c - 1 + 1 = c /\ \A i \in 1..c : 1 + i - 1 = i
    BY <1>3
  <2> QED BY <1>1, <1>3, <2>2, <2>3
<1>5. c >= 1 /\ got[1] = "head"
  BY <1>2, <1>3, <1>4
<1>6. "head" \notin Range(Tail(got))
  <2>1. \A i \in 2..c : got[i] # "head"
    BY <1>2, <1>3, <1>4
  <2>2. Len(Tail(got)) = c - 1 /\ Tail(got) \in Seq({"head", "body", "last", "blank"})
        /\ \A i \in 1..c - 1 : Tail(got)[i] = got[i + 1]
    BY <1>4, HeadTailProperties
  <2>3. \A i \in 1..c - 1 : i + 1 \in 2..c
    BY <1>3
  <2>4. DOMAIN Tail(got) = 1..c - 1
    BY <2>2
  <2> QED BY <2>1, <2>2, <2>3, <2>4 DEF Range
<1>7. Bodies(got) = BodyItems
  <2>1. SUFFICES ASSUME c = n \/ "last" \in Range(got) \/ "blank" \in Range(got)
                 PROVE  Bodies(got) = B
    BY <1>1
  <2>2. c >= B + 1
    <3>1. CASE c = n
      BY <1>2, <3>1
    <3>2. CASE "last" \in Range(got) \/ "blank" \in Range(got)
      <4>1. PICK i \in 1..c : got[i] \in {"last", "blank"}
        BY <1>4, <3>2 DEF Range
      <4>2. i # 1 /\ P[i] \in {"last", "blank"}
        BY <1>4, <1>5, <4>1
      <4>3. ~(i <= B + 1)
        BY <1>2, <1>3, <4>1, <4>2
      <4> QED BY <1>2, <1>3, <4>1, <4>3
    <3> QED BY <2>1, <3>1, <3>2
  <2>3. {i \in DOMAIN got : got[i] = "body"} = 2..B + 1
    <3>1. DOMAIN got = 1..c
      BY <1>4
    <3>2. \A i \in 1..c : got[i] = "body" <=> i \in 2..B + 1
      BY <1>2, <1>3, <1>4, <1>5
    <3>3. \A i \in 2..B + 1 : i \in 1..c
      BY <1>2, <1>3, <2>2
    <3> QED BY <3>1, <3>2, <3>3
  <2>4. Cardinality(2..B + 1) = B
    <3>1. PICK a, b : a = 2 /\ b = B + 1
      OBVIOUS
    <3>2. Cardinality(a..b) = IF a > b THEN 0 ELSE b - a + 1
      BY <1>2, <3>1, FS_Interval
    <3> QED BY <1>2, <3>1, <3>2
  <2> QED BY <2>3, <2>4 DEF Bodies
<1> QED BY <1>5, <1>6, <1>7 DEF Complete

-----------------------------------------------------------------------------
(* The reply, said in records.                                             *)

SameKind(s, n) == \A i \in 1..n : s[i].key = s[1].key /\ s[i].type = s[1].type

\* What one record takes of what is still to be said, and what it leaves.
Takes(s, key, d, P, secure, n, e) ==
  /\ e \in 0..Len(P) /\ d <= e
  /\ \/ /\ s[1].type = "data" /\ s[1].key = key /\ e = d + n
        /\ \A i \in 1..n : s[i].content.message = P[d + i]
     \/ s[1].type = "handshake" /\ s[1].key = key /\ e = d /\ secure
     \/ s[1].type = "alert" /\ s[1].key = key /\ e = d /\ d = Len(P) /\ secure
     \/ s[1].type = "eof" /\ s[1].key = Plain /\ e = d /\ n = Len(s)
LEMMA SaysOn ==
  ASSUME NEW s, NEW key, NEW h, NEW d, NEW S, NEW P \in Seq(S), NEW secure, Saying(s, key, h, d, P, secure), Listed(s),
         NEW n \in 1..Len(s), SameKind(s, n)
  PROVE  \E g, e : Saying(SubSeq(s, n + 1, Len(s)), key, g, e, P, secure) /\ Takes(s, key, d, P, secure, n, e)
<1>1. PICK l, N : l = Len(s) /\ N = Len(P)
  OBVIOUS
<1>2. l \in Nat /\ N \in Nat /\ n \in Nat /\ 1 <= n /\ n <= l /\ s \in Seq(Range(s)) /\ 1 \in 1..l /\ n \in 1..l /\ n \in 1..n
  BY <1>1 DEF Listed
<1>3. PICK u : u = SubSeq(s, n + 1, l)
  OBVIOUS
<1>4. Len(u) = l - n /\ \A i \in 1..l - n : u[i] = s[n + i]
  <2>1. PICK a : a = n + 1
    OBVIOUS
  <2>2. \A i \in a..l : s[i] \in Range(s)
    BY <1>1, <1>2, <2>1 DEF Range
  <2>3. a \in Int /\ l \in Int
    BY <1>2, <2>1
  <2>4. /\ Len(SubSeq(s, a, l)) = IF a <= l THEN l - a + 1 ELSE 0
        /\ \A i \in 1..(l - a + 1) : SubSeq(s, a, l)[i] = s[a + i - 1]
    BY <2>2, <2>3, SubSeqProperties
  <2>5. l - a + 1 = l - n /\ \A i \in 1..l - n : a + i - 1 = n + i
    BY <1>2, <2>1
  <2> QED BY <1>2, <1>3, <2>1, <2>4, <2>5, SMTT(60)
<1>5. h \in Nat /\ d \in 0..N /\ (h > 0 => d = 0 /\ secure)
  BY <1>1 DEF Saying
<1>6. \A i \in 1..l :
       \/ i <= h /\ s[i].type = "handshake" /\ s[i].key = key
       \/ /\ h < i /\ i <= h + (N - d)
          /\ s[i].type = "data" /\ s[i].key = key /\ s[i].content.message = P[d + i - h]
       \/ i > h + (N - d) /\ s[i].type = "alert" /\ s[i].key = key /\ secure
       \/ i > h + (N - d) /\ i = l /\ s[i].type = "eof" /\ s[i].key = Plain
  BY <1>1 DEF Saying
<1>7. s[n].type = s[1].type
  BY <1>2 DEF SameKind
<1>8. ASSUME NEW g \in Nat, NEW e \in 0..N, g > 0 => e = 0 /\ secure,
             g + (N - e) = h + (N - d) - n \/ (g = 0 /\ e = N /\ h + (N - d) = 0) \/ n = l,
             \A i \in 1..l - n : n + i <= h => i <= g,
             n = l \/ (\A i \in 1..l - n : h < n + i /\ n + i <= h + (N - d) => g < i /\ e + i - g = d + (n + i) - h)
      PROVE  Saying(u, key, g, e, P, secure)
  <2>1. ASSUME NEW i \in 1..l - n
        PROVE  \/ i <= g /\ u[i].type = "handshake" /\ u[i].key = key
               \/ /\ g < i /\ i <= g + (N - e)
                  /\ u[i].type = "data" /\ u[i].key = key /\ u[i].content.message = P[e + i - g]
               \/ i > g + (N - e) /\ u[i].type = "alert" /\ u[i].key = key /\ secure
               \/ i > g + (N - e) /\ i = l - n /\ u[i].type = "eof" /\ u[i].key = Plain
    <3>1. PICK j : j = n + i
      OBVIOUS
    <3>2. j \in 1..l /\ u[i] = s[j] /\ n # l
      BY <1>2, <1>4, <3>1
    <3>3. CASE j <= h /\ s[j].type = "handshake" /\ s[j].key = key
      BY <1>8, <3>1, <3>2, <3>3
    <3>4. CASE /\ h < j /\ j <= h + (N - d)
               /\ s[j].type = "data" /\ s[j].key = key /\ s[j].content.message = P[d + j - h]
      <4>1. g < i /\ e + i - g = d + j - h
        BY <1>8, <3>1, <3>2, <3>4
      <4>2. i <= g + (N - e)
        BY <1>2, <1>5, <1>8, <3>1, <3>2, <3>4
      <4> QED BY <3>2, <3>4, <4>1, <4>2
    <3>5. ASSUME j > h + (N - d) PROVE i > g + (N - e)
      BY <1>2, <1>5, <1>8, <3>1, <3>2, <3>5, SMTT(60)
    <3>6. CASE j > h + (N - d) /\ s[j].type = "alert" /\ s[j].key = key /\ secure
      BY <3>2, <3>5, <3>6
    <3>7. CASE j > h + (N - d) /\ j = l /\ s[j].type = "eof" /\ s[j].key = Plain
      <4>1. i = l - n
        BY <1>2, <3>1, <3>7
      <4> QED BY <3>2, <3>5, <3>7, <4>1
    <3> QED BY <1>6, <3>2, <3>3, <3>4, <3>6, <3>7
  <2> QED BY <1>1, <1>4, <1>8, <2>1 DEF Saying
<1>9. CASE s[1].type = "data"
  <2>1. h = 0 /\ s[1].key = key /\ 1 <= N - d
    BY <1>2, <1>5, <1>6, <1>9
  <2>2. n <= N - d
    BY <1>2, <1>5, <1>6, <1>7, <1>9, <2>1
  <2>3. PICK e : e = d + n
    OBVIOUS
  <2>4. e \in 0..N /\ d <= e
    BY <1>2, <1>5, <2>2, <2>3
  <2>5. \A i \in 1..n : s[i].content.message = P[d + i]
    <3>1. SUFFICES ASSUME NEW i \in 1..n PROVE s[i].content.message = P[d + i]
      OBVIOUS
    <3>2. i \in 1..l /\ s[i].type = "data" /\ d + i - h = d + i
      BY <1>2, <1>5, <1>9, <2>1 DEF SameKind
    <3> QED BY <1>6, <3>2
  <2>6. Saying(u, key, 0, e, P, secure)
    BY <1>2, <1>5, <1>8, <2>1, <2>2, <2>3, <2>4
  <2>7. Takes(s, key, d, P, secure, n, e)
    BY <1>1, <1>9, <2>1, <2>3, <2>4, <2>5 DEF Takes
  <2> QED BY <1>1, <1>3, <2>6, <2>7
<1>10. CASE s[1].type = "handshake"
  <2>1. 1 <= h /\ s[1].key = key /\ secure /\ d = 0
    BY <1>2, <1>5, <1>6, <1>10
  <2>2. n <= h
    BY <1>2, <1>5, <1>6, <1>7, <1>10
  <2>3. PICK g : g = h - n
    OBVIOUS
  <2>4. g \in Nat
    BY <1>2, <1>5, <2>2, <2>3
  <2>5. Saying(u, key, g, d, P, secure)
    <3>1. g + (N - d) = h + (N - d) - n
      BY <1>2, <1>5, <2>3
    <3>2. \A i \in 1..l - n : n + i <= h => i <= g
      BY <1>2, <1>5, <2>3
    <3>3. \A i \in 1..l - n : h < n + i /\ n + i <= h + (N - d) => g < i /\ d + i - g = d + (n + i) - h
      BY <1>2, <1>5, <2>3
    <3> QED BY <1>5, <1>8, <2>1, <2>4, <3>1, <3>2, <3>3
  <2>6. Takes(s, key, d, P, secure, n, d)
    BY <1>1, <1>5, <1>10, <2>1 DEF Takes
  <2> QED BY <1>1, <1>3, <2>5, <2>6
<1>11. CASE s[1].type = "alert"
  <2>1. 1 > h + (N - d) /\ s[1].key = key /\ secure
    BY <1>2, <1>5, <1>6, <1>11
  <2>2. h = 0 /\ d = N
    BY <1>5, <1>2, <2>1
  <2>3. Saying(u, key, 0, N, P, secure)
    BY <1>2, <1>5, <1>8, <2>2
  <2>4. Takes(s, key, d, P, secure, n, N)
    BY <1>1, <1>2, <1>11, <2>1, <2>2 DEF Takes
  <2> QED BY <1>1, <1>3, <2>3, <2>4
<1>12. CASE s[1].type = "eof"
  <2>1. 1 = l /\ s[1].key = Plain
    BY <1>2, <1>5, <1>6, <1>12
  <2>2. n = l
    BY <1>2, <2>1
  <2>3. Saying(u, key, h, d, P, secure)
    <3>1. Len(u) = 0
      BY <1>2, <1>4, <2>2
    <3> QED BY <1>1, <1>5, <3>1 DEF Saying
  <2>4. Takes(s, key, d, P, secure, n, d)
    BY <1>1, <1>5, <1>12, <2>1, <2>2 DEF Takes
  <2> QED BY <1>1, <1>3, <2>3, <2>4
<1> QED BY <1>2, <1>6, <1>9, <1>10, <1>11, <1>12

\* A record's items are the next of the reply.
Carrying(f, n, P, d) == f = [i \in 1..n |-> f[i]] /\ \A i \in 1..n : f[i] = P[d + i]
LEMMA Slice ==
  ASSUME NEW S, NEW P \in Seq(S), NEW d \in Nat, NEW n \in Nat, d + n <= Len(P), NEW f, Carrying(f, n, P, d)
  PROVE  f = SubSeq(P, d + 1, d + n)
<1>f. f = [i \in 1..n |-> f[i]] /\ \A i \in 1..n : f[i] = P[d + i]
  BY DEF Carrying
<1>1. PICK a, b, N : a = d + 1 /\ b = d + n /\ N = Len(P)
  OBVIOUS
<1>2. a \in Int /\ b \in Int /\ N \in Nat /\ b <= N /\ a >= 1 /\ b - a + 1 = n /\ ((a <= b) <=> (n # 0))
  <2>1. N \in Nat /\ d + n <= N
    BY <1>1
  <2>2. b - a + 1 = n
    BY <1>1
  <2>3. (d + 1 <= d + n) <=> (n # 0)
    OBVIOUS
  <2> QED BY <1>1, <2>1, <2>2, <2>3
<1>3. \A i \in a..b : P[i] \in S
  <2>1. \A i \in a..b : i \in 1..N
    BY <1>2
  <2> QED BY <1>1, <2>1
<1>4. /\ SubSeq(P, a, b) \in Seq(S)
      /\ Len(SubSeq(P, a, b)) = IF a <= b THEN b - a + 1 ELSE 0
      /\ \A i \in 1..(b - a + 1) : SubSeq(P, a, b)[i] = P[a + i - 1]
  BY <1>2, <1>3, SubSeqProperties
<1>5. Len(SubSeq(P, a, b)) = n
  BY <1>2, <1>4
<1>6. \A i \in 1..n : a + i - 1 = d + i
  BY <1>1
<1>7. \A i \in 1..n : SubSeq(P, a, b)[i] = f[i]
  BY <1>f, <1>2, <1>4, <1>6, SMTT(60)
<1>8. f \in Seq(S)
  <2>1. \A i \in 1..n : d + i \in 1..N
    BY <1>1
  <2>2. \A i \in 1..n : P[d + i] \in S
    BY <1>1, <2>1
  <2>3. \A i \in 1..n : f[i] \in S
    BY <1>f, <2>2
  <2>4. f \in [1..n -> S]
    <3>1. f = [i \in 1..n |-> f[i]]
      BY <1>f
    <3> QED BY <2>3, <3>1
  <2> QED BY <2>4
<1>9. Len(f) = n
  BY <1>f
<1>10. f = SubSeq(P, a, b)
  BY <1>4, <1>5, <1>7, <1>8, <1>9, SeqEqual
<1> QED BY <1>1, <1>10

\* One record more of the reply's key.
More(cut, m, e) == [i \in 0..m + 1 |-> IF i <= m THEN cut[i] ELSE e]
LEMMA MoreCuts ==
  ASSUME NEW P, NEW N \in Nat, N = Len(P), NEW cut, NEW m, Cuts(cut, m, P), NEW e \in 0..N, cut[m] <= e
  PROVE  /\ Cuts(More(cut, m, e), m + 1, P) /\ More(cut, m, e)[m + 1] = e
         /\ \A i \in 0..m : More(cut, m, e)[i] = cut[i]
         /\ \A r, K : Carried(r, K, cut, m, P) => Carried(r, K, More(cut, m, e), m + 1, P)
<1>1. m \in Nat /\ cut \in [0..m -> 0..N] /\ cut[0] = 0 /\ \A i \in 1..m : cut[i - 1] <= cut[i]
  BY DEF Cuts
<1>2. PICK c : c = More(cut, m, e)
  OBVIOUS
<1>3. c = [i \in 0..m + 1 |-> IF i <= m THEN cut[i] ELSE e]
  BY <1>2 DEF More
<1>4. \A i \in 0..m : i \in 0..m + 1 /\ i <= m
  BY <1>1
<1>5. m + 1 \in 0..m + 1 /\ ~(m + 1 <= m)
  BY <1>1
<1>6. (\A i \in 0..m : c[i] = cut[i]) /\ c[m + 1] = e
  BY <1>3, <1>4, <1>5
<1>7. c \in [0..m + 1 -> 0..N]
  <2>1. \A i \in 0..m + 1 : i <= m => cut[i] \in 0..N
    BY <1>1
  <2> QED BY <1>3, <2>1
<1>8. \A i \in 1..m + 1 : c[i - 1] <= c[i]
  <2>1. SUFFICES ASSUME NEW i \in 1..m + 1 PROVE c[i - 1] <= c[i]
    OBVIOUS
  <2>2. CASE i <= m
    <3>1. i \in 1..m /\ i \in 0..m /\ i - 1 \in 0..m
      BY <1>1, <2>2
    <3> QED BY <1>1, <1>6, <3>1
  <2>3. CASE ~(i <= m)
    <3>1. i = m + 1 /\ i - 1 = m /\ m \in 0..m
      BY <1>1, <2>3
    <3> QED BY <1>6, <3>1
  <2> QED BY <2>2, <2>3
<1>9. c[0] = 0 /\ m + 1 \in Nat
  BY <1>1, <1>6
<1>10. Cuts(c, m + 1, P)
  BY <1>7, <1>8, <1>9 DEF Cuts
<1>11. ASSUME NEW r, NEW K, Carried(r, K, cut, m, P)
       PROVE  Carried(r, K, c, m + 1, P)
  <2>1. r.n \in Nat /\ r.n < m
    BY <1>11 DEF Carried
  <2>2. r.n \in 0..m /\ r.n + 1 \in 0..m /\ r.n < m + 1
    BY <1>1, <2>1
  <2>3. c[r.n] = cut[r.n] /\ c[r.n + 1] = cut[r.n + 1]
    BY <1>6, <2>2
  <2> QED BY <1>11, <2>1, <2>2, <2>3 DEF Carried
<1> QED BY <1>2, <1>6, <1>10, <1>11

\* The server says a record of its flight or of its reply.
LEMMA SaysOverTls ==
  ASSUME ExInv, NEW n \in 1..8, server_says(n), NEW S, NEW P \in Seq(S), TlsFits(server, peer, toClient, P)
  PROVE  TlsFits(server', peer', toClient', P)
<1>1. /\ n \in 1..Len(server.said) /\ UNCHANGED <<over, held, clock, peer, toServer, sealed, faults>>
      /\ \A i \in 1..n : server.said[i].key = server.said[1].key /\ server.said[i].type = server.said[1].type
  BY DEF server_says
<1>2. PICK s, K, N : s = server.said /\ K = ReplyKey(server) /\ N = Len(P)
  OBVIOUS
<1>3. IsServer(server) /\ Listed(s) /\ Listed(toClient)
  BY <1>2 DEF ExInv, ServerSound, Sayings, Incoming
<1>4. PICK e : e = s[1]
  OBVIOUS
<1>5. PICK number : number = IF e.key = server.key THEN server.n ELSE 0
  OBVIOUS
<1>6. PICK content : content = IF e.type = "alert" THEN e.content.message
                               ELSE [i \in 1..n |-> IF e.type = "data" THEN s[i].content.message ELSE s[i].content]
  OBVIOUS
<1>7. PICK r : r = Record(e.type, e.key, number, content)
  OBVIOUS
<1>8. PICK ccs \in {<<>>, <<Record("change_cipher_spec", Plain, 0, 1)>>} :
        /\ server' = [server EXCEPT !.said = SubSeq(s, n + 1, Len(s)), !.key = e.key,
                                    !.n = IF e.key = Plain THEN 0 ELSE number + 1]
        /\ toClient' = toClient \o ccs \o <<r>>
  BY <1>2, <1>4, <1>5, <1>6, <1>7 DEF server_says
<1>9. /\ server'.pc = server.pc /\ server'.transcript = server.transcript /\ server'.key = e.key
      /\ server'.n = (IF e.key = Plain THEN 0 ELSE number + 1)
      /\ server'.said = SubSeq(s, n + 1, Len(s)) /\ ReplyKey(server') = K
  BY <1>2, <1>3, <1>8 DEF IsServer, ReplyKey
<1>10. PICK cut, m : InStep(server, peer, toClient, cut, m, P)
  BY DEF TlsFits
<1>11. /\ Cuts(cut, m, P) /\ Coming(toClient, K, cut, m, P) /\ ServerAt(server, K, cut, m, P) /\ ClientHas(peer, K, cut, m, P)
  BY <1>2, <1>10 DEF InStep
<1>12. m \in Nat /\ cut \in [0..m -> 0..N] /\ N \in Nat
  BY <1>2, <1>11 DEF Cuts
<1>13. \A x \in Range(toClient') : x \in Range(toClient) \/ Prior(x) \/ x = r
  <2>1. Listed(ccs) /\ \A x \in Range(ccs) : Prior(x)
    <3>1. CASE ccs = <<>>
      BY <3>1, ListNone
    <3>2. CASE ccs = <<Record("change_cipher_spec", Plain, 0, 1)>>
      <4>1. Prior(Record("change_cipher_spec", Plain, 0, 1))
        BY KeysApart DEF Prior, Record
      <4> QED BY <3>2, <4>1, ListOne
    <3> QED BY <1>8, <3>1, <3>2
  <2>2. Listed(<<r>>) /\ Range(<<r>>) = {r}
    BY ListOne
  <2>3. PICK a : a = toClient \o ccs
    OBVIOUS
  <2>4. Listed(a) /\ Range(a) \subseteq Range(toClient) \cup Range(ccs)
    BY <1>3, <2>1, <2>3, ListConcat
  <2>5. Range(a \o <<r>>) \subseteq Range(a) \cup {r}
    BY <2>2, <2>4, ListConcat
  <2> QED BY <1>8, <2>1, <2>3, <2>4, <2>5
<1>14. s # <<>> /\ e \in Range(s) /\ SameKind(s, n) /\ n \in 1..Len(s)
  <2>1. Len(s) \in Nat /\ 1 \in 1..Len(s)
    BY <1>1, <1>2, <1>3 DEF Listed
  <2> QED BY <1>1, <1>2, <1>3, <1>4, <2>1 DEF SameKind, Listed, Range
<1>15. CASE server.pc = "Finished"
  <2>1. m = 0 /\ Unapplied(e.key) /\ e.type \in {"handshake", "change_cipher_spec"}
    BY <1>2, <1>11, <1>14, <1>15 DEF ServerAt
  <2>2. Prior(r)
    BY <1>7, <2>1 DEF Prior, Record
  <2>3. Coming(toClient', K, cut, m, P)
    BY <1>11, <1>13, <2>2 DEF Coming
  <2>4. Range(server'.said) \subseteq Range(s)
    <3>1. PICK k \in Nat \ {0} : k = n + 1
      OBVIOUS
    <3> QED BY <1>3, <1>9, <3>1, ListRest
  <2>5. ServerAt(server', K, cut, m, P)
    BY <1>2, <1>9, <1>11, <1>15, <2>1, <2>4 DEF ServerAt
  <2>6. InStep(server', peer', toClient', cut, m, P)
    BY <1>1, <1>9, <1>11, <2>3, <2>5 DEF InStep
  <2> QED BY <2>6 DEF TlsFits
<1>16. CASE server.pc = "replied"
  <2>1. PICK h : Saying(s, K, h, cut[m], P, TRUE)
    BY <1>2, <1>11, <1>16 DEF ServerAt
  <2>2. PICK d : d = cut[m]
    OBVIOUS
  <2>3. d \in 0..N
    BY <1>12, <2>2
  <2>4. \E g, x : Saying(SubSeq(s, n + 1, Len(s)), K, g, x, P, TRUE) /\ Takes(s, K, d, P, TRUE, n, x)
    BY <1>3, <1>14, <2>1, <2>2, SaysOn
  <2>5. PICK g, x : Saying(server'.said, K, g, x, P, TRUE) /\ Takes(s, K, d, P, TRUE, n, x)
    BY <1>9, <2>4
  <2>6. x \in 0..N /\ d <= x
    BY <1>2, <2>5 DEF Takes
  <2>7. K # Plain /\ ~Unapplied(K)
    BY <1>2, KeysApart DEF ReplyKey
  <2>8. \/ m = 0 /\ Unapplied(server.key)
        \/ server.key = K /\ server.n = m
    BY <1>2, <1>11, <1>14, <1>16 DEF ServerAt
  <2>9. CASE e.key = K
    <3>1. number = m
      BY <1>5, <2>7, <2>8, <2>9
    <3>2. PICK c : c = More(cut, m, x)
      OBVIOUS
    <3>3. /\ Cuts(c, m + 1, P) /\ c[m + 1] = x /\ \A i \in 0..m : c[i] = cut[i]
          /\ \A y, L : Carried(y, L, cut, m, P) => Carried(y, L, c, m + 1, P)
      <4>1. cut[m] <= x /\ N = Len(P) /\ Cuts(cut, m, P)
        BY <1>2, <1>11, <2>2, <2>6
      <4>2. /\ Cuts(More(cut, m, x), m + 1, P) /\ More(cut, m, x)[m + 1] = x
            /\ \A i \in 0..m : More(cut, m, x)[i] = cut[i]
            /\ \A y, L : Carried(y, L, cut, m, P) => Carried(y, L, More(cut, m, x), m + 1, P)
        BY <1>12, <2>6, <4>1, MoreCuts
      <4> QED BY <3>2, <4>2
    <3>4. c[m] = d /\ m + 1 \in Nat
      BY <1>12, <2>2, <3>3
    <3>5. r.key = K /\ r.n = m /\ r.type = e.type /\ r.content = content
      BY <1>7, <2>9, <3>1 DEF Record
    <3>6. Carried(r, K, c, m + 1, P)
      <4>1. CASE e.type = "data"
        <5>1. x = d + n /\ \A i \in 1..n : s[i].content.message = P[d + i]
          BY <1>4, <2>5, <4>1 DEF Takes
        <5>2. content = [i \in 1..n |-> s[i].content.message]
          BY <1>6, <4>1
        <5>3. Carrying(content, n, P, d)
          BY <5>1, <5>2 DEF Carrying
        <5>4. d \in Nat /\ n \in Nat /\ d + n <= Len(P)
          BY <1>2, <1>12, <2>3, <2>6, <5>1
        <5>5. content = SubSeq(P, d + 1, d + n)
          BY <5>3, <5>4, Slice
        <5>6. r.n = m /\ m \in Nat /\ r.n < m + 1 /\ c[r.n] = d /\ c[r.n + 1] = d + n
          BY <1>12, <3>3, <3>4, <3>5, <5>1
        <5>7. r.key = K /\ r.type = "data" /\ r.content = SubSeq(P, c[r.n] + 1, c[r.n + 1])
          BY <3>5, <4>1, <5>5, <5>6
        <5> QED BY <5>6, <5>7 DEF Carried
      <4>2. CASE e.type # "data"
        <5>1. x = d /\ (e.type = "alert" => d = Len(P))
          BY <1>4, <2>5, <4>2 DEF Takes
        <5> QED BY <1>12, <3>3, <3>4, <3>5, <4>2, <5>1 DEF Carried
      <4> QED BY <4>1, <4>2
    <3>7. Coming(toClient', K, c, m + 1, P)
      BY <1>11, <1>13, <3>3, <3>6 DEF Coming
    <3>8. ServerAt(server', K, c, m + 1, P)
      BY <1>9, <1>16, <2>5, <2>7, <2>9, <3>1, <3>3 DEF ServerAt
    <3>9. ClientHas(peer, K, c, m + 1, P)
      <4>1. \A o \in 0..m : o \in 0..m + 1 /\ c[o] = cut[o]
        BY <1>12, <3>3
      <4> QED BY <1>11, <4>1 DEF ClientHas
    <3>10. InStep(server', peer', toClient', c, m + 1, P)
      BY <1>1, <1>9, <3>3, <3>7, <3>8, <3>9 DEF InStep
    <3> QED BY <3>10 DEF TlsFits
  <2>10. CASE e.key # K
    <3>1. e.type = "eof" /\ e.key = Plain /\ x = d /\ n = Len(s)
      BY <1>4, <2>5, <2>10 DEF Takes
    <3>2. Prior(r)
      BY <1>7, <3>1, KeysApart DEF Prior, Record
    <3>3. Coming(toClient', K, cut, m, P)
      BY <1>11, <1>13, <3>2 DEF Coming
    <3>4. server'.said = <<>>
      <4>1. PICK a, l : a = n + 1 /\ l = n
        OBVIOUS
      <4>2. l < a /\ a \in Int /\ l \in Int
        BY <4>1
      <4>3. SubSeq(s, a, l) = <<>>
        BY <4>2, SubSeqEmpty
      <4> QED BY <1>9, <3>1, <4>1, <4>3
    <3>5. ServerAt(server', K, cut, m, P)
      BY <1>9, <1>16, <2>2, <2>5, <3>1, <3>4 DEF ServerAt
    <3>6. InStep(server', peer', toClient', cut, m, P)
      BY <1>1, <1>9, <1>11, <3>3, <3>5 DEF InStep
    <3> QED BY <3>6 DEF TlsFits
  <2> QED BY <2>9, <2>10
<1> QED BY <1>2, <1>11, <1>14, <1>15, <1>16 DEF ServerAt

\* What is in a list put together of two.
Joined(z, x, y) ==
  /\ Len(z) = Len(x) + Len(y) /\ Len(x) \in Nat /\ Len(y) \in Nat
  /\ \A i \in 1..Len(x) + Len(y) : z[i] = IF i <= Len(x) THEN x[i] ELSE y[i - Len(x)]
LEMMA JoinedLists ==
  ASSUME NEW x, NEW y, Listed(x), Listed(y)
  PROVE  Joined(x \o y, x, y) /\ Listed(x \o y)
<1>1. PICK S : S = Range(x) \cup Range(y)
  OBVIOUS
<1>2. x \in Seq(S) /\ y \in Seq(S)
  BY <1>1 DEF Listed
<1>3. /\ Len(x \o y) = Len(x) + Len(y)
      /\ \A i \in 1..Len(x) + Len(y) : (x \o y)[i] = IF i <= Len(x) THEN x[i] ELSE y[i - Len(x)]
  BY <1>2, ConcatProperties
<1> QED BY <1>2, <1>3, ListConcat DEF Joined

\* The whole reply is what is to be said of it at first.
LEMMA ReplySaid ==
  ASSUME NEW key, NEW tickets \in BOOLEAN, NEW update \in BOOLEAN,
         tickets \/ update => over = "tls" /\ ~(tickets /\ update)
  PROVE  \E h : Saying(Reply(key, tickets, update), key, h, 0, ReplyItems, over = "tls")
<1>1. PICK P, N : P = ReplyItems /\ N = Len(P)
  OBVIOUS
<1>2. N \in Nat /\ DOMAIN P = 1..N
  BY <1>1, ReplyList
<1>3. PICK a, b, c, g, z :
        /\ a = IF tickets THEN Pieces("handshake", key, Ticket, 2) ELSE <<>>
        /\ b = IF update THEN Said("handshake", key, [kind |-> "KeyUpdate"]) ELSE <<>>
        /\ c = [i \in 1..N |-> Said("data", key, P[i])[1]]
        /\ g = IF over = "tls" THEN Said("alert", key, "close_notify") ELSE <<>>
        /\ z = Said("eof", Plain, 0)
  OBVIOUS
<1>4. PICK ab, abc, abcg, s : ab = a \o b /\ abc = ab \o c /\ abcg = abc \o g /\ s = abcg \o z
  OBVIOUS
<1>5. Reply(key, tickets, update) = s
  BY <1>1, <1>2, <1>3, <1>4 DEF Reply
<1>6. PICK la, lb, lg : la = (IF tickets THEN 2 ELSE 0) /\ lb = (IF update THEN 1 ELSE 0) /\ lg = (IF over = "tls" THEN 1 ELSE 0)
  OBVIOUS
<1>7. Listed(a) /\ Len(a) = la /\ \A i \in 1..la : a[i].type = "handshake" /\ a[i].key = key
  <2>1. CASE tickets
    <3>1. a = [i \in 1..2 |-> [type |-> "handshake", key |-> key, content |-> [message |-> Ticket, piece |-> i, pieces |-> 2]]]
      BY <1>3, <2>1 DEF Pieces
    <3>2. a = [i \in 1..2 |-> a[i]] /\ Len(a) = 2 /\ \A i \in 1..2 : a[i].type = "handshake" /\ a[i].key = key
      BY <3>1
    <3>3. Listed(a)
      BY <3>2, ListFun
    <3> QED BY <1>6, <2>1, <3>2, <3>3
  <2>2. CASE ~tickets
    BY <1>3, <1>6, <2>2, ListNone
  <2> QED BY <2>1, <2>2
<1>8. Listed(b) /\ Len(b) = lb /\ \A i \in 1..lb : b[i].type = "handshake" /\ b[i].key = key
  <2>1. CASE update
    <3>1. b = [i \in 1..1 |-> [type |-> "handshake", key |-> key, content |-> [message |-> [kind |-> "KeyUpdate"], piece |-> i, pieces |-> 1]]]
      BY <1>3, <2>1 DEF Said, Pieces
    <3>2. b = [i \in 1..1 |-> b[i]] /\ Len(b) = 1 /\ \A i \in 1..1 : b[i].type = "handshake" /\ b[i].key = key
      BY <3>1
    <3>3. Listed(b)
      BY <3>2, ListFun
    <3> QED BY <1>6, <2>1, <3>2, <3>3
  <2>2. CASE ~update
    BY <1>3, <1>6, <2>2, ListNone
  <2> QED BY <2>1, <2>2
<1>9. Listed(c) /\ Len(c) = N /\ \A i \in 1..N : c[i].type = "data" /\ c[i].key = key /\ c[i].content.message = P[i]
  <2>1. c = [i \in 1..N |-> c[i]] /\ Len(c) = N
    BY <1>2, <1>3
  <2>2. \A i \in 1..N : c[i].type = "data" /\ c[i].key = key /\ c[i].content.message = P[i]
    BY <1>3 DEF Said, Pieces
  <2> QED BY <1>2, <2>1, <2>2, ListFun
<1>10. Listed(g) /\ Len(g) = lg /\ \A i \in 1..lg : g[i].type = "alert" /\ g[i].key = key /\ over = "tls"
  <2>1. CASE over = "tls"
    <3>1. g = [i \in 1..1 |-> [type |-> "alert", key |-> key, content |-> [message |-> "close_notify", piece |-> i, pieces |-> 1]]]
      BY <1>3, <2>1 DEF Said, Pieces
    <3>2. g = [i \in 1..1 |-> g[i]] /\ Len(g) = 1 /\ \A i \in 1..1 : g[i].type = "alert" /\ g[i].key = key
      BY <3>1
    <3>3. Listed(g)
      BY <3>2, ListFun
    <3> QED BY <1>6, <2>1, <3>2, <3>3
  <2>2. CASE over # "tls"
    BY <1>3, <1>6, <2>2, ListNone
  <2> QED BY <2>1, <2>2
<1>11. Listed(z) /\ Len(z) = 1 /\ z[1].type = "eof" /\ z[1].key = Plain
  <2>1. z = [i \in 1..1 |-> [type |-> "eof", key |-> Plain, content |-> [message |-> 0, piece |-> i, pieces |-> 1]]]
    BY <1>3 DEF Said, Pieces
  <2>2. z = [i \in 1..1 |-> z[i]] /\ Len(z) = 1 /\ z[1].type = "eof" /\ z[1].key = Plain
    BY <2>1
  <2>3. Listed(z)
    BY <2>2, ListFun
  <2> QED BY <2>2, <2>3
<1>12. Joined(ab, a, b) /\ Listed(ab)
  BY <1>4, <1>7, <1>8, JoinedLists
<1>13. Joined(abc, ab, c) /\ Listed(abc)
  BY <1>4, <1>9, <1>12, JoinedLists
<1>14. Joined(abcg, abc, g) /\ Listed(abcg)
  BY <1>4, <1>10, <1>13, JoinedLists
<1>15. Joined(s, abcg, z) /\ Listed(s)
  BY <1>4, <1>11, <1>14, JoinedLists
<1>16. PICK h : h = la + lb
  OBVIOUS
<1>17. la \in Nat /\ lb \in Nat /\ lg \in Nat /\ h \in Nat /\ (h > 0 => over = "tls")
  BY <1>6, <1>16
<1>18. Len(ab) = h /\ \A i \in 1..h : ab[i] = IF i <= la THEN a[i] ELSE b[i - la]
  BY <1>7, <1>8, <1>12, <1>16 DEF Joined
<1>19. Len(abc) = h + N /\ \A i \in 1..h + N : abc[i] = IF i <= h THEN ab[i] ELSE c[i - h]
  BY <1>9, <1>13, <1>18 DEF Joined
<1>20. Len(abcg) = h + N + lg /\ \A i \in 1..h + N + lg : abcg[i] = IF i <= h + N THEN abc[i] ELSE g[i - (h + N)]
  BY <1>10, <1>14, <1>19 DEF Joined
<1>21. Len(s) = h + N + lg + 1 /\ \A i \in 1..h + N + lg + 1 : s[i] = IF i <= h + N + lg THEN abcg[i] ELSE z[i - (h + N + lg)]
  BY <1>11, <1>15, <1>20 DEF Joined
<1>22. ASSUME NEW i \in 1..Len(s)
       PROVE  \/ i <= h /\ s[i].type = "handshake" /\ s[i].key = key
              \/ /\ h < i /\ i <= h + (N - 0)
                 /\ s[i].type = "data" /\ s[i].key = key /\ s[i].content.message = P[0 + i - h]
              \/ i > h + (N - 0) /\ s[i].type = "alert" /\ s[i].key = key /\ over = "tls"
              \/ i > h + (N - 0) /\ i = Len(s) /\ s[i].type = "eof" /\ s[i].key = Plain
  <2>0. i \in Nat /\ i \in 1..h + N + lg + 1
    BY <1>2, <1>17, <1>21
  <2>1. CASE i <= h
    <3>1. i \in 1..h /\ i \in 1..h + N /\ i \in 1..h + N + lg /\ i <= h + N /\ i <= h + N + lg
      BY <1>2, <1>17, <2>0, <2>1
    <3>2. s[i] = ab[i]
      BY <1>19, <1>20, <1>21, <2>0, <2>1, <3>1
    <3>3. i \in 1..la \/ (~(i <= la) /\ i - la \in 1..lb)
      BY <1>16, <1>17, <2>0, <2>1
    <3>4. ab[i].type = "handshake" /\ ab[i].key = key
      BY <1>7, <1>8, <1>18, <3>1, <3>3
    <3> QED BY <2>1, <3>2, <3>4
  <2>2. CASE h < i /\ i <= h + N
    <3>1. i \in 1..h + N /\ i \in 1..h + N + lg /\ ~(i <= h) /\ i <= h + N + lg /\ i - h \in 1..N /\ 0 + i - h = i - h /\ N - 0 = N
      BY <1>2, <1>17, <2>0, <2>2
    <3>2. s[i] = c[i - h]
      BY <1>19, <1>20, <1>21, <2>0, <2>2, <3>1
    <3> QED BY <1>9, <2>2, <3>1, <3>2
  <2>3. CASE h + N < i /\ i <= h + N + lg
    <3>1. i \in 1..h + N + lg /\ ~(i <= h + N) /\ i - (h + N) \in 1..lg /\ i > h + (N - 0)
      BY <1>2, <1>17, <2>0, <2>3
    <3>2. s[i] = g[i - (h + N)]
      BY <1>20, <1>21, <2>0, <2>3, <3>1
    <3> QED BY <1>10, <3>1, <3>2
  <2>4. CASE i > h + N + lg
    <3>1. i = h + N + lg + 1 /\ ~(i <= h + N + lg) /\ i - (h + N + lg) = 1 /\ i > h + (N - 0)
      BY <1>2, <1>17, <2>0, <2>4
    <3>2. s[i] = z[1]
      BY <1>21, <2>0, <3>1
    <3> QED BY <1>11, <1>21, <3>1, <3>2
  <2>5. i <= h \/ (h < i /\ i <= h + N) \/ (h + N < i /\ i <= h + N + lg) \/ i > h + N + lg
    BY <1>2, <1>17, <2>0
  <2> QED BY <2>1, <2>2, <2>3, <2>4, <2>5
<1>23. Saying(s, key, h, 0, P, over = "tls")
  <2>1. 0 \in 0..N
    BY <1>2
  <2> QED BY <1>1, <1>17, <1>22, <2>1 DEF Saying
<1> QED BY <1>1, <1>5, <1>23

\* The pieces of a message are under one key, of one kind.
Foreword(e) == Unapplied(e.key) /\ e.type \in {"handshake", "change_cipher_spec"}
Forewords(s) == Listed(s) /\ \A e \in Range(s) : Foreword(e)
LEMMA ForewordFacts ==
  /\ Forewords(<<>>)
  /\ \A a, b : Forewords(a) /\ Forewords(b) => Forewords(a \o b)
  /\ \A type, key, m : Unapplied(key) /\ type \in {"handshake", "change_cipher_spec"} =>
       Forewords(Said(type, key, m)) /\ Forewords(Pieces(type, key, m, 2))
<1>1. Forewords(<<>>)
  BY ListNone DEF Forewords
<1>2. ASSUME NEW a, NEW b, Forewords(a), Forewords(b)
      PROVE  Forewords(a \o b)
  BY <1>2, ListConcat DEF Forewords
<1>3. ASSUME NEW type, NEW key, NEW m, Unapplied(key), type \in {"handshake", "change_cipher_spec"}, NEW k \in {1, 2}
      PROVE  Forewords(Pieces(type, key, m, k))
  <2>1. PICK f : f = Pieces(type, key, m, k)
    OBVIOUS
  <2>2. f = [i \in 1..k |-> f[i]] /\ \A i \in 1..k : f[i].type = type /\ f[i].key = key
    BY <2>1 DEF Pieces
  <2>3. k \in Nat
    BY <1>3
  <2>4. Listed(f) /\ \A x \in Range(f) : \E i \in 1..k : x = f[i]
    BY <2>2, <2>3, ListFun
  <2>5. Forewords(f)
    BY <1>3, <2>2, <2>4 DEF Forewords, Foreword
  <2> QED BY <2>1, <2>5
<1> QED BY <1>1, <1>2, <1>3 DEF Said

\* What answering the hello does to the server: it refuses it, or has its flight to say.
Flown ==
  /\ server'.framing = server.framing
  /\ \/ /\ server' = [server EXCEPT !.pc = "gone"]
        /\ toClient' = toClient \o <<Record("alert", Plain, 0, "protocol_version"), EndOfStream>>
     \/ Forewords(server'.said) /\ server'.pc = "Finished" /\ server'.key = server.key /\ UNCHANGED toClient
LEMMA FlightSaid ==
  ASSUME IsServer(server), server_answers
  PROVE  Flown
<1>1. CASE /\ server' = [server EXCEPT !.pc = "gone"]
           /\ toClient' = toClient \o <<Record("alert", Plain, 0, "protocol_version"), EndOfStream>>
  <2>1. server'.framing = server.framing
    BY <1>1 DEF IsServer
  <2> QED BY <1>1, <2>1 DEF Flown
<1>2. ASSUME NEW alpn \in {"none", "http/1.1"},
             LET sh == IF Conforms /\ server.hello.suite \notin Head(toServer).content.suites
                          THEN GoodHello(CHOOSE x \in Head(toServer).content.suites : TRUE) ELSE server.hello
                 d == server.deviates
                 t == <<Head(toServer).content, sh>>  k == handshake_traffic("server", t)
                 ee == [kind |-> "EncryptedExtensions", alpn |-> IF d = "alpn" THEN "h2" ELSE alpn]
                 cert == [kind |-> IF d = "request" THEN "CertificateRequest" ELSE "Certificate",
                          context |-> d = "context", trusted |-> server.trusted]
                 t1 == <<Head(toServer).content, sh, ee, cert>>
                 cv == [kind |-> "CertificateVerify", fits |-> d # "unfit",
                        signed |-> <<IF server.signs THEN "leaf" ELSE "another", signed_content(t1)>>]
                 t2 == Append(t1, cv)
                 fin == IF d = "finished" THEN finished("server", t1) ELSE finished("server", t2)
                 t3 == Append(t2, fin)
             IN /\ server' = [server EXCEPT !.pc = "Finished", !.transcript = t3,
                      !.said = Said("handshake", Plain, sh)
                               \o Said("handshake", IF d = "spans" THEN Plain ELSE k, ee)
                               \o Pieces("handshake", k, cert, 2)
                               \o (IF d = "skip" THEN <<>> ELSE Said("handshake", k, cv))
                               \o Said("handshake", k, fin)
                               \o (IF d = "spans_finished" THEN Said("handshake", k, Ticket) ELSE <<>>)
                               \o (IF d = "ccs_late" THEN Said("change_cipher_spec", Plain, 1) ELSE <<>>)]
                /\ toClient' = toClient
      PROVE  Flown
  <2> DEFINE sh == IF Conforms /\ server.hello.suite \notin Head(toServer).content.suites
                   THEN GoodHello(CHOOSE x \in Head(toServer).content.suites : TRUE) ELSE server.hello
             d == server.deviates
             k == handshake_traffic("server", <<Head(toServer).content, sh>>)
             ee == [kind |-> "EncryptedExtensions", alpn |-> IF d = "alpn" THEN "h2" ELSE alpn]
             cert == [kind |-> IF d = "request" THEN "CertificateRequest" ELSE "Certificate",
                      context |-> d = "context", trusted |-> server.trusted]
             t1 == <<Head(toServer).content, sh, ee, cert>>
             cv == [kind |-> "CertificateVerify", fits |-> d # "unfit",
                    signed |-> <<IF server.signs THEN "leaf" ELSE "another", signed_content(t1)>>]
             t2 == Append(t1, cv)
             fin == IF d = "finished" THEN finished("server", t1) ELSE finished("server", t2)
             t == Append(t2, fin)
             said == Said("handshake", Plain, sh)
                     \o Said("handshake", IF d = "spans" THEN Plain ELSE k, ee)
                     \o Pieces("handshake", k, cert, 2)
                     \o (IF d = "skip" THEN <<>> ELSE Said("handshake", k, cv))
                     \o Said("handshake", k, fin)
                     \o (IF d = "spans_finished" THEN Said("handshake", k, Ticket) ELSE <<>>)
                     \o (IF d = "ccs_late" THEN Said("change_cipher_spec", Plain, 1) ELSE <<>>)
  <2>1. server' = [server EXCEPT !.pc = "Finished", !.transcript = t, !.said = said] /\ toClient' = toClient
    BY <1>2, Zenon
  <2> HIDE DEF t
  <2>2. Unapplied(Plain) /\ Unapplied(k) /\ Unapplied(IF d = "spans" THEN Plain ELSE k)
    BY KeysApart
  <2> HIDE DEF sh, d, k, ee, cert, cv, t1, t2, fin
  <2>3. PICK a, b, c, e, f, g, h :
          /\ a = Said("handshake", Plain, sh)
          /\ b = Said("handshake", IF d = "spans" THEN Plain ELSE k, ee)
          /\ c = Pieces("handshake", k, cert, 2)
          /\ e = IF d = "skip" THEN <<>> ELSE Said("handshake", k, cv)
          /\ f = Said("handshake", k, fin)
          /\ g = IF d = "spans_finished" THEN Said("handshake", k, Ticket) ELSE <<>>
          /\ h = IF d = "ccs_late" THEN Said("change_cipher_spec", Plain, 1) ELSE <<>>
    OBVIOUS
  <2>4. Forewords(a) /\ Forewords(b) /\ Forewords(c) /\ Forewords(e) /\ Forewords(f) /\ Forewords(g) /\ Forewords(h)
    BY <2>2, <2>3, ForewordFacts
  <2>5. said = a \o b \o c \o e \o f \o g \o h
    BY <2>3
  <2> HIDE DEF said
  <2>6. Forewords(said)
    BY <2>4, <2>5, ForewordFacts
  <2>7. /\ server'.said = said /\ server'.pc = "Finished" /\ server'.key = server.key
        /\ server'.framing = server.framing /\ UNCHANGED toClient
    BY <1>1, <2>1 DEF IsServer
  <2> QED BY <2>6, <2>7 DEF Flown
<1> QED BY <1>1, <1>2, ZenonT(60) DEF server_answers

\* The server answers the hello: the flight is none of the reply.
LEMMA AnswersOverTls ==
  ASSUME ExInv, server_answers, NEW P, TlsFits(server, peer, toClient, P)
  PROVE  TlsFits(server', peer', toClient', P)
<1>1. server.pc = "hello" /\ over = "tls" /\ UNCHANGED peer /\ IsServer(server) /\ Listed(toClient)
  BY DEF server_answers, ExInv, ServerSound, Incoming
<1>2. ~peer.established
  BY <1>1 DEF ExInv, ServerSound, ClientSound
<1>3. PICK cut, m : InStep(server, peer, toClient, cut, m, P)
  BY DEF TlsFits
<1>4. PICK K : K = ReplyKey(server)
  OBVIOUS
<1>5. Cuts(cut, m, P) /\ Coming(toClient, K, cut, m, P) /\ ServerAt(server, K, cut, m, P) /\ ClientHas(peer, K, cut, m, P)
  BY <1>3, <1>4 DEF InStep
<1>6. m = 0 /\ server.said = <<>> /\ Unapplied(server.key)
  BY <1>1, <1>5 DEF ServerAt
<1>7. \A r \in Range(toClient) : Prior(r)
  BY <1>5, <1>6 DEF Coming, Carried
<1>8. \A L : ClientHas(peer, L, cut, m, P)
  BY <1>2, <1>5 DEF ClientHas
<1>9. CASE /\ server' = [server EXCEPT !.pc = "gone"]
           /\ toClient' = toClient \o <<Record("alert", Plain, 0, "protocol_version"), EndOfStream>>
  <2>1. PICK x, y : x = Record("alert", Plain, 0, "protocol_version") /\ y = EndOfStream
    OBVIOUS
  <2>2. Prior(x) /\ Prior(y)
    BY <2>1, KeysApart DEF Prior, Record, EndOfStream
  <2>3. Listed(<<x, y>>) /\ Range(<<x, y>>) = {x, y}
    BY ListPairs
  <2>4. Range(toClient') \subseteq Range(toClient) \cup {x, y}
    BY <1>1, <1>9, <2>1, <2>3, ListConcat
  <2>5. \A r \in Range(toClient') : Prior(r)
    BY <1>7, <2>2, <2>4
  <2>6. server'.pc = "gone" /\ server'.said = <<>>
    BY <1>1, <1>6, <1>9 DEF IsServer
  <2>7. ServerAt(server', ReplyKey(server'), cut, m, P)
    BY <2>6 DEF ServerAt
  <2>8. Coming(toClient', ReplyKey(server'), cut, m, P)
    BY <2>5 DEF Coming
  <2>9. InStep(server', peer', toClient', cut, m, P)
    BY <1>1, <1>5, <1>8, <2>7, <2>8 DEF InStep
  <2> QED BY <2>9 DEF TlsFits
<1>10. CASE Forewords(server'.said) /\ server'.pc = "Finished" /\ server'.key = server.key /\ UNCHANGED toClient
  <2>1. ServerAt(server', ReplyKey(server'), cut, m, P)
    BY <1>6, <1>10 DEF ServerAt, Forewords, Foreword
  <2>2. Coming(toClient', ReplyKey(server'), cut, m, P)
    BY <1>7, <1>10 DEF Coming
  <2>3. InStep(server', peer', toClient', cut, m, P)
    BY <1>1, <1>5, <1>8, <2>1, <2>2 DEF InStep
  <2> QED BY <2>3 DEF TlsFits
<1> QED BY <1>1, <1>9, <1>10, FlightSaid DEF Flown

\* The server reads what the client sent; once it read the request, the reply is to be said.
LEMMA HearsOverTls ==
  ASSUME ExInv, server_hears, over = "tls", NEW P, P = ReplyItems, TlsFits(server, peer, toClient, P)
  PROVE  TlsFits(server', peer', toClient', P)
<1>1. /\ server.pc \in {"Finished", "request"} /\ server.said = <<>> /\ UNCHANGED peer
      /\ IsServer(server) /\ Listed(toClient)
  BY DEF server_hears, ExInv, ServerSound, Incoming
<1>2. PICK cut, m : InStep(server, peer, toClient, cut, m, P)
  BY DEF TlsFits
<1>3. PICK K : K = ReplyKey(server)
  OBVIOUS
<1>4. Cuts(cut, m, P) /\ Coming(toClient, K, cut, m, P) /\ ServerAt(server, K, cut, m, P) /\ ClientHas(peer, K, cut, m, P)
  BY <1>2, <1>3 DEF InStep
<1>5. m = 0 /\ Unapplied(server.key) /\ cut[m] = 0
  BY <1>1, <1>4 DEF ServerAt, Cuts
<1>6. CASE /\ server' = [server EXCEPT !.pc = "gone"]
           /\ toClient' = toClient \o <<Record("alert", server.key, server.n, "decrypt_error"), EndOfStream>>
  <2>1. PICK x, y : x = Record("alert", server.key, server.n, "decrypt_error") /\ y = EndOfStream
    OBVIOUS
  <2>2. Prior(x) /\ Prior(y)
    BY <1>5, <2>1, KeysApart DEF Prior, Record, EndOfStream
  <2>3. Listed(<<x, y>>) /\ Range(<<x, y>>) = {x, y}
    BY ListPairs
  <2>4. Range(toClient') \subseteq Range(toClient) \cup {x, y}
    BY <1>1, <1>6, <2>1, <2>3, ListConcat
  <2>5. Coming(toClient', K, cut, m, P)
    BY <1>4, <2>2, <2>4 DEF Coming
  <2>6. server'.pc = "gone" /\ server'.said = <<>> /\ ReplyKey(server') = K
    BY <1>1, <1>3, <1>6 DEF IsServer, ReplyKey
  <2>7. ServerAt(server', K, cut, m, P)
    BY <2>6 DEF ServerAt
  <2>8. InStep(server', peer', toClient', cut, m, P)
    BY <1>1, <1>4, <2>5, <2>6, <2>7 DEF InStep
  <2> QED BY <2>8 DEF TlsFits
<1>7. ASSUME NEW tickets \in BOOLEAN, NEW update \in BOOLEAN, UNCHANGED toClient,
             tickets \/ update => over = "tls" /\ ~(tickets /\ update),
             server' = CASE server.pc = "Finished" -> [server EXCEPT !.pc = "request"]
                         [] server.pc = "request" /\ server.heard + 1 < RequestRecords ->
                              [server EXCEPT !.heard = @ + 1, !.read = IF over = "tls" THEN @ + 1 ELSE @]
                         [] OTHER -> [server EXCEPT !.heard = @ + 1, !.pc = "replied",
                                       !.said = Reply(IF over = "tls" THEN application_traffic("server", server.transcript)
                                                      ELSE Plain, tickets, update)]
      PROVE  TlsFits(server', peer', toClient', P)
  <2>1. PICK reply : reply = Reply(K, tickets, update)
    OBVIOUS
  <2>2. PICK h : Saying(reply, K, h, 0, P, TRUE)
    <3>1. PICK h : Saying(reply, K, h, 0, ReplyItems, over = "tls")
      BY <1>7, <2>1, ReplySaid
    <3>2. (over = "tls") = TRUE
      OBVIOUS
    <3> QED BY <3>1, <3>2
  <2>3. \/ server' = [server EXCEPT !.pc = "request"]
        \/ server.pc = "request" /\ server' = [server EXCEPT !.heard = @ + 1, !.read = IF over = "tls" THEN @ + 1 ELSE @]
        \/ server' = [server EXCEPT !.heard = @ + 1, !.pc = "replied", !.said = reply]
    <3>1. PICK key : key = IF over = "tls" THEN application_traffic("server", server.transcript) ELSE Plain
      OBVIOUS
    <3>2. key = K
      BY <1>3, <3>1 DEF ReplyKey
    <3>3. reply = Reply(IF over = "tls" THEN application_traffic("server", server.transcript) ELSE Plain, tickets, update)
      BY <2>1, <3>1, <3>2
    <3>4. CASE server.pc = "Finished"
      BY <1>7, <3>4
    <3>5. CASE server.pc = "request" /\ server.heard + 1 < RequestRecords
      BY <1>7, <3>5
    <3>6. CASE server.pc = "request" /\ ~(server.heard + 1 < RequestRecords)
      BY <1>7, <3>3, <3>6
    <3> QED BY <1>1, <3>4, <3>5, <3>6
  <2>4. /\ server'.key = server.key /\ ReplyKey(server') = K
        /\ \/ server'.pc = "request" /\ server'.said = <<>>
           \/ server'.pc = "replied" /\ server'.said = reply
    BY <1>1, <1>3, <2>3 DEF IsServer, ReplyKey
  <2>5. ServerAt(server', K, cut, m, P)
    BY <1>5, <2>2, <2>4 DEF ServerAt
  <2>6. InStep(server', peer', toClient', cut, m, P)
    BY <1>1, <1>4, <1>7, <2>4, <2>5 DEF InStep
  <2> QED BY <2>6 DEF TlsFits
<1> QED BY <1>6, <1>7 DEF server_hears

\* The server dies: nothing more is said.
LEMMA CutOverTls ==
  ASSUME ExInv, server_cut, NEW P, TlsFits(server, peer, toClient, P)
  PROVE  TlsFits(server', peer', toClient', P)
<1>1. /\ server' = [server EXCEPT !.pc = "gone", !.said = <<>>] /\ toClient' = Append(toClient, EndOfStream)
      /\ UNCHANGED peer /\ IsServer(server) /\ Listed(toClient)
  BY DEF server_cut, ExInv, ServerSound, Incoming
<1>2. PICK cut, m : InStep(server, peer, toClient, cut, m, P)
  BY DEF TlsFits
<1>3. server'.pc = "gone" /\ server'.said = <<>> /\ ReplyKey(server') = ReplyKey(server)
  BY <1>1 DEF IsServer, ReplyKey
<1>4. \A r \in Range(toClient') : r \in Range(toClient) \/ Prior(r)
  <2>1. PICK x : x = EndOfStream
    OBVIOUS
  <2>2. Prior(x)
    BY <2>1, KeysApart DEF Prior, Record, EndOfStream
  <2>3. toClient \in Seq(Range(toClient) \cup {x})
    BY <1>1 DEF Listed
  <2>4. Append(toClient, x) \in Seq(Range(toClient) \cup {x})
    BY <2>3
  <2>5. Range(Append(toClient, x)) \subseteq Range(toClient) \cup {x}
    BY <2>4, ListOf
  <2> QED BY <1>1, <2>1, <2>2, <2>5
<1>5. Coming(toClient', ReplyKey(server'), cut, m, P)
  BY <1>2, <1>3, <1>4 DEF InStep, Coming
<1>6. ServerAt(server', ReplyKey(server'), cut, m, P)
  BY <1>3 DEF ServerAt
<1>7. InStep(server', peer', toClient', cut, m, P)
  BY <1>1, <1>2, <1>3, <1>5, <1>6 DEF InStep
<1> QED BY <1>7 DEF TlsFits

\* What the network does to a record makes it none of the reply, or leaves it one.
LEMMA NetworkOverTls ==
  ASSUME ExInv, network, NEW P, TlsFits(server, peer, toClient, P)
  PROVE  TlsFits(server', peer', toClient', P)
<1>1. UNCHANGED <<peer, server>> /\ Listed(toClient)
  BY DEF network, ExInv, ServerSound, Incoming
<1>2. \A r \in Range(toClient') : r \in Range(toClient) \/ Prior(r)
  <2>1. CASE toClient' = toClient
    BY <2>1
  <2>2. CASE toClient # <<>> /\ DamageableIn(Head(toClient)) /\ toClient' = <<DamagedIn(Head(toClient))>> \o Tail(toClient)
    <3>1. PICK x, y : x = Head(toClient) /\ y = DamagedIn(x)
      OBVIOUS
    <3>2. IsRecord(x)
      BY <1>1, <2>2, <3>1, ListTail DEF ExInv, ServerSound, Incoming, RecordOf
    <3>3. Prior(y)
      <4>1. CASE x.key # Plain
        <5>1. y.key = <<"damaged">>
          BY <3>1, <3>2, <4>1 DEF DamagedIn, Broken, IsRecord, Record
        <5>2. <<"damaged">> # Plain
          BY DEF Plain
        <5> QED BY <5>1, <5>2, KeysApart DEF Prior
      <4>2. CASE x.key = Plain
        <5>1. x.type = "handshake"
          BY <2>2, <3>1, <4>2 DEF DamageableIn
        <5>2. PICK c : c = [x.content EXCEPT ![1].message.suite = "AES_256_GCM_SHA384"]
          OBVIOUS
        <5>3. y = [x EXCEPT !.content = c]
          BY <3>1, <4>2, <5>2 DEF DamagedIn
        <5>4. y.key = Plain /\ y.type = "handshake"
          BY <3>2, <4>2, <5>1, <5>3 DEF IsRecord, Record
        <5> QED BY <5>4, KeysApart DEF Prior
      <4> QED BY <4>1, <4>2
    <3>4. Listed(<<y>>) /\ Range(<<y>>) = {y} /\ Listed(Tail(toClient)) /\ Range(Tail(toClient)) \subseteq Range(toClient)
      BY <1>1, <2>2, ListOne, ListTail
    <3>5. Range(<<y>> \o Tail(toClient)) \subseteq {y} \cup Range(Tail(toClient))
      BY <3>4, ListConcat
    <3> QED BY <2>2, <3>1, <3>3, <3>4, <3>5
  <2>3. CASE toClient # <<>> /\ toClient' = <<Head(toClient)>> \o toClient
    <3>1. PICK x : x = Head(toClient)
      OBVIOUS
    <3>2. Listed(<<x>>) /\ Range(<<x>>) = {x} /\ x \in Range(toClient)
      BY <1>1, <2>3, <3>1, ListOne, ListTail
    <3>3. Range(<<x>> \o toClient) \subseteq {x} \cup Range(toClient)
      BY <1>1, <3>2, ListConcat
    <3> QED BY <2>3, <3>1, <3>2, <3>3
  <2>4. CASE Len(toClient) > 1 /\ toClient' = <<toClient[2], toClient[1]>> \o SubSeq(toClient, 3, Len(toClient))
    <3>1. PICK x, y : x = toClient[1] /\ y = toClient[2]
      OBVIOUS
    <3>2. x \in Range(toClient) /\ y \in Range(toClient)
      BY <1>1, <2>4, <3>1 DEF Listed, Range
    <3>3. Listed(<<y, x>>) /\ Range(<<y, x>>) = {y, x}
      BY ListPairs
    <3>4. PICK k \in Nat \ {0} : k = 3
      OBVIOUS
    <3>5. Listed(SubSeq(toClient, k, Len(toClient))) /\ Range(SubSeq(toClient, k, Len(toClient))) \subseteq Range(toClient)
      BY <1>1, ListRest
    <3>6. Range(<<y, x>> \o SubSeq(toClient, k, Len(toClient))) \subseteq {y, x} \cup Range(SubSeq(toClient, k, Len(toClient)))
      BY <3>3, <3>5, ListConcat
    <3> QED BY <2>4, <3>1, <3>2, <3>4, <3>5, <3>6
  <2>5. CASE toClient' = <<Record("alert", Plain, 0, "close_notify")>> \o toClient
    <3>1. PICK x : x = Record("alert", Plain, 0, "close_notify")
      OBVIOUS
    <3>2. Prior(x)
      BY <3>1, KeysApart DEF Prior, Record
    <3>3. Listed(<<x>>) /\ Range(<<x>>) = {x}
      BY ListOne
    <3>4. Range(<<x>> \o toClient) \subseteq {x} \cup Range(toClient)
      BY <1>1, <3>3, ListConcat
    <3> QED BY <2>5, <3>1, <3>2, <3>4
  <2> QED BY <2>1, <2>2, <2>3, <2>4, <2>5 DEF network
<1>3. TlsFits(server, peer', toClient', P)
  <2>1. PICK p, q, u, s, sv : p = peer /\ q = peer' /\ u = toClient' /\ s = toClient /\ sv = server
    OBVIOUS
  <2>2. TlsFits(sv, q, u, P)
    BY <1>1, <1>2, <2>1, HeldBack
  <2> QED BY <2>1, <2>2
<1> QED BY <1>1, <1>3

-----------------------------------------------------------------------------
(* The reply as the client reads it.                                       *)

\* What the client holds of the reply is what it held.
Keeps(q, p) ==
  /\ q.got = p.got /\ q.closed = p.closed /\ q.established = p.established
  /\ p.established => q.key = p.key /\ q.opened = p.opened
LEMMA KeepsFacts ==
  ASSUME IsPeer(peer)
  PROVE  /\ Keeps(peer, peer) /\ Keeps(Refused(peer), peer) /\ Keeps(Asked, peer) /\ Keeps(advance(Asked), peer)
         /\ \A q : Keeps([peer EXCEPT !.pc = q], peer)
         /\ Keeps([peer EXCEPT !.address = @ + 1], peer)
<1>1. Keeps(peer, peer) /\ Keeps(Refused(peer), peer) /\ Keeps([peer EXCEPT !.address = @ + 1], peer)
  BY DEF Keeps, IsPeer, Refused
<1>2. \A q : Keeps([peer EXCEPT !.pc = q], peer)
  BY DEF Keeps, IsPeer
<1>3. PICK a : a = Asked
  OBVIOUS
<1>4. IsPeer(a) /\ Keeps(a, peer)
  BY <1>3 DEF Keeps, IsPeer, Asked
<1>5. Keeps([a EXCEPT !.sent = @ + 1], peer)
  BY <1>4 DEF Keeps, IsPeer
<1> QED BY <1>1, <1>2, <1>3, <1>4, <1>5 DEF advance

\* The actions that read nothing after the handshake.
Outward == exchange \/ tcp_connect \/ hello \/ send \/ loopback_send \/ read_reply \/ passed
LEMMA OutwardKeeps ==
  ASSUME ExInv, Outward
  PROVE  Keeps(peer', peer) /\ UNCHANGED <<over, server, toClient>>
<1>0. IsPeer(peer)
  BY DEF ExInv
<1>1. UNCHANGED <<over, server, toClient>>
  BY DEF Outward, exchange, tcp_connect, hello, send, loopback_send, read_reply, passed
<1>2. CASE exchange
  <2>1. peer' = Refused(peer) \/ peer' = [peer EXCEPT !.pc = "connect"]
    BY <1>2 DEF exchange
  <2> QED BY <1>0, <1>1, <2>1, KeepsFacts
<1>3. CASE tcp_connect
  <2>1. PICK q : q = IF over = "tls" THEN "hello" ELSE "send"
    OBVIOUS
  <2>2. peer' = Refused(peer) \/ peer' = [peer EXCEPT !.pc = q] \/ peer' = [peer EXCEPT !.address = @ + 1]
    BY <1>3, <2>1 DEF tcp_connect
  <2> QED BY <1>0, <1>1, <2>2, KeepsFacts
<1>4. CASE hello
  <2>1. peer' = [peer EXCEPT !.pc = "ServerHello"]
    BY <1>4 DEF hello
  <2> QED BY <1>0, <1>1, <2>1, KeepsFacts
<1>5. CASE send
  <2>1. peer' = Refused(peer) \/ peer' = advance(Asked)
    BY <1>5 DEF send
  <2> QED BY <1>0, <1>1, <2>1, KeepsFacts
<1>6. CASE loopback_send
  <2>1. peer' = Asked
    BY <1>6 DEF loopback_send
  <2> QED BY <1>0, <1>1, <2>1, KeepsFacts
<1>7. CASE read_reply
  <2>1. peer' = Refused(peer) \/ peer' = [peer EXCEPT !.pc = "answered"]
    BY <1>7 DEF read_reply
  <2> QED BY <1>0, <1>1, <2>1, KeepsFacts
<1>8. CASE passed
  <2>1. peer' = Refused(peer)
    BY <1>8 DEF passed
  <2> QED BY <1>0, <1>1, <2>1, KeepsFacts
<1> QED BY <1>1, <1>2, <1>3, <1>4, <1>5, <1>6, <1>7, <1>8 DEF Outward

\* Before the client has its keys nothing it opens is of the reply.
LEMMA HandshakeOverTls ==
  ASSUME ExInv, ExInv', receive_handshake \/ flight_message, NEW P, TlsFits(server, peer, toClient, P)
  PROVE  TlsFits(server', peer', toClient', P)
<1>1. /\ peer.pc \in Handshaking /\ UNCHANGED <<over, server>> /\ Listed(toClient) /\ IsPeer(peer)
      /\ ~peer.established /\ over = "tls"
  BY DEF receive_handshake, flight_message, ExInv, ServerSound, Incoming, ClientSound
<1>2. ASSUME peer'.got = peer.got, peer'.closed = peer.closed, peer'.established = peer.established,
             Range(toClient') \subseteq Range(toClient)
      PROVE  TlsFits(server', peer', toClient', P)
  <2>1. PICK p, q, s, u, sv : p = peer /\ q = peer' /\ s = toClient /\ u = toClient' /\ sv = server
    OBVIOUS
  <2>2. TlsFits(sv, q, u, P)
    BY <1>1, <1>2, <2>1, HeldBack
  <2> QED BY <1>1, <2>1, <2>2
<1>3. CASE receive_handshake
  <2>1. PICK r : r = Head(toClient)
    OBVIOUS
  <2>2. \/ peer' = peer
        \/ peer' = Refused(peer)
        \/ peer' = [open(peer, r) EXCEPT !.pending = @ \o r.content]
    BY <1>3, <2>1 DEF receive_handshake
  <2>3. PICK p, pending : p = open(peer, r) /\ pending = p.pending \o r.content
    OBVIOUS
  <2>4. IsPeer(p) /\ p.got = peer.got /\ p.closed = peer.closed /\ p.established = peer.established
    BY <1>1, <2>3 DEF IsPeer, open
  <2>5. \/ peer' = peer
        \/ peer' = Refused(peer)
        \/ peer' = [p EXCEPT !.pending = pending]
    BY <2>2, <2>3
  <2>6. peer'.got = peer.got /\ peer'.closed = peer.closed /\ peer'.established = peer.established
    BY <1>1, <2>4, <2>5 DEF IsPeer, Refused
  <2>7. toClient # <<>> /\ toClient' = Tail(toClient)
    BY <1>3 DEF receive_handshake
  <2>8. Range(toClient') \subseteq Range(toClient)
    BY <1>1, <2>7, ListTail
  <2> QED BY <1>2, <2>6, <2>8
<1>4. CASE flight_message
  <2> DEFINE F == Transcribed(Message)
             spans == F.pending # <<>>
             keyed == [F EXCEPT !.suite = Message.suite, !.key = handshake_traffic("server", F.transcript), !.opened = 0,
                                !.out = handshake_traffic("client", F.transcript)]
             asks == [F EXCEPT !.key = application_traffic("server", F.transcript), !.opened = 0,
                               !.established = TRUE, !.sent = 0, !.out = application_traffic("client", F.transcript)]
  <2>1. \/ peer' = Refused(peer)
        \/ peer' = keyed
        \/ peer' = asks /\ peer.pc = "Finished"
        \/ peer' = F
    BY <1>4 DEF flight_message
  <2>2. toClient' = toClient
    BY <1>4 DEF flight_message
  <2>3. PICK p : p = Transcribed(Message)
    OBVIOUS
  <2>4. IsPeer(p) /\ p.got = peer.got /\ p.closed = peer.closed /\ p.established = peer.established
    <3>1. PICK pending, transcript, q : /\ pending = Rest(peer.pending) /\ q = NextPlace[peer.pc]
                                        /\ transcript = Append(peer.transcript, Message)
      OBVIOUS
    <3>2. p = [peer EXCEPT !.pending = pending, !.transcript = transcript, !.pc = q]
      BY <2>3, <3>1 DEF Transcribed
    <3> QED BY <1>1, <3>2 DEF IsPeer
  <2>5. CASE peer' = Refused(peer)
    <3>1. peer'.got = peer.got /\ peer'.closed = peer.closed /\ peer'.established = peer.established
      BY <1>1, <2>5 DEF IsPeer, Refused
    <3> QED BY <1>2, <2>2, <3>1
  <2>6. CASE peer' = keyed
    <3>1. PICK s, k, out : s = Message.suite /\ k = handshake_traffic("server", p.transcript) /\ out = handshake_traffic("client", p.transcript)
      OBVIOUS
    <3>2. peer' = [p EXCEPT !.suite = s, !.key = k, !.opened = 0, !.out = out]
      BY <2>3, <2>6, <3>1
    <3>3. peer'.got = peer.got /\ peer'.closed = peer.closed /\ peer'.established = peer.established
      BY <2>4, <3>2 DEF IsPeer
    <3> QED BY <1>2, <2>2, <3>3
  <2>7. CASE peer' = F
    <3>1. peer'.got = peer.got /\ peer'.closed = peer.closed /\ peer'.established = peer.established
      BY <2>3, <2>4, <2>7
    <3> QED BY <1>2, <2>2, <3>1
  <2>8. CASE peer' = asks
    <3>1. PICK k, out : k = application_traffic("server", p.transcript) /\ out = application_traffic("client", p.transcript)
      OBVIOUS
    <3>2. peer' = [p EXCEPT !.key = k, !.opened = 0, !.established = TRUE, !.sent = 0, !.out = out]
      BY <2>3, <2>8, <3>1
    <3>3. /\ peer'.got = peer.got /\ peer'.closed = peer.closed /\ peer'.established /\ peer'.key = k /\ peer'.opened = 0
          /\ peer'.transcript = p.transcript
      BY <2>4, <3>2 DEF IsPeer
    <3>4. peer'.transcript = server.transcript
      BY <1>1, <3>3 DEF ExInv, EndsAgree
    <3>5. k = ReplyKey(server)
      BY <3>1, <3>3, <3>4 DEF ReplyKey
    <3>6. PICK a, q, s, sv : a = peer /\ q = peer' /\ s = toClient /\ sv = server
      OBVIOUS
    <3>7. TlsFits(sv, q, s, P)
      BY <1>1, <3>3, <3>5, <3>6, Establishes
    <3> QED BY <1>1, <2>2, <3>6, <3>7
  <2> QED BY <2>1, <2>5, <2>6, <2>7, <2>8
<1> QED BY <1>3, <1>4

\* The reply, record by record.
LEMMA ReceivesOverTls ==
  ASSUME ExInv, receive, over = "tls", NEW S, NEW P \in Seq(S), TlsFits(server, peer, toClient, P)
  PROVE  TlsFits(server', peer', toClient', P)
<1>1. PICK r : r = Head(toClient)
  OBVIOUS
<1>2. /\ peer.pc = "reply" /\ peer.closed = "no" /\ toClient # <<>> /\ toClient' = Tail(toClient) /\ UNCHANGED <<over, server>>
      /\ IsPeer(peer) /\ Listed(toClient) /\ peer.established
  BY DEF receive, ExInv, ServerSound, Incoming, ClientSound, Asking
<1>3. Range(toClient') \subseteq Range(toClient) /\ r \in Range(toClient)
  BY <1>1, <1>2, ListTail
<1>4. PICK p, q, s, u, sv : p = peer /\ q = peer' /\ s = toClient /\ u = toClient' /\ sv = server
  OBVIOUS
<1>5. p.key # Plain
  <2>1. PICK cut, m : InStep(server, peer, toClient, cut, m, P)
    BY DEF TlsFits
  <2>2. p.key = ReplyKey(server)
    BY <1>2, <1>4, <2>1 DEF InStep, ClientHas
  <2> QED BY <2>2, KeysApart DEF ReplyKey
<1>6. CASE peer' = Refused(peer)
  <2>1. q.got = p.got /\ q.closed = p.closed /\ q.established = p.established /\ q.key = p.key /\ q.opened = p.opened
    BY <1>2, <1>4, <1>6 DEF IsPeer, Refused
  <2>2. TlsFits(sv, q, u, P)
    BY <1>3, <1>4, <2>1, HeldBack
  <2> QED BY <1>2, <1>4, <2>2
<1>7. CASE record_closes(r) /\ peer' = [peer EXCEPT !.closed = IF r.key = Plain THEN "clear" ELSE "sealed"]
  <2>1. r.type = "alert" /\ (r.key = Plain \/ (r.key = p.key /\ r.n = p.opened))
    BY <1>4, <1>7 DEF record_closes, opens
  <2>c. PICK c : c = IF r.key = Plain THEN "clear" ELSE "sealed"
    OBVIOUS
  <2>d. /\ q.got = p.got /\ q.closed = c /\ q.established = p.established /\ q.key = p.key
        /\ q.opened = p.opened
    BY <1>2, <1>4, <1>7, <2>c DEF IsPeer
  <2>2. /\ q.got = p.got /\ q.established = p.established /\ q.key = p.key /\ q.opened = p.opened
        /\ q.closed = "clear" \/ (q.closed = "sealed" /\ r.key = p.key /\ r.n = p.opened)
    BY <2>1, <2>c, <2>d
  <2>3. TlsFits(sv, q, u, P)
    BY <1>2, <1>3, <1>4, <2>1, <2>2, Receives
  <2> QED BY <1>2, <1>4, <2>3
<1>8. CASE \/ ~record_closes(r) /\ ~Fails(r) /\ r.type = "data" /\ peer' = [open(peer, r) EXCEPT !.got = @ \o r.content]
           \/ ~record_closes(r) /\ ~Fails(r) /\ r.type = "handshake" /\ peer' = [open(peer, r) EXCEPT !.pending = Undropped(@ \o r.content)]
  <2>1. r.key = p.key /\ r.n = p.opened
    BY <1>4, <1>8 DEF Fails, record_fails, opens
  <2>2. PICK o, got, pending : o = open(peer, r) /\ got = peer.got \o r.content /\ pending = Undropped(o.pending \o r.content)
    OBVIOUS
  <2>3. /\ IsPeer(o) /\ o.got = p.got /\ o.closed = p.closed /\ o.established = p.established /\ o.key = p.key
        /\ o.opened = p.opened + 1
    BY <1>2, <1>4, <1>5, <2>2 DEF IsPeer, open
  <2>4. \/ r.type = "data" /\ peer' = [o EXCEPT !.got = got]
        \/ r.type # "data" /\ peer' = [o EXCEPT !.pending = pending]
    BY <1>4, <1>8, <2>2, <2>3
  <2>5. /\ q.closed = p.closed /\ q.established = p.established /\ q.key = p.key /\ q.opened = p.opened + 1
        /\ r.type = "data" => q.got = p.got \o r.content
        /\ r.type # "data" => q.got = p.got
    BY <1>4, <2>2, <2>3, <2>4 DEF IsPeer
  <2>6. TlsFits(sv, q, u, P)
    BY <1>2, <1>3, <1>4, <2>1, <2>5, Receives
  <2> QED BY <1>2, <1>4, <2>6
<1>9. peer' = CASE over = "loopback" /\ r.type = "eof" -> [peer EXCEPT !.closed = "clear"]
                [] over = "loopback" /\ r.type # "eof" -> [peer EXCEPT !.got = @ \o r.content]
                [] over = "tls" /\ record_closes(r) -> [peer EXCEPT !.closed = IF r.key = Plain THEN "clear" ELSE "sealed"]
                [] over = "tls" /\ Fails(r) -> Refused(peer)
                [] over = "tls" /\ ~Fails(r) /\ r.type = "data" -> [open(peer, r) EXCEPT !.got = @ \o r.content]
                [] over = "tls" /\ ~Fails(r) /\ r.type = "handshake" ->
                     IF Tickets(r.content) THEN [open(peer, r) EXCEPT !.pending = Undropped(@ \o r.content)] ELSE Refused(peer)
                [] OTHER -> Refused(peer)
  BY <1>1 DEF receive
<1>10. record_closes(r) => ~Fails(r) /\ r.type = "alert"
  BY DEF record_closes, Fails
<1>11. CASE record_closes(r)
  BY <1>7, <1>9, <1>10, <1>11
<1>12. CASE Fails(r)
  BY <1>6, <1>9, <1>10, <1>12
<1>13. CASE ~record_closes(r) /\ ~Fails(r) /\ r.type = "data"
  BY <1>8, <1>9, <1>13
<1>14. CASE ~record_closes(r) /\ ~Fails(r) /\ r.type = "handshake"
  <2>1. CASE Tickets(r.content)
    BY <1>8, <1>9, <1>14, <2>1
  <2>2. CASE ~Tickets(r.content)
    BY <1>6, <1>9, <1>14, <2>2
  <2> QED BY <2>1, <2>2
<1>15. CASE ~record_closes(r) /\ ~Fails(r) /\ r.type # "data" /\ r.type # "handshake"
  BY <1>6, <1>9, <1>15
<1> QED BY <1>11, <1>12, <1>13, <1>14, <1>15

-----------------------------------------------------------------------------
(* The reply of a server on this host.                                     *)

\* The stream holds the reply from what the client has to what is still to be said.
Piece(r, a, b, P) ==
  /\ a <= b
  /\ \/ r.type = "data" /\ r.content = SubSeq(P, a + 1, b)
     \/ r.type = "eof" /\ a = b
Stream(cut, s, P) ==
  /\ cut \in [0..Len(s) -> 0..Len(P)]
  /\ \A i \in 1..Len(s) : Piece(s[i], cut[i - 1], cut[i], P)
LoopServerAt(sv, d, P) ==
  /\ sv.pc \in {"hello", "request", "replied", "gone"} /\ sv.read = 0
  /\ sv.pc # "replied" => sv.said = <<>>
  /\ sv.pc \in {"hello", "request"} => d = 0
  /\ sv.pc = "replied" => \E h : Saying(sv.said, Plain, h, d, P, FALSE)
LoopFits(sv, p, s, P) ==
  \E cut : Stream(cut, s, P) /\ p.got = SubSeq(P, 1, cut[0]) /\ LoopServerAt(sv, cut[Len(s)], P)
Asks(v) == Listed(v) /\ \A r \in Range(v) : r.key = Plain /\ r.n = 0

LEMMA StreamGrows ==
  ASSUME NEW P, NEW s, Listed(s), NEW cut, Stream(cut, s, P), NEW r, NEW e \in 0..Len(P), Piece(r, cut[Len(s)], e, P)
  PROVE  \E c : Stream(c, s \o <<r>>, P) /\ c[0] = cut[0] /\ c[Len(s \o <<r>>)] = e
<1>1. PICK l : l = Len(s)
  OBVIOUS
<1>2. l \in Nat /\ cut \in [0..l -> 0..Len(P)] /\ \A i \in 1..l : Piece(s[i], cut[i - 1], cut[i], P)
  BY <1>1 DEF Stream, Listed
<1>3. PICK S : S = Range(s) \cup {r}
  OBVIOUS
<1>4. s \in Seq(S) /\ r \in S
  BY <1>3 DEF Listed
<1>5. s \o <<r>> = Append(s, r)
  BY <1>4
<1>6. PICK u : u = Append(s, r)
  OBVIOUS
<1>7. Len(u) = l + 1 /\ u[l + 1] = r /\ \A i \in 1..l : u[i] = s[i]
  BY <1>1, <1>4, <1>6, AppendProperties
<1>8. PICK c : c = [i \in 0..l + 1 |-> IF i <= l THEN cut[i] ELSE e]
  OBVIOUS
<1>9. (\A i \in 0..l : c[i] = cut[i]) /\ c[l + 1] = e
  <2>1. \A i \in 0..l : i \in 0..l + 1 /\ i <= l
    BY <1>2
  <2>2. l + 1 \in 0..l + 1 /\ ~(l + 1 <= l)
    BY <1>2
  <2> QED BY <1>8, <2>1, <2>2
<1>10. c \in [0..l + 1 -> 0..Len(P)]
  <2>1. \A i \in 0..l + 1 : i <= l => i \in 0..l
    BY <1>2
  <2> QED BY <1>2, <1>8, <2>1
<1>11. ASSUME NEW i \in 1..l + 1
       PROVE  Piece(u[i], c[i - 1], c[i], P)
  <2>1. CASE i <= l
    <3>1. i \in 1..l /\ i \in 0..l /\ i - 1 \in 0..l
      BY <1>2, <2>1
    <3> QED BY <1>2, <1>7, <1>9, <3>1
  <2>2. CASE ~(i <= l)
    <3>1. i = l + 1 /\ i - 1 = l /\ l \in 0..l
      BY <1>2, <2>2
    <3> QED BY <1>1, <1>7, <1>9, <3>1
  <2> QED BY <2>1, <2>2
<1>12. Stream(c, u, P)
  BY <1>7, <1>10, <1>11 DEF Stream
<1>13. c[0] = cut[0] /\ c[Len(u)] = e
  <2>1. 0 \in 0..l
    BY <1>2
  <2> QED BY <1>7, <1>9, <2>1
<1> QED BY <1>5, <1>6, <1>12, <1>13

LEMMA StreamShrinks ==
  ASSUME NEW P, NEW s, Listed(s), s # <<>>, NEW cut, Stream(cut, s, P)
  PROVE  /\ Piece(Head(s), cut[0], cut[1], P) /\ cut[0] \in 0..Len(P) /\ cut[1] \in 0..Len(P)
         /\ \E c : Stream(c, Tail(s), P) /\ c[0] = cut[1] /\ c[Len(Tail(s))] = cut[Len(s)]
<1>1. PICK l : l = Len(s) - 1
  OBVIOUS
<1>2. Len(s) \in Nat /\ Len(s) # 0 /\ s \in Seq(Range(s))
  BY DEF Listed
<1>3. l \in Nat /\ Len(s) = l + 1
  BY <1>1, <1>2
<1>4. PICK u : u = Tail(s)
  OBVIOUS
<1>5. Len(u) = l /\ Head(s) = s[1] /\ \A i \in 1..l : u[i] = s[i + 1]
  <2>1. Len(Tail(s)) = Len(s) - 1 /\ \A i \in 1..Len(s) - 1 : Tail(s)[i] = s[i + 1]
    BY <1>2, HeadTailProperties
  <2> QED BY <1>1, <1>4, <2>1
<1>6. cut \in [0..l + 1 -> 0..Len(P)] /\ \A i \in 1..l + 1 : Piece(s[i], cut[i - 1], cut[i], P)
  BY <1>3 DEF Stream
<1>7. Piece(s[1], cut[0], cut[1], P) /\ cut[0] \in 0..Len(P) /\ cut[1] \in 0..Len(P)
  <2>1. 1 \in 1..l + 1 /\ 1 - 1 = 0 /\ 0 \in 0..l + 1 /\ 1 \in 0..l + 1
    BY <1>3
  <2>2. Piece(s[1], cut[1 - 1], cut[1], P)
    BY <1>6, <2>1
  <2> QED BY <1>6, <2>1, <2>2
<1>8. PICK c : c = [i \in 0..l |-> cut[i + 1]]
  OBVIOUS
<1>9. c \in [0..l -> 0..Len(P)] /\ \A i \in 0..l : c[i] = cut[i + 1]
  <2>1. \A i \in 0..l : i + 1 \in 0..l + 1
    BY <1>3
  <2> QED BY <1>6, <1>8, <2>1
<1>10. ASSUME NEW i \in 1..l
       PROVE  Piece(u[i], c[i - 1], c[i], P)
  <2>1. PICK j : j = i + 1
    OBVIOUS
  <2>2. j \in 1..l + 1 /\ j - 1 = i /\ i - 1 \in 0..l /\ i \in 0..l /\ (i - 1) + 1 = i
    BY <1>3, <2>1
  <2>3. Piece(s[j], cut[j - 1], cut[j], P)
    BY <1>6, <2>2
  <2>4. c[i - 1] = cut[i] /\ c[i] = cut[j]
    <3>1. c[i - 1] = cut[(i - 1) + 1]
      BY <1>9, <2>2
    <3> QED BY <1>9, <2>1, <2>2, <3>1
  <2> QED BY <1>5, <2>1, <2>2, <2>3, <2>4
<1>11. Stream(c, u, P)
  BY <1>5, <1>9, <1>10 DEF Stream
<1>12. c[0] = cut[1] /\ c[l] = cut[l + 1]
  <2>1. 0 \in 0..l /\ l \in 0..l /\ 0 + 1 = 1
    BY <1>3
  <2>2. c[0] = cut[0 + 1]
    BY <1>9, <2>1
  <2> QED BY <1>9, <2>1, <2>2
<1> QED BY <1>3, <1>4, <1>5, <1>7, <1>11, <1>12

\* The server on this host says a record of its reply.
LEMMA SaysOnLoop ==
  ASSUME ExInv, NEW n \in 1..8, server_says(n), NEW S, NEW P \in Seq(S), LoopFits(server, peer, toClient, P)
  PROVE  LoopFits(server', peer', toClient', P)
<1>1. /\ n \in 1..Len(server.said) /\ UNCHANGED <<over, held, clock, peer, toServer, sealed, faults>>
      /\ \A i \in 1..n : server.said[i].key = server.said[1].key /\ server.said[i].type = server.said[1].type
  BY DEF server_says
<1>2. PICK s, N : s = server.said /\ N = Len(P)
  OBVIOUS
<1>3. IsServer(server) /\ Listed(s) /\ Listed(toClient) /\ N \in Nat
  BY <1>2 DEF ExInv, ServerSound, Sayings, Incoming
<1>4. PICK e : e = s[1]
  OBVIOUS
<1>5. PICK number : number = IF e.key = server.key THEN server.n ELSE 0
  OBVIOUS
<1>6. PICK content : content = IF e.type = "alert" THEN e.content.message
                               ELSE [i \in 1..n |-> IF e.type = "data" THEN s[i].content.message ELSE s[i].content]
  OBVIOUS
<1>7. PICK r : r = Record(e.type, e.key, number, content)
  OBVIOUS
<1>8. PICK ccs \in {<<>>, <<Record("change_cipher_spec", Plain, 0, 1)>>} :
        /\ server' = [server EXCEPT !.said = SubSeq(s, n + 1, Len(s)), !.key = e.key,
                                    !.n = IF e.key = Plain THEN 0 ELSE number + 1]
        /\ ccs # <<>> => e.type = "handshake"
        /\ toClient' = toClient \o ccs \o <<r>>
  BY <1>2, <1>4, <1>5, <1>6, <1>7 DEF server_says
<1>9. server'.pc = server.pc /\ server'.read = server.read /\ server'.said = SubSeq(s, n + 1, Len(s))
  BY <1>2, <1>3, <1>8 DEF IsServer
<1>10. PICK cut : Stream(cut, toClient, P) /\ peer.got = SubSeq(P, 1, cut[0]) /\ LoopServerAt(server, cut[Len(toClient)], P)
  BY DEF LoopFits
<1>11. PICK d : d = cut[Len(toClient)]
  OBVIOUS
<1>12. s # <<>> /\ SameKind(s, n) /\ n \in 1..Len(s)
  <2>1. Len(s) \in Nat /\ 1 \in 1..Len(s)
    BY <1>1, <1>2, <1>3 DEF Listed
  <2> QED BY <1>1, <1>2, <1>3, <1>4, <2>1 DEF SameKind, Listed, Range
<1>13. server.pc = "replied"
  BY <1>2, <1>10, <1>12 DEF LoopServerAt
<1>14. PICK h : Saying(s, Plain, h, d, P, FALSE)
  BY <1>2, <1>10, <1>11, <1>13 DEF LoopServerAt
<1>15. \E g, x : Saying(SubSeq(s, n + 1, Len(s)), Plain, g, x, P, FALSE) /\ Takes(s, Plain, d, P, FALSE, n, x)
  BY <1>3, <1>12, <1>14, SaysOn
<1>16. PICK g, x : Saying(server'.said, Plain, g, x, P, FALSE) /\ Takes(s, Plain, d, P, FALSE, n, x)
  BY <1>9, <1>15
<1>17. /\ x \in 0..N /\ d <= x
       /\ \/ e.type = "data" /\ x = d + n /\ \A i \in 1..n : s[i].content.message = P[d + i]
          \/ e.type = "eof" /\ x = d
  BY <1>2, <1>4, <1>16 DEF Takes
<1>18. d \in 0..N
  BY <1>2, <1>14 DEF Saying
<1>19. r.type = e.type /\ r.content = content
  BY <1>7 DEF Record
<1>20. Piece(r, d, x, P)
  <2>1. CASE e.type = "data" /\ x = d + n /\ \A i \in 1..n : s[i].content.message = P[d + i]
    <3>1. content = [i \in 1..n |-> s[i].content.message]
      BY <1>6, <2>1
    <3>2. Carrying(content, n, P, d)
      BY <2>1, <3>1 DEF Carrying
    <3>3. d \in Nat /\ n \in Nat /\ d + n <= Len(P)
      BY <1>2, <1>3, <1>17, <1>18, <2>1
    <3>4. content = SubSeq(P, d + 1, d + n)
      BY <3>2, <3>3, Slice
    <3> QED BY <1>17, <1>19, <2>1, <3>4 DEF Piece
  <2>2. CASE e.type = "eof" /\ x = d
    BY <1>17, <1>19, <2>2 DEF Piece
  <2> QED BY <1>17, <2>1, <2>2
<1>21. toClient' = toClient \o <<r>>
  <2>1. ccs = <<>>
    BY <1>8, <1>17
  <2>2. toClient \o <<>> = toClient
    <3>1. toClient \in Seq(Range(toClient))
      BY <1>3 DEF Listed
    <3> QED BY <3>1
  <2> QED BY <1>8, <2>1, <2>2
<1>22. PICK c : Stream(c, toClient', P) /\ c[0] = cut[0] /\ c[Len(toClient')] = x
  <2>1. x \in 0..Len(P) /\ Piece(r, cut[Len(toClient)], x, P)
    BY <1>2, <1>11, <1>17, <1>20
  <2>2. \E c : Stream(c, toClient \o <<r>>, P) /\ c[0] = cut[0] /\ c[Len(toClient \o <<r>>)] = x
    BY <1>3, <1>10, <2>1, StreamGrows
  <2> QED BY <1>21, <2>2
<1>23. LoopServerAt(server', x, P)
  BY <1>9, <1>10, <1>13, <1>16 DEF LoopServerAt
<1>24. peer'.got = SubSeq(P, 1, c[0]) /\ LoopServerAt(server', c[Len(toClient')], P)
  BY <1>1, <1>10, <1>22, <1>23
<1> QED BY <1>22, <1>24 DEF LoopFits

\* It reads the request, and the reply is to be said.
LEMMA HearsOnLoop ==
  ASSUME ExInv, server_hears, over = "loopback", Asks(toServer), NEW P, P = ReplyItems, LoopFits(server, peer, toClient, P)
  PROVE  LoopFits(server', peer', toClient', P)
<1>1. /\ server.pc \in {"Finished", "request"} /\ server.said = <<>> /\ UNCHANGED peer
      /\ toServer # <<>> /\ IsServer(server)
  BY DEF server_hears, ExInv
<1>2. PICK cut : Stream(cut, toClient, P) /\ peer.got = SubSeq(P, 1, cut[0]) /\ LoopServerAt(server, cut[Len(toClient)], P)
  BY DEF LoopFits
<1>3. server.pc = "request" /\ server.read = 0 /\ cut[Len(toClient)] = 0
  BY <1>1, <1>2 DEF LoopServerAt
<1>4. Head(toServer).key = Plain /\ Head(toServer).n = 0
  <2>1. Head(toServer) \in Range(toServer)
    BY <1>1, ListTail DEF Asks
  <2> QED BY <2>1 DEF Asks
<1>5. ReadKey = Plain
  BY DEF ReadKey
<1>6. PICK tickets \in BOOLEAN, update \in BOOLEAN :
        /\ tickets \/ update => over = "tls" /\ ~(tickets /\ update)
        /\ UNCHANGED toClient
        /\ server' = CASE server.pc = "Finished" -> [server EXCEPT !.pc = "request"]
                       [] server.pc = "request" /\ server.heard + 1 < RequestRecords ->
                            [server EXCEPT !.heard = @ + 1, !.read = IF over = "tls" THEN @ + 1 ELSE @]
                       [] OTHER -> [server EXCEPT !.heard = @ + 1, !.pc = "replied",
                                     !.said = Reply(IF over = "tls" THEN application_traffic("server", server.transcript)
                                                    ELSE Plain, tickets, update)]
  BY <1>3, <1>4, <1>5 DEF server_hears
<1>7. PICK reply : reply = Reply(Plain, tickets, update)
  OBVIOUS
<1>8. PICK h : Saying(reply, Plain, h, 0, P, FALSE)
  <2>1. PICK h : Saying(reply, Plain, h, 0, ReplyItems, over = "tls")
    BY <1>6, <1>7, ReplySaid
  <2>2. (over = "tls") = FALSE
    OBVIOUS
  <2> QED BY <2>1, <2>2
<1>9. \/ server' = [server EXCEPT !.heard = @ + 1, !.read = IF over = "tls" THEN @ + 1 ELSE @]
      \/ server' = [server EXCEPT !.heard = @ + 1, !.pc = "replied", !.said = reply]
  <2>1. reply = Reply(IF over = "tls" THEN application_traffic("server", server.transcript) ELSE Plain, tickets, update)
    BY <1>7
  <2>2. CASE server.heard + 1 < RequestRecords
    BY <1>3, <1>6, <2>2
  <2>3. CASE ~(server.heard + 1 < RequestRecords)
    BY <1>3, <1>6, <2>1, <2>3
  <2> QED BY <2>2, <2>3
<1>10. /\ server'.read = 0
       /\ \/ server'.pc = "request" /\ server'.said = <<>>
          \/ server'.pc = "replied" /\ server'.said = reply
  BY <1>1, <1>3, <1>9 DEF IsServer
<1>11. LoopServerAt(server', 0, P)
  BY <1>8, <1>10 DEF LoopServerAt
<1>12. Stream(cut, toClient', P) /\ peer'.got = SubSeq(P, 1, cut[0]) /\ LoopServerAt(server', cut[Len(toClient')], P)
  BY <1>1, <1>2, <1>3, <1>6, <1>11
<1> QED BY <1>12 DEF LoopFits

\* It is there, or it dies.
LEMMA MovesOnLoop ==
  ASSUME ExInv, loopback_hears \/ server_cut, NEW P, LoopFits(server, peer, toClient, P)
  PROVE  LoopFits(server', peer', toClient', P)
<1>1. UNCHANGED peer /\ IsServer(server) /\ Listed(toClient)
  BY DEF loopback_hears, server_cut, ExInv, ServerSound, Incoming
<1>2. PICK cut : Stream(cut, toClient, P) /\ peer.got = SubSeq(P, 1, cut[0]) /\ LoopServerAt(server, cut[Len(toClient)], P)
  BY DEF LoopFits
<1>3. CASE loopback_hears
  <2>1. server.pc = "hello" /\ server' = [server EXCEPT !.pc = "request"] /\ toClient' = toClient
    BY <1>3 DEF loopback_hears
  <2>2. server'.pc = "request" /\ server'.said = server.said /\ server'.read = server.read
    BY <1>1, <2>1 DEF IsServer
  <2>3. LoopServerAt(server', cut[Len(toClient')], P)
    BY <1>2, <2>1, <2>2 DEF LoopServerAt
  <2>4. Stream(cut, toClient', P) /\ peer'.got = SubSeq(P, 1, cut[0])
    BY <1>1, <1>2, <2>1
  <2> QED BY <2>3, <2>4 DEF LoopFits
<1>4. CASE server_cut
  <2>1. server' = [server EXCEPT !.pc = "gone", !.said = <<>>] /\ toClient' = Append(toClient, EndOfStream)
    BY <1>4 DEF server_cut
  <2>2. server'.pc = "gone" /\ server'.said = <<>> /\ server'.read = server.read
    BY <1>1, <2>1 DEF IsServer
  <2>3. PICK r, d : r = EndOfStream /\ d = cut[Len(toClient)]
    OBVIOUS
  <2>4. Len(toClient) \in 0..Len(toClient)
    BY <1>1 DEF Listed
  <2>5. d \in 0..Len(P)
    BY <1>2, <2>3, <2>4 DEF Stream
  <2>6. Piece(r, d, d, P)
    <3>1. r.type = "eof" /\ d <= d
      BY <2>3, <2>5 DEF EndOfStream, Record
    <3> QED BY <3>1 DEF Piece
  <2>p. Piece(r, cut[Len(toClient)], d, P)
    BY <2>3, <2>6
  <2>q. PICK c : Stream(c, toClient \o <<r>>, P) /\ c[0] = cut[0] /\ c[Len(toClient \o <<r>>)] = d
    <3>1. \E c : Stream(c, toClient \o <<r>>, P) /\ c[0] = cut[0] /\ c[Len(toClient \o <<r>>)] = d
      BY <1>1, <1>2, <2>5, <2>p, StreamGrows
    <3> QED BY <3>1
  <2>s. toClient' = toClient \o <<r>>
    <3>1. PICK S : S = Range(toClient) \cup {r}
      OBVIOUS
    <3>2. toClient \in Seq(S) /\ r \in S
      BY <1>1, <3>1 DEF Listed
    <3> QED BY <2>1, <2>3, <3>2
  <2>7. Stream(c, toClient', P) /\ c[0] = cut[0] /\ c[Len(toClient')] = d
    BY <2>q, <2>s
  <2>8. LoopServerAt(server', d, P)
    BY <1>2, <2>2 DEF LoopServerAt
  <2>9. Stream(c, toClient', P) /\ peer'.got = SubSeq(P, 1, c[0]) /\ LoopServerAt(server', c[Len(toClient')], P)
    BY <1>1, <1>2, <2>7, <2>8
  <2> QED BY <2>9 DEF LoopFits
<1> QED BY <1>3, <1>4

LEMMA ReceivesOnLoop ==
  ASSUME ExInv, receive, over = "loopback", NEW S, NEW P \in Seq(S), LoopFits(server, peer, toClient, P)
  PROVE  LoopFits(server', peer', toClient', P)
<1>1. PICK r : r = Head(toClient)
  OBVIOUS
<1>2. /\ toClient # <<>> /\ toClient' = Tail(toClient) /\ UNCHANGED server /\ IsPeer(peer) /\ Listed(toClient)
      /\ peer' = CASE over = "loopback" /\ r.type = "eof" -> [peer EXCEPT !.closed = "clear"]
                   [] over = "loopback" /\ r.type # "eof" -> [peer EXCEPT !.got = @ \o r.content]
                   [] over = "tls" /\ record_closes(r) -> [peer EXCEPT !.closed = IF r.key = Plain THEN "clear" ELSE "sealed"]
                   [] over = "tls" /\ Fails(r) -> Refused(peer)
                   [] over = "tls" /\ ~Fails(r) /\ r.type = "data" -> [open(peer, r) EXCEPT !.got = @ \o r.content]
                   [] over = "tls" /\ ~Fails(r) /\ r.type = "handshake" ->
                        IF Tickets(r.content) THEN [open(peer, r) EXCEPT !.pending = Undropped(@ \o r.content)] ELSE Refused(peer)
                   [] OTHER -> Refused(peer)
  BY <1>1 DEF receive, ExInv, ServerSound, Incoming
<1>3. PICK cut : Stream(cut, toClient, P) /\ peer.got = SubSeq(P, 1, cut[0]) /\ LoopServerAt(server, cut[Len(toClient)], P)
  BY DEF LoopFits
<1>4. PICK a, b, N : a = cut[0] /\ b = cut[1] /\ N = Len(P)
  OBVIOUS
<1>5. /\ Piece(r, a, b, P) /\ a \in 0..N /\ b \in 0..N /\ N \in Nat
      /\ \E c : Stream(c, toClient', P) /\ c[0] = b /\ c[Len(toClient')] = cut[Len(toClient)]
  BY <1>1, <1>2, <1>3, <1>4, StreamShrinks
<1>6. PICK got : got = peer.got \o r.content
  OBVIOUS
<1>7. /\ r.type = "eof" => peer'.got = peer.got
      /\ r.type # "eof" => peer'.got = got
  <2>1. CASE r.type = "eof"
    <3>1. peer' = [peer EXCEPT !.closed = "clear"]
      BY <1>2, <2>1
    <3> QED BY <1>2, <2>1, <3>1 DEF IsPeer
  <2>2. CASE r.type # "eof"
    <3>1. peer' = [peer EXCEPT !.got = got]
      BY <1>2, <1>6, <2>2
    <3> QED BY <1>2, <2>2, <3>1 DEF IsPeer
  <2> QED BY <2>1, <2>2
<1>8. peer'.got = SubSeq(P, 1, b)
  <2>1. CASE r.type = "eof"
    <3>1. a = b
      BY <1>5, <2>1 DEF Piece
    <3> QED BY <1>3, <1>4, <1>7, <2>1, <3>1
  <2>2. CASE r.type # "eof"
    <3>1. a <= b /\ r.content = SubSeq(P, a + 1, b)
      BY <1>5, <2>2 DEF Piece
    <3>2. peer'.got = SubSeq(P, 1, a) \o SubSeq(P, a + 1, b)
      BY <1>3, <1>4, <1>6, <1>7, <2>2, <3>1
    <3>3. 1 \in 1..Len(P) + 1 /\ a \in (1 - 1)..Len(P) /\ b \in a..Len(P)
      BY <1>4, <1>5, <3>1
    <3>4. SubSeq(P, 1, a) \o SubSeq(P, a + 1, b) = SubSeq(P, 1, b)
      BY <3>3, ConcatAdjacentSubSeq
    <3> QED BY <3>2, <3>4
  <2> QED BY <2>1, <2>2
<1>9. PICK c : Stream(c, toClient', P) /\ c[0] = b /\ c[Len(toClient')] = cut[Len(toClient)]
  BY <1>5
<1>10. Stream(c, toClient', P) /\ peer'.got = SubSeq(P, 1, c[0]) /\ LoopServerAt(server', c[Len(toClient')], P)
  BY <1>2, <1>3, <1>8, <1>9
<1> QED BY <1>10 DEF LoopFits

\* What a client of this host sends is in the clear.
LEMMA AsksStay ==
  ASSUME ExInv, over = "loopback", Asks(toServer), [TNext]_tvars
  PROVE  Asks(toServer')
<1>1. peer.pc \notin Handshaking \cup {"hello"}
  BY DEF ExInv, ClientSound
<1>2. ASSUME toServer' = Append(toServer, Record("data", Plain, 0, "request"))
      PROVE  Asks(toServer')
  <2>1. PICK x : x = Record("data", Plain, 0, "request")
    OBVIOUS
  <2>2. x.key = Plain /\ x.n = 0
    BY <2>1 DEF Record
  <2>3. toServer \in Seq(Range(toServer) \cup {x})
    BY DEF Asks, Listed
  <2>4. Append(toServer, x) \in Seq(Range(toServer) \cup {x})
    BY <2>3
  <2>5. Listed(Append(toServer, x)) /\ Range(Append(toServer, x)) \subseteq Range(toServer) \cup {x}
    BY <2>4, ListOf
  <2>6. Asks(Append(toServer, x))
    BY <2>2, <2>5 DEF Asks
  <2> QED BY <1>2, <2>1, <2>6
<1>3. ASSUME toServer # <<>>, toServer' = Tail(toServer)
      PROVE  Asks(toServer')
  BY <1>3, ListTail DEF Asks
<1>4. ASSUME toServer' = toServer
      PROVE  Asks(toServer')
  BY <1>4
<1>5. CASE loopback_send
  BY <1>2, <1>5 DEF loopback_send
<1>6. CASE server_hears
  BY <1>3, <1>6 DEF server_hears
<1>7. CASE ~loopback_send /\ ~server_hears
  <2>1. ~hello /\ ~receive_handshake /\ ~flight_message /\ ~send /\ ~server_answers /\ ~network
    BY <1>1 DEF hello, receive_handshake, flight_message, send, server_answers, network
  <2>2. CASE read_reply
    BY <1>4, <2>2 DEF read_reply
  <2>3. CASE exchange \/ tcp_connect \/ receive \/ passed \/ Clock \/ loopback_hears \/ server_cut \/ UNCHANGED tvars
    BY <1>4, <2>3 DEF exchange, tcp_connect, receive, passed, Clock, loopback_hears, server_cut, tvars
  <2>4. CASE \E n \in 1..8 : server_says(n)
    BY <1>4, <2>4 DEF server_says
  <2> QED BY <1>7, <2>1, <2>2, <2>3, <2>4 DEF TNext, ClientNext
<1> QED BY <1>5, <1>6, <1>7

-----------------------------------------------------------------------------
(* The exchange with a server: what the reply read as whole is.            *)

ReplyInv ==
  /\ ExInv /\ server.framing \in {"length", "chunked", "close"}
  /\ over = "tls" => TlsFits(server, peer, toClient, ReplyItems)
  /\ over = "loopback" => /\ LoopFits(server, peer, toClient, ReplyItems) /\ Asks(toServer)
                          /\ peer.closed # "sealed"
  /\ ReplyWhole

LEMMA ReplyInitial == TInit => ReplyInv
<1> SUFFICES ASSUME TInit
             PROVE  ReplyInv
  OBVIOUS
<1>1. ExInv
  BY ExInitial
<1>2. /\ peer = Client /\ server \in Servers /\ toServer = <<>> /\ toClient = <<>>
  BY DEF TInit
<1>3. server.pc = "hello" /\ server.said = <<>> /\ server.key = Plain /\ server.read = 0 /\ server.framing \in {"length", "chunked", "close"}
  BY <1>2, ServersMet
<1>4. ~peer.established /\ peer.got = <<>> /\ peer.closed = "no" /\ peer.pc = "exchange"
  BY <1>2 DEF Client
<1>5. PICK P, N : P = ReplyItems /\ N = Len(P)
  OBVIOUS
<1>6. N \in Nat
  BY <1>5, ReplyList
<1>7. PICK cut : cut = [i \in 0..0 |-> 0]
  OBVIOUS
<1>8. cut \in [0..0 -> 0..N] /\ cut[0] = 0
  BY <1>6, <1>7
<1>9. TlsFits(server, peer, toClient, P)
  <2>1. PICK m : m = 0
    OBVIOUS
  <2>2. Cuts(cut, m, P)
    BY <1>5, <1>8, <2>1 DEF Cuts
  <2>3. Coming(toClient, ReplyKey(server), cut, m, P)
    BY <1>2, ListNone DEF Coming
  <2>4. ServerAt(server, ReplyKey(server), cut, m, P)
    BY <1>3, <2>1, KeysApart DEF ServerAt
  <2>5. ClientHas(peer, ReplyKey(server), cut, m, P)
    BY <1>4 DEF ClientHas
  <2>6. InStep(server, peer, toClient, cut, m, P)
    BY <2>2, <2>3, <2>4, <2>5 DEF InStep
  <2> QED BY <2>6 DEF TlsFits
<1>10. LoopFits(server, peer, toClient, P)
  <2>1. Len(toClient) = 0
    BY <1>2
  <2>2. Stream(cut, toClient, P)
    BY <1>5, <1>8, <2>1 DEF Stream
  <2>3. peer.got = SubSeq(P, 1, cut[0])
    BY <1>4, <1>8, SubSeqEmpty
  <2>4. LoopServerAt(server, cut[Len(toClient)], P)
    BY <1>3, <1>8, <2>1 DEF LoopServerAt
  <2> QED BY <2>2, <2>3, <2>4 DEF LoopFits
<1>11. Asks(toServer)
  BY <1>2, ListNone DEF Asks
<1> QED BY <1>1, <1>3, <1>4, <1>5, <1>9, <1>10, <1>11 DEF ReplyInv, ReplyWhole

\* Neither how the reply is framed nor what it runs over changes.
LEMMA FramingStays ==
  ASSUME ExInv, [TNext]_tvars
  PROVE  over' = over /\ server'.framing = server.framing
<1>1. IsServer(server)
  BY DEF ExInv
<1>2. over' = over
  BY ZenonT(60) DEF TNext, ClientNext, exchange, tcp_connect, hello, receive_handshake, flight_message, send, loopback_send, receive,
         read_reply, passed, Clock, server_answers, server_says, server_hears, loopback_hears, server_cut, network, tvars
<1>3. \/ server' = server
      \/ server_answers \/ (\E n \in 1..8 : server_says(n)) \/ server_hears \/ loopback_hears \/ server_cut
  BY DEF TNext, ClientNext, exchange, tcp_connect, hello, receive_handshake, flight_message, send, loopback_send, receive,
         read_reply, passed, Clock, network, tvars
<1>4. CASE server_answers
  BY <1>1, <1>2, <1>4, FlightSaid DEF Flown
<1>5. CASE \E n \in 1..8 : server_says(n)
  <2>1. PICK n \in 1..8 : server_says(n)
    BY <1>5
  <2>2. PICK s, e : s = server.said /\ e = server.said[1]
    OBVIOUS
  <2>3. PICK number : number = IF e.key = server.key THEN server.n ELSE 0
    OBVIOUS
  <2>4. server' = [server EXCEPT !.said = SubSeq(s, n + 1, Len(s)), !.key = e.key,
                                 !.n = IF e.key = Plain THEN 0 ELSE number + 1]
    BY <2>1, <2>2, <2>3 DEF server_says
  <2>5. server'.framing = server.framing
    BY <1>1, <2>4 DEF IsServer
  <2> QED BY <1>2, <2>5
<1>6. CASE server_hears
  <2>1. \/ server' = [server EXCEPT !.pc = "gone"]
        \/ server' = [server EXCEPT !.pc = "request"]
        \/ server' = [server EXCEPT !.heard = @ + 1, !.read = IF over = "tls" THEN @ + 1 ELSE @]
        \/ \E s : server' = [server EXCEPT !.heard = @ + 1, !.pc = "replied", !.said = s]
    BY <1>6 DEF server_hears
  <2> QED BY <1>1, <1>2, <2>1 DEF IsServer
<1>7. CASE loopback_hears
  BY <1>1, <1>2, <1>7 DEF loopback_hears, IsServer
<1>8. CASE server_cut
  BY <1>1, <1>2, <1>8 DEF server_cut, IsServer
<1> QED BY <1>2, <1>3, <1>4, <1>5, <1>6, <1>7, <1>8

\* An exchange is answered by nothing but a reply taken as whole, and then it is over.
LEMMA AnswersOnce ==
  ASSUME ExInv, [TNext]_tvars, (peer.pc = "answered")'
  PROVE  peer' = peer \/ read_reply
<1>1. IsPeer(peer)
  BY DEF ExInv
<1>2. CASE \/ Clock \/ server_answers \/ (\E n \in 1..8 : server_says(n)) \/ server_hears
           \/ loopback_hears \/ server_cut \/ network \/ UNCHANGED tvars
  BY <1>2 DEF Clock, server_answers, server_says, server_hears, loopback_hears, server_cut, network, tvars
<1>3. ASSUME peer' = Refused(peer)
      PROVE  FALSE
  BY <1>1, <1>3 DEF IsPeer, Refused
<1>4. ~exchange
  <2>1. SUFFICES ASSUME exchange PROVE FALSE
    OBVIOUS
  <2>2. peer' = Refused(peer) \/ peer' = [peer EXCEPT !.pc = "connect"]
    BY <2>1 DEF exchange
  <2> QED BY <1>1, <1>3, <2>2 DEF IsPeer
<1>5. ~tcp_connect
  <2>1. SUFFICES ASSUME tcp_connect PROVE FALSE
    OBVIOUS
  <2>2. PICK q : q = IF over = "tls" THEN "hello" ELSE "send"
    OBVIOUS
  <2>3. /\ peer.pc = "connect"
        /\ peer' = Refused(peer) \/ peer' = [peer EXCEPT !.pc = q] \/ peer' = [peer EXCEPT !.address = @ + 1]
    BY <2>1, <2>2 DEF tcp_connect
  <2> QED BY <1>1, <1>3, <2>2, <2>3 DEF IsPeer
<1>6. ~hello
  BY <1>1 DEF hello, IsPeer
<1>7. ~passed
  BY <1>3 DEF passed
<1>8. PICK a : a = Asked
  OBVIOUS
<1>9. peer.pc = "send" => IsPeer(a) /\ a.pc \in {"send", "reply"}
  BY <1>1, <1>8 DEF Asked, IsPeer
<1>10. ~send
  <2>1. SUFFICES ASSUME send PROVE FALSE
    OBVIOUS
  <2>2. peer.pc = "send" /\ (peer' = Refused(peer) \/ peer' = [a EXCEPT !.sent = @ + 1])
    BY <1>8, <2>1 DEF send, advance
  <2> QED BY <1>3, <1>9, <2>2 DEF IsPeer
<1>11. ~loopback_send
  BY <1>8, <1>9 DEF loopback_send
<1>12. ASSUME receive_handshake \/ receive
       PROVE  peer' = peer
  <2>1. PICK r : r = Head(toClient)
    OBVIOUS
  <2>2. PICK o : o = open(peer, r)
    OBVIOUS
  <2>3. IsPeer(o) /\ o.pc = peer.pc
    BY <1>1, <2>2, OpenFacts
  <2>4. PICK x, y, z, g : x = o.pending \o r.content /\ y = Undropped(x) /\ z = o.got \o r.content /\ g = peer.got \o r.content
    OBVIOUS
  <2>5. /\ peer.pc # "answered"
        /\ \/ peer' = peer
           \/ peer' = Refused(peer)
           \/ \E c \in {"sealed", "clear"} : peer' = [peer EXCEPT !.closed = c]
           \/ peer' = [peer EXCEPT !.got = g]
           \/ peer' = [o EXCEPT !.pending = x]
           \/ peer' = [o EXCEPT !.pending = y]
           \/ peer' = [o EXCEPT !.got = z]
    <3>1. CASE receive_handshake
      BY <2>1, <2>2, <2>4, <3>1 DEF receive_handshake, Handshaking
    <3>2. CASE receive
      BY <2>1, <2>2, <2>4, <3>2 DEF receive
    <3> QED BY <1>12, <3>1, <3>2
  <2> QED BY <1>1, <1>3, <2>3, <2>5 DEF IsPeer
<1>13. ~flight_message
  <2>1. SUFFICES ASSUME flight_message PROVE FALSE
    OBVIOUS
  <2>2. PICK p : p = Transcribed(Message)
    OBVIOUS
  <2>3. peer.pc \in Handshaking
    BY <2>1 DEF flight_message
  <2>4. IsPeer(p) /\ p.pc = NextPlace[peer.pc]
    BY <2>2, <2>3, TranscribedFacts
  <2>5. p.pc # "answered"
    BY <2>3, <2>4 DEF NextPlace, Handshaking
  <2>6. PICK s, k, l, x, y : /\ s = Message.suite /\ k = handshake_traffic("server", p.transcript)
                             /\ l = handshake_traffic("client", p.transcript)
                             /\ x = application_traffic("server", p.transcript)
                             /\ y = application_traffic("client", p.transcript)
    OBVIOUS
  <2>7. \/ peer' = Refused(peer)
        \/ peer' = [p EXCEPT !.suite = s, !.key = k, !.opened = 0, !.out = l]
        \/ peer' = [p EXCEPT !.key = x, !.opened = 0, !.established = TRUE, !.sent = 0, !.out = y]
        \/ peer' = p
    BY <2>1, <2>2, <2>6 DEF flight_message
  <2> QED BY <1>3, <2>4, <2>5, <2>7 DEF IsPeer
<1> QED BY <1>2, <1>4, <1>5, <1>6, <1>7, <1>10, <1>11, <1>12, <1>13 DEF TNext, ClientNext

\* Over loopback every end of the stream comes in the clear.
LEMMA EndsInClear ==
  ASSUME ExInv, [TNext]_tvars, over = "loopback", peer.closed # "sealed"
  PROVE  peer'.closed # "sealed"
<1>1. IsPeer(peer) /\ ~receive_handshake /\ ~flight_message
  BY DEF ExInv, ClientSound, receive_handshake, flight_message
<1>2. CASE Outward
  BY <1>2, OutwardKeeps DEF Keeps
<1>3. CASE receive
  <2>1. PICK r, got : r = Head(toClient) /\ got = peer.got \o r.content
    OBVIOUS
  <2>2. peer' = [peer EXCEPT !.closed = "clear"] \/ peer' = [peer EXCEPT !.got = got]
    BY <1>3, <2>1 DEF receive
  <2> QED BY <1>1, <2>2 DEF IsPeer
<1>4. CASE Clock \/ server_answers \/ (\E n \in 1..8 : server_says(n)) \/ server_hears
           \/ loopback_hears \/ server_cut \/ network \/ UNCHANGED tvars
  <2>1. peer' = peer
    BY <1>4 DEF Clock, server_answers, server_says, server_hears, loopback_hears, server_cut, network, tvars
  <2> QED BY <2>1
<1> QED BY <1>1, <1>2, <1>3, <1>4 DEF TNext, ClientNext, Outward

\* A reply is read as whole only when it ends as it states, or in a sealed close.
LEMMA ReadsWhole ==
  ASSUME ReplyInv, read_reply, peer'.pc = "answered", server.framing = "close" => peer'.closed = "sealed"
  PROVE  Complete(peer'.got)
<1>1. PICK P, N, n : P = ReplyItems /\ N = Len(P) /\ n = ReplyLength
  OBVIOUS
<1>2. N = n /\ n \in Nat
  BY <1>1, ReplyList
<1>3. IsPeer(peer) /\ over \in {"tls", "loopback"} /\ server.framing \in {"length", "chunked", "close"}
  BY DEF ReplyInv, ExInv
<1>4. peer.pc = "reply" /\ Whole_reply(peer.got, peer.closed # "no") /\ peer' = [peer EXCEPT !.pc = "answered"]
  <2>1. CASE Whole_reply(peer.got, peer.closed # "no")
    BY <2>1 DEF read_reply
  <2>2. CASE ~Whole_reply(peer.got, peer.closed # "no")
    <3>1. peer' = Refused(peer)
      BY <2>2 DEF read_reply
    <3> QED BY <1>3, <3>1 DEF IsPeer, Refused
  <2> QED BY <2>1, <2>2
<1>5. PICK got : got = peer.got
  OBVIOUS
<1>6. peer'.got = got /\ got # <<>> /\ peer'.closed = peer.closed
  BY <1>3, <1>4, <1>5 DEF IsPeer, Whole_reply
<1>7. \/ server.framing = "length" /\ Bodies(got) = BodyItems
      \/ server.framing = "chunked" /\ ("blank" \in Range(got) \/ "last" \in Range(got))
      \/ server.framing = "close" /\ peer.closed = "sealed"
  BY <1>3, <1>4, <1>5, <1>6 DEF Whole_reply
<1>8. \E c \in 0..n : got = SubSeq(P, 1, c) /\ (server.framing = "close" => c = n)
  <2>1. CASE over = "tls"
    <3>1. PICK cut, m : InStep(server, peer, toClient, cut, m, P)
      BY <1>1, <2>1 DEF ReplyInv, TlsFits
    <3>2. peer.established
      BY <1>4, <2>1 DEF ReplyInv, ExInv, ClientSound, Asking
    <3>3. /\ peer.opened \in 0..m /\ peer.got = SubSeq(P, 1, cut[peer.opened]) /\ (peer.closed = "sealed" => cut[peer.opened] = N)
          /\ cut \in [0..m -> 0..N]
      BY <1>1, <3>1, <3>2 DEF InStep, ClientHas, Cuts
    <3>4. PICK c : c = cut[peer.opened]
      OBVIOUS
    <3>5. c \in 0..n /\ got = SubSeq(P, 1, c) /\ (peer.closed = "sealed" => c = n)
      BY <1>2, <1>5, <3>3, <3>4
    <3> QED BY <1>7, <3>5
  <2>2. CASE over = "loopback"
    <3>1. PICK cut : Stream(cut, toClient, P) /\ peer.got = SubSeq(P, 1, cut[0])
      BY <1>1, <2>2 DEF ReplyInv, LoopFits
    <3>2. Listed(toClient)
      BY DEF ReplyInv, ExInv, ServerSound, Incoming
    <3>3. Len(toClient) \in Nat /\ 0 \in 0..Len(toClient)
      BY <3>2 DEF Listed
    <3>4. cut[0] \in 0..n
      BY <1>1, <1>2, <3>1, <3>3 DEF Stream
    <3>5. server.framing # "close"
      BY <1>7, <2>2 DEF ReplyInv
    <3> QED BY <1>5, <3>1, <3>4, <3>5
  <2> QED BY <1>3, <2>1, <2>2
<1>9. PICK c \in 0..ReplyLength : got = SubSeq(ReplyItems, 1, c) /\ (server.framing = "close" => c = ReplyLength)
  BY <1>1, <1>8
<1>10. \/ Bodies(got) = BodyItems
       \/ c = ReplyLength
       \/ "last" \in Range(got) \/ "blank" \in Range(got)
  BY <1>7, <1>9
<1>11. Complete(got)
  BY <1>6, <1>9, <1>10, Begins
<1> QED BY <1>6, <1>11

LEMMA ReplyNext == ReplyInv /\ [TNext]_tvars => ReplyInv'
<1> SUFFICES ASSUME ReplyInv, [TNext]_tvars
             PROVE  ReplyInv'
  OBVIOUS
<1>1. ExInv /\ ExInv'
  BY ExNext DEF ReplyInv
<1>2. over' = over /\ server'.framing = server.framing
  BY <1>1, FramingStays
<1>3. PICK P : P = ReplyItems
  OBVIOUS
<1>4. (ReplyItems = P)'
  BY <1>2, <1>3 DEF ReplyItems
<1>5. PICK S : S = {"head", "body", "last", "blank"}
  OBVIOUS
<1>6. P \in Seq(S)
  BY <1>3, <1>5, ReplyList
<1>7. ASSUME over = "tls"
      PROVE  TlsFits(server', peer', toClient', P)
  <2>1. TlsFits(server, peer, toClient, P)
    BY <1>3, <1>7 DEF ReplyInv
  <2>2. ASSUME Keeps(peer', peer), UNCHANGED <<server, toClient>>
        PROVE  TlsFits(server', peer', toClient', P)
    <3>1. PICK p, q, s, sv : p = peer /\ q = peer' /\ s = toClient /\ sv = server
      OBVIOUS
    <3>2. /\ q.got = p.got /\ q.closed = p.closed /\ q.established = p.established
          /\ p.established => q.key = p.key /\ q.opened = p.opened
      BY <2>2, <3>1 DEF Keeps
    <3>3. TlsFits(sv, q, s, P)
      BY <2>1, <3>1, <3>2, HeldBack
    <3> QED BY <2>2, <3>1, <3>3
  <2>3. CASE Outward
    BY <1>1, <2>2, <2>3, OutwardKeeps
  <2>4. CASE receive_handshake \/ flight_message
    BY <1>1, <2>1, <2>4, HandshakeOverTls
  <2>5. CASE receive
    BY <1>1, <1>6, <1>7, <2>1, <2>5, ReceivesOverTls
  <2>6. CASE server_answers
    BY <1>1, <2>1, <2>6, AnswersOverTls
  <2>7. CASE \E n \in 1..8 : server_says(n)
    BY <1>1, <1>6, <2>1, <2>7, SaysOverTls
  <2>8. CASE server_hears
    BY <1>1, <1>3, <1>7, <2>1, <2>8, HearsOverTls
  <2>9. CASE server_cut
    BY <1>1, <2>1, <2>9, CutOverTls
  <2>10. CASE network
    BY <1>1, <2>1, <2>10, NetworkOverTls
  <2>11. CASE Clock \/ UNCHANGED tvars
    <3>1. UNCHANGED <<peer, server, toClient>>
      BY <2>11 DEF Clock, tvars
    <3> QED BY <2>1, <3>1
  <2>12. ~loopback_hears
    BY <1>7 DEF loopback_hears
  <2> QED BY <2>3, <2>4, <2>5, <2>6, <2>7, <2>8, <2>9, <2>10, <2>11, <2>12 DEF TNext, ClientNext, Outward
<1>8. ASSUME over = "loopback"
      PROVE  LoopFits(server', peer', toClient', P) /\ Asks(toServer')
  <2>1. LoopFits(server, peer, toClient, P) /\ Asks(toServer)
    BY <1>3, <1>8 DEF ReplyInv
  <2>2. Asks(toServer')
    BY <1>1, <1>8, <2>1, AsksStay
  <2>3. ASSUME peer'.got = peer.got, UNCHANGED <<server, toClient>>
        PROVE  LoopFits(server', peer', toClient', P)
    BY <2>1, <2>3 DEF LoopFits
  <2>4. CASE Outward
    BY <1>1, <2>2, <2>3, <2>4, OutwardKeeps DEF Keeps
  <2>5. CASE receive
    BY <1>1, <1>6, <1>8, <2>1, <2>2, <2>5, ReceivesOnLoop
  <2>6. CASE \E n \in 1..8 : server_says(n)
    BY <1>1, <1>6, <2>1, <2>2, <2>6, SaysOnLoop
  <2>7. CASE server_hears
    BY <1>1, <1>3, <1>8, <2>1, <2>2, <2>7, HearsOnLoop
  <2>8. CASE loopback_hears \/ server_cut
    BY <1>1, <2>1, <2>2, <2>8, MovesOnLoop
  <2>9. CASE Clock \/ UNCHANGED tvars
    <3>1. UNCHANGED <<peer, server, toClient>>
      BY <2>9 DEF Clock, tvars
    <3> QED BY <2>2, <2>3, <3>1
  <2>10. ~receive_handshake /\ ~flight_message /\ ~server_answers /\ ~network
    BY <1>1, <1>8 DEF ExInv, ClientSound, receive_handshake, flight_message, server_answers, network
  <2> QED BY <2>4, <2>5, <2>6, <2>7, <2>8, <2>9, <2>10 DEF TNext, ClientNext, Outward
<1>9. ReplyWhole'
  <2>1. SUFFICES ASSUME peer'.pc = "answered", server'.framing = "close" => peer'.closed = "sealed"
                 PROVE  Complete(peer'.got)
    BY DEF ReplyWhole, Complete, Bodies
  <2>2. peer' = peer \/ read_reply
    BY <1>1, <2>1, AnswersOnce
  <2>3. CASE peer' = peer
    BY <1>2, <2>1, <2>3 DEF ReplyInv, ReplyWhole, Complete
  <2>4. CASE read_reply
    BY <1>2, <2>1, <2>4, ReadsWhole
  <2> QED BY <2>2, <2>3, <2>4
<1>10. over = "loopback" => peer'.closed # "sealed"
  BY <1>1, EndsInClear DEF ReplyInv
<1> QED BY <1>1, <1>2, <1>4, <1>7, <1>8, <1>9, <1>10 DEF ReplyInv

\* A reply taken as whole is the whole reply of the server (net/https read_reply,
\* Connection::receive): its one head and all its body, in order, whatever the server
\* deviates in, however it cuts its reply into records, and whatever the network cuts,
\* damages, repeats, exchanges or puts in, for every number of faults, addresses,
\* records and items of the body; but for a reply that states no length and ends in
\* the clear.
THEOREM RepliesWhole == TSpec => []ReplyWhole
<1>1. ReplyInv => ReplyWhole
  BY DEF ReplyInv
<1> QED BY <1>1, ReplyInitial, ReplyNext, PTL DEF TSpec

-----------------------------------------------------------------------------
(* The chain a server shows.                                               *)

\* The k-th certificate of the walk q; the leaf is before them.
At(q, k) == IF k = 0 THEN chain[1] ELSE Intermediates[q[k]]
Chained(q, n) == \A k \in 1..n : Link(At(q, k - 1), At(q, k)) /\ RightIssuer(At(q, k), k - 1)
Ways(n) == {q \in [1..n -> DOMAIN Intermediates] : IsInjective(q)}
OfAnchor(c) == \E a \in Anchors : Link(c, a)

\* The certificates the walk has passed are a path so far.
Walked(q) ==
  /\ q \in Ways(walk.below) /\ \A k \in 1..walk.below : q[k] \in walk.used
  /\ walk.at = (IF walk.below = 0 THEN 0 ELSE q[walk.below])
  /\ Chained(q, walk.below)

\* The walk is on p.
Follows(p, n) ==
  /\ walk.below <= n /\ \A k \in 1..n : p[k] \in walk.used => k <= walk.below
  /\ walk.at = (IF walk.below = 0 THEN 0 ELSE p[walk.below])

Distinct == \A i, j \in DOMAIN Intermediates : i # j => ~Alike(i, j)

WalkInv ==
  /\ chain \in Shown
  /\ walk = [verdict |-> walk.verdict, at |-> walk.at, below |-> walk.below, used |-> walk.used]
  /\ walk.verdict \in {"start", "walking", "accepted", "refused"}
  /\ walk.below \in Nat
  /\ walk.verdict = "start" => walk.below = 0 /\ walk.used = {} /\ walk.at = 0
  /\ walk.verdict # "start" /\ chain = <<>> => walk.below = 0
  /\ walk.verdict \in {"walking", "accepted"} => leaf_checked
  /\ walk.verdict = "walking" => \E q : Walked(q)
  /\ walk.verdict = "walking" /\ Distinct =>
       \A n \in Nat : \A p \in Ways(n) : PathOf(p) => Follows(p, n)
  /\ chain # <<>> => walk.used \subseteq DOMAIN Intermediates /\ Cardinality(walk.used) = walk.below
  /\ walk.verdict = "accepted" => PathExists
  /\ walk.verdict = "refused" /\ PathExists => ~Distinct
  /\ day.number # -1 =>
       /\ day.year \in Int /\ day.month \in 1..12 /\ day.date \in 1..31 /\ day.date <= DaysOf(day.year, day.month)
       /\ day.number = days_from_civil(day.year, day.month, day.date)

\* How many places a chain has after its leaf.
LEMMA Counted ==
  ASSUME NEW l, l \in Nat, l >= 1
  PROVE  IsFiniteSet(1..l - 1) /\ Cardinality(1..l - 1) = l - 1
<1>1. l - 1 \in Int /\ l - 1 >= 0
  OBVIOUS
<1>2. PICK n \in Int : n = l - 1
  BY <1>1
<1>3. IsFiniteSet(1..n) /\ Cardinality(1..n) = IF 1 > n THEN 0 ELSE n - 1 + 1
  BY FS_Interval
<1> QED BY <1>1, <1>2, <1>3

\* The day after the last of a month or a year is counted on.
LEMMA DayCounts ==
  ASSUME NEW y \in Int, NEW m \in 1..12, NEW d \in 1..31, d <= DaysOf(y, m)
  PROVE  /\ d < DaysOf(y, m) => days_from_civil(y, m, d + 1) = days_from_civil(y, m, d) + 1
         /\ d = DaysOf(y, m) /\ m < 12 => days_from_civil(y, m + 1, 1) = days_from_civil(y, m, d) + 1
         /\ d = DaysOf(y, m) /\ m = 12 => days_from_civil(y + 1, 1, 1) = days_from_civil(y, m, d) + 1
<1>1. d < DaysOf(y, m) => days_from_civil(y, m, d + 1) = days_from_civil(y, m, d) + 1
  BY DEF days_from_civil
<1>2. d = DaysOf(y, m) /\ m < 12 => days_from_civil(y, m + 1, 1) = days_from_civil(y, m, d) + 1
  BY DEF days_from_civil, DaysOf, Leap
<1>3. d = DaysOf(y, m) /\ m = 12 => days_from_civil(y + 1, 1, 1) = days_from_civil(y, m, d) + 1
  BY DEF days_from_civil, DaysOf, Leap
<1> QED BY <1>1, <1>2, <1>3

LEMMA ChainFacts ==
  ASSUME NEW c \in Shown, c # <<>>
  PROVE  /\ Len(c) \in Nat /\ Len(c) >= 1 /\ DOMAIN Tail(c) = 1..Len(c) - 1 /\ Len(Tail(c)) = Len(c) - 1
         /\ \A i \in DOMAIN Tail(c) : /\ Tail(c)[i].notBefore \in Int /\ Tail(c)[i].notAfter \in Int /\ Tail(c)[i].ca \in Nat
                                      /\ Tail(c)[i].keyCertSign \in {"absent", "TRUE", "FALSE"}
<1>1. PICK S : S = Range(c)
  OBVIOUS
<1>2. c \in Seq(S) /\ \A x \in S : /\ x.notBefore \in Int /\ x.notAfter \in Int /\ x.ca \in Nat
                                   /\ x.keyCertSign \in {"absent", "TRUE", "FALSE"}
  BY <1>1, ChainAssumption
<1>3. Len(c) \in Nat /\ Len(c) >= 1 /\ Len(Tail(c)) = Len(c) - 1 /\ Tail(c) \in Seq(S)
  BY <1>2
<1>4. DOMAIN Tail(c) = 1..Len(c) - 1 /\ \A i \in DOMAIN Tail(c) : Tail(c)[i] \in S
  BY <1>3
<1> QED BY <1>2, <1>3, <1>4

\* What may issue is what the reference calls right.
LEMMA IssuerRight ==
  ASSUME NEW c, NEW below \in Nat, c.notBefore \in Int, c.notAfter \in Int, c.ca \in Nat,
         c.keyCertSign \in {"absent", "TRUE", "FALSE"}
  PROVE  may_issue(c, below) <=> RightIssuer(c, below)
BY DEF may_issue, RightIssuer, within, Today

\* A path, said of its length.
LEMMA PathFacts ==
  ASSUME NEW n \in Nat, NEW p \in [1..n -> DOMAIN Intermediates]
  PROVE  PathOf(p) <=> Chained(p, n) /\ OfAnchor(At(p, n))
<1>1. DOMAIN p = 1..n /\ Len(p) = n
  OBVIOUS
<1> QED BY <1>1 DEF PathOf, Chained, OfAnchor, At

LEMMA ExistsFacts ==
  ASSUME chain \in Shown, leaf_checked
  PROVE  /\ PathExists => \E n \in Nat : \E p \in Ways(n) : PathOf(p)
         /\ \A n \in Nat : \A p \in Ways(n) : n <= Len(Intermediates) /\ PathOf(p) => PathExists
<1>1. chain # <<>> /\ Len(Intermediates) \in Nat
  BY ChainFacts DEF leaf_checked, Intermediates
<1>2. \A n \in 0..Len(Intermediates) : n \in Nat
  BY <1>1
<1> QED BY <1>1, <1>2 DEF PathExists, Ways
\* While the chain stays, what is said of it stays.
LEMMA ChainStays ==
  ASSUME chain' = chain
  PROVE  /\ Intermediates' = Intermediates /\ (leaf_checked' <=> leaf_checked) /\ (PathExists' <=> PathExists)
         /\ (Distinct' <=> Distinct)
         /\ \A n : (Ways(n))' = Ways(n) /\ \A p : ((PathOf(p))' <=> PathOf(p)) /\ ((Chained(p, n))' <=> Chained(p, n))
                                               /\ (At(p, n))' = At(p, n)
<1>1. Intermediates' = Intermediates
  BY DEF Intermediates
<1>2. leaf_checked' <=> leaf_checked
  BY <1>1 DEF leaf_checked
<1>3. \A p, n : (At(p, n))' = At(p, n)
  BY <1>1 DEF At
<1>4. \A p : (PathOf(p))' <=> PathOf(p)
  BY <1>1 DEF PathOf
<1>5. \A n : (Ways(n))' = Ways(n)
  BY <1>1 DEF Ways
<1>6. \A p, n : (Chained(p, n))' <=> Chained(p, n)
  BY <1>1, <1>3 DEF Chained
<1>7. Distinct' <=> Distinct
  BY <1>1 DEF Distinct, Alike
<1>8. PathExists' <=> PathExists
  BY <1>1, <1>2, <1>4 DEF PathExists
<1> QED BY <1>1, <1>2, <1>3, <1>4, <1>5, <1>6, <1>7, <1>8

\* The certificate in force is where the walk stands, and what issued it is a link.
LEMMA InForceFacts ==
  ASSUME NEW q, walk.at = (IF walk.below = 0 THEN 0 ELSE q[walk.below]),
         walk.below # 0 => q[walk.below] # 0
  PROVE  /\ InForce = At(q, walk.below)
         /\ anchored <=> OfAnchor(InForce)
         /\ \A i : Issues(i) <=> i \notin walk.used /\ Link(InForce, Intermediates[i])
<1>1. InForce = At(q, walk.below)
  BY DEF InForce, At
<1>2. anchored <=> OfAnchor(InForce)
  BY DEF anchored, OfAnchor, Link
<1>3. \A i : Issues(i) <=> i \notin walk.used /\ Link(InForce, Intermediates[i])
  BY DEF Issues, Link
<1> QED BY <1>1, <1>2, <1>3

LEMMA OneIssuer ==
  ASSUME Distinct, NEW c, NEW i \in DOMAIN Intermediates, NEW j \in DOMAIN Intermediates,
         Link(c, Intermediates[i]), Link(c, Intermediates[j])
  PROVE  i = j
<1>1. Alike(i, j)
  BY DEF Link, signed_by, Alike
<1> QED BY <1>1 DEF Distinct

\* A walk that is on a path goes on with the path's next certificate, or ends well.
LEMMA OnPath ==
  ASSUME walk.below \in Nat, chain \in Shown, chain # <<>>, Distinct, NEW n \in Nat, NEW p \in Ways(n), PathOf(p), Follows(p, n), ~anchored
  PROVE  /\ walk.below + 1 \in 1..n /\ p[walk.below + 1] \in DOMAIN Intermediates /\ Issues(p[walk.below + 1])
         /\ \A i \in DOMAIN Intermediates : Issues(i) => i = p[walk.below + 1]
         /\ may_issue(Intermediates[p[walk.below + 1]], walk.below)
<1>1. p \in [1..n -> DOMAIN Intermediates] /\ IsInjective(p)
  BY DEF Ways
<1>2. Chained(p, n) /\ OfAnchor(At(p, n))
  BY <1>1, PathFacts
<1>3. PICK b \in Nat : b = walk.below
  OBVIOUS
<1>4. \A i \in DOMAIN Intermediates : i # 0
  BY ChainFacts DEF Intermediates
<1>5. b <= n /\ walk.at = (IF b = 0 THEN 0 ELSE p[b]) /\ (b # 0 => p[b] # 0)
  BY <1>1, <1>3, <1>4 DEF Follows
<1>6. /\ InForce = At(p, b) /\ (anchored <=> OfAnchor(InForce))
      /\ \A i : Issues(i) <=> i \notin walk.used /\ Link(InForce, Intermediates[i])
  BY <1>3, <1>5, InForceFacts
<1>7. b + 1 \in 1..n
  BY <1>2, <1>5, <1>6
<1>8. p[b + 1] \in DOMAIN Intermediates /\ p[b + 1] \notin walk.used
  BY <1>1, <1>3, <1>7 DEF Follows
<1>9. Link(InForce, Intermediates[p[b + 1]]) /\ RightIssuer(Intermediates[p[b + 1]], b)
  <2>1. Link(At(p, b + 1 - 1), At(p, b + 1)) /\ RightIssuer(At(p, b + 1), b + 1 - 1)
    BY <1>2, <1>7 DEF Chained
  <2>2. b + 1 - 1 = b /\ b + 1 # 0
    OBVIOUS
  <2> QED BY <1>6, <2>1, <2>2 DEF At
<1>10. \A i \in DOMAIN Intermediates : Issues(i) => i = p[b + 1]
  BY <1>6, <1>8, <1>9, OneIssuer
<1>11. may_issue(Intermediates[p[b + 1]], b)
  <2>1. PICK c : c = Intermediates[p[b + 1]]
    OBVIOUS
  <2>2. c.notBefore \in Int /\ c.notAfter \in Int /\ c.ca \in Nat /\ c.keyCertSign \in {"absent", "TRUE", "FALSE"}
    BY <1>8, <2>1, ChainFacts DEF Intermediates
  <2> QED BY <1>9, <2>1, <2>2, IssuerRight
<1> QED BY <1>3, <1>6, <1>7, <1>8, <1>9, <1>10, <1>11
LEMMA TakesStep ==
  ASSUME WalkInv, walk.verdict = "walking", ~anchored, NEW i \in DOMAIN Intermediates, Issues(i),
         may_issue(Intermediates[i], walk.below),
         walk' = [walk EXCEPT !.used = marked(i), !.below = @ + 1, !.at = i], UNCHANGED <<chain, day>>
  PROVE  WalkInv'
<1>1. PICK b, u : b = walk.below /\ u = walk.used
  OBVIOUS
<1>2. PICK q : Walked(q)
  BY DEF WalkInv
<1>3. chain \in Shown /\ chain # <<>> /\ b \in Nat /\ leaf_checked /\ u \subseteq DOMAIN Intermediates /\ Cardinality(u) = b
  BY <1>1 DEF WalkInv, leaf_checked
<1>4. /\ walk' = [verdict |-> "walking", at |-> i, below |-> b + 1, used |-> u \cup {i}]
      /\ walk'.verdict = "walking" /\ walk'.at = i /\ walk'.below = b + 1 /\ walk'.used = u \cup {i}
  BY <1>1 DEF WalkInv, marked
<1>5. /\ q \in [1..b -> DOMAIN Intermediates] /\ IsInjective(q) /\ (\A k \in 1..b : q[k] \in u)
      /\ walk.at = (IF b = 0 THEN 0 ELSE q[b]) /\ Chained(q, b)
  BY <1>1, <1>2 DEF Walked, Ways
<1>6. \A k \in DOMAIN Intermediates : k # 0
  BY <1>3, ChainFacts DEF Intermediates
<1>7. InForce = At(q, b) /\ i \notin u /\ Link(InForce, Intermediates[i])
  <2>1. b # 0 => q[b] # 0
    BY <1>3, <1>5, <1>6
  <2> QED BY <1>1, <1>5, <2>1, InForceFacts
<1>8. RightIssuer(Intermediates[i], b)
  <2>1. PICK c : c = Intermediates[i]
    OBVIOUS
  <2>2. c.notBefore \in Int /\ c.notAfter \in Int /\ c.ca \in Nat /\ c.keyCertSign \in {"absent", "TRUE", "FALSE"}
    BY <1>3, <2>1, ChainFacts DEF Intermediates
  <2> QED BY <1>1, <1>3, <2>1, <2>2, IssuerRight
<1>9. PICK r : r = [k \in 1..(b + 1) |-> IF k = b + 1 THEN i ELSE q[k]]
  OBVIOUS
<1>10. r \in [1..(b + 1) -> DOMAIN Intermediates] /\ r[b + 1] = i /\ \A k \in 1..b : r[k] = q[k]
  BY <1>3, <1>5, <1>9
<1>11. IsInjective(r)
  <2>1. ASSUME NEW k \in 1..(b + 1), NEW m \in 1..(b + 1), r[k] = r[m]
        PROVE  k = m
    <3>1. CASE k = b + 1 /\ m # b + 1
      <4>1. m \in 1..b
        BY <1>3, <3>1
      <4> QED BY <1>5, <1>7, <1>10, <2>1, <3>1, <4>1
    <3>2. CASE k # b + 1 /\ m = b + 1
      <4>1. k \in 1..b
        BY <1>3, <3>2
      <4> QED BY <1>5, <1>7, <1>10, <2>1, <3>2, <4>1
    <3>3. CASE k # b + 1 /\ m # b + 1
      <4>1. k \in 1..b /\ m \in 1..b
        BY <1>3, <3>3
      <4> QED BY <1>5, <1>10, <2>1, <4>1 DEF IsInjective
    <3> QED BY <3>1, <3>2, <3>3
  <2> QED BY <1>10, <2>1 DEF IsInjective
<1>12. Chained(r, b + 1)
  <2>1. \A k \in 0..b : At(r, k) = At(q, k)
    <3>1. ASSUME NEW k \in 0..b
          PROVE  At(r, k) = At(q, k)
      <4>1. k # 0 => k \in 1..b
        BY <1>3
      <4> QED BY <1>10, <4>1 DEF At
    <3> QED BY <3>1
  <2>2. ASSUME NEW k \in 1..(b + 1)
        PROVE  Link(At(r, k - 1), At(r, k)) /\ RightIssuer(At(r, k), k - 1)
    <3>1. CASE k = b + 1
      <4>1. At(r, k - 1) = InForce /\ At(r, k) = Intermediates[i] /\ k - 1 = b
        BY <1>3, <1>7, <1>10, <2>1, <3>1 DEF At
      <4> QED BY <1>7, <1>8, <4>1
    <3>2. CASE k # b + 1
      <4>1. k \in 1..b /\ k - 1 \in 0..b /\ k \in 0..b
        BY <1>3, <3>2
      <4>2. At(r, k - 1) = At(q, k - 1) /\ At(r, k) = At(q, k)
        BY <2>1, <4>1
      <4> QED BY <1>5, <4>1, <4>2 DEF Chained
    <3> QED BY <3>1, <3>2
  <2> QED BY <2>2 DEF Chained
<1>13. (Walked(r))'
  <2>1. r \in Ways(b + 1)
    BY <1>10, <1>11 DEF Ways
  <2>2. \A k \in 1..(b + 1) : r[k] \in u \cup {i}
    <3>1. ASSUME NEW k \in 1..(b + 1)
          PROVE  r[k] \in u \cup {i}
      <4>1. k = b + 1 \/ k \in 1..b
        BY <1>3
      <4> QED BY <1>5, <1>10, <4>1
    <3> QED BY <3>1
  <2>3. b + 1 # 0
    BY <1>3
  <2>4. r \in (Ways(b + 1))' /\ (Chained(r, b + 1))'
    BY <1>12, <2>1, ChainStays
  <2> QED BY <1>4, <1>10, <2>2, <2>3, <2>4 DEF Walked
<1>14. ASSUME Distinct, NEW n \in Nat, NEW p \in Ways(n), PathOf(p)
       PROVE  (Follows(p, n))'
  <2>1. Follows(p, n)
    BY <1>14 DEF WalkInv
  <2>2. b + 1 \in 1..n /\ i = p[b + 1]
    BY <1>1, <1>3, <1>14, <2>1, OnPath
  <2>3. b + 1 <= n /\ b + 1 # 0
    BY <1>3, <2>2
  <2>4. ASSUME NEW k \in 1..n, p[k] \in u \cup {i}
        PROVE  k <= b + 1
    <3>1. CASE p[k] \in u
      <4>1. k <= b
        BY <1>1, <2>1, <2>4, <3>1 DEF Follows
      <4> QED BY <1>3, <4>1
    <3>2. CASE p[k] = i
      <4>1. p \in [1..n -> DOMAIN Intermediates] /\ IsInjective(p)
        BY DEF Ways
      <4>2. k = b + 1
        BY <2>2, <3>2, <4>1 DEF IsInjective
      <4> QED BY <1>3, <4>2
    <3> QED BY <2>4, <3>1, <3>2
  <2> QED BY <1>4, <2>2, <2>3, <2>4 DEF Follows
<1>15. u \cup {i} \subseteq DOMAIN Intermediates /\ Cardinality(u \cup {i}) = b + 1 /\ b + 1 \in Nat
  <2>1. IsFiniteSet(u)
    <3>1. IsFiniteSet(1..Len(chain) - 1)
      BY <1>3, ChainFacts, FS_Interval
    <3>2. DOMAIN Intermediates = 1..Len(chain) - 1
      BY <1>3, ChainFacts DEF Intermediates
    <3> QED BY <1>3, <3>1, <3>2, FS_Subset
  <2>2. Cardinality(u \cup {i}) = b + 1
    BY <1>3, <1>7, <2>1, FS_AddElement
  <2> QED BY <1>3, <2>2
<1>16. walk'.verdict = "walking" /\ Distinct' =>
         \A n \in Nat : \A p \in (Ways(n))' : (PathOf(p))' => (Follows(p, n))'
  BY <1>14, ChainStays
<1>17. chain' = chain /\ leaf_checked' /\ Intermediates' = Intermediates
  BY <1>3, ChainStays
<1>18. /\ walk' = [verdict |-> walk'.verdict, at |-> walk'.at, below |-> walk'.below, used |-> walk'.used]
       /\ walk'.below \in Nat /\ walk'.used \subseteq DOMAIN Intermediates /\ Cardinality(walk'.used) = walk'.below
  BY <1>4, <1>15
<1>19. \E x : (Walked(x))'
  BY <1>13
<1>20. walk'.verdict = "walking" /\ chain' \in Shown /\ chain' # <<>>
  BY <1>3, <1>4
<1>21. (day.number # -1 =>
         /\ day.year \in Int /\ day.month \in 1..12 /\ day.date \in 1..31 /\ day.date <= DaysOf(day.year, day.month)
         /\ day.number = days_from_civil(day.year, day.month, day.date))'
  BY DEF WalkInv
<1> QED BY <1>16, <1>17, <1>18, <1>19, <1>20, <1>21 DEF WalkInv
\* A verdict changes nothing else.
LEMMA VerdictFacts ==
  ASSUME WalkInv, NEW v, Verdict(v), v \in {"walking", "accepted", "refused"},
         v # "refused" => leaf_checked,
         v = "walking" => walk.verdict = "start",
         v = "accepted" => PathExists,
         v = "refused" /\ PathExists => ~Distinct
  PROVE  WalkInv'
<1>1. PICK w : w = walk
  OBVIOUS
<1>2. /\ walk' = [verdict |-> v, at |-> w.at, below |-> w.below, used |-> w.used]
      /\ chain' = chain /\ day' = day
  BY <1>1 DEF WalkInv, Verdict
<1>3. walk'.verdict = v /\ walk'.at = w.at /\ walk'.below = w.below /\ walk'.used = w.used
  BY <1>2
<1>4. ASSUME v = "walking"
      PROVE  /\ \E q : (Walked(q))'
             /\ \A n \in Nat : \A p \in (Ways(n))' : (Follows(p, n))'
  <2>1. w.below = 0 /\ w.used = {} /\ w.at = 0
    BY <1>1, <1>4 DEF WalkInv
  <2>2. PICK q : q = [k \in 1..0 |-> 0]
    OBVIOUS
  <2>3. q \in (Ways(0))' /\ \A k \in 1..0 : FALSE
    <3>1. 1..0 = {}
      OBVIOUS
    <3>2. q \in [1..0 -> DOMAIN Intermediates'] /\ DOMAIN q = {}
      BY <2>2, <3>1
    <3> QED BY <3>1, <3>2 DEF Ways, IsInjective
  <2>4. (Walked(q))'
    BY <1>3, <2>1, <2>3 DEF Walked, Chained
  <2>5. \A n \in Nat : \A p \in (Ways(n))' : (Follows(p, n))'
    BY <1>3, <2>1 DEF Follows
  <2> QED BY <2>4, <2>5
<1>5. (leaf_checked' <=> leaf_checked) /\ (PathExists' <=> PathExists) /\ (Distinct' <=> Distinct)
      /\ Intermediates' = Intermediates
  BY <1>2, ChainStays
<1>6. /\ walk' = [verdict |-> walk'.verdict, at |-> walk'.at, below |-> walk'.below, used |-> walk'.used]
      /\ walk'.verdict \in {"walking", "accepted", "refused"} /\ walk'.below \in Nat
  BY <1>1, <1>2, <1>3 DEF WalkInv
<1>7. /\ chain' # <<>> => walk'.used \subseteq DOMAIN Intermediates' /\ Cardinality(walk'.used) = walk'.below
      /\ chain' = <<>> => walk'.below = 0
  BY <1>1, <1>2, <1>3, <1>5 DEF WalkInv
<1>8. (day.number # -1 =>
         /\ day.year \in Int /\ day.month \in 1..12 /\ day.date \in 1..31 /\ day.date <= DaysOf(day.year, day.month)
         /\ day.number = days_from_civil(day.year, day.month, day.date))'
  BY <1>2 DEF WalkInv
<1>9. chain' \in Shown
  BY <1>2 DEF WalkInv
<1> QED BY <1>3, <1>4, <1>5, <1>6, <1>7, <1>8, <1>9 DEF WalkInv

LEMMA Verify_step ==
  ASSUME WalkInv, verify_server_chain
  PROVE  WalkInv'
<1>1. CASE leaf_checked
  <2>1. PICK v : v = "walking" /\ Verdict(v)
    BY <1>1 DEF verify_server_chain
  <2> QED BY <1>1, <2>1, VerdictFacts DEF verify_server_chain
<1>2. CASE ~leaf_checked
  <2>1. PICK v : v = "refused" /\ Verdict(v)
    BY <1>2 DEF verify_server_chain
  <2>2. ~PathExists
    BY <1>2 DEF PathExists
  <2> QED BY <2>1, <2>2, VerdictFacts DEF verify_server_chain
<1> QED BY <1>1, <1>2

LEMMA Walk_step ==
  ASSUME WalkInv, walk_on
  PROVE  WalkInv'
<1>1. walk.verdict = "walking" /\ leaf_checked /\ chain \in Shown /\ chain # <<>> /\ walk.below \in Nat
  BY DEF walk_on, WalkInv, leaf_checked
<1>2. CASE anchored
  <2>1. PICK q : Walked(q)
    BY <1>1 DEF WalkInv
  <2>2. PICK b : b = walk.below /\ b \in Nat
    BY <1>1
  <2>3. /\ q \in Ways(b) /\ q \in [1..b -> DOMAIN Intermediates] /\ Chained(q, b)
        /\ walk.at = (IF b = 0 THEN 0 ELSE q[b])
    BY <2>1, <2>2 DEF Walked, Ways
  <2>4. b # 0 => q[b] # 0
    <3>1. \A k \in DOMAIN Intermediates : k # 0
      BY <1>1, ChainFacts DEF Intermediates
    <3> QED BY <2>2, <2>3, <3>1
  <2>5. OfAnchor(At(q, b))
    BY <1>2, <2>2, <2>3, <2>4, InForceFacts
  <2>6. PathOf(q)
    BY <2>2, <2>3, <2>5, PathFacts
  <2>7. b <= Len(Intermediates)
    <3>1. /\ walk.used \subseteq 1..Len(chain) - 1 /\ Cardinality(walk.used) = b
          /\ Len(Intermediates) = Len(chain) - 1 /\ Len(chain) \in Nat /\ Len(chain) >= 1
      BY <1>1, <2>2, ChainFacts DEF WalkInv, Intermediates
    <3>2. IsFiniteSet(1..Len(chain) - 1) /\ Cardinality(1..Len(chain) - 1) = Len(chain) - 1
      <4>1. PICK l : l = Len(chain)
        OBVIOUS
      <4> QED BY <3>1, <4>1, Counted
    <3>3. Cardinality(walk.used) <= Cardinality(1..Len(chain) - 1)
      BY <3>1, <3>2, FS_Subset
    <3> QED BY <3>1, <3>2, <3>3
  <2>8. PathExists
    BY <1>1, <2>2, <2>3, <2>6, <2>7, ExistsFacts
  <2>9. PICK v : v = "accepted" /\ Verdict(v)
    BY <1>2 DEF walk_on
  <2> QED BY <1>1, <2>8, <2>9, VerdictFacts
<1>3. ASSUME ~anchored, PathExists, Distinct
      PROVE  \E i \in DOMAIN Intermediates :
               /\ Issues(i) /\ \A j \in DOMAIN Intermediates : Issues(j) => j = i
               /\ may_issue(Intermediates[i], walk.below)
  <2>1. PICK n \in Nat : \E p \in Ways(n) : PathOf(p)
    BY <1>1, <1>3, ExistsFacts
  <2>2. PICK p \in Ways(n) : PathOf(p)
    BY <2>1
  <2>3. Follows(p, n)
    BY <1>1, <1>3, <2>2 DEF WalkInv
  <2> QED BY <1>1, <1>3, <2>2, <2>3, OnPath
<1>4. CASE ~anchored /\ \A i \in DOMAIN Intermediates : ~Issues(i)
  <2>1. PICK v : v = "refused" /\ Verdict(v)
    BY <1>4 DEF walk_on
  <2>2. PathExists => ~Distinct
    BY <1>3, <1>4
  <2> QED BY <2>1, <2>2, VerdictFacts
<1>5. CASE ~anchored /\ ~(\A i \in DOMAIN Intermediates : ~Issues(i))
  <2>1. PICK i \in DOMAIN Intermediates :
          /\ Issues(i)
          /\ IF ~may_issue(Intermediates[i], walk.below) THEN Verdict("refused")
             ELSE /\ walk' = [walk EXCEPT !.used = marked(i), !.below = @ + 1, !.at = i]
                  /\ UNCHANGED <<chain, day>>
    BY <1>5 DEF walk_on
  <2>2. CASE may_issue(Intermediates[i], walk.below)
    BY <1>1, <1>5, <2>1, <2>2, TakesStep
  <2>3. CASE ~may_issue(Intermediates[i], walk.below)
    <3>1. PICK v : v = "refused" /\ Verdict(v)
      BY <2>1, <2>3
    <3>2. PathExists => ~Distinct
      BY <1>3, <1>5, <2>1, <2>3
    <3> QED BY <3>1, <3>2, VerdictFacts
  <2> QED BY <2>2, <2>3
<1> QED BY <1>2, <1>4, <1>5

LEMMA Time_step ==
  ASSUME WalkInv, time
  PROVE  WalkInv'
<1>0. PICK y \in FirstDay..LastDay, m \in 1..12, d \in 1..31 :
        /\ d <= DaysOf(y, m)
        /\ day' = [year |-> y, month |-> m, date |-> d, number |-> days_from_civil(y, m, d)]
  BY DEF time
<1>1. y \in Int
  BY ChainAssumption
<1>2. UNCHANGED <<chain, walk>> /\ walk.verdict = "start"
  BY DEF time
<1>3. day'.year = y /\ day'.month = m /\ day'.date = d /\ day'.number = days_from_civil(y, m, d)
  BY <1>0
<1>4. (leaf_checked' <=> leaf_checked) /\ (PathExists' <=> PathExists) /\ (Distinct' <=> Distinct)
      /\ Intermediates' = Intermediates
  BY <1>2, ChainStays
<1> QED BY <1>0, <1>1, <1>2, <1>3, <1>4, SMTT(60) DEF WalkInv

LEMMA WalkStarts ==
  ASSUME XInit
  PROVE  WalkInv
<1>1. /\ walk = [verdict |-> "start", at |-> 0, below |-> 0, used |-> {}] /\ chain \in Shown /\ day.number = -1
      /\ walk.verdict = "start" /\ walk.at = 0 /\ walk.below = 0 /\ walk.used = {}
  BY DEF XInit
<1>2. Cardinality(walk.used) = 0
  BY <1>1, FS_EmptySet
<1> QED BY <1>1, <1>2 DEF WalkInv

LEMMA WalkStutters ==
  ASSUME WalkInv, UNCHANGED xvars
  PROVE  WalkInv'
<1>1. chain' = chain /\ walk' = walk /\ day' = day
  BY DEF xvars
<1>2. /\ Intermediates' = Intermediates /\ (leaf_checked' <=> leaf_checked) /\ (PathExists' <=> PathExists)
      /\ (Distinct' <=> Distinct)
      /\ \A n : (Ways(n))' = Ways(n) /\ \A p : ((PathOf(p))' <=> PathOf(p)) /\ ((Chained(p, n))' <=> Chained(p, n))
  BY <1>1, ChainStays
<1>3. \A q : (Walked(q))' <=> Walked(q)
  BY <1>1, <1>2 DEF Walked
<1>4. \A p, n : (Follows(p, n))' <=> Follows(p, n)
  BY <1>1 DEF Follows
<1> QED BY <1>1, <1>2, <1>3, <1>4 DEF WalkInv

LEMMA WalkInvJudges ==
  ASSUME WalkInv
  PROVE  ChainJudged
<1>1. ChainExact
  BY DEF WalkInv, ChainExact, Distinct
<1>2. WalkBounded
  <2>1. CASE chain = <<>>
    BY <2>1 DEF WalkInv, WalkBounded, leaf_checked
  <2>2. CASE chain # <<>>
    <3>1. PICK b \in Nat : b = walk.below
      BY DEF WalkInv
    <3>2. /\ walk.used \subseteq 1..Len(chain) - 1 /\ Cardinality(walk.used) = b
          /\ Len(chain) \in Nat /\ Len(chain) >= 1
      BY <2>2, <3>1, ChainFacts DEF WalkInv, Intermediates
    <3>3. IsFiniteSet(1..Len(chain) - 1) /\ Cardinality(1..Len(chain) - 1) = Len(chain) - 1
      <4>1. PICK l : l = Len(chain)
        OBVIOUS
      <4> QED BY <3>2, <4>1, Counted
    <3>4. Cardinality(walk.used) <= Cardinality(1..Len(chain) - 1)
      BY <3>2, <3>3, FS_Subset
    <3> QED BY <3>1, <3>2, <3>3, <3>4 DEF WalkBounded
  <2> QED BY <2>1, <2>2
<1>3. CalendarCounts
  <2>1. days_from_civil(1970, 1, 1) = 0
    BY DEF days_from_civil
  <2>2. ASSUME day.number # -1
        PROVE  DayAfter(day) = day.number + 1
    <3>1. PICK y \in Int, m \in 1..12, d \in 1..31 :
            y = day.year /\ m = day.month /\ d = day.date /\ d <= DaysOf(y, m) /\ day.number = days_from_civil(y, m, d)
      BY <2>2 DEF WalkInv
    <3>2. d = DaysOf(y, m) \/ d < DaysOf(y, m)
      BY <3>1 DEF DaysOf
    <3>3. m = 12 \/ m < 12
      OBVIOUS
    <3>4. /\ d < DaysOf(y, m) => days_from_civil(y, m, d + 1) = days_from_civil(y, m, d) + 1
          /\ d = DaysOf(y, m) /\ m < 12 => days_from_civil(y, m + 1, 1) = days_from_civil(y, m, d) + 1
          /\ d = DaysOf(y, m) /\ m = 12 => days_from_civil(y + 1, 1, 1) = days_from_civil(y, m, d) + 1
      BY <3>1, DayCounts
    <3>5. DayAfter(day) =
            IF d < DaysOf(y, m) THEN days_from_civil(y, m, d + 1)
            ELSE IF m < 12 THEN days_from_civil(y, m + 1, 1) ELSE days_from_civil(y + 1, 1, 1)
      BY <3>1 DEF DayAfter
    <3> QED BY <3>1, <3>2, <3>3, <3>4, <3>5
  <2> QED BY <2>1, <2>2 DEF CalendarCounts
<1> QED BY <1>1, <1>2, <1>3 DEF ChainJudged

\* Whatever chain a server shows and whatever anchors the client trusts, the walk
\* accepts only a path to an anchor, refuses one only when two certificates share a
\* name and a key, takes every certificate once; and days are counted right.
THEOREM ChainsJudged == XSpec => []ChainJudged
<1>1. XInit => WalkInv
  BY WalkStarts
<1>2. WalkInv /\ [XNext]_xvars => WalkInv'
  BY Verify_step, Walk_step, Time_step, WalkStutters DEF XNext
<1>3. WalkInv => ChainJudged
  BY WalkInvJudges
<1> QED BY <1>1, <1>2, <1>3, PTL DEF XSpec
=============================================================================
