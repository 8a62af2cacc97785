--------------------------- MODULE ServiceProofs ---------------------------
(***************************************************************************)
(* Proofs about one Skarbiec and its vault file: the document store, for   *)
(* any number of processes, items, moves and generations; the write lock   *)
(* of the listener, for any number of clients; its take-over of the units  *)
(* before it, for any list of them; and the capability broker, for any     *)
(* number of capabilities, uses and nonces.                                *)
(***************************************************************************)
EXTENDS VaultStore, Listener, Predecessors, Capability, TLAPS


-----------------------------------------------------------------------------
(* The store: the inductive invariant.                                     *)

\* A document that was never saved holds nothing.
Kept(d) == d.gen = 0 => d.items = {}

DocsKept ==
  /\ Kept(disk) /\ Kept(mirror)
  /\ \A d \in copies : Kept(d)
  /\ \A p \in Procs : Kept(arg[p])

\* Past its look at the fence, a writer's answer stays true, and so does what
\* fence arm and lift read: the fence changes only under the lock.
FenceStays ==
  \A p \in Procs :
    /\ pc[p] \in {"unfenced", "current"} /\ job[p] \in Replacing \cup {"save"}
         => fence \in {NoTxn, Pass[p]}
    /\ pc[p] = "current" /\ job[p] = "arm" => fence = NoTxn
    /\ pc[p] = "current" /\ job[p] = "lift" => fence = txn[p]

\* A copy whose file was not replaced is no newer than the file, and as new as
\* the file only when it was read from it.
CopiesFollow ==
  \A p \in Procs : ~crossed[p] =>
    /\ mem[p].gen <= disk.gen
    /\ mem[p].gen = disk.gen => seen[p] = disk.items

\* Past the generation check the file is the one the copy was opened at, or
\* gone; past the rename it is what was written, or replaced or gone.
SaveInFlight ==
  \A p \in Procs : job[p] = "save" =>
    /\ pc[p] = "current" => disk.gen \in {0, mem[p].gen}
    /\ pc[p] = "renamed" => mem[p].gen < MaxGen
    /\ pc[p] = "renamed" /\ ~crossed[p] => disk = NextDoc(p)

IInv ==
  /\ TypeOK
  /\ WriteLockExcludes
  /\ DocsKept
  /\ FenceStays
  /\ CopiesFollow
  /\ SaveInFlight

-----------------------------------------------------------------------------
(* Documents and the helpers of the actions.                               *)

\* What a document is made of, and the ways one is built.
LEMMA DocFacts ==
  /\ NoDoc \in Docs /\ Kept(NoDoc) /\ NoDoc.gen = 0 /\ NoDoc.items = {}
  /\ \A d \in Docs : d.gen \in 0..MaxGen /\ d.items \in SUBSET Items
  /\ \A g \in 0..MaxGen, i \in SUBSET Items : [gen |-> g, items |-> i] \in Docs
  /\ \A d \in Remotes : d \in Docs /\ d.gen > 0 /\ Kept(d)
BY StoreAssumption DEF Docs, NoDoc, Kept

\* What a save writes is a document, one generation on.
LEMMA NextDocFacts ==
  ASSUME TypeOK, NEW p \in Procs
  PROVE  /\ mem[p] \in Docs /\ mem[p].gen \in Nat /\ mem[p].items \in SUBSET Items
         /\ NextDoc(p).gen = mem[p].gen + 1 /\ NextDoc(p).items = mem[p].items
         /\ mem[p].gen < MaxGen => NextDoc(p) \in Docs
<1>1. mem[p] \in Docs
  BY DEF TypeOK
<1>2. mem[p].gen \in 0..MaxGen /\ mem[p].items \in SUBSET Items
  BY <1>1, DocFacts
<1>3. mem[p].gen < MaxGen => mem[p].gen + 1 \in 0..MaxGen
  BY <1>2, StoreAssumption
<1> QED BY <1>1, <1>2, <1>3, DocFacts DEF NextDoc

\* A change to the items of a copy keeps its generation and every other copy.
LEMMA EditFacts ==
  ASSUME TypeOK, NEW p \in Procs, NEW i \in SUBSET Items
  PROVE  /\ [mem EXCEPT ![p].items = i] \in [Procs -> Docs]
         /\ \A q \in Procs : [mem EXCEPT ![p].items = i][q].gen = mem[q].gen
         /\ \A q \in Procs \ {p} : [mem EXCEPT ![p].items = i][q] = mem[q]
BY DEF TypeOK, Docs

\* A refused save keeps the generation of the copy and every other copy.
LEMMA RefusedFacts ==
  ASSUME TypeOK, NEW p \in Procs, Refused(p)
  PROVE  /\ mem' \in [Procs -> Docs]
         /\ \A q \in Procs : mem'[q].gen = mem[q].gen
         /\ \A q \in Procs \ {p} : mem'[q] = mem[q]
<1>1. mem[p].items \in SUBSET Items /\ seen[p] \in SUBSET Items
  BY DocFacts DEF TypeOK
<1> QED BY <1>1, EditFacts DEF Refused

\* Ending a command touches that command only.
LEMMA StopFacts ==
  ASSUME TypeOK, NEW p \in Procs, Stop(p)
  PROVE  /\ job' \in [Procs -> Jobs] /\ arg' \in [Procs -> Docs]
         /\ txn' \in [Procs -> Txns \cup {NoTxn}]
         /\ job'[p] = "none" /\ arg'[p] = NoDoc
         /\ \A q \in Procs \ {p} : job'[q] = job[q] /\ arg'[q] = arg[q] /\ txn'[q] = txn[q]
BY DocFacts DEF Stop, TypeOK, Jobs

\* Taking up a document touches that process's copy only.
LEMMA HoldFacts ==
  ASSUME TypeOK, NEW p \in Procs, NEW d \in Docs, Hold(p, d)
  PROVE  /\ mem' \in [Procs -> Docs] /\ seen' \in [Procs -> SUBSET Items]
         /\ crossed' \in [Procs -> BOOLEAN]
         /\ mem'[p] = d /\ seen'[p] = d.items /\ ~crossed'[p]
         /\ \A q \in Procs \ {p} :
              mem'[q] = mem[q] /\ seen'[q] = seen[q] /\ crossed'[q] = crossed[q]
BY DocFacts DEF Hold, TypeOK

\* A process that drops its copy, or starts one from nothing, follows the file.
LEMMA DropKeepsCopies ==
  ASSUME IInv, NEW p \in Procs, Hold(p, NoDoc), UNCHANGED disk
  PROVE  CopiesFollow'
<1>1. disk.gen \in Nat /\ (disk.gen = 0 => disk.items = {})
  BY DocFacts DEF IInv, TypeOK, DocsKept, Kept
<1>2. mem'[p].gen = 0 /\ seen'[p] = {}
  BY HoldFacts, DocFacts DEF IInv
<1>3. \A q \in Procs \ {p} :
        mem'[q] = mem[q] /\ seen'[q] = seen[q] /\ crossed'[q] = crossed[q]
  BY HoldFacts, DocFacts DEF IInv
<1>4. ASSUME NEW q \in Procs, ~crossed'[q]
      PROVE  mem'[q].gen <= disk.gen /\ (mem'[q].gen = disk.gen => seen'[q] = disk.items)
  <2>1. CASE q = p
    BY <1>1, <1>2, <2>1
  <2>2. CASE q # p
    BY <1>3, <1>4, <2>2 DEF IInv, CopiesFollow
  <2> QED BY <2>1, <2>2
<1> QED BY <1>4 DEF CopiesFollow

-----------------------------------------------------------------------------
(* One lemma per part of the invariant.                                    *)

\* Every step keeps the types.
LEMMA TypeNext ==
  ASSUME TypeOK, SaveInFlight, [Next]_vars
  PROVE  TypeOK'
<1>1. ASSUME NEW p \in Procs, Step(p) PROVE TypeOK'
  <2>1. CASE Open(p)
    BY <2>1, HoldFacts DEF Open, TypeOK, Points, Critical, Jobs
  <2>2. CASE Create(p)
    BY <2>2, HoldFacts, DocFacts DEF Create, TypeOK, Points, Critical, Jobs
  <2>3. CASE Close(p)
    BY <2>3, HoldFacts, DocFacts DEF Close, TypeOK, Points, Critical, Jobs
  <2>4. ASSUME NEW items \in SUBSET Items, Edit(p, items) PROVE TypeOK'
    BY <2>4, EditFacts DEF Edit, TypeOK, Points, Critical, Jobs
  <2>5. CASE BeginSave(p)
    BY <2>5 DEF BeginSave, Goto, Start, TypeOK, Points, Critical, Jobs
  <2>6. CASE BeginReplace(p)
    BY <2>6 DEF BeginReplace, Goto, TypeOK, Points, Critical, Jobs
  <2>7. CASE LockRefused(p)
    BY <2>7, StopFacts, RefusedFacts DEF LockRefused, Goto, TypeOK, Points, Critical, Jobs
  <2>8. CASE CheckFence(p)
    BY <2>8 DEF CheckFence, Goto, FencePassed, TypeOK, Points, Critical, Jobs
  <2>9. CASE CheckGeneration(p)
    BY <2>9 DEF CheckGeneration, Goto, GenerationCurrent, TypeOK, Points, Critical, Jobs
  <2>10. CASE WriteFails(p)
    BY <2>10 DEF WriteFails, Goto, TypeOK, Points, Critical, Jobs
  <2>11. CASE RenameSaved(p)
    BY <2>11, NextDocFacts DEF RenameSaved, Goto, TypeOK, Points, Critical, Jobs
  <2>12. CASE RenameReplaced(p)
    BY <2>12 DEF RenameReplaced, Goto, TypeOK, Points, Critical, Jobs
  <2>13. CASE SyncDirectory(p)
    <3>1. CASE job[p] = "save" /\ pc'[p] = "succeeded"
      <4>1. mem[p].gen < MaxGen
        BY <2>13, <3>1 DEF SyncDirectory, Goto, SaveInFlight
      <4> QED BY <2>13, <3>1, <4>1, NextDocFacts DEF SyncDirectory, Goto, TypeOK, Points, Critical
    <3>2. CASE ~(job[p] = "save" /\ pc'[p] = "succeeded")
      BY <2>13, <3>2 DEF SyncDirectory, Goto, TypeOK, Points, Critical
    <3> QED BY <3>1, <3>2
  <2>14. CASE Unlock(p)
    BY <2>14, StopFacts, RefusedFacts DEF Unlock, AfterSave, TypeOK, Points, Critical, Jobs
  <2>15. ASSUME NEW t \in Txns, BeginArm(p, t) PROVE TypeOK'
    BY <2>15 DEF BeginArm, Goto, Start, TypeOK, Points, Critical, Jobs
  <2>16. ASSUME NEW t \in Txns, BeginLift(p, t) PROVE TypeOK'
    BY <2>16 DEF BeginLift, Goto, Start, TypeOK, Points, Critical, Jobs
  <2>17. CASE ArmRead(p)
    BY <2>17 DEF ArmRead, Goto, TypeOK, Points, Critical, Jobs
  <2>18. CASE ArmWrite(p)
    BY <2>18 DEF ArmWrite, Goto, TypeOK, Points, Critical, Jobs
  <2>19. CASE LiftRead(p)
    BY <2>19 DEF LiftRead, Goto, TypeOK, Points, Critical, Jobs
  <2>20. CASE LiftRemove(p)
    BY <2>20 DEF LiftRemove, Goto, TypeOK, Points, Critical, Jobs
  <2>21. ASSUME NEW d \in copies, Restore(p, d) PROVE TypeOK'
    BY <2>21 DEF Restore, Goto, Start, TypeOK, Points, Critical, Jobs
  <2>22. CASE KeepAside(p)
    BY <2>22 DEF KeepAside, Goto, TypeOK, Points, Critical, Jobs
  <2>23. CASE CompareMirror(p)
    BY <2>23, StopFacts DEF CompareMirror, Goto, TypeOK, Points, Critical, Jobs
  <2>24. CASE ReadMirror(p)
    BY <2>24 DEF ReadMirror, Goto, TypeOK, Points, Critical, Jobs
  <2>25. ASSUME NEW d \in Remotes \cup {mirror}, NEW forced \in BOOLEAN, MirrorPull(p, d, forced) PROVE TypeOK'
    BY <2>25, DocFacts DEF MirrorPull, Goto, Start, TypeOK, Points, Critical, Jobs
  <2>26. ASSUME NEW d \in Remotes, NEW forced \in BOOLEAN, Pull(p, d, forced) PROVE TypeOK'
    BY <2>26, DocFacts DEF Pull, Goto, Start, TypeOK, Points, Critical, Jobs
  <2> QED BY <1>1, <2>1, <2>2, <2>3, <2>4, <2>5, <2>6, <2>7, <2>8, <2>9, <2>10, <2>11, <2>12, <2>13, <2>14, <2>15, <2>16, <2>17, <2>18, <2>19, <2>20, <2>21, <2>22, <2>23, <2>24, <2>25, <2>26 DEF Step
<1>2. ASSUME NEW p \in Procs, Crash(p) PROVE TypeOK'
  BY <1>2, StopFacts, HoldFacts, DocFacts DEF Crash, TypeOK, Points, Critical, Jobs
<1>3. CASE ClearStaleLock
  BY <1>3 DEF ClearStaleLock, TypeOK, Points, Critical, Jobs
<1>4. CASE Vanish
  BY <1>4, DocFacts DEF Vanish, TypeOK, Points, Critical, Jobs
<1>5. CASE Backup
  BY <1>5 DEF Backup, TypeOK, Points, Critical, Jobs
<1>6. CASE MirrorPush
  BY <1>6 DEF MirrorPush, TypeOK, Points, Critical, Jobs
<1>7. CASE UNCHANGED vars
  BY <1>7 DEF vars, TypeOK, Points, Critical, Jobs
<1> QED BY <1>1, <1>2, <1>3, <1>4, <1>5, <1>6, <1>7 DEF Next, Environment

\* A step into or within the lock is one of the process that owns it.
LEMMA LockNext ==
  ASSUME TypeOK, WriteLockExcludes, [Next]_vars
  PROVE  WriteLockExcludes'
<1>1. ASSUME NEW p \in Procs, Step(p) PROVE WriteLockExcludes'
  <2>1. CASE Open(p)
    BY <2>1 DEF Open, WriteLockExcludes, TypeOK, LockFree, Critical, Points
  <2>2. CASE Create(p)
    BY <2>2 DEF Create, WriteLockExcludes, TypeOK, LockFree, Critical, Points
  <2>3. CASE Close(p)
    BY <2>3 DEF Close, WriteLockExcludes, TypeOK, LockFree, Critical, Points
  <2>4. ASSUME NEW items \in SUBSET Items, Edit(p, items) PROVE WriteLockExcludes'
    BY <2>4 DEF Edit, WriteLockExcludes, TypeOK, LockFree, Critical, Points
  <2>5. CASE BeginSave(p)
    BY <2>5, StoreAssumption DEF BeginSave, Goto, WriteLockExcludes, TypeOK, LockFree, Critical, Points
  <2>6. CASE BeginReplace(p)
    BY <2>6, StoreAssumption DEF BeginReplace, Goto, WriteLockExcludes, TypeOK, LockFree, Critical, Points
  <2>7. CASE LockRefused(p)
    BY <2>7 DEF LockRefused, Goto, WriteLockExcludes, TypeOK, LockFree, Critical, Points
  <2>8. CASE CheckFence(p)
    BY <2>8 DEF CheckFence, Goto, FencePassed, WriteLockExcludes, TypeOK, LockFree, Critical, Points
  <2>9. CASE CheckGeneration(p)
    BY <2>9 DEF CheckGeneration, Goto, GenerationCurrent, WriteLockExcludes, TypeOK, LockFree, Critical, Points
  <2>10. CASE WriteFails(p)
    BY <2>10 DEF WriteFails, Goto, WriteLockExcludes, TypeOK, LockFree, Critical, Points
  <2>11. CASE RenameSaved(p)
    BY <2>11 DEF RenameSaved, Goto, WriteLockExcludes, TypeOK, LockFree, Critical, Points
  <2>12. CASE RenameReplaced(p)
    BY <2>12 DEF RenameReplaced, Goto, WriteLockExcludes, TypeOK, LockFree, Critical, Points
  <2>13. CASE SyncDirectory(p)
    BY <2>13 DEF SyncDirectory, Goto, WriteLockExcludes, TypeOK, LockFree, Critical, Points
  <2>14. CASE Unlock(p)
    BY <2>14 DEF Unlock, AfterSave, WriteLockExcludes, TypeOK, LockFree, Critical, Points
  <2>15. ASSUME NEW t \in Txns, BeginArm(p, t) PROVE WriteLockExcludes'
    BY <2>15, StoreAssumption DEF BeginArm, Goto, WriteLockExcludes, TypeOK, LockFree, Critical, Points
  <2>16. ASSUME NEW t \in Txns, BeginLift(p, t) PROVE WriteLockExcludes'
    BY <2>16, StoreAssumption DEF BeginLift, Goto, WriteLockExcludes, TypeOK, LockFree, Critical, Points
  <2>17. CASE ArmRead(p)
    BY <2>17 DEF ArmRead, Goto, WriteLockExcludes, TypeOK, LockFree, Critical, Points
  <2>18. CASE ArmWrite(p)
    BY <2>18 DEF ArmWrite, Goto, WriteLockExcludes, TypeOK, LockFree, Critical, Points
  <2>19. CASE LiftRead(p)
    BY <2>19 DEF LiftRead, Goto, WriteLockExcludes, TypeOK, LockFree, Critical, Points
  <2>20. CASE LiftRemove(p)
    BY <2>20 DEF LiftRemove, Goto, WriteLockExcludes, TypeOK, LockFree, Critical, Points
  <2>21. ASSUME NEW d \in copies, Restore(p, d) PROVE WriteLockExcludes'
    BY <2>21 DEF Restore, Goto, WriteLockExcludes, TypeOK, LockFree, Critical, Points
  <2>22. CASE KeepAside(p)
    BY <2>22 DEF KeepAside, Goto, WriteLockExcludes, TypeOK, LockFree, Critical, Points
  <2>23. CASE CompareMirror(p)
    BY <2>23 DEF CompareMirror, Goto, WriteLockExcludes, TypeOK, LockFree, Critical, Points
  <2>24. CASE ReadMirror(p)
    BY <2>24 DEF ReadMirror, Goto, WriteLockExcludes, TypeOK, LockFree, Critical, Points
  <2>25. ASSUME NEW d \in Remotes \cup {mirror}, NEW forced \in BOOLEAN, MirrorPull(p, d, forced) PROVE WriteLockExcludes'
    BY <2>25 DEF MirrorPull, Goto, WriteLockExcludes, TypeOK, LockFree, Critical, Points
  <2>26. ASSUME NEW d \in Remotes, NEW forced \in BOOLEAN, Pull(p, d, forced) PROVE WriteLockExcludes'
    BY <2>26 DEF Pull, Goto, WriteLockExcludes, TypeOK, LockFree, Critical, Points
  <2> QED BY <1>1, <2>1, <2>2, <2>3, <2>4, <2>5, <2>6, <2>7, <2>8, <2>9, <2>10, <2>11, <2>12, <2>13, <2>14, <2>15, <2>16, <2>17, <2>18, <2>19, <2>20, <2>21, <2>22, <2>23, <2>24, <2>25, <2>26 DEF Step
<1>2. ASSUME NEW p \in Procs, Crash(p) PROVE WriteLockExcludes'
  BY <1>2 DEF Crash, WriteLockExcludes, TypeOK, LockFree, Critical, Points
<1>3. CASE ClearStaleLock
  BY <1>3 DEF ClearStaleLock, WriteLockExcludes, TypeOK, LockFree, Critical, Points
<1>4. CASE Vanish
  BY <1>4 DEF Vanish, WriteLockExcludes, TypeOK, LockFree, Critical, Points
<1>5. CASE Backup
  BY <1>5 DEF Backup, WriteLockExcludes, TypeOK, LockFree, Critical, Points
<1>6. CASE MirrorPush
  BY <1>6 DEF MirrorPush, WriteLockExcludes, TypeOK, LockFree, Critical, Points
<1>7. CASE UNCHANGED vars
  BY <1>7 DEF vars, WriteLockExcludes, TypeOK, LockFree, Critical, Points
<1> QED BY <1>1, <1>2, <1>3, <1>4, <1>5, <1>6, <1>7 DEF Next, Environment

\* A document that was never saved holds nothing, wherever it is kept.
LEMMA DocsNext ==
  ASSUME TypeOK, TypeOK', DocsKept, [Next]_vars
  PROVE  DocsKept'
<1>1. ASSUME NEW p \in Procs, Step(p) PROVE DocsKept'
  <2>1. CASE Open(p)
    BY <2>1 DEF Open, DocsKept, TypeOK
  <2>2. CASE Create(p)
    BY <2>2 DEF Create, DocsKept, TypeOK
  <2>3. CASE Close(p)
    BY <2>3 DEF Close, DocsKept, TypeOK
  <2>4. ASSUME NEW items \in SUBSET Items, Edit(p, items) PROVE DocsKept'
    BY <2>4 DEF Edit, DocsKept, TypeOK
  <2>5. CASE BeginSave(p)
    BY <2>5 DEF BeginSave, Goto, DocsKept, TypeOK
  <2>6. CASE BeginReplace(p)
    BY <2>6 DEF BeginReplace, Goto, DocsKept, TypeOK
  <2>7. CASE LockRefused(p)
    BY <2>7, StopFacts, DocFacts DEF LockRefused, Goto, DocsKept, TypeOK
  <2>8. CASE CheckFence(p)
    BY <2>8 DEF CheckFence, Goto, FencePassed, DocsKept, TypeOK
  <2>9. CASE CheckGeneration(p)
    BY <2>9 DEF CheckGeneration, Goto, GenerationCurrent, DocsKept, TypeOK
  <2>10. CASE WriteFails(p)
    BY <2>10 DEF WriteFails, Goto, DocsKept, TypeOK
  <2>11. CASE RenameSaved(p)
    <3>1. Kept(NextDoc(p))
      BY NextDocFacts DEF Kept
    <3> QED BY <2>11, <3>1 DEF RenameSaved, DocsKept, TypeOK
  <2>12. CASE RenameReplaced(p)
    BY <2>12 DEF RenameReplaced, Goto, DocsKept, TypeOK
  <2>13. CASE SyncDirectory(p)
    BY <2>13 DEF SyncDirectory, Goto, DocsKept, TypeOK
  <2>14. CASE Unlock(p)
    BY <2>14, StopFacts, DocFacts DEF Unlock, DocsKept, TypeOK
  <2>15. ASSUME NEW t \in Txns, BeginArm(p, t) PROVE DocsKept'
    BY <2>15 DEF BeginArm, Goto, DocsKept, TypeOK
  <2>16. ASSUME NEW t \in Txns, BeginLift(p, t) PROVE DocsKept'
    BY <2>16 DEF BeginLift, Goto, DocsKept, TypeOK
  <2>17. CASE ArmRead(p)
    BY <2>17 DEF ArmRead, Goto, DocsKept, TypeOK
  <2>18. CASE ArmWrite(p)
    BY <2>18 DEF ArmWrite, Goto, DocsKept, TypeOK
  <2>19. CASE LiftRead(p)
    BY <2>19 DEF LiftRead, Goto, DocsKept, TypeOK
  <2>20. CASE LiftRemove(p)
    BY <2>20 DEF LiftRemove, Goto, DocsKept, TypeOK
  <2>21. ASSUME NEW d \in copies, Restore(p, d) PROVE DocsKept'
    BY <2>21 DEF Restore, Goto, DocsKept, TypeOK
  <2>22. CASE KeepAside(p)
    BY <2>22 DEF KeepAside, Goto, DocsKept, TypeOK
  <2>23. CASE CompareMirror(p)
    BY <2>23, StopFacts, DocFacts DEF CompareMirror, Goto, DocsKept, TypeOK
  <2>24. CASE ReadMirror(p)
    BY <2>24 DEF ReadMirror, Goto, DocsKept, TypeOK
  <2>25. ASSUME NEW d \in Remotes \cup {mirror}, NEW forced \in BOOLEAN, MirrorPull(p, d, forced) PROVE DocsKept'
    BY <2>25, DocFacts DEF MirrorPull, Goto, DocsKept, TypeOK
  <2>26. ASSUME NEW d \in Remotes, NEW forced \in BOOLEAN, Pull(p, d, forced) PROVE DocsKept'
    BY <2>26, DocFacts DEF Pull, Goto, DocsKept, TypeOK
  <2> QED BY <1>1, <2>1, <2>2, <2>3, <2>4, <2>5, <2>6, <2>7, <2>8, <2>9, <2>10, <2>11, <2>12, <2>13, <2>14, <2>15, <2>16, <2>17, <2>18, <2>19, <2>20, <2>21, <2>22, <2>23, <2>24, <2>25, <2>26 DEF Step
<1>2. ASSUME NEW p \in Procs, Crash(p) PROVE DocsKept'
  BY <1>2, StopFacts, DocFacts DEF Crash, DocsKept, TypeOK
<1>3. CASE ClearStaleLock
  BY <1>3 DEF ClearStaleLock, DocsKept, TypeOK
<1>4. CASE Vanish
  BY <1>4, DocFacts DEF Vanish, DocsKept, TypeOK
<1>5. CASE Backup
  BY <1>5 DEF Backup, DocsKept, TypeOK
<1>6. CASE MirrorPush
  BY <1>6 DEF MirrorPush, DocsKept, TypeOK
<1>7. CASE UNCHANGED vars
  BY <1>7 DEF vars, DocsKept, TypeOK
<1> QED BY <1>1, <1>2, <1>3, <1>4, <1>5, <1>6, <1>7 DEF Next, Environment

\* The fence a process read under the lock is the fence that stands.
LEMMA FenceNext ==
  ASSUME TypeOK, WriteLockExcludes, FenceStays, [Next]_vars
  PROVE  FenceStays'
<1>1. ASSUME NEW p \in Procs, Step(p) PROVE FenceStays'
  <2>1. CASE Open(p)
    BY <2>1 DEF Open, FenceStays, WriteLockExcludes, TypeOK, Critical, Replacing
  <2>2. CASE Create(p)
    BY <2>2 DEF Create, FenceStays, WriteLockExcludes, TypeOK, Critical, Replacing
  <2>3. CASE Close(p)
    BY <2>3 DEF Close, FenceStays, WriteLockExcludes, TypeOK, Critical, Replacing
  <2>4. ASSUME NEW items \in SUBSET Items, Edit(p, items) PROVE FenceStays'
    BY <2>4 DEF Edit, FenceStays, WriteLockExcludes, TypeOK, Critical, Replacing
  <2>5. CASE BeginSave(p)
    BY <2>5 DEF BeginSave, Goto, Start, FenceStays, WriteLockExcludes, TypeOK, Critical, Replacing
  <2>6. CASE BeginReplace(p)
    BY <2>6 DEF BeginReplace, Goto, FenceStays, WriteLockExcludes, TypeOK, Critical, Replacing
  <2>7. CASE LockRefused(p)
    BY <2>7, StopFacts DEF LockRefused, Goto, FenceStays, WriteLockExcludes, TypeOK, Critical, Replacing
  <2>8. CASE CheckFence(p)
    BY <2>8 DEF CheckFence, Goto, FencePassed, FenceStays, WriteLockExcludes, TypeOK, Critical, Replacing
  <2>9. CASE CheckGeneration(p)
    BY <2>9 DEF CheckGeneration, Goto, GenerationCurrent, FenceStays, WriteLockExcludes, TypeOK, Critical, Replacing
  <2>10. CASE WriteFails(p)
    BY <2>10 DEF WriteFails, Goto, FenceStays, WriteLockExcludes, TypeOK, Critical, Replacing
  <2>11. CASE RenameSaved(p)
    BY <2>11 DEF RenameSaved, Goto, FenceStays, WriteLockExcludes, TypeOK, Critical, Replacing
  <2>12. CASE RenameReplaced(p)
    BY <2>12 DEF RenameReplaced, Goto, FenceStays, WriteLockExcludes, TypeOK, Critical, Replacing
  <2>13. CASE SyncDirectory(p)
    BY <2>13 DEF SyncDirectory, Goto, FenceStays, WriteLockExcludes, TypeOK, Critical, Replacing
  <2>14. CASE Unlock(p)
    BY <2>14, StopFacts DEF Unlock, AfterSave, FenceStays, WriteLockExcludes, TypeOK, Critical, Replacing
  <2>15. ASSUME NEW t \in Txns, BeginArm(p, t) PROVE FenceStays'
    BY <2>15 DEF BeginArm, Goto, Start, FenceStays, WriteLockExcludes, TypeOK, Critical, Replacing
  <2>16. ASSUME NEW t \in Txns, BeginLift(p, t) PROVE FenceStays'
    BY <2>16 DEF BeginLift, Goto, Start, FenceStays, WriteLockExcludes, TypeOK, Critical, Replacing
  <2>17. CASE ArmRead(p)
    BY <2>17 DEF ArmRead, Goto, FenceStays, WriteLockExcludes, TypeOK, Critical, Replacing
  <2>18. CASE ArmWrite(p)
    <3>1. \A q \in Procs \ {p} : pc[q] \notin Critical /\ pc'[q] = pc[q]
      BY <2>18 DEF ArmWrite, Goto, WriteLockExcludes, Critical, TypeOK
    <3>2. pc'[p] = "succeeded"
      BY <2>18 DEF ArmWrite, Goto, TypeOK
    <3> QED BY <3>1, <3>2 DEF FenceStays, Critical
  <2>19. CASE LiftRead(p)
    BY <2>19 DEF LiftRead, Goto, FenceStays, WriteLockExcludes, TypeOK, Critical, Replacing
  <2>20. CASE LiftRemove(p)
    <3>1. \A q \in Procs \ {p} : pc[q] \notin Critical /\ pc'[q] = pc[q]
      BY <2>20 DEF LiftRemove, Goto, WriteLockExcludes, Critical, TypeOK
    <3>2. pc'[p] = "succeeded"
      BY <2>20 DEF LiftRemove, Goto, TypeOK
    <3> QED BY <3>1, <3>2 DEF FenceStays, Critical
  <2>21. ASSUME NEW d \in copies, Restore(p, d) PROVE FenceStays'
    BY <2>21 DEF Restore, Goto, Start, FenceStays, WriteLockExcludes, TypeOK, Critical, Replacing
  <2>22. CASE KeepAside(p)
    BY <2>22 DEF KeepAside, Goto, FenceStays, WriteLockExcludes, TypeOK, Critical, Replacing
  <2>23. CASE CompareMirror(p)
    BY <2>23, StopFacts DEF CompareMirror, Goto, FenceStays, WriteLockExcludes, TypeOK, Critical, Replacing
  <2>24. CASE ReadMirror(p)
    BY <2>24 DEF ReadMirror, Goto, FenceStays, WriteLockExcludes, TypeOK, Critical, Replacing
  <2>25. ASSUME NEW d \in Remotes \cup {mirror}, NEW forced \in BOOLEAN, MirrorPull(p, d, forced) PROVE FenceStays'
    BY <2>25 DEF MirrorPull, Goto, Start, FenceStays, WriteLockExcludes, TypeOK, Critical, Replacing
  <2>26. ASSUME NEW d \in Remotes, NEW forced \in BOOLEAN, Pull(p, d, forced) PROVE FenceStays'
    BY <2>26 DEF Pull, Goto, Start, FenceStays, WriteLockExcludes, TypeOK, Critical, Replacing
  <2> QED BY <1>1, <2>1, <2>2, <2>3, <2>4, <2>5, <2>6, <2>7, <2>8, <2>9, <2>10, <2>11, <2>12, <2>13, <2>14, <2>15, <2>16, <2>17, <2>18, <2>19, <2>20, <2>21, <2>22, <2>23, <2>24, <2>25, <2>26 DEF Step
<1>2. ASSUME NEW p \in Procs, Crash(p) PROVE FenceStays'
  BY <1>2, StopFacts DEF Crash, FenceStays, WriteLockExcludes, TypeOK, Critical, Replacing
<1>3. CASE ClearStaleLock
  BY <1>3 DEF ClearStaleLock, FenceStays, WriteLockExcludes, TypeOK, Critical, Replacing
<1>4. CASE Vanish
  BY <1>4 DEF Vanish, FenceStays, WriteLockExcludes, TypeOK, Critical, Replacing
<1>5. CASE Backup
  BY <1>5 DEF Backup, FenceStays, WriteLockExcludes, TypeOK, Critical, Replacing
<1>6. CASE MirrorPush
  BY <1>6 DEF MirrorPush, FenceStays, WriteLockExcludes, TypeOK, Critical, Replacing
<1>7. CASE UNCHANGED vars
  BY <1>7 DEF vars, FenceStays, WriteLockExcludes, TypeOK, Critical, Replacing
<1> QED BY <1>1, <1>2, <1>3, <1>4, <1>5, <1>6, <1>7 DEF Next, Environment

\* Saves only move the file forward; what moves it back crosses every copy.
LEMMA CopiesNext ==
  ASSUME IInv, TypeOK', [Next]_vars
  PROVE  CopiesFollow'
<1>1. ASSUME NEW p \in Procs, Step(p) PROVE CopiesFollow'
  <2>1. CASE Open(p)
    BY <2>1, HoldFacts, DocFacts DEF Open, CopiesFollow, IInv, TypeOK
  <2>2. CASE Create(p)
    <3>1. Hold(p, NoDoc) /\ UNCHANGED disk
      BY <2>2 DEF Create
    <3> QED BY <3>1, DropKeepsCopies
  <2>3. CASE Close(p)
    <3>1. Hold(p, NoDoc) /\ UNCHANGED disk
      BY <2>3 DEF Close
    <3> QED BY <3>1, DropKeepsCopies
  <2>4. ASSUME NEW items \in SUBSET Items, Edit(p, items) PROVE CopiesFollow'
    BY <2>4, EditFacts DEF Edit, CopiesFollow, IInv, TypeOK
  <2>5. CASE BeginSave(p)
    BY <2>5 DEF BeginSave, Goto, CopiesFollow, IInv, TypeOK
  <2>6. CASE BeginReplace(p)
    BY <2>6 DEF BeginReplace, Goto, CopiesFollow, IInv, TypeOK
  <2>7. CASE LockRefused(p)
    BY <2>7, RefusedFacts DEF LockRefused, Goto, CopiesFollow, IInv, TypeOK
  <2>8. CASE CheckFence(p)
    BY <2>8 DEF CheckFence, Goto, FencePassed, CopiesFollow, IInv, TypeOK
  <2>9. CASE CheckGeneration(p)
    BY <2>9 DEF CheckGeneration, Goto, GenerationCurrent, CopiesFollow, IInv, TypeOK
  <2>10. CASE WriteFails(p)
    BY <2>10 DEF WriteFails, Goto, CopiesFollow, IInv, TypeOK
  <2>11. CASE RenameSaved(p)
    <3>1. disk.gen \in {0, mem[p].gen} /\ disk' = NextDoc(p) /\ UNCHANGED <<mem, seen>>
      BY <2>11 DEF RenameSaved, Goto, IInv, SaveInFlight
    <3>2. disk.gen < disk'.gen /\ mem[p].gen < disk'.gen
      BY <3>1, NextDocFacts DEF IInv
    <3>3. \A q \in Procs \ {p} : crossed'[q] = crossed[q]
      BY <2>11 DEF RenameSaved, IInv, TypeOK
    <3>4. \A q \in Procs : mem[q].gen \in Nat
      BY NextDocFacts DEF IInv
    <3>5. disk.gen \in Nat /\ disk'.gen \in Nat
      BY <3>1, NextDocFacts DEF IInv
    <3>6. \A q \in Procs : ~crossed'[q] => mem[q].gen < disk'.gen
      BY <3>2, <3>3, <3>4, <3>5 DEF CopiesFollow, IInv
    <3> QED BY <3>1, <3>4, <3>5, <3>6 DEF CopiesFollow
  <2>12. CASE RenameReplaced(p)
    BY <2>12 DEF RenameReplaced, Goto, CopiesFollow, IInv, TypeOK
  <2>13. CASE SyncDirectory(p)
    <3>1. CASE job[p] = "save" /\ pc'[p] = "succeeded"
      <4>1. /\ mem' = [mem EXCEPT ![p] = NextDoc(p)] /\ seen' = [seen EXCEPT ![p] = mem[p].items]
            /\ UNCHANGED <<disk, crossed>>
        BY <2>13, <3>1 DEF SyncDirectory, Goto, IInv, TypeOK
      <4>2. ~crossed[p] => disk = NextDoc(p)
        BY <2>13, <3>1 DEF SyncDirectory, Goto, IInv, SaveInFlight
      <4>3. disk.gen \in Nat
        BY DocFacts DEF IInv, TypeOK
      <4> QED BY <4>1, <4>2, <4>3, NextDocFacts DEF IInv, TypeOK, CopiesFollow
    <3>2. CASE ~(job[p] = "save" /\ pc'[p] = "succeeded")
      BY <2>13, <3>2 DEF SyncDirectory, Goto, CopiesFollow, IInv, TypeOK
    <3> QED BY <3>1, <3>2
  <2>14. CASE Unlock(p)
    BY <2>14, RefusedFacts DEF Unlock, CopiesFollow, IInv, TypeOK
  <2>15. ASSUME NEW t \in Txns, BeginArm(p, t) PROVE CopiesFollow'
    BY <2>15 DEF BeginArm, Goto, CopiesFollow, IInv, TypeOK
  <2>16. ASSUME NEW t \in Txns, BeginLift(p, t) PROVE CopiesFollow'
    BY <2>16 DEF BeginLift, Goto, CopiesFollow, IInv, TypeOK
  <2>17. CASE ArmRead(p)
    BY <2>17 DEF ArmRead, Goto, CopiesFollow, IInv, TypeOK
  <2>18. CASE ArmWrite(p)
    BY <2>18 DEF ArmWrite, Goto, CopiesFollow, IInv, TypeOK
  <2>19. CASE LiftRead(p)
    BY <2>19 DEF LiftRead, Goto, CopiesFollow, IInv, TypeOK
  <2>20. CASE LiftRemove(p)
    BY <2>20 DEF LiftRemove, Goto, CopiesFollow, IInv, TypeOK
  <2>21. ASSUME NEW d \in copies, Restore(p, d) PROVE CopiesFollow'
    BY <2>21 DEF Restore, Goto, CopiesFollow, IInv, TypeOK
  <2>22. CASE KeepAside(p)
    BY <2>22 DEF KeepAside, Goto, CopiesFollow, IInv, TypeOK
  <2>23. CASE CompareMirror(p)
    BY <2>23 DEF CompareMirror, Goto, CopiesFollow, IInv, TypeOK
  <2>24. CASE ReadMirror(p)
    BY <2>24 DEF ReadMirror, Goto, CopiesFollow, IInv, TypeOK
  <2>25. ASSUME NEW d \in Remotes \cup {mirror}, NEW forced \in BOOLEAN, MirrorPull(p, d, forced) PROVE CopiesFollow'
    BY <2>25 DEF MirrorPull, Goto, CopiesFollow, IInv, TypeOK
  <2>26. ASSUME NEW d \in Remotes, NEW forced \in BOOLEAN, Pull(p, d, forced) PROVE CopiesFollow'
    BY <2>26 DEF Pull, Goto, CopiesFollow, IInv, TypeOK
  <2> QED BY <1>1, <2>1, <2>2, <2>3, <2>4, <2>5, <2>6, <2>7, <2>8, <2>9, <2>10, <2>11, <2>12, <2>13, <2>14, <2>15, <2>16, <2>17, <2>18, <2>19, <2>20, <2>21, <2>22, <2>23, <2>24, <2>25, <2>26 DEF Step
<1>2. ASSUME NEW p \in Procs, Crash(p) PROVE CopiesFollow'
  <2>1. Hold(p, NoDoc) /\ UNCHANGED disk
    BY <1>2 DEF Crash
  <2> QED BY <2>1, DropKeepsCopies
<1>3. CASE ClearStaleLock
  BY <1>3 DEF ClearStaleLock, CopiesFollow, IInv, TypeOK
<1>4. CASE Vanish
  BY <1>4 DEF Vanish, CopiesFollow, IInv, TypeOK
<1>5. CASE Backup
  BY <1>5 DEF Backup, CopiesFollow, IInv, TypeOK
<1>6. CASE MirrorPush
  BY <1>6 DEF MirrorPush, CopiesFollow, IInv, TypeOK
<1>7. CASE UNCHANGED vars
  BY <1>7 DEF vars, CopiesFollow, IInv, TypeOK
<1> QED BY <1>1, <1>2, <1>3, <1>4, <1>5, <1>6, <1>7 DEF Next, Environment

\* Under the lock nobody else saves, so the file stays as it was checked.
LEMMA FlightNext ==
  ASSUME IInv, TypeOK', [Next]_vars
  PROVE  SaveInFlight'
<1>1. ASSUME NEW p \in Procs, Step(p) PROVE SaveInFlight'
  <2>1. CASE Open(p)
    BY <2>1, HoldFacts DEF Open, SaveInFlight, NextDoc, IInv, TypeOK, WriteLockExcludes, Critical, Replacing
  <2>2. CASE Create(p)
    BY <2>2, HoldFacts, DocFacts DEF Create, SaveInFlight, NextDoc, IInv, TypeOK, WriteLockExcludes, Critical, Replacing
  <2>3. CASE Close(p)
    BY <2>3, HoldFacts, DocFacts DEF Close, SaveInFlight, NextDoc, IInv, TypeOK, WriteLockExcludes, Critical, Replacing
  <2>4. ASSUME NEW items \in SUBSET Items, Edit(p, items) PROVE SaveInFlight'
    BY <2>4, EditFacts DEF Edit, SaveInFlight, NextDoc, IInv, TypeOK, WriteLockExcludes, Critical, Replacing
  <2>5. CASE BeginSave(p)
    BY <2>5 DEF BeginSave, Goto, Start, SaveInFlight, NextDoc, IInv, TypeOK, WriteLockExcludes, Critical, Replacing
  <2>6. CASE BeginReplace(p)
    BY <2>6 DEF BeginReplace, Goto, SaveInFlight, NextDoc, IInv, TypeOK, WriteLockExcludes, Critical, Replacing
  <2>7. CASE LockRefused(p)
    BY <2>7, RefusedFacts, StopFacts DEF LockRefused, Goto, SaveInFlight, NextDoc, IInv, TypeOK, WriteLockExcludes, Critical, Replacing
  <2>8. CASE CheckFence(p)
    BY <2>8 DEF CheckFence, Goto, FencePassed, SaveInFlight, NextDoc, IInv, TypeOK, WriteLockExcludes, Critical, Replacing
  <2>9. CASE CheckGeneration(p)
    BY <2>9 DEF CheckGeneration, Goto, GenerationCurrent, SaveInFlight, NextDoc, IInv, TypeOK, WriteLockExcludes, Critical, Replacing
  <2>10. CASE WriteFails(p)
    BY <2>10 DEF WriteFails, Goto, SaveInFlight, NextDoc, IInv, TypeOK, WriteLockExcludes, Critical, Replacing
  <2>11. CASE RenameSaved(p)
    BY <2>11 DEF RenameSaved, Goto, SaveInFlight, NextDoc, IInv, TypeOK, WriteLockExcludes, Critical, Replacing
  <2>12. CASE RenameReplaced(p)
    <3>1. \A q \in Procs \ {p} : pc'[q] \notin {"current", "renamed"}
      <4>1. lock = p
        BY <2>12 DEF RenameReplaced, Goto, IInv, WriteLockExcludes, Critical
      <4>2. \A q \in Procs \ {p} : pc'[q] = pc[q]
        BY <2>12 DEF RenameReplaced, Goto, IInv, TypeOK
      <4> QED BY <4>1, <4>2 DEF IInv, WriteLockExcludes, Critical
    <3>2. job[p] # "save"
      BY <2>12 DEF RenameReplaced, Replacing
    <3> QED BY <2>12, <3>1, <3>2 DEF RenameReplaced, SaveInFlight
  <2>13. CASE SyncDirectory(p)
    BY <2>13 DEF SyncDirectory, Goto, SaveInFlight, NextDoc, IInv, TypeOK, WriteLockExcludes, Critical, Replacing
  <2>14. CASE Unlock(p)
    BY <2>14, RefusedFacts, StopFacts DEF Unlock, AfterSave, SaveInFlight, NextDoc, IInv, TypeOK, WriteLockExcludes, Critical, Replacing
  <2>15. ASSUME NEW t \in Txns, BeginArm(p, t) PROVE SaveInFlight'
    BY <2>15 DEF BeginArm, Goto, Start, SaveInFlight, NextDoc, IInv, TypeOK, WriteLockExcludes, Critical, Replacing
  <2>16. ASSUME NEW t \in Txns, BeginLift(p, t) PROVE SaveInFlight'
    BY <2>16 DEF BeginLift, Goto, Start, SaveInFlight, NextDoc, IInv, TypeOK, WriteLockExcludes, Critical, Replacing
  <2>17. CASE ArmRead(p)
    BY <2>17 DEF ArmRead, Goto, SaveInFlight, NextDoc, IInv, TypeOK, WriteLockExcludes, Critical, Replacing
  <2>18. CASE ArmWrite(p)
    BY <2>18 DEF ArmWrite, Goto, SaveInFlight, NextDoc, IInv, TypeOK, WriteLockExcludes, Critical, Replacing
  <2>19. CASE LiftRead(p)
    BY <2>19 DEF LiftRead, Goto, SaveInFlight, NextDoc, IInv, TypeOK, WriteLockExcludes, Critical, Replacing
  <2>20. CASE LiftRemove(p)
    BY <2>20 DEF LiftRemove, Goto, SaveInFlight, NextDoc, IInv, TypeOK, WriteLockExcludes, Critical, Replacing
  <2>21. ASSUME NEW d \in copies, Restore(p, d) PROVE SaveInFlight'
    BY <2>21 DEF Restore, Goto, Start, SaveInFlight, NextDoc, IInv, TypeOK, WriteLockExcludes, Critical, Replacing
  <2>22. CASE KeepAside(p)
    BY <2>22 DEF KeepAside, Goto, SaveInFlight, NextDoc, IInv, TypeOK, WriteLockExcludes, Critical, Replacing
  <2>23. CASE CompareMirror(p)
    <3>1. \A q \in Procs \ {p} : job'[q] = job[q] /\ pc'[q] = pc[q]
      BY <2>23, StopFacts DEF CompareMirror, Goto, IInv, TypeOK
    <3>2. pc'[p] \in {"read", "idle"}
      BY <2>23 DEF CompareMirror, Goto, IInv, TypeOK
    <3> QED BY <2>23, <3>1, <3>2 DEF CompareMirror, SaveInFlight, NextDoc, IInv
  <2>24. CASE ReadMirror(p)
    BY <2>24 DEF ReadMirror, Goto, SaveInFlight, NextDoc, IInv, TypeOK, WriteLockExcludes, Critical, Replacing
  <2>25. ASSUME NEW d \in Remotes \cup {mirror}, NEW forced \in BOOLEAN, MirrorPull(p, d, forced) PROVE SaveInFlight'
    BY <2>25 DEF MirrorPull, Goto, Start, SaveInFlight, NextDoc, IInv, TypeOK, WriteLockExcludes, Critical, Replacing
  <2>26. ASSUME NEW d \in Remotes, NEW forced \in BOOLEAN, Pull(p, d, forced) PROVE SaveInFlight'
    BY <2>26 DEF Pull, Goto, Start, SaveInFlight, NextDoc, IInv, TypeOK, WriteLockExcludes, Critical, Replacing
  <2> QED BY <1>1, <2>1, <2>2, <2>3, <2>4, <2>5, <2>6, <2>7, <2>8, <2>9, <2>10, <2>11, <2>12, <2>13, <2>14, <2>15, <2>16, <2>17, <2>18, <2>19, <2>20, <2>21, <2>22, <2>23, <2>24, <2>25, <2>26 DEF Step
<1>2. ASSUME NEW p \in Procs, Crash(p) PROVE SaveInFlight'
  BY <1>2, HoldFacts, DocFacts, StopFacts DEF Crash, SaveInFlight, NextDoc, IInv, TypeOK, WriteLockExcludes, Critical, Replacing
<1>3. CASE ClearStaleLock
  BY <1>3 DEF ClearStaleLock, SaveInFlight, NextDoc, IInv, TypeOK, WriteLockExcludes, Critical, Replacing
<1>4. CASE Vanish
  <2>1. disk'.gen = 0 /\ \A q \in Procs : crossed'[q]
    BY <1>4, DocFacts DEF Vanish
  <2> QED BY <1>4, <2>1 DEF Vanish, SaveInFlight, IInv
<1>5. CASE Backup
  BY <1>5 DEF Backup, SaveInFlight, NextDoc, IInv, TypeOK, WriteLockExcludes, Critical, Replacing
<1>6. CASE MirrorPush
  BY <1>6 DEF MirrorPush, SaveInFlight, NextDoc, IInv, TypeOK, WriteLockExcludes, Critical, Replacing
<1>7. CASE UNCHANGED vars
  BY <1>7 DEF vars, SaveInFlight, NextDoc, IInv, TypeOK, WriteLockExcludes, Critical, Replacing
<1> QED BY <1>1, <1>2, <1>3, <1>4, <1>5, <1>6, <1>7 DEF Next, Environment

-----------------------------------------------------------------------------
(* The theorems.                                                           *)

\* The invariant holds initially.
LEMMA InitIInv == Init => IInv
<1> SUFFICES ASSUME Init PROVE IInv
  OBVIOUS
<1>1. TypeOK
  BY DocFacts DEF Init, TypeOK, Jobs, Points
<1>2. DocsKept
  BY DocFacts DEF Init, DocsKept
<1>3. CopiesFollow
  BY DocFacts DEF Init, CopiesFollow
<1> QED BY <1>1, <1>2, <1>3
        DEF Init, IInv, WriteLockExcludes, FenceStays, SaveInFlight, Critical

\* Every step keeps it.
LEMMA NextIInv == IInv /\ [Next]_vars => IInv'
<1> SUFFICES ASSUME IInv, [Next]_vars PROVE IInv'
  OBVIOUS
<1>1. TypeOK'
  BY TypeNext DEF IInv
<1> QED BY <1>1, LockNext, DocsNext, FenceNext, CopiesNext, FlightNext DEF IInv

\* The inductive invariant is an invariant.
LEMMA Invariance == Spec => []IInv
BY InitIInv, NextIInv, PTL DEF Spec

\* Documents, locks, fences and copies have their types in every state.
THEOREM TypeCorrect == Spec => []TypeOK
<1>1. IInv => TypeOK
  BY DEF IInv
<1> QED BY <1>1, Invariance, PTL

\* acquire_write_lock excludes: whoever is past it owns the lock file, through
\* crashes, lock files that stay and their removal by the operator.
THEOREM LockExcludes == Spec => []WriteLockExcludes
<1>1. IInv => WriteLockExcludes
  BY DEF IInv
<1> QED BY <1>1, Invariance, PTL

\* While a fence stands only its own move writes the vault file.
THEOREM FenceCorrect == Spec => FenceHolds
<1>1. IInv => [\A p \in Procs :
               RenameSaved(p) \/ RenameReplaced(p) => fence \in {NoTxn, Pass[p]}]_vars
  BY DEF IInv, FenceStays, RenameSaved, RenameReplaced, Goto
<1> QED BY <1>1, Invariance, PTL DEF FenceHolds

\* No transaction takes over another's fence or lifts it.
THEOREM FenceOwned == Spec => FenceBelongsToItsMove
<1>1. IInv => [\A p \in Procs : /\ ArmWrite(p) => fence = NoTxn
                                /\ LiftRemove(p) => fence = txn[p]]_vars
  BY DEF IInv, FenceStays, ArmWrite, LiftRemove, Goto
<1> QED BY <1>1, Invariance, PTL DEF FenceBelongsToItsMove

\* A save overwrites the document its copy was read from, unless the file was
\* replaced since: the generation check loses no update between savers.
THEOREM NoLostUpdate == Spec => SaveReplacesWhatItRead
<1>1. ASSUME IInv, NEW p \in Procs, RenameSaved(p), ~crossed[p]
      PROVE  disk.items = seen[p]
  <2>1. disk.gen \in {0, mem[p].gen}
    BY <1>1 DEF RenameSaved, Goto, IInv, SaveInFlight
  <2>2. mem[p].gen <= disk.gen /\ mem[p].gen \in Nat
    BY <1>1, NextDocFacts DEF IInv, CopiesFollow
  <2>3. mem[p].gen = disk.gen
    BY <2>1, <2>2
  <2> QED BY <1>1, <2>3 DEF IInv, CopiesFollow
<1>2. IInv => [\A p \in Procs : RenameSaved(p) => crossed[p] \/ disk.items = seen[p]]_vars
  BY <1>1
<1> QED BY <1>2, Invariance, PTL DEF SaveReplacesWhatItRead


-----------------------------------------------------------------------------
(* The listener.                                                           *)

Stages == {"none", "queued", "line", "guard", "headers", "operator", "serialized",
           "forward", "awaiting", "handler", "loaded", "closed", "aborted"}
ConnTypeOK ==
  conn \in [Conns -> [stage : Stages, route : Routes, forwarded : BOOLEAN, moved : BOOLEAN]]

\* A connection holds the write lock from the moment its route is known to need
\* it until its thread ends: an http route past its guard, an operator route
\* once it is known to be served here, and whatever has loaded the document.
\* What operator::handle sees is an operator route.
Guarded(c) ==
  \/ At(c, "headers") /\ is_mutation(conn[c].route)
  \/ At(c, "handler") /\ Mutates(c)
  \/ At(c, "loaded")
LockHeld == \A c \in Conns : Guarded(c) => wlock = c

OperatorOnly == \A c \in Conns : At(c, "operator") => conn[c].route \in OperatorRoutes

LInv == ConnTypeOK /\ LockHeld /\ OperatorOnly /\ WritesSerial

\* A thread that ends leaves every other where it is and takes only its own
\* lock along.
LEMMA DoneFacts ==
  ASSUME LInv, NEW c \in Conns, Done(c)
  PROVE  LInv'
BY DEF LInv, ConnTypeOK, LockHeld, OperatorOnly, WritesSerial, Guarded, Done, Closed, Released, At, Unseen,
       Mutates, Stages, Routes, HttpRoutes, OperatorRoutes

\* A connection that moves to a stage which needs no lock, and none that another
\* holds, keeps LInv.
LEMMA StageFacts ==
  ASSUME LInv, NEW c \in Conns, NEW stage \in Stages, UNCHANGED wlock,
         conn' = [conn EXCEPT ![c].stage = stage],
         stage = "operator" => conn[c].route \in OperatorRoutes,
         stage = "headers" => ~is_mutation(conn[c].route) \/ wlock = c,
         stage = "handler" => ~Mutates(c) \/ wlock = c,
         stage = "loaded" => wlock = c
  PROVE  LInv'
BY DEF LInv, ConnTypeOK, LockHeld, OperatorOnly, WritesSerial, Guarded, At, Mutates

\* A connection that begins again in a stage before the guard keeps LInv.
LEMMA FreshFacts ==
  ASSUME LInv, NEW c \in Conns, NEW route \in Routes, NEW forwarded \in BOOLEAN, UNCHANGED wlock,
         conn' = [conn EXCEPT ![c] = Queued(route, forwarded)]
  PROVE  LInv'
BY DEF LInv, ConnTypeOK, LockHeld, OperatorOnly, WritesSerial, Guarded, At, Mutates, Stages, Queued

\* Every step keeps LInv: only a save could break it, and its connection holds
\* the lock that any other loaded one would need.
LEMMA ListenerStep ==
  ASSUME LInv, [LNext]_lvars
  PROVE  LInv'
<1>1. ASSUME NEW r \in Clients, Connect(r) \/ owner_dispatch(r) PROVE LInv'
  <2>1. <<r, 0>> \in Conns
    BY DEF Conns
  <2>2. "opwrite" \in Routes /\ TRUE \in BOOLEAN /\ FALSE \in BOOLEAN
    BY DEF Routes, OperatorRoutes
  <2> QED BY <1>1, <2>1, <2>2, FreshFacts DEF Connect, owner_dispatch
<1>2. ASSUME NEW c \in Conns, survive(c) PROVE LInv'
  BY <1>2 DEF survive, LInv, ConnTypeOK, LockHeld, OperatorOnly, WritesSerial, Guarded, At, Unseen,
     Mutates, Stages, Routes, HttpRoutes
<1>3. ASSUME NEW c \in Conns, accept(c) PROVE LInv'
  <2>1. CASE Closed(c)
    BY <1>3, <2>1 DEF accept, LInv, ConnTypeOK, LockHeld, OperatorOnly, WritesSerial, Guarded, Closed, At, Unseen,
       Mutates, Stages, Routes, HttpRoutes
  <2>2. CASE submit(c)
    BY <1>3, <2>2, StageFacts DEF accept, submit, Stages
  <2> QED BY <1>3, <2>1, <2>2 DEF accept
<1>4. ASSUME NEW c \in Conns, read_line(c) PROVE LInv'
  BY <1>4, StageFacts DEF read_line, Stages
<1>5. ASSUME NEW c \in Conns, write_guard(c) PROVE LInv'
  BY <1>5, ListenerAssumption
     DEF write_guard, LInv, ConnTypeOK, LockHeld, OperatorOnly, WritesSerial, Guarded, At, Mutates, Stages
<1>6. ASSUME NEW c \in Conns, read_body(c) PROVE LInv'
  <2>1. conn[c].route \notin OperatorRoutes /\ Mutates(c) => wlock = c
    BY <1>6 DEF read_body, LInv, ConnTypeOK, LockHeld, Guarded, Mutates, is_mutation,
       is_operator_mutation, OperatorRoutes
  <2> QED BY <1>6, <2>1, StageFacts DEF read_body, Stages
<1>7. ASSUME NEW c \in Conns, operator_handle(c) PROVE LInv'
  <2>1. conn[c].route \in Routes
    BY DEF LInv, ConnTypeOK
  <2>2. Local(c) /\ ~is_operator_mutation(conn[c].route) => ~Mutates(c)
    BY <1>7 DEF operator_handle, LInv, OperatorOnly, Mutates, OperatorRoutes
  <2> QED BY <1>7, <2>1, <2>2, StageFacts DEF operator_handle, Stages
<1>8. ASSUME NEW c \in Conns, serialized(c) PROVE LInv'
  BY <1>8, ListenerAssumption
     DEF serialized, LInv, ConnTypeOK, LockHeld, OperatorOnly, WritesSerial, Guarded, At, Mutates, Stages
<1>9. ASSUME NEW c \in Conns, owner_request(c) PROVE LInv'
  BY <1>9 DEF owner_request, LInv, ConnTypeOK, LockHeld, OperatorOnly, WritesSerial, Guarded, At, Mutates, Stages,
     Onward, Queued
<1>10. ASSUME NEW c \in Conns, load(c) PROVE LInv'
  BY <1>10, StageFacts DEF load, LInv, LockHeld, Guarded, Stages
<1>11. ASSUME NEW c \in Conns, save(c) PROVE LInv'
  <2>1. CASE Closed(c)
    BY <1>11, <2>1, DoneFacts DEF save, Done
  <2>2. \A d \in Conns \ {c} : ~At(d, "loaded")
    BY <1>11 DEF save, LInv, LockHeld, Guarded
  <2>3. CASE conn' = [d \in Conns |-> IF d = c THEN [Unseen EXCEPT !.stage = "closed"]
                                ELSE [conn[d] EXCEPT !.moved = @ \/ At(d, "loaded")]]
    <3>1. \A d \in Conns \ {c} : conn'[d] = conn[d]
      BY <2>2, <2>3 DEF LInv, ConnTypeOK
    <3>2. conn' = [conn EXCEPT ![c] = [Unseen EXCEPT !.stage = "closed"]]
      BY <2>3, <3>1 DEF LInv, ConnTypeOK
    <3> QED BY <1>11, <3>2, DoneFacts DEF save, Done, Closed
  <2> QED BY <1>11, <2>1, <2>3 DEF save
<1>12. ASSUME NEW c \in Conns,
              Dropped(c) \/ resolve(c) \/ browser_refusal(c) \/ serve_request(c) \/ reads(c)
                \/ presented_identity(c) \/ descriptor_lost(c)
       PROVE LInv'
  BY <1>12, DoneFacts
     DEF Dropped, resolve, browser_refusal, serve_request, reads, presented_identity, descriptor_lost
<1>13. ASSUME ProcessEnds PROVE LInv'
  BY <1>13 DEF ProcessEnds, LInv, ConnTypeOK, LockHeld, OperatorOnly, WritesSerial, Guarded, At, Unseen, Mutates, Stages,
     Routes, HttpRoutes, is_mutation
<1>14. CASE UNCHANGED <<wlock, conn>>
  BY <1>14 DEF LInv, ConnTypeOK, LockHeld, OperatorOnly, WritesSerial, Guarded, At, Mutates
<1> QED
  BY <1>1, <1>2, <1>3, <1>4, <1>5, <1>6, <1>7, <1>8, <1>9, <1>10, <1>11, <1>12, <1>13, <1>14
     DEF LNext, Threads, start, serve, when_declared, Launchd, Install, Remove, lvars

\* However many clients there are and whatever ends their threads, no handler
\* of this process saves over a document another one saved after it loaded.
THEOREM WritesStaySerial == LSpec => []WritesSerial
<1>1. LInit => LInv
  BY DEF LInit, LInv, ConnTypeOK, LockHeld, OperatorOnly, WritesSerial, Guarded, At, Unseen, Mutates, Stages, Routes,
     HttpRoutes, is_operator_mutation
<1>2. LInv => WritesSerial
  BY DEF LInv
<1> QED BY <1>1, <1>2, ListenerStep, PTL DEF LSpec

-----------------------------------------------------------------------------
(* The take-over of the units before it.                                   *)

BootStages ==
  {"down", "unit", "bond", "ports", "job", "agent", "journal", "kept", "bind", "serving"}
Boots ==
  [pc : BootStages, at : 1..Len(PREDECESSORS), ports : SUBSET Units, now : SUBSET Units,
   recorded : BOOLEAN, rewritable : BOOLEAN, pid : BOOLEAN,
   inherited : SUBSET Units, bound : SUBSET Units]
PTypeOK ==
  /\ agent \subseteq Units /\ running \subseteq Units /\ bond \in BOOLEAN
  /\ ports \in (SUBSET Units) \cup {NoRecord} /\ retired \subseteq Units
  /\ boot \in Boots /\ starts \in 0..MaxStarts /\ owed \subseteq Units

\* What was kept is in the record, and in the hands of a start that read it.
OwedRecorded ==
  /\ IF ports = NoRecord THEN owed = {} ELSE owed \subseteq ports
  /\ boot.pc # "down" /\ boot.rewritable => owed \subseteq boot.ports

\* Past its bond, the unit that carried the bearer is one the bond replaced.
BondFirst ==
  boot.pc \in {"ports", "job", "agent"} /\ Unit = SyncDaemon => bond

TakeOverInv == PTypeOK /\ OwedRecorded /\ BondFirst /\ BearerKept

\* There is a retired unit, and the one a start is at is one of them.
LEMMA ListFacts == Len(PREDECESSORS) \in Nat /\ 1 \in 1..Len(PREDECESSORS)
BY PredecessorsAssumption DEF Units

LEMMA UnitFacts ==
  ASSUME PTypeOK
  PROVE  Unit \in Units
BY DEF PTypeOK, Boots, Unit, Units

\* The next unit of the loop, or its end, is where no bond is needed yet.
LEMMA OntoFacts ==
  ASSUME PTypeOK, NEW b \in Boots
  PROVE  /\ Onto(b) \in Boots /\ Onto(b).pc \in {"unit", "kept"}
         /\ Onto(b).ports = b.ports /\ Onto(b).rewritable = b.rewritable
<1>1. CASE b.at < Len(PREDECESSORS)
  <2>1. PICK c : c = [b EXCEPT !.at = b.at + 1]
    OBVIOUS
  <2>2. b.at + 1 \in 1..Len(PREDECESSORS)
    BY <1>1, ListFacts DEF Boots
  <2>3. c \in Boots /\ c.ports = b.ports /\ c.rewritable = b.rewritable
    BY <2>1, <2>2 DEF Boots
  <2>4. Onto(b) = [c EXCEPT !.pc = "unit"]
    BY <1>1, <2>1 DEF Onto
  <2> QED BY <2>3, <2>4 DEF Boots, BootStages
<1>2. CASE ~(b.at < Len(PREDECESSORS))
  BY <1>2 DEF Onto, Boots, BootStages
<1> QED BY <1>1, <1>2

\* A start begins at the first unit, with the ports it found.
LEMMA BegunFacts ==
  ASSUME PTypeOK, NEW found \in SUBSET Units, NEW recorded \in BOOLEAN, NEW rewritable \in BOOLEAN
  PROVE  LET b == Begun(found, recorded, rewritable)
         IN b \in Boots /\ b.pc = "unit" /\ b.ports = found /\ b.rewritable = rewritable
<1>1. PICK c : c = [Down EXCEPT !.pc = "unit"]
  OBVIOUS
<1>2. PICK d : d = [c EXCEPT !.ports = found]
  OBVIOUS
<1>3. PICK e : e = [d EXCEPT !.recorded = recorded]
  OBVIOUS
<1>4. Begun(found, recorded, rewritable) = [e EXCEPT !.rewritable = rewritable]
  BY <1>1, <1>2, <1>3 DEF Begun
<1>5. c \in Boots /\ c.pc = "unit"
  BY <1>1, ListFacts DEF Down, Boots, BootStages
<1>6. d \in Boots /\ d.pc = "unit" /\ d.ports = found
  BY <1>2, <1>5 DEF Boots
<1>7. e \in Boots /\ e.pc = "unit" /\ e.ports = found
  BY <1>3, <1>6 DEF Boots
<1> QED BY <1>4, <1>7 DEF Boots

\* Every step of a start keeps TakeOverInv.  The record only grows, a start that
\* read it holds all of it, and an agent is removed after its bond is adopted.
LEMMA TakeOverStep ==
  ASSUME TakeOverInv, [PNext]_pvars
  PROVE  TakeOverInv'
<1> USE DEF TakeOverInv
<1>0. Unit \in Units /\ 1 \in 1..Len(PREDECESSORS)
  BY UnitFacts, ListFacts
<1>1. ASSUME Starts PROVE TakeOverInv'
  <2>1. PICK found \in SUBSET Units, recorded \in BOOLEAN, rewritable \in BOOLEAN :
          boot' = Begun(found, recorded, rewritable) /\ (rewritable => found = remembered.ports)
    BY <1>1 DEF Starts, remembered, retired_ports, PTypeOK
  <2>2. boot' \in Boots /\ boot'.pc = "unit" /\ boot'.ports = found /\ boot'.rewritable = rewritable
    BY <2>1, BegunFacts
  <2>3. owed \subseteq remembered.ports
    BY DEF OwedRecorded, remembered
  <2>4. starts' \in 0..MaxStarts
    BY <1>1, PredecessorsAssumption DEF Starts, PTypeOK
  <2> QED BY <1>1, <2>1, <2>2, <2>3, <2>4 DEF Starts, PTypeOK, OwedRecorded, BondFirst, BearerKept

<1>2. ASSUME running_pid PROVE TakeOverInv'
  <2>1. CASE kept
    BY <1>2, <2>1, OntoFacts DEF running_pid, kept, PTypeOK, OwedRecorded, BondFirst, BearerKept
  <2>2. CASE Unit \in agent /\ boot' = [boot EXCEPT !.pc = "bond", !.pid = Unit \in running]
    <3>1. PICK c : c = [boot EXCEPT !.pc = "bond"]
      OBVIOUS
    <3>2. c \in Boots /\ c.ports = boot.ports /\ c.rewritable = boot.rewritable /\ c.pc = "bond"
      BY <3>1 DEF PTypeOK, Boots, BootStages
    <3>3. boot' = [c EXCEPT !.pid = TRUE] \/ boot' = [c EXCEPT !.pid = FALSE]
      <4>1. (Unit \in running) = TRUE \/ (Unit \in running) = FALSE
        OBVIOUS
      <4>2. boot' = [c EXCEPT !.pid = Unit \in running]
        BY <2>2, <3>1
      <4> QED BY <4>1, <4>2, Zenon
    <3>4. boot' \in Boots /\ boot'.ports = boot.ports /\ boot'.rewritable = boot.rewritable
            /\ boot'.pc = "bond"
      BY <3>2, <3>3 DEF Boots
    <3> QED BY <1>2, <3>4 DEF running_pid, PTypeOK, OwedRecorded, BondFirst, BearerKept
  <2> QED BY <1>2, <2>1, <2>2 DEF running_pid
<1>3. ASSUME adopt_replica_bond PROVE TakeOverInv'
  <2>1. CASE kept
    BY <1>3, <2>1, OntoFacts DEF adopt_replica_bond, kept, PTypeOK, OwedRecorded, BondFirst, BearerKept
  <2>2. CASE boot' = [boot EXCEPT !.pc = "ports"]
    <3>1. boot' \in Boots /\ boot'.ports = boot.ports /\ boot'.rewritable = boot.rewritable
            /\ boot'.pc = "ports" /\ Unit' = Unit
      BY <2>2 DEF PTypeOK, Boots, BootStages, Unit
    <3>2. (bond => bond') /\ bond' \in BOOLEAN /\ (Unit = SyncDaemon => bond')
      BY <1>3, <2>2 DEF adopt_replica_bond, kept, PTypeOK, Onto, Boots
    <3> QED BY <1>3, <3>1, <3>2 DEF adopt_replica_bond, PTypeOK, OwedRecorded, BondFirst, BearerKept
  <2> QED BY <1>3, <2>1, <2>2 DEF adopt_replica_bond
<1>4. ASSUME listening_ports PROVE TakeOverInv'
  <2>1. CASE kept
    BY <1>4, <2>1, OntoFacts DEF listening_ports, kept, PTypeOK, OwedRecorded, BondFirst, BearerKept
  <2>2. CASE ~kept
    <3>1. PICK c : c = [boot EXCEPT !.pc = "job"]
      OBVIOUS
    <3>2. boot' = [c EXCEPT !.inherited = IF boot.pid /\ Unit \in running THEN {Unit} ELSE {}]
      BY <1>4, <2>2, <3>1 DEF listening_ports
    <3>3. c \in Boots /\ c.ports = boot.ports /\ c.rewritable = boot.rewritable /\ c.pc = "job"
            /\ c.at = boot.at
      BY <3>1 DEF PTypeOK, Boots, BootStages
    <3>4. boot' \in Boots /\ boot'.ports = boot.ports /\ boot'.rewritable = boot.rewritable
            /\ boot'.pc = "job" /\ boot'.at = boot.at
      BY <1>0, <3>2, <3>3 DEF Boots
    <3> QED BY <1>4, <3>4 DEF listening_ports, PTypeOK, OwedRecorded, BondFirst, BearerKept, Unit
  <2> QED BY <2>1, <2>2
<1>5. ASSUME remove_job PROVE TakeOverInv'
  <2>1. CASE kept
    BY <1>5, <2>1, OntoFacts DEF remove_job, kept, PTypeOK, OwedRecorded, BondFirst, BearerKept
  <2>2. CASE boot' = [boot EXCEPT !.pc = "agent"]
    BY <1>5, <2>2
       DEF remove_job, PTypeOK, OwedRecorded, BondFirst, BearerKept, Boots, BootStages, Unit
  <2> QED BY <1>5, <2>1, <2>2 DEF remove_job
<1>6. ASSUME retire PROVE TakeOverInv'
  BY <1>6 DEF retire, PTypeOK, OwedRecorded, BondFirst, BearerKept, Boots, BootStages, Unit
<1>7. ASSUME journalled PROVE TakeOverInv'
  <2>1. PICK c : c = [boot EXCEPT !.now = boot.now \cup boot.inherited]
    OBVIOUS
  <2>2. PICK d : d = [c EXCEPT !.inherited = {}]
    OBVIOUS
  <2>3. c \in Boots /\ c.ports = boot.ports /\ c.rewritable = boot.rewritable
    BY <2>1 DEF PTypeOK, Boots
  <2>4. d \in Boots /\ d.ports = boot.ports /\ d.rewritable = boot.rewritable
    BY <2>2, <2>3 DEF Boots
  <2>5. boot' = Onto(d)
    BY <1>7, <2>1, <2>2 DEF journalled
  <2>6. retired' \subseteq Units
    BY <1>7 DEF journalled, PTypeOK, Boots
  <2> QED BY <1>7, <2>4, <2>5, <2>6, OntoFacts
          DEF journalled, PTypeOK, OwedRecorded, BondFirst, BearerKept
<1>8. ASSUME remember PROVE TakeOverInv'
  <2> DEFINE all == boot.ports \cup boot.now
  <2>1. all \in SUBSET Units
    BY DEF PTypeOK, Boots
  <2>2. PICK c : c = [boot EXCEPT !.pc = "bind"]
    OBVIOUS
  <2>3. boot' = [c EXCEPT !.ports = all]
    BY <1>8, <2>2 DEF remember
  <2>4. c \in Boots /\ c.rewritable = boot.rewritable /\ c.pc = "bind"
    BY <2>2 DEF PTypeOK, Boots, BootStages
  <2>5. boot' \in Boots /\ boot'.ports = all /\ boot'.rewritable = boot.rewritable
          /\ boot'.pc = "bind"
    BY <2>1, <2>3, <2>4 DEF Boots
  <2>6. CASE boot.rewritable /\ ports' = all /\ owed' = owed \cup all
    <3>1. owed \subseteq all
      BY <1>8, <2>6 DEF remember, OwedRecorded
    <3>2. all # NoRecord
      BY <2>1, PredecessorsAssumption
    <3> QED BY <1>8, <2>1, <2>5, <2>6, <3>1, <3>2
            DEF remember, PTypeOK, OwedRecorded, BondFirst, BearerKept
  <2>7. CASE UNCHANGED <<ports, owed>>
    BY <1>8, <2>5, <2>7 DEF remember, PTypeOK, OwedRecorded, BondFirst, BearerKept
  <2> QED BY <1>8, <2>6, <2>7 DEF remember
<1>9. ASSUME bind PROVE TakeOverInv'
  <2>1. PICK others \in SUBSET boot.ports :
          boot' = [boot EXCEPT !.pc = "serving",
                               !.bound = {p \in boot.ports \ others : p \notin running}]
    BY <1>9 DEF bind
  <2>2. PICK c : c = [boot EXCEPT !.pc = "serving"]
    OBVIOUS
  <2>3. boot' = [c EXCEPT !.bound = {p \in boot.ports \ others : p \notin running}]
    BY <2>1, <2>2
  <2>4. c \in Boots /\ c.ports = boot.ports /\ c.rewritable = boot.rewritable /\ c.pc = "serving"
    BY <2>2 DEF PTypeOK, Boots, BootStages
  <2>5. {p \in boot.ports \ others : p \notin running} \in SUBSET Units
    BY DEF PTypeOK, Boots
  <2>6. boot' \in Boots /\ boot'.ports = boot.ports /\ boot'.rewritable = boot.rewritable
          /\ boot'.pc = "serving"
    BY <2>3, <2>4, <2>5 DEF Boots
  <2> QED BY <1>9, <2>6 DEF bind, PTypeOK, OwedRecorded, BondFirst, BearerKept
<1>10. ASSUME Ends PROVE TakeOverInv'
  BY <1>0, <1>10 DEF Ends, Down, PTypeOK, OwedRecorded, BondFirst, BearerKept, Boots, BootStages
<1>11. ASSUME UnitExits PROVE TakeOverInv'
  BY <1>11 DEF UnitExits, PTypeOK, OwedRecorded, BondFirst, BearerKept, Unit
<1>12. CASE UNCHANGED pvars
  BY <1>12 DEF pvars, PTypeOK, OwedRecorded, BondFirst, BearerKept, Unit
<1> QED BY <1>1, <1>2, <1>3, <1>4, <1>5, <1>6, <1>7, <1>8, <1>9, <1>10, <1>11, <1>12
        DEF PNext, take_over

\* Through starts that fail or die at any step, over any list of retired units:
\* the ports a start kept are tried by every later one that reads its record,
\* and the bearer a unit carried is in its bond before its agent goes.
THEOREM TakeOverKeeps == PSpec => []TakeOverLosesNothing
<1>1. PInit => TakeOverInv
  <2>1. Down \in Boots /\ Down.pc = "down"
    BY ListFacts DEF Down, Boots, BootStages
  <2>2. SyncDaemon \in Units /\ 0 \in 0..MaxStarts
    BY PredecessorsAssumption
  <2> QED BY <2>1, <2>2 DEF PInit, TakeOverInv, PTypeOK, OwedRecorded, BondFirst, BearerKept
<1>2. TakeOverInv => TakeOverLosesNothing
  BY DEF TakeOverInv, OwedRecorded, TakeOverLosesNothing, KeptPortsTried
<1> QED BY <1>1, <1>2, TakeOverStep, PTL DEF PSpec



-----------------------------------------------------------------------------
(* The capability broker: the inductive invariant.                         *)

Confined == {"append", "writing", "elsewhere", "settle", "audit", "reply"}

IsState(s) ==
  /\ s = [caps |-> s.caps, nonces |-> s.nonces] /\ s.caps = [c \in Caps |-> s.caps[c]]
  /\ \A c \in Caps : s.caps[c] \in Records \cup {NoCap}

IsHand(h) ==
  /\ h = [at |-> h.at, req |-> h.req, now |-> h.now, out |-> h.out, mem |-> h.mem, lines |-> h.lines]
  /\ IsState(h.mem)

BrokerTyped(h) == IsHand(h) /\ h.at \in {"idle", "waits"} \cup Confined /\ (h.at # "idle" => h.req \in Requests)

IssuerTyped(h) ==
  /\ IsHand(h) /\ h.at \in {"idle", "waits", "append", "writing", "elsewhere", "settle"}
  /\ h.at # "idle" => (\E c \in Caps : h.req = Issue(c)) /\ h.req.cap \in minted
  /\ h.at = "waits" => h.now \in 1..2 * CapSecs

RelayTyped(r) ==
  /\ r = [at |-> r.at, cap |-> r.cap, saw |-> r.saw] /\ IsState(r.saw)
  /\ r.at \in {"idle", "mend", "store"} /\ (r.at # "idle" => r.cap \in Caps)

BookTyped(b) == b = [state |-> b.state, held |-> b.held, torn |-> b.torn] /\ IsState(b.state) /\ b.torn \in BOOLEAN

\* Whoever is past the lock holds it, and nobody else.
HandsTyped ==
  /\ capLock \in {"broker", "issuer", NoCap}
  /\ hand = [p \in {"broker", "issuer"} |-> hand[p]]
  /\ BrokerTyped(hand["broker"]) /\ IssuerTyped(hand["issuer"])
  /\ \A p \in {"broker", "issuer"} : hand[p].at \in Confined <=> capLock = p

AroundTyped ==
  /\ RelayTyped(relay)
  /\ capClock \in 0..CapSecs
  /\ challenges \subseteq Caps /\ filled \subseteq Caps /\ minted \subseteq Caps /\ cancelled \subseteq Caps
  /\ handed \in [Caps -> Nat] /\ audited \in [Caps -> Nat]
  /\ honoured = [c \in Caps |-> honoured[c]]
  /\ overwrote \in BOOLEAN

CapTyped == BookTyped(book) /\ HandsTyped /\ AroundTyped

LeftOf(r) == IF r = NoCap THEN 0 ELSE r.left

\* The broker has capability c in hand.
Serves(c) == hand["broker"].at \in Confined /\ hand["broker"].req.cap = c

\* A use of c taken off the journal and not yet audited; one audited and not
\* yet handed over.
Taken(c) ==
  IF Serves(c) /\ hand["broker"].at \in {"settle", "audit"} /\ hand["broker"].out = "redeem" THEN 1 ELSE 0
Unsent(c) == IF Serves(c) /\ hand["broker"].at = "reply" /\ hand["broker"].req.op = "redeem" THEN 1 ELSE 0

\* Nothing of c is in the journal yet, and nobody used it.
NotIssued(c) ==
  \/ c \notin minted
  \/ hand["issuer"].at \in {"waits", "append", "writing"} /\ hand["issuer"].req.cap = c

Ended(r) == r = NoCap \/ r.state # "issued"

UseSound(c) ==
  /\ LeftOf(book.state.caps[c]) + audited[c] + Taken(c) <= MaxUses
  /\ handed[c] + Unsent(c) <= audited[c]
  /\ "again" \notin honoured[c]
  /\ book.state.caps[c] # NoCap => \A n \in honoured[c] : <<c, n>> \in book.state.nonces
  /\ c \in cancelled => Ended(book.state.caps[c]) /\ ~Serves(c)
  /\ NotIssued(c) => /\ book.state.caps[c] = NoCap /\ audited[c] = 0 /\ honoured[c] = {}
                     /\ c \notin cancelled /\ ~Serves(c)

\* What a process past the lock holds: of other capabilities what the journal
\* says or nothing, and of all it holds the nonces.
HeldSound(h) ==
  h.at \in {"append", "writing", "settle"} =>
    /\ \A c \in Caps : c # h.req.cap => h.mem.caps[c] \in {book.state.caps[c], NoCap}
    /\ \A c \in Caps : h.mem.caps[c] # NoCap => \A n \in honoured[c] : <<c, n>> \in h.mem.nonces
    /\ h.at \in {"append", "writing"} => "record" \in h.lines /\ h.mem.caps[h.req.cap] # NoCap
    /\ h.at = "settle" => h.mem.caps[h.req.cap] = book.state.caps[h.req.cap]

BrokerSound(h) ==
  h.at \in Confined =>
    /\ h.out = (IF h.req.op = "cancel" THEN "cancel" ELSE h.out) /\ h.out \in {"cancel", "redeem", "pending"}
    /\ h.req.op = "redeem" => h.out # "cancel"
    /\ h.at \in {"audit", "reply"} => h.out # "pending"
    /\ h.at \in {"append", "writing", "settle"} =>
         h.req.nonce \notin honoured[h.req.cap] /\ <<h.req.cap, h.req.nonce>> \in h.mem.nonces
    /\ h.at \in {"append", "writing"} =>
         /\ book.state.caps[h.req.cap] # NoCap
         /\ "nonce" \in h.lines \/ <<h.req.cap, h.req.nonce>> \in book.state.nonces
         /\ h.mem.caps[h.req.cap].left + audited[h.req.cap] + (IF h.out = "redeem" THEN 1 ELSE 0) <= MaxUses
         /\ h.out = "cancel" => Ended(h.mem.caps[h.req.cap])
    /\ h.at = "settle" => <<h.req.cap, h.req.nonce>> \in book.state.nonces
    /\ h.at \in {"settle", "audit", "reply"} /\ h.out = "cancel" => Ended(book.state.caps[h.req.cap])

CapSound ==
  /\ \A p \in {"broker", "issuer"} : hand[p].at # "elsewhere" /\ HeldSound(hand[p])
  /\ BrokerSound(hand["broker"])
  /\ hand["issuer"].at \in {"append", "writing"} => hand["issuer"].mem.caps[hand["issuer"].req.cap].left = MaxUses
  /\ \A c \in Caps : UseSound(c)

CapInv == CapTyped /\ (~overwrote => CapSound)
-----------------------------------------------------------------------------
(* The capability broker: types, and the lock.                             *)

LEMMA NoCapApart == NoCap \notin Records /\ "again" \notin Nonces /\ NoCap \notin Nonces
                  /\ NoCap # "broker" /\ NoCap # "issuer"
<1>1. Records \subseteq [state : {"issued", "spent", "cancelled"}, left : Nat, ends : Nat]
  BY CapabilityAssumption DEF Records
<1> QED BY <1>1, CapabilityAssumption

LEMMA EmptyState == IsState(Empty)
BY DEF Empty, IsState

LEMMA RestTyped == IsHand(Rest) /\ Rest.at = "idle"
BY EmptyState DEF Rest, IsHand

\* What is forgotten was not to be redeemed any more; nothing else is.
LEMMA ForgetFacts ==
  ASSUME NEW s, IsState(s), NEW now, NEW f, f = ForgetStale(s, now)
  PROVE  /\ IsState(f)
         /\ \A c \in Caps : f.caps[c] = NoCap \/ (f.caps[c] = s.caps[c] /\ Redeemable(s.caps[c], now))
         /\ \A c \in Caps : f.caps[c] # NoCap => \A n : <<c, n>> \in s.nonces => <<c, n>> \in f.nonces
<1>1. PICK live : live = {c \in Caps : Redeemable(s.caps[c], now)}
  OBVIOUS
<1>2. f = [caps |-> [c \in Caps |-> IF c \in live THEN s.caps[c] ELSE NoCap],
           nonces |-> {k \in s.nonces : k[1] \in live}]
  BY <1>1 DEF ForgetStale
<1>3. IsState(f)
  BY <1>2 DEF IsState
<1>4. \A c \in Caps : f.caps[c] = NoCap \/ (f.caps[c] = s.caps[c] /\ c \in live)
  BY <1>2
<1>5. \A c \in Caps : f.caps[c] # NoCap => \A n : <<c, n>> \in s.nonces => <<c, n>> \in f.nonces
  <2>1. ASSUME NEW c \in Caps, f.caps[c] # NoCap, NEW n, <<c, n>> \in s.nonces
        PROVE  <<c, n>> \in f.nonces
    <3>1. c \in live
      BY <1>4, <2>1
    <3>2. PICK k : k = <<c, n>>
      OBVIOUS
    <3>3. k[1] = c
      BY <3>2
    <3>4. k \in {m \in s.nonces : m[1] \in live}
      BY <2>1, <3>1, <3>2, <3>3
    <3> QED BY <1>2, <3>2, <3>4
  <2> QED BY <2>1
<1> QED BY <1>1, <1>3, <1>4, <1>5

\* A load leaves the journal's state as it is.
LEMMA LoadFacts ==
  ASSUME BookTyped(book), Load
  PROVE  BookTyped(book)' /\ book'.state = book.state
<1>1. PICK s, no, held : s = book.state /\ no = FALSE /\ held = Weight(s)
  OBVIOUS
<1>2. book' = book \/ book' = [state |-> s, held |-> held, torn |-> no]
  BY <1>1 DEF Load, Mended
<1>3. CASE book' = book
  BY <1>3 DEF BookTyped
<1>4. CASE book' = [state |-> s, held |-> held, torn |-> no]
  <2>1. PICK b : b = book'
    OBVIOUS
  <2>2. b.state = s /\ b.torn = no /\ b.held = held
    BY <1>4, <2>1
  <2>3. BookTyped(b)
    BY <1>1, <1>4, <2>1, <2>2 DEF BookTyped
  <2> QED BY <1>1, <2>1, <2>2, <2>3
<1> QED BY <1>2, <1>3, <1>4

LEMMA MendedTyped ==
  ASSUME NEW s, IsState(s), NEW b, b = Mended(s)
  PROVE  BookTyped(b) /\ b.state = s
BY DEF BookTyped, Mended

\* One process moves, and the lock with it or not at all.
LEMMA HandMoves ==
  ASSUME HandsTyped, NEW p \in {"broker", "issuer"}, NEW h, hand' = [hand EXCEPT ![p] = h],
         p = "broker" => BrokerTyped(h), p = "issuer" => (IssuerTyped(h))', minted \subseteq minted',
         capLock' \in {"broker", "issuer", NoCap}, h.at \in Confined <=> capLock' = p,
         \A q \in {"broker", "issuer"} : q # p => (capLock' = q <=> capLock = q)
  PROVE  /\ HandsTyped' /\ hand'[p] = h
         /\ \A q \in {"broker", "issuer"} : q # p => hand'[q] = hand[q]
<1>1. /\ hand' = [q \in {"broker", "issuer"} |-> hand'[q]] /\ hand'[p] = h
      /\ \A q \in {"broker", "issuer"} : q # p => hand'[q] = hand[q]
  BY DEF HandsTyped
<1>2. (BrokerTyped(hand["broker"]))'
  <2>1. CASE p = "broker"
    BY <1>1, <2>1
  <2>2. CASE p # "broker"
    BY <1>1, <2>2 DEF HandsTyped
  <2> QED BY <2>1, <2>2
<1>3. (IssuerTyped(hand["issuer"]))'
  <2>1. CASE p = "issuer"
    BY <1>1, <2>1
  <2>2. CASE p # "issuer"
    BY <1>1, <2>2 DEF HandsTyped, IssuerTyped
  <2> QED BY <2>1, <2>2
<1>4. \A q \in {"broker", "issuer"} : hand'[q].at \in Confined <=> capLock' = q
  BY <1>1 DEF HandsTyped
<1> QED BY <1>1, <1>2, <1>3, <1>4 DEF HandsTyped
-----------------------------------------------------------------------------
(* The capability broker: what leaves the journal as it was.               *)

SameJournal == book'.state = book.state /\ UNCHANGED history

LEMMA SoundSame ==
  ASSUME CapSound, hand' = hand, minted' = minted, SameJournal
  PROVE  CapSound'
<1>1. \A p \in {"broker", "issuer"} : hand'[p].at # "elsewhere" /\ (HeldSound(hand[p]))'
  BY DEF CapSound, SameJournal, history, HeldSound
<1>2. (BrokerSound(hand["broker"]))'
  BY DEF CapSound, SameJournal, history, BrokerSound
<1>3. \A c \in Caps : (UseSound(c))'
  BY DEF CapSound, SameJournal, history, UseSound, Taken, Unsent, Serves, NotIssued
<1> QED BY <1>1, <1>2, <1>3 DEF CapSound

\* A process that stops, was refused or only asks is out of the way.
LEMMA SoundQuits ==
  ASSUME CapTyped, CapSound, SameJournal, NEW p \in {"broker", "issuer"}, NEW h, h.at \in {"idle", "waits"},
         hand'[p] = h, \A q \in {"broker", "issuer"} : q # p => hand'[q] = hand[q],
         \A c \in Caps : (NotIssued(c))' => NotIssued(c)
  PROVE  CapSound'
<1>1. h.at \notin Confined
  BY DEF Confined
<1>2. \A q \in {"broker", "issuer"} : hand'[q].at # "elsewhere" /\ (HeldSound(hand[q]))'
  <2>1. ASSUME NEW q \in {"broker", "issuer"}
        PROVE  hand'[q].at # "elsewhere" /\ (HeldSound(hand[q]))'
    <3>1. CASE q = p
      BY <3>1 DEF HeldSound
    <3>2. CASE q # p
      BY <3>2 DEF CapSound, SameJournal, history, HeldSound
    <3> QED BY <3>1, <3>2
  <2> QED BY <2>1
<1>3. (BrokerSound(hand["broker"]))'
  <2>1. CASE p = "broker"
    BY <1>1, <2>1 DEF BrokerSound
  <2>2. CASE p # "broker"
    BY <2>2 DEF CapSound, SameJournal, history, BrokerSound
  <2> QED BY <2>1, <2>2
<1>4. \A c \in Caps : (Serves(c))' => Serves(c) /\ hand'["broker"] = hand["broker"]
  BY <1>1 DEF Serves
<1>5. ASSUME NEW c \in Caps
      PROVE  (UseSound(c))'
  <2>1. UseSound(c)
    BY DEF CapSound
  <2>2. /\ book'.state.caps[c] = book.state.caps[c] /\ book'.state.nonces = book.state.nonces
        /\ audited'[c] = audited[c] /\ handed'[c] = handed[c] /\ honoured'[c] = honoured[c] /\ cancelled' = cancelled
    BY DEF SameJournal, history
  <2>3. (Taken(c))' <= Taken(c) /\ (Unsent(c))' <= Unsent(c) /\ Taken(c) \in Nat /\ Unsent(c) \in Nat /\ (Taken(c))' \in Nat /\ (Unsent(c))' \in Nat
    BY <1>4 DEF Taken, Unsent
  <2>4. LeftOf(book.state.caps[c]) \in Nat /\ audited[c] \in Nat /\ handed[c] \in Nat /\ MaxUses \in Nat
    BY NoCapApart, CapabilityAssumption DEF CapTyped, BookTyped, IsState, AroundTyped, LeftOf, Records
  <2>5. LeftOf(book'.state.caps[c]) + audited'[c] + (Taken(c))' <= MaxUses /\ handed'[c] + (Unsent(c))' <= audited'[c]
    <3>1. PICK l, a, g, t, u, t1, u1 : /\ l = LeftOf(book.state.caps[c]) /\ a = audited[c] /\ g = handed[c]
                                       /\ t = Taken(c) /\ u = Unsent(c) /\ t1 = (Taken(c))' /\ u1 = (Unsent(c))'
      OBVIOUS
    <3>2. l + a + t <= MaxUses /\ g + u <= a
      BY <2>1, <3>1 DEF UseSound
    <3>3. l + a + t1 <= MaxUses /\ g + u1 <= a
      BY <2>3, <2>4, <3>1, <3>2
    <3>4. LeftOf(book'.state.caps[c]) = l
      BY <2>2, <3>1 DEF LeftOf
    <3> QED BY <2>2, <3>1, <3>3, <3>4
  <2> QED BY <1>4, <2>1, <2>2, <2>5 DEF UseSound
<1>6. hand'["issuer"].at \in {"append", "writing"}
        => hand'["issuer"].mem.caps[hand'["issuer"].req.cap].left = MaxUses
  BY DEF CapSound
<1> QED BY <1>2, <1>3, <1>5, <1>6 DEF CapSound
-----------------------------------------------------------------------------
(* The capability broker: steps that move no process past the lock.        *)

LEMMA StillJournal ==
  ASSUME CapInv, UNCHANGED <<hand, capLock, minted>>, SameJournal, BookTyped(book)', AroundTyped',
         overwrote => overwrote'
  PROVE  CapInv'
<1>1. HandsTyped'
  BY DEF CapInv, CapTyped, HandsTyped, IssuerTyped
<1>2. ~overwrote => CapSound'
  BY SoundSame DEF CapInv
<1> QED BY <1>1, <1>2 DEF CapInv, CapTyped

LEMMA Relay_step ==
  ASSUME CapInv, (\E c \in Caps : RelayLoads(c)) \/ RelayStores
  PROVE  CapInv'
<1>1. PICK s, r : s = book.state /\ r = relay
  OBVIOUS
<1>2. IsState(s) /\ RelayTyped(r)
  BY <1>1 DEF CapInv, CapTyped, BookTyped, AroundTyped
<1>3. UNCHANGED <<hand, capLock, minted, book, history, overwrote, challenges, capClock>>
  BY DEF RelayLoads, RelayStores, history
<1>4. \/ relay' = r
      \/ \E c \in Caps : relay' = [at |-> "mend", cap |-> c, saw |-> s]
      \/ \E c \in Caps : relay' = [at |-> "store", cap |-> c, saw |-> Empty]
      \/ relay' = [at |-> "idle", cap |-> NoCap, saw |-> Empty]
  BY <1>1 DEF RelayLoads, RelayStores
<1>5. RelayTyped(relay)'
  BY <1>2, <1>4, EmptyState DEF RelayTyped
<1>6. filled' \subseteq Caps
  BY <1>1, <1>2 DEF CapInv, CapTyped, AroundTyped, RelayLoads, RelayStores, RelayTyped
<1>7. BookTyped(book)' /\ AroundTyped' /\ SameJournal
  BY <1>3, <1>5, <1>6 DEF CapInv, CapTyped, BookTyped, AroundTyped, SameJournal, history
<1> QED BY <1>3, <1>7, StillJournal

LEMMA Around_step ==
  ASSUME CapInv, CapTick \/ GrantEnds \/ Counts \/ (\E c \in Caps : ValueRemoved(c))
  PROVE  CapInv'
<1>1. BookTyped(book)' /\ SameJournal
  <2>1. CASE Counts
    BY <2>1, LoadFacts DEF Counts, CapInv, CapTyped, SameJournal
  <2>2. CASE CapTick \/ GrantEnds \/ (\E c \in Caps : ValueRemoved(c))
    BY <2>2 DEF CapTick, GrantEnds, ValueRemoved, CapInv, CapTyped, BookTyped, SameJournal
  <2> QED BY <2>1, <2>2
<1>2. UNCHANGED <<hand, capLock, minted, relay, overwrote, challenges, history>>
  BY DEF CapTick, GrantEnds, Counts, ValueRemoved, history
<1>3. capClock' \in 0..CapSecs /\ filled' \subseteq Caps
  BY CapabilityAssumption DEF CapTick, GrantEnds, Counts, ValueRemoved, CapInv, CapTyped, AroundTyped
<1>4. AroundTyped'
  BY <1>2, <1>3 DEF CapInv, CapTyped, AroundTyped, RelayTyped, history
<1> QED BY <1>1, <1>2, <1>4, StillJournal

\* A relay that replaces the journal in a process's hands, or with another state,
\* is seen; otherwise nothing changes but that the journal is whole.
LEMMA RelayMends_step ==
  ASSUME CapInv, RelayMends
  PROVE  CapInv'
<1>1. PICK r : r = relay
  OBVIOUS
<1>2. IsState(r.saw) /\ RelayTyped(r) /\ r.at = "mend"
  BY <1>1 DEF CapInv, CapTyped, AroundTyped, RelayTyped, RelayMends
<1>3. BookTyped(book)' /\ book'.state = r.saw
  <2>1. book' = Mended(r.saw)
    BY <1>1 DEF RelayMends
  <2>2. PICK b, s : b = book' /\ s = r.saw
    OBVIOUS
  <2>3. BookTyped(b) /\ b.state = s
    BY <1>2, <2>1, <2>2, MendedTyped
  <2> QED BY <2>2, <2>3
<1>4. RelayTyped(relay)'
  <2>1. PICK e, n : e = Empty /\ n = relay'
    OBVIOUS
  <2>2. \/ n = [r EXCEPT !.at = "store", !.saw = e]
        \/ n = [at |-> "idle", cap |-> NoCap, saw |-> e]
    BY <1>1, <2>1 DEF RelayMends
  <2>3. IsState(e)
    BY <2>1, EmptyState
  <2>4. RelayTyped(n)
    <3>1. CASE n = [r EXCEPT !.at = "store", !.saw = e]
      <4>1. r = [at |-> r.at, cap |-> r.cap, saw |-> r.saw] /\ r.cap \in Caps
        BY <1>2 DEF RelayTyped
      <4>2. n = [at |-> "store", cap |-> r.cap, saw |-> e]
        BY <3>1, <4>1
      <4> QED BY <2>3, <4>1, <4>2 DEF RelayTyped
    <3>2. CASE n = [at |-> "idle", cap |-> NoCap, saw |-> e]
      BY <2>3, <3>2 DEF RelayTyped
    <3> QED BY <2>2, <3>1, <3>2
  <2> QED BY <2>1, <2>4 DEF RelayTyped
<1>5. UNCHANGED <<capLock, minted, challenges, capClock, filled, history>> /\ overwrote' \in BOOLEAN
      /\ (overwrote => overwrote')
  BY DEF RelayMends, CapInv, CapTyped, AroundTyped
<1>6. AroundTyped'
  BY <1>4, <1>5 DEF CapInv, CapTyped, AroundTyped, history
<1>7. /\ hand' = [p \in {"broker", "issuer"} |-> hand'[p]]
      /\ \A p \in {"broker", "issuer"} :
           hand'[p] = IF hand[p].at = "writing" THEN [hand[p] EXCEPT !.at = "elsewhere"] ELSE hand[p]
  <2>1. DOMAIN hand = {"broker", "issuer"}
    BY DEF CapInv, CapTyped, HandsTyped
  <2> QED BY <2>1 DEF RelayMends
<1>8. HandsTyped'
  <2>1. PICK b, i, b1, i1 : b = hand["broker"] /\ i = hand["issuer"] /\ b1 = hand'["broker"] /\ i1 = hand'["issuer"]
    OBVIOUS
  <2>2. BrokerTyped(b) /\ IssuerTyped(i)
    BY <2>1 DEF CapInv, CapTyped, HandsTyped
  <2>3. b1 = (IF b.at = "writing" THEN [b EXCEPT !.at = "elsewhere"] ELSE b)
    BY <1>7, <2>1
  <2>4. i1 = (IF i.at = "writing" THEN [i EXCEPT !.at = "elsewhere"] ELSE i)
    BY <1>7, <2>1
  <2>5. BrokerTyped(b1) /\ (b1.at \in Confined <=> b.at \in Confined)
    BY <2>2, <2>3 DEF BrokerTyped, IsHand, Confined
  <2>6. IssuerTyped(i1) /\ (i1.at \in Confined <=> i.at \in Confined)
    BY <2>2, <2>4 DEF IssuerTyped, IsHand, Confined
  <2>7. (IssuerTyped(i1))'
    BY <1>5, <2>6 DEF IssuerTyped
  <2>8. \A p \in {"broker", "issuer"} : hand'[p].at \in Confined <=> capLock' = p
    BY <1>5, <2>1, <2>5, <2>6 DEF CapInv, CapTyped, HandsTyped
  <2>9. capLock' \in {"broker", "issuer", NoCap}
    BY <1>5 DEF CapInv, CapTyped, HandsTyped
  <2> QED BY <1>7, <2>1, <2>5, <2>7, <2>8, <2>9 DEF HandsTyped
<1>9. ASSUME ~overwrote'
      PROVE  CapSound'
  <2>1. capLock = NoCap /\ book.state = r.saw /\ ~overwrote
    BY <1>1, <1>9 DEF RelayMends
  <2>2. \A p \in {"broker", "issuer"} : hand[p].at # "writing"
    BY <2>1, NoCapApart DEF CapInv, CapTyped, HandsTyped, Confined
  <2>3. hand' = hand
    BY <1>7, <2>2 DEF CapInv, CapTyped, HandsTyped
  <2> QED BY <1>3, <1>5, <2>1, <2>3, SoundSame DEF CapInv, SameJournal
<1> QED BY <1>3, <1>6, <1>8, <1>9 DEF CapInv, CapTyped
LEMMA Quits ==
  ASSUME CapInv, NEW p \in {"broker", "issuer"}, NEW h, hand' = [hand EXCEPT ![p] = h], h.at \in {"idle", "waits"},
         p = "broker" => BrokerTyped(h), p = "issuer" => (IssuerTyped(h))', minted \subseteq minted',
         capLock' = (IF capLock = p THEN NoCap ELSE capLock),
         SameJournal, BookTyped(book)', AroundTyped', overwrote => overwrote',
         \A c \in Caps : c \notin minted' \/ (p = "issuer" /\ h.at = "waits" /\ h.req.cap = c)
                           => c \notin minted \/ p = "broker"
  PROVE  CapInv'
<1>1. h.at \notin Confined /\ capLock \in {"broker", "issuer", NoCap} /\ NoCap # "broker" /\ NoCap # "issuer"
  BY NoCapApart DEF Confined, CapInv, CapTyped, HandsTyped
<1>2. /\ HandsTyped' /\ hand'[p] = h
      /\ \A q \in {"broker", "issuer"} : q # p => hand'[q] = hand[q]
  BY <1>1, HandMoves DEF CapInv, CapTyped
<1>3. \A c \in Caps : (NotIssued(c))' => NotIssued(c)
  <2>1. CASE p = "broker"
    BY <1>2, <2>1 DEF NotIssued
  <2>2. CASE p = "issuer"
    BY <1>2, <2>2 DEF NotIssued
  <2> QED BY <2>1, <2>2
<1>4. ~overwrote => CapSound'
  BY <1>2, <1>3, SoundQuits DEF CapInv
<1> QED BY <1>2, <1>4 DEF CapInv, CapTyped

LEMMA IssueAsked_step ==
  ASSUME CapInv, NEW c \in Caps, NEW ttl \in 1..CapSecs, IssueAsked(c, ttl)
  PROVE  CapInv'
<1>1. PICK h, now, req : now = capClock + ttl /\ req = Issue(c) /\ h = [Rest EXCEPT !.at = "waits", !.req = req, !.now = now]
  OBVIOUS
<1>2. /\ hand' = [hand EXCEPT !["issuer"] = h] /\ c \notin minted /\ minted' = minted \cup {c} /\ hand["issuer"].at = "idle"
      /\ UNCHANGED <<challenges, book, capLock, relay, capClock, filled, history, overwrote>>
  BY <1>1 DEF IssueAsked, history
<1>3. IsHand(h) /\ h.at = "waits" /\ h.req = req /\ h.now = now
  BY <1>1, RestTyped DEF IsHand
<1>4. req.cap = c /\ now \in 1..2 * CapSecs
  BY <1>1, CapabilityAssumption DEF Issue, CapInv, CapTyped, AroundTyped
<1>5. (IssuerTyped(h))'
  BY <1>1, <1>2, <1>3, <1>4 DEF IssuerTyped
<1>6. SameJournal /\ BookTyped(book)' /\ AroundTyped'
  BY <1>2 DEF SameJournal, CapInv, CapTyped, BookTyped, AroundTyped, RelayTyped, history
<1>7. capLock # "issuer" /\ capLock' = capLock
  BY <1>2 DEF CapInv, CapTyped, HandsTyped, Confined
<1> QED BY <1>2, <1>3, <1>4, <1>5, <1>6, <1>7, Quits

LEMMA Asked_step ==
  ASSUME CapInv, NEW req \in Requests, Asked(req)
  PROVE  CapInv'
<1>1. PICK h, now : now = capClock /\ h = [Rest EXCEPT !.at = "waits", !.req = req, !.now = now]
  OBVIOUS
<1>2. /\ hand' = [hand EXCEPT !["broker"] = h] /\ hand["broker"].at = "idle"
      /\ UNCHANGED <<challenges, book, capLock, relay, capClock, filled, minted, history, overwrote>>
  BY <1>1 DEF Asked, history
<1>3. IsHand(h) /\ h.at = "waits" /\ h.req = req
  BY <1>1, RestTyped DEF IsHand
<1>4. BrokerTyped(h)
  BY <1>3 DEF BrokerTyped
<1>5. SameJournal /\ BookTyped(book)' /\ AroundTyped'
  BY <1>2 DEF SameJournal, CapInv, CapTyped, BookTyped, AroundTyped, RelayTyped, history
<1>6. capLock # "broker" /\ capLock' = capLock
  BY <1>2 DEF CapInv, CapTyped, HandsTyped, Confined
<1> QED BY <1>2, <1>3, <1>4, <1>5, <1>6, Quits

LEMMA RestBoth ==
  ASSUME NEW h, h = Rest
  PROVE  BrokerTyped(h) /\ (IssuerTyped(h))' /\ h.at = "idle"
BY RestTyped DEF BrokerTyped, IssuerTyped

LEMMA Refuses_step ==
  ASSUME CapInv, Refuses
  PROVE  CapInv'
<1>1. PICK h : h = Rest
  OBVIOUS
<1>2. /\ hand' = [hand EXCEPT !["broker"] = h] /\ capLock = NoCap /\ Load
      /\ UNCHANGED <<challenges, capLock, relay, capClock, filled, minted, history, overwrote>>
  BY <1>1 DEF Refuses, history
<1>3. BrokerTyped(h) /\ h.at = "idle"
  BY <1>1, RestBoth
<1>4. BookTyped(book)' /\ SameJournal
  BY <1>2, LoadFacts DEF SameJournal, CapInv, CapTyped
<1>5. AroundTyped'
  BY <1>2 DEF CapInv, CapTyped, AroundTyped, RelayTyped, history
<1>6. capLock' = (IF capLock = "broker" THEN NoCap ELSE capLock)
  BY <1>2
<1> QED BY <1>2, <1>3, <1>4, <1>5, <1>6, Quits

LEMMA Dies_step ==
  ASSUME CapInv, NEW p \in {"broker", "issuer"}, Dies(p)
  PROVE  CapInv'
<1>1. PICK h : h = Rest
  OBVIOUS
<1>2. /\ hand' = [hand EXCEPT ![p] = h] /\ capLock' = (IF capLock = p THEN NoCap ELSE capLock)
      /\ UNCHANGED <<challenges, book, relay, capClock, filled, minted, history, overwrote>>
  BY <1>1 DEF Dies, history
<1>3. BrokerTyped(h) /\ (IssuerTyped(h))' /\ h.at = "idle"
  BY <1>1, RestBoth
<1>4. SameJournal /\ BookTyped(book)' /\ AroundTyped'
  BY <1>2 DEF SameJournal, CapInv, CapTyped, BookTyped, AroundTyped, RelayTyped, history
<1> QED BY <1>2, <1>3, <1>4, Quits
-----------------------------------------------------------------------------
(* The capability broker: the steps of who holds the lock.                 *)

\* Of a capability the step does not serve, nothing is worse than before.
LEMMA UseElse ==
  ASSUME CapTyped, NEW d \in Caps, UseSound(d), ~Serves(d), ~(Serves(d))',
         book'.state.caps[d] \in {book.state.caps[d], NoCap},
         book'.state.caps[d] # NoCap
           => \A n \in honoured[d] : <<d, n>> \in book.state.nonces => <<d, n>> \in book'.state.nonces,
         audited'[d] = audited[d], handed'[d] = handed[d], honoured'[d] = honoured[d],
         d \in cancelled' => d \in cancelled, (NotIssued(d))' => NotIssued(d)
  PROVE  (UseSound(d))'
<1>1. Taken(d) = 0 /\ (Taken(d))' = 0 /\ Unsent(d) = 0 /\ (Unsent(d))' = 0
  BY DEF Taken, Unsent
<1>2. PICK r, r1 : r = book.state.caps[d] /\ r1 = book'.state.caps[d]
  OBVIOUS
<1>3. r \in Records \cup {NoCap} /\ (r1 = r \/ r1 = NoCap) /\ audited[d] \in Nat /\ handed[d] \in Nat /\ MaxUses \in Nat
  BY <1>2, CapabilityAssumption DEF CapTyped, BookTyped, IsState, AroundTyped
<1>4. LeftOf(r) \in Nat /\ LeftOf(r1) <= LeftOf(r) /\ LeftOf(r1) \in Nat
  BY <1>3, NoCapApart DEF LeftOf, Records
<1>5. LeftOf(r1) + audited[d] <= MaxUses /\ handed[d] <= audited[d]
  BY <1>1, <1>2, <1>3, <1>4 DEF UseSound
<1>6. /\ LeftOf(book'.state.caps[d]) + audited'[d] + (Taken(d))' <= MaxUses
      /\ handed'[d] + (Unsent(d))' <= audited'[d]
  BY <1>1, <1>2, <1>3, <1>4, <1>5
<1>7. Ended(r) => Ended(r1)
  BY <1>3 DEF Ended
<1>8. UseSound(d)
  OBVIOUS
<1> QED BY <1>2, <1>3, <1>6, <1>7, <1>8 DEF UseSound

LEMMA InHand ==
  ASSUME CapTyped, NEW p \in {"broker", "issuer"}, hand[p].at \in Confined
  PROVE  /\ capLock = p /\ \A q \in {"broker", "issuer"} : q # p => hand[q].at \notin Confined
         /\ hand[p].req.cap \in Caps
         /\ p = "broker" => hand[p].req \in Requests
         /\ p = "issuer" => \A c \in Caps : ~Serves(c)
<1>1. capLock = p /\ \A q \in {"broker", "issuer"} : q # p => hand[q].at \notin Confined
  BY DEF CapTyped, HandsTyped
<1>2. hand[p].at # "idle"
  BY DEF Confined
<1>3. CASE p = "broker"
  BY <1>1, <1>2, <1>3 DEF CapTyped, HandsTyped, BrokerTyped, Requests
<1>4. CASE p = "issuer"
  <2>1. PICK c \in Caps : hand[p].req = Issue(c)
    BY <1>2, <1>4 DEF CapTyped, HandsTyped, IssuerTyped
  <2>2. hand[p].req.cap = c
    BY <2>1 DEF Issue
  <2> QED BY <1>1, <1>4, <2>2 DEF Serves
<1> QED BY <1>3, <1>4

LEMMA OutOfWay ==
  ASSUME NEW h, h.at \notin Confined
  PROVE  h.at # "elsewhere" /\ (HeldSound(h))' /\ (BrokerSound(h))' /\ h.at \notin {"append", "writing"}
BY DEF Confined, HeldSound, BrokerSound

LEMMA Audits_step ==
  ASSUME CapInv, Audits
  PROVE  CapInv'
<1>1. PICK b, c, h : b = hand["broker"] /\ c = b.req.cap /\ h = [b EXCEPT !.at = "reply"]
  OBVIOUS
<1>2. b.at = "audit" /\ b.at \in Confined /\ UNCHANGED <<challenges, book, relay, capClock, filled, minted, handed, honoured, cancelled, overwrote>>
  BY <1>1 DEF Audits, Confined
<1>3. /\ capLock = "broker" /\ hand["issuer"].at \notin Confined /\ c \in Caps /\ b.req \in Requests /\ BrokerTyped(b)
  BY <1>1, <1>2, InHand DEF CapInv, CapTyped, HandsTyped
<1>4. CASE Leaves("broker") /\ UNCHANGED audited
  <2>1. PICK r : r = Rest
    OBVIOUS
  <2>2. hand' = [hand EXCEPT !["broker"] = r] /\ capLock' = NoCap
    BY <1>4, <2>1 DEF Leaves
  <2>3. BrokerTyped(r) /\ r.at = "idle"
    BY <2>1, RestBoth
  <2>4. SameJournal /\ BookTyped(book)' /\ AroundTyped'
    BY <1>2, <1>4 DEF SameJournal, CapInv, CapTyped, BookTyped, AroundTyped, RelayTyped, history
  <2>5. capLock' = (IF capLock = "broker" THEN NoCap ELSE capLock)
    BY <1>3, <2>2
  <2> QED BY <1>2, <2>2, <2>3, <2>4, <2>5, Quits
<1>5. CASE /\ hand' = [hand EXCEPT !["broker"].at = "reply"] /\ UNCHANGED capLock
           /\ audited' = [audited EXCEPT ![c] = IF b.req.op = "redeem" THEN @ + 1 ELSE @]
  <2>1. hand' = [hand EXCEPT !["broker"] = h]
    BY <1>1, <1>5
  <2>2. IsHand(h) /\ h.at = "reply" /\ h.req = b.req /\ h.out = b.out
    BY <1>1, <1>3 DEF BrokerTyped, IsHand
  <2>3. BrokerTyped(h) /\ h.at \in Confined
    BY <1>3, <2>2 DEF BrokerTyped, Confined
  <2>4. HandsTyped' /\ hand'["broker"] = h /\ hand'["issuer"] = hand["issuer"]
    BY <1>2, <1>3, <1>5, <2>1, <2>3, HandMoves DEF CapInv, CapTyped, HandsTyped
  <2>5. BookTyped(book)' /\ audited' \in [Caps -> Nat]
    BY <1>2, <1>3, <1>5 DEF CapInv, CapTyped, BookTyped, AroundTyped
  <2>6. AroundTyped'
    BY <1>2, <2>5 DEF CapInv, CapTyped, AroundTyped, RelayTyped
  <2>7. ASSUME ~overwrote'
        PROVE  CapSound'
    <3>1. CapSound /\ BrokerSound(b) /\ CapTyped
      BY <1>1, <1>2, <2>7 DEF CapInv, CapSound
    <3>2. b.out \in {"cancel", "redeem"} /\ (b.out = "redeem" <=> b.req.op = "redeem")
      BY <1>2, <1>3, <3>1 DEF BrokerSound, Requests
    <3>3. (BrokerSound(h))'
      BY <1>2, <2>2, <3>1, <3>2 DEF BrokerSound
    <3>4. (HeldSound(h))' /\ (HeldSound(hand["issuer"]))' /\ h.at # "elsewhere" /\ hand["issuer"].at # "elsewhere"
          /\ hand["issuer"].at \notin {"append", "writing"}
      BY <1>3, <2>2, <2>4, OutOfWay DEF HeldSound
    <3>5. \A d \in Caps : (Serves(d) <=> d = c) /\ ((Serves(d))' <=> d = c) /\ ((NotIssued(d))' <=> NotIssued(d))
      BY <1>1, <1>2, <2>2, <2>3, <2>4 DEF Serves, NotIssued
    <3>6. ASSUME NEW d \in Caps, d # c
          PROVE  (UseSound(d))'
      BY <1>2, <1>5, <3>1, <3>5, <3>6, UseElse DEF CapSound, CapTyped, AroundTyped
    <3>7. (UseSound(c))'
      <4>1. UseSound(c) /\ audited[c] \in Nat /\ handed[c] \in Nat
        BY <1>3, <3>1 DEF CapSound, CapTyped, AroundTyped
      <4>2. PICK one : one = IF b.req.op = "redeem" THEN 1 ELSE 0
        OBVIOUS
      <4>3. Taken(c) = one /\ Unsent(c) = 0 /\ (Taken(c))' = 0 /\ (Unsent(c))' = one
        BY <1>1, <1>2, <1>3, <2>2, <2>4, <3>2, <3>5, <4>2 DEF Taken, Unsent
      <4>4. audited'[c] = audited[c] + one /\ one \in {0, 1}
        BY <1>3, <1>5, <4>1, <4>2 DEF CapInv, CapTyped, AroundTyped
      <4>5. PICK l : l = LeftOf(book.state.caps[c]) /\ l \in Nat
        BY <1>3, <3>1, NoCapApart DEF CapTyped, BookTyped, IsState, LeftOf, Records
      <4>6. l + audited[c] + one <= MaxUses /\ handed[c] <= audited[c]
        BY <4>1, <4>3, <4>4, <4>5 DEF UseSound
      <4>7. l + audited'[c] + 0 <= MaxUses /\ handed[c] + one <= audited'[c]
        BY <4>1, <4>4, <4>5, <4>6, CapabilityAssumption
      <4>8. LeftOf(book'.state.caps[c]) = l
        BY <1>2, <4>5 DEF LeftOf
      <4>9. ~NotIssued(c) /\ ~(NotIssued(c))'
        BY <1>3, <3>5, <4>1 DEF UseSound
      <4>10. UseSound(c) /\ Serves(c)
        BY <1>3, <3>5, <4>1
      <4> QED BY <1>2, <4>3, <4>7, <4>8, <4>9, <4>10 DEF UseSound
    <3> QED BY <2>4, <3>3, <3>4, <3>6, <3>7 DEF CapSound
  <2> QED BY <2>4, <2>5, <2>6, <2>7 DEF CapInv, CapTyped
<1> QED BY <1>1, <1>4, <1>5 DEF Audits
LEMMA Replies_step ==
  ASSUME CapInv, Replies
  PROVE  CapInv'
<1>1. PICK b, c, h : b = hand["broker"] /\ c = b.req.cap /\ h = Rest
  OBVIOUS
<1>2. /\ b.at = "reply" /\ b.at \in Confined /\ hand' = [hand EXCEPT !["broker"] = h] /\ capLock' = NoCap
      /\ UNCHANGED <<challenges, book, relay, capClock, filled, minted, audited, honoured, overwrote>>
      /\ \/ /\ handed' = [handed EXCEPT ![c] = IF b.req.op = "redeem" THEN @ + 1 ELSE @]
            /\ cancelled' = IF b.req.op = "cancel" THEN cancelled \cup {c} ELSE cancelled
         \/ UNCHANGED <<handed, cancelled>>
  BY <1>1 DEF Replies, Leaves, Confined
<1>3. /\ capLock = "broker" /\ hand["issuer"].at \notin Confined /\ c \in Caps /\ b.req \in Requests
  BY <1>1, <1>2, InHand DEF CapInv
<1>4. BrokerTyped(h) /\ h.at = "idle" /\ h.at \notin Confined
  BY <1>1, RestBoth DEF Confined
<1>5. HandsTyped' /\ hand'["broker"] = h /\ hand'["issuer"] = hand["issuer"]
  BY <1>2, <1>3, <1>4, NoCapApart, HandMoves DEF CapInv, CapTyped, HandsTyped
<1>6. BookTyped(book)' /\ handed' \in [Caps -> Nat] /\ cancelled' \subseteq Caps
  BY <1>2, <1>3 DEF CapInv, CapTyped, BookTyped, AroundTyped
<1>7. AroundTyped'
  BY <1>2, <1>6 DEF CapInv, CapTyped, AroundTyped, RelayTyped
<1>8. ASSUME ~overwrote'
      PROVE  CapSound'
  <2>1. CapSound /\ BrokerSound(b) /\ CapTyped
    BY <1>1, <1>2, <1>8 DEF CapInv, CapSound
  <2>2. b.out \in {"cancel", "redeem"} /\ (b.out = "redeem" <=> b.req.op = "redeem")
        /\ (b.req.op = "cancel" => Ended(book.state.caps[c]))
    BY <1>1, <1>2, <1>3, <2>1 DEF BrokerSound, Requests
  <2>3. /\ (HeldSound(h))' /\ (HeldSound(hand["issuer"]))' /\ h.at # "elsewhere" /\ hand["issuer"].at # "elsewhere"
        /\ (BrokerSound(h))' /\ hand["issuer"].at \notin {"append", "writing"}
    BY <1>3, <1>4, <1>5, OutOfWay DEF HeldSound
  <2>4. \A d \in Caps : (Serves(d) <=> d = c) /\ ~(Serves(d))' /\ ((NotIssued(d))' <=> NotIssued(d))
    BY <1>1, <1>2, <1>4, <1>5 DEF Serves, NotIssued
  <2>5. ASSUME NEW d \in Caps, d # c
        PROVE  (UseSound(d))'
    BY <1>2, <2>1, <2>4, <2>5, UseElse DEF CapSound, CapTyped, AroundTyped
  <2>6. (UseSound(c))'
    <3>1. UseSound(c) /\ audited[c] \in Nat /\ handed[c] \in Nat
      BY <1>3, <2>1 DEF CapSound, CapTyped, AroundTyped
    <3>2. PICK one : one = IF b.req.op = "redeem" THEN 1 ELSE 0
      OBVIOUS
    <3>3. Taken(c) = 0 /\ Unsent(c) = one /\ (Taken(c))' = 0 /\ (Unsent(c))' = 0
      BY <1>1, <1>2, <1>3, <2>4, <3>2 DEF Taken, Unsent
    <3>4. (handed'[c] = handed[c] + one \/ handed'[c] = handed[c]) /\ one \in {0, 1} /\ handed'[c] \in Nat
      BY <1>2, <1>3, <3>1, <3>2 DEF CapInv, CapTyped, AroundTyped
    <3>5. handed'[c] + 0 <= audited[c]
      BY <3>1, <3>3, <3>4 DEF UseSound
    <3>6. ~NotIssued(c) /\ ~(NotIssued(c))'
      BY <1>3, <2>4, <3>1 DEF UseSound
    <3>7. c \in cancelled' => Ended(book.state.caps[c])
      BY <1>2, <2>2, <3>1 DEF UseSound
    <3> QED BY <1>2, <1>3, <2>4, <3>1, <3>3, <3>5, <3>6, <3>7 DEF UseSound, LeftOf
  <2> QED BY <1>5, <2>3, <2>5, <2>6 DEF CapSound
<1> QED BY <1>5, <1>6, <1>7, <1>8 DEF CapInv, CapTyped

\* The journal as it is, or one snapshot of what the process holds.
LEMMA SettledFacts ==
  ASSUME CapTyped, NEW p \in {"broker", "issuer"}, NEW h, h = hand[p], book' = Settled(p)
  PROVE  BookTyped(book)' /\ (book'.state = book.state \/ book'.state = h.mem)
<1>1. PICK s, b : s = h.mem /\ b = book'
  OBVIOUS
<1>2. IsState(s)
  BY <1>1 DEF CapTyped, HandsTyped, BrokerTyped, IssuerTyped, IsHand
<1>3. b = book \/ b = Mended(s)
  BY <1>1 DEF Settled
<1>4. BookTyped(b) /\ (b.state = book.state \/ b.state = s)
  BY <1>2, <1>3, MendedTyped DEF CapTyped
<1> QED BY <1>1, <1>4

LEMMA IssueSettles_step ==
  ASSUME CapInv, Settles("issuer")
  PROVE  CapInv'
<1>1. PICK i, c, h : i = hand["issuer"] /\ c = i.req.cap /\ h = Rest
  OBVIOUS
<1>2. /\ i.at = "settle" /\ i.at \in Confined /\ hand' = [hand EXCEPT !["issuer"] = h] /\ capLock' = NoCap
      /\ book' = Settled("issuer")
      /\ UNCHANGED <<challenges, relay, capClock, filled, minted, handed, audited, honoured, cancelled, overwrote>>
  BY <1>1 DEF Settles, Leaves, Confined
<1>3. capLock = "issuer" /\ hand["broker"].at \notin Confined /\ c \in Caps /\ \A d \in Caps : ~Serves(d)
  BY <1>1, <1>2, InHand DEF CapInv
<1>4. (IssuerTyped(h))' /\ h.at = "idle" /\ h.at \notin Confined
  BY <1>1, RestBoth DEF Confined
<1>5. HandsTyped' /\ hand'["issuer"] = h /\ hand'["broker"] = hand["broker"]
  BY <1>2, <1>3, <1>4, NoCapApart, HandMoves DEF CapInv, CapTyped, HandsTyped
<1>6. BookTyped(book)' /\ (book'.state = book.state \/ book'.state = i.mem)
  BY <1>1, <1>2, SettledFacts DEF CapInv
<1>7. AroundTyped'
  BY <1>2 DEF CapInv, CapTyped, AroundTyped, RelayTyped
<1>8. ASSUME ~overwrote'
      PROVE  CapSound'
  <2>1. CapSound /\ HeldSound(i) /\ CapTyped
    BY <1>1, <1>2, <1>8 DEF CapInv, CapSound
  <2>2. /\ (HeldSound(h))' /\ (HeldSound(hand["broker"]))' /\ h.at # "elsewhere" /\ hand["broker"].at # "elsewhere"
        /\ (BrokerSound(hand["broker"]))' /\ h.at \notin {"append", "writing"}
    <3>1. PICK b : b = hand["broker"]
      OBVIOUS
    <3>2. (HeldSound(b))' /\ (BrokerSound(b))' /\ b.at # "elsewhere"
      BY <1>3, <3>1, OutOfWay
    <3> QED BY <1>4, <1>5, <3>1, <3>2, OutOfWay
  <2>3. \A d \in Caps : ~(Serves(d))' /\ ((NotIssued(d))' => NotIssued(d))
    BY <1>2, <1>3, <1>4, <1>5 DEF Serves, NotIssued
  <2>4. ASSUME NEW d \in Caps
        PROVE  (UseSound(d))'
    <3>1. /\ book'.state.caps[d] \in {book.state.caps[d], NoCap}
          /\ book'.state.caps[d] # NoCap
               => \A n \in honoured[d] : <<d, n>> \in book.state.nonces => <<d, n>> \in book'.state.nonces
      BY <1>1, <1>2, <1>6, <2>1 DEF HeldSound
    <3> QED BY <1>2, <1>3, <2>1, <2>3, <3>1, UseElse DEF CapSound
  <2> QED BY <1>4, <1>5, <2>2, <2>4 DEF CapSound
<1> QED BY <1>5, <1>6, <1>7, <1>8 DEF CapInv, CapTyped

LEMMA RedeemSettles_step ==
  ASSUME CapInv, Settles("broker")
  PROVE  CapInv'
<1>1. PICK b, c, n, h : /\ b = hand["broker"] /\ c = b.req.cap /\ n = b.req.nonce
                        /\ h = IF b.out = "pending" THEN Rest ELSE [b EXCEPT !.at = "audit"]
  OBVIOUS
<1>2. /\ b.at = "settle" /\ b.at \in Confined /\ hand' = [hand EXCEPT !["broker"] = h]
      /\ capLock' = (IF b.out = "pending" THEN NoCap ELSE capLock)
      /\ book' = Settled("broker")
      /\ honoured' = [honoured EXCEPT ![c] = @ \cup {IF n \in @ THEN "again" ELSE n}]
      /\ UNCHANGED <<challenges, relay, capClock, filled, minted, handed, audited, cancelled, overwrote>>
  BY <1>1 DEF Settles, Leaves, Confined
<1>3. /\ capLock = "broker" /\ hand["issuer"].at \notin Confined /\ c \in Caps /\ b.req \in Requests
      /\ BrokerTyped(b) /\ n \in Nonces
  BY <1>1, <1>2, InHand DEF CapInv, CapTyped, HandsTyped, Requests
<1>4. \/ b.out = "pending" /\ BrokerTyped(h) /\ h.at = "idle" /\ h.at \notin Confined
      \/ /\ b.out # "pending" /\ BrokerTyped(h) /\ h.at = "audit" /\ h.at \in Confined
         /\ h.req = b.req /\ h.out = b.out
  <2>1. CASE b.out = "pending"
    BY <1>1, <2>1, RestBoth DEF Confined
  <2>2. CASE b.out # "pending"
    <3>1. IsHand(h) /\ h.at = "audit" /\ h.req = b.req /\ h.out = b.out
      BY <1>1, <1>3, <2>2 DEF BrokerTyped, IsHand
    <3> QED BY <1>3, <2>2, <3>1 DEF BrokerTyped, Confined
  <2> QED BY <2>1, <2>2
<1>5. HandsTyped' /\ hand'["broker"] = h /\ hand'["issuer"] = hand["issuer"]
  BY <1>2, <1>3, <1>4, NoCapApart, HandMoves DEF CapInv, CapTyped, HandsTyped
<1>6. BookTyped(book)' /\ (book'.state = book.state \/ book'.state = b.mem)
  BY <1>1, <1>2, SettledFacts DEF CapInv
<1>7. AroundTyped'
  BY <1>2 DEF CapInv, CapTyped, AroundTyped, RelayTyped
<1>8. ASSUME ~overwrote'
      PROVE  CapSound'
  <2>1. CapSound /\ HeldSound(b) /\ BrokerSound(b) /\ CapTyped
    BY <1>1, <1>2, <1>8 DEF CapInv, CapSound
  <2>2. b.out \in {"cancel", "redeem", "pending"} /\ (b.req.op = "redeem" => b.out # "cancel")
        /\ (b.req.op = "cancel" => b.out = "cancel")
        /\ n \notin honoured[c] /\ <<c, n>> \in b.mem.nonces /\ <<c, n>> \in book.state.nonces
        /\ (b.out = "cancel" => Ended(book.state.caps[c]))
    BY <1>1, <1>2, <1>3, <2>1 DEF BrokerSound
  <2>3. book'.state.caps[c] = book.state.caps[c] /\ <<c, n>> \in book'.state.nonces
    BY <1>1, <1>2, <1>6, <2>1, <2>2 DEF HeldSound
  <2>4. (BrokerSound(h))'
    <3>1. CASE b.out = "pending"
      BY <1>4, <3>1, OutOfWay
    <3>2. CASE b.out # "pending"
      BY <1>1, <1>4, <2>2, <2>3, <3>2 DEF BrokerSound
    <3> QED BY <3>1, <3>2
  <2>5. /\ (HeldSound(h))' /\ h.at # "elsewhere"
        /\ (HeldSound(hand["issuer"]))' /\ hand["issuer"].at # "elsewhere" /\ hand["issuer"].at \notin {"append", "writing"}
    <3>1. PICK i : i = hand["issuer"]
      OBVIOUS
    <3>2. (HeldSound(i))' /\ i.at # "elsewhere" /\ i.at \notin {"append", "writing"}
      BY <1>3, <3>1, OutOfWay
    <3> QED BY <1>4, <1>5, <3>1, <3>2 DEF HeldSound
  <2>6. \A d \in Caps : (Serves(d) <=> d = c) /\ ((Serves(d))' => d = c) /\ ((NotIssued(d))' <=> NotIssued(d))
    BY <1>1, <1>2, <1>4, <1>5 DEF Serves, NotIssued
  <2>7. ASSUME NEW d \in Caps, d # c
        PROVE  (UseSound(d))'
    <3>1. /\ book'.state.caps[d] \in {book.state.caps[d], NoCap}
          /\ book'.state.caps[d] # NoCap
               => \A m \in honoured[d] : <<d, m>> \in book.state.nonces => <<d, m>> \in book'.state.nonces
      BY <1>1, <1>2, <1>6, <2>1, <2>7 DEF HeldSound
    <3>2. honoured'[d] = honoured[d]
      BY <1>2, <2>1, <2>7 DEF CapTyped, AroundTyped
    <3> QED BY <1>2, <2>1, <2>6, <2>7, <3>1, <3>2, UseElse DEF CapSound
  <2>8. (UseSound(c))'
    <3>1. UseSound(c) /\ Serves(c)
      BY <1>3, <2>1, <2>6 DEF CapSound
    <3>2. honoured'[c] = honoured[c] \cup {n}
      BY <1>2, <1>3, <2>1, <2>2 DEF CapTyped, AroundTyped
    <3>3. (Taken(c))' = Taken(c) /\ (Unsent(c))' = Unsent(c)
      BY <1>1, <1>2, <1>3, <1>4, <1>5, <3>1 DEF Taken, Unsent, Serves
    <3>4. book'.state.caps[c] # NoCap => \A m \in honoured'[c] : <<c, m>> \in book'.state.nonces
      <4>1. ASSUME book.state.caps[c] # NoCap, NEW m \in honoured[c]
            PROVE  <<c, m>> \in book'.state.nonces
        BY <1>1, <1>2, <1>3, <1>6, <2>1, <3>1, <4>1 DEF UseSound, HeldSound
      <4> QED BY <2>3, <3>2, <4>1
    <3>5. "again" \notin honoured'[c]
      BY <1>3, <3>1, <3>2, NoCapApart DEF UseSound
    <3>6. ~NotIssued(c) /\ ~(NotIssued(c))' /\ c \notin cancelled
      BY <1>3, <2>6, <3>1 DEF UseSound
    <3>7. LeftOf(book'.state.caps[c]) = LeftOf(book.state.caps[c])
      BY <2>3 DEF LeftOf
    <3> QED BY <1>2, <3>1, <3>3, <3>4, <3>5, <3>6, <3>7 DEF UseSound
  <2> QED BY <1>5, <2>4, <2>5, <2>7, <2>8 DEF CapSound
<1> QED BY <1>5, <1>6, <1>7, <1>8 DEF CapInv, CapTyped
\* Whoever is served or not, a step that only adds lines to the journal.
LEMMA UseSame ==
  ASSUME NEW d \in Caps, UseSound(d), book'.state.caps[d] = book.state.caps[d],
         \A n : <<d, n>> \in book.state.nonces => <<d, n>> \in book'.state.nonces,
         audited'[d] = audited[d], handed'[d] = handed[d], honoured'[d] = honoured[d], cancelled' = cancelled,
         (NotIssued(d))' => NotIssued(d), (Serves(d))' => Serves(d), (Taken(d))' = Taken(d), (Unsent(d))' = Unsent(d)
  PROVE  (UseSound(d))'
<1>1. LeftOf(book'.state.caps[d]) = LeftOf(book.state.caps[d])
  BY DEF LeftOf
<1> QED BY <1>1 DEF UseSound

LEMMA ReplayedFacts ==
  ASSUME BookTyped(book), NEW h, NEW c \in Caps, h.req.cap = c, IsState(h.mem),
         NEW lines, NEW torn \in BOOLEAN, NEW b, b = Replayed(book, h, lines, torn)
  PROVE  /\ BookTyped(b)
         /\ \A d \in Caps : d # c => b.state.caps[d] = book.state.caps[d]
         /\ b.state.caps[c] = (IF "record" \in lines THEN h.mem.caps[c] ELSE book.state.caps[c])
         /\ book.state.nonces \subseteq b.state.nonces
         /\ "nonce" \in lines => <<c, h.req.nonce>> \in b.state.nonces
<1>1. PICK caps, nonces, held, key : /\ caps = IF "record" \in lines THEN [book.state.caps EXCEPT ![c] = h.mem.caps[c]] ELSE book.state.caps
                                     /\ key = <<c, h.req.nonce>>
                                     /\ nonces = book.state.nonces \cup IF "nonce" \in lines THEN {key} ELSE {}
                                     /\ held = book.held + Cardinality(lines)
  OBVIOUS
<1>2. b = [state |-> [caps |-> caps, nonces |-> nonces], held |-> held, torn |-> torn]
  BY <1>1 DEF Replayed
<1>3. b.state = [caps |-> caps, nonces |-> nonces] /\ b.torn = torn /\ b.held = held
  BY <1>2
<1>4. b.state.caps = caps /\ b.state.nonces = nonces
  BY <1>3
<1>5. book.state.caps = [d \in Caps |-> book.state.caps[d]] /\ (\A d \in Caps : book.state.caps[d] \in Records \cup {NoCap})
      /\ h.mem.caps[c] \in Records \cup {NoCap}
  BY DEF BookTyped, IsState
<1>6. caps = [d \in Caps |-> caps[d]] /\ (\A d \in Caps : caps[d] \in Records \cup {NoCap})
  BY <1>1, <1>5
<1>7. IsState(b.state)
  BY <1>3, <1>4, <1>6 DEF IsState
<1>8. BookTyped(b)
  BY <1>2, <1>3, <1>7 DEF BookTyped
<1>9. /\ \A d \in Caps : d # c => caps[d] = book.state.caps[d]
      /\ caps[c] = (IF "record" \in lines THEN h.mem.caps[c] ELSE book.state.caps[c])
  BY <1>1, <1>5
<1> QED BY <1>1, <1>4, <1>8, <1>9

LEMMA Appends_step ==
  ASSUME CapInv, NEW p \in {"broker", "issuer"}, Appends(p)
  PROVE  CapInv'
<1>1. PICK b, c, n : b = hand[p] /\ c = b.req.cap /\ n = b.req.nonce
  OBVIOUS
<1>2. PICK whole \in {{}, b.lines \ {"record"}} :
         /\ book' = Replayed(book, b, whole, TRUE)
         /\ hand' = [hand EXCEPT ![p].at = "writing", ![p].lines = @ \ whole]
  BY <1>1 DEF Appends
<1>3. PICK h, lines, k : lines = b.lines \ whole /\ h = [b EXCEPT !.at = "writing", !.lines = lines] /\ k = book'
  OBVIOUS
<1>4. /\ b.at = "append" /\ b.at \in Confined /\ hand' = [hand EXCEPT ![p] = h]
      /\ UNCHANGED <<challenges, capLock, relay, capClock, filled, minted, history, overwrote>>
  BY <1>1, <1>2, <1>3 DEF Appends, Confined
<1>5. /\ capLock = p /\ (\A q \in {"broker", "issuer"} : q # p => hand[q].at \notin Confined) /\ c \in Caps
      /\ (p = "issuer" => \A d \in Caps : ~Serves(d))
  BY <1>1, <1>4, InHand DEF CapInv
<1>6. IsHand(b)
  BY <1>1 DEF CapInv, CapTyped, HandsTyped, BrokerTyped, IssuerTyped
<1>7. IsHand(h) /\ h.at = "writing" /\ h.req = b.req /\ h.lines = lines /\ h.mem = b.mem /\ h.out = b.out
  BY <1>3, <1>6 DEF IsHand
<1>8. /\ HandsTyped' /\ hand'[p] = h
      /\ \A q \in {"broker", "issuer"} : q # p => hand'[q] = hand[q]
  <2>1. CapTyped /\ hand[p].at \in Confined /\ b = hand[p] /\ minted' = minted /\ capLock' = capLock
    BY <1>1, <1>4 DEF CapInv
  <2>2. IsHand(h) /\ h.req = b.req /\ h.at \in {"writing", "settle"} /\ hand' = [hand EXCEPT ![p] = h]
    BY <1>4, <1>7
  <2>3. h.at \in Confined /\ b.at # "idle"
    BY <1>4, <1>7 DEF Confined
  <2>4. p = "broker" => BrokerTyped(h)
    BY <2>1, <2>2, <2>3 DEF CapTyped, HandsTyped, BrokerTyped
  <2>5. p = "issuer" => (IssuerTyped(h))'
    BY <2>1, <2>2, <2>3 DEF CapTyped, HandsTyped, IssuerTyped
  <2> QED BY <1>5, <2>1, <2>2, <2>3, <2>4, <2>5, HandMoves DEF CapTyped, HandsTyped
<1>9. "record" \notin whole
  BY <1>2
<1>10. /\ BookTyped(k) /\ (\A d \in Caps : k.state.caps[d] = book.state.caps[d])
       /\ book.state.nonces \subseteq k.state.nonces /\ ("nonce" \in whole => <<c, n>> \in k.state.nonces)
  <2>1. PICK yes \in BOOLEAN : yes = TRUE
    OBVIOUS
  <2>2. BookTyped(book) /\ b.req.cap = c /\ IsState(b.mem) /\ k = Replayed(book, b, whole, yes)
    BY <1>1, <1>2, <1>3, <1>6, <2>1 DEF CapInv, CapTyped, IsHand
  <2>3. c \in Caps
    BY <1>5
  <2>4. /\ BookTyped(k) /\ (\A d \in Caps : d # c => k.state.caps[d] = book.state.caps[d])
        /\ k.state.caps[c] = (IF "record" \in whole THEN b.mem.caps[c] ELSE book.state.caps[c])
        /\ book.state.nonces \subseteq k.state.nonces /\ ("nonce" \in whole => <<c, b.req.nonce>> \in k.state.nonces)
    BY <2>2, <2>3, ReplayedFacts
  <2> QED BY <1>1, <1>9, <2>4
<1>11. BookTyped(book)' /\ AroundTyped'
  BY <1>3, <1>4, <1>10 DEF CapInv, CapTyped, AroundTyped, RelayTyped, history
<1>12. ASSUME ~overwrote'
       PROVE  CapSound'
  <2>1. CapSound /\ HeldSound(b) /\ CapTyped /\ (p = "broker" => BrokerSound(b))
    BY <1>1, <1>4, <1>12 DEF CapInv, CapSound
  <2>2. (HeldSound(h))'
    BY <1>1, <1>3, <1>4, <1>5, <1>7, <1>9, <1>10, <2>1 DEF HeldSound, history
  <2>3. p = "broker" => (BrokerSound(h))'
    BY <1>1, <1>3, <1>4, <1>5, <1>7, <1>10, <2>1 DEF BrokerSound, history
  <2>4. \A q \in {"broker", "issuer"} : q # p =>
          (HeldSound(hand[q]))' /\ hand'[q].at # "elsewhere" /\ (BrokerSound(hand[q]))' /\ hand'[q].at \notin {"append", "writing"}
    <3>1. ASSUME NEW q \in {"broker", "issuer"}, q # p, NEW i, i = hand[q]
          PROVE  (HeldSound(i))' /\ i.at # "elsewhere" /\ (BrokerSound(i))' /\ i.at \notin {"append", "writing"}
      BY <1>5, <3>1, OutOfWay
    <3> QED BY <1>8, <3>1
  <2>5. /\ \A q \in {"broker", "issuer"} : hand'[q].at # "elsewhere" /\ (HeldSound(hand[q]))'
        /\ (BrokerSound(hand["broker"]))'
    BY <1>7, <1>8, <2>2, <2>3, <2>4
  <2>6. hand'["issuer"].at \in {"append", "writing"}
          => hand'["issuer"].mem.caps[hand'["issuer"].req.cap].left = MaxUses
    <3>1. CASE p = "issuer"
      BY <1>1, <1>4, <1>7, <1>8, <2>1, <3>1 DEF CapSound
    <3>2. CASE p = "broker"
      BY <2>4, <3>2
    <3> QED BY <3>1, <3>2
  <2>7. ASSUME NEW d \in Caps
        PROVE  (UseSound(d))'
    <3>1. (Serves(d))' <=> Serves(d)
      BY <1>1, <1>4, <1>5, <1>7, <1>8 DEF Serves, Confined
    <3>2. (NotIssued(d))' <=> NotIssued(d)
      BY <1>1, <1>4, <1>7, <1>8 DEF NotIssued
    <3>3. (Taken(d))' = Taken(d) /\ (Unsent(d))' = Unsent(d)
      BY <1>1, <1>4, <1>5, <1>7, <1>8, <3>1 DEF Taken, Unsent
    <3>4. UseSound(d)
      BY <2>1 DEF CapSound
    <3> QED BY <1>3, <1>4, <1>10, <3>1, <3>2, <3>3, <3>4, UseSame DEF history
  <2> QED BY <2>5, <2>6, <2>7 DEF CapSound
<1> QED BY <1>8, <1>11, <1>12 DEF CapInv, CapTyped
LEMMA Appended_step ==
  ASSUME CapInv, NEW p \in {"broker", "issuer"}, Appended(p)
  PROVE  CapInv'
<1>1. PICK b, c, n, h, k, lines : /\ b = hand[p] /\ c = b.req.cap /\ n = b.req.nonce /\ h = [b EXCEPT !.at = "settle"]
                                  /\ k = book' /\ lines = b.lines
  OBVIOUS
<1>2. /\ b.at \in {"writing", "elsewhere"} /\ b.at \in Confined /\ b.at # "idle" /\ hand' = [hand EXCEPT ![p] = h]
      /\ k = (IF b.at = "writing" THEN Replayed(book, b, lines, FALSE) ELSE book)
      /\ UNCHANGED <<challenges, capLock, relay, capClock, filled, minted, history, overwrote>>
  BY <1>1 DEF Appended, Confined
<1>3. /\ capLock = p /\ (\A q \in {"broker", "issuer"} : q # p => hand[q].at \notin Confined) /\ c \in Caps
      /\ (p = "issuer" => \A d \in Caps : ~Serves(d))
  BY <1>1, <1>2, InHand DEF CapInv
<1>4. IsHand(b)
  BY <1>1 DEF CapInv, CapTyped, HandsTyped, BrokerTyped, IssuerTyped
<1>5. /\ IsHand(h) /\ h.at = "settle" /\ h.req = b.req /\ h.lines = lines /\ h.mem = b.mem /\ h.out = b.out
      /\ h.at \in Confined
  BY <1>1, <1>4 DEF IsHand, Confined
<1>6. /\ HandsTyped' /\ hand'[p] = h
      /\ \A q \in {"broker", "issuer"} : q # p => hand'[q] = hand[q]
  <2>1. CapTyped /\ minted' = minted /\ capLock' = capLock
    BY <1>2 DEF CapInv
  <2>2. p = "broker" => BrokerTyped(h)
    BY <1>1, <1>2, <1>5, <2>1 DEF CapTyped, HandsTyped, BrokerTyped
  <2>3. p = "issuer" => (IssuerTyped(h))'
    BY <1>1, <1>2, <1>5, <2>1 DEF CapTyped, HandsTyped, IssuerTyped
  <2> QED BY <1>2, <1>3, <1>5, <2>1, <2>2, <2>3, HandMoves DEF CapTyped, HandsTyped
<1>7. b.at = "writing" =>
        /\ BookTyped(k) /\ (\A d \in Caps : d # c => k.state.caps[d] = book.state.caps[d])
        /\ k.state.caps[c] = (IF "record" \in lines THEN b.mem.caps[c] ELSE book.state.caps[c])
        /\ book.state.nonces \subseteq k.state.nonces /\ ("nonce" \in lines => <<c, n>> \in k.state.nonces)
  <2>1. PICK no \in BOOLEAN : no = FALSE
    OBVIOUS
  <2>2. SUFFICES ASSUME b.at = "writing"
                 PROVE  /\ BookTyped(k) /\ (\A d \in Caps : d # c => k.state.caps[d] = book.state.caps[d])
                        /\ k.state.caps[c] = (IF "record" \in lines THEN b.mem.caps[c] ELSE book.state.caps[c])
                        /\ book.state.nonces \subseteq k.state.nonces /\ ("nonce" \in lines => <<c, b.req.nonce>> \in k.state.nonces)
    BY <1>1
  <2>3. BookTyped(book) /\ b.req.cap = c /\ IsState(b.mem) /\ k = Replayed(book, b, lines, no)
    BY <1>1, <1>2, <1>4, <2>1, <2>2 DEF CapInv, CapTyped, IsHand
  <2>4. c \in Caps
    BY <1>3
  <2> QED BY <2>3, <2>4, ReplayedFacts
<1>8. BookTyped(book)' /\ AroundTyped'
  BY <1>1, <1>2, <1>7 DEF CapInv, CapTyped, BookTyped, AroundTyped, RelayTyped, history
<1>9. ASSUME ~overwrote'
      PROVE  CapSound'
  <2>1. CapSound /\ HeldSound(b) /\ CapTyped /\ (p = "broker" => BrokerSound(b)) /\ b.at = "writing"
    BY <1>1, <1>2, <1>9 DEF CapInv, CapSound
  <2>2. /\ (\A d \in Caps : d # c => k.state.caps[d] = book.state.caps[d]) /\ k.state.caps[c] = b.mem.caps[c]
        /\ book.state.nonces \subseteq k.state.nonces /\ ("nonce" \in lines => <<c, n>> \in k.state.nonces)
        /\ b.mem.caps[c] # NoCap
    BY <1>1, <1>7, <2>1 DEF HeldSound
  <2>3. (HeldSound(h))'
    BY <1>1, <1>2, <1>3, <1>5, <2>1, <2>2 DEF HeldSound, history
  <2>4. p = "broker" => (BrokerSound(h))'
    BY <1>1, <1>2, <1>3, <1>5, <2>1, <2>2 DEF BrokerSound, history
  <2>5. \A q \in {"broker", "issuer"} : q # p =>
          (HeldSound(hand[q]))' /\ hand'[q].at # "elsewhere" /\ (BrokerSound(hand[q]))' /\ hand'[q].at \notin {"append", "writing"}
    <3>1. ASSUME NEW q \in {"broker", "issuer"}, q # p, NEW i, i = hand[q]
          PROVE  (HeldSound(i))' /\ i.at # "elsewhere" /\ (BrokerSound(i))' /\ i.at \notin {"append", "writing"}
      BY <1>3, <3>1, OutOfWay
    <3> QED BY <1>6, <3>1
  <2>6. /\ \A q \in {"broker", "issuer"} : hand'[q].at # "elsewhere" /\ (HeldSound(hand[q]))'
        /\ (BrokerSound(hand["broker"]))'
    BY <1>5, <1>6, <2>3, <2>4, <2>5
  <2>7. hand'["issuer"].at \notin {"append", "writing"}
    BY <1>5, <1>6, <2>5
  <2>8. ASSUME NEW d \in Caps, d # c
        PROVE  (UseSound(d))'
    <3>1. ~Serves(d) /\ ~(Serves(d))'
      BY <1>1, <1>2, <1>3, <1>5, <1>6, <2>8 DEF Serves, Confined
    <3>2. (NotIssued(d))' => NotIssued(d)
      BY <1>1, <1>2, <1>5, <1>6 DEF NotIssued
    <3>3. UseSound(d)
      BY <2>1 DEF CapSound
    <3> QED BY <1>1, <1>2, <2>1, <2>2, <2>8, <3>1, <3>2, <3>3, UseElse DEF history
  <2>9. (UseSound(c))'
    <3>1. UseSound(c) /\ audited[c] \in Nat /\ handed[c] \in Nat
      BY <1>3, <2>1 DEF CapSound, CapTyped, AroundTyped
    <3>2. LeftOf(book'.state.caps[c]) = b.mem.caps[c].left
      BY <1>1, <2>2 DEF LeftOf
    <3>3. CASE p = "broker"
      <4>1. Serves(c) /\ (Serves(c))'
        BY <1>1, <1>2, <1>5, <1>6, <3>3 DEF Serves
      <4>2. /\ (Taken(c))' = (IF b.out = "redeem" THEN 1 ELSE 0) /\ (Unsent(c))' = 0 /\ Unsent(c) = 0
        BY <1>1, <1>2, <1>5, <1>6, <2>1, <3>3, <4>1 DEF Taken, Unsent
      <4>3. b.mem.caps[c].left + audited[c] + (IF b.out = "redeem" THEN 1 ELSE 0) <= MaxUses /\ book.state.caps[c] # NoCap
        BY <1>1, <1>2, <2>1, <3>3 DEF BrokerSound
      <4>4. ~NotIssued(c) /\ ~(NotIssued(c))' /\ c \notin cancelled
        BY <1>2, <1>6, <3>1, <3>3, <4>1 DEF UseSound, NotIssued
      <4>5. LeftOf(book'.state.caps[c]) + audited'[c] + (Taken(c))' <= MaxUses
        BY <1>2, <3>2, <4>2, <4>3 DEF history
      <4>6. handed'[c] + (Unsent(c))' <= audited'[c]
        BY <1>2, <3>1, <4>2 DEF history, UseSound
      <4>7. \A m \in honoured'[c] : <<c, m>> \in book'.state.nonces
        BY <1>1, <1>2, <2>2, <3>1, <4>3 DEF history, UseSound
      <4>8. "again" \notin honoured'[c] /\ c \notin cancelled'
        BY <1>2, <3>1, <4>4 DEF history, UseSound
      <4> QED BY <4>4, <4>5, <4>6, <4>7, <4>8 DEF UseSound
    <3>4. CASE p = "issuer"
      <4>1. NotIssued(c) /\ ~Serves(c) /\ ~(Serves(c))'
        BY <1>1, <1>2, <1>3, <1>5, <1>6, <2>1, <3>4 DEF NotIssued, Serves
      <4>2. audited[c] = 0 /\ honoured[c] = {} /\ c \notin cancelled /\ handed[c] = 0
        <5>1. PICK g, u : g = handed[c] /\ u = Unsent(c) /\ u \in {0, 1}
          BY DEF Unsent
        <5>2. g + u <= 0
          BY <3>1, <4>1, <5>1 DEF UseSound
        <5> QED BY <3>1, <4>1, <5>1, <5>2 DEF UseSound
      <4>3. b.mem.caps[c].left = MaxUses
        BY <1>1, <2>1, <3>4 DEF CapSound
      <4>4. (Taken(c))' = 0 /\ (Unsent(c))' = 0
        BY <4>1 DEF Taken, Unsent
      <4>5. ~(NotIssued(c))'
        <5>1. c \in minted
          BY <1>1, <1>2, <2>1, <3>4 DEF CapTyped, HandsTyped, IssuerTyped
        <5> QED BY <1>2, <1>5, <1>6, <3>4, <5>1 DEF NotIssued
      <4>6. LeftOf(book'.state.caps[c]) + audited'[c] + (Taken(c))' <= MaxUses /\ handed'[c] + (Unsent(c))' <= audited'[c]
        BY <1>2, <3>2, <4>2, <4>3, <4>4, CapabilityAssumption DEF history
      <4> QED BY <1>2, <4>2, <4>5, <4>6 DEF UseSound, history
    <3> QED BY <3>3, <3>4
  <2> QED BY <2>6, <2>7, <2>8, <2>9 DEF CapSound
<1> QED BY <1>6, <1>8, <1>9 DEF CapInv, CapTyped
LEMMA OutcomeFacts ==
  ASSUME NEW r \in Records, r.left >= 1, NEW out \in {"cancel", "redeem", "pending"}, NEW q, q = OutcomeRecord(out, r)
  PROVE  /\ q \in Records /\ q # NoCap
         /\ q.left + (IF out = "redeem" THEN 1 ELSE 0) = r.left
         /\ out = "cancel" => Ended(q)
<1>1. r \in [state : {"issued", "spent", "cancelled"}, left : 0..MaxUses, ends : 1..2 * CapSecs]
  BY DEF Records
<1>2. r.left \in 0..MaxUses /\ MaxUses \in Nat
  BY <1>1, CapabilityAssumption
<1>3. CASE out = "cancel"
  <2>1. q = [r EXCEPT !.state = "cancelled"]
    BY <1>3 DEF OutcomeRecord
  <2> QED BY <1>1, <1>2, <1>3, <2>1, NoCapApart DEF Records, Ended
<1>4. CASE out = "redeem"
  <2>1. q = [r EXCEPT !.left = r.left - 1, !.state = IF r.left = 1 THEN "spent" ELSE r.state]
    BY <1>4 DEF OutcomeRecord, Spend
  <2>2. q.left = r.left - 1 /\ r.left - 1 \in 0..MaxUses
    BY <1>1, <1>2, <2>1
  <2>3. q \in Records
    BY <1>1, <2>1, <2>2 DEF Records
  <2> QED BY <1>2, <1>4, <2>2, <2>3, NoCapApart
<1>5. CASE out = "pending"
  <2>1. q = r
    BY <1>5 DEF OutcomeRecord
  <2> QED BY <1>2, <1>5, <2>1, NoCapApart
<1> QED BY <1>3, <1>4, <1>5

\* The state a process writes is the loaded one with its own capability changed.
Changed(f, c, r, nonces) == [caps |-> [f.caps EXCEPT ![c] = r], nonces |-> nonces]

LEMMA ChangedFacts ==
  ASSUME NEW f, IsState(f), NEW c \in Caps, NEW r \in Records, NEW nonces, NEW m, m = Changed(f, c, r, nonces)
  PROVE  IsState(m) /\ m.caps[c] = r /\ m.nonces = nonces /\ \A d \in Caps : d # c => m.caps[d] = f.caps[d]
<1>1. PICK caps : caps = [f.caps EXCEPT ![c] = r]
  OBVIOUS
<1>2. f.caps = [d \in Caps |-> f.caps[d]] /\ \A d \in Caps : f.caps[d] \in Records \cup {NoCap}
  BY DEF IsState
<1>3. caps = [d \in Caps |-> caps[d]] /\ caps[c] = r /\ (\A d \in Caps : d # c => caps[d] = f.caps[d])
  BY <1>1, <1>2
<1>4. m = [caps |-> caps, nonces |-> nonces]
  BY <1>1 DEF Changed
<1>5. m.caps = caps /\ m.nonces = nonces
  BY <1>4
<1> QED BY <1>2, <1>3, <1>4, <1>5 DEF IsState

LEMMA Issues_step ==
  ASSUME CapInv, Issues
  PROVE  CapInv'
<1>1. PICK i, c, s, now, f : i = hand["issuer"] /\ c = i.req.cap /\ s = book.state /\ now = capClock /\ f = ForgetStale(s, now)
  OBVIOUS
<1>2. PICK rec, m, lines, h : /\ rec = [state |-> "issued", left |-> MaxUses, ends |-> i.now]
                              /\ m = [f EXCEPT !.caps[c] = rec] /\ lines = Entries(NoCap)
                              /\ h = [i EXCEPT !.at = "append", !.mem = m, !.lines = lines]
  OBVIOUS
<1>3. /\ i.at = "waits" /\ capLock = NoCap /\ Load /\ capLock' = "issuer" /\ hand' = [hand EXCEPT !["issuer"] = h]
      /\ UNCHANGED <<challenges, relay, capClock, filled, minted, history, overwrote>>
  <2>1. hand' = [hand EXCEPT !["issuer"].at = "append", !["issuer"].mem = m, !["issuer"].lines = lines]
    BY <1>1, <1>2 DEF Issues, Loaded
  <2>2. hand' = [hand EXCEPT !["issuer"] = h]
    BY <1>1, <1>2, <2>1 DEF CapInv, CapTyped, HandsTyped
  <2> QED BY <1>1, <2>2 DEF Issues
<1>4. BookTyped(book)' /\ book'.state = book.state
  BY <1>3, LoadFacts DEF CapInv, CapTyped
<1>5. /\ IsState(f)
      /\ \A d \in Caps : f.caps[d] = NoCap \/ f.caps[d] = s.caps[d]
      /\ \A d \in Caps : f.caps[d] # NoCap => \A n : <<d, n>> \in s.nonces => <<d, n>> \in f.nonces
  <2>1. IsState(s) /\ f = ForgetStale(s, now)
    BY <1>1 DEF CapInv, CapTyped, BookTyped
  <2> QED BY <2>1, ForgetFacts
<1>6. IssuerTyped(i) /\ c \in Caps /\ c \in minted /\ i.now \in 1..2 * CapSecs
  <2>1. IssuerTyped(i)
    BY <1>1 DEF CapInv, CapTyped, HandsTyped
  <2>2. PICK d \in Caps : i.req = Issue(d)
    BY <1>3, <2>1 DEF IssuerTyped
  <2>3. c = d
    BY <1>1, <2>2 DEF Issue
  <2> QED BY <1>1, <1>3, <2>1, <2>3 DEF IssuerTyped
<1>7. rec \in Records /\ rec # NoCap /\ rec.left = MaxUses
  <2>1. rec \in Records
    BY <1>2, <1>6, CapabilityAssumption DEF Records
  <2> QED BY <1>2, <2>1, NoCapApart
<1>8. IsState(m) /\ m.caps[c] = rec /\ m.nonces = f.nonces /\ \A d \in Caps : d # c => m.caps[d] = f.caps[d]
  <2>1. PICK nonces : nonces = f.nonces
    OBVIOUS
  <2>2. m = Changed(f, c, rec, nonces)
    BY <1>2, <1>5, <2>1 DEF IsState, Changed
  <2>3. IsState(f) /\ c \in Caps /\ rec \in Records
    BY <1>5, <1>6, <1>7
  <2>4. IsState(m) /\ m.caps[c] = rec /\ m.nonces = nonces /\ \A d \in Caps : d # c => m.caps[d] = f.caps[d]
    BY <2>2, <2>3, ChangedFacts
  <2> QED BY <2>1, <2>4
<1>9. IsHand(h) /\ h.at = "append" /\ h.req = i.req /\ h.mem = m /\ h.lines = lines
  <2>1. IsHand(i)
    BY <1>6 DEF IssuerTyped
  <2> QED BY <1>2, <1>8, <2>1 DEF IsHand
<1>10. "record" \in lines
  BY <1>2 DEF Entries
<1>11. /\ HandsTyped' /\ hand'["issuer"] = h /\ hand'["broker"] = hand["broker"]
  <2>1. (IssuerTyped(h))'
    BY <1>1, <1>3, <1>6, <1>9 DEF IssuerTyped
  <2>2. h.at \in Confined
    BY <1>9 DEF Confined
  <2> QED BY <1>3, <2>1, <2>2, NoCapApart, HandMoves DEF CapInv, CapTyped
<1>12. hand["broker"].at \notin Confined
  BY <1>3, NoCapApart DEF CapInv, CapTyped, HandsTyped
<1>13. AroundTyped'
  BY <1>3 DEF CapInv, CapTyped, AroundTyped, RelayTyped, history
<1>14. ASSUME ~overwrote'
       PROVE  CapSound'
  <2>1. CapSound /\ CapTyped
    BY <1>3, <1>14 DEF CapInv
  <2>2. \A d \in Caps : UseSound(d) /\ ~Serves(d) /\ ~(Serves(d))' /\ ((NotIssued(d))' => NotIssued(d))
    <3>1. \A d \in Caps : (NotIssued(d))' => NotIssued(d)
      BY <1>1, <1>3, <1>9, <1>11 DEF NotIssued
    <3> QED BY <1>11, <1>12, <2>1, <3>1 DEF CapSound, Serves
  <2>3. honoured[c] = {}
    <3>1. NotIssued(c)
      BY <1>1, <1>3 DEF NotIssued
    <3> QED BY <1>6, <2>2, <3>1 DEF UseSound
  <2>4. \A d \in Caps : m.caps[d] # NoCap => \A n \in honoured[d] : <<d, n>> \in m.nonces
    <3>1. ASSUME NEW d \in Caps, d # c, m.caps[d] # NoCap, NEW n \in honoured[d]
          PROVE  <<d, n>> \in m.nonces
      <4>1. f.caps[d] # NoCap /\ s.caps[d] # NoCap
        BY <1>5, <1>8, <3>1
      <4>2. <<d, n>> \in s.nonces
        BY <1>1, <2>2, <3>1, <4>1 DEF UseSound
      <4> QED BY <1>5, <1>8, <4>1, <4>2
    <3> QED BY <2>3, <3>1
  <2>5. (HeldSound(h))'
    <3>1. \A d \in Caps : d # h.req.cap => h.mem.caps[d] \in {book'.state.caps[d], NoCap}
      BY <1>1, <1>4, <1>5, <1>8, <1>9
    <3>2. \A d \in Caps : h.mem.caps[d] # NoCap => \A n \in honoured'[d] : <<d, n>> \in h.mem.nonces
      BY <1>3, <1>9, <2>4 DEF history
    <3>3. "record" \in h.lines /\ h.mem.caps[h.req.cap] # NoCap
      BY <1>1, <1>7, <1>8, <1>9, <1>10
    <3> QED BY <1>9, <3>1, <3>2, <3>3 DEF HeldSound
  <2>6. /\ (HeldSound(hand["broker"]))' /\ (BrokerSound(hand["broker"]))' /\ hand'["broker"].at # "elsewhere"
    <3>1. PICK b : b = hand["broker"]
      OBVIOUS
    <3>2. (HeldSound(b))' /\ (BrokerSound(b))' /\ b.at # "elsewhere"
      BY <1>12, <3>1, OutOfWay
    <3> QED BY <1>11, <3>1, <3>2
  <2>7. hand'["issuer"].mem.caps[hand'["issuer"].req.cap].left = MaxUses
    BY <1>1, <1>7, <1>8, <1>9, <1>11
  <2>8. ASSUME NEW d \in Caps
        PROVE  (UseSound(d))'
    BY <1>3, <1>4, <2>1, <2>2, UseElse DEF history
  <2> QED BY <1>9, <1>11, <2>5, <2>6, <2>7, <2>8 DEF CapSound
<1> QED BY <1>4, <1>11, <1>13, <1>14 DEF CapInv, CapTyped
LEMMA Admits_step ==
  ASSUME CapInv, Admits
  PROVE  CapInv'
<1>1. PICK b, req, c, n, s, now, f :
        /\ b = hand["broker"] /\ req = b.req /\ c = req.cap /\ n = req.nonce
        /\ s = book.state /\ now = capClock /\ f = ForgetStale(s, now)
  OBVIOUS
<1>2. PICK out, r, q, nonces, lines : /\ out = Outcome(req) /\ r = f.caps[c] /\ q = OutcomeRecord(out, r)
                                      /\ nonces = f.nonces \cup {<<c, n>>} /\ lines = Entries(n)
  OBVIOUS
<1>3. PICK m, h : /\ m = [f EXCEPT !.nonces = nonces, !.caps[c] = q]
                  /\ h = [b EXCEPT !.at = "append", !.out = out, !.mem = m, !.lines = lines]
  OBVIOUS
<1>4. /\ b.at = "waits" /\ capLock = NoCap /\ Load /\ capLock' = "broker" /\ hand' = [hand EXCEPT !["broker"] = h]
      /\ UNCHANGED <<challenges, relay, capClock, filled, minted, history, overwrote>>
      /\ Admitted(req, b.now) /\ out # "denied"
  <2>1. hand' = [hand EXCEPT !["broker"].at = "append", !["broker"].out = out, !["broker"].mem = m, !["broker"].lines = lines]
    BY <1>1, <1>2, <1>3 DEF Admits, Loaded
  <2>2. hand' = [hand EXCEPT !["broker"] = h]
    <3>1. hand = [p \in {"broker", "issuer"} |-> hand[p]]
      BY DEF CapInv, CapTyped, HandsTyped
    <3>2. PICK at, h1, h2, h3 : /\ at = "append" /\ h1 = [b EXCEPT !.at = at] /\ h2 = [h1 EXCEPT !.out = out]
                                /\ h3 = [h2 EXCEPT !.mem = m]
      OBVIOUS
    <3>3. h = [h3 EXCEPT !.lines = lines]
      BY <1>3, <3>2, Zenon
    <3>4. hand' = [[[[hand EXCEPT !["broker"].at = at] EXCEPT !["broker"].out = out] EXCEPT !["broker"].mem = m]
                     EXCEPT !["broker"].lines = lines]
      BY <2>1, <3>2, Zenon
    <3>5. PICK g1, g2, g3 : g1 = [hand EXCEPT !["broker"] = h1] /\ g2 = [hand EXCEPT !["broker"] = h2] /\ g3 = [hand EXCEPT !["broker"] = h3]
      OBVIOUS
    <3>6. g1 = [hand EXCEPT !["broker"].at = at]
      BY <1>1, <3>1, <3>2, <3>5
    <3>7. g2 = [g1 EXCEPT !["broker"].out = out]
      BY <3>1, <3>2, <3>5
    <3>8. g3 = [g2 EXCEPT !["broker"].mem = m]
      BY <3>1, <3>2, <3>5
    <3>9. [hand EXCEPT !["broker"] = h] = [g3 EXCEPT !["broker"].lines = lines]
      BY <3>1, <3>3, <3>5
    <3> QED BY <3>4, <3>6, <3>7, <3>8, <3>9
  <2>3. Admitted(req, b.now) /\ out # "denied"
    BY <1>1, <1>2 DEF Admits
  <2> QED BY <1>1, <2>2, <2>3 DEF Admits
<1>5. BookTyped(book)' /\ book'.state = book.state
  BY <1>4, LoadFacts DEF CapInv, CapTyped
<1>6. /\ IsState(f)
      /\ \A d \in Caps : f.caps[d] = NoCap \/ (f.caps[d] = s.caps[d] /\ Redeemable(s.caps[d], now))
      /\ \A d \in Caps : f.caps[d] # NoCap => \A k : <<d, k>> \in s.nonces => <<d, k>> \in f.nonces
  <2>1. IsState(s) /\ f = ForgetStale(s, now)
    BY <1>1 DEF CapInv, CapTyped, BookTyped
  <2> QED BY <2>1, ForgetFacts
<1>7. BrokerTyped(b) /\ req \in Requests /\ c \in Caps /\ n \in Nonces
  BY <1>1, <1>4 DEF CapInv, CapTyped, HandsTyped, BrokerTyped, Requests
<1>8. /\ r # NoCap /\ r.left >= 1 /\ r.state = "issued" /\ <<c, n>> \notin f.nonces /\ r = s.caps[c]
      /\ out \in {"cancel", "redeem", "pending"} /\ (req.op = "cancel" => out = "cancel")
      /\ (req.op = "redeem" => out # "cancel") /\ r \in Records
  <2>1. r # NoCap /\ r.left >= 1 /\ r.state = "issued" /\ <<c, n>> \notin f.nonces
    BY <1>1, <1>2, <1>4 DEF Admitted, Loaded, Redeemable
  <2>2. out \in {"cancel", "redeem", "pending"} /\ (req.op = "cancel" => out = "cancel")
        /\ (req.op = "redeem" => out # "cancel")
    BY <1>2, <1>4 DEF Outcome
  <2> QED BY <1>2, <1>6, <1>7, <2>1, <2>2 DEF IsState
<1>9. /\ q \in Records /\ q # NoCap
      /\ q.left + (IF out = "redeem" THEN 1 ELSE 0) = r.left /\ (out = "cancel" => Ended(q))
  BY <1>2, <1>8, OutcomeFacts
<1>10. IsState(m) /\ m.caps[c] = q /\ m.nonces = nonces /\ \A d \in Caps : d # c => m.caps[d] = f.caps[d]
  <2>1. m = Changed(f, c, q, nonces)
    BY <1>3, <1>6 DEF IsState, Changed
  <2>2. IsState(f) /\ c \in Caps /\ q \in Records
    BY <1>6, <1>7, <1>9
  <2> QED BY <2>1, <2>2, ChangedFacts
<1>11. IsHand(h) /\ h.at = "append" /\ h.req = req /\ h.mem = m /\ h.lines = lines /\ h.out = out
  <2>1. IsHand(b)
    BY <1>7 DEF BrokerTyped
  <2> QED BY <1>1, <1>3, <1>10, <2>1 DEF IsHand
<1>12. "record" \in lines /\ "nonce" \in lines
  BY <1>2, <1>7, NoCapApart DEF Entries
<1>13. h.at \in Confined /\ hand["issuer"].at \notin Confined /\ b.at \notin Confined
  BY <1>4, <1>11, NoCapApart DEF CapInv, CapTyped, HandsTyped, Confined
<1>14. HandsTyped' /\ hand'["broker"] = h /\ hand'["issuer"] = hand["issuer"]
  <2>1. BrokerTyped(h)
    BY <1>7, <1>11, <1>13 DEF BrokerTyped
  <2> QED BY <1>4, <1>13, <2>1, NoCapApart, HandMoves DEF CapInv, CapTyped
<1>15. AroundTyped'
  BY <1>4 DEF CapInv, CapTyped, AroundTyped, RelayTyped, history
<1>16. ASSUME ~overwrote'
       PROVE  CapSound'
  <2>1. CapSound /\ CapTyped
    BY <1>4, <1>16 DEF CapInv
  <2>2. \A d \in Caps : UseSound(d) /\ ~Serves(d) /\ ((Serves(d))' <=> d = c) /\ ((NotIssued(d))' <=> NotIssued(d))
    <3>1. \A d \in Caps : (NotIssued(d))' <=> NotIssued(d)
      BY <1>4, <1>14 DEF NotIssued
    <3>2. \A d \in Caps : ~Serves(d) /\ ((Serves(d))' <=> d = c)
      BY <1>1, <1>11, <1>13, <1>14 DEF Serves
    <3> QED BY <2>1, <3>1, <3>2 DEF CapSound
  <2>3. \A d \in Caps : f.caps[d] # NoCap => \A k \in honoured[d] : <<d, k>> \in f.nonces
    <3>1. ASSUME NEW d \in Caps, f.caps[d] # NoCap, NEW k \in honoured[d]
          PROVE  <<d, k>> \in f.nonces
      <4>1. s.caps[d] # NoCap
        BY <1>6, <3>1
      <4>2. <<d, k>> \in s.nonces
        BY <1>1, <2>2, <3>1, <4>1 DEF UseSound
      <4> QED BY <1>6, <3>1, <4>2
    <3> QED BY <3>1
  <2>4. n \notin honoured[c]
    BY <1>2, <1>7, <1>8, <2>3
  <2>5. \A d \in Caps : m.caps[d] # NoCap => \A k \in honoured[d] : <<d, k>> \in m.nonces
    <3>1. ASSUME NEW d \in Caps, m.caps[d] # NoCap, NEW k \in honoured[d]
          PROVE  <<d, k>> \in m.nonces
      <4>1. f.caps[d] # NoCap
        BY <1>2, <1>8, <1>10, <3>1
      <4> QED BY <1>2, <1>10, <2>3, <3>1, <4>1
    <3> QED BY <3>1
  <2>6. (HeldSound(h))'
    <3>1. \A d \in Caps : d # h.req.cap => h.mem.caps[d] \in {book'.state.caps[d], NoCap}
      BY <1>1, <1>5, <1>6, <1>10, <1>11
    <3>2. \A d \in Caps : h.mem.caps[d] # NoCap => \A k \in honoured'[d] : <<d, k>> \in h.mem.nonces
      BY <1>4, <1>11, <2>5 DEF history
    <3>3. "record" \in h.lines /\ h.mem.caps[h.req.cap] # NoCap
      BY <1>1, <1>9, <1>10, <1>11, <1>12
    <3> QED BY <1>11, <3>1, <3>2, <3>3 DEF HeldSound
  <2>7. r.left + audited[c] <= MaxUses
    <3>1. UseSound(c) /\ Taken(c) = 0 /\ LeftOf(book.state.caps[c]) = r.left
      BY <1>1, <1>7, <1>8, <2>2 DEF Taken, LeftOf
    <3>2. r.left \in Nat /\ audited[c] \in Nat
      BY <1>7, <1>8, <2>1 DEF Records, CapTyped, AroundTyped
    <3> QED BY <3>1, <3>2, CapabilityAssumption DEF UseSound
  <2>8. q.left + audited[c] + (IF out = "redeem" THEN 1 ELSE 0) <= MaxUses
    <3>1. PICK one : one = (IF out = "redeem" THEN 1 ELSE 0) /\ one \in {0, 1}
      OBVIOUS
    <3>2. q.left \in Nat /\ audited[c] \in Nat /\ q.left + one = r.left
      BY <1>7, <1>9, <2>1, <3>1 DEF Records, CapTyped, AroundTyped
    <3>3. q.left + audited[c] + one <= MaxUses
      BY <2>7, <3>1, <3>2, CapabilityAssumption
    <3> QED BY <3>1, <3>3
  <2>9. (BrokerSound(h))'
    <3>1. h.req.cap = c /\ h.req.nonce = n /\ h.req.op = req.op
      BY <1>1, <1>11
    <3>2. book'.state.caps[c] # NoCap
      BY <1>1, <1>5, <1>8
    <3>3. h.req.nonce \notin honoured'[h.req.cap] /\ <<h.req.cap, h.req.nonce>> \in h.mem.nonces
      BY <1>2, <1>4, <1>10, <1>11, <2>4, <3>1 DEF history
    <3>4. h.mem.caps[h.req.cap].left + audited'[h.req.cap] + (IF h.out = "redeem" THEN 1 ELSE 0) <= MaxUses
      BY <1>4, <1>10, <1>11, <2>8, <3>1 DEF history
    <3>5. h.out = "cancel" => Ended(h.mem.caps[h.req.cap])
      BY <1>9, <1>10, <1>11, <3>1
    <3> QED BY <1>8, <1>11, <1>12, <3>1, <3>2, <3>3, <3>4, <3>5 DEF BrokerSound
  <2>10. /\ (HeldSound(hand["issuer"]))' /\ hand'["issuer"].at # "elsewhere" /\ hand'["issuer"].at \notin {"append", "writing"}
    <3>1. PICK i : i = hand["issuer"]
      OBVIOUS
    <3>2. (HeldSound(i))' /\ i.at # "elsewhere" /\ i.at \notin {"append", "writing"}
      BY <1>13, <3>1, OutOfWay
    <3> QED BY <1>14, <3>1, <3>2
  <2>11. ASSUME NEW d \in Caps, d # c
         PROVE  (UseSound(d))'
    BY <1>4, <1>5, <2>1, <2>2, <2>11, UseElse DEF history
  <2>12. (UseSound(c))'
    <3>1. UseSound(c) /\ book.state.caps[c] = r /\ ~Ended(r)
      BY <1>1, <1>7, <1>8, <2>2 DEF Ended
    <3>2. c \notin cancelled /\ ~NotIssued(c) /\ ~(NotIssued(c))'
      BY <1>7, <1>8, <2>2, <3>1 DEF UseSound
    <3>3. (Taken(c))' = 0 /\ (Unsent(c))' = 0 /\ Taken(c) = 0 /\ Unsent(c) = 0
      BY <1>7, <1>11, <1>14, <2>2 DEF Taken, Unsent
    <3>4. LeftOf(book'.state.caps[c]) = LeftOf(book.state.caps[c])
      BY <1>5 DEF LeftOf
    <3> QED BY <1>4, <1>5, <3>1, <3>2, <3>3, <3>4 DEF UseSound, history
  <2> QED BY <1>11, <1>14, <2>6, <2>9, <2>10, <2>11, <2>12 DEF CapSound
<1> QED BY <1>5, <1>14, <1>15, <1>16 DEF CapInv, CapTyped
LEMMA CapNext_step ==
  ASSUME CapInv, CapNext
  PROVE  CapInv'
<1>1. CASE CapStep
  <2>1. CASE Issues \/ Refuses \/ Admits \/ Audits \/ Replies
    BY <2>1, Issues_step, Refuses_step, Admits_step, Audits_step, Replies_step
  <2>2. CASE RelayMends \/ RelayStores
    BY <2>2, RelayMends_step, Relay_step
  <2>3. ASSUME NEW p \in {"broker", "issuer"}, Appends(p) \/ Appended(p) \/ Settles(p)
        PROVE  CapInv'
    <3>1. CASE Appends(p)
      BY <3>1, Appends_step
    <3>2. CASE Appended(p)
      BY <3>2, Appended_step
    <3>3. CASE Settles(p)
      BY <3>3, IssueSettles_step, RedeemSettles_step
    <3> QED BY <2>3, <3>1, <3>2, <3>3
  <2> QED BY <1>1, <2>1, <2>2, <2>3 DEF CapStep
<1>2. CASE \E c \in Caps, ttl \in 1..CapSecs : IssueAsked(c, ttl)
  BY <1>2, IssueAsked_step
<1>3. CASE \E req \in Requests : Asked(req)
  BY <1>3, Asked_step
<1>4. CASE \E p \in {"broker", "issuer"} : Dies(p)
  BY <1>4, Dies_step
<1>5. CASE (\E c \in Caps : RelayLoads(c))
  BY <1>5, Relay_step
<1>6. CASE CapTick \/ GrantEnds \/ Counts \/ (\E c \in Caps : ValueRemoved(c))
  BY <1>6, Around_step
<1> QED BY <1>1, <1>2, <1>3, <1>4, <1>5, <1>6 DEF CapNext

LEMMA CapStutters ==
  ASSUME CapInv, UNCHANGED capVars
  PROVE  CapInv'
<1>1. SameJournal /\ BookTyped(book)' /\ AroundTyped' /\ UNCHANGED <<hand, capLock, minted, overwrote>>
  BY DEF capVars, history, SameJournal, CapInv, CapTyped, BookTyped, AroundTyped, RelayTyped
<1> QED BY <1>1, StillJournal

LEMMA CapStarts ==
  ASSUME CapInit
  PROVE  CapInv
<1>1. PICK e, r, none : e = Empty /\ r = Rest /\ none = [at |-> "idle", cap |-> NoCap, saw |-> e]
  OBVIOUS
<1>2. IsState(e) /\ IsHand(r) /\ r.at = "idle" /\ (\A c \in Caps : e.caps[c] = NoCap)
  BY <1>1, EmptyState, RestTyped DEF Empty
<1>3. PICK b : b = book /\ b = [state |-> e, held |-> 0, torn |-> FALSE]
  BY <1>1 DEF CapInit
<1>4. b.state = e /\ b.torn = FALSE /\ b.held = 0
  BY <1>3
<1>5. BookTyped(b)
  BY <1>2, <1>3, <1>4 DEF BookTyped
<1>6. RelayTyped(none)
  BY <1>1, <1>2 DEF RelayTyped
<1>7. relay = none /\ hand = [p \in {"broker", "issuer"} |-> r]
  BY <1>1 DEF CapInit
<1>8. hand["broker"] = r /\ hand["issuer"] = r
  BY <1>7
<1>9. HandsTyped
  BY <1>2, <1>7, <1>8, NoCapApart DEF HandsTyped, BrokerTyped, IssuerTyped, Confined, CapInit
<1>10. AroundTyped
  <2>1. RelayTyped(relay)
    BY <1>6, <1>7
  <2>2. 0 \in 0..CapSecs
    BY CapabilityAssumption
  <2>3. handed \in [Caps -> Nat] /\ audited \in [Caps -> Nat] /\ honoured = [c \in Caps |-> honoured[c]]
    BY DEF CapInit
  <2> QED BY <2>1, <2>2, <2>3 DEF AroundTyped, CapInit
<1>11. \A c \in Caps : UseSound(c)
  <2>1. ASSUME NEW c \in Caps
        PROVE  UseSound(c)
    <3>1. ~Serves(c) /\ Taken(c) = 0 /\ Unsent(c) = 0
      BY <1>2, <1>8 DEF Serves, Taken, Unsent, Confined
    <3>2. book.state.caps[c] = NoCap /\ LeftOf(book.state.caps[c]) = 0
      BY <1>2, <1>3, <1>4 DEF LeftOf
    <3> QED BY <3>1, <3>2, CapabilityAssumption DEF UseSound, CapInit, Ended
  <2> QED BY <2>1
<1>12. CapSound
  BY <1>2, <1>8, <1>11 DEF CapSound, HeldSound, BrokerSound, Confined
<1> QED BY <1>3, <1>5, <1>9, <1>10, <1>12 DEF CapInv, CapTyped

LEMMA CapAlways == CapSpec => []CapInv
<1>1. CapInit => CapInv
  BY CapStarts
<1>2. CapInv /\ [CapNext]_capVars => CapInv'
  BY CapNext_step, CapStutters
<1> QED BY <1>1, <1>2, PTL DEF CapSpec

LEMMA CapInvSafe ==
  ASSUME CapInv
  PROVE  CapSafe
<1>1. CapTypeOK
  BY DEF CapInv, CapTyped, BookTyped, IsState, HandsTyped, AroundTyped, CapTypeOK, Confined
<1>2. ASSUME ~overwrote, NEW c \in Caps
      PROVE  /\ handed[c] <= audited[c] /\ audited[c] <= MaxUses
             /\ book.state.caps[c] # NoCap => book.state.caps[c].left + handed[c] <= MaxUses
             /\ "again" \notin honoured[c]
  <2>1. UseSound(c)
    BY <1>2 DEF CapInv, CapSound
  <2>2. PICK l, t, u : l = LeftOf(book.state.caps[c]) /\ t = Taken(c) /\ u = Unsent(c)
    OBVIOUS
  <2>3. l \in Nat /\ t \in {0, 1} /\ u \in {0, 1} /\ handed[c] \in Nat /\ audited[c] \in Nat /\ MaxUses \in Nat
    BY <1>2, <2>2, NoCapApart, CapabilityAssumption DEF CapInv, CapTyped, BookTyped, IsState, AroundTyped, LeftOf, Records, Taken, Unsent
  <2>4. l + audited[c] + t <= MaxUses /\ handed[c] + u <= audited[c]
    BY <2>1, <2>2 DEF UseSound
  <2>5. handed[c] <= audited[c] /\ audited[c] <= MaxUses /\ l + handed[c] <= MaxUses
    BY <2>3, <2>4
  <2>6. book.state.caps[c] # NoCap => l = book.state.caps[c].left
    BY <2>2 DEF LeftOf
  <2> QED BY <2>1, <2>5, <2>6 DEF UseSound
<1> QED BY <1>1, <1>2 DEF CapSafe, UsesBounded, NonceOnce

LEMMA AdmissionRight ==
  ASSUME CapInv, Admits
  PROVE  book.state.caps[hand["broker"].req.cap].ends > capClock
<1>1. PICK b, req, c, s, now, f :
        b = hand["broker"] /\ req = b.req /\ c = req.cap /\ s = book.state /\ now = capClock /\ f = ForgetStale(s, now)
  OBVIOUS
<1>2. b.at = "waits" /\ Admitted(req, b.now)
  BY <1>1 DEF Admits
<1>3. c \in Caps /\ f.caps[c] # NoCap
  BY <1>1, <1>2 DEF CapInv, CapTyped, HandsTyped, BrokerTyped, Requests, Admitted, Loaded, Redeemable
<1>4. Redeemable(s.caps[c], now)
  <2>1. IsState(s) /\ f = ForgetStale(s, now)
    BY <1>1 DEF CapInv, CapTyped, BookTyped
  <2>2. \A d \in Caps : f.caps[d] = NoCap \/ (f.caps[d] = s.caps[d] /\ Redeemable(s.caps[d], now))
    BY <2>1, ForgetFacts
  <2> QED BY <1>3, <2>2
<1> QED BY <1>1, <1>4 DEF Redeemable

LEMMA CancelledGetsNone ==
  ASSUME CapInv, CapNext, NEW c \in cancelled, ~overwrote
  PROVE  handed'[c] = handed[c]
<1>1. CASE Replies
  <2>1. c \in Caps /\ ~Serves(c) /\ handed \in [Caps -> Nat]
    BY DEF CapInv, CapTyped, AroundTyped, CapSound, UseSound
  <2>2. hand["broker"].req.cap # c
    BY <1>1, <2>1 DEF Replies, Serves, Confined
  <2> QED BY <1>1, <2>1, <2>2 DEF Replies
<1>2. CASE UNCHANGED handed
  BY <1>2
<1>3. Replies \/ UNCHANGED handed
  BY DEF CapNext, CapStep, history, Issues, Refuses, Admits, Audits, Appends, Appended, Settles, RelayMends, RelayStores,
         IssueAsked, Asked, Dies, Counts, RelayLoads, CapTick, GrantEnds, ValueRemoved
<1> QED BY <1>1, <1>2, <1>3

\* No use and no nonce of a capability is spent twice, whatever crashes, mends
\* and compactions fall between the steps of broker, issuer and relay, for any
\* number of capabilities, uses and nonces (redeem/request.rs, state.rs).
THEOREM CapabilitiesSafe == CapSpec => []CapSafe
<1>1. CapInv => CapSafe
  BY CapInvSafe
<1> QED BY <1>1, CapAlways, PTL

\* An admission is before the capability's end by the second under the lock, and
\* a cancelled capability hands out nothing any more (redeem/request.rs, state.rs).
THEOREM CapabilitiesAdmittedByRight == CapSpec => AdmittedByRight
<1>1. CapInv /\ [CapNext]_capVars
        => [/\ Admits => book.state.caps[hand["broker"].req.cap].ends > capClock
            /\ \A c \in cancelled : ~overwrote => handed'[c] = handed[c]]_capVars
  BY AdmissionRight, CancelledGetsNone
<1> QED BY <1>1, CapAlways, PTL DEF CapSpec, AdmittedByRight
=============================================================================
