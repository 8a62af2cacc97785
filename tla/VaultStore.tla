----------------------------- MODULE VaultStore -----------------------------
(***************************************************************************)
(* The vault document on disk and everyone who writes it: Vault::open,     *)
(* create and save (core/vault/document.rs), the write lock and the atomic *)
(* file write (core/vault/mod.rs), the write fence of a vault move         *)
(* (core/vault/fence.rs), and the three operations that replace the whole  *)
(* file: backup restore, mirror pull and the replica pull.                 *)
(*                                                                         *)
(* A document is its generation and the items it holds. Generation zero is *)
(* the document that was never saved, that is: no vault file.  What is     *)
(* inside an item is the subject of module VaultItems.                     *)
(*                                                                         *)
(* Every process runs with its own copy of the document.  Steps of one     *)
(* process between which another process can act are separate actions;     *)
(* pc[p] names the point a process has reached.                            *)
(***************************************************************************)
EXTENDS Naturals, FiniteSets

CONSTANTS
  Procs,    \* the processes (and server threads) that write the vault
  Items,    \* the item ids writers add and remove
  Txns,     \* the transactions a vault move arms a fence for
  Pass,     \* Pass[p]: the transaction p was started with (--fence T)
  Remotes,  \* the documents another host may hand to a pull
  Explored, \* bound: the jobs, and the loss of the file, a run explores
  MaxGen,   \* bound on the generations a run explores
  NoProc,   \* no process holds the write lock
  NoTxn     \* no fence stands, or p passes none

Docs == [gen : 0..MaxGen, items : SUBSET Items]

Jobs == {"none", "save", "restore", "mirror", "forced mirror", "pull", "forced pull",
         "arm", "lift"}

Replacing == {"restore", "mirror", "forced mirror", "pull", "forced pull"}

ASSUME StoreAssumption ==
  /\ MaxGen \in Nat \ {0}
  /\ Explored \subseteq (Jobs \ {"none"}) \cup {"vanish"}
  /\ NoProc \notin Procs
  /\ NoTxn \notin Txns
  /\ Pass \in [Procs -> Txns \cup {NoTxn}]
  /\ Remotes \subseteq {d \in Docs : d.gen > 0}

VARIABLES
  disk,     \* the vault file: generation and items
  lock,     \* the pid written in <vault>.write.lock, or NoProc
  fence,    \* the transaction in <vault>.fence.json, or NoTxn
  copies,   \* documents kept aside: backups, pre-pull and pre-restore copies
  mirror,   \* vault.enc.json of the Git mirror
  mem,      \* mem[p]: the Vault value p holds: base_generation and items
  seen,     \* seen[p]: the items of the document that copy was read from
  crossed,  \* crossed[p]: the file was replaced since p read its copy
  job,      \* job[p]: what p does: see Jobs
  arg,      \* arg[p]: the document a replacement installs
  txn,      \* txn[p]: the transaction fence arm or lift names
  pc        \* pc[p]: the point p has reached

vars == <<disk, lock, fence, copies, mirror, mem, seen, crossed, job, arg, txn, pc>>

NoDoc == [gen |-> 0, items |-> {}]

\* The points at which p holds the write lock.
Critical == {"locked", "unfenced", "current", "renamed", "succeeded", "failed"}

Points == {"idle", "open", "keep", "compare", "read", "ready"} \cup Critical

TypeOK ==
  /\ disk \in Docs
  /\ lock \in Procs \cup {NoProc}
  /\ fence \in Txns \cup {NoTxn}
  /\ copies \subseteq Docs
  /\ mirror \in Docs
  /\ mem \in [Procs -> Docs]
  /\ seen \in [Procs -> SUBSET Items]
  /\ crossed \in [Procs -> BOOLEAN]
  /\ job \in [Procs -> Jobs]
  /\ arg \in [Procs -> Docs]
  /\ txn \in [Procs -> Txns \cup {NoTxn}]
  /\ pc \in [Procs -> Points]

Init ==
  /\ disk = NoDoc
  /\ lock = NoProc
  /\ fence = NoTxn
  /\ copies = {}
  /\ mirror = NoDoc
  /\ mem = [p \in Procs |-> NoDoc]
  /\ seen = [p \in Procs |-> {}]
  /\ crossed = [p \in Procs |-> FALSE]
  /\ job = [p \in Procs |-> "none"]
  /\ arg = [p \in Procs |-> NoDoc]
  /\ txn = [p \in Procs |-> NoTxn]
  /\ pc = [p \in Procs |-> "idle"]

-----------------------------------------------------------------------------
(* A copy of the document, and changes made to it in memory.               *)

\* p starts over with the document d in memory.
Hold(p, d) ==
  /\ mem' = [mem EXCEPT ![p] = d]
  /\ seen' = [seen EXCEPT ![p] = d.items]
  /\ crossed' = [crossed EXCEPT ![p] = FALSE]

Open(p) ==
  /\ pc[p] = "idle"
  /\ disk.gen > 0
  /\ Hold(p, disk)
  /\ pc' = [pc EXCEPT ![p] = "open"]
  /\ UNCHANGED <<disk, lock, fence, copies, mirror, job, arg, txn>>

\* init: creatable refuses while a vault file is there.
Create(p) ==
  /\ pc[p] = "idle"
  /\ disk.gen = 0
  /\ Hold(p, NoDoc)
  /\ pc' = [pc EXCEPT ![p] = "open"]
  /\ UNCHANGED <<disk, lock, fence, copies, mirror, job, arg, txn>>

\* One change to the copy in memory: an item is written or purged.
Edit(p, items) ==
  /\ pc[p] = "open"
  /\ items # mem[p].items
  /\ mem' = [mem EXCEPT ![p].items = items]
  /\ UNCHANGED <<disk, lock, fence, copies, mirror, seen, crossed, job, arg, txn, pc>>

\* The command or request ends and drops its copy.
Close(p) ==
  /\ pc[p] = "open"
  /\ Hold(p, NoDoc)
  /\ pc' = [pc EXCEPT ![p] = "idle"]
  /\ UNCHANGED <<disk, lock, fence, copies, mirror, job, arg, txn>>

-----------------------------------------------------------------------------
(* The write lock: a file created with create_new and removed on drop.     *)

Start(p, j) ==
  /\ j \in Explored
  /\ job' = [job EXCEPT ![p] = j]

\* The command is over; what it was about to install or name goes with it.
Stop(p) ==
  /\ job' = [job EXCEPT ![p] = "none"]
  /\ arg' = [arg EXCEPT ![p] = NoDoc]
  /\ txn' = [txn EXCEPT ![p] = NoTxn]

Goto(p, from, to) ==
  /\ pc[p] = from
  /\ pc' = [pc EXCEPT ![p] = to]

\* Mutant: the lock file is opened whether it exists or not.
LockFreeAlways == TRUE

\* Whether the lock file could be created: it is not there yet.
LockFree == lock = NoProc

\* A save takes the lock before it looks at anything.
BeginSave(p) ==
  /\ Goto(p, "open", "locked")
  /\ LockFree
  /\ lock' = p
  /\ Start(p, "save")
  /\ UNCHANGED <<disk, fence, copies, mirror, mem, seen, crossed, arg, txn>>

\* replace_vault takes it too, once its caller has read what it installs.
BeginReplace(p) ==
  /\ Goto(p, "ready", "locked")
  /\ LockFree
  /\ lock' = p
  /\ UNCHANGED <<disk, fence, copies, mirror, mem, seen, crossed, job, arg, txn>>

\* fence arm: only over a vault, and under the vault's write lock.
BeginArm(p, t) ==
  /\ Goto(p, "idle", "locked")
  /\ disk.gen > 0
  /\ LockFree
  /\ lock' = p
  /\ Start(p, "arm")
  /\ txn' = [txn EXCEPT ![p] = t]
  /\ UNCHANGED <<disk, fence, copies, mirror, mem, seen, crossed, arg>>

\* fence lift answers at once when no fence stands.
BeginLift(p, t) ==
  /\ Goto(p, "idle", "locked")
  /\ fence # NoTxn
  /\ LockFree
  /\ lock' = p
  /\ Start(p, "lift")
  /\ txn' = [txn EXCEPT ![p] = t]
  /\ UNCHANGED <<disk, fence, copies, mirror, mem, seen, crossed, arg>>

\* What a failed save leaves of the copy's changes: set_item and its kin put the
\* item back, the sections changed through doc_mut keep the change.
Refused(p) == \E items \in {mem[p].items, seen[p]} : mem' = [mem EXCEPT ![p].items = items]

\* A lock file that is there refuses at once, and its caller may try again.
LockRefused(p) ==
  /\ lock # NoProc
  /\ \/ Goto(p, "open", "open") /\ Refused(p) /\ UNCHANGED <<job, arg, txn>>
     \/ Goto(p, "ready", "idle") /\ Stop(p) /\ UNCHANGED mem
  /\ UNCHANGED <<disk, lock, fence, copies, mirror, seen, crossed>>

-----------------------------------------------------------------------------
(* Under the lock: the fence, the generation, the file.                    *)

\* Mutant: any --fence passes every fence.
FencePassedByAny(p) == fence = NoTxn \/ Pass[p] # NoTxn

\* fence::check_write: no fence stands, or this thread passes it.
FencePassed(p) == fence \in {NoTxn, Pass[p]}

CheckFence(p) ==
  /\ job[p] \in Replacing \cup {"save"}
  /\ Goto(p, "locked", IF FencePassed(p) THEN "unfenced" ELSE "failed")
  /\ UNCHANGED <<disk, lock, fence, copies, mirror, mem, seen, crossed, job, arg, txn>>

\* Mutant: only a vanished vault is noticed.
GenerationPresent(p) == disk.gen > 0 \/ mem[p].gen = 0

\* The persisted generation must be the one this copy was opened at: it covers
\* a vault another writer saved and a vault that disappeared.
GenerationCurrent(p) == disk.gen = mem[p].gen

\* Mutant: a changed vault is waited on under the lock instead of refused.
CheckGenerationWaits(p) ==
  /\ job[p] = "save"
  /\ GenerationCurrent(p)
  /\ Goto(p, "unfenced", "current")
  /\ UNCHANGED <<disk, lock, fence, copies, mirror, mem, seen, crossed, job, arg, txn>>

CheckGeneration(p) ==
  /\ job[p] = "save"
  /\ Goto(p, "unfenced", IF GenerationCurrent(p) THEN "current" ELSE "failed")
  /\ UNCHANGED <<disk, lock, fence, copies, mirror, mem, seen, crossed, job, arg, txn>>

\* atomic_write up to the rename (or the removal of the fence) fails: nothing
\* happened to the file.
WriteFails(p) ==
  /\ \/ job[p] \in {"save", "arm", "lift"} /\ Goto(p, "current", "failed")
     \/ job[p] \in Replacing /\ Goto(p, "unfenced", "failed")
  /\ UNCHANGED <<disk, lock, fence, copies, mirror, mem, seen, crossed, job, arg, txn>>

\* The rename of a save: the copy, one generation on.
NextDoc(p) == [gen |-> mem[p].gen + 1, items |-> mem[p].items]

RenameSaved(p) ==
  /\ job[p] = "save"
  /\ Goto(p, "current", "renamed")
  /\ mem[p].gen < MaxGen
  /\ disk' = NextDoc(p)
  /\ crossed' = [crossed EXCEPT ![p] = FALSE]
  /\ UNCHANGED <<lock, fence, copies, mirror, mem, seen, job, arg, txn>>

\* The rename of a replacement: the other document, whatever generation it has.
RenameReplaced(p) ==
  /\ job[p] \in Replacing
  /\ Goto(p, "unfenced", "renamed")
  /\ disk' = arg[p]
  /\ crossed' = [q \in Procs |-> TRUE]
  /\ UNCHANGED <<lock, fence, copies, mirror, mem, seen, job, arg, txn>>

\* The directory is synced.  When that fails after the rename the caller is
\* told the write failed, and a save keeps the generation it was opened at.
SyncDirectory(p) ==
  /\ \/ /\ Goto(p, "renamed", "succeeded")
        /\ IF job[p] = "save"
             THEN /\ mem' = [mem EXCEPT ![p] = NextDoc(p)]
                  /\ seen' = [seen EXCEPT ![p] = mem[p].items]
             ELSE UNCHANGED <<mem, seen>>
     \/ Goto(p, "renamed", "failed") /\ UNCHANGED <<mem, seen>>
  /\ UNCHANGED <<disk, lock, fence, copies, mirror, crossed, job, arg, txn>>

-----------------------------------------------------------------------------
(* fence arm and lift read the standing fence, then write or remove it.    *)

\* Mutant: fence arm does not look for a standing fence.
ArmReadNothing(p) ==
  /\ job[p] = "arm"
  /\ Goto(p, "locked", "current")
  /\ UNCHANGED <<disk, lock, fence, copies, mirror, mem, seen, crossed, job, arg, txn>>

ArmRead(p) ==
  /\ job[p] = "arm"
  /\ Goto(p, "locked", CASE fence = NoTxn -> "current"
                         [] fence = txn[p] -> "succeeded"
                         [] OTHER -> "failed")
  /\ UNCHANGED <<disk, lock, fence, copies, mirror, mem, seen, crossed, job, arg, txn>>

ArmWrite(p) ==
  /\ job[p] = "arm"
  /\ Goto(p, "current", "succeeded")
  /\ fence' = txn[p]
  /\ UNCHANGED <<disk, lock, copies, mirror, mem, seen, crossed, job, arg, txn>>

LiftRead(p) ==
  /\ job[p] = "lift"
  /\ Goto(p, "locked", CASE fence = NoTxn -> "succeeded"
                         [] fence = txn[p] -> "current"
                         [] OTHER -> "failed")
  /\ UNCHANGED <<disk, lock, fence, copies, mirror, mem, seen, crossed, job, arg, txn>>

LiftRemove(p) ==
  /\ job[p] = "lift"
  /\ Goto(p, "current", "succeeded")
  /\ fence' = NoTxn
  /\ UNCHANGED <<disk, lock, copies, mirror, mem, seen, crossed, job, arg, txn>>

-----------------------------------------------------------------------------
(* The guard drops: the lock file is removed, or stays and is said to.     *)

AfterSave(p) == IF job[p] = "save" THEN "open" ELSE "idle"

Unlock(p) ==
  /\ pc[p] \in {"succeeded", "failed"}
  /\ lock' \in {NoProc, lock}
  /\ pc' = [pc EXCEPT ![p] = AfterSave(p)]
  /\ IF job[p] = "save" /\ pc[p] = "failed" THEN Refused(p) ELSE UNCHANGED mem
  /\ Stop(p)
  /\ UNCHANGED <<disk, fence, copies, mirror, seen, crossed>>

\* The process dies: a lock file it held stays, and a later command takes its
\* place.
Crash(p) ==
  /\ pc[p] # "idle"
  /\ pc' = [pc EXCEPT ![p] = "idle"]
  /\ Stop(p)
  /\ Hold(p, NoDoc)
  /\ UNCHANGED <<disk, lock, fence, copies, mirror>>

\* The operator removes a lock whose owner "is no longer running".
ClearStaleLock ==
  /\ lock # NoProc
  /\ pc[lock] \notin Critical
  /\ lock' = NoProc
  /\ UNCHANGED <<disk, fence, copies, mirror, mem, seen, crossed, job, arg, txn, pc>>

\* Something outside skarbiec removes the vault file.
Vanish ==
  /\ "vanish" \in Explored
  /\ disk.gen > 0
  /\ disk' = NoDoc
  /\ crossed' = [q \in Procs |-> TRUE]
  /\ UNCHANGED <<lock, fence, copies, mirror, mem, seen, job, arg, txn, pc>>

-----------------------------------------------------------------------------
(* The operations that replace the file.                                   *)

\* backup <directory>: a copy of the file as it stands.
Backup ==
  /\ disk.gen > 0
  /\ "restore" \in Explored
  /\ copies' = copies \cup {disk}
  /\ UNCHANGED <<disk, lock, fence, mirror, mem, seen, crossed, job, arg, txn, pc>>

\* backup restore <file> --yes reads the copy, after a first look at the fence.
Restore(p, d) ==
  /\ Goto(p, "idle", "keep")
  /\ d \in copies
  /\ FencePassed(p)
  /\ Start(p, "restore")
  /\ arg' = [arg EXCEPT ![p] = d]
  /\ UNCHANGED <<disk, lock, fence, copies, mirror, mem, seen, crossed, txn>>

\* The live vault is copied beside itself: keep_aside of a restore, and the
\* pre-pull copy of a mirror pull.  Without a live vault there is nothing to
\* keep and nothing to compare with.
KeepAside(p) ==
  /\ Goto(p, "keep", CASE job[p] = "restore" -> "ready"
                       [] job[p] # "restore" /\ disk.gen > 0 -> "compare"
                       [] OTHER -> "read")
  /\ copies' = IF disk.gen > 0 THEN copies \cup {disk} ELSE copies
  /\ UNCHANGED <<disk, lock, fence, mirror, mem, seen, crossed, job, arg, txn>>

\* mirror push copies the live vault into the mirror.
MirrorPush ==
  /\ disk.gen > 0
  /\ {"mirror", "forced mirror"} \cap Explored # {}
  /\ mirror' = disk
  /\ UNCHANGED <<disk, lock, fence, copies, mem, seen, crossed, job, arg, txn, pc>>

\* mirror pull: git pull brings what another host pushed, if anything.
MirrorPull(p, d, forced) ==
  /\ Goto(p, "idle", "keep")
  /\ d \in Remotes \cup {mirror}
  /\ d.gen > 0
  /\ mirror' = d
  /\ Start(p, IF forced THEN "forced mirror" ELSE "mirror")
  /\ UNCHANGED <<disk, lock, fence, copies, mem, seen, crossed, arg, txn>>

\* items_missing_from_mirror: items of the live vault the mirror does not carry
\* stop an unforced pull.
NothingMissing == disk.items \subseteq mirror.items

CompareMirror(p) ==
  /\ \/ /\ NothingMissing \/ job[p] = "forced mirror"
        /\ Goto(p, "compare", "read")
        /\ UNCHANGED <<job, arg, txn>>
     \/ /\ ~NothingMissing /\ job[p] = "mirror"
        /\ Goto(p, "compare", "idle")
        /\ Stop(p)
  /\ UNCHANGED <<disk, lock, fence, copies, mirror, mem, seen, crossed>>

\* The mirror's file is read again for the bytes that are installed.
ReadMirror(p) ==
  /\ Goto(p, "read", "ready")
  /\ arg' = [arg EXCEPT ![p] = mirror]
  /\ UNCHANGED <<disk, lock, fence, copies, mirror, mem, seen, crossed, job, txn>>

\* pull --from <serve>: the remote document may not hold fewer items.
Pull(p, d, forced) ==
  /\ Goto(p, "idle", "ready")
  /\ d \in Remotes
  /\ forced \/ Cardinality(d.items) >= Cardinality(disk.items)
  /\ Start(p, IF forced THEN "forced pull" ELSE "pull")
  /\ arg' = [arg EXCEPT ![p] = d]
  /\ UNCHANGED <<disk, lock, fence, copies, mirror, mem, seen, crossed, txn>>

-----------------------------------------------------------------------------
\* Steps of a process that runs one command.
Step(p) ==
  \/ Open(p) \/ Create(p) \/ Close(p)
  \/ \E items \in SUBSET Items : Edit(p, items)
  \/ BeginSave(p) \/ BeginReplace(p) \/ LockRefused(p)
  \/ CheckFence(p) \/ CheckGeneration(p) \/ WriteFails(p)
  \/ RenameSaved(p) \/ RenameReplaced(p) \/ SyncDirectory(p) \/ Unlock(p)
  \/ \E t \in Txns : BeginArm(p, t) \/ BeginLift(p, t)
  \/ ArmRead(p) \/ ArmWrite(p) \/ LiftRead(p) \/ LiftRemove(p)
  \/ \E d \in copies : Restore(p, d)
  \/ KeepAside(p) \/ CompareMirror(p) \/ ReadMirror(p)
  \/ \E d \in Remotes \cup {mirror}, forced \in BOOLEAN : MirrorPull(p, d, forced)
  \/ \E d \in Remotes, forced \in BOOLEAN : Pull(p, d, forced)

Environment == (\E p \in Procs : Crash(p)) \/ ClearStaleLock \/ Vanish \/ Backup \/ MirrorPush

Next == (\E p \in Procs : Step(p)) \/ Environment

Spec == Init /\ [][Next]_vars

\* A process inside the lock runs on: nothing it does there waits for another.
InsideLock(p) == pc[p] \in Critical /\ Step(p)

FairSpec == Spec /\ \A p \in Procs : WF_vars(InsideLock(p))

-----------------------------------------------------------------------------
(* Properties.                                                             *)

\* No two processes are past acquire_write_lock at the same time, and the one
\* that is there owns the lock file: crashes, lock files that stay behind and
\* their removal by the operator included.
WriteLockExcludes ==
  \A p \in Procs : pc[p] \in Critical => lock = p

\* While a fence stands, the vault file is written only by a step of the move
\* that armed it: a writer that looked at the fence before it was armed does
\* not write after it (fence arm "returns only once the write is done").
FenceHolds ==
  [][\A p \in Procs :
       RenameSaved(p) \/ RenameReplaced(p) => fence \in {NoTxn, Pass[p]}]_vars

\* One move at a time: no transaction takes over another's fence, and the
\* fence that is removed is the one whose transaction the lift named.
FenceBelongsToItsMove ==
  [][\A p \in Procs :
       /\ ArmWrite(p) => fence = NoTxn
       /\ LiftRemove(p) => fence = txn[p]]_vars

\* What a save overwrites is the document its copy was read from, unless the
\* file was replaced (restored, pulled, removed) since: no update is lost
\* between two savers, however their steps interleave or fail.
SaveReplacesWhatItRead ==
  [][\A p \in Procs : RenameSaved(p) => crossed[p] \/ disk.items = seen[p]]_vars

\* Whatever it finds under the lock (a fence, a changed or a vanished file, a
\* failed write), a writer leaves it again unless it dies there.
WriterLeaves ==
  \A p \in Procs : pc[p] \in Critical ~> pc[p] \notin Critical
=============================================================================
