--------------------------- MODULE DonationInbox ---------------------------
(***************************************************************************)
(* The donation inbox (core/inbox.rs): a file beside the vault in which    *)
(* donated and offered items wait until the owner accepts or rejects them. *)
(* Every operation loads the file, changes its copy and saves it.  Routes  *)
(* of the HTTP listener hold the process-wide write lock meanwhile;        *)
(* commands run in processes of their own and hold nothing.  The vault     *)
(* itself is saved against the generation it was opened at, which module   *)
(* VaultStore has in detail.                                               *)
(***************************************************************************)
EXTENDS Naturals

CONSTANTS
  Threads,   \* threads of the HTTP listener
  Commands,  \* skarbiec processes on the same host
  Items,     \* item ids
  Donors,    \* the writers donations claim to be from
  Owner,     \* the vault's owner, as a writer
  Managed,   \* the writer of an item no donation may touch: managed by Weles, owned
             \* by a credential lifecycle, or older than provenance
  Nobody,    \* the writer of an item that does not exist
  Nothing,   \* no donation
  Free,      \* the write lock is held by no thread
  MaxDonations,  \* bound on the donations made
  MaxGen         \* bound on the vault's generation

Procs == Threads \cup Commands

Donations == [id : 1..MaxDonations, item : Items, from : Donors]

Writers == Donors \cup {Owner, Managed, Nobody}

ASSUME InboxAssumption ==
  /\ MaxDonations \in Nat /\ MaxGen \in Nat
  /\ Threads \cap Commands = {}
  /\ Free \notin Procs /\ Nothing \notin Donations
  /\ Nobody \notin Donors \cup {Owner, Managed}
  /\ {Owner, Managed} \cap Donors = {}

VARIABLES
  inbox,    \* the donations in the file
  writer,   \* writer[i]: who wrote the current revision of i
  gen,      \* the vault's generation
  lock,     \* the thread that holds WRITE_LOCK
  pc,       \* where each process is
  job,      \* the donation it works on
  copy,     \* the inbox it loaded
  base,     \* the generation of the vault it opened
  donated,  \* donations made so far
  acked,    \* history: donations answered "pending"
  settled   \* history: donations written to the vault, refused at merge or rejected

vars == <<inbox, writer, gen, lock, pc, job, copy, base, donated, acked, settled>>
vault == <<writer, gen>>
history == <<donated, acked, settled>>

Init ==
  /\ inbox = {}
  /\ writer \in [Items -> {Nobody, Owner, Managed}]
  /\ gen = 0
  /\ lock = Free
  /\ pc = [p \in Procs |-> "idle"]
  /\ job = [p \in Procs |-> Nothing]
  /\ copy = [p \in Procs |-> {}]
  /\ base = [p \in Procs |-> 0]
  /\ donated = 0 /\ acked = {} /\ settled = {}

-----------------------------------------------------------------------------
\* Mutant: routes that change the inbox are not counted as mutations.
EnterAny(p) == UNCHANGED lock

\* write_guard: a mutating route waits for the lock, a command does not.
Enter(p) ==
  \/ p \in Threads /\ lock = Free /\ lock' = p
  \/ p \in Commands /\ UNCHANGED lock

Go(p, to) == pc' = [pc EXCEPT ![p] = to]

\* The operation ends, and the guard with it.
Leave(p) ==
  /\ Go(p, "idle")
  /\ job' = [job EXCEPT ![p] = Nothing]
  /\ copy' = [copy EXCEPT ![p] = {}]
  /\ base' = [base EXCEPT ![p] = 0]
  /\ lock' = IF lock = p THEN Free ELSE lock

\* admission: a new item, or one its donor wrote.
Admits(d) == writer[d.item] \in {Nobody, d.from}

\* handle_donation: the grant and the admission rule are asked of the vault.
Donate(p, item, from) ==
  /\ p \in Threads
  /\ pc[p] = "idle" /\ donated < MaxDonations
  /\ Enter(p)
  /\ LET d == [id |-> donated + 1, item |-> item, from |-> from]
     IN Admits(d) /\ job' = [job EXCEPT ![p] = d]
  /\ donated' = donated + 1
  /\ Go(p, "enqueue")
  /\ UNCHANGED <<inbox, vault, copy, base, acked, settled>>

\* handle_offer: a login sealed to the owner, under the id its site and username
\* make, always claimed by the consumer itself.
Offer(p, item, consumer) == Donate(p, item, consumer)

\* enqueue: the file is loaded.
EnqueueLoad(p) ==
  /\ pc[p] = "enqueue"
  /\ copy' = [copy EXCEPT ![p] = inbox \cup {job[p]}]
  /\ Go(p, "queued")
  /\ UNCHANGED <<inbox, vault, lock, job, base, history>>

\* enqueue: the file is saved, and the donor answered.
EnqueueSave(p) ==
  /\ pc[p] = "queued"
  /\ inbox' = copy[p]
  /\ acked' = acked \cup {job[p]}
  /\ Leave(p)
  /\ UNCHANGED <<vault, donated, settled>>

\* donation accept and donation reject: the file is loaded, one donation taken
\* out of the copy.
Take(p, d, to) ==
  /\ pc[p] = "idle" /\ d \in inbox
  /\ Enter(p)
  /\ job' = [job EXCEPT ![p] = d]
  /\ copy' = [copy EXCEPT ![p] = inbox \ {d}]
  /\ Go(p, to)
  /\ UNCHANGED <<inbox, vault, base, history>>

\* donation accept: the vault is opened and the admission rule asked again.
AcceptOpen(p) ==
  /\ pc[p] = "accept"
  /\ base' = [base EXCEPT ![p] = gen]
  /\ Go(p, IF Admits(job[p]) THEN "merge" ELSE "refuse")
  /\ UNCHANGED <<inbox, vault, lock, job, copy, history>>

\* Mutant: the vault is written over whatever generation it has.
CurrentAny(p) == TRUE

\* Vault::save refuses when another writer was faster.
Current(p) == gen = base[p]

\* donation accept: the item is written as its donor's.
AcceptWrite(p) ==
  /\ pc[p] = "merge"
  /\ Current(p) /\ gen < MaxGen
  /\ writer' = [writer EXCEPT ![job[p].item] = job[p].from]
  /\ gen' = gen + 1
  /\ settled' = settled \cup {job[p]}
  /\ Go(p, "merged")
  /\ UNCHANGED <<inbox, lock, job, copy, base, donated, acked>>

\* donation accept: the file is saved without the donation, merged or refused.
AcceptSave(p) ==
  /\ pc[p] \in {"merged", "refuse"}
  /\ inbox' = copy[p]
  /\ settled' = settled \cup {job[p]}
  /\ Leave(p)
  /\ UNCHANGED <<vault, donated, acked>>

\* donation reject: the file is saved without the donation.
RejectSave(p) ==
  /\ pc[p] = "reject"
  /\ inbox' = copy[p]
  /\ settled' = settled \cup {job[p]}
  /\ Leave(p)
  /\ UNCHANGED <<vault, donated, acked>>

\* An operation fails or its process dies.  The lock of a thread that panicked
\* is taken over.
Fail(p) ==
  /\ pc[p] # "idle"
  /\ Leave(p)
  /\ UNCHANGED <<inbox, vault, history>>

\* The owner writes, removes or hands over an item, in a process of its own.
OwnerWrites(i, w) ==
  /\ gen < MaxGen
  /\ writer' = [writer EXCEPT ![i] = w]
  /\ gen' = gen + 1
  /\ UNCHANGED <<inbox, lock, pc, job, copy, base, history>>

Next ==
  \/ \E p \in Procs :
       \/ \E i \in Items, from \in Donors : Donate(p, i, from) \/ Offer(p, i, from)
       \/ \E d \in Donations : Take(p, d, "accept") \/ Take(p, d, "reject")
       \/ EnqueueLoad(p) \/ EnqueueSave(p)
       \/ AcceptOpen(p) \/ AcceptWrite(p) \/ AcceptSave(p)
       \/ RejectSave(p)
       \/ Fail(p)
  \/ \E i \in Items, w \in {Owner, Managed, Nobody} : OwnerWrites(i, w)

Spec == Init /\ [][Next]_vars

-----------------------------------------------------------------------------
(* Properties.                                                             *)

TypeOK ==
  /\ inbox \subseteq Donations
  /\ writer \in [Items -> Writers]
  /\ gen \in 0..MaxGen
  /\ lock \in Threads \cup {Free}
  /\ pc \in [Procs -> {"idle", "enqueue", "queued", "accept", "merge", "merged", "refuse", "reject"}]
  /\ job \in [Procs -> Donations \cup {Nothing}]
  /\ copy \in [Procs -> SUBSET Donations]
  /\ base \in [Procs -> 0..MaxGen]
  /\ donated \in 0..MaxDonations
  /\ acked \subseteq Donations /\ settled \subseteq Donations

\* A donation answered "pending" waits in the file until it is settled, whatever
\* else is loaded, saved or interrupted meanwhile.  inbox.rs: a donation "lands
\* in a per-vault inbox file next to the vault (...), and the owner merges or
\* drops it with donation accept / donation reject".
AckedWaits == acked \subseteq inbox \cup settled

\* A merge replaces only an item of the same writer, or none, at the moment it is
\* written, though the rule was asked of a vault opened before.
MergeAdmitted ==
  [][\A p \in Procs : pc[p] = "merge" /\ pc'[p] = "merged" => Admits(job[p])]_vars
=============================================================================
