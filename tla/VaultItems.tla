----------------------------- MODULE VaultItems -----------------------------
(***************************************************************************)
(* What the vault document holds: items with their revisions, who each     *)
(* ciphertext is sealed to, who controls an item, the staged revision of a *)
(* managed rotation, and the registry of recipients (core/vault).          *)
(*                                                                         *)
(* Every action is one opened copy, one change and one save.  A save is    *)
(* refused when another saver was faster and is then without effect: that  *)
(* is what module VaultStore shows, so here an operation is one step.      *)
(* `recipient rekey` saves several times on one copy and is several steps. *)
(*                                                                         *)
(* A payload is one value; its fingerprint is the value it was taken of.   *)
(* A ciphertext is the value sealed and the keys that open it (encrypting  *)
(* and decrypting are the crypto layer's; the host holds its owner's keys  *)
(* and opens whatever it sealed).  entry.revision and current.revision are *)
(* always assigned together and are one field here.  Of the tags only      *)
(* managed:weles decides anything here (field weles); the others, kinds    *)
(* and time of last update are left out.                                   *)
(***************************************************************************)
EXTENDS Naturals

CONSTANTS
  Ids,       \* item ids
  Values,    \* payloads
  Uids,      \* people and bonds that can be recipients
  Founder,   \* the owner the vault was created by
  Keys,      \* fingerprints
  Recovery,  \* the recovery key's fingerprint
  Agents,    \* management authorities, each writing under its own name
  Weles,     \* the authority that tags what it creates managed:weles
  Ops,       \* operation ids of the credential lifecycle
  KeysOf,    \* KeysOf[u]: the keys u has or will make; nobody shares a key
  FirstKey,  \* the founder's first key
  None,      \* no item, no pending revision, no key, no operation, no rekey
  Explored,  \* bound: the operations a run explores
  MaxRev,    \* bound on revisions
  MaxItems,  \* bound on the items a run creates
  MaxClock   \* bound on the seconds a run spans

ASSUME ItemsAssumption ==
  /\ Founder \in Uids
  /\ Recovery \in Keys
  /\ KeysOf \in [Uids -> SUBSET (Keys \ {Recovery})]
  /\ \A u, w \in Uids : u # w => KeysOf[u] \cap KeysOf[w] = {}
  /\ FirstKey \in KeysOf[Founder]
  /\ Uids \cap Agents = {} /\ Weles \in Agents
  /\ None \notin Keys \cup Ops
  /\ MaxRev \in Nat /\ MaxItems \in Nat /\ MaxClock \in Nat

VARIABLES
  items,     \* items[id]: the entry, or None
  registry,  \* registry[u]: u's fingerprint, or None
  owner,     \* the owner's uid
  former,    \* recipients the registry records with owner_until
  minted,    \* how many item uids were minted
  rekey,     \* the items a running `recipient rekey` still has to rewrite
  clock      \* the second

vars == <<items, registry, owner, former, minted, rekey, clock>>

\* A sealed revision: its number, stamp, writer, operation, value and readers.
Revisions == [rev : Nat, at : Nat, by : Uids \cup Agents, op : Ops \cup {None},
              value : Values, to : SUBSET Keys]

Entries == [uid : Nat, state : {"active", "trashed"},
            mode : {"owner", "external", "managed"}, controller : Uids \cup Agents,
            weles : BOOLEAN, recipients : SUBSET Uids, print : Values, current : Revisions,
            history : SUBSET Revisions, pending : Revisions \cup {None}]

TypeOK ==
  /\ items \in [Ids -> Entries \cup {None}]
  /\ registry \in [Uids -> Keys \cup {None}]
  /\ owner \in Uids
  /\ former \in SUBSET Uids
  /\ minted \in Nat
  /\ rekey \in SUBSET Ids
  /\ clock \in Nat

\* init: an empty document whose only recipient is its owner.
Init ==
  /\ items = [id \in Ids |-> None]
  /\ registry = [u \in Uids |-> IF u = Founder THEN FirstKey ELSE None]
  /\ owner = Founder
  /\ former = {}
  /\ minted = 0
  /\ rekey = {}
  /\ clock = 0

-----------------------------------------------------------------------------
(* Sealing.                                                                *)

Held(id) == items[id] # None

Live(id) == Held(id) /\ items[id].state = "active"

\* fprs_for: the keys of the registered recipients, the owner and recovery.
FprsFor(reg, boss, uids) ==
  {reg[u] : u \in {v \in uids \cup {boss} : reg[v] # None}} \cup {Recovery}

\* Mutant: only the current ciphertext is sealed again.
RewrappedCurrent(e, reg, boss, uids) ==
  [e EXCEPT !.recipients = uids, !.current.to = FprsFor(reg, boss, uids)]

\* rewrap_item: every current and saved ciphertext, sealed to uids instead.
Rewrapped(e, reg, boss, uids) ==
  LET keys == FprsFor(reg, boss, uids) IN
  [e EXCEPT !.recipients = uids,
            !.current.to = keys,
            !.history = {[r EXCEPT !.to = keys] : r \in e.history}]

Revision(n, v, who, op, uids) ==
  [rev |-> n, at |-> clock, by |-> who, op |-> op, value |-> v,
   to |-> FprsFor(registry, owner, uids)]

-----------------------------------------------------------------------------
(* Writing an item.                                                        *)

\* duplicates::holder_of: no other active item is known to hold this payload.
Unduplicated(id, v) == \A o \in Ids \ {id} : Live(o) => items[o].print # v

\* An administrative write changes an item recorded as the owner's; of any
\* other it may restate what is there, to seal it to other readers.
MayAdminister(id, v, tag) ==
  Held(id) => \/ items[id].mode = "owner"
              \/ Live(id) /\ items[id].current.value = v /\ items[id].weles = tag

\* A managed write needs the item's recorded management to be its own.
MayManage(id, agent) ==
  Held(id) => items[id].mode = "managed" /\ items[id].controller = agent

\* Mutant: a write starts the revisions over.
EnvelopeRestarts(id, v, uids, tag, who, op, mode, controller, uid) ==
  LET old == items[id] IN
  [uid |-> IF Held(id) THEN old.uid ELSE uid, state |-> "active", mode |-> mode,
   controller |-> controller, weles |-> tag, recipients |-> uids, print |-> v,
   current |-> Revision(1, v, who, op, uids),
   history |-> IF Held(id) THEN old.history \cup {old.current} ELSE {}, pending |-> None]

\* The envelope a write builds from scratch: what it does not carry forward,
\* the pending revision among it, is gone.
Envelope(id, v, uids, tag, who, op, mode, controller, uid) ==
  LET old == items[id] IN
  IF Held(id)
    THEN [uid |-> old.uid, state |-> "active", mode |-> mode, controller |-> controller,
          weles |-> tag, recipients |-> uids, print |-> v,
          current |-> Revision(old.current.rev + 1, v, who, op, uids),
          history |-> old.history \cup {old.current}, pending |-> None]
    ELSE [uid |-> uid, state |-> "active", mode |-> mode, controller |-> controller,
          weles |-> tag, recipients |-> uids, print |-> v,
          current |-> Revision(1, v, who, op, uids), history |-> {}, pending |-> None]

\* prepare_item_with_writer for a write without a management authority.
Administered(id, v, uids, tag, who, uid) ==
  IF Held(id)
    THEN Envelope(id, v, uids, tag, who, None, items[id].mode, items[id].controller, uid)
    ELSE Envelope(id, v, uids, tag, who, None, IF who = owner THEN "owner" ELSE "external", who, uid)

\* A writer that names no tags of its own leaves an item those it carries.
TagKept(id) == Held(id) /\ items[id].weles

\* The bounds on revisions and on items.
Room(id) == IF Held(id) THEN items[id].current.rev < MaxRev ELSE minted < MaxItems

Mint(id) == minted' = IF Held(id) THEN minted ELSE minted + 1

\* Any other save makes the copy a running rekey works on stale.
Outdate == rekey' = {}

Wrote(id, entry) ==
  /\ items' = [items EXCEPT ![id] = entry]
  /\ Outdate
  /\ UNCHANGED <<registry, owner, former, clock>>

\* set_item, set_item_written_by and set_migrated_item.
SetItem(id, v, uids, tag, who, uid) ==
  /\ Room(id)
  /\ MayAdminister(id, v, tag)
  /\ Unduplicated(id, v)
  /\ Wrote(id, Administered(id, v, uids, tag, who, uid))
  /\ Mint(id)

\* set_managed_item keeps the recipients and the tags an existing item has.
SetManagedItem(id, v, uids, agent, op) ==
  /\ "manage" \in Explored
  /\ Room(id)
  /\ MayManage(id, agent)
  /\ Unduplicated(id, v)
  /\ Wrote(id, Envelope(id, v, IF Held(id) THEN items[id].recipients ELSE uids,
                        IF Held(id) THEN items[id].weles ELSE agent = Weles, agent, op, "managed", agent, minted))
  /\ Mint(id)

\* `set`: ensure_owner_set_allowed lets the owner write its own items only.
OwnerControlled(id) == items[id].mode = "owner" /\ items[id].controller = owner

\* `set` names the readers with --recipients or keeps them; "narrow" explores
\* the writes that leave a reader out.  It refuses to store the reserved tag.
Set(id, v, uids) ==
  /\ "set" \in Explored
  /\ Held(id) => OwnerControlled(id)
  /\ Held(id) /\ "narrow" \notin Explored => items[id].recipients \subseteq uids
  /\ SetItem(id, v, uids, FALSE, owner, minted)

\* admission: a new item, or one whose current revision the donor wrote.
Admitted(id, who) == Held(id) => items[id].mode # "managed" /\ items[id].current.by = who

\* donation accept writes under the donor's name; the donor controls a new item.
Accept(id, v, who) ==
  /\ "accept" \in Explored
  /\ Admitted(id, who)
  /\ SetItem(id, v, IF Held(id) THEN items[id].recipients ELSE {}, TagKept(id), who, minted)

\* set_items_atomic: an import prepares every row against the document as it
\* is, then inserts them all.  A row imported again keeps the item's readers and tags.
Row(id, v, uid) ==
  Administered(id, v, IF Held(id) THEN items[id].recipients ELSE {}, TagKept(id), owner, uid)

RowAccepted(id, v) ==
  /\ Held(id) => OwnerControlled(id)
  /\ Room(id)
  /\ Unduplicated(id, v)

Import(id1, id2, v1, v2) ==
  /\ "import" \in Explored
  /\ id1 # id2
  /\ minted + 2 <= MaxItems
  /\ RowAccepted(id1, v1) /\ RowAccepted(id2, v2)
  /\ items' = [items EXCEPT ![id1] = Row(id1, v1, minted), ![id2] = Row(id2, v2, minted + 1)]
  /\ minted' = minted + 2
  /\ Outdate
  /\ UNCHANGED <<registry, owner, former, clock>>

\* restore --at: find answers the first saved version with that stamp.
Chosen(id, at) ==
  CHOOSE r \in items[id].history :
    /\ r.at = at
    /\ \A s \in items[id].history : s.at = at => r.rev <= s.rev

\* Mutant: the saved version becomes current in place.
RestoreVersionInPlace(id, at) ==
  /\ "restore" \in Explored
  /\ Live(id) /\ OwnerControlled(id)
  /\ \E r \in items[id].history : r.at = at
  /\ Wrote(id, [items[id] EXCEPT !.current = Chosen(id, at), !.history = @ \ {Chosen(id, at)}])
  /\ UNCHANGED minted

RestoreVersion(id, at) ==
  /\ "restore" \in Explored
  /\ Live(id)
  /\ OwnerControlled(id)
  /\ \E r \in items[id].history : r.at = at
  /\ SetItem(id, Chosen(id, at).value, items[id].recipients, TagKept(id), owner, minted)

\* The restriction on the vaults `migrate` copies from: the item's uid is not
\* the one another item here has.  The code does not ask: see the README.
Elsewhere(uid) == \A o \in Ids : Held(o) => items[o].uid # uid

\* `migrate` copies an item of another vault, its tags and its uid with it, under
\* the owner's name and for no reader but the owner.  An item that is there keeps
\* its uid and its management; what Weles or the credential lifecycle manages is
\* refused, and they are the only authorities.
Migrate(id, v, tag, uid) ==
  /\ "migrate" \in Explored
  /\ Held(id) => items[id].mode # "managed"
  /\ Held(id) /\ "narrow" \notin Explored => items[id].recipients = {}
  /\ Elsewhere(uid)
  /\ SetItem(id, v, {}, tag, owner, uid)

-----------------------------------------------------------------------------
(* Trash, purge, rename, reclaim: the entry changes, its revisions do not. *)

Delete(id) ==
  /\ "trash" \in Explored
  /\ Held(id) /\ OwnerControlled(id)
  /\ Wrote(id, [items[id] EXCEPT !.state = "trashed"])
  /\ UNCHANGED minted

RestoreItem(id) ==
  /\ "trash" \in Explored
  /\ Held(id) /\ OwnerControlled(id)
  /\ Wrote(id, [items[id] EXCEPT !.state = "active"])
  /\ UNCHANGED minted

Purge(id) ==
  /\ "trash" \in Explored
  /\ Held(id) /\ OwnerControlled(id)
  /\ Wrote(id, None)
  /\ UNCHANGED minted

Rename(from, to) ==
  /\ "rename" \in Explored
  /\ Held(from) /\ OwnerControlled(from)
  /\ ~Held(to)
  /\ items' = [items EXCEPT ![from] = None, ![to] = items[from]]
  /\ Outdate
  /\ UNCHANGED <<registry, owner, former, minted, clock>>

\* purge --versions-before: saved versions go by their stamp; current stays.
ForgetVersions(id, before) ==
  /\ "forget" \in Explored
  /\ Held(id) /\ OwnerControlled(id)
  /\ \E r \in items[id].history : r.at < before
  /\ Wrote(id, [items[id] EXCEPT !.history = {r \in @ : r.at >= before}])
  /\ UNCHANGED minted

\* retag: of an item's tags only the owner's own change this way; the reserved
\* one is refused, so what the item carries of Weles' can only go.
Retag(id) ==
  /\ "retag" \in Explored
  /\ Held(id) /\ OwnerControlled(id)
  /\ Wrote(id, [items[id] EXCEPT !.weles = FALSE])
  /\ UNCHANGED minted

\* An item Weles tagged is refused, whoever controls it.
Reclaim(id) ==
  /\ "reclaim" \in Explored
  /\ Held(id)
  /\ items[id].mode # "managed" /\ ~items[id].weles
  /\ ~OwnerControlled(id)
  /\ Wrote(id, [items[id] EXCEPT !.mode = "owner", !.controller = owner])
  /\ UNCHANGED minted

-----------------------------------------------------------------------------
(* A managed rotation: stage, then activate or discard.                    *)

ActiveWriter(id, agent) ==
  /\ Live(id)
  /\ items[id].mode = "managed" /\ items[id].controller = agent
  /\ items[id].current.by = agent

\* Staging again under the same operation answers the pending revision.
Stage(id, v, agent, op) ==
  /\ "stage" \in Explored
  /\ Room(id)
  /\ ActiveWriter(id, agent)
  /\ items[id].pending = None
  /\ Wrote(id, [items[id] EXCEPT !.pending =
       Revision(items[id].current.rev + 1, v, agent, op, items[id].recipients)])
  /\ UNCHANGED minted

Staged(id, agent, op) ==
  /\ Held(id)
  /\ items[id].pending # None
  /\ items[id].pending.op = op /\ items[id].pending.by = agent

Activated(e) ==
  [e EXCEPT !.current = e.pending, !.history = e.history \cup {e.current}, !.pending = None]

Activate(id, agent, op) ==
  /\ Staged(id, agent, op)
  /\ Wrote(id, Activated(items[id]))
  /\ UNCHANGED minted

Discard(id, agent, op) ==
  /\ Staged(id, agent, op)
  /\ Wrote(id, [items[id] EXCEPT !.pending = None])
  /\ UNCHANGED minted

TrashManaged(id, agent) ==
  /\ "stage" \in Explored
  /\ ActiveWriter(id, agent)
  /\ items[id].pending = None
  /\ Wrote(id, [items[id] EXCEPT !.state = "trashed"])
  /\ UNCHANGED minted

-----------------------------------------------------------------------------
(* Recipients.                                                             *)

\* recipient add: the registry entry is replaced, no item is touched.  Only
\* the role "owner" is refused: the owner's own uid is not.
AddRecipient(u, k) ==
  /\ (IF u = owner THEN "add owner" ELSE "add") \in Explored
  /\ registry' = [registry EXCEPT ![u] = k]
  /\ former' = former \ {u}
  /\ Outdate
  /\ UNCHANGED <<items, owner, minted, clock>>

\* share writes the item again, with one more reader.
Share(id, u) ==
  /\ "share" \in Explored
  /\ registry[u] # None
  /\ Live(id) /\ u \notin items[id].recipients
  /\ SetItem(id, items[id].current.value, items[id].recipients \cup {u}, TagKept(id), owner, minted)

\* revoke rewraps every saved version without u; the revision does not move.
Revoke(id, u) ==
  /\ "revoke" \in Explored
  /\ Held(id) /\ u \in items[id].recipients
  /\ Wrote(id, Rewrapped(items[id], registry, owner, items[id].recipients \ {u}))
  /\ UNCHANGED minted

\* remove_recipient rewraps every item that lists u and forgets u.
RemoveRecipient(u) ==
  /\ "remove" \in Explored
  /\ u # owner /\ registry[u] \notin {None, Recovery}
  /\ items' = [id \in Ids |->
       IF Held(id) /\ u \in items[id].recipients
         THEN Rewrapped(items[id], registry, owner, items[id].recipients \ {u})
         ELSE items[id]]
  /\ registry' = [registry EXCEPT ![u] = None]
  /\ former' = former \ {u}
  /\ Outdate
  /\ UNCHANGED <<owner, minted, clock>>

\* Mutant: control does not move with the ownership.
TransferredNothing(e, gone, boss) == e

\* transfer_former_owner_control for one entry: what Weles tagged stays.
Transferred(e, gone, boss) ==
  IF e.mode # "managed" /\ ~e.weles /\ e.controller \in gone \ {boss}
    THEN [e EXCEPT !.mode = "owner", !.controller = boss] ELSE e

\* rotate_owner: every item is rewrapped to the new owner, without the old one.
RotateOwner(u, k) ==
  /\ "rotate" \in Explored
  /\ u # owner
  /\ LET reg == [registry EXCEPT ![u] = k]
         gone == (former \ {u}) \cup {owner}
     IN /\ registry' = reg
        /\ former' = gone
        /\ owner' = u
        /\ items' = [id \in Ids |->
             IF Held(id)
               THEN Rewrapped(Transferred(items[id], gone, u), reg, u,
                              items[id].recipients \ {owner})
               ELSE None]
  /\ Outdate
  /\ UNCHANGED <<minted, clock>>

\* recipient rekey saves the new fingerprint, then writes every live item u
\* reads again, one save each; it stops when it is killed or its copy stale.
RekeyBegin(u, k) ==
  /\ "rekey" \in Explored
  /\ registry[u] # None /\ u # owner /\ k # registry[u]
  /\ registry' = [registry EXCEPT ![u] = k]
  /\ rekey' = {id \in Ids : Live(id) /\ u \in items[id].recipients}
  /\ UNCHANGED <<items, owner, former, minted, clock>>

RekeyItem(id) ==
  /\ id \in rekey
  /\ Room(id)
  /\ MayAdminister(id, items[id].current.value, TagKept(id))
  /\ Unduplicated(id, items[id].current.value)
  /\ items' = [items EXCEPT ![id] =
       Administered(id, items[id].current.value, items[id].recipients, TagKept(id),
                    owner, minted)]
  /\ rekey' = rekey \ {id}
  /\ UNCHANGED <<registry, owner, former, minted, clock>>

\* An item whose rewrite fails is reported and passed over.
RekeySkip(id) ==
  /\ id \in rekey
  /\ rekey' = rekey \ {id}
  /\ UNCHANGED <<items, registry, owner, former, minted, clock>>

Tick ==
  /\ clock < MaxClock
  /\ clock' = clock + 1
  /\ UNCHANGED <<items, registry, owner, former, minted, rekey>>

-----------------------------------------------------------------------------
ItemStep(id) ==
  \/ \E v \in Values, uids \in SUBSET Uids : Set(id, v, uids)
  \/ \E v \in Values, who \in Uids : Accept(id, v, who)
  \/ \E v \in Values, uids \in SUBSET Uids, agent \in Agents, op \in Ops :
       SetManagedItem(id, v, uids, agent, op)
  \/ \E other \in Ids, v1 \in Values, v2 \in Values : Import(id, other, v1, v2)
  \/ \E at \in 0..MaxClock : RestoreVersion(id, at) \/ ForgetVersions(id, at)
  \/ \E v \in Values, tag \in BOOLEAN, uid \in 0..minted : Migrate(id, v, tag, uid)
  \/ Delete(id) \/ RestoreItem(id) \/ Purge(id) \/ Retag(id) \/ Reclaim(id)
  \/ \E to \in Ids : Rename(id, to)
  \/ \E agent \in Agents : TrashManaged(id, agent)
  \/ \E v \in Values, agent \in Agents, op \in Ops : Stage(id, v, agent, op)
  \/ \E agent \in Agents, op \in Ops : Activate(id, agent, op) \/ Discard(id, agent, op)
  \/ \E u \in Uids : Share(id, u) \/ Revoke(id, u)
  \/ RekeyItem(id) \/ RekeySkip(id)

RegistryStep ==
  \E u \in Uids :
    \/ RemoveRecipient(u)
    \/ \E k \in KeysOf[u] : AddRecipient(u, k) \/ RotateOwner(u, k) \/ RekeyBegin(u, k)

Next == (\E id \in Ids : ItemStep(id)) \/ RegistryStep \/ Tick

Spec == Init /\ [][Next]_vars

-----------------------------------------------------------------------------
(* Properties.                                                             *)

\* The ciphertexts that hold an item's values.
Sealed(e) == {e.current} \cup e.history

\* The revisions of every item are numbered in the order they were written:
\* the saved ones below the current one, no number twice, stamps never
\* decreasing, and a staged revision takes exactly the next number.  A
\* consumer that caches a value by its revision (item_revision) relies on it.
RevisionsOrdered ==
  \A id \in Ids : Held(id) =>
    LET e == items[id] IN
    /\ \A r \in e.history : r.rev < e.current.rev /\ r.at <= e.current.at
    /\ \A r, s \in e.history : r.rev = s.rev => r = s
    /\ \A r, s \in e.history : r.rev < s.rev => r.at <= s.at
    /\ e.pending # None => e.pending.rev = e.current.rev + 1 /\ e.pending.at >= e.current.at

\* item_uid names one item for good: no two items share one (id_for_item_uid
\* answers the first it finds).
IdentityUnique ==
  \A x, y \in Ids : Held(x) /\ Held(y) /\ items[x].uid = items[y].uid => x = y

\* Whatever is written, restored, renamed, staged or purged in whatever order, the
\* document is well formed, an item_uid finds one item, and the revisions of an
\* item are numbered and stamped in the order in which they were written.
ItemsOrdered == TypeOK /\ IdentityUnique /\ RevisionsOrdered

\* A revision of `from` is found again in `to` after the step, sealed to whomever.
RevisionKept(r, to) == \E s \in Sealed(items'[to]) : [s EXCEPT !.to = r.to] = r

\* A revision once written keeps its number, stamp, writer and value for as
\* long as its item exists, wherever a rename takes the item: no write, rewrap,
\* rotation or restore loses or rewrites one (only purge --versions-before
\* drops saved ones).  And an id that holds an item before and after a step
\* holds the same item: nothing is written or renamed over another.
HistoryStep ==
  /\ \A from, to \in Ids :
       (/\ Held(from) /\ items'[to] # None
        /\ items[from].uid = items'[to].uid)
       => \A r \in Sealed(items[from]) :
            \/ RevisionKept(r, to)
            \/ \E at \in 0..MaxClock : r.at < at /\ ForgetVersions(from, at)
  /\ \A id \in Ids : Held(id) /\ items'[id] # None => items'[id].uid = items[id].uid

HistoryKept == [][HistoryStep]_vars

\* Recorded as the owner's, and in the hands of somebody who no longer is.
Stranded(id) == Held(id) /\ items[id].mode = "owner" /\ items[id].controller # owner

\* No step takes what is recorded as the owner's out of the present owner's
\* hands: an owner rotation leaves no item that only somebody who is no longer
\* owner may write, unless it carries Weles' tag, which a rotation passes over;
\* and an item without the tag is in other hands only if it was so already.
OwnershipStep ==
  \A to \in Ids : Stranded(to)' =>
    \/ items'[to].weles
    \/ \E from \in Ids : Stranded(from) /\ items[from].uid = items'[to].uid

OwnerItemsAreTheOwners == [][OwnershipStep]_vars

\* Every current and saved ciphertext of an item opens only with keys of the
\* owner, the recovery key and keys of the recipients the item lists: who was
\* revoked or removed, or was owner once, is out of every version.
SealedToReadersOnly ==
  \A id \in Ids : Held(id) =>
    \A r \in Sealed(items[id]) :
      r.to \subseteq {Recovery} \cup UNION {KeysOf[u] : u \in items[id].recipients \cup {owner}}

\* The owner and the recovery key open every current and saved version, after
\* any sequence of shares, revocations, removals, rekeys and owner rotations.
OwnerReadsEverything ==
  \A id \in Ids : Held(id) =>
    \A r \in Sealed(items[id]) : {registry[owner], Recovery} \subseteq r.to

\* No reader too many and none too few: the keys every version of an item is
\* sealed to are those of people it lists, and always the owner's and recovery's.
SealedExactly == SealedToReadersOnly /\ OwnerReadsEverything

\* Somebody the registry does not know opens no version of any item: removal.rs
\* says a person who leaves loses every item, historical revisions included.
GoneIsShutOut ==
  \A u \in Uids : registry[u] = None =>
    \A id \in Ids : Held(id) => \A r \in Sealed(items[id]) : r.to \cap KeysOf[u] = {}
=============================================================================
