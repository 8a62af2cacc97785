--------------------------- MODULE VaultItemsProofs ---------------------------
(***************************************************************************)
(* Proofs about VaultItems, for any number of items, people, keys,         *)
(* authorities and seconds.                                                *)
(***************************************************************************)
EXTENDS VaultItems, TLAPS, WellFoundedInduction

-----------------------------------------------------------------------------
(* The inductive invariant.                                                *)

\* A vault that stages no revision, drops no reader in a write and does not
\* register its owner as a recipient again: what SealedExactly holds of.
Confined == Explored \cap {"stage", "narrow", "add owner"} = {}

\* Everyone is registered under a key of theirs or not at all, the owner is.
RegistryOK(reg, boss) ==
  /\ boss \in Uids
  /\ reg \in [Uids -> Keys \cup {None}]
  /\ \A u \in Uids : reg[u] \in KeysOf[u] \cup {None}
  /\ reg[boss] # None

ReadersKeys(uids, boss) == {Recovery} \cup UNION {KeysOf[u] : u \in uids \cup {boss}}

Ordered(e) ==
  /\ \A r \in e.history : r.rev < e.current.rev /\ r.at <= e.current.at
  /\ \A r, s \in e.history : r.rev = s.rev => r = s
  /\ \A r, s \in e.history : r.rev < s.rev => r.at <= s.at
  /\ e.pending # None => e.pending.rev = e.current.rev + 1 /\ e.pending.at >= e.current.at

StampedBy(e, t) == e.current.at <= t /\ (e.pending # None => e.pending.at <= t)

SealedOK(e, boss, key) ==
  \A r \in Sealed(e) : {key, Recovery} \subseteq r.to /\ r.to \subseteq ReadersKeys(e.recipients, boss)

\* What an entry is, under this owner with this key, before the n-th item uid
\* is minted and after the second t.
EntryOK(e, boss, key, n, t) ==
  /\ e \in Entries
  /\ Ordered(e) /\ StampedBy(e, t)
  /\ e.uid < n
  /\ Confined => e.pending = None /\ SealedOK(e, boss, key)

\* ItemsOrdered and SealedExactly at once, with what they rest on: stamps of the
\* past, uids already minted, a registered owner.
IInv ==
  /\ TypeOK
  /\ RegistryOK(registry, owner)
  /\ IdentityUnique
  /\ \A id \in rekey : Held(id)
  /\ \A id \in Ids : Held(id) => EntryOK(items[id], owner, registry[owner], minted, clock)

\* What the two action properties say of a step.
StepOK == HistoryStep /\ OwnershipStep

\* The entry is recorded as the owner's, under another than boss.
Astray(e, boss) == e.mode = "owner" /\ e.controller # boss

\* f in id's place, under boss: astray only with Weles' tag, or as it was before.
Kept(id, f, boss) == Astray(f, boss) => f.weles \/ (Held(id) /\ Astray(items[id], owner))

-----------------------------------------------------------------------------
(* Numbers, keys and revisions.                                            *)

\* A nonempty set of naturals has a least one.
LEMMA NatMin ==
  ASSUME NEW T \in SUBSET Nat, T # {}
  PROVE  \E x \in T : \A y \in T : x <= y
<1> DEFINE R == {p \in Nat \X Nat : p[1] < p[2]}
<1>1. IsWellFoundedOn(R, Nat)
  BY NatLessThanWellFounded DEF OpToRel
<1>2. \A x, y \in Nat : y < x => <<y, x>> \in R
  OBVIOUS
<1> HIDE DEF R
<1>3. PICK x \in T : \A y \in T : <<y, x>> \notin R
  BY <1>1, WFMin
<1>4. \A y \in T : y \in Nat /\ x \in Nat /\ ~(y < x)
  BY <1>2, <1>3
<1> QED BY <1>3, <1>4

\* What is sealed to uids opens with the owner's key and the recovery key, and
\* with no key of anybody else.
LEMMA KeyFacts ==
  ASSUME NEW reg, NEW boss, RegistryOK(reg, boss), NEW uids \in SUBSET Uids
  PROVE  /\ FprsFor(reg, boss, uids) \in SUBSET Keys
         /\ {reg[boss], Recovery} \subseteq FprsFor(reg, boss, uids)
         /\ FprsFor(reg, boss, uids) \subseteq ReadersKeys(uids, boss)
BY ItemsAssumption DEF RegistryOK, FprsFor, ReadersKeys

LEMMA RevisionFacts ==
  ASSUME TypeOK, RegistryOK(registry, owner), NEW n \in Nat, NEW v \in Values,
         NEW who \in Uids \cup Agents, NEW op \in Ops \cup {None}, NEW uids \in SUBSET Uids
  PROVE  /\ Revision(n, v, who, op, uids) \in Revisions
         /\ Revision(n, v, who, op, uids).rev = n
         /\ Revision(n, v, who, op, uids).at = clock
         /\ Revision(n, v, who, op, uids).to = FprsFor(registry, owner, uids)
BY KeyFacts DEF Revision, Revisions, TypeOK

Resealed(r, keys) == [r EXCEPT !.to = keys]

\* A revision sealed to other keys is that revision.
LEMMA ResealedFacts ==
  ASSUME NEW r \in Revisions, NEW keys \in SUBSET Keys
  PROVE  /\ Resealed(r, keys) \in Revisions
         /\ Resealed(r, keys).rev = r.rev
         /\ Resealed(r, keys).at = r.at
         /\ Resealed(r, keys).to = keys
         /\ [Resealed(r, keys) EXCEPT !.to = r.to] = r
BY DEF Revisions, Resealed

-----------------------------------------------------------------------------
(* Entries.                                                                *)

\* r is still there, sealed to whomever.
KeptIn(r, f) == \E s \in Sealed(f) : [s EXCEPT !.to = r.to] = r

LEMMA KeptWhereItIs ==
  ASSUME NEW f, Sealed(f) \subseteq Revisions, NEW r \in Sealed(f)
  PROVE  KeptIn(r, f)
BY DEF KeptIn, Revisions

LEMMA SealedFacts ==
  ASSUME NEW e \in Entries
  PROVE  /\ e.uid \in Nat /\ e.recipients \in SUBSET Uids /\ e.print \in Values
         /\ e.controller \in Uids \cup Agents
         /\ e.current \in Revisions /\ e.history \in SUBSET Revisions
         /\ e.pending \in Revisions \cup {None}
         /\ Sealed(e) \subseteq Revisions
BY DEF Entries, Sealed

\* An entry stays sound when uids are minted and time passes.
LEMMA EntryGrows ==
  ASSUME NEW e, NEW boss, NEW key, NEW n \in Nat, NEW t \in Nat, EntryOK(e, boss, key, n, t),
         NEW m \in Nat, NEW s \in Nat, n <= m, t <= s
  PROVE  EntryOK(e, boss, key, m, s)
<1>1. e.uid \in Nat /\ e.current.at \in Nat /\ (e.pending # None => e.pending.at \in Nat)
  BY SealedFacts DEF EntryOK, Revisions
<1> QED BY <1>1 DEF EntryOK, StampedBy

\* What rewrap_item makes of a sound entry: every version is sealed to uids and
\* none is lost.
LEMMA RewrappedFacts ==
  ASSUME NEW reg, NEW boss, RegistryOK(reg, boss), NEW uids \in SUBSET Uids,
         NEW e \in Entries, NEW n, NEW t,
         Ordered(e), StampedBy(e, t), e.uid < n, Confined => e.pending = None
  PROVE  LET f == Rewrapped(e, reg, boss, uids) IN
         /\ EntryOK(f, boss, reg[boss], n, t)
         /\ f.uid = e.uid /\ f.mode = e.mode /\ f.controller = e.controller /\ f.weles = e.weles
         /\ \A r \in Sealed(e) : KeptIn(r, f)
<1> DEFINE keys == FprsFor(reg, boss, uids)
           now == Resealed(e.current, keys)
           saved == {Resealed(r, keys) : r \in e.history}
           f == Rewrapped(e, reg, boss, uids)
<1>1. keys \in SUBSET Keys /\ {reg[boss], Recovery} \subseteq keys /\ keys \subseteq ReadersKeys(uids, boss)
  BY KeyFacts
<1> HIDE DEF keys
<1>2. e.current \in Revisions /\ e.history \in SUBSET Revisions /\ e.pending \in Revisions \cup {None}
  BY SealedFacts
<1>3. /\ now \in Revisions /\ now.rev = e.current.rev /\ now.at = e.current.at /\ now.to = keys
      /\ [now EXCEPT !.to = e.current.to] = e.current
  BY <1>1, <1>2, ResealedFacts
<1>4. saved \in SUBSET Revisions /\ \A s \in saved : s.to = keys
  BY <1>1, <1>2, ResealedFacts
<1>5. \A s \in saved : \E r \in e.history :
        s = Resealed(r, keys) /\ s.rev = r.rev /\ s.at = r.at
  BY <1>1, <1>2, ResealedFacts
<1>6. /\ f \in Entries /\ f.uid = e.uid /\ f.mode = e.mode /\ f.controller = e.controller
      /\ f.weles = e.weles /\ f.recipients = uids /\ f.current = now /\ f.history = saved /\ f.pending = e.pending
  <2>1. f = [e EXCEPT !.recipients = uids, !.current.to = keys,
                      !.history = {[r EXCEPT !.to = keys] : r \in e.history}]
    BY DEF Rewrapped, keys
  <2>2. f = [uid |-> e.uid, state |-> e.state, mode |-> e.mode, controller |-> e.controller,
             weles |-> e.weles, recipients |-> uids, print |-> e.print, current |-> now, history |-> saved,
             pending |-> e.pending]
    BY <2>1 DEF Entries, Resealed
  <2> HIDE DEF now, saved, f
  <2> QED BY <1>3, <1>4, <2>2 DEF Entries
<1> HIDE DEF f
<1>7. Ordered(f)
  <2> HIDE DEF now, saved
  <2>1. \A s \in saved : s.rev < now.rev /\ s.at <= now.at
    BY <1>3, <1>5 DEF Ordered
  <2>2. \A s, q \in saved : s.rev = q.rev => s = q
    BY <1>5 DEF Ordered
  <2>3. \A s, q \in saved : s.rev < q.rev => s.at <= q.at
    BY <1>5 DEF Ordered
  <2> QED BY <1>3, <1>6, <2>1, <2>2, <2>3 DEF Ordered
<1>8. StampedBy(f, t)
  BY <1>3, <1>6 DEF StampedBy
<1>9. SealedOK(f, boss, reg[boss])
  <2> HIDE DEF now, saved
  <2> QED BY <1>1, <1>3, <1>4, <1>6 DEF SealedOK, Sealed
<1>10. ASSUME NEW r \in Sealed(e) PROVE KeptIn(r, f)
  <2>1. CASE r = e.current
    BY <1>3, <1>6, <2>1 DEF KeptIn, Sealed
  <2>2. CASE r \in e.history
    <3>1. Resealed(r, keys) \in Sealed(f)
      BY <1>6, <2>2 DEF Sealed
    <3> QED BY <1>1, <1>2, <2>2, <3>1, ResealedFacts DEF KeptIn
  <2> QED BY <2>1, <2>2 DEF Sealed
<1> QED BY <1>6, <1>7, <1>8, <1>9, <1>10 DEF EntryOK, f

\* The same of an f that is what rewrap_item makes.
LEMMA RewrappedOf ==
  ASSUME NEW reg, NEW boss, RegistryOK(reg, boss), NEW uids \in SUBSET Uids,
         NEW e \in Entries, NEW n, NEW t,
         Ordered(e), StampedBy(e, t), e.uid < n, Confined => e.pending = None,
         NEW f, f = Rewrapped(e, reg, boss, uids)
  PROVE  /\ EntryOK(f, boss, reg[boss], n, t)
         /\ f.uid = e.uid /\ f.mode = e.mode /\ f.controller = e.controller /\ f.weles = e.weles
         /\ \A r \in Sealed(e) : KeptIn(r, f)
<1>1. /\ EntryOK(Rewrapped(e, reg, boss, uids), boss, reg[boss], n, t)
      /\ Rewrapped(e, reg, boss, uids).uid = e.uid
      /\ Rewrapped(e, reg, boss, uids).mode = e.mode
      /\ Rewrapped(e, reg, boss, uids).controller = e.controller
      /\ Rewrapped(e, reg, boss, uids).weles = e.weles
      /\ \A r \in Sealed(e) : KeptIn(r, Rewrapped(e, reg, boss, uids))
  BY RewrappedFacts
<1> QED BY <1>1

\* f is sound in id's place, as the same item with every version it had or as a
\* new item with the given uid.
Continues(id, f, fresh) ==
  /\ EntryOK(f, owner, registry[owner], fresh + 1, clock)
  /\ Held(id) => f.uid = items[id].uid /\ \A r \in Sealed(items[id]) : KeptIn(r, f)
  /\ ~Held(id) => f.uid = fresh
  /\ Kept(id, f, owner)

\* What a write makes of an item: the next revision of a sound entry, with every
\* earlier one saved, or the first of an item with the next uid.
LEMMA EnvelopeFacts ==
  ASSUME IInv, NEW id \in Ids, NEW v \in Values, NEW uids \in SUBSET Uids,
         NEW tag \in BOOLEAN, NEW who \in Uids \cup Agents, NEW op \in Ops \cup {None},
         NEW mode \in {"owner", "external", "managed"}, NEW c \in Uids \cup Agents,
         NEW fresh \in Nat, Held(id) => minted <= fresh,
         mode = "owner" /\ c # owner => tag \/ (Held(id) /\ Astray(items[id], owner)),
         Held(id) /\ Confined => items[id].recipients \subseteq uids
  PROVE  Continues(id, Envelope(id, v, uids, tag, who, op, mode, c, fresh), fresh)
<1> DEFINE f == Envelope(id, v, uids, tag, who, op, mode, c, fresh)
           keys == FprsFor(registry, owner, uids)
           old == items[id]
<1>0. TypeOK /\ RegistryOK(registry, owner) /\ minted \in Nat /\ clock \in Nat
  BY DEF IInv, TypeOK
<1>1. keys \in SUBSET Keys /\ {registry[owner], Recovery} \subseteq keys /\ keys \subseteq ReadersKeys(uids, owner)
  BY <1>0, KeyFacts
<1>2. CASE Held(id)
  <2>1. EntryOK(old, owner, registry[owner], minted, clock) /\ old \in Entries
    BY <1>2 DEF IInv, EntryOK
  <2>2. /\ old.uid \in Nat /\ old.current \in Revisions /\ old.history \in SUBSET Revisions
        /\ old.current.rev \in Nat /\ old.current.at \in Nat
        /\ \A r \in old.history : r.rev \in Nat /\ r.at \in Nat
    BY <2>1, SealedFacts DEF Revisions
  <2> DEFINE next == Revision(old.current.rev + 1, v, who, op, uids)
  <2>3. next \in Revisions /\ next.rev = old.current.rev + 1 /\ next.at = clock /\ next.to = keys
    <3>1. PICK n \in Nat : n = old.current.rev + 1
      BY <2>2
    <3>2. /\ Revision(n, v, who, op, uids) \in Revisions
          /\ Revision(n, v, who, op, uids).rev = n
          /\ Revision(n, v, who, op, uids).at = clock
          /\ Revision(n, v, who, op, uids).to = FprsFor(registry, owner, uids)
      BY <1>0, RevisionFacts
    <3> QED BY <3>1, <3>2
  <2> HIDE DEF next
  <2>4. f = [uid |-> old.uid, state |-> "active", mode |-> mode, controller |-> c,
             weles |-> tag, recipients |-> uids, print |-> v, current |-> next,
             history |-> old.history \cup {old.current}, pending |-> None]
    BY <1>2 DEF Envelope, next
  <2> HIDE DEF f, keys
  <2>5. /\ f \in Entries /\ f.uid = old.uid /\ f.mode = mode /\ f.controller = c
        /\ f.weles = tag /\ f.recipients = uids /\ f.current = next /\ f.history = old.history \cup {old.current}
        /\ f.pending = None
    BY <2>2, <2>3, <2>4 DEF Entries
  <2>6. Ordered(f)
    <3> HIDE DEF old
    <3> QED BY <2>1, <2>2, <2>3, <2>5, <1>0 DEF EntryOK, Ordered, StampedBy
  <2>7. StampedBy(f, clock)
    BY <1>0, <2>3, <2>5 DEF StampedBy
  <2>8. ASSUME Confined PROVE SealedOK(f, owner, registry[owner])
    <3>1. ReadersKeys(old.recipients, owner) \subseteq ReadersKeys(uids, owner)
      BY <1>2, <2>8 DEF ReadersKeys
    <3> QED BY <1>1, <2>1, <2>3, <2>5, <2>8, <3>1 DEF EntryOK, SealedOK, Sealed
  <2>9. \A r \in Sealed(old) : r \in Sealed(f) /\ Sealed(f) \subseteq Revisions
    BY <2>5, SealedFacts DEF Sealed
  <2>10. \A r \in Sealed(old) : KeptIn(r, f)
    BY <2>9, KeptWhereItIs
  <2>11. f.uid < fresh + 1
    BY <1>0, <1>2, <2>1, <2>2, <2>5 DEF EntryOK
  <2>12. Kept(id, f, owner)
    BY <2>5 DEF Kept, Astray
  <2> QED BY <1>2, <2>5, <2>6, <2>7, <2>8, <2>10, <2>11, <2>12 DEF EntryOK, Continues, f
<1>3. CASE ~Held(id)
  <2> DEFINE next == Revision(1, v, who, op, uids)
  <2>3. next \in Revisions /\ next.rev = 1 /\ next.at = clock /\ next.to = keys
    <3>1. /\ Revision(1, v, who, op, uids) \in Revisions
          /\ Revision(1, v, who, op, uids).rev = 1
          /\ Revision(1, v, who, op, uids).at = clock
          /\ Revision(1, v, who, op, uids).to = FprsFor(registry, owner, uids)
      BY <1>0, RevisionFacts
    <3> QED BY <3>1
  <2> HIDE DEF next
  <2>4. f = [uid |-> fresh, state |-> "active", mode |-> mode, controller |-> c,
             weles |-> tag, recipients |-> uids, print |-> v, current |-> next, history |-> {}, pending |-> None]
    BY <1>3 DEF Envelope, next
  <2> HIDE DEF f, keys
  <2>5. /\ f \in Entries /\ f.uid = fresh /\ f.mode = mode /\ f.controller = c
        /\ f.weles = tag /\ f.recipients = uids /\ f.current = next /\ f.history = {} /\ f.pending = None
    BY <2>3, <2>4 DEF Entries
  <2>6. Ordered(f) /\ StampedBy(f, clock) /\ SealedOK(f, owner, registry[owner])
    BY <1>0, <1>1, <2>3, <2>5 DEF Ordered, StampedBy, SealedOK, Sealed
  <2>7. Kept(id, f, owner)
    BY <1>3, <2>5 DEF Kept, Astray
  <2> QED BY <1>3, <2>5, <2>6, <2>7 DEF EntryOK, Continues, f
<1> QED BY <1>2, <1>3

LEMMA AdministeredFacts ==
  ASSUME IInv, NEW id \in Ids, NEW v \in Values, NEW uids \in SUBSET Uids, NEW tag \in BOOLEAN,
         NEW who \in Uids, NEW fresh \in Nat, Held(id) => minted <= fresh,
         Held(id) /\ Confined => items[id].recipients \subseteq uids
  PROVE  Continues(id, Administered(id, v, uids, tag, who, fresh), fresh)
<1>1. CASE Held(id)
  <2>1. /\ items[id].mode \in {"owner", "external", "managed"}
        /\ items[id].controller \in Uids \cup Agents
    BY <1>1 DEF IInv, EntryOK, Entries
  <2>2. PICK mode \in {"owner", "external", "managed"}, c \in Uids \cup Agents :
          mode = items[id].mode /\ c = items[id].controller
    BY <2>1
  <2>3. Administered(id, v, uids, tag, who, fresh) = Envelope(id, v, uids, tag, who, None, mode, c, fresh)
    BY <1>1, <2>2 DEF Administered
  <2>4. /\ mode = "owner" /\ c # owner => tag \/ (Held(id) /\ Astray(items[id], owner))
        /\ None \in Ops \cup {None} /\ who \in Uids \cup Agents
    BY <1>1, <2>1, <2>2 DEF Astray
  <2>5. Continues(id, Envelope(id, v, uids, tag, who, None, mode, c, fresh), fresh)
    BY <2>4, EnvelopeFacts
  <2> QED BY <2>3, <2>5
<1>2. CASE ~Held(id)
  <2>1. PICK mode \in {"owner", "external", "managed"} :
          mode = IF who = owner THEN "owner" ELSE "external"
    OBVIOUS
  <2>2. Administered(id, v, uids, tag, who, fresh) = Envelope(id, v, uids, tag, who, None, mode, who, fresh)
    BY <1>2, <2>1 DEF Administered
  <2>3. (mode = "owner" /\ who # owner => tag \/ (Held(id) /\ Astray(items[id], owner))) /\ None \in Ops \cup {None} /\ who \in Uids \cup Agents
    BY <2>1
  <2>4. Continues(id, Envelope(id, v, uids, tag, who, None, mode, who, fresh), fresh)
    BY <2>3, EnvelopeFacts
  <2> QED BY <2>2, <2>4
<1> QED BY <1>1, <1>2

-----------------------------------------------------------------------------
(* Steps.                                                                  *)

\* A step carries every item on under its uid with the versions it had, unless
\* they are forgotten by their stamp, and new items have uids of their own.
Carried ==
  /\ \A x \in Ids : items'[x] # None /\ Held(x) =>
       /\ items'[x].uid = items[x].uid
       /\ \A r \in Sealed(items[x]) :
            KeptIn(r, items'[x]) \/ \E at \in 0..MaxClock : r.at < at /\ ForgetVersions(x, at)
  /\ \A x, y \in Ids : Held(x) /\ ~Held(y) /\ items'[y] # None => items[x].uid # items'[y].uid
  /\ \A x \in Ids : items'[x] # None => Kept(x, items'[x], owner')
  /\ \A x, y \in Ids :
       ~Held(x) /\ ~Held(y) /\ items'[x] # None /\ items'[y] # None
       /\ items'[x].uid = items'[y].uid => x = y

\* Such a step keeps IInv when what it writes is sound, and loses no history.
LEMMA CarriedFacts ==
  ASSUME IInv, Carried, TypeOK', RegistryOK(registry, owner)',
         \A x \in rekey' : items'[x] # None,
         \A x \in Ids : items'[x] # None =>
           EntryOK(items'[x], owner', registry'[owner'], minted', clock')
  PROVE  IInv' /\ StepOK
<1>1. \A x, y \in Ids : Held(x) /\ ~Held(y) /\ items'[y] # None => items[x].uid # items'[y].uid
  BY DEF Carried
<1>2. IdentityUnique'
  <2> SUFFICES ASSUME NEW x \in Ids, NEW y \in Ids, items'[x] # None, items'[y] # None,
                      items'[x].uid = items'[y].uid
               PROVE x = y
    BY DEF IdentityUnique, Held
  <2>1. CASE Held(x) /\ Held(y)
    BY <2>1 DEF Carried, IInv, IdentityUnique
  <2>2. CASE ~Held(x) /\ ~Held(y)
    BY <2>2 DEF Carried
  <2> QED BY <1>1, <2>1, <2>2 DEF Carried
<1>3. ASSUME NEW from \in Ids, NEW to \in Ids, Held(from), items'[to] # None,
             items[from].uid = items'[to].uid, NEW r \in Sealed(items[from])
      PROVE RevisionKept(r, to) \/ \E at \in 0..MaxClock : r.at < at /\ ForgetVersions(from, at)
  <2>1. from = to
    BY <1>1, <1>3 DEF Carried, IInv, IdentityUnique
  <2> QED BY <1>3, <2>1 DEF Carried, KeptIn, RevisionKept
<1>4. HistoryStep
  BY <1>3 DEF HistoryStep, Carried
<1>5. OwnershipStep
  <2> SUFFICES ASSUME NEW x \in Ids, items'[x] # None, Astray(items'[x], owner'), ~items'[x].weles
               PROVE \E from \in Ids : Stranded(from) /\ items[from].uid = items'[x].uid
    BY DEF OwnershipStep, Stranded, Held, Astray
  <2>1. Held(x) /\ Astray(items[x], owner)
    BY DEF Carried, Kept
  <2>2. items[x].uid = items'[x].uid
    BY <2>1 DEF Carried
  <2> QED BY <2>1, <2>2 DEF Stranded, Astray
<1> QED BY <1>2, <1>4, <1>5 DEF IInv, Held, StepOK

\* A step that writes one entry.
LEMMA WroteFacts ==
  ASSUME IInv, NEW id \in Ids, NEW entry,
         items' = [items EXCEPT ![id] = entry], Mint(id),
         rekey' \in SUBSET Ids, \A x \in rekey' : items'[x] # None,
         UNCHANGED <<registry, owner, former, clock>>,
         entry # None => EntryOK(entry, owner, registry[owner], minted', clock),
         entry # None /\ Held(id) =>
           /\ entry.uid = items[id].uid
           /\ \A r \in Sealed(items[id]) :
                KeptIn(r, entry) \/ \E at \in 0..MaxClock : r.at < at /\ ForgetVersions(id, at),
         entry # None /\ ~Held(id) => \A x \in Ids : Held(x) => items[x].uid # entry.uid,
         entry # None => Kept(id, entry, owner)
  PROVE  IInv' /\ StepOK
<1>1. /\ items \in [Ids -> Entries \cup {None}] /\ minted \in Nat /\ clock \in Nat
      /\ \A x \in Ids : items'[x] = IF x = id THEN entry ELSE items[x]
  BY DEF IInv, TypeOK
<1>2. minted' \in Nat /\ minted <= minted'
  BY <1>1 DEF Mint
<1>3. TypeOK' /\ RegistryOK(registry, owner)'
  BY <1>1, <1>2 DEF IInv, TypeOK, EntryOK, RegistryOK
<1>4. ASSUME NEW x \in Ids, x # id, items'[x] # None
      PROVE /\ EntryOK(items'[x], owner', registry'[owner'], minted', clock')
            /\ Held(x) /\ items'[x] = items[x] /\ Kept(x, items'[x], owner)
            /\ \A r \in Sealed(items[x]) : KeptIn(r, items'[x])
  <2>1. EntryOK(items[x], owner, registry[owner], minted, clock) /\ items[x] \in Entries /\ items'[x] = items[x]
    BY <1>1, <1>4 DEF IInv, Held, EntryOK
  <2>2. EntryOK(items[x], owner, registry[owner], minted', clock)
    BY <1>1, <1>2, <2>1, EntryGrows
  <2>3. \A r \in Sealed(items[x]) : KeptIn(r, items[x])
    BY <2>1, SealedFacts, KeptWhereItIs
  <2> QED BY <1>4, <2>1, <2>2, <2>3 DEF Held, Kept
<1>5. Carried
  <2>1. \A x \in Ids : items'[x] # None => Kept(x, items'[x], owner')
    BY <1>1, <1>4
  <2>2. \A x, y \in Ids : Held(x) /\ ~Held(y) /\ items'[y] # None => items[x].uid # items'[y].uid
    BY <1>1, <1>4
  <2>3. \A x \in Ids : items'[x] # None /\ Held(x) =>
          /\ items'[x].uid = items[x].uid
          /\ \A r \in Sealed(items[x]) :
               KeptIn(r, items'[x]) \/ \E at \in 0..MaxClock : r.at < at /\ ForgetVersions(x, at)
    BY <1>1, <1>4
  <2>4. \A x, y \in Ids : ~Held(x) /\ ~Held(y) /\ items'[x] # None /\ items'[y] # None
          /\ items'[x].uid = items'[y].uid => x = y
    BY <1>1, <1>4
  <2> QED BY <2>1, <2>2, <2>3, <2>4 DEF Carried
<1>6. \A x \in Ids : items'[x] # None => EntryOK(items'[x], owner', registry'[owner'], minted', clock')
  BY <1>1, <1>4
<1> QED BY <1>3, <1>5, <1>6, CarriedFacts

\* The next item uid is nobody's yet.
LEMMA MintedIsNew ==
  ASSUME IInv
  PROVE  minted \in Nat /\ \A x \in Ids : Held(x) => items[x].uid # minted
<1>1. minted \in Nat
  BY DEF IInv, TypeOK
<1>2. ASSUME NEW x \in Ids, Held(x) PROVE items[x].uid \in Nat /\ items[x].uid < minted
  BY <1>2, SealedFacts DEF IInv, EntryOK
<1> QED BY <1>1, <1>2

\* A step that writes an item.
LEMMA WritesFacts ==
  ASSUME IInv, NEW id \in Ids, NEW f, NEW fresh \in Nat, Continues(id, f, fresh),
         ~Held(id) => fresh <= minted /\ \A x \in Ids : Held(x) => items[x].uid # fresh,
         items' = [items EXCEPT ![id] = f], Mint(id),
         rekey' \in SUBSET Ids, \A x \in rekey' : items'[x] # None,
         UNCHANGED <<registry, owner, former, clock>>
  PROVE  IInv' /\ StepOK
<1>1. EntryOK(f, owner, registry[owner], minted', clock)
  <2>1. CASE Held(id)
    <3>1. items[id].uid < minted
      BY <2>1 DEF IInv, EntryOK
    <3> QED BY <2>1, <3>1 DEF Continues, EntryOK, Mint
  <2>2. CASE ~Held(id)
    <3>1. minted' = minted + 1 /\ minted \in Nat /\ fresh <= minted /\ f.uid = fresh
      BY <2>2 DEF Continues, Mint, IInv, TypeOK
    <3>2. f.uid < minted'
      BY <3>1
    <3> QED BY <3>2 DEF Continues, EntryOK
  <2> QED BY <2>1, <2>2
<1>2. Held(id) => /\ f.uid = items[id].uid
                  /\ \A r \in Sealed(items[id]) :
                       KeptIn(r, f) \/ \E at \in 0..MaxClock : r.at < at /\ ForgetVersions(id, at)
  BY DEF Continues
<1>3. ~Held(id) => \A x \in Ids : Held(x) => items[x].uid # f.uid
  BY DEF Continues
<1>4. Kept(id, f, owner)
  BY DEF Continues
<1> QED BY <1>1, <1>2, <1>3, <1>4, WroteFacts

LEMMA SetItemFacts ==
  ASSUME IInv, NEW id \in Ids, NEW v \in Values, NEW uids \in SUBSET Uids, NEW tag \in BOOLEAN,
         NEW who \in Uids, NEW uid \in Nat, uid <= minted, \A x \in Ids : Held(x) => items[x].uid # uid,
         SetItem(id, v, uids, tag, who, uid), Held(id) /\ Confined => items[id].recipients \subseteq uids
  PROVE  IInv' /\ StepOK
<1>1. minted \in Nat
  BY DEF IInv, TypeOK
<1>2. PICK fresh \in Nat : fresh = IF Held(id) THEN minted ELSE uid
  BY <1>1
<1>3. Administered(id, v, uids, tag, who, uid) = Administered(id, v, uids, tag, who, fresh)
  BY <1>2 DEF Administered, Envelope
<1>4. Continues(id, Administered(id, v, uids, tag, who, fresh), fresh)
  <2>1. Held(id) => minted <= fresh
    BY <1>1, <1>2
  <2> QED BY <2>1, AdministeredFacts
<1>5. ~Held(id) => fresh <= minted /\ \A x \in Ids : Held(x) => items[x].uid # fresh
  BY <1>2
<1> QED BY <1>3, <1>4, <1>5, WritesFacts DEF SetItem, Wrote, Outdate

\* A step that changes fields of an entry besides what it holds.
LEMMA RestatedFacts ==
  ASSUME IInv, NEW id \in Ids, Held(id), NEW f \in Entries, Wrote(id, f), UNCHANGED minted,
         f.uid = items[id].uid, f.recipients = items[id].recipients,
         f.current = items[id].current, f.history = items[id].history,
         f.pending \in {items[id].pending, None}, Kept(id, f, owner)
  PROVE  IInv' /\ StepOK
<1>1. EntryOK(items[id], owner, registry[owner], minted, clock) /\ items[id] \in Entries
  BY DEF IInv, EntryOK
<1>2. Ordered(f) /\ StampedBy(f, clock)
  BY <1>1 DEF EntryOK, Ordered, StampedBy
<1>3. Confined => f.pending = None /\ SealedOK(f, owner, registry[owner])
  BY <1>1 DEF EntryOK, SealedOK, Sealed
<1>4. EntryOK(f, owner, registry[owner], minted', clock)
  BY <1>1, <1>2, <1>3 DEF EntryOK
<1>5. \A r \in Sealed(items[id]) : KeptIn(r, f)
  <2>1. Sealed(f) = Sealed(items[id]) /\ Sealed(f) \subseteq Revisions
    BY SealedFacts DEF Sealed
  <2> QED BY <2>1, KeptWhereItIs
<1> QED BY <1>4, <1>5, WroteFacts DEF Wrote, Outdate, Mint

\* Its value is one of the item's, the earliest of those with the stamp.
LEMMA ChosenFacts ==
  ASSUME IInv, NEW id \in Ids, Held(id), NEW at \in Nat, \E r \in items[id].history : r.at = at
  PROVE  Chosen(id, at) \in items[id].history /\ Chosen(id, at).value \in Values
<1>1. items[id].history \in SUBSET Revisions
  BY SealedFacts DEF IInv, EntryOK
<1> DEFINE T == {r.rev : r \in {s \in items[id].history : s.at = at}}
<1>2. T \in SUBSET Nat /\ T # {}
  BY <1>1 DEF Revisions
<1>3. PICK n \in T : \A m \in T : n <= m
  <2> HIDE DEF T
  <2> QED BY <1>2, NatMin
<1>4. \E r \in items[id].history : r.at = at /\ \A s \in items[id].history : s.at = at => r.rev <= s.rev
  BY <1>3
<1>5. Chosen(id, at) \in items[id].history
  BY <1>4 DEF Chosen
<1> QED BY <1>1, <1>5 DEF Revisions

\* The entry with a field or two changed.
LEMMA ControlFacts ==
  ASSUME NEW e \in Entries, NEW boss \in Uids
  PROVE  LET f == [e EXCEPT !.mode = "owner", !.controller = boss] IN
         /\ f \in Entries /\ f.uid = e.uid /\ f.recipients = e.recipients
         /\ f.current = e.current /\ f.history = e.history /\ f.pending = e.pending
         /\ f.mode = "owner" /\ f.controller = boss
<1>1. PICK c : c = [e EXCEPT !.mode = "owner"]
  OBVIOUS
<1>2. /\ c \in Entries /\ c.uid = e.uid /\ c.recipients = e.recipients /\ c.mode = "owner"
      /\ c.current = e.current /\ c.history = e.history /\ c.pending = e.pending
  BY <1>1 DEF Entries
<1>3. [e EXCEPT !.mode = "owner", !.controller = boss] = [c EXCEPT !.controller = boss]
  BY <1>1 DEF Entries
<1> QED BY <1>2, <1>3 DEF Entries

LEMMA PendingFacts ==
  ASSUME NEW e \in Entries, NEW next \in Revisions
  PROVE  LET f == [e EXCEPT !.pending = next] IN
         /\ f \in Entries /\ f.uid = e.uid /\ f.recipients = e.recipients
         /\ f.current = e.current /\ f.history = e.history /\ f.pending = next
         /\ f.mode = e.mode /\ f.controller = e.controller
BY DEF Entries

LEMMA ActivatedFacts ==
  ASSUME NEW e \in Entries, e.pending \in Revisions
  PROVE  LET f == Activated(e) IN
         /\ f \in Entries /\ f.uid = e.uid /\ f.recipients = e.recipients
         /\ f.current = e.pending /\ f.history = e.history \cup {e.current} /\ f.pending = None
         /\ f.mode = e.mode /\ f.controller = e.controller
<1> DEFINE saved == e.history \cup {e.current}
<1>1. saved \in SUBSET Revisions
  BY SealedFacts
<1>2. PICK c : c = [e EXCEPT !.current = e.pending]
  OBVIOUS
<1>3. /\ c \in Entries /\ c.uid = e.uid /\ c.recipients = e.recipients /\ c.current = e.pending
      /\ c.mode = e.mode /\ c.controller = e.controller
  BY <1>2 DEF Entries
<1> HIDE DEF saved
<1>4. PICK h : h = [c EXCEPT !.history = saved]
  OBVIOUS
<1>5. /\ h \in Entries /\ h.uid = e.uid /\ h.recipients = e.recipients /\ h.current = e.pending
      /\ h.history = saved /\ h.mode = e.mode /\ h.controller = e.controller
  BY <1>1, <1>3, <1>4 DEF Entries
<1>6. Activated(e) = [h EXCEPT !.pending = None]
  BY <1>2, <1>4 DEF Activated, saved, Entries
<1>7. /\ Activated(e) \in Entries /\ Activated(e).uid = e.uid
      /\ Activated(e).recipients = e.recipients /\ Activated(e).current = e.pending
      /\ Activated(e).history = saved /\ Activated(e).pending = None
      /\ Activated(e).mode = e.mode /\ Activated(e).controller = e.controller
  BY <1>5, <1>6 DEF Entries
<1> QED BY <1>7 DEF saved

-----------------------------------------------------------------------------
(* The actions on one item.                                                *)

LEMMA WritingStep ==
  ASSUME IInv, NEW id \in Ids,
         \/ \E v \in Values, uids \in SUBSET Uids : Set(id, v, uids)
         \/ \E v \in Values, who \in Uids : Accept(id, v, who)
         \/ \E v \in Values, uids \in SUBSET Uids, agent \in Agents, op \in Ops :
              SetManagedItem(id, v, uids, agent, op)
         \/ \E at \in 0..MaxClock : RestoreVersion(id, at)
         \/ \E u \in Uids : Share(id, u)
         \/ \E v \in Values, tag \in BOOLEAN, uid \in 0..minted : Migrate(id, v, tag, uid)
         \/ RekeyItem(id)
  PROVE  IInv' /\ StepOK
<1>1. /\ owner \in Uids /\ minted \in Nat /\ minted <= minted
      /\ \A x \in Ids : Held(x) => items[x].uid # minted
  BY MintedIsNew DEF IInv, TypeOK
<1>2. Held(id) => /\ items[id].recipients \in SUBSET Uids /\ items[id].current.value \in Values
                  /\ items[id].weles \in BOOLEAN
  BY SealedFacts DEF IInv, EntryOK, Revisions, Entries
<1>20. PICK tag \in BOOLEAN : tag = TagKept(id)
  BY <1>2 DEF TagKept
<1>3. ASSUME NEW v \in Values, NEW uids \in SUBSET Uids, Set(id, v, uids) PROVE IInv' /\ StepOK
  <2>1. Held(id) /\ Confined => items[id].recipients \subseteq uids
    BY <1>3 DEF Set, Confined
  <2>2. PICK no \in BOOLEAN : no = FALSE
    OBVIOUS
  <2> QED BY <1>1, <1>3, <2>1, <2>2, SetItemFacts DEF Set
<1>4. ASSUME NEW v \in Values, NEW who \in Uids, Accept(id, v, who) PROVE IInv' /\ StepOK
  <2>1. PICK uids \in SUBSET Uids : uids = IF Held(id) THEN items[id].recipients ELSE {}
    BY <1>2
  <2>2. SetItem(id, v, uids, tag, who, minted)
    BY <1>4, <1>20, <2>1 DEF Accept
  <2>3. Held(id) /\ Confined => items[id].recipients \subseteq uids
    BY <2>1
  <2> QED BY <1>1, <2>2, <2>3, SetItemFacts
<1>5. ASSUME NEW v \in Values, NEW uids \in SUBSET Uids, NEW agent \in Agents, NEW op \in Ops,
             SetManagedItem(id, v, uids, agent, op)
      PROVE IInv' /\ StepOK
  <2>1. PICK readers \in SUBSET Uids : readers = IF Held(id) THEN items[id].recipients ELSE uids
    BY <1>2
  <2>2. PICK mode \in {"owner", "external", "managed"} : mode = "managed"
    OBVIOUS
  <2>3. agent \in Uids \cup Agents /\ op \in Ops \cup {None} /\ mode # "owner"
          /\ (Held(id) => items[id].recipients \subseteq readers)
    BY <2>1, <2>2
  <2>0. PICK mark \in BOOLEAN : mark = IF Held(id) THEN items[id].weles ELSE agent = Weles
    BY <1>2
  <2>4. PICK fresh \in Nat, c \in Uids \cup Agents, no \in Ops \cup {None} :
          fresh = minted /\ minted <= fresh /\ c = agent /\ no = op
    BY <1>1, <2>3
  <2>5. /\ mode = "owner" /\ c # owner => mark \/ (Held(id) /\ Astray(items[id], owner))
        /\ Held(id) /\ Confined => items[id].recipients \subseteq readers
        /\ Held(id) => minted <= fresh
    BY <2>3, <2>4
  <2>6. Continues(id, Envelope(id, v, readers, mark, c, no, mode, c, fresh), fresh)
    BY <2>4, <2>5, EnvelopeFacts
  <2>7. items' = [items EXCEPT ![id] = Envelope(id, v, readers, mark, c, no, mode, c, fresh)]
    BY <1>5, <2>0, <2>1, <2>2, <2>4 DEF SetManagedItem, Wrote
  <2> QED BY <1>1, <1>5, <2>4, <2>6, <2>7, WritesFacts DEF SetManagedItem, Wrote, Outdate
<1>6. ASSUME NEW at \in 0..MaxClock, RestoreVersion(id, at) PROVE IInv' /\ StepOK
  <2>1. PICK v \in Values : v = Chosen(id, at).value
    BY <1>6, ChosenFacts DEF RestoreVersion, Live
  <2>2. PICK uids \in SUBSET Uids : uids = items[id].recipients
    BY <1>2, <1>6 DEF RestoreVersion, Live
  <2>3. SetItem(id, v, uids, tag, owner, minted)
    BY <1>6, <1>20, <2>1, <2>2 DEF RestoreVersion
  <2> QED BY <1>1, <2>2, <2>3, SetItemFacts
<1>7. ASSUME NEW u \in Uids, Share(id, u) PROVE IInv' /\ StepOK
  <2>1. PICK uids \in SUBSET Uids : uids = items[id].recipients \cup {u}
    BY <1>2, <1>7 DEF Share, Live
  <2>2. PICK v \in Values : v = items[id].current.value
    BY <1>2, <1>7 DEF Share, Live
  <2>3. SetItem(id, v, uids, tag, owner, minted)
    BY <1>7, <1>20, <2>1, <2>2 DEF Share
  <2>4. items[id].recipients \subseteq uids
    BY <2>1
  <2> QED BY <1>1, <2>3, <2>4, SetItemFacts
<1>8. CASE RekeyItem(id)
  <2>1. Held(id)
    BY <1>8 DEF RekeyItem, IInv
  <2>2. PICK v \in Values, uids \in SUBSET Uids : v = items[id].current.value /\ uids = items[id].recipients
    BY <1>2, <2>1
  <2>3. Continues(id, Administered(id, v, uids, tag, owner, minted), minted)
    BY <1>1, <2>2, AdministeredFacts
  <2>5. items' = [items EXCEPT ![id] = Administered(id, v, uids, tag, owner, minted)]
    BY <1>8, <1>20, <2>2 DEF RekeyItem
  <2>4. rekey' \in SUBSET Ids /\ \A x \in rekey' : items'[x] # None
    BY <1>8 DEF RekeyItem, IInv, TypeOK, Held
  <2> QED BY <1>1, <1>8, <2>1, <2>3, <2>4, <2>5, WritesFacts DEF RekeyItem, Mint
<1>9. ASSUME NEW v \in Values, NEW mark \in BOOLEAN, NEW uid \in 0..minted, Migrate(id, v, mark, uid)
      PROVE IInv' /\ StepOK
  <2>1. PICK uids \in SUBSET Uids : uids = {}
    OBVIOUS
  <2>2. SetItem(id, v, uids, mark, owner, uid)
    BY <1>9, <2>1 DEF Migrate
  <2>3. uid \in Nat /\ uid <= minted /\ \A x \in Ids : Held(x) => items[x].uid # uid
    BY <1>1, <1>9 DEF Migrate, Elsewhere
  <2>4. Held(id) /\ Confined => items[id].recipients \subseteq uids
    BY <1>9 DEF Migrate, Confined
  <2> QED BY <1>1, <2>2, <2>3, <2>4, SetItemFacts
<1> QED BY <1>3, <1>4, <1>5, <1>6, <1>7, <1>8, <1>9

LEMMA ChangingStep ==
  ASSUME IInv, NEW id \in Ids,
         \/ Delete(id) \/ RestoreItem(id) \/ Purge(id) \/ Retag(id) \/ Reclaim(id)
         \/ \E at \in 0..MaxClock : ForgetVersions(id, at)
         \/ \E u \in Uids : Revoke(id, u)
         \/ \E agent \in Agents : TrashManaged(id, agent)
         \/ \E agent \in Agents, op \in Ops : Discard(id, agent, op)
  PROVE  IInv' /\ StepOK
<1> DEFINE e == items[id]
<1>1. Held(id) => /\ e \in Entries /\ EntryOK(e, owner, registry[owner], minted, clock)
                  /\ Sealed(e) \subseteq Revisions
  BY SealedFacts DEF IInv, EntryOK
<1>2. CASE Delete(id) \/ \E agent \in Agents : TrashManaged(id, agent)
  <2>1. Held(id) /\ Wrote(id, [e EXCEPT !.state = "trashed"]) /\ UNCHANGED minted
    BY <1>2 DEF Delete, TrashManaged, ActiveWriter, Live
  <2>2. PICK f \in Entries :
          /\ f = [e EXCEPT !.state = "trashed"]
          /\ f.uid = e.uid /\ f.recipients = e.recipients /\ f.current = e.current
          /\ f.history = e.history /\ f.pending = e.pending
          /\ f.mode = e.mode /\ f.controller = e.controller
    BY <1>1, <2>1 DEF Entries
  <2>3. Kept(id, f, owner)
    BY <2>1, <2>2 DEF Kept, Astray
  <2> QED BY <1>1, <2>1, <2>2, <2>3, RestatedFacts
<1>3. CASE RestoreItem(id)
  <2>1. Held(id) /\ Wrote(id, [e EXCEPT !.state = "active"]) /\ UNCHANGED minted
    BY <1>3 DEF RestoreItem
  <2>2. PICK f \in Entries :
          /\ f = [e EXCEPT !.state = "active"]
          /\ f.uid = e.uid /\ f.recipients = e.recipients /\ f.current = e.current
          /\ f.history = e.history /\ f.pending = e.pending
          /\ f.mode = e.mode /\ f.controller = e.controller
    BY <1>1, <2>1 DEF Entries
  <2>3. Kept(id, f, owner)
    BY <2>1, <2>2 DEF Kept, Astray
  <2> QED BY <1>1, <2>1, <2>2, <2>3, RestatedFacts
<1>4. CASE Purge(id)
  <2>1. items' = [items EXCEPT ![id] = None] /\ Mint(id) /\ rekey' = {}
        /\ UNCHANGED <<registry, owner, former, clock>>
    BY <1>4 DEF Purge, Wrote, Outdate, Mint
  <2>2. PICK none : none = None
    OBVIOUS
  <2> QED BY <2>1, <2>2, WroteFacts
<1>5. CASE Reclaim(id)
  <2>1. Held(id) /\ Wrote(id, [e EXCEPT !.mode = "owner", !.controller = owner]) /\ UNCHANGED minted
    BY <1>5 DEF Reclaim
  <2>2. PICK f \in Entries :
          /\ f = [e EXCEPT !.mode = "owner", !.controller = owner]
          /\ f.uid = e.uid /\ f.recipients = e.recipients /\ f.current = e.current
          /\ f.history = e.history /\ f.pending = e.pending /\ f.controller = owner
    <3>1. owner \in Uids /\ e \in Entries
      BY <1>1, <2>1 DEF IInv, TypeOK
    <3> HIDE DEF e
    <3> QED BY <3>1, ControlFacts
  <2>3. Kept(id, f, owner)
    BY <2>2 DEF Kept, Astray
  <2> QED BY <1>1, <2>1, <2>2, <2>3, RestatedFacts
<1>9. CASE Retag(id)
  <2>1. Held(id) /\ OwnerControlled(id) /\ Wrote(id, [e EXCEPT !.weles = FALSE]) /\ UNCHANGED minted
    BY <1>9 DEF Retag
  <2>2. PICK f \in Entries :
          /\ f = [e EXCEPT !.weles = FALSE]
          /\ f.uid = e.uid /\ f.recipients = e.recipients /\ f.current = e.current
          /\ f.history = e.history /\ f.pending = e.pending
          /\ f.mode = e.mode /\ f.controller = e.controller
    <3>1. PICK no \in BOOLEAN : no = FALSE
      OBVIOUS
    <3>2. e \in Entries
      BY <1>1, <2>1
    <3>3. PICK f : f = [e EXCEPT !.weles = no]
      OBVIOUS
    <3> HIDE DEF e
    <3>4. f \in Entries
      BY <3>2, <3>3 DEF Entries
    <3>5. /\ f.uid = e.uid /\ f.recipients = e.recipients /\ f.current = e.current
          /\ f.history = e.history /\ f.pending = e.pending
          /\ f.mode = e.mode /\ f.controller = e.controller
      BY <3>2, <3>3 DEF Entries
    <3> QED BY <3>1, <3>3, <3>4, <3>5
  <2>3. Kept(id, f, owner)
    BY <2>1, <2>2 DEF Kept, Astray, OwnerControlled
  <2> QED BY <1>1, <2>1, <2>2, <2>3, RestatedFacts
<1>6. ASSUME NEW at \in 0..MaxClock, ForgetVersions(id, at) PROVE IInv' /\ StepOK
  <2> DEFINE saved == {r \in e.history : r.at >= at}
  <2>1. Held(id) /\ Wrote(id, [e EXCEPT !.history = saved]) /\ UNCHANGED minted
    BY <1>6 DEF ForgetVersions
  <2>2. PICK f \in Entries :
          /\ f = [e EXCEPT !.history = saved]
          /\ f.uid = e.uid /\ f.recipients = e.recipients /\ f.current = e.current
          /\ f.history = saved /\ f.pending = e.pending
          /\ f.mode = e.mode /\ f.controller = e.controller
    BY <1>1, <2>1 DEF Entries
  <2>3. EntryOK(f, owner, registry[owner], minted, clock)
    BY <1>1, <2>1, <2>2 DEF EntryOK, Ordered, StampedBy, SealedOK, Sealed
  <2>4. ASSUME NEW r \in Sealed(e) PROVE KeptIn(r, f) \/ r.at < at
    <3>1. Sealed(f) \subseteq Revisions /\ r \in Revisions /\ r.at \in Nat /\ at \in Nat
      BY <1>1, <2>1, <2>4, SealedFacts, ItemsAssumption DEF Revisions
    <3>2. CASE r \in Sealed(f)
      BY <3>1, <3>2, KeptWhereItIs
    <3>3. CASE r \notin Sealed(f)
      BY <2>2, <2>4, <3>1, <3>3 DEF Sealed
    <3> QED BY <3>2, <3>3
  <2>5. Kept(id, f, owner)
    BY <2>1, <2>2 DEF Kept, Astray
  <2> QED BY <1>6, <2>1, <2>2, <2>3, <2>4, <2>5, WroteFacts DEF Wrote, Outdate, Mint
<1>7. ASSUME NEW u, Revoke(id, u) PROVE IInv' /\ StepOK
  <2>1. Held(id) /\ RegistryOK(registry, owner)
    BY <1>7 DEF Revoke, IInv
  <2>2. PICK uids \in SUBSET Uids : uids = e.recipients \ {u}
    BY <1>1, <2>1 DEF Entries
  <2>3. PICK f : f = Rewrapped(e, registry, owner, uids)
    OBVIOUS
  <2>4. /\ EntryOK(f, owner, registry[owner], minted, clock) /\ f.uid = e.uid
        /\ f.mode = e.mode /\ f.controller = e.controller
        /\ \A r \in Sealed(e) : KeptIn(r, f)
    BY <1>1, <2>1, <2>3, RewrappedOf DEF EntryOK
  <2>5. Kept(id, f, owner)
    BY <2>1, <2>4 DEF Kept, Astray
  <2> QED BY <1>7, <2>1, <2>2, <2>3, <2>4, <2>5, WroteFacts DEF Revoke, Wrote, Outdate, Mint
<1>8. ASSUME NEW agent \in Agents, NEW op \in Ops, Discard(id, agent, op) PROVE IInv' /\ StepOK
  <2>1. Held(id) /\ Wrote(id, [e EXCEPT !.pending = None]) /\ UNCHANGED minted
    BY <1>8 DEF Discard, Staged
  <2>2. PICK f \in Entries :
          /\ f = [e EXCEPT !.pending = None]
          /\ f.uid = e.uid /\ f.recipients = e.recipients /\ f.current = e.current
          /\ f.history = e.history /\ f.pending = None
          /\ f.mode = e.mode /\ f.controller = e.controller
    BY <1>1, <2>1 DEF Entries
  <2>3. Kept(id, f, owner)
    BY <2>1, <2>2 DEF Kept, Astray
  <2> QED BY <1>1, <2>1, <2>2, <2>3, RestatedFacts
<1> QED BY <1>2, <1>3, <1>4, <1>5, <1>6, <1>7, <1>8, <1>9

\* Staging takes the next number, activating makes the staged revision current
\* and saves the one it replaces.
LEMMA StagingStep ==
  ASSUME IInv, NEW id \in Ids,
         \/ \E v \in Values, agent \in Agents, op \in Ops : Stage(id, v, agent, op)
         \/ \E agent \in Agents, op \in Ops : Activate(id, agent, op)
  PROVE  IInv' /\ StepOK
<1> DEFINE e == items[id]
<1>1. Held(id) => /\ e \in Entries /\ EntryOK(e, owner, registry[owner], minted, clock)
                  /\ Sealed(e) \subseteq Revisions
                  /\ e.current.rev \in Nat /\ e.current.at \in Nat /\ e.recipients \in SUBSET Uids
                  /\ \A r \in e.history : r.rev \in Nat /\ r.at \in Nat
  BY SealedFacts DEF IInv, EntryOK, Revisions
<1>2. ASSUME NEW v \in Values, NEW agent \in Agents, NEW op \in Ops, Stage(id, v, agent, op)
      PROVE IInv' /\ StepOK
  <2>1. Held(id) /\ ~Confined /\ TypeOK /\ RegistryOK(registry, owner) /\ clock \in Nat
    BY <1>2 DEF Stage, ActiveWriter, Live, Confined, IInv, TypeOK
  <2>2. PICK n \in Nat, uids \in SUBSET Uids : n = e.current.rev + 1 /\ uids = e.recipients
    <3>1. e.current.rev + 1 \in Nat /\ e.recipients \in SUBSET Uids
      BY <1>1, <2>1
    <3> HIDE DEF e
    <3> QED BY <3>1
  <2>3. PICK next \in Revisions :
          next = Revision(n, v, agent, op, uids) /\ next.rev = n /\ next.at = clock
    <3>1. agent \in Uids \cup Agents /\ op \in Ops \cup {None}
      OBVIOUS
    <3>2. /\ Revision(n, v, agent, op, uids) \in Revisions
          /\ Revision(n, v, agent, op, uids).rev = n
          /\ Revision(n, v, agent, op, uids).at = clock
      BY <2>1, <3>1, RevisionFacts
    <3> QED BY <3>2
  <2>4. Wrote(id, [e EXCEPT !.pending = next]) /\ UNCHANGED minted
    BY <1>2, <2>2, <2>3 DEF Stage
  <2>5. PICK f \in Entries :
          /\ f = [e EXCEPT !.pending = next]
          /\ f.uid = e.uid /\ f.recipients = e.recipients /\ f.current = e.current
          /\ f.history = e.history /\ f.pending = next
          /\ f.mode = e.mode /\ f.controller = e.controller
    <3>1. e \in Entries
      BY <1>1, <2>1
    <3> HIDE DEF e
    <3> QED BY <3>1, PendingFacts
  <2>6. EntryOK(f, owner, registry[owner], minted, clock)
    BY <1>1, <2>1, <2>2, <2>3, <2>5 DEF EntryOK, Ordered, StampedBy
  <2>7. \A r \in Sealed(e) : KeptIn(r, f)
    <3>1. Sealed(f) = Sealed(e) /\ Sealed(f) \subseteq Revisions
      BY <2>5, SealedFacts DEF Sealed
    <3> QED BY <3>1, KeptWhereItIs
  <2>8. Kept(id, f, owner)
    BY <2>1, <2>5 DEF Kept, Astray
  <2> QED BY <2>1, <2>4, <2>5, <2>6, <2>7, <2>8, WroteFacts DEF Wrote, Outdate, Mint
<1>3. ASSUME NEW agent \in Agents, NEW op \in Ops, Activate(id, agent, op) PROVE IInv' /\ StepOK
  <2>1. Held(id) /\ e.pending # None /\ Wrote(id, Activated(e)) /\ UNCHANGED minted
    BY <1>3 DEF Activate, Staged
  <2>2. e.pending \in Revisions /\ e.pending.rev \in Nat /\ e.pending.at \in Nat /\ ~Confined
    BY <1>1, <2>1, SealedFacts DEF EntryOK, Revisions
  <2>3. PICK f \in Entries :
          /\ f = Activated(e)
          /\ f.uid = e.uid /\ f.recipients = e.recipients /\ f.current = e.pending
          /\ f.history = e.history \cup {e.current} /\ f.pending = None
          /\ f.mode = e.mode /\ f.controller = e.controller
    BY <1>1, <2>1, <2>2, ActivatedFacts
  <2>4. Ordered(f) /\ StampedBy(f, clock)
    <3>1. e.pending.rev = e.current.rev + 1 /\ e.pending.at >= e.current.at /\ e.pending.at <= clock
          /\ Ordered(e)
      BY <1>1, <2>1 DEF EntryOK, Ordered, StampedBy
    <3> HIDE DEF e
    <3> QED BY <1>1, <2>1, <2>2, <2>3, <3>1 DEF Ordered, StampedBy
  <2>5. EntryOK(f, owner, registry[owner], minted, clock)
    BY <1>1, <2>1, <2>2, <2>3, <2>4 DEF EntryOK
  <2>6. \A r \in Sealed(e) : KeptIn(r, f)
    <3>1. Sealed(e) \subseteq Sealed(f) /\ Sealed(f) \subseteq Revisions
      BY <2>3, SealedFacts DEF Sealed
    <3> QED BY <3>1, KeptWhereItIs
  <2>7. Kept(id, f, owner)
    BY <2>1, <2>3 DEF Kept, Astray
  <2> QED BY <2>1, <2>3, <2>5, <2>6, <2>7, WroteFacts DEF Wrote, Outdate, Mint
<1> QED BY <1>2, <1>3

LEMMA RowFacts ==
  ASSUME IInv, NEW id \in Ids, NEW v \in Values, NEW fresh \in Nat, minted <= fresh
  PROVE  Continues(id, Row(id, v, fresh), fresh)
<1>1. PICK uids \in SUBSET Uids : uids = IF Held(id) THEN items[id].recipients ELSE {}
  BY SealedFacts DEF IInv, EntryOK
<1>2. Held(id) /\ Confined => items[id].recipients \subseteq uids
  BY <1>1
<1>3. owner \in Uids
  BY DEF IInv, TypeOK
<1>4. PICK tag \in BOOLEAN : tag = TagKept(id)
  BY DEF TagKept, IInv, EntryOK, Entries
<1>5. Continues(id, Administered(id, v, uids, tag, owner, fresh), fresh)
  BY <1>2, <1>3, AdministeredFacts
<1> QED BY <1>1, <1>4, <1>5 DEF Row

\* An import that writes two items at once.
LEMMA ImportStep ==
  ASSUME IInv, NEW id1 \in Ids, NEW id2 \in Ids, NEW v1 \in Values, NEW v2 \in Values,
         Import(id1, id2, v1, v2)
  PROVE  IInv' /\ StepOK
<1>1. minted \in Nat /\ clock \in Nat /\ minted + 1 \in Nat /\ id1 # id2
      /\ minted <= minted /\ minted <= minted + 1 /\ minted' = minted + 2
  BY DEF IInv, TypeOK, Import
<1>2. PICK f1 : f1 = Row(id1, v1, minted)
  OBVIOUS
<1>3. PICK n \in Nat : n = minted + 1 /\ minted <= n
  BY <1>1
<1>4. PICK f2 : f2 = Row(id2, v2, n)
  OBVIOUS
<1>5. Continues(id1, f1, minted) /\ Continues(id2, f2, n)
  BY <1>1, <1>2, <1>3, <1>4, RowFacts
<1>6. EntryOK(f1, owner, registry[owner], minted', clock) /\ EntryOK(f2, owner, registry[owner], minted', clock)
  <2>1. EntryOK(f1, owner, registry[owner], minted + 1, clock) /\ EntryOK(f2, owner, registry[owner], n + 1, clock)
    BY <1>5 DEF Continues
  <2>2. minted + 1 <= minted' /\ n + 1 <= minted' /\ minted + 1 \in Nat /\ n + 1 \in Nat /\ minted' \in Nat
        /\ clock <= clock
    BY <1>1, <1>3
  <2> QED BY <1>1, <2>1, <2>2, EntryGrows
<1>7. /\ items \in [Ids -> Entries \cup {None}]
      /\ items' = [items EXCEPT ![id1] = f1, ![id2] = f2]
      /\ rekey' = {} /\ UNCHANGED <<registry, owner, former, clock>>
  BY <1>2, <1>3, <1>4 DEF Import, Outdate, IInv, TypeOK
<1>8. \A x \in Ids : items'[x] = IF x = id2 THEN f2 ELSE IF x = id1 THEN f1 ELSE items[x]
  BY <1>7
<1>9. ASSUME NEW x \in Ids, x # id1, x # id2, items'[x] # None
      PROVE /\ EntryOK(items'[x], owner', registry'[owner'], minted', clock')
            /\ Held(x) /\ items'[x] = items[x]
            /\ \A r \in Sealed(items[x]) : KeptIn(r, items'[x])
  <2>1. EntryOK(items[x], owner, registry[owner], minted, clock) /\ items[x] \in Entries /\ items'[x] = items[x]
    BY <1>8, <1>9 DEF IInv, Held, EntryOK
  <2>2. EntryOK(items[x], owner, registry[owner], minted', clock)
    <3>1. minted' \in Nat /\ minted <= minted' /\ clock <= clock
      BY <1>1
    <3> QED BY <1>1, <2>1, <3>1, EntryGrows
  <2>3. \A r \in Sealed(items[x]) : KeptIn(r, items[x])
    BY <2>1, SealedFacts, KeptWhereItIs
  <2> QED BY <1>7, <1>9, <2>1, <2>2, <2>3 DEF Held
<1>10. \A x \in Ids : items'[x] # None => EntryOK(items'[x], owner', registry'[owner'], minted', clock')
  BY <1>6, <1>7, <1>8, <1>9
<1>11. TypeOK' /\ RegistryOK(registry, owner)'
  BY <1>1, <1>6, <1>7 DEF IInv, TypeOK, EntryOK, RegistryOK
<1>12. Carried
  <2>1. \A x \in Ids : items'[x] # None /\ Held(x) =>
          items'[x].uid = items[x].uid /\ \A r \in Sealed(items[x]) : KeptIn(r, items'[x])
    BY <1>5, <1>8, <1>9 DEF Continues
  <2>2. (~Held(id1) => f1.uid = minted) /\ (~Held(id2) => f2.uid = minted + 1)
    BY <1>3, <1>5 DEF Continues
  <2>3. \A x, y \in Ids : Held(x) /\ ~Held(y) /\ items'[y] # None => items[x].uid # items'[y].uid
    <3>1. \A x \in Ids : Held(x) => items[x].uid # minted /\ items[x].uid # minted + 1
      <4>1. ASSUME NEW x \in Ids, Held(x) PROVE items[x].uid \in Nat /\ items[x].uid < minted
        BY <4>1, SealedFacts DEF IInv, EntryOK
      <4> QED BY <1>1, <4>1
    <3>2. ASSUME NEW y \in Ids, ~Held(y), items'[y] # None
          PROVE items'[y].uid = minted \/ items'[y].uid = minted + 1
      BY <1>8, <1>9, <2>2, <3>2
    <3> QED BY <3>1, <3>2
  <2>4. minted # minted + 1
    BY <1>1
  <2>5. \A x, y \in Ids : ~Held(x) /\ ~Held(y) /\ items'[x] # None /\ items'[y] # None
          /\ items'[x].uid = items'[y].uid => x = y
    BY <1>8, <1>9, <2>2, <2>4
  <2>6. \A x \in Ids : items'[x] # None => Kept(x, items'[x], owner')
    BY <1>5, <1>7, <1>8, <1>9 DEF Continues, Kept
  <2> QED BY <2>1, <2>3, <2>5, <2>6 DEF Carried
<1> QED BY <1>7, <1>10, <1>11, <1>12, CarriedFacts

\* A rename takes an item, whole, to an id that holds none.
LEMMA RenameStep ==
  ASSUME IInv, NEW from \in Ids, NEW to \in Ids, Rename(from, to)
  PROVE  IInv' /\ StepOK
<1>1. /\ Held(from) /\ ~Held(to) /\ from # to
      /\ items \in [Ids -> Entries \cup {None}]
      /\ items' = [items EXCEPT ![from] = None, ![to] = items[from]]
      /\ rekey' = {} /\ UNCHANGED <<registry, owner, former, minted, clock>>
  BY DEF Rename, Outdate, IInv, TypeOK, Held
<1>2. \A x \in Ids : items'[x] = IF x = to THEN items[from] ELSE IF x = from THEN None ELSE items[x]
  BY <1>1
<1>3. TypeOK' /\ RegistryOK(registry, owner)'
  BY <1>1 DEF IInv, TypeOK, RegistryOK
<1>4. \A x \in Ids : items'[x] # None =>
        \E y \in Ids : /\ Held(y) /\ items'[x] = items[y]
                       /\ y = IF x = to THEN from ELSE x
  BY <1>1, <1>2 DEF Held
<1>5. IInv'
  <2>1. IdentityUnique'
    BY <1>1, <1>4 DEF IInv, IdentityUnique, Held
  <2>2. \A x \in Ids : items'[x] # None => EntryOK(items'[x], owner', registry'[owner'], minted', clock')
    BY <1>1, <1>4 DEF IInv
  <2> QED BY <1>1, <1>3, <2>1, <2>2 DEF IInv, Held
<1>6. ASSUME NEW x \in Ids, NEW y \in Ids, Held(x), items'[y] # None, items[x].uid = items'[y].uid,
             NEW r \in Sealed(items[x])
      PROVE RevisionKept(r, y)
  <2>1. items'[y] = items[x]
    BY <1>4, <1>6 DEF IInv, IdentityUnique
  <2>2. KeptIn(r, items[x])
    BY <1>1, <1>6, SealedFacts, KeptWhereItIs DEF Held
  <2> QED BY <2>1, <2>2 DEF KeptIn, RevisionKept
<1>7. HistoryStep
  BY <1>1, <1>2, <1>6 DEF HistoryStep, Held
<1>8. OwnershipStep
  BY <1>1, <1>4 DEF OwnershipStep, Stranded, Held
<1> QED BY <1>5, <1>7, <1>8 DEF StepOK

-----------------------------------------------------------------------------
(* The actions on the registry.                                            *)

\* A step that leaves the items alone.
LEMMA ItemsStayFacts ==
  ASSUME IInv, UNCHANGED <<items, owner, minted>>, TypeOK', RegistryOK(registry, owner)',
         \A x \in rekey' : Held(x), clock <= clock',
         registry'[owner] = registry[owner] \/ ~Confined
  PROVE  IInv' /\ StepOK
<1>1. minted \in Nat /\ clock \in Nat /\ clock' \in Nat /\ minted <= minted
  BY DEF IInv, TypeOK
<1>2. ASSUME NEW x \in Ids, Held(x)
      PROVE EntryOK(items[x], owner, registry'[owner], minted, clock')
  <2>1. EntryOK(items[x], owner, registry[owner], minted, clock)
    BY <1>2 DEF IInv
  <2>2. EntryOK(items[x], owner, registry[owner], minted, clock')
    BY <1>1, <2>1, EntryGrows
  <2> QED BY <2>2 DEF EntryOK
<1>3. \A x \in Ids : Held(x) => \A r \in Sealed(items[x]) : KeptIn(r, items[x])
  <2>1. \A x \in Ids : Held(x) => Sealed(items[x]) \subseteq Revisions
    BY SealedFacts DEF IInv, EntryOK
  <2> QED BY <2>1, KeptWhereItIs
<1>4. Carried
  BY <1>3 DEF Carried, Held, Kept
<1> QED BY <1>2, <1>4, CarriedFacts DEF Held

LEMMA AddRecipientStep ==
  ASSUME IInv, NEW u \in Uids, NEW k \in KeysOf[u], AddRecipient(u, k) \/ RekeyBegin(u, k)
  PROVE  IInv' /\ StepOK
<1>1. k \in Keys /\ k # None /\ registry \in [Uids -> Keys \cup {None}]
  BY ItemsAssumption DEF IInv, TypeOK
<1>2. /\ registry' = [registry EXCEPT ![u] = k]
      /\ UNCHANGED <<items, owner, minted, clock>> /\ former' \in SUBSET Uids
      /\ rekey' \in SUBSET Ids /\ \A x \in rekey' : Held(x)
  BY DEF AddRecipient, RekeyBegin, Outdate, Live, IInv, TypeOK
<1>3. TypeOK' /\ RegistryOK(registry, owner)'
  BY <1>1, <1>2 DEF IInv, TypeOK, RegistryOK
<1>4. registry'[owner] = registry[owner] \/ ~Confined
  <2>1. CASE u = owner
    BY <2>1 DEF AddRecipient, RekeyBegin, Confined
  <2>2. CASE u # owner
    BY <1>1, <1>2, <2>2 DEF IInv, TypeOK
  <2> QED BY <2>1, <2>2
<1>5. clock <= clock'
  BY <1>2 DEF IInv, TypeOK
<1> QED BY <1>2, <1>3, <1>4, <1>5, ItemsStayFacts

\* A removal rewraps what the recipient read, and leaves the rest as it was.
LEMMA RemoveRecipientStep ==
  ASSUME IInv, NEW u \in Uids, RemoveRecipient(u)
  PROVE  IInv' /\ StepOK
<1>1. /\ u # owner /\ registry' = [registry EXCEPT ![u] = None]
      /\ rekey' = {} /\ former' = former \ {u} /\ UNCHANGED <<owner, minted, clock>>
      /\ registry \in [Uids -> Keys \cup {None}] /\ owner \in Uids
  BY DEF RemoveRecipient, Outdate, IInv, TypeOK
<1>2. registry'[owner] = registry[owner] /\ RegistryOK(registry, owner)
  BY <1>1 DEF IInv
<1>3. \A x \in Ids : items'[x] =
        IF Held(x) /\ u \in items[x].recipients
          THEN Rewrapped(items[x], registry, owner, items[x].recipients \ {u})
          ELSE items[x]
  BY DEF RemoveRecipient
<1>4. ASSUME NEW x \in Ids, items'[x] # None
      PROVE /\ EntryOK(items'[x], owner, registry[owner], minted, clock)
            /\ Held(x) /\ items'[x].uid = items[x].uid
            /\ items'[x].mode = items[x].mode /\ items'[x].controller = items[x].controller
            /\ \A r \in Sealed(items[x]) : KeptIn(r, items'[x])
  <2>1. Held(x)
    BY <1>3, <1>4 DEF Held
  <2>2. EntryOK(items[x], owner, registry[owner], minted, clock) /\ items[x] \in Entries
    BY <2>1 DEF IInv, EntryOK
  <2>3. CASE u \in items[x].recipients
    <3>1. PICK uids \in SUBSET Uids : uids = items[x].recipients \ {u}
      BY <2>2, SealedFacts
    <3>2. PICK f : f = Rewrapped(items[x], registry, owner, uids)
      OBVIOUS
    <3>3. /\ EntryOK(f, owner, registry[owner], minted, clock) /\ f.uid = items[x].uid
          /\ f.mode = items[x].mode /\ f.controller = items[x].controller
          /\ \A r \in Sealed(items[x]) : KeptIn(r, f)
      <4>1. /\ Ordered(items[x]) /\ StampedBy(items[x], clock) /\ items[x].uid < minted
            /\ Confined => items[x].pending = None
        BY <2>2 DEF EntryOK
      <4> QED BY <1>2, <2>2, <3>2, <4>1, RewrappedOf
    <3> QED BY <1>3, <2>1, <2>3, <3>1, <3>2, <3>3
  <2>4. CASE u \notin items[x].recipients
    BY <1>3, <2>1, <2>2, <2>4, SealedFacts, KeptWhereItIs
  <2> QED BY <2>1, <2>3, <2>4
<1>5. items' \in [Ids -> Entries \cup {None}]
  <2>1. \A x \in Ids : items'[x] \in Entries \cup {None}
    BY <1>4 DEF EntryOK
  <2>2. items' = [x \in Ids |-> items'[x]]
    BY DEF RemoveRecipient
  <2> QED BY <2>1, <2>2
<1>6. TypeOK' /\ RegistryOK(registry, owner)'
  BY <1>1, <1>2, <1>5 DEF IInv, TypeOK, RegistryOK
<1>7. Carried
  BY <1>1, <1>4 DEF Carried, Kept, Astray
<1> QED BY <1>1, <1>2, <1>4, <1>6, <1>7, CarriedFacts

\* A rotation hands what the former owners control to the new one and rewraps
\* every item for it.
LEMMA RotateOwnerStep ==
  ASSUME IInv, NEW u \in Uids, NEW k \in KeysOf[u], RotateOwner(u, k)
  PROVE  IInv' /\ StepOK
<1>1. PICK reg : reg = [registry EXCEPT ![u] = k]
  OBVIOUS
<1>2. PICK gone \in SUBSET Uids : gone = (former \ {u}) \cup {owner}
  BY DEF IInv, TypeOK
<1>3. /\ u # owner /\ registry' = reg /\ former' = gone /\ owner' = u
      /\ rekey' = {} /\ UNCHANGED <<minted, clock>>
      /\ items' = [x \in Ids |->
           IF Held(x) THEN Rewrapped(Transferred(items[x], gone, u), reg, u,
                                     items[x].recipients \ {owner})
                      ELSE None]
  BY <1>1, <1>2 DEF RotateOwner, Outdate
<1>4. RegistryOK(reg, u)
  <2>1. k \in Keys /\ k # None
    BY ItemsAssumption
  <2> QED BY <1>1, <2>1 DEF IInv, RegistryOK
<1>5. ASSUME NEW x \in Ids, items'[x] # None
      PROVE /\ EntryOK(items'[x], u, reg[u], minted, clock)
            /\ Held(x) /\ items'[x].uid = items[x].uid /\ Kept(x, items'[x], u)
            /\ \A r \in Sealed(items[x]) : KeptIn(r, items'[x])
  <2>1. Held(x)
    BY <1>3, <1>5
  <2> DEFINE e == items[x]
  <2>2. EntryOK(e, owner, registry[owner], minted, clock) /\ e \in Entries
    BY <2>1 DEF IInv, EntryOK
  <2> HIDE DEF e
  <2>3. PICK t : t = Transferred(e, gone, u)
    OBVIOUS
  <2>4. /\ t \in Entries /\ t.uid = e.uid /\ t.recipients = e.recipients
        /\ t.current = e.current /\ t.history = e.history /\ t.pending = e.pending
        /\ Astray(t, u) => t.weles \/ Astray(e, owner)
    <3>1. e.mode = "owner" => e.controller \in gone \ {u} \/ e.weles \/ Astray(e, owner)
                               \/ e.controller = u
      BY <1>2, <1>3, <2>2 DEF Astray
    <3>2. CASE e.mode # "managed" /\ ~e.weles /\ e.controller \in gone \ {u}
      BY <2>2, <2>3, <3>2, ControlFacts DEF Transferred, Astray
    <3>3. CASE ~(e.mode # "managed" /\ ~e.weles /\ e.controller \in gone \ {u})
      BY <2>2, <2>3, <3>1, <3>3 DEF Transferred, Astray
    <3> QED BY <3>2, <3>3
  <2>5. Ordered(t) /\ StampedBy(t, clock) /\ t.uid < minted /\ Sealed(t) = Sealed(e)
        /\ (Confined => t.pending = None)
    BY <2>2, <2>4 DEF EntryOK, Ordered, StampedBy, Sealed
  <2>6. PICK uids \in SUBSET Uids : uids = e.recipients \ {owner}
    BY <2>2, SealedFacts
  <2>7. PICK f : f = Rewrapped(t, reg, u, uids)
    OBVIOUS
  <2>8. /\ EntryOK(f, u, reg[u], minted, clock) /\ f.uid = t.uid
        /\ f.mode = t.mode /\ f.controller = t.controller /\ f.weles = t.weles
        /\ \A r \in Sealed(t) : KeptIn(r, f)
    BY <1>4, <2>4, <2>5, <2>7, RewrappedOf
  <2>9. items'[x] = f
    BY <1>3, <2>1, <2>3, <2>6, <2>7 DEF e
  <2>10. Kept(x, f, u)
    BY <2>1, <2>4, <2>8 DEF Kept, Astray, e
  <2> QED BY <2>1, <2>4, <2>5, <2>8, <2>9, <2>10 DEF e
<1>6. items' \in [Ids -> Entries \cup {None}]
  <2>1. \A x \in Ids : items'[x] \in Entries \cup {None}
    BY <1>5 DEF EntryOK
  <2>2. items' = [x \in Ids |-> items'[x]]
    BY <1>3
  <2> QED BY <2>1, <2>2
<1>7. TypeOK' /\ RegistryOK(registry, owner)'
  BY <1>1, <1>2, <1>3, <1>4, <1>6 DEF IInv, TypeOK, RegistryOK
<1>8. Carried
  BY <1>3, <1>5 DEF Carried
<1> QED BY <1>3, <1>5, <1>7, <1>8, CarriedFacts

-----------------------------------------------------------------------------
(* The theorems.                                                           *)

LEMMA InitHolds == Init => IInv
<1> SUFFICES ASSUME Init PROVE IInv
  OBVIOUS
<1>1. TypeOK
  BY ItemsAssumption DEF Init, TypeOK
<1>2. RegistryOK(registry, owner)
  BY ItemsAssumption DEF Init, RegistryOK
<1> QED BY <1>1, <1>2 DEF Init, IInv, IdentityUnique, Held

LEMMA StepHolds == IInv /\ [Next]_vars => IInv' /\ [StepOK]_vars
<1> SUFFICES ASSUME IInv, [Next]_vars PROVE IInv' /\ [StepOK]_vars
  OBVIOUS
<1>1. CASE Next
  <2>1. ASSUME NEW id \in Ids, ItemStep(id) PROVE IInv' /\ StepOK
    <3>1. CASE RekeySkip(id)
      BY <3>1, ItemsStayFacts DEF RekeySkip, IInv, TypeOK, RegistryOK
    <3>2. CASE \/ \E v \in Values, uids \in SUBSET Uids : Set(id, v, uids)
               \/ \E v \in Values, who \in Uids : Accept(id, v, who)
               \/ \E v \in Values, uids \in SUBSET Uids, agent \in Agents, op \in Ops :
                    SetManagedItem(id, v, uids, agent, op)
               \/ \E at \in 0..MaxClock : RestoreVersion(id, at)
               \/ \E u \in Uids : Share(id, u)
               \/ \E v \in Values, tag \in BOOLEAN, uid \in 0..minted : Migrate(id, v, tag, uid)
               \/ RekeyItem(id)
      BY <3>2, WritingStep
    <3>3. CASE \E other \in Ids, v1 \in Values, v2 \in Values : Import(id, other, v1, v2)
      BY <3>3, ImportStep
    <3>4. CASE \E to \in Ids : Rename(id, to)
      BY <3>4, RenameStep
    <3>5. CASE \/ \E v \in Values, agent \in Agents, op \in Ops : Stage(id, v, agent, op)
               \/ \E agent \in Agents, op \in Ops : Activate(id, agent, op)
      BY <3>5, StagingStep
    <3>6. CASE \/ Delete(id) \/ RestoreItem(id) \/ Purge(id) \/ Retag(id) \/ Reclaim(id)
               \/ \E at \in 0..MaxClock : ForgetVersions(id, at)
               \/ \E u \in Uids : Revoke(id, u)
               \/ \E agent \in Agents : TrashManaged(id, agent)
               \/ \E agent \in Agents, op \in Ops : Discard(id, agent, op)
      BY <3>6, ChangingStep
    <3> QED BY <2>1, <3>1, <3>2, <3>3, <3>4, <3>5, <3>6 DEF ItemStep
  <2>2. ASSUME RegistryStep PROVE IInv' /\ StepOK
    BY <2>2, AddRecipientStep, RemoveRecipientStep, RotateOwnerStep DEF RegistryStep
  <2>3. CASE Tick
    <3>1. clock' \in Nat /\ clock <= clock' /\ UNCHANGED <<items, registry, owner, former, minted, rekey>>
      BY <2>3 DEF Tick, IInv, TypeOK
    <3>2. TypeOK' /\ RegistryOK(registry, owner)' /\ \A x \in rekey' : Held(x)
      BY <3>1 DEF IInv, TypeOK, RegistryOK
    <3> QED BY <3>1, <3>2, ItemsStayFacts
  <2> QED BY <1>1, <2>1, <2>2, <2>3 DEF Next
<1>2. CASE UNCHANGED vars
  BY <1>2 DEF vars, IInv, TypeOK, RegistryOK, IdentityUnique, Held
<1> QED BY <1>1, <1>2

LEMMA AlwaysIInv == Spec => []IInv
BY InitHolds, StepHolds, PTL DEF Spec

\* The document is well formed, an item_uid finds one item, and revisions are
\* numbered and stamped in the order in which they were written, whatever is
\* written, imported, restored, renamed, staged, rewrapped or purged.
THEOREM RevisionsInOrder == Spec => []ItemsOrdered
<1>1. IInv => ItemsOrdered
  BY DEF IInv, ItemsOrdered, RevisionsOrdered, EntryOK, Ordered
<1> QED BY <1>1, AlwaysIInv, PTL

\* However often the vault changes owners, no step takes what is recorded as the
\* owner's out of the present owner's hands, but for what carries Weles' tag.
THEOREM OwnershipMoves == Spec => OwnerItemsAreTheOwners
<1>1. IInv /\ [Next]_vars => [OwnershipStep]_vars
  BY StepHolds DEF StepOK
<1> QED BY <1>1, AlwaysIInv, PTL DEF Spec, OwnerItemsAreTheOwners

\* Where no revision is staged, no write drops a reader and the owner is not
\* added as a recipient again, every version of every item opens with the
\* owner's key, the recovery key and keys of the listed readers, and no other.
THEOREM SealedToTheListed == Confined => (Spec => []SealedExactly)
<1> SUFFICES ASSUME Confined PROVE Spec => []SealedExactly
  OBVIOUS
<1>1. IInv => SealedExactly
  BY DEF IInv, SealedExactly, SealedToReadersOnly, OwnerReadsEverything, EntryOK, SealedOK,
         ReadersKeys
<1> QED BY <1>1, AlwaysIInv, PTL

\* No step but `purge --versions-before` drops a revision of an item that
\* exists, none rewrites one, and none puts an item in another's place.
THEOREM HistoryIsKept == Spec => HistoryKept
<1>1. IInv /\ [Next]_vars => [HistoryStep]_vars
  BY StepHolds DEF StepOK
<1> QED BY <1>1, AlwaysIInv, PTL DEF Spec, HistoryKept

=============================================================================
