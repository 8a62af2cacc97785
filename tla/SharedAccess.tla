---------------------------- MODULE SharedAccess ----------------------------
\* Who reads which item besides the owner: shares made by hand or by tag, shares
\* that end on their own, and emergency access.  All of it is kept in the vault
\* document and every command saves the document; three commands save it several
\* times, so a command may stop between two of its saves - killed, or refused
\* because another command saved in between.
EXTENDS Naturals, FiniteSets

CONSTANTS Shareable, Users,
          Tagged,       \* the items that carry the tag
          MaxTime       \* bound: the date

NoEnd == 0             \* no end is recorded for a share
NoGrant == [status |-> "none", after |-> 0, added_to |-> {}]
\* A command with saves left: what it gives whom, and until when.
Gives(kind, u, items, until) ==
  [kind |-> kind, uid |-> u, left |-> items, added |-> {}, until |-> until, timed |-> {}]
Idle == Gives("none", "none", {}, NoEnd)

ASSUME SharingAssumption == Tagged \subseteq Shareable /\ MaxTime \in Nat \ {0}

VARIABLES registered,  \* the recipient registry
          live,        \* the items of the vault
          readers,     \* [item -> users its value is sealed to]
          share_until, \* [item -> user -> recorded end]
          emergency,   \* [user -> emergency grant]
          cmd,         \* the command between two saves
          date

svars == <<registered, live, readers, share_until, emergency, cmd, date>>
document == <<registered, live, readers, share_until, emergency>>

SInit ==
  /\ registered = Users
  /\ live = Shareable
  /\ readers = [i \in Shareable |-> {}]
  /\ share_until = [i \in Shareable |-> [u \in Users |-> NoEnd]]
  /\ emergency = [u \in Users |-> NoGrant]
  /\ cmd = Idle
  /\ date = 1

\* A command that saves once runs between two others; one that finds the
\* document saved under it is refused at its next save.
Resting == cmd = Idle
Saves == cmd' = Idle /\ UNCHANGED date

checked(until) == until = NoEnd \/ until > date

register_recipient(u) ==
  /\ u \notin registered /\ registered' = registered \cup {u}
  /\ UNCHANGED <<live, readers, share_until, emergency>> /\ Saves

\* share <item> <uid> [--until]: the end is saved first, then the item is sealed
\* to one more reader; someone who reads it already changes nothing.
share(i, u, until) ==
  /\ Resting /\ u \in registered /\ i \in live /\ checked(until)
  /\ share_until' = IF until = NoEnd THEN share_until ELSE [share_until EXCEPT ![i][u] = until]
  /\ IF u \in readers[i] THEN UNCHANGED <<readers, cmd>>
     ELSE IF until = NoEnd THEN readers' = [readers EXCEPT ![i] = @ \cup {u}] /\ UNCHANGED cmd
     ELSE UNCHANGED readers /\ cmd' = Gives("share", u, {i}, NoEnd)
  /\ UNCHANGED <<registered, live, emergency, date>>

\* share --tag <tag> <uid> [--until]: every tagged item not yet read is sealed,
\* then its end is saved, one item after another.
share_tagged(u, until) ==
  LET pending == {i \in Tagged \cap live : u \notin readers[i]} IN
  /\ Resting /\ u \in registered /\ checked(until) /\ pending # {}
  /\ cmd' = Gives("share", u, pending, until)
  /\ UNCHANGED <<document, date>>

\* One item of a share is saved.
ShareItem(i) ==
  /\ cmd.kind = "share" /\ cmd.timed = {} /\ i \in cmd.left
  /\ readers' = [readers EXCEPT ![i] = @ \cup {cmd.uid}]
  /\ cmd' = IF cmd.until # NoEnd THEN [cmd EXCEPT !.left = @ \ {i}, !.timed = {i}]
            ELSE IF cmd.left = {i} THEN Idle ELSE [cmd EXCEPT !.left = @ \ {i}]
  /\ UNCHANGED <<registered, live, share_until, emergency, date>>
apply(i) ==
  /\ cmd.kind = "share" /\ i \in cmd.timed
  /\ IF checked(cmd.until)
     THEN /\ share_until' = [share_until EXCEPT ![i][cmd.uid] = cmd.until]
          /\ cmd' = IF cmd.left = {} THEN Idle ELSE [cmd EXCEPT !.timed = {}]
     ELSE cmd' = Idle /\ UNCHANGED share_until
  /\ UNCHANGED <<registered, live, readers, emergency, date>>

\* Readers without u on the items of s, every saved version included.
Withdrawn(u, s) == [i \in Shareable |-> IF i \in s THEN readers[i] \ {u} ELSE readers[i]]

\* revoke <item> <uid> also forgets the share's end; revoke --tag does not.
revoke(i, u) ==
  /\ i \in live /\ u \in readers[i]
  /\ readers' = Withdrawn(u, {i})
  /\ share_until' = [share_until EXCEPT ![i][u] = NoEnd]
  /\ UNCHANGED <<registered, live, emergency>> /\ Saves
revoke_tagged(u) ==
  /\ \E i \in Tagged \cap live : u \in readers[i]
  /\ readers' = Withdrawn(u, Tagged)
  /\ UNCHANGED <<registered, live, share_until, emergency>> /\ Saves

HasEnded(i, u) == share_until[i][u] # NoEnd /\ share_until[i][u] <= date
EndedShares == {s \in Shareable \X Users : HasEnded(s[1], s[2])}
\* Mutant: an ended share is forgotten where its reader is not taken off.
expireForgets ==
  /\ EndedShares # {}
  /\ share_until' = [i \in Shareable |-> [u \in Users |->
                       IF <<i, u>> \in EndedShares THEN NoEnd ELSE share_until[i][u]]]
  /\ UNCHANGED <<registered, live, readers, emergency>> /\ Saves
\* shares expire, which maintain runs: every ended share is revoked and its end
\* forgotten, in one save.
expire ==
  /\ EndedShares # {}
  /\ readers' = [i \in Shareable |-> {u \in readers[i] : <<i, u>> \notin EndedShares}]
  /\ share_until' = [i \in Shareable |-> [u \in Users |->
                       IF <<i, u>> \in EndedShares THEN NoEnd ELSE share_until[i][u]]]
  /\ UNCHANGED <<registered, live, emergency>> /\ Saves

\* recipient remove: off every item, off the registry and its grant cancelled.
remove_recipient(u) ==
  /\ u \in registered /\ registered' = registered \ {u}
  /\ readers' = Withdrawn(u, Shareable)
  /\ emergency' = [emergency EXCEPT ![u] = NoGrant]
  /\ UNCHANGED <<live, share_until>> /\ Saves

\* emergency grant: a pending grant is replaced, an activated one is not.
grant(u, after) ==
  /\ u \in registered /\ emergency[u].status # "activated"
  /\ emergency' = [emergency EXCEPT ![u] = [status |-> "pending", after |-> after, added_to |-> {}]]
  /\ UNCHANGED <<registered, live, readers, share_until>> /\ Saves
\* Mutant: an activation under way is not refused by the cancel.
cancelUnfenced(u) ==
  /\ emergency[u].status = "pending"
  /\ emergency' = [emergency EXCEPT ![u] = NoGrant]
  /\ UNCHANGED <<registered, live, readers, share_until, cmd, date>>
cancel(u) ==
  /\ emergency[u].status = "pending"
  /\ emergency' = [emergency EXCEPT ![u] = NoGrant]
  /\ UNCHANGED <<registered, live, readers, share_until>> /\ Saves

\* emergency activate: once the wait is over every live item the grantee does
\* not read is sealed to them, one save each, and then the grant records them.
DueGrant(u) == emergency[u].status = "pending" /\ emergency[u].after <= date
activate(u) ==
  /\ Resting /\ DueGrant(u)
  /\ cmd' = Gives("activate", u, {i \in live : u \notin readers[i]}, NoEnd)
  /\ UNCHANGED <<document, date>>
ActivateItem(i) ==
  /\ cmd.kind = "activate" /\ i \in cmd.left /\ cmd.uid \in registered
  /\ readers' = [readers EXCEPT ![i] = @ \cup {cmd.uid}]
  /\ cmd' = [cmd EXCEPT !.left = @ \ {i}, !.added = @ \cup {i}]
  /\ UNCHANGED <<registered, live, share_until, emergency, date>>
Activated ==
  /\ cmd.kind = "activate" /\ cmd.left = {}
  /\ emergency' = [emergency EXCEPT ![cmd.uid].status = "activated", ![cmd.uid].added_to = cmd.added]
  /\ cmd' = Idle
  /\ UNCHANGED <<registered, live, readers, share_until, date>>

\* emergency revoke: off exactly the items recorded, and the record goes.
revoke_emergency(u) ==
  /\ emergency[u].status = "activated"
  /\ readers' = Withdrawn(u, emergency[u].added_to)
  /\ emergency' = [emergency EXCEPT ![u] = NoGrant]
  /\ UNCHANGED <<registered, live, share_until>> /\ Saves

\* An item is purged with its readers, the ends recorded for it stay; its id
\* may be stored again.
purge(i) ==
  /\ i \in live /\ live' = live \ {i}
  /\ readers' = [readers EXCEPT ![i] = {}]
  /\ UNCHANGED <<registered, share_until, emergency>> /\ Saves
store(i) ==
  /\ i \notin live /\ live' = live \cup {i}
  /\ UNCHANGED <<registered, readers, share_until, emergency>> /\ Saves

\* A command dies between two saves.
Cut ==
  /\ ~Resting /\ cmd' = Idle /\ UNCHANGED <<document, date>>
Tick == date < MaxTime /\ date' = date + 1 /\ UNCHANGED <<document, cmd>>

SNext ==
  \/ \E u \in Users :
       \/ register_recipient(u) \/ remove_recipient(u)
       \/ cancel(u) \/ activate(u) \/ revoke_emergency(u) \/ revoke_tagged(u)
       \/ \E t \in 1..MaxTime : grant(u, t)
       \/ \E t \in {NoEnd} \cup 1..MaxTime : share_tagged(u, t) \/ \E i \in Shareable : share(i, u, t)
       \/ \E i \in Shareable : revoke(i, u)
  \/ \E i \in Shareable : ShareItem(i) \/ apply(i) \/ ActivateItem(i) \/ purge(i) \/ store(i)
  \/ expire \/ Activated \/ Cut \/ Tick

\* maintain runs on a schedule, and so does the date.
SharedSpec == SInit /\ [][SNext]_svars /\ WF_svars(expire)

-----------------------------------------------------------------------------
\* Properties.

\* Every value is of its kind.
ShareTypeOK ==
  /\ registered \subseteq Users /\ live \subseteq Shareable
  /\ readers \in [Shareable -> SUBSET Users]
  /\ share_until \in [Shareable -> [Users -> 0..MaxTime]]
  /\ \A u \in Users : /\ emergency[u].status \in {"none", "pending", "activated"}
                      /\ emergency[u].added_to \subseteq Shareable
  /\ date \in 1..MaxTime

\* A removed recipient reads nothing and holds no emergency grant that could
\* give anything back, also when the removal met a share or an activation
\* between two of its saves.
RemovedReadsNothing ==
  \A u \in Users \ registered :
    /\ \A i \in Shareable : u \notin readers[i]
    /\ emergency[u].status = "none"

\* An activation gives an item only while its grant stands, due and not
\* cancelled: a cancel or a removal that saves in between stops it.
OnlyDueGrantShares ==
  \A i \in Shareable, u \in Users :
    cmd.kind = "activate" /\ u \in readers'[i] \ readers[i] => DueGrant(u) /\ u \in registered

\* Nobody reads an item but by a right that stands: whoever was removed reads
\* nothing, and an activation gives on a due grant only.
ReadsByRight ==
  [](ShareTypeOK /\ RemovedReadsNothing) /\ [][OnlyDueGrantShares]_svars

\* A share whose recorded end has passed is taken back: from then on the reader
\* does not read the item, or a later share moved the end ahead.
EndedShareRevoked ==
  \A i \in Shareable, u \in Users :
    <<i, u>> \in EndedShares ~> u \notin readers[i] \/ share_until[i][u] > date
=============================================================================
