------------------------------ MODULE CiSecrets ------------------------------
\* skarbiec ci set | keep | kept | forget and the renewal every `maintain` pass
\* makes: the values a bindings file names are set as secrets of a target (a
\* GitHub repository, a Kubernetes Secret), and the record of a kept target says
\* at which revisions it was set, so that a changed item is set again.  The
\* record and the target are written by commands that take no lock, and items
\* change at any time: an item that was purged is stored again as revision 1, so a
\* revision tells a value apart only while the item lasts.
EXTENDS Naturals, FiniteSets

CONSTANTS CiCommands,  \* the commands that may run at once
          Bound,       \* the items the bindings file names
          MaxValue,    \* bound: values an item is given
          NoEntry      \* the target is not kept

VARIABLES place,       \* "github" sets one secret at a time, "kubernetes" all at once
          value,       \* [item -> its current value, numbered as they were given]
          revision,    \* [item -> the revision the document says it has, or Missing]
          holds,       \* [item -> the value the target holds]
          recorded,    \* the record: NoEntry or the revisions of the last set
          ci,          \* [command -> where it stands]
          overlapped   \* an item changed under a keep, two commands set at once, or
                       \* an older document took the place of the current one

cvars == <<place, value, revision, holds, recorded, ci, overlapped>>

NotSet == 0
Missing == 0
\* revisions: what is recorded of the items.  of is kept beside it to say what the
\* numbers meant when they were read; the code has only the numbers.
revisions == [rev |-> revision, of |-> value]
CiIdle == [pc |-> "idle", is |-> "set", entry |-> NoEntry,
           now |-> [rev |-> [i \in Bound |-> NotSet], of |-> [i \in Bound |-> NotSet]],
           values |-> [i \in Bound |-> NotSet], left |-> {}, refused |-> FALSE]

CInit ==
  /\ place \in {"github", "kubernetes"}
  /\ value = [i \in Bound |-> 1] /\ revision = [i \in Bound |-> 1]
  /\ holds = [i \in Bound |-> NotSet]
  /\ recorded = NoEntry
  /\ ci = [c \in CiCommands |-> CiIdle]
  /\ overlapped = FALSE

Pushing(c) == ci[c].pc \in {"push", "record"}
Present == \A i \in Bound : revision[i] # Missing
\* ci set and ci keep push at once; `maintain` reads the record first, and goes over
\* the other kept targets when this one is not among them.
ci_begin(c, is) ==
  /\ ci[c].pc = "idle"
  /\ ci' = [ci EXCEPT ![c] = [CiIdle EXCEPT !.is = is,
             !.entry = IF is = "renew" THEN recorded ELSE NoEntry,
             !.pc = IF is # "renew" THEN "values" ELSE IF recorded # NoEntry THEN "renew" ELSE "write"]]
  /\ UNCHANGED <<place, value, revision, holds, recorded, overlapped>>
\* An item is renamed: its revision is recorded under the new id, in the entries as
\* they were read.
follow_rename(c) ==
  /\ ci[c].pc = "idle"
  /\ ci' = [ci EXCEPT ![c] = [CiIdle EXCEPT !.is = "rename", !.entry = recorded, !.pc = "write"]]
  /\ UNCHANGED <<place, value, revision, holds, recorded, overlapped>>

\* renew: the revisions before the set; a target at them is left alone.
renew(c) ==
  /\ ci[c].pc = "renew" /\ Present
  /\ ci' = [ci EXCEPT ![c].now = revisions,
                      ![c].pc = IF ci[c].entry.rev = revision THEN "write" ELSE "values"]
  /\ UNCHANGED <<place, value, revision, holds, recorded, overlapped>>

\* values: every value is read from one opening of the vault.
ci_values(c) ==
  /\ ci[c].pc = "values" /\ Present
  /\ ci' = [ci EXCEPT ![c].pc = "push", ![c].values = value, ![c].left = Bound]
  /\ overlapped' = (overlapped \/ \E d \in CiCommands \ {c} : Pushing(d))
  /\ UNCHANGED <<place, value, revision, holds, recorded>>

\* gh secret set, one secret at a time; a refusal is noted and the rest go on.
github(c) ==
  /\ ci[c].pc = "push" /\ place = "github"
  /\ \E i \in ci[c].left, accepted \in BOOLEAN :
       /\ holds' = IF accepted THEN [holds EXCEPT ![i] = ci[c].values[i]] ELSE holds
       /\ ci' = [ci EXCEPT ![c].left = @ \ {i}, ![c].refused = @ \/ ~accepted]
  /\ UNCHANGED <<place, value, revision, recorded, overlapped>>
\* kubectl apply: the whole Secret or nothing.
kubernetes(c) ==
  /\ ci[c].pc = "push" /\ place = "kubernetes" /\ ci[c].left # {}
  /\ \E accepted \in BOOLEAN :
       /\ holds' = IF accepted THEN ci[c].values ELSE holds
       /\ ci' = [ci EXCEPT ![c].left = {}, ![c].refused = ~accepted]
  /\ UNCHANGED <<place, value, revision, recorded, overlapped>>

\* Mutant: a target is recorded at the revisions though a secret was refused.
pushed_anyway(c) ==
  /\ ci[c].pc = "push" /\ ci[c].left = {}
  /\ ci' = [ci EXCEPT ![c] = IF ci[c].is = "set" THEN CiIdle
                             ELSE [@ EXCEPT !.pc = "record"]]
  /\ UNCHANGED <<place, value, revision, holds, recorded, overlapped>>
\* The push is journalled; a set ends there, a refused keep is not kept, and a
\* renewal that was refused leaves the entry at the revisions it had.
pushed(c) ==
  /\ ci[c].pc = "push" /\ ci[c].left = {}
  /\ ci' = [ci EXCEPT ![c] =
       IF ci[c].is = "set" \/ (ci[c].refused /\ ci[c].is = "keep") THEN CiIdle
       ELSE [@ EXCEPT !.pc = IF ci[c].refused THEN "write" ELSE "record"]]
  /\ UNCHANGED <<place, value, revision, holds, recorded, overlapped>>

\* keep: the revisions after the set are the ones recorded; a renewal records
\* those it read before.
ci_record(c) ==
  /\ ci[c].pc = "record" /\ (ci[c].is = "keep" => Present)
  /\ ci' = [ci EXCEPT ![c].entry = IF ci[c].is = "keep" THEN revisions ELSE ci[c].now,
                      ![c].pc = "write"]
  /\ UNCHANGED <<place, value, revision, holds, recorded, overlapped>>
\* The record is written: keep reads it again first, maintain writes back the
\* entries it read when the pass began.
ci_write(c) ==
  /\ ci[c].pc = "write"
  /\ recorded' = ci[c].entry
  /\ ci' = [ci EXCEPT ![c] = CiIdle]
  /\ UNCHANGED <<place, value, revision, holds, overlapped>>
\* ci forget.
ci_forget ==
  /\ recorded # NoEntry /\ recorded' = NoEntry
  /\ UNCHANGED <<place, value, revision, holds, ci, overlapped>>

\* A failure of a read, as of an item that is missing, of the journal or of a write,
\* or the command dying; a
\* pass notes a renewal that failed and still writes the entries it read.
CiStops(c) ==
  /\ ci[c].pc # "idle"
  /\ \/ ci' = [ci EXCEPT ![c] = CiIdle]
     \/ ci[c].is = "renew" /\ ci[c].pc \in {"renew", "values", "push"}
        /\ ci' = [ci EXCEPT ![c].pc = "write"]
  /\ UNCHANGED <<place, value, revision, holds, recorded, overlapped>>

GivenUnderKeep == \E c \in CiCommands : ci[c].is = "keep" /\ Pushing(c)
NewValue(i, number) ==
  /\ value[i] < MaxValue
  /\ value' = [value EXCEPT ![i] = @ + 1] /\ revision' = [revision EXCEPT ![i] = number]
  /\ overlapped' = (overlapped \/ GivenUnderKeep)
  /\ UNCHANGED <<place, holds, recorded, ci>>
\* An item gets a new value: a rotation, a set, an edit.
NewRevision(i) == revision[i] # Missing /\ NewValue(i, revision[i] + 1)
\* An item is purged, and the id stored again: its revisions start over.
Purge(i) ==
  /\ revision[i] # Missing /\ revision' = [revision EXCEPT ![i] = Missing]
  /\ UNCHANGED <<place, value, holds, recorded, ci, overlapped>>
StoredAgain(i) == revision[i] = Missing /\ NewValue(i, 1)
\* An older document takes the place of the current one: a backup put back, a pull
\* of an older replica.
OlderDocument(i) ==
  /\ revision[i] > 1 /\ revision' = [revision EXCEPT ![i] = @ - 1] /\ value' = [value EXCEPT ![i] = @ - 1]
  /\ overlapped' = TRUE
  /\ UNCHANGED <<place, holds, recorded, ci>>

CNext ==
  \/ \E c \in CiCommands : \/ \E is \in {"set", "keep", "renew"} : ci_begin(c, is)
                           \/ renew(c) \/ ci_values(c) \/ github(c) \/ kubernetes(c)
                           \/ pushed(c) \/ ci_record(c) \/ ci_write(c) \/ CiStops(c) \/ follow_rename(c)
  \/ ci_forget
  \/ \E i \in Bound : NewRevision(i) \/ Purge(i) \/ StoredAgain(i) \/ OlderDocument(i)

CiSpec == CInit /\ [][CNext]_cvars

-----------------------------------------------------------------------------
\* ci kept and doctor: the items whose revision is no longer the recorded one.
changed_since == {i \in Bound : recorded # NoEntry /\ recorded.rev[i] # revision[i]}
\* The recorded number is the item's again and means another value by now.
reused == {i \in Bound : recorded # NoEntry /\ recorded.rev[i] = revision[i] /\ recorded.of[i] # value[i]}

\* A kept target that is behind its items is listed as changed, through refusals,
\* dead commands, renames and items that change, are purged and stored again while a
\* renewal runs: unless the number an item was recorded at names another value since
\* (it was purged, stored again and changed until it reached it), an item changed
\* under a keep, two commands set the target at once, or an older document came back.
BehindIsListed ==
  ~overlapped /\ recorded # NoEntry /\ Present /\ (\A c \in CiCommands : ci[c].pc = "idle")
    => \A i \in Bound : holds[i] = value[i] \/ i \in changed_since \cup reused
=============================================================================
