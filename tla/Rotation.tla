------------------------------ MODULE Rotation ------------------------------
\* skarbiec rotate <id> --with <provider> and the policies that run it: one
\* item's secret replaced at the system that issued it and in the vault, by up
\* to several commands at once (a person, `rotation run`, `maintain`), each of
\* which may die between any two of its calls.  A provider call may be refused,
\* or may take effect and lose its answer.  Secrets are numbers in the order
\* they are issued; a place is where a secret is accepted (an API, a database,
\* a server's authorized_keys, a forge).
EXTENDS Naturals, Sequences, FiniteSets

CONSTANTS Rotators,      \* the commands that may run
          Adapters,      \* the providers the policy may name
          Hosts, Forges, \* the places an SSH key is carried to
          MaxValue,      \* bound: secrets issued after the first
          MaxTime,       \* bound: the clock
          Intervals      \* the intervals a policy may be set to

VARIABLES with,          \* the provider of the policy
          deleteOld,     \* the policy's --delete-old
          works,         \* [place -> secrets accepted there]
          item,          \* the item: current secret and saved versions
          kept,          \* secrets in owner-only files beside the vault
          told,          \* secrets an answer named as left at the provider
          stray,         \* secrets made by a call whose answer nobody read
          rot,           \* [command -> where it stands]
          issued,        \* the last secret issued
          policy,        \* the rotation policy
          clock

rvars == <<with, deleteOld, works, item, kept, told, stray, rot, issued,
           policy, clock>>
provider == <<works, kept, told, stray>>
schedule == <<policy, clock>>

\* What each adapter does, in order: how the new secret comes to be, the calls
\* that prove it and end the old one, and what --delete-old adds after that.
\* A "make" leaves the old secret accepted, a "roll" ends it in the same call.
awsrotate == [opening |-> "make", proof |-> <<"end">>, late |-> "delete"]
gcprotate == [opening |-> "make", proof |-> <<"end">>, late |-> "delete"]
azrotate == [opening |-> "listed", proof |-> <<"sign_in">>, late |-> "end"]
vercelrotate == [opening |-> "make", proof |-> <<"sign_in", "end">>, late |-> "none"]
sendgridrotate == [opening |-> "make", proof |-> <<"sign_in", "end">>, late |-> "none"]
twiliorotate == [opening |-> "make", proof |-> <<"sign_in", "end">>, late |-> "none"]
gitlabrotate == [opening |-> "roll", proof |-> <<"sign_in">>, late |-> "none"]
cloudflarerotate == [opening |-> "roll", proof |-> <<"sign_in">>, late |-> "none"]
dbrotate == [opening |-> "store", proof |-> <<"alter", "sign_in">>, late |-> "none"]
keygenRotate == [opening |-> "add", proof |-> <<>>, late |-> "none"]

PROVIDERS == [aws |-> awsrotate, gcp |-> gcprotate, azure |-> azrotate,
              vercel |-> vercelrotate, sendgrid |-> sendgridrotate,
              twilio |-> twiliorotate, gitlab |-> gitlabrotate,
              cloudflare |-> cloudflarerotate, database |-> dbrotate,
              ssh |-> keygenRotate]

ASSUME RotationAssumption ==
  /\ Adapters \subseteq DOMAIN PROVIDERS /\ IsFiniteSet(Rotators)
  /\ MaxValue \in Nat /\ MaxTime \in Nat /\ Intervals \subseteq Nat

adapter == PROVIDERS[with]
Api == "api"
Places == IF with = "ssh" THEN Hosts \cup Forges ELSE {Api}
Held == {item.cur} \cup item.saved \cup kept

\* No command: the idle record.
NONE == [pc |-> "idle", by |-> "hand", at |-> 0, old |-> 0, new |-> 0,
         step |-> 1, changed |-> FALSE, undone |-> FALSE, ok |-> FALSE, reached |-> {}]

RInit ==
  /\ with \in Adapters
  /\ deleteOld \in (IF PROVIDERS[with].late = "none" THEN {FALSE} ELSE BOOLEAN)
  /\ works = [p \in Places |-> {0}]
  /\ item = [cur |-> 0, saved |-> {}]
  /\ kept = {} /\ told = {} /\ stray = {}
  /\ rot = [r \in Rotators |-> NONE]
  /\ issued = 0
  /\ policy \in {[set |-> TRUE, every |-> e, anchor |-> 0, due_reason |-> FALSE, failed |-> 0]
                   : e \in Intervals}
  /\ clock = 0

At(r, pc) == rot[r].pc = pc
Goto(r, pc) == rot' = [rot EXCEPT ![r].pc = pc]
Fail(r) == rot' = [rot EXCEPT ![r].pc = "ended", ![r].ok = FALSE]

\* One call to a place signed in with secret c that would leave it accepting
\* `after`: answered, refused with nothing done, or done with the answer lost.
\* A secret that is not accepted is refused.
call(p, c, after, answer) ==
  \/ answer \in {"ok", "lost"} /\ c \in works[p] /\ works' = [works EXCEPT ![p] = after]
  \/ answer = "no" /\ UNCHANGED works

\* The calls of the proof, each signed in with the secret it names.
Proves(r, answer) ==
  LET old == rot[r].old  new == rot[r].new IN
  CASE adapter.proof[rot[r].step] = "sign_in" -> call(Api, new, works[Api], answer)
    [] adapter.proof[rot[r].step] = "end"     -> call(Api, new, works[Api] \ {old}, answer)
    [] adapter.proof[rot[r].step] = "alter"   -> call(Api, old, {new}, answer)

\* Mutant: the write does not keep the value it replaces.
fieldsForgets(v) == item' = [item EXCEPT !.cur = v]
\* revise::fields: the item as it is now with the secret replaced; the value
\* replaced stays in the saved versions.
fields(v) == item' = [item EXCEPT !.cur = v, !.saved = @ \cup {item.cur}]
\* Policies (credential/schedule).
is_due == policy.set /\ (policy.due_reason \/ clock >= policy.anchor + policy.every)

\* rotation set keeps the anchor and the mark of a policy that stands, and
\* begins one now where none does; rotation remove drops it whole.
set(e) ==
  /\ policy' = IF policy.set THEN [policy EXCEPT !.every = e]
               ELSE [set |-> TRUE, every |-> e, anchor |-> clock, due_reason |-> FALSE, failed |-> 0]
  /\ UNCHANGED <<with, deleteOld, item, provider, rot, issued, clock>>
remove_policy ==
  /\ policy.set /\ policy' = [policy EXCEPT !.set = FALSE, !.anchor = 0, !.due_reason = FALSE, !.failed = 0]
  /\ UNCHANGED <<with, deleteOld, item, provider, rot, issued, clock>>

\* A command starts: held() reads the secret to replace.  A pass starts the
\* policy when it is due, or at once with --now; a person may start one at any
\* time.
Begin(r, by) ==
  /\ At(r, "idle") /\ issued < MaxValue
  /\ by = "pass" => is_due
  /\ by = "now" => policy.set
  /\ issued' = issued + 1
  /\ rot' = [rot EXCEPT ![r] = [NONE EXCEPT !.by = IF by = "now" THEN "pass" ELSE by, !.at = clock, !.old = item.cur,
                                !.new = issued + 1,
       !.pc = IF adapter.opening \in {"store", "add"} THEN adapter.opening ELSE "open"]]
  /\ UNCHANGED <<with, deleteOld, item, provider, schedule>>

\* The call that makes the new secret.  Entra's secret is looked up in a second
\* call, whose failure ends the command with the secret made (azrotate).
Open(r, answer) ==
  LET old == rot[r].old  new == rot[r].new
      after == IF adapter.opening = "roll" THEN (works[Api] \ {old}) \cup {new}
                                           ELSE works[Api] \cup {new} IN
  /\ At(r, "open")
  /\ call(Api, old, after, answer)
  /\ \/ /\ answer = "ok"
        /\ Goto(r, IF adapter.opening = "roll" THEN "issued" ELSE "store") /\ UNCHANGED stray
     \/ /\ answer = "ok" /\ adapter.opening = "listed"
        /\ Fail(r) /\ stray' = stray \cup {new}
     \/ answer = "no"   /\ Fail(r) /\ UNCHANGED stray
     \/ answer = "lost" /\ Fail(r) /\ stray' = stray \cup {new}
  /\ UNCHANGED <<with, deleteOld, item, kept, told, issued, schedule>>

\* Mutant: a secret the vault could not take stays at the provider unsaid.
StoreOrLeave(r) ==
  /\ At(r, "store")
  /\ \/ fields(rot[r].new) /\ Goto(r, "prove")
     \/ UNCHANGED item /\ Fail(r)
  /\ UNCHANGED <<with, deleteOld, provider, issued, schedule>>
\* The vault takes the new secret, or cannot.
Store(r) ==
  /\ At(r, "store")
  /\ \/ fields(rot[r].new) /\ Goto(r, "prove")
     \/ UNCHANGED item /\ IF adapter.opening = "store" THEN Fail(r) ELSE Goto(r, "take_back")
  /\ UNCHANGED <<with, deleteOld, provider, issued, schedule>>

\* What could not be stored is deleted at the provider, or named.
TakeBack(r, answer) ==
  /\ At(r, "take_back")
  /\ call(Api, rot[r].old, works[Api] \ {rot[r].new}, answer)
  /\ Fail(r)
  /\ told' = IF answer = "ok" THEN told ELSE told \cup {rot[r].new}
  /\ UNCHANGED <<with, deleteOld, item, kept, stray, issued, schedule>>

\* revise::issued: the vault takes the secret a provider has just rolled, else
\* an owner-only file does, else the refusal says to issue another.
Issued(r) ==
  /\ At(r, "issued")
  /\ \/ fields(rot[r].new) /\ Goto(r, "prove") /\ UNCHANGED <<kept, told>>
     \/ Fail(r) /\ kept' = kept \cup {rot[r].new} /\ UNCHANGED <<item, told>>
     \/ Fail(r) /\ told' = told \cup {rot[r].new} /\ UNCHANGED <<item, kept>>
  /\ UNCHANGED <<with, deleteOld, works, stray, issued, schedule>>

\* One call of the proof.  A rolled secret that does not answer is left as it is.
Prove(r, answer) ==
  LET last == rot[r].step = Len(adapter.proof) IN
  /\ At(r, "prove") /\ adapter.proof # <<>>
  /\ Proves(r, answer)
  /\ rot' = [rot EXCEPT
       ![r].step = IF answer = "ok" /\ ~last THEN @ + 1 ELSE @,
       ![r].changed = @ \/ (answer = "ok" /\ adapter.proof[rot[r].step] = "alter"),
       ![r].pc = IF answer = "ok" THEN (IF ~last THEN "prove" ELSE IF deleteOld THEN "late" ELSE "audit")
                 ELSE IF adapter.opening = "roll" THEN "ended" ELSE "told"]
  /\ UNCHANGED <<with, deleteOld, item, kept, told, stray, issued, schedule>>

\* The failure is journalled before anything is undone; a journal that cannot
\* be written ends the command there.
Undo(r) ==
  /\ At(r, "told")
  /\ \/ Goto(r, IF with = "database" /\ ~rot[r].changed THEN "restore" ELSE "undo")
     \/ Fail(r)
  /\ UNCHANGED <<with, deleteOld, item, provider, issued, schedule>>

\* The provider first: the new secret deleted again, or the server's password
\* put back; a server that cannot be put back keeps the new one, and so does
\* the vault.
Undone(r, answer) ==
  LET old == rot[r].old  new == rot[r].new IN
  /\ At(r, "undo")
  /\ IF with = "database"
     THEN call(Api, new, {old}, answer) /\ IF answer = "ok" THEN Goto(r, "restore") ELSE Fail(r)
     ELSE /\ call(Api, old, works[Api] \ {new}, answer)
          /\ rot' = [rot EXCEPT ![r].pc = "restore", ![r].undone = answer = "ok"]
  /\ UNCHANGED <<with, deleteOld, item, kept, told, stray, issued, schedule>>

\* Then the vault: it holds the old secret again, or keeps the new one.
Restore(r) ==
  /\ At(r, "restore") /\ Fail(r)
  /\ \/ fields(rot[r].old) /\ told' = IF rot[r].undone THEN told ELSE told \cup {rot[r].new}
     \/ UNCHANGED <<item, told>>
  /\ UNCHANGED <<with, deleteOld, works, kept, stray, issued, schedule>>

\* --delete-old: a key already ended is deleted; Entra's old secret ends here.
Late(r, answer) ==
  /\ At(r, "late")
  /\ call(Api, rot[r].new, works[Api] \ {rot[r].old}, answer)
  /\ IF answer = "ok" THEN Goto(r, "audit") ELSE Fail(r)
  /\ UNCHANGED <<with, deleteOld, item, kept, told, stray, issued, schedule>>

\* The rotation is journalled and answered.
Audit(r) ==
  /\ At(r, "audit")
  /\ \/ rot' = [rot EXCEPT ![r].pc = IF with = "ssh" THEN "retire" ELSE "ended", ![r].ok = TRUE]
     \/ Fail(r)
  /\ UNCHANGED <<with, deleteOld, item, provider, issued, schedule>>

\* SSH: the new key is added at every forge that lists the old one, then with
\* the old key at every host, where the new one must log in; only then does the
\* vault take it.
add_everywhere(r, p, answer, logsIn) ==
  LET old == rot[r].old  new == rot[r].new
      reached == IF answer = "ok" THEN rot[r].reached \cup {p} ELSE rot[r].reached IN
  /\ At(r, "add") /\ p \in Places \ rot[r].reached
  /\ p \in Hosts => Forges \subseteq rot[r].reached
  /\ logsIn \in (IF p \in Hosts /\ answer = "ok" THEN BOOLEAN ELSE {TRUE})
  /\ call(p, old, works[p] \cup {new}, answer)
  /\ rot' = [rot EXCEPT ![r].reached = reached,
                        ![r].pc = CASE (answer # "ok" \/ ~logsIn) /\ reached # {} -> "drop"
                                    [] (answer # "ok" \/ ~logsIn) /\ reached = {} -> "ended"
                                    [] OTHER -> IF reached = Places THEN "key" ELSE "add"]
  /\ stray' = IF answer = "lost" THEN stray \cup {new} ELSE stray
  /\ UNCHANGED <<with, deleteOld, item, kept, told, issued, schedule>>

\* One key deleted at a place: a host is signed in to, a forge through its own
\* account, which lists some key to delete.
remove(p, signer, key, answer) ==
  \/ p \in Hosts  /\ call(p, signer, works[p] \ {key}, answer)
  \/ p \in Forges /\ call(p, key, works[p] \ {key}, answer)

\* A place refused: the new key is taken back with the old key off the hosts it
\* reached, then off the forges; one it cannot be taken off is named.
take_back(r, p, answer) ==
  /\ At(r, "drop") /\ p \in rot[r].reached
  /\ p \in Forges => rot[r].reached \subseteq Forges
  /\ remove(p, rot[r].old, rot[r].new, answer)
  /\ rot' = [rot EXCEPT ![r].reached = @ \ {p},
                        ![r].pc = IF rot[r].reached = {p} THEN "ended" ELSE "drop"]
  /\ told' = IF answer = "ok" THEN told ELSE told \cup {rot[r].new}
  /\ UNCHANGED <<with, deleteOld, item, kept, stray, issued, schedule>>

\* The vault takes the key.  When it cannot, the command ends with the new key
\* trusted everywhere and its private half gone.
SshStore(r) ==
  /\ At(r, "key")
  /\ \/ fields(rot[r].new) /\ Goto(r, "audit") /\ UNCHANGED stray
     \/ UNCHANGED item /\ Fail(r) /\ stray' = stray \cup {rot[r].new}
  /\ UNCHANGED <<with, deleteOld, works, kept, told, issued, schedule>>

\* With the new key the old one is removed from every place; one that refuses
\* is named in the answer, which is then not ok.
retire_everywhere(r, p, answer) ==
  /\ At(r, "retire") /\ p \in rot[r].reached
  /\ p \in Forges => rot[r].reached \subseteq Forges
  /\ remove(p, rot[r].new, rot[r].old, answer)
  /\ rot' = [rot EXCEPT ![r].reached = @ \ {p}, ![r].ok = @ /\ answer = "ok",
                        ![r].pc = IF rot[r].reached = {p} THEN "ended" ELSE "retire"]
  /\ UNCHANGED <<with, deleteOld, item, kept, told, stray, issued, schedule>>

\* Mutant: a refused rotation moves the anchor too.
recordAnyway(r) ==
  /\ At(r, "ended")
  /\ rot' = [rot EXCEPT ![r] = NONE]
  /\ policy' = [policy EXCEPT !.anchor = rot[r].at, !.due_reason = FALSE, !.failed = 0]
  /\ UNCHANGED <<with, deleteOld, item, provider, issued, clock>>
\* The command answers.  A pass writes the outcome on the policy, which may
\* itself be refused; an accepted rotation moves the anchor to when the pass
\* began and clears the mark.
record(r) ==
  /\ At(r, "ended")
  /\ rot' = [rot EXCEPT ![r] = NONE]
  /\ \/ /\ rot[r].by = "pass" /\ policy.set
        /\ policy' = IF rot[r].ok
             THEN [policy EXCEPT !.anchor = rot[r].at, !.due_reason = FALSE, !.failed = 0]
             ELSE [policy EXCEPT !.failed = @ + 1]
     \/ UNCHANGED policy
  /\ UNCHANGED <<with, deleteOld, item, provider, issued, clock>>

\* A command dies between two of its calls.
Crash(r) ==
  /\ rot[r].pc \notin {"idle", "ended"}
  /\ rot' = [rot EXCEPT ![r] = NONE]
  /\ stray' = stray \cup ({rot[r].new} \ Held)
  /\ UNCHANGED <<with, deleteOld, works, item, kept, told, issued, schedule>>

\* A recipient who could read the item is removed: a policy of it is
\* marked due.
mark_due ==
  /\ policy' = [policy EXCEPT !.due_reason = policy.set]
  /\ UNCHANGED <<with, deleteOld, item, provider, rot, issued, clock>>

Tick ==
  /\ clock < MaxTime /\ clock' = clock + 1
  /\ UNCHANGED <<with, deleteOld, item, provider, rot, issued, policy>>

Answers == {"ok", "no", "lost"}

RNext ==
  \/ \E r \in Rotators :
       \/ \E by \in {"hand", "pass", "now"} : Begin(r, by)
       \/ \E a \in Answers : Open(r, a) \/ TakeBack(r, a) \/ Prove(r, a) \/ Undone(r, a) \/ Late(r, a)
       \/ Store(r) \/ Issued(r) \/ Undo(r) \/ Restore(r) \/ Audit(r) \/ SshStore(r) \/ record(r) \/ Crash(r)
       \/ \E p \in Places, a \in Answers :
            (\E l \in BOOLEAN : add_everywhere(r, p, a, l)) \/ take_back(r, p, a) \/ retire_everywhere(r, p, a)
  \/ \E e \in Intervals : set(e)
  \/ remove_policy \/ mark_due \/ Tick

RotationSpec == RInit /\ [][RNext]_rvars

-----------------------------------------------------------------------------
\* Properties.

\* Every value is of its kind.
RotTypeOK ==
  /\ with \in Adapters /\ deleteOld \in BOOLEAN
  /\ works \in [Places -> SUBSET (0..MaxValue)]
  /\ item.cur \in 0..MaxValue /\ item.saved \subseteq 0..MaxValue
  /\ UNION {kept, told, stray} \subseteq 0..MaxValue
  /\ issued \in 0..MaxValue /\ clock \in 0..MaxTime
  /\ policy \in [set : BOOLEAN, every : Intervals, anchor : 0..MaxTime, due_reason : BOOLEAN, failed : 0..MaxValue]
  /\ \A r \in Rotators : rot[r].old <= issued /\ rot[r].new <= issued /\ rot[r].reached \subseteq Places

\* A rotation never locks the owner out: at every place some secret that is
\* accepted is in the vault, as the item's value or a saved version, or in the
\* file kept beside it, whatever call fails, loses its answer or is never made
\* and whatever other rotation runs.  Only a provider that ends the old secret
\* in the call that issues the new one (GitLab, Cloudflare) can lose it, before
\* the answer is stored.
NeverLockedOut ==
  \/ \A p \in Places : works[p] \cap Held # {}
  \/ adapter.opening = "roll"
       /\ (told \cup stray # {} \/ \E r \in Rotators : At(r, "issued"))

\* A secret the provider accepts is one the vault holds, one an answer named,
\* or one whose making nobody could tell of (its answer lost, its command dead,
\* Entra's second call or the vault's write of an SSH key failed); it is never
\* left behind by a command that ended in order.
EveryKeyAccounted ==
  \A p \in Places : works[p] \subseteq Held \cup told \cup stray \cup
      {rot[r].new : r \in {q \in Rotators : rot[q].pc \notin {"idle", "ended"}}}

\* A rotation answered ok, with none begun after it, has its secret accepted
\* everywhere, and the one it replaced nowhere (Entra's ends with --delete-old).
EndsOld == with # "azure" \/ deleteOld
RotatedMeansReplaced ==
  \A r \in Rotators :
    At(r, "ended") /\ rot[r].ok /\ rot[r].new = issued
      => \A p \in Places : /\ rot[r].new \in works[p]
                           /\ EndsOld => rot[r].old \notin works[p]

\* No rotation loses count of a secret: none is left accepted that nobody knows of,
\* and ok is answered only of one that replaced the old (rotate of each provider).
SecretsAccounted == RotTypeOK /\ EveryKeyAccounted /\ RotatedMeansReplaced

\* A policy that is due stays due, unless the owner sets another interval or
\* removes it, until a pass has put into the vault a new secret that the
\* provider accepted in place of the old one.
DueUntilRotated ==
  [][is_due /\ ~is_due' /\ policy'.set /\ policy'.every = policy.every
       => \E r \in Rotators : At(r, "ended") /\ rot[r].ok /\ rot[r].new \in Held]_rvars
=============================================================================
