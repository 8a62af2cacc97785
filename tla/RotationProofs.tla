--------------------------- MODULE RotationProofs ---------------------------
(***************************************************************************)
(* Proofs about Rotation, for any number of commands, hosts and forges and *)
(* any provider.                                                           *)
(***************************************************************************)
EXTENDS Rotation, FiniteSetTheorems, TLAPS

-----------------------------------------------------------------------------
(* The inductive invariant.                                                *)

StagesOf ==
  IF with = "ssh" THEN {"idle", "add", "drop", "key", "audit", "retire", "ended"}
  ELSE IF with = "database" THEN
    {"idle", "store", "prove", "told", "undo", "restore", "audit", "ended"}
  ELSE IF adapter.opening = "roll" THEN {"idle", "open", "issued", "prove", "audit", "ended"}
  ELSE {"idle", "open", "store", "take_back", "prove", "told", "undo", "restore", "late",
        "audit", "ended"}
RotRecords ==
  [pc : StagesOf, by : {"hand", "pass"}, at : 0..MaxTime, old : 0..MaxValue, new : 0..MaxValue,
   step : 1..2, changed : BOOLEAN, undone : BOOLEAN, ok : BOOLEAN, reached : SUBSET Places]

PolicyRecords ==
  [set : BOOLEAN, every : Intervals, anchor : 0..MaxTime, due_reason : BOOLEAN, failed : Nat]

RotTypes ==
  /\ with \in Adapters /\ deleteOld \in BOOLEAN /\ (deleteOld => adapter.late # "none")
  /\ works \in [Places -> SUBSET (0..issued)]
  /\ item \in [cur : 0..issued, saved : SUBSET (0..issued)]
  /\ kept \subseteq 0..issued /\ told \subseteq 0..issued /\ stray \subseteq 0..issued
  /\ issued \in 0..MaxValue /\ clock \in 0..MaxTime
  /\ policy \in PolicyRecords
  /\ rot \in [Rotators -> RotRecords]
  /\ with # "ssh" => \A r \in Rotators : rot[r].step <= Len(adapter.proof)

\* A pass counts a failure of a command that has begun and not been counted.
Running == {r \in Rotators : rot[r].pc # "idle"}
FailuresCounted == policy.failed + Cardinality(Running) <= issued

\* Before and after the vault or a file beside it has taken the new secret.
Unstored == {"open", "store", "take_back", "issued", "add", "drop", "key"}
Stored == {"prove", "told", "undo", "restore", "late", "audit", "retire"}
Successful(r) == At(r, "audit") \/ (At(r, "ended") /\ rot[r].ok)

\* The secrets of a command that has begun.
Numbered(r) ==
  LET i == rot[r] IN
  IF i.pc = "idle" THEN i.old = 0 /\ i.new = 0
  ELSE /\ i.old \in Held /\ i.old < i.new /\ i.new <= issued
       /\ i.pc \in Unstored => i.new \notin Held
       /\ i.pc \in Stored \/ Successful(r) => i.new \in Held
       /\ i.ok => i.pc \in {"retire", "ended"}

\* Where its new secret is not accepted, and where it is.
Placed(r) ==
  LET i == rot[r] IN
  /\ i.pc = "open" \/ (with = "database" /\ i.pc = "store") => i.new \notin works[Api]
  /\ i.pc = "issued" => i.new \in works[Api]
  /\ i.pc = "add" => \A p \in Places : p \in i.reached <=> i.new \in works[p]
  /\ i.pc = "drop" => \A p \in Places \ i.reached : i.new \in works[p] => i.new \in told \cup stray
  /\ i.pc = "key" => \A p \in Places : i.new \in works[p]
  /\ with = "ssh" /\ i.pc \in {"key", "audit"} => i.reached = Places

\* Where the old one is accepted no more.
Replaced(r) ==
  LET i == rot[r] IN
  /\ adapter.opening = "roll" /\ (At(r, "issued") \/ At(r, "prove") \/ Successful(r))
       => i.old \notin works[Api]
  /\ with # "ssh" /\ Successful(r) /\ i.new = issued
       => i.new \in works[Api] /\ (EndsOld => i.old \notin works[Api])
  /\ with = "ssh" /\ i.pc \in {"retire", "ended"} /\ i.ok
       => \A p \in Places : (i.pc = "ended" \/ p \notin i.reached) => i.old \notin works[p]

\* The highest secret held is accepted wherever an SSH key is, and a database
\* accepts one password.
Anchored ==
  /\ with = "ssh" =>
       \E m \in Held : (\A h \in Held : h <= m) /\ \A p \in Places : m \in works[p]
  /\ with = "database" => \E x \in 0..issued : works[Api] = {x}

RotInv ==
  /\ RotTypes /\ FailuresCounted
  /\ \A q, r \in Running : rot[q].new = rot[r].new => q = r
  /\ \A r \in Rotators : Numbered(r) /\ Placed(r) /\ Replaced(r)
  /\ Anchored /\ NeverLockedOut /\ EveryKeyAccounted

-----------------------------------------------------------------------------
(* Providers, secrets and records.                                         *)

LEMMA AdapterFacts ==
  ASSUME with \in Adapters
  PROVE  /\ with = "ssh" => adapter = keygenRotate
         /\ with = "database" => adapter = dbrotate
         /\ with \notin {"ssh", "database"} =>
              adapter \in {awsrotate, azrotate, vercelrotate, gitlabrotate}
         /\ adapter.opening = "listed" => with = "azure"
<1>1. with \in {"aws", "gcp", "azure", "vercel", "sendgrid", "twilio", "gitlab", "cloudflare",
                "database", "ssh"}
  BY RotationAssumption DEF PROVIDERS
<1>2. CASE with \in {"aws", "gcp", "azure", "vercel", "sendgrid"}
  BY <1>2 DEF adapter, PROVIDERS, awsrotate, gcprotate, azrotate, vercelrotate, sendgridrotate
<1>3. CASE with \in {"twilio", "gitlab", "cloudflare", "database", "ssh"}
  BY <1>3 DEF adapter, PROVIDERS, twiliorotate, gitlabrotate, cloudflarerotate, dbrotate,
              keygenRotate, vercelrotate
<1> QED BY <1>1, <1>2, <1>3

\* What a provider's calls are in, by the way its rotation opens.
LEMMA PlanFacts ==
  ASSUME with \in Adapters
  PROVE  /\ with = "ssh" => adapter.opening = "add" /\ adapter.proof = <<>> /\ adapter.late = "none"
         /\ with = "database" =>
              adapter.opening = "store" /\ adapter.proof = <<"alter", "sign_in">> /\ adapter.late = "none"
         /\ adapter.opening = "roll" =>
              with \notin {"ssh", "database"} /\ adapter.proof = <<"sign_in">> /\ adapter.late = "none"
         /\ with \notin {"ssh", "database"} =>
              /\ adapter.opening \in {"make", "listed", "roll"}
              /\ adapter.proof \in {<<"end">>, <<"sign_in">>, <<"sign_in", "end">>}
              /\ adapter.proof = <<"sign_in">> /\ adapter.opening # "roll" => with = "azure"
         /\ adapter.opening = "listed" => with = "azure"
         /\ adapter.late = "none" <=> with \in {"ssh", "database"} \/ adapter.opening = "roll"
                                     \/ adapter.proof = <<"sign_in", "end">>
BY AdapterFacts DEF keygenRotate, dbrotate, awsrotate, azrotate, vercelrotate, gitlabrotate
-----------------------------------------------------------------------------
(* What a step of a command leaves to the others.                          *)

\* A command that has begun goes on or answers: nothing held, named or stray is
\* forgotten, it adds no secret to a place but its own new one while it is not
\* held, and takes none away but its own two.  A database has one password, so
\* there it acts on its own two only when one of them is accepted.
Acts(r) ==
  LET i == rot[r] IN
  /\ UNCHANGED <<with, deleteOld, issued, schedule>>
  /\ i.pc # "idle"
  /\ rot' \in [Rotators -> RotRecords]
  /\ rot'[r].pc # "idle" /\ rot'[r].old = i.old /\ rot'[r].new = i.new
  /\ with # "ssh" => rot'[r].step <= Len(adapter.proof)
  /\ \A q \in Rotators \ {r} : rot'[q] = rot[q]
  /\ item' \in [cur : 0..issued, saved : SUBSET (0..issued)]
  /\ kept' \subseteq 0..issued /\ told' \subseteq 0..issued /\ stray' \subseteq 0..issued
  /\ Held \subseteq Held' /\ Held' \subseteq Held \cup {i.new}
  /\ told \subseteq told' /\ stray \subseteq stray'
  /\ works' \in [Places -> SUBSET (0..issued)]
  /\ \A p \in Places :
       /\ \A x \in works[p] \ {i.old, i.new} : x \in works'[p]
       /\ \A x \in works'[p] :
            \/ x \in works[p]
            \/ x = i.new /\ i.new \notin Held
            \/ /\ with = "database" /\ x \in {i.old, i.new}
               /\ i.old \in works[p] \/ i.new \in works[p]

\* What is left to show of the command itself.
Own(r) ==
  /\ Numbered(r) /\ Placed(r) /\ Replaced(r)
  /\ rot[r].pc = "ended" =>
       \A p \in Places : rot[r].new \in works[p] => rot[r].new \in Held \cup told \cup stray

LEMMA ApiPlace == with # "ssh" => Places = {Api}
BY DEF Places

LEMMA SameWhereabouts ==
  ASSUME with' = with
  PROVE  Places' = Places /\ adapter' = adapter /\ EndsOld' = (with' # "azure" \/ deleteOld')
         /\ StagesOf' = StagesOf
BY DEF Places, adapter, EndsOld, StagesOf, Api

\* The other commands are where they were.
LEMMA OthersKept ==
  ASSUME RotInv, NEW r \in Rotators, Acts(r), NEW q \in Rotators \ {r}
  PROVE  (Numbered(q) /\ Placed(q) /\ Replaced(q))'
<1> DEFINE i == rot[r]  j == rot[q]
<1>1. rot'[q] = j /\ j \in RotRecords /\ i \in RotRecords
  BY DEF Acts, RotInv, RotTypes
<1>2. /\ i.old \in Held /\ i.old < i.new /\ i.new <= issued
      /\ i.old \in Nat /\ i.new \in Nat /\ j.old \in Nat /\ j.new \in Nat /\ issued \in Nat
  BY <1>1, RotationAssumption DEF Acts, RotInv, Numbered, RotRecords, RotTypes
<1>3. j.pc # "idle" => /\ j.new # i.new /\ j.old \in Held /\ j.old < j.new /\ j.new <= issued
  BY <1>1 DEF RotInv, Running, Acts, Numbered
<1>4. /\ with' = with /\ deleteOld' = deleteOld /\ issued' = issued /\ Places' = Places
      /\ adapter' = adapter /\ EndsOld' = EndsOld
  BY SameWhereabouts DEF Acts, EndsOld
<1>5. Numbered(q) /\ Placed(q) /\ Replaced(q)
  BY DEF RotInv
<1>6. Numbered(q)'
  BY <1>1, <1>3, <1>4, <1>5 DEF Numbered, Acts, Successful, At, Unstored, Stored
<1>7. Api \in Places <=> with # "ssh"  \/ Api \in Hosts \cup Forges
  BY DEF Places
<1>8. /\ \A p \in Places : \A x \in works[p] \ {i.old, i.new} : x \in works'[p]
      /\ \A p \in Places : \A x \in works'[p] :
           \/ x \in works[p]
           \/ x = i.new /\ i.new \notin Held
           \/ /\ with = "database" /\ x \in {i.old, i.new}
              /\ i.old \in works[p] \/ i.new \in works[p]
  BY DEF Acts
\* A secret the vault does not hold is neither added nor taken away by another.
<1>9. ASSUME NEW p \in Places, j.pc # "idle", j.new \notin Held
      PROVE  j.new \in works'[p] <=> j.new \in works[p]
  BY <1>2, <1>3, <1>8, <1>9
<1>10. j.pc \in {"open", "store", "issued"} => with # "ssh" /\ Api \in Places
  BY <1>1, <1>7 DEF RotRecords, StagesOf
<1>11. j.pc \in Unstored => j.pc # "idle" /\ j.new \notin Held
  BY <1>5 DEF Numbered, Unstored
<1>12. told \subseteq told' /\ stray \subseteq stray'
  BY DEF Acts
<1>13. Placed(q)'
  BY <1>1, <1>4, <1>5, <1>9, <1>10, <1>11, <1>12 DEF Placed, Unstored
\* An old secret is not accepted again.
<1>14. ASSUME NEW p \in Places, j.pc # "idle", j.old \notin works[p], with # "database"
       PROVE  j.old \notin works'[p]
  BY <1>2, <1>3, <1>8, <1>14
<1>15. adapter.opening = "roll" => with \notin {"ssh", "database"} /\ Api \in Places
  BY PlanFacts, <1>7 DEF RotInv, RotTypes
<1>16. ASSUME with # "ssh", j.pc # "idle", j.new = issued, j.new \in works[Api],
              EndsOld => j.old \notin works[Api]
       PROVE  j.new \in works'[Api] /\ (EndsOld => j.old \notin works'[Api])
  <2>1. Api \in Places /\ j.new \notin {i.old, i.new}
    BY <1>2, <1>3, <1>7, <1>16
  <2>2. j.new \in works'[Api]
    BY <1>8, <1>16, <2>1
  <2>3. CASE with = "database"
    <3>1. PICK x \in 0..issued : works[Api] = {x}
      BY <2>3 DEF RotInv, Anchored
    <3>2. works[Api] = {j.new} /\ i.old \notin works[Api] /\ i.new \notin works[Api]
      BY <3>1, <2>1, <1>16
    <3>3. j.old # i.new \/ i.new \in Held
      BY <1>3, <1>16
    <3> QED BY <1>3, <1>8, <1>16, <2>1, <2>2, <3>2, <3>3
  <2>4. CASE with # "database"
    BY <1>14, <1>16, <2>1, <2>2, <2>4
  <2> QED BY <2>3, <2>4
<1>17. Successful(q)' <=> Successful(q)
  BY <1>1 DEF Successful, At
<1>18. Successful(q) => j.pc # "idle"
  BY DEF Successful, At
<1>19. Replaced(q)'
  <2>1. /\ adapter.opening = "roll" /\ (At(q, "issued") \/ At(q, "prove") \/ Successful(q))
             => j.old \notin works'[Api]
    BY <1>5, <1>14, <1>15, <1>18 DEF Replaced, At
  <2>2. with # "ssh" /\ Successful(q) /\ j.new = issued
             => j.new \in works'[Api] /\ (EndsOld => j.old \notin works'[Api])
    BY <1>5, <1>16, <1>18 DEF Replaced
  <2>3. with = "ssh" /\ j.pc \in {"retire", "ended"} /\ j.ok
             => \A p \in Places : (j.pc = "ended" \/ p \notin j.reached) => j.old \notin works'[p]
    BY <1>5, <1>14 DEF Replaced
  <2> QED BY <1>1, <1>4, <1>17, <2>1, <2>2, <2>3 DEF Replaced, At
<1> QED BY <1>6, <1>13, <1>19
\* What a step of a command must show to keep RotInv.
LEMMA ActsKeeps ==
  ASSUME RotInv, NEW r \in Rotators, Acts(r), Own(r)', Anchored', NeverLockedOut'
  PROVE  RotInv'
<1>1. /\ with' = with /\ deleteOld' = deleteOld /\ issued' = issued /\ Places' = Places
      /\ adapter' = adapter /\ StagesOf' = StagesOf /\ policy' = policy /\ clock' = clock
  BY SameWhereabouts DEF Acts, schedule
<1>2. RotTypes'
  <2>1. RotRecords' = RotRecords
    BY <1>1 DEF RotRecords
  <2>2. \A q \in Rotators : with # "ssh" => rot'[q].step <= Len(adapter.proof)
    BY DEF Acts, RotInv, RotTypes
  <2> QED BY <1>1, <2>1, <2>2 DEF RotInv, RotTypes, Acts
<1>3. Running' = Running /\ \A q \in Rotators : rot'[q].new = rot[q].new
  BY DEF Running, Acts
<1>4. FailuresCounted' /\ \A q, s \in Running' : rot'[q].new = rot'[s].new => q = s
  BY <1>1, <1>3 DEF RotInv, FailuresCounted, Running
<1>5. \A q \in Rotators : (Numbered(q) /\ Placed(q) /\ Replaced(q))'
  BY OthersKept DEF Own
<1>6. EveryKeyAccounted'
  <2> SUFFICES ASSUME NEW p \in Places, NEW x \in works'[p]
               PROVE  \/ x \in Held' \cup told' \cup stray'
                      \/ \E q \in Rotators : rot'[q].pc \notin {"idle", "ended"} /\ x = rot'[q].new
    BY <1>1 DEF EveryKeyAccounted
  <2>1. rot[r].old \in Held'
    BY DEF RotInv, Numbered, Acts
  <2>2. CASE x = rot[r].new
    BY <1>1, <2>2 DEF Own, Acts
  <2>3. CASE x # rot[r].new /\ x # rot[r].old
    <3>1. x \in works[p]
      BY <2>3 DEF Acts
    <3>2. \/ x \in Held \cup told \cup stray
          \/ \E q \in Rotators : rot[q].pc \notin {"idle", "ended"} /\ x = rot[q].new
      BY <3>1 DEF RotInv, EveryKeyAccounted
    <3> QED BY <2>3, <3>2 DEF Acts
  <2> QED BY <2>1, <2>2, <2>3
<1> QED BY <1>2, <1>4, <1>5, <1>6 DEF RotInv

-----------------------------------------------------------------------------
(* Calls, writes of the vault and ends.                                    *)

\* A place that stays, gains the new secret while it is not held, loses one of
\* the command's two, or is a database that changes from one to the other.
PlaceActs(r, before, after) ==
  LET i == rot[r] IN
  \/ after = before
  \/ after = before \cup {i.new} /\ i.new \notin Held
  \/ after = (before \ {i.old}) \cup {i.new} /\ i.new \notin Held
  \/ after = before \ {i.old}
  \/ after = before \ {i.new}
  \/ with = "database" /\ i.old \in before /\ after = {i.new}
  \/ with = "database" /\ i.new \in before /\ after = {i.old}

\* What a call may do to the places.
CallDone(r) ==
  /\ works' \in [Places -> SUBSET (0..issued)]
  /\ \A d \in Places :
       /\ \A x \in works[d] \ {rot[r].old, rot[r].new} : x \in works'[d]
       /\ \A x \in works'[d] :
            \/ x \in works[d]
            \/ x = rot[r].new /\ rot[r].new \notin Held
            \/ /\ with = "database" /\ x \in {rot[r].old, rot[r].new}
               /\ rot[r].old \in works[d] \/ rot[r].new \in works[d]

LEMMA CallActs ==
  ASSUME RotInv, NEW r \in Rotators, rot[r].pc # "idle", NEW p \in Places, NEW answer,
         NEW after, NEW signer, signer \in works[p] => PlaceActs(r, works[p], after), call(p, signer, after, answer)
  PROVE  /\ CallDone(r)
         /\ \A d \in Places \ {p} : works'[d] = works[d]
         /\ works'[p] = works[p] \/ (works'[p] = after /\ signer \in works[p])
         /\ answer = "ok" => works'[p] = after /\ signer \in works[p]
         /\ answer = "no" => works'[p] = works[p]
<1>1. rot[r].old \in 0..issued /\ rot[r].new \in 0..issued
  BY RotationAssumption DEF RotInv, RotTypes, RotRecords, Numbered
<1>2. works \in [Places -> SUBSET (0..issued)]
  BY DEF RotInv, RotTypes
<1>3. CASE works' = works
  BY <1>2, <1>3 DEF call, CallDone
<1>4. CASE works' = [works EXCEPT ![p] = after] /\ signer \in works[p] /\ answer # "no"
  <2>0. works[p] \subseteq 0..issued
    BY <1>2
  <2>1. /\ after \subseteq 0..issued
        /\ \A x \in works[p] \ {rot[r].old, rot[r].new} : x \in after
    <3>1. CASE with = "database" /\ (after = {rot[r].new} \/ after = {rot[r].old}) 
               /\ (rot[r].old \in works[p] \/ rot[r].new \in works[p])
      <4>1. PICK x \in 0..issued : works[Api] = {x}
        BY <3>1 DEF RotInv, Anchored
      <4>2. p = Api
        BY <3>1, ApiPlace
      <4> QED BY <1>1, <3>1, <4>1, <4>2
    <3>2. CASE ~(with = "database" /\ (after = {rot[r].new} \/ after = {rot[r].old}))
      BY <1>4, <1>1, <2>0, <3>2 DEF PlaceActs
    <3> QED BY <1>4, <3>1, <3>2, <1>1, <2>0 DEF PlaceActs
  <2>2. \A x \in after :
           \/ x \in works[p]
           \/ x = rot[r].new /\ rot[r].new \notin Held
           \/ /\ with = "database" /\ x \in {rot[r].old, rot[r].new}
              /\ rot[r].old \in works[p] \/ rot[r].new \in works[p]
    BY <1>4 DEF PlaceActs
  <2>3. works'[p] = after /\ \A d \in Places \ {p} : works'[d] = works[d]
    BY <1>2, <1>4
  <2>4. works' \in [Places -> SUBSET (0..issued)]
    BY <1>2, <1>4, <2>1
  <2> QED BY <1>4, <2>1, <2>2, <2>3, <2>4 DEF CallDone
<1> QED BY <1>3, <1>4 DEF call

\* The vault takes a secret: nothing held is lost.
LEMMA FieldsHold ==
  ASSUME RotInv, NEW v \in 0..issued, fields(v), kept' = kept
  PROVE  /\ item' \in [cur : 0..issued, saved : SUBSET (0..issued)]
         /\ Held' = Held \cup {v}
BY DEF RotInv, RotTypes, fields, Held
-----------------------------------------------------------------------------
(* The steps of a command.                                                 *)

\* What holds of a command under way.
LEMMA CommandFacts ==
  ASSUME RotInv, NEW r \in Rotators, rot[r].pc # "idle"
  PROVE  LET i == rot[r] IN
         /\ i \in RotRecords /\ i.pc \in StagesOf /\ i.reached \subseteq Places
         /\ i.old \in 0..issued /\ i.new \in 0..issued /\ i.old < i.new /\ i.old \in Held
         /\ issued \in Nat /\ MaxValue \in Nat /\ issued <= MaxValue
         /\ i.pc \in Unstored => i.new \notin Held
         /\ i.pc \in Stored \/ Successful(r) => i.new \in Held
         /\ Placed(r) /\ Replaced(r)
         /\ with \in Adapters /\ deleteOld \in BOOLEAN /\ (deleteOld => adapter.late # "none")
         /\ works \in [Places -> SUBSET (0..issued)]
         /\ item \in [cur : 0..issued, saved : SUBSET (0..issued)]
         /\ kept \subseteq 0..issued /\ told \subseteq 0..issued /\ stray \subseteq 0..issued
         /\ rot \in [Rotators -> RotRecords]
         /\ with # "ssh" => i.step <= Len(adapter.proof) /\ Places = {Api}
BY RotationAssumption, ApiPlace DEF RotInv, RotTypes, RotRecords, Numbered

\* A command goes on at pc, about the same secrets.
Moves(r, pc) ==
  /\ rot' \in [Rotators -> RotRecords]
  /\ rot'[r].pc = pc /\ rot'[r].old = rot[r].old /\ rot'[r].new = rot[r].new
  /\ rot'[r].ok => pc \in {"retire", "ended"}
  /\ with # "ssh" => rot'[r].step <= Len(adapter.proof)
  /\ \A q \in Rotators \ {r} : rot'[q] = rot[q]

LEMMA GotoMoves ==
  ASSUME RotInv, NEW r \in Rotators, rot[r].pc \notin {"idle", "retire", "ended"},
         NEW pc \in StagesOf, Goto(r, pc)
  PROVE  /\ Moves(r, pc) /\ rot'[r].ok = rot[r].ok /\ rot'[r].reached = rot[r].reached
         /\ rot'[r].undone = rot[r].undone
<1>1. rot \in [Rotators -> RotRecords] /\ rot[r] \in RotRecords
      /\ (with # "ssh" => rot[r].step <= Len(adapter.proof)) /\ rot[r].ok = FALSE
  BY DEF RotInv, RotTypes, Numbered, RotRecords
<1>2. [rot[r] EXCEPT !.pc = pc] \in RotRecords
  BY <1>1 DEF RotRecords
<1>3. rot' = [rot EXCEPT ![r] = [rot[r] EXCEPT !.pc = pc]]
  BY DEF Goto
<1>4. rot' \in [Rotators -> RotRecords]
  BY <1>1, <1>2, <1>3
<1>5. rot'[r] = [rot[r] EXCEPT !.pc = pc] /\ \A q \in Rotators \ {r} : rot'[q] = rot[q]
  BY <1>1, <1>3
<1> QED BY <1>1, <1>4, <1>5 DEF Moves, RotRecords

LEMMA FailMoves ==
  ASSUME RotInv, NEW r \in Rotators, Fail(r)
  PROVE  Moves(r, "ended") /\ rot'[r].ok = FALSE
<1>1. rot \in [Rotators -> RotRecords] /\ rot[r] \in RotRecords
      /\ (with # "ssh" => rot[r].step <= Len(adapter.proof))
  BY DEF RotInv, RotTypes
<1>2. [rot[r] EXCEPT !.pc = "ended", !.ok = FALSE] \in RotRecords
  BY <1>1 DEF RotRecords, StagesOf
<1>3. rot' = [rot EXCEPT ![r] = [rot[r] EXCEPT !.pc = "ended", !.ok = FALSE]]
  BY DEF Fail
<1>4. rot' \in [Rotators -> RotRecords]
  BY <1>1, <1>2, <1>3
<1>5. rot'[r] = [rot[r] EXCEPT !.pc = "ended", !.ok = FALSE]
      /\ \A q \in Rotators \ {r} : rot'[q] = rot[q]
  BY <1>1, <1>3
<1> QED BY <1>1, <1>4, <1>5 DEF Moves, RotRecords

\* The steps of a command, put together: what it writes, the calls it makes and
\* where it goes.
LEMMA StepKeeps ==
  ASSUME RotInv, NEW r \in Rotators, rot[r].pc # "idle", NEW pc \in StagesOf \ {"idle"},
         Moves(r, pc), CallDone(r),
         UNCHANGED <<with, deleteOld, issued, schedule>>,
         item' \in [cur : 0..issued, saved : SUBSET (0..issued)],
         Held \subseteq Held', Held' \subseteq Held \cup {rot[r].new},
         kept' \subseteq 0..issued,
         told' \in {told, told \cup {rot[r].new}}, stray' \in {stray, stray \cup {rot[r].new}},
         pc \in Unstored => rot[r].new \notin Held',
         pc \in Stored \/ Successful(r)' => rot[r].new \in Held',
         Placed(r)', Replaced(r)',
         pc = "ended" =>
           \A p \in Places : rot[r].new \in works'[p] => rot[r].new \in Held' \cup told' \cup stray',
         Anchored', NeverLockedOut'
  PROVE  RotInv'
<1>1. told \subseteq 0..issued /\ stray \subseteq 0..issued /\ rot[r].new \in 0..issued
      /\ rot[r].old \in Held /\ rot[r].old < rot[r].new /\ rot[r].new <= issued
  BY CommandFacts
<1>2. Acts(r)
  BY <1>1 DEF Moves, CallDone, Acts
<1>3. rot'[r].pc = pc /\ rot'[r].old = rot[r].old /\ rot'[r].new = rot[r].new /\ issued' = issued
      /\ Places' = Places
      /\ (rot'[r].ok => pc \in {"retire", "ended"})
  BY SameWhereabouts DEF Moves
<1>4. Numbered(r)'
  BY <1>1, <1>3 DEF Numbered
<1>5. Own(r)'
  BY <1>3, <1>4 DEF Own
<1> QED BY <1>2, <1>5, ActsKeeps
LEMMA OpenKeeps ==
  ASSUME RotInv, NEW r \in Rotators, NEW answer \in Answers, Open(r, answer)
  PROVE  RotInv'
<1> DEFINE i == rot[r]
           after == IF adapter.opening = "roll" THEN (works[Api] \ {i.old}) \cup {i.new}
                                                ELSE works[Api] \cup {i.new}
<1>1. i.pc = "open" /\ i.pc # "idle" /\ call(Api, i.old, after, answer)
  BY DEF Open, At
<1>2. with \notin {"ssh", "database"} /\ Places = {Api} /\ Api \in Places
  BY <1>1, CommandFacts DEF StagesOf
<1>3. /\ i.new \notin Held /\ i.new \notin works[Api] /\ i.old \in Held /\ i.old # i.new
      /\ i.old \in Nat /\ i.new \in Nat
  BY <1>1, CommandFacts DEF Unstored, Placed
<1>4. /\ CallDone(r)
      /\ works'[Api] = works[Api] \/ (works'[Api] = after /\ i.old \in works[Api])
      /\ answer = "ok" => works'[Api] = after /\ i.old \in works[Api]
      /\ answer = "no" => works'[Api] = works[Api]
  <2>1. PlaceActs(r, works[Api], after)
    BY <1>3 DEF PlaceActs
  <2> HIDE DEF after
  <2> QED BY <1>1, <1>2, <2>1, CallActs
<1>5. /\ Held' = Held /\ UNCHANGED <<with, deleteOld, issued, schedule, item, kept, told>>
      /\ Places' = Places /\ adapter' = adapter /\ EndsOld' = EndsOld /\ item' = item
  BY SameWhereabouts DEF Open, Held, schedule, EndsOld
<1>6. item' \in [cur : 0..issued, saved : SUBSET (0..issued)] /\ kept' \subseteq 0..issued
  BY <1>1, <1>5, CommandFacts
<1>7. Anchored'
  BY <1>2, <1>5 DEF Anchored
<1>8. adapter.opening # "roll" => NeverLockedOut'
  BY <1>2, <1>4, <1>5 DEF RotInv, NeverLockedOut
\* The new secret is made, and goes to the vault.
<1>9. ASSUME NEW pc \in {"issued", "store"}, Goto(r, pc), answer = "ok", UNCHANGED stray,
             pc = "issued" <=> adapter.opening = "roll"
      PROVE  RotInv'
  <2>1. pc \in StagesOf \ {"idle"}
    BY <1>2, <1>9 DEF StagesOf
  <2>2. Moves(r, pc) /\ rot'[r].ok = i.ok
    BY <1>1, <2>1, <1>9, GotoMoves
  <2>3. Placed(r)'
    BY <1>2, <1>4, <1>5, <1>9, <2>2 DEF Placed, Moves
  <2>4. Replaced(r)'
    BY <1>2, <1>3, <1>4, <1>5, <1>9, <2>2 DEF Replaced, Successful, At, Moves
  <2>5. NeverLockedOut'
    BY <1>5, <1>8, <1>9, <2>2 DEF NeverLockedOut, At, Moves
  <2>6. ~Successful(r)'
    BY <1>9, <2>2 DEF Successful, At, Moves
  <2>7. pc \notin Stored
    BY DEF Stored
  <2> QED BY <1>1, <1>3, <1>4, <1>5, <1>6, <1>7, <1>9, <2>1, <2>2, <2>3, <2>4, <2>5, <2>6, <2>7, StepKeeps
\* It is refused, or nobody could tell of it.
<1>10. ASSUME Fail(r), (answer = "no" /\ UNCHANGED stray) \/ stray' = stray \cup {i.new},
              adapter.opening = "roll" => answer = "no" \/ stray' = stray \cup {i.new}
       PROVE  RotInv'
  <2>1. "ended" \in StagesOf \ {"idle"}
    BY DEF StagesOf
  <2>2. Moves(r, "ended") /\ rot'[r].ok = FALSE
    BY <1>10, FailMoves
  <2>3. Placed(r)'
    BY <2>2 DEF Placed, Moves
  <2>4. Replaced(r)'
    BY <2>2 DEF Replaced, Successful, At, Moves
  <2>5. NeverLockedOut'
    <3>1. CASE answer = "no" /\ stray' = stray
      BY <1>2, <1>4, <1>5, <2>2, <1>1, <3>1 DEF RotInv, NeverLockedOut, At, Moves
    <3> QED BY <1>5, <1>8, <1>10, <3>1 DEF NeverLockedOut
  <2>6. ~Successful(r)'
    BY <2>2 DEF Successful, At, Moves
  <2>7. "ended" \notin Stored \cup Unstored
    BY DEF Stored, Unstored
  <2>8. \A p \in Places : i.new \in works'[p] => i.new \in Held' \cup told' \cup stray'
    BY <1>2, <1>3, <1>4, <1>10
  <2> QED BY <1>1, <1>3, <1>4, <1>5, <1>6, <1>7, <1>10, <2>1, <2>2, <2>3, <2>4, <2>5, <2>6, <2>7, <2>8, StepKeeps
<1> QED BY <1>9, <1>10 DEF Open
\* A command that fails has its new secret accounted for.
LEMMA FailKeeps ==
  ASSUME RotInv, NEW r \in Rotators, rot[r].pc # "idle", Fail(r), CallDone(r),
         UNCHANGED <<with, deleteOld, issued, schedule>>,
         item' \in [cur : 0..issued, saved : SUBSET (0..issued)],
         Held \subseteq Held', Held' \subseteq Held \cup {rot[r].new},
         kept' \subseteq 0..issued,
         told' \in {told, told \cup {rot[r].new}}, stray' \in {stray, stray \cup {rot[r].new}},
         \A p \in Places : rot[r].new \in works'[p] => rot[r].new \in Held' \cup told' \cup stray',
         Anchored', NeverLockedOut'
  PROVE  RotInv'
<1>1. "ended" \in StagesOf \ {"idle"} /\ "ended" \notin Stored \cup Unstored
  BY DEF StagesOf, Stored, Unstored
<1>2. Moves(r, "ended") /\ rot'[r].ok = FALSE
  BY FailMoves
<1>3. Placed(r)' /\ Replaced(r)' /\ ~Successful(r)'
  BY <1>2 DEF Placed, Replaced, Successful, At, Moves
<1> QED BY <1>1, <1>2, <1>3, StepKeeps

\* A step that calls nobody.
LEMMA NoCall ==
  ASSUME RotInv, NEW r \in Rotators, works' = works
  PROVE  CallDone(r)
BY DEF CallDone, RotInv, RotTypes

LEMMA NoCallAnchored ==
  ASSUME RotInv, works' = works, with' = with, issued' = issued, Held' = Held \/ with # "ssh"
  PROVE  Anchored'
BY SameWhereabouts DEF Anchored, RotInv

\* Nobody is locked out by what leaves every place as it is, and a rolled
\* secret that is not yet stored with its command, in the vault or named.
LEMMA NoCallLocks ==
  ASSUME RotInv, NEW r \in Rotators, works' = works, with' = with, Held \subseteq Held',
         told \subseteq told', stray \subseteq stray',
         \A q \in Rotators \ {r} : rot'[q] = rot[q],
         rot[r].pc # "issued" \/ told' \cup stray' # {} \/ rot[r].new \in Held'
  PROVE  NeverLockedOut'
<1>1. adapter' = adapter /\ Places' = Places
  BY SameWhereabouts
<1>2. CASE rot[r].pc = "issued" /\ rot[r].new \in Held'
  <2>1. rot[r].new \in works[Api] /\ Places = {Api}
    BY <1>2, CommandFacts DEF Placed, StagesOf
  <2> QED BY <1>1, <1>2, <2>1 DEF NeverLockedOut
<1> QED BY <1>1, <1>2 DEF NeverLockedOut, RotInv, At

LEMMA StoreKeeps ==
  ASSUME RotInv, NEW r \in Rotators, Store(r)
  PROVE  RotInv'
<1> DEFINE i == rot[r]
<1>1. i.pc = "store" /\ i.pc # "idle"
  BY DEF Store, At
<1>2. with # "ssh" /\ adapter.opening # "roll" /\ Places = {Api}
  BY <1>1, CommandFacts, PlanFacts DEF StagesOf
<1>3. i.new \notin Held /\ i.new \in 0..issued /\ Placed(r)
  BY <1>1, CommandFacts DEF Unstored
<1>4. /\ UNCHANGED <<with, deleteOld, issued, schedule, works, kept, told, stray>>
      /\ Places' = Places /\ adapter' = adapter
  BY SameWhereabouts DEF Store, provider, schedule
<1>5. CallDone(r) /\ kept' \subseteq 0..issued /\ Anchored'
  BY <1>1, <1>2, <1>4, NoCall, NoCallAnchored, CommandFacts
<1>6. CASE fields(i.new) /\ Goto(r, "prove")
  <2>1. item' \in [cur : 0..issued, saved : SUBSET (0..issued)] /\ Held' = Held \cup {i.new}
    BY <1>3, <1>4, <1>6, FieldsHold
  <2>2. "prove" \in StagesOf \ {"idle"} /\ "prove" \notin Unstored
    BY <1>2, <1>6 DEF StagesOf, Unstored
  <2>3. Moves(r, "prove")
    BY <1>1, <1>6, <2>2, GotoMoves
  <2>4. Placed(r)' /\ Replaced(r)' /\ NeverLockedOut'
    BY <1>1, <1>2, <1>4, <2>1, <2>3, NoCallLocks DEF Placed, Replaced, Successful, At, Moves
  <2> QED BY <1>1, <1>4, <1>5, <2>1, <2>2, <2>3, <2>4, StepKeeps
<1>7. CASE UNCHANGED item
  <2>1. item' \in [cur : 0..issued, saved : SUBSET (0..issued)] /\ Held' = Held
    BY <1>1, <1>4, <1>7, CommandFacts DEF Held
  <2>2. CASE adapter.opening = "store" /\ Fail(r)
    <3>1. with = "database"
      BY <1>1, <1>2, <2>2, PlanFacts, CommandFacts
    <3>2. NeverLockedOut' /\ i.new \notin works[Api]
      BY <1>1, <1>3, <1>4, <2>1, <2>2, <3>1, FailMoves, NoCallLocks DEF Moves, Placed
    <3> QED BY <1>1, <1>2, <1>4, <1>5, <2>1, <2>2, <3>2, FailKeeps
  <2>3. CASE adapter.opening # "store" /\ Goto(r, "take_back")
    <3>1. "take_back" \in StagesOf \ {"idle"} /\ "take_back" \notin Stored
      BY <1>1, <1>2, <2>3, PlanFacts, CommandFacts DEF StagesOf, Stored
    <3>2. Moves(r, "take_back")
      BY <1>1, <2>3, <3>1, GotoMoves
    <3>3. Placed(r)' /\ Replaced(r)' /\ NeverLockedOut' /\ ~Successful(r)'
      BY <1>1, <1>2, <1>4, <2>1, <3>2, NoCallLocks DEF Placed, Replaced, Successful, At, Moves
    <3> QED BY <1>1, <1>3, <1>4, <1>5, <2>1, <3>1, <3>2, <3>3, StepKeeps
  <2> QED BY <1>7, <1>6, <2>2, <2>3 DEF Store
<1> QED BY <1>6, <1>7 DEF Store

LEMMA TakeBackKeeps ==
  ASSUME RotInv, NEW r \in Rotators, NEW answer \in Answers, TakeBack(r, answer)
  PROVE  RotInv'
<1> DEFINE i == rot[r]  after == works[Api] \ {i.new}
<1>1. i.pc = "take_back" /\ i.pc # "idle" /\ call(Api, i.old, after, answer) /\ Fail(r)
  BY DEF TakeBack, At
<1>2. with \notin {"ssh", "database"} /\ Places = {Api} /\ Api \in Places /\ adapter.opening # "roll"
  BY <1>1, CommandFacts DEF StagesOf
<1>3. i.old \in Held /\ i.old # i.new
  BY <1>1, CommandFacts
<1>4. /\ UNCHANGED <<with, deleteOld, issued, schedule, item, kept, stray>> /\ Held' = Held
      /\ Places' = Places /\ adapter' = adapter /\ item' = item
  BY SameWhereabouts DEF TakeBack, schedule, Held
<1>5. /\ CallDone(r)
      /\ works'[Api] = works[Api] \/ (works'[Api] = after /\ i.old \in works[Api])
      /\ answer = "ok" => works'[Api] = after
  <2>1. PlaceActs(r, works[Api], after)
    BY DEF PlaceActs
  <2> HIDE DEF after
  <2> QED BY <1>1, <1>2, <2>1, CallActs
<1>6. told' = IF answer = "ok" THEN told ELSE told \cup {i.new}
  BY DEF TakeBack
<1>7. Anchored' /\ NeverLockedOut'
  BY <1>2, <1>3, <1>4, <1>5 DEF Anchored, NeverLockedOut, RotInv
<1>8. \A p \in Places : i.new \in works'[p] => i.new \in Held' \cup told' \cup stray'
  BY <1>2, <1>5, <1>6
<1>9. item' \in [cur : 0..issued, saved : SUBSET (0..issued)] /\ kept' \subseteq 0..issued
  BY <1>1, <1>4, CommandFacts
<1> QED BY <1>1, <1>4, <1>5, <1>6, <1>7, <1>8, <1>9, FailKeeps

LEMMA IssuedKeeps ==
  ASSUME RotInv, NEW r \in Rotators, Issued(r)
  PROVE  RotInv'
<1> DEFINE i == rot[r]
<1>1. i.pc = "issued" /\ i.pc # "idle"
  BY DEF Issued, At
<1>2. with \notin {"ssh", "database"} /\ Places = {Api} /\ adapter.opening = "roll"
  BY <1>1, CommandFacts DEF StagesOf
<1>3. i.new \notin Held /\ i.new \in 0..issued /\ Replaced(r)
  BY <1>1, CommandFacts DEF Unstored
<1>4. /\ UNCHANGED <<with, deleteOld, issued, schedule, works, stray>>
      /\ Places' = Places /\ adapter' = adapter
  BY SameWhereabouts DEF Issued, schedule
<1>5. CallDone(r) /\ kept \subseteq 0..issued /\ Anchored'
      /\ item \in [cur : 0..issued, saved : SUBSET (0..issued)]
  BY <1>1, <1>2, <1>4, NoCall, NoCallAnchored, CommandFacts
<1>6. CASE fields(i.new) /\ Goto(r, "prove") /\ UNCHANGED <<kept, told>>
  <2>1. item' \in [cur : 0..issued, saved : SUBSET (0..issued)] /\ Held' = Held \cup {i.new}
    BY <1>3, <1>4, <1>6, FieldsHold
  <2>2. "prove" \in StagesOf \ {"idle"} /\ "prove" \notin Unstored
    BY <1>2, <1>6 DEF StagesOf, Unstored
  <2>3. Moves(r, "prove")
    BY <1>1, <1>6, <2>2, GotoMoves
  <2>4. Placed(r)' /\ NeverLockedOut'
    BY <1>1, <1>2, <1>4, <1>6, <2>1, <2>3, NoCallLocks DEF Placed, Moves
  <2>5. Replaced(r)'
    BY <1>1, <1>2, <1>3, <1>4, <2>3 DEF Replaced, Successful, At, Moves
  <2> QED BY <1>1, <1>4, <1>5, <1>6, <2>1, <2>2, <2>3, <2>4, <2>5, StepKeeps
<1>7. CASE Fail(r) /\ kept' = kept \cup {i.new} /\ UNCHANGED <<item, told>>
  <2>1. Held' = Held \cup {i.new} /\ kept' \subseteq 0..issued
    BY <1>3, <1>5, <1>7 DEF Held
  <2>2. NeverLockedOut'
    BY <1>1, <1>4, <1>7, <2>1, FailMoves, NoCallLocks DEF Moves
  <2> QED BY <1>1, <1>4, <1>5, <1>7, <2>1, <2>2, FailKeeps
<1>8. CASE Fail(r) /\ told' = told \cup {i.new} /\ UNCHANGED <<item, kept>>
  <2>1. Held' = Held
    BY <1>8 DEF Held
  <2>2. NeverLockedOut'
    BY <1>1, <1>4, <1>8, <2>1, FailMoves, NoCallLocks DEF Moves
  <2> QED BY <1>1, <1>4, <1>5, <1>8, <2>1, <2>2, FailKeeps
<1> QED BY <1>6, <1>7, <1>8 DEF Issued
LEMMA UndoKeeps ==
  ASSUME RotInv, NEW r \in Rotators, Undo(r)
  PROVE  RotInv'
<1> DEFINE i == rot[r]
<1>1. i.pc = "told" /\ i.pc \notin {"idle", "retire", "ended"} /\ i.pc # "issued"
  BY DEF Undo, At
<1>2. with # "ssh" /\ adapter.opening # "roll" /\ Places = {Api} /\ i.new \in Held
  BY <1>1, CommandFacts, PlanFacts DEF StagesOf, Stored
<1>3. /\ UNCHANGED <<with, deleteOld, issued, schedule, works, item, kept, told, stray>>
      /\ Held' = Held /\ Places' = Places /\ adapter' = adapter
  BY SameWhereabouts DEF Undo, schedule, provider, Held
<1>4. /\ CallDone(r) /\ Anchored' /\ kept' \subseteq 0..issued
      /\ item' \in [cur : 0..issued, saved : SUBSET (0..issued)]
  BY <1>1, <1>3, NoCall, NoCallAnchored, CommandFacts
<1>5. ASSUME NEW pc \in {"restore", "undo"}, Goto(r, pc)
      PROVE  RotInv'
  <2>1. pc \in StagesOf \ {"idle"} /\ pc \notin Unstored \cup {"ended"}
    BY <1>2 DEF StagesOf, Unstored
  <2>2. Moves(r, pc)
    BY <1>1, <1>5, <2>1, GotoMoves
  <2>3. Placed(r)' /\ Replaced(r)' /\ NeverLockedOut'
    BY <1>1, <1>2, <1>3, <2>2, NoCallLocks DEF Placed, Replaced, Successful, At, Moves
  <2> QED BY <1>1, <1>2, <1>3, <1>4, <2>1, <2>2, <2>3, StepKeeps
<1>6. CASE Fail(r)
  <2>1. NeverLockedOut'
    BY <1>1, <1>3, <1>6, FailMoves, NoCallLocks DEF Moves
  <2> QED BY <1>1, <1>2, <1>3, <1>4, <1>6, <2>1, FailKeeps
<1> QED BY <1>5, <1>6 DEF Undo

LEMMA UndoneKeeps ==
  ASSUME RotInv, NEW r \in Rotators, NEW answer \in Answers, Undone(r, answer)
  PROVE  RotInv'
<1> DEFINE i == rot[r]
           signer == IF with = "database" THEN i.new ELSE i.old
           after == IF with = "database" THEN {i.old} ELSE works[Api] \ {i.new}
<1>1. i.pc = "undo" /\ i.pc \notin {"idle", "retire", "ended"} /\ call(Api, signer, after, answer)
  BY DEF Undone, At
<1>2. /\ with # "ssh" /\ adapter.opening # "roll" /\ Places = {Api} /\ Api \in Places
      /\ i.new \in Held
  BY <1>1, CommandFacts, PlanFacts DEF StagesOf, Stored
<1>3. i.old \in Held /\ i.old # i.new /\ i.old \in 0..issued /\ i.new \in 0..issued
  BY <1>1, CommandFacts
<1>4. /\ UNCHANGED <<with, deleteOld, issued, schedule, item, kept, told, stray>>
      /\ Held' = Held /\ Places' = Places /\ adapter' = adapter
  BY SameWhereabouts DEF Undone, schedule, Held
<1>5. kept' \subseteq 0..issued /\ item' \in [cur : 0..issued, saved : SUBSET (0..issued)]
  BY <1>1, <1>4, CommandFacts
<1>6. /\ CallDone(r)
      /\ works'[Api] = works[Api] \/ (works'[Api] = after /\ signer \in works[Api])
  <2>1. signer \in works[Api] => PlaceActs(r, works[Api], after)
    BY DEF PlaceActs
  <2> HIDE DEF after, signer
  <2> QED BY <1>1, <1>2, <2>1, CallActs
<1>7. Anchored' /\ NeverLockedOut'
  BY <1>2, <1>3, <1>4, <1>6 DEF Anchored, NeverLockedOut, RotInv
<1>8. CASE rot' = [rot EXCEPT ![r].pc = "restore", ![r].undone = answer = "ok"]
           \/ Goto(r, "restore")
  <2>1. "restore" \in StagesOf \ {"idle"} /\ "restore" \notin Unstored \cup {"ended"}
    BY <1>1, <1>2, CommandFacts DEF StagesOf, Unstored
  <2>2. Moves(r, "restore")
    <3>1. CASE Goto(r, "restore")
      BY <1>1, <2>1, <3>1, GotoMoves
    <3>2. CASE rot' = [rot EXCEPT ![r].pc = "restore", ![r].undone = answer = "ok"]
      <4> DEFINE j == [i EXCEPT !.pc = "restore", !.undone = answer = "ok"]
      <4>1. i \in RotRecords /\ rot \in [Rotators -> RotRecords] /\ i.ok = FALSE
            /\ i.step <= Len(adapter.proof)
        BY <1>1, <1>2, CommandFacts DEF RotInv, Numbered, RotRecords
      <4>2. j \in RotRecords
        BY <2>1, <4>1 DEF RotRecords
      <4>3. rot' = [rot EXCEPT ![r] = j]
        BY <3>2
      <4>4. rot' \in [Rotators -> RotRecords] /\ rot'[r] = j /\ \A q \in Rotators \ {r} : rot'[q] = rot[q]
        BY <4>1, <4>2, <4>3
      <4> QED BY <4>1, <4>4 DEF Moves, RotRecords
    <3> QED BY <1>8, <3>1, <3>2
  <2>3. Placed(r)' /\ Replaced(r)'
    BY <1>2, <1>4, <2>2 DEF Placed, Replaced, Successful, At, Moves
  <2> QED BY <1>1, <1>2, <1>4, <1>5, <1>6, <1>7, <2>1, <2>2, <2>3, StepKeeps
<1>9. CASE Fail(r)
  BY <1>1, <1>2, <1>4, <1>5, <1>6, <1>7, <1>9, FailKeeps
<1> QED BY <1>8, <1>9 DEF Undone

LEMMA RestoreKeeps ==
  ASSUME RotInv, NEW r \in Rotators, Restore(r)
  PROVE  RotInv'
<1> DEFINE i == rot[r]
<1>1. i.pc = "restore" /\ i.pc # "idle" /\ i.pc # "issued" /\ Fail(r)
  BY DEF Restore, At
<1>2. with # "ssh" /\ i.new \in Held /\ i.old \in Held /\ i.old \in 0..issued
  BY <1>1, CommandFacts DEF StagesOf, Stored
<1>3. /\ UNCHANGED <<with, deleteOld, issued, schedule, works, kept, stray>>
      /\ Places' = Places /\ adapter' = adapter
  BY SameWhereabouts DEF Restore, schedule
<1>4. told' \in {told, told \cup {i.new}}
  BY DEF Restore
<1>5. item' \in [cur : 0..issued, saved : SUBSET (0..issued)] /\ Held' = Held
  <2>1. CASE fields(i.old)
    BY <1>2, <1>3, <2>1, FieldsHold
  <2>2. CASE UNCHANGED item
    BY <1>1, <1>3, <2>2, CommandFacts DEF Held
  <2> QED BY <2>1, <2>2 DEF Restore
<1>6. CallDone(r) /\ Anchored' /\ kept' \subseteq 0..issued
  BY <1>1, <1>3, <1>5, NoCall, NoCallAnchored, CommandFacts
<1>7. NeverLockedOut'
  BY <1>1, <1>3, <1>4, <1>5, FailMoves, NoCallLocks DEF Moves
<1> QED BY <1>1, <1>2, <1>3, <1>4, <1>5, <1>6, <1>7, FailKeeps

LEMMA LateKeeps ==
  ASSUME RotInv, NEW r \in Rotators, NEW answer \in Answers, Late(r, answer)
  PROVE  RotInv'
<1> DEFINE i == rot[r]  after == works[Api] \ {i.old}
<1>1. i.pc = "late" /\ i.pc \notin {"idle", "retire", "ended"} /\ call(Api, i.new, after, answer)
  BY DEF Late, At
<1>2. /\ with \notin {"ssh", "database"} /\ adapter.opening # "roll" /\ Places = {Api}
      /\ Api \in Places /\ i.new \in Held
  BY <1>1, CommandFacts DEF StagesOf, Stored
<1>3. i.old # i.new /\ i.old \in 0..issued /\ i.new \in 0..issued
  BY <1>1, CommandFacts
<1>4. /\ UNCHANGED <<with, deleteOld, issued, schedule, item, kept, told, stray>>
      /\ Held' = Held /\ Places' = Places /\ adapter' = adapter
  BY SameWhereabouts DEF Late, schedule, Held
<1>5. kept' \subseteq 0..issued /\ item' \in [cur : 0..issued, saved : SUBSET (0..issued)]
  BY <1>1, <1>4, CommandFacts
<1>6. /\ CallDone(r)
      /\ works'[Api] = works[Api] \/ (works'[Api] = after /\ i.new \in works[Api])
      /\ answer = "ok" => works'[Api] = after /\ i.new \in works[Api]
  <2>1. PlaceActs(r, works[Api], after)
    BY DEF PlaceActs
  <2> HIDE DEF after
  <2> QED BY <1>1, <1>2, <2>1, CallActs
<1>7. Anchored' /\ NeverLockedOut'
  BY <1>2, <1>3, <1>4, <1>6 DEF Anchored, NeverLockedOut, RotInv
<1>8. CASE answer = "ok" /\ Goto(r, "audit")
  <2>1. "audit" \in StagesOf \ {"idle"} /\ "audit" \notin Unstored \cup {"ended"}
    BY <1>2 DEF StagesOf, Unstored
  <2>2. Moves(r, "audit")
    BY <1>1, <1>8, <2>1, GotoMoves
  <2>3. Placed(r)' /\ Replaced(r)'
    BY <1>2, <1>3, <1>4, <1>6, <1>8, <2>2 DEF Placed, Replaced, Successful, At, Moves
  <2> QED BY <1>1, <1>2, <1>4, <1>5, <1>6, <1>7, <2>1, <2>2, <2>3, StepKeeps
<1>9. CASE Fail(r)
  BY <1>1, <1>2, <1>4, <1>5, <1>6, <1>7, <1>9, FailKeeps
<1> QED BY <1>8, <1>9 DEF Late
LEMMA ProveKeeps ==
  ASSUME RotInv, NEW r \in Rotators, NEW answer \in Answers, Prove(r, answer)
  PROVE  RotInv'
<1> DEFINE i == rot[r]
           does == adapter.proof[i.step]
           last == i.step = Len(adapter.proof)
           signer == IF does = "alter" THEN i.old ELSE i.new
           after == IF does = "sign_in" THEN works[Api]
                    ELSE IF does = "end" THEN works[Api] \ {i.old} ELSE {i.new}
           pc == IF answer = "ok" THEN (IF ~last THEN "prove" ELSE IF deleteOld THEN "late" ELSE "audit")
                 ELSE IF adapter.opening = "roll" THEN "ended" ELSE "told"
<1>1. i.pc = "prove" /\ i.pc \notin {"idle", "issued"} /\ adapter.proof # <<>>
  BY DEF Prove, At
<1>2. /\ with # "ssh" /\ Places = {Api} /\ Api \in Places /\ i.new \in Held
      /\ i.old # i.new /\ i.old \in 0..issued /\ i.new \in 0..issued /\ i.old \in Held
      /\ i.step \in 1..2 /\ i.step <= Len(adapter.proof) /\ i.ok = FALSE /\ i \in RotRecords
      /\ rot \in [Rotators -> RotRecords] /\ Replaced(r)
      /\ works \in [Places -> SUBSET (0..issued)] /\ works[Api] \subseteq 0..issued
  <2>1. with # "ssh" /\ i.new \in Held /\ i \in RotRecords /\ Replaced(r)
    BY <1>1, CommandFacts DEF StagesOf, Stored
  <2>2. Places = {Api} /\ Api \in Places
    BY <2>1, ApiPlace
  <2>3. i.ok = FALSE
    BY <1>1, <2>1 DEF RotInv, Numbered, RotRecords
  <2>4. i.step \in 1..2
    BY <2>1 DEF RotRecords
  <2>5. /\ i.old # i.new /\ i.old \in 0..issued /\ i.new \in 0..issued /\ i.old \in Held
        /\ i.step <= Len(adapter.proof) /\ rot \in [Rotators -> RotRecords]
        /\ works \in [Places -> SUBSET (0..issued)]
    BY <1>1, <2>1, CommandFacts
  <2> QED BY <2>1, <2>2, <2>3, <2>4, <2>5
\* The calls of each adapter's proof.
<1>3. \/ adapter.proof = <<"end">> /\ adapter.opening # "roll" /\ with # "database"
      \/ adapter.proof = <<"sign_in">> /\ adapter.opening = "roll" /\ with # "database" /\ ~deleteOld
      \/ adapter.proof = <<"sign_in">> /\ with = "azure" /\ adapter.opening # "roll"
      \/ adapter.proof = <<"sign_in", "end">> /\ with # "database" /\ ~deleteOld /\ adapter.opening # "roll"
      \/ adapter.proof = <<"alter", "sign_in">> /\ with = "database" /\ ~deleteOld /\ adapter.opening # "roll"
  BY <1>1, <1>2, CommandFacts, PlanFacts
<1>4. /\ does \in {"sign_in", "end", "alter"} /\ (does = "alter" => with = "database" /\ ~last)
      /\ (does = "end" => last /\ with # "database" /\ adapter.opening # "roll")
      /\ (last => i.step = 1 \/ i.step = 2) /\ (~last => i.step = 1 /\ Len(adapter.proof) = 2)
      /\ (does = "sign_in" /\ last => with \in {"database", "azure"} \/ adapter.opening = "roll")
  <2>1. i.step = 1 \/ i.step = 2
    BY <1>2
  <2>2. CASE adapter.proof = <<"end">> /\ adapter.opening # "roll" /\ with # "database"
    <3>1. Len(adapter.proof) = 1 /\ i.step = 1
      BY <1>2, <2>1, <2>2
    <3> QED BY <2>2, <3>1
  <2>3. CASE adapter.proof = <<"sign_in">> /\ (adapter.opening = "roll" \/ with = "azure")
    <3>1. Len(adapter.proof) = 1 /\ i.step = 1
      BY <1>2, <2>1, <2>3
    <3> QED BY <2>3, <3>1
  <2>4. CASE adapter.proof = <<"sign_in", "end">> /\ adapter.opening # "roll" /\ with # "database"
    <3>1. Len(adapter.proof) = 2
      BY <2>4
    <3> QED BY <2>1, <2>4, <3>1
  <2>5. CASE adapter.proof = <<"alter", "sign_in">> /\ with = "database"
    <3>1. Len(adapter.proof) = 2
      BY <2>5
    <3> QED BY <2>1, <2>5, <3>1
  <2> QED BY <1>3, <2>2, <2>3, <2>4, <2>5
<1>5. call(Api, signer, after, answer)
  BY <1>4 DEF Prove, Proves
<1>6. /\ UNCHANGED <<with, deleteOld, issued, schedule, item, kept, told, stray>>
      /\ Held' = Held /\ Places' = Places /\ adapter' = adapter /\ EndsOld' = EndsOld
  BY SameWhereabouts DEF Prove, schedule, Held, EndsOld
<1>7. kept' \subseteq 0..issued /\ item' \in [cur : 0..issued, saved : SUBSET (0..issued)]
  BY <1>1, <1>6, CommandFacts
<1>8. /\ CallDone(r)
      /\ works'[Api] = works[Api] \/ (works'[Api] = after /\ signer \in works[Api])
      /\ answer = "ok" => works'[Api] = after /\ signer \in works[Api]
  <2>1. signer \in works[Api] => PlaceActs(r, works[Api], after)
    BY <1>4 DEF PlaceActs
  <2> HIDE DEF after, signer
  <2> QED BY <1>1, <1>2, <1>5, <2>1, CallActs
<1>9. with = "database" => \E x \in 0..issued : works[Api] = {x}
  BY DEF RotInv, Anchored
<1>10. Anchored'
  BY <1>2, <1>4, <1>6, <1>8, <1>9 DEF Anchored
<1>11. NeverLockedOut'
  <2>1. CASE works'[Api] = works[Api]
    <3>1. works' = works
      BY <1>2, <1>8, <2>1 DEF CallDone
    <3>2. \A q \in Rotators \ {r} : rot'[q] = rot[q]
      BY <1>2 DEF Prove
    <3> QED BY <1>1, <1>6, <3>1, <3>2, NoCallLocks
  <2>2. CASE works'[Api] # works[Api]
    BY <1>2, <1>4, <1>6, <1>8, <2>2 DEF NeverLockedOut
  <2> QED BY <2>1, <2>2
<1>12. pc \in StagesOf \ {"idle"} /\ pc \notin Unstored /\ pc \in {"prove", "late", "audit", "told", "ended"}
  BY <1>2, <1>3 DEF StagesOf, Unstored
<1>13. Moves(r, pc)
  <2> DEFINE st == IF answer = "ok" /\ ~last THEN i.step + 1 ELSE i.step
             ch == i.changed \/ (answer = "ok" /\ does = "alter")
             j == [i EXCEPT !.step = st, !.changed = ch, !.pc = pc]
  <2>1. st \in 1..2 /\ st <= Len(adapter.proof) /\ ch \in BOOLEAN
    BY <1>2, <1>4 DEF RotRecords
  <2>2. rot' = [rot EXCEPT ![r] = j]
    BY DEF Prove
  <2> HIDE DEF st, ch, pc
  <2>3. j \in RotRecords
    BY <1>2, <1>12, <2>1 DEF RotRecords
  <2>4. rot' \in [Rotators -> RotRecords] /\ rot'[r] = j /\ \A q \in Rotators \ {r} : rot'[q] = rot[q]
    BY <1>2, <2>2, <2>3
  <2> QED BY <1>2, <1>6, <2>1, <2>3, <2>4 DEF Moves, RotRecords
<1>14. Placed(r)'
  BY <1>2, <1>6, <1>12, <1>13 DEF Placed, Moves
\* A rolled secret's predecessor stays ended.
<1>15. adapter.opening = "roll" => i.old \notin works'[Api]
  BY <1>1, <1>2, <1>3, <1>4, <1>8 DEF Replaced, At
\* After the last call the new secret is accepted, and the old one is not.
<1>16. answer = "ok" /\ last /\ ~deleteOld =>
         i.new \in works'[Api] /\ (EndsOld => i.old \notin works'[Api])
  <2> SUFFICES ASSUME answer = "ok", last, ~deleteOld
               PROVE  i.new \in works'[Api] /\ (EndsOld => i.old \notin works'[Api])
    OBVIOUS
  <2>1. i.new \in works[Api] /\ works'[Api] = after /\ does # "alter"
    BY <1>4, <1>8
  <2>2. CASE does = "end"
    BY <1>2, <2>1, <2>2
  <2>3. CASE does = "sign_in" /\ with = "database"
    BY <1>2, <1>9, <2>1, <2>3
  <2>4. CASE does = "sign_in" /\ with # "database"
    BY <1>4, <1>15, <2>1, <2>4 DEF EndsOld
  <2> QED BY <1>4, <2>1, <2>2, <2>3, <2>4
<1>17. rot'[r].pc = pc /\ (pc = "audit" => answer = "ok" /\ last /\ ~deleteOld)
       /\ (Successful(r)' => pc = "audit")
  <2>1. rot'[r].ok = i.ok
    BY <1>2 DEF Prove
  <2> QED BY <1>2, <1>13, <2>1 DEF Moves, Successful, At
<1> HIDE DEF pc, last, does, signer, after
<1>18. Replaced(r)'
  BY <1>2, <1>6, <1>13, <1>15, <1>16, <1>17 DEF Replaced, Moves
<1> QED BY <1>1, <1>2, <1>6, <1>7, <1>8, <1>10, <1>11, <1>12, <1>13, <1>14, <1>18, StepKeeps

LEMMA AuditKeeps ==
  ASSUME RotInv, NEW r \in Rotators, Audit(r)
  PROVE  RotInv'
<1> DEFINE i == rot[r]  pc == IF with = "ssh" THEN "retire" ELSE "ended"
<1>1. i.pc = "audit" /\ i.pc # "idle" /\ i.pc # "issued" /\ Successful(r)
  BY DEF Audit, Successful, At
<1>2. i.new \in Held /\ i \in RotRecords /\ rot \in [Rotators -> RotRecords] /\ Placed(r)
      /\ Replaced(r) /\ (with # "ssh" => i.step <= Len(adapter.proof) /\ Api \in Places)
  BY <1>1, CommandFacts DEF Stored
<1>3. /\ UNCHANGED <<with, deleteOld, issued, schedule, works, item, kept, told, stray>>
      /\ Held' = Held /\ Places' = Places /\ adapter' = adapter /\ EndsOld' = EndsOld
  BY SameWhereabouts DEF Audit, schedule, provider, Held, EndsOld
<1>4. /\ CallDone(r) /\ Anchored' /\ kept' \subseteq 0..issued
      /\ item' \in [cur : 0..issued, saved : SUBSET (0..issued)]
  BY <1>1, <1>3, NoCall, NoCallAnchored, CommandFacts
<1>5. CASE rot' = [rot EXCEPT ![r].pc = pc, ![r].ok = TRUE]
  <2> DEFINE j == [i EXCEPT !.pc = pc, !.ok = TRUE]
  <2>1. pc \in StagesOf \ {"idle"} /\ pc \notin Unstored /\ pc \in {"retire", "ended"}
    BY DEF StagesOf, Unstored
  <2>2. rot' = [rot EXCEPT ![r] = j]
    BY <1>5
  <2>3. j \in RotRecords
    BY <1>2, <2>1 DEF RotRecords
  <2>4. rot' \in [Rotators -> RotRecords] /\ rot'[r] = j /\ \A q \in Rotators \ {r} : rot'[q] = rot[q]
    BY <1>2, <2>2, <2>3
  <2>5. Moves(r, pc) /\ rot'[r].reached = i.reached
    BY <1>2, <1>3, <2>1, <2>3, <2>4 DEF Moves, RotRecords
  <2>6. Placed(r)'
    BY <1>3, <2>1, <2>5 DEF Placed, Moves
  <2>7. with # "ssh" => pc = "ended"
    OBVIOUS
  <2>8. with = "ssh" => pc = "retire" /\ i.reached = Places /\ adapter.opening # "roll"
    BY <1>1, <1>2, CommandFacts, PlanFacts DEF Placed
  <2> HIDE DEF pc, j
  <2>9. Replaced(r)'
    BY <1>1, <1>2, <1>3, <2>1, <2>5, <2>7, <2>8 DEF Replaced, Moves, Successful, At
  <2>10. NeverLockedOut'
    BY <1>1, <1>3, <2>4, NoCallLocks
  <2> QED BY <1>1, <1>2, <1>3, <1>4, <2>1, <2>5, <2>6, <2>9, <2>10, StepKeeps
<1>6. CASE Fail(r)
  <2>1. NeverLockedOut'
    BY <1>1, <1>3, <1>6, FailMoves, NoCallLocks DEF Moves
  <2> QED BY <1>1, <1>2, <1>3, <1>4, <1>6, <2>1, FailKeeps
<1> QED BY <1>5, <1>6 DEF Audit
\* Whoever can sign in everywhere with the highest secret held is locked out of
\* nothing.
LEMMA SshOpen ==
  ASSUME (with = "ssh")', Anchored'
  PROVE  NeverLockedOut'
BY DEF Anchored, NeverLockedOut

LEMMA AddKeeps ==
  ASSUME RotInv, NEW r \in Rotators, NEW p \in Places, NEW answer \in Answers,
         NEW logsIn \in BOOLEAN, add_everywhere(r, p, answer, logsIn)
  PROVE  RotInv'
<1> DEFINE i == rot[r]
           after == works[p] \cup {i.new}
           reached == IF answer = "ok" THEN i.reached \cup {p} ELSE i.reached
           pc == IF answer # "ok" \/ ~logsIn THEN (IF reached # {} THEN "drop" ELSE "ended")
                 ELSE IF reached = Places THEN "key" ELSE "add"
           j == [i EXCEPT !.reached = reached, !.pc = pc]
<1>1. i.pc = "add" /\ i.pc # "idle" /\ p \notin i.reached /\ call(p, i.old, after, answer)
  BY DEF add_everywhere, At
<1>2. with = "ssh" /\ adapter.opening # "roll"
  BY <1>1, CommandFacts, PlanFacts DEF StagesOf
<1>3. /\ i \in RotRecords /\ rot \in [Rotators -> RotRecords] /\ i.new \notin Held
      /\ i.old \in 0..issued /\ i.new \in 0..issued /\ i.reached \subseteq Places
      /\ \A d \in Places : d \in i.reached <=> i.new \in works[d]
  BY <1>1, CommandFacts DEF Unstored, Placed
<1>4. i.ok = FALSE
  BY <1>1, <1>3 DEF RotInv, Numbered, RotRecords
<1>5. /\ UNCHANGED <<with, deleteOld, issued, schedule, item, kept, told>>
      /\ Held' = Held /\ Places' = Places /\ adapter' = adapter
  BY SameWhereabouts DEF add_everywhere, schedule, Held
<1>6. kept' \subseteq 0..issued /\ item' \in [cur : 0..issued, saved : SUBSET (0..issued)]
  BY <1>1, <1>5, CommandFacts
<1>7. /\ CallDone(r) /\ \A d \in Places \ {p} : works'[d] = works[d]
      /\ works'[p] = works[p] \/ works'[p] = after
      /\ answer = "ok" => works'[p] = after
      /\ answer = "no" => works'[p] = works[p]
  <2>1. PlaceActs(r, works[p], after)
    BY <1>3 DEF PlaceActs
  <2> HIDE DEF after
  <2> QED BY <1>1, <2>1, CallActs
<1>8. \A d \in Places : works[d] \subseteq works'[d]
  BY <1>7
<1>9. Anchored' /\ NeverLockedOut'
  <2>1. Anchored'
    BY <1>2, <1>5, <1>8 DEF Anchored, RotInv
  <2> QED BY <1>2, <1>5, <2>1, SshOpen
<1>10. /\ pc \in StagesOf \ {"idle"} /\ pc \notin Stored /\ reached \subseteq Places
       /\ pc \in {"drop", "ended", "key", "add"}
  BY <1>2, <1>3 DEF StagesOf, Stored
<1>11. stray' = (IF answer = "lost" THEN stray \cup {i.new} ELSE stray)
  BY DEF add_everywhere
\* Where the new key is known to be, and where it may be.
<1>12. /\ \A d \in Places : d \in reached => i.new \in works'[d]
       /\ \A d \in Places \ reached : i.new \in works'[d] => i.new \in stray'
       /\ pc \in {"add", "key"} => answer = "ok"
       /\ pc = "key" => reached = Places
       /\ pc = "ended" => reached = {}
  BY <1>3, <1>7, <1>11 DEF Answers
<1>13. answer = "ok" => \A d \in Places \ reached : i.new \notin works'[d]
  BY <1>3, <1>7
<1>14. rot' = [rot EXCEPT ![r] = j]
  BY DEF add_everywhere
<1> HIDE DEF pc, reached, after
<1>15. j \in RotRecords
  BY <1>3, <1>10 DEF RotRecords
<1>16. rot' \in [Rotators -> RotRecords] /\ rot'[r] = j /\ \A q \in Rotators \ {r} : rot'[q] = rot[q]
  BY <1>3, <1>14, <1>15
<1>17. Moves(r, pc) /\ rot'[r].reached = reached /\ rot'[r].ok = FALSE
  BY <1>2, <1>3, <1>4, <1>15, <1>16 DEF Moves, RotRecords
<1>18. Placed(r)' /\ ~Successful(r)'
  BY <1>2, <1>5, <1>10, <1>12, <1>13, <1>17 DEF Placed, Moves, Successful, At
<1>19. Replaced(r)'
  BY <1>2, <1>5, <1>17, <1>18 DEF Replaced, Moves, At
<1>20. pc = "ended" => \A d \in Places : i.new \in works'[d] => i.new \in Held' \cup told' \cup stray'
  BY <1>12
<1> QED BY <1>1, <1>3, <1>5, <1>6, <1>7, <1>9, <1>10, <1>11, <1>17, <1>18, <1>19, <1>20, StepKeeps

\* One key deleted at a place.
LEMMA RemoveActs ==
  ASSUME RotInv, NEW r \in Rotators, rot[r].pc # "idle", NEW p \in Places, NEW answer,
         NEW key \in {rot[r].old, rot[r].new}, NEW signer, remove(p, signer, key, answer)
  PROVE  /\ CallDone(r) /\ \A d \in Places \ {p} : works'[d] = works[d]
         /\ works'[p] = works[p] \/ works'[p] = works[p] \ {key}
         /\ answer = "ok" => works'[p] = works[p] \ {key}
<1> DEFINE after == works[p] \ {key}
<1>1. PlaceActs(r, works[p], after)
  BY DEF PlaceActs
<1>2. call(p, signer, after, answer) \/ call(p, key, after, answer)
  BY DEF remove
<1> HIDE DEF after
<1>3. /\ CallDone(r) /\ \A d \in Places \ {p} : works'[d] = works[d]
      /\ works'[p] = works[p] \/ works'[p] = after
      /\ answer = "ok" => works'[p] = after
  BY <1>1, <1>2, CallActs
<1> QED BY <1>3 DEF after

LEMMA DropKeeps ==
  ASSUME RotInv, NEW r \in Rotators, NEW p \in Places, NEW answer \in Answers, take_back(r, p, answer)
  PROVE  RotInv'
<1> DEFINE i == rot[r]
           reached == i.reached \ {p}
           pc == IF i.reached = {p} THEN "ended" ELSE "drop"
           j == [i EXCEPT !.reached = reached, !.pc = pc]
<1>1. i.pc = "drop" /\ i.pc # "idle" /\ p \in i.reached /\ remove(p, i.old, i.new, answer)
  BY DEF take_back, At
<1>2. with = "ssh" /\ adapter.opening # "roll"
  BY <1>1, CommandFacts, PlanFacts DEF StagesOf
<1>3. /\ i \in RotRecords /\ rot \in [Rotators -> RotRecords] /\ i.new \notin Held
      /\ i.reached \subseteq Places
      /\ \A d \in Places \ i.reached : i.new \in works[d] => i.new \in told \cup stray
  BY <1>1, CommandFacts DEF Unstored, Placed
<1>4. i.ok = FALSE
  BY <1>1, <1>3 DEF RotInv, Numbered, RotRecords
<1>5. /\ UNCHANGED <<with, deleteOld, issued, schedule, item, kept, stray>>
      /\ Held' = Held /\ Places' = Places /\ adapter' = adapter
  BY SameWhereabouts DEF take_back, schedule, Held
<1>6. kept' \subseteq 0..issued /\ item' \in [cur : 0..issued, saved : SUBSET (0..issued)]
  BY <1>1, <1>5, CommandFacts
<1>7. /\ CallDone(r) /\ \A d \in Places \ {p} : works'[d] = works[d]
      /\ works'[p] = works[p] \/ works'[p] = works[p] \ {i.new}
      /\ answer = "ok" => works'[p] = works[p] \ {i.new}
  BY <1>1, RemoveActs
<1>8. Anchored' /\ NeverLockedOut'
  <2>1. Anchored'
    BY <1>2, <1>3, <1>5, <1>7 DEF Anchored, RotInv
  <2> QED BY <1>2, <1>5, <2>1, SshOpen
<1>9. /\ pc \in StagesOf \ {"idle"} /\ pc \notin Stored /\ pc \in {"drop", "ended"}
      /\ pc = "ended" => reached = {}
  BY <1>2 DEF StagesOf, Stored
<1>10. told' = (IF answer = "ok" THEN told ELSE told \cup {i.new})
  BY DEF take_back
<1>11. \A d \in Places \ reached : i.new \in works'[d] => i.new \in told' \cup stray'
  BY <1>3, <1>5, <1>7, <1>10
<1>12. rot' = [rot EXCEPT ![r] = j]
  BY DEF take_back
<1> HIDE DEF pc, reached
<1>13. j \in RotRecords
  BY <1>3, <1>9 DEF RotRecords, reached
<1>14. rot' \in [Rotators -> RotRecords] /\ rot'[r] = j /\ \A q \in Rotators \ {r} : rot'[q] = rot[q]
  BY <1>3, <1>12, <1>13
<1>15. Moves(r, pc) /\ rot'[r].reached = reached /\ rot'[r].ok = FALSE
  BY <1>2, <1>3, <1>4, <1>13, <1>14 DEF Moves, RotRecords
<1>16. Placed(r)' /\ ~Successful(r)'
  BY <1>2, <1>5, <1>9, <1>11, <1>15 DEF Placed, Moves, Successful, At
<1>17. Replaced(r)'
  BY <1>2, <1>5, <1>15, <1>16 DEF Replaced, Moves, At
<1>18. pc = "ended" => \A d \in Places : i.new \in works'[d] => i.new \in Held' \cup told' \cup stray'
  BY <1>9, <1>11
<1> QED BY <1>1, <1>3, <1>5, <1>6, <1>7, <1>8, <1>9, <1>10, <1>15, <1>16, <1>17, <1>18, StepKeeps

LEMMA SshStoreKeeps ==
  ASSUME RotInv, NEW r \in Rotators, SshStore(r)
  PROVE  RotInv'
<1> DEFINE i == rot[r]
<1>1. i.pc = "key" /\ i.pc \notin {"idle", "retire", "ended", "issued"}
  BY DEF SshStore, At
<1>2. with = "ssh" /\ adapter.opening # "roll"
  BY <1>1, CommandFacts, PlanFacts DEF StagesOf
<1>3. /\ i.new \notin Held /\ i.new \in 0..issued /\ i.reached = Places
      /\ \A d \in Places : i.new \in works[d]
  BY <1>1, <1>2, CommandFacts DEF Unstored, Placed
<1>4. /\ UNCHANGED <<with, deleteOld, issued, schedule, works, kept, told>>
      /\ Places' = Places /\ adapter' = adapter
  BY SameWhereabouts DEF SshStore, schedule
<1>5. CallDone(r) /\ kept' \subseteq 0..issued /\ Held \subseteq 0..issued /\ issued \in Nat
  BY <1>1, <1>4, NoCall, CommandFacts DEF Held
<1>6. CASE fields(i.new) /\ Goto(r, "audit") /\ UNCHANGED stray
  <2>1. item' \in [cur : 0..issued, saved : SUBSET (0..issued)] /\ Held' = Held \cup {i.new}
    BY <1>3, <1>4, <1>6, FieldsHold
  <2>2. "audit" \in StagesOf \ {"idle"} /\ "audit" \notin Unstored
    BY <1>2 DEF StagesOf, Unstored
  <2>3. Moves(r, "audit") /\ rot'[r].reached = i.reached
    BY <1>1, <1>6, <2>2, GotoMoves
  <2>4. Anchored'
    <3>1. PICK m \in Held : (\A h \in Held : h <= m) /\ \A d \in Places : m \in works[d]
      BY <1>2 DEF RotInv, Anchored
    <3>2. PICK n \in {m, i.new} : m <= n /\ i.new <= n
      BY <1>3, <1>5
    <3>3. n \in Held' /\ (\A h \in Held' : h <= n) /\ \A d \in Places : n \in works[d]
      BY <1>3, <1>5, <2>1, <3>1, <3>2
    <3> QED BY <1>2, <1>4, <3>3 DEF Anchored
  <2>5. NeverLockedOut'
    BY <1>2, <1>4, <2>4, SshOpen
  <2>6. Placed(r)' /\ Replaced(r)'
    BY <1>2, <1>3, <1>4, <2>3 DEF Placed, Replaced, Moves
  <2> QED BY <1>1, <1>3, <1>4, <1>5, <1>6, <2>1, <2>2, <2>3, <2>4, <2>5, <2>6, StepKeeps
<1>7. CASE UNCHANGED item /\ Fail(r) /\ stray' = stray \cup {i.new}
  <2>1. item' \in [cur : 0..issued, saved : SUBSET (0..issued)] /\ Held' = Held
    BY <1>1, <1>4, <1>7, CommandFacts DEF Held
  <2>2. Anchored' /\ NeverLockedOut'
    BY <1>2, <1>4, <2>1, NoCallAnchored, SshOpen
  <2> QED BY <1>1, <1>4, <1>5, <1>7, <2>1, <2>2, FailKeeps
<1> QED BY <1>6, <1>7 DEF SshStore

LEMMA RetireKeeps ==
  ASSUME RotInv, NEW r \in Rotators, NEW p \in Places, NEW answer \in Answers,
         retire_everywhere(r, p, answer)
  PROVE  RotInv'
<1> DEFINE i == rot[r]
           reached == i.reached \ {p}
           ok == i.ok /\ answer = "ok"
           pc == IF i.reached = {p} THEN "ended" ELSE "retire"
           j == [i EXCEPT !.reached = reached, !.ok = ok, !.pc = pc]
<1>1. i.pc = "retire" /\ i.pc # "idle" /\ p \in i.reached /\ remove(p, i.new, i.old, answer)
  BY DEF retire_everywhere, At
<1>2. with = "ssh" /\ adapter.opening # "roll"
  BY <1>1, CommandFacts, PlanFacts DEF StagesOf
<1>3. /\ i \in RotRecords /\ rot \in [Rotators -> RotRecords] /\ i.new \in Held /\ i.old < i.new
      /\ i.reached \subseteq Places /\ i.old \in Nat /\ i.new \in Nat
      /\ i.ok => \A d \in Places : d \notin i.reached => i.old \notin works[d]
  BY <1>1, <1>2, CommandFacts DEF Stored, Replaced
<1>4. /\ UNCHANGED <<with, deleteOld, issued, schedule, item, kept, told, stray>>
      /\ Held' = Held /\ Places' = Places /\ adapter' = adapter
  BY SameWhereabouts DEF retire_everywhere, schedule, Held
<1>5. /\ kept' \subseteq 0..issued /\ item' \in [cur : 0..issued, saved : SUBSET (0..issued)]
      /\ Held \subseteq 0..issued /\ issued \in Nat
  BY <1>1, <1>4, CommandFacts DEF Held
<1>6. /\ CallDone(r) /\ \A d \in Places \ {p} : works'[d] = works[d]
      /\ works'[p] = works[p] \/ works'[p] = works[p] \ {i.old}
      /\ answer = "ok" => works'[p] = works[p] \ {i.old}
  BY <1>1, RemoveActs
\* The highest secret held is not the old one.
<1>7. Anchored' /\ NeverLockedOut'
  <2>1. PICK m \in Held : (\A h \in Held : h <= m) /\ \A d \in Places : m \in works[d]
    BY <1>2 DEF RotInv, Anchored
  <2>2. m # i.old
    BY <1>3, <1>5, <2>1
  <2>3. \A d \in Places : m \in works'[d]
    BY <1>6, <2>1, <2>2
  <2>4. Anchored'
    BY <1>2, <1>4, <2>1, <2>3 DEF Anchored
  <2> QED BY <1>2, <1>4, <2>4, SshOpen
<1>8. /\ pc \in StagesOf \ {"idle"} /\ pc \notin Unstored /\ pc \in {"retire", "ended"}
      /\ pc = "ended" => reached = {}
  BY <1>2 DEF StagesOf, Unstored
<1>9. ok => \A d \in Places : d \notin reached => i.old \notin works'[d]
  BY <1>3, <1>6
<1>10. rot' = [rot EXCEPT ![r] = j]
  BY DEF retire_everywhere
<1>11. ok \in BOOLEAN
  BY <1>3 DEF RotRecords
<1> HIDE DEF pc, reached, ok
<1>12. j \in RotRecords
  BY <1>3, <1>8, <1>11 DEF RotRecords, reached
<1>13. rot' \in [Rotators -> RotRecords] /\ rot'[r] = j /\ \A q \in Rotators \ {r} : rot'[q] = rot[q]
  BY <1>3, <1>10, <1>12
<1>14. Moves(r, pc) /\ rot'[r].reached = reached /\ (rot'[r].ok <=> ok)
  BY <1>2, <1>3, <1>8, <1>12, <1>13 DEF Moves, RotRecords
<1>15. Placed(r)'
  BY <1>2, <1>4, <1>8, <1>14 DEF Placed, Moves
<1>16. Replaced(r)'
  BY <1>2, <1>4, <1>8, <1>9, <1>14 DEF Replaced, Moves
<1>17. pc = "ended" => \A d \in Places : i.new \in works'[d] => i.new \in Held' \cup told' \cup stray'
  BY <1>3, <1>4
<1> QED BY <1>1, <1>3, <1>4, <1>5, <1>6, <1>7, <1>8, <1>14, <1>15, <1>16, <1>17, StepKeeps-----------------------------------------------------------------------------
(* Commands that begin, answer and die, and the policy.                    *)

\* A command other than r is where it was when the places, what is held and its
\* record are.
LEMMA OthersStay ==
  ASSUME RotInv, NEW q \in Rotators, rot'[q] = rot[q],
         UNCHANGED <<with, deleteOld, works, item, kept>>, told \subseteq told', stray \subseteq stray',
         issued <= issued', issued' \in Nat, rot[q].new = issued' => issued' = issued
  PROVE  (Numbered(q) /\ Placed(q) /\ Replaced(q))'
<1>1. Places' = Places /\ adapter' = adapter /\ EndsOld' = EndsOld /\ Held' = Held
  BY SameWhereabouts DEF EndsOld, Held
<1>2. /\ Numbered(q) /\ Placed(q) /\ Replaced(q) /\ issued \in Nat
      /\ rot[q].new \in Nat
  BY RotationAssumption DEF RotInv, RotTypes, RotRecords
<1>3. Numbered(q)'
  BY <1>1, <1>2 DEF Numbered, Successful, At
<1>4. Placed(q)'
  BY <1>1, <1>2 DEF Placed
<1>5. Replaced(q)'
  BY <1>1, <1>2 DEF Replaced, Successful, At
<1> QED BY <1>3, <1>4, <1>5

LEMMA BeginKeeps ==
  ASSUME RotInv, NEW r \in Rotators, NEW by \in {"hand", "pass", "now"}, Begin(r, by)
  PROVE  RotInv'
<1> DEFINE pc == IF adapter.opening \in {"store", "add"} THEN adapter.opening ELSE "open"
           b == IF by = "now" THEN "pass" ELSE by
           j == [NONE EXCEPT !.by = b, !.at = clock, !.old = item.cur, !.new = issued + 1, !.pc = pc]
<1>1. rot[r].pc = "idle" /\ issued < MaxValue /\ issued' = issued + 1
  BY DEF Begin, At
<1>2. /\ UNCHANGED <<with, deleteOld, works, item, kept, told, stray, policy, clock>>
      /\ Places' = Places /\ adapter' = adapter /\ StagesOf' = StagesOf /\ Held' = Held
      /\ RotRecords' = RotRecords
  BY SameWhereabouts DEF Begin, provider, schedule, Held, RotRecords
<1>3. /\ with \in Adapters /\ issued \in 0..MaxValue /\ MaxValue \in Nat /\ clock \in 0..MaxTime
      /\ works \in [Places -> SUBSET (0..issued)]
      /\ item \in [cur : 0..issued, saved : SUBSET (0..issued)]
      /\ kept \subseteq 0..issued /\ told \subseteq 0..issued /\ stray \subseteq 0..issued
      /\ rot \in [Rotators -> RotRecords] /\ MaxTime \in Nat /\ issued \in Nat
      /\ policy.failed \in Nat
      /\ with # "ssh" => \A q \in Rotators : rot[q].step <= Len(adapter.proof)
  BY RotationAssumption DEF RotInv, RotTypes, PolicyRecords
<1>4. pc \in StagesOf \ {"idle"} /\ pc \in {"store", "add", "open"} /\ (pc = "add" <=> with = "ssh")
      /\ (with # "ssh" => 1 <= Len(adapter.proof))
  <2>1. CASE with = "ssh"
    BY <1>3, <2>1, PlanFacts DEF StagesOf
  <2>2. CASE with = "database"
    <3>1. adapter.opening = "store" /\ adapter.proof = <<"alter", "sign_in">>
      BY <1>3, <2>2, PlanFacts
    <3>2. 1 <= Len(adapter.proof)
      BY <3>1
    <3> QED BY <2>2, <3>1, <3>2 DEF StagesOf
  <2>3. CASE with \notin {"ssh", "database"}
    <3>1. /\ adapter.opening \in {"make", "listed", "roll"}
          /\ adapter.proof \in {<<"end">>, <<"sign_in">>, <<"sign_in", "end">>}
      BY <1>3, <2>3, PlanFacts
    <3>2. 1 <= Len(adapter.proof)
      BY <3>1
    <3> QED BY <2>3, <3>1, <3>2 DEF StagesOf
  <2> QED BY <2>1, <2>2, <2>3
<1>5. Held \subseteq 0..issued /\ item.cur \in Held
  BY <1>3 DEF Held
<1>6. rot' = [rot EXCEPT ![r] = j]
  BY DEF Begin
<1>7. b \in {"hand", "pass"}
  OBVIOUS
<1> HIDE DEF pc, b
<1>8. j \in RotRecords
  <2>1. /\ item.cur \in 0..MaxValue /\ issued + 1 \in 0..MaxValue /\ pc \in StagesOf
        /\ clock \in 0..MaxTime
    BY <1>1, <1>3, <1>4
  <2>2. NONE \in RotRecords
    BY <1>3 DEF RotRecords, NONE, StagesOf
  <2> QED BY <1>7, <2>1, <2>2 DEF RotRecords
<1>9. /\ rot' \in [Rotators -> RotRecords] /\ rot'[r] = j
      /\ \A q \in Rotators \ {r} : rot'[q] = rot[q]
  BY <1>3, <1>6, <1>8
<1>10. /\ j.pc = pc /\ j.old = item.cur /\ j.new = issued + 1 /\ j.step = 1 /\ j.ok = FALSE
       /\ j.reached = {}
  BY DEF NONE
<1> HIDE DEF j
<1>11. RotTypes'
  <2>1. 0..issued \subseteq 0..issued' /\ issued' \in 0..MaxValue
    BY <1>1, <1>3
  <2>2. works' \in [Places -> SUBSET (0..issued')]
    BY <1>2, <1>3, <2>1
  <2>3. item' \in [cur : 0..issued', saved : SUBSET (0..issued')]
    BY <1>2, <1>3, <2>1
  <2>4. with # "ssh" => \A q \in Rotators : rot'[q].step <= Len(adapter.proof)
    BY <1>3, <1>4, <1>9, <1>10
  <2>5. /\ with' \in Adapters /\ deleteOld' \in BOOLEAN /\ (deleteOld' => adapter'.late # "none")
        /\ clock' \in 0..MaxTime
        /\ policy' \in PolicyRecords
    BY <1>2 DEF RotInv, RotTypes
  <2> QED BY <1>2, <1>3, <1>9, <2>1, <2>2, <2>3, <2>4, <2>5 DEF RotTypes
<1>12. Running' = Running \cup {r} /\ r \notin Running /\ IsFiniteSet(Running)
  <2>1. Running' = Running \cup {r} /\ r \notin Running
    BY <1>1, <1>4, <1>9, <1>10 DEF Running
  <2>2. IsFiniteSet(Running)
    BY RotationAssumption, FS_Subset DEF Running
  <2> QED BY <2>1, <2>2
<1>13. FailuresCounted'
  <2>1. Cardinality(Running') = Cardinality(Running) + 1 /\ Cardinality(Running) \in Nat
    BY <1>12, FS_AddElement, FS_CardinalityType
  <2> QED BY <1>1, <1>2, <1>3, <2>1 DEF RotInv, FailuresCounted
<1>14. \A q \in Running : rot[q].new <= issued /\ rot[q].new \in Nat
  BY <1>3 DEF RotInv, Numbered, Running, RotRecords
<1>15. \A p, q \in Running' : rot'[q].new = rot'[p].new => q = p
  <2> SUFFICES ASSUME NEW p \in Running', NEW q \in Running', rot'[q].new = rot'[p].new
               PROVE  q = p
    OBVIOUS
  <2>1. \A s \in Running : s # r /\ rot'[s].new = rot[s].new /\ rot[s].new # issued + 1
    BY <1>3, <1>9, <1>12, <1>14 DEF Running
  <2>2. rot'[r].new = issued + 1
    BY <1>9, <1>10
  <2>3. (p \in Running \/ p = r) /\ (q \in Running \/ q = r)
    BY <1>12
  <2> QED BY <2>1, <2>2, <2>3 DEF RotInv
<1>16. ASSUME NEW q \in Rotators
       PROVE  (Numbered(q) /\ Placed(q) /\ Replaced(q))'
  <2>1. CASE q # r /\ rot[q].pc # "idle"
    <3>1. rot'[q] = rot[q] /\ rot[q].new # issued'
      BY <1>1, <1>3, <1>9, <1>14, <2>1 DEF Running
    <3> QED BY <1>1, <1>2, <1>3, <3>1, OthersStay
  <2>2. CASE q # r /\ rot[q].pc = "idle"
    <3>1. rot'[q].pc = "idle" /\ rot'[q].old = 0 /\ rot'[q].new = 0
      BY <1>9, <2>2 DEF RotInv, Numbered
    <3> QED BY <3>1 DEF Numbered, Placed, Replaced, Successful, At
  <2>3. CASE q = r
    <3>1. /\ rot'[q].pc = pc /\ rot'[q].old = item.cur /\ rot'[q].new = issued + 1
          /\ rot'[q].ok = FALSE /\ rot'[q].reached = {}
      BY <1>9, <1>10, <2>3
    <3>2. Numbered(q)'
      BY <1>1, <1>2, <1>3, <1>4, <1>5, <3>1 DEF Numbered, Successful, At, Stored
    <3>3. \A p \in Places : issued + 1 \notin works[p]
      BY <1>3
    <3>4. with # "ssh" => Api \in Places
      BY ApiPlace
    <3>5. Placed(q)'
      BY <1>2, <1>4, <3>1, <3>3, <3>4 DEF Placed
    <3>6. Replaced(q)'
      BY <1>2, <1>4, <3>1 DEF Replaced, Successful, At
    <3> QED BY <3>2, <3>5, <3>6
  <2> QED BY <2>1, <2>2, <2>3
<1>17. Anchored'
  <2>1. 0..issued \subseteq 0..issued'
    BY <1>1, <1>3
  <2> QED BY <1>2, <2>1 DEF RotInv, Anchored
<1>18. NeverLockedOut'
  BY <1>1, <1>2, <1>9 DEF RotInv, NeverLockedOut, At
<1>19. EveryKeyAccounted'
  BY <1>1, <1>2, <1>9 DEF RotInv, EveryKeyAccounted
<1> QED BY <1>11, <1>13, <1>15, <1>16, <1>17, <1>18, <1>19 DEF RotInv

\* A command that is over: r is idle, and the failure it may be counted as is
\* one of those that began.
LEMMA OverKeeps ==
  ASSUME RotInv, NEW r \in Rotators, rot[r].pc # "idle", rot' = [rot EXCEPT ![r] = NONE],
         UNCHANGED <<with, deleteOld, works, item, kept, told, issued, clock>>,
         stray' = stray \cup (IF rot[r].pc = "ended" THEN {} ELSE {rot[r].new} \ Held),
         policy' \in PolicyRecords,
         policy'.failed <= policy.failed + 1
  PROVE  RotInv'
<1>1. /\ Places' = Places /\ adapter' = adapter /\ StagesOf' = StagesOf /\ Held' = Held
      /\ RotRecords' = RotRecords
  BY SameWhereabouts DEF Held, RotRecords
<1>2. /\ with \in Adapters /\ deleteOld \in BOOLEAN /\ (deleteOld => adapter.late # "none")
      /\ issued \in 0..MaxValue /\ clock \in 0..MaxTime /\ issued \in Nat /\ policy.failed \in Nat
      /\ works \in [Places -> SUBSET (0..issued)]
      /\ item \in [cur : 0..issued, saved : SUBSET (0..issued)]
      /\ kept \subseteq 0..issued /\ told \subseteq 0..issued /\ stray \subseteq 0..issued
      /\ rot \in [Rotators -> RotRecords] /\ MaxTime \in Nat /\ MaxValue \in Nat
      /\ with # "ssh" => \A q \in Rotators : rot[q].step <= Len(adapter.proof)
  BY RotationAssumption DEF RotInv, RotTypes, PolicyRecords
<1>3. NONE \in RotRecords /\ (with # "ssh" => 1 <= Len(adapter.proof))
  BY <1>2, PlanFacts DEF RotRecords, NONE, StagesOf, PolicyRecords
<1>4. /\ rot' \in [Rotators -> RotRecords] /\ rot'[r] = NONE
      /\ \A q \in Rotators \ {r} : rot'[q] = rot[q]
  BY <1>2, <1>3
<1>5. NONE.pc = "idle" /\ NONE.step = 1 /\ NONE.old = 0 /\ NONE.new = 0
  BY DEF NONE
<1>6. rot[r].new \in 0..issued
  BY CommandFacts
<1>7. RotTypes'
  <2>1. \A q \in Rotators : with # "ssh" => rot'[q].step <= Len(adapter.proof)
    BY <1>2, <1>3, <1>4, <1>5
  <2>2. stray' \subseteq 0..issued
    BY <1>2, <1>6
  <2> QED BY <1>1, <1>2, <1>4, <2>1, <2>2 DEF RotTypes
<1>8. Running' = Running \ {r} /\ r \in Running /\ IsFiniteSet(Running)
  <2>1. Running' = Running \ {r} /\ r \in Running
    BY <1>4, <1>5 DEF Running
  <2>2. IsFiniteSet(Running)
    BY RotationAssumption, FS_Subset DEF Running
  <2> QED BY <2>1, <2>2
<1>9. FailuresCounted'
  <2>1. Cardinality(Running') = Cardinality(Running) - 1 /\ Cardinality(Running) \in Nat
    BY <1>8, FS_RemoveElement, FS_CardinalityType
  <2> QED BY <1>2, <2>1 DEF RotInv, FailuresCounted, PolicyRecords
<1>10. \A p, q \in Running' : rot'[q].new = rot'[p].new => q = p
  BY <1>4, <1>8 DEF RotInv, Running
<1>11. ASSUME NEW q \in Rotators
       PROVE  (Numbered(q) /\ Placed(q) /\ Replaced(q))'
  <2>1. CASE q # r
    BY <1>2, <1>4, <2>1, OthersStay
  <2>2. CASE q = r
    <3>1. rot'[q].pc = "idle" /\ rot'[q].old = 0 /\ rot'[q].new = 0
      BY <1>4, <1>5, <2>2
    <3> QED BY <3>1 DEF Numbered, Placed, Replaced, Successful, At
  <2> QED BY <2>1, <2>2
<1>12. Anchored'
  BY <1>1 DEF RotInv, Anchored
\* A rolled secret whose command dies is stray.
<1>13. NeverLockedOut'
  <2>1. rot[r].pc = "issued" => stray' # {}
    BY CommandFacts DEF Unstored
  <2> QED BY <1>1, <1>4, <2>1 DEF RotInv, NeverLockedOut, At
<1>14. EveryKeyAccounted'
  <2> SUFFICES ASSUME NEW p \in Places, NEW x \in works[p]
               PROVE  \/ x \in Held \cup told \cup stray'
                      \/ \E q \in Rotators : rot'[q].pc \notin {"idle", "ended"} /\ x = rot'[q].new
    BY <1>1 DEF EveryKeyAccounted
  <2>1. \/ x \in Held \cup told \cup stray
        \/ \E q \in Rotators : rot[q].pc \notin {"idle", "ended"} /\ x = rot[q].new
    BY DEF RotInv, EveryKeyAccounted
  <2>2. CASE rot[r].pc # "ended" /\ x = rot[r].new
    BY <2>2
  <2> QED BY <1>4, <2>1, <2>2
<1> QED BY <1>7, <1>9, <1>10, <1>11, <1>12, <1>13, <1>14 DEF RotInv

\* The policy and the clock are of no command.
LEMMA ScheduleKeeps ==
  ASSUME RotInv, UNCHANGED <<with, deleteOld, item, provider, rot, issued>>,
         clock' \in 0..MaxTime,
         policy' \in PolicyRecords,
         policy'.failed <= policy.failed
  PROVE  RotInv'
<1>1. /\ Places' = Places /\ adapter' = adapter /\ StagesOf' = StagesOf /\ Held' = Held
      /\ RotRecords' = RotRecords /\ Running' = Running
      /\ UNCHANGED <<works, kept, told, stray>>
  BY SameWhereabouts DEF Held, RotRecords, Running, provider
<1>2. RotTypes'
  BY <1>1 DEF RotInv, RotTypes
<1>3. FailuresCounted'
  <2>1. Cardinality(Running) \in Nat
    BY RotationAssumption, FS_Subset, FS_CardinalityType DEF Running
  <2> QED BY <1>1, <2>1, RotationAssumption DEF RotInv, FailuresCounted, RotTypes, PolicyRecords
<1>4. \A q \in Rotators : (Numbered(q) /\ Placed(q) /\ Replaced(q))'
  BY <1>1, OthersStay, RotationAssumption DEF RotInv, RotTypes
<1>5. Anchored' /\ NeverLockedOut' /\ EveryKeyAccounted'
  BY <1>1 DEF RotInv, Anchored, NeverLockedOut, EveryKeyAccounted, At
<1>6. \A p, q \in Running' : rot'[q].new = rot'[p].new => q = p
  BY <1>1 DEF RotInv
<1> QED BY <1>2, <1>3, <1>4, <1>5, <1>6 DEF RotInv
-----------------------------------------------------------------------------
(* The theorems.                                                           *)

\* The writes of a policy.
LEMMA PolicyWrites ==
  ASSUME NEW p \in PolicyRecords, NEW q
  PROVE  /\ (\E e \in Intervals : q = [p EXCEPT !.every = e])
              => q \in PolicyRecords /\ q.failed = p.failed
         /\ (\E d \in BOOLEAN : q = [p EXCEPT !.due_reason = d])
              => q \in PolicyRecords /\ q.failed = p.failed
         /\ q = [p EXCEPT !.failed = @ + 1] => q \in PolicyRecords /\ q.failed = p.failed + 1
         /\ MaxTime \in Nat /\ (\E a \in 0..MaxTime :
                q = [p EXCEPT !.anchor = a, !.due_reason = FALSE, !.failed = 0])
              => q \in PolicyRecords /\ q.failed = 0
         /\ MaxTime \in Nat /\ q = [p EXCEPT !.set = FALSE, !.anchor = 0, !.due_reason = FALSE, !.failed = 0]
              => q \in PolicyRecords /\ q.failed = 0
         /\ p.failed \in Nat
<1>1. ASSUME NEW e \in Intervals, q = [p EXCEPT !.every = e]
      PROVE  q \in PolicyRecords /\ q.failed = p.failed
  BY <1>1 DEF PolicyRecords
<1>2. ASSUME NEW d \in BOOLEAN, q = [p EXCEPT !.due_reason = d]
      PROVE  q \in PolicyRecords /\ q.failed = p.failed
  BY <1>2 DEF PolicyRecords
<1>3. ASSUME q = [p EXCEPT !.failed = @ + 1]
      PROVE  q \in PolicyRecords /\ q.failed = p.failed + 1
  BY <1>3 DEF PolicyRecords
<1>4. ASSUME NEW a \in 0..MaxTime, q = [p EXCEPT !.anchor = a, !.due_reason = FALSE, !.failed = 0]
      PROVE  q \in PolicyRecords /\ q.failed = 0
  BY <1>4 DEF PolicyRecords
<1>5. ASSUME MaxTime \in Nat, q = [p EXCEPT !.set = FALSE, !.anchor = 0, !.due_reason = FALSE, !.failed = 0]
      PROVE  q \in PolicyRecords /\ q.failed = 0
  <2> DEFINE o == [p EXCEPT !.anchor = 0, !.due_reason = FALSE, !.failed = 0]
  <2>0. 0 \in 0..MaxTime
    BY <1>5
  <2>1. o \in PolicyRecords /\ o.failed = 0
    BY <2>0 DEF PolicyRecords
  <2>2. q = [o EXCEPT !.set = FALSE]
    BY <1>5 DEF PolicyRecords
  <2> HIDE DEF o
  <2> QED BY <2>1, <2>2 DEF PolicyRecords
<1>6. p.failed \in Nat
  BY DEF PolicyRecords
<1> QED BY <1>1, <1>2, <1>3, <1>4, <1>5, <1>6

LEMMA RotationInit == RInit => RotInv
<1> SUFFICES ASSUME RInit PROVE RotInv
  OBVIOUS
<1>1. /\ issued = 0 /\ clock = 0 /\ with \in Adapters /\ deleteOld \in BOOLEAN
      /\ (deleteOld => adapter.late # "none")
      /\ works = [p \in Places |-> {0}] /\ item = [cur |-> 0, saved |-> {}]
      /\ kept = {} /\ told = {} /\ stray = {}
      /\ rot = [r \in Rotators |-> NONE] /\ MaxTime \in Nat /\ MaxValue \in Nat
  BY RotationAssumption DEF RInit, adapter
<1>2. /\ policy \in PolicyRecords
      /\ policy.failed = 0
  <2>1. PICK e \in Intervals : policy = [set |-> TRUE, every |-> e, anchor |-> 0,
                                        due_reason |-> FALSE, failed |-> 0]
    BY DEF RInit
  <2> QED BY <1>1, <2>1 DEF PolicyRecords
<1>3. NONE \in RotRecords /\ NONE.pc = "idle" /\ NONE.step = 1 /\ NONE.old = 0 /\ NONE.new = 0
  BY <1>1 DEF RotRecords, NONE, StagesOf
<1>4. with # "ssh" => 1 <= Len(adapter.proof)
  <2>1. CASE with = "database"
    <3>1. adapter.proof = <<"alter", "sign_in">>
      BY <1>1, <2>1, PlanFacts
    <3> QED BY <3>1
  <2>2. CASE with \notin {"ssh", "database"}
    <3>1. adapter.proof \in {<<"end">>, <<"sign_in">>, <<"sign_in", "end">>}
      BY <1>1, <2>2, PlanFacts
    <3> QED BY <3>1
  <2> QED BY <2>1, <2>2
<1>5. rot \in [Rotators -> RotRecords] /\ \A r \in Rotators : rot[r] = NONE
  BY <1>1, <1>3
<1>6. RotTypes
  BY <1>1, <1>2, <1>3, <1>4, <1>5 DEF RotTypes
<1>7. Running = {} /\ Cardinality(Running) = 0
  BY <1>3, <1>5, FS_EmptySet DEF Running
<1>8. FailuresCounted
  BY <1>1, <1>2, <1>7 DEF FailuresCounted
<1>9. \A r \in Rotators : Numbered(r) /\ Placed(r) /\ Replaced(r)
  BY <1>3, <1>5 DEF Numbered, Placed, Replaced, Successful, At
<1>10. Held = {0} /\ \A p \in Places : works[p] = {0}
  BY <1>1 DEF Held
<1>11. Anchored
  <2>1. with = "database" => Api \in Places
    BY ApiPlace
  <2> QED BY <1>1, <1>10, <2>1 DEF Anchored
<1>12. NeverLockedOut /\ EveryKeyAccounted
  BY <1>10 DEF NeverLockedOut, EveryKeyAccounted
<1> QED BY <1>6, <1>7, <1>8, <1>9, <1>11, <1>12 DEF RotInv

LEMMA RotationNext == RotInv /\ [RNext]_rvars => RotInv'
<1> SUFFICES ASSUME RotInv, [RNext]_rvars PROVE RotInv'
  OBVIOUS
<1>1. /\ policy \in PolicyRecords
      /\ clock \in 0..MaxTime /\ MaxTime \in Nat /\ policy.failed \in Nat /\ policy.set \in BOOLEAN
  BY RotationAssumption DEF RotInv, RotTypes, PolicyRecords
<1>2. ASSUME NEW r \in Rotators, record(r)
      PROVE  RotInv'
  <2>1. /\ rot[r].pc = "ended" /\ rot' = [rot EXCEPT ![r] = NONE]
        /\ UNCHANGED <<with, deleteOld, works, item, kept, told, stray, issued, clock>>
    BY <1>2 DEF record, At, provider
  <2>2. rot[r].at \in 0..MaxTime
    BY DEF RotInv, RotTypes, RotRecords
  <2>3. /\ policy' \in PolicyRecords
        /\ policy'.failed <= policy.failed + 1
    <3>1. PICK p \in PolicyRecords : p = policy
      BY <1>1
    <3>2. PICK q : q = policy'
      OBVIOUS
    <3>3. \/ q = p
          \/ q = [p EXCEPT !.failed = @ + 1]
          \/ \E a \in 0..MaxTime : q = [p EXCEPT !.anchor = a, !.due_reason = FALSE, !.failed = 0]
      BY <1>2, <2>2, <3>1, <3>2 DEF record
    <3>4. q \in PolicyRecords /\ q.failed \in {0, p.failed, p.failed + 1}
      BY <1>1, <3>3, PolicyWrites, Zenon
    <3> QED BY <1>1, <3>1, <3>2, <3>4
  <2> QED BY <2>1, <2>3, OverKeeps
<1>3. ASSUME NEW r \in Rotators, Crash(r)
      PROVE  RotInv'
  <2>1. /\ rot[r].pc \notin {"idle", "ended"} /\ rot' = [rot EXCEPT ![r] = NONE]
        /\ UNCHANGED <<with, deleteOld, works, item, kept, told, issued, policy, clock>>
        /\ stray' = stray \cup (IF rot[r].pc = "ended" THEN {} ELSE {rot[r].new} \ Held)
        /\ policy'.failed <= policy.failed + 1 /\ rot[r].pc # "idle"
    BY <1>1, <1>3 DEF Crash, schedule
  <2> QED BY <1>1, <2>1, OverKeeps
<1>4. ASSUME NEW e \in Intervals, set(e)
      PROVE  RotInv'
  <2>1. /\ policy' \in PolicyRecords
        /\ policy'.failed <= policy.failed
    <3>1. PICK p \in PolicyRecords : p = policy
      BY <1>1
    <3>2. PICK q : q = policy'
      OBVIOUS
    <3>3. (\E f \in Intervals : q = [p EXCEPT !.every = f]) \/ (q \in PolicyRecords /\ q.failed = 0)
      BY <1>1, <1>4, <3>1, <3>2 DEF set, PolicyRecords
    <3>4. q \in PolicyRecords /\ q.failed \in {0, p.failed}
      BY <1>1, <3>3, PolicyWrites, Zenon
    <3> QED BY <1>1, <3>1, <3>2, <3>4
  <2> QED BY <1>1, <1>4, <2>1, ScheduleKeeps DEF set
<1>5. CASE remove_policy
  <2>1. /\ policy' \in PolicyRecords
        /\ policy'.failed <= policy.failed
    <3>1. PICK p \in PolicyRecords : p = policy
      BY <1>1
    <3>2. PICK q : q = policy'
      OBVIOUS
    <3>3. q = [p EXCEPT !.set = FALSE, !.anchor = 0, !.due_reason = FALSE, !.failed = 0]
      BY <1>5, <3>1, <3>2 DEF remove_policy
    <3>4. q \in PolicyRecords /\ q.failed \in {0, p.failed}
      BY <1>1, <3>3, PolicyWrites, Zenon
    <3> QED BY <1>1, <3>1, <3>2, <3>4
  <2> QED BY <1>1, <1>5, <2>1, ScheduleKeeps DEF remove_policy
<1>6. CASE mark_due
  <2>1. /\ policy' \in PolicyRecords
        /\ policy'.failed <= policy.failed
    <3>1. PICK p \in PolicyRecords : p = policy
      BY <1>1
    <3>2. PICK q : q = policy'
      OBVIOUS
    <3>3. \E d \in BOOLEAN : q = [p EXCEPT !.due_reason = d]
      BY <1>1, <1>6, <3>1, <3>2 DEF mark_due
    <3>4. q \in PolicyRecords /\ q.failed \in {0, p.failed}
      BY <1>1, <3>3, PolicyWrites, Zenon
    <3> QED BY <1>1, <3>1, <3>2, <3>4
  <2> QED BY <1>1, <1>6, <2>1, ScheduleKeeps DEF mark_due
<1>7. CASE Tick
  BY <1>1, <1>7, ScheduleKeeps DEF Tick
<1>8. CASE UNCHANGED rvars
  BY <1>1, <1>8, ScheduleKeeps DEF rvars, provider
<1>9. ASSUME NEW r \in Rotators, NEW a \in Answers,
             Open(r, a) \/ TakeBack(r, a) \/ Prove(r, a) \/ Undone(r, a) \/ Late(r, a)
      PROVE  RotInv'
  BY <1>9, OpenKeeps, TakeBackKeeps, ProveKeeps, UndoneKeeps, LateKeeps
<1>10. ASSUME NEW r \in Rotators,
              Store(r) \/ Issued(r) \/ Undo(r) \/ Restore(r) \/ Audit(r) \/ SshStore(r)
       PROVE  RotInv'
  BY <1>10, StoreKeeps, IssuedKeeps, UndoKeeps, RestoreKeeps, AuditKeeps, SshStoreKeeps
<1>11. ASSUME NEW r \in Rotators, NEW p \in Places, NEW a \in Answers,
              (\E l \in BOOLEAN : add_everywhere(r, p, a, l)) \/ take_back(r, p, a)
                \/ retire_everywhere(r, p, a)
       PROVE  RotInv'
  BY <1>11, AddKeeps, DropKeeps, RetireKeeps
<1> QED BY <1>2, <1>3, <1>4, <1>5, <1>6, <1>7, <1>8, <1>9, <1>10, <1>11, BeginKeeps DEF RNext

LEMMA RotationHolds == RotationSpec => []RotInv
BY RotationInit, RotationNext, PTL DEF RotationSpec

\* Whatever call of a rotation is refused, loses its answer or is never made,
\* and whatever other rotation runs beside it, some secret the vault holds is
\* accepted at every place, for any number of commands, hosts and forges.
THEOREM NobodyLockedOut == RotationSpec => []NeverLockedOut
<1>1. RotInv => NeverLockedOut
  BY DEF RotInv
<1> QED BY <1>1, RotationHolds, PTL

LEMMA RotatedFacts == RotInv => RotatedMeansReplaced
<1> SUFFICES ASSUME RotInv, NEW r \in Rotators, At(r, "ended"), rot[r].ok, rot[r].new = issued,
                    NEW p \in Places
             PROVE  rot[r].new \in works[p] /\ (EndsOld => rot[r].old \notin works[p])
  BY DEF RotatedMeansReplaced
<1>1. Successful(r) /\ rot[r].pc = "ended" /\ Replaced(r)
  BY DEF Successful, At, RotInv
<1>2. CASE with # "ssh"
  BY <1>1, <1>2, ApiPlace DEF Replaced
\* The last secret issued is the highest of those held.
<1>3. CASE with = "ssh"
  <2>1. PICK m \in Held : (\A h \in Held : h <= m) /\ m \in works[p]
    BY <1>3 DEF RotInv, Anchored
  <2>2. rot[r].new \in Held
    BY <1>1, CommandFacts
  <2>3. m \in Nat /\ m <= issued /\ issued \in Nat
    BY RotationAssumption DEF RotInv, RotTypes, Held
  <2>4. m = issued
    BY <2>1, <2>2, <2>3
  <2> QED BY <1>1, <1>3, <2>1, <2>4 DEF Replaced
<1> QED BY <1>2, <1>3

LEMMA RotationTypes == RotInv => RotTypeOK
<1> SUFFICES ASSUME RotInv PROVE RotTypeOK
  OBVIOUS
<1>1. /\ issued \in 0..MaxValue /\ MaxValue \in Nat /\ issued \in Nat /\ policy.failed \in Nat
      /\ policy \in PolicyRecords
  BY RotationAssumption DEF RotInv, RotTypes, PolicyRecords
<1>2. policy.failed \in 0..MaxValue
  <2>1. Cardinality(Running) \in Nat
    BY RotationAssumption, FS_Subset, FS_CardinalityType DEF Running
  <2> QED BY <1>1, <2>1 DEF RotInv, FailuresCounted
<1>3. policy \in [set : BOOLEAN, every : Intervals, anchor : 0..MaxTime, due_reason : BOOLEAN,
                  failed : 0..MaxValue]
  BY <1>1, <1>2 DEF PolicyRecords
<1>4. \A r \in Rotators : rot[r].old <= issued /\ rot[r].new <= issued /\ rot[r].reached \subseteq Places
  <2> SUFFICES ASSUME NEW r \in Rotators
               PROVE  rot[r].old <= issued /\ rot[r].new <= issued /\ rot[r].reached \subseteq Places
    OBVIOUS
  <2>1. rot[r] \in RotRecords
    BY DEF RotInv, RotTypes
  <2>2. CASE rot[r].pc # "idle"
    BY <1>1, <2>1, <2>2, CommandFacts
  <2>3. CASE rot[r].pc = "idle"
    BY <1>1, <2>1, <2>3 DEF RotInv, Numbered, RotRecords
  <2> QED BY <2>2, <2>3
<1>5. 0..issued \subseteq 0..MaxValue
  BY <1>1
<1>6. /\ works \in [Places -> SUBSET (0..issued)]
      /\ item \in [cur : 0..issued, saved : SUBSET (0..issued)]
      /\ kept \subseteq 0..issued /\ told \subseteq 0..issued /\ stray \subseteq 0..issued
      /\ with \in Adapters /\ deleteOld \in BOOLEAN /\ clock \in 0..MaxTime
  BY DEF RotInv, RotTypes
<1>7. works \in [Places -> SUBSET (0..MaxValue)]
  BY <1>5, <1>6
<1>8. UNION {kept, told, stray} \subseteq 0..MaxValue
  BY <1>5, <1>6
<1>9. item.cur \in 0..MaxValue /\ item.saved \subseteq 0..MaxValue
  BY <1>5, <1>6
<1> QED BY <1>1, <1>3, <1>4, <1>6, <1>7, <1>8, <1>9 DEF RotTypeOK

\* Every secret a provider accepts is held, named or one whose making nobody
\* could tell of, and a rotation answered ok has replaced the old one.
THEOREM RotationAccounts == RotationSpec => []SecretsAccounted
<1>1. RotInv => SecretsAccounted
  BY RotatedFacts, RotationTypes DEF RotInv, SecretsAccounted
<1> QED BY <1>1, RotationHolds, PTL
\* Only a rotation that was answered ok, and whose new secret the vault holds,
\* ends what makes a standing policy due.
LEMMA DueStep ==
  RotInv /\ [RNext]_rvars =>
    (is_due /\ ~is_due' /\ policy'.set /\ policy'.every = policy.every
       => \E r \in Rotators : At(r, "ended") /\ rot[r].ok /\ rot[r].new \in Held)
<1> SUFFICES ASSUME RotInv, [RNext]_rvars, is_due, ~is_due', policy'.set,
                    policy'.every = policy.every
             PROVE  \E r \in Rotators : At(r, "ended") /\ rot[r].ok /\ rot[r].new \in Held
  OBVIOUS
<1>1. /\ policy \in PolicyRecords
      /\ clock \in Nat /\ policy.anchor \in Nat /\ policy.every \in Nat
  <2>1. policy \in PolicyRecords /\ clock \in 0..MaxTime /\ MaxTime \in Nat
    BY RotationAssumption DEF RotInv, RotTypes
  <2>2. policy.anchor \in 0..MaxTime /\ policy.every \in Intervals
    BY <2>1 DEF PolicyRecords
  <2>3. Intervals \subseteq Nat
    BY RotationAssumption
  <2>4. policy.every \in Nat
    BY <2>2, <2>3
  <2>5. \A n \in 0..MaxTime : n \in Nat
    BY <2>1
  <2> QED BY <2>1, <2>2, <2>4, <2>5, Zenon
\* While the policy and the clock stay, it stays due.
<1>2. ~UNCHANGED <<policy, clock>>
  BY DEF is_due
<1>3. ASSUME NEW r \in Rotators, record(r)
      PROVE  \E q \in Rotators : At(q, "ended") /\ rot[q].ok /\ rot[q].new \in Held
  <2>1. CASE rot[r].ok
    <3>1. At(r, "ended") /\ Successful(r) /\ rot[r].pc # "idle"
      BY <1>3, <2>1 DEF record, Successful, At
    <3>2. rot[r].new \in Held
      BY <3>1, CommandFacts
    <3> QED BY <2>1, <3>1, <3>2
  <2>2. CASE ~rot[r].ok
    <3>1. policy' = [policy EXCEPT !.failed = @ + 1] /\ clock' = clock
      BY <1>2, <1>3, <2>2 DEF record
    <3>2. /\ policy'.set = policy.set /\ policy'.every = policy.every
          /\ policy'.anchor = policy.anchor /\ policy'.due_reason = policy.due_reason
      BY <1>1, <3>1 DEF PolicyRecords
    <3> QED BY <3>1, <3>2 DEF is_due
  <2> QED BY <2>1, <2>2
<1>4. ASSUME NEW e \in Intervals, set(e)
      PROVE  FALSE
  <2>1. policy' = [policy EXCEPT !.every = e] /\ clock' = clock
    BY <1>4 DEF set, is_due
  <2>2. policy'.anchor = policy.anchor /\ policy'.due_reason = policy.due_reason
    BY <1>1, <2>1
  <2> QED BY <2>1, <2>2 DEF is_due
<1>5. ~remove_policy
  <2> SUFFICES ASSUME remove_policy PROVE FALSE
    OBVIOUS
  <2>1. policy'.set = FALSE
    BY <1>1 DEF remove_policy
  <2> QED BY <2>1
<1>6. ~mark_due
  <2> SUFFICES ASSUME mark_due PROVE FALSE
    OBVIOUS
  <2>1. policy'.due_reason = policy.set /\ policy.set
    BY <1>1 DEF mark_due, is_due
  <2> QED BY <2>1 DEF is_due
<1>7. ~Tick
  BY <1>1 DEF Tick, is_due
<1>8. ASSUME NEW r \in Rotators, NEW by \in {"hand", "pass", "now"}, Begin(r, by)
      PROVE  FALSE
  BY <1>2, <1>8 DEF Begin, schedule
<1>9. ASSUME NEW r \in Rotators, NEW a \in Answers,
             Open(r, a) \/ TakeBack(r, a) \/ Prove(r, a) \/ Undone(r, a) \/ Late(r, a)
      PROVE  FALSE
  BY <1>2, <1>9 DEF Open, TakeBack, Prove, Undone, Late, schedule
<1>10. ASSUME NEW r \in Rotators,
              Store(r) \/ Issued(r) \/ Undo(r) \/ Restore(r) \/ Audit(r) \/ SshStore(r) \/ Crash(r)
       PROVE  FALSE
  BY <1>2, <1>10 DEF Store, Issued, Undo, Restore, Audit, SshStore, Crash, schedule
<1>11. ASSUME NEW r \in Rotators, NEW p \in Places, NEW a \in Answers,
              (\E l \in BOOLEAN : add_everywhere(r, p, a, l)) \/ take_back(r, p, a)
                \/ retire_everywhere(r, p, a)
       PROVE  FALSE
  BY <1>2, <1>11 DEF add_everywhere, take_back, retire_everywhere, schedule
<1>12. ~UNCHANGED rvars
  BY <1>2 DEF rvars
<1> QED BY <1>3, <1>4, <1>5, <1>6, <1>7, <1>8, <1>9, <1>10, <1>11, <1>12 DEF RNext

\* A standing policy that is due stays due until a pass that was answered ok has
\* put in the vault the secret that replaced the old one.
THEOREM DueStaysDue == RotationSpec => DueUntilRotated
BY RotationHolds, DueStep, PTL DEF RotationSpec, DueUntilRotated
=============================================================================
