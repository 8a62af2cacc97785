----------------------------- MODULE FilesProofs -----------------------------
(***************************************************************************)
(* Proofs about the secrets outside the vault document, for any number of  *)
(* commands, items, keys and phrases: the target of `ci keep` (CiSecrets)  *)
(* and the key file beside the document (Keyring).  And about ToolTokens,  *)
(* for any tool the commands adopt and any number of imports, entries,     *)
(* items and tokens: an import's token stays in reach, and an import that  *)
(* answered ok did what it says.                                           *)
(***************************************************************************)
EXTENDS CiSecrets, Keyring, ToolTokens, TLAPS

-----------------------------------------------------------------------------
(* A kept target: the inductive invariant.                                 *)

Values == [Bound -> Nat]
\* The revisions of a target's items, and what they named when they were read.
Revisions == [rev : Values, of : Values]

CiRecords ==
  [pc : {"idle", "renew", "values", "push", "record", "write"}, is : {"set", "keep", "renew", "rename"},
   entry : Revisions \cup {NoEntry}, now : Revisions, values : Values, left : SUBSET Bound,
   refused : BOOLEAN]

CiTypeOK ==
  /\ value \in Values /\ revision \in Values /\ holds \in Values
  /\ recorded \in Revisions \cup {NoEntry}
  /\ \A i \in Bound : revision[i] <= value[i]
  /\ ci \in [CiCommands -> CiRecords]
  /\ overlapped \in BOOLEAN

AtMost(v, w) == \A i \in Bound : v[i] <= w[i]

\* What a command that sets the target knows: the values it sets are at least
\* what the target holds; a keep's are still the items' own; a renewal's are no
\* older than the revisions it will record.
Sets(c) ==
  /\ AtMost(holds, ci[c].values) /\ AtMost(ci[c].values, value)
  /\ ci[c].is = "keep" => ci[c].values = value
  /\ ci[c].is = "renew" => AtMost(ci[c].now.of, ci[c].values)

\* Until commands overlap the target goes forward only: it holds at least what
\* is recorded and what a command will record, and no more than the items do.
CiInv ==
  /\ CiTypeOK
  /\ ~overlapped =>
       /\ AtMost(holds, value)
       /\ recorded # NoEntry => AtMost(recorded.of, holds)
       /\ \A c, d \in CiCommands : Pushing(c) /\ Pushing(d) => c = d
       /\ \A c \in CiCommands :
            /\ ci[c].is = "rename" => ci[c].pc \in {"idle", "write"}
            /\ ci[c].pc # "idle" /\ ci[c].entry # NoEntry => AtMost(ci[c].entry.of, holds)
            /\ ci[c].pc = "renew" \/ (ci[c].pc = "values" /\ ci[c].is = "renew")
                 => AtMost(ci[c].now.of, value)
            /\ Pushing(c) => Sets(c)
            /\ ci[c].pc = "push" /\ ~ci[c].refused =>
                 \A i \in Bound \ ci[c].left : holds[i] = ci[c].values[i]
            /\ ci[c].pc = "record" => ci[c].is # "set" /\ holds = ci[c].values

LEMMA CiIdleFacts == CiIdle \in CiRecords /\ CiIdle.pc = "idle" /\ CiIdle.refused = FALSE /\ CiIdle.is = "set"
                       /\ CiIdle.now.of = [i \in Bound |-> 0]
BY DEF CiIdle, CiRecords, Revisions, Values, NotSet

LEMMA AtMostFacts ==
  ASSUME NEW u \in Values, NEW v \in Values, NEW w \in Values, AtMost(u, v), AtMost(v, w)
  PROVE  AtMost(u, u) /\ AtMost(u, w)
BY DEF AtMost, Values

-----------------------------------------------------------------------------
(* A kept target: the steps.                                               *)

\* A command begins knowing nothing, or what is recorded.
LEMMA BeginFacts ==
  ASSUME CiInv, NEW c \in CiCommands, NEW is \in {"set", "keep", "renew", "rename"},
         NEW e \in {recorded, NoEntry}, NEW pc \in {"renew", "values", "write"},
         is = "rename" => pc = "write",
         ci' = [ci EXCEPT ![c] = [CiIdle EXCEPT !.is = is, !.entry = e, !.pc = pc]],
         UNCHANGED <<place, value, revision, holds, recorded, overlapped>>
  PROVE  CiInv'
<1>1. PICK n \in CiRecords :
        /\ n = [CiIdle EXCEPT !.is = is, !.entry = e, !.pc = pc]
        /\ n.is = is /\ n.entry = e /\ n.pc = pc /\ n.now.of = [i \in Bound |-> 0]
  <2>1. PICK p : p = [CiIdle EXCEPT !.is = is]
    OBVIOUS
  <2>2. p \in CiRecords /\ p.is = is /\ p.now.of = [i \in Bound |-> 0]
    BY <2>1, CiIdleFacts DEF CiRecords
  <2>3. PICK q : q = [p EXCEPT !.entry = e]
    OBVIOUS
  <2>4. q \in CiRecords /\ q.is = is /\ q.entry = e /\ q.now.of = [i \in Bound |-> 0]
    BY <2>2, <2>3 DEF CiRecords, CiInv, CiTypeOK
  <2>5. PICK n : n = [q EXCEPT !.pc = pc]
    OBVIOUS
  <2>6. n = [CiIdle EXCEPT !.is = is, !.entry = e, !.pc = pc]
    BY <2>1, <2>3, <2>5, CiIdleFacts DEF CiRecords
  <2>7. n \in CiRecords /\ n.is = is /\ n.entry = e /\ n.pc = pc
        /\ n.now.of = [i \in Bound |-> 0]
    BY <2>4, <2>5 DEF CiRecords
  <2> QED BY <2>6, <2>7
<1>2. /\ ci' = [ci EXCEPT ![c] = n] /\ ci \in [CiCommands -> CiRecords]
      /\ UNCHANGED <<place, value, revision, holds, recorded, overlapped>>
  BY <1>1 DEF CiInv, CiTypeOK
<1>3. ci'[c] = n /\ \A d \in CiCommands \ {c} : ci'[d] = ci[d]
  BY <1>2
<1>4. CiTypeOK'
  BY <1>2 DEF CiInv, CiTypeOK
<1>5. value \in Values /\ AtMost(n.now.of, value)
  BY <1>1 DEF CiInv, CiTypeOK, AtMost, Values
<1> QED BY <1>1, <1>2, <1>3, <1>4, <1>5 DEF CiInv, Pushing, Sets

LEMMA CiBeginStep ==
  ASSUME CiInv, NEW c \in CiCommands, NEW is \in {"set", "keep", "renew"}, ci_begin(c, is)
  PROVE  CiInv'
<1>1. PICK e \in {recorded, NoEntry} : e = IF is = "renew" THEN recorded ELSE NoEntry
  OBVIOUS
<1>2. PICK pc \in {"renew", "values", "write"} :
        pc = IF is # "renew" THEN "values" ELSE IF recorded # NoEntry THEN "renew" ELSE "write"
  OBVIOUS
<1>3. /\ ci' = [ci EXCEPT ![c] = [CiIdle EXCEPT !.is = is, !.entry = e, !.pc = pc]]
      /\ UNCHANGED <<place, value, revision, holds, recorded, overlapped>>
  BY <1>1, <1>2 DEF ci_begin
<1>4. is # "rename"
  OBVIOUS
<1>5. is \in {"set", "keep", "renew", "rename"}
  OBVIOUS
<1> QED BY <1>3, <1>4, <1>5, BeginFacts

LEMMA FollowRenameStep ==
  ASSUME CiInv, NEW c \in CiCommands, follow_rename(c)
  PROVE  CiInv'
<1>1. PICK e \in {recorded, NoEntry} : e = recorded
  OBVIOUS
<1>2. PICK is \in {"set", "keep", "renew", "rename"} : is = "rename"
  OBVIOUS
<1>3. PICK pc \in {"renew", "values", "write"} : pc = "write"
  OBVIOUS
<1>4. /\ ci' = [ci EXCEPT ![c] = [CiIdle EXCEPT !.is = is, !.entry = e, !.pc = pc]]
      /\ UNCHANGED <<place, value, revision, holds, recorded, overlapped>>
  BY <1>1, <1>2, <1>3 DEF follow_rename
<1>5. is = "rename" => pc = "write"
  BY <1>3
<1> QED BY <1>4, <1>5, BeginFacts

\* The entry is at the items' revisions already, or the values are read next.
LEMMA RenewStep ==
  ASSUME CiInv, NEW c \in CiCommands, renew(c)
  PROVE  CiInv'
<1> DEFINE r == ci[c]
<1>1. r \in CiRecords /\ value \in Values /\ revisions \in Revisions /\ revisions.of = value /\ r.pc = "renew"
  BY DEF renew, CiInv, CiTypeOK, revisions, Revisions
<1>2. PICK n \in CiRecords :
        /\ n = [r EXCEPT !.now = revisions, !.pc = IF r.entry.rev = revision THEN "write" ELSE "values"]
        /\ n.is = r.is /\ n.entry = r.entry /\ n.pc \in {"write", "values"} /\ n.now = revisions
  <2> HIDE DEF r
  <2>1. PICK p : p = [r EXCEPT !.now = revisions]
    OBVIOUS
  <2>2. p \in CiRecords /\ p.is = r.is /\ p.entry = r.entry /\ p.now = revisions
    BY <1>1, <2>1 DEF CiRecords
  <2>3. PICK n : n = [p EXCEPT !.pc = IF r.entry.rev = revision THEN "write" ELSE "values"]
    OBVIOUS
  <2>4. n = [r EXCEPT !.now = revisions, !.pc = IF r.entry.rev = revision THEN "write" ELSE "values"]
    BY <1>1, <2>1, <2>3 DEF CiRecords
  <2>5. n \in CiRecords /\ n.is = r.is /\ n.entry = r.entry /\ n.pc \in {"write", "values"} /\ n.now = revisions
    BY <2>2, <2>3 DEF CiRecords
  <2> QED BY <2>4, <2>5
<1>3. /\ ci' = [ci EXCEPT ![c] = n] /\ ci \in [CiCommands -> CiRecords]
      /\ UNCHANGED <<place, value, revision, holds, recorded, overlapped>>
  BY <1>2 DEF renew, CiInv, CiTypeOK
<1>4. ci'[c] = n /\ \A d \in CiCommands \ {c} : ci'[d] = ci[d]
  BY <1>3
<1>5. CiTypeOK'
  BY <1>3 DEF CiInv, CiTypeOK
<1>6. AtMost(value, value)
  BY <1>1 DEF AtMost, Values
<1> QED BY <1>1, <1>2, <1>3, <1>4, <1>5, <1>6 DEF CiInv, Pushing, Sets

\* A command that reads its values while no other sets the target is the only one
\* that does.
LEMMA ValuesStep ==
  ASSUME CiInv, NEW c \in CiCommands, ci_values(c)
  PROVE  CiInv'
<1> DEFINE r == ci[c]
<1>1. r \in CiRecords /\ value \in Values /\ holds \in Values /\ r.pc = "values"
      /\ overlapped \in BOOLEAN
  BY DEF ci_values, CiInv, CiTypeOK
<1>2. PICK n \in CiRecords :
        /\ n = [r EXCEPT !.pc = "push", !.values = value, !.left = Bound]
        /\ n.is = r.is /\ n.entry = r.entry /\ n.pc = "push" /\ n.now = r.now
        /\ n.values = value /\ n.left = Bound
  <2> HIDE DEF r
  <2>1. PICK p : p = [r EXCEPT !.pc = "push"]
    OBVIOUS
  <2>2. p \in CiRecords /\ p.is = r.is /\ p.entry = r.entry /\ p.pc = "push" /\ p.now = r.now
    BY <1>1, <2>1 DEF CiRecords
  <2>3. PICK q : q = [p EXCEPT !.values = value]
    OBVIOUS
  <2>4. q \in CiRecords /\ q.is = r.is /\ q.entry = r.entry /\ q.pc = "push" /\ q.now = r.now
        /\ q.values = value
    BY <1>1, <2>2, <2>3 DEF CiRecords
  <2>5. PICK n : n = [q EXCEPT !.left = Bound]
    OBVIOUS
  <2>6. n = [r EXCEPT !.pc = "push", !.values = value, !.left = Bound]
    BY <1>1, <2>1, <2>3, <2>5 DEF CiRecords
  <2>7. n \in CiRecords /\ n.is = r.is /\ n.entry = r.entry /\ n.pc = "push" /\ n.now = r.now
        /\ n.values = value /\ n.left = Bound
    BY <2>4, <2>5 DEF CiRecords
  <2> QED BY <2>6, <2>7
<1>3. /\ ci' = [ci EXCEPT ![c] = n] /\ ci \in [CiCommands -> CiRecords]
      /\ overlapped' \in BOOLEAN
      /\ ~overlapped' => ~overlapped /\ \A d \in CiCommands \ {c} : ~Pushing(d)
      /\ UNCHANGED <<place, value, revision, holds, recorded>>
  BY <1>1, <1>2 DEF ci_values, CiInv, CiTypeOK
<1>4. ci'[c] = n /\ \A d \in CiCommands \ {c} : ci'[d] = ci[d]
  BY <1>3
<1>5. CiTypeOK'
  BY <1>3 DEF CiInv, CiTypeOK
<1>6. AtMost(value, value)
  BY <1>1 DEF AtMost, Values
<1>7. \A d \in CiCommands : ~overlapped' /\ Pushing(d)' => d = c
  BY <1>3, <1>4 DEF Pushing
<1> QED BY <1>1, <1>2, <1>3, <1>4, <1>5, <1>6, <1>7 DEF CiInv, Pushing, Sets

\* A step in which the target takes values of the command that sets it.
LEMMA TargetFacts ==
  ASSUME CiInv, NEW c \in CiCommands, ci[c].pc = "push",
         NEW n \in CiRecords, ci' = [ci EXCEPT ![c] = n],
         n.pc = "push", n.is = ci[c].is, n.entry = ci[c].entry, n.now = ci[c].now,
         n.values = ci[c].values,
         holds' \in Values, \A i \in Bound : holds'[i] \in {holds[i], ci[c].values[i]},
         ~overlapped /\ ~n.refused => \A i \in Bound \ n.left : holds'[i] = ci[c].values[i],
         UNCHANGED <<place, value, revision, recorded, overlapped>>
  PROVE  CiInv'
<1>1. ci \in [CiCommands -> CiRecords] /\ holds \in Values /\ value \in Values /\ ci[c] \in CiRecords
  BY DEF CiInv, CiTypeOK
<1>2. ci'[c] = n /\ \A d \in CiCommands \ {c} : ci'[d] = ci[d]
  BY <1>1
<1>3. CiTypeOK'
  BY <1>1 DEF CiInv, CiTypeOK
<1>4. CASE overlapped
  BY <1>3, <1>4 DEF CiInv
<1>5. CASE ~overlapped
  <2>1. AtMost(holds, ci[c].values) /\ AtMost(ci[c].values, value)
    BY <1>5 DEF CiInv, Pushing, Sets
  <2>2. AtMost(holds, holds') /\ AtMost(holds', ci[c].values) /\ AtMost(holds', value)
    <3>1. PICK v \in Values : v = ci[c].values
      BY <1>1 DEF CiRecords
    <3>2. \A i \in Bound : /\ holds[i] \in Nat /\ v[i] \in Nat /\ value[i] \in Nat /\ holds'[i] \in Nat
                            /\ holds'[i] \in {holds[i], v[i]} /\ holds[i] <= v[i] /\ v[i] <= value[i]
      BY <1>1, <2>1, <3>1 DEF AtMost, Values
    <3> QED BY <3>1, <3>2 DEF AtMost
  <2>3. \A v \in Values : AtMost(v, holds) => AtMost(v, holds')
    BY <1>1, <2>2 DEF AtMost, Values
  <2>4. recorded # NoEntry => AtMost(recorded.of, holds')
    BY <1>5, <2>3 DEF CiInv, CiTypeOK, Revisions
  <2>5. \A d \in CiCommands \ {c} : ci[d].pc \notin {"push", "record"}
    BY <1>5 DEF CiInv, Pushing
  <2>6. \A d \in CiCommands : ci'[d].pc # "idle" /\ ci'[d].entry # NoEntry => AtMost(ci'[d].entry.of, holds')
    BY <1>1, <1>2, <1>5, <2>3 DEF CiInv, CiTypeOK, CiRecords, Revisions
  <2>7. Sets(c)'
    BY <1>2, <1>5, <2>1, <2>2 DEF CiInv, Pushing, Sets
  <2>8. \A d \in CiCommands : ci'[d].pc \in {"push", "record"} => d = c
    BY <1>2, <2>5
  <2> QED BY <1>2, <1>3, <1>5, <2>2, <2>4, <2>6, <2>7, <2>8 DEF CiInv, Pushing
<1> QED BY <1>4, <1>5

LEMMA GithubStep ==
  ASSUME CiInv, NEW c \in CiCommands, github(c)
  PROVE  CiInv'
<1> DEFINE r == ci[c]
<1>1. r \in CiRecords /\ holds \in Values /\ r.pc = "push"
  BY DEF github, CiInv, CiTypeOK
<1>2. PICK i \in r.left, accepted \in BOOLEAN :
        /\ holds' = IF accepted THEN [holds EXCEPT ![i] = r.values[i]] ELSE holds
        /\ ci' = [ci EXCEPT ![c].left = @ \ {i}, ![c].refused = @ \/ ~accepted]
  BY DEF github
<1>3. r.left \in SUBSET Bound /\ r.values \in Values /\ i \in Bound /\ r.refused \in BOOLEAN
  BY <1>1 DEF CiRecords
<1>4. /\ holds' \in Values /\ \A j \in Bound : holds'[j] \in {holds[j], r.values[j]}
      /\ accepted => holds'[i] = r.values[i] /\ \A j \in Bound \ {i} : holds'[j] = holds[j]
  BY <1>1, <1>2, <1>3 DEF Values
<1>5. PICK refused \in BOOLEAN : refused = (r.refused \/ ~accepted)
  BY <1>3
<1>6. PICK n \in CiRecords :
        /\ n = [r EXCEPT !.left = @ \ {i}, !.refused = @ \/ ~accepted]
        /\ n.is = r.is /\ n.entry = r.entry /\ n.pc = r.pc /\ n.now = r.now
        /\ n.values = r.values /\ n.left = r.left \ {i} /\ n.refused = refused
  <2> HIDE DEF r
  <2>1. PICK p : p = [r EXCEPT !.left = @ \ {i}]
    OBVIOUS
  <2>2. p \in CiRecords /\ p.is = r.is /\ p.entry = r.entry /\ p.pc = r.pc /\ p.now = r.now
        /\ p.values = r.values /\ p.left = r.left \ {i} /\ p.refused = r.refused
    BY <1>1, <1>3, <2>1 DEF CiRecords
  <2>3. PICK n : n = [p EXCEPT !.refused = refused]
    OBVIOUS
  <2>4. n = [r EXCEPT !.left = @ \ {i}, !.refused = @ \/ ~accepted]
    BY <1>1, <1>5, <2>1, <2>3 DEF CiRecords
  <2>5. n \in CiRecords /\ n.is = r.is /\ n.entry = r.entry /\ n.pc = r.pc /\ n.now = r.now
        /\ n.values = r.values /\ n.left = r.left \ {i} /\ n.refused = refused
    BY <2>2, <2>3 DEF CiRecords
  <2> QED BY <2>4, <2>5
<1>7. ci' = [ci EXCEPT ![c] = n]
  BY <1>2, <1>6
<1>8. ASSUME ~overlapped, ~n.refused, NEW j \in Bound \ n.left PROVE holds'[j] = r.values[j]
  <2>1. accepted /\ ~r.refused
    BY <1>5, <1>6, <1>8
  <2>2. CASE j = i
    BY <1>4, <2>1, <2>2
  <2>3. CASE j # i
    <3>1. holds[j] = r.values[j]
      BY <1>1, <1>6, <1>8, <2>1, <2>3 DEF CiInv
    <3> QED BY <1>4, <1>8, <2>1, <2>3, <3>1
  <2> QED BY <2>2, <2>3
<1>9. UNCHANGED <<place, value, revision, recorded, overlapped>>
  BY DEF github
<1>10. /\ n.pc = "push" /\ holds' \in Values
       /\ \A j \in Bound : holds'[j] \in {holds[j], ci[c].values[j]}
       /\ ~overlapped /\ ~n.refused => \A j \in Bound \ n.left : holds'[j] = ci[c].values[j]
  BY <1>1, <1>4, <1>6, <1>8
<1> QED BY <1>1, <1>6, <1>7, <1>9, <1>10, TargetFacts

LEMMA KubernetesStep ==
  ASSUME CiInv, NEW c \in CiCommands, kubernetes(c)
  PROVE  CiInv'
<1> DEFINE r == ci[c]
<1>1. r \in CiRecords /\ holds \in Values /\ r.pc = "push" /\ r.values \in Values
  BY DEF kubernetes, CiInv, CiTypeOK, CiRecords
<1>2. PICK accepted \in BOOLEAN :
        /\ holds' = IF accepted THEN r.values ELSE holds
        /\ ci' = [ci EXCEPT ![c].left = {}, ![c].refused = ~accepted]
  BY DEF kubernetes
<1>3. PICK refused \in BOOLEAN : refused = ~accepted
  OBVIOUS
<1>4. PICK n \in CiRecords :
        /\ n = [r EXCEPT !.left = {}, !.refused = ~accepted]
        /\ n.is = r.is /\ n.entry = r.entry /\ n.pc = r.pc /\ n.now = r.now
        /\ n.values = r.values /\ n.left = {} /\ n.refused = refused
  <2> HIDE DEF r
  <2>1. PICK p : p = [r EXCEPT !.left = {}]
    OBVIOUS
  <2>2. p \in CiRecords /\ p.is = r.is /\ p.entry = r.entry /\ p.pc = r.pc /\ p.now = r.now
        /\ p.values = r.values /\ p.left = {}
    BY <1>1, <2>1 DEF CiRecords
  <2>3. PICK n : n = [p EXCEPT !.refused = refused]
    OBVIOUS
  <2>4. n = [r EXCEPT !.left = {}, !.refused = ~accepted]
    BY <1>1, <1>3, <2>1, <2>3 DEF CiRecords
  <2>5. n \in CiRecords /\ n.is = r.is /\ n.entry = r.entry /\ n.pc = r.pc /\ n.now = r.now
        /\ n.values = r.values /\ n.left = {} /\ n.refused = refused
    BY <2>2, <2>3 DEF CiRecords
  <2> QED BY <2>4, <2>5
<1>5. ci' = [ci EXCEPT ![c] = n]
  BY <1>2, <1>4
<1>6. /\ n.pc = "push" /\ holds' \in Values
      /\ \A j \in Bound : holds'[j] \in {holds[j], ci[c].values[j]}
      /\ ~overlapped /\ ~n.refused => \A j \in Bound \ n.left : holds'[j] = ci[c].values[j]
  BY <1>1, <1>2, <1>3, <1>4
<1>7. UNCHANGED <<place, value, revision, recorded, overlapped>>
  BY DEF kubernetes
<1> QED BY <1>1, <1>4, <1>5, <1>6, <1>7, TargetFacts

\* A step of a command that reads and sets nothing: it ends, or goes on to
\* record and write what it may.
LEMMA MovesOnFacts ==
  ASSUME CiInv, NEW c \in CiCommands, NEW n \in CiRecords, ci' = [ci EXCEPT ![c] = n],
         UNCHANGED <<place, value, revision, holds, recorded, overlapped>>,
         n.pc \in {"idle", "record", "write"},
         ~overlapped /\ n.pc = "write" /\ n.entry # NoEntry => AtMost(n.entry.of, holds),
         n.pc = "record" =>
           /\ ci[c].pc = "push" /\ n.is # "set"
           /\ n.is = ci[c].is /\ n.now = ci[c].now /\ n.values = ci[c].values
           /\ n.entry = ci[c].entry
           /\ ~overlapped => holds = n.values
  PROVE  CiInv'
<1>1. ci'[c] = n /\ \A d \in CiCommands \ {c} : ci'[d] = ci[d]
  BY DEF CiInv, CiTypeOK
<1>2. CiTypeOK'
  BY DEF CiInv, CiTypeOK
<1>3. CASE n.pc \in {"idle", "write"}
  BY <1>1, <1>2, <1>3 DEF CiInv, Pushing, Sets
<1>4. CASE n.pc = "record"
  BY <1>1, <1>2, <1>4 DEF CiInv, Pushing, Sets
<1> QED BY <1>3, <1>4

\* What a command becomes by going on to pc.
LEMMA GoesFacts ==
  ASSUME NEW r \in CiRecords, NEW pc \in {"record", "write"}
  PROVE  LET n == [r EXCEPT !.pc = pc] IN
         /\ n \in CiRecords /\ n.pc = pc /\ n.is = r.is /\ n.entry = r.entry
         /\ n.now = r.now /\ n.values = r.values
BY DEF CiRecords

LEMMA PushedStep ==
  ASSUME CiInv, NEW c \in CiCommands, pushed(c)
  PROVE  CiInv'
<1> DEFINE r == ci[c]
<1>1. r \in CiRecords /\ r.pc = "push" /\ r.left = {} /\ ci \in [CiCommands -> CiRecords]
      /\ UNCHANGED <<place, value, revision, holds, recorded, overlapped>>
      /\ r.values \in Values /\ holds \in Values
  BY DEF pushed, CiInv, CiTypeOK, CiRecords
<1>2. ~overlapped /\ ~r.refused => holds = r.values
  BY <1>1 DEF CiInv, Values
<1>3. ~overlapped /\ r.entry # NoEntry => AtMost(r.entry.of, holds)
  BY <1>1 DEF CiInv
<1>4. CASE r.is = "set" \/ (r.refused /\ r.is = "keep")
  <2>1. ci' = [ci EXCEPT ![c] = CiIdle]
    BY <1>4 DEF pushed
  <2>2. PICK n \in CiRecords : n = CiIdle /\ n.pc = "idle"
    BY CiIdleFacts
  <2> QED BY <1>1, <2>1, <2>2, MovesOnFacts
<1>5. CASE ~(r.is = "set" \/ (r.refused /\ r.is = "keep"))
  <2>1. PICK pc \in {"record", "write"} : pc = IF r.refused THEN "write" ELSE "record"
    OBVIOUS
  <2>2. ci' = [ci EXCEPT ![c] = [r EXCEPT !.pc = pc]]
    BY <1>5, <2>1 DEF pushed
  <2>3. PICK n \in CiRecords : n = [r EXCEPT !.pc = pc] /\ n.pc = pc /\ n.is = r.is /\ n.entry = r.entry
          /\ n.now = r.now /\ n.values = r.values
    <3> HIDE DEF r
    <3> QED BY <1>1, GoesFacts
  <2>4. n.pc = "record" => ~r.refused
    BY <2>1, <2>3
  <2> QED BY <1>1, <1>2, <1>3, <1>5, <2>2, <2>3, <2>4, MovesOnFacts
<1> QED BY <1>4, <1>5

\* What is recorded is no more than the target holds.
LEMMA RecordStep ==
  ASSUME CiInv, NEW c \in CiCommands, ci_record(c)
  PROVE  CiInv'
<1> DEFINE r == ci[c]
<1>1. r \in CiRecords /\ r.pc = "record" /\ ci \in [CiCommands -> CiRecords]
      /\ UNCHANGED <<place, value, revision, holds, recorded, overlapped>>
      /\ r.now \in Revisions /\ value \in Values /\ holds \in Values
      /\ revisions \in Revisions /\ revisions.of = value
  BY DEF ci_record, CiInv, CiTypeOK, CiRecords, revisions, Revisions
<1>2. PICK e \in Revisions : e = IF r.is = "keep" THEN revisions ELSE r.now
  BY <1>1
<1>3. ~overlapped => AtMost(e.of, holds)
  <2>1. ASSUME ~overlapped PROVE r.is \in {"keep", "renew"} /\ holds = r.values /\ Sets(c)
    BY <1>1, <2>1 DEF CiInv, Pushing, CiRecords
  <2>2. AtMost(holds, holds)
    BY <1>1 DEF AtMost, Values
  <2> QED BY <1>1, <1>2, <2>1, <2>2 DEF Sets
<1>4. PICK n \in CiRecords : n = [r EXCEPT !.entry = e, !.pc = "write"] /\ n.pc = "write" /\ n.entry = e
  <2> HIDE DEF r
  <2>1. PICK p : p = [r EXCEPT !.entry = e]
    OBVIOUS
  <2>2. p \in CiRecords /\ p.entry = e
    BY <1>1, <2>1 DEF CiRecords
  <2>3. PICK n : n = [p EXCEPT !.pc = "write"]
    OBVIOUS
  <2>4. n = [r EXCEPT !.entry = e, !.pc = "write"]
    BY <1>1, <2>1, <2>3 DEF CiRecords
  <2>5. n \in CiRecords /\ n.entry = e /\ n.pc = "write"
    BY <2>2, <2>3 DEF CiRecords
  <2> QED BY <2>4, <2>5
<1>5. ci' = [ci EXCEPT ![c] = n]
  BY <1>2, <1>4 DEF ci_record
<1> QED BY <1>1, <1>3, <1>4, <1>5, MovesOnFacts

LEMMA StopsStep ==
  ASSUME CiInv, NEW c \in CiCommands, CiStops(c)
  PROVE  CiInv'
<1> DEFINE r == ci[c]
<1>1. r \in CiRecords /\ ci \in [CiCommands -> CiRecords] /\ r.pc # "idle"
      /\ UNCHANGED <<place, value, revision, holds, recorded, overlapped>>
  BY DEF CiStops, CiInv, CiTypeOK
<1>2. CASE ci' = [ci EXCEPT ![c] = CiIdle]
  <2>1. PICK n \in CiRecords : n = CiIdle /\ n.pc = "idle"
    BY CiIdleFacts
  <2> QED BY <1>1, <1>2, <2>1, MovesOnFacts
<1>3. CASE ci' = [ci EXCEPT ![c].pc = "write"]
  <2>1. ~overlapped /\ r.entry # NoEntry => AtMost(r.entry.of, holds)
    BY <1>1 DEF CiInv
  <2>2. PICK pc \in {"record", "write"} : pc = "write"
    OBVIOUS
  <2>3. PICK n \in CiRecords : n = [r EXCEPT !.pc = pc] /\ n.pc = pc /\ n.entry = r.entry
    <3> HIDE DEF r
    <3> QED BY <1>1, GoesFacts
  <2>4. ci' = [ci EXCEPT ![c] = n]
    BY <1>3, <2>2, <2>3
  <2> QED BY <1>1, <2>1, <2>2, <2>3, <2>4, MovesOnFacts
<1> QED BY <1>2, <1>3 DEF CiStops

LEMMA WriteStep ==
  ASSUME CiInv, NEW c \in CiCommands, ci_write(c)
  PROVE  CiInv'
<1>1. ci[c] \in CiRecords /\ ci \in [CiCommands -> CiRecords] /\ ci[c].pc = "write"
      /\ recorded' = ci[c].entry /\ ci' = [ci EXCEPT ![c] = CiIdle]
      /\ UNCHANGED <<place, value, revision, holds, overlapped>>
  BY DEF ci_write, CiInv, CiTypeOK
<1>2. ci'[c] = CiIdle /\ \A d \in CiCommands \ {c} : ci'[d] = ci[d]
  BY <1>1
<1>3. CiTypeOK'
  BY <1>1, CiIdleFacts DEF CiInv, CiTypeOK, CiRecords
<1>4. ~overlapped /\ recorded' # NoEntry => AtMost(recorded'.of, holds)
  BY <1>1 DEF CiInv
<1> QED BY <1>1, <1>2, <1>3, <1>4, CiIdleFacts DEF CiInv, Pushing, Sets

\* An item may change under a set or a renewal; under a keep nothing is claimed.
LEMMA NewValueStep ==
  ASSUME CiInv, NEW i \in Bound, NEW number \in Nat, number <= revision[i] + 1, number <= value[i] + 1,
         NewValue(i, number)
  PROVE  CiInv'
<1>1. value \in Values /\ revision \in Values /\ holds \in Values /\ ci \in [CiCommands -> CiRecords]
      /\ \A j \in Bound : revision[j] <= value[j]
  BY DEF CiInv, CiTypeOK
<1>2. /\ value' = [value EXCEPT ![i] = value[i] + 1] /\ revision' = [revision EXCEPT ![i] = number]
      /\ UNCHANGED <<place, holds, recorded, ci>>
  BY DEF NewValue
<1>3. value' \in Values /\ revision' \in Values /\ AtMost(value, value')
      /\ \A j \in Bound : revision'[j] <= value'[j]
  BY <1>1, <1>2 DEF Values, AtMost
<1>4. \A v \in Values : AtMost(v, value) => AtMost(v, value')
  BY <1>1, <1>3, AtMostFacts
<1>5. /\ overlapped' \in BOOLEAN
      /\ ~overlapped' => ~overlapped /\ \A c \in CiCommands : ~(ci[c].is = "keep" /\ Pushing(c))
  BY ZenonT(30) DEF NewValue, GivenUnderKeep
<1>6. CiTypeOK'
  BY <1>1, <1>2, <1>3, <1>5 DEF CiInv, CiTypeOK
<1>7. \A c \in CiCommands : ci[c].now.of \in Values /\ ci[c].values \in Values
  BY <1>1 DEF CiRecords, Revisions
<1>8. ASSUME ~overlapped', NEW c \in CiCommands, Pushing(c)
      PROVE  Sets(c)'
  <2>1. Sets(c) /\ ci[c].is # "keep"
    BY <1>5, <1>8 DEF CiInv
  <2> QED BY <1>1, <1>2, <1>4, <1>7, <2>1 DEF Sets
<1> QED BY <1>1, <1>2, <1>4, <1>5, <1>6, <1>7, <1>8 DEF CiInv, Pushing

LEMMA NewRevisionStep ==
  ASSUME CiInv, NEW i \in Bound, NewRevision(i) \/ StoredAgain(i)
  PROVE  CiInv'
<1>1. revision[i] \in Nat /\ value[i] \in Nat /\ revision[i] <= value[i]
  BY DEF CiInv, CiTypeOK, Values
<1>2. CASE NewRevision(i)
  <2>1. PICK number \in Nat : number = revision[i] + 1
    BY <1>1
  <2> QED BY <1>1, <1>2, <2>1, NewValueStep DEF NewRevision
<1>3. CASE StoredAgain(i)
  <2>1. PICK number \in Nat : number = 1
    OBVIOUS
  <2> QED BY <1>1, <1>3, <2>1, NewValueStep DEF StoredAgain
<1> QED BY <1>2, <1>3

\* What the target holds stays as new as it was when an item's number goes.
LEMMA PurgeStep ==
  ASSUME CiInv, NEW i \in Bound, Purge(i)
  PROVE  CiInv'
<1>1. /\ revision' = [revision EXCEPT ![i] = 0]
      /\ UNCHANGED <<place, value, holds, recorded, ci, overlapped>>
  BY DEF Purge, Missing
<1>2. revision' \in Values /\ \A j \in Bound : revision'[j] <= value[j]
  BY <1>1 DEF CiInv, CiTypeOK, Values
<1>3. CiTypeOK'
  BY <1>1, <1>2 DEF CiInv, CiTypeOK
<1> QED BY <1>1, <1>3 DEF CiInv, Pushing, Sets

LEMMA OlderDocumentStep ==
  ASSUME CiInv, NEW i \in Bound, OlderDocument(i)
  PROVE  CiInv'
<1>1. /\ revision' = [revision EXCEPT ![i] = revision[i] - 1]
      /\ value' = [value EXCEPT ![i] = value[i] - 1]
      /\ revision[i] > 1 /\ overlapped' = TRUE /\ UNCHANGED <<place, holds, recorded, ci>>
  BY DEF OlderDocument
<1>2. revision \in Values /\ value \in Values /\ \A j \in Bound : revision[j] <= value[j]
  BY DEF CiInv, CiTypeOK
<1>3. revision' \in Values /\ value' \in Values /\ \A j \in Bound : revision'[j] <= value'[j]
  BY <1>1, <1>2 DEF Values
<1> QED BY <1>1, <1>3 DEF CiInv, CiTypeOK

-----------------------------------------------------------------------------
(* A kept target: the theorem.                                             *)

LEMMA CiAlways == CiSpec => []CiInv
<1>1. CInit => CiInv
  <2> SUFFICES ASSUME CInit PROVE CiInv
    OBVIOUS
  <2>1. CiTypeOK
    <3>1. CiIdle \in CiRecords
      BY CiIdleFacts
    <3>2. value \in Values /\ revision \in Values /\ holds \in Values
          /\ \A i \in Bound : revision[i] <= value[i]
      BY DEF CInit, Values, NotSet
    <3> QED BY <3>1, <3>2 DEF CInit, CiTypeOK
  <2>2. AtMost(holds, value)
    BY DEF CInit, AtMost, NotSet
  <2>3. \A c \in CiCommands : ci[c] = CiIdle
    BY DEF CInit
  <2> QED BY <2>1, <2>2, <2>3, CiIdleFacts DEF CInit, CiInv, Pushing
<1>2. CiInv /\ [CNext]_cvars => CiInv'
  <2> SUFFICES ASSUME CiInv, [CNext]_cvars PROVE CiInv'
    OBVIOUS
  <2>1. CASE ci_forget
    BY <2>1 DEF ci_forget, CiInv, CiTypeOK, Pushing, Sets
  <2>2. CASE UNCHANGED cvars
    BY <2>2 DEF cvars, CiInv, CiTypeOK, Pushing, Sets
  <2> QED BY <2>1, <2>2, CiBeginStep, RenewStep, ValuesStep, GithubStep, KubernetesStep, PushedStep,
             RecordStep, WriteStep, StopsStep, FollowRenameStep, NewRevisionStep, PurgeStep,
             OlderDocumentStep DEF CNext
<1> QED BY <1>1, <1>2, PTL DEF CiSpec

\* Until an item changes under a keep, two commands set the target at once or an
\* older document comes back, a kept target that is behind an item has it listed as
\* changed, whatever is refused, forgotten, renamed or dies, unless the item was
\* stored anew and came to the recorded number again; for any number of commands
\* and items.
THEOREM ChangedIsListed == CiSpec => []BehindIsListed
<1>1. CiInv => BehindIsListed
  <2> SUFFICES ASSUME CiInv, ~overlapped, recorded # NoEntry, NEW i \in Bound
               PROVE holds[i] = value[i] \/ i \in changed_since \cup reused
    BY DEF BehindIsListed
  <2>1. recorded \in Revisions /\ AtMost(recorded.of, holds) /\ AtMost(holds, value)
        /\ holds \in Values /\ value \in Values
    BY DEF CiInv, CiTypeOK
  <2>2. recorded.of[i] \in Nat /\ holds[i] \in Nat /\ value[i] \in Nat
        /\ recorded.of[i] <= holds[i] /\ holds[i] <= value[i]
    BY <2>1 DEF Revisions, Values, AtMost
  <2> QED BY <2>2 DEF changed_since, reused
<1> QED BY <1>1, CiAlways, PTL

-----------------------------------------------------------------------------
(* The key file: the inductive invariant.                                  *)

KeyFiles == [version : Nat, keys : [Fprs -> Entry \cup {Absent}]]
Rings == [version : Nat, phrase : Configured, keys : [Fprs -> Parsed \cup {Absent}]]
NewKey == [public : Blocks, secret : SecretHalf \cup {Absent}]
NewKeys == UNION {[D -> NewKey] : D \in SUBSET Fprs}
CmdRecords ==
  [pc : {"idle", "lock", "read", "write", "added", "ok", "missing"},
   keys : NewKeys \cup {Absent}, wanted : SUBSET Fprs, phrase : Configured,
   document : Rings \cup {Absent}]
ThreadRecords ==
  [pc : {"idle", "stamp", "cache", "read", "store", "loaded"}, phrase : Configured,
   stamp : Nat, began : Nat, ring : Rings \cup {Absent}]

KTypeOK ==
  /\ keyfile \in KeyFiles
  /\ phrase \in [now : Configured, changes : Nat]
  /\ home \in Homes
  /\ cmd \in [Commands -> CmdRecords]
  /\ thread \in [Threads -> ThreadRecords]

\* An entry once read, and what the file has of the key since.
StillIn(e, f) ==
  /\ f # Absent
  /\ e.secret # Absent => /\ f.secret # Absent
                          /\ f.secret = e.secret \/ (~e.secret.seed /\ f.secret.seed)
\* A file written over another: no key goes, no half goes, no seed goes.
Grows(file, next) ==
  /\ next \in KeyFiles /\ file.version <= next.version
  /\ \A k \in Fprs : file.keys[k] # Absent => StillIn(file.keys[k], next.keys[k])

\* A ring read once, and the file since.
RingOK(ring, file) ==
  /\ ring \in Rings
  /\ \A k \in Fprs : ring.keys[k] # Absent =>
       /\ StillIn(ring.keys[k], file.keys[k])
       /\ ring.keys[k].unlocked = "open" =>
            ring.keys[k].secret # Absent /\ unseal(ring.keys[k].secret, ring.phrase)

\* What a command added is in the file: ImportHolds of each of its keys.
Landed(m, file) ==
  \A k \in DOMAIN m.keys :
    /\ file.keys[k] # Absent
    /\ m.keys[k].secret # Absent =>
         /\ file.keys[k].secret # Absent
         /\ m.keys[k].secret.seed =>
              file.keys[k].secret.seed \/ file.keys[k].secret.under \notin {NoPhrase, m.phrase}

\* A command between reading the file and writing it holds the lock, and the
\* file is still as it read it.
CmdOK(c, m, file, lock) ==
  /\ m.pc \in {"read", "write"} => lock = c
  /\ m.pc \in {"lock", "read", "write", "added"} => m.keys \in NewKeys
  /\ m.pc = "write" => m.document = read_keys(file, m.phrase)
  /\ m.pc = "added" => Landed(m, file)
  /\ m.pc = "ok" => /\ \A k \in m.wanted : file.keys[k] # Absent
                    /\ m.keys # Absent => m.keys \in NewKeys /\ Landed(m, file)

\* A load: its stamp is no older than its beginning, its ring no older than its
\* stamp.
LoadOK(l, file) ==
  /\ l.pc # "idle" => l.began <= file.version
  /\ l.pc \in {"cache", "read", "store", "loaded"} => l.began <= l.stamp /\ l.stamp <= file.version
  /\ l.pc \in {"store", "loaded"} =>
       RingOK(l.ring, file) /\ l.ring.phrase = l.phrase /\ l.stamp <= l.ring.version
CacheOK(file) ==
  cache # Absent => /\ RingOK(cache.ring, file) /\ cache.ring.phrase = cache.phrase
                    /\ cache.version <= cache.ring.version

KInv ==
  /\ KTypeOK
  /\ \A c \in Commands : CmdOK(c, cmd[c], keyfile, klock)
  /\ \A t \in Threads : LoadOK(thread[t], keyfile)
  /\ CacheOK(keyfile)

-----------------------------------------------------------------------------
(* The key file: what its operators make.                                  *)

LEMMA NewKeysFacts ==
  ASSUME NEW x \in NewKeys
  PROVE  DOMAIN x \subseteq Fprs /\ \A k \in DOMAIN x : x[k] \in NewKey
BY DEF NewKeys

LEMMA ParseFacts ==
  ASSUME NEW e \in Entry, NEW ph \in Configured
  PROVE  LET p == parse_key(e, ph) IN
         /\ p \in Parsed /\ p # Absent /\ p.public = e.public /\ p.secret = e.secret
         /\ p.unlocked = "none" <=> e.secret = Absent
         /\ p.unlocked = "open" <=> e.secret # Absent /\ unseal(e.secret, ph)
BY KeyringAssumption DEF parse_key, Parsed, Entry

LEMMA ReadFacts ==
  ASSUME NEW file \in KeyFiles, NEW ph \in Configured
  PROVE  LET ring == read_keys(file, ph) IN
         /\ RingOK(ring, file) /\ ring.version = file.version /\ ring.phrase = ph
         /\ \A k \in Fprs : IF file.keys[k] = Absent THEN ring.keys[k] = Absent
                            ELSE ring.keys[k] = parse_key(file.keys[k], ph)
<1> DEFINE ring == read_keys(file, ph)
<1>1. /\ ring.version = file.version /\ ring.phrase = ph
      /\ \A k \in Fprs : IF file.keys[k] = Absent THEN ring.keys[k] = Absent
                         ELSE ring.keys[k] = parse_key(file.keys[k], ph)
  BY DEF read_keys
<1>2. \A k \in Fprs : file.keys[k] # Absent => file.keys[k] \in Entry
  BY DEF KeyFiles
<1>3. ring \in Rings
  BY <1>2, ParseFacts DEF read_keys, Rings, KeyFiles
<1>4. ASSUME NEW k \in Fprs, ring.keys[k] # Absent
      PROVE  /\ StillIn(ring.keys[k], file.keys[k])
             /\ ring.keys[k].unlocked = "open" =>
                  ring.keys[k].secret # Absent /\ unseal(ring.keys[k].secret, ring.phrase)
  <2>1. file.keys[k] \in Entry /\ file.keys[k] # Absent /\ ring.keys[k] = parse_key(file.keys[k], ph)
    BY <1>1, <1>2, <1>4
  <2> HIDE DEF ring
  <2> QED BY <1>1, <2>1, ParseFacts DEF StillIn
<1> QED BY <1>1, <1>3, <1>4 DEF RingOK

LEMMA StillInTrans ==
  ASSUME NEW e, NEW f, NEW g, StillIn(e, f), StillIn(f, g)
  PROVE  StillIn(e, g)
BY DEF StillIn

LEMMA RingKept ==
  ASSUME NEW file \in KeyFiles, NEW next, Grows(file, next), NEW ring, RingOK(ring, file)
  PROVE  RingOK(ring, next)
<1>1. \A k \in Fprs : ring.keys[k] # Absent => StillIn(ring.keys[k], next.keys[k])
  BY StillInTrans DEF RingOK, Grows, StillIn
<1> QED BY <1>1 DEF RingOK

LEMMA LandedKept ==
  ASSUME NEW file \in KeyFiles, NEW next, Grows(file, next), NEW m, m.keys \in NewKeys, Landed(m, file)
  PROVE  Landed(m, next)
BY NewKeysFacts DEF Landed, Grows, StillIn

-----------------------------------------------------------------------------
(* The key file: a command writes it.                                      *)

\* An entry written over the one read: the half that was there stays, or takes
\* the seed it lacked under a phrase that opened it.
AddedOK(e, old, new, ph) ==
  /\ e \in Entry /\ e # Absent
  /\ old # Absent => StillIn(old, e)
  /\ old # Absent /\ old.secret # Absent => e.secret = old.secret \/ unseal(old.secret, ph)
  /\ new.secret # Absent =>
       /\ e.secret # Absent
       /\ new.secret.seed => e.secret.seed \/ e.secret.under \notin {NoPhrase, ph}
LEMMA AddedFacts ==
  ASSUME NEW file \in KeyFiles, NEW ph \in Configured, NEW k \in Fprs, NEW new \in NewKey
  PROVE  AddedOK(added(read_keys(file, ph), k, new, ph), file.keys[k], new, ph)
<1> DEFINE ring == read_keys(file, ph)
           old == file.keys[k]
           e == added(ring, k, new, ph)
<1>1. /\ entry(new, ph) \in Entry /\ entry(new, ph) # Absent
      /\ (entry(new, ph).secret = Absent <=> new.secret = Absent)
      /\ new.secret # Absent => (new.secret.seed => entry(new, ph).secret.seed)
  BY KeyringAssumption DEF entry, NewKey, SecretHalf, Entry, Stored
<1>2. CASE old = Absent
  <2>1. e = entry(new, ph)
    BY <1>2, ReadFacts DEF added, find
  <2> HIDE DEF e
  <2> QED BY <1>1, <1>2, <2>1 DEF AddedOK, e
<1>3. CASE old # Absent
  <2> DEFINE p == parse_key(old, ph)
  <2>1. old \in Entry
    BY <1>3 DEF KeyFiles
  <2>2. /\ p \in Parsed /\ p # Absent /\ p.public = old.public /\ p.secret = old.secret
        /\ p.unlocked = "none" <=> old.secret = Absent
        /\ p.unlocked = "open" <=> old.secret # Absent /\ unseal(old.secret, ph)
    BY <2>1, ParseFacts
  <2>3. ring.keys[k] = p
    BY <1>3, ReadFacts
  <2> HIDE DEF p
  <2>4. CASE fuller(new, p)
    <3>1. e = entry(new, ph)
      BY <2>3, <2>4 DEF added
    <3>2. new.secret # Absent /\ old.secret # Absent =>
            ~old.secret.seed /\ new.secret.seed /\ unseal(old.secret, ph)
      BY <2>1, <2>2, <2>4 DEF fuller, whole, Parsed
    <3>3. new.secret # Absent
      BY <2>4 DEF fuller
    <3> HIDE DEF e, old
    <3>4. AddedOK(e, old, new, ph)
      BY <1>1, <3>1, <3>2, <3>3 DEF StillIn, AddedOK
    <3> QED BY <3>4 DEF e, old
  <2>5. CASE ~fuller(new, p)
    <3>1. e = [public |-> new.public, secret |-> old.secret]
      BY <2>2, <2>3, <2>5 DEF added, find
    <3>2. e \in Entry /\ e # Absent /\ e.secret = old.secret
      BY <2>1, <3>1, KeyringAssumption DEF Entry, NewKey
    <3>3. new.secret # Absent =>
            old.secret # Absent /\ (new.secret.seed => old.secret.seed \/ old.secret.under \notin {NoPhrase, ph})
      BY <2>1, <2>2, <2>5 DEF fuller, whole, unseal, Parsed
    <3> HIDE DEF e, old
    <3>4. AddedOK(e, old, new, ph)
      BY <3>2, <3>3 DEF StillIn, AddedOK
    <3> QED BY <3>4 DEF e, old
  <2> QED BY <2>4, <2>5
<1> QED BY <1>2, <1>3

\* A half written over another was open to the phrase.
Opened(file, next, ph) ==
  \A k \in Fprs : file.keys[k] # Absent /\ file.keys[k].secret # Absent =>
    next.keys[k].secret = file.keys[k].secret \/ unseal(file.keys[k].secret, ph)

\* What add_write leaves: the file grown, every key of the command in it, and no
\* half replaced that did not open.
LEMMA WriteFacts ==
  ASSUME KInv, NEW c \in Commands, add_write(c)
  PROVE  Grows(keyfile, keyfile') /\ Landed(cmd[c], keyfile') /\ Opened(keyfile, keyfile', cmd[c].phrase)
<1> DEFINE m == cmd[c]
           new == m.keys
           ring == m.document
           stored(k) == IF find(ring, k)
                        THEN [public |-> ring.keys[k].public, secret |-> ring.keys[k].secret]
                        ELSE Absent
           document == [k \in Fprs |-> IF k \in DOMAIN new THEN added(ring, k, new[k], m.phrase)
                                       ELSE stored(k)]
           changed == \E k \in DOMAIN new :
                        \/ document[k] # stored(k)
                        \/ find(ring, k) /\ fuller(new[k], ring.keys[k])
<1>1. /\ keyfile \in KeyFiles /\ m.phrase \in Configured /\ new \in NewKeys
      /\ ring = read_keys(keyfile, m.phrase)
  BY DEF KInv, KTypeOK, CmdOK, add_write, CmdRecords
<1>2. keyfile' = IF changed THEN [version |-> keyfile.version + 1, keys |-> document] ELSE keyfile
  BY DEF add_write
<1>3. \A k \in Fprs : stored(k) = keyfile.keys[k]
  <2> SUFFICES ASSUME NEW k \in Fprs PROVE stored(k) = keyfile.keys[k]
    OBVIOUS
  <2>1. CASE keyfile.keys[k] = Absent
    BY <1>1, <2>1, ReadFacts DEF find
  <2>2. CASE keyfile.keys[k] # Absent
    <3>1. keyfile.keys[k] \in Entry
      BY <1>1, <2>2 DEF KeyFiles
    <3>2. /\ ring.keys[k] # Absent /\ ring.keys[k].public = keyfile.keys[k].public
          /\ ring.keys[k].secret = keyfile.keys[k].secret
      BY <1>1, <2>2, <3>1, ReadFacts, ParseFacts
    <3> HIDE DEF ring
    <3> QED BY <3>1, <3>2 DEF find, Entry
  <2> QED BY <2>1, <2>2
<1>4. \A k \in Fprs : keyfile.keys[k] \in Entry \cup {Absent}
  BY <1>1 DEF KeyFiles
<1>5. \A k \in DOMAIN new :
        AddedOK(added(ring, k, new[k], m.phrase), keyfile.keys[k], new[k], m.phrase)
  BY <1>1, NewKeysFacts, AddedFacts
<1>6. \A k \in DOMAIN new : k \in Fprs /\ document[k] = added(ring, k, new[k], m.phrase)
  BY <1>1, NewKeysFacts
<1>7. \A k \in Fprs \ DOMAIN new : document[k] = keyfile.keys[k]
  BY <1>3
<1>8. document \in [Fprs -> Entry \cup {Absent}]
  BY <1>3, <1>4, <1>5, <1>6 DEF AddedOK
<1>9. CASE changed
  <2>1. keyfile' = [version |-> keyfile.version + 1, keys |-> document]
    BY <1>2, <1>9
  <2> HIDE DEF document, m
  <2>2. keyfile' \in KeyFiles /\ keyfile'.keys = document /\ keyfile.version <= keyfile'.version
    BY <1>1, <1>8, <2>1 DEF KeyFiles
  <2>3. \A k \in Fprs : keyfile.keys[k] # Absent => StillIn(keyfile.keys[k], document[k])
    BY <1>5, <1>6, <1>7 DEF StillIn, AddedOK
  <2>4. Grows(keyfile, keyfile')
    BY <2>2, <2>3 DEF Grows
  <2>5. Landed(m, keyfile')
    BY <1>5, <1>6, <2>2 DEF Landed, AddedOK
  <2>6. Opened(keyfile, keyfile', m.phrase)
    BY <1>5, <1>6, <1>7, <2>2 DEF Opened, AddedOK
  <2> QED BY <2>4, <2>5, <2>6 DEF m
<1>10. CASE ~changed
  <2>1. keyfile' = keyfile
    BY <1>2, <1>10
  <2>2. \A k \in DOMAIN new : document[k] = keyfile.keys[k]
    BY <1>3, <1>6, <1>10
  <2> HIDE DEF document, m
  <2>3. Grows(keyfile, keyfile')
    BY <1>1, <2>1 DEF Grows, StillIn, KeyFiles
  <2>4. Landed(m, keyfile')
    BY <1>5, <1>6, <2>1, <2>2 DEF Landed, AddedOK
  <2>5. Opened(keyfile, keyfile', m.phrase)
    BY <2>1 DEF Opened
  <2> QED BY <2>3, <2>4, <2>5 DEF m
<1> QED BY <1>9, <1>10

-----------------------------------------------------------------------------
(* The key file: the steps.                                                *)

LEMMA CommandMoves ==
  ASSUME KInv, NEW c \in Commands, NEW n \in CmdRecords, cmd' = [cmd EXCEPT ![c] = n],
         UNCHANGED <<keyfile, phrase, cache, home, thread>>,
         CmdOK(c, n, keyfile, klock'),
         \A d \in Commands \ {c} : klock = d => klock' = d
  PROVE  KInv'
<1>1. KTypeOK'
  BY DEF KInv, KTypeOK
<1>2. cmd'[c] = n /\ \A d \in Commands \ {c} : cmd'[d] = cmd[d]
  BY DEF KInv, KTypeOK
<1>3. \A d \in Commands \ {c} : CmdOK(d, cmd[d], keyfile, klock')
  BY DEF KInv, CmdOK
<1>4. \A d \in Commands : CmdOK(d, cmd[d], keyfile, klock)'
  BY <1>2, <1>3
<1>5. (\A t \in Threads : LoadOK(thread[t], keyfile))' /\ CacheOK(keyfile)'
  BY DEF KInv, CacheOK
<1> QED BY <1>1, <1>4, <1>5 DEF KInv

LEMMA StartStep ==
  ASSUME KInv, NEW c \in Commands, NEW pc \in {"lock", "ok"}, NEW new \in NewKeys \cup {Absent},
         NEW want \in SUBSET Fprs, Starts(c, pc, new, want),
         UNCHANGED <<keyfile, phrase, klock, cache, home, thread>>,
         pc = "lock" => new \in NewKeys,
         pc = "ok" => new = Absent /\ \A k \in want : keyfile.keys[k] # Absent
  PROVE  KInv'
<1>1. PICK n \in CmdRecords : /\ n = [NoCmd EXCEPT !.pc = pc, !.keys = new, !.wanted = want]
                              /\ n.pc = pc /\ n.keys = new /\ n.wanted = want
  <2>1. PICK i : i = NoCmd
    OBVIOUS
  <2>2. i \in CmdRecords
    BY <2>1 DEF NoCmd, CmdRecords, Configured
  <2>3. PICK p : p = [i EXCEPT !.pc = pc]
    OBVIOUS
  <2>4. p \in CmdRecords /\ p.pc = pc
    BY <2>2, <2>3 DEF CmdRecords
  <2>5. PICK q : q = [p EXCEPT !.keys = new]
    OBVIOUS
  <2>6. q \in CmdRecords /\ q.pc = pc /\ q.keys = new
    BY <2>4, <2>5 DEF CmdRecords
  <2>7. PICK n : n = [q EXCEPT !.wanted = want]
    OBVIOUS
  <2>8. n \in CmdRecords /\ n.pc = pc /\ n.keys = new /\ n.wanted = want
    BY <2>6, <2>7 DEF CmdRecords
  <2>9. n = [i EXCEPT !.pc = pc, !.keys = new, !.wanted = want]
    BY <2>2, <2>3, <2>5, <2>7 DEF CmdRecords
  <2> QED BY <2>1, <2>8, <2>9
<1>2. cmd' = [cmd EXCEPT ![c] = n]
  BY <1>1 DEF Starts
<1>3. CmdOK(c, n, keyfile, klock')
  BY <1>1 DEF CmdOK
<1> QED BY <1>2, <1>3, CommandMoves

LEMMA GenerateStep ==
  ASSUME KInv, NEW c \in Commands, generate_key(c)
  PROVE  KInv'
<1> DEFINE b == CHOOSE b \in Blocks : TRUE
<1>1. b \in Blocks
  BY KeyringAssumption
<1>2. PICK k \in Fprs :
        Starts(c, "lock", [x \in {k} |-> [public |-> b, secret |-> [seed |-> TRUE]]], {})
  BY DEF generate_key
<1> HIDE DEF b
<1>3. [x \in {k} |-> [public |-> b, secret |-> [seed |-> TRUE]]] \in [{k} -> NewKey]
  BY <1>1 DEF NewKey, SecretHalf
<1>4. PICK new \in NewKeys : new = [x \in {k} |-> [public |-> b, secret |-> [seed |-> TRUE]]]
  BY <1>3 DEF NewKeys
<1>5. PICK pc \in {"lock"} : pc = "lock"
  OBVIOUS
<1>6. PICK want \in SUBSET Fprs : want = {}
  OBVIOUS
<1>7. Starts(c, pc, new, want)
  BY <1>2, <1>4, <1>5, <1>6
<1>8. UNCHANGED <<keyfile, phrase, klock, cache, home, thread>>
  BY DEF generate_key
<1> QED BY <1>5, <1>7, <1>8, StartStep

LEMMA ImportKeyStep ==
  ASSUME KInv, NEW c \in Commands, import_key(c)
  PROVE  KInv'
<1>1. PICK keys \in SUBSET Fprs, b \in Blocks :
        Starts(c, "lock", [x \in keys |-> [public |-> b, secret |-> Absent]], {})
  BY DEF import_key
<1>2. [x \in keys |-> [public |-> b, secret |-> Absent]] \in [keys -> NewKey]
  BY DEF NewKey
<1>3. PICK new \in NewKeys : new = [x \in keys |-> [public |-> b, secret |-> Absent]]
  BY <1>2 DEF NewKeys
<1>4. PICK pc \in {"lock"} : pc = "lock"
  OBVIOUS
<1>5. PICK want \in SUBSET Fprs : want = {}
  OBVIOUS
<1>6. Starts(c, pc, new, want)
  BY <1>1, <1>3, <1>4, <1>5
<1>7. UNCHANGED <<keyfile, phrase, klock, cache, home, thread>>
  BY DEF import_key
<1> QED BY <1>4, <1>6, <1>7, StartStep

LEMMA HalfFacts ==
  ASSUME KInv, NEW k \in Offered, NEW ph, secret_half(k, ph) # {}
  PROVE  [public |-> home[k].public, secret |-> CHOOSE h \in secret_half(k, ph) : TRUE] \in NewKey
         /\ k \in Fprs
<1>1. home # Absent /\ k \in DOMAIN home /\ home \in Homes
  BY DEF Offered, keyblocks, KInv, KTypeOK
<1>2. home[k] \in HomeKey /\ k \in Fprs
  BY <1>1, KeyringAssumption
<1>3. secret_half(k, ph) \subseteq SecretHalf \cup {Absent}
  <2>1. PICK s \in BOOLEAN : s = (home[k].signing # Absent /\ Opens(home[k].signing, ph))
    BY Zenon
  <2>2. [seed |-> s] \in SecretHalf
    BY DEF SecretHalf
  <2> QED BY <2>1, <2>2 DEF secret_half
<1>4. (CHOOSE h \in secret_half(k, ph) : TRUE) \in SecretHalf \cup {Absent}
  BY <1>3
<1> QED BY <1>2, <1>4 DEF NewKey, HomeKey

LEMMA KeysImportStep ==
  ASSUME KInv, NEW c \in Commands, keys_import(c)
  PROVE  KInv'
<1> DEFINE half(k) == secret_half(k, phrase.now)
           Found(want) == want \cap Offered
           Given(want) == [k \in Found(want) |->
                             [public |-> home[k].public, secret |-> CHOOSE h \in half(k) : TRUE]]
<1>1. UNCHANGED <<keyfile, phrase, klock, cache, home, thread>>
  BY DEF keys_import
<1>2. PICK want \in SUBSET Fprs, items \in BOOLEAN :
        \/ UNCHANGED cmd
        \/ served_by_key_file(want, items) /\ Starts(c, "ok", Absent, want)
        \/ (\A k \in Found(want) : half(k) # {}) /\ Starts(c, "lock", Given(want), want)
  BY DEF keys_import
<1>3. CASE UNCHANGED cmd
  BY <1>1, <1>3 DEF KInv, KTypeOK, CacheOK
<1>4. CASE served_by_key_file(want, items) /\ Starts(c, "ok", Absent, want)
  <2>1. keyfile \in KeyFiles /\ phrase.now \in Configured
    BY DEF KInv, KTypeOK
  <2>2. \A k \in want : keyfile.keys[k] # Absent
    BY <1>4, <2>1, ReadFacts DEF served_by_key_file, find
  <2>3. PICK pc \in {"ok"}, new \in {Absent} : pc = "ok" /\ new = Absent
    OBVIOUS
  <2> QED BY <1>1, <1>4, <2>2, <2>3, StartStep
<1>5. CASE (\A k \in Found(want) : half(k) # {}) /\ Starts(c, "lock", Given(want), want)
  <2>1. Given(want) \in [Found(want) -> NewKey] /\ Found(want) \in SUBSET Fprs
    BY <1>5, HalfFacts
  <2>2. PICK new \in NewKeys : new = Given(want)
    BY <2>1 DEF NewKeys
  <2>3. PICK pc \in {"lock"} : pc = "lock"
    OBVIOUS
  <2> HIDE DEF Given, Found
  <2> QED BY <1>1, <1>5, <2>2, <2>3, StartStep
<1> QED BY <1>2, <1>3, <1>4, <1>5

LEMMA LockStep ==
  ASSUME KInv, NEW c \in Commands, lock_exclusive(c)
  PROVE  KInv'
<1> DEFINE m == cmd[c]
<1>1. m \in CmdRecords /\ m.pc = "lock" /\ CmdOK(c, m, keyfile, klock)
  BY DEF lock_exclusive, KInv, KTypeOK
<1>2. PICK n : n = [m EXCEPT !.pc = "read"]
  OBVIOUS
<1>3. /\ cmd' = [cmd EXCEPT ![c] = n] /\ klock = Absent /\ klock' = c
      /\ UNCHANGED <<keyfile, phrase, cache, home, thread>>
  BY <1>2 DEF lock_exclusive, KInv, KTypeOK
<1> HIDE DEF m
<1>4. n \in CmdRecords /\ n.pc = "read" /\ n.keys = m.keys
  BY <1>1, <1>2 DEF CmdRecords
<1>5. CmdOK(c, n, keyfile, klock')
  BY <1>1, <1>3, <1>4 DEF CmdOK
<1>6. \A d \in Commands \ {c} : klock = d => klock' = d
  BY <1>3, KeyringAssumption
<1> QED BY <1>3, <1>4, <1>5, <1>6, CommandMoves

LEMMA ReadStep ==
  ASSUME KInv, NEW c \in Commands, add_read(c)
  PROVE  KInv'
<1> DEFINE m == cmd[c]
           ring == read_keys(keyfile, phrase.now)
<1>1. m \in CmdRecords /\ m.pc = "read" /\ CmdOK(c, m, keyfile, klock)
  BY DEF add_read, KInv, KTypeOK
<1>2. phrase.now \in Configured /\ ring \in Rings
  BY ReadFacts DEF KInv, KTypeOK, RingOK
<1>3. PICK p, q, n : /\ p = [m EXCEPT !.pc = "write"]
                     /\ q = [p EXCEPT !.phrase = phrase.now]
                     /\ n = [q EXCEPT !.document = ring]
  OBVIOUS
<1>4. cmd' = [cmd EXCEPT ![c].pc = "write", ![c].phrase = phrase.now, ![c].document = ring]
      /\ UNCHANGED <<keyfile, phrase, klock, cache, home, thread>>
  BY DEF add_read
<1>5. cmd \in [Commands -> CmdRecords]
  BY DEF KInv, KTypeOK
<1> HIDE DEF ring
<1>6. cmd' = [cmd EXCEPT ![c] = n]
  <2>1. cmd' = [cmd EXCEPT ![c] = [m EXCEPT !.pc = "write", !.phrase = phrase.now, !.document = ring]]
    BY <1>4, <1>5
  <2>2. n = [m EXCEPT !.pc = "write", !.phrase = phrase.now, !.document = ring]
    <3> HIDE DEF m
    <3> QED BY <1>1, <1>3 DEF CmdRecords
  <2> QED BY <2>1, <2>2
<1> HIDE DEF m
<1>7. p \in CmdRecords /\ p.pc = "write" /\ p.keys = m.keys
  BY <1>1, <1>3 DEF CmdRecords
<1>8. q \in CmdRecords /\ q.pc = "write" /\ q.keys = m.keys /\ q.phrase = phrase.now
  BY <1>2, <1>3, <1>7 DEF CmdRecords
<1>9. n \in CmdRecords /\ n.pc = "write" /\ n.keys = m.keys /\ n.phrase = phrase.now /\ n.document = ring
  BY <1>2, <1>3, <1>8 DEF CmdRecords
<1>10. CmdOK(c, n, keyfile, klock')
  BY <1>1, <1>4, <1>9 DEF CmdOK, ring
<1> QED BY <1>4, <1>6, <1>9, <1>10, CommandMoves

\* The file grows under everything that read it; no other command is between
\* its read and its write, since this one holds the lock.
LEMMA AddWriteStep ==
  ASSUME KInv, NEW c \in Commands, add_write(c)
  PROVE  KInv'
<1> DEFINE m == cmd[c]
<1>1. m \in CmdRecords /\ m.pc = "write" /\ CmdOK(c, m, keyfile, klock) /\ keyfile \in KeyFiles
  BY DEF add_write, KInv, KTypeOK
<1>2. Grows(keyfile, keyfile') /\ Landed(m, keyfile')
  BY WriteFacts
<1>3. PICK p, n : p = [m EXCEPT !.pc = "added"] /\ n = [p EXCEPT !.document = Absent]
  OBVIOUS
<1>4. /\ cmd' = [cmd EXCEPT ![c].pc = "added", ![c].document = Absent] /\ klock' = Absent
      /\ UNCHANGED <<phrase, cache, home, thread>>
  BY DEF add_write
<1>5. cmd \in [Commands -> CmdRecords]
  BY DEF KInv, KTypeOK
<1>6. cmd' = [cmd EXCEPT ![c] = n]
  <2>1. cmd' = [cmd EXCEPT ![c] = [m EXCEPT !.pc = "added", !.document = Absent]]
    BY <1>4, <1>5
  <2>2. n = [m EXCEPT !.pc = "added", !.document = Absent]
    <3> HIDE DEF m
    <3> QED BY <1>1, <1>3 DEF CmdRecords
  <2> QED BY <2>1, <2>2
<1>7. n \in CmdRecords /\ n.pc = "added" /\ n.keys = m.keys /\ n.phrase = m.phrase
  <2> HIDE DEF m
  <2>1. p \in CmdRecords /\ p.pc = "added" /\ p.keys = m.keys /\ p.phrase = m.phrase
    BY <1>1, <1>3 DEF CmdRecords
  <2> QED BY <1>3, <2>1 DEF CmdRecords
<1>8. CmdOK(c, n, keyfile', klock')
  <2> HIDE DEF m
  <2> QED BY <1>1, <1>2, <1>7 DEF CmdOK, Landed
<1>9. ASSUME NEW d \in Commands \ {c}
      PROVE  CmdOK(d, cmd[d], keyfile', klock')
  <2>1. CmdOK(d, cmd[d], keyfile, klock) /\ klock = c
    BY <1>1 DEF KInv, CmdOK
  <2>2. cmd[d].pc \notin {"read", "write"}
    BY <2>1, <1>9 DEF CmdOK
  <2>3. cmd[d].keys \in NewKeys /\ Landed(cmd[d], keyfile) => Landed(cmd[d], keyfile')
    BY <1>1, <1>2, LandedKept
  <2>4. \A k \in cmd[d].wanted : keyfile.keys[k] # Absent => keyfile'.keys[k] # Absent
    <3>1. cmd[d].wanted \subseteq Fprs
      BY <1>5, <1>9 DEF CmdRecords
    <3> QED BY <3>1, <1>2 DEF Grows, StillIn
  <2> QED BY <2>1, <2>2, <2>3, <2>4 DEF CmdOK
<1>10. \A d \in Commands : CmdOK(d, cmd[d], keyfile, klock)'
  <2>1. cmd'[c] = n /\ \A d \in Commands \ {c} : cmd'[d] = cmd[d]
    BY <1>5, <1>6
  <2> QED BY <1>8, <1>9, <2>1
<1>11. \A ring : RingOK(ring, keyfile) => RingOK(ring, keyfile')
  BY <1>1, <1>2, RingKept
<1>12. ASSUME NEW t \in Threads PROVE LoadOK(thread[t], keyfile')
  <2>1. /\ LoadOK(thread[t], keyfile) /\ thread[t] \in ThreadRecords
        /\ keyfile.version \in Nat /\ keyfile'.version \in Nat /\ keyfile.version <= keyfile'.version
    BY <1>1, <1>2 DEF KInv, KTypeOK, Grows, KeyFiles
  <2>2. thread[t].began \in Nat /\ thread[t].stamp \in Nat
    BY <2>1 DEF ThreadRecords
  <2> QED BY <1>11, <2>1, <2>2 DEF LoadOK
<1>13. KTypeOK'
  BY <1>2, <1>4, <1>5, <1>6, <1>7 DEF KInv, KTypeOK, Grows
<1>14. CacheOK(keyfile)'
  BY <1>4, <1>11 DEF KInv, CacheOK
<1> QED BY <1>4, <1>10, <1>12, <1>13, <1>14 DEF KInv

LEMMA AnsweredStep ==
  ASSUME KInv, NEW c \in Commands, Answered(c)
  PROVE  KInv'
<1> DEFINE m == cmd[c]
<1>1. m \in CmdRecords /\ m.pc = "added" /\ CmdOK(c, m, keyfile, klock)
  BY DEF Answered, KInv, KTypeOK
<1>2. PICK pc \in {"ok", "missing"} :
        /\ pc = IF m.wanted \subseteq DOMAIN m.keys THEN "ok" ELSE "missing"
        /\ pc = "ok" => m.wanted \subseteq DOMAIN m.keys
  OBVIOUS
<1>3. PICK n : n = [m EXCEPT !.pc = pc]
  OBVIOUS
<1>4. /\ cmd' = [cmd EXCEPT ![c] = n]
      /\ UNCHANGED <<keyfile, phrase, klock, cache, home, thread>>
  BY <1>2, <1>3 DEF Answered, KInv, KTypeOK
<1> HIDE DEF m
<1>5. /\ n \in CmdRecords /\ n.pc = pc /\ n.keys = m.keys /\ n.wanted = m.wanted
      /\ n.phrase = m.phrase
  BY <1>1, <1>3 DEF CmdRecords
<1>6. Landed(n, keyfile)
  BY <1>1, <1>5 DEF CmdOK, Landed
<1>7. pc = "ok" => \A k \in n.wanted : keyfile.keys[k] # Absent
  BY <1>2, <1>5, <1>6 DEF Landed
<1>8. CmdOK(c, n, keyfile, klock')
  BY <1>1, <1>5, <1>6, <1>7 DEF CmdOK
<1> QED BY <1>4, <1>5, <1>8, CommandMoves

LEMMA NoCmdFacts == NoCmd \in CmdRecords /\ NoCmd.pc = "idle"
BY DEF NoCmd, CmdRecords, Configured

LEMMA CommandEndsStep ==
  ASSUME KInv, NEW c \in Commands, CommandEnds(c)
  PROVE  KInv'
<1>1. /\ cmd' = [cmd EXCEPT ![c] = NoCmd]
      /\ klock' = IF klock = c THEN Absent ELSE klock
      /\ UNCHANGED <<keyfile, phrase, cache, home, thread>>
  BY DEF CommandEnds
<1>2. \A d \in Commands \ {c} : klock = d => klock' = d
  BY <1>1
<1>3. CmdOK(c, NoCmd, keyfile, klock')
  BY NoCmdFacts DEF CmdOK
<1> QED BY <1>1, <1>2, <1>3, NoCmdFacts, CommandMoves

LEMMA PhraseStep ==
  ASSUME KInv, unlock_phrase
  PROVE  KInv'
<1>1. phrase' \in [now : Configured, changes : Nat]
  BY DEF unlock_phrase, KInv, KTypeOK
<1> QED BY <1>1 DEF unlock_phrase, KInv, KTypeOK, CacheOK

LEMMA ThreadMoves ==
  ASSUME KInv, NEW t \in Threads, NEW n \in ThreadRecords, thread' = [thread EXCEPT ![t] = n],
         UNCHANGED <<keyfile, phrase, klock, home, cmd>>,
         LoadOK(n, keyfile), CacheOK(keyfile)'
  PROVE  KInv'
<1>1. KTypeOK'
  BY DEF KInv, KTypeOK
<1>2. thread'[t] = n /\ \A u \in Threads \ {t} : thread'[u] = thread[u]
  BY DEF KInv, KTypeOK
<1>3. \A u \in Threads : LoadOK(thread'[u], keyfile)
  BY <1>2 DEF KInv
<1> QED BY <1>1, <1>3 DEF KInv

LEMMA NoLoadFacts == NoLoad \in ThreadRecords /\ NoLoad.pc = "idle" /\ NoLoad.stamp = 0
BY DEF NoLoad, ThreadRecords, Configured

LEMMA LoadStep ==
  ASSUME KInv, NEW t \in Threads, load(t)
  PROVE  KInv'
<1>1. phrase.now \in Configured /\ keyfile.version \in Nat
  BY DEF KInv, KTypeOK, KeyFiles
<1>2. PICK i, p, q, n : /\ i = NoLoad /\ p = [i EXCEPT !.pc = "stamp"]
                        /\ q = [p EXCEPT !.phrase = phrase.now]
                        /\ n = [q EXCEPT !.began = keyfile.version]
  OBVIOUS
<1>3. i \in ThreadRecords
  BY <1>2, NoLoadFacts
<1>4. p \in ThreadRecords /\ p.pc = "stamp"
  BY <1>2, <1>3 DEF ThreadRecords
<1>5. q \in ThreadRecords /\ q.pc = "stamp"
  BY <1>1, <1>2, <1>4 DEF ThreadRecords
<1>6. n \in ThreadRecords /\ n.pc = "stamp" /\ n.began = keyfile.version
  BY <1>1, <1>2, <1>5 DEF ThreadRecords
<1>7. n = [i EXCEPT !.pc = "stamp", !.phrase = phrase.now, !.began = keyfile.version]
  BY <1>2, <1>3 DEF ThreadRecords
<1>8. thread' = [thread EXCEPT ![t] = n] /\ UNCHANGED <<keyfile, phrase, klock, cache, home, cmd>>
  BY <1>2, <1>7 DEF load
<1>9. LoadOK(n, keyfile) /\ CacheOK(keyfile)'
  BY <1>1, <1>6, <1>8 DEF LoadOK, KInv, CacheOK
<1> QED BY <1>6, <1>8, <1>9, ThreadMoves

LEMMA StampStep ==
  ASSUME KInv, NEW t \in Threads, stamp(t)
  PROVE  KInv'
<1> DEFINE l == thread[t]
<1>1. /\ l \in ThreadRecords /\ l.pc = "stamp" /\ LoadOK(l, keyfile) /\ keyfile.version \in Nat
      /\ thread \in [Threads -> ThreadRecords]
  BY DEF stamp, KInv, KTypeOK, KeyFiles
<1>2. PICK p, n : p = [l EXCEPT !.pc = "cache"] /\ n = [p EXCEPT !.stamp = keyfile.version]
  OBVIOUS
<1>3. n = [l EXCEPT !.pc = "cache", !.stamp = keyfile.version]
  <2> HIDE DEF l
  <2> QED BY <1>1, <1>2 DEF ThreadRecords
<1>4. thread' = [thread EXCEPT ![t] = n] /\ UNCHANGED <<keyfile, phrase, klock, cache, home, cmd>>
  BY <1>1, <1>3 DEF stamp
<1> HIDE DEF l
<1>5. p \in ThreadRecords /\ p.pc = "cache" /\ p.began = l.began
  BY <1>1, <1>2 DEF ThreadRecords
<1>6. n \in ThreadRecords /\ n.pc = "cache" /\ n.began = l.began /\ n.stamp = keyfile.version
  BY <1>1, <1>2, <1>5 DEF ThreadRecords
<1>7. LoadOK(n, keyfile) /\ CacheOK(keyfile)'
  BY <1>1, <1>4, <1>6 DEF LoadOK, KInv, CacheOK
<1> QED BY <1>4, <1>6, <1>7, ThreadMoves

\* A thread that takes its next step with a ring.
WithRing(n, l, pc, ring) ==
  /\ n = [l EXCEPT !.pc = pc, !.ring = ring]
  /\ n.pc = pc /\ n.phrase = l.phrase /\ n.stamp = l.stamp /\ n.began = l.began
  /\ n.ring = ring
LEMMA RingFacts ==
  ASSUME NEW l \in ThreadRecords, NEW pc \in {"store", "loaded"}, NEW ring \in Rings
  PROVE  \E n \in ThreadRecords : WithRing(n, l, pc, ring)
<1>1. PICK p : p = [l EXCEPT !.pc = pc]
  OBVIOUS
<1>2. /\ p \in ThreadRecords /\ p.pc = pc /\ p.phrase = l.phrase /\ p.stamp = l.stamp
      /\ p.began = l.began /\ p.ring = l.ring
  BY <1>1 DEF ThreadRecords
<1>3. PICK n : n = [p EXCEPT !.ring = ring]
  OBVIOUS
<1>4. n = [l EXCEPT !.pc = pc, !.ring = ring]
  BY <1>1, <1>3 DEF ThreadRecords
<1>5. /\ n \in ThreadRecords /\ n.pc = pc /\ n.phrase = l.phrase /\ n.stamp = l.stamp
      /\ n.began = l.began /\ n.ring = ring
  BY <1>2, <1>3 DEF ThreadRecords
<1> QED BY <1>4, <1>5 DEF WithRing

LEMMA CachedStep ==
  ASSUME KInv, NEW t \in Threads, cached(t)
  PROVE  KInv'
<1> DEFINE l == thread[t]
<1>1. /\ l \in ThreadRecords /\ l.pc = "cache" /\ LoadOK(l, keyfile) /\ keyfile.version \in Nat
      /\ thread \in [Threads -> ThreadRecords] /\ CacheOK(keyfile)
      /\ UNCHANGED <<keyfile, phrase, klock, cache, home, cmd>>
  BY DEF cached, KInv, KTypeOK, KeyFiles
<1>2. CacheOK(keyfile)'
  BY <1>1 DEF CacheOK
<1>3. CASE Hit(t)
  <2>1. /\ RingOK(cache.ring, keyfile) /\ cache.ring.phrase = l.phrase /\ l.stamp <= cache.ring.version
    BY <1>1, <1>3 DEF Hit, CacheOK
  <2>2. PICK ring \in Rings : ring = cache.ring
    BY <2>1 DEF RingOK
  <2>3. PICK pc \in {"loaded"} : pc = "loaded"
    OBVIOUS
  <2>4. PICK n \in ThreadRecords : WithRing(n, l, pc, ring)
    <3> HIDE DEF l
    <3> QED BY <1>1, RingFacts
  <2>5. thread' = [thread EXCEPT ![t] = n]
    BY <1>1, <1>3, <2>2, <2>3, <2>4 DEF cached, WithRing
  <2>6. LoadOK(n, keyfile)
    <3> HIDE DEF l
    <3> QED BY <1>1, <2>1, <2>2, <2>3, <2>4 DEF LoadOK, WithRing
  <2> QED BY <1>1, <1>2, <2>5, <2>6, ThreadMoves
<1>4. CASE ~Hit(t)
  <2>1. PICK n : n = [l EXCEPT !.pc = "read"]
    OBVIOUS
  <2>2. thread' = [thread EXCEPT ![t] = n]
    BY <1>1, <1>4, <2>1 DEF cached
  <2> HIDE DEF l
  <2>3. n \in ThreadRecords /\ n.pc = "read" /\ n.stamp = l.stamp /\ n.began = l.began
    BY <1>1, <2>1 DEF ThreadRecords
  <2>4. LoadOK(n, keyfile)
    BY <1>1, <2>3 DEF LoadOK
  <2> QED BY <1>1, <1>2, <2>2, <2>3, <2>4, ThreadMoves
<1> QED BY <1>3, <1>4

LEMMA ReadRingStep ==
  ASSUME KInv, NEW t \in Threads, read_ring(t)
  PROVE  KInv'
<1> DEFINE l == thread[t]
           file == read_keys(keyfile, l.phrase)
<1>1. /\ l \in ThreadRecords /\ l.pc = "read" /\ LoadOK(l, keyfile) /\ keyfile \in KeyFiles
      /\ thread \in [Threads -> ThreadRecords] /\ CacheOK(keyfile)
      /\ UNCHANGED <<keyfile, phrase, klock, cache, home, cmd>>
  BY DEF read_ring, KInv, KTypeOK
<1>2. CacheOK(keyfile)'
  BY <1>1 DEF CacheOK
<1>3. CASE thread' = [thread EXCEPT ![t] = NoLoad]
  BY <1>1, <1>2, <1>3, NoLoadFacts, ThreadMoves DEF LoadOK
<1>4. CASE thread' = [thread EXCEPT ![t].pc = "store", ![t].ring = file]
  <2>1. l.phrase \in Configured
    BY <1>1 DEF ThreadRecords
  <2>2. RingOK(file, keyfile) /\ file.phrase = l.phrase /\ file.version = keyfile.version
    BY <1>1, <2>1, ReadFacts
  <2> HIDE DEF file
  <2>3. PICK ring \in Rings : ring = file
    BY <2>2 DEF RingOK
  <2>4. PICK pc \in {"store"} : pc = "store"
    OBVIOUS
  <2>5. PICK n \in ThreadRecords : WithRing(n, l, pc, ring)
    <3> HIDE DEF l
    <3> QED BY <1>1, RingFacts
  <2>6. thread' = [thread EXCEPT ![t] = n]
    BY <1>1, <1>4, <2>3, <2>4, <2>5 DEF WithRing
  <2>7. LoadOK(n, keyfile)
    <3> HIDE DEF l
    <3> QED BY <1>1, <2>2, <2>3, <2>4, <2>5 DEF LoadOK, WithRing
  <2> QED BY <1>1, <1>2, <2>6, <2>7, ThreadMoves
<1> QED BY <1>3, <1>4 DEF read_ring

LEMMA StoredStep ==
  ASSUME KInv, NEW t \in Threads, stored_ring(t)
  PROVE  KInv'
<1> DEFINE l == thread[t]
<1>1. /\ l \in ThreadRecords /\ l.pc = "store" /\ LoadOK(l, keyfile)
      /\ thread \in [Threads -> ThreadRecords]
      /\ cache' = [version |-> l.stamp, phrase |-> l.phrase, ring |-> l.ring]
      /\ UNCHANGED <<keyfile, phrase, klock, home, cmd>>
  BY DEF stored_ring, KInv, KTypeOK
<1>2. PICK n : n = [l EXCEPT !.pc = "loaded"]
  OBVIOUS
<1>3. thread' = [thread EXCEPT ![t] = n]
  BY <1>1, <1>2 DEF stored_ring
<1> HIDE DEF l
<1>4. /\ n \in ThreadRecords /\ n.pc = "loaded" /\ n.phrase = l.phrase /\ n.stamp = l.stamp
      /\ n.began = l.began /\ n.ring = l.ring
  BY <1>1, <1>2 DEF ThreadRecords
<1>5. RingOK(l.ring, keyfile) /\ l.ring.phrase = l.phrase /\ l.stamp <= l.ring.version
  BY <1>1 DEF LoadOK
<1>6. LoadOK(n, keyfile)
  BY <1>1, <1>4, <1>5 DEF LoadOK
<1>7. cache'.ring = l.ring /\ cache'.phrase = l.phrase /\ cache'.version = l.stamp
  BY <1>1
<1>8. CacheOK(keyfile)'
  BY <1>1, <1>5, <1>7 DEF CacheOK
<1> QED BY <1>1, <1>3, <1>4, <1>6, <1>8, ThreadMoves

LEMMA UsedStep ==
  ASSUME KInv, NEW t \in Threads, Used(t)
  PROVE  KInv'
BY NoLoadFacts, ThreadMoves DEF Used, LoadOK, KInv, CacheOK

-----------------------------------------------------------------------------
(* The key file: the theorems.                                             *)

LEMMA KAlways == KSpec => []KInv
<1>1. KInit => KInv
  <2> SUFFICES ASSUME KInit PROVE KInv
    OBVIOUS
  <2>1. KTypeOK
    BY NoCmdFacts, NoLoadFacts DEF KInit, KTypeOK, KeyFiles
  <2>2. \A c \in Commands : cmd[c] = NoCmd
    BY DEF KInit
  <2>3. \A t \in Threads : thread[t] = NoLoad
    BY DEF KInit
  <2>4. CacheOK(keyfile)
    BY DEF KInit, CacheOK
  <2> QED BY <2>1, <2>2, <2>3, <2>4, NoCmdFacts, NoLoadFacts DEF KInv, CmdOK, LoadOK
<1>2. KInv /\ [KNext]_kvars => KInv'
  <2> SUFFICES ASSUME KInv, [KNext]_kvars PROVE KInv'
    OBVIOUS
  <2>1. CASE UNCHANGED kvars
    BY <2>1 DEF kvars, KInv, KTypeOK, CacheOK
  <2> QED BY <2>1, GenerateStep, ImportKeyStep, KeysImportStep, LockStep, ReadStep, AddWriteStep,
             AnsweredStep, CommandEndsStep, PhraseStep, LoadStep, StampStep, CachedStep,
             ReadRingStep, StoredStep, UsedStep DEF KNext
<1> QED BY <1>1, <1>2, PTL DEF KSpec

\* What a load, can_sign_as and an import answered of the key file is so and stays
\* so, for any number of commands, threads, keys and phrases, whoever dies.
THEOREM AnswersStand == KSpec => []KeysStand
<1>1. KInv => KeysStand
  <2> SUFFICES ASSUME KInv PROVE KeysStand
    OBVIOUS
  <2>1. ASSUME NEW t \in Threads, thread[t].pc = "loaded"
        PROVE  /\ thread[t].ring.version >= thread[t].began
               /\ thread[t].ring.phrase = thread[t].phrase
               /\ RingOK(thread[t].ring, keyfile)
    <3>1. thread[t] \in ThreadRecords /\ LoadOK(thread[t], keyfile)
      BY DEF KInv, KTypeOK
    <3>2. thread[t].ring.version \in Nat /\ thread[t].began \in Nat /\ thread[t].stamp \in Nat
      BY <2>1, <3>1 DEF LoadOK, RingOK, Rings, ThreadRecords
    <3> QED BY <2>1, <3>1, <3>2 DEF LoadOK
  <2>2. CanSignStands
    BY <2>1 DEF CanSignStands, secret_key_present, can_sign_as, secrets, find, RingOK, StillIn
  <2>3. ImportHolds
    BY DEF ImportHolds, KInv, CmdOK, Landed
  <2> QED BY <2>1, <2>2, <2>3 DEF KeysStand, LoadFresh
<1> QED BY <1>1, KAlways, PTL

\* A secret half is written again only under a phrase that opened it, with the seed
\* it lacked, by the command that holds the key file's lock.
THEOREM HalvesKept == KSpec => HalfKept
<1>1. KInv /\ [KNext]_kvars => [HalfStep]_kvars
  <2> SUFFICES ASSUME KInv, [KNext]_kvars, NEW k \in Fprs,
                      keyfile.keys[k] # Absent, keyfile.keys[k].secret # Absent
               PROVE  LET half == keyfile.keys[k].secret
                          later == IF keyfile'.keys[k] = Absent THEN [seed |-> FALSE]
                                   ELSE keyfile'.keys[k].secret
                      IN \/ later = half
                         \/ /\ ~half.seed /\ later.seed
                            /\ \E c \in Commands : klock = c /\ unseal(half, cmd[c].phrase)
    BY DEF HalfStep
  <2>1. CASE UNCHANGED keyfile
    BY <2>1
  <2>2. ASSUME NEW c \in Commands, add_write(c)
        PROVE  LET half == keyfile.keys[k].secret
                   later == IF keyfile'.keys[k] = Absent THEN [seed |-> FALSE]
                            ELSE keyfile'.keys[k].secret
               IN \/ later = half
                  \/ /\ ~half.seed /\ later.seed
                     /\ \E d \in Commands : klock = d /\ unseal(half, cmd[d].phrase)
    <3>1. klock = c
      BY <2>2 DEF KInv, CmdOK, add_write
    <3>2. StillIn(keyfile.keys[k], keyfile'.keys[k])
      BY <2>2, WriteFacts DEF Grows
    <3>3. keyfile'.keys[k].secret = keyfile.keys[k].secret \/ unseal(keyfile.keys[k].secret, cmd[c].phrase)
      BY <2>2, WriteFacts DEF Opened
    <3> QED BY <3>1, <3>2, <3>3 DEF StillIn
  <2>3. UNCHANGED keyfile \/ \E c \in Commands : add_write(c)
    BY DEF KNext, kvars, unlock_phrase, generate_key, import_key, keys_import, lock_exclusive,
           add_read, Answered, CommandEnds, load, stamp, cached, read_ring, stored_ring, Used
  <2> QED BY <2>1, <2>2, <2>3
<1> QED BY <1>1, KAlways, PTL DEF KSpec, HalfKept
-----------------------------------------------------------------------------
(* Tokens of tools: the steps of an import.                                *)

EnvTools == {"npm", "twine", "gh", "gem", "huggingface", "fly", "vercel"}
\* Tools pointed at the item or the vault before their token is taken out.
AskTools == {"kube", "git", "docker"}
AllTools == EnvTools \cup AskTools \cup {"aws", "terraform", "cargo"}

EnvSteps == {"bound", "create", "read_back", "bind", "remember", "rewrite",
             "remove_active", "reread", "replace"}
AskSteps == {"create", "read_back", "setup", "reread", "strike", "cut", "unset_key"}
FileSteps == {"create", "read_back", "rewrite", "setup"}

StepsOfTool ==
  IF tool = "huggingface" THEN EnvSteps \ {"reread", "replace"}
  ELSE IF tool \in EnvTools THEN EnvSteps \ {"remove_active"}
  ELSE IF tool \in AskTools THEN AskSteps ELSE FileSteps
LastSteps == {"rewrite", "remove_active", "replace", "strike", "cut", "unset_key", "setup"}

\* The step b comes after a in an import of the tool.
Follows(a, b) ==
  \/ a = "bound" /\ b = "create"
  \/ a = "create" /\ b = "read_back"
  \/ a = "read_back" /\ tool \in EnvTools /\ b = "bind"
  \/ a = "read_back" /\ tool \in AskTools /\ b = "setup"
  \/ a = "read_back" /\ tool \notin EnvTools \cup AskTools /\ b = "rewrite"
  \/ a = "bind" /\ b = "remember"
  \/ a = "remember" /\ b \in {"rewrite", "reread"}
  \/ a = "rewrite" /\ b \in {"remove_active", "setup"}
  \/ a = "setup" /\ b \in {"unset_key", "reread"}
  \/ a = "reread" /\ b \in {"replace", "strike", "cut"}

\* The first step, the last and every other with the one after it.
StepsOK ==
  /\ Len(steps) \in Nat \ {0}
  /\ steps[1] = IF tool \in EnvTools THEN "bound" ELSE "create"
  /\ \A k \in 1..Len(steps) : k < Len(steps) => Follows(steps[k], steps[k + 1])
  /\ steps[Len(steps)] \in LastSteps
  /\ \A k \in 1..Len(steps) : steps[k] \in StepsOfTool
  /\ tool \in AskTools => steps[Len(steps)] # "setup"
  /\ tool = "aws" => steps[Len(steps)] = "setup"
  /\ tool = "huggingface" => steps[Len(steps)] = "remove_active"

\* Where an import stands: the step it is at, or how it ended.
Stage(p) == IF Busy(p) THEN steps[imp[p].step] ELSE imp[p].pc

FileValues == (1..MaxToken) \cup {None, Ref}
ItemNames == Ids \cup {None}
Asked == Ids \cup {None, Vault, Other}
ImportEnds == {"idle", "steps", "journal", "ok", "failed"}
RenameStages == {"idle", "asks", "read", "write", "answer", "done"}
ImportRecords ==
  [pc : ImportEnds, e : Entries, id : ItemNames, token : 0..MaxToken, step : Nat,
   text : [Entries -> FileValues], config : [Entries -> Asked],
   bound : [Variables -> ItemNames], alone : BOOLEAN, gone : BOOLEAN]
RenameRecords ==
  [pc : RenameStages, from : ItemNames, to : ItemNames,
   read : [Variables -> ItemNames], ok : BOOLEAN, alone : BOOLEAN]

ToolTypes ==
  /\ ToolTypeOK
  /\ imp \in [Importers -> ImportRecords] /\ ren \in RenameRecords
  /\ \A p \in Importers :
       /\ imp[p].pc # "idle" => imp[p].id \in Ids /\ imp[p].token \in 1..MaxToken
       /\ Busy(p) => imp[p].step \in 1..Len(steps)
  /\ ren.pc # "idle" => ren.from \in Ids /\ ren.to \in Ids

InVault(x) == \E id \in Ids : vault[id] = x
\* With x in the tool's file for the entry, its last sign-in is not lost.
Kept(x, e) == latest[e] \in raced \/ x = latest[e] \/ InVault(latest[e])

\* What an import may still write back, and what it has stored.
Holds(p) ==
  /\ Busy(p) => /\ \A e \in Entries : Kept(imp[p].text[e], e)
                /\ Kept(imp[p].token, imp[p].e)
  /\ Stage(p) \notin {"bound", "create", "idle", "failed"} => InVault(imp[p].token)

\* From these steps on the tool has a way to the token.
GivenStages == {"remember", "remove_active", "reread", "replace", "unset_key", "strike",
                "cut", "journal", "ok"}

\* What an import nobody came beside has put in place.
Placed(p) ==
  LET i == imp[p] IN
  /\ Stage(p) \notin {"bound", "create", "idle", "failed"} => vault[i.id] = i.token
  /\ tool \in EnvTools /\ Stage(p) \in {"create", "read_back", "bind"}
       => i.bound[variable(i.e)] = i.id
  /\ tool \notin {"terraform", "cargo"}
       /\ (Stage(p) \in GivenStages \/ (Stage(p) = "rewrite" /\ tool \in EnvTools))
       => given(i.e, i.token)
  /\ Stage(p) = "cut" => i.config = asks
  /\ i.gone /\ tool \notin {"aws", "terraform", "cargo"}
       => given(i.e, i.token) /\ Stage(p) \notin {"bound", "create", "read_back", "bind", "setup"}

ToolInv ==
  /\ ToolTypes /\ TokenKeptSomewhere
  /\ \A p \in Importers : Holds(p) /\ (imp[p].alone => Placed(p))

LEMMA ToolFacts ==
  ASSUME tool \in Tools
  PROVE  tool \in AllTools /\ (tool_adapter.by = "env" <=> tool \in EnvTools)
<1>1. tool \in AllTools
  BY ToolsAssumption DEF ADAPTERS, AllTools, EnvTools, AskTools
<1>2. CASE tool \in {"npm", "gh", "twine", "gem"}
  BY <1>2 DEF tool_adapter, ADAPTERS, env, npmcred, ghcred, pypicred, gemcred, EnvTools, AllTools, AskTools
<1>3. CASE tool \in {"huggingface", "fly", "vercel"}
  BY <1>3 DEF tool_adapter, ADAPTERS, env, hfcred, flycred, vercelcred, EnvTools, AllTools, AskTools
<1>4. CASE tool \in {"aws", "kube", "terraform"}
  BY <1>4 DEF tool_adapter, ADAPTERS, answered, awscred, kubecred, tfcred, EnvTools, AllTools, AskTools
<1>5. CASE tool \in {"cargo", "git", "docker"}
  BY <1>5 DEF tool_adapter, ADAPTERS, answered, cargocred, gitcred, dockercred, EnvTools, AllTools, AskTools
<1> QED BY <1>1, <1>2, <1>3, <1>4, <1>5 DEF AllTools, EnvTools, AskTools

\* Three, four, five, six or seven steps that follow one another.
LEMMA PlanFacts ==
  ASSUME NEW n \in 3..7, Len(steps) = n,
         \A k \in 1..6 : k < n => Follows(steps[k], steps[k + 1])
  PROVE  \A k \in 1..Len(steps) : k < Len(steps) => Follows(steps[k], steps[k + 1])
OBVIOUS

\* The plan of every adapter is in order.
LEMMA StepsFacts ==
  ASSUME tool \in Tools
  PROVE  StepsOK
<1> DEFINE s == steps
<1>1. tool \in AllTools
  BY ToolFacts
<1>2. CASE tool = "npm"
  <2>1. /\ Len(s) = 7
        /\ s[1] = "bound" /\ s[2] = "create" /\ s[3] = "read_back"
        /\ s[4] = "bind" /\ s[5] = "remember" /\ s[6] = "reread"
        /\ s[7] = "replace"
    BY <1>2 DEF steps, tool_adapter, ADAPTERS, npmcred, env
  <2> HIDE DEF s
  <2>2. Follows(s[1], s[2]) /\ Follows(s[2], s[3]) /\ Follows(s[3], s[4])
        /\ Follows(s[4], s[5]) /\ Follows(s[5], s[6]) /\ Follows(s[6], s[7])
    BY <1>2, <2>1 DEF Follows, EnvTools, AskTools
  <2>3. \A k \in 1..6 : k < 7 => Follows(s[k], s[k + 1])
    BY <2>2
  <2>4. \A k \in 1..7 : s[k] \in StepsOfTool
    BY <1>2, <2>1 DEF StepsOfTool, EnvTools, AskTools, EnvSteps, AskSteps, FileSteps
  <2> QED BY <1>2, <2>1, <2>3, <2>4, PlanFacts DEF StepsOK, s, EnvTools, AskTools, LastSteps
<1>3. CASE tool \in {"gh", "twine", "gem", "fly", "vercel"}
  <2>1. /\ Len(s) = 6
        /\ s[1] = "bound" /\ s[2] = "create" /\ s[3] = "read_back"
        /\ s[4] = "bind" /\ s[5] = "remember" /\ s[6] = "rewrite"
    BY <1>3 DEF steps, tool_adapter, ADAPTERS, ghcred, pypicred, gemcred, flycred, vercelcred, env
  <2> HIDE DEF s
  <2>2. Follows(s[1], s[2]) /\ Follows(s[2], s[3]) /\ Follows(s[3], s[4])
        /\ Follows(s[4], s[5]) /\ Follows(s[5], s[6])
    BY <1>3, <2>1 DEF Follows, EnvTools, AskTools
  <2>3. \A k \in 1..6 : k < 6 => Follows(s[k], s[k + 1])
    BY <2>2
  <2>4. \A k \in 1..6 : s[k] \in StepsOfTool
    BY <1>3, <2>1 DEF StepsOfTool, EnvTools, AskTools, EnvSteps, AskSteps, FileSteps
  <2> QED BY <1>3, <2>1, <2>3, <2>4, PlanFacts DEF StepsOK, s, EnvTools, AskTools, LastSteps
<1>4. CASE tool = "huggingface"
  <2>1. /\ Len(s) = 7
        /\ s[1] = "bound" /\ s[2] = "create" /\ s[3] = "read_back"
        /\ s[4] = "bind" /\ s[5] = "remember" /\ s[6] = "rewrite"
        /\ s[7] = "remove_active"
    BY <1>4 DEF steps, tool_adapter, ADAPTERS, hfcred, env
  <2> HIDE DEF s
  <2>2. Follows(s[1], s[2]) /\ Follows(s[2], s[3]) /\ Follows(s[3], s[4])
        /\ Follows(s[4], s[5]) /\ Follows(s[5], s[6]) /\ Follows(s[6], s[7])
    BY <1>4, <2>1 DEF Follows, EnvTools, AskTools
  <2>3. \A k \in 1..6 : k < 7 => Follows(s[k], s[k + 1])
    BY <2>2
  <2>4. \A k \in 1..7 : s[k] \in StepsOfTool
    BY <1>4, <2>1 DEF StepsOfTool, EnvTools, AskTools, EnvSteps, AskSteps, FileSteps
  <2> QED BY <1>4, <2>1, <2>3, <2>4, PlanFacts DEF StepsOK, s, EnvTools, AskTools, LastSteps
<1>5. CASE tool = "aws"
  <2>1. /\ Len(s) = 4
        /\ s[1] = "create" /\ s[2] = "read_back" /\ s[3] = "rewrite"
        /\ s[4] = "setup"
    BY <1>5 DEF steps, tool_adapter, ADAPTERS, awscred, answered
  <2> HIDE DEF s
  <2>2. Follows(s[1], s[2]) /\ Follows(s[2], s[3]) /\ Follows(s[3], s[4])
    BY <1>5, <2>1 DEF Follows, EnvTools, AskTools
  <2>3. \A k \in 1..6 : k < 4 => Follows(s[k], s[k + 1])
    BY <2>2
  <2>4. \A k \in 1..4 : s[k] \in StepsOfTool
    BY <1>5, <2>1 DEF StepsOfTool, EnvTools, AskTools, EnvSteps, AskSteps, FileSteps
  <2> QED BY <1>5, <2>1, <2>3, <2>4, PlanFacts DEF StepsOK, s, EnvTools, AskTools, LastSteps
<1>6. CASE tool = "kube"
  <2>1. /\ Len(s) = 4
        /\ s[1] = "create" /\ s[2] = "read_back" /\ s[3] = "setup"
        /\ s[4] = "unset_key"
    BY <1>6 DEF steps, tool_adapter, ADAPTERS, kubecred, answered
  <2> HIDE DEF s
  <2>2. Follows(s[1], s[2]) /\ Follows(s[2], s[3]) /\ Follows(s[3], s[4])
    BY <1>6, <2>1 DEF Follows, EnvTools, AskTools
  <2>3. \A k \in 1..6 : k < 4 => Follows(s[k], s[k + 1])
    BY <2>2
  <2>4. \A k \in 1..4 : s[k] \in StepsOfTool
    BY <1>6, <2>1 DEF StepsOfTool, EnvTools, AskTools, EnvSteps, AskSteps, FileSteps
  <2> QED BY <1>6, <2>1, <2>3, <2>4, PlanFacts DEF StepsOK, s, EnvTools, AskTools, LastSteps
<1>7. CASE tool \in {"terraform", "cargo"}
  <2>1. /\ Len(s) = 3
        /\ s[1] = "create" /\ s[2] = "read_back" /\ s[3] = "rewrite"
    BY <1>7 DEF steps, tool_adapter, ADAPTERS, tfcred, cargocred, answered
  <2> HIDE DEF s
  <2>2. Follows(s[1], s[2]) /\ Follows(s[2], s[3])
    BY <1>7, <2>1 DEF Follows, EnvTools, AskTools
  <2>3. \A k \in 1..6 : k < 3 => Follows(s[k], s[k + 1])
    BY <2>2
  <2>4. \A k \in 1..3 : s[k] \in StepsOfTool
    BY <1>7, <2>1 DEF StepsOfTool, EnvTools, AskTools, EnvSteps, AskSteps, FileSteps
  <2> QED BY <1>7, <2>1, <2>3, <2>4, PlanFacts DEF StepsOK, s, EnvTools, AskTools, LastSteps
<1>8. CASE tool = "git"
  <2>1. /\ Len(s) = 5
        /\ s[1] = "create" /\ s[2] = "read_back" /\ s[3] = "setup"
        /\ s[4] = "reread" /\ s[5] = "strike"
    BY <1>8 DEF steps, tool_adapter, ADAPTERS, gitcred, answered
  <2> HIDE DEF s
  <2>2. Follows(s[1], s[2]) /\ Follows(s[2], s[3]) /\ Follows(s[3], s[4])
        /\ Follows(s[4], s[5])
    BY <1>8, <2>1 DEF Follows, EnvTools, AskTools
  <2>3. \A k \in 1..6 : k < 5 => Follows(s[k], s[k + 1])
    BY <2>2
  <2>4. \A k \in 1..5 : s[k] \in StepsOfTool
    BY <1>8, <2>1 DEF StepsOfTool, EnvTools, AskTools, EnvSteps, AskSteps, FileSteps
  <2> QED BY <1>8, <2>1, <2>3, <2>4, PlanFacts DEF StepsOK, s, EnvTools, AskTools, LastSteps
<1>9. CASE tool = "docker"
  <2>1. /\ Len(s) = 5
        /\ s[1] = "create" /\ s[2] = "read_back" /\ s[3] = "setup"
        /\ s[4] = "reread" /\ s[5] = "cut"
    BY <1>9 DEF steps, tool_adapter, ADAPTERS, dockercred, answered
  <2> HIDE DEF s
  <2>2. Follows(s[1], s[2]) /\ Follows(s[2], s[3]) /\ Follows(s[3], s[4])
        /\ Follows(s[4], s[5])
    BY <1>9, <2>1 DEF Follows, EnvTools, AskTools
  <2>3. \A k \in 1..6 : k < 5 => Follows(s[k], s[k + 1])
    BY <2>2
  <2>4. \A k \in 1..5 : s[k] \in StepsOfTool
    BY <1>9, <2>1 DEF StepsOfTool, EnvTools, AskTools, EnvSteps, AskSteps, FileSteps
  <2> QED BY <1>9, <2>1, <2>3, <2>4, PlanFacts DEF StepsOK, s, EnvTools, AskTools, LastSteps
<1> QED BY <1>1, <1>2, <1>3, <1>4, <1>5, <1>6, <1>7, <1>8, <1>9 DEF AllTools, EnvTools, AskTools

\* What Advance does: the import is at the step after, or at the journal after
\* the last; every other import, and the rename, has had company.
Moved(p, c) ==
  LET i == imp'[p] IN
  /\ imp' \in [Importers -> ImportRecords]
  /\ i.e = c.e /\ i.id = c.id /\ i.token = c.token /\ i.text = c.text
  /\ i.config = c.config /\ i.bound = c.bound /\ (i.alone <=> c.alone) /\ (i.gone <=> c.gone)
  /\ i.pc \in {"steps", "journal"}
  /\ Stage(p) \in StepsOfTool
  /\ i.pc = "steps" => /\ i.step \in 1..Len(steps)' /\ Follows(Stage(p), Stage(p)')
                       /\ Stage(p)' \in StepsOfTool
  /\ i.pc = "journal" => /\ Stage(p)' = "journal" /\ Stage(p) \in LastSteps
                         /\ tool \in AskTools => Stage(p) # "setup"
                         /\ tool = "aws" => Stage(p) = "setup"
                         /\ tool = "huggingface" => Stage(p) = "remove_active"
  /\ \A q \in Importers \ {p} : imp'[q] = [imp[q] EXCEPT !.alone = FALSE]
  /\ ren' \in RenameRecords /\ ren'.pc = ren.pc /\ ren'.from = ren.from /\ ren'.to = ren.to
  /\ ~ren'.alone

LEMMA RecordsFacts ==
  /\ \A i \in ImportRecords : [i EXCEPT !.alone = FALSE] \in ImportRecords
  /\ \A r \in RenameRecords : [r EXCEPT !.alone = FALSE] \in RenameRecords
  /\ \A i \in ImportRecords : [i EXCEPT !.step = @ + 1] \in ImportRecords
  /\ \A i \in ImportRecords, end \in ImportEnds : [i EXCEPT !.pc = end] \in ImportRecords
<1>1. \A i \in ImportRecords : [i EXCEPT !.alone = FALSE] \in ImportRecords
  BY DEF ImportRecords
<1>2. \A r \in RenameRecords : [r EXCEPT !.alone = FALSE] \in RenameRecords
  BY DEF RenameRecords
<1>3. \A i \in ImportRecords : [i EXCEPT !.step = @ + 1] \in ImportRecords
  BY DEF ImportRecords
<1>4. \A i \in ImportRecords, end \in ImportEnds : [i EXCEPT !.pc = end] \in ImportRecords
  BY DEF ImportRecords
<1> QED BY <1>1, <1>2, <1>3, <1>4

LEMMA AdvanceFacts ==
  ASSUME ToolTypes, tool' = tool, NEW p \in Importers, Busy(p),
         NEW c \in ImportRecords, c.pc = "steps", c.step = imp[p].step, Advance(p, c)
  PROVE  Moved(p, c)
<1> DEFINE n == imp[p].step
           next == [c EXCEPT !.step = @ + 1]
           end == IF next.step > Len(steps) THEN [next EXCEPT !.pc = "journal"] ELSE next
<1>1. StepsOK /\ n \in 1..Len(steps) /\ Len(steps) \in Nat
  BY StepsFacts DEF ToolTypes, ToolTypeOK, StepsOK
<1>2. steps' = steps
  BY DEF steps, tool_adapter
<1>3. /\ imp' = [Disturb(p) EXCEPT ![p] = end]
      /\ imp \in [Importers -> ImportRecords] /\ ren \in RenameRecords
      /\ ren' = Disturbed
  BY DEF Advance, ToolTypes
<1>4. next \in ImportRecords /\ next.step = n + 1 /\ next.pc = "steps"
  BY <1>1 DEF ImportRecords
<1>5. end \in ImportRecords
  BY <1>4 DEF ImportRecords, ImportEnds
<1>6. /\ end.e = c.e /\ end.id = c.id /\ end.token = c.token /\ end.text = c.text
      /\ end.config = c.config /\ end.bound = c.bound /\ end.alone = c.alone /\ end.gone = c.gone
      /\ end.step = n + 1
      /\ IF n + 1 > Len(steps) THEN end.pc = "journal" ELSE end.pc = "steps"
  BY <1>1 DEF ImportRecords
<1> HIDE DEF next, end
<1>7. /\ imp' \in [Importers -> ImportRecords] /\ imp'[p] = end
      /\ \A q \in Importers \ {p} : imp'[q] = [imp[q] EXCEPT !.alone = FALSE]
  BY <1>3, <1>5, RecordsFacts DEF Disturb
<1>8. /\ ren' \in RenameRecords /\ ren'.pc = ren.pc /\ ren'.from = ren.from /\ ren'.to = ren.to
      /\ ~ren'.alone
  BY <1>3 DEF Disturbed, RenameRecords
<1>9. Stage(p) = steps[n] /\ Stage(p) \in StepsOfTool
  BY <1>1 DEF Stage, StepsOK, StepsOfTool
<1>10. ASSUME end.pc = "steps"
       PROVE  /\ imp'[p].step \in 1..Len(steps)' /\ Follows(Stage(p), Stage(p)')
              /\ Stage(p)' \in StepsOfTool
  <2>1. n < Len(steps) /\ n + 1 \in 1..Len(steps)
    BY <1>1, <1>6, <1>10
  <2>2. Stage(p)' = steps[n + 1]
    BY <1>2, <1>6, <1>7, <1>10 DEF Stage, Busy
  <2> QED BY <1>1, <1>2, <1>6, <1>7, <1>9, <2>1, <2>2 DEF StepsOK, StepsOfTool
<1>11. ASSUME end.pc = "journal"
       PROVE  /\ Stage(p)' = "journal" /\ Stage(p) \in LastSteps
              /\ tool \in AskTools => Stage(p) # "setup"
              /\ tool = "aws" => Stage(p) = "setup"
              /\ tool = "huggingface" => Stage(p) = "remove_active"
  <2>1. n = Len(steps)
    BY <1>1, <1>6, <1>11
  <2>2. Stage(p)' = "journal"
    BY <1>7, <1>11 DEF Stage, Busy
  <2> QED BY <1>1, <1>9, <2>1, <2>2 DEF StepsOK, LastSteps
<1> QED BY <1>6, <1>7, <1>8, <1>9, <1>10, <1>11 DEF Moved

LEMMA LatestFacts ==
  ASSUME ToolTypes
  PROVE  \A e \in Entries : latest[e] \in 1..MaxToken
BY ToolsAssumption DEF ToolTypes, ToolTypeOK

\* Tokens in items stay in items.
ItemsGrow == \A x \in 1..MaxToken : InVault(x) => InVault(x)'

LEMMA GivenStays ==
  ASSUME tool' = tool, lines' = lines, vault' = vault, asks' = asks, NEW p \in Importers,
         imp'[p].e = imp[p].e, imp'[p].token = imp[p].token
  PROVE  given(imp[p].e, imp[p].token)' <=> given(imp[p].e, imp[p].token)
BY DEF given, exec, helper_answers, aws_credential, kube_credential, login_get, tool_adapter, variable

\* An import that takes no step keeps what it holds, and what it has put in
\* place unless another command came beside it.
LEMMA Beside ==
  ASSUME ToolInv, tool' = tool, NEW q \in Importers,
         imp'[q] = imp[q] \/ imp'[q] = [imp[q] EXCEPT !.alone = FALSE],
         imp'[q] = imp[q] /\ imp[q].alone => vault' = vault /\ lines' = lines /\ asks' = asks,
         ItemsGrow, raced \subseteq raced',
         Busy(q) => \A e \in Entries : latest'[e] = latest[e] \/ latest'[e] \in raced'
  PROVE  Holds(q)' /\ (imp'[q].alone => Placed(q)')
<1>1. imp[q] \in ImportRecords /\ Holds(q) /\ (imp[q].alone => Placed(q))
  BY DEF ToolInv, ToolTypes
<1>2. /\ imp'[q].pc = imp[q].pc /\ imp'[q].e = imp[q].e /\ imp'[q].id = imp[q].id
      /\ imp'[q].token = imp[q].token /\ imp'[q].text = imp[q].text /\ imp'[q].step = imp[q].step
  BY <1>1 DEF ImportRecords
<1>3. steps' = steps /\ Stage(q)' = Stage(q) /\ (Busy(q)' <=> Busy(q))
  BY <1>2 DEF steps, tool_adapter, Stage, Busy
<1>4. ASSUME Busy(q), NEW x, NEW e \in Entries, Kept(x, e)
      PROVE  latest'[e] \in raced' \/ x = latest'[e] \/ (\E id \in Ids : vault'[id] = latest'[e])
  <2>1. latest[e] \in 1..MaxToken
    BY LatestFacts DEF ToolInv
  <2> QED BY <1>4, <2>1 DEF Kept, ItemsGrow, InVault
<1>5. Stage(q) \notin {"bound", "create", "idle", "failed"} => imp[q].token \in 1..MaxToken
  BY DEF ToolInv, ToolTypes, Stage, Busy
<1>6. Holds(q)'
  <2>1. ASSUME Busy(q)
        PROVE  /\ \A e \in Entries : Kept(imp[q].text[e], e)'
               /\ Kept(imp[q].token, imp[q].e)'
    <3>1. /\ \A e \in Entries : Kept(imp[q].text[e], e)
          /\ Kept(imp[q].token, imp[q].e) /\ imp[q].e \in Entries
      BY <1>1, <2>1 DEF Holds, ImportRecords
    <3>2. /\ \A e \in Entries : latest'[e] \in raced' \/ imp[q].text[e] = latest'[e]
                                \/ \E id \in Ids : vault'[id] = latest'[e]
          /\ \/ latest'[imp[q].e] \in raced' \/ imp[q].token = latest'[imp[q].e]
             \/ \E id \in Ids : vault'[id] = latest'[imp[q].e]
      BY <1>4, <2>1, <3>1
    <3> QED BY <1>2, <3>2 DEF Kept, InVault
  <2>2. Stage(q)' \notin {"bound", "create", "idle", "failed"} => InVault(imp[q].token)'
    BY <1>1, <1>2, <1>3, <1>5 DEF Holds, ItemsGrow, InVault
  <2>3. Busy(q)' => Busy(q)
    BY <1>3
  <2> QED BY <2>1, <2>2, <2>3 DEF Holds
<1>7. ASSUME imp'[q].alone
      PROVE  Placed(q)'
  <2>1. imp'[q] = imp[q] /\ imp[q].alone
    BY <1>1, <1>7 DEF ImportRecords
  <2>2. vault' = vault /\ lines' = lines /\ asks' = asks
    BY <2>1
  <2>3. given(imp[q].e, imp[q].token)' <=> given(imp[q].e, imp[q].token)
    BY <2>1, <2>2, GivenStays
  <2>4. variable(imp[q].e)' = variable(imp[q].e)
    BY <2>1 DEF variable, tool_adapter
  <2> QED BY <1>1, <1>3, <2>1, <2>2, <2>3, <2>4 DEF Placed
<1> QED BY <1>6, <1>7

\* With the token in its item, whatever names the item gives it.
LEMMA GivenFacts ==
  ASSUME ToolTypes, tool' = tool, NEW p \in Importers, imp'[p].e = imp[p].e,
         imp'[p].token = imp[p].token, imp[p].id \in Ids, vault'[imp[p].id] = imp[p].token
  PROVE  LET i == imp[p] IN
         /\ tool \in EnvTools /\ lines'[variable(i.e)] = i.id => given(imp[p].e, imp[p].token)'
         /\ tool \in AskTools /\ asks'[i.e] = (IF tool = "kube" THEN i.id ELSE Vault)
              => given(imp[p].e, imp[p].token)'
         /\ tool = "aws" /\ asks'[i.e] = i.id => given(imp[p].e, imp[p].token)'
<1>1. tool \in AllTools /\ (tool_adapter.by = "env" <=> tool \in EnvTools)
  BY ToolFacts DEF ToolTypes, ToolTypeOK
<1>2. imp[p].id # None /\ tool_adapter' = tool_adapter
  BY ToolsAssumption DEF tool_adapter
<1>3. CASE tool \in EnvTools
  BY <1>1, <1>2, <1>3 DEF given, exec, variable, EnvTools, AskTools
<1>4. CASE tool \notin EnvTools
  BY <1>1, <1>2, <1>4 DEF given, helper_answers, aws_credential, kube_credential, login_get, AskTools, EnvTools
<1> QED BY <1>3, <1>4

\* A step of import p keeps the invariant once what the step is about does.
LEMMA StepKeeps ==
  ASSUME ToolInv, NEW p \in Importers, NEW c \in ImportRecords, Busy(p), Moved(p, c),
         c.e = imp[p].e, c.id = imp[p].id, c.token = imp[p].token,
         tool' = tool, tokens' = tokens, latest' = latest, raced' = raced,
         tfile' \in [Entries -> FileValues], vault' \in [Ids -> (1..MaxToken) \cup {None}],
         lines' \in [Variables -> ItemNames], asks' \in [Entries -> Asked], known' \in BOOLEAN,
         ItemsGrow, TokenKeptSomewhere',
         \A e \in Entries : Kept(c.text[e], e),
         Stage(p) # "bound" => \E id \in Ids : vault'[id] = c.token,
         c.alone => Placed(p)'
  PROVE  ToolInv'
<1>1. imp[p] \in ImportRecords /\ imp[p].id \in Ids /\ imp[p].token \in 1..MaxToken /\ ToolTypes
  BY DEF ToolInv, ToolTypes, Busy
<1>2. ToolTypes'
  <2>1. /\ imp' \in [Importers -> ImportRecords] /\ ren' \in RenameRecords
        /\ ren'.pc # "idle" => ren'.from \in Ids /\ ren'.to \in Ids
    BY <1>1 DEF Moved, ToolTypes
  <2>2. ToolTypeOK'
    BY <1>1, <2>1 DEF ToolTypes, ToolTypeOK, FileValues, ItemNames, Asked, ImportRecords, RenameRecords,
       ImportEnds, RenameStages, Variables
  <2>3. ASSUME NEW q \in Importers
        PROVE  /\ imp'[q].pc # "idle" => imp'[q].id \in Ids /\ imp'[q].token \in 1..MaxToken
               /\ Busy(q)' => imp'[q].step \in 1..Len(steps)'
    <3>1. CASE q = p
      BY <1>1, <3>1 DEF Moved, Busy
    <3>2. CASE q # p
      <4>1. imp'[q].pc = imp[q].pc /\ imp'[q].id = imp[q].id /\ imp'[q].token = imp[q].token
            /\ imp'[q].step = imp[q].step /\ steps' = steps
        BY <1>1, <3>2 DEF Moved, ToolTypes, ImportRecords, steps, tool_adapter
      <4> QED BY <1>1, <4>1 DEF ToolTypes, Busy
    <3> QED BY <3>1, <3>2
  <2> QED BY <2>1, <2>2, <2>3 DEF ToolTypes
<1>3. Holds(p)'
  <2>1. ASSUME NEW e \in Entries, NEW x, Kept(x, e)
        PROVE  latest[e] \in raced \/ x = latest[e] \/ \E id \in Ids : vault'[id] = latest[e]
    BY <1>1, <2>1, LatestFacts DEF Kept, ItemsGrow, InVault
  <2>2. Kept(imp[p].token, imp[p].e) /\ imp[p].e \in Entries
    BY <1>1 DEF ToolInv, Holds, ImportRecords
  <2>3. /\ imp'[p].e = imp[p].e /\ imp'[p].token = imp[p].token /\ imp'[p].text = c.text
    BY DEF Moved
  <2>4. ASSUME NEW e \in Entries
        PROVE  Kept(imp[p].text[e], e)'
    <3>1. latest[e] \in raced \/ c.text[e] = latest[e] \/ \E id \in Ids : vault'[id] = latest[e]
      BY <2>1
    <3> QED BY <2>3, <3>1 DEF Kept, InVault
  <2>5. Kept(imp[p].token, imp[p].e)'
    <3>1. \/ latest[imp[p].e] \in raced \/ imp[p].token = latest[imp[p].e]
          \/ \E id \in Ids : vault'[id] = latest[imp[p].e]
      BY <2>1, <2>2
    <3> QED BY <2>3, <3>1 DEF Kept, InVault
  <2>6. Stage(p)' \notin {"bound", "create", "idle", "failed"} => \E id \in Ids : vault'[id] = c.token
    BY DEF Moved, Follows, LastSteps
  <2>7. Stage(p)' \notin {"bound", "create", "idle", "failed"} => InVault(imp[p].token)'
    BY <2>3, <2>6 DEF InVault
  <2> QED BY <2>4, <2>5, <2>7 DEF Holds
<1>4. imp'[p].alone => Placed(p)'
  BY DEF Moved
<1>5. ASSUME NEW q \in Importers, q # p
      PROVE  Holds(q)' /\ (imp'[q].alone => Placed(q)')
  <2>1. imp'[q] = [imp[q] EXCEPT !.alone = FALSE] /\ imp[q] \in ImportRecords
    BY <1>1, <1>5 DEF Moved, ToolTypes
  <2>2. imp'[q] = imp[q] => ~imp[q].alone
    BY <2>1 DEF ImportRecords
  <2> QED BY <2>1, <2>2, Beside
<1> QED BY <1>2, <1>3, <1>4, <1>5 DEF ToolInv

\* What is known of an import at its step s.
At(p, s) ==
  LET i == imp[p] IN
  /\ Busy(p) /\ i.pc = "steps" /\ Stage(p) = s /\ i \in ImportRecords
  /\ i.id \in Ids /\ i.token \in 1..MaxToken /\ i.e \in Entries
  /\ i.text \in [Entries -> FileValues] /\ i.config \in [Entries -> Asked]
  /\ i.bound \in [Variables -> ItemNames]
  /\ tfile \in [Entries -> FileValues] /\ vault \in [Ids -> (1..MaxToken) \cup {None}]
  /\ lines \in [Variables -> ItemNames] /\ asks \in [Entries -> Asked] /\ known \in BOOLEAN
  /\ tool \in AllTools /\ variable(i.e) \in Variables
  /\ Holds(p) /\ (i.alone => Placed(p))

LEMMA AtFacts ==
  ASSUME ToolInv, NEW p \in Importers, NEW s, AtStep(p, s)
  PROVE  At(p, s)
<1>1. /\ Busy(p) /\ Stage(p) = s /\ imp[p].pc = "steps"
  BY DEF AtStep, Stage, Busy
<1>2. imp[p] \in ImportRecords /\ imp[p].id \in Ids /\ imp[p].token \in 1..MaxToken
  BY <1>1 DEF ToolInv, ToolTypes
<1>3. /\ imp[p].e \in Entries /\ imp[p].text \in [Entries -> FileValues]
      /\ imp[p].config \in [Entries -> Asked] /\ imp[p].bound \in [Variables -> ItemNames]
  BY <1>2 DEF ImportRecords
<1>4. /\ tfile \in [Entries -> FileValues] /\ vault \in [Ids -> (1..MaxToken) \cup {None}]
      /\ lines \in [Variables -> ItemNames] /\ asks \in [Entries -> Asked] /\ known \in BOOLEAN
      /\ tool \in Tools
  BY DEF ToolInv, ToolTypes, ToolTypeOK, FileValues, ItemNames, Asked
<1>5. tool \in AllTools /\ variable(imp[p].e) \in Variables
  BY <1>3, <1>4, ToolFacts DEF variable, Variables
<1> QED BY <1>1, <1>2, <1>3, <1>4, <1>5 DEF At, ToolInv

\* A step that touches neither items, bindings nor the tool's configuration.
LEMMA QuietStep ==
  ASSUME NEW p \in Importers, NEW s, At(p, s), NEW c \in ImportRecords, Moved(p, c),
         c.e = imp[p].e, c.id = imp[p].id, c.token = imp[p].token, c.alone => imp[p].alone,
         tool' = tool, vault' = vault, lines' = lines, asks' = asks,
         s \notin {"create", "bind", "setup"},
         IF s = "bound" THEN c.bound[variable(c.e)] = c.id ELSE c.bound = imp[p].bound,
         s = "reread" => c.config = asks,
         c.gone => imp[p].gone
           \/ s \in {"rewrite", "remove_active", "replace", "strike", "cut", "unset_key"}
  PROVE  c.alone => Placed(p)'
<1> SUFFICES ASSUME c.alone PROVE Placed(p)'
  OBVIOUS
<1>1. Placed(p) /\ Stage(p) = s /\ tool \in AllTools /\ imp[p].pc = "steps"
  BY DEF At
<1>2. LET i == imp[p]  j == imp'[p] IN
      /\ j.e = i.e /\ j.id = i.id /\ j.token = i.token /\ j.bound = c.bound /\ j.config = c.config
      /\ (j.gone <=> c.gone) /\ j.pc \in {"steps", "journal"}
  BY DEF Moved
<1>3. /\ variable(imp[p].e)' = variable(imp[p].e)
      /\ given(imp[p].e, imp[p].token)' <=> given(imp[p].e, imp[p].token)
  BY <1>2, GivenStays DEF variable, tool_adapter
<1>4. s \in StepsOfTool
  BY <1>1 DEF Moved
<1>5. \/ Follows(s, Stage(p)') /\ Stage(p)' \in StepsOfTool
      \/ /\ Stage(p)' = "journal" /\ s \in LastSteps
         /\ tool = "aws" => s = "setup"
  BY <1>1, <1>2 DEF Moved
<1>6. Stage(p)' \notin {"bound", "create", "idle", "failed"} => vault'[imp[p].id] = imp[p].token
  BY <1>1, <1>5 DEF Placed, Follows, LastSteps
<1>7. tool \in EnvTools /\ Stage(p)' \in {"create", "read_back", "bind"}
        => c.bound[variable(imp[p].e)] = imp[p].id
  BY <1>1, <1>5 DEF Placed, Follows, LastSteps, variable
<1>8. ASSUME tool \notin {"terraform", "cargo"},
             Stage(p)' \in GivenStages \/ (Stage(p)' = "rewrite" /\ tool \in EnvTools)
      PROVE  given(imp[p].e, imp[p].token)
  BY <1>1, <1>4, <1>5, <1>8 DEF Placed, Follows, LastSteps, GivenStages, StepsOfTool, AskSteps, FileSteps,
     AllTools, EnvTools, AskTools
<1>9. Stage(p)' = "cut" => c.config = asks
  BY <1>1, <1>5 DEF Follows
<1>10. ASSUME c.gone, tool \notin {"aws", "terraform", "cargo"}
       PROVE  /\ given(imp[p].e, imp[p].token)
              /\ Stage(p)' \notin {"bound", "create", "read_back", "bind", "setup"}
  BY <1>1, <1>4, <1>5, <1>10 DEF Placed, Follows, LastSteps, GivenStages, StepsOfTool, AskSteps, FileSteps,
     EnvSteps, AllTools, EnvTools, AskTools
<1> QED BY <1>2, <1>3, <1>6, <1>7, <1>8, <1>9, <1>10 DEF Placed

\* What the tool's file loses is in an item or was not the last sign-in's.
LEMMA FileKept ==
  ASSUME ToolInv, NEW p \in Importers, Holds(p), Busy(p), InVault(imp[p].token),
         latest' = latest, raced' = raced, vault' = vault,
         \A e \in Entries : \/ tfile'[e] = tfile[e] \/ tfile'[e] = imp[p].text[e]
                            \/ e = imp[p].e \/ tfile[e] = imp[p].token \/ imp[p].text[e] = imp[p].token
  PROVE  TokenKeptSomewhere'
<1> SUFFICES ASSUME NEW e \in Entries
             PROVE  latest[e] \in raced \/ tfile'[e] = latest[e] \/ \E id \in Ids : vault[id] = latest[e]
  BY DEF TokenKeptSomewhere
<1>1. Kept(tfile[e], e) /\ Kept(imp[p].text[e], e) /\ (e = imp[p].e => Kept(imp[p].token, e))
  BY DEF ToolInv, TokenKeptSomewhere, Holds, Kept, InVault
<1> QED BY <1>1 DEF Kept, InVault

LEMMA QuietItems ==
  ASSUME vault' = vault
  PROVE  ItemsGrow
BY DEF ItemsGrow, InVault

LEMMA QuietFile ==
  ASSUME ToolInv, tfile' = tfile, latest' = latest, raced' = raced, ItemsGrow
  PROVE  TokenKeptSomewhere'
<1> SUFFICES ASSUME NEW e \in Entries
             PROVE  latest[e] \in raced \/ tfile[e] = latest[e] \/ \E id \in Ids : vault'[id] = latest[e]
  BY DEF TokenKeptSomewhere
<1> QED BY LatestFacts DEF ToolInv, TokenKeptSomewhere, ItemsGrow, InVault

\* The steps before the tool's file is touched, but the two that write.
LEMMA boundKeeps ==
  ASSUME ToolInv, NEW p \in Importers, bound(p)
  PROVE  ToolInv'
<1>1. At(p, "bound")
  BY AtFacts DEF bound
<1>2. PICK v \in Variables : v = variable(imp[p].e)
  BY <1>1 DEF At
<1>3. [imp[p] EXCEPT !.bound = [lines EXCEPT ![v] = imp[p].id]] \in ImportRecords
  BY <1>1 DEF At, ImportRecords, ItemNames
<1>4. PICK c \in ImportRecords : c = [imp[p] EXCEPT !.bound = [lines EXCEPT ![v] = imp[p].id]]
  BY <1>3
<1>5. Advance(p, c) /\ UNCHANGED <<tool, tfile, vault, lines, known, asks, tokens, latest, raced>>
  BY <1>2, <1>4 DEF bound
<1>6. /\ c.pc = "steps" /\ c.step = imp[p].step
      /\ c.e = imp[p].e /\ c.id = imp[p].id /\ c.token = imp[p].token /\ c.text = imp[p].text
      /\ (c.alone <=> imp[p].alone) /\ (c.gone <=> imp[p].gone) /\ c.bound[v] = imp[p].id
  BY <1>1, <1>4 DEF At, ImportRecords, ItemNames
<1>7. Moved(p, c)
  BY <1>1, <1>5, <1>6, AdvanceFacts DEF ToolInv, At
<1>8. c.bound[variable(c.e)] = c.id
  BY <1>2, <1>6 DEF variable
<1>9. c.alone => Placed(p)'
  BY <1>1, <1>5, <1>6, <1>7, <1>8, QuietStep
<1>10. \A e \in Entries : Kept(c.text[e], e)
  BY <1>1, <1>6 DEF At, Holds
<1> QED BY <1>1, <1>5, <1>6, <1>7, <1>9, <1>10, StepKeeps, QuietItems, QuietFile DEF At

LEMMA ReadBackKeeps ==
  ASSUME ToolInv, NEW p \in Importers, ReadBack(p) \/ remember(p)
  PROVE  ToolInv'
<1>1. PICK s \in {"read_back", "remember"} : At(p, s) /\ Advance(p, imp[p])
  BY AtFacts DEF ReadBack, remember
<1>2. PICK c \in ImportRecords : c = imp[p]
  BY <1>1 DEF At
<1>3. Advance(p, c) /\ c.pc = "steps"
  BY <1>1, <1>2 DEF At
<1>4. UNCHANGED <<tool, tfile, vault, lines, asks, tokens, latest, raced>> /\ known' \in BOOLEAN
  BY <1>1 DEF ReadBack, remember, At
<1>5. Moved(p, c)
  BY <1>1, <1>2, <1>3, <1>4, AdvanceFacts DEF ToolInv, At
<1>6. c.alone => Placed(p)'
  BY <1>1, <1>2, <1>4, <1>5, QuietStep
<1>7. /\ \E id \in Ids : vault'[id] = c.token
      /\ \A e \in Entries : Kept(c.text[e], e)
  BY <1>1, <1>2, <1>4 DEF At, Holds, InVault
<1> QED BY <1>1, <1>2, <1>3, <1>4, <1>5, <1>6, <1>7, StepKeeps, QuietItems, QuietFile DEF At

LEMMA createKeeps ==
  ASSUME ToolInv, NEW p \in Importers, create_value(p)
  PROVE  ToolInv'
<1>1. At(p, "create") /\ Advance(p, imp[p]) /\ vault[imp[p].id] = None
  BY AtFacts DEF create_value
<1>2. PICK c \in ImportRecords : c = imp[p]
  BY <1>1 DEF At
<1>3. /\ UNCHANGED <<tool, tfile, lines, known, asks, tokens, latest, raced>>
      /\ vault' = [vault EXCEPT ![c.id] = c.token]
  BY <1>2 DEF create_value
<1>4. Moved(p, c)
  BY <1>1, <1>2, <1>3, AdvanceFacts DEF ToolInv, At
<1>5. /\ vault' \in [Ids -> (1..MaxToken) \cup {None}] /\ vault'[c.id] = c.token
      /\ \A id \in Ids : id # c.id => vault'[id] = vault[id]
  BY <1>1, <1>2, <1>3 DEF At
<1>6. ItemsGrow
  BY <1>1, <1>2, <1>5, ToolsAssumption DEF ItemsGrow, InVault
<1>7. c.alone => Placed(p)'
  <2> SUFFICES ASSUME c.alone PROVE Placed(p)'
    OBVIOUS
  <2>1. Placed(p) /\ Stage(p) = "create" /\ Stage(p) \in StepsOfTool
    BY <1>1, <1>2, <1>4 DEF At, Moved
  <2>2. LET j == imp'[p] IN
        /\ j.e = c.e /\ j.id = c.id /\ j.token = c.token /\ j.bound = c.bound /\ (j.gone <=> c.gone)
    BY <1>4 DEF Moved
  <2>3. Stage(p)' = "read_back"
    BY <1>4, <2>1 DEF Moved, Follows, LastSteps
  <2>4. variable(imp[p].e)' = variable(c.e)
    BY <1>2, <1>3, <2>2 DEF variable, tool_adapter
  <2> QED BY <1>2, <1>3, <1>5, <2>1, <2>2, <2>3, <2>4 DEF Placed, GivenStages
<1>8. \A e \in Entries : Kept(c.text[e], e)
  BY <1>1, <1>2 DEF At, Holds
<1>9. /\ TokenKeptSomewhere' /\ c.id \in Ids /\ c.pc = "steps"
  BY <1>1, <1>2, <1>3, <1>6, QuietFile DEF At
<1> QED BY <1>1, <1>2, <1>3, <1>4, <1>5, <1>6, <1>7, <1>8, <1>9, StepKeeps DEF At

LEMMA bindKeeps ==
  ASSUME ToolInv, NEW p \in Importers, bind(p)
  PROVE  ToolInv'
<1>1. At(p, "bind") /\ Advance(p, imp[p])
  BY AtFacts DEF bind
<1>2. PICK c \in ImportRecords : c = imp[p]
  BY <1>1 DEF At
<1>3. /\ UNCHANGED <<tool, tfile, vault, known, asks, tokens, latest, raced>>
      /\ lines' = c.bound
  BY <1>2 DEF bind
<1>4. Moved(p, c)
  BY <1>1, <1>2, <1>3, AdvanceFacts DEF ToolInv, At
<1>5. c.alone => Placed(p)'
  <2> SUFFICES ASSUME c.alone PROVE Placed(p)'
    OBVIOUS
  <2>1. Placed(p) /\ Stage(p) = "bind" /\ Stage(p) \in StepsOfTool
    BY <1>1, <1>2, <1>4 DEF At, Moved
  <2>2. tool \in EnvTools /\ tool \notin AskTools
    BY <2>1 DEF StepsOfTool, AskSteps, FileSteps, EnvTools, AskTools
  <2>3. LET j == imp'[p] IN j.e = c.e /\ j.id = c.id /\ j.token = c.token /\ (j.gone <=> c.gone)
    BY <1>4 DEF Moved
  <2>4. Stage(p)' = "remember"
    BY <1>4, <2>1 DEF Moved, Follows, LastSteps
  <2>5. vault'[imp[p].id] = imp[p].token /\ lines'[variable(imp[p].e)] = imp[p].id
    BY <1>2, <1>3, <2>1, <2>2 DEF Placed
  <2>6. given(imp[p].e, imp[p].token)'
    BY <1>1, <1>2, <1>3, <2>2, <2>3, <2>5, GivenFacts DEF ToolInv, At
  <2> QED BY <1>2, <1>3, <2>3, <2>4, <2>5, <2>6 DEF Placed
<1>6. /\ \A e \in Entries : Kept(c.text[e], e)
      /\ \E id \in Ids : vault'[id] = c.token
  BY <1>1, <1>2, <1>3 DEF At, Holds, InVault
<1> QED BY <1>1, <1>2, <1>3, <1>4, <1>5, <1>6, StepKeeps, QuietItems, QuietFile DEF At

\* A step that writes the tool's file, leaving out only the token that moved.
LEMMA WriteKeeps ==
  ASSUME ToolInv, NEW p \in Importers,
         NEW s \in {"rewrite", "remove_active", "replace", "strike", "unset_key"}, At(p, s),
         NEW c \in ImportRecords, Advance(p, c),
         c.pc = "steps", c.step = imp[p].step, c.e = imp[p].e, c.id = imp[p].id,
         c.token = imp[p].token, c.text = imp[p].text, c.bound = imp[p].bound,
         c.alone => imp[p].alone,
         UNCHANGED <<tool, vault, lines, known, asks, tokens, latest, raced>>,
         tfile' \in [Entries -> FileValues],
         \A e \in Entries : \/ tfile'[e] = tfile[e] \/ tfile'[e] = imp[p].text[e]
                            \/ e = imp[p].e \/ imp[p].text[e] = imp[p].token
  PROVE  ToolInv'
<1>1. Moved(p, c)
  BY AdvanceFacts DEF ToolInv, At
<1>2. /\ InVault(imp[p].token) /\ Holds(p) /\ Busy(p)
      /\ \A e \in Entries : Kept(c.text[e], e)
  BY DEF At, Holds
<1>3. TokenKeptSomewhere'
  BY <1>2, FileKept
<1>4. c.alone => Placed(p)'
  BY <1>1, QuietStep
<1>5. \E id \in Ids : vault'[id] = c.token
  BY <1>2 DEF InVault
<1> QED BY <1>1, <1>2, <1>3, <1>4, <1>5, StepKeeps, QuietItems DEF At

LEMMA RewriteKeeps ==
  ASSUME ToolInv, NEW p \in Importers, Rewrite(p)
  PROVE  ToolInv'
<1>1. At(p, "rewrite")
  BY AtFacts DEF Rewrite
<1>2. PICK g \in BOOLEAN : g = (tool # "huggingface")
  BY Zenon
<1>3. [imp[p] EXCEPT !.gone = g] \in ImportRecords
  BY <1>1 DEF At, ImportRecords
<1>4. PICK c \in ImportRecords : c = [imp[p] EXCEPT !.gone = g]
  BY <1>3
<1>5. Advance(p, c)
  BY <1>2, <1>4 DEF Rewrite
<1>6. /\ c.pc = "steps" /\ c.step = imp[p].step /\ c.e = imp[p].e /\ c.id = imp[p].id
      /\ c.token = imp[p].token /\ c.text = imp[p].text /\ c.bound = imp[p].bound
      /\ c.alone => imp[p].alone
  BY <1>1, <1>4 DEF At, ImportRecords
<1>7. UNCHANGED <<tool, vault, lines, known, asks, tokens, latest, raced>> /\ tfile' = rewritten(p)
  BY DEF Rewrite
<1>8. /\ tfile' \in [Entries -> FileValues]
      /\ \A e \in Entries : \/ tfile'[e] = tfile[e] \/ tfile'[e] = imp[p].text[e]
                            \/ e = imp[p].e \/ imp[p].text[e] = imp[p].token
  <2>1. CASE tool = "huggingface"
    BY <1>1, <1>7, <2>1 DEF rewritten, At, FileValues
  <2>2. CASE tool # "huggingface"
    BY <1>1, <1>7, <2>2 DEF rewritten, At, FileValues
  <2> QED BY <2>1, <2>2
<1> QED BY <1>1, <1>5, <1>6, <1>7, <1>8, WriteKeeps

LEMMA RemoveKeeps ==
  ASSUME ToolInv, NEW p \in Importers, RemoveActive(p) \/ UnsetKey(p)
  PROVE  ToolInv'
<1>1. PICK s \in {"remove_active", "unset_key"} :
        /\ At(p, s) /\ Advance(p, [imp[p] EXCEPT !.gone = TRUE])
        /\ UNCHANGED <<tool, vault, lines, known, asks, tokens, latest, raced>>
        /\ \/ tfile' = [tfile EXCEPT ![imp[p].e] = None]
           \/ /\ tfile' = [tfile EXCEPT ![Active] = None]
              /\ imp[p].text[Active] = imp[p].token
           \/ tfile' = tfile
  BY AtFacts DEF RemoveActive, UnsetKey
<1>2. [imp[p] EXCEPT !.gone = TRUE] \in ImportRecords
  BY <1>1 DEF At, ImportRecords
<1>3. PICK c \in ImportRecords : c = [imp[p] EXCEPT !.gone = TRUE]
  BY <1>2
<1>4. /\ c.pc = "steps" /\ c.step = imp[p].step /\ c.e = imp[p].e /\ c.id = imp[p].id
      /\ c.token = imp[p].token /\ c.text = imp[p].text /\ c.bound = imp[p].bound
      /\ c.alone => imp[p].alone
  BY <1>1, <1>3 DEF At, ImportRecords
<1>5. /\ tfile' \in [Entries -> FileValues]
      /\ \A e \in Entries : \/ tfile'[e] = tfile[e] \/ tfile'[e] = imp[p].text[e]
                            \/ e = imp[p].e \/ imp[p].text[e] = imp[p].token
  BY <1>1 DEF At, FileValues
<1> QED BY <1>1, <1>3, <1>4, <1>5, WriteKeeps

LEMMA ReplaceKeeps ==
  ASSUME ToolInv, NEW p \in Importers, Replace(p) \/ Strike(p)
  PROVE  ToolInv'
<1>1. PICK s \in {"replace", "strike"}, by \in {Ref, None} : At(p, s) /\ ReplaceLine(p, by)
  BY AtFacts DEF Replace, Strike
<1>2. [imp[p] EXCEPT !.gone = TRUE] \in ImportRecords
  BY <1>1 DEF At, ImportRecords
<1>3. PICK c \in ImportRecords : c = [imp[p] EXCEPT !.gone = TRUE]
  BY <1>2
<1>4. /\ c.pc = "steps" /\ c.step = imp[p].step /\ c.e = imp[p].e /\ c.id = imp[p].id
      /\ c.token = imp[p].token /\ c.text = imp[p].text /\ c.bound = imp[p].bound
      /\ c.alone => imp[p].alone
  BY <1>1, <1>3 DEF At, ImportRecords
<1>5. /\ Advance(p, c) /\ UNCHANGED <<tool, vault, lines, known, asks, tokens, latest, raced>>
      /\ tfile' = [imp[p].text EXCEPT ![imp[p].e] = IF @ = imp[p].token THEN by ELSE @]
  BY <1>1, <1>3 DEF ReplaceLine
<1>6. /\ tfile' \in [Entries -> FileValues]
      /\ \A e \in Entries : \/ tfile'[e] = tfile[e] \/ tfile'[e] = imp[p].text[e]
                            \/ e = imp[p].e \/ imp[p].text[e] = imp[p].token
  BY <1>1, <1>5 DEF At, FileValues
<1> QED BY <1>1, <1>3, <1>4, <1>5, <1>6, WriteKeeps

LEMMA RereadKeeps ==
  ASSUME ToolInv, NEW p \in Importers, Reread(p)
  PROVE  ToolInv'
<1>1. At(p, "reread") /\ Advance(p, [imp[p] EXCEPT !.text = tfile, !.config = asks])
  BY AtFacts DEF Reread
<1>2. [imp[p] EXCEPT !.text = tfile, !.config = asks] \in ImportRecords
  BY <1>1 DEF At, ImportRecords
<1>3. PICK c \in ImportRecords : c = [imp[p] EXCEPT !.text = tfile, !.config = asks]
  BY <1>2
<1>4. /\ c.pc = "steps" /\ c.step = imp[p].step /\ c.e = imp[p].e /\ c.id = imp[p].id
      /\ c.token = imp[p].token /\ c.text = tfile /\ c.bound = imp[p].bound /\ c.config = asks
      /\ (c.alone => imp[p].alone) /\ (c.gone => imp[p].gone)
  BY <1>1, <1>3 DEF At, ImportRecords
<1>5. UNCHANGED <<tool, tfile, vault, lines, known, asks, tokens, latest, raced>>
  BY DEF Reread
<1>6. Moved(p, c)
  BY <1>1, <1>3, <1>4, <1>5, AdvanceFacts DEF ToolInv, At
<1>7. c.alone => Placed(p)'
  BY <1>1, <1>4, <1>5, <1>6, QuietStep
<1>8. /\ \E id \in Ids : vault'[id] = c.token
      /\ \A e \in Entries : Kept(c.text[e], e)
  BY <1>1, <1>4, <1>5 DEF At, Holds, InVault, ToolInv, TokenKeptSomewhere, Kept
<1> QED BY <1>1, <1>4, <1>5, <1>6, <1>7, <1>8, StepKeeps, QuietItems, QuietFile DEF At

LEMMA CutKeeps ==
  ASSUME ToolInv, NEW p \in Importers, Cut(p)
  PROVE  ToolInv'
<1>1. At(p, "cut") /\ Advance(p, [imp[p] EXCEPT !.gone = TRUE])
  BY AtFacts DEF Cut
<1>2. [imp[p] EXCEPT !.gone = TRUE] \in ImportRecords
  BY <1>1 DEF At, ImportRecords
<1>3. PICK c \in ImportRecords : c = [imp[p] EXCEPT !.gone = TRUE]
  BY <1>2
<1>4. /\ c.pc = "steps" /\ c.step = imp[p].step /\ c.e = imp[p].e /\ c.id = imp[p].id
      /\ c.token = imp[p].token /\ c.text = imp[p].text /\ c.bound = imp[p].bound
      /\ c.alone => imp[p].alone
  BY <1>1, <1>3 DEF At, ImportRecords
<1>5. /\ UNCHANGED <<tool, vault, lines, known, tokens, latest, raced>>
      /\ tfile' = [imp[p].text EXCEPT ![imp[p].e] = None]
      /\ asks' = imp[p].config
  BY DEF Cut
<1>6. Moved(p, c)
  BY <1>1, <1>3, <1>4, <1>5, AdvanceFacts DEF ToolInv, At
<1>7. /\ tfile' \in [Entries -> FileValues] /\ asks' \in [Entries -> Asked]
      /\ \A e \in Entries : tfile'[e] = imp[p].text[e] \/ e = imp[p].e
  BY <1>1, <1>5 DEF At, FileValues
<1>8. /\ InVault(imp[p].token) /\ Holds(p) /\ Busy(p)
      /\ \A e \in Entries : Kept(c.text[e], e)
  BY <1>1, <1>4 DEF At, Holds
<1>9. TokenKeptSomewhere'
  BY <1>5, <1>7, <1>8, FileKept
<1>10. c.alone => Placed(p)'
  <2> SUFFICES ASSUME c.alone PROVE Placed(p)'
    OBVIOUS
  <2>1. Placed(p) /\ Stage(p) = "cut" /\ asks' = asks
    BY <1>1, <1>4, <1>5 DEF At, Placed
  <2> QED BY <1>1, <1>4, <1>5, <1>6, <2>1, QuietStep
<1>11. \E id \in Ids : vault'[id] = c.token
  BY <1>4, <1>5, <1>8 DEF InVault
<1> QED BY <1>1, <1>4, <1>5, <1>6, <1>7, <1>8, <1>9, <1>10, <1>11, StepKeeps, QuietItems DEF At

LEMMA SetUpKeeps ==
  ASSUME ToolInv, NEW p \in Importers, SetUp(p)
  PROVE  ToolInv'
<1>1. At(p, "setup") /\ Advance(p, imp[p]) /\ points(imp[p].e, imp[p].id)
  BY AtFacts DEF SetUp
<1>2. PICK c \in ImportRecords : c = imp[p]
  BY <1>1 DEF At
<1>3. /\ UNCHANGED <<tool, tfile, vault, lines, known, tokens, latest, raced>>
      /\ tool \notin EnvTools
      /\ asks' \in [Entries -> Asked]
      /\ tool \in {"aws", "kube"} => asks'[c.e] = c.id
      /\ tool \in {"git", "docker"} => asks'[c.e] = Vault
  BY <1>1, <1>2 DEF SetUp, points, aws_setup, kube_setup, terraform_setup, cargo_setup, git_setup,
     docker_setup, At, Asked, EnvTools
<1>4. Moved(p, c)
  BY <1>1, <1>2, <1>3, AdvanceFacts DEF ToolInv, At
<1>5. c.alone => Placed(p)'
  <2> SUFFICES ASSUME c.alone PROVE Placed(p)'
    OBVIOUS
  <2>1. Placed(p) /\ Stage(p) = "setup" /\ tool \in AllTools
    BY <1>1, <1>2 DEF At
  <2>2. LET j == imp'[p] IN j.e = c.e /\ j.id = c.id /\ j.token = c.token /\ (j.gone <=> c.gone)
    BY <1>4 DEF Moved
  <2>3. Stage(p)' \in {"unset_key", "reread", "journal"}
    BY <1>4, <2>1 DEF Moved, Follows, LastSteps
  <2>4. vault'[imp[p].id] = imp[p].token
    BY <1>2, <1>3, <2>1 DEF Placed
  <2>5. tool \notin {"terraform", "cargo"} => given(imp[p].e, imp[p].token)'
    BY <1>1, <1>2, <1>3, <2>1, <2>2, <2>4, GivenFacts DEF ToolInv, At, AllTools, AskTools
  <2> QED BY <1>2, <1>3, <2>2, <2>3, <2>4, <2>5 DEF Placed
<1>6. /\ \A e \in Entries : Kept(c.text[e], e)
      /\ \E id \in Ids : vault'[id] = c.token
  BY <1>1, <1>2, <1>3 DEF At, Holds, InVault
<1> QED BY <1>1, <1>2, <1>3, <1>4, <1>5, <1>6, StepKeeps, QuietItems, QuietFile DEF At

-----------------------------------------------------------------------------
(* Tokens of tools: the ends of an import, and what happens beside it.     *)

LEMMA TypesKeep ==
  ASSUME ToolTypes, tool' = tool, imp' \in [Importers -> ImportRecords], ren' \in RenameRecords,
         \A q \in Importers :
           /\ imp'[q].pc # "idle" => imp'[q].id \in Ids /\ imp'[q].token \in 1..MaxToken
           /\ imp'[q].pc = "steps" => imp'[q].step \in 1..Len(steps),
         ren'.pc # "idle" => ren'.from \in Ids /\ ren'.to \in Ids,
         tfile' \in [Entries -> FileValues], vault' \in [Ids -> (1..MaxToken) \cup {None}],
         lines' \in [Variables -> ItemNames], asks' \in [Entries -> Asked], known' \in BOOLEAN,
         tokens' \in 1..MaxToken, latest' \in [Entries -> 1..tokens'], raced' \subseteq 1..tokens'
  PROVE  ToolTypes'
<1>1. ToolTypeOK'
  BY DEF ToolTypes, ToolTypeOK, FileValues, ItemNames, Asked, ImportRecords, RenameRecords,
     ImportEnds, RenameStages, Variables
<1>2. steps' = steps
  BY DEF steps, tool_adapter
<1> QED BY <1>1, <1>2 DEF ToolTypes, Busy

\* An import but p steps aside, has company, or is left alone with the rest.
Aside(q) ==
  /\ imp'[q] = imp[q] \/ imp'[q] = [imp[q] EXCEPT !.alone = FALSE]
  /\ imp'[q] = imp[q] /\ imp[q].alone => vault' = vault /\ lines' = lines /\ asks' = asks
  /\ Busy(q) => \A e \in Entries : latest'[e] = latest[e] \/ latest'[e] \in raced'

LEMMA TurnKeeps ==
  ASSUME ToolInv, tool' = tool, ToolTypes', TokenKeptSomewhere', ItemsGrow, raced \subseteq raced',
         NEW S \in SUBSET Importers,
         \A q \in S : Holds(q)' /\ (imp'[q].alone => Placed(q)'),
         \A q \in Importers \ S : Aside(q)
  PROVE  ToolInv'
<1>1. ASSUME NEW q \in Importers \ S
      PROVE  Holds(q)' /\ (imp'[q].alone => Placed(q)')
  BY <1>1, Beside DEF Aside
<1> QED BY <1>1 DEF ToolInv

LEMMA EndedFacts ==
  ASSUME ToolTypes, NEW p \in Importers, NEW end \in ImportEnds
  PROVE  LET i == Ended(p, end) IN
         /\ i \in ImportRecords /\ i.pc = end /\ i.e = imp[p].e /\ i.id = imp[p].id
         /\ i.token = imp[p].token /\ i.step = imp[p].step
         /\ (i.alone <=> imp[p].alone) /\ (i.gone <=> imp[p].gone)
<1>1. /\ imp[p] \in ImportRecords
      /\ NoImport.text \in [Entries -> FileValues] /\ NoImport.config \in [Entries -> Asked]
      /\ NoImport.bound \in [Variables -> ItemNames]
  BY DEF ToolTypes, NoImport, FileValues, Asked, ItemNames
<1> QED BY <1>1 DEF Ended, ImportRecords

\* An import ends: nothing more is to be written, and what was in place stays.
LEMMA EndKeeps ==
  ASSUME ToolInv, NEW p \in Importers, answer(p) \/ Stop(p)
  PROVE  ToolInv'
<1>1. PICK end \in {"ok", "failed"} :
        /\ imp' = [imp EXCEPT ![p] = Ended(p, end)]
        /\ imp[p].pc = "journal" \/ (Busy(p) /\ end = "failed")
        /\ UNCHANGED <<tool, tfile, vault, lines, known, asks, ren, tokens, latest, raced>>
  BY DEF answer, Stop
<1>2. /\ ToolTypes /\ imp \in [Importers -> ImportRecords] /\ end \in ImportEnds
      /\ imp[p].pc # "idle"
  BY <1>1 DEF ToolInv, ToolTypes, ImportEnds, Busy
<1>3. PICK i \in ImportRecords :
        /\ i = Ended(p, end) /\ i.pc = end /\ i.e = imp[p].e /\ i.id = imp[p].id
        /\ i.token = imp[p].token /\ (i.alone <=> imp[p].alone) /\ (i.gone <=> imp[p].gone)
  BY <1>2, EndedFacts
<1>4. /\ imp' \in [Importers -> ImportRecords] /\ imp'[p] = i
      /\ \A q \in Importers \ {p} : imp'[q] = imp[q]
  BY <1>1, <1>2, <1>3
<1>5. ToolTypes'
  BY <1>1, <1>2, <1>3, <1>4, TypesKeep DEF ToolTypes, ToolTypeOK, Busy, FileValues, ItemNames, Asked
<1>6. TokenKeptSomewhere' /\ ItemsGrow
  BY <1>1, QuietItems, QuietFile
<1>7. /\ Stage(p)' = end /\ ~Busy(p)'
      /\ Stage(p) = "journal" \/ end = "failed"
  BY <1>1, <1>3, <1>4 DEF Stage, Busy
<1>8. Holds(p) /\ (imp[p].alone => Placed(p))
  BY DEF ToolInv
<1>9. Holds(p)'
  <2>1. end = "ok" => \E id \in Ids : vault'[id] = i.token
    BY <1>1, <1>3, <1>7, <1>8 DEF Holds, InVault
  <2> QED BY <1>3, <1>4, <1>7, <2>1 DEF Holds, InVault
<1>10. ASSUME imp'[p].alone PROVE Placed(p)'
  <2>1. Placed(p)
    BY <1>3, <1>4, <1>8, <1>10
  <2>2. given(imp[p].e, imp[p].token)' <=> given(imp[p].e, imp[p].token)
    BY <1>1, <1>3, <1>4, GivenStays
  <2>3. end = "ok" => vault'[imp[p].id] = imp[p].token
    BY <1>1, <1>7, <2>1 DEF Placed
  <2> QED BY <1>1, <1>3, <1>4, <1>7, <2>1, <2>2, <2>3 DEF Placed, GivenStages
<1>11. \A q \in Importers \ {p} : Aside(q)
  BY <1>1, <1>4 DEF Aside
<1> QED
  <2>1. {p} \in SUBSET Importers /\ \A q \in {p} : Holds(q)' /\ (imp'[q].alone => Placed(q)')
    BY <1>9, <1>10
  <2> QED BY <1>1, <1>5, <1>6, <1>11, <2>1, TurnKeeps

LEMMA PutBackKeeps ==
  ASSUME ToolInv, NEW p \in Importers, PutBack(p)
  PROVE  ToolInv'
<1>1. /\ At(p, "setup") /\ tfile' = imp[p].text /\ tool = "aws" /\ ToolTypes
      /\ UNCHANGED <<tool, vault, lines, known, tokens, latest, raced>>
      /\ asks' = asks \/ asks' = [asks EXCEPT ![imp[p].e] = imp[p].id]
      /\ imp' = [Disturb(p) EXCEPT ![p] = [Ended(p, "failed") EXCEPT !.gone = FALSE]]
      /\ ren' = Disturbed
  BY AtFacts DEF PutBack, aws_setup, ToolInv
<1>2. /\ imp \in [Importers -> ImportRecords] /\ "failed" \in ImportEnds /\ ren \in RenameRecords
  BY <1>1 DEF ToolTypes, ImportEnds
<1>3. PICK n \in ImportRecords :
        /\ n = Ended(p, "failed") /\ n.pc = "failed" /\ n.e = imp[p].e /\ n.id = imp[p].id
        /\ n.token = imp[p].token
  BY <1>1, <1>2, EndedFacts
<1>4. PICK i \in ImportRecords :
        /\ i = [n EXCEPT !.gone = FALSE] /\ i.pc = "failed" /\ i.e = n.e /\ i.id = n.id
        /\ i.token = n.token /\ i.gone = FALSE
  <2>1. [n EXCEPT !.gone = FALSE] \in ImportRecords
    BY DEF ImportRecords
  <2> QED BY <1>3, <2>1 DEF ImportRecords
<1>5. /\ imp' \in [Importers -> ImportRecords] /\ imp'[p] = i
      /\ \A q \in Importers \ {p} : imp'[q] = [imp[q] EXCEPT !.alone = FALSE]
  BY <1>1, <1>2, <1>3, <1>4, RecordsFacts DEF Disturb
<1>6. /\ ren' \in RenameRecords /\ ren'.pc = ren.pc /\ ren'.from = ren.from /\ ren'.to = ren.to
  BY <1>1, <1>2 DEF Disturbed, RenameRecords
<1>7. \A q \in Importers : /\ imp'[q].pc # "idle" => imp'[q].id \in Ids /\ imp'[q].token \in 1..MaxToken
                           /\ imp'[q].pc = "steps" => imp'[q].step \in 1..Len(steps)
  <2>1. ASSUME NEW q \in Importers \ {p}
        PROVE  /\ imp'[q].pc = imp[q].pc /\ imp'[q].id = imp[q].id
               /\ imp'[q].token = imp[q].token /\ imp'[q].step = imp[q].step
    BY <1>2, <1>5 DEF ImportRecords
  <2> QED BY <1>1, <1>3, <1>4, <1>5, <2>1 DEF ToolTypes, Busy, At
<1>8. ToolTypes'
  <2>1. asks' \in [Entries -> Asked]
    BY <1>1 DEF ToolTypes, ToolTypeOK, At, Asked
  <2>2. tfile' \in [Entries -> FileValues]
    BY <1>1 DEF At, ImportRecords
  <2> QED BY <1>1, <1>5, <1>6, <1>7, <2>1, <2>2, TypesKeep DEF ToolTypes, ToolTypeOK, FileValues, ItemNames
<1>9. TokenKeptSomewhere'
  BY <1>1, FileKept DEF At, Holds
<1>10. Stage(p)' = "failed" /\ ~Busy(p)' /\ ~imp'[p].gone
  BY <1>4, <1>5 DEF Stage, Busy
<1>11. Holds(p)' /\ (imp'[p].alone => Placed(p)')
  BY <1>10 DEF Holds, Placed, GivenStages
<1>12. \A q \in Importers \ {p} : Aside(q)
  <2>1. ASSUME NEW q \in Importers \ {p} PROVE ~imp'[q].alone
    BY <1>2, <1>5 DEF ImportRecords
  <2> QED BY <1>1, <1>5, <2>1 DEF Aside
<1>13. {p} \in SUBSET Importers /\ \A q \in {p} : Holds(q)' /\ (imp'[q].alone => Placed(q)')
  BY <1>11
<1> QED BY <1>1, <1>8, <1>9, <1>12, <1>13, TurnKeeps, QuietItems

LEMMA NoImportFacts ==
  /\ NoImport \in ImportRecords /\ NoImport.pc = "idle" /\ NoImport.step = 1
  /\ NoImport.alone = FALSE /\ NoImport.gone = FALSE
<1>1. /\ [e \in Entries |-> None] \in [Entries -> FileValues]
      /\ [e \in Entries |-> None] \in [Entries -> Asked]
      /\ [v \in Variables |-> None] \in [Variables -> ItemNames]
  BY DEF FileValues, Asked, ItemNames
<1>2. Active \in Entries /\ None \in ItemNames /\ 0 \in 0..MaxToken /\ 1 \in Nat /\ "idle" \in ImportEnds
  BY ToolsAssumption DEF ItemNames, ImportEnds
<1> QED BY <1>1, <1>2 DEF NoImport, ImportRecords

\* An import begins: what it read is what the tool's file keeps.
LEMMA importKeeps ==
  ASSUME ToolInv, NEW p \in Importers, NEW e \in Entries, NEW id \in Ids, import(p, e, id)
  PROVE  ToolInv'
<1> DEFINE new == [NoImport EXCEPT !.pc = "steps", !.e = e, !.id = id,
                     !.token = tfile[e], !.text = tfile, !.alone = TRUE]
<1>1. /\ ToolTypes /\ imp \in [Importers -> ImportRecords] /\ tfile \in [Entries -> FileValues]
      /\ TokenKeptSomewhere /\ StepsOK
  BY StepsFacts DEF ToolInv, ToolTypes, ToolTypeOK, FileValues
<1>2. /\ imp[p].pc = "idle" /\ tfile[e] \in 1..MaxToken /\ imp' = [imp EXCEPT ![p] = new]
      /\ UNCHANGED <<tool, tfile, vault, lines, known, asks, ren, tokens, latest, raced>>
  BY DEF import, IsToken
<1>3. PICK n \in ImportRecords : n = NoImport /\ n.step = 1 /\ n.gone = FALSE
  BY NoImportFacts
<1>4. /\ new \in ImportRecords /\ new.pc = "steps" /\ new.e = e /\ new.id = id
      /\ new.token = tfile[e] /\ new.text = tfile /\ new.step = 1 /\ new.gone = FALSE
  <2>1. new = [n EXCEPT !.pc = "steps", !.e = e, !.id = id,
                 !.token = tfile[e], !.text = tfile, !.alone = TRUE]
    BY <1>3
  <2> HIDE DEF new
  <2>2. tfile[e] \in 0..MaxToken /\ id \in ItemNames /\ "steps" \in ImportEnds
    BY <1>2, ToolsAssumption DEF ItemNames, ImportEnds
  <2> QED BY <1>1, <1>3, <2>1, <2>2 DEF ImportRecords
<1> HIDE DEF new
<1>5. PICK i \in ImportRecords : i = new
  BY <1>4
<1>6. /\ imp' \in [Importers -> ImportRecords] /\ imp'[p] = i
      /\ \A q \in Importers \ {p} : imp'[q] = imp[q]
  BY <1>1, <1>2, <1>5
<1>7. 1 \in 1..Len(steps)
  BY <1>1 DEF StepsOK
<1>8. ToolTypes'
  <2>1. \A q \in Importers : /\ imp'[q].pc # "idle" => imp'[q].id \in Ids /\ imp'[q].token \in 1..MaxToken
                             /\ imp'[q].pc = "steps" => imp'[q].step \in 1..Len(steps)
    BY <1>1, <1>2, <1>4, <1>5, <1>6, <1>7 DEF ToolTypes, Busy
  <2> QED BY <1>1, <1>2, <1>6, <2>1, TypesKeep DEF ToolTypes, ToolTypeOK, FileValues, ItemNames, Asked
<1>9. Stage(p)' \in {"bound", "create"} /\ Busy(p)'
      /\ (Stage(p)' = "create" => tool \notin EnvTools)
  <2>1. steps' = steps
    BY <1>2 DEF steps, tool_adapter
  <2> QED BY <1>1, <1>4, <1>5, <1>6, <2>1 DEF Stage, Busy, StepsOK
<1>10. Holds(p)'
  BY <1>1, <1>2, <1>4, <1>5, <1>6, <1>9 DEF Holds, Kept, TokenKeptSomewhere, InVault
<1>11. Placed(p)'
  BY <1>2, <1>4, <1>5, <1>6, <1>9 DEF Placed, GivenStages
<1>12. \A q \in Importers \ {p} : Aside(q)
  BY <1>2, <1>6 DEF Aside
<1>13. {p} \in SUBSET Importers /\ \A q \in {p} : Holds(q)' /\ (imp'[q].alone => Placed(q)')
  BY <1>10, <1>11
<1>14. TokenKeptSomewhere' /\ ItemsGrow
  BY <1>2, QuietItems, QuietFile
<1> QED BY <1>2, <1>8, <1>12, <1>13, <1>14, TurnKeeps

\* A step of no import: every import has company, or none sees a difference.
LEMMA WorldKeeps ==
  ASSUME ToolInv, tool' = tool, tfile' \in [Entries -> FileValues],
         vault' \in [Ids -> (1..MaxToken) \cup {None}],
         lines' \in [Variables -> ItemNames], asks' \in [Entries -> Asked], known' \in BOOLEAN,
         tokens' \in 1..MaxToken, latest' \in [Entries -> 1..tokens'], raced' \subseteq 1..tokens',
         ren' \in RenameRecords, ren'.pc # "idle" => ren'.from \in Ids /\ ren'.to \in Ids,
         \/ imp' = Disturb(None)
         \/ imp' = imp /\ vault' = vault /\ lines' = lines /\ asks' = asks,
         TokenKeptSomewhere', ItemsGrow, raced \subseteq raced',
         \A q \in Importers : Busy(q) =>
           \A e \in Entries : latest'[e] = latest[e] \/ latest'[e] \in raced'
  PROVE  ToolInv'
<1>1. ToolTypes /\ imp \in [Importers -> ImportRecords]
  BY DEF ToolInv, ToolTypes
<1>2. /\ imp' \in [Importers -> ImportRecords]
      /\ \A q \in Importers : \/ imp'[q] = [imp[q] EXCEPT !.alone = FALSE]
                              \/ imp'[q] = imp[q] /\ vault' = vault /\ lines' = lines /\ asks' = asks
  <2>1. CASE imp' = Disturb(None)
    BY <1>1, <2>1, RecordsFacts, ToolsAssumption DEF Disturb
  <2>2. CASE imp' = imp /\ vault' = vault /\ lines' = lines /\ asks' = asks
    BY <1>1, <2>2
  <2> QED BY <2>1, <2>2
<1>3. ASSUME NEW q \in Importers
      PROVE  /\ imp'[q].pc = imp[q].pc /\ imp'[q].id = imp[q].id
             /\ imp'[q].token = imp[q].token /\ imp'[q].step = imp[q].step
             /\ Aside(q)
  <2>1. imp[q] \in ImportRecords
    BY <1>1
  <2>2. CASE imp'[q] = [imp[q] EXCEPT !.alone = FALSE]
    BY <2>1, <2>2 DEF Aside, ImportRecords
  <2>3. CASE imp'[q] = imp[q] /\ vault' = vault /\ lines' = lines /\ asks' = asks
    BY <2>1, <2>3 DEF Aside
  <2> QED BY <1>2, <2>2, <2>3
<1>4. ToolTypes'
  <2>1. \A q \in Importers : /\ imp'[q].pc # "idle" => imp'[q].id \in Ids /\ imp'[q].token \in 1..MaxToken
                             /\ imp'[q].pc = "steps" => imp'[q].step \in 1..Len(steps)
    BY <1>1, <1>3 DEF ToolTypes, Busy
  <2> QED BY <1>1, <1>2, <2>1, TypesKeep
<1> QED
  <2>1. {} \in SUBSET Importers
    OBVIOUS
  <2> QED BY <1>3, <1>4, <2>1, TurnKeeps

\* The world as the types have it.
LEMMA WorldTypes ==
  ASSUME ToolInv
  PROVE  /\ ToolTypes /\ TokenKeptSomewhere /\ tfile \in [Entries -> FileValues]
         /\ vault \in [Ids -> (1..MaxToken) \cup {None}]
         /\ lines \in [Variables -> ItemNames] /\ asks \in [Entries -> Asked] /\ known \in BOOLEAN
         /\ tokens \in 1..MaxToken /\ latest \in [Entries -> 1..tokens] /\ raced \subseteq 1..tokens
         /\ ren \in RenameRecords
         /\ Disturbed \in RenameRecords /\ Disturbed.pc = ren.pc
         /\ Disturbed.from = ren.from /\ Disturbed.to = ren.to
         /\ ren.pc # "idle" => ren.from \in Ids /\ ren.to \in Ids
<1>1. ren \in RenameRecords
  BY DEF ToolInv, ToolTypes
<1>2. /\ Disturbed \in RenameRecords /\ Disturbed.pc = ren.pc
      /\ Disturbed.from = ren.from /\ Disturbed.to = ren.to
  BY <1>1 DEF Disturbed, RenameRecords
<1> QED BY <1>1, <1>2 DEF ToolInv, ToolTypes, ToolTypeOK, FileValues, ItemNames, Asked

LEMMA LoginKeeps ==
  ASSUME ToolInv, NEW e \in Entries, Login(e)
  PROVE  ToolInv'
<1>1. /\ tokens < MaxToken /\ tokens' = tokens + 1
      /\ tfile' = [tfile EXCEPT ![e] = tokens + 1] /\ latest' = [latest EXCEPT ![e] = tokens + 1]
      /\ raced' = IF \E p \in Importers : Busy(p) THEN raced \cup {tokens + 1} ELSE raced
      /\ imp' = Disturb(None) /\ ren' = Disturbed
      /\ UNCHANGED <<tool, vault, lines, known, asks>>
  BY DEF Login
<1>2. /\ tokens' \in 1..MaxToken /\ tokens + 1 \in 1..MaxToken /\ 1..tokens \subseteq 1..tokens'
  BY <1>1, WorldTypes, ToolsAssumption
<1>3. /\ tfile' \in [Entries -> FileValues] /\ latest' \in [Entries -> 1..tokens']
      /\ raced' \subseteq 1..tokens' /\ raced \subseteq raced'
  BY <1>1, <1>2, WorldTypes, ToolsAssumption DEF FileValues
<1>4. \A q \in Importers : Busy(q) => \A f \in Entries : latest'[f] = latest[f] \/ latest'[f] \in raced'
  BY <1>1, WorldTypes
<1>5. TokenKeptSomewhere'
  BY <1>1, <1>3, WorldTypes DEF TokenKeptSomewhere
<1> QED BY <1>1, <1>2, <1>3, <1>4, <1>5, WorldTypes, WorldKeeps, QuietItems

\* helper setup and unset by hand, bindings remember and forget.
LEMMA ByHandKeeps ==
  ASSUME ToolInv,
         \/ \E e \in Entries, id \in Ids : setup(e, id)
         \/ \E e \in Entries : unset(e)
         \/ remember_value \/ forget
  PROVE  ToolInv'
<1>1. /\ imp' = Disturb(None) /\ ren' = Disturbed
      /\ UNCHANGED <<tool, tfile, vault, lines, tokens, latest, raced>>
  BY DEF setup, unset, remember_value, forget
<1>2. asks' \in [Entries -> Asked] /\ known' \in BOOLEAN
  <2>1. ASSUME NEW e \in Entries, NEW id \in Ids, setup(e, id)
        PROVE  asks' \in [Entries -> Asked] /\ known' \in BOOLEAN
    BY <2>1, WorldTypes DEF setup, points, aws_setup, kube_setup, terraform_setup, cargo_setup,
       git_setup, docker_setup, Asked
  <2>2. ASSUME NEW e \in Entries, unset(e)
        PROVE  asks' \in [Entries -> Asked] /\ known' \in BOOLEAN
    BY <2>2, WorldTypes DEF unset, aws_unset, kube_unset, terraform_unset, cargo_unset, git_unset,
       docker_unset, Asked
  <2>3. CASE remember_value \/ forget
    BY <2>3, WorldTypes DEF remember_value, forget
  <2> QED BY <2>1, <2>2, <2>3
<1>3. TokenKeptSomewhere' /\ ItemsGrow
  BY <1>1, QuietItems, QuietFile
<1> QED BY <1>1, <1>2, <1>3, WorldTypes, WorldKeeps

\* A rename moves the item, and no token leaves the vault.
LEMMA renameKeeps ==
  ASSUME ToolInv, NEW from \in Ids, NEW to \in Ids, rename_value(from, to)
  PROVE  ToolInv'
<1>1. /\ vault[from] # None /\ vault[to] = None
      /\ vault' = [vault EXCEPT ![to] = vault[from], ![from] = None]
      /\ ren' = [NoRename EXCEPT !.pc = "asks", !.from = from, !.to = to, !.alone = TRUE]
      /\ imp' = Disturb(None)
      /\ UNCHANGED <<tool, tfile, lines, known, asks, tokens, latest, raced>>
  BY DEF rename_value
<1>2. /\ vault' \in [Ids -> (1..MaxToken) \cup {None}]
      /\ vault'[to] = vault[from]
      /\ \A id \in Ids : id # from /\ id # to => vault'[id] = vault[id]
  BY <1>1, WorldTypes
<1>3. ItemsGrow
  BY <1>1, <1>2, ToolsAssumption DEF ItemsGrow, InVault
<1>4. ren' \in RenameRecords /\ ren'.from = from /\ ren'.to = to
  <2>1. /\ [v \in Variables |-> None] \in [Variables -> ItemNames] /\ from \in ItemNames /\ to \in ItemNames
        /\ "asks" \in RenameStages
    BY DEF ItemNames, RenameStages
  <2> QED BY <1>1, <2>1 DEF NoRename, RenameRecords
<1>5. TokenKeptSomewhere'
  BY <1>1, <1>3, QuietFile
<1> QED BY <1>1, <1>2, <1>3, <1>4, <1>5, WorldTypes, WorldKeeps

LEMMA followKeeps ==
  ASSUME ToolInv, follow_asks
  PROVE  ToolInv'
<1> DEFINE naming == profiles(ren.from) \cup users(ren.from)
<1>1. PICK moved \in SUBSET naming :
        /\ asks' = [e \in Entries |-> IF e \in moved THEN ren.to ELSE asks[e]]
        /\ ren' = [ren EXCEPT !.pc = "read", !.ok = @ /\ moved = naming]
        /\ imp' = IF moved = {} THEN imp ELSE Disturb(None)
  BY DEF follow_asks
<1> HIDE DEF naming
<1>2. /\ ren.pc = "asks" /\ ren.from \in Ids /\ ren.to \in Ids
      /\ UNCHANGED <<tool, tfile, vault, lines, known, tokens, latest, raced>>
  BY WorldTypes DEF follow_asks
<1>3. PICK b \in BOOLEAN : b = (ren.ok /\ moved = naming)
  BY Zenon
<1>4. ren' \in RenameRecords /\ ren'.from = ren.from /\ ren'.to = ren.to
  <2>1. ren' = [ren EXCEPT !.pc = "read", !.ok = b]
    BY <1>1, <1>3
  <2>2. "read" \in RenameStages
    BY DEF RenameStages
  <2> QED BY <2>1, <2>2, WorldTypes DEF RenameRecords
<1>5. /\ asks' \in [Entries -> Asked] /\ (moved = {} => asks' = asks)
  BY <1>1, <1>2, WorldTypes DEF Asked
<1>6. TokenKeptSomewhere' /\ ItemsGrow
  BY <1>2, QuietItems, QuietFile
<1> QED BY <1>1, <1>2, <1>4, <1>5, <1>6, WorldTypes, WorldKeeps

LEMMA rebindKeeps ==
  ASSUME ToolInv, follow_read \/ rebind_file \/ RenameEnds
  PROVE  ToolInv'
<1>1. UNCHANGED <<tool, tfile, vault, known, asks, tokens, latest, raced>>
  BY DEF follow_read, rebind_file, RenameEnds
<1>2. ren.from \in Ids /\ ren.to \in Ids /\ ren \in RenameRecords
  BY WorldTypes DEF follow_read, rebind_file, RenameEnds
<1>3. [v \in Variables |-> None] \in [Variables -> ItemNames] /\ lines \in [Variables -> ItemNames]
      /\ {"answer", "done", "write"} \subseteq RenameStages
  BY WorldTypes DEF ItemNames, RenameStages
<1>4. ren' \in RenameRecords /\ ren'.from = ren.from /\ ren'.to = ren.to
  BY <1>2, <1>3 DEF follow_read, rebind_file, RenameEnds, RenameRecords, NoRename
<1>5. /\ lines' \in [Variables -> ItemNames]
      /\ imp' = Disturb(None) \/ (imp' = imp /\ lines' = lines)
  BY <1>2, <1>3 DEF follow_read, rebind_file, RenameEnds, rebound, RenameRecords, ItemNames
<1>6. TokenKeptSomewhere' /\ ItemsGrow
  BY <1>1, QuietItems, QuietFile
<1> QED BY <1>1, <1>2, <1>4, <1>5, <1>6, WorldTypes, WorldKeeps

LEMMA ToolInit == TInit => ToolInv
<1> SUFFICES ASSUME TInit PROVE ToolInv
  OBVIOUS
<1>1. /\ imp = [p \in Importers |-> NoImport] /\ ren = NoRename /\ tool \in Tools /\ known = FALSE
      /\ tfile \in [Entries -> 1..SignedIn] /\ latest = tfile /\ raced = {} /\ tokens = SignedIn
      /\ vault = [i \in Ids |-> None] /\ lines = [v \in Variables |-> None]
      /\ asks \in [Entries -> {None, Other}]
  BY DEF TInit
<1>2. \A p \in Importers : imp[p] = NoImport /\ imp[p].pc = "idle" /\ ~imp[p].alone
  BY <1>1, NoImportFacts
<1>3. ren \in RenameRecords /\ ren.pc = "idle"
  <2>1. [v \in Variables |-> None] \in [Variables -> ItemNames] /\ None \in ItemNames /\ "idle" \in RenameStages
    BY DEF ItemNames, RenameStages
  <2> QED BY <1>1, <2>1 DEF NoRename, RenameRecords
<1>4. SignedIn \in 1..MaxToken /\ 1..SignedIn \subseteq 1..MaxToken
  BY ToolsAssumption DEF SignedIn
<1>5. /\ tfile \in [Entries -> (1..MaxToken) \cup {None, Ref}] /\ latest \in [Entries -> 1..tokens]
      /\ asks \in [Entries -> Ids \cup {None, Vault, Other}]
  BY <1>1, <1>4
<1>6. ToolTypeOK
  BY <1>1, <1>2, <1>3, <1>4, <1>5 DEF ToolTypeOK
<1>7. ToolTypes
  BY <1>1, <1>2, <1>3, <1>6, NoImportFacts DEF ToolTypes, Busy
<1>8. TokenKeptSomewhere
  BY <1>1 DEF TokenKeptSomewhere
<1>9. \A p \in Importers : Holds(p)
  BY <1>2 DEF Holds, Busy, Stage
<1> QED BY <1>2, <1>7, <1>8, <1>9 DEF ToolInv

LEMMA ToolStutter ==
  ASSUME ToolInv, UNCHANGED tvars
  PROVE  ToolInv'
<1>1. /\ UNCHANGED <<tool, tfile, vault, lines, known, asks, imp, ren, tokens, latest, raced>>
  BY DEF tvars
<1>2. TokenKeptSomewhere' /\ ItemsGrow
  BY <1>1, QuietItems, QuietFile
<1> QED BY <1>1, <1>2, WorldTypes, WorldKeeps

\* Every step of the system is one of those.
LEMMA ToolStep ==
  ASSUME ToolInv, [TNext]_tvars
  PROVE  ToolInv'
<1>1. ASSUME NEW p \in Importers, ImportStep(p)
      PROVE  ToolInv'
  BY <1>1, boundKeeps, createKeeps, ReadBackKeeps, bindKeeps, RewriteKeeps, RemoveKeeps, RereadKeeps,
     ReplaceKeeps, CutKeeps, SetUpKeeps, PutBackKeeps, EndKeeps DEF ImportStep
<1> QED BY <1>1, importKeeps, LoginKeeps, ByHandKeeps, renameKeeps, followKeeps, rebindKeeps, ToolStutter
        DEF TNext

\* ToolInv says what TokensInReach does: an import that took the token out alone
\* has what it had put in place, whatever stage it stopped at.
LEMMA InReach == ToolInv => TokensInReach
<1> SUFFICES ASSUME ToolInv PROVE TokensInReach
  OBVIOUS
<1>1. ToolTypeOK /\ TokenKeptSomewhere
  BY DEF ToolInv, ToolTypes
<1>2. ASSUME NEW p \in Importers, imp[p].gone, imp[p].alone, tool \in {"aws"} => imp[p].pc = "ok",
             tool \notin {"terraform", "cargo"}
      PROVE  given(imp[p].e, imp[p].token)
  <2>1. Placed(p)
    BY <1>2 DEF ToolInv
  <2>2. CASE tool = "aws"
    <3>1. Stage(p) = "ok"
      BY <1>2, <2>2 DEF Stage, Busy
    <3> QED BY <2>1, <2>2, <3>1 DEF Placed, GivenStages
  <2>3. CASE tool # "aws"
    BY <1>2, <2>1, <2>3 DEF Placed
  <2> QED BY <2>2, <2>3
<1> QED BY <1>1, <1>2 DEF TokensInReach, OutMeansGiven

\* However many imports run at once, of whichever tools, beside sign-ins, setups
\* and a rename, each stopping anywhere: the last token signed in with stays in
\* the tool's file or in an item unless an import had the file in hand, and an
\* import nothing came beside leaves the tool a way to the token it took out.
THEOREM TokensStayInReach == ToolSpec => []TokensInReach
<1>1. ToolInv /\ [TNext]_tvars => ToolInv'
  BY ToolStep
<1> QED BY <1>1, ToolInit, InReach, PTL DEF ToolSpec

-----------------------------------------------------------------------------
(* Tokens of tools: what an import and a rename answer.                    *)

\* The token is kept for the entry by the tool's file, or by an import of it.
Seen(x, e) ==
  \/ tfile[e] = x
  \/ \E p \in Importers : \/ imp[p].text[e] = x
                          \/ imp[p].pc # "idle" /\ imp[p].e = e /\ imp[p].token = x

\* A token is seen at one entry only, but for Hugging Face, and none before it is given.
Apart ==
  /\ tool # "huggingface" =>
       \A x \in 1..MaxToken, d, e \in Entries : Seen(x, d) /\ Seen(x, e) => d = e
  /\ \A x \in 1..MaxToken, e \in Entries : Seen(x, e) => x <= tokens

\* How far an import nobody came beside has cleaned the tool's file.
Clean(p) ==
  LET i == imp[p] IN
  /\ Stage(p) \in {"journal", "ok"} \/ (Stage(p) = "setup" /\ tool \notin AskTools)
       => \A e \in Entries : tfile[e] # i.token
  /\ tool = "huggingface" /\ Stage(p) \in {"bound", "create", "read_back", "bind", "remember", "rewrite"}
       => i.text = tfile
  /\ tool = "huggingface" /\ Stage(p) = "remove_active"
       => /\ tfile[Active] = i.text[Active]
          /\ \A e \in Entries \ {Active} : tfile[e] # i.token

\* Only an AWS profile or a kubeconfig user asks for an item by its id.
AsksFit ==
  tool \notin {"aws", "kube"} =>
    \A e \in Entries : asks[e] \notin Ids /\ \A p \in Importers : imp[p].config[e] \notin Ids

\* How far a rename nobody came beside has got.
Followed ==
  /\ ren.pc # "idle" => ren.from # ren.to
  /\ ren.alone =>
       /\ ren.pc \in {"read", "write", "answer", "done"} /\ ren.ok
            => \A e \in Entries : asks[e] # ren.from
       /\ ren.pc = "write" => ren.read = lines
       /\ ren.pc \in {"answer", "done"} /\ ren.ok
            => (known => \A v \in Variables : lines[v] # ren.from)

AnswersInv ==
  /\ Apart /\ AsksFit /\ Followed
  /\ \A p \in Importers : imp[p].alone => Clean(p)

\* What is seen after a step of import p was seen before it.
LEMMA SeenMoves ==
  ASSUME ToolTypes, NEW p \in Importers, NEW c \in ImportRecords, Moved(p, c), Busy(p),
         c.e = imp[p].e, c.token = imp[p].token, c.text = imp[p].text \/ c.text = tfile,
         \A d \in Entries : \/ tfile'[d] \in {None, Ref}
                            \/ tfile'[d] = tfile[d] \/ tfile'[d] = imp[p].text[d],
         NEW x \in 1..MaxToken, NEW e \in Entries, Seen(x, e)'
  PROVE  Seen(x, e)
<1>1. CASE tfile'[e] = x
  BY <1>1, ToolsAssumption DEF Seen
<1>2. CASE \E q \in Importers : \/ imp'[q].text[e] = x
                                \/ imp'[q].pc # "idle" /\ imp'[q].e = e /\ imp'[q].token = x
  <2>1. PICK q \in Importers : \/ imp'[q].text[e] = x
                               \/ imp'[q].pc # "idle" /\ imp'[q].e = e /\ imp'[q].token = x
    BY <1>2
  <2>2. CASE q = p
    BY <2>1, <2>2 DEF Moved, Seen, Busy
  <2>3. CASE q # p
    <3>1. /\ imp'[q].text = imp[q].text /\ imp'[q].pc = imp[q].pc
          /\ imp'[q].e = imp[q].e /\ imp'[q].token = imp[q].token
      BY <2>3 DEF Moved, ToolTypes, ImportRecords
    <3> QED BY <2>1, <3>1 DEF Seen
  <2> QED BY <2>2, <2>3
<1> QED BY <1>1, <1>2 DEF Seen

LEMMA StepAnswers ==
  ASSUME ToolInv, AnswersInv, NEW p \in Importers, NEW c \in ImportRecords, Moved(p, c), Busy(p),
         c.e = imp[p].e, c.token = imp[p].token, c.text = imp[p].text \/ c.text = tfile,
         c.config = imp[p].config \/ c.config = asks,
         \A d \in Entries : \/ tfile'[d] \in {None, Ref}
                            \/ tfile'[d] = tfile[d] \/ tfile'[d] = imp[p].text[d],
         tool' = tool, tokens' = tokens,
         tool \notin {"aws", "kube"} => \A e \in Entries : asks'[e] \notin Ids,
         c.alone => Clean(p)'
  PROVE  AnswersInv'
<1>1. ToolTypes /\ Apart /\ AsksFit /\ Followed
  BY DEF ToolInv, AnswersInv
<1>2. \A x \in 1..MaxToken, e \in Entries : Seen(x, e)' => Seen(x, e)
  BY <1>1, SeenMoves
<1>3. Apart'
  BY <1>1, <1>2 DEF Apart
<1>4. \A q \in Importers \ {p} : imp'[q].config = imp[q].config /\ ~imp'[q].alone
  BY <1>1 DEF Moved, ToolTypes, ImportRecords
<1>5. imp'[p].config = c.config /\ (imp'[p].alone => c.alone)
  BY DEF Moved
<1>6. AsksFit'
  BY <1>1, <1>4, <1>5 DEF AsksFit
<1>7. Followed'
  BY <1>1 DEF Followed, Moved
<1>8. \A q \in Importers : imp'[q].alone => Clean(q)'
  BY <1>4, <1>5
<1> QED BY <1>3, <1>6, <1>7, <1>8 DEF AnswersInv

\* Before the tool's file is touched nothing is claimed but that it was read.
LEMMA CleanStays ==
  ASSUME NEW p \in Importers, NEW s \in {"bound", "create", "read_back", "bind", "remember"},
         At(p, s), Clean(p), NEW c \in ImportRecords, Moved(p, c), c.text = imp[p].text,
         tool' = tool, tfile' = tfile
  PROVE  Clean(p)'
<1>1. Stage(p) = s /\ imp'[p].text = imp[p].text /\ imp'[p].pc \in {"steps", "journal"}
  BY DEF At, Moved
<1>2. Stage(p)' \in {"create", "read_back", "bind", "remember", "rewrite", "reread", "setup"}
  BY <1>1 DEF Moved, Follows, LastSteps
<1>3. Stage(p)' = "setup" => tool \in AskTools
  BY <1>1 DEF Moved, Follows, LastSteps
<1>4. CASE tool = "huggingface"
  BY <1>1, <1>2, <1>3, <1>4 DEF Clean
<1>5. CASE tool # "huggingface"
  BY <1>1, <1>2, <1>3, <1>5 DEF Clean
<1> QED BY <1>4, <1>5

LEMMA boundAnswers ==
  ASSUME ToolInv, AnswersInv, NEW p \in Importers, bound(p)
  PROVE  AnswersInv'
<1>1. At(p, "bound")
  BY AtFacts DEF bound
<1>2. PICK v \in Variables : v = variable(imp[p].e)
  BY <1>1 DEF At
<1>3. [imp[p] EXCEPT !.bound = [lines EXCEPT ![v] = imp[p].id]] \in ImportRecords
  BY <1>1 DEF At, ImportRecords, ItemNames
<1>4. PICK c \in ImportRecords : c = [imp[p] EXCEPT !.bound = [lines EXCEPT ![v] = imp[p].id]]
  BY <1>3
<1>5. Advance(p, c) /\ UNCHANGED <<tool, tfile, vault, lines, known, asks, tokens, latest, raced>>
  BY <1>2, <1>4 DEF bound
<1>6. /\ c.pc = "steps" /\ c.step = imp[p].step
      /\ c.e = imp[p].e /\ c.token = imp[p].token /\ c.text = imp[p].text
      /\ c.config = imp[p].config /\ (c.alone <=> imp[p].alone)
  BY <1>1, <1>4 DEF At, ImportRecords, ItemNames
<1>7. Moved(p, c) /\ Busy(p)
  BY <1>1, <1>5, <1>6, AdvanceFacts DEF ToolInv, At
<1>8. c.alone => Clean(p)'
  BY <1>1, <1>5, <1>6, <1>7, CleanStays DEF AnswersInv
<1> QED BY <1>5, <1>6, <1>7, <1>8, StepAnswers DEF AnswersInv, AsksFit

LEMMA QuietAnswers ==
  ASSUME ToolInv, AnswersInv, NEW p \in Importers,
         create_value(p) \/ ReadBack(p) \/ bind(p) \/ remember(p)
  PROVE  AnswersInv'
<1>1. PICK s \in {"create", "read_back", "bind", "remember"} :
        /\ At(p, s) /\ Advance(p, imp[p]) /\ UNCHANGED <<tool, tfile, asks, tokens, latest, raced>>
  BY AtFacts DEF create_value, ReadBack, bind, remember
<1>2. PICK c \in ImportRecords : c = imp[p]
  BY <1>1 DEF At
<1>3. Moved(p, c) /\ Busy(p)
  BY <1>1, <1>2, AdvanceFacts DEF ToolInv, At
<1>4. c.alone => Clean(p)'
  BY <1>1, <1>2, <1>3, CleanStays DEF AnswersInv
<1> QED BY <1>1, <1>2, <1>3, <1>4, StepAnswers DEF AnswersInv, AsksFit

\* Other entries keep other tokens.
LEMMA OthersDiffer ==
  ASSUME AnswersInv, NEW p \in Importers, NEW s, At(p, s), tool # "huggingface"
  PROVE  \A d \in Entries \ {imp[p].e} : tfile[d] # imp[p].token /\ imp[p].text[d] # imp[p].token
<1>1. imp[p].token \in 1..MaxToken /\ imp[p].e \in Entries /\ imp[p].pc # "idle"
  BY DEF At
<1>2. Seen(imp[p].token, imp[p].e)
  BY <1>1 DEF Seen
<1>3. ASSUME NEW d \in Entries, tfile[d] = imp[p].token \/ imp[p].text[d] = imp[p].token
      PROVE  Seen(imp[p].token, d)
  BY <1>3 DEF Seen
<1> QED BY <1>1, <1>2, <1>3 DEF AnswersInv, Apart

\* A step that takes the token's entry out of the tool's file.
LEMMA TakenAnswers ==
  ASSUME ToolInv, AnswersInv, NEW p \in Importers,
         NEW s \in {"rewrite", "replace", "strike", "cut", "unset_key"}, At(p, s),
         tool # "huggingface", Advance(p, [imp[p] EXCEPT !.gone = TRUE]),
         tool' = tool, tokens' = tokens,
         asks' = asks \/ asks' = imp[p].config,
         tfile'[imp[p].e] # imp[p].token,
         \A d \in Entries : tfile'[d] \in {None, Ref} \/ tfile'[d] = tfile[d] \/ tfile'[d] = imp[p].text[d]
  PROVE  AnswersInv'
<1>1. [imp[p] EXCEPT !.gone = TRUE] \in ImportRecords
  BY DEF At, ImportRecords
<1>2. PICK c \in ImportRecords : c = [imp[p] EXCEPT !.gone = TRUE]
  BY <1>1
<1>3. /\ c.pc = "steps" /\ c.step = imp[p].step /\ c.e = imp[p].e
      /\ c.token = imp[p].token /\ c.text = imp[p].text /\ c.config = imp[p].config
  BY <1>2 DEF At, ImportRecords
<1>4. Moved(p, c) /\ Busy(p)
  BY <1>2, <1>3, AdvanceFacts DEF ToolInv, At
<1>5. \A d \in Entries : tfile'[d] # imp[p].token
  BY OthersDiffer, ToolsAssumption DEF At
<1>6. imp'[p].token = imp[p].token
  BY <1>3, <1>4 DEF Moved
<1>7. Clean(p)'
  BY <1>5, <1>6 DEF Clean
<1>8. tool \notin {"aws", "kube"} => \A e \in Entries : asks'[e] \notin Ids
  BY DEF AnswersInv, AsksFit
<1> QED BY <1>3, <1>4, <1>7, <1>8, StepAnswers

LEMMA RewriteAnswers ==
  ASSUME ToolInv, AnswersInv, NEW p \in Importers, Rewrite(p)
  PROVE  AnswersInv'
<1>1. At(p, "rewrite") /\ tfile' = rewritten(p) /\ imp[p].e \in Entries
      /\ UNCHANGED <<tool, vault, lines, known, asks, tokens, latest, raced>>
  BY AtFacts DEF Rewrite, At
<1>2. CASE tool # "huggingface"
  <2>1. PICK g \in BOOLEAN : g = (tool # "huggingface")
    BY Zenon
  <2>2. g = TRUE
    BY <1>2, <2>1
  <2>3. Advance(p, [imp[p] EXCEPT !.gone = TRUE])
    BY <2>1, <2>2 DEF Rewrite
  <2>4. tfile' = [imp[p].text EXCEPT ![imp[p].e] = None]
    BY <1>1, <1>2 DEF rewritten
  <2>5. /\ tfile'[imp[p].e] # imp[p].token
        /\ \A d \in Entries : tfile'[d] \in {None, Ref} \/ tfile'[d] = imp[p].text[d]
    BY <1>1, <2>4, ToolsAssumption DEF At
  <2> QED BY <1>1, <1>2, <2>3, <2>5, TakenAnswers
<1>3. CASE tool = "huggingface"
  <2>1. PICK g \in BOOLEAN : g = (tool # "huggingface")
    BY Zenon
  <2>2. [imp[p] EXCEPT !.gone = g] \in ImportRecords
    BY <1>1 DEF At, ImportRecords
  <2>3. PICK c \in ImportRecords : c = [imp[p] EXCEPT !.gone = g]
    BY <2>2
  <2>4. /\ c.pc = "steps" /\ c.step = imp[p].step /\ c.e = imp[p].e /\ c.config = imp[p].config
        /\ c.token = imp[p].token /\ c.text = imp[p].text /\ (c.alone <=> imp[p].alone)
    BY <1>1, <2>3 DEF At, ImportRecords
  <2>5. Advance(p, c)
    BY <2>1, <2>3 DEF Rewrite
  <2>6. Moved(p, c) /\ Busy(p)
    BY <1>1, <2>4, <2>5, AdvanceFacts DEF ToolInv, At
  <2>7. tfile' = [e \in Entries |-> IF e = Active THEN tfile[e]
          ELSE IF \A s \in Entries \ {Active} : imp[p].text[s] # imp[p].token THEN tfile[e]
          ELSE IF imp[p].text[e] = imp[p].token THEN None ELSE imp[p].text[e]]
    BY <1>1, <1>3 DEF rewritten
  <2>8. ASSUME c.alone PROVE Clean(p)'
    <3>1. Clean(p) /\ Stage(p) = "rewrite"
      BY <1>1, <2>4, <2>8 DEF AnswersInv, At
    <3>2. imp[p].text = tfile /\ imp'[p].text = imp[p].text /\ imp'[p].token = imp[p].token
      BY <1>3, <2>4, <2>6, <3>1 DEF Clean, Moved
    <3>3. Stage(p)' = "remove_active"
      BY <1>3, <2>6, <3>1 DEF Moved, Follows, StepsOfTool, EnvSteps, LastSteps
    <3>4. /\ tfile'[Active] = imp[p].text[Active]
          /\ \A e \in Entries \ {Active} : tfile'[e] # imp[p].token
      BY <1>1, <2>7, <3>2, ToolsAssumption DEF At
    <3> QED BY <3>2, <3>3, <3>4 DEF Clean
  <2>9. \A d \in Entries : tfile'[d] \in {None, Ref} \/ tfile'[d] = tfile[d] \/ tfile'[d] = imp[p].text[d]
    BY <2>7
  <2> QED BY <1>1, <2>4, <2>6, <2>8, <2>9, StepAnswers DEF AnswersInv, AsksFit
<1> QED BY <1>2, <1>3

LEMMA RemoveAnswers ==
  ASSUME ToolInv, AnswersInv, NEW p \in Importers, RemoveActive(p)
  PROVE  AnswersInv'
<1>1. /\ At(p, "remove_active") /\ Advance(p, [imp[p] EXCEPT !.gone = TRUE])
      /\ tfile' = IF imp[p].text[Active] = imp[p].token THEN [tfile EXCEPT ![Active] = None] ELSE tfile
      /\ UNCHANGED <<tool, vault, lines, known, asks, tokens, latest, raced>>
  BY AtFacts DEF RemoveActive
<1>2. [imp[p] EXCEPT !.gone = TRUE] \in ImportRecords
  BY <1>1 DEF At, ImportRecords
<1>3. PICK c \in ImportRecords : c = [imp[p] EXCEPT !.gone = TRUE]
  BY <1>2
<1>4. /\ c.pc = "steps" /\ c.step = imp[p].step /\ c.e = imp[p].e /\ c.config = imp[p].config
      /\ c.token = imp[p].token /\ c.text = imp[p].text /\ (c.alone <=> imp[p].alone)
  BY <1>1, <1>3 DEF At, ImportRecords
<1>5. Moved(p, c) /\ Busy(p)
  BY <1>1, <1>3, <1>4, AdvanceFacts DEF ToolInv, At
<1>6. \A d \in Entries : tfile'[d] \in {None, Ref} \/ tfile'[d] = tfile[d]
  BY <1>1 DEF At
<1>7. ASSUME c.alone PROVE Clean(p)'
  <2>1. Clean(p) /\ Stage(p) = "remove_active" /\ tool = "huggingface"
    BY <1>1, <1>4, <1>5, <1>7 DEF AnswersInv, At, Moved, StepsOfTool, AskSteps, FileSteps
  <2>2. \A e \in Entries : tfile'[e] # imp[p].token
    BY <1>1, <2>1, ToolsAssumption DEF At, Clean
  <2>3. Stage(p)' = "journal" /\ imp'[p].token = imp[p].token
    BY <1>4, <1>5, <2>1 DEF Moved, Follows
  <2> QED BY <2>2, <2>3 DEF Clean
<1> QED BY <1>1, <1>4, <1>5, <1>6, <1>7, StepAnswers DEF AnswersInv, AsksFit

LEMMA LineAnswers ==
  ASSUME ToolInv, AnswersInv, NEW p \in Importers,
         Replace(p) \/ Strike(p) \/ Cut(p) \/ UnsetKey(p)
  PROVE  AnswersInv'
<1>1. PICK s \in {"replace", "strike", "cut", "unset_key"} :
        /\ At(p, s) /\ Advance(p, [imp[p] EXCEPT !.gone = TRUE])
        /\ tool' = tool /\ tokens' = tokens /\ (asks' = asks \/ asks' = imp[p].config)
        /\ \/ \E by \in {Ref, None} :
                tfile' = [imp[p].text EXCEPT ![imp[p].e] = IF @ = imp[p].token THEN by ELSE @]
           \/ tfile' = [imp[p].text EXCEPT ![imp[p].e] = None]
           \/ tfile' = [tfile EXCEPT ![imp[p].e] = None]
  BY AtFacts DEF Replace, Strike, Cut, UnsetKey, ReplaceLine
<1>2. tool # "huggingface"
  <2>1. s \in StepsOfTool
    BY <1>1, StepsFacts DEF At, Stage, StepsOK, ToolInv, ToolTypes, ToolTypeOK
  <2> QED BY <2>1 DEF StepsOfTool, EnvSteps
<1>3. /\ tfile'[imp[p].e] # imp[p].token
      /\ \A d \in Entries : tfile'[d] \in {None, Ref} \/ tfile'[d] = tfile[d] \/ tfile'[d] = imp[p].text[d]
  BY <1>1, ToolsAssumption DEF At
<1> QED BY <1>1, <1>2, <1>3, TakenAnswers

LEMMA RereadAnswers ==
  ASSUME ToolInv, AnswersInv, NEW p \in Importers, Reread(p)
  PROVE  AnswersInv'
<1>1. /\ At(p, "reread") /\ Advance(p, [imp[p] EXCEPT !.text = tfile, !.config = asks])
      /\ UNCHANGED <<tool, tfile, vault, lines, known, asks, tokens, latest, raced>>
  BY AtFacts DEF Reread
<1>2. [imp[p] EXCEPT !.text = tfile, !.config = asks] \in ImportRecords
  BY <1>1 DEF At, ImportRecords
<1>3. PICK c \in ImportRecords : c = [imp[p] EXCEPT !.text = tfile, !.config = asks]
  BY <1>2
<1>4. /\ c.pc = "steps" /\ c.step = imp[p].step /\ c.e = imp[p].e
      /\ c.token = imp[p].token /\ c.text = tfile /\ c.config = asks
  BY <1>1, <1>3 DEF At, ImportRecords
<1>5. Moved(p, c) /\ Busy(p) /\ Stage(p) = "reread"
  BY <1>1, <1>3, <1>4, AdvanceFacts DEF ToolInv, At
<1>6. Clean(p)'
  <2>1. tool # "huggingface"
    BY <1>5 DEF Moved, StepsOfTool, EnvSteps
  <2>2. Stage(p)' \in {"replace", "strike", "cut"}
    BY <1>5 DEF Moved, Follows, LastSteps
  <2> QED BY <1>1, <2>1, <2>2 DEF Clean
<1> QED BY <1>1, <1>4, <1>5, <1>6, StepAnswers DEF AnswersInv, AsksFit

LEMMA SetUpAnswers ==
  ASSUME ToolInv, AnswersInv, NEW p \in Importers, SetUp(p)
  PROVE  AnswersInv'
<1>1. /\ At(p, "setup") /\ Advance(p, imp[p]) /\ points(imp[p].e, imp[p].id)
      /\ UNCHANGED <<tool, tfile, vault, lines, known, tokens, latest, raced>>
  BY AtFacts DEF SetUp
<1>2. PICK c \in ImportRecords : c = imp[p]
  BY <1>1 DEF At
<1>3. Moved(p, c) /\ Busy(p) /\ Stage(p) = "setup"
  BY <1>1, <1>2, AdvanceFacts DEF ToolInv, At
<1>4. tool \notin {"aws", "kube"} => \A e \in Entries : asks'[e] \notin Ids
  BY <1>1, ToolsAssumption DEF AnswersInv, AsksFit, points, terraform_setup, cargo_setup, git_setup,
     docker_setup, At
<1>5. ASSUME c.alone PROVE Clean(p)'
  <2>1. Clean(p) /\ tool # "huggingface"
    BY <1>2, <1>3, <1>5 DEF AnswersInv, Moved, StepsOfTool, EnvSteps
  <2>2. /\ Stage(p)' \in {"unset_key", "reread", "journal"}
        /\ Stage(p)' = "journal" => tool \notin AskTools
        /\ imp'[p].token = imp[p].token
    BY <1>2, <1>3 DEF Moved, Follows, LastSteps
  <2> QED BY <1>1, <1>3, <2>1, <2>2 DEF Clean
<1> QED BY <1>1, <1>2, <1>3, <1>4, <1>5, StepAnswers

\* A turn that writes nothing new into the tool's file or configuration.
LEMMA TurnAnswers ==
  ASSUME AnswersInv, tool' = tool, tokens' = tokens,
         \A x \in 1..MaxToken, e \in Entries : Seen(x, e)' => Seen(x, e),
         AsksFit', Followed', NEW S \in SUBSET Importers,
         \A q \in S : imp'[q].alone => Clean(q)',
         \A q \in Importers \ S :
           ~imp'[q].alone \/ (imp'[q] = imp[q] /\ tfile' = tfile)
  PROVE  AnswersInv'
<1>1. Apart'
  BY DEF AnswersInv, Apart
<1>2. ASSUME NEW q \in Importers \ S, imp'[q].alone
      PROVE  Clean(q)'
  <2>1. imp'[q] = imp[q] /\ tfile' = tfile /\ Clean(q)
    BY <1>2 DEF AnswersInv
  <2>2. Stage(q)' = Stage(q)
    BY <2>1 DEF Stage, Busy, steps, tool_adapter
  <2> QED BY <2>1, <2>2 DEF Clean
<1> QED BY <1>1, <1>2 DEF AnswersInv

\* What is seen after an import ended was seen before.
LEMMA SeenEnds ==
  ASSUME NEW p \in Importers, imp[p].pc # "idle",
         \A e \in Entries : imp'[p].text[e] = None,
         imp'[p].e = imp[p].e, imp'[p].token = imp[p].token,
         \A q \in Importers \ {p} :
           /\ imp'[q].text = imp[q].text
           /\ imp'[q].pc = imp[q].pc /\ imp'[q].e = imp[q].e /\ imp'[q].token = imp[q].token,
         tfile' = tfile \/ tfile' = imp[p].text,
         NEW x \in 1..MaxToken, NEW e \in Entries, Seen(x, e)'
  PROVE  Seen(x, e)
<1>1. CASE tfile'[e] = x
  BY <1>1 DEF Seen
<1>2. CASE \E q \in Importers : \/ imp'[q].text[e] = x
                                \/ imp'[q].pc # "idle" /\ imp'[q].e = e /\ imp'[q].token = x
  <2>1. PICK q \in Importers : \/ imp'[q].text[e] = x
                               \/ imp'[q].pc # "idle" /\ imp'[q].e = e /\ imp'[q].token = x
    BY <1>2
  <2>2. CASE q = p
    <3>1. x # None
      BY ToolsAssumption
    <3>2. imp[p].e = e /\ imp[p].token = x
      BY <2>1, <2>2, <3>1
    <3> QED BY <3>2 DEF Seen
  <2>3. CASE q # p
    BY <2>1, <2>3 DEF Seen
  <2> QED BY <2>2, <2>3
<1> QED BY <1>1, <1>2 DEF Seen

LEMMA PutBackAnswers ==
  ASSUME ToolInv, AnswersInv, NEW p \in Importers, PutBack(p)
  PROVE  AnswersInv'
<1>1. /\ At(p, "setup") /\ tfile' = imp[p].text /\ ToolTypes /\ tool = "aws"
      /\ UNCHANGED <<tool, vault, lines, known, tokens, latest, raced>>
      /\ imp' = [Disturb(p) EXCEPT ![p] = [Ended(p, "failed") EXCEPT !.gone = FALSE]]
      /\ ren' = Disturbed
  BY AtFacts DEF PutBack, aws_setup, ToolInv
<1>2. /\ imp \in [Importers -> ImportRecords] /\ "failed" \in ImportEnds /\ ren \in RenameRecords
  BY <1>1 DEF ToolTypes, ImportEnds
<1>3. PICK n \in ImportRecords :
        /\ n = Ended(p, "failed") /\ n.pc = "failed" /\ n.e = imp[p].e
        /\ n.token = imp[p].token
        /\ \A e \in Entries : n.text[e] = None /\ n.config[e] = None
  <2>1. Ended(p, "failed").text = NoImport.text /\ Ended(p, "failed").config = NoImport.config
    BY <1>2 DEF Ended, ImportRecords
  <2>2. \A e \in Entries : NoImport.text[e] = None /\ NoImport.config[e] = None
    BY DEF NoImport
  <2> QED BY <1>1, <1>2, <2>1, <2>2, EndedFacts
<1>4. PICK i \in ImportRecords :
        /\ i = [n EXCEPT !.gone = FALSE] /\ i.pc = "failed" /\ i.e = n.e
        /\ i.token = n.token /\ i.text = n.text /\ i.config = n.config
  <2>1. [n EXCEPT !.gone = FALSE] \in ImportRecords
    BY DEF ImportRecords
  <2> QED BY <1>3, <2>1 DEF ImportRecords
<1>5. /\ imp'[p] = i
      /\ \A q \in Importers \ {p} :
           /\ ~imp'[q].alone /\ imp'[q].text = imp[q].text /\ imp'[q].config = imp[q].config
           /\ imp'[q].pc = imp[q].pc /\ imp'[q].e = imp[q].e /\ imp'[q].token = imp[q].token
  BY <1>1, <1>2, <1>3, <1>4 DEF Disturb, ImportRecords
<1>6. ~ren'.alone /\ ren'.pc = ren.pc /\ ren'.from = ren.from /\ ren'.to = ren.to
  BY <1>1, <1>2 DEF Disturbed, RenameRecords
<1>7. \A x \in 1..MaxToken, e \in Entries : Seen(x, e)' => Seen(x, e)
  <2>1. \A e \in Entries : imp'[p].text[e] = None /\ imp'[p].config[e] = None
    BY <1>3, <1>4, <1>5
  <2>2. imp[p].pc # "idle" /\ imp'[p].e = imp[p].e /\ imp'[p].token = imp[p].token
    BY <1>1, <1>3, <1>4, <1>5 DEF At
  <2> QED BY <1>1, <1>5, <2>1, <2>2, SeenEnds
<1>8. AsksFit'
  <2>1. \A e \in Entries : imp'[p].config[e] = None
    BY <1>3, <1>4, <1>5
  <2> QED BY <1>1, <1>5, <2>1, ToolsAssumption DEF AnswersInv, AsksFit
<1>9. Followed'
  BY <1>6 DEF AnswersInv, Followed
<1>10. Clean(p)'
  BY <1>4, <1>5 DEF Clean, Stage, Busy
<1>11. {p} \in SUBSET Importers /\ \A q \in {p} : Clean(q)'
  BY <1>10
<1> QED BY <1>1, <1>5, <1>7, <1>8, <1>9, <1>11, TurnAnswers

LEMMA EndAnswers ==
  ASSUME ToolInv, AnswersInv, NEW p \in Importers, answer(p) \/ Stop(p)
  PROVE  AnswersInv'
<1>1. PICK end \in {"ok", "failed"} :
        /\ imp' = [imp EXCEPT ![p] = Ended(p, end)]
        /\ imp[p].pc = "journal" \/ (Busy(p) /\ end = "failed")
        /\ UNCHANGED <<tool, tfile, vault, lines, known, asks, ren, tokens, latest, raced>>
  BY DEF answer, Stop
<1>2. /\ ToolTypes /\ imp \in [Importers -> ImportRecords] /\ end \in ImportEnds
      /\ imp[p].pc # "idle"
  BY <1>1 DEF ToolInv, ToolTypes, ImportEnds, Busy
<1>3. PICK i \in ImportRecords :
        /\ i = Ended(p, end) /\ i.pc = end /\ i.e = imp[p].e
        /\ i.token = imp[p].token /\ (i.alone <=> imp[p].alone)
        /\ \A e \in Entries : i.text[e] = None /\ i.config[e] = None
  <2>1. Ended(p, end).text = NoImport.text /\ Ended(p, end).config = NoImport.config
    BY <1>2 DEF Ended, ImportRecords
  <2>2. \A e \in Entries : NoImport.text[e] = None /\ NoImport.config[e] = None
    BY DEF NoImport
  <2> QED BY <1>2, <2>1, <2>2, EndedFacts
<1>4. imp'[p] = i /\ \A q \in Importers \ {p} : imp'[q] = imp[q]
  BY <1>1, <1>2, <1>3
<1>5. \A x \in 1..MaxToken, e \in Entries : Seen(x, e)' => Seen(x, e)
  BY <1>1, <1>2, <1>3, <1>4, SeenEnds
<1>6. AsksFit'
  BY <1>1, <1>3, <1>4, ToolsAssumption DEF AnswersInv, AsksFit
<1>7. Followed'
  BY <1>1 DEF AnswersInv, Followed
<1>8. ASSUME imp'[p].alone PROVE Clean(p)'
  <2>1. Stage(p)' = end /\ (end = "ok" => Stage(p) = "journal")
    BY <1>1, <1>3, <1>4 DEF Stage, Busy
  <2>2. Clean(p)
    BY <1>3, <1>4, <1>8 DEF AnswersInv
  <2> QED BY <1>1, <1>3, <1>4, <2>1, <2>2 DEF Clean
<1>9. {p} \in SUBSET Importers /\ \A q \in {p} : imp'[q].alone => Clean(q)'
  BY <1>8
<1> QED BY <1>1, <1>4, <1>5, <1>6, <1>7, <1>9, TurnAnswers

LEMMA importAnswers ==
  ASSUME ToolInv, AnswersInv, NEW p \in Importers, NEW e \in Entries, NEW id \in Ids, import(p, e, id)
  PROVE  AnswersInv'
<1> DEFINE new == [NoImport EXCEPT !.pc = "steps", !.e = e, !.id = id,
                     !.token = tfile[e], !.text = tfile, !.alone = TRUE]
<1>1. /\ ToolTypes /\ imp \in [Importers -> ImportRecords] /\ StepsOK
  BY StepsFacts DEF ToolInv, ToolTypes, ToolTypeOK
<1>2. /\ imp' = [imp EXCEPT ![p] = new]
      /\ UNCHANGED <<tool, tfile, vault, lines, known, asks, ren, tokens, latest, raced>>
  BY DEF import
<1>3. PICK n \in ImportRecords : n = NoImport /\ n.step = 1 /\ \A f \in Entries : n.config[f] = None
  <2>1. \A f \in Entries : NoImport.config[f] = None
    BY DEF NoImport
  <2> QED BY <2>1, NoImportFacts
<1>4. /\ new.pc = "steps" /\ new.e = e /\ new.token = tfile[e] /\ new.text = tfile /\ new.step = 1
      /\ \A f \in Entries : new.config[f] = None
  <2>1. new = [n EXCEPT !.pc = "steps", !.e = e, !.id = id,
                 !.token = tfile[e], !.text = tfile, !.alone = TRUE]
    BY <1>3
  <2> HIDE DEF new
  <2> QED BY <1>3, <2>1 DEF ImportRecords
<1> HIDE DEF new
<1>5. imp'[p] = new /\ \A q \in Importers \ {p} : imp'[q] = imp[q]
  BY <1>1, <1>2
<1>6. ASSUME NEW x \in 1..MaxToken, NEW f \in Entries, Seen(x, f)'
      PROVE  Seen(x, f)
  BY <1>2, <1>4, <1>5, <1>6 DEF Seen
<1>7. AsksFit' /\ Followed'
  BY <1>2, <1>4, <1>5, ToolsAssumption DEF AnswersInv, AsksFit, Followed
<1>8. Clean(p)'
  <2>1. Stage(p)' \in {"bound", "create"}
    <3>1. steps' = steps
      BY <1>2 DEF steps, tool_adapter
    <3> QED BY <1>1, <1>4, <1>5, <3>1 DEF Stage, Busy, StepsOK
  <2> QED BY <1>2, <1>4, <1>5, <2>1 DEF Clean
<1>9. {p} \in SUBSET Importers /\ \A q \in {p} : imp'[q].alone => Clean(q)'
  BY <1>8
<1> QED BY <1>2, <1>5, <1>6, <1>7, <1>9, TurnAnswers

\* A step of no import that leaves the tool's file alone.
LEMMA WorldAnswers ==
  ASSUME ToolInv, AnswersInv, tool' = tool, tfile' = tfile, tokens' = tokens,
         imp' = Disturb(None) \/ imp' = imp,
         tool \notin {"aws", "kube"} => \A e \in Entries : asks'[e] \notin Ids,
         Followed'
  PROVE  AnswersInv'
<1>1. imp \in [Importers -> ImportRecords]
  BY DEF ToolInv, ToolTypes
<1>2. ASSUME NEW q \in Importers
      PROVE  /\ imp'[q].text = imp[q].text /\ imp'[q].config = imp[q].config
             /\ imp'[q].pc = imp[q].pc /\ imp'[q].e = imp[q].e /\ imp'[q].token = imp[q].token
             /\ ~imp'[q].alone \/ imp'[q] = imp[q]
  BY <1>1, ToolsAssumption DEF Disturb, ImportRecords
<1>3. \A x \in 1..MaxToken, e \in Entries : Seen(x, e)' => Seen(x, e)
  BY <1>2 DEF Seen
<1>4. AsksFit'
  BY <1>2 DEF AnswersInv, AsksFit
<1>5. {} \in SUBSET Importers
  OBVIOUS
<1> QED BY <1>2, <1>3, <1>4, <1>5, TurnAnswers

\* A sign-in's token is new, and its entry's.
LEMMA LoginAnswers ==
  ASSUME ToolInv, AnswersInv, NEW e \in Entries, Login(e)
  PROVE  AnswersInv'
<1>1. /\ tokens' = tokens + 1 /\ tfile' = [tfile EXCEPT ![e] = tokens + 1] /\ tokens \in Nat
      /\ imp' = Disturb(None) /\ ren' = Disturbed /\ tool' = tool /\ asks' = asks
      /\ imp \in [Importers -> ImportRecords] /\ ren \in RenameRecords
      /\ tfile \in [Entries -> FileValues]
  BY WorldTypes DEF Login, ToolInv, ToolTypes
<1>2. ASSUME NEW q \in Importers
      PROVE  /\ imp'[q].text = imp[q].text /\ imp'[q].config = imp[q].config
             /\ imp'[q].pc = imp[q].pc /\ imp'[q].e = imp[q].e /\ imp'[q].token = imp[q].token
             /\ ~imp'[q].alone
  BY <1>1, ToolsAssumption DEF Disturb, ImportRecords
<1>3. ASSUME NEW x \in 1..MaxToken, NEW f \in Entries, Seen(x, f)'
      PROVE  Seen(x, f) \/ (x = tokens + 1 /\ f = e)
  BY <1>1, <1>2, <1>3 DEF Seen
<1>4. Apart'
  <2>1. ASSUME NEW x \in 1..MaxToken, NEW f \in Entries, Seen(x, f)'
        PROVE  x <= tokens + 1 /\ (x = tokens + 1 => f = e)
    BY <1>1, <1>3, <2>1 DEF AnswersInv, Apart
  <2>2. ASSUME tool # "huggingface", NEW x \in 1..MaxToken, NEW d \in Entries, NEW f \in Entries,
               Seen(x, d)', Seen(x, f)'
        PROVE  d = f
    <3>1. CASE x = tokens + 1
      BY <2>1, <2>2, <3>1
    <3>2. CASE x # tokens + 1
      BY <1>3, <2>2, <3>2 DEF AnswersInv, Apart
    <3> QED BY <3>1, <3>2
  <2> QED BY <1>1, <2>1, <2>2 DEF Apart
<1>5. AsksFit'
  BY <1>1, <1>2 DEF AnswersInv, AsksFit
<1>6. Followed'
  BY <1>1 DEF AnswersInv, Followed, Disturbed, RenameRecords
<1> QED BY <1>2, <1>4, <1>5, <1>6 DEF AnswersInv

LEMMA ByHandAnswers ==
  ASSUME ToolInv, AnswersInv,
         \/ \E e \in Entries, id \in Ids : setup(e, id)
         \/ \E e \in Entries : unset(e)
         \/ remember_value \/ forget
  PROVE  AnswersInv'
<1>1. /\ imp' = Disturb(None) /\ ren' = Disturbed
      /\ UNCHANGED <<tool, tfile, vault, lines, tokens, latest, raced>>
  BY DEF setup, unset, remember_value, forget
<1>2. ASSUME tool \notin {"aws", "kube"}
      PROVE  \A f \in Entries : asks'[f] \notin Ids
  <2>1. asks \in [Entries -> Asked] /\ \A f \in Entries : asks[f] \notin Ids
    BY <1>2, WorldTypes DEF AnswersInv, AsksFit
  <2>2. ASSUME NEW e \in Entries, NEW id \in Ids, setup(e, id)
        PROVE  \A f \in Entries : asks'[f] \notin Ids
    BY <1>2, <2>1, <2>2, ToolsAssumption DEF setup, points, terraform_setup, cargo_setup,
       git_setup, docker_setup
  <2>3. ASSUME NEW e \in Entries, unset(e)
        PROVE  \A f \in Entries : asks'[f] \notin Ids
    BY <1>2, <2>1, <2>3, ToolsAssumption DEF unset, terraform_unset, cargo_unset, git_unset, docker_unset
  <2>4. CASE remember_value \/ forget
    BY <2>1, <2>4 DEF remember_value, forget
  <2> QED BY <2>2, <2>3, <2>4
<1>3. Followed'
  BY <1>1, WorldTypes DEF AnswersInv, Followed, Disturbed, RenameRecords
<1> QED BY <1>1, <1>2, <1>3, WorldAnswers

\* A rename: what follows it names the new id only.
LEMMA renameAnswers ==
  ASSUME ToolInv, AnswersInv, NEW from \in Ids, NEW to \in Ids, rename_value(from, to)
  PROVE  AnswersInv'
<1>1. /\ vault[from] # None /\ vault[to] = None /\ imp' = Disturb(None)
      /\ ren' = [NoRename EXCEPT !.pc = "asks", !.from = from, !.to = to, !.alone = TRUE]
      /\ UNCHANGED <<tool, tfile, lines, known, asks, tokens, latest, raced>>
  BY DEF rename_value
<1>2. ren'.pc = "asks" /\ ren'.from = from /\ ren'.to = to /\ from # to
  BY <1>1 DEF NoRename
<1>3. Followed'
  BY <1>2 DEF Followed
<1> QED BY <1>1, <1>3, WorldAnswers DEF AnswersInv, AsksFit

LEMMA followAnswers ==
  ASSUME ToolInv, AnswersInv, follow_asks
  PROVE  AnswersInv'
<1> DEFINE naming == profiles(ren.from) \cup users(ren.from)
<1>1. PICK moved \in SUBSET naming :
        /\ asks' = [e \in Entries |-> IF e \in moved THEN ren.to ELSE asks[e]]
        /\ ren' = [ren EXCEPT !.pc = "read", !.ok = @ /\ moved = naming]
        /\ imp' = IF moved = {} THEN imp ELSE Disturb(None)
  BY DEF follow_asks
<1>2. /\ ren.pc = "asks" /\ ren.from \in Ids /\ ren \in RenameRecords /\ ren.from # ren.to
      /\ UNCHANGED <<tool, tfile, vault, lines, known, tokens, latest, raced>>
  BY WorldTypes DEF follow_asks, AnswersInv, Followed
<1>3. PICK b \in BOOLEAN : b = (ren.ok /\ moved = naming)
  BY Zenon
<1>4. /\ ren'.pc = "read" /\ ren'.from = ren.from /\ ren'.to = ren.to /\ ren'.ok = b
  <2>1. ren' = [ren EXCEPT !.pc = "read", !.ok = b]
    BY <1>1, <1>3
  <2> QED BY <1>2, <2>1 DEF RenameRecords
<1>5. b => moved = naming
  BY <1>3, Zenon
<1>6. naming = {e \in Entries : tool \in {"aws", "kube"} /\ asks[e] = ren.from}
  BY DEF profiles, users
<1>7. tool \notin {"aws", "kube"} => moved = {} /\ \A e \in Entries : asks[e] \notin Ids
  BY <1>6 DEF AnswersInv, AsksFit
<1>8. tool \notin {"aws", "kube"} => \A e \in Entries : asks'[e] \notin Ids
  BY <1>1, <1>7
<1>9. b => \A e \in Entries : asks'[e] # ren.from
  BY <1>1, <1>2, <1>5, <1>6, <1>7
<1>10. Followed'
  BY <1>2, <1>4, <1>9 DEF Followed
<1> HIDE DEF naming
<1> QED BY <1>1, <1>2, <1>8, <1>10, WorldAnswers

LEMMA rebindAnswers ==
  ASSUME ToolInv, AnswersInv, follow_read \/ rebind_file \/ RenameEnds
  PROVE  AnswersInv'
<1>1. /\ UNCHANGED <<tool, tfile, vault, known, asks, tokens, latest, raced>>
      /\ imp' = Disturb(None) \/ imp' = imp
      /\ Followed /\ ren \in RenameRecords
  BY WorldTypes DEF follow_read, rebind_file, RenameEnds, AnswersInv
<1> SUFFICES Followed'
  BY <1>1, WorldAnswers DEF AnswersInv, AsksFit
<1>2. CASE follow_read
  BY <1>1, <1>2 DEF follow_read, Followed, RenameRecords
<1>3. CASE rebind_file
  <2>1. ren.pc = "write" /\ ren'.pc = "answer" /\ ren'.from = ren.from /\ ren'.to = ren.to
        /\ (ren'.alone => ren.alone) /\ (ren'.ok => ren.ok)
    BY <1>1, <1>3 DEF rebind_file, RenameRecords
  <2>2. ren.alone /\ ren'.ok => \A v \in Variables : lines'[v] # ren.from
    <3> SUFFICES ASSUME ren.alone, ren'.ok
                 PROVE  \A v \in Variables : lines'[v] # ren.from
      OBVIOUS
    <3>1. lines' = IF \E v \in Variables : ren.read[v] = ren.from
                   THEN rebound(ren.read, ren.from, ren.to) ELSE lines
      BY <1>1, <1>3 DEF rebind_file, RenameRecords
    <3>2. ren.read = lines /\ ren.from # ren.to
      BY <1>1, <2>1 DEF Followed
    <3> QED BY <3>1, <3>2 DEF rebound
  <2>3. ren'.alone /\ ren'.ok => \A e \in Entries : asks'[e] # ren.from
    BY <1>1, <2>1 DEF Followed
  <2> QED BY <1>1, <2>1, <2>2, <2>3 DEF Followed
<1>4. CASE RenameEnds
  <2>1. CASE ren.pc = "answer" /\ ren' = [ren EXCEPT !.pc = "done"]
    BY <1>1, <1>4, <2>1 DEF RenameEnds, Followed, RenameRecords
  <2>2. CASE ren' = [ren EXCEPT !.pc = "done", !.read = NoRename.read, !.ok = FALSE]
    BY <1>1, <1>4, <2>2 DEF RenameEnds, Followed, RenameRecords
  <2> QED BY <1>4, <2>1, <2>2 DEF RenameEnds
<1> QED BY <1>2, <1>3, <1>4

LEMMA AnswersInit == TInit => AnswersInv
<1> SUFFICES ASSUME TInit PROVE AnswersInv
  OBVIOUS
<1>1. /\ imp = [p \in Importers |-> NoImport] /\ ren = NoRename /\ tokens = SignedIn
      /\ tfile \in [Entries -> 1..SignedIn]
      /\ tool # "huggingface" => \A d, e \in Entries : d # e => tfile[d] # tfile[e]
      /\ asks \in [Entries -> {None, Other}]
  BY DEF TInit
<1>2. /\ NoImport.pc = "idle" /\ ~NoImport.alone
      /\ \A e \in Entries : NoImport.text[e] = None /\ NoImport.config[e] = None
  <2>1. \A e \in Entries : NoImport.text[e] = None /\ NoImport.config[e] = None
    BY DEF NoImport
  <2> QED BY <2>1, NoImportFacts
<1>3. \A p \in Importers : imp[p] = NoImport
  BY <1>1
<1>4. \A x \in 1..MaxToken, e \in Entries : Seen(x, e) => tfile[e] = x
  BY <1>2, <1>3, ToolsAssumption DEF Seen
<1>5. Apart
  BY <1>1, <1>4, ToolsAssumption DEF Apart, SignedIn
<1>6. AsksFit
  BY <1>1, <1>2, <1>3, ToolsAssumption DEF AsksFit
<1>7. Followed
  BY <1>1 DEF Followed, NoRename
<1> QED BY <1>2, <1>3, <1>5, <1>6, <1>7 DEF AnswersInv

LEMMA AnswersStutter ==
  ASSUME ToolInv, AnswersInv, UNCHANGED tvars
  PROVE  AnswersInv'
<1>1. UNCHANGED <<tool, tfile, vault, lines, known, asks, imp, ren, tokens, latest, raced>>
  BY DEF tvars
<1> QED BY <1>1, WorldAnswers DEF AnswersInv, AsksFit, Followed

LEMMA AnswersStep ==
  ASSUME ToolInv, AnswersInv, [TNext]_tvars
  PROVE  AnswersInv'
<1>1. ASSUME NEW p \in Importers, ImportStep(p)
      PROVE  AnswersInv'
  BY <1>1, boundAnswers, QuietAnswers, RewriteAnswers, RemoveAnswers, LineAnswers, RereadAnswers,
     SetUpAnswers, PutBackAnswers, EndAnswers DEF ImportStep
<1> QED BY <1>1, importAnswers, LoginAnswers, ByHandAnswers, renameAnswers, followAnswers, rebindAnswers,
        AnswersStutter DEF TNext

\* However they interleave: an import that answered ok, and that nothing came
\* beside, has left no copy of the token it moved in the tool's files, and such
\* a rename leaves nothing on the machine naming the old id.
THEOREM AnswersAreSo == ToolSpec => []AnswersHold
<1>1. TInit => ToolInv /\ AnswersInv
  BY ToolInit, AnswersInit
<1>2. ToolInv /\ AnswersInv /\ [TNext]_tvars => (ToolInv /\ AnswersInv)'
  BY ToolStep, AnswersStep
<1>3. AnswersInv => AnswersHold
  <2> SUFFICES ASSUME AnswersInv PROVE AnswersHold
    OBVIOUS
  <2>1. ASSUME NEW p \in Importers, imp[p].pc = "ok", imp[p].alone
        PROVE  \A e \in Entries : tfile[e] # imp[p].token
    <3>1. Stage(p) = "ok"
      BY <2>1 DEF Stage, Busy
    <3> QED BY <2>1, <3>1 DEF AnswersInv, Clean
  <2>2. AnsweredMeansMoved
    BY <2>1 DEF AnsweredMeansMoved
  <2>3. RenameFollows
    BY DEF AnswersInv, Followed, RenameFollows
  <2> QED BY <2>2, <2>3 DEF AnswersHold
<1> QED BY <1>1, <1>2, <1>3, PTL DEF ToolSpec
=============================================================================
