------------------------- MODULE AcquisitionProofs -------------------------
(***************************************************************************)
(* Proofs about Grants, Acquisition and AccessRequest, for any number of   *)
(* consumers, coordinates, keys, requests, workloads and proofs, and of    *)
(* people, processes and access requests.                                  *)
(***************************************************************************)
EXTENDS Acquisition, AccessRequest, FiniteSetTheorems, TLAPS

-----------------------------------------------------------------------------
(* Grants.                                                                 *)

\* What a grant is made of, and that None is none.
LEMMA EndFacts ==
  /\ MaxClock \in Nat /\ UntilRevoked \in Nat /\ UntilRevoked \in Ends
  /\ \A e \in Ends : e \in Nat
BY GrantsAssumption DEF UntilRevoked, Ends

\* A table with one entry replaced by a well-formed grant is well formed.
LEMMA PutFacts ==
  ASSUME GrantTypeOK, NEW c \in Consumers, NEW g \in GrantRecords, Put(c, g)
  PROVE  /\ GrantTypeOK' /\ tokens'[c] = g
         /\ \A d \in Consumers \ {c} : tokens'[d] = tokens[d]
BY DEF GrantTypeOK, Put

\* A held grant that is one is a record.
LEMMA HeldFacts ==
  ASSUME GrantTypeOK, NEW c \in Consumers, Granted(c)
  PROVE  tokens[c] \in GrantRecords
BY DEF GrantTypeOK, Granted

\* A grant apart in the sense of AcquireApart.
Apart(g) ==
  Having(g.caps, "acquire") # {} =>
    /\ Having(g.caps, "acquire") = g.caps
    /\ g.key # None
    /\ g.hash = None

\* AcquireApart, grant by grant.
LEMMA ApartFacts ==
  /\ AcquireApart <=> \A c \in Consumers : Granted(c) => Apart(tokens[c])
  /\ AcquireApart' <=> \A c \in Consumers : Granted(c)' => Apart(tokens'[c])
BY DEF AcquireApart, Apart, Granted

\* Replacing one grant by one that is apart keeps the table apart.
LEMMA PutApart ==
  ASSUME GrantTypeOK, AcquireApart, NEW c \in Consumers, NEW g \in GrantRecords,
         Apart(g), Put(c, g)
  PROVE  GrantTypeOK' /\ AcquireApart'
BY PutFacts, ApartFacts DEF Granted

\* Changing the capabilities of a held grant to others of it leaves the rest.
LEMMA CapsFacts ==
  ASSUME GrantTypeOK, NEW c \in Consumers, Granted(c), NEW caps \in SUBSET Capabilities
  PROVE  /\ [tokens[c] EXCEPT !.caps = caps] \in GrantRecords
         /\ [tokens[c] EXCEPT !.caps = caps].caps = caps
         /\ [tokens[c] EXCEPT !.caps = caps].key = tokens[c].key
         /\ [tokens[c] EXCEPT !.caps = caps].hash = tokens[c].hash
BY HeldFacts DEF GrantRecords

\* Every operation on grants keeps the table well formed and acquire grants
\* apart, and never turns the clock back.
LEMMA GrantStep ==
  ASSUME GrantTypeOK, AcquireApart, GrantNext
  PROVE  GrantTypeOK' /\ AcquireApart' /\ clock <= clock'
<1>0. clock \in Nat /\ (tokens' # tokens => clock' = clock)
  BY EndFacts DEF GrantTypeOK, GrantNext, Issue, Register, Narrow, Ensure, Retarget, Keep, Revoke,
     Tick, Put
<1>1. ASSUME NEW c \in Consumers, NEW caps \in SUBSET Capabilities, NEW bearer \in Bearers \cup {None},
             NEW key \in WorkloadKeys \cup {None}, NEW end \in Ends, NEW replace \in BOOLEAN,
             Issue(c, caps, bearer, key, end, replace)
      PROVE  GrantTypeOK' /\ AcquireApart' /\ clock' = clock
  <2> DEFINE g == [hash |-> bearer, caps |-> caps, key |-> key, end |-> end]
  <2>1. g \in GrantRecords /\ Put(c, g)
    BY <1>1 DEF GrantRecords, Issue
  <2>2. Apart(g)
    BY <1>1 DEF Issue, Separated, Apart
  <2> QED BY <2>1, <2>2, PutApart DEF Put
<1>2. ASSUME NEW rows \in Catalogs, NEW key \in WorkloadKeys, NEW end \in Ends,
             NEW replace \in BOOLEAN, Register(rows, key, end, replace)
      PROVE  GrantTypeOK' /\ AcquireApart' /\ clock' = clock
  <2> DEFINE caps(c) == {[action |-> "acquire", on |-> rows[c]]}
             g(c) == [hash |-> None, caps |-> caps(c), key |-> key, end |-> end]
  <2>0. PICK cs \in SUBSET Consumers : rows \in [cs -> Coordinates]
    BY DEF Catalogs
  <2>1. tokens' = [c \in Consumers |-> IF c \in cs THEN g(c) ELSE tokens[c]] /\ clock' = clock
    BY <1>2, <2>0 DEF Register
  <2>2. \A c \in cs : g(c) \in GrantRecords
    BY <2>0 DEF GrantRecords, Capabilities, Actions
  <2>3. key # None
    BY GrantsAssumption
  <2>4. \A c \in cs : Apart(g(c))
    BY <2>3 DEF Apart, Having
  <2>5. GrantTypeOK'
    BY <2>1, <2>2 DEF GrantTypeOK
  <2>6. AcquireApart'
    BY <2>1, <2>4, ApartFacts DEF Granted
  <2> QED BY <2>1, <2>5, <2>6
<1>3. ASSUME NEW c \in Consumers, NEW on \in Coordinates, Narrow(c, on)
      PROVE  GrantTypeOK' /\ AcquireApart' /\ clock' = clock
  <2> DEFINE caps == tokens[c].caps \ {[action |-> "read", on |-> on]}
             g == [tokens[c] EXCEPT !.caps = caps]
  <2>1. Granted(c) /\ Put(c, g)
    BY <1>3 DEF Narrow
  <2>2. caps \in SUBSET Capabilities
    BY <2>1, HeldFacts DEF GrantRecords
  <2>3. g \in GrantRecords /\ g.caps = caps /\ g.key = tokens[c].key /\ g.hash = tokens[c].hash
    BY <2>1, <2>2, CapsFacts
  <2>4. Apart(tokens[c])
    BY <2>1, ApartFacts
  <2>5. Having(caps, "acquire") = Having(tokens[c].caps, "acquire")
    BY <2>1, HeldFacts DEF Having, GrantRecords
  <2>6. Apart(g)
    BY <2>3, <2>4, <2>5 DEF Apart, Having
  <2> QED BY <2>1, <2>3, <2>6, PutApart DEF Put
<1>4. ASSUME NEW c \in Consumers, NEW on \in Coordinates, NEW bearer \in Bearers, Ensure(c, on, bearer)
      PROVE  GrantTypeOK' /\ AcquireApart' /\ clock' = clock
  <2> DEFINE caps == tokens[c].caps \cup {[action |-> "read", on |-> on]}
             g == [tokens[c] EXCEPT !.caps = caps]
  <2>1. Granted(c) /\ Put(c, g) /\ tokens[c].hash # None
    BY <1>4, GrantsAssumption DEF Ensure, Active
  <2>2. caps \in SUBSET Capabilities
    BY <2>1, HeldFacts DEF GrantRecords, Capabilities, Actions
  <2>3. g \in GrantRecords /\ g.caps = caps /\ g.hash = tokens[c].hash
    BY <2>1, <2>2, CapsFacts
  <2>4. Having(tokens[c].caps, "acquire") = {}
    BY <2>1, ApartFacts DEF Apart
  <2>5. Having(caps, "acquire") = {}
    BY <2>4 DEF Having
  <2>6. Apart(g)
    BY <2>3, <2>5 DEF Apart
  <2> QED BY <2>1, <2>3, <2>6, PutApart DEF Put
<1>5. ASSUME NEW c \in Consumers, NEW from \in Coordinates, NEW to \in Coordinates, Retarget(c, from, to)
      PROVE  GrantTypeOK' /\ AcquireApart' /\ clock' = clock
  <2> DEFINE moved(cap) == IF cap.on = from THEN [cap EXCEPT !.on = to] ELSE cap
             caps == {moved(cap) : cap \in tokens[c].caps}
             g == [tokens[c] EXCEPT !.caps = caps]
  <2>1. Granted(c) /\ Put(c, g)
    BY <1>5 DEF Retarget
  <2>2. \A cap \in Capabilities : moved(cap) \in Capabilities /\ moved(cap).action = cap.action
    BY DEF Capabilities
  <2>3. tokens[c].caps \in SUBSET Capabilities
    BY <2>1, HeldFacts DEF GrantRecords
  <2>4. caps \in SUBSET Capabilities
    BY <2>2, <2>3
  <2>5. g \in GrantRecords /\ g.caps = caps /\ g.key = tokens[c].key /\ g.hash = tokens[c].hash
    BY <2>1, <2>4, CapsFacts
  <2>6. Apart(tokens[c])
    BY <2>1, ApartFacts
  <2>7. (Having(caps, "acquire") # {} => Having(tokens[c].caps, "acquire") # {})
        /\ (Having(tokens[c].caps, "acquire") = tokens[c].caps => Having(caps, "acquire") = caps)
    <3>1. \A cap \in tokens[c].caps : moved(cap).action = cap.action
      BY <2>2, <2>3
    <3> HIDE DEF moved
    <3> QED BY <3>1 DEF Having
  <2>8. Apart(g)
    BY <2>5, <2>6, <2>7 DEF Apart
  <2> QED BY <2>1, <2>5, <2>8, PutApart DEF Put
<1>6. ASSUME NEW c \in Consumers, Keep(c)
      PROVE  GrantTypeOK' /\ AcquireApart' /\ clock' = clock
  <2> DEFINE g == [tokens[c] EXCEPT !.end = UntilRevoked]
  <2>1. Granted(c) /\ Put(c, g) /\ Having(tokens[c].caps, "acquire") = {}
    BY <1>6 DEF Keep
  <2>2. g \in GrantRecords /\ g.caps = tokens[c].caps
    BY <2>1, HeldFacts, EndFacts DEF GrantRecords
  <2>3. Apart(g)
    BY <2>1, <2>2 DEF Apart
  <2> QED BY <2>1, <2>2, <2>3, PutApart DEF Put
<1>7. ASSUME NEW cs \in SUBSET Consumers, Revoke(cs)
      PROVE  GrantTypeOK' /\ AcquireApart' /\ clock' = clock
  <2>1. tokens' = [c \in Consumers |-> IF c \in cs THEN None ELSE tokens[c]] /\ clock' = clock
    BY <1>7 DEF Revoke
  <2> QED BY <2>1, ApartFacts DEF GrantTypeOK, Granted
<1>8. ASSUME Tick
      PROVE  GrantTypeOK' /\ AcquireApart' /\ clock <= clock'
  <2>1. tokens' = tokens /\ clock' = clock + 1 /\ clock < MaxClock
    BY <1>8 DEF Tick
  <2> QED BY <2>1, ApartFacts, EndFacts DEF GrantTypeOK, Granted
<1>9. Expired \in SUBSET Consumers
  BY DEF Expired
<1> QED BY <1>0, <1>1, <1>2, <1>3, <1>4, <1>5, <1>6, <1>7, <1>8, <1>9 DEF GrantNext

\* The table of grants starts well formed and apart.
LEMMA GrantStart ==
  ASSUME GrantInit
  PROVE  GrantTypeOK /\ AcquireApart
BY EndFacts, ApartFacts DEF GrantInit, GrantTypeOK, Granted

\* Every reachable table of grants is well formed.
THEOREM GrantsTyped == GrantSpec => []GrantTypeOK
<1>1. GrantInit => GrantTypeOK /\ AcquireApart
  BY GrantStart
<1>2. GrantTypeOK /\ AcquireApart /\ [GrantNext]_<<tokens, clock>> => (GrantTypeOK /\ AcquireApart)'
  BY GrantStep, ApartFacts DEF GrantTypeOK, Granted
<1> QED BY <1>1, <1>2, PTL DEF GrantSpec

\* Whatever sequence of grant operations ran, an acquire grant is apart: only
\* acquire capabilities, a workload key, and no bearer.
THEOREM AcquireStaysApart == GrantSpec => []AcquireApart
<1>1. GrantInit => GrantTypeOK /\ AcquireApart
  BY GrantStart
<1>2. GrantTypeOK /\ AcquireApart /\ [GrantNext]_<<tokens, clock>> => (GrantTypeOK /\ AcquireApart)'
  BY GrantStep, ApartFacts DEF GrantTypeOK, Granted
<1> QED BY <1>1, <1>2, PTL DEF GrantSpec

-----------------------------------------------------------------------------
(* The inductive invariant of acquisition.                                 *)

\* The second a request purges with is not ahead of the clock.
NowBehind == \A r \in Requests : request[r].at = "proved" => request[r].now <= clock

\* Bearers are numbered as they are minted; one handed over is gone from the file.
Numbered ==
  /\ \A a \in accepted : a.as <= minted
  /\ \A n \in DOMAIN handed : handed[n].as \notin DOMAIN issued /\ handed[n].as <= minted

\* Two acceptances of a nonce for one end: the end has passed.
Twins ==
  \A a, b \in accepted :
    NonceOf(a.proof) = NonceOf(b.proof) /\ a.end = b.end /\ a.as # b.as => a.end <= clock

\* A value handed over was of an accepted proof.
HandedAccepted ==
  \A n \in DOMAIN handed :
    \E a \in accepted : /\ a.as = handed[n].as /\ a.end = handed[n].token.end
                        /\ NonceOf(a.proof) = handed[n].token.nonce

AInv ==
  /\ AcquisitionTypeOK /\ AcquireApart
  /\ NowBehind /\ Numbered /\ Twins /\ HandedAccepted
  /\ NonceKept /\ OneValuePerLoan

-----------------------------------------------------------------------------
(* Helpers.                                                                *)

\* Restricting a function.
LEMMA OnlyFacts ==
  ASSUME NEW f, NEW S
  PROVE  DOMAIN Only(f, S) = DOMAIN f \cap S /\ \A x \in DOMAIN f \cap S : Only(f, S)[x] = f[x]
BY DEF Only

\* What a purge leaves.
LEMMA PurgeFacts ==
  ASSUME NEW now
  PROVE  /\ DOMAIN PurgedProofs(now) = {n \in DOMAIN proofs : proofs[n] > now}
         /\ \A n \in DOMAIN PurgedProofs(now) : PurgedProofs(now)[n] = proofs[n]
         /\ DOMAIN PurgedTokens(now) \subseteq DOMAIN issued
         /\ \A b \in DOMAIN PurgedTokens(now) : PurgedTokens(now)[b] = issued[b]
         /\ DOMAIN PurgedWorkloads(now) \subseteq DOMAIN newest
         /\ \A w \in DOMAIN PurgedWorkloads(now) : PurgedWorkloads(now)[w] = newest[w]
BY DEF PurgedProofs, PurgedTokens, PurgedWorkloads, Only

\* What a request in flight holds.
LEMMA RequestFacts ==
  ASSUME AcquisitionTypeOK, NEW r \in Requests, request[r].at # "idle"
  PROVE  /\ request[r].at \in {"lent", "proved"} /\ request[r].proof \in Signed
         /\ request[r].lent \in Loans /\ request[r].now \in 0..MaxClock
         /\ request[r].lent.end \in Ends
         /\ request[r].proof \in Proofs
BY AcquisitionAssumption DEF AcquisitionTypeOK, RequestStates, Idle, Loans

-----------------------------------------------------------------------------
(* Steps.                                                                  *)

\* A step that leaves the file and the histories alone, and sets one request to
\* a well-formed state whose second is not ahead, keeps the invariant.
LEMMA RequestStep ==
  ASSUME AInv, NEW r \in Requests, NEW s \in RequestStates,
         s.at = "proved" => s.now <= clock,
         request' = [request EXCEPT ![r] = s],
         UNCHANGED <<tokens, clock, file, minted, accepted, handed>>
  PROVE  AInv'
<1> USE DEF AInv, file
<1>1. AcquisitionTypeOK'
  BY DEF AcquisitionTypeOK, GrantTypeOK
<1>2. AcquireApart'
  BY DEF AcquireApart, Granted
<1>3. NowBehind'
  BY DEF NowBehind, AcquisitionTypeOK
<1>4. (Numbered /\ Twins /\ HandedAccepted /\ NonceKept /\ OneValuePerLoan)'
  BY DEF Numbered, Twins, HandedAccepted, NonceKept, OneValuePerLoan
<1> QED BY <1>1, <1>2, <1>3, <1>4

\* The steps of a request that write nothing.
LEMMA LookUpStep ==
  ASSUME AInv, NEW r \in Requests, NEW proof \in Signed, LookUp(r, proof)
  PROVE  AInv'
<1> DEFINE g == tokens[proof.consumer]
           s == [at |-> "lent", proof |-> proof, now |-> 0, lent |-> [key |-> g.key, end |-> g.end]]
<1>1. proof.consumer \in Consumers
  BY AcquisitionAssumption DEF Proofs
<1>2. g \in GrantRecords
  BY <1>1, HeldFacts DEF LookUp, Lends, Active, AInv, AcquisitionTypeOK
<1>3. s \in RequestStates
  BY <1>2, EndFacts DEF GrantRecords, RequestStates, Loans
<1> QED BY <1>3, RequestStep DEF LookUp

LEMMA CheckProofStep ==
  ASSUME AInv, NEW r \in Requests, CheckProof(r)
  PROVE  AInv'
<1> DEFINE s == [request[r] EXCEPT !.at = "proved", !.now = clock]
<1>1. request[r].at = "lent" /\ request[r] \in RequestStates /\ clock \in 0..MaxClock
  BY DEF CheckProof, AInv, AcquisitionTypeOK, GrantTypeOK
<1>2. request[r] \in [at : {"lent", "proved"}, proof : Signed, lent : Loans, now : 0..MaxClock]
  BY <1>1 DEF RequestStates, Idle
<1>3. s \in RequestStates /\ s.now = clock
  BY <1>1, <1>2 DEF RequestStates
<1>4. request' = [request EXCEPT ![r] = s]
  BY DEF CheckProof, AInv, AcquisitionTypeOK
<1>5. clock <= clock
  BY <1>1, EndFacts
<1> QED BY <1>3, <1>4, <1>5, RequestStep DEF CheckProof

LEMMA AbandonStep ==
  ASSUME AInv, NEW r \in Requests, Abandon(r)
  PROVE  AInv'
<1>1. Idle \in RequestStates /\ Idle.at # "proved"
  BY DEF Idle, RequestStates
<1> QED BY <1>1, RequestStep DEF Abandon

\* Removing a bearer from the file.
LEMMA ConsumeExpiredStep ==
  ASSUME AInv, NEW b \in 1..MaxTokens, ConsumeExpired(b)
  PROVE  AInv'
<1> USE DEF AInv
<1>1. DOMAIN issued' \subseteq DOMAIN issued /\ \A x \in DOMAIN issued' : issued'[x] = issued[x]
  BY OnlyFacts DEF ConsumeExpired
<1>2. UNCHANGED <<tokens, clock, proofs, newest, request, minted, accepted, handed>>
  BY DEF ConsumeExpired
<1>3. AcquisitionTypeOK'
  BY <1>1, <1>2 DEF AcquisitionTypeOK, GrantTypeOK
<1>4. AcquireApart' /\ NowBehind' /\ Twins' /\ HandedAccepted' /\ OneValuePerLoan'
  BY <1>2 DEF AcquireApart, Granted, NowBehind, Twins, HandedAccepted, OneValuePerLoan
<1>5. Numbered' /\ NonceKept'
  BY <1>1, <1>2 DEF Numbered, NonceKept
<1> QED BY <1>3, <1>4, <1>5

\* Handing over a value: the bearer leaves the file, the value was of an accepted
\* proof, and no other acceptance of its nonce for its end was handed over.
LEMMA ConsumeStep ==
  ASSUME AInv, NEW b \in 1..MaxTokens, Consume(b)
  PROVE  AInv'
<1> USE DEF AInv
<1> DEFINE v == [token |-> issued[b], as |-> b, at |-> clock]
<1>1. b \in DOMAIN issued /\ clock < issued[b].end /\ handed' = Append(handed, v)
  BY DEF Consume
<1>2. /\ DOMAIN issued' = DOMAIN issued \ {b}
      /\ \A x \in DOMAIN issued' : issued'[x] = issued[x]
  BY OnlyFacts DEF Consume
<1>3. UNCHANGED <<tokens, clock, proofs, newest, request, minted, accepted>>
  BY DEF Consume
<1>4. clock \in 0..MaxClock /\ clock \in Nat /\ minted \in Nat /\ MaxTokens \in Nat
  BY AcquisitionAssumption, EndFacts DEF AcquisitionTypeOK, GrantTypeOK
<1>5. v \in [token : IssuedTokens, as : 1..MaxTokens, at : 0..MaxClock] /\ b <= minted
  BY <1>1, <1>4 DEF AcquisitionTypeOK
<1>6. /\ handed' \in Seq([token : IssuedTokens, as : 1..MaxTokens, at : 0..MaxClock])
      /\ Len(handed') = Len(handed) + 1 /\ Len(handed) \in Nat
      /\ DOMAIN handed = 1..Len(handed) /\ DOMAIN handed' = 1..(Len(handed) + 1)
      /\ handed'[Len(handed) + 1] = v
      /\ \A n \in DOMAIN handed : handed'[n] = handed[n]
  BY <1>1, <1>5 DEF AcquisitionTypeOK
<1>7. \A n \in DOMAIN handed' : n \in DOMAIN handed \/ n = Len(handed) + 1
  BY <1>6
<1>8. AcquisitionTypeOK'
  BY <1>2, <1>3, <1>6 DEF AcquisitionTypeOK, GrantTypeOK
<1>9. AcquireApart' /\ NowBehind' /\ Twins' /\ NonceKept'
  BY <1>2, <1>3 DEF AcquireApart, Granted, NowBehind, Twins, NonceKept
<1>10. Numbered'
  BY <1>2, <1>3, <1>5, <1>6, <1>7 DEF Numbered
<1>11. PICK a \in accepted : a.as = b /\ a.end = issued[b].end /\ NonceOf(a.proof) = issued[b].nonce
  BY <1>1 DEF NonceKept
<1>12. HandedAccepted'
  BY <1>3, <1>6, <1>7, <1>11 DEF HandedAccepted
<1>13. ASSUME NEW n \in DOMAIN handed, handed[n].token.nonce = issued[b].nonce,
              handed[n].token.end = issued[b].end
       PROVE  FALSE
  <2>1. PICK c \in accepted : /\ c.as = handed[n].as /\ c.end = handed[n].token.end
                              /\ NonceOf(c.proof) = handed[n].token.nonce
    BY DEF HandedAccepted
  <2>2. handed[n].as # b
    BY <1>1 DEF Numbered
  <2>3. a.end <= clock
    BY <1>11, <1>13, <2>1, <2>2 DEF Twins
  <2>4. a.end \in Nat
    BY EndFacts DEF AcquisitionTypeOK
  <2> QED BY <1>1, <1>4, <1>11, <2>3, <2>4
<1>14. OneValuePerLoan'
  <2> SUFFICES ASSUME NEW m \in DOMAIN handed', NEW n \in DOMAIN handed'
               PROVE  /\ handed'[m].at < handed'[m].token.end
                      /\ handed'[m].token.nonce = handed'[n].token.nonce
                           /\ handed'[m].token.end = handed'[n].token.end => m = n
    BY DEF OneValuePerLoan
  <2>1. CASE m \in DOMAIN handed /\ n \in DOMAIN handed
    BY <2>1, <1>6 DEF OneValuePerLoan
  <2>2. CASE m \in DOMAIN handed /\ n = Len(handed) + 1
    BY <2>2, <1>6, <1>13 DEF OneValuePerLoan
  <2>3. CASE m = Len(handed) + 1 /\ n \in DOMAIN handed
    BY <2>3, <1>1, <1>6, <1>13
  <2>4. CASE m = Len(handed) + 1 /\ n = Len(handed) + 1
    BY <2>4, <1>1, <1>6
  <2> QED BY <1>7, <2>1, <2>2, <2>3, <2>4
<1> QED BY <1>8, <1>9, <1>10, <1>12, <1>14

\* Recording a proof: were the nonce lent for an end that lies ahead, the purge,
\* made with a second not ahead of the clock, would have kept it and the request
\* been refused.  So every earlier acceptance of the nonce has ended.
LEMMA RecordStep ==
  ASSUME AInv, NEW r \in Requests, Record(r)
  PROVE  AInv'
<1> USE DEF AInv
<1> DEFINE proof == request[r].proof
           end == request[r].lent.end
           now == request[r].now
           key == NonceOf(proof)
           id == minted + 1
           token == [consumer |-> proof.consumer, on |-> proof.on, end |-> end, nonce |-> key]
           taken == [proof |-> proof, end |-> end, as |-> id]
<1>1. /\ proof \in Signed /\ proof \in Proofs /\ end \in Ends /\ end \in Nat /\ now \in Nat
      /\ now <= clock /\ clock \in Nat /\ minted \in Nat /\ minted < MaxTokens /\ MaxTokens \in Nat
  <2>1. request[r].at = "proved" /\ minted < MaxTokens
    BY DEF Record
  <2>2. clock \in 0..MaxClock /\ minted \in 0..MaxTokens
    BY DEF AcquisitionTypeOK, GrantTypeOK
  <2>3. request[r].at # "idle"
    BY <2>1
  <2>4. proof \in Signed /\ proof \in Proofs /\ end \in Ends /\ now \in 0..MaxClock
    BY <2>3, RequestFacts
  <2>5. now <= clock
    BY <2>1 DEF NowBehind
  <2> HIDE DEF proof, end, now
  <2> QED BY <2>1, <2>2, <2>4, <2>5, EndFacts, AcquisitionAssumption
<1>2. key \in Workloads \X Nonces /\ token \in IssuedTokens
      /\ [timestamp |-> proof.timestamp, end |-> end] \in [timestamp : 0..MaxClock, end : Ends]
      /\ proof.workload \in Workloads
  BY <1>1 DEF Proofs, NonceOf, IssuedTokens
<1>3. id \in 1..MaxTokens /\ id \in Nat /\ id > minted
  BY <1>1
<1>4. taken \in [proof : Signed, end : Ends, as : 1..MaxTokens]
  BY <1>1, <1>3
<1>5. /\ proofs' = With(PurgedProofs(now), key, end)
      /\ newest' = With(PurgedWorkloads(now), proof.workload, [timestamp |-> proof.timestamp, end |-> end])
      /\ minted' = id /\ issued' = With(PurgedTokens(now), id, token)
      /\ accepted' = accepted \cup {taken} /\ request' = [request EXCEPT ![r] = Idle]
      /\ UNCHANGED <<tokens, clock, handed>>
      /\ key \notin DOMAIN PurgedProofs(now)
  BY DEF Record, Unspent
<1> HIDE DEF proof, end, now, key, id, token, taken
<1> DEFINE P == PurgedProofs(now)
           W == PurgedWorkloads(now)
           T == PurgedTokens(now)
           last == [timestamp |-> proof.timestamp, end |-> end]
<1>p. /\ DOMAIN P = {n \in DOMAIN proofs : proofs[n] > now} /\ \A n \in DOMAIN P : P[n] = proofs[n]
      /\ DOMAIN T \subseteq DOMAIN issued /\ \A b \in DOMAIN T : T[b] = issued[b]
      /\ DOMAIN W \subseteq DOMAIN newest /\ \A w \in DOMAIN W : W[w] = newest[w]
  BY PurgeFacts
<1>q. /\ proofs' = With(P, key, end) /\ newest' = With(W, proof.workload, last)
      /\ issued' = With(T, id, token)
  BY <1>5
<1> HIDE DEF P, W, T, last
<1>u. /\ DOMAIN proofs' = DOMAIN P \cup {key} /\ proofs'[key] = end
      /\ \A n \in DOMAIN P \ {key} : proofs'[n] = P[n]
  BY <1>q DEF With
<1>v. /\ DOMAIN newest' = DOMAIN W \cup {proof.workload} /\ newest'[proof.workload] = last
      /\ \A w \in DOMAIN W \ {proof.workload} : newest'[w] = W[w]
  BY <1>q DEF With
<1>w. /\ DOMAIN issued' = DOMAIN T \cup {id} /\ issued'[id] = token
      /\ \A b \in DOMAIN T \ {id} : issued'[b] = T[b]
  BY <1>q DEF With
<1>6. /\ DOMAIN proofs' = {n \in DOMAIN proofs : proofs[n] > now} \cup {key}
      /\ proofs'[key] = end
      /\ \A n \in DOMAIN proofs : proofs[n] > now /\ n # key => proofs'[n] = proofs[n]
  BY <1>p, <1>u
<1>7. /\ DOMAIN newest' \subseteq DOMAIN newest \cup {proof.workload}
      /\ newest'[proof.workload] = [timestamp |-> proof.timestamp, end |-> end]
      /\ \A w \in DOMAIN newest' : w # proof.workload => w \in DOMAIN newest /\ newest'[w] = newest[w]
  BY <1>p, <1>v DEF last
<1>8. /\ DOMAIN issued' \subseteq DOMAIN issued \cup {id} /\ issued'[id] = token
      /\ \A b \in DOMAIN issued' : b # id => b \in DOMAIN issued /\ issued'[b] = issued[b]
  BY <1>p, <1>w
<1>9. Idle \in RequestStates /\ Idle.at # "proved"
  BY DEF Idle, RequestStates
<1>10. AcquisitionTypeOK'
  <2>1. DOMAIN issued' \subseteq 1..minted'
    <3>1. DOMAIN issued \subseteq 1..minted
      BY DEF AcquisitionTypeOK
    <3> QED BY <3>1, <1>1, <1>3, <1>5, <1>8
  <2>2. \A b \in DOMAIN issued' : issued'[b] \in IssuedTokens
    BY <1>2, <1>8 DEF AcquisitionTypeOK
  <2>3. DOMAIN proofs' \subseteq Workloads \X Nonces /\ \A n \in DOMAIN proofs' : proofs'[n] \in Ends
    BY <1>1, <1>2, <1>6 DEF AcquisitionTypeOK
  <2>4. /\ DOMAIN newest' \subseteq Workloads
        /\ \A w \in DOMAIN newest' : newest'[w] \in [timestamp : 0..MaxClock, end : Ends]
    BY <1>2, <1>7 DEF AcquisitionTypeOK
  <2>5. request' \in [Requests -> RequestStates]
    BY <1>5, <1>9 DEF AcquisitionTypeOK
  <2>6. minted' \in 0..MaxTokens
    BY <1>3, <1>5
  <2> QED BY <1>4, <1>5, <2>1, <2>2, <2>3, <2>4, <2>5, <2>6 DEF AcquisitionTypeOK, GrantTypeOK
<1>11. AcquireApart' /\ OneValuePerLoan'
  BY <1>5 DEF AcquireApart, Granted, OneValuePerLoan
<1>12. NowBehind'
  BY <1>5, <1>9 DEF NowBehind, AcquisitionTypeOK
<1>13. taken.as = id /\ taken.end = end /\ NonceOf(taken.proof) = key
  BY DEF taken, key
<1>14. Numbered'
  <2>1. \A a \in accepted : a.as <= minted /\ a.as \in Nat
    BY DEF Numbered, AcquisitionTypeOK
  <2>2. \A n \in DOMAIN handed : handed[n].as \in Nat
    <3> DEFINE R == [token : IssuedTokens, as : 1..MaxTokens, at : 0..MaxClock]
    <3>1. handed \in Seq(R)
      BY DEF AcquisitionTypeOK
    <3>2. \A v \in R : v.as \in Nat
      OBVIOUS
    <3> HIDE DEF R
    <3>3. \A n \in DOMAIN handed : handed[n] \in R
      BY <3>1
    <3> QED BY <3>2, <3>3
  <2> QED BY <1>1, <1>3, <1>5, <1>8, <1>13, <2>1, <2>2 DEF Numbered
<1>15. \A a \in accepted : a.end \in Nat /\ (NonceOf(a.proof) = key => a.end <= clock)
  <2> SUFFICES ASSUME NEW a \in accepted
               PROVE  a.end \in Nat /\ (NonceOf(a.proof) = key => a.end <= clock)
    OBVIOUS
  <2>1. a.end \in Nat
    BY EndFacts DEF AcquisitionTypeOK
  <2>2. ASSUME NonceOf(a.proof) = key, clock < a.end
        PROVE  FALSE
    <3>1. key \in DOMAIN proofs /\ proofs[key] = a.end
      BY <2>2 DEF NonceKept
    <3>2. proofs[key] > now
      BY <3>1, <2>1, <2>2, <1>1
    <3> QED BY <1>5, <3>1, <3>2, PurgeFacts
  <2> QED BY <2>1, <2>2, <1>1
<1>16. Twins'
  <2>1. \A a \in accepted : NonceOf(a.proof) = NonceOf(taken.proof) /\ a.end = taken.end => a.end <= clock
    BY <1>13, <1>15
  <2> QED BY <2>1, <1>5 DEF Twins
<1>17. HandedAccepted'
  BY <1>5 DEF HandedAccepted
<1>18. NonceKept'
  <2>1. ASSUME NEW a \in accepted', clock' < a.end
        PROVE  NonceOf(a.proof) \in DOMAIN proofs' /\ proofs'[NonceOf(a.proof)] = a.end
    <3>1. CASE a = taken
      BY <3>1, <1>6, <1>13
    <3>2. CASE a \in accepted
      <4>1. NonceOf(a.proof) # key
        BY <2>1, <3>2, <1>1, <1>5, <1>15
      <4>2. NonceOf(a.proof) \in DOMAIN proofs /\ proofs[NonceOf(a.proof)] = a.end
        BY <2>1, <3>2, <1>5 DEF NonceKept
      <4>3. a.end > now
        BY <2>1, <3>2, <1>1, <1>5, <1>15
      <4> QED BY <4>1, <4>2, <4>3, <1>6
    <3> QED BY <1>5, <3>1, <3>2
  <2>2. ASSUME NEW b \in DOMAIN issued'
        PROVE  \E a \in accepted' : a.as = b /\ a.end = issued'[b].end
                                    /\ NonceOf(a.proof) = issued'[b].nonce
    <3>1. CASE b = id
      BY <3>1, <1>5, <1>8, <1>13 DEF token
    <3>2. CASE b # id
      BY <3>2, <1>5, <1>8 DEF NonceKept
    <3> QED BY <3>1, <3>2
  <2> QED BY <2>1, <2>2 DEF NonceKept
<1> QED BY <1>10, <1>11, <1>12, <1>14, <1>16, <1>17, <1>18

\* Grants change and seconds pass: nothing in the file or the histories moves,
\* and what has ended stays ended.
LEMMA GrantsStep ==
  ASSUME AInv, GrantNext, UNCHANGED acquisitionVars
  PROVE  AInv'
<1> USE DEF AInv, acquisitionVars
<1>1. GrantTypeOK' /\ AcquireApart' /\ clock <= clock'
  BY GrantStep DEF AcquisitionTypeOK
<1>2. clock \in Nat /\ clock' \in Nat
  BY <1>1, EndFacts DEF AcquisitionTypeOK, GrantTypeOK
<1>3. AcquisitionTypeOK'
  BY <1>1 DEF AcquisitionTypeOK
<1>4. NowBehind'
  <2>1. \A r \in Requests : request[r].at = "proved" => request[r].now \in Nat
    BY RequestFacts, EndFacts
  <2> QED BY <1>1, <1>2, <2>1 DEF NowBehind
<1>5. \A a \in accepted : a.end \in Nat
  BY EndFacts DEF AcquisitionTypeOK
<1>6. Twins' /\ NonceKept'
  BY <1>1, <1>2, <1>5 DEF Twins, NonceKept
<1>7. Numbered' /\ HandedAccepted' /\ OneValuePerLoan'
  BY DEF Numbered, HandedAccepted, OneValuePerLoan
<1> QED BY <1>1, <1>3, <1>4, <1>6, <1>7

\* AInv holds at the start and is kept by every step.
LEMMA AcquisitionInductive ==
  /\ Init => AInv
  /\ AInv /\ [Next]_vars => AInv'
<1>1. ASSUME Init PROVE AInv
  <2>1. GrantTypeOK /\ AcquireApart
    BY <1>1, GrantStart DEF Init
  <2>2. DOMAIN handed = {} /\ handed \in Seq([token : IssuedTokens, as : 1..MaxTokens, at : 0..MaxClock])
    BY <1>1 DEF Init
  <2>3. AcquisitionTypeOK
    BY <1>1, <2>1, <2>2, AcquisitionAssumption DEF Init, AcquisitionTypeOK, RequestStates
  <2>4. NowBehind
    BY <1>1 DEF Init, NowBehind, Idle
  <2>5. Numbered /\ Twins /\ HandedAccepted /\ NonceKept /\ OneValuePerLoan
    BY <1>1, <2>2 DEF Init, Numbered, Twins, HandedAccepted, NonceKept, OneValuePerLoan
  <2> QED BY <2>1, <2>3, <2>4, <2>5 DEF AInv
<1>2. ASSUME AInv, UNCHANGED vars PROVE AInv'
  BY <1>2 DEF AInv, vars, acquisitionVars, AcquisitionTypeOK, GrantTypeOK, AcquireApart, Granted,
     NowBehind, Numbered, Twins, HandedAccepted, NonceKept, OneValuePerLoan
<1>3. ASSUME AInv, Next PROVE AInv'
  BY <1>3, LookUpStep, CheckProofStep, RecordStep, AbandonStep, ConsumeExpiredStep, ConsumeStep,
     GrantsStep DEF Next, Acquire
<1> QED BY <1>1, <1>2, <1>3

\* The acquisition state file, the requests and the histories are well formed.
THEOREM AcquisitionTyped == Spec => []AcquisitionTypeOK
<1>1. AInv => AcquisitionTypeOK
  BY DEF AInv
<1> QED BY <1>1, AcquisitionInductive, PTL DEF Spec

\* For any number of racing requests and replayed proofs, and through every
\* change of the grants, the nonce of an accepted proof stays in the file until
\* the lent end.
THEOREM NonceStaysKept == Spec => []NonceKept
<1>1. AInv => NonceKept
  BY DEF AInv
<1> QED BY <1>1, AcquisitionInductive, PTL DEF Spec

\* A signed proof hands over at most one value for one lent end, and none once
\* that end has come.
THEOREM ValueHandedOnce == Spec => []OneValuePerLoan
<1>1. AInv => OneValuePerLoan
  BY DEF AInv
<1> QED BY <1>1, AcquisitionInductive, PTL DEF Spec

-----------------------------------------------------------------------------
(* Access requests: the inductive invariant.                               *)

Desks == [at : {"idle", "issue", "save", "poke"}, req : ReqIds \cup {NoReq},
          rec : Records \cup {NoReq}, give : Terms \cup {NoReq}]
GrantsGiven == [req : ReqIds, live : BOOLEAN, life : Lifetimes, uses : Uses]

RequestTypes ==
  /\ register \in [ReqIds -> Records \cup {NoReq}]
  /\ clerk \in [Procs -> Desks]
  /\ grants \in Seq(GrantsGiven)
  /\ fifo \in -1..1
  /\ stopped \in BOOLEAN

\* One process at a time is between its check and its last word.
Locked == \A p \in Procs : clerk[p].at # "idle" <=> regLock = p

\* Every approval of a record was stated by a person, and by each person once.
Statement(r, d) == [req |-> r, by |-> d.by, life |-> d.life, uses |-> d.uses]
Stated(r, rec) ==
  /\ \A k \in Approvals(rec) : /\ Statement(r, rec.decisions[k]) \in said
                               /\ rec.decisions[k].life \in Lifetimes
  /\ \A k, l \in Approvals(rec) : rec.decisions[k].by = rec.decisions[l].by => k = l

\* What a process is about to issue or save follows from a request still open.
DeskSound(c) ==
  c.at \in {"issue", "save"} =>
    /\ c.req \in ReqIds /\ c.rec \in Records /\ Stated(c.req, c.rec)
    /\ register[c.req] # NoReq =>
         Pending(register[c.req]) /\ register[c.req].dual = c.rec.dual
    /\ c.at = "issue" => /\ register[c.req] # NoReq /\ c.rec.state = "approved"
                         /\ Enough(c.rec) /\ c.give = Bounds(c.rec)
    /\ c.at = "save" => (c.give # NoReq <=> c.rec.state = "approved")

Recorded(r) ==
  \/ register[r] # NoReq /\ register[r].state = "approved"
  \/ \E p \in Procs : clerk[p].req = r /\ clerk[p].at = "save" /\ clerk[p].give # NoReq

\* The grant of a request, if any, is one, and recorded or about to be.
Told ==
  ~stopped =>
    /\ \A k, l \in DOMAIN grants : grants[k].req = grants[l].req => k = l
    /\ \A r \in ReqIds : (\E k \in DOMAIN grants : grants[k].req = r) <=> Recorded(r)

\* The people a grant follows.
BackedBy(g, some) ==
  /\ some \subseteq {s \in said : s.req = g.req}
  /\ Cardinality({s.by : s \in some}) >= IF register[g.req].dual THEN 2 ELSE 1
  /\ \A s \in some : g.life <= s.life /\ (s.uses # 0 => g.uses # 0 /\ g.uses <= s.uses)
Backed == \A k \in DOMAIN grants :
  register[grants[k].req] # NoReq /\ \E some : BackedBy(grants[k], some)

ReqInv ==
  /\ RequestTypes /\ Locked
  /\ \A r \in ReqIds : register[r] # NoReq => Stated(r, register[r])
  /\ \A p \in Procs : DeskSound(clerk[p])
  /\ Backed /\ Told

-----------------------------------------------------------------------------
(* Records and terms.                                                      *)

\* The terms of a grant are no wider than any of its approvals.
LEMMA BoundsFacts ==
  ASSUME NEW rec \in Records, NEW k \in Approvals(rec),
         \A l \in Approvals(rec) : rec.decisions[l].life \in Lifetimes
  PROVE  /\ Bounds(rec) \in Terms
         /\ \A l \in Approvals(rec) :
              /\ Bounds(rec).life <= rec.decisions[l].life
              /\ rec.decisions[l].uses # 0 =>
                   Bounds(rec).uses # 0 /\ Bounds(rec).uses <= rec.decisions[l].uses
<1> DEFINE all == {rec.decisions[l] : l \in Approvals(rec)}
           lives == {d.life : d \in all}
           stated == {d.uses : d \in all} \ {0}
<1>1. \A l \in Approvals(rec) : rec.decisions[l] \in Decisions
  BY DEF Records, Approvals
<1>2. \A d \in all : d \in Decisions /\ d.life \in {1, 2} /\ d.uses \in {0, 1, 2}
  BY <1>1 DEF Decisions, Lifetimes, Uses
<1>3. \E n \in lives : \A d \in all : n <= d.life
  <2>1. CASE 1 \in lives
    BY <1>2, <2>1
  <2>2. CASE 1 \notin lives
    <3>1. rec.decisions[k] \in all /\ \A d \in all : d.life = 2
      BY <1>2, <2>2
    <3> QED BY <3>1
  <2> QED BY <2>1, <2>2
<1>4. stated \subseteq {1, 2} /\ (stated # {} => \E n \in stated : \A m \in stated : n <= m)
  <2>1. stated \subseteq {1, 2}
    BY <1>2
  <2> HIDE DEF stated
  <2>2. CASE 1 \in stated
    BY <2>1, <2>2
  <2>3. CASE 1 \notin stated
    <3>1. \A m \in stated : m = 2
      BY <2>1, <2>3
    <3>2. ASSUME NEW n \in stated
          PROVE  \A m \in stated : n <= m
      BY <3>1
    <3> QED BY <2>1, <3>2
  <2> QED BY <2>1, <2>2, <2>3
<1> DEFINE life == CHOOSE n \in lives : \A d \in all : n <= d.life
           fewest == CHOOSE n \in stated : \A m \in stated : n <= m
           uses == IF stated = {} THEN 0 ELSE fewest
<1>5. Bounds(rec) = [life |-> life, uses |-> uses]
  BY DEF Bounds
<1>6. life \in lives /\ \A d \in all : life <= d.life
  BY <1>3
<1>7. stated # {} => fewest \in stated /\ \A m \in stated : fewest <= m
  BY <1>4
<1>8. \A l \in Approvals(rec) :
        rec.decisions[l] \in all /\ (rec.decisions[l].uses # 0 => rec.decisions[l].uses \in stated)
  OBVIOUS
<1>9. life \in Lifetimes /\ uses \in Uses
  BY <1>2, <1>4, <1>6, <1>7 DEF Lifetimes, Uses
<1> HIDE DEF life, uses, fewest, stated, lives, all
<1>10. Bounds(rec).life = life /\ Bounds(rec).uses = uses /\ Bounds(rec) \in Terms
  BY <1>5, <1>9 DEF Terms
<1>11. \A l \in Approvals(rec) : rec.decisions[l].uses # 0 => uses # 0 /\ uses <= rec.decisions[l].uses
  <2>1. ASSUME NEW l \in Approvals(rec), rec.decisions[l].uses # 0
        PROVE  uses # 0 /\ uses <= rec.decisions[l].uses
    <3>1. rec.decisions[l].uses \in stated /\ stated # {}
      BY <1>8, <2>1
    <3>2. uses = fewest /\ fewest \in {1, 2} /\ fewest <= rec.decisions[l].uses
      BY <1>4, <1>7, <3>1 DEF uses
    <3> QED BY <3>2
  <2> QED BY <2>1
<1> QED BY <1>6, <1>8, <1>10, <1>11

LEMMA TwoOf ==
  ASSUME NEW x, NEW y, x # y
  PROVE  Cardinality({x, y}) = 2
<1>1. IsFiniteSet({x}) /\ Cardinality({x}) = 1
  BY FS_Singleton
<1>2. {x, y} = {x} \cup {y} /\ y \notin {x}
  OBVIOUS
<1>3. Cardinality({x} \cup {y}) = Cardinality({x}) + 1
  BY <1>1, <1>2, FS_AddElement
<1> QED BY <1>1, <1>2, <1>3

\* Enough approvals are of as many people.
LEMMA EnoughPeople ==
  ASSUME NEW rec \in Records, Enough(rec),
         \A k, l \in Approvals(rec) : rec.decisions[k].by = rec.decisions[l].by => k = l
  PROVE  \E two \in SUBSET Approvals(rec) :
           Cardinality({rec.decisions[k].by : k \in two}) >= IF rec.dual THEN 2 ELSE 1
<1> DEFINE A == Approvals(rec)
           who(k) == rec.decisions[k].by
<1>1. IsFiniteSet(A) /\ Cardinality(A) \in Nat
  <2>1. DOMAIN rec.decisions = 1..Len(rec.decisions) /\ Len(rec.decisions) \in Nat
    BY DEF Records
  <2>2. IsFiniteSet(1..Len(rec.decisions))
    <3>1. PICK n \in Int : n = Len(rec.decisions)
      BY <2>1
    <3>2. IsFiniteSet(1..n)
      BY FS_Interval
    <3> QED BY <3>1, <3>2
  <2> QED BY <2>1, <2>2, FS_Subset, FS_CardinalityType DEF Approvals
<1>2. A # {}
  BY <1>1, FS_EmptySet DEF Enough
<1>3. PICK k \in A : TRUE
  BY <1>2
<1>4. CASE rec.dual
  <2>1. PICK l \in A : l # k
    <3>1. A # {k}
      BY <1>4, FS_Singleton DEF Enough
    <3> QED BY <1>3, <3>1
  <2>2. who(k) # who(l)
    BY <2>1
  <2>3. Cardinality({who(k), who(l)}) = 2
    BY <2>2, TwoOf
  <2>4. {rec.decisions[m].by : m \in {k, l}} = {who(k), who(l)}
    OBVIOUS
  <2>5. {k, l} \in SUBSET A
    BY <1>3, <2>1
  <2> HIDE DEF who
  <2>6. Cardinality({rec.decisions[m].by : m \in {k, l}}) >= IF rec.dual THEN 2 ELSE 1
    <3>1. Cardinality({rec.decisions[m].by : m \in {k, l}}) = 2
      BY <2>3, <2>4, Zenon
    <3> QED BY <1>4, <3>1
  <2> QED BY <2>5, <2>6, Zenon
<1>5. CASE ~rec.dual
  <2>1. Cardinality({who(k)}) = 1
    BY FS_Singleton
  <2>2. {rec.decisions[m].by : m \in {k}} = {who(k)}
    OBVIOUS
  <2>3. {k} \in SUBSET A
    BY <1>3
  <2> HIDE DEF who
  <2>4. Cardinality({rec.decisions[m].by : m \in {k}}) >= IF rec.dual THEN 2 ELSE 1
    BY <1>5, <2>1, <2>2
  <2> QED BY <2>3, <2>4, Zenon
<1> QED BY <1>4, <1>5
-----------------------------------------------------------------------------
(* Access requests: the steps.                                             *)

\* What is stated stays stated, and a desk sound.
LEMMA StatedStays ==
  ASSUME NEW r, NEW rec, Stated(r, rec), said \subseteq said'
  PROVE  Stated(r, rec)'
BY DEF Stated, Statement

LEMMA DeskStays ==
  ASSUME NEW c, DeskSound(c), register' = register, said \subseteq said'
  PROVE  DeskSound(c)'
<1>1. c.at \in {"issue", "save"} => Stated(c.req, c.rec)'
  BY StatedStays DEF DeskSound
<1> QED BY <1>1 DEF DeskSound, Pending

LEMMA DesksStay ==
  ASSUME ReqInv, register' = register, said \subseteq said'
  PROVE  /\ \A r \in ReqIds : (register[r] # NoReq => Stated(r, register[r]))'
         /\ \A q \in Procs : clerk'[q] = clerk[q] => DeskSound(clerk[q])'
<1>1. ASSUME NEW r \in ReqIds, register[r] # NoReq
      PROVE  Stated(r, register[r])'
  <2>1. PICK rec : rec = register[r]
    OBVIOUS
  <2>2. Stated(r, rec)
    BY <1>1, <2>1 DEF ReqInv
  <2> QED BY <2>1, <2>2, StatedStays
<1>2. ASSUME NEW q \in Procs, clerk'[q] = clerk[q]
      PROVE  DeskSound(clerk[q])'
  <2>1. PICK c : c = clerk[q]
    OBVIOUS
  <2>2. DeskSound(c)
    BY <2>1 DEF ReqInv
  <2> QED BY <1>2, <2>1, <2>2, DeskStays
<1> QED BY <1>1, <1>2

\* A step of process p that says no less and leaves the register and the grants.
LEMMA DeskKeeps ==
  ASSUME ReqInv, NEW p \in Procs, NEW c \in Desks, clerk' = [clerk EXCEPT ![p] = c],
         UNCHANGED <<register, grants>>, said \subseteq said', fifo' \in -1..1,
         stopped' \in BOOLEAN, stopped => stopped',
         c.at # "idle" <=> regLock' = p,
         regLock' = p \/ regLock = p => \A q \in Procs \ {p} : regLock' # q /\ regLock # q,
         regLock' = regLock \/ regLock' = p \/ regLock = p,
         DeskSound(c)',
         c.at = "save" => c.give = NoReq,
         clerk[p].at = "save" /\ clerk[p].give # NoReq => stopped'
  PROVE  ReqInv'
<1>1. /\ clerk' \in [Procs -> Desks] /\ clerk'[p] = c
      /\ \A q \in Procs \ {p} : clerk'[q] = clerk[q]
  BY DEF ReqInv, RequestTypes
<1>2. RequestTypes'
  BY <1>1 DEF ReqInv, RequestTypes
<1>3. Locked'
  BY <1>1 DEF ReqInv, Locked
<1>4. \A r \in ReqIds : (register[r] # NoReq => Stated(r, register[r]))'
  BY DesksStay
<1>5. \A q \in Procs : DeskSound(clerk[q])'
  BY <1>1, DesksStay
<1>6. Backed'
  BY DEF ReqInv, Backed, BackedBy
<1>7. Told'
  <2>1. ~stopped' => \A r \in ReqIds : Recorded(r)' <=> Recorded(r)
    BY <1>1 DEF Recorded
  <2> QED BY <2>1 DEF ReqInv, Told
<1> QED BY <1>2, <1>3, <1>4, <1>5, <1>6, <1>7 DEF ReqInv

\* A step that leaves the register, the processes, the grants and what was said.
LEMMA QuietKeeps ==
  ASSUME ReqInv, UNCHANGED <<register, regLock, clerk, grants, said, stopped>>, fifo' \in -1..1
  PROVE  ReqInv'
<1>1. RequestTypes' /\ Locked'
  BY DEF ReqInv, RequestTypes, Locked
<1>2. \A r \in ReqIds : (register[r] # NoReq => Stated(r, register[r]))'
  BY DesksStay
<1>3. \A q \in Procs : DeskSound(clerk[q])'
  BY DesksStay
<1>4. Backed'
  BY DEF ReqInv, Backed, BackedBy
<1>5. Told'
  BY DEF ReqInv, Told, Recorded
<1> QED BY <1>1, <1>2, <1>3, <1>4, <1>5 DEF ReqInv
LEMMA RegisterFacts ==
  /\ NoReq \notin Procs /\ NoReq \notin Records /\ NoReq \notin Terms
  /\ Watcher \in Procs /\ Clerks \subseteq Procs
  /\ AtDesk \in Desks /\ AtDesk.at = "idle"
BY RequestAssumption DEF Procs, AtDesk, Desks

\* Who holds the lock is the only process not at its desk.
LEMMA LockFacts ==
  ASSUME ReqInv, NEW p \in Procs
  PROVE  /\ clerk[p] \in Desks
         /\ clerk[p].at # "idle" => regLock = p /\ \A q \in Procs \ {p} : clerk[q].at = "idle"
         /\ regLock = NoReq => clerk[p].at = "idle"
         /\ clerk[p].at \in {"issue", "save"} => clerk[p].rec \in Records /\ clerk[p].req \in ReqIds
BY RegisterFacts DEF ReqInv, RequestTypes, Locked, DeskSound

LEMMA FilesKeeps ==
  ASSUME ReqInv, NEW p \in Procs, NEW r \in ReqIds, NEW q \in Questions,
         NEW decider \in {"owner", "admin"} \cup People, NEW dual \in BOOLEAN, NEW reuse \in BOOLEAN,
         Files(p, r, q, decider, dual, reuse)
  PROVE  ReqInv'
<1> DEFINE rec == [q |-> q, decider |-> decider, dual |-> dual, state |-> "pending", decisions |-> <<>>]
           c == [at |-> "save", req |-> r, give |-> NoReq, rec |-> rec]
<1>1. /\ clerk' = [clerk EXCEPT ![p] = c] /\ clerk[p].at = "idle"
      /\ regLock = NoReq /\ regLock' = p /\ register[r] = NoReq
      /\ UNCHANGED <<register, grants, fifo, said, stopped>>
  BY DEF Files
<1>2. rec \in Records /\ Approvals(rec) = {}
  BY DEF Records, Approvals
<1>3. c \in Desks /\ c.at = "save" /\ c.req = r /\ c.give = NoReq /\ c.rec = rec /\ rec.state = "pending"
  BY <1>2 DEF Desks
<1> HIDE DEF c, rec
<1>4. DeskSound(c)'
  BY <1>1, <1>2, <1>3 DEF DeskSound, Stated
<1>5. fifo' \in -1..1 /\ stopped' \in BOOLEAN
  BY <1>1 DEF ReqInv, RequestTypes
<1> QED BY <1>1, <1>3, <1>4, <1>5, DeskKeeps, RegisterFacts

\* A record with one more decision.
LEMMA DecisionFacts ==
  ASSUME ReqInv, NEW r \in ReqIds, Pending(register[r]), NEW d \in Decisions,
         NEW state \in {"pending", "approved", "denied", "withdrawn"},
         NEW rec, rec = [register[r] EXCEPT !.state = state, !.decisions = Append(@, d)],
         said \subseteq said',
         d.answer = "approve" =>
           Statement(r, d) \in said' /\ d.life \in Lifetimes /\ ~Decided(register[r], d.by)
  PROVE  /\ rec \in Records /\ rec.state = state /\ rec.dual = register[r].dual
         /\ Stated(r, rec)'
<1>1. PICK old : old = register[r]
  OBVIOUS
<1>2. old \in Records /\ Stated(r, old) /\ old # NoReq
  BY <1>1 DEF ReqInv, RequestTypes, Pending
<1>4. old.decisions \in Seq(Decisions) /\ Append(old.decisions, d) \in Seq(Decisions)
  BY <1>2 DEF Records
<1>5. rec = [old EXCEPT !.state = state, !.decisions = Append(old.decisions, d)]
  BY <1>1
<1>6. rec \in Records /\ rec.state = state /\ rec.dual = old.dual
      /\ rec.decisions = Append(old.decisions, d)
  BY <1>2, <1>4, <1>5 DEF Records
<1>7. \A k \in Approvals(rec) :
        \/ k \in Approvals(old) /\ rec.decisions[k] = old.decisions[k]
        \/ k = Len(old.decisions) + 1 /\ rec.decisions[k] = d /\ d.answer = "approve"
  BY <1>2, <1>6 DEF Approvals, Records
<1>8. Stated(r, old)'
  BY <1>2, StatedStays
<1>9. d.answer = "approve" => \A k \in Approvals(old) : old.decisions[k].by # d.by
  BY <1>1 DEF Decided, Approvals
<1>10. ASSUME NEW k \in Approvals(rec)
       PROVE  Statement(r, rec.decisions[k]) \in said' /\ rec.decisions[k].life \in Lifetimes
  BY <1>7, <1>8, <1>10 DEF Stated
<1>11. ASSUME NEW k \in Approvals(rec), NEW l \in Approvals(rec),
              rec.decisions[k].by = rec.decisions[l].by
       PROVE  k = l
  BY <1>7, <1>8, <1>9, <1>11 DEF Stated
<1> QED BY <1>1, <1>6, <1>10, <1>11 DEF Stated

LEMMA ApprovesKeeps ==
  ASSUME ReqInv, NEW p \in Procs, NEW r \in ReqIds, NEW by \in People, NEW life \in Lifetimes,
         NEW uses \in Uses, Approves(p, r, by, life, uses)
  PROVE  ReqInv'
<1> DEFINE decision == [by |-> by, answer |-> "approve", life |-> life, uses |-> uses]
<1>1. /\ clerk[p].at = "idle" /\ regLock = NoReq /\ regLock' = p
      /\ UNCHANGED <<register, grants, fifo, stopped>>
      /\ said' = said \cup {[req |-> r, by |-> by, life |-> life, uses |-> uses]}
      /\ Pending(register[r]) /\ ~Decided(register[r], by)
  BY DEF Approves, MayDecide
<1>2. PICK d : d = decision
  OBVIOUS
<1>3. /\ d \in Decisions /\ d.life \in Lifetimes /\ d.by = by /\ d.life = life /\ d.uses = uses
      /\ Statement(r, d) \in said'
  BY <1>1, <1>2 DEF Decisions, Statement
<1>4. PICK old : old = register[r] /\ old \in Records /\ old.state = "pending"
  BY <1>1 DEF Pending, ReqInv, RequestTypes
<1>5. PICK rec : rec = [register[r] EXCEPT !.state = "pending", !.decisions = Append(@, d)]
  OBVIOUS
<1>6. rec = [register[r] EXCEPT !.decisions = Append(@, decision)]
  BY <1>2, <1>4, <1>5 DEF Records
<1>7. rec \in Records /\ rec.state = "pending" /\ rec.dual = register[r].dual /\ Stated(r, rec)'
  <2>1. said \subseteq said' /\ "pending" \in {"pending", "approved", "denied", "withdrawn"}
    BY <1>1
  <2> HIDE DEF decision
  <2> QED BY <1>1, <1>3, <1>5, <2>1, DecisionFacts
<1>8. PICK done : done = [rec EXCEPT !.state = "approved"]
  OBVIOUS
<1>9. done \in Records /\ done.state = "approved" /\ done.dual = rec.dual /\ done.decisions = rec.decisions
  BY <1>7, <1>8 DEF Records
<1>10. Approvals(done) = Approvals(rec) /\ Bounds(done) = Bounds(rec) /\ Enough(done) = Enough(rec)
  BY <1>9 DEF Approvals, Bounds, Enough
<1>11. Stated(r, done)'
  BY <1>7, <1>9, <1>10 DEF Stated
<1>12. fifo' \in -1..1 /\ stopped' \in BOOLEAN
  BY <1>1 DEF ReqInv, RequestTypes
<1>13. CASE Enough(rec)
  <2> DEFINE c == [at |-> "issue", req |-> r, rec |-> done, give |-> Bounds(rec)]
  <2>1. clerk' = [clerk EXCEPT ![p] = c]
    BY <1>6, <1>8, <1>13 DEF Approves
  <2>2. Bounds(rec) \in Terms
    <3>1. \A l \in Approvals(rec) : rec.decisions[l].life \in Lifetimes
      BY <1>7 DEF Stated
    <3>2. Approvals(rec) # {}
      BY <1>13, FS_EmptySet DEF Enough
    <3> QED BY <1>7, <3>1, <3>2, BoundsFacts
  <2>3. c \in Desks /\ c.at = "issue" /\ c.req = r /\ c.rec = done /\ c.give = Bounds(rec)
    BY <1>9, <2>2 DEF Desks
  <2> HIDE DEF c
  <2>4. DeskSound(c)'
    BY <1>1, <1>7, <1>9, <1>10, <1>11, <1>13, <2>3 DEF DeskSound, Pending
  <2> QED BY <1>1, <1>12, <2>1, <2>3, <2>4, DeskKeeps, RegisterFacts
<1>14. CASE ~Enough(rec)
  <2> DEFINE c == [at |-> "save", req |-> r, rec |-> rec, give |-> NoReq]
  <2>1. clerk' = [clerk EXCEPT ![p] = c]
    BY <1>6, <1>14 DEF Approves
  <2>2. c \in Desks /\ c.at = "save" /\ c.req = r /\ c.rec = rec /\ c.give = NoReq
    BY <1>7 DEF Desks
  <2> HIDE DEF c
  <2>3. DeskSound(c)'
    BY <1>1, <1>7, <2>2 DEF DeskSound, Pending
  <2> QED BY <1>1, <1>12, <2>1, <2>2, <2>3, DeskKeeps, RegisterFacts
<1> QED BY <1>13, <1>14

LEMMA ClosesKeeps ==
  ASSUME ReqInv, NEW p \in Procs, NEW r \in ReqIds, NEW by \in People \cup {"requester"},
         NEW answer \in {"denied", "withdrawn"}, Closes(p, r, by, answer)
  PROVE  ReqInv'
<1> DEFINE decision == [by |-> by, answer |-> answer, life |-> 0, uses |-> 0]
<1>1. /\ clerk[p].at = "idle" /\ regLock = NoReq /\ regLock' = p
      /\ UNCHANGED <<register, grants, fifo, said, stopped>> /\ Pending(register[r])
  BY DEF Closes, MayDecide
<1>2. PICK d : d = decision
  OBVIOUS
<1>3. d \in Decisions /\ d.answer # "approve"
  BY <1>2 DEF Decisions, Uses
<1>4. PICK rec : rec = [register[r] EXCEPT !.state = answer, !.decisions = Append(@, d)]
  OBVIOUS
<1>5. rec = [register[r] EXCEPT !.state = answer, !.decisions = Append(@, decision)]
  BY <1>2, <1>4
<1>6. rec \in Records /\ rec.state = answer /\ rec.dual = register[r].dual /\ Stated(r, rec)'
  <2>1. said \subseteq said' /\ answer \in {"pending", "approved", "denied", "withdrawn"}
    BY <1>1
  <2>2. d.answer = "approve" =>
          Statement(r, d) \in said' /\ d.life \in Lifetimes /\ ~Decided(register[r], d.by)
    BY <1>3
  <2>3. Pending(register[r]) /\ d \in Decisions
    BY <1>1, <1>3
  <2> HIDE DEF decision
  <2> QED BY <1>4, <2>1, <2>2, <2>3, DecisionFacts
<1> DEFINE c == [at |-> "save", req |-> r, give |-> NoReq, rec |-> rec]
<1>7. clerk' = [clerk EXCEPT ![p] = c]
  BY <1>5 DEF Closes
<1>8. c \in Desks /\ c.at = "save" /\ c.req = r /\ c.rec = rec /\ c.give = NoReq
  BY <1>6 DEF Desks
<1> HIDE DEF c
<1>9. DeskSound(c)'
  BY <1>1, <1>6, <1>8 DEF DeskSound, Pending
<1>10. fifo' \in -1..1 /\ stopped' \in BOOLEAN
  BY <1>1 DEF ReqInv, RequestTypes
<1> QED BY <1>1, <1>7, <1>8, <1>9, <1>10, DeskKeeps, RegisterFacts

\* A process goes back to its desk, with nothing issued that it has not saved.
LEMMA LeavesKeeps ==
  ASSUME ReqInv, NEW p \in Procs, clerk[p].at # "idle", clerk' = [clerk EXCEPT ![p] = AtDesk],
         regLock' = NoReq, UNCHANGED <<register, grants, said>>, fifo' \in -1..1,
         stopped' \in BOOLEAN, stopped => stopped', clerk[p].at # "poke" => stopped'
  PROVE  ReqInv'
<1>1. DeskSound(AtDesk)'
  BY RegisterFacts DEF DeskSound
<1> QED BY <1>1, LockFacts, DeskKeeps, RegisterFacts
LEMMA IssueFailsKeeps ==
  ASSUME ReqInv, NEW p \in Procs, IssueFails(p)
  PROVE  ReqInv'
<1>1. /\ clerk[p].at # "idle" /\ regLock' = NoReq /\ clerk' = [clerk EXCEPT ![p] = AtDesk]
      /\ UNCHANGED <<register, grants, said, fifo>> /\ stopped' = TRUE
  BY DEF IssueFails, LeavesDesk
<1>2. fifo' \in -1..1
  BY <1>1 DEF ReqInv, RequestTypes
<1> QED BY <1>1, <1>2, LeavesKeeps

LEMMA PokesKeeps ==
  ASSUME ReqInv, NEW p \in Procs, Pokes(p)
  PROVE  ReqInv'
<1>1. /\ clerk[p].at = "poke" /\ regLock' = NoReq /\ clerk' = [clerk EXCEPT ![p] = AtDesk]
      /\ UNCHANGED <<register, grants, said, stopped>>
  BY DEF Pokes, LeavesDesk
<1>2. fifo' \in -1..1 /\ stopped' \in BOOLEAN
  BY <1>1 DEF ReqInv, RequestTypes, Pokes
<1> QED BY <1>1, <1>2, LeavesKeeps

LEMMA ClerkDiesKeeps ==
  ASSUME ReqInv, NEW p \in Procs, ClerkDies(p)
  PROVE  ReqInv'
<1>1. /\ clerk[p].at # "idle" /\ clerk' = [clerk EXCEPT ![p] = AtDesk]
      /\ UNCHANGED <<register, grants, said>> /\ stopped' = TRUE
  BY DEF ClerkDies
<1>2. regLock' = NoReq
  BY <1>1, LockFacts DEF ClerkDies
<1>3. fifo' \in -1..1
  BY DEF ReqInv, RequestTypes, ClerkDies
<1> QED BY <1>1, <1>2, <1>3, LeavesKeeps

\* The grant that enough deciders approved.
LEMMA IssuesGrantKeeps ==
  ASSUME ReqInv, NEW p \in Procs, IssuesGrant(p)
  PROVE  ReqInv'
<1>1. PICK c : c = clerk[p]
  OBVIOUS
<1>2. PICK r : r = c.req
  OBVIOUS
<1>3. PICK g : g = [req |-> c.req, live |-> TRUE, life |-> c.give.life, uses |-> c.give.uses]
  OBVIOUS
<1>4. /\ c.at = "issue" /\ grants' = Append(grants, g) /\ clerk' = [clerk EXCEPT ![p].at = "save"]
      /\ UNCHANGED <<register, regLock, fifo, said, stopped>>
  BY <1>1, <1>3 DEF IssuesGrant
<1>5. /\ c \in Desks /\ r \in ReqIds /\ c.rec \in Records /\ Stated(r, c.rec)
      /\ register[r] # NoReq /\ Pending(register[r]) /\ register[r].dual = c.rec.dual
      /\ c.rec.state = "approved" /\ Enough(c.rec) /\ c.give = Bounds(c.rec)
  BY <1>1, <1>2, <1>4, LockFacts DEF ReqInv, DeskSound
<1>6. \A q \in Procs \ {p} : clerk[q].at = "idle" /\ clerk'[q] = clerk[q]
  BY <1>1, <1>4, LockFacts DEF ReqInv, RequestTypes
<1>7. PICK rec : rec = c.rec
  OBVIOUS
<1>8. \A k \in Approvals(rec) : rec.decisions[k].life \in Lifetimes
  BY <1>5, <1>7 DEF Stated
<1>9. PICK two \in SUBSET Approvals(rec) :
        Cardinality({rec.decisions[k].by : k \in two}) >= IF rec.dual THEN 2 ELSE 1
  <2>1. rec \in Records /\ Enough(rec)
    BY <1>5, <1>7
  <2>2. \A k, l \in Approvals(rec) : rec.decisions[k].by = rec.decisions[l].by => k = l
    BY <1>5, <1>7 DEF Stated
  <2> QED BY <2>1, <2>2, EnoughPeople, Zenon
<1>10. /\ c.give \in Terms
       /\ \A l \in Approvals(rec) :
            /\ c.give.life <= rec.decisions[l].life
            /\ rec.decisions[l].uses # 0 => c.give.uses # 0 /\ c.give.uses <= rec.decisions[l].uses
  <2>1. Approvals(rec) # {}
    BY <1>5, <1>7, FS_EmptySet DEF Enough
  <2> QED BY <1>5, <1>7, <1>8, <2>1, BoundsFacts
<1>11. g \in GrantsGiven /\ g.req = r /\ g.life = c.give.life /\ g.uses = c.give.uses
  BY <1>2, <1>3, <1>5, <1>10 DEF GrantsGiven, Terms
<1>12. /\ grants \in Seq(GrantsGiven) /\ grants' \in Seq(GrantsGiven) /\ Len(grants) \in Nat
       /\ Len(grants') = Len(grants) + 1 /\ DOMAIN grants = 1..Len(grants)
       /\ DOMAIN grants' = 1..(Len(grants) + 1) /\ grants'[Len(grants) + 1] = g
       /\ \A k \in DOMAIN grants : grants'[k] = grants[k]
  BY <1>4, <1>11 DEF ReqInv, RequestTypes
<1>13. PICK cc : cc = [c EXCEPT !.at = "save"]
  OBVIOUS
<1>14. /\ cc \in Desks /\ cc.at = "save" /\ cc.req = r /\ cc.rec = c.rec /\ cc.give = c.give
       /\ clerk'[p] = cc /\ clerk' \in [Procs -> Desks]
  BY <1>1, <1>2, <1>4, <1>5, <1>13 DEF ReqInv, RequestTypes, Desks
<1>15. RequestTypes'
  BY <1>4, <1>12, <1>14 DEF ReqInv, RequestTypes
<1>16. Locked'
  BY <1>1, <1>4, <1>6, <1>14 DEF ReqInv, Locked
<1>17. \A s \in ReqIds : (register[s] # NoReq => Stated(s, register[s]))'
  BY <1>4, DesksStay
<1>18. \A q \in Procs : DeskSound(clerk[q])'
  <2>1. DeskSound(cc)'
    <3>1. Stated(r, c.rec)'
      BY <1>4, <1>5, StatedStays
    <3> QED BY <1>4, <1>5, <1>10, <1>14, <3>1, RegisterFacts DEF DeskSound, Pending
  <2> QED BY <1>4, <1>6, <1>14, <2>1, DesksStay
<1>19. Backed'
  <2>1. BackedBy(g, {Statement(r, rec.decisions[k]) : k \in two})'
    <3> DEFINE some == {Statement(r, rec.decisions[k]) : k \in two}
    <3>1. {s.by : s \in some} = {rec.decisions[k].by : k \in two}
      <4>1. \A k \in two : Statement(r, rec.decisions[k]) \in some
                            /\ Statement(r, rec.decisions[k]).by = rec.decisions[k].by
        BY DEF Statement
      <4>2. \A s \in some : \E k \in two : s = Statement(r, rec.decisions[k])
        OBVIOUS
      <4> HIDE DEF some
      <4>3. \A x \in {s.by : s \in some} : x \in {rec.decisions[k].by : k \in two}
        BY <4>1, <4>2
      <4>4. \A x \in {rec.decisions[k].by : k \in two} : x \in {s.by : s \in some}
        BY <4>1, Zenon
      <4> QED BY <4>3, <4>4
    <3>2. some \subseteq {s \in said : s.req = r}
      BY <1>5, <1>7 DEF Stated, Statement
    <3>3. \A s \in some : g.life <= s.life /\ (s.uses # 0 => g.uses # 0 /\ g.uses <= s.uses)
      BY <1>10, <1>11 DEF Statement
    <3> HIDE DEF some
    <3>4. Cardinality({s.by : s \in some}) >= IF register[r].dual THEN 2 ELSE 1
      BY <1>5, <1>7, <1>9, <3>1
    <3>5. BackedBy(g, some)'
      BY <1>4, <1>11, <3>2, <3>3, <3>4 DEF BackedBy
    <3> QED BY <3>5 DEF some
  <2>2. \A k \in DOMAIN grants : register'[grants'[k].req] # NoReq /\ (\E some : BackedBy(grants[k], some))'
    <3>1. ASSUME NEW k \in DOMAIN grants
          PROVE  register'[grants'[k].req] # NoReq /\ (\E some : BackedBy(grants[k], some))'
      <4>1. grants'[k] = grants[k]
        BY <1>12
      <4>2. register[grants[k].req] # NoReq
        BY <3>1 DEF ReqInv, Backed
      <4>3. PICK some : BackedBy(grants[k], some)
        BY <3>1 DEF ReqInv, Backed
      <4>4. BackedBy(grants[k], some)'
        BY <1>4, <4>1, <4>3 DEF BackedBy
      <4> QED BY <1>4, <4>1, <4>2, <4>4
    <3> QED BY <3>1
  <2>3. register'[g.req] # NoReq /\ (\E some : BackedBy(g, some))'
    BY <1>4, <1>5, <1>11, <2>1
  <2> QED BY <1>12, <2>2, <2>3 DEF Backed
<1>20. Told'
  <2>1. SUFFICES ASSUME ~stopped
                 PROVE  Told'
    BY <1>4 DEF Told
  <2>2. ~Recorded(r)
    BY <1>1, <1>4, <1>5, <1>6 DEF Recorded, Pending
  <2>3. \A k \in DOMAIN grants : grants[k].req # r
    BY <1>5, <2>1, <2>2 DEF ReqInv, Told
  <2>4. Recorded(r)' /\ \A s \in ReqIds \ {r} : Recorded(s)' <=> Recorded(s)
    BY <1>1, <1>2, <1>4, <1>6, <1>10, <1>14, RegisterFacts DEF Recorded
  <2>5. \A k, l \in DOMAIN grants' : grants'[k].req = grants'[l].req => k = l
    BY <1>11, <1>12, <2>1, <2>3 DEF ReqInv, Told
  <2>6. \A s \in ReqIds : (\E k \in DOMAIN grants' : grants'[k].req = s) <=> Recorded(s)'
    BY <1>11, <1>12, <2>1, <2>3, <2>4 DEF ReqInv, Told
  <2> QED BY <2>5, <2>6 DEF Told
<1> QED BY <1>15, <1>16, <1>17, <1>18, <1>19, <1>20 DEF ReqInv

\* The register says of a request what was just decided of it.
LEMMA SavesKeeps ==
  ASSUME ReqInv, NEW p \in Procs, Saves(p)
  PROVE  ReqInv'
<1>1. PICK c : c = clerk[p]
  OBVIOUS
<1>2. PICK r, rec : r = c.req /\ rec = c.rec
  OBVIOUS
<1>3. /\ c.at = "save" /\ register' = [register EXCEPT ![r] = rec]
      /\ clerk' = [clerk EXCEPT ![p].at = "poke"]
      /\ UNCHANGED <<regLock, grants, fifo, said, stopped>>
  BY <1>1, <1>2 DEF Saves
<1>4. /\ c \in Desks /\ r \in ReqIds /\ rec \in Records /\ Stated(r, rec)
      /\ register[r] # NoReq => Pending(register[r]) /\ register[r].dual = rec.dual
      /\ c.give # NoReq <=> rec.state = "approved"
  BY <1>1, <1>2, <1>3, LockFacts DEF ReqInv, DeskSound
<1>5. \A q \in Procs \ {p} : clerk[q].at = "idle" /\ clerk'[q] = clerk[q]
  BY <1>1, <1>3, LockFacts DEF ReqInv, RequestTypes
<1>6. /\ register \in [ReqIds -> Records \cup {NoReq}] /\ register' \in [ReqIds -> Records \cup {NoReq}]
      /\ register'[r] = rec /\ \A s \in ReqIds \ {r} : register'[s] = register[s]
  BY <1>3, <1>4 DEF ReqInv, RequestTypes
<1>7. /\ clerk' \in [Procs -> Desks] /\ clerk'[p].at = "poke"
  BY <1>1, <1>3, <1>4 DEF ReqInv, RequestTypes, Desks
<1>8. RequestTypes'
  BY <1>3, <1>6, <1>7 DEF ReqInv, RequestTypes
<1>9. Locked'
  BY <1>1, <1>3, <1>5, <1>7 DEF ReqInv, Locked
<1>10. \A s \in ReqIds : (register[s] # NoReq => Stated(s, register[s]))'
  <2>1. ASSUME NEW s \in ReqIds, register'[s] # NoReq
        PROVE  Stated(s, register[s])'
    <3>1. PICK new : new = register'[s]
      OBVIOUS
    <3>2. Stated(s, new)
      BY <1>4, <1>6, <2>1, <3>1 DEF ReqInv
    <3> QED BY <1>3, <3>1, <3>2, StatedStays
  <2> QED BY <2>1
<1>11. \A q \in Procs : DeskSound(clerk[q])'
  BY <1>5, <1>7 DEF DeskSound
<1>12. Backed'
  <2>1. ASSUME NEW k \in DOMAIN grants
        PROVE  register'[grants[k].req] # NoReq /\ register'[grants[k].req].dual = register[grants[k].req].dual
    <3>1. grants[k].req \in ReqIds /\ register[grants[k].req] # NoReq
      <4>1. grants[k] \in GrantsGiven
        BY <2>1 DEF ReqInv, RequestTypes
      <4> QED BY <2>1, <4>1 DEF ReqInv, Backed, GrantsGiven
    <3> QED BY <1>4, <1>6, <3>1, RegisterFacts
  <2>2. ASSUME NEW k \in DOMAIN grants, NEW some, BackedBy(grants[k], some)
        PROVE  BackedBy(grants[k], some)'
    BY <1>3, <2>1, <2>2 DEF BackedBy
  <2> QED BY <1>3, <2>1, <2>2 DEF ReqInv, Backed
<1>13. Told'
  <2>1. ASSUME NEW s \in ReqIds
        PROVE  Recorded(s)' <=> Recorded(s)
    <3>1. CASE s = r
      <4>1. Recorded(r) <=> c.give # NoReq
        BY <1>1, <1>2, <1>3, <1>4, <1>5 DEF Recorded, Pending
      <4>2. Recorded(r)' <=> rec.state = "approved"
        BY <1>4, <1>5, <1>6, <1>7, RegisterFacts DEF Recorded
      <4> QED BY <1>4, <3>1, <4>1, <4>2
    <3>2. CASE s # r
      <4>1. Recorded(s) <=> register[s] # NoReq /\ register[s].state = "approved"
        BY <1>1, <1>2, <1>5, <3>2 DEF Recorded
      <4>2. Recorded(s)' <=> register[s] # NoReq /\ register[s].state = "approved"
        BY <1>5, <1>6, <1>7, <3>2 DEF Recorded
      <4> QED BY <4>1, <4>2
    <3> QED BY <3>1, <3>2
  <2> QED BY <1>3, <2>1 DEF ReqInv, Told
<1> QED BY <1>8, <1>9, <1>10, <1>11, <1>12, <1>13 DEF ReqInv

LEMMA RevokesKeeps ==
  ASSUME ReqInv, NEW i \in DOMAIN grants, Revokes(i)
  PROVE  ReqInv'
<1>1. /\ grants' = [grants EXCEPT ![i].live = FALSE] /\ grants \in Seq(GrantsGiven)
      /\ UNCHANGED <<register, regLock, clerk, fifo, said, stopped>>
  BY DEF Revokes, ReqInv, RequestTypes
<1> DEFINE n == Len(grants)
<1>11. /\ n \in Nat /\ DOMAIN grants = 1..n /\ grants \in [1..n -> GrantsGiven]
       /\ i \in 1..n /\ grants[i] \in GrantsGiven
  BY <1>1
<1>2. PICK g : g = [grants[i] EXCEPT !.live = FALSE]
  OBVIOUS
<1>3. g \in GrantsGiven /\ g.req = grants[i].req /\ g.life = grants[i].life /\ g.uses = grants[i].uses
  BY <1>2, <1>11 DEF GrantsGiven
<1>4. grants' = [grants EXCEPT ![i] = g]
  BY <1>1, <1>2
<1>5. /\ grants' \in Seq(GrantsGiven) /\ DOMAIN grants' = DOMAIN grants /\ grants'[i] = g
      /\ \A k \in DOMAIN grants \ {i} : grants'[k] = grants[k]
  <2>1. grants' \in [1..n -> GrantsGiven] /\ grants'[i] = g
        /\ \A k \in 1..n \ {i} : grants'[k] = grants[k]
    BY <1>3, <1>4, <1>11
  <2> HIDE DEF n
  <2> QED BY <1>11, <2>1
<1>6. \A k \in DOMAIN grants : /\ grants'[k].req = grants[k].req
                               /\ grants'[k].life = grants[k].life /\ grants'[k].uses = grants[k].uses
  BY <1>3, <1>5
<1>7. RequestTypes' /\ Locked'
  BY <1>1, <1>5 DEF ReqInv, RequestTypes, Locked
<1>8. /\ \A r \in ReqIds : (register[r] # NoReq => Stated(r, register[r]))'
      /\ \A q \in Procs : DeskSound(clerk[q])'
  BY <1>1, DesksStay
<1>9. Backed'
  <2>1. ASSUME NEW k \in DOMAIN grants, NEW some, BackedBy(grants[k], some)
        PROVE  BackedBy(grants[k], some)'
    BY <1>1, <1>6, <2>1 DEF BackedBy
  <2> QED BY <1>1, <1>5, <1>6, <2>1 DEF ReqInv, Backed
<1>10. Told'
  BY <1>1, <1>5, <1>6 DEF ReqInv, Told, Recorded
<1> QED BY <1>7, <1>8, <1>9, <1>10 DEF ReqInv

LEMMA ReqInit_ReqInv ==
  ASSUME ReqInit
  PROVE  ReqInv
<1>1. RequestTypes
  <2>1. register \in [ReqIds -> Records \cup {NoReq}] /\ clerk \in [Procs -> Desks]
    BY RegisterFacts DEF ReqInit
  <2>2. grants \in Seq(GrantsGiven)
    BY DEF ReqInit
  <2>4. stopped \in BOOLEAN
    BY DEF ReqInit
  <2>3. fifo \in -1..1
    BY DEF ReqInit
  <2> QED BY <2>1, <2>2, <2>3, <2>4 DEF RequestTypes
<1>2. Locked /\ \A p \in Procs : DeskSound(clerk[p])
  BY RegisterFacts DEF ReqInit, Locked, DeskSound
<1>3. Backed /\ Told
  BY RegisterFacts DEF ReqInit, Backed, Told, Recorded
<1> QED BY <1>1, <1>2, <1>3 DEF ReqInv, ReqInit

LEMMA ReqNext_ReqInv ==
  ASSUME ReqInv, [ReqNext]_requestVars
  PROVE  ReqInv'
<1>1. CASE UNCHANGED requestVars
  <2>1. fifo' \in -1..1
    BY <1>1 DEF requestVars, ReqInv, RequestTypes
  <2> QED BY <1>1, <2>1, QuietKeeps DEF requestVars
<1>2. ASSUME NEW p \in Procs, IssuesGrant(p) \/ Saves(p) \/ Pokes(p) \/ IssueFails(p) \/ ClerkDies(p)
      PROVE  ReqInv'
  BY <1>2, IssuesGrantKeeps, SavesKeeps, PokesKeeps, IssueFailsKeeps, ClerkDiesKeeps
<1>3. ASSUME NEW p \in Clerks, NEW r \in ReqIds, NEW q \in Questions,
             NEW d \in {"owner", "admin"} \cup People, NEW dual \in BOOLEAN, NEW reuse \in BOOLEAN,
             Files(p, r, q, d, dual, reuse)
      PROVE  ReqInv'
  BY <1>3, FilesKeeps, RegisterFacts
<1>4. ASSUME NEW p \in Procs, NEW r \in ReqIds, NEW by \in Persons(p), NEW life \in Lifetimes,
             NEW uses \in Uses, Approves(p, r, by, life, uses)
      PROVE  ReqInv'
  <2>1. by \in People
    BY RequestAssumption DEF Persons
  <2> QED BY <1>4, <2>1, ApprovesKeeps
<1>5. ASSUME NEW p \in Procs, NEW r \in ReqIds, NEW by \in Persons(p) \cup {"requester"},
             Closes(p, r, by, "denied") \/ Closes(p, r, by, "withdrawn")
      PROVE  ReqInv'
  <2>1. by \in People \cup {"requester"}
    BY RequestAssumption DEF Persons
  <2> QED BY <1>5, <2>1, ClosesKeeps
<1>6. CASE WatchStarts \/ WatchLoads \/ WatchWaits \/ WatchWakes
           \/ (\E r \in ReqIds : WatchAsks(r)) \/ (\E who \in People : RoleChanges(who))
  <2>1. UNCHANGED <<register, regLock, clerk, grants, said, stopped>>
    BY <1>6 DEF WatchStarts, WatchLoads, WatchWaits, WatchWakes, WatchAsks, RoleChanges
  <2>2. fifo' \in -1..1
    BY <1>6 DEF ReqInv, RequestTypes, WatchStarts, WatchLoads, WatchWaits, WatchWakes, WatchAsks, RoleChanges
  <2> QED BY <2>1, <2>2, QuietKeeps
<1>7. ASSUME NEW i \in DOMAIN grants, Revokes(i)
      PROVE  ReqInv'
  BY <1>7, RevokesKeeps
<1>8. CASE \E p \in Procs, r \in ReqIds :
       /\ Deciding(p, r)
       /\ \/ \E by \in Persons(p), life \in Lifetimes, uses \in Uses : Approves(p, r, by, life, uses)
          \/ \E by \in Persons(p) : Closes(p, r, by, "denied")
          \/ \E by \in Persons(p) \cup {"requester"} : p # Watcher /\ Closes(p, r, by, "withdrawn")
  BY <1>4, <1>5, <1>8
<1> QED BY <1>1, <1>2, <1>3, <1>6, <1>7, <1>8 DEF ReqNext, RequestSteps

LEMMA RequestHolds == ReqSpec => []ReqInv
<1>1. ReqInit => ReqInv
  BY ReqInit_ReqInv
<1>2. ReqInv /\ [ReqNext]_requestVars => ReqInv'
  BY ReqNext_ReqInv
<1> QED BY <1>1, <1>2, PTL DEF ReqSpec

\* Every grant is a decision of the people who may take it: it lives no longer
\* and counts no more uses than one of its deciders stated, dual control had
\* two different people, and the register tells which requests have their one
\* grant (decide.rs, approve, close).
THEOREM GrantsDecided == ReqSpec => []GrantsAreDecisions
<1>1. ASSUME ReqInv
      PROVE  GrantsAreDecisions
  <2>1. ReqTypeOK
    BY <1>1 DEF ReqInv, RequestTypes, Locked, ReqTypeOK, Records
  <2>2. GrantedAsDecided
    <3>1. ASSUME NEW k \in DOMAIN grants
          PROVE  \E some \in SUBSET {s \in said : s.req = grants[k].req} :
                   /\ Cardinality({s.by : s \in some}) >= IF register[grants[k].req].dual THEN 2 ELSE 1
                   /\ \A s \in some : grants[k].life <= s.life
                                      /\ (s.uses # 0 => grants[k].uses # 0 /\ grants[k].uses <= s.uses)
      <4>1. PICK some : BackedBy(grants[k], some)
        BY <1>1 DEF ReqInv, Backed
      <4> QED BY <4>1, Zenon DEF BackedBy
    <3> QED BY <3>1, Zenon DEF GrantedAsDecided
  <2>3. RegisterTellsGrants
    <3>1. ASSUME ~stopped, NEW r \in ReqIds
          PROVE  LET n == Cardinality({i \in DOMAIN grants : grants[i].req = r})
                 IN n <= 1 /\ (n = 1 <=> Recorded(r))
      <4> DEFINE of == {i \in DOMAIN grants : grants[i].req = r}
      <4>1. /\ \A k, l \in of : k = l
            /\ of # {} <=> Recorded(r)
        BY <1>1, <3>1 DEF ReqInv, Told
      <4>2. CASE of = {}
        <5>1. Cardinality(of) = 0
          BY <4>2, FS_EmptySet
        <5> HIDE DEF of
        <5>2. Cardinality(of) <= 1 /\ (Cardinality(of) = 1 <=> Recorded(r))
          BY <4>1, <4>2, <5>1
        <5> QED BY <5>2 DEF of
      <4>3. CASE of # {}
        <5>1. PICK k : of = {k}
          BY <4>1, <4>3
        <5>2. Cardinality(of) = 1
          BY <5>1, FS_Singleton
        <5> HIDE DEF of
        <5>3. Cardinality(of) <= 1 /\ (Cardinality(of) = 1 <=> Recorded(r))
          BY <4>1, <4>3, <5>2
        <5> QED BY <5>3 DEF of
      <4> QED BY <4>2, <4>3
    <3> QED BY <3>1, Zenon DEF RegisterTellsGrants, Recorded
  <2> QED BY <2>1, <2>2, <2>3 DEF GrantsAreDecisions
<1> QED BY <1>1, RequestHolds, PTL
=============================================================================
