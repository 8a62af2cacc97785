------------------------- MODULE AuditJournalProofs -------------------------
(***************************************************************************)
(* Proofs about the audit journal, for any number of writers, readers,     *)
(* lines and days: what the program writes verify accepts and what a hand  *)
(* changes it finds, the segments are one append-only log, and a reader    *)
(* without a lock misses nothing.                                          *)
(***************************************************************************)
EXTENDS AuditJournal, FiniteSetTheorems, SequenceTheorems, WellFoundedInduction, TLAPS

-----------------------------------------------------------------------------
(* The audit journal: places and lines.                                    *)

Entry == [hash : Int, prev : Int, op : {"entry", "epoch", "closed"},
          about : {None} \cup Int \cup [seg : Nat, bytes : Nat, last : Int],
          day : Nat, torn : BOOLEAN, edited : BOOLEAN]
Journals == Seq(Seq(Entry))

\* Places, LineAt, Before and Linked of any files.
PlacesOf(F) == UNION {{k} \X DOMAIN F[k] : k \in DOMAIN F}
LineOf(F, p) == F[p[1]][p[2]]
EntriesBefore(F, k, i) == {p \in PlacesOf(F) : Precedes(p, <<k, i>>) /\ Whole(LineOf(F, p))}
BeforeOf(F, k, i) ==
  IF EntriesBefore(F, k, i) = {} THEN 0 ELSE LineOf(F, LastOf(EntriesBefore(F, k, i))).hash
LinkedOf(F, k, i) ==
  IF F[k][i].op = "epoch" THEN F[k][i].prev = 0 /\ F[k][i].about = BeforeOf(F, k, i)
  ELSE F[k][i].prev = BeforeOf(F, k, i)

\* F[k] holds an i-th line.
Here(F, k, i) == k \in 1..Len(F) /\ i \in 1..Len(F[k])

LEMMA PlaceIs ==
  ASSUME NEW F, F \in Journals
  PROVE  /\ \A k, i : Here(F, k, i) <=> <<k, i>> \in PlacesOf(F)
         /\ \A p \in PlacesOf(F) : Here(F, p[1], p[2]) /\ p = <<p[1], p[2]>>
         /\ \A k, i : Here(F, k, i) => k \in Nat /\ i \in Nat /\ k >= 1 /\ i >= 1 /\ F[k] \in Seq(Entry) /\ F[k][i] \in Entry
<1>1. DOMAIN F = 1..Len(F) /\ \A k \in 1..Len(F) : F[k] \in Seq(Entry) /\ DOMAIN F[k] = 1..Len(F[k])
  BY DEF Journals
<1>2. \A k, i : Here(F, k, i) <=> <<k, i>> \in PlacesOf(F)
  BY <1>1 DEF Here, PlacesOf
<1>3. \A p \in PlacesOf(F) : Here(F, p[1], p[2]) /\ p = <<p[1], p[2]>>
  BY <1>1 DEF Here, PlacesOf
<1>4. ASSUME NEW k, NEW i, Here(F, k, i)
      PROVE  k \in Nat /\ i \in Nat /\ k >= 1 /\ i >= 1 /\ F[k] \in Seq(Entry) /\ F[k][i] \in Entry
  <2>1. F[k] \in Seq(Entry) /\ i \in 1..Len(F[k]) /\ k \in 1..Len(F) /\ Len(F) \in Nat /\ Len(F[k]) \in Nat
    BY <1>1, <1>4 DEF Here, Journals
  <2> QED BY <2>1
<1> QED BY <1>2, <1>3, <1>4

\* The last of a set of places is the one all others precede.
LEMMA LastOfIs ==
  ASSUME NEW F, F \in Journals, NEW S, S \subseteq PlacesOf(F), NEW p \in S,
         \A q \in S : q = p \/ Precedes(q, p)
  PROVE  LastOf(S) = p
<1>1. PICK t : t = LastOf(S)
  OBVIOUS
<1>2. t \in S /\ \A q \in S : q = t \/ Precedes(q, t)
  BY <1>1 DEF LastOf
<1>3. /\ p[1] \in Nat /\ p[2] \in Nat /\ t[1] \in Nat /\ t[2] \in Nat
  BY <1>2, PlaceIs
<1>4. ~(Precedes(p, t) /\ Precedes(t, p))
  BY <1>3 DEF Precedes
<1> QED BY <1>1, <1>2, <1>4

\* A nonempty set of naturals has a least one.
LEMMA NatMin ==
  ASSUME NEW T \in SUBSET Nat, T # {}
  PROVE  \E x \in T : \A y \in T : x <= y
<1> DEFINE R == {p \in Nat \X Nat : p[1] < p[2]}
<1>1. IsWellFoundedOn(R, Nat)
  BY NatLessThanWellFounded DEF OpToRel
<1>2. \A x, y \in Nat : y < x => <<y, x>> \in R
  OBVIOUS
<1> HIDE DEF R
<1>3. PICK x \in T : \A y \in T : <<y, x>> \notin R
  BY <1>1, WFMin
<1>4. \A y \in T : y \in Nat /\ x \in Nat /\ ~(y < x)
  BY <1>2, <1>3
<1> QED BY <1>3, <1>4

LEMMA NatMax ==
  ASSUME NEW T \in SUBSET Nat, T # {}, NEW b \in Nat, \A x \in T : x <= b
  PROVE  \E x \in T : \A y \in T : y <= x
<1> DEFINE D == {b - x : x \in T}
<1>1. D \in SUBSET Nat /\ D # {}
  <2>1. \A x \in T : b - x \in Nat
    OBVIOUS
  <2>2. PICK x \in T : TRUE
    OBVIOUS
  <2>3. b - x \in D
    OBVIOUS
  <2> QED BY <2>1, <2>3
<1>2. PICK d \in D : \A e \in D : d <= e
  <2> HIDE DEF D
  <2> QED BY <1>1, NatMin
<1>3. PICK x \in T : d = b - x
  OBVIOUS
<1>4. ASSUME NEW y \in T
      PROVE  y <= x
  <2>1. d <= b - y
    BY <1>2
  <2> QED BY <1>3, <2>1
<1> QED BY <1>4

\* A set of places that is not empty has a last one.
LEMMA HasLast ==
  ASSUME NEW F, F \in Journals, NEW S, S \subseteq PlacesOf(F), S # {}
  PROVE  \E p \in S : \A q \in S : q = p \/ Precedes(q, p)
<1> DEFINE K == {p[1] : p \in S}
<1>1. \A p \in S : /\ p[1] \in Nat /\ p[2] \in Nat /\ p = <<p[1], p[2]>> /\ p[1] <= Len(F) /\ p[2] <= Len(F[p[1]])
                   /\ F[p[1]] \in Seq(Entry)
  BY PlaceIs DEF Here
<1>2. Len(F) \in Nat
  BY DEF Journals
<1>3. K \in SUBSET Nat /\ K # {} /\ \A k \in K : k <= Len(F)
  BY <1>1
<1>4. PICK k \in K : \A j \in K : j <= k
  <2> HIDE DEF K
  <2> QED BY <1>2, <1>3, NatMax
<1> DEFINE I == {p[2] : p \in {q \in S : q[1] = k}}
<1>5. Len(F[k]) \in Nat
  BY <1>1
<1>6. I \in SUBSET Nat /\ I # {} /\ \A i \in I : i <= Len(F[k])
  BY <1>1
<1>7. PICK i \in I : \A j \in I : j <= i
  <2> HIDE DEF I
  <2> QED BY <1>5, <1>6, NatMax
<1>8. PICK p \in S : p[1] = k /\ p[2] = i
  OBVIOUS
<1>9. ASSUME NEW q \in S
      PROVE  q = p \/ Precedes(q, p)
  <2>1. q[1] <= k
    BY <1>4
  <2>2. q[1] = k => q[2] <= i
    BY <1>7
  <2> QED BY <1>1, <1>8, <2>1, <2>2 DEF Precedes
<1> QED BY <1>9

\* The walk holds the hash of the line just before, when that is an entry.
LEMMA BeforeIs ==
  ASSUME NEW F, F \in Journals, NEW k, NEW i, NEW m, NEW n, Here(F, m, n), Whole(F[m][n]),
         Precedes(<<m, n>>, <<k, i>>),
         \A p \in PlacesOf(F) : Precedes(p, <<k, i>>) => p = <<m, n>> \/ Precedes(p, <<m, n>>)
  PROVE  BeforeOf(F, k, i) = F[m][n].hash
<1>1. PICK S : S = EntriesBefore(F, k, i)
  OBVIOUS
<1>2. PICK p : p = <<m, n>>
  OBVIOUS
<1>3. p \in PlacesOf(F) /\ p[1] = m /\ p[2] = n
  BY <1>2, PlaceIs
<1>4. p \in S /\ S \subseteq PlacesOf(F)
  BY <1>1, <1>2, <1>3 DEF EntriesBefore, LineOf
<1>5. \A q \in S : q = p \/ Precedes(q, p)
  BY <1>1, <1>2 DEF EntriesBefore
<1>6. LastOf(S) = p
  BY <1>4, <1>5, LastOfIs
<1> QED BY <1>1, <1>3, <1>4, <1>6 DEF BeforeOf, LineOf

\* It holds the empty hash while no line came before.
LEMMA BeforeNone ==
  ASSUME NEW F, NEW k, NEW i, \A p \in PlacesOf(F) : ~Precedes(p, <<k, i>>)
  PROVE  BeforeOf(F, k, i) = 0
BY DEF BeforeOf, EntriesBefore

\* The line just before a line, where no closed segment is empty.
Prior(F, k, i) ==
  IF i > 1 THEN F[k][i - 1].hash ELSE IF k > 1 THEN F[k - 1][Len(F[k - 1])].hash ELSE 0

\* An entry is not the last line only when it is whole.
WholeBefore(F) == \A p \in PlacesOf(F) : (\E q \in PlacesOf(F) : Precedes(p, q)) => Whole(LineOf(F, p))

LEMMA PriorIsBefore ==
  ASSUME NEW F, F \in Journals, WholeBefore(F), \A k \in 1..Len(F) : k < Len(F) => F[k] # <<>>,
         NEW k, NEW i, Here(F, k, i)
  PROVE  BeforeOf(F, k, i) = Prior(F, k, i)
<1>1. k \in Nat /\ i \in Nat /\ k >= 1 /\ i >= 1 /\ <<k, i>> \in PlacesOf(F) /\ k <= Len(F) /\ i <= Len(F[k])
      /\ Len(F) \in Nat /\ Len(F[k]) \in Nat
  BY PlaceIs DEF Here, Journals
<1>2. CASE i > 1
  <2>1. PICK j : j = i - 1
    OBVIOUS
  <2>2. Here(F, k, j) /\ <<k, j>> \in PlacesOf(F) /\ j \in Nat
    BY <1>1, <1>2, <2>1, PlaceIs DEF Here
  <2>3. Precedes(<<k, j>>, <<k, i>>)
    BY <1>1, <2>1, <2>2 DEF Precedes
  <2>4. Whole(F[k][j])
    BY <1>1, <2>2, <2>3 DEF WholeBefore, LineOf
  <2>5. ASSUME NEW p \in PlacesOf(F), Precedes(p, <<k, i>>)
        PROVE  p = <<k, j>> \/ Precedes(p, <<k, j>>)
    <3>1. p = <<p[1], p[2]>> /\ p[1] \in Nat /\ p[2] \in Nat
      BY PlaceIs
    <3> QED BY <1>1, <2>1, <2>5, <3>1 DEF Precedes
  <2>6. BeforeOf(F, k, i) = F[k][j].hash
    BY <2>2, <2>3, <2>4, <2>5, BeforeIs
  <2> QED BY <1>2, <2>1, <2>6 DEF Prior
<1>3. CASE i = 1 /\ k > 1
  <2>1. PICK m : m = k - 1
    OBVIOUS
  <2>2. m \in 1..Len(F) /\ m < Len(F) /\ m \in Nat
    BY <1>1, <1>3, <2>1
  <2>3. F[m] # <<>> /\ F[m] \in Seq(Entry)
    BY <2>2 DEF Journals
  <2>4. PICK j : j = Len(F[m])
    OBVIOUS
  <2>5. j \in Nat /\ j >= 1
    BY <2>3, <2>4, EmptySeq
  <2>6. Here(F, m, j) /\ <<m, j>> \in PlacesOf(F)
    BY <2>2, <2>4, <2>5, PlaceIs DEF Here
  <2>7. Precedes(<<m, j>>, <<k, i>>)
    BY <1>1, <2>1, <2>2 DEF Precedes
  <2>8. Whole(F[m][j])
    BY <1>1, <2>6, <2>7 DEF WholeBefore, LineOf
  <2>9. ASSUME NEW p \in PlacesOf(F), Precedes(p, <<k, i>>)
        PROVE  p = <<m, j>> \/ Precedes(p, <<m, j>>)
    <3>1. p = <<p[1], p[2]>> /\ p[1] \in Nat /\ p[2] \in Nat /\ Here(F, p[1], p[2]) /\ p[2] >= 1
      BY PlaceIs
    <3>2. p[1] < k
      BY <1>1, <1>3, <2>9, <3>1 DEF Precedes
    <3>3. p[1] = m => p[2] <= j
      BY <2>4, <2>5, <3>1 DEF Here
    <3> QED BY <1>1, <2>1, <2>2, <2>5, <3>1, <3>2, <3>3 DEF Precedes
  <2>10. BeforeOf(F, k, i) = F[m][j].hash
    BY <2>6, <2>7, <2>8, <2>9, BeforeIs
  <2> QED BY <1>1, <1>3, <2>1, <2>4, <2>10 DEF Prior
<1>4. CASE i = 1 /\ k = 1
  <2>1. ASSUME NEW p \in PlacesOf(F)
        PROVE  ~Precedes(p, <<k, i>>)
    <3>1. p[1] \in Nat /\ p[2] \in Nat /\ p[1] >= 1 /\ p[2] >= 1
      BY PlaceIs
    <3> QED BY <1>4, <3>1 DEF Precedes
  <2> QED BY <1>4, <2>1, BeforeNone DEF Prior
<1> QED BY <1>1, <1>2, <1>3, <1>4

-----------------------------------------------------------------------------
\* G is F with lines added after all of F's; the last of F may have become whole.
Same(x, y) == x.hash = y.hash /\ x.prev = y.prev /\ x.op = y.op /\ x.about = y.about /\ x.edited = y.edited
Grows(F, G) ==
  /\ \A p \in PlacesOf(F) : p \in PlacesOf(G) /\ Same(LineOf(G, p), LineOf(F, p))
  /\ \A p \in PlacesOf(F) : (\E q \in PlacesOf(F) : Precedes(p, q)) => (Whole(LineOf(G, p)) <=> Whole(LineOf(F, p)))
  /\ \A q \in PlacesOf(G) : q \in PlacesOf(F) \/ \A p \in PlacesOf(F) : Precedes(p, q)

\* Two places do not precede each other.
LEMMA PrecedesOneWay ==
  ASSUME NEW F, F \in Journals, NEW G, G \in Journals, NEW p \in PlacesOf(F), NEW q \in PlacesOf(G)
  PROVE  ~(Precedes(p, q) /\ Precedes(q, p)) /\ (p = q => ~Precedes(p, q))
<1>1. p[1] \in Nat /\ p[2] \in Nat /\ q[1] \in Nat /\ q[2] \in Nat
  BY PlaceIs
<1> QED BY <1>1 DEF Precedes

\* What the walk holds is the empty hash or that of a line before.
LEMMA BeforeSome ==
  ASSUME NEW F, F \in Journals, NEW k, NEW i
  PROVE  \/ EntriesBefore(F, k, i) = {} /\ BeforeOf(F, k, i) = 0
         \/ \E p \in EntriesBefore(F, k, i) :
              LastOf(EntriesBefore(F, k, i)) = p /\ BeforeOf(F, k, i) = LineOf(F, p).hash
<1>1. PICK S : S = EntriesBefore(F, k, i)
  OBVIOUS
<1>2. S \subseteq PlacesOf(F)
  BY <1>1 DEF EntriesBefore
<1>3. CASE S = {}
  BY <1>1, <1>3 DEF BeforeOf
<1>4. CASE S # {}
  <2>1. PICK p \in S : \A q \in S : q = p \/ Precedes(q, p)
    BY <1>2, <1>4, HasLast
  <2>2. LastOf(S) = p
    BY <1>2, <2>1, LastOfIs
  <2> QED BY <1>1, <1>4, <2>1, <2>2 DEF BeforeOf
<1> QED BY <1>3, <1>4

\* The walk comes to a line with the same hash however the journal grew.
LEMMA GrowsKeeps ==
  ASSUME NEW F, F \in Journals, NEW G, G \in Journals, Grows(F, G), NEW k, NEW i, Here(F, k, i)
  PROVE  BeforeOf(G, k, i) = BeforeOf(F, k, i) /\ (LinkedOf(G, k, i) <=> LinkedOf(F, k, i))
<1>1. PICK q : q = <<k, i>>
  OBVIOUS
<1>2. q \in PlacesOf(F) /\ q[1] = k /\ q[2] = i
  BY <1>1, PlaceIs
<1>3. PICK S : S = EntriesBefore(F, k, i)
  OBVIOUS
<1>4. EntriesBefore(G, k, i) = S
  <2>1. ASSUME NEW p, p \in PlacesOf(G), Precedes(p, q)
        PROVE  p \in PlacesOf(F)
    BY <1>2, <2>1, PrecedesOneWay DEF Grows
  <2>2. ASSUME NEW p, p \in PlacesOf(F), Precedes(p, q)
        PROVE  p \in PlacesOf(G) /\ (Whole(LineOf(G, p)) <=> Whole(LineOf(F, p)))
    BY <1>2, <2>2 DEF Grows
  <2>3. \A p : p \in EntriesBefore(G, k, i) <=> p \in S
    BY <1>1, <1>3, <2>1, <2>2 DEF EntriesBefore
  <2> QED BY <2>3
<1>5. BeforeOf(G, k, i) = BeforeOf(F, k, i)
  <2>1. CASE S = {}
    BY <1>3, <1>4, <2>1 DEF BeforeOf
  <2>2. CASE S # {}
    <3>1. PICK p \in S : LastOf(S) = p /\ BeforeOf(F, k, i) = LineOf(F, p).hash
      BY <1>3, <2>2, BeforeSome
    <3>2. BeforeOf(G, k, i) = LineOf(G, p).hash
      BY <1>4, <2>2, <3>1 DEF BeforeOf
    <3>3. LineOf(G, p).hash = LineOf(F, p).hash
      BY <1>3 DEF Grows, Same, EntriesBefore
    <3> QED BY <3>1, <3>2, <3>3
  <2> QED BY <2>1, <2>2
<1>6. G[k][i].op = F[k][i].op /\ G[k][i].prev = F[k][i].prev /\ G[k][i].about = F[k][i].about
  <2>1. Same(LineOf(G, q), LineOf(F, q))
    BY <1>2 DEF Grows
  <2> QED BY <1>2, <2>1 DEF Same, LineOf
<1> QED BY <1>5, <1>6 DEF LinkedOf
-----------------------------------------------------------------------------
(* How the files grow.                                                     *)

\* The closed segments and the open file together.
Both(s, o) == Append(s, o)
JoinFacts(s, o, F) ==
  /\ F \in Journals /\ Len(F) = Len(s) + 1 /\ Len(s) \in Nat /\ Len(o) \in Nat
  /\ \A k \in 1..Len(s) : F[k] = s[k]
  /\ F[Len(s) + 1] = o
  /\ \A k, i : Here(F, k, i) <=> \/ k \in 1..Len(s) /\ i \in 1..Len(s[k])
                                 \/ k = Len(s) + 1 /\ i \in 1..Len(o)
LEMMA Joined ==
  ASSUME NEW s \in Journals, NEW o \in Seq(Entry)
  PROVE  JoinFacts(s, o, Both(s, o))
<1>0. PICK F : F = Append(s, o)
  OBVIOUS
<1>1. F \in Journals /\ Len(F) = Len(s) + 1 /\ Len(s) \in Nat /\ Len(o) \in Nat
  BY <1>0 DEF Journals
<1>2. \A k \in 1..Len(s) : F[k] = s[k]
  BY <1>0 DEF Journals
<1>3. F[Len(s) + 1] = o
  BY <1>0 DEF Journals
<1>4. JoinFacts(s, o, F)
  BY <1>1, <1>2, <1>3 DEF Here, JoinFacts
<1> QED BY <1>0, <1>4 DEF Both

\* One line more at the end of the open file.
PutFacts(s, o, l, F, G, e) ==
  /\ G \in Journals /\ Len(G) = Len(F)
  /\ \A k \in 1..Len(s) : G[k] = F[k]
  /\ G[Len(s) + 1] = Append(o, l)
  /\ e \in PlacesOf(G) /\ e \notin PlacesOf(F) /\ LineOf(G, e) = l
  /\ \A p \in PlacesOf(G) : p \in PlacesOf(F) \/ p = e
  /\ \A p \in PlacesOf(F) : p \in PlacesOf(G) /\ LineOf(G, p) = LineOf(F, p) /\ Precedes(p, e)
  /\ Grows(F, G)
LEMMA PutGrows ==
  ASSUME NEW s \in Journals, NEW o \in Seq(Entry), NEW l \in Entry
  PROVE  PutFacts(s, o, l, Both(s, o), Both(s, Append(o, l)), <<Len(s) + 1, Len(o) + 1>>)
<1>a. PICK F, G, e : F = Both(s, o) /\ G = Both(s, Append(o, l)) /\ e = <<Len(s) + 1, Len(o) + 1>>
  OBVIOUS
<1>0. Append(o, l) \in Seq(Entry) /\ Len(Append(o, l)) = Len(o) + 1 /\ Append(o, l)[Len(o) + 1] = l
      /\ \A i \in 1..Len(o) : Append(o, l)[i] = o[i]
  OBVIOUS
<1>1. PICK o2 : o2 = Append(o, l)
  OBVIOUS
<1>2. /\ F \in Journals /\ Len(F) = Len(s) + 1 /\ Len(s) \in Nat /\ Len(o) \in Nat
      /\ \A k \in 1..Len(s) : F[k] = s[k]
      /\ F[Len(s) + 1] = o
      /\ \A k, i : Here(F, k, i) <=> \/ k \in 1..Len(s) /\ i \in 1..Len(s[k])
                                     \/ k = Len(s) + 1 /\ i \in 1..Len(o)
  BY <1>a, Joined DEF JoinFacts
<1>3. /\ G \in Journals /\ Len(G) = Len(s) + 1
      /\ \A k \in 1..Len(s) : G[k] = s[k]
      /\ G[Len(s) + 1] = o2
      /\ \A k, i : Here(G, k, i) <=> \/ k \in 1..Len(s) /\ i \in 1..Len(s[k])
                                     \/ k = Len(s) + 1 /\ i \in 1..Len(o2)
  <2>1. o2 \in Seq(Entry) /\ G = Both(s, o2)
    BY <1>a, <1>0, <1>1
  <2> QED BY <2>1, Joined DEF JoinFacts
<1>4. \A k, i : Here(G, k, i) <=> Here(F, k, i) \/ (k = Len(s) + 1 /\ i = Len(o) + 1)
  BY <1>0, <1>1, <1>2, <1>3
<1>5. \A k, i : Here(F, k, i) => G[k][i] = F[k][i]
  BY <1>0, <1>1, <1>2, <1>3
<1>6. e \in PlacesOf(G) /\ e \notin PlacesOf(F) /\ e[1] = Len(s) + 1 /\ e[2] = Len(o) + 1
  <2>1. Here(G, Len(s) + 1, Len(o) + 1) /\ ~Here(F, Len(s) + 1, Len(o) + 1)
    BY <1>2, <1>4
  <2> QED BY <1>a, <1>2, <1>3, <2>1, PlaceIs
<1>7. LineOf(G, e) = l
  BY <1>0, <1>1, <1>3, <1>6 DEF LineOf
<1>8. ASSUME NEW p \in PlacesOf(G)
      PROVE  p \in PlacesOf(F) \/ p = e
  <2>1. Here(G, p[1], p[2]) /\ p = <<p[1], p[2]>>
    BY <1>3, PlaceIs
  <2>2. CASE Here(F, p[1], p[2])
    BY <1>2, <2>1, <2>2, PlaceIs
  <2> QED BY <1>a, <1>4, <2>1, <2>2
<1>9. ASSUME NEW p \in PlacesOf(F)
      PROVE  p \in PlacesOf(G) /\ LineOf(G, p) = LineOf(F, p) /\ Precedes(p, e)
  <2>1. Here(F, p[1], p[2]) /\ p = <<p[1], p[2]>> /\ p[1] \in Nat /\ p[2] \in Nat
    BY <1>2, PlaceIs
  <2>2. Here(G, p[1], p[2])
    BY <1>4, <2>1
  <2>3. p \in PlacesOf(G)
    BY <1>3, <2>1, <2>2, PlaceIs
  <2>4. Precedes(p, e)
    BY <1>2, <1>6, <2>1 DEF Precedes
  <2> QED BY <1>5, <2>1, <2>3, <2>4 DEF LineOf
<1>10. Grows(F, G)
  BY <1>8, <1>9 DEF Grows, Same
<1>11. PutFacts(s, o, l, F, G, e)
  BY <1>2, <1>3, <1>1, <1>6, <1>7, <1>8, <1>9, <1>10 DEF PutFacts
<1> QED BY <1>a, <1>11

\* The open file closed as it is.
RenameFacts(F, G) ==
  /\ G \in Journals /\ Len(G) = Len(F) + 1
  /\ \A k \in 1..Len(F) : G[k] = F[k]
  /\ G[Len(F) + 1] = <<>>
  /\ PlacesOf(G) = PlacesOf(F)
  /\ \A p \in PlacesOf(F) : LineOf(G, p) = LineOf(F, p)
  /\ Grows(F, G)
LEMMA RenameGrows ==
  ASSUME NEW F \in Journals
  PROVE  RenameFacts(F, Both(F, <<>>))
<1>1. PICK G : G = Both(F, <<>>)
  OBVIOUS
<1>2. /\ G \in Journals /\ Len(G) = Len(F) + 1 /\ Len(F) \in Nat
      /\ \A k \in 1..Len(F) : G[k] = F[k]
      /\ G[Len(F) + 1] = <<>>
      /\ \A k, i : Here(G, k, i) <=> Here(F, k, i)
  <2>1. PICK n : n = <<>>
    OBVIOUS
  <2>2. n \in Seq(Entry) /\ G = Both(F, n) /\ Len(n) = 0
    BY <1>1, <2>1
  <2>3. /\ G \in Journals /\ Len(G) = Len(F) + 1 /\ Len(F) \in Nat
        /\ \A k \in 1..Len(F) : G[k] = F[k]
        /\ G[Len(F) + 1] = n
        /\ \A k, i : Here(G, k, i) <=> \/ k \in 1..Len(F) /\ i \in 1..Len(F[k])
                                       \/ k = Len(F) + 1 /\ i \in 1..Len(n)
    BY <2>2, Joined DEF JoinFacts
  <2> QED BY <2>1, <2>2, <2>3 DEF Here
<1>3. \A p : p \in PlacesOf(G) <=> p \in PlacesOf(F)
  BY <1>1, <1>2, PlaceIs
<1>4. PlacesOf(G) = PlacesOf(F)
  BY <1>3
<1>5. \A p \in PlacesOf(F) : LineOf(G, p) = LineOf(F, p)
  BY <1>1, <1>2, PlaceIs DEF LineOf, Here
<1>6. RenameFacts(F, G)
  BY <1>2, <1>4, <1>5 DEF Grows, Same, RenameFacts
<1> QED BY <1>1, <1>6

\* The line under way written to its end.
WrittenFacts(o, o2, F, G, e) ==
  /\ o2 \in Seq(Entry) /\ Len(o2) = Len(o) /\ G \in Journals /\ Len(G) = Len(F)
  /\ \A k \in 1..Len(F) : Len(G[k]) = Len(F[k]) /\ (G[k] = <<>> <=> F[k] = <<>>)
  /\ PlacesOf(G) = PlacesOf(F) /\ e \in PlacesOf(F)
  /\ \A p \in PlacesOf(F) : /\ Same(LineOf(G, p), LineOf(F, p)) /\ LineOf(G, p).day = LineOf(F, p).day
                            /\ p # e => LineOf(G, p) = LineOf(F, p) /\ Precedes(p, e)
  /\ Whole(LineOf(G, e))
  /\ Grows(F, G)
Finished(o) == [o EXCEPT ![Len(o)].torn = FALSE]
LEMMA WrittenGrows ==
  ASSUME NEW s \in Journals, NEW o \in Seq(Entry), o # <<>>
  PROVE  WrittenFacts(o, Finished(o), Both(s, o), Both(s, Finished(o)), <<Len(s) + 1, Len(o)>>)
<1>a. PICK o2, F, G, e :
        o2 = Finished(o) /\ F = Both(s, o) /\ G = Both(s, o2) /\ e = <<Len(s) + 1, Len(o)>>
  OBVIOUS
<1>0. Len(o) \in Nat /\ Len(o) >= 1 /\ DOMAIN o = 1..Len(o) /\ o[Len(o)] \in Entry
  BY EmptySeq
<1>1. PICK x : x = [o[Len(o)] EXCEPT !.torn = FALSE]
  OBVIOUS
<1>2. x \in Entry /\ Same(x, o[Len(o)]) /\ x.day = o[Len(o)].day /\ Whole(x)
  BY <1>0, <1>1 DEF Entry, Same, Whole
<1>3. o2 = [o EXCEPT ![Len(o)] = x]
  BY <1>a, <1>0, <1>1 DEF Finished
<1>4. o2 \in Seq(Entry) /\ Len(o2) = Len(o) /\ o2[Len(o)] = x /\ \A i \in 1..Len(o) : i # Len(o) => o2[i] = o[i]
  <2>0. Len(o) \in 1..Len(o)
    BY <1>0
  <2>1. PICK n \in 1..Len(o) : n = Len(o)
    BY <2>0
  <2>2. o2 = [o EXCEPT ![n] = x]
    BY <1>3, <2>1
  <2>3. o2 \in Seq(Entry) /\ Len(o2) = Len(o) /\ \A j \in 1..Len(o) : o2[j] = IF j = n THEN x ELSE o[j]
    BY <1>2, <2>2, ExceptSeq
  <2> QED BY <2>1, <2>3
<1>5. /\ F \in Journals /\ Len(F) = Len(s) + 1 /\ Len(s) \in Nat
      /\ \A k \in 1..Len(s) : F[k] = s[k]
      /\ F[Len(s) + 1] = o
      /\ \A k, i : Here(F, k, i) <=> \/ k \in 1..Len(s) /\ i \in 1..Len(s[k])
                                     \/ k = Len(s) + 1 /\ i \in 1..Len(o)
  BY <1>a, Joined DEF JoinFacts
<1>6. /\ G \in Journals /\ Len(G) = Len(s) + 1
      /\ \A k \in 1..Len(s) : G[k] = s[k]
      /\ G[Len(s) + 1] = o2
      /\ \A k, i : Here(G, k, i) <=> \/ k \in 1..Len(s) /\ i \in 1..Len(s[k])
                                     \/ k = Len(s) + 1 /\ i \in 1..Len(o2)
  BY <1>a, <1>4, Joined DEF JoinFacts
<1>7. \A k, i : Here(G, k, i) <=> Here(F, k, i)
  BY <1>4, <1>5, <1>6
<1>8. \A p : p \in PlacesOf(G) <=> p \in PlacesOf(F)
  BY <1>5, <1>6, <1>7, PlaceIs
<1>9. PlacesOf(G) = PlacesOf(F)
  BY <1>8
<1>10. e \in PlacesOf(F) /\ e[1] = Len(s) + 1 /\ e[2] = Len(o)
  <2>1. Here(F, Len(s) + 1, Len(o))
    BY <1>0, <1>5
  <2> QED BY <1>a, <1>5, <2>1, PlaceIs
<1>11. LineOf(G, e) = x /\ LineOf(F, e) = o[Len(o)]
  BY <1>4, <1>5, <1>6, <1>10 DEF LineOf
<1>12. ASSUME NEW p \in PlacesOf(F), p # e
       PROVE  LineOf(G, p) = LineOf(F, p) /\ Precedes(p, e)
  <2>1. Here(F, p[1], p[2]) /\ p = <<p[1], p[2]>> /\ p[1] \in Nat /\ p[2] \in Nat
    BY <1>5, PlaceIs
  <2>2. p[1] \in 1..Len(s) \/ (p[1] = Len(s) + 1 /\ p[2] \in 1..Len(o) /\ p[2] # Len(o))
    BY <1>a, <1>5, <1>12, <2>1
  <2>3. LineOf(G, p) = LineOf(F, p)
    BY <1>4, <1>5, <1>6, <2>2 DEF LineOf
  <2>4. Precedes(p, e)
    BY <1>0, <1>5, <1>10, <2>1, <2>2 DEF Precedes
  <2> QED BY <2>3, <2>4
<1>13. \A p \in PlacesOf(F) : Same(LineOf(G, p), LineOf(F, p)) /\ LineOf(G, p).day = LineOf(F, p).day
  BY <1>2, <1>11, <1>12 DEF Same
<1>14. \A k \in 1..Len(F) : Len(G[k]) = Len(F[k]) /\ (G[k] = <<>> <=> F[k] = <<>>)
  <2>1. o2 # <<>>
    BY <1>0, <1>4, EmptySeq
  <2>2. \A k \in 1..Len(F) : k \in 1..Len(s) \/ k = Len(s) + 1
    BY <1>5
  <2> QED BY <1>4, <1>5, <1>6, <2>1, <2>2
<1>15. ASSUME NEW p \in PlacesOf(F), NEW q \in PlacesOf(F), Precedes(p, q)
       PROVE  p # e
  <2>1. q = e \/ Precedes(q, e)
    BY <1>12
  <2> QED BY <1>5, <1>15, <2>1, PrecedesOneWay
<1>16. Grows(F, G)
  BY <1>9, <1>12, <1>13, <1>15 DEF Grows
<1>17. WrittenFacts(o, o2, F, G, e)
  BY <1>2, <1>4, <1>5, <1>6, <1>9, <1>10, <1>11, <1>12, <1>13, <1>14, <1>16 DEF WrittenFacts
<1> QED BY <1>a, <1>17
-----------------------------------------------------------------------------
(* The lines of the journal.                                               *)

Num(h) == IF h < 0 THEN -h ELSE h
Ordered(F, n) ==
  /\ \A p \in PlacesOf(F) : Num(LineOf(F, p).hash) \in 1..n
  /\ \A p, q \in PlacesOf(F) : Precedes(p, q) => Num(LineOf(F, p).hash) < Num(LineOf(F, q).hash)
TornLast(F) == \A p \in PlacesOf(F) : ~Whole(LineOf(F, p)) => p[1] = Len(F) /\ p[2] = Len(F[Len(F)])

\* A line joins the one before it, whose hash is prior, and a segment of so many bytes.
Joins(line, k, i, prior, bytes) ==
  /\ IF i = 1 /\ k > 1 THEN line.op = "closed" /\ line.about = [seg |-> k - 1, bytes |-> bytes, last |-> prior]
     ELSE line.op # "closed"
  /\ IF line.op = "epoch" THEN line.prev = 0 /\ line.about = prior ELSE line.prev = prior
BytesBefore(F, k) == IF k > 1 THEN Len(F[k - 1]) ELSE 0
Fits(F, k, i) == Joins(F[k][i], k, i, Prior(F, k, i), BytesBefore(F, k))
Good(F) ==
  /\ \A k \in 1..Len(F) : k < Len(F) => F[k] # <<>>
  /\ \A p \in PlacesOf(F) : LineOf(F, p).hash > 0 /\ ~LineOf(F, p).edited /\ Fits(F, p[1], p[2])
Broken(F) == \E p \in PlacesOf(F) : LineOf(F, p).edited \/ ~LinkedOf(F, p[1], p[2])

JLines ==
  /\ segs \in Journals /\ open \in Seq(Entry) /\ written \in Nat /\ tampered \in BOOLEAN
  /\ Ordered(Files, written) /\ TornLast(Files)
  /\ ~tampered => Good(Files)
  /\ tampered => Broken(Files)

\* A journal that grew stays damaged.
LEMMA BrokenStays ==
  ASSUME NEW F, F \in Journals, NEW G, G \in Journals, Grows(F, G), Broken(F)
  PROVE  Broken(G)
<1>1. PICK p \in PlacesOf(F) : LineOf(F, p).edited \/ ~LinkedOf(F, p[1], p[2])
  BY DEF Broken
<1>2. p \in PlacesOf(G) /\ LineOf(G, p).edited = LineOf(F, p).edited
  BY DEF Grows, Same
<1>3. PICK k, i : k = p[1] /\ i = p[2]
  OBVIOUS
<1>4. Here(F, k, i)
  BY <1>3, PlaceIs
<1>5. LinkedOf(G, k, i) <=> LinkedOf(F, k, i)
  BY <1>4, GrowsKeeps
<1> QED BY <1>1, <1>2, <1>3, <1>5 DEF Broken

\* A line that fits does so while the lines before it stay.
LEMMA FitsStays ==
  ASSUME NEW F, F \in Journals, NEW G, G \in Journals, NEW k, NEW i, Here(F, k, i), Fits(F, k, i),
         Same(G[k][i], F[k][i]),
         \A j \in 1..Len(F[k]) : G[k][j].hash = F[k][j].hash,
         k > 1 => Len(G[k - 1]) = Len(F[k - 1]) /\ G[k - 1][Len(F[k - 1])].hash = F[k - 1][Len(F[k - 1])].hash
  PROVE  Fits(G, k, i)
<1>1. k \in Nat /\ i \in Nat /\ k >= 1 /\ i >= 1 /\ i <= Len(F[k]) /\ Len(F[k]) \in Nat
  BY PlaceIs DEF Here, Journals
<1>2. i > 1 => i - 1 \in 1..Len(F[k])
  BY <1>1
<1>3. PICK a : a = Prior(F, k, i)
  OBVIOUS
<1>4. Prior(G, k, i) = a
  BY <1>1, <1>2, <1>3 DEF Prior
<1>5. PICK b : b = BytesBefore(F, k)
  OBVIOUS
<1>6. BytesBefore(G, k) = b
  BY <1>5 DEF BytesBefore
<1>7. Joins(F[k][i], k, i, a, b)
  BY <1>3, <1>5 DEF Fits
<1>8. Joins(G[k][i], k, i, a, b)
  BY <1>7 DEF Joins, Same
<1> QED BY <1>4, <1>6, <1>8 DEF Fits

\* Nothing is half written when the open file does not end so.
LEMMA NoneTorn ==
  ASSUME NEW s \in Journals, NEW o \in Seq(Entry), NEW F, F = Both(s, o), TornLast(F), ~EndsTorn(o),
         NEW p \in PlacesOf(F)
  PROVE  Whole(LineOf(F, p))
<1>1. SUFFICES ASSUME ~Whole(LineOf(F, p)) PROVE FALSE
  OBVIOUS
<1>2. F \in Journals /\ Len(F) = Len(s) + 1 /\ F[Len(s) + 1] = o
  BY Joined DEF JoinFacts
<1>3. p[1] = Len(F) /\ p[2] = Len(o) /\ Here(F, p[1], p[2])
  BY <1>1, <1>2, PlaceIs DEF TornLast
<1>4. LineOf(F, p) = o[Len(o)] /\ Len(o) \in 1..Len(o)
  BY <1>2, <1>3 DEF LineOf, Here
<1> QED BY <1>1, <1>4 DEF EndsTorn, Last

\* What the next line joins.
NextPrior(s, o) ==
  IF o # <<>> THEN o[Len(o)].hash ELSE IF s # <<>> THEN s[Len(s)][Len(s[Len(s)])].hash ELSE 0
NextBytes(s) == IF s # <<>> THEN Len(s[Len(s)]) ELSE 0

LEMMA PutLines ==
  ASSUME JLines, NEW l, l \in Entry, segs' = segs, open' = Append(open, l), written' = written + 1, tampered' = tampered,
         l.hash = written + 1, ~l.edited, ~EndsTorn(open),
         ~tampered => Joins(l, Len(segs) + 1, Len(open) + 1, NextPrior(segs, open), NextBytes(segs))
  PROVE  JLines'
<1>1. PICK s, o, F, G, e, n :
        /\ s = segs /\ o = open /\ F = Both(s, o) /\ G = Both(s, Append(o, l)) /\ e = <<Len(s) + 1, Len(o) + 1>>
        /\ n = written
  OBVIOUS
<1>2. s \in Journals /\ o \in Seq(Entry) /\ F = Files /\ G = Files' /\ n \in Nat
  BY <1>1 DEF JLines, Files, Both
<1>3. /\ G \in Journals /\ Len(G) = Len(F)
      /\ \A k \in 1..Len(s) : G[k] = F[k]
      /\ G[Len(s) + 1] = Append(o, l)
      /\ e \in PlacesOf(G) /\ e \notin PlacesOf(F) /\ LineOf(G, e) = l
      /\ \A p \in PlacesOf(G) : p \in PlacesOf(F) \/ p = e
      /\ \A p \in PlacesOf(F) : p \in PlacesOf(G) /\ LineOf(G, p) = LineOf(F, p) /\ Precedes(p, e)
      /\ Grows(F, G)
  <2>1. l \in Entry
    OBVIOUS
  <2>2. PutFacts(s, o, l, F, G, e)
    BY <1>1, <1>2, <2>1, PutGrows
  <2> QED BY <2>2 DEF PutFacts
<1>4. /\ F \in Journals /\ Len(F) = Len(s) + 1 /\ Len(s) \in Nat /\ Len(o) \in Nat
      /\ \A k \in 1..Len(s) : F[k] = s[k]
      /\ F[Len(s) + 1] = o
  <2>1. JoinFacts(s, o, F)
    BY <1>1, <1>2, Joined
  <2> QED BY <2>1 DEF JoinFacts
<1>5. e[1] = Len(s) + 1 /\ e[2] = Len(o) + 1
  BY <1>1
<1>6. Ordered(F, n) /\ TornLast(F) /\ (~tampered => Good(F)) /\ (tampered => Broken(F))
  BY <1>1, <1>2 DEF JLines
<1>7. Ordered(G, n + 1)
  <2>1. Num(l.hash) = n + 1
    BY <1>1, <1>2 DEF Num
  <2>2. \A p \in PlacesOf(F) : Num(LineOf(F, p).hash) \in 1..n
    BY <1>6 DEF Ordered
  <2>3. \A p \in PlacesOf(G) : Num(LineOf(G, p).hash) \in 1..n + 1
    BY <1>2, <1>3, <2>1, <2>2
  <2>4. ASSUME NEW p \in PlacesOf(G), NEW q \in PlacesOf(G), Precedes(p, q)
        PROVE  Num(LineOf(G, p).hash) < Num(LineOf(G, q).hash)
    <3>1. p \in PlacesOf(F)
      <4>1. ASSUME p = e PROVE FALSE
        <5>1. ~(Precedes(p, q) /\ Precedes(q, p)) /\ (p = q => ~Precedes(p, q))
          BY <1>3, PrecedesOneWay
        <5> QED BY <1>3, <2>4, <4>1, <5>1
      <4> QED BY <1>3, <4>1
    <3>2. CASE q \in PlacesOf(F)
      BY <1>3, <1>6, <2>4, <3>1, <3>2 DEF Ordered
    <3>3. CASE q = e
      BY <1>2, <1>3, <2>1, <2>2, <3>1, <3>3
    <3> QED BY <1>3, <3>2, <3>3
  <2> QED BY <2>3, <2>4 DEF Ordered
<1>8. TornLast(G)
  <2>1. \A p \in PlacesOf(F) : Whole(LineOf(F, p))
    BY <1>1, <1>2, <1>6, NoneTorn
  <2>2. ASSUME NEW p \in PlacesOf(G), ~Whole(LineOf(G, p))
        PROVE  p[1] = Len(G) /\ p[2] = Len(G[Len(G)])
    <3>1. p = e
      BY <1>3, <2>1, <2>2
    <3>2. G[Len(G)] = Append(o, l) /\ Len(Append(o, l)) = Len(o) + 1
      BY <1>2, <1>3, <1>4
    <3> QED BY <1>3, <1>4, <1>5, <3>1, <3>2
  <2> QED BY <2>2 DEF TornLast
<1>9. ASSUME ~tampered PROVE Good(G)
  <2>1. Good(F)
    BY <1>6, <1>9
  <2>2. \A k \in 1..Len(G) : k < Len(G) => G[k] # <<>>
    BY <1>3, <1>4, <2>1 DEF Good
  <2>3. ASSUME NEW p \in PlacesOf(F)
        PROVE  LineOf(G, p).hash > 0 /\ ~LineOf(G, p).edited /\ Fits(G, p[1], p[2])
    <3>1. LineOf(G, p).hash > 0 /\ ~LineOf(G, p).edited /\ Fits(F, p[1], p[2])
      BY <1>3, <2>1 DEF Good
    <3>2. PICK k, i : k = p[1] /\ i = p[2]
      OBVIOUS
    <3>3. Here(F, k, i) /\ k \in Nat /\ k >= 1 /\ k <= Len(s) + 1
      BY <1>4, <3>2, PlaceIs DEF Here
    <3>4. Same(G[k][i], F[k][i])
      BY <1>3, <3>2 DEF LineOf, Same
    <3>5. \A j \in 1..Len(F[k]) : G[k][j].hash = F[k][j].hash
      <4>1. CASE k \in 1..Len(s)
        BY <1>3, <4>1
      <4>2. CASE k = Len(s) + 1
        <5>1. PICK o2 : o2 = Append(o, l)
          OBVIOUS
        <5>2. \A j \in 1..Len(o) : o2[j] = o[j]
          BY <1>2, <5>1
        <5>3. G[k] = o2 /\ F[k] = o
          BY <1>3, <1>4, <4>2, <5>1
        <5> QED BY <5>2, <5>3
      <4> QED BY <1>4, <3>3, <4>1, <4>2
    <3>6. k > 1 => Len(G[k - 1]) = Len(F[k - 1]) /\ G[k - 1][Len(F[k - 1])].hash = F[k - 1][Len(F[k - 1])].hash
      <4>1. k > 1 => k - 1 \in 1..Len(s)
        BY <1>4, <3>3
      <4> QED BY <1>3, <4>1
    <3>7. Fits(F, k, i)
      BY <3>1, <3>2
    <3>8. Fits(G, k, i)
      BY <1>3, <1>4, <3>3, <3>4, <3>5, <3>6, <3>7, FitsStays
    <3> QED BY <3>1, <3>2, <3>8
  <2>4. LineOf(G, e).hash > 0 /\ ~LineOf(G, e).edited
    BY <1>1, <1>2, <1>3
  <2>5. Fits(G, e[1], e[2])
    <3>1. PICK k, i : k = Len(s) + 1 /\ i = Len(o) + 1
      OBVIOUS
    <3>2. G[k][i] = l
      BY <1>3, <1>5, <3>1 DEF LineOf
    <3>3. Prior(G, k, i) = NextPrior(s, o)
      <4>1. CASE o # <<>>
        <5>1. Len(o) >= 1 /\ i - 1 = Len(o) /\ i > 1
          BY <1>2, <1>4, <3>1, <4>1, EmptySeq
        <5>2. G[k][Len(o)] = o[Len(o)]
          BY <1>2, <1>3, <1>4, <3>1, <5>1
        <5> QED BY <4>1, <5>1, <5>2 DEF Prior, NextPrior
      <4>2. CASE o = <<>> /\ s # <<>>
        <5>1. Len(o) = 0 /\ i = 1
          BY <1>2, <3>1, <4>2
        <5>2. Len(s) >= 1 /\ k > 1 /\ k - 1 = Len(s) /\ Len(s) \in 1..Len(s)
          BY <1>2, <1>4, <3>1, <4>2, EmptySeq DEF Journals
        <5>3. G[Len(s)] = s[Len(s)]
          BY <1>3, <1>4, <5>2
        <5> QED BY <4>2, <5>1, <5>2, <5>3 DEF Prior, NextPrior
      <4>3. CASE o = <<>> /\ s = <<>>
        <5>1. i = 1 /\ k = 1
          BY <3>1, <4>3
        <5> QED BY <4>3, <5>1 DEF Prior, NextPrior
      <4> QED BY <4>1, <4>2, <4>3
    <3>4. BytesBefore(G, k) = NextBytes(s)
      <4>1. CASE s # <<>>
        <5>1. Len(s) >= 1 /\ k > 1 /\ k - 1 = Len(s) /\ Len(s) \in 1..Len(s)
          BY <1>2, <1>4, <3>1, <4>1, EmptySeq DEF Journals
        <5>2. G[Len(s)] = s[Len(s)]
          BY <1>3, <1>4, <5>1
        <5> QED BY <4>1, <5>1, <5>2 DEF BytesBefore, NextBytes
      <4>2. CASE s = <<>>
        BY <3>1, <4>2 DEF BytesBefore, NextBytes
      <4> QED BY <4>1, <4>2
    <3>5. PICK a, b : a = NextPrior(s, o) /\ b = NextBytes(s)
      OBVIOUS
    <3>6. Joins(l, k, i, a, b)
      BY <1>1, <1>9, <3>1, <3>5
    <3> QED BY <1>5, <3>1, <3>2, <3>3, <3>4, <3>5, <3>6 DEF Fits
  <2> QED BY <1>3, <2>2, <2>3, <2>4, <2>5 DEF Good
<1>10. tampered => Broken(G)
  BY <1>3, <1>4, <1>6, BrokenStays
<1>11. open' \in Seq(Entry)
  BY DEF JLines
<1> QED BY <1>1, <1>2, <1>7, <1>8, <1>9, <1>10, <1>11 DEF JLines
LEMMA RenameLines ==
  ASSUME JLines, segs' = Append(segs, open), open' = <<>>, written' = written, tampered' = tampered,
         open # <<>>, ~EndsTorn(open)
  PROVE  JLines'
<1>1. PICK s, o, F, G, n :
        s = segs /\ o = open /\ F = Both(s, o) /\ G = Both(F, <<>>) /\ n = written
  OBVIOUS
<1>2. s \in Journals /\ o \in Seq(Entry) /\ F = Files /\ G = Files' /\ n \in Nat
  BY <1>1 DEF JLines, Files, Both
<1>4. /\ F \in Journals /\ Len(F) = Len(s) + 1 /\ Len(s) \in Nat /\ F[Len(s) + 1] = o
  BY <1>1, <1>2, Joined DEF JoinFacts
<1>3. /\ G \in Journals /\ Len(G) = Len(F) + 1
      /\ \A k \in 1..Len(F) : G[k] = F[k]
      /\ G[Len(F) + 1] = <<>>
      /\ PlacesOf(G) = PlacesOf(F)
      /\ \A p \in PlacesOf(F) : LineOf(G, p) = LineOf(F, p)
      /\ Grows(F, G)
  BY <1>1, <1>2, <1>4, RenameGrows DEF RenameFacts
<1>5. Ordered(F, n) /\ TornLast(F) /\ (~tampered => Good(F)) /\ (tampered => Broken(F))
  BY <1>1, <1>2 DEF JLines
<1>6. Ordered(G, n)
  BY <1>3, <1>5 DEF Ordered
<1>7. TornLast(G)
  <2>1. \A p \in PlacesOf(F) : Whole(LineOf(F, p))
    BY <1>1, <1>2, <1>5, NoneTorn
  <2> QED BY <1>3, <2>1 DEF TornLast
<1>8. ASSUME ~tampered PROVE Good(G)
  <2>1. Good(F)
    BY <1>5, <1>8
  <2>2. ASSUME NEW k \in 1..Len(G), k < Len(G)
        PROVE  G[k] # <<>>
    <3>1. G[k] = F[k] /\ k \in 1..Len(F)
      BY <1>3, <1>4, <2>2
    <3>2. CASE k < Len(F)
      BY <2>1, <3>1, <3>2 DEF Good
    <3>3. CASE k = Len(F)
      BY <1>1, <1>4, <3>1, <3>3
    <3> QED BY <1>4, <3>1, <3>2, <3>3
  <2>3. ASSUME NEW p \in PlacesOf(F)
        PROVE  Fits(G, p[1], p[2])
    <3>1. PICK k, i : k = p[1] /\ i = p[2]
      OBVIOUS
    <3>2. Here(F, k, i) /\ k \in Nat /\ k >= 1 /\ k \in 1..Len(F)
      BY <1>4, <3>1, PlaceIs DEF Here
    <3>3. Fits(F, k, i)
      BY <2>1, <3>1 DEF Good
    <3>4. Same(G[k][i], F[k][i]) /\ \A j \in 1..Len(F[k]) : G[k][j].hash = F[k][j].hash
      BY <1>3, <3>2 DEF Same
    <3>5. k > 1 => Len(G[k - 1]) = Len(F[k - 1]) /\ G[k - 1][Len(F[k - 1])].hash = F[k - 1][Len(F[k - 1])].hash
      <4>1. k > 1 => k - 1 \in 1..Len(F)
        BY <1>4, <3>2
      <4> QED BY <1>3, <4>1
    <3>6. Fits(G, k, i)
      BY <1>3, <1>4, <3>2, <3>3, <3>4, <3>5, FitsStays
    <3> QED BY <3>1, <3>6
  <2> QED BY <1>3, <2>1, <2>2, <2>3 DEF Good
<1>9. tampered => Broken(G)
  BY <1>3, <1>4, <1>5, BrokenStays
<1>10. segs' \in Journals /\ open' \in Seq(Entry)
  <2>1. segs' = F
    BY <1>1 DEF Both
  <2>2. <<>> \in Seq(Entry)
    BY EmptySeq
  <2> QED BY <1>4, <2>1, <2>2
<1> QED BY <1>1, <1>2, <1>6, <1>7, <1>8, <1>9, <1>10 DEF JLines

LEMMA WrittenLines ==
  ASSUME JLines, segs' = segs, open' = [open EXCEPT ![Len(open)].torn = FALSE], written' = written,
         tampered' = tampered, open # <<>>
  PROVE  JLines'
<1>1. PICK s, o, o2, F, G, e, n :
        /\ s = segs /\ o = open /\ o2 = Finished(o) /\ F = Both(s, o) /\ G = Both(s, o2)
        /\ e = <<Len(s) + 1, Len(o)>> /\ n = written
  OBVIOUS
<1>2. s \in Journals /\ o \in Seq(Entry) /\ o # <<>> /\ F = Files /\ G = Files' /\ n \in Nat /\ open' = o2
  BY <1>1 DEF JLines, Files, Both, Finished
<1>3. /\ o2 \in Seq(Entry) /\ Len(o2) = Len(o) /\ G \in Journals /\ Len(G) = Len(F)
      /\ \A k \in 1..Len(F) : Len(G[k]) = Len(F[k]) /\ (G[k] = <<>> <=> F[k] = <<>>)
      /\ PlacesOf(G) = PlacesOf(F) /\ e \in PlacesOf(F)
      /\ \A p \in PlacesOf(F) : /\ Same(LineOf(G, p), LineOf(F, p)) /\ LineOf(G, p).day = LineOf(F, p).day
                                /\ p # e => LineOf(G, p) = LineOf(F, p) /\ Precedes(p, e)
      /\ Whole(LineOf(G, e))
      /\ Grows(F, G)
  <2>1. WrittenFacts(o, o2, F, G, e)
    BY <1>1, <1>2, WrittenGrows
  <2> QED BY <2>1 DEF WrittenFacts
<1>4. /\ F \in Journals /\ Len(F) = Len(s) + 1 /\ Len(s) \in Nat /\ F[Len(s) + 1] = o
  BY <1>1, <1>2, Joined DEF JoinFacts
<1>5. Ordered(F, n) /\ TornLast(F) /\ (~tampered => Good(F)) /\ (tampered => Broken(F))
  BY <1>1, <1>2 DEF JLines
<1>6. Ordered(G, n)
  BY <1>3, <1>5 DEF Ordered, Same
<1>7. TornLast(G)
  BY <1>3, <1>5 DEF TornLast
<1>8. ASSUME ~tampered PROVE Good(G)
  <2>1. Good(F)
    BY <1>5, <1>8
  <2>2. \A k \in 1..Len(G) : k < Len(G) => G[k] # <<>>
    BY <1>3, <2>1 DEF Good
  <2>3. ASSUME NEW p \in PlacesOf(F)
        PROVE  Fits(G, p[1], p[2])
    <3>1. PICK k, i : k = p[1] /\ i = p[2]
      OBVIOUS
    <3>2. Here(F, k, i) /\ k \in Nat /\ k >= 1 /\ k \in 1..Len(F)
      BY <1>4, <3>1, PlaceIs DEF Here
    <3>3. Fits(F, k, i)
      BY <2>1, <3>1 DEF Good
    <3>4. \A m, j : Here(F, m, j) => Same(G[m][j], F[m][j])
      <4>1. ASSUME NEW m, NEW j, Here(F, m, j) PROVE Same(G[m][j], F[m][j])
        <5>1. PICK q : q = <<m, j>>
          OBVIOUS
        <5>2. q \in PlacesOf(F) /\ q[1] = m /\ q[2] = j
          BY <1>4, <4>1, <5>1, PlaceIs
        <5> QED BY <1>3, <5>2 DEF LineOf
      <4> QED BY <4>1
    <3>5. Same(G[k][i], F[k][i])
      BY <3>2, <3>4
    <3>6. \A j \in 1..Len(F[k]) : G[k][j].hash = F[k][j].hash
      BY <3>2, <3>4 DEF Same, Here
    <3>7. k > 1 => Len(G[k - 1]) = Len(F[k - 1]) /\ G[k - 1][Len(F[k - 1])].hash = F[k - 1][Len(F[k - 1])].hash
      <4>1. SUFFICES ASSUME k > 1
                     PROVE  Len(G[k - 1]) = Len(F[k - 1]) /\ G[k - 1][Len(F[k - 1])].hash = F[k - 1][Len(F[k - 1])].hash
        OBVIOUS
      <4>2. PICK m : m = k - 1
        OBVIOUS
      <4>3. m \in 1..Len(F) /\ m < Len(F)
        BY <1>4, <3>2, <4>1, <4>2
      <4>4. F[m] # <<>> /\ F[m] \in Seq(Entry)
        BY <1>4, <2>1, <4>3 DEF Good, Journals
      <4>5. Here(F, m, Len(F[m]))
        BY <4>3, <4>4, EmptySeq DEF Here
      <4> QED BY <1>3, <3>4, <4>2, <4>3, <4>5 DEF Same
    <3>8. Fits(G, k, i)
      BY <1>3, <1>4, <3>2, <3>3, <3>5, <3>6, <3>7, FitsStays
    <3> QED BY <3>1, <3>8
  <2>4. \A p \in PlacesOf(F) : LineOf(G, p).hash > 0 /\ ~LineOf(G, p).edited
    BY <1>3, <2>1 DEF Good, Same
  <2> QED BY <1>3, <2>2, <2>3, <2>4 DEF Good
<1>9. tampered => Broken(G)
  BY <1>3, <1>4, <1>5, BrokenStays
<1> QED BY <1>1, <1>2, <1>3, <1>6, <1>7, <1>8, <1>9 DEF JLines
-----------------------------------------------------------------------------
(* A line changed or removed.                                              *)

LEMMA TouchedFiles ==
  ASSUME segs \in Journals, open \in Seq(Entry), NEW k, k \in 1..Len(Files), NEW x, x \in Seq(Entry), Touch(k, x)
  PROVE  /\ segs' \in Journals /\ open' \in Seq(Entry) /\ Files' \in Journals /\ Len(Files') = Len(Files)
         /\ (Files')[k] = x
         /\ \A j \in 1..Len(Files) : j # k => (Files')[j] = Files[j]
<1>1. PICK s, o, F : s = segs /\ o = open /\ F = Both(s, o)
  OBVIOUS
<1>2. s \in Journals /\ o \in Seq(Entry) /\ F = Files
  BY <1>1 DEF Files, Both
<1>3. /\ F \in Journals /\ Len(F) = Len(s) + 1 /\ Len(s) \in Nat
      /\ \A j \in 1..Len(s) : F[j] = s[j]
      /\ F[Len(s) + 1] = o
  <2>1. JoinFacts(s, o, F)
    BY <1>1, <1>2, Joined
  <2> QED BY <2>1 DEF JoinFacts
<1>4. PICK s2, o2, G : s2 = segs' /\ o2 = open' /\ G = Both(s2, o2)
  OBVIOUS
<1>5. G = Files'
  BY <1>4 DEF Files, Both
<1>6. CASE k <= Len(s)
  <2>1. s2 = [s EXCEPT ![k] = x] /\ o2 = o
    BY <1>1, <1>4, <1>6 DEF Touch
  <2>2. k \in 1..Len(s)
    BY <1>2, <1>3, <1>6
  <2>3. s2 \in Journals /\ Len(s2) = Len(s) /\ s2[k] = x /\ \A j \in 1..Len(s) : j # k => s2[j] = s[j]
    BY <1>2, <2>1, <2>2 DEF Journals
  <2>4. /\ G \in Journals /\ Len(G) = Len(s2) + 1
        /\ \A j \in 1..Len(s2) : G[j] = s2[j]
        /\ G[Len(s2) + 1] = o2
    <3>1. JoinFacts(s2, o2, G)
      BY <1>2, <1>4, <2>1, <2>3, Joined
    <3> QED BY <3>1 DEF JoinFacts
  <2>5. \A j \in 1..Len(F) : j # k => G[j] = F[j]
    BY <1>3, <2>1, <2>3, <2>4
  <2> QED BY <1>2, <1>3, <1>4, <1>5, <2>1, <2>2, <2>3, <2>4, <2>5
<1>7. CASE ~(k <= Len(s))
  <2>1. s2 = s /\ o2 = x /\ k = Len(s) + 1
    BY <1>1, <1>2, <1>3, <1>4, <1>7 DEF Touch
  <2>2. /\ G \in Journals /\ Len(G) = Len(s) + 1
        /\ \A j \in 1..Len(s) : G[j] = s[j]
        /\ G[Len(s) + 1] = x
    <3>1. JoinFacts(s, x, G)
      BY <1>2, <1>4, <2>1, Joined
    <3> QED BY <3>1 DEF JoinFacts
  <2> QED BY <1>2, <1>3, <1>4, <1>5, <2>1, <2>2
<1> QED BY <1>6, <1>7

\* The line after one that is followed.
LEMMA NextLine ==
  ASSUME NEW F, F \in Journals, Good(F), NEW k, NEW i, Here(F, k, i),
         i < Len(F[k]) \/ \E m \in (k + 1)..Len(F) : F[m] # <<>>
  PROVE  \/ Here(F, k, i + 1) /\ Prior(F, k, i + 1) = F[k][i].hash
         \/ i = Len(F[k]) /\ Here(F, k + 1, 1) /\ Prior(F, k + 1, 1) = F[k][i].hash
<1>1. k \in Nat /\ i \in Nat /\ k >= 1 /\ i >= 1 /\ k <= Len(F) /\ i <= Len(F[k]) /\ Len(F) \in Nat /\ Len(F[k]) \in Nat
  BY PlaceIs DEF Here, Journals
<1>2. CASE i < Len(F[k])
  <2>1. i + 1 > 1 /\ i + 1 - 1 = i /\ i + 1 \in 1..Len(F[k])
    BY <1>1, <1>2
  <2> QED BY <1>1, <2>1 DEF Here, Prior
<1>3. CASE i = Len(F[k])
  <2>1. PICK m \in (k + 1)..Len(F) : F[m] # <<>>
    BY <1>3
  <2>2. k + 1 \in 1..Len(F) /\ k + 1 - 1 = k /\ k + 1 > 1
    BY <1>1
  <2>3. F[k + 1] # <<>>
    <3>1. CASE k + 1 < Len(F)
      BY <2>2, <3>1 DEF Good
    <3>2. CASE k + 1 = Len(F)
      BY <1>1, <2>1, <3>2
    <3> QED BY <2>2, <3>1, <3>2
  <2>4. Len(F[k + 1]) \in Nat /\ Len(F[k + 1]) >= 1
    BY <2>2, <2>3, EmptySeq DEF Journals
  <2>5. 1 \in 1..Len(F[k + 1])
    BY <2>4
  <2> QED BY <1>3, <2>2, <2>5 DEF Here, Prior
<1> QED BY <1>1, <1>2, <1>3

\* A line that joins a hash no line has any more breaks the chain.
LEMMA LostHash ==
  ASSUME NEW G, G \in Journals, NEW q \in PlacesOf(G), NEW h \in Int, h # 0, \A p \in PlacesOf(G) : LineOf(G, p).hash # h,
         LineOf(G, q).op = "epoch" => LineOf(G, q).about = h, LineOf(G, q).op # "epoch" => LineOf(G, q).prev = h
  PROVE  Broken(G)
<1>1. PICK m, j : m = q[1] /\ j = q[2]
  OBVIOUS
<1>2. LineOf(G, q) = G[m][j]
  BY <1>1 DEF LineOf
<1>3. BeforeOf(G, m, j) # h
  <2>1. PICK b : b = BeforeOf(G, m, j)
    OBVIOUS
  <2>2. b = 0 \/ \E p \in EntriesBefore(G, m, j) : b = LineOf(G, p).hash
    BY <2>1, BeforeSome
  <2>3. b = 0 \/ \E p \in PlacesOf(G) : b = LineOf(G, p).hash
    BY <2>2 DEF EntriesBefore
  <2> QED BY <2>1, <2>3
<1>4. ~LinkedOf(G, m, j)
  BY <1>2, <1>3 DEF LinkedOf
<1> QED BY <1>1, <1>4 DEF Broken

\* What a line that fits joins.
LEMMA FitsJoins ==
  ASSUME NEW F, NEW m, NEW j, Fits(F, m, j)
  PROVE  /\ F[m][j].op = "epoch" => F[m][j].about = Prior(F, m, j)
         /\ F[m][j].op # "epoch" => F[m][j].prev = Prior(F, m, j)
BY DEF Fits, Joins

\* No two lines share a number.
LEMMA OneNumber ==
  ASSUME NEW F, F \in Journals, NEW n \in Nat, Ordered(F, n), NEW p \in PlacesOf(F), NEW q \in PlacesOf(F), p # q
  PROVE  Num(LineOf(F, p).hash) # Num(LineOf(F, q).hash)
<1>1. /\ p = <<p[1], p[2]>> /\ q = <<q[1], q[2]>> /\ p[1] \in Nat /\ p[2] \in Nat /\ q[1] \in Nat /\ q[2] \in Nat
  BY PlaceIs
<1>2. Precedes(p, q) \/ Precedes(q, p)
  BY <1>1 DEF Precedes
<1>3. Num(LineOf(F, p).hash) \in 1..n /\ Num(LineOf(F, q).hash) \in 1..n
  BY DEF Ordered
<1> QED BY <1>2, <1>3 DEF Ordered

\* One line edited, or given another hash of its number.
Followed(F, k, i) == i < Len(F[k]) \/ \E m \in (k + 1)..Len(F) : F[m] # <<>>
EditedLine(f) == [f EXCEPT !.edited = TRUE]
RehashedLine(f) == [f EXCEPT !.hash = -f.hash]
Changed(F, G, k, i, l) ==
  /\ Len(G) = Len(F)
  /\ \A j \in 1..Len(F) : j # k => G[j] = F[j]
  /\ G[k] = [F[k] EXCEPT ![i] = l]
  /\ l = EditedLine(F[k][i]) \/ (l = RehashedLine(F[k][i]) /\ Followed(F, k, i))
LEMMA EditedIs ==
  ASSUME NEW f \in Entry
  PROVE  EditedLine(f) \in Entry /\ EditedLine(f).hash = f.hash /\ EditedLine(f).torn = f.torn /\ EditedLine(f).edited
BY DEF Entry, EditedLine
LEMMA RehashedIs ==
  ASSUME NEW f \in Entry
  PROVE  RehashedLine(f) \in Entry /\ RehashedLine(f).hash = -f.hash /\ RehashedLine(f).torn = f.torn
<1>1. PICK h \in Int : h = -f.hash
  BY DEF Entry
<1>2. [f EXCEPT !.hash = h] \in Entry /\ [f EXCEPT !.hash = h].hash = h /\ [f EXCEPT !.hash = h].torn = f.torn
  BY DEF Entry
<1> QED BY <1>1, <1>2 DEF RehashedLine
LEMMA LineChanged ==
  ASSUME NEW F \in Journals, NEW n \in Nat, Ordered(F, n), TornLast(F), Good(F),
         NEW G \in Journals, NEW k, NEW i, Here(F, k, i), NEW l, Changed(F, G, k, i, l)
  PROVE  Ordered(G, n) /\ TornLast(G) /\ Broken(G)
<1>1. PICK e : e = <<k, i>>
  OBVIOUS
<1>2. e \in PlacesOf(F) /\ e[1] = k /\ e[2] = i /\ LineOf(F, e) = F[k][i] /\ LineOf(F, e) \in Entry
      /\ k \in 1..Len(F) /\ F[k] \in Seq(Entry)
  BY <1>1, PlaceIs DEF LineOf, Here
<1>0. /\ Len(G) = Len(F) /\ \A j \in 1..Len(F) : j # k => G[j] = F[j]
      /\ G[k] = [F[k] EXCEPT ![i] = l]
      /\ l = EditedLine(F[k][i]) \/ (l = RehashedLine(F[k][i]) /\ Followed(F, k, i))
  BY DEF Changed
<1>3. Len(G[k]) = Len(F[k]) /\ G[k][i] = l /\ \A j \in 1..Len(F[k]) : j # i => G[k][j] = F[k][j]
  <2>1. PICK f \in Seq(Entry) : f = F[k]
    BY <1>2
  <2>2. l \in Entry /\ i \in 1..Len(f)
    BY <1>0, <1>2, <2>1, EditedIs, RehashedIs DEF Here
  <2>3. G[k] = [f EXCEPT ![i] = l]
    BY <1>0, <2>1
  <2>4. Len(G[k]) = Len(f) /\ \A j \in 1..Len(f) : G[k][j] = IF j = i THEN l ELSE f[j]
    BY <2>2, <2>3, ExceptSeq
  <2> QED BY <2>1, <2>2, <2>4
<1>4. \A j \in 1..Len(F) : Len(G[j]) = Len(F[j])
  BY <1>0, <1>3
<1>5. \A m, j : Here(G, m, j) <=> Here(F, m, j)
  BY <1>0, <1>4 DEF Here
<1>6. \A p : p \in PlacesOf(G) <=> p \in PlacesOf(F)
  BY <1>5, PlaceIs
<1>7. PlacesOf(G) = PlacesOf(F)
  BY <1>6
<1>8. LineOf(G, e) = l
  BY <1>2, <1>3 DEF LineOf
<1>9. ASSUME NEW p \in PlacesOf(F), p # e
      PROVE  LineOf(G, p) = LineOf(F, p)
  <2>1. Here(F, p[1], p[2]) /\ p = <<p[1], p[2]>>
    BY PlaceIs
  <2>2. p[1] # k \/ p[2] # i
    BY <1>1, <1>9, <2>1
  <2> QED BY <1>0, <1>3, <2>1, <2>2 DEF LineOf, Here
<1>10. LineOf(F, e).hash > 0 /\ LineOf(F, e).hash \in Int
  BY <1>2 DEF Good, Entry
<1>11. Num(l.hash) = Num(LineOf(F, e).hash) /\ l.torn = LineOf(F, e).torn
  <2>1. PICK f \in Entry : f = F[k][i]
    BY <1>2
  <2>2. l.torn = f.torn /\ (l.hash = f.hash \/ l.hash = -f.hash)
    BY <1>0, <2>1, EditedIs, RehashedIs
  <2>3. f.hash > 0 /\ f.hash \in Int
    BY <1>2, <1>10, <2>1
  <2>4. PICK a, b : a = f.hash /\ b = l.hash
    OBVIOUS
  <2>5. Num(b) = Num(a)
    BY <2>2, <2>3, <2>4 DEF Num
  <2> QED BY <1>2, <2>1, <2>2, <2>4, <2>5
<1>12. Ordered(G, n)
  <2>1. \A p \in PlacesOf(F) : Num(LineOf(G, p).hash) = Num(LineOf(F, p).hash)
    BY <1>8, <1>9, <1>11
  <2> QED BY <1>7, <2>1 DEF Ordered
<1>13. TornLast(G)
  <2>1. \A p \in PlacesOf(F) : Whole(LineOf(G, p)) <=> Whole(LineOf(F, p))
    BY <1>8, <1>9, <1>11 DEF Whole
  <2>2. Len(F) \in 1..Len(F)
    BY <1>2 DEF Journals
  <2>3. Len(G[Len(G)]) = Len(F[Len(F)])
    BY <1>0, <1>4, <2>2
  <2> QED BY <1>0, <1>7, <2>1, <2>3 DEF TornLast
<1>14. Broken(G)
  <2>1. CASE l = EditedLine(F[k][i])
    <3>1. l.edited
      BY <1>2, <2>1, EditedIs
    <3> QED BY <1>2, <1>7, <1>8, <3>1 DEF Broken
  <2>2. CASE l = RehashedLine(F[k][i]) /\ Followed(F, k, i)
    <3>1. PICK h \in Int : h = F[k][i].hash
      BY <1>2, <1>10
    <3>2. h # 0 /\ l.hash = -h /\ l.hash # h
      <4>1. PICK f \in Entry : f = F[k][i]
        BY <1>2
      <4>2. l.hash = -f.hash
        BY <2>2, <4>1, RehashedIs
      <4>3. f.hash = h /\ h > 0
        BY <1>2, <1>10, <3>1, <4>1
      <4> QED BY <4>2, <4>3
    <3>3. ASSUME NEW p \in PlacesOf(G) PROVE LineOf(G, p).hash # h
      <4>1. CASE p = e
        BY <1>8, <3>2, <4>1
      <4>2. CASE p # e
        <5>1. Num(LineOf(F, p).hash) # Num(LineOf(F, e).hash)
          BY <1>2, <1>7, <4>2, OneNumber
        <5>2. LineOf(G, p).hash = LineOf(F, p).hash /\ LineOf(F, e).hash = h
          BY <1>2, <1>7, <1>9, <3>1, <4>2
        <5> QED BY <5>1, <5>2
      <4> QED BY <4>1, <4>2
    <3>4. PICK m, j : Here(F, m, j) /\ Prior(F, m, j) = h /\ ~(m = k /\ j = i)
      <4>1. k # k + 1 /\ i # i + 1
        BY <1>2 DEF Here, Journals
      <4>2. i < Len(F[k]) \/ \E m \in (k + 1)..Len(F) : F[m] # <<>>
        BY <2>2 DEF Followed
      <4> QED BY <3>1, <4>1, <4>2, NextLine
    <3>5. PICK q : q = <<m, j>>
      OBVIOUS
    <3>6. q \in PlacesOf(F) /\ q # e /\ LineOf(F, q) = F[m][j] /\ q[1] = m /\ q[2] = j
      BY <1>1, <3>4, <3>5, PlaceIs DEF LineOf
    <3>7. Fits(F, m, j)
      BY <3>6 DEF Good
    <3>8. LineOf(G, q) = F[m][j] /\ q \in PlacesOf(G)
      BY <1>7, <1>9, <3>6
    <3>9. (F[m][j].op = "epoch" => F[m][j].about = h) /\ (F[m][j].op # "epoch" => F[m][j].prev = h)
      BY <3>4, <3>7, FitsJoins
    <3> QED BY <3>2, <3>3, <3>8, <3>9, LostHash
  <2> QED BY <1>0, <2>1, <2>2
<1> QED BY <1>12, <1>13, <1>14

\* One line that others follow is removed.
CutFacts(f, i, x) ==
  /\ x \in Seq(Entry) /\ Len(x) = Len(f) - 1
  /\ \A j \in 1..i - 1 : x[j] = f[j]
  /\ \A j \in i..Len(f) - 1 : x[j] = f[j + 1]
Removed(F, G, k, i) ==
  /\ Len(G) = Len(F)
  /\ \A j \in 1..Len(F) : j # k => G[j] = F[j]
  /\ CutFacts(F[k], i, G[k])
  /\ Followed(F, k, i)
LEMMA LineRemoved ==
  ASSUME NEW F \in Journals, NEW n \in Nat, Ordered(F, n), TornLast(F), Good(F),
         NEW G \in Journals, NEW k, NEW i, Here(F, k, i), Removed(F, G, k, i)
  PROVE  Ordered(G, n) /\ TornLast(G) /\ Broken(G)
<1>0. /\ Len(G) = Len(F) /\ \A j \in 1..Len(F) : j # k => G[j] = F[j]
      /\ Len(G[k]) = Len(F[k]) - 1
      /\ \A j \in 1..i - 1 : G[k][j] = F[k][j]
      /\ \A j \in i..Len(F[k]) - 1 : G[k][j] = F[k][j + 1]
      /\ i < Len(F[k]) \/ \E m \in (k + 1)..Len(F) : F[m] # <<>>
  BY DEF Removed, CutFacts, Followed
<1> DEFINE Was(p) == IF p[1] = k /\ p[2] >= i THEN <<k, p[2] + 1>> ELSE p
<1>1. PICK e : e = <<k, i>>
  OBVIOUS
<1>2. e \in PlacesOf(F) /\ e[1] = k /\ e[2] = i /\ LineOf(F, e) = F[k][i] /\ LineOf(F, e) \in Entry
      /\ k \in 1..Len(F) /\ F[k] \in Seq(Entry) /\ i \in Nat /\ k \in Nat /\ i >= 1 /\ i <= Len(F[k]) /\ Len(F[k]) \in Nat
      /\ Len(F) \in Nat
  BY <1>1, PlaceIs DEF LineOf, Here, Journals
<1>3. ASSUME NEW p \in PlacesOf(G)
      PROVE  /\ Was(p) \in PlacesOf(F) /\ Was(p) # e /\ LineOf(G, p) = LineOf(F, Was(p))
             /\ p = <<p[1], p[2]>> /\ p[1] \in Nat /\ p[2] \in Nat /\ p[1] <= Len(F)
  <2>1. Here(G, p[1], p[2]) /\ p = <<p[1], p[2]>> /\ p[1] \in Nat /\ p[2] \in Nat /\ p[2] >= 1 /\ p[1] >= 1
    BY PlaceIs
  <2>2. CASE p[1] = k /\ p[2] >= i
    <3>1. p[2] \in i..Len(F[k]) - 1 /\ p[2] + 1 \in 1..Len(F[k]) /\ p[2] + 1 # i
      BY <1>0, <1>2, <2>1, <2>2 DEF Here
    <3>2. PICK q : q = <<k, p[2] + 1>>
      OBVIOUS
    <3>3. q \in PlacesOf(F) /\ q[1] = k /\ q[2] = p[2] + 1 /\ q # e
      BY <1>1, <1>2, <3>1, <3>2, PlaceIs DEF Here
    <3>4. LineOf(G, p) = LineOf(F, q)
      BY <1>0, <2>2, <3>1, <3>3 DEF LineOf
    <3> QED BY <1>2, <2>1, <2>2, <3>2, <3>3, <3>4
  <2>3. CASE p[1] = k /\ p[2] < i
    <3>1. p[2] \in 1..i - 1 /\ p[2] \in 1..Len(F[k])
      BY <1>2, <2>1, <2>3
    <3>2. p \in PlacesOf(F) /\ p # e
      BY <1>1, <1>2, <2>1, <2>3, <3>1, PlaceIs DEF Here
    <3> QED BY <1>0, <1>2, <2>1, <2>3, <3>1, <3>2 DEF LineOf
  <2>4. CASE p[1] # k
    <3>1. p[1] \in 1..Len(F) /\ G[p[1]] = F[p[1]]
      BY <1>0, <2>1, <2>4 DEF Here
    <3>2. p \in PlacesOf(F) /\ p # e
      BY <1>2, <2>1, <2>4, <3>1, PlaceIs DEF Here
    <3> QED BY <2>1, <2>4, <3>1, <3>2 DEF LineOf
  <2> QED BY <1>2, <2>1, <2>2, <2>3, <2>4
<1>4. ASSUME NEW p \in PlacesOf(G), NEW q \in PlacesOf(G), Precedes(p, q)
      PROVE  Precedes(Was(p), Was(q))
  <2>1. p[1] \in Nat /\ p[2] \in Nat /\ q[1] \in Nat /\ q[2] \in Nat
    BY <1>3
  <2> QED BY <1>2, <1>4, <2>1 DEF Precedes
<1>5. Ordered(G, n)
  <2> HIDE DEF Was
  <2> QED BY <1>3, <1>4 DEF Ordered
<1>6. TornLast(G)
  <2>1. ASSUME NEW p \in PlacesOf(G), ~Whole(LineOf(G, p))
        PROVE  p[1] = Len(G) /\ p[2] = Len(G[Len(G)])
    <3>1. PICK q \in PlacesOf(F) : q = Was(p)
      BY <1>3
    <3>2. q[1] = Len(F) /\ q[2] = Len(F[Len(F)])
      BY <1>3, <2>1, <3>1 DEF TornLast
    <3>3. CASE p[1] = k /\ p[2] >= i
      <4>1. q[1] = k /\ q[2] = p[2] + 1
        BY <3>1, <3>3
      <4>2. k = Len(F) /\ p[2] + 1 = Len(F[k])
        BY <3>2, <4>1
      <4>3. Len(G) = Len(F) /\ Len(G[k]) = Len(F[k]) - 1
        BY <1>0
      <4>4. p[2] \in Nat /\ Len(F[k]) \in Nat
        BY <1>2, <1>3
      <4> QED BY <3>3, <4>2, <4>3, <4>4
    <3>4. CASE p[1] = k /\ p[2] < i
      <4>1. k = Len(F) /\ p[2] = Len(F[k])
        BY <3>1, <3>2, <3>4, <1>3, <1>2
      <4> QED BY <1>0, <1>2, <1>3, <3>4, <4>1
    <3>5. CASE p[1] # k
      <4>1. q = p /\ p[1] = Len(F)
        BY <3>1, <3>2, <3>5
      <4>2. Len(F) \in 1..Len(F)
        BY <1>2
      <4>3. Len(G) = Len(F) /\ G[Len(F)] = F[Len(F)]
        BY <1>0, <3>5, <4>1, <4>2
      <4> QED BY <3>2, <4>1, <4>3
    <3>6. (p[1] = k /\ p[2] >= i) \/ (p[1] = k /\ p[2] < i) \/ p[1] # k
      <4>1. p[2] \in Nat
        BY <1>3
      <4> QED BY <1>2, <4>1
    <3> QED BY <3>3, <3>4, <3>5, <3>6
  <2> QED BY <2>1 DEF TornLast
<1>7. Broken(G)
  <2>1. PICK h \in Int : h = F[k][i].hash
    BY <1>2 DEF Entry
  <2>2. h # 0
    BY <1>2, <2>1 DEF Good
  <2>3. ASSUME NEW p \in PlacesOf(G) PROVE LineOf(G, p).hash # h
    <3>1. PICK q \in PlacesOf(F) : q = Was(p) /\ q # e /\ LineOf(G, p) = LineOf(F, q)
      BY <1>3
    <3>2. Num(LineOf(F, q).hash) # Num(LineOf(F, e).hash)
      BY <1>2, <3>1, OneNumber
    <3> QED BY <1>2, <2>1, <3>1, <3>2
  \* The line that followed it stands at the place it had, or first in the next file.
  <2>4. PICK q, m, j : q \in PlacesOf(G) /\ Here(F, m, j) /\ Prior(F, m, j) = h /\ LineOf(G, q) = F[m][j]
    <3>1. CASE Here(F, k, i + 1) /\ Prior(F, k, i + 1) = F[k][i].hash
      <4>1. i \in i..Len(F[k]) - 1 /\ i \in 1..Len(G[k]) /\ k \in 1..Len(G)
        BY <1>0, <1>2, <3>1 DEF Here
      <4>2. Here(G, k, i)
        BY <4>1 DEF Here
      <4>3. e \in PlacesOf(G) /\ LineOf(G, e) = F[k][i + 1]
        BY <1>0, <1>1, <1>2, <4>1, <4>2, PlaceIs DEF LineOf
      <4> QED BY <2>1, <3>1, <4>3
    <3>2. CASE Here(F, k + 1, 1) /\ Prior(F, k + 1, 1) = F[k][i].hash
      <4>1. PICK q : q = <<k + 1, 1>>
        OBVIOUS
      <4>2. k + 1 \in 1..Len(F) /\ k + 1 # k /\ 1 \in 1..Len(F[k + 1])
        BY <1>2, <3>2 DEF Here
      <4>3. G[k + 1] = F[k + 1]
        BY <1>0, <4>2
      <4>4. Here(G, k + 1, 1)
        BY <1>0, <4>2, <4>3 DEF Here
      <4>5. q \in PlacesOf(G) /\ LineOf(G, q) = F[k + 1][1]
        BY <4>1, <4>3, <4>4, PlaceIs DEF LineOf
      <4> QED BY <2>1, <3>2, <4>5
    <3> QED BY <1>0, <3>1, <3>2, NextLine
  <2>5. PICK p : p = <<m, j>>
    OBVIOUS
  <2>6. p \in PlacesOf(F) /\ p[1] = m /\ p[2] = j
    BY <2>4, <2>5, PlaceIs
  <2>7. Fits(F, m, j)
    BY <2>6 DEF Good
  <2>8. (F[m][j].op = "epoch" => F[m][j].about = h) /\ (F[m][j].op # "epoch" => F[m][j].prev = h)
    BY <2>4, <2>7, FitsJoins
  <2> QED BY <2>2, <2>3, <2>4, <2>8, LostHash
<1> QED BY <1>5, <1>6, <1>7
\* A sequence without its i-th element.
Cut(f, i) == SubSeq(f, 1, i - 1) \o SubSeq(f, i + 1, Len(f))
LEMMA Without ==
  ASSUME NEW f \in Seq(Entry), NEW i \in 1..Len(f)
  PROVE  CutFacts(f, i, Cut(f, i))
<1>1. i \in Nat /\ i >= 1 /\ i <= Len(f) /\ Len(f) \in Nat
  OBVIOUS
<1>2. PICK a, b : a = SubSeq(f, 1, i - 1) /\ b = SubSeq(f, i + 1, Len(f))
  OBVIOUS
<1>3. a \in Seq(Entry) /\ Len(a) = i - 1 /\ \A j \in 1..i - 1 : a[j] = f[j]
  BY <1>1, <1>2
<1>4. b \in Seq(Entry) /\ Len(b) = Len(f) - i /\ \A j \in 1..Len(f) - i : b[j] = f[i + j]
  BY <1>1, <1>2
<1>5. PICK x : x = a \o b
  OBVIOUS
<1>9. x \in Seq(Entry) /\ Len(x) = Len(a) + Len(b)
      /\ \A j \in 1..Len(a) + Len(b) : x[j] = IF j <= Len(a) THEN a[j] ELSE b[j - Len(a)]
  BY <1>3, <1>4, <1>5, ConcatProperties
<1>6. x \in Seq(Entry) /\ Len(x) = Len(f) - 1
  BY <1>1, <1>3, <1>4, <1>9
<1>7. \A j \in 1..i - 1 : x[j] = f[j]
  BY <1>1, <1>3, <1>4, <1>9
<1>8. ASSUME NEW j \in i..Len(f) - 1
      PROVE  x[j] = f[j + 1]
  <2>1. j > Len(a) /\ j <= Len(a) + Len(b) /\ j - Len(a) \in 1..Len(f) - i /\ i + (j - Len(a)) = j + 1
    BY <1>1, <1>3, <1>4
  <2>2. x[j] = b[j - Len(a)]
    BY <1>3, <1>4, <1>9, <2>1
  <2> QED BY <1>4, <2>1, <2>2
<1> QED BY <1>2, <1>5, <1>6, <1>7, <1>8 DEF CutFacts, Cut

LEMMA TamperLines ==
  ASSUME JLines, Tamper
  PROVE  JLines'
<1>1. ~tampered /\ tampered' = TRUE /\ written' = written
  BY DEF Tamper
<1>2. PICK s, o, F, n : s = segs /\ o = open /\ F = Files /\ n = written
  OBVIOUS
<1>3. s \in Journals /\ o \in Seq(Entry) /\ F = Both(s, o) /\ n \in Nat
  BY <1>2 DEF JLines, Files, Both
<1>4. F \in Journals
  BY <1>3, Joined DEF JoinFacts
<1>5. Ordered(F, n) /\ TornLast(F) /\ Good(F)
  BY <1>1, <1>2 DEF JLines
<1>6. PICK k \in 1..Len(F) : \E i \in 1..Len(F[k]) :
        LET file == F[k]
            followed == i < Len(file) \/ \E m \in (k + 1)..Len(F) : F[m] # <<>>
        IN \/ followed /\ Touch(k, SubSeq(file, 1, i - 1) \o SubSeq(file, i + 1, Len(file)))
           \/ followed /\ Touch(k, [file EXCEPT ![i].hash = -file[i].hash])
           \/ Touch(k, [file EXCEPT ![i].edited = TRUE])
  BY <1>2 DEF Tamper
<1>7. PICK i \in 1..Len(F[k]) :
        LET file == F[k]
            followed == i < Len(file) \/ \E m \in (k + 1)..Len(F) : F[m] # <<>>
        IN \/ followed /\ Touch(k, SubSeq(file, 1, i - 1) \o SubSeq(file, i + 1, Len(file)))
           \/ followed /\ Touch(k, [file EXCEPT ![i].hash = -file[i].hash])
           \/ Touch(k, [file EXCEPT ![i].edited = TRUE])
  BY <1>6
<1>8. Here(F, k, i) /\ F[k] \in Seq(Entry) /\ F[k][i] \in Entry
  BY <1>4, PlaceIs DEF Here
<1>9. PICK G : G = Files'
  OBVIOUS
<1>10. ASSUME NEW x, x \in Seq(Entry), Touch(k, x)
       PROVE  /\ segs' \in Journals /\ open' \in Seq(Entry) /\ G \in Journals /\ Len(G) = Len(F)
              /\ G[k] = x
              /\ \A j \in 1..Len(F) : j # k => G[j] = F[j]
  BY <1>2, <1>3, <1>9, <1>10, TouchedFiles
<1>11. SUFFICES /\ segs' \in Journals /\ open' \in Seq(Entry)
                /\ Ordered(G, n) /\ TornLast(G) /\ Broken(G)
  BY <1>1, <1>2, <1>3, <1>9 DEF JLines
<1>12. CASE /\ i < Len(F[k]) \/ \E m \in (k + 1)..Len(F) : F[m] # <<>>
            /\ Touch(k, SubSeq(F[k], 1, i - 1) \o SubSeq(F[k], i + 1, Len(F[k])))
  <2>1. PICK x : x = Cut(F[k], i)
    OBVIOUS
  <2>2. CutFacts(F[k], i, x)
    BY <1>8, <2>1, Without
  <2>a. x \in Seq(Entry)
    BY <2>2 DEF CutFacts
  <2>3. Touch(k, x)
    BY <1>12, <2>1 DEF Cut
  <2>4. /\ segs' \in Journals /\ open' \in Seq(Entry) /\ G \in Journals /\ Len(G) = Len(F)
        /\ G[k] = x
        /\ \A j \in 1..Len(F) : j # k => G[j] = F[j]
    BY <1>10, <2>a, <2>3
  <2>b. Removed(F, G, k, i)
    BY <1>12, <2>2, <2>4 DEF Removed, Followed
  <2>5. Ordered(G, n) /\ TornLast(G) /\ Broken(G)
    BY <1>3, <1>4, <1>5, <1>8, <2>b, <2>4, LineRemoved
  <2> QED BY <2>4, <2>5
<1>13. CASE /\ i < Len(F[k]) \/ \E m \in (k + 1)..Len(F) : F[m] # <<>>
            /\ Touch(k, [F[k] EXCEPT ![i].hash = -F[k][i].hash])
  <2>1. PICK l : l = RehashedLine(F[k][i])
    OBVIOUS
  <2>2. l \in Entry
    BY <1>8, <2>1, RehashedIs
  <2>3. PICK x : x = [F[k] EXCEPT ![i] = l]
    OBVIOUS
  <2>4. x \in Seq(Entry) /\ Touch(k, x)
    <3>1. x = [F[k] EXCEPT ![i].hash = -F[k][i].hash]
      BY <2>1, <2>3 DEF RehashedLine
    <3>2. x \in Seq(Entry)
      BY <1>8, <2>2, <2>3, ExceptSeq
    <3> QED BY <1>13, <3>1, <3>2
  <2>5. /\ segs' \in Journals /\ open' \in Seq(Entry) /\ G \in Journals /\ Len(G) = Len(F)
        /\ G[k] = x
        /\ \A j \in 1..Len(F) : j # k => G[j] = F[j]
    BY <1>10, <2>4
  <2>6. Ordered(G, n) /\ TornLast(G) /\ Broken(G)
    <3>1. Changed(F, G, k, i, l)
      BY <1>13, <2>1, <2>3, <2>5 DEF Changed, Followed
    <3> QED BY <1>3, <1>4, <1>5, <1>8, <2>5, <3>1, LineChanged
  <2> QED BY <2>5, <2>6
<1>14. CASE Touch(k, [F[k] EXCEPT ![i].edited = TRUE])
  <2>1. PICK l : l = EditedLine(F[k][i])
    OBVIOUS
  <2>2. l \in Entry
    BY <1>8, <2>1, EditedIs
  <2>3. PICK x : x = [F[k] EXCEPT ![i] = l]
    OBVIOUS
  <2>4. x \in Seq(Entry) /\ Touch(k, x)
    <3>1. x = [F[k] EXCEPT ![i].edited = TRUE]
      BY <2>1, <2>3 DEF EditedLine
    <3>2. x \in Seq(Entry)
      BY <1>8, <2>2, <2>3, ExceptSeq
    <3> QED BY <1>14, <3>1, <3>2
  <2>5. /\ segs' \in Journals /\ open' \in Seq(Entry) /\ G \in Journals /\ Len(G) = Len(F)
        /\ G[k] = x
        /\ \A j \in 1..Len(F) : j # k => G[j] = F[j]
    BY <1>10, <2>4
  <2>6. Ordered(G, n) /\ TornLast(G) /\ Broken(G)
    <3>1. Changed(F, G, k, i, l)
      BY <2>1, <2>3, <2>5 DEF Changed
    <3> QED BY <1>3, <1>4, <1>5, <1>8, <2>5, <3>1, LineChanged
  <2> QED BY <2>5, <2>6
<1> QED BY <1>7, <1>12, <1>13, <1>14
-----------------------------------------------------------------------------
(* The writers and their lock.                                             *)

Wheres == [at : {"idle", "waits", "finish", "close", "name", "chain", "writing"},
           op : Ops \cup {None}, line : {None, "close", "chain", "done"}]
Out(r) == r.at \in {"idle", "waits"}
\* What a writer that is there has found.
Found(r, w) ==
  /\ ~Out(r) => lock = w
  /\ r.at = "close" => (open # <<>> \/ segs = <<>>) /\ ~EndsTorn(open)
  /\ r.at = "name" => open = <<>> /\ segs # <<>>
  /\ r.at = "chain" => open # <<>> /\ ~EndsTorn(open)
  /\ r.at = "writing" => /\ open # <<>> /\ open[Len(open)].hash = written /\ written > 0
                         /\ r.line \in {"close", "chain", "done"}
JWriters ==
  /\ day \in 0..MaxDay /\ lock \in Writers \cup {None} /\ acked \subseteq 1..written
  /\ writer \in [Writers -> Wheres]
  /\ \A w \in Writers : Found(writer[w], w)

\* Only the lock's owner is at work.
LEMMA OthersOut ==
  ASSUME JWriters, NEW v \in Writers, lock # v
  PROVE  Out(writer[v])
BY DEF JWriters, Found

\* A writer moves, and no other is at work or the files stay.
LEMMA Moved ==
  ASSUME JWriters, NEW w \in Writers, NEW r \in Wheres, writer' = [writer EXCEPT ![w] = r],
         day' = day, lock' \in Writers \cup {None}, acked' \subseteq 1..written',
         (Found(r, w))',
         \/ \A v \in Writers : v # w => Out(writer[v])
         \/ UNCHANGED <<segs, open, lock, written>>
  PROVE  JWriters'
<1>1. writer' \in [Writers -> Wheres] /\ writer'[w] = r /\ \A v \in Writers : v # w => writer'[v] = writer[v]
  BY DEF JWriters
<1>2. ASSUME NEW v \in Writers
      PROVE  (Found(writer[v], v))'
  <2>1. CASE v = w
    <3>1. (Found(r, v))'
      BY <2>1
    <3> QED BY <1>1, <2>1, <3>1 DEF Found, Out
  <2>2. CASE v # w /\ Out(writer[v])
    BY <1>1, <2>2 DEF Found, Out
  <2>3. CASE v # w /\ UNCHANGED <<segs, open, lock, written>>
    <3>1. Found(writer[v], v)
      BY DEF JWriters
    <3> QED BY <1>1, <2>3, <3>1 DEF Found, Out
  <2> QED BY <2>1, <2>2, <2>3
<1> QED BY <1>1, <1>2 DEF JWriters

LEMMA LinesStill ==
  ASSUME JLines, UNCHANGED <<segs, open, written, tampered>>
  PROVE  JLines'
<1>1. Files' = Files /\ segs' = segs /\ open' = open /\ written' = written /\ tampered' = tampered
  BY DEF Files
<1> QED BY <1>1 DEF JLines

\* One writer at work leaves.
LEMMA LeaveMoves ==
  ASSUME JWriters, NEW w \in Writers, Leave(w), lock = w, day' = day, written' = written, acked' \subseteq 1..written
  PROVE  JWriters'
<1>1. PICK r : r = Idle
  OBVIOUS
<1>2. r \in Wheres /\ Out(r) /\ r.at = "idle"
  BY <1>1 DEF Wheres, Idle, Out
<1>3. writer' = [writer EXCEPT ![w] = r] /\ lock' = None
  BY <1>1 DEF Leave
<1>4. \A v \in Writers : v # w => Out(writer[v])
  BY OthersOut
<1>5. (Found(r, w))'
  BY <1>2 DEF Found
<1> QED BY <1>2, <1>3, <1>4, <1>5, Moved DEF JWriters

JCore == JLines /\ JWriters

LEMMA Ask_step ==
  ASSUME JCore, NEW w \in Writers, NEW op \in Ops, Ask(w, op)
  PROVE  JCore'
<1>1. PICK r : r = [at |-> "waits", op |-> op, line |-> None]
  OBVIOUS
<1>2. r \in Wheres /\ Out(r) /\ r.at = "waits"
  BY <1>1 DEF Wheres, Out
<1>3. writer' = [writer EXCEPT ![w] = r] /\ UNCHANGED <<segs, open, day, lock, reader, written, acked, tampered>>
  BY <1>1 DEF Ask
<1>4. (Found(r, w))'
  BY <1>2 DEF Found
<1>5. JWriters'
  BY <1>2, <1>3, <1>4, Moved DEF JCore, JWriters
<1> QED BY <1>3, <1>5, LinesStill DEF JCore

LEMMA Locked_step ==
  ASSUME JCore, NEW w \in Writers, Locked(w)
  PROVE  JCore'
<1>1. PICK r : r = [writer[w] EXCEPT !.at = "finish"]
  OBVIOUS
<1>2. writer[w] \in Wheres
  BY DEF JCore, JWriters
<1>3. r \in Wheres /\ r.at = "finish"
  BY <1>1, <1>2 DEF Wheres
<1>4. writer' = [writer EXCEPT ![w] = r] /\ lock' = w /\ lock = None
      /\ UNCHANGED <<segs, open, day, reader, written, acked, tampered>>
  BY <1>1 DEF Locked
<1>5. \A v \in Writers : Out(writer[v])
  BY <1>4, OthersOut, JournalAssumption DEF JCore
<1>6. (Found(r, w))'
  BY <1>3, <1>4 DEF Found
<1>7. JWriters'
  BY <1>3, <1>4, <1>5, <1>6, Moved DEF JCore, JWriters
<1> QED BY <1>4, <1>7, LinesStill DEF JCore

\* The steps after which the lock is free and the files are as they were.
LEMMA Left_step ==
  ASSUME JCore, NEW w \in Writers, Refuse(w) \/ CloseFails(w) \/ NothingToClose(w) \/ Die(w)
  PROVE  JCore'
<1>1. Leave(w) /\ UNCHANGED <<segs, open, day, reader, written, acked, tampered>>
  BY DEF Refuse, CloseFails, NothingToClose, Die
<1>2. lock = w
  <2>1. ~Out(writer[w]) => lock = w
    BY DEF JCore, JWriters, Found
  <2> QED BY <2>1 DEF Refuse, CloseFails, NothingToClose, Die, Out
<1>3. JWriters'
  BY <1>1, <1>2, LeaveMoves DEF JCore, JWriters
<1> QED BY <1>1, <1>3, LinesStill DEF JCore

LEMMA LastHashInt ==
  ASSUME NEW o, o \in Seq(Entry)
  PROVE  LastHash(o) \in Int /\ (o # <<>> => LastHash(o) = o[Len(o)].hash)
<1>1. o # <<>> => o[Len(o)] \in Entry
  BY EmptySeq
<1> QED BY <1>1 DEF LastHash, Last, Entry

LEMMA LastSegment ==
  ASSUME NEW s, s \in Journals, s # <<>>
  PROVE  Last(s) \in Seq(Entry) /\ Last(s) = s[Len(s)] /\ Len(s) \in Nat /\ Len(s) >= 1
BY EmptySeq DEF Journals, Last

\* What is appended by the program joins what is there.
LEMMA Put_step ==
  ASSUME JCore, NEW w \in Writers, NEW l \in Entry, NEW then, then \in {"close", "chain", "done"}, Put(w, l, then),
         UNCHANGED <<segs, day, lock, reader, acked, tampered>>, lock = w,
         l.hash = written + 1, ~l.edited, ~EndsTorn(open),
         ~tampered => Joins(l, Len(segs) + 1, Len(open) + 1, NextPrior(segs, open), NextBytes(segs))
  PROVE  JCore'
<1>1. open' = Append(open, l) /\ written' = written + 1
      /\ writer' = [writer EXCEPT ![w].at = "writing", ![w].line = then]
  BY DEF Put
<1>2. JLines'
  BY <1>1, PutLines DEF JCore
<1>3. PICK r : r = [writer[w] EXCEPT !.at = "writing", !.line = then]
  OBVIOUS
<1>4. writer[w] \in Wheres
  BY DEF JCore, JWriters
<1>5. r \in Wheres /\ r.at = "writing" /\ r.line = then /\ ~Out(r)
  BY <1>3, <1>4 DEF Wheres, Out
<1>6. writer' = [writer EXCEPT ![w] = r]
  BY <1>1, <1>3, <1>4 DEF JCore, JWriters
<1>7. open \in Seq(Entry) /\ written \in Nat
  BY DEF JCore, JLines
<1>8. open' # <<>> /\ open'[Len(open')] = l /\ written' > 0 /\ l.hash = written'
  BY <1>1, <1>7
<1>9. (Found(r, w))'
  BY <1>5, <1>8 DEF Found
<1>10. acked' \subseteq 1..written'
  BY <1>1, <1>7 DEF JCore, JWriters
<1>11. \A v \in Writers : v # w => Out(writer[v])
  BY OthersOut DEF JCore
<1>12. JWriters'
  BY <1>5, <1>6, <1>9, <1>10, <1>11, Moved DEF JCore, JWriters
<1> QED BY <1>2, <1>12 DEF JCore

\* The line that closes the last segment.
LEMMA ClosingJoins ==
  ASSUME JLines, open = <<>>, segs # <<>>, NEW l, l = Closing, day \in Nat
  PROVE  /\ l \in Entry /\ l.hash = written + 1 /\ ~l.edited
         /\ ~tampered => Joins(l, Len(segs) + 1, Len(open) + 1, NextPrior(segs, open), NextBytes(segs))
<1>1. PICK s : s = segs
  OBVIOUS
<1>2. PICK h : h = LastHash(Last(s))
  OBVIOUS
<1>3. s \in Journals /\ written \in Nat /\ s # <<>>
  BY <1>1 DEF JLines
<1>4. Last(s) \in Seq(Entry) /\ Last(s) = s[Len(s)] /\ Len(s) \in Nat /\ Len(s) >= 1
  BY <1>3, LastSegment
<1>5. h \in Int /\ (s[Len(s)] # <<>> => h = s[Len(s)][Len(s[Len(s)])].hash)
  BY <1>2, <1>4, LastHashInt
<1>6. l = [hash |-> written + 1, prev |-> h, op |-> "closed",
           about |-> [seg |-> Len(s), bytes |-> Len(s[Len(s)]), last |-> h], day |-> day, torn |-> TRUE, edited |-> FALSE]
  BY <1>1, <1>2, <1>4 DEF Closing, Line
<1>7. Len(s[Len(s)]) \in Nat
  BY <1>4
<1>8. l \in Entry /\ l.hash = written + 1 /\ ~l.edited
  BY <1>3, <1>4, <1>5, <1>6, <1>7 DEF Entry
<1>9. ASSUME ~tampered
      PROVE  Joins(l, Len(segs) + 1, Len(open) + 1, NextPrior(segs, open), NextBytes(segs))
  <2>1. PICK F : F = Both(s, open)
    OBVIOUS
  <2>2. Good(F) /\ F = Files
    BY <1>1, <1>9, <2>1 DEF JLines, Files, Both
  <2>3. Len(F) = Len(s) + 1 /\ \A k \in 1..Len(s) : F[k] = s[k]
    BY <1>1, <2>1, Joined DEF JLines, JoinFacts
  <2>4. s[Len(s)] # <<>>
    BY <1>4, <2>2, <2>3 DEF Good
  <2>5. NextPrior(segs, open) = h /\ NextBytes(segs) = Len(s[Len(s)])
    BY <1>1, <1>3, <1>5, <2>4 DEF NextPrior, NextBytes
  <2>6. Len(open) + 1 = 1 /\ Len(segs) + 1 > 1 /\ Len(segs) + 1 - 1 = Len(s)
    BY <1>1, <1>4
  <2> QED BY <1>6, <2>5, <2>6 DEF Joins
<1> QED BY <1>8, <1>9

LEMMA Closing_step ==
  ASSUME JCore, NEW w \in Writers, NEW then \in {"close", "chain"}, open = <<>>, segs # <<>>, Put(w, Closing, then),
         UNCHANGED <<segs, day, lock, reader, acked, tampered>>, lock = w
  PROVE  JCore'
<1>1. PICK l : l = Closing
  OBVIOUS
<1>2. day \in Nat
  BY JournalAssumption DEF JCore, JWriters
<1>3. /\ l \in Entry /\ l.hash = written + 1 /\ ~l.edited
      /\ ~tampered => Joins(l, Len(segs) + 1, Len(open) + 1, NextPrior(segs, open), NextBytes(segs))
  BY <1>1, <1>2, ClosingJoins DEF JCore
<1>4. ~EndsTorn(open)
  BY DEF EndsTorn
<1>5. Put(w, l, then)
  BY <1>1
<1> QED BY <1>3, <1>4, <1>5, Put_step

LEMMA FinishClose_step ==
  ASSUME JCore, NEW w \in Writers, FinishClose(w)
  PROVE  JCore'
<1>1. writer[w].at = "finish" /\ UNCHANGED <<segs, day, lock, reader, acked, tampered>>
  BY DEF FinishClose
<1>2. lock = w
  BY <1>1 DEF JCore, JWriters, Found, Out
<1>3. CASE open = <<>> /\ segs # <<>> /\ Put(w, Closing, "close")
  BY <1>1, <1>2, <1>3, Closing_step
<1>4. CASE (open # <<>> \/ segs = <<>>) /\ writer' = [writer EXCEPT ![w].at = "close"] /\ UNCHANGED <<open, written>>
  <2>1. ~EndsTorn(open)
    BY <1>4 DEF FinishClose
  <2>2. PICK r : r = [writer[w] EXCEPT !.at = "close"]
    OBVIOUS
  <2>3. writer[w] \in Wheres
    BY DEF JCore, JWriters
  <2>4. r \in Wheres /\ r.at = "close" /\ writer' = [writer EXCEPT ![w] = r]
    BY <1>4, <2>2, <2>3 DEF Wheres
  <2>5. (Found(r, w))'
    BY <1>1, <1>2, <1>4, <2>1, <2>4 DEF Found, EndsTorn
  <2>6. JWriters'
    BY <1>1, <1>4, <2>4, <2>5, Moved DEF JCore, JWriters
  <2> QED BY <1>1, <1>4, <2>6, LinesStill DEF JCore
<1> QED BY <1>3, <1>4 DEF FinishClose

LEMMA Rename_step ==
  ASSUME JCore, NEW w \in Writers, Rename(w)
  PROVE  JCore'
<1>1. /\ writer[w].at = "close" /\ segs' = Append(segs, open) /\ open' = <<>>
      /\ writer' = [writer EXCEPT ![w].at = "name"]
      /\ UNCHANGED <<day, lock, reader, written, acked, tampered>>
  BY DEF Rename
<1>2. open # <<>>
  BY DEF Rename, Closes, Due
<1>3. lock = w /\ ~EndsTorn(open)
  BY <1>1 DEF JCore, JWriters, Found, Out
<1>4. JLines'
  BY <1>1, <1>2, <1>3, RenameLines DEF JCore
<1>5. PICK r : r = [writer[w] EXCEPT !.at = "name"]
  OBVIOUS
<1>6. writer[w] \in Wheres
  BY DEF JCore, JWriters
<1>7. r \in Wheres /\ r.at = "name" /\ writer' = [writer EXCEPT ![w] = r]
  BY <1>1, <1>5, <1>6 DEF Wheres
<1>8. segs' # <<>>
  BY <1>1 DEF JCore, JLines, Journals
<1>9. (Found(r, w))'
  BY <1>1, <1>3, <1>7, <1>8 DEF Found
<1>10. \A v \in Writers : v # w => Out(writer[v])
  BY <1>3, OthersOut DEF JCore
<1>11. JWriters'
  BY <1>1, <1>3, <1>7, <1>9, <1>10, Moved DEF JCore, JWriters
<1> QED BY <1>4, <1>11 DEF JCore

LEMMA Name_step ==
  ASSUME JCore, NEW w \in Writers, Name(w)
  PROVE  JCore'
<1>1. writer[w].at = "name" /\ Put(w, Closing, "chain") /\ UNCHANGED <<segs, day, lock, reader, acked, tampered>>
  BY DEF Name
<1>2. lock = w /\ open = <<>> /\ segs # <<>>
  BY <1>1 DEF JCore, JWriters, Found, Out
<1> QED BY <1>1, <1>2, Closing_step

LEMMA Chain_step ==
  ASSUME JCore, NEW w \in Writers, Chain(w)
  PROVE  JCore'
<1>1. /\ writer[w].at \in {"chain", "close"}
      /\ UNCHANGED <<segs, day, lock, reader, acked, tampered>>
  BY DEF Chain
<1>2. lock = w /\ (open # <<>> \/ segs = <<>>) /\ ~EndsTorn(open)
  BY <1>1 DEF JCore, JWriters, Found, Out
<1>3. PICK h : h = TailHash
  OBVIOUS
<1>4. segs \in Journals /\ open \in Seq(Entry) /\ written \in Nat /\ day \in Nat /\ Len(open) \in Nat
  BY JournalAssumption DEF JCore, JLines, JWriters
<1>5. h \in Int /\ h = NextPrior(segs, open)
  <2>1. LastHash(open) \in Int /\ (open # <<>> => LastHash(open) = open[Len(open)].hash)
    <3>1. PICK o : o = open
      OBVIOUS
    <3> QED BY <1>4, <3>1, LastHashInt
  <2>2. CASE open # <<>>
    BY <1>3, <2>1, <2>2 DEF TailHash, NextPrior
  <2>3. CASE open = <<>>
    BY <1>2, <1>3, <2>3 DEF TailHash, NextPrior
  <2> QED BY <2>2, <2>3
<1>6. \/ Len(open) + 1 # 1
      \/ Len(segs) + 1 = 1
  <2>1. open # <<>> => Len(open) # 0
    BY <1>4, EmptySeq
  <2> QED BY <1>2, <1>4, <2>1
<1>7. PICK l : \/ l = Line("entry", h, None)
               \/ l = Line("epoch", 0, h)
  OBVIOUS
<1>8. ASSUME NEW m, m = Line("entry", h, None) \/ m = Line("epoch", 0, h), Put(w, m, "done")
      PROVE  JCore'
  <2>1. \/ m = [hash |-> written + 1, prev |-> h, op |-> "entry", about |-> None, day |-> day, torn |-> TRUE, edited |-> FALSE]
        \/ m = [hash |-> written + 1, prev |-> 0, op |-> "epoch", about |-> h, day |-> day, torn |-> TRUE, edited |-> FALSE]
    BY <1>8 DEF Line
  <2>2. m \in Entry /\ m.hash = written + 1 /\ ~m.edited
    <3>1. PICK d, n : d = day /\ n = written + 1 /\ d \in Nat /\ n \in Int
      BY <1>4
    <3>2. /\ [hash |-> n, prev |-> h, op |-> "entry", about |-> None, day |-> d, torn |-> TRUE, edited |-> FALSE] \in Entry
          /\ [hash |-> n, prev |-> 0, op |-> "epoch", about |-> h, day |-> d, torn |-> TRUE, edited |-> FALSE] \in Entry
      BY <1>5, <3>1 DEF Entry
    <3>3. m \in Entry
      BY <2>1, <3>1, <3>2
    <3> QED BY <2>1, <3>3
  <2>3. Joins(m, Len(segs) + 1, Len(open) + 1, NextPrior(segs, open), NextBytes(segs))
    BY <1>5, <1>6, <1>4, <2>1 DEF Joins
  <2> QED BY <1>1, <1>2, <1>8, <2>2, <2>3, Put_step
<1>9. Put(w, Line("entry", h, None), "done") \/ Put(w, Line("epoch", 0, h), "done")
  BY <1>3 DEF Chain
<1>10. PICK m : (m = Line("entry", h, None) \/ m = Line("epoch", 0, h)) /\ Put(w, m, "done")
  BY <1>9
<1> QED BY <1>8, <1>10

LEMMA Written_step ==
  ASSUME JCore, NEW w \in Writers, Written(w)
  PROVE  JCore'
<1>1. /\ writer[w].at = "writing" /\ open' = [open EXCEPT ![Len(open)].torn = FALSE]
      /\ UNCHANGED <<segs, day, reader, written, tampered>>
  BY DEF Written
<1>2. /\ lock = w /\ open # <<>> /\ open[Len(open)].hash = written /\ written > 0
      /\ writer[w].line \in {"close", "chain", "done"}
  BY <1>1 DEF JCore, JWriters, Found, Out
<1>3. JLines'
  BY <1>1, <1>2, WrittenLines DEF JCore
<1>4. written \in Nat /\ open \in Seq(Entry) /\ acked \subseteq 1..written
  BY DEF JCore, JLines, JWriters
<1>5. CASE /\ Leave(w)
           /\ acked' = IF writer[w].line = "done" THEN acked \cup {Last(open).hash} ELSE acked
  <2>1. Last(open).hash = written
    BY <1>2 DEF Last
  <2>2. acked' \subseteq 1..written
    BY <1>2, <1>4, <1>5, <2>1
  <2>3. JWriters'
    BY <1>1, <1>2, <1>5, <2>2, LeaveMoves DEF JCore
  <2> QED BY <1>3, <2>3 DEF JCore
<1>6. CASE /\ writer[w].line # "done"
           /\ writer' = [writer EXCEPT ![w].at = writer[w].line, ![w].line = None]
           /\ UNCHANGED <<lock, acked>>
  <2>1. PICK r : r = [writer[w] EXCEPT !.at = writer[w].line, !.line = None]
    OBVIOUS
  <2>2. writer[w] \in Wheres
    BY DEF JCore, JWriters
  <2>3. r \in Wheres /\ r.at \in {"close", "chain"} /\ ~Out(r)
    BY <1>2, <1>6, <2>1, <2>2 DEF Wheres, Out
  <2>4. writer' = [writer EXCEPT ![w] = r]
    BY <1>6, <2>1, <2>2 DEF JCore, JWriters
  <2>5. Len(open') = Len(open) /\ open' # <<>> /\ Whole(open'[Len(open)])
    <3>1. Len(open) \in 1..Len(open) /\ open[Len(open)] \in Entry
      BY <1>2, <1>4, EmptySeq
    <3>2. PICK x : x = [open[Len(open)] EXCEPT !.torn = FALSE]
      OBVIOUS
    <3>3. open' = [open EXCEPT ![Len(open)] = x] /\ ~x.torn
      BY <1>1, <3>1, <3>2 DEF Entry
    <3>4. open'[Len(open)] = x /\ Len(open') = Len(open) /\ open' # <<>>
      BY <1>4, <3>1, <3>3
    <3> QED BY <3>3, <3>4 DEF Whole
  <2>6. (Found(r, w))'
    BY <1>1, <1>2, <1>6, <2>3, <2>5 DEF Found, EndsTorn, Last
  <2>7. \A v \in Writers : v # w => Out(writer[v])
    BY <1>2, OthersOut DEF JCore
  <2>8. JWriters'
    BY <1>1, <1>2, <1>4, <1>6, <2>3, <2>4, <2>6, <2>7, Moved DEF JCore, JWriters
  <2> QED BY <1>3, <2>8 DEF JCore
<1> QED BY <1>5, <1>6 DEF Written

LEMMA Tamper_step ==
  ASSUME JCore, Tamper
  PROVE  JCore'
<1>1. lock = None /\ UNCHANGED <<day, lock, writer, reader, written, acked>>
  BY DEF Tamper
<1>2. JLines'
  BY TamperLines DEF JCore
<1>3. \A v \in Writers : Out(writer[v])
  BY <1>1, OthersOut, JournalAssumption DEF JCore
<1>4. \A v \in Writers : (Found(writer[v], v))'
  BY <1>1, <1>3 DEF Found, Out
<1> QED BY <1>1, <1>2, <1>4 DEF JCore, JWriters

\* Readers and the calendar leave the files and the writers alone.
LEMMA Watching_step ==
  ASSUME JCore, UNCHANGED <<segs, open, lock, writer, written, acked, tampered>>, day' \in 0..MaxDay
  PROVE  JCore'
<1>1. JLines'
  BY LinesStill DEF JCore
<1>2. \A v \in Writers : (Found(writer[v], v))'
  BY DEF JCore, JWriters, Found, Out
<1> QED BY <1>1, <1>2 DEF JCore, JWriters

LEMMA CoreStep ==
  ASSUME JCore, [Next]_vars
  PROVE  JCore'
<1>1. ASSUME NEW r \in Readers, List(r) \/ OpenFiles(r) \/ Agree(r) \/ Read(r)
      PROVE  JCore'
  <2>1. UNCHANGED <<segs, open, lock, writer, written, acked, tampered>> /\ day' = day
    BY <1>1 DEF List, OpenFiles, Agree, Read
  <2> QED BY <2>1, Watching_step DEF JCore, JWriters
<1>2. ASSUME NextDay
      PROVE  JCore'
  <2>1. UNCHANGED <<segs, open, lock, writer, written, acked, tampered>> /\ day' \in 0..MaxDay
    BY <1>2, JournalAssumption DEF NextDay, JCore, JWriters
  <2> QED BY <2>1, Watching_step
<1>3. ASSUME UNCHANGED vars
      PROVE  JCore'
  BY <1>3, Watching_step DEF vars, JCore, JWriters
<1> QED
  BY <1>1, <1>2, <1>3, Ask_step, Locked_step, Left_step, FinishClose_step, Rename_step, Name_step, Chain_step,
     Written_step, Tamper_step DEF Next

LEMMA CoreInit ==
  ASSUME Init
  PROVE  JCore
<1>1. segs = <<>> /\ open = <<>> /\ written = 0 /\ tampered = FALSE /\ day = 0 /\ lock = None /\ acked = {}
      /\ writer = [w \in Writers |-> Idle]
  BY DEF Init
<1>2. PICK s, o, F : s = <<>> /\ o = <<>> /\ F = Both(s, o)
  OBVIOUS
<1>3. s \in Journals /\ o \in Seq(Entry)
  BY <1>2 DEF Journals
<1>4. F = Files /\ F \in Journals /\ Len(F) = 1 /\ \A k, i : ~Here(F, k, i)
  <2>1. JoinFacts(s, o, F)
    BY <1>2, <1>3, Joined
  <2>2. Len(s) = 0 /\ Len(o) = 0
    BY <1>2
  <2>3. F = Files
    BY <1>1, <1>2 DEF Files, Both
  <2> QED BY <2>1, <2>2, <2>3 DEF JoinFacts
<1>5. \A p : p \notin PlacesOf(F)
  BY <1>4, PlaceIs
<1>6. JLines
  <2>1. Ordered(F, 0) /\ TornLast(F)
    BY <1>5 DEF Ordered, TornLast
  <2>2. Good(F)
    BY <1>4, <1>5 DEF Good
  <2> QED BY <1>1, <1>2, <1>3, <1>4, <2>1, <2>2 DEF JLines
<1>7. Idle \in Wheres /\ Out(Idle)
  BY DEF Idle, Wheres, Out
<1>8. JWriters
  BY <1>1, <1>7, JournalAssumption DEF JWriters, Found, Idle, Out
<1> QED BY <1>6, <1>8 DEF JCore

-----------------------------------------------------------------------------
(* What verify finds.                                                      *)

\* The model's walk is the walk of its files.
LEMMA WalkIs ==
  /\ Places = PlacesOf(Files)
  /\ \A p : LineAt(p) = LineOf(Files, p)
  /\ \A k, i : Before(k, i) = BeforeOf(Files, k, i)
  /\ \A k, i : Linked(k, i) <=> LinkedOf(Files, k, i)
<1>1. Places = PlacesOf(Files) /\ \A p : LineAt(p) = LineOf(Files, p)
  BY DEF Places, PlacesOf, LineAt, LineOf
<1>2. ASSUME NEW k, NEW i
      PROVE  Before(k, i) = BeforeOf(Files, k, i)
  <2>1. {p \in Places : Precedes(p, <<k, i>>) /\ Whole(LineAt(p))} = EntriesBefore(Files, k, i)
    BY <1>1 DEF EntriesBefore
  <2>2. PICK S : S = EntriesBefore(Files, k, i)
    OBVIOUS
  <2>3. Before(k, i) = IF S = {} THEN 0 ELSE LineAt(LastOf(S)).hash
    BY <2>1, <2>2 DEF Before
  <2>4. BeforeOf(Files, k, i) = IF S = {} THEN 0 ELSE LineOf(Files, LastOf(S)).hash
    BY <2>2 DEF BeforeOf
  <2> QED BY <1>1, <2>3, <2>4
<1>3. ASSUME NEW k, NEW i
      PROVE  Linked(k, i) <=> LinkedOf(Files, k, i)
  BY <1>2 DEF Linked, LinkedOf
<1> QED BY <1>1, <1>2, <1>3

\* The files are the closed segments and the open file.
LEMMA FilesAre ==
  ASSUME JLines
  PROVE  /\ Files \in Journals /\ Len(Files) = Len(segs) + 1 /\ Len(segs) \in Nat
         /\ \A k \in 1..Len(segs) : Files[k] = segs[k]
         /\ Files[Len(segs) + 1] = open
<1>1. PICK s, o, F : s = segs /\ o = open /\ F = Files
  OBVIOUS
<1>2. s \in Journals /\ o \in Seq(Entry) /\ F = Both(s, o)
  BY <1>1 DEF JLines, Files, Both
<1>3. JoinFacts(s, o, F)
  BY <1>2, Joined
<1> QED BY <1>1, <1>3 DEF JoinFacts

LEMMA IntactWhenGood ==
  ASSUME JLines, ~tampered, \A p \in Places : Whole(LineAt(p))
  PROVE  Intact
<1>1. PICK F : F = Files
  OBVIOUS
<1>2. F \in Journals /\ Good(F) /\ Len(F) = Len(segs) + 1 /\ Len(segs) \in Nat
      /\ \A k \in 1..Len(segs) : F[k] = segs[k]
  BY <1>1, FilesAre DEF JLines
<1>3. \A p \in PlacesOf(F) : Whole(LineOf(F, p))
  BY <1>1, WalkIs
<1>4. \A k \in 1..Len(segs) : segs[k] # <<>>
  <2>1. ASSUME NEW k \in 1..Len(segs) PROVE segs[k] # <<>>
    <3>1. k \in 1..Len(F) /\ k < Len(F)
      BY <1>2
    <3> QED BY <1>2, <3>1 DEF Good
  <2> QED BY <2>1
<1>5. ASSUME NEW k \in 1..Len(F), NEW i \in 1..Len(F[k])
      PROVE  Whole(F[k][i]) /\ SegmentLinked(k, i) /\ Linked(k, i) /\ ~F[k][i].edited
  <2>1. Here(F, k, i)
    BY DEF Here
  <2>2. PICK p : p = <<k, i>>
    OBVIOUS
  <2>3. p \in PlacesOf(F) /\ LineOf(F, p) = F[k][i] /\ p[1] = k /\ p[2] = i
    BY <1>2, <2>1, <2>2, PlaceIs DEF LineOf
  <2>4. Fits(F, k, i) /\ ~F[k][i].edited /\ Whole(F[k][i])
    BY <1>2, <1>3, <2>3 DEF Good
  <2>5. WholeBefore(F)
    BY <1>3 DEF WholeBefore
  <2>6. \A m \in 1..Len(F) : m < Len(F) => F[m] # <<>>
    BY <1>2 DEF Good
  <2>7. PICK b : b = Prior(F, k, i)
    OBVIOUS
  <2>8. BeforeOf(F, k, i) = b
    BY <1>2, <2>1, <2>5, <2>6, <2>7, PriorIsBefore
  <2>9. Before(k, i) = b
    BY <1>1, <2>8, WalkIs
  <2>10. Joins(F[k][i], k, i, b, BytesBefore(F, k))
    BY <2>4, <2>7 DEF Fits
  <2>11. SegmentLinked(k, i)
    BY <1>1, <2>9, <2>10 DEF SegmentLinked, Joins, BytesBefore
  <2>12. Linked(k, i)
    BY <1>1, <2>9, <2>10 DEF Linked, Joins
  <2> QED BY <2>4, <2>11, <2>12
<1> QED BY <1>1, <1>4, <1>5 DEF Intact

LEMMA BrokenIsFound ==
  ASSUME JLines, tampered
  PROVE  ~Intact
<1>1. PICK F : F = Files
  OBVIOUS
<1>2. F \in Journals /\ Broken(F)
  BY <1>1, FilesAre DEF JLines
<1>3. PICK p \in PlacesOf(F) : LineOf(F, p).edited \/ ~LinkedOf(F, p[1], p[2])
  BY <1>2 DEF Broken
<1>4. PICK k, i : k = p[1] /\ i = p[2]
  OBVIOUS
<1>5. k \in 1..Len(F) /\ i \in 1..Len(F[k]) /\ LineOf(F, p) = F[k][i]
  BY <1>2, <1>4, PlaceIs DEF Here, LineOf
<1>6. F[k][i].edited \/ ~Linked(k, i)
  BY <1>1, <1>3, <1>4, <1>5, WalkIs
<1> QED BY <1>1, <1>5, <1>6 DEF Intact

LEMMA CoreTypes ==
  ASSUME JCore
  PROVE  JournalTypeOK
<1>1. PICK F : F = Files
  OBVIOUS
<1>2. F \in Journals /\ Len(F) = Len(segs) + 1 /\ Len(segs) \in Nat /\ \A k \in 1..Len(segs) : F[k] = segs[k]
  BY <1>1, FilesAre DEF JCore
<1>3. Ordered(F, written) /\ written \in Nat /\ (~tampered => Good(F)) /\ tampered \in BOOLEAN
  BY <1>1 DEF JCore, JLines
<1>4. \A p, q \in Places : LineAt(p).hash = LineAt(q).hash => p = q
  <2>1. PICK n \in Nat : n = written
    BY <1>3
  <2>2. ASSUME NEW p \in PlacesOf(F), NEW q \in PlacesOf(F), LineOf(F, p).hash = LineOf(F, q).hash, p # q
        PROVE  FALSE
    BY <1>2, <1>3, <2>1, <2>2, OneNumber
  <2> QED BY <1>1, <2>2, WalkIs
<1>5. \A k \in 1..Len(segs) : segs[k] # <<>> \/ tampered
  <2>1. ASSUME NEW k \in 1..Len(segs), ~tampered PROVE segs[k] # <<>>
    <3>1. k \in 1..Len(F) /\ k < Len(F)
      BY <1>2
    <3> QED BY <1>2, <1>3, <2>1, <3>1 DEF Good
  <2> QED BY <2>1
<1>6. \A w \in Writers : writer[w].at \notin {"idle", "waits"} => lock = w
  BY DEF JCore, JWriters, Found, Out
<1> QED BY <1>3, <1>4, <1>5, <1>6 DEF JournalTypeOK, JCore, JWriters

\* Whatever the writers, readers, days and crashes, the journal is well formed;
\* while nobody else touches it `audit verify` accepts it whenever no line is half
\* written, and from the moment somebody does it never does again.
THEOREM JournalIsSound == Spec => []JournalSound
<1>1. Init => JCore
  BY CoreInit
<1>2. JCore /\ [Next]_vars => JCore'
  BY CoreStep
<1>3. JCore => JournalSound
  BY CoreTypes, IntactWhenGood, BrokenIsFound DEF JournalSound, WrittenIsIntact, TamperIsFound, JCore
<1> QED BY <1>1, <1>2, <1>3, PTL DEF Spec

-----------------------------------------------------------------------------
(* What a step may do to lines that are there.                             *)

\* Lines stay where they are, and files that are closed stay as long as they were.
Extends(F, G) ==
  /\ Len(F) <= Len(G)
  /\ \A k \in 1..Len(F) :
       /\ Len(F[k]) <= Len(G[k])
       /\ k < Len(F) => Len(G[k]) = Len(F[k])
       /\ \A i \in 1..Len(F[k]) : G[k][i].hash = F[k][i].hash

EntriesOf(F) == {p \in PlacesOf(F) : LineOf(F, p).op # "closed" /\ Whole(LineOf(F, p))}
SameEntries(F, G) ==
  /\ EntriesOf(G) = EntriesOf(F)
  /\ \A p \in EntriesOf(F) : LineOf(G, p).hash = LineOf(F, p).hash
EntryAdded(F, G, e) ==
  /\ EntriesOf(G) = EntriesOf(F) \cup {e} /\ e \notin EntriesOf(F) /\ LineOf(G, e).hash \in Nat
  /\ \A p \in EntriesOf(F) : LineOf(G, p).hash = LineOf(F, p).hash /\ Precedes(p, e) /\ ~Precedes(e, p)

\* A line under way is no entry yet.
LEMMA PutExtends ==
  ASSUME NEW s \in Journals, NEW o \in Seq(Entry), NEW l \in Entry, l.torn
  PROVE  Extends(Both(s, o), Both(s, Append(o, l))) /\ SameEntries(Both(s, o), Both(s, Append(o, l)))
<1>1. PICK F, G, e, o2 : /\ F = Both(s, o) /\ G = Both(s, Append(o, l)) /\ e = <<Len(s) + 1, Len(o) + 1>>
                         /\ o2 = Append(o, l)
  OBVIOUS
<1>2. o2 \in Seq(Entry) /\ Len(o2) = Len(o) + 1 /\ Len(o) \in Nat /\ \A i \in 1..Len(o) : o2[i] = o[i]
  BY <1>1
<1>3. JoinFacts(s, o, F) /\ PutFacts(s, o, l, F, G, e)
  BY <1>1, Joined, PutGrows
<1>4. /\ Len(F) = Len(s) + 1 /\ Len(s) \in Nat /\ F[Len(s) + 1] = o /\ Len(G) = Len(F)
      /\ G[Len(s) + 1] = o2
      /\ \A k \in 1..Len(s) : G[k] = F[k]
  BY <1>1, <1>3 DEF JoinFacts, PutFacts
<1>5. ASSUME NEW k \in 1..Len(F)
      PROVE  /\ Len(F[k]) <= Len(G[k])
             /\ k < Len(F) => Len(G[k]) = Len(F[k])
             /\ \A i \in 1..Len(F[k]) : G[k][i].hash = F[k][i].hash
  <2>1. CASE k \in 1..Len(s)
    <3>1. G[k] = F[k] /\ F[k] = s[k] /\ s[k] \in Seq(Entry)
      BY <1>3, <1>4, <2>1 DEF JoinFacts, Journals
    <3> QED BY <3>1
  <2>2. CASE k = Len(s) + 1
    BY <1>2, <1>4, <2>2
  <2> QED BY <1>4, <2>1, <2>2
<1>6. Extends(F, G)
  BY <1>4, <1>5 DEF Extends
<1>7. /\ e \in PlacesOf(G) /\ e \notin PlacesOf(F) /\ LineOf(G, e) = l
      /\ \A p \in PlacesOf(G) : p \in PlacesOf(F) \/ p = e
      /\ \A p \in PlacesOf(F) : p \in PlacesOf(G) /\ LineOf(G, p) = LineOf(F, p)
  BY <1>3 DEF PutFacts
<1>8. \A p : p \in EntriesOf(G) <=> p \in EntriesOf(F)
  BY <1>7 DEF EntriesOf, Whole
<1>9. SameEntries(F, G)
  BY <1>7, <1>8 DEF SameEntries, EntriesOf
<1> QED BY <1>1, <1>6, <1>9

LEMMA RenameExtends ==
  ASSUME NEW F \in Journals
  PROVE  Extends(F, Both(F, <<>>)) /\ SameEntries(F, Both(F, <<>>))
<1>1. PICK G : G = Both(F, <<>>)
  OBVIOUS
<1>2. RenameFacts(F, G)
  BY <1>1, RenameGrows
<1>3. Len(G) = Len(F) + 1 /\ Len(F) \in Nat /\ \A k \in 1..Len(F) : G[k] = F[k] /\ Len(F[k]) \in Nat
  BY <1>2 DEF RenameFacts, Journals
<1>4. Extends(F, G)
  BY <1>3 DEF Extends
<1>5. SameEntries(F, G)
  BY <1>2 DEF RenameFacts, SameEntries, EntriesOf
<1> QED BY <1>1, <1>4, <1>5

\* A line written to its end is the last entry, or names a segment.
LEMMA WrittenExtends ==
  ASSUME NEW s \in Journals, NEW o \in Seq(Entry), o # <<>>, Good(Both(s, o))
  PROVE  /\ Extends(Both(s, o), Both(s, Finished(o)))
         /\ \/ SameEntries(Both(s, o), Both(s, Finished(o)))
            \/ EntryAdded(Both(s, o), Both(s, Finished(o)), <<Len(s) + 1, Len(o)>>)
<1>1. PICK o2, F, G, e :
        o2 = Finished(o) /\ F = Both(s, o) /\ G = Both(s, o2) /\ e = <<Len(s) + 1, Len(o)>>
  OBVIOUS
<1>2. JoinFacts(s, o, F) /\ WrittenFacts(o, o2, F, G, e)
  BY <1>1, Joined, WrittenGrows
<1>3. /\ F \in Journals /\ G \in Journals /\ Len(G) = Len(F) /\ PlacesOf(G) = PlacesOf(F) /\ e \in PlacesOf(F)
      /\ \A k \in 1..Len(F) : Len(G[k]) = Len(F[k])
      /\ \A p \in PlacesOf(F) : /\ Same(LineOf(G, p), LineOf(F, p))
                                /\ p # e => LineOf(G, p) = LineOf(F, p) /\ Precedes(p, e)
      /\ Whole(LineOf(G, e))
  BY <1>2 DEF JoinFacts, WrittenFacts
<1>4. ASSUME NEW k \in 1..Len(F), NEW i \in 1..Len(F[k])
      PROVE  G[k][i].hash = F[k][i].hash
  <2>1. PICK p : p = <<k, i>>
    OBVIOUS
  <2>2. p \in PlacesOf(F) /\ LineOf(F, p) = F[k][i] /\ LineOf(G, p) = G[k][i]
    BY <1>3, <2>1, PlaceIs DEF Here, LineOf
  <2> QED BY <1>3, <2>2 DEF Same
<1>5. \A k \in 1..Len(F) : Len(F[k]) \in Nat
  BY <1>3 DEF Journals
<1>6. Extends(F, G)
  BY <1>3, <1>4, <1>5 DEF Extends, Journals
<1>7. \A p \in PlacesOf(F) : LineOf(G, p).hash = LineOf(F, p).hash /\ LineOf(G, p).op = LineOf(F, p).op
  BY <1>3 DEF Same
<1>8. \A p \in PlacesOf(F) : p # e => (p \in EntriesOf(G) <=> p \in EntriesOf(F))
  BY <1>3 DEF EntriesOf
<1>9. CASE LineOf(F, e).op = "closed" \/ Whole(LineOf(F, e))
  <2>1. e \in EntriesOf(G) <=> e \in EntriesOf(F)
    BY <1>3, <1>7, <1>9 DEF EntriesOf
  <2>2. \A p : p \in EntriesOf(G) <=> p \in EntriesOf(F)
    BY <1>3, <1>8, <2>1 DEF EntriesOf
  <2>3. SameEntries(F, G)
    BY <1>7, <2>2 DEF SameEntries, EntriesOf
  <2> QED BY <1>1, <1>6, <2>3
<1>10. CASE LineOf(F, e).op # "closed" /\ ~Whole(LineOf(F, e))
  <2>1. e \in EntriesOf(G) /\ e \notin EntriesOf(F)
    BY <1>3, <1>7, <1>10 DEF EntriesOf
  <2>2. \A p : p \in EntriesOf(G) <=> p \in EntriesOf(F) \cup {e}
    BY <1>3, <1>8, <2>1 DEF EntriesOf
  <2>3. \A p \in EntriesOf(F) : Precedes(p, e) /\ ~Precedes(e, p)
    <3>1. ASSUME NEW p \in EntriesOf(F) PROVE Precedes(p, e) /\ ~Precedes(e, p)
      <4>1. p \in PlacesOf(F) /\ p # e
        BY <2>1 DEF EntriesOf
      <4>2. Precedes(p, e)
        BY <1>3, <4>1
      <4> QED BY <1>3, <4>1, <4>2, PrecedesOneWay
    <3> QED BY <3>1
  <2>4. LineOf(G, e).hash \in Nat
    <3>1. LineOf(F, e).hash > 0
      BY <1>1, <1>3 DEF Good
    <3>2. LineOf(F, e) \in Entry
      BY <1>3, PlaceIs DEF LineOf
    <3>3. LineOf(F, e).hash \in Int
      BY <3>2 DEF Entry
    <3> QED BY <1>3, <1>7, <3>1, <3>3
  <2>5. EntryAdded(F, G, e)
    BY <1>7, <2>1, <2>2, <2>3, <2>4 DEF EntryAdded, EntriesOf
  <2> QED BY <1>1, <1>6, <2>5
<1> QED BY <1>9, <1>10

\* F[k] has a line with hash h, for some k up to n.
Near(F, h, n) == \E k, i : Here(F, k, i) /\ k <= n /\ F[k][i].hash = h

LEMMA NearStays ==
  ASSUME NEW F \in Journals, NEW G \in Journals, Extends(F, G), NEW h, NEW n, Near(F, h, n)
  PROVE  Near(G, h, n)
<1>1. PICK k, i : Here(F, k, i) /\ k <= n /\ F[k][i].hash = h
  BY DEF Near
<1>2. k \in 1..Len(F) /\ i \in 1..Len(F[k]) /\ Len(F) \in Nat /\ Len(G) \in Nat /\ Len(F[k]) \in Nat
  BY <1>1 DEF Here, Journals
<1>3. Len(F) <= Len(G) /\ Len(F[k]) <= Len(G[k]) /\ G[k][i].hash = F[k][i].hash
  BY <1>2 DEF Extends
<1>4. k \in 1..Len(G)
  BY <1>2, <1>3
<1>5. Len(G[k]) \in Nat
  BY <1>4 DEF Journals
<1>6. i \in 1..Len(G[k])
  BY <1>2, <1>3, <1>5
<1> QED BY <1>1, <1>3, <1>4, <1>6 DEF Near, Here

LEMMA ExtendsSelf ==
  ASSUME NEW F \in Journals
  PROVE  Extends(F, F) /\ SameEntries(F, F)
<1>1. Len(F) \in Nat /\ \A k \in 1..Len(F) : Len(F[k]) \in Nat
  BY DEF Journals
<1> QED BY <1>1 DEF Extends, SameEntries

\* While nobody else touches the files, a step of the program leaves every line in its
\* place, and its log as it was or with one entry more.
StepFacts(F, G) ==
  /\ F \in Journals /\ G \in Journals
  /\ Extends(F, G)
  /\ SameEntries(F, G) \/ \E e : EntryAdded(F, G, e)
LEMMA FilesStay ==
  ASSUME JCore, UNCHANGED <<segs, open>>
  PROVE  StepFacts(Files, Files')
<1>1. PICK F : F = Files
  OBVIOUS
<1>2. Files' = F
  BY <1>1 DEF Files
<1>3. F \in Journals
  BY <1>1, FilesAre DEF JCore
<1>4. StepFacts(F, F)
  BY <1>3, ExtendsSelf DEF StepFacts
<1> QED BY <1>1, <1>2, <1>4

LEMMA FilesPut ==
  ASSUME JCore, NEW l \in Entry, l.torn, segs' = segs, open' = Append(open, l), JCore'
  PROVE  StepFacts(Files, Files')
<1>1. PICK s, o, F, G : s = segs /\ o = open /\ F = Files /\ G = Files'
  OBVIOUS
<1>2. s \in Journals /\ o \in Seq(Entry) /\ F = Both(s, o) /\ G = Both(s, Append(o, l))
  BY <1>1 DEF JCore, JLines, Files, Both
<1>3. F \in Journals /\ G \in Journals
  <2>1. Append(o, l) \in Seq(Entry)
    BY <1>2
  <2>2. JoinFacts(s, o, F) /\ JoinFacts(s, Append(o, l), G)
    BY <1>2, <2>1, Joined
  <2> QED BY <2>2 DEF JoinFacts
<1>4. StepFacts(F, G)
  BY <1>2, <1>3, PutExtends DEF StepFacts
<1> QED BY <1>1, <1>4

LEMMA FilesRenamed ==
  ASSUME JCore, segs' = Append(segs, open), open' = <<>>
  PROVE  StepFacts(Files, Files')
<1>1. PICK F, G : F = Files /\ G = Files'
  OBVIOUS
<1>2. F \in Journals /\ G = Both(F, <<>>)
  BY <1>1, FilesAre DEF JCore, Files, Both
<1>3. RenameFacts(F, G)
  BY <1>2, RenameGrows
<1>4. StepFacts(F, G)
  BY <1>2, <1>3, RenameExtends DEF StepFacts, RenameFacts
<1> QED BY <1>1, <1>4

LEMMA FilesWritten ==
  ASSUME JCore, ~tampered, open # <<>>, segs' = segs, open' = [open EXCEPT ![Len(open)].torn = FALSE]
  PROVE  StepFacts(Files, Files')
<1>1. PICK s, o, F, G : s = segs /\ o = open /\ F = Files /\ G = Files'
  OBVIOUS
<1>2. s \in Journals /\ o \in Seq(Entry) /\ F = Both(s, o) /\ G = Both(s, Finished(o)) /\ Good(F) /\ o # <<>>
  BY <1>1 DEF JCore, JLines, Files, Both, Finished
<1>3. WrittenFacts(o, Finished(o), F, G, <<Len(s) + 1, Len(o)>>) /\ JoinFacts(s, o, F)
  BY <1>2, WrittenGrows, Joined
<1>4. F \in Journals /\ G \in Journals
  BY <1>3 DEF WrittenFacts, JoinFacts
<1>5. StepFacts(F, G)
  BY <1>2, <1>4, WrittenExtends DEF StepFacts
<1> QED BY <1>1, <1>5

LEMMA StepKeeps ==
  ASSUME JCore, [Next]_vars, JCore'
  PROVE  tampered \/ tampered' \/ StepFacts(Files, Files')
<1>1. SUFFICES ASSUME ~tampered, ~tampered' PROVE StepFacts(Files, Files')
  BY DEF JCore, JLines
<1>2. ASSUME NEW w \in Writers, NEW l, NEW then, Put(w, l, then), l \in Entry, l.torn, segs' = segs
      PROVE  StepFacts(Files, Files')
  BY <1>2, FilesPut DEF Put
<1>3. segs \in Journals /\ open \in Seq(Entry) /\ written \in Nat /\ day \in Nat
  BY JournalAssumption DEF JCore, JLines, JWriters
<1>4. ASSUME NEW w \in Writers, NEW then, open = <<>>, segs # <<>>, Put(w, Closing, then), segs' = segs
      PROVE  StepFacts(Files, Files')
  <2>1. PICK l : l = Closing
    OBVIOUS
  <2>2. l \in Entry
    BY <1>3, <1>4, <2>1, ClosingJoins DEF JCore
  <2>3. l.torn
    BY <2>1 DEF Closing, Line
  <2> QED BY <1>2, <1>4, <2>1, <2>2, <2>3
<1>5. ASSUME NEW w \in Writers, FinishClose(w)
      PROVE  StepFacts(Files, Files')
  BY <1>4, <1>5, FilesStay DEF FinishClose
<1>6. ASSUME NEW w \in Writers, Rename(w)
      PROVE  StepFacts(Files, Files')
  BY <1>6, FilesRenamed DEF Rename
<1>7. ASSUME NEW w \in Writers, Name(w)
      PROVE  StepFacts(Files, Files')
  <2>1. open = <<>> /\ segs # <<>>
    BY <1>7 DEF Name, JCore, JWriters, Found
  <2> QED BY <1>4, <1>7, <2>1 DEF Name
<1>8. ASSUME NEW w \in Writers, Chain(w)
      PROVE  StepFacts(Files, Files')
  <2>1. PICK h : h = TailHash
    OBVIOUS
  <2>2. PICK m : (m = Line("entry", h, None) \/ m = Line("epoch", 0, h)) /\ Put(w, m, "done") /\ segs' = segs
    BY <1>8, <2>1 DEF Chain
  <2>3. m.torn
    BY <2>2 DEF Line
  <2>4. h \in Int
    <3>1. (open # <<>> \/ segs = <<>>)
      BY <1>8 DEF Chain, JCore, JWriters, Found
    <3>2. CASE open # <<>>
      <4>1. PICK o : o = open
        OBVIOUS
      <4>2. LastHash(o) \in Int
        BY <1>3, <4>1, LastHashInt
      <4> QED BY <2>1, <3>2, <4>1, <4>2 DEF TailHash
    <3>3. CASE open = <<>> /\ segs = <<>>
      BY <2>1, <3>3 DEF TailHash
    <3> QED BY <3>1, <3>2, <3>3
  <2>5. m \in Entry
    <3>1. PICK d, n : d = day /\ n = written + 1 /\ d \in Nat /\ n \in Int
      BY <1>3
    <3>2. /\ [hash |-> n, prev |-> h, op |-> "entry", about |-> None, day |-> d, torn |-> TRUE, edited |-> FALSE] \in Entry
          /\ [hash |-> n, prev |-> 0, op |-> "epoch", about |-> h, day |-> d, torn |-> TRUE, edited |-> FALSE] \in Entry
      BY <2>4, <3>1 DEF Entry
    <3> QED BY <2>2, <3>1, <3>2 DEF Line
  <2> QED BY <1>2, <2>2, <2>3, <2>5
<1>9. ASSUME NEW w \in Writers, Written(w)
      PROVE  StepFacts(Files, Files')
  <2>1. open # <<>>
    BY <1>9 DEF Written, JCore, JWriters, Found
  <2> QED BY <1>1, <1>9, <2>1, FilesWritten DEF Written
<1>10. ASSUME NEW w \in Writers,
              (\E op \in Ops : Ask(w, op)) \/ Locked(w) \/ Refuse(w) \/ CloseFails(w) \/ NothingToClose(w) \/ Die(w)
       PROVE  StepFacts(Files, Files')
  BY <1>10, FilesStay DEF Ask, Locked, Refuse, CloseFails, NothingToClose, Die
<1>11. ASSUME NEW r \in Readers, List(r) \/ OpenFiles(r) \/ Agree(r) \/ Read(r)
       PROVE  StepFacts(Files, Files')
  BY <1>11, FilesStay DEF List, OpenFiles, Agree, Read
<1>12. CASE NextDay \/ UNCHANGED vars
  BY <1>12, FilesStay DEF NextDay, vars
<1>13. ~Tamper
  BY <1>1 DEF Tamper
<1> QED BY <1>5, <1>6, <1>7, <1>8, <1>9, <1>10, <1>11, <1>12, <1>13 DEF Next

-----------------------------------------------------------------------------
(* The journal as a log.                                                   *)

\* How many of the places come no later than p.
Rank(P, p) == Cardinality({q \in P : q = p \/ Precedes(q, p)})
\* Every number up to the number of places is the rank of one.
Ranked(P) == IsFiniteSet(P) /\ \A n \in 1..Cardinality(P) : \E p \in P : Rank(P, p) = n

LEMMA RankedAdds ==
  ASSUME NEW P, Ranked(P), NEW e, e \notin P, \A p \in P : Precedes(p, e) /\ ~Precedes(e, p)
  PROVE  /\ Ranked(P \cup {e}) /\ Cardinality(P \cup {e}) = Cardinality(P) + 1 /\ Cardinality(P) \in Nat
         /\ \A n \in 1..Cardinality(P) : Nth(P \cup {e}, n) = Nth(P, n) /\ Nth(P, n) \in P
         /\ Nth(P \cup {e}, Cardinality(P) + 1) = e
<1>1. PICK Q, c : Q = P \cup {e} /\ c = Cardinality(P)
  OBVIOUS
<1>2. IsFiniteSet(P) /\ IsFiniteSet(Q) /\ c \in Nat /\ Cardinality(Q) = c + 1
  BY <1>1, FS_AddElement, FS_CardinalityType DEF Ranked
<1>3. ASSUME NEW p \in P
      PROVE  Rank(Q, p) = Rank(P, p) /\ Rank(P, p) <= c /\ Rank(P, p) \in Nat
  <2>1. {q \in Q : q = p \/ Precedes(q, p)} = {q \in P : q = p \/ Precedes(q, p)}
    BY <1>1
  <2>2. PICK S : S = {q \in P : q = p \/ Precedes(q, p)}
    OBVIOUS
  <2>3. S \in SUBSET P
    BY <2>2
  <2>4. IsFiniteSet(S) /\ Cardinality(S) <= Cardinality(P)
    BY <1>2, <2>3, FS_Subset
  <2>5. Cardinality(S) \in Nat
    BY <2>4, FS_CardinalityType
  <2>6. Rank(P, p) = Cardinality(S) /\ Rank(Q, p) = Cardinality(S)
    BY <2>1, <2>2 DEF Rank
  <2> QED BY <1>1, <2>4, <2>5, <2>6
<1>4. Rank(Q, e) = c + 1
  <2>1. {q \in Q : q = e \/ Precedes(q, e)} = Q
    BY <1>1
  <2> QED BY <1>2, <2>1 DEF Rank
<1>5. Ranked(Q)
  <2>1. ASSUME NEW n \in 1..c + 1
        PROVE  \E p \in Q : Rank(Q, p) = n
    <3>1. CASE n = c + 1
      BY <1>1, <1>4, <3>1
    <3>2. CASE n \in 1..c
      <4>1. PICK p \in P : Rank(P, p) = n
        BY <1>1, <3>2 DEF Ranked
      <4> QED BY <1>1, <1>3, <4>1
    <3> QED BY <1>2, <3>1, <3>2
  <2> QED BY <1>2, <2>1 DEF Ranked
<1>6. ASSUME NEW n \in 1..c
      PROVE  Nth(Q, n) = Nth(P, n) /\ Nth(P, n) \in P
  <2>1. \A p : (p \in Q /\ Rank(Q, p) = n) <=> (p \in P /\ Rank(P, p) = n)
    BY <1>1, <1>2, <1>3, <1>4
  <2>2. Nth(Q, n) = CHOOSE p : p \in Q /\ Rank(Q, p) = n
    BY DEF Nth, Rank
  <2>3. Nth(P, n) = CHOOSE p : p \in P /\ Rank(P, p) = n
    BY DEF Nth, Rank
  <2>4. (CHOOSE p : p \in Q /\ Rank(Q, p) = n) = (CHOOSE p : p \in P /\ Rank(P, p) = n)
    BY <2>1
  <2>5. PICK p : p \in P /\ Rank(P, p) = n
    BY <1>1 DEF Ranked
  <2>6. Nth(P, n) \in P
    BY <2>3, <2>5
  <2> QED BY <2>2, <2>3, <2>4, <2>6
<1>7. Nth(Q, c + 1) = e
  <2>1. \A p \in Q : Rank(Q, p) = c + 1 <=> p = e
    BY <1>1, <1>2, <1>3, <1>4
  <2>2. e \in Q
    BY <1>1
  <2>3. Nth(Q, c + 1) = CHOOSE p \in Q : Rank(Q, p) = c + 1
    BY DEF Nth, Rank
  <2> QED BY <2>1, <2>2, <2>3
<1> QED BY <1>1, <1>2, <1>5, <1>6, <1>7

\* The hashes of the entries of any files.
HashesOf(F) ==
  LET places == EntriesOf(F) IN [n \in 1..Cardinality(places) |-> LineOf(F, Nth(places, n)).hash]

LEMMA HashesStay ==
  ASSUME NEW F, NEW G, Ranked(EntriesOf(F)), SameEntries(F, G)
  PROVE  HashesOf(G) = HashesOf(F) /\ Ranked(EntriesOf(G))
<1>1. PICK P : P = EntriesOf(F)
  OBVIOUS
<1>2. EntriesOf(G) = P /\ \A p \in P : LineOf(G, p).hash = LineOf(F, p).hash
  BY <1>1 DEF SameEntries
<1>3. ASSUME NEW n \in 1..Cardinality(P)
      PROVE  Nth(P, n) \in P
  <2>1. PICK p \in P : Rank(P, p) = n
    BY <1>1 DEF Ranked
  <2>2. Nth(P, n) = CHOOSE q \in P : Rank(P, q) = n
    BY DEF Nth, Rank
  <2> QED BY <2>1, <2>2
<1>4. \A n \in 1..Cardinality(P) : LineOf(G, Nth(P, n)).hash = LineOf(F, Nth(P, n)).hash
  BY <1>2, <1>3
<1>5. HashesOf(F) = [n \in 1..Cardinality(P) |-> LineOf(F, Nth(P, n)).hash]
  BY <1>1 DEF HashesOf
<1>6. HashesOf(G) = [n \in 1..Cardinality(P) |-> LineOf(G, Nth(P, n)).hash]
  BY <1>2 DEF HashesOf
<1> QED BY <1>1, <1>2, <1>4, <1>5, <1>6

LEMMA HashesAdd ==
  ASSUME NEW F, F \in Journals, NEW G, Ranked(EntriesOf(F)), NEW e, EntryAdded(F, G, e)
  PROVE  /\ Ranked(EntriesOf(G))
         /\ HashesOf(G) # <<>> /\ Front(HashesOf(G)) = HashesOf(F) /\ Last(HashesOf(G)) \in Nat
<1>1. PICK P, c : P = EntriesOf(F) /\ c = Cardinality(P)
  OBVIOUS
<1>2. /\ EntriesOf(G) = P \cup {e} /\ e \notin P /\ LineOf(G, e).hash \in Nat
      /\ \A p \in P : LineOf(G, p).hash = LineOf(F, p).hash /\ Precedes(p, e) /\ ~Precedes(e, p)
  BY <1>1 DEF EntryAdded
<1>3. /\ Ranked(P \cup {e}) /\ Cardinality(P \cup {e}) = c + 1 /\ c \in Nat
      /\ \A n \in 1..c : Nth(P \cup {e}, n) = Nth(P, n) /\ Nth(P, n) \in P
      /\ Nth(P \cup {e}, c + 1) = e
  BY <1>1, <1>2, RankedAdds
<1>4. PICK a, b : a = HashesOf(F) /\ b = HashesOf(G)
  OBVIOUS
<1>5. a = [n \in 1..c |-> LineOf(F, Nth(P, n)).hash]
  BY <1>1, <1>4 DEF HashesOf
<1>6. b = [n \in 1..c + 1 |-> LineOf(G, Nth(P \cup {e}, n)).hash]
  BY <1>2, <1>3, <1>4 DEF HashesOf
<1>7. \A p \in P : LineOf(F, p).hash \in Int
  <2>1. \A p \in P : LineOf(F, p) \in Entry
    BY <1>1, PlaceIs DEF EntriesOf, LineOf
  <2> QED BY <2>1 DEF Entry
<1>8. ASSUME NEW n \in 1..c
      PROVE  b[n] = a[n] /\ a[n] \in Int
  <2>1. n \in 1..c + 1
    BY <1>3
  <2> QED BY <1>2, <1>3, <1>5, <1>6, <1>7, <2>1
<1>9. b[c + 1] = LineOf(G, e).hash
  <2>1. c + 1 \in 1..c + 1
    BY <1>3
  <2> QED BY <1>3, <1>6, <2>1
<1>10. a \in Seq(Int) /\ Len(a) = c
  <2>1. a \in [1..c -> Int]
    BY <1>5, <1>8
  <2> QED BY <1>3, <2>1
<1>11. b \in Seq(Int) /\ Len(b) = c + 1
  <2>1. \A n \in 1..c + 1 : n \in 1..c \/ n = c + 1
    BY <1>3
  <2>2. \A n \in 1..c + 1 : b[n] \in Int
    BY <1>2, <1>8, <1>9, <2>1
  <2>3. b \in [1..c + 1 -> Int]
    BY <1>6, <2>2
  <2> QED BY <1>3, <2>3
<1>12. Front(b) = a
  <2>1. PICK f : f = SubSeq(b, 1, c)
    OBVIOUS
  <2>2. f \in Seq(Int) /\ Len(f) = c /\ \A i \in 1..c : f[i] = b[i]
    BY <1>3, <1>11, <2>1
  <2>3. f = a
    BY <1>8, <1>10, <2>2, SeqEqual
  <2>4. Len(b) - 1 = c
    BY <1>3, <1>11
  <2> QED BY <2>1, <2>3, <2>4 DEF Front
<1>13. b # <<>> /\ Last(b) \in Nat
  BY <1>2, <1>3, <1>9, <1>11 DEF Last
<1> QED BY <1>2, <1>3, <1>4, <1>12, <1>13

\* While nobody else touches the files the entries are in their order.
JLog == ~tampered => Ranked(EntriesOf(Files))

LEMMA LogIs == EntryHashes = HashesOf(Files)
<1>1. EntryPlaces = EntriesOf(Files)
  BY WalkIs DEF EntryPlaces, EntriesOf
<1>2. PICK P : P = EntryPlaces
  OBVIOUS
<1>3. EntryHashes = [n \in 1..Cardinality(P) |-> LineAt(Nth(P, n)).hash]
  BY <1>2 DEF EntryHashes
<1>4. HashesOf(Files) = [n \in 1..Cardinality(P) |-> LineOf(Files, Nth(P, n)).hash]
  BY <1>1, <1>2 DEF HashesOf
<1> QED BY <1>3, <1>4, WalkIs

LEMMA LogStep ==
  ASSUME JCore, JLog, [Next]_vars, JCore'
  PROVE  JLog' /\ [Log!Next]_<<EntryHashes, ~tampered>>
<1>1. tampered \in BOOLEAN /\ tampered' \in BOOLEAN
  BY DEF JCore, JLines
<1>2. tampered => tampered'
  BY DEF Next, vars, Ask, Locked, Refuse, FinishClose, Rename, CloseFails, Name, NothingToClose, Chain, Written, Die,
         List, OpenFiles, Agree, Read, NextDay, Tamper
<1>3. CASE tampered'
  <2>1. Log!Next
    BY <1>3 DEF Log!Next, Log!Outside
  <2> QED BY <1>3, <2>1 DEF JLog
<1>4. CASE ~tampered'
  <2>1. PICK F, G : F = Files /\ G = Files'
    OBVIOUS
  <2>2. ~tampered /\ StepFacts(F, G) /\ Ranked(EntriesOf(F))
    BY <1>2, <1>4, <2>1, StepKeeps DEF JLog
  <2>3. EntryHashes = HashesOf(F)
    BY <2>1, LogIs
  <2>4. EntryHashes' = HashesOf(G)
    <3>1. Files' = G
      BY <2>1
    <3>2. PICK P : P = EntriesOf(G)
      OBVIOUS
    <3>3. EntryPlaces' = P
      BY <3>1, <3>2 DEF EntryPlaces, Places, LineAt, EntriesOf, PlacesOf, LineOf
    <3>4. EntryHashes' = [n \in 1..Cardinality(P) |-> G[Nth(P, n)[1]][Nth(P, n)[2]].hash]
      BY <3>1, <3>3 DEF EntryHashes, LineAt
    <3> QED BY <3>2, <3>4 DEF HashesOf, LineOf
  <2>5. CASE SameEntries(F, G)
    <3>1. HashesOf(G) = HashesOf(F) /\ Ranked(EntriesOf(G))
      BY <2>2, <2>5, HashesStay
    <3>2. EntryHashes' = EntryHashes /\ (~tampered)' = ~tampered
      BY <1>4, <2>2, <2>3, <2>4, <3>1
    <3>3. JLog'
      BY <2>1, <3>1 DEF JLog, EntriesOf, PlacesOf, LineOf
    <3> QED BY <3>2, <3>3
  <2>6. ASSUME NEW e, EntryAdded(F, G, e)
        PROVE  JLog' /\ [Log!Next]_<<EntryHashes, ~tampered>>
    <3>1. /\ Ranked(EntriesOf(G))
          /\ HashesOf(G) # <<>> /\ Front(HashesOf(G)) = HashesOf(F) /\ Last(HashesOf(G)) \in Nat
      BY <2>2, <2>6, HashesAdd DEF StepFacts
    <3>2. Log!AppendEntry
      BY <1>4, <2>2, <2>3, <2>4, <3>1 DEF Log!AppendEntry, Front, Last, Log!Front, Log!Last
    <3>3. JLog'
      BY <2>1, <3>1 DEF JLog, EntriesOf, PlacesOf, LineOf
    <3> QED BY <3>2, <3>3 DEF Log!Next
  <2> QED BY <2>2, <2>5, <2>6 DEF StepFacts
<1> QED BY <1>3, <1>4

\* Closing, naming and reading segments, crashes and interrupted closes never change
\* the log of entries: it grows by one entry at a time and nothing is lost, moved or
\* repeated, until somebody else touches the files.
THEOREM JournalIsALog == Spec => LogSpec
<1>1. Init => JCore /\ JLog /\ Log!Init
  <2> SUFFICES ASSUME Init PROVE JCore /\ JLog /\ Log!Init
    OBVIOUS
  <2>1. JCore /\ tampered = FALSE
    BY CoreInit DEF Init
  <2>2. EntriesOf(Files) = {}
    <3>1. PICK s, o, F : s = <<>> /\ o = <<>> /\ F = Files
      OBVIOUS
    <3>2. s \in Journals /\ o \in Seq(Entry) /\ F = Both(s, o) /\ Len(s) = 0 /\ Len(o) = 0
      BY <3>1 DEF Init, Files, Both, Journals
    <3>3. JoinFacts(s, o, F)
      BY <3>2, Joined
    <3>4. F \in Journals /\ \A k, i : ~Here(F, k, i)
      BY <3>2, <3>3 DEF JoinFacts
    <3>5. \A p : p \notin PlacesOf(F)
      BY <3>4, PlaceIs
    <3> QED BY <3>1, <3>5 DEF EntriesOf
  <2>3. Ranked({}) /\ Cardinality({}) = 0
    BY FS_EmptySet DEF Ranked
  <2>4. HashesOf(Files) = <<>>
    BY <2>2, <2>3 DEF HashesOf
  <2> QED BY <2>1, <2>2, <2>3, <2>4, LogIs DEF JLog, Log!Init
<1>2. JCore /\ [Next]_vars => JCore'
  BY CoreStep
<1>3. JCore /\ JLog /\ [Next]_vars /\ JCore' => JLog' /\ [Log!Next]_<<EntryHashes, ~tampered>>
  BY LogStep
<1> QED BY <1>1, <1>2, <1>3, PTL DEF Spec, LogSpec, Log!Spec

-----------------------------------------------------------------------------
(* The readers.                                                            *)

Views == [at : {"idle", "listed", "opened", "agreed", "done"}, listed : Nat, file : Nat, began : SUBSET Nat,
          saw : Seq(Seq(Int))]
\* What a reader has found out, in files F.
Reads(rr, F) ==
  /\ rr \in Views
  /\ rr.at \in {"listed", "opened", "agreed"} =>
       rr.listed + 1 <= Len(F) /\ \A h \in rr.began : Near(F, h, rr.listed + 1)
  /\ rr.at = "agreed" \/ (rr.at = "opened" /\ Len(F) = rr.listed + 1) =>
       /\ rr.file \in {0, rr.listed + 1}
       /\ rr.file = 0 => \A h \in rr.began : Near(F, h, rr.listed)
  /\ rr.at = "done" =>
       /\ Len(rr.saw) <= Len(F)
       /\ \A k \in 1..Len(rr.saw) :
            /\ Len(rr.saw[k]) <= Len(F[k])
            /\ k < Len(rr.saw) => Len(rr.saw[k]) = Len(F[k])
            /\ \A i \in 1..Len(rr.saw[k]) : rr.saw[k][i] = F[k][i].hash
       /\ \A h \in rr.began : \E k \in 1..Len(rr.saw) : \E i \in 1..Len(rr.saw[k]) : rr.saw[k][i] = h

LEMMA ReadsStay ==
  ASSUME NEW F \in Journals, NEW G \in Journals, Extends(F, G), NEW rr, Reads(rr, F)
  PROVE  Reads(rr, G)
<1>1. Len(F) \in Nat /\ Len(G) \in Nat /\ Len(F) <= Len(G) /\ rr.listed \in Nat /\ rr \in Views
  BY DEF Extends, Reads, Journals, Views
<1>2. \A h, n : Near(F, h, n) => Near(G, h, n)
  BY NearStays
<1>3. rr.at \in {"listed", "opened", "agreed"} =>
        rr.listed + 1 <= Len(G) /\ \A h \in rr.began : Near(G, h, rr.listed + 1)
  BY <1>1, <1>2 DEF Reads
<1>4. rr.at = "agreed" \/ (rr.at = "opened" /\ Len(G) = rr.listed + 1) =>
       /\ rr.file \in {0, rr.listed + 1}
       /\ rr.file = 0 => \A h \in rr.began : Near(G, h, rr.listed)
  <2>1. rr.at = "opened" /\ Len(G) = rr.listed + 1 => Len(F) = rr.listed + 1
    BY <1>1 DEF Reads
  <2> QED BY <1>2, <2>1 DEF Reads
<1>5. CASE rr.at = "done"
  <2>1. PICK saw : saw = rr.saw
    OBVIOUS
  <2>a. saw \in Seq(Seq(Int))
    BY <1>1, <2>1 DEF Views
  <2>2. /\ Len(saw) \in Nat /\ Len(saw) <= Len(F)
        /\ \A k \in 1..Len(saw) :
            /\ saw[k] \in Seq(Int) /\ Len(saw[k]) <= Len(F[k])
            /\ k < Len(saw) => Len(saw[k]) = Len(F[k])
            /\ \A i \in 1..Len(saw[k]) : saw[k][i] = F[k][i].hash
    BY <1>5, <2>1, <2>a DEF Reads
  <2>3. ASSUME NEW k \in 1..Len(saw)
        PROVE  /\ Len(saw[k]) <= Len(G[k])
               /\ k < Len(saw) => Len(saw[k]) = Len(G[k])
               /\ \A i \in 1..Len(saw[k]) : saw[k][i] = G[k][i].hash
    <3>1. k \in 1..Len(F) /\ k \in 1..Len(G) /\ (k < Len(saw) => k < Len(F))
      BY <1>1, <2>2
    <3>2. Len(F[k]) \in Nat /\ Len(G[k]) \in Nat /\ Len(saw[k]) \in Nat
      BY <2>2, <3>1 DEF Journals
    <3>3. /\ Len(F[k]) <= Len(G[k])
          /\ k < Len(F) => Len(G[k]) = Len(F[k])
          /\ \A i \in 1..Len(F[k]) : G[k][i].hash = F[k][i].hash
      BY <3>1 DEF Extends
    <3>4. \A i \in 1..Len(saw[k]) : i \in 1..Len(F[k])
      BY <2>2, <3>2
    <3> QED BY <2>2, <3>1, <3>2, <3>3, <3>4
  <2>4. Len(saw) <= Len(G)
    BY <1>1, <2>2
    <2>5. \A h \in rr.began : \E k \in 1..Len(saw) : \E i \in 1..Len(saw[k]) : saw[k][i] = h
    BY <1>5, <2>1 DEF Reads
  <2> QED BY <1>1, <1>3, <1>4, <1>5, <2>1, <2>2, <2>3, <2>4, <2>5 DEF Reads
<1> QED BY <1>1, <1>3, <1>4, <1>5 DEF Reads

\* While nobody else touches the files, what is acknowledged is there and each reader
\* has found what it should.
JReaders ==
  ~tampered => /\ \A h \in acked : Near(Files, h, Len(Files))
               /\ DOMAIN reader = Readers
               /\ \A r \in Readers : Reads(reader[r], Files)

\* One reader moves.
LEMMA ReaderMoves ==
  ASSUME JCore, JReaders, UNCHANGED <<segs, open, acked, tampered>>, NEW r \in Readers, NEW rr,
         reader' = [reader EXCEPT ![r] = rr], ~tampered => Reads(rr, Files)
  PROVE  JReaders'
<1>1. SUFFICES ASSUME ~tampered
               PROVE  /\ \A h \in acked : Near(Files, h, Len(Files))
                      /\ DOMAIN reader' = Readers
                      /\ \A q \in Readers : Reads(reader'[q], Files)
  BY DEF JReaders, Files
<1>2. \A q \in Readers : reader'[q] = rr \/ reader'[q] = reader[q]
  BY <1>1 DEF JReaders
<1> QED BY <1>1, <1>2 DEF JReaders

LEMMA List_step ==
  ASSUME JCore, JReaders, NEW r \in Readers, List(r)
  PROVE  JReaders'
<1>1. PICK n, rr : n = Len(segs) /\ rr = [reader[r] EXCEPT !.at = "listed", !.listed = n, !.began = acked]
  OBVIOUS
<1>2. UNCHANGED <<segs, open, acked, tampered>> /\ reader' = [reader EXCEPT ![r] = rr]
  BY <1>1 DEF List
<1>3. ASSUME ~tampered PROVE Reads(rr, Files)
  <2>1. PICK v \in Views : v = reader[r]
    BY <1>3 DEF JReaders, Reads
  <2>2. n \in Nat /\ acked \in SUBSET Nat /\ Len(Files) = n + 1
    BY <1>1, FilesAre DEF JCore, JLines, JWriters
  <2>3. rr \in Views /\ rr.at = "listed" /\ rr.listed = n /\ rr.began = acked
    BY <1>1, <2>1, <2>2 DEF Views
  <2>4. \A h \in rr.began : Near(Files, h, rr.listed + 1)
    BY <1>3, <2>2, <2>3 DEF JReaders
  <2> QED BY <2>2, <2>3, <2>4 DEF Reads
<1> QED BY <1>2, <1>3, ReaderMoves

LEMMA OpenFiles_step ==
  ASSUME JCore, JReaders, NEW r \in Readers, OpenFiles(r)
  PROVE  JReaders'
<1>1. PICK f, rr : f = (IF open = <<>> THEN 0 ELSE Len(segs) + 1) /\ rr = [reader[r] EXCEPT !.at = "opened", !.file = f]
  OBVIOUS
<1>2. UNCHANGED <<segs, open, acked, tampered>> /\ reader' = [reader EXCEPT ![r] = rr] /\ reader[r].at = "listed"
  BY <1>1 DEF OpenFiles
<1>3. ASSUME ~tampered PROVE Reads(rr, Files)
  <2>1. PICK v \in Views : v = reader[r] /\ Reads(v, Files) /\ v.at = "listed"
    BY <1>2, <1>3 DEF JReaders, Reads
  <2>2. PICK F : F = Files
    OBVIOUS
  <2>3. F \in Journals /\ Len(F) = Len(segs) + 1 /\ Len(segs) \in Nat /\ F[Len(segs) + 1] = open
    BY <2>2, FilesAre DEF JCore
  <2>4. rr \in Views /\ rr.at = "opened" /\ rr.listed = v.listed /\ rr.began = v.began /\ rr.file = f
    <3>1. f \in Nat
      BY <1>1, <2>3
    <3> QED BY <1>1, <2>1, <3>1 DEF Views
  <2>5. v.listed + 1 <= Len(F) /\ \A h \in v.began : Near(F, h, v.listed + 1)
    BY <2>1, <2>2 DEF Reads
  <2>6. ASSUME Len(F) = v.listed + 1
        PROVE  f \in {0, v.listed + 1} /\ (f = 0 => \A h \in v.began : Near(F, h, v.listed))
    <3>1. v.listed \in Nat
      BY DEF Views
    <3>2. f \in {0, v.listed + 1}
      BY <1>1, <2>3, <2>6, <3>1
    <3>3. ASSUME f = 0, NEW h \in v.began PROVE Near(F, h, v.listed)
      <4>1. PICK k, i : Here(F, k, i) /\ k <= v.listed + 1 /\ F[k][i].hash = h
        BY <2>5 DEF Near
      <4>2. open = <<>>
        BY <1>1, <2>3, <3>3
      <4>3. k # v.listed + 1 /\ k \in Nat
        BY <2>3, <2>6, <4>1, <4>2 DEF Here
      <4> QED BY <3>1, <4>1, <4>3 DEF Near
    <3> QED BY <3>2, <3>3
  <2> QED BY <2>2, <2>4, <2>5, <2>6 DEF Reads
<1> QED BY <1>2, <1>3, ReaderMoves

LEMMA Agree_step ==
  ASSUME JCore, JReaders, NEW r \in Readers, Agree(r)
  PROVE  JReaders'
<1>1. UNCHANGED <<segs, open, acked, tampered>> /\ reader[r].at = "opened"
  BY DEF Agree
<1>2. PICK n : n = Len(segs)
  OBVIOUS
<1>3. n \in Nat /\ Len(Files) = n + 1
  BY <1>2, FilesAre DEF JCore
<1>4. CASE n = reader[r].listed
  <2>1. PICK rr : rr = [reader[r] EXCEPT !.at = "agreed"]
    OBVIOUS
  <2>2. reader' = [reader EXCEPT ![r] = rr]
    BY <1>2, <1>4, <2>1 DEF Agree, ListedAgain
  <2>3. ASSUME ~tampered PROVE Reads(rr, Files)
    <3>1. PICK v \in Views : v = reader[r] /\ Reads(v, Files) /\ v.at = "opened" /\ v.listed = n
      BY <1>1, <1>4, <2>3 DEF JReaders, Reads
    <3>2. rr \in Views /\ rr.at = "agreed" /\ rr.listed = v.listed /\ rr.began = v.began /\ rr.file = v.file
      BY <2>1, <3>1 DEF Views
    <3> QED BY <1>3, <3>1, <3>2 DEF Reads
  <2> QED BY <1>1, <2>2, <2>3, ReaderMoves
<1>5. CASE n # reader[r].listed
  <2>1. PICK rr : rr = [reader[r] EXCEPT !.at = "listed", !.listed = n, !.file = 0]
    OBVIOUS
  <2>2. reader' = [reader EXCEPT ![r] = rr]
    BY <1>2, <1>5, <2>1 DEF Agree, ListedAgain
  <2>3. ASSUME ~tampered PROVE Reads(rr, Files)
    <3>1. PICK v \in Views : v = reader[r] /\ Reads(v, Files) /\ v.at = "opened"
      BY <1>1, <2>3 DEF JReaders, Reads
    <3>2. rr \in Views /\ rr.at = "listed" /\ rr.listed = n /\ rr.began = v.began
      BY <1>3, <2>1, <3>1 DEF Views
    <3>3. \A h \in v.began : Near(Files, h, v.listed + 1) /\ v.listed + 1 <= n + 1 /\ v.listed \in Nat
      BY <1>3, <3>1 DEF Reads, Views
    <3>4. ASSUME NEW h \in v.began PROVE Near(Files, h, n + 1)
      <4>1. PICK k, i : Here(Files, k, i) /\ k <= v.listed + 1 /\ Files[k][i].hash = h
        BY <3>3 DEF Near
      <4>2. k \in Nat
        BY <4>1, <1>3 DEF Here
      <4> QED BY <1>3, <3>3, <4>1, <4>2 DEF Near
    <3> QED BY <1>3, <3>2, <3>4 DEF Reads
  <2> QED BY <1>1, <2>2, <2>3, ReaderMoves
<1> QED BY <1>4, <1>5

\* What a reader reads of files F of which it listed n and opened f.
Reading(F, n, f) == [k \in 1..n + 1 |-> IF k <= n \/ f = n + 1 THEN Hashes(F[k]) ELSE <<>>]

LEMMA HashesIs ==
  ASSUME NEW o \in Seq(Entry)
  PROVE  Hashes(o) \in Seq(Int) /\ Len(Hashes(o)) = Len(o) /\ \A i \in 1..Len(o) : Hashes(o)[i] = o[i].hash
<1>1. DOMAIN o = 1..Len(o) /\ Len(o) \in Nat /\ \A i \in 1..Len(o) : o[i].hash \in Int
  <2>1. \A i \in 1..Len(o) : o[i] \in Entry
    OBVIOUS
  <2>2. \A x \in Entry : x.hash \in Int
    BY DEF Entry
  <2> QED BY <2>1, <2>2
<1>2. Hashes(o) = [i \in 1..Len(o) |-> o[i].hash]
  BY <1>1 DEF Hashes
<1>3. Hashes(o) \in [1..Len(o) -> Int]
  BY <1>1, <1>2
<1> QED BY <1>1, <1>2, <1>3

ReadingFacts(F, n, saw, began) ==
  /\ saw \in Seq(Seq(Int)) /\ Len(saw) = n + 1
  /\ \A k \in 1..n + 1 :
       /\ Len(saw[k]) <= Len(F[k])
       /\ k < n + 1 => Len(saw[k]) = Len(F[k])
       /\ \A i \in 1..Len(saw[k]) : saw[k][i] = F[k][i].hash
  /\ \A h \in began : \E k \in 1..n + 1 : \E i \in 1..Len(saw[k]) : saw[k][i] = h
LEMMA ReadingIs ==
  ASSUME NEW F \in Journals, NEW n \in Nat, NEW f \in {0, n + 1}, n + 1 <= Len(F), NEW began,
         \A h \in began : Near(F, h, n + 1), f = 0 => \A h \in began : Near(F, h, n)
  PROVE  ReadingFacts(F, n, Reading(F, n, f), began)
<1>1. PICK saw : saw = Reading(F, n, f)
  OBVIOUS
<1>2. \A k \in 1..n + 1 : k \in 1..Len(F) /\ F[k] \in Seq(Entry) /\ Len(F[k]) \in Nat
  BY DEF Journals
<1>3. \A k \in 1..n + 1 : saw[k] = IF k <= n \/ f = n + 1 THEN Hashes(F[k]) ELSE <<>>
  BY <1>1 DEF Reading
<1>4. ASSUME NEW k \in 1..n + 1
      PROVE  /\ saw[k] \in Seq(Int) /\ Len(saw[k]) <= Len(F[k])
             /\ k <= n \/ f = n + 1 => Len(saw[k]) = Len(F[k])
             /\ \A i \in 1..Len(saw[k]) : saw[k][i] = F[k][i].hash
  <2>1. CASE k <= n \/ f = n + 1
    <3>1. PICK o \in Seq(Entry) : o = F[k]
      BY <1>2
    <3>2. saw[k] = Hashes(o)
      BY <1>3, <2>1, <3>1
    <3> QED BY <1>2, <3>1, <3>2, HashesIs
  <2>2. CASE ~(k <= n \/ f = n + 1)
    <3>1. saw[k] = <<>>
      BY <1>3, <2>2
    <3>2. <<>> \in Seq(Int) /\ Len(<<>>) = 0
      BY EmptySeq
    <3> QED BY <1>2, <2>2, <3>1, <3>2
  <2> QED BY <2>1, <2>2
<1>5. saw \in Seq(Seq(Int)) /\ Len(saw) = n + 1
  <2>1. saw \in [1..n + 1 -> Seq(Int)]
    BY <1>1, <1>4 DEF Reading
  <2> QED BY <2>1
<1>6. ASSUME NEW h \in began
      PROVE  \E k \in 1..n + 1 : \E i \in 1..Len(saw[k]) : saw[k][i] = h
  <2>1. PICK m \in {n, n + 1} : Near(F, h, m) /\ (m = n \/ f = n + 1)
    OBVIOUS
  <2>2. PICK k, i : Here(F, k, i) /\ k <= m /\ F[k][i].hash = h
    BY <2>1 DEF Near
  <2>3. k \in 1..n + 1 /\ (k <= n \/ f = n + 1)
    BY <2>1, <2>2 DEF Here, Journals
  <2>4. i \in 1..Len(saw[k]) /\ saw[k][i] = h
    BY <1>4, <2>2, <2>3 DEF Here
  <2> QED BY <2>3, <2>4
<1>7. \A k \in 1..n + 1 : k < n + 1 => k <= n
  OBVIOUS
<1>8. ReadingFacts(F, n, saw, began)
  BY <1>4, <1>5, <1>6, <1>7 DEF ReadingFacts
<1> QED BY <1>1, <1>8

LEMMA Read_step ==
  ASSUME JCore, JReaders, NEW r \in Readers, Read(r)
  PROVE  JReaders'
<1>1. PICK saw, rr : /\ saw = [k \in 1..reader[r].listed + 1 |->
                               Hashes(IF k <= reader[r].listed THEN segs[k] ELSE File(reader[r].file))]
                     /\ rr = [reader[r] EXCEPT !.at = "done", !.saw = saw]
  OBVIOUS
<1>2. UNCHANGED <<segs, open, acked, tampered>> /\ reader[r].at = "agreed" /\ reader' = [reader EXCEPT ![r] = rr]
  BY <1>1 DEF Read
<1>3. ASSUME ~tampered PROVE Reads(rr, Files)
  <2>1. PICK v \in Views : v = reader[r] /\ Reads(v, Files) /\ v.at = "agreed"
    BY <1>2, <1>3 DEF JReaders, Reads
  <2>2. PICK F, n, f, began : F = Files /\ n = v.listed /\ f = v.file /\ began = v.began
    OBVIOUS
  <2>3. /\ F \in Journals /\ Len(F) = Len(segs) + 1 /\ Len(segs) \in Nat /\ F[Len(segs) + 1] = open
        /\ \A k \in 1..Len(segs) : F[k] = segs[k]
    BY <2>2, FilesAre DEF JCore
  <2>4. /\ n \in Nat /\ n + 1 <= Len(F) /\ f \in {0, n + 1}
        /\ \A h \in began : Near(F, h, n + 1)
        /\ f = 0 => \A h \in began : Near(F, h, n)
    BY <2>1, <2>2 DEF Reads, Views
  <2>5. saw = Reading(F, n, f)
    <3>1. ASSUME NEW k \in 1..n + 1
          PROVE  Hashes(IF k <= n THEN segs[k] ELSE File(f)) = IF k <= n \/ f = n + 1 THEN Hashes(F[k]) ELSE <<>>
      <4>1. CASE k <= n
        <5>1. k \in 1..Len(segs)
          BY <2>3, <2>4, <4>1
        <5> QED BY <2>3, <4>1, <5>1
      <4>2. CASE k = n + 1 /\ f = n + 1
        <5>1. File(f) = F[k]
          <6>1. CASE n + 1 <= Len(segs)
            <7>1. k \in 1..Len(segs) /\ f # 0
              BY <2>3, <2>4, <4>2, <6>1
            <7> QED BY <2>3, <4>2, <6>1, <7>1 DEF File
          <6>2. CASE n = Len(segs)
            <7>1. f # 0 /\ ~(f <= Len(segs))
              BY <2>3, <4>2, <6>2
            <7> QED BY <2>3, <4>2, <6>2, <7>1 DEF File
          <6> QED BY <2>3, <2>4, <6>1, <6>2
        <5>2. ~(k <= n)
          BY <2>4, <4>2
        <5> QED BY <4>2, <5>1, <5>2
      <4>3. CASE k = n + 1 /\ f = 0
        <5>1. ~(k <= n) /\ f # n + 1
          BY <2>4, <4>3
        <5>2. Hashes(<<>>) = <<>>
          <6>1. PICK o : o = <<>>
            OBVIOUS
          <6>2. o \in Seq(Entry) /\ Len(o) = 0
            BY <6>1
          <6>3. Hashes(o) \in Seq(Int) /\ Len(Hashes(o)) = 0
            BY <6>2, HashesIs
          <6>4. Hashes(o) = <<>>
            BY <6>3, EmptySeq
          <6> QED BY <6>1, <6>4
        <5>3. File(f) = <<>>
          BY <4>3 DEF File
        <5> QED BY <5>1, <5>2, <5>3
      <4> QED BY <2>4, <4>1, <4>2, <4>3
    <3>2. saw = [k \in 1..n + 1 |-> Hashes(IF k <= n THEN segs[k] ELSE File(f))]
      BY <1>1, <2>1, <2>2
    <3> QED BY <3>1, <3>2 DEF Reading
  <2>6. /\ saw \in Seq(Seq(Int)) /\ Len(saw) = n + 1
        /\ \A k \in 1..n + 1 :
             /\ Len(saw[k]) <= Len(F[k])
             /\ k < n + 1 => Len(saw[k]) = Len(F[k])
             /\ \A i \in 1..Len(saw[k]) : saw[k][i] = F[k][i].hash
        /\ \A h \in began : \E k \in 1..n + 1 : \E i \in 1..Len(saw[k]) : saw[k][i] = h
    <3>1. ReadingFacts(F, n, saw, began)
      BY <2>3, <2>4, <2>5, ReadingIs
    <3> QED BY <3>1 DEF ReadingFacts
  <2>7. rr \in Views /\ rr.at = "done" /\ rr.saw = saw /\ rr.began = began
    BY <1>1, <2>1, <2>2, <2>6 DEF Views
  <2>8. Len(F) \in Nat /\ n + 1 \in Nat
    BY <2>3, <2>4
  <2>9. Reads(rr, F)
    <3>1. Len(rr.saw) = n + 1 /\ Len(rr.saw) <= Len(F)
      BY <2>4, <2>6, <2>7
    <3>2. rr.at = "done" /\ rr \in Views
      BY <2>7
    <3>3. \A k \in 1..Len(rr.saw) :
            /\ Len(rr.saw[k]) <= Len(F[k])
            /\ k < Len(rr.saw) => Len(rr.saw[k]) = Len(F[k])
            /\ \A i \in 1..Len(rr.saw[k]) : rr.saw[k][i] = F[k][i].hash
      BY <2>6, <2>7
    <3>4. \A h \in rr.began : \E k \in 1..Len(rr.saw) : \E i \in 1..Len(rr.saw[k]) : rr.saw[k][i] = h
      BY <2>6, <2>7
    <3> QED BY <3>1, <3>2, <3>3, <3>4 DEF Reads
  <2> QED BY <2>2, <2>9
<1> QED BY <1>2, <1>3, ReaderMoves

LEMMA ReadersStep ==
  ASSUME JCore, JReaders, [Next]_vars, JCore'
  PROVE  JReaders'
<1>1. SUFFICES ASSUME ~tampered' PROVE JReaders'
  BY DEF JReaders
<1>2. ~tampered
  BY <1>1 DEF Next, vars, Ask, Locked, Refuse, FinishClose, Rename, CloseFails, Name, NothingToClose, Chain, Written,
              Die, List, OpenFiles, Agree, Read, NextDay, Tamper
<1>3. CASE reader' = reader
  <2>1. PICK F, G : F = Files /\ G = Files'
    OBVIOUS
  <2>2. F \in Journals /\ G \in Journals /\ Extends(F, G)
    BY <1>1, <1>2, <2>1, StepKeeps DEF StepFacts
  <2>3. \A r \in Readers : Reads(reader[r], G)
    <3>1. ASSUME NEW r \in Readers PROVE Reads(reader[r], G)
      <4>1. PICK rr : rr = reader[r]
        OBVIOUS
      <4>2. Reads(rr, F)
        BY <1>2, <2>1, <4>1 DEF JReaders
      <4> QED BY <2>2, <4>1, <4>2, ReadsStay
    <3> QED BY <3>1
  <2>4. Len(F) <= Len(G) /\ Len(F) \in Nat /\ Len(G) \in Nat
    BY <2>2 DEF Extends, Journals
  <2>5. \A h \in acked : Near(G, h, Len(G))
    <3>1. ASSUME NEW h \in acked PROVE Near(G, h, Len(G))
      <4>1. Near(F, h, Len(F))
        BY <1>2, <2>1 DEF JReaders
      <4>2. Near(G, h, Len(F))
        BY <2>2, <4>1, NearStays
      <4> QED BY <2>4, <4>2 DEF Near, Here
    <3> QED BY <3>1
  <2>6. \A h \in acked' : h \in acked \/ Near(G, h, Len(G))
    <3>1. CASE acked' = acked
      BY <3>1
    <3>2. ASSUME NEW w \in Writers, Written(w)
          PROVE  \A h \in acked' : h \in acked \/ Near(G, h, Len(G))
      <4>1. open # <<>> /\ \A h \in acked' : h \in acked \/ h = Last(open).hash
        BY <3>2 DEF Written, JCore, JWriters, Found
      <4>2. PICK o, i, h : o = open /\ i = Len(o) /\ h = Last(o).hash
        OBVIOUS
      <4>3. o \in Seq(Entry) /\ i \in 1..Len(o) /\ h = o[i].hash
        BY <4>1, <4>2, EmptySeq DEF JCore, JLines, Last
      <4>4. PICK n : n = Len(F)
        OBVIOUS
      <4>5. n \in 1..Len(F) /\ F[n] = o
        BY <2>1, <4>2, <4>4, FilesAre DEF JCore
      <4>6. Near(F, h, n)
        BY <4>3, <4>5 DEF Near, Here
      <4>7. Near(G, h, n)
        BY <2>2, <4>6, NearStays
      <4>8. Near(G, h, Len(G))
        BY <2>4, <4>4, <4>7 DEF Near, Here
      <4> QED BY <4>1, <4>2, <4>8
    <3> QED
      BY <3>1, <3>2 DEF Next, vars, Ask, Locked, Refuse, FinishClose, Rename, CloseFails, Name, NothingToClose, Chain,
                        Die, List, OpenFiles, Agree, Read, NextDay, Tamper
  <2> QED BY <1>2, <1>3, <2>1, <2>3, <2>5, <2>6 DEF JReaders
<1>4. ASSUME NEW r \in Readers, List(r) \/ OpenFiles(r) \/ Agree(r) \/ Read(r)
      PROVE  JReaders'
  BY <1>4, List_step, OpenFiles_step, Agree_step, Read_step
<1> QED
  BY <1>3, <1>4 DEF Next, vars, Ask, Locked, Refuse, FinishClose, Rename, CloseFails, Name, NothingToClose, Chain,
                    Written, Die, NextDay, Tamper

LEMMA SeesAll ==
  ASSUME JCore, JReaders
  PROVE  ReaderSeesAll
<1>1. SUFFICES ASSUME NEW r \in Readers, reader[r].at = "done", ~tampered, NEW saw, saw = reader[r].saw
               PROVE  /\ \A h \in reader[r].began : \E k \in DOMAIN saw : Contains(saw[k], h)
                      /\ Len(saw) <= Len(Files)
                      /\ \A k \in DOMAIN saw :
                           /\ IsPrefix(saw[k], Hashes(Files[k]))
                           /\ k < Len(saw) => saw[k] = Hashes(Files[k])
  BY DEF ReaderSeesAll
<1>2. PICK F, v, began : F = Files /\ v = reader[r] /\ began = v.began
  OBVIOUS
<1>3. F \in Journals
  BY <1>2, FilesAre DEF JCore
<1>4. Reads(v, F) /\ v \in Views /\ v.at = "done" /\ saw = v.saw
  BY <1>1, <1>2 DEF JReaders, Reads
<1>5. saw \in Seq(Seq(Int)) /\ DOMAIN saw = 1..Len(saw) /\ Len(saw) \in Nat
  BY <1>4 DEF Views
<1>6. /\ Len(saw) <= Len(F)
      /\ \A k \in 1..Len(saw) :
            /\ Len(saw[k]) <= Len(F[k])
            /\ k < Len(saw) => Len(saw[k]) = Len(F[k])
            /\ \A i \in 1..Len(saw[k]) : saw[k][i] = F[k][i].hash
      /\ \A h \in began : \E k \in 1..Len(saw) : \E i \in 1..Len(saw[k]) : saw[k][i] = h
  BY <1>2, <1>4 DEF Reads
<1>7. ASSUME NEW k \in 1..Len(saw)
      PROVE  IsPrefix(saw[k], Hashes(F[k])) /\ (k < Len(saw) => saw[k] = Hashes(F[k]))
  <2>1. PICK o, x : o = F[k] /\ x = saw[k]
    OBVIOUS
  <2>2. o \in Seq(Entry) /\ x \in Seq(Int)
    BY <1>3, <1>5, <1>6, <2>1 DEF Journals
  <2>3. PICK y : y = Hashes(o)
    OBVIOUS
  <2>4. y \in Seq(Int) /\ Len(y) = Len(o) /\ \A i \in 1..Len(o) : y[i] = o[i].hash
    BY <2>2, <2>3, HashesIs
  <2>5. Len(x) <= Len(y) /\ Len(x) \in Nat /\ Len(y) \in Nat /\ \A i \in 1..Len(x) : x[i] = y[i]
    BY <1>6, <2>1, <2>2, <2>4
  <2>6. SubSeq(x, 1, Len(x)) = SubSeq(y, 1, Len(x))
    BY <2>2, <2>4, <2>5
  <2>7. k < Len(saw) => x = y
    <3>1. k < Len(saw) => Len(x) = Len(y)
      BY <1>6, <2>1, <2>4
    <3> QED BY <2>2, <2>4, <2>5, <3>1, SeqEqual
  <2> QED BY <2>1, <2>3, <2>5, <2>6, <2>7 DEF IsPrefix
<1> QED BY <1>2, <1>5, <1>6, <1>7 DEF Contains

-----------------------------------------------------------------------------
(* The end of the journal, read backwards.                                 *)
(* What a recursive function computes is shown by the least argument it    *)
(* would be wrong for.                                                     *)

\* f[i] is the first i files, one after the other.
Flat(F, f, n) == f = [i \in 1..n |-> IF i = 1 THEN F[i] ELSE f[i - 1] \o F[i]]
LEMMA FlatExists ==
  ASSUME NEW F, NEW m \in Nat
  PROVE  \E f : Flat(F, f, m)
<1>1. PICK T \in SUBSET Nat : T = {n \in Nat : ~\E f : Flat(F, f, n)}
  OBVIOUS
<1>2. ASSUME T # {} PROVE FALSE
  <2>1. PICK n \in T : \A j \in T : n <= j
    BY <1>2, NatMin
  <2>2. n \in Nat /\ ~\E f : Flat(F, f, n)
    BY <1>1
  <2>3. CASE n = 0
    <3>1. PICK f : f = [i \in 1..0 |-> 0]
      OBVIOUS
    <3>2. 1..0 = {}
      OBVIOUS
    <3>3. f = [i \in 1..0 |-> IF i = 1 THEN F[i] ELSE f[i - 1] \o F[i]]
      BY <3>1, <3>2
    <3> QED BY <2>2, <2>3, <3>3 DEF Flat
  <2>4. CASE n # 0
    <3>1. n - 1 \in Nat /\ n - 1 \notin T
      BY <2>1, <2>2, <2>4
    <3>2. PICK g : g = [i \in 1..n - 1 |-> IF i = 1 THEN F[i] ELSE g[i - 1] \o F[i]]
      BY <1>1, <3>1 DEF Flat
    <3>3. PICK f : f = [i \in 1..n |-> IF i = 1 THEN F[i] ELSE g[i - 1] \o F[i]]
      OBVIOUS
    <3>4. \A i \in 1..n - 1 : f[i] = g[i]
      <4>1. ASSUME NEW i \in 1..n - 1 PROVE f[i] = g[i]
        <5>1. i \in 1..n
          BY <2>2
        <5>2. f[i] = IF i = 1 THEN F[i] ELSE g[i - 1] \o F[i]
          BY <3>3, <5>1
        <5>3. g[i] = IF i = 1 THEN F[i] ELSE g[i - 1] \o F[i]
          BY <3>2, Zenon
        <5> QED BY <5>2, <5>3
      <4> QED BY <4>1
    <3>5. \A i \in 1..n : i = 1 \/ (i - 1 \in 1..n - 1 /\ f[i - 1] = g[i - 1])
      BY <2>2, <3>4
    <3>6. f = [i \in 1..n |-> IF i = 1 THEN F[i] ELSE f[i - 1] \o F[i]]
      BY <3>3, <3>5
    <3> QED BY <2>2, <3>6 DEF Flat
  <2> QED BY <2>3, <2>4
<1> QED BY <1>1, <1>2

LEMMA FlattenIs ==
  ASSUME NEW F, F \in Journals, Len(F) # 0
  PROVE  \E f : Flat(F, f, Len(F)) /\ FlattenSeq(F) = f[Len(F)]
<1>1. Len(F) \in Nat
  BY DEF Journals
<1>2. PICK f : f = CHOOSE g : Flat(F, g, Len(F))
  OBVIOUS
<1>3. Flat(F, f, Len(F))
  BY <1>1, <1>2, FlatExists
<1>4. FlattenSeq(F) = f[Len(F)]
  BY <1>2 DEF FlattenSeq, Flat
<1> QED BY <1>3, <1>4

\* How many lines the first i files have.
Size(f, i) == IF i = 0 THEN 0 ELSE Len(f[i])

FlatFacts(F, f, n) ==
  \A i \in 1..n :
    /\ f[i] \in Seq(Entry) /\ F[i] \in Seq(Entry) /\ Len(f[i]) = Size(f, i - 1) + Len(F[i]) /\ Size(f, i - 1) \in Nat
    /\ \A j \in 1..Len(F[i]) : f[i][Size(f, i - 1) + j] = F[i][j]
    /\ \A j \in 1..Size(f, i - 1) : f[i][j] = f[i - 1][j]
LEMMA FlatFiles ==
  ASSUME NEW F \in Journals, NEW n \in Nat, n = Len(F), NEW f, Flat(F, f, n)
  PROVE  FlatFacts(F, f, n)
<1>1. \A i \in 1..n : f[i] = IF i = 1 THEN F[i] ELSE f[i - 1] \o F[i]
  BY DEF Flat
<1>2. \A i \in 1..n : F[i] \in Seq(Entry)
  BY DEF Journals
<1>a. PICK T : T = {i \in 1..n : f[i] \notin Seq(Entry)}
  OBVIOUS
<1>3. T \in SUBSET Nat /\ \A i : i \in T <=> i \in 1..n /\ f[i] \notin Seq(Entry)
  BY <1>a
<1>4. ASSUME T # {} PROVE FALSE
  <2>1. PICK i \in T : \A j \in T : i <= j
    BY <1>3, <1>4, NatMin
  <2>2. i \in 1..n /\ f[i] \notin Seq(Entry)
    BY <1>3
  <2>3. CASE i = 1
    BY <1>1, <1>2, <2>2, <2>3
  <2>4. CASE i # 1
    <3>1. i - 1 \in 1..n /\ i - 1 \notin T
      BY <2>1, <2>2, <2>4
    <3>2. f[i - 1] \in Seq(Entry) /\ F[i] \in Seq(Entry) /\ f[i] = f[i - 1] \o F[i]
      BY <1>1, <1>2, <1>3, <2>2, <2>4, <3>1
    <3> QED BY <2>2, <3>2
  <2> QED BY <2>3, <2>4
<1>5. \A i \in 1..n : f[i] \in Seq(Entry)
  BY <1>3, <1>4
<1>6. ASSUME NEW i \in 1..n
      PROVE  /\ Len(f[i]) = Size(f, i - 1) + Len(F[i]) /\ Size(f, i - 1) \in Nat
             /\ \A j \in 1..Len(F[i]) : f[i][Size(f, i - 1) + j] = F[i][j]
             /\ \A j \in 1..Size(f, i - 1) : f[i][j] = f[i - 1][j]
  <2>1. CASE i = 1
    <3>1. Size(f, i - 1) = 0 /\ f[i] = F[i] /\ F[i] \in Seq(Entry)
      BY <1>1, <1>2, <2>1 DEF Size
    <3>2. \A j \in 1..Len(F[i]) : 0 + j = j
      OBVIOUS
    <3> QED BY <3>1, <3>2
  <2>2. CASE i # 1
    <3>1. i - 1 \in 1..n /\ i - 1 # 0
      BY <2>2
    <3>2. PICK a, b, c : a = f[i - 1] /\ b = F[i] /\ c = f[i]
      OBVIOUS
    <3>3. a \in Seq(Entry) /\ b \in Seq(Entry) /\ c = a \o b
      BY <1>1, <1>2, <1>5, <2>2, <3>1, <3>2
    <3>4. Len(c) = Len(a) + Len(b) /\ \A j \in 1..Len(a) + Len(b) : c[j] = IF j <= Len(a) THEN a[j] ELSE b[j - Len(a)]
      BY <3>3, ConcatProperties
    <3>5. Size(f, i - 1) = Len(a) /\ Len(a) \in Nat /\ Len(b) \in Nat
      BY <3>1, <3>2, <3>3 DEF Size
    <3>6. ASSUME NEW j \in 1..Len(b) PROVE c[Len(a) + j] = b[j]
      <4>1. PICK h : h = Len(a) + j
        OBVIOUS
      <4>2. h \in 1..Len(a) + Len(b) /\ ~(h <= Len(a)) /\ h - Len(a) = j
        BY <3>5, <4>1
      <4> QED BY <3>4, <4>1, <4>2
    <3>7. \A j \in 1..Len(a) : c[j] = a[j]
      BY <3>4, <3>5
    <3> QED BY <3>2, <3>4, <3>5, <3>6, <3>7
  <2> QED BY <2>1, <2>2
<1> QED BY <1>2, <1>5, <1>6 DEF FlatFacts

\* The first i files are where all the files begin.
LEMMA FlatBegins ==
  ASSUME NEW F \in Journals, NEW n \in Nat, n = Len(F), NEW f, Flat(F, f, n)
  PROVE  \A i \in 1..n : Len(f[i]) <= Len(f[n]) /\ \A j \in 1..Len(f[i]) : f[n][j] = f[i][j]
<1>1. \A i \in 1..n : /\ f[i] \in Seq(Entry) /\ Len(f[i]) = Size(f, i - 1) + Len(F[i]) /\ F[i] \in Seq(Entry)
                      /\ \A j \in 1..Size(f, i - 1) : f[i][j] = f[i - 1][j]
  <2>1. FlatFacts(F, f, n)
    BY FlatFiles
  <2> QED BY <2>1 DEF FlatFacts
<1> DEFINE Ok(i) == Len(f[i]) <= Len(f[n]) /\ \A j \in 1..Len(f[i]) : f[n][j] = f[i][j]
<1>2. PICK T \in SUBSET Nat : T = {d \in Nat : d < n /\ ~Ok(n - d)}
  OBVIOUS
<1>3. ASSUME T # {} PROVE FALSE
  <2>1. PICK d \in T : \A j \in T : d <= j
    BY <1>3, NatMin
  <2>2. d \in Nat /\ d < n /\ ~Ok(n - d)
    BY <1>2
  <2>3. PICK i : i = n - d
    OBVIOUS
  <2>4. i \in 1..n /\ ~Ok(i) /\ i \in Nat
    BY <2>2, <2>3
  <2>5. CASE d = 0
    <3>1. i = n
      BY <2>3, <2>5
    <3>2. Len(f[n]) \in Nat
      BY <1>1, <2>4, <3>1
    <3> QED BY <2>4, <3>1, <3>2
  <2>6. CASE d # 0
    <3>1. d - 1 \in Nat /\ d - 1 < n /\ d - 1 \notin T /\ n - (d - 1) = i + 1 /\ i + 1 \in 1..n
      BY <2>1, <2>2, <2>3, <2>6
    <3>2. Ok(i + 1)
      BY <1>2, <3>1
    <3>3. PICK m : m = i + 1
      OBVIOUS
    <3>4. Size(f, m - 1) = Len(f[i]) /\ m - 1 = i /\ m \in 1..n
      BY <2>4, <3>1, <3>3 DEF Size
    <3>5. Len(f[m]) = Len(f[i]) + Len(F[m]) /\ Len(F[m]) \in Nat /\ Len(f[i]) \in Nat /\ Len(f[n]) \in Nat
      <4>1. n \in 1..n
        BY <2>2
      <4>2. f[m] \in Seq(Entry) /\ F[m] \in Seq(Entry) /\ Len(f[m]) = Size(f, m - 1) + Len(F[m])
        BY <1>1, <3>4
      <4>3. f[i] \in Seq(Entry) /\ f[n] \in Seq(Entry)
        BY <1>1, <2>4, <4>1
      <4>4. Len(f[i]) \in Nat /\ Len(f[n]) \in Nat
        BY <4>3
      <4>5. Len(F[m]) \in Nat
        BY <4>2
      <4>6. Len(f[m]) = Len(f[i]) + Len(F[m])
        BY <3>4, <4>2
      <4> QED BY <4>4, <4>5, <4>6
    <3>a. PICK a, b, c, x : a = Len(f[i]) /\ b = Len(f[m]) /\ c = Len(F[m]) /\ x = Len(f[n])
      OBVIOUS
    <3>b. a \in Nat /\ c \in Nat /\ x \in Nat /\ b = a + c
      BY <3>5, <3>a
    <3>6. \A j \in 1..Len(f[i]) : f[m][j] = f[i][j] /\ j \in 1..Len(f[m])
      <4>1. \A j \in 1..Size(f, m - 1) : f[m][j] = f[m - 1][j]
        BY <1>1, <3>4
      <4>2. \A j \in 1..Len(f[i]) : f[m][j] = f[i][j]
        BY <3>4, <4>1
      <4>3. \A j \in 1..a : j \in 1..b
        BY <3>b
      <4> QED BY <3>a, <4>2, <4>3
    <3>7. Len(f[m]) <= Len(f[n]) /\ \A j \in 1..Len(f[m]) : f[n][j] = f[m][j]
      BY <3>2, <3>3
    <3>8. Len(f[i]) <= Len(f[n])
      <4>1. b <= x
        BY <3>7, <3>a
      <4>2. a <= x
        BY <3>b, <4>1
      <4> QED BY <3>a, <4>2
    <3>9. \A j \in 1..Len(f[i]) : f[n][j] = f[i][j]
      BY <3>6, <3>7
    <3>10. Ok(i)
      BY <3>8, <3>9
    <3> QED BY <2>4, <3>10
  <2> QED BY <2>5, <2>6
<1>4. ASSUME NEW i \in 1..n PROVE Ok(i)
  <2>1. PICK d : d = n - i
    OBVIOUS
  <2>2. d \in Nat /\ d < n /\ d \notin T /\ n - d = i
    BY <1>3, <2>1
  <2> QED BY <1>2, <2>2
<1> QED BY <1>4

\* The next file back, of which as many lines are taken as are wanted.
Further(F, limit, k, have) ==
  LET file == F[Len(F) - k + 1]
      wanted == limit - Len(have)
      taken == IF wanted < Len(file) THEN wanted ELSE Len(file)
  IN SubSeq(file, Len(file) - taken + 1, Len(file)) \o have
Back(F, limit, w, m) == w = [k \in 0..m |-> IF k = 0 THEN <<>> ELSE Further(F, limit, k, w[k - 1])]
LEMMA BackExists ==
  ASSUME NEW F, NEW limit, NEW m \in Nat
  PROVE  \E w : Back(F, limit, w, m)
<1>1. PICK T \in SUBSET Nat : T = {n \in Nat : ~\E w : Back(F, limit, w, n)}
  OBVIOUS
<1>2. ASSUME T # {} PROVE FALSE
  <2>1. PICK n \in T : \A j \in T : n <= j
    BY <1>2, NatMin
  <2>2. n \in Nat /\ ~\E w : Back(F, limit, w, n)
    BY <1>1
  <2>3. CASE n = 0
    <3>1. PICK w : w = [k \in 0..0 |-> <<>>]
      OBVIOUS
    <3>2. \A k \in 0..0 : k = 0
      OBVIOUS
    <3>3. w = [k \in 0..0 |-> IF k = 0 THEN <<>> ELSE Further(F, limit, k, w[k - 1])]
      BY <3>1, <3>2
    <3> QED BY <2>2, <2>3, <3>3 DEF Back
  <2>4. CASE n # 0
    <3>1. n - 1 \in Nat /\ n - 1 \notin T
      BY <2>1, <2>2, <2>4
    <3>2. PICK v : v = [k \in 0..n - 1 |-> IF k = 0 THEN <<>> ELSE Further(F, limit, k, v[k - 1])]
      BY <1>1, <3>1 DEF Back
    <3>3. PICK w : w = [k \in 0..n |-> IF k = 0 THEN <<>> ELSE Further(F, limit, k, v[k - 1])]
      OBVIOUS
    <3>4. \A k \in 0..n - 1 : w[k] = v[k]
      BY <2>2, <3>2, <3>3
    <3>5. \A k \in 0..n : k = 0 \/ (k - 1 \in 0..n - 1 /\ w[k - 1] = v[k - 1])
      BY <2>2, <3>4
    <3>6. w = [k \in 0..n |-> IF k = 0 THEN <<>> ELSE Further(F, limit, k, w[k - 1])]
      BY <3>3, <3>5
    <3> QED BY <2>2, <3>6 DEF Back
  <2> QED BY <2>3, <2>4
<1> QED BY <1>1, <1>2

LEMMA TailLinesIs ==
  ASSUME NEW F, F = Files, Len(F) \in Nat, NEW limit
  PROVE  \E w : Back(F, limit, w, Len(F)) /\ TailLines(limit) = w[Len(F)]
<1>1. PICK w : w = CHOOSE v : Back(F, limit, v, Len(F))
  OBVIOUS
<1>2. Back(F, limit, w, Len(F))
  BY <1>1, BackExists
<1>3. TailLines(limit) = w[Len(F)]
  BY <1>1 DEF TailLines, Back, Further
<1> QED BY <1>2, <1>3

\* Of n lines, m are had and t are taken from a file of l lines that comes after a lines.
Fit(n, a, l, m, t) == t <= l /\ a + l + m <= n /\ (t = 0 \/ a + l + m = n)
Stands(x, file, a) == \A j \in 1..Len(file) : x[a + j] = file[j]
Final(x, m) == SubSeq(x, Len(x) - m + 1, Len(x))
\* The last lines of a file and the lines that come after that file, joined.
LEMMA LastJoined ==
  ASSUME NEW x \in Seq(Entry), NEW file \in Seq(Entry), NEW a \in Nat, NEW m \in Nat, NEW t \in Nat,
         Fit(Len(x), a, Len(file), m, t), Stands(x, file, a)
  PROVE  Final(file, t) \o Final(x, m) = Final(x, m + t)
<1>a. t <= Len(file) /\ a + Len(file) + m <= Len(x) /\ (t = 0 \/ a + Len(file) + m = Len(x))
  BY DEF Fit
<1>b. \A j \in 1..Len(file) : x[a + j] = file[j]
  BY DEF Stands
<1>1. PICK n, l : n = Len(x) /\ l = Len(file)
  OBVIOUS
<1>2. n \in Nat /\ l \in Nat /\ t <= l /\ a + l + m <= n /\ (t = 0 \/ a + l + m = n)
  BY <1>1, <1>a
<1>3. PICK b : b = SubSeq(x, n - m + 1, n)
  OBVIOUS
<1>4. \A i \in 1..n : x[i] \in Entry
  BY <1>1
<1>5. b \in Seq(Entry)
  <2>1. PICK p : p = n - m + 1
    OBVIOUS
  <2>2. p \in Int /\ 1 <= p
    BY <1>1, <1>2, <2>1
  <2>3. \A i \in p..n : x[i] \in Entry
    BY <1>2, <1>4, <2>2
  <2>4. SubSeq(x, p, n) \in Seq(Entry)
    BY <1>2, <2>2, <2>3, SubSeqProperties
  <2> QED BY <1>3, <2>1, <2>4
<1>6. CASE t = 0
  <2>1. SubSeq(file, l - t + 1, l) = <<>>
    BY <1>2, <1>6, SubSeqEmpty
  <2>2. <<>> \o b = b
    BY <1>5
  <2>3. m + t = m
    BY <1>6
  <2> QED BY <1>1, <1>3, <2>1, <2>2, <2>3 DEF Final
<1>7. CASE t # 0
  <2>1. a + l + m = n
    BY <1>2, <1>7
  <2>2. PICK p : p = n - (m + t) + 1
    OBVIOUS
  <2>3. p \in 1..n + 1 /\ n - m \in p - 1..n /\ n \in n - m..n /\ p = a + (l - t) + 1 /\ n - m = a + l
    BY <1>2, <2>1, <2>2
  <2>4. SubSeq(x, p, n - m) \o SubSeq(x, n - m + 1, n) = SubSeq(x, p, n)
    BY <1>1, <2>3, ConcatAdjacentSubSeq
  <2>5. PICK u, v : u = SubSeq(file, l - t + 1, l) /\ v = SubSeq(x, p, n - m)
    OBVIOUS
  <2>6. /\ u \in Seq(Entry) /\ Len(u) = t
        /\ \A i \in 1..t : u[i] = file[l - t + 1 + i - 1]
    <3>1. PICK q : q = l - t + 1
      OBVIOUS
    <3>2. q \in Int /\ l \in Int /\ q <= l /\ l - q + 1 = t /\ 1 <= q
      BY <1>2, <1>7, <3>1
    <3>3. \A i \in q..l : file[i] \in Entry
      BY <1>1, <1>2, <3>2
    <3>4. SubSeq(file, q, l) = u
      BY <2>5, <3>1
    <3>a. q \in Int /\ l \in Int
      BY <3>2
    <3>5. /\ SubSeq(file, q, l) \in Seq(Entry)
          /\ Len(SubSeq(file, q, l)) = IF q <= l THEN l - q + 1 ELSE 0
          /\ \A i \in 1..(l - q + 1) : SubSeq(file, q, l)[i] = file[q + i - 1]
      BY ONLY <3>a, <3>3, SubSeqProperties
    <3> QED BY <3>1, <3>2, <3>4, <3>5
  <2>7. /\ v \in Seq(Entry) /\ Len(v) = t
        /\ \A i \in 1..t : v[i] = x[p + i - 1]
    <3>1. p \in Int /\ n - m \in Int /\ p <= n - m /\ (n - m) - p + 1 = t
      BY <1>1, <1>2, <1>7, <2>2, <2>3
    <3>2. \A i \in p..n - m : x[i] \in Entry
      BY <1>2, <1>4, <2>3
    <3> QED BY <2>5, <3>1, <3>2, SubSeqProperties
  <2>8. ASSUME NEW i \in 1..t PROVE u[i] = v[i]
    <3>1. PICK j : j = l - t + i
      OBVIOUS
    <3>2. j \in 1..l /\ l - t + 1 + i - 1 = j /\ p + i - 1 = a + j
      BY <1>1, <1>2, <2>3, <3>1
    <3> QED BY <1>1, <1>b, <2>6, <2>7, <3>2
  <2>9. u = v
    BY <2>6, <2>7, <2>8, SeqEqual
  <2> QED BY <1>1, <2>2, <2>4, <2>5, <2>9 DEF Final
<1> QED BY <1>6, <1>7

\* How many of the last lines a walk has that has come to line `a`.
Had(limit, n, a) == IF limit < n - a THEN limit ELSE n - a

New(limit, l, m) == IF limit - m < l THEN limit - m ELSE l
HadFit(limit, n, a, l, m, t) == m \in Nat /\ m <= n /\ t \in Nat /\ Fit(n, a, l, m, t) /\ m + t = Had(limit, n, a)
LEMMA HadFacts ==
  ASSUME NEW limit \in Nat, NEW n \in Nat, NEW a \in Nat, NEW l \in Nat, a + l <= n
  PROVE  HadFit(limit, n, a, l, Had(limit, n, a + l), New(limit, l, Had(limit, n, a + l)))
BY DEF HadFit, Fit, Had, New

LEMMA LastLength ==
  ASSUME NEW x \in Seq(Entry), NEW m \in Nat, m <= Len(x)
  PROVE  Len(Final(x, m)) = m
<1>1. PICK n, p : n = Len(x) /\ p = n - m + 1
  OBVIOUS
<1>2. n \in Nat /\ p \in Int /\ 1 <= p
  BY <1>1
<1>3. \A h \in p..n : x[h] \in Entry
  BY <1>1, <1>2
<1>4. Len(SubSeq(x, p, n)) = IF p <= n THEN n - p + 1 ELSE 0
  BY <1>2, <1>3, SubSeqProperties
<1> QED BY <1>1, <1>2, <1>4 DEF Final

\* The walk takes, of the file it comes to, what is wanted and not yet there.
Taken(file, limit, have) == Final(file, New(limit, Len(file), Len(have))) \o have
Ending(x, limit, a) == Final(x, Had(limit, Len(x), a))
LEMMA TakenIs ==
  ASSUME NEW x \in Seq(Entry), NEW file \in Seq(Entry), NEW limit \in Nat, NEW a \in Nat,
         a + Len(file) <= Len(x), Stands(x, file, a)
  PROVE  Taken(file, limit, Ending(x, limit, a + Len(file))) = Ending(x, limit, a)
<1>1. Len(x) \in Nat /\ Len(file) \in Nat
  OBVIOUS
<1>2. PICK m, t : m = Had(limit, Len(x), a + Len(file)) /\ t = New(limit, Len(file), m)
  OBVIOUS
<1>3. HadFit(limit, Len(x), a, Len(file), m, t)
  BY <1>1, <1>2, HadFacts
<1>4. m \in Nat /\ m <= Len(x) /\ t \in Nat /\ Fit(Len(x), a, Len(file), m, t) /\ m + t = Had(limit, Len(x), a)
  BY <1>3 DEF HadFit
<1>5. Len(Final(x, m)) = m
  BY <1>4, LastLength
<1>6. Final(file, t) \o Final(x, m) = Final(x, m + t)
  BY <1>4, LastJoined
<1> QED BY <1>2, <1>4, <1>5, <1>6 DEF Taken, Ending

\* Reading the files from the last one back gives the end of all their lines.
LEMMA BackIs ==
  ASSUME NEW F \in Journals, NEW n \in Nat, n = Len(F), NEW f, Flat(F, f, n),
         NEW limit \in Nat, NEW w, Back(F, limit, w, n)
  PROVE  n = 0 \/ w[n] = Ending(f[n], limit, 0)
<1> SUFFICES ASSUME n # 0
             PROVE  w[n] = Ending(f[n], limit, 0)
  OBVIOUS
<1>1. FlatFacts(F, f, n)
  BY FlatFiles
<1>2. \A i \in 1..n : Len(f[i]) <= Len(f[n]) /\ \A j \in 1..Len(f[i]) : f[n][j] = f[i][j]
  BY FlatBegins
<1>3. PICK x : x = f[n]
  OBVIOUS
<1>4. x \in Seq(Entry) /\ Len(x) \in Nat
  BY <1>1, <1>3 DEF FlatFacts
<1>5. \A k \in 0..n : w[k] = IF k = 0 THEN <<>> ELSE Further(F, limit, k, w[k - 1])
  BY DEF Back
<1> DEFINE Ok(k) == w[k] = Ending(x, limit, Size(f, n - k))
<1>6. PICK T \in SUBSET Nat : T = {k \in Nat : k <= n /\ ~Ok(k)}
  OBVIOUS
<1>7. ASSUME T # {} PROVE FALSE
  <2>1. PICK k \in T : \A j \in T : k <= j
    BY <1>7, NatMin
  <2>2. k \in Nat /\ k <= n /\ ~Ok(k)
    BY <1>6
  <2>3. CASE k = 0
    <3>1. Size(f, n - k) = Len(x) /\ Had(limit, Len(x), Len(x)) = 0
      BY <1>3, <1>4, <2>3 DEF Size, Had
    <3>2. w[k] = <<>>
      BY <1>5, <2>2, <2>3
    <3>3. SubSeq(x, Len(x) - 0 + 1, Len(x)) = <<>>
      BY <1>4, SubSeqEmpty
    <3> QED BY <2>2, <3>1, <3>2, <3>3 DEF Ending, Final
  <2>4. CASE k # 0
    <3>1. k - 1 \in Nat /\ k - 1 <= n /\ k - 1 \notin T
      BY <2>1, <2>2, <2>4
    <3>2. Ok(k - 1)
      BY <1>6, <3>1
    <3>3. PICK i : i = n - k + 1
      OBVIOUS
    <3>4. i \in 1..n /\ i # 0 /\ n - (k - 1) = i /\ n - k = i - 1
      BY <2>2, <2>4, <3>3
    <3>5. PICK a, b, have : a = Size(f, i - 1) /\ b = Len(f[i]) /\ have = w[k - 1]
      OBVIOUS
    <3>6. /\ f[i] \in Seq(Entry) /\ F[i] \in Seq(Entry) /\ b = a + Len(F[i]) /\ a \in Nat
          /\ \A j \in 1..Len(F[i]) : f[i][a + j] = F[i][j]
      BY <1>1, <3>4, <3>5 DEF FlatFacts
    <3>7. b \in Nat /\ Size(f, i) = b
      <4>1. Size(f, i) = b
        BY <3>4, <3>5 DEF Size
      <4>2. Len(f[i]) \in Nat
        BY <3>6
      <4> QED BY <3>5, <4>1, <4>2
    <3>8. b <= Len(x) /\ \A j \in 1..b : x[j] = f[i][j]
      BY <1>2, <1>3, <3>4, <3>5
    <3>9. ASSUME NEW j \in 1..Len(F[i]) PROVE x[a + j] = F[i][j]
      <4>1. PICK l, h : l = Len(F[i]) /\ h = a + j
        OBVIOUS
      <4>2. l \in Nat /\ b = a + l /\ j \in 1..l
        BY <3>6, <4>1
      <4>3. h \in 1..b
        BY <3>6, <4>1, <4>2
      <4> QED BY <3>6, <3>8, <4>1, <4>3
    <3>10. have = Ending(x, limit, b)
      BY <3>2, <3>4, <3>5, <3>7
    <3>11. Further(F, limit, k, have) = Ending(x, limit, a)
      <4>1. PICK file : file = F[i]
        OBVIOUS
      <4>2. file \in Seq(Entry) /\ a + Len(file) = b
        BY <3>6, <4>1
      <4>3. Stands(x, file, a)
        BY <3>9, <4>1 DEF Stands
      <4>4. Taken(file, limit, Ending(x, limit, a + Len(file))) = Ending(x, limit, a)
        BY <1>4, <3>6, <3>8, <4>2, <4>3, TakenIs
      <4>5. Further(F, limit, k, have) = Taken(file, limit, have)
        BY <3>3, <4>1 DEF Further, Taken, Final, New
      <4> QED BY <3>10, <4>2, <4>4, <4>5
    <3>12. w[k] = Further(F, limit, k, have)
      BY <1>5, <2>2, <2>4, <3>5
    <3> QED BY <2>2, <3>4, <3>5, <3>11, <3>12
  <2> QED BY <2>3, <2>4
<1>8. n \notin T
  BY <1>7
<1>9. Ok(n)
  BY <1>6, <1>8
<1>10. Size(f, n - n) = 0
  BY DEF Size
<1> QED BY <1>3, <1>9, <1>10

LEMMA TailFound == JCore => TailIsEnd
<1> SUFFICES ASSUME JCore, NEW limit \in 1..Len(Lines)
             PROVE  TailLines(limit) = SubSeq(Lines, Len(Lines) - limit + 1, Len(Lines))
  BY DEF TailIsEnd
<1>1. PICK F : F = Files
  OBVIOUS
<1>2. F \in Journals /\ Len(F) \in Nat /\ Len(F) # 0
  <2>1. JLines
    BY DEF JCore
  <2>2. F \in Journals /\ Len(F) = Len(segs) + 1 /\ Len(segs) \in Nat
    BY <1>1, <2>1, FilesAre
  <2> QED BY <2>2
<1>3. PICK f : Flat(F, f, Len(F)) /\ FlattenSeq(F) = f[Len(F)]
  BY <1>2, FlattenIs
<1>4. PICK w : Back(F, limit, w, Len(F)) /\ TailLines(limit) = w[Len(F)]
  BY <1>1, <1>2, TailLinesIs
<1>5. PICK x : x = f[Len(F)]
  OBVIOUS
<1>6. Lines = x
  BY <1>1, <1>3, <1>5 DEF Lines
<1>7. Len(x) \in Nat
  <2>1. FlatFacts(F, f, Len(F))
    BY <1>2, <1>3, FlatFiles
  <2> QED BY <1>2, <1>5, <2>1 DEF FlatFacts
<1>8. limit \in Nat /\ limit <= Len(x)
  BY <1>6, <1>7
<1>9. w[Len(F)] = Ending(x, limit, 0)
  BY <1>2, <1>3, <1>4, <1>5, <1>8, BackIs
<1>10. Had(limit, Len(x), 0) = limit
  BY <1>7, <1>8 DEF Had
<1> QED BY <1>4, <1>6, <1>9, <1>10 DEF Ending, Final

\* A reader that holds no lock gets every entry acknowledged before it began, and gets
\* each closed segment whole and the open file up to some line of it, whatever segment
\* closes while it lists, opens and reads them (segments::snapshot); and the last lines
\* read backwards, file by file, are the last lines (tail_lines).
THEOREM ReadersMissNothing == Spec => []ReadersSeeAll
<1>1. Init => JCore /\ JReaders
  <2> SUFFICES ASSUME Init PROVE JCore /\ JReaders
    OBVIOUS
  <2>1. JCore
    BY CoreInit
  <2>2. acked = {} /\ reader = [r \in Readers |-> [at |-> "idle", listed |-> 0, file |-> 0, began |-> {}, saw |-> <<>>]]
    BY DEF Init
  <2>3. [at |-> "idle", listed |-> 0, file |-> 0, began |-> {}, saw |-> <<>>] \in Views
    <3>1. <<>> \in Seq(Seq(Int))
      BY EmptySeq
    <3> QED BY <3>1 DEF Views
  <2>4. ASSUME NEW r \in Readers PROVE Reads(reader[r], Files)
    <3>1. PICK v \in Views : v = reader[r] /\ v.at = "idle"
      BY <2>2, <2>3
    <3>2. Reads(v, Files)
      BY <3>1 DEF Reads
    <3> QED BY <3>1, <3>2
  <2> QED BY <2>1, <2>2, <2>4 DEF JReaders
<1>2. JCore /\ [Next]_vars => JCore'
  BY CoreStep
<1>3. JCore /\ JReaders /\ [Next]_vars /\ JCore' => JReaders'
  BY ReadersStep
<1>4. JCore /\ JReaders => ReadersSeeAll
  BY SeesAll, TailFound DEF ReadersSeeAll
<1> QED BY <1>1, <1>2, <1>3, <1>4, PTL DEF Spec
=============================================================================
