--------------------------- MODULE CertificateChain ---------------------------
\* The chain a TLS server shows, as the client checks it (crates/crypto x509): each
\* certificate read, the leaf against the host and the moment, then a walk from the
\* leaf, issuer by issuer, to a trust anchor.  A signature is symbolic: it names the
\* key that made it.  The moment is a day counted from 1970 (days_from_civil).
EXTENDS Integers, Sequences, SequencesExt

CONSTANTS MAX_CHAIN,  \* certificates a chain is walked through
          Shown,      \* the chains a server may show, leaf first
          Anchors,    \* the trust anchors: [subject, key]
          Host,       \* the host asked for: its labels
          FirstDay, LastDay  \* bound: the years whose days are counted

ASSUME ChainAssumption ==
  /\ MAX_CHAIN \in Nat /\ FirstDay \in Int /\ LastDay \in Int
  /\ \A shown \in Shown :
       /\ shown \in Seq(Range(shown))
       /\ \A c \in Range(shown) : c.notBefore \in Int /\ c.notAfter \in Int /\ c.ca \in Nat
                                 /\ c.keyCertSign \in {"absent", "TRUE", "FALSE"}

VARIABLES chain,  \* what the server sent
          walk,   \* verify_server_chain: where it stands
          day     \* a civil day and its number

xvars == <<chain, walk, day>>

NoLimit == 99
\* A certificate as it arrives.  ca: 0 when no CA, else 1 + the path length it states.
Cert(subject, issuer) ==
  [subject |-> subject, issuer |-> issuer, key |-> 1, signer |-> <<issuer, 1>>, notBefore |-> 0, notAfter |-> 2,
   der |-> "whole", algorithm |-> "ecdsa", inner |-> "ecdsa", curve |-> "P256", version |-> 3,
   extensions |-> <<>>, ca |-> 0, keyCertSign |-> "absent", names |-> {}, serverAuth |-> "absent"]
Today == 1

\* extensions: one of each, and no critical one this reader does not know.
Known == {"basicConstraints", "keyUsage", "subjectAltName", "extKeyUsage"}
IGNORABLE_CRITICAL == {"certificatePolicies", "policyConstraints"}
extensions(c) ==
  /\ IsInjective([i \in DOMAIN c.extensions |-> c.extensions[i].oid])
  /\ \A e \in Range(c.extensions) : e.critical => e.oid \in Known \cup IGNORABLE_CRITICAL
\* algorithm, subject_key: what the client verifies and takes.
algorithm(c) == c.algorithm \in {"rsa", "ecdsa", "ed25519"} /\ c.inner = c.algorithm
subject_key(c) == c.curve \in {"RSA 2048..8192", "P256", "P384", "Ed25519"}
\* element, expect: definite lengths in their shortest form, inside the data.
element(c) == c.der = "whole"
\* from_der: nothing after the DER, a v3 certificate when it has extensions, and the
\* fields above.
from_der(c) ==
  /\ element(c) /\ algorithm(c) /\ subject_key(c)
  /\ c.extensions # <<>> => c.version = 3
  /\ extensions(c)
within(c, now) == c.notBefore <= now /\ now <= c.notAfter
\* signed_by, verify: the key named signs with the algorithm the certificate states.
signed_by(c, subject, key) == c.signer = <<subject, key>>
\* names_host: a name, or a * for the whole leftmost label of one with two more.
names_host(c) ==
  \E n \in c.names : \/ n = Host
                     \/ /\ Len(n) = Len(Host) /\ n[1] = "*" /\ Tail(n) = Tail(Host) /\ Len(Tail(n)) > 1

-----------------------------------------------------------------------------
Intermediates == Tail(chain)
XInit ==
  /\ chain \in Shown
  /\ walk = [verdict |-> "start", at |-> 0, below |-> 0, used |-> {}]
  /\ day = [year |-> FirstDay, month |-> 1, date |-> 1, number |-> -1]
Verdict(v) == walk' = [walk EXCEPT !.verdict = v] /\ UNCHANGED <<chain, day>>

\* The checks on the leaf and the reading of the others come before the walk.
leaf_checked ==
  /\ chain # <<>> /\ Len(chain) <= MAX_CHAIN
  /\ from_der(chain[1]) /\ within(chain[1], Today) /\ names_host(chain[1]) /\ chain[1].serverAuth # "FALSE"
  /\ \A i \in DOMAIN Intermediates : from_der(Intermediates[i])
verify_server_chain ==
  /\ walk.verdict = "start"
  /\ Verdict(IF leaf_checked THEN "walking" ELSE "refused")

InForce == IF walk.at = 0 THEN chain[1] ELSE Intermediates[walk.at]
anchored == \E a \in Anchors : a.subject = InForce.issuer /\ signed_by(InForce, a.subject, a.key)
Issues(i) ==
  LET c == Intermediates[i] IN i \notin walk.used /\ c.subject = InForce.issuer /\ signed_by(InForce, c.subject, c.key)
\* Mutant: a CA may have one certificate more below it than it states.
may_issue_one_more(c, below) ==
  within(c, Today) /\ c.ca # 0 /\ ~(c.ca - 1 < below - 1) /\ c.keyCertSign # "FALSE"
\* An issuer is valid now, a CA, within its path length, and may sign certificates.
may_issue(c, below) ==
  within(c, Today) /\ c.ca # 0 /\ ~(c.ca - 1 < below) /\ c.keyCertSign # "FALSE"
marked(i) == walk.used \cup {i}
\* One turn of the walk: an anchor ends it, else the first unused certificate that
\* issued the current one is taken, or none is and the chain is refused.
walk_on ==
  /\ walk.verdict = "walking"
  /\ IF anchored THEN Verdict("accepted")
     ELSE IF \A i \in DOMAIN Intermediates : ~Issues(i) THEN Verdict("refused")
     ELSE \E i \in DOMAIN Intermediates :
            /\ Issues(i) /\ \A j \in 1..i - 1 : ~Issues(j)
            /\ IF ~may_issue(Intermediates[i], walk.below) THEN Verdict("refused")
               ELSE /\ walk' = [walk EXCEPT !.used = marked(i), !.below = @ + 1, !.at = i]
                    /\ UNCHANGED <<chain, day>>

-----------------------------------------------------------------------------
\* days_from_civil, as time counts a certificate's moments.
days_from_civil(year, month, d) ==
  LET y == IF month <= 2 THEN year - 1 ELSE year
      era == y \div 400  yoe == y - era * 400
      doy == (153 * ((month + 9) % 12) + 2) \div 5 + d - 1
  IN era * 146097 + yoe * 365 + yoe \div 4 - yoe \div 100 + doy - 719468
Leap(y) == y % 4 = 0 /\ (y % 100 # 0 \/ y % 400 = 0)
DaysOf(y, m) == IF m = 2 THEN (IF Leap(y) THEN 29 ELSE 28) ELSE IF m \in {4, 6, 9, 11} THEN 30 ELSE 31
\* time: the number of the day a certificate writes out.
time ==
  /\ walk.verdict = "start" /\ chain = <<>> /\ day.number = -1
  /\ \E y \in FirstDay..LastDay, m \in 1..12, d \in 1..31 :
       /\ d <= DaysOf(y, m)
       /\ day' = [year |-> y, month |-> m, date |-> d, number |-> days_from_civil(y, m, d)]
  /\ UNCHANGED <<chain, walk>>

XNext == verify_server_chain \/ walk_on \/ time
XSpec == XInit /\ [][XNext]_xvars

-----------------------------------------------------------------------------
\* A path: distinct certificates of those sent, each of which issued the one before
\* it and may, the last issued by an anchor.
RightIssuer(c, below) == Today \in c.notBefore..c.notAfter /\ c.ca > below /\ c.keyCertSign \in {"absent", "TRUE"}
Link(c, issuer) == c.issuer = issuer.subject /\ signed_by(c, issuer.subject, issuer.key)
PathOf(p) ==
  LET at(i) == IF i = 0 THEN chain[1] ELSE Intermediates[p[i]]
  IN /\ \A i \in DOMAIN p : Link(at(i - 1), at(i)) /\ RightIssuer(at(i), i - 1)
     /\ \E a \in Anchors : Link(at(Len(p)), a)
PathExists ==
  /\ leaf_checked
  /\ \E n \in 0..Len(Intermediates) : \E p \in [1..n -> DOMAIN Intermediates] : IsInjective(p) /\ PathOf(p)
Alike(i, j) == Intermediates[i].subject = Intermediates[j].subject /\ Intermediates[i].key = Intermediates[j].key

\* verify_server_chain accepts only what a path to an anchor justifies, and refuses
\* a chain with one only when two of the certificates sent share a name and a key:
\* it then walks through the first of them and does not come back.
ChainExact ==
  /\ walk.verdict = "accepted" => PathExists
  /\ walk.verdict = "refused" /\ PathExists => \E i, j \in DOMAIN Intermediates : i # j /\ Alike(i, j)

\* The walk passes every certificate at most once, so certificates that issued each
\* other end it.
WalkBounded == walk.below <= Len(chain) /\ (walk.verdict = "walking" => walk.below < Len(chain))

\* The first of January 1970 is day 0, and the day after a day has the next number,
\* over months, leap years and centuries (days_from_civil).
DayAfter(d) ==
  IF d.date < DaysOf(d.year, d.month) THEN days_from_civil(d.year, d.month, d.date + 1)
  ELSE IF d.month < 12 THEN days_from_civil(d.year, d.month + 1, 1) ELSE days_from_civil(d.year + 1, 1, 1)
CalendarCounts == days_from_civil(1970, 1, 1) = 0 /\ (day.number # -1 => DayAfter(day) = day.number + 1)

\* What the client accepts of a server it could have accepted on any walk, at the
\* day it counted, and the walk ends.
ChainJudged == ChainExact /\ WalkBounded /\ CalendarCounts
=============================================================================
