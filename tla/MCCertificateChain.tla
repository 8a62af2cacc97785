-------------------------- MODULE MCCertificateChain --------------------------
\* Chains of a leaf and up to two certificates of the names A and B, each issued by
\* the other, by itself or by the root R, under either of two keys, sound or with
\* one thing wrong; a leaf with one thing wrong; a chain past the limit.
EXTENDS CertificateChain

MCHost == <<"api", "example", "com">>
MCAnchors == {[subject |-> "R", key |-> 1]}
CA(s, i, k, g) == [Cert(s, i) EXCEPT !.key = k, !.signer = <<i, g>>, !.ca = 2]
WithFlaw(c) == {c, [c EXCEPT !.ca = 1], [c EXCEPT !.notAfter = 0], [c EXCEPT !.ca = 0], [c EXCEPT !.keyCertSign = "FALSE"]}
MCIntermediates ==
  UNION {WithFlaw(CA(s, i, k, g)) : s \in {"A", "B"}, i \in {"A", "B", "R"}, k \in {1, 2}, g \in {1, 2}}
Unreadable ==
  LET c == CA("A", "R", 1, 1)  critical(o) == [oid |-> o, critical |-> TRUE]
  IN {[c EXCEPT !.der = "long form length"], [c EXCEPT !.inner = "rsa"], [c EXCEPT !.curve = "P521"],
      [c EXCEPT !.version = 1, !.extensions = <<critical("keyUsage")>>],
      [c EXCEPT !.extensions = <<critical("nameConstraints")>>],
      [c EXCEPT !.extensions = <<critical("keyUsage"), critical("keyUsage")>>],
      [c EXCEPT !.extensions = <<critical("certificatePolicies"), critical("keyUsage")>>]}
Leaf(i) == [Cert("leaf", i) EXCEPT !.names = {MCHost}]
Leaves ==
  {Leaf(i) : i \in {"A", "R"}}
    \cup {[Leaf("A") EXCEPT !.names = {n}] :
            n \in {<<"*", "example", "com">>, <<"*", "com">>, <<"*", "api", "example", "com">>, <<"www", "example", "com">>}}
    \cup {[Leaf("A") EXCEPT !.notBefore = 2], [Leaf("A") EXCEPT !.serverAuth = "FALSE"], [Leaf("A") EXCEPT !.signer = <<"A", 2>>]}
MCShown ==
  {<<>>} \cup {<<l>> : l \in Leaves} \cup {<<l, c>> : l \in Leaves, c \in MCIntermediates \cup Unreadable}
    \cup {<<l, c, d>> : l \in {Leaf("A"), [Leaf("A") EXCEPT !.signer = <<"A", 2>>]}, c \in MCIntermediates, d \in MCIntermediates}
    \cup {<<Leaf("A"), CA("A", "B", 1, 1), CA("B", "R", 1, 1), CA("B", "R", 2, 1)>>}
=============================================================================
