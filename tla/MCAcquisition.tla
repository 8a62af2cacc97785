--------------------------- MODULE MCAcquisition ---------------------------
(* Instances of Acquisition for TLC. *)
EXTENDS Acquisition, TLC

CONSTANTS c1, i, j, b1, w1, p, n1, n2, r1, r2

Signs(timestamp, nonce) ==
  [consumer |-> c1, on |-> i, workload |-> p, timestamp |-> timestamp,
   nonce |-> nonce, key |-> w1]

\* One workload, two requests of one consumer.
OneConsumer == {Signs(0, n1), Signs(1, n2)}
=============================================================================
