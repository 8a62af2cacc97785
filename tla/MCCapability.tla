---------------------------- MODULE MCCapability ----------------------------
(* Instances of Capability for TLC. *)
EXTENDS Capability, TLC

CONSTANT c1
=============================================================================
