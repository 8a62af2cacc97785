---------------------------- MODULE MCVaultItems ----------------------------
(***************************************************************************)
(* Instances of VaultItems for TLC: an owner and one or two other people,  *)
(* each with a key and a later key, and one management authority.          *)
(***************************************************************************)
EXTENDS VaultItems, TLC

CONSTANTS a, b, x, y, o, u, ko, ko2, ku, ku2, kr, agent, op1, op2

MCKeysOf == (o :> {ko, ko2}) @@ (u :> {ku, ku2})

\* People who keep their one key.
MCOneKey == (o :> {ko}) @@ (u :> {ku})

\* Item ids are alike, and so are payloads.
SymmetricItems == Permutations(Ids) \cup Permutations(Values)
=============================================================================
