----------------------------- MODULE MCRotation -----------------------------
\* Rotations of one item by two commands at once, through each provider.
EXTENDS Rotation, TLC
Providers == DOMAIN PROVIDERS
Commands == Permutations(Rotators)
=============================================================================
