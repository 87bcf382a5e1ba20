------------------------------- MODULE MCUpliftWaves -------------------------------
(* Small instances of UpliftWaves. *)
EXTENDS UpliftWaves, TLC


\* Two overlapping scopes: one wave can share a device with the other.
OverlappingScopes == {{1, 2}, {2}}
OneScope == {{1, 2}}

Symmetry == Permutations(Waves) \cup Permutations(Requests)
WaveSymmetry == Permutations(Waves)
====================================================================================
