---------------------------- MODULE MCMirrorCache ----------------------------
(***************************************************************************)
(* Instances of MirrorCache for TLC: y turns from canonical to mirror.     *)
(***************************************************************************)
EXTENDS MirrorCache, TLC

CONSTANTS p1, p2, x, y, z, main, dev

TwoProcs == {p1, p2}
ThreeEndpoints == {x, y, z}
TwoBranches == {main, dev}
Entries == {<<y, x>>, <<x, z, y>>}
Interchangeable == Permutations(TwoProcs) \cup Permutations(TwoBranches)
=============================================================================
