----------------------------- MODULE MCBonePose -----------------------------
(* Two actors, so that their workers race for the first entry of a bone, two *)
(* races, one without a chest node, and one bone of each kind.               *)
EXTENDS BonePose, TLC

Symmetry == Permutations(Actors)
=============================================================================
