----------------------------- MODULE MCDuelRing -----------------------------
(* Instances of DuelRing for TLC: three profiles, two seats.                *)
EXTENDS DuelRing, TLC

\* Profiles other than the base are alike.
Symmetry == Permutations(Profiles \ {Base})
=============================================================================
