------------------------------- MODULE MCBelt -------------------------------
(* Instances of Belt for TLC: each stopping rule, with and without a floor.  *)
EXTENDS Belt

MCMargins == {-1, 0, 1, 2}
MCRules == [method : {"paired"}, floor : {0, 2}, streak : {0, 2}]
             \cup [method : {"pair_wins"}, floor : {2}, streak : {0}]
MCAlpha == <<1, 10>>
MCZSquared == <<164, 100>>
Symmetry == Permutations(Profiles)
=============================================================================
