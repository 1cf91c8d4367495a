--------------------------- MODULE MCProfileTests ---------------------------
(* ProfileTests at the bounds the configurations give. *)
EXTENDS ProfileTests
=============================================================================
