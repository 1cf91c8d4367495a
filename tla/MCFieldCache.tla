---------------------------- MODULE MCFieldCache ----------------------------
(* FieldCache for TLC. *)
EXTENDS FieldCache, TLC
CallerSymmetry == Permutations(Callers)
=============================================================================
