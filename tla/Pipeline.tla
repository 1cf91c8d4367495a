------------------------------ MODULE Pipeline ------------------------------
(***************************************************************************)
(* What the coordination gate of PathBrain promises, said without locks,   *)
(* leases or threads: the pipeline (the right to write the firewall and    *)
(* benchmark) is owned by at most one session, and it only changes hands   *)
(* through nobody.  Coordinator implements this specification.             *)
(***************************************************************************)
CONSTANTS Sessions,    \* every session that may ask for the pipeline
          NoSession    \* owner of an idle pipeline

VARIABLE owner

Init == owner = NoSession

\* A session takes an idle pipeline.
Take(s) == owner = NoSession /\ owner' = s

\* The owner lets go: it finished, stepped aside, or was stood down.
Drop(s) == owner = s /\ owner' = NoSession

Next == \E s \in Sessions : Take(s) \/ Drop(s)

Spec == Init /\ [][Next]_owner
=============================================================================
