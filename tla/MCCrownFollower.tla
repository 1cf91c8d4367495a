-------------------------- MODULE MCCrownFollower --------------------------
(* CrownFollower for TLC: two profiles, and a firewall that is on neither. *)
EXTENDS CrownFollower, TLC
CONSTANTS p1, p2, f1, f2
MCProfiles == {p1, p2}
MCDatabases ==
  [standing : {(p1 :> 1) @@ (p2 :> 2), (p1 :> -1) @@ (p2 :> 2)}, policy : {"duel"}, enabled : BOOLEAN,
   live : {{}}]
MCStandings == {-1, 0, 1, 2}
MCSetting == (p1 :> {f1}) @@ (p2 :> {f1, f2})
=============================================================================
