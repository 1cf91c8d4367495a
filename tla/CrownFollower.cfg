SPECIFICATION FairFollowerSpec
CONSTANTS
  p1 = p1
  p2 = p2
  f1 = f1
  f2 = f2
  Profiles <- MCProfiles
  Fields = {f1, f2}
  Setting <- MCSetting
  Reachable = {p1, p2}
  Other = other
  None = none
  Policies = {"pooled", "duel"}
  MaxOverall = 2
  Standings <- MCStandings
  Databases <- MCDatabases
  Hazards = 3
INVARIANT ArmedFilterIsExact
PROPERTIES LedgerIsAHistory FollowsTheCrown
