---------------------------- MODULE CrownFollower ----------------------------
(***************************************************************************)
(* The crown follower: crown_follower.py with the re-grade of jobs.py that *)
(* it holds for, the policy of crowning.py that names its target, and the  *)
(* sessions that own the firewall it writes to.                            *)
(*                                                                         *)
(* A profile's settings are the set of writable fields it turns up.  Its   *)
(* standing is its Overall under the current methodology: 0 while the      *)
(* field has no row for it, below 0 while it is thin, a row of too few     *)
(* iterations for the crown.  What runs since the last tick is a set: the  *)
(* quick filter may meet them in any order.  Sessions restore what they    *)
(* found (Baselines); the pipeline is Pipeline's owner.                    *)
(***************************************************************************)
EXTENDS Integers, FiniteSets

CONSTANTS
  Profiles, Fields, Setting,
  Reachable,        \* profiles of the environment the firewall is in
  Other,            \* the fingerprint of a firewall that is on no known profile
  None,
  Policies,         \* crowning policies: "pooled", "duel"
  MaxOverall,
  Standings,        \* those that occur
  Databases,        \* the standings, policy, switch and firewall a process may find
  Hazards           \* bound on what happens of its own: a session starts, a standing
                    \* moves, a re-grade starts, the switch is turned, a check is asked
                    \* for, a champion goes stale, something fails

ASSUME FollowerAssumption ==
  /\ Setting \in [Profiles -> SUBSET Fields]
  /\ \A p, q \in Profiles : p # q => Setting[p] # Setting[q]
  /\ Reachable \subseteq Profiles /\ {Other, None} \cap Profiles = {}
  /\ None \notin {"tick", "sync"}
  /\ Policies \subseteq {"pooled", "duel"}
  /\ {MaxOverall, Hazards} \subseteq Nat
  /\ 0 \in Standings /\ Standings \subseteq (-MaxOverall)..MaxOverall
  /\ Databases \subseteq [standing : [Profiles -> Standings], policy : Policies,
                       enabled : BOOLEAN, live : SUBSET Fields]

VARIABLES
  standing,  \* of each profile
  version,   \* the methodology it is under
  regrade,   \* the re-grade job: none, running, graded (history done, job not)
  owner,     \* who holds the pipeline: free or session
  live,      \* the firewall
  session,   \* the baseline a session took and the profiles it ran
  champion,  \* the duel's, while it is fresh
  policy, enabled,
  pending,   \* _pending
  poked,     \* last_full_check is 0, or older than the backstop
  retry,     \* retry_at is set
  cache,     \* the quick filter's cache
  ledger,    \* the crown of the newest "change" row
  lock,      \* _check_lock
  chk,       \* what each checker is doing
  used,      \* hazards that were spent
  unheard    \* history: what may have moved the crown was forgotten

world == <<standing, version, regrade, owner, live, session, champion, policy, enabled>>
state == <<pending, poked, retry, cache, ledger, lock>>
spent == <<used, unheard>>
followerVars == <<world, state, chk, spent>>

Checkers == {"tick", "sync"}
Overall == 0..MaxOverall

-----------------------------------------------------------------------------
(* Standings. *)

Confident(s) == {p \in Profiles : s[p] > 0}
Leads(s, S) == CHOOSE p \in S : \A q \in S : s[q] <= s[p]

\* compute_profiles: the confident profile with the highest Overall.
CrownOf(s) == IF Confident(s) = {} THEN None ELSE Leads(s, Confident(s))
RunnerUp(s) ==
  LET rest == Confident(s) \ {CrownOf(s)} IN IF rest = {} THEN 0 ELSE s[Leads(s, rest)]

\* crowning.resolve: a fresh champion governs if the field has any row for it, a thin one too.
Governing(s, crown) ==
  IF policy = "duel" /\ champion # None /\ s[champion] # 0 THEN champion ELSE crown

Fingerprint(l) == IF \E p \in Profiles : Setting[p] = l
                  THEN CHOOSE p \in Profiles : Setting[p] = l ELSE Other

Free == [pc |-> "idle"]
NoCache == [version |-> -1, crown |-> None, overall |-> 0, runnerUp |-> 0, live |-> None]

FollowerInit ==
  /\ \E d \in Databases : standing = d.standing /\ policy = d.policy /\ enabled = d.enabled
                          /\ live = d.live
  /\ version = 0 /\ regrade = "none" /\ owner = "free"
  /\ session = [baseline |-> {}, ran |-> {}] /\ champion = None
  /\ pending = {} /\ poked = TRUE /\ retry = FALSE /\ cache = NoCache /\ ledger = None
  /\ lock = None /\ chk = [c \in Checkers |-> Free]
  /\ used = 0 /\ unheard = FALSE

\* What a check saw of the field, and how far it is.
Sight == [field : [Profiles -> Standings], crown : Profiles \cup {None}, version : 0..Hazards,
          previous : Profiles \cup {None}, armed : BOOLEAN]
Point ==
  [pc : {"idle", "lock", "test", "read"}]
    \cup [pc : {"filter"}, queue : SUBSET (Profiles \cup {Other})]
    \cup [pc : {"plan"}, saw : Sight]
    \cup [pc : {"hold"}, saw : Sight, target : Profiles, up : SUBSET Fields, down : SUBSET Fields]
    \cup [pc : {"record"}, saw : Sight, target : Profiles, on : BOOLEAN,
          how : {"skipped", "deferred", "applied", "error"}]

FollowerTypeOK ==
  /\ standing \in [Profiles -> Standings] /\ used \in 0..Hazards /\ version \in 0..used
  /\ unheard \in BOOLEAN
  /\ regrade \in {"none", "running", "graded"} /\ owner \in {"free", "session"}
  /\ live \in SUBSET Fields
  /\ session \in [baseline : SUBSET Fields, ran : SUBSET Profiles]
  /\ champion \in Profiles \cup {None} /\ ledger \in Profiles \cup {None}
  /\ pending \in SUBSET (Profiles \cup {Other})
  /\ policy \in Policies /\ enabled \in BOOLEAN /\ poked \in BOOLEAN /\ retry \in BOOLEAN
  /\ cache \in [version : -1..Hazards, crown : Profiles \cup {None}, overall : Overall,
                runnerUp : Overall, live : Profiles \cup {Other, None}]
  /\ lock \in Checkers \cup {None}
  /\ chk \in [Checkers -> Point]

-----------------------------------------------------------------------------
(* What happens around the follower. *)

Spend == used < Hazards /\ used' = used + 1 /\ UNCHANGED unheard
Forgets == used < Hazards /\ used' = used + 1 /\ unheard' = TRUE
Moves(p) ==
  /\ \E v \in Standings \ {standing[p]} : standing' = [standing EXCEPT ![p] = v]
  /\ Spend /\ UNCHANGED version
Stays == UNCHANGED <<standing, version, spent>>

\* One more run: there is a row, and a confident profile stays one.
RunMoves(p) ==
  /\ Moves(p) /\ standing'[p] # 0
  /\ standing[p] > 0 => standing'[p] > 0

\* A session takes the pipeline, and what is on the firewall as its baseline.
SessionStarts ==
  /\ owner = "free" /\ owner' = "session" /\ Spend
  /\ session' = [baseline |-> live, ran |-> {}]
  /\ UNCHANGED <<standing, version, regrade, live, champion, policy, enabled, state, chk>>

\* It applies a profile and runs it: notify_run_complete.
SessionRuns(p) ==
  /\ owner = "session" /\ live' = Setting[p]
  /\ session' = [session EXCEPT !.ran = @ \cup {p}] /\ pending' = pending \cup {p}
  /\ RunMoves(p) \/ Stays
  /\ UNCHANGED <<regrade, owner, champion, policy, enabled, poked, retry, cache, ledger,
                 lock, chk>>

\* It ends; a duel that fought names a champion, and its poke raises (poke takes no
\* argument), so nothing hears of it.
SessionEnds ==
  /\ owner = "session" /\ owner' = "free" /\ live' = session.baseline
  /\ session' = [baseline |-> {}, ran |-> {}]
  /\ champion' \in {champion} \cup (IF Cardinality(session.ran) > 1 THEN session.ran ELSE {})
  /\ UNCHANGED <<standing, version, regrade, policy, enabled, state, chk, spent>>

\* The scheduler's own run, on the tick's thread, of whatever the firewall is on.
Monitoring ==
  /\ owner = "free" /\ chk["tick"].pc = "idle" /\ pending = {}
  /\ pending' = {Fingerprint(live)}
  /\ \/ Stays
     \/ \E p \in Profiles : Fingerprint(live) = p /\ RunMoves(p)
  /\ UNCHANGED <<regrade, owner, live, session, champion, policy, enabled, poked, retry,
                 cache, ledger, lock, chk>>

\* jobs.start("regrade"): of the same methodology, or of one nothing is scored under.
StartRegrade ==
  /\ regrade = "none" /\ regrade' = "running" /\ Spend
  /\ \/ UNCHANGED <<standing, version>>
     \/ standing' = [p \in Profiles |-> 0] /\ version' = version + 1
  /\ UNCHANGED <<owner, live, session, champion, policy, enabled, state, chk>>

GradeProfile(p) ==
  /\ regrade = "running" /\ Moves(p)
  /\ UNCHANGED <<regrade, owner, live, session, champion, policy, enabled, state, chk>>

GradedSilently ==
  /\ regrade = "running" /\ regrade' = "graded"
  /\ UNCHANGED <<standing, version, owner, live, session, champion, policy, enabled, state, chk, spent>>

\* score_history_under_current is through, and pokes; the job goes on.
Graded ==
  /\ regrade = "running" /\ regrade' = "graded" /\ poked' = TRUE
  /\ UNCHANGED <<standing, version, owner, live, session, champion, policy, enabled, pending, retry,
                 cache, ledger, lock, chk, spent>>

JobEnds ==
  /\ regrade = "graded" /\ regrade' = "none"
  /\ UNCHANGED <<standing, version, owner, live, session, champion, policy, enabled, state, chk, spent>>

\* It raises before it is through: the job fails, and nobody pokes.
JobFails ==
  /\ regrade = "running" /\ regrade' = "none" /\ Forgets
  /\ UNCHANGED <<standing, version, owner, live, session, champion, policy, enabled, state, chk>>

\* Its last bout is older than the freshness window, and no duel is more recent.
ChampionGoesStale ==
  /\ champion # None /\ champion' = None /\ Spend
  /\ UNCHANGED <<standing, version, regrade, owner, live, session, policy, enabled, state, chk>>

\* crown_follow_update saves the switch or the policy, and pokes.
Configure ==
  /\ Spend /\ poked' = TRUE
  /\ \/ enabled' = ~enabled /\ UNCHANGED policy
     \/ policy' \in Policies \ {policy} /\ UNCHANGED enabled
  /\ UNCHANGED <<standing, version, regrade, owner, live, session, champion, pending, retry,
                 cache, ledger, lock, chk>>

\* The backstop interval is over since the last full check.
Backstop ==
  /\ ~poked /\ poked' = TRUE
  /\ UNCHANGED <<world, pending, retry, cache, ledger, lock, chk, spent>>

Around ==
  \/ Backstop \/ ChampionGoesStale \/ SessionStarts \/ SessionEnds \/ Monitoring
  \/ StartRegrade \/ Graded \/ JobEnds \/ JobFails \/ Configure
  \/ \E p \in Profiles : SessionRuns(p) \/ GradeProfile(p)
-----------------------------------------------------------------------------
(* step: the scheduler's tick. *)

Become(c, r) == chk' = [chk EXCEPT ![c] = r]

\* The tick runs while nobody holds the pipeline, and does nothing when nothing ran and
\* nothing is due.
Ticks(due) ==
  /\ chk["tick"].pc = "idle" /\ owner = "free"
  /\ due \in {poked, poked \/ retry} /\ (due \/ pending # {})
  /\ pending' = {}

TickHolds ==
  /\ \E due \in BOOLEAN : Ticks(due)
  /\ regrade # "none" /\ retry' = TRUE
  /\ UNCHANGED <<world, poked, cache, ledger, lock, chk, spent>>

\* The interval cannot be read: what ran is forgotten.
TickGivesUp ==
  /\ \E due \in BOOLEAN : Ticks(due)
  /\ regrade = "none" /\ Forgets
  /\ UNCHANGED <<world, poked, retry, cache, ledger, lock, chk>>

\* A full check: its clock is stamped and the retry forgotten before it runs.
GoesFull == poked' = FALSE /\ retry' = FALSE /\ Become("tick", [pc |-> "lock"])

TickIsDue ==
  /\ Ticks(TRUE) /\ regrade = "none" /\ GoesFull
  /\ UNCHANGED <<world, cache, ledger, lock, spent>>

TickFilters ==
  /\ Ticks(FALSE) /\ regrade = "none"
  /\ Become("tick", [pc |-> "filter", queue |-> pending])
  /\ UNCHANGED <<world, poked, retry, cache, ledger, lock, spent>>

\* _needs_full_check: the cache cannot rule out that a run of f moved the crown.
OnCrown(f) == f \in {cache.crown, cache.live} \ {None}
Size(v) == IF v < 0 THEN -v ELSE v

MayHaveMoved(f) ==
  \/ cache.version # version
  \/ f # Other /\ OnCrown(f) /\ (standing[f] = 0 \/ Size(standing[f]) <= cache.runnerUp)
  \/ f # Other /\ ~OnCrown(f) /\ standing[f] > 0 /\ standing[f] >= cache.overall

Escalates(f) == MayHaveMoved(f) \/ (enabled /\ cache.crown # None /\ ~OnCrown(f))

FilterEscalates ==
  /\ chk["tick"].pc = "filter"
  /\ \E f \in chk["tick"].queue : Escalates(f)
  /\ GoesFull
  /\ UNCHANGED <<world, pending, cache, ledger, lock, spent>>

\* A request's check read the field before this run, and will cache what it read.
Overtaken == chk["sync"].pc \in {"plan", "hold", "record"}

\* It can: the crown's own bar is kept fresh, the runner-up's is not.
FilterPasses ==
  /\ chk["tick"].pc = "filter"
  /\ \E f \in chk["tick"].queue :
       LET rest == chk["tick"].queue \ {f} IN
         /\ ~Escalates(f)
         /\ cache' = IF f # Other /\ OnCrown(f) THEN [cache EXCEPT !.overall = Size(standing[f])]
                     ELSE cache
         /\ Become("tick", IF rest = {} THEN Free
                           ELSE [pc |-> "filter", queue |-> rest])
  /\ unheard' = (unheard \/ Overtaken)
  /\ UNCHANGED <<world, pending, poked, retry, ledger, lock, used>>

\* crown_follow_sync: a request thread asks for a check.
Sync ==
  /\ chk["sync"].pc = "idle" /\ Spend /\ Become("sync", [pc |-> "lock"])
  /\ UNCHANGED <<world, state>>

-----------------------------------------------------------------------------
(* check. *)

EnterUnlocked(c) ==
  /\ chk[c].pc = "lock" /\ lock' = c /\ poked' = FALSE
  /\ Become(c, [pc |-> "test"])
  /\ UNCHANGED <<world, pending, retry, cache, ledger, spent>>

Enter(c) ==
  /\ chk[c].pc = "lock" /\ lock = None /\ lock' = c /\ poked' = FALSE
  /\ Become(c, [pc |-> "test"])
  /\ UNCHANGED <<world, pending, retry, cache, ledger, spent>>

Leave(c) == lock' = None /\ Become(c, Free)

\* The field is being rewritten: neither track nor follow.  A request does not ask again,
\* though it has stamped the clock.
CheckHolds(c) ==
  /\ chk[c].pc = "test" /\ regrade # "none" /\ Leave(c)
  /\ retry' = (retry \/ c = "tick") /\ unheard' = (unheard \/ c = "sync")
  /\ UNCHANGED <<world, pending, poked, cache, ledger, used>>

CheckProceeds(c) ==
  /\ chk[c].pc = "test" /\ regrade = "none" /\ Become(c, [pc |-> "read"])
  /\ UNCHANGED <<world, state, spent>>

\* The switch, the field and the last recorded crown.
ReadField(c) ==
  /\ chk[c].pc = "read"
  /\ Become(c, [pc |-> "plan",
                saw |-> [field |-> standing, crown |-> CrownOf(standing),
                         version |-> version, previous |-> ledger, armed |-> enabled]])
  /\ UNCHANGED <<world, state, spent>>

\* Computing it raises: the tick's clock is stamped, and nothing retries.
ReadRaises(c) ==
  /\ chk[c].pc = "read" /\ Leave(c) /\ Forgets
  /\ UNCHANGED <<world, pending, poked, retry, cache, ledger>>

\* _cache_standings.
Cached(c, l) ==
  LET crown == chk[c].saw.crown IN
    [version |-> chk[c].saw.version, crown |-> crown, live |-> l,
     overall |-> IF crown = None THEN 0 ELSE Size(chk[c].saw.field[crown]),
     runnerUp |-> RunnerUp(chk[c].saw.field)]

\* Nobody is crowned: nothing to record and nothing to follow.
Vacant(c) ==
  /\ chk[c].pc = "plan" /\ chk[c].saw.crown = None
  /\ cache' = Cached(c, None) /\ Leave(c)
  /\ UNCHANGED <<world, pending, poked, retry, ledger, spent>>

\* How the follow half ended.
Ends(c, target, how, on) ==
  Become(c, [pc |-> "record", saw |-> chk[c].saw, target |-> target, how |-> how, on |-> on])

\* Where the firewall is, and what has to be written to get it to the target.
PlanWrite(c) ==
  /\ chk[c].pc = "plan" /\ chk[c].saw.crown # None
  /\ LET target == Governing(chk[c].saw.field, chk[c].saw.crown)
         on     == live = Setting[target]
     IN  IF on \/ ~chk[c].saw.armed \/ target \notin Reachable
         THEN Ends(c, target, "skipped", on)
         ELSE Become(c, [pc |-> "hold", saw |-> chk[c].saw, target |-> target,
                         up |-> Setting[target] \ live, down |-> live \ Setting[target]])
  /\ UNCHANGED <<world, state, spent>>

\* discover() raises: the verdict is recorded, and the firewall left alone.
DiscoveryFails(c) ==
  /\ chk[c].pc = "plan" /\ chk[c].saw.crown # None /\ Spend
  /\ Ends(c, Governing(chk[c].saw.field, chk[c].saw.crown), "error", FALSE)
  /\ UNCHANGED <<world, state>>

Deferred(c) ==
  /\ chk[c].pc = "hold" /\ owner # "free"
  /\ Ends(c, chk[c].target, "deferred", FALSE)
  /\ UNCHANGED <<world, state, spent>>

WrittenTruthy(c) == live \cup chk[c].up

Written(c) == (live \cup chk[c].up) \ chk[c].down

\* The plan is written, whatever the firewall is on by now, and what it says afterwards
\* decides.  try_hold keeps everybody else out from the first write to the last read.
Apply(c) ==
  /\ chk[c].pc = "hold" /\ owner = "free" /\ live' = Written(c)
  /\ LET took == live' = Setting[chk[c].target] IN
       Ends(c, chk[c].target, IF took THEN "applied" ELSE "error", took)
  /\ UNCHANGED <<standing, version, regrade, owner, session, champion, policy, enabled, state, spent>>

\* A field is refused half-way: what was written stays.
ApplyFails(c) ==
  /\ chk[c].pc = "hold" /\ owner = "free" /\ Spend
  /\ \E some \in SUBSET chk[c].up : live' = live \cup some
  /\ Ends(c, chk[c].target, "error", FALSE)
  /\ UNCHANGED <<standing, version, regrade, owner, session, champion, policy, enabled, state>>

\* The ledger, the cache, and for a tick the retry.
Record(c) ==
  /\ chk[c].pc = "record"
  /\ ledger' = IF chk[c].saw.crown # chk[c].saw.previous THEN chk[c].saw.crown ELSE ledger
  /\ cache' = Cached(c, IF chk[c].on /\ chk[c].target = chk[c].saw.crown
                        THEN chk[c].target ELSE None)
  /\ retry' = \/ retry
              \/ c = "tick" /\ chk[c].how = "deferred"
              \/ c = "tick" /\ chk[c].how = "error" /\ chk[c].saw.armed
  /\ Leave(c) /\ UNCHANGED <<world, pending, poked, spent>>

CheckStep(c) ==
  \/ Enter(c) \/ CheckHolds(c) \/ CheckProceeds(c) \/ ReadField(c) \/ Vacant(c)
  \/ PlanWrite(c) \/ Deferred(c) \/ Apply(c) \/ Record(c)

Faults(c) == ReadRaises(c) \/ DiscoveryFails(c) \/ ApplyFails(c)

Tick ==
  \/ TickHolds \/ TickIsDue \/ TickFilters \/ FilterEscalates \/ FilterPasses
  \/ CheckStep("tick")

FollowerNext ==
  \/ Around \/ Tick \/ TickGivesUp \/ Sync \/ CheckStep("sync")
  \/ \E c \in Checkers : Faults(c)

FollowerSpec == FollowerInit /\ [][FollowerNext]_followerVars

\* The scheduler's thread goes on, a request that got going ends, a session ends
\* (Coordinator), and a job is through in the end.
FairFollowerSpec ==
  /\ FollowerSpec
  /\ WF_followerVars(Tick) /\ WF_followerVars(CheckStep("sync"))
  /\ WF_followerVars(Backstop) /\ WF_followerVars(Monitoring)
  /\ WF_followerVars(SessionEnds) /\ WF_followerVars(Graded) /\ WF_followerVars(JobEnds)

-----------------------------------------------------------------------------
(* Properties. *)

\* The churn ledger is a history: a change is recorded against the crown that was
\* recorded last, whoever checks at the same time.
LedgerIsAHistory ==
  [][\A c \in Checkers : Record(c) => chk[c].saw.previous = ledger]_followerVars

\* The quick filter is exact while following is armed: when everything that ran was judged, and
\* nobody checks, grades or asked for a check, the crown is the one it remembers, though it
\* looked at one profile at a time against a runner-up of long ago; unless a fault, or a
\* request's check that held back, made it forget an event, or such a check put its own older
\* view of the field over what the tick had judged.
Quiet ==
  /\ pending = {} /\ regrade = "none" /\ ~poked /\ ~retry
  /\ \A c \in Checkers : chk[c].pc = "idle"

ArmedFilterIsExact == Quiet /\ enabled /\ ~unheard => cache.crown = CrownOf(standing)

\* "Exact under a weighted crown (profile Overalls are independent, so only fp's own standing
\* changed)", armed or not.  (stated, and refuted: the crown's own bar follows its runs, the
\* runner-up's does not)
FilterIsExact == Quiet /\ ~unheard => cache.crown = CrownOf(standing)

\* The ledger comes to name the crown, and the firewall comes to be on the governing one when
\* following is armed and it can be reached, and both stay: though applies are deferred, fail
\* half-way or are undone by a session's restore, events are lost, re-grades fail, and a crown
\* was read that a re-grade was rewriting.  The backstop heals what no retry does.
FollowsTheCrown ==
  <>[](LET crown == CrownOf(standing) IN
         crown # None =>
           /\ ledger = crown
           /\ enabled /\ Governing(standing, crown) \in Reachable
                => live = Setting[Governing(standing, crown)])
-----------------------------------------------------------------------------
(* What carries them from step to step. *)

\* Whoever is in a check has its lock, and between its read of the ledger and its record
\* nobody else writes there.
InsideHolds ==
  \A c \in Checkers : chk[c].pc \in {"test", "read", "plan", "hold", "record"} => lock = c
SawTheLedger ==
  \A c \in Checkers : chk[c].pc \in {"plan", "hold", "record"} => chk[c].saw.previous = ledger

FollowerInv == FollowerTypeOK /\ InsideHolds /\ SawTheLedger
=============================================================================
