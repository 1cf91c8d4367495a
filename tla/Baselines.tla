----------------------------- MODULE Baselines -----------------------------
(***************************************************************************)
(* The promise every session of PathBrain makes to the user: it may put    *)
(* test profiles on the firewall, but it snapshots the setting it found    *)
(* (its baseline), records it, and puts it back; and a restart puts back   *)
(* what a dead process left behind.  Five engines keep that promise, each  *)
(* in its own way: sweep.py, profile_test.py, challenger.py, refresh.py    *)
(* and duel.py.                                                            *)
(*                                                                         *)
(* The pipeline they take turns on is the abstract gate of Pipeline, which *)
(* Coordinator implements.  A setting is an abstract value: the user's     *)
(* own, the profile a race promotes, or "the profile engine e is testing". *)
(*                                                                         *)
(* Timing assumptions, named where they are used: settling a row takes     *)
(* less than the firewall round trips of a session (Prompt); reading the   *)
(* firewall in sweep.start() less than another session needs to start and  *)
(* write it (the guard of Apply); and, unless Untimely, no session starts  *)
(* in the instant between a sweep's start and its turn, nor a sweep in     *)
(* that instant of another's (InGap), and a restore made after the lock    *)
(* was released is over before the next session reads its baseline or      *)
(* applies a profile.                                                      *)
(***************************************************************************)
EXTENDS Integers, Sequences, FiniteSets

CONSTANTS
  Engines,      \* the engines in use, a subset of those in Reconciles
  NoEngine,     \* nobody owns the pipeline
  User,         \* the setting the user left the firewall on
  Winner,       \* the profile a challenger race promotes
  NoBaseline,   \* no baseline recorded
  Failing,      \* engines whose session may raise
  AutoPromote,  \* TRUE: races may leave their winner applied
  Untimely,     \* TRUE: starts in a handoff, late restores that take long
  MaxCrashes    \* bound on restarts of the process

ReconcilesDuelFirst ==
  <<"duel", "sweep", "profile_test", "challenge", "refresh">>

\* The order in which main.lifespan reconciles what a dead process left.
Reconciles == <<"sweep", "profile_test", "challenge", "refresh", "duel">>

ASSUME EnginesAssumption ==
  /\ Engines \subseteq {"sweep", "profile_test", "challenge", "refresh", "duel"}
  /\ Failing \subseteq Engines
  /\ NoEngine \notin Engines
  /\ User \notin Engines /\ Winner \notin Engines \cup {User}
  /\ NoBaseline \notin Engines \cup {User, Winner}

ASSUME SwitchesAssumption ==
  AutoPromote \in BOOLEAN /\ Untimely \in BOOLEAN /\ MaxCrashes \in Nat

VARIABLES
  fw,        \* the setting the firewall is on
  home,      \* the setting it should be on when no session is in progress
  missed,    \* the firewall did not answer a restore or a promotion
  owner,     \* who owns the pipeline
  pc,        \* where each engine's session is
  baseline,  \* the baseline on each engine's unfinished row
  boot,      \* 0 when up, else the next position of Reconciles to run
  crashes

vars == <<fw, home, missed, owner, pc, baseline, boot, crashes>>

Gate == INSTANCE Pipeline WITH Sessions <- Engines, NoSession <- NoEngine

Settings == Engines \cup {User, Winner}

\* "parked" is a queued profile test whose process died: its row is the queue.
Points == {"out", "starting", "queued", "held", "ready", "testing", "aside",
           "restored", "promoted", "failed", "late", "settling", "settlingWin",
           "parked"}

TypeOK ==
  /\ fw \in Settings /\ home \in {User, Winner} /\ missed \in BOOLEAN
  /\ owner \in Engines \cup {NoEngine}
  /\ pc \in [Engines -> Points]
  /\ baseline \in [Engines -> Settings \cup {NoBaseline}]
  /\ boot \in 0..Len(Reconciles) /\ crashes \in 0..MaxCrashes

Init ==
  /\ fw = User /\ home = User /\ missed = FALSE
  /\ Gate!Init
  /\ pc = [e \in Engines |-> "out"]
  /\ baseline = [e \in Engines |-> NoBaseline]
  /\ boot = 0 /\ crashes = 0

Goto(e, p) == pc' = [pc EXCEPT ![e] = p]
At(e, points) == boot = 0 /\ pc[e] \in points

\* No row is being settled: a database write of milliseconds, which a session's
\* reading or restoring of the firewall does not overtake.
Prompt == \A d \in Engines :
  pc[d] \notin {"settling", "settlingWin"} \cup (IF Untimely THEN {} ELSE {"late"})

-----------------------------------------------------------------------------
(* Asking for a session. *)

\* The pipeline is free, yet a session is about to take it: milliseconds that
\* matter to the early snapshot of a sweep.
InGap(e) ==
  \E d \in Engines \ {"profile_test"} :
     "sweep" \in {d, e} /\ pc[d] \in {"starting", "queued", "aside"}

\* start().  The job queue starts an engine when the pipeline is idle; a profile
\* test just adds its row.  A sweep has yet to read its baseline.
Start(e) ==
  /\ At(e, {"out"})
  /\ e # "profile_test" => owner = NoEngine /\ (Untimely \/ ~InGap(e))
  /\ Goto(e, IF e = "sweep" THEN "starting" ELSE "queued")
  /\ UNCHANGED <<fw, home, missed, owner, baseline, boot, crashes>>

\* sweep.start() reads the baseline without the lock, and records it.
SnapshotEarly(e) ==
  /\ At(e, {"starting"}) /\ Prompt /\ Goto(e, "queued")
  /\ baseline' = [baseline EXCEPT ![e] = fw]
  /\ UNCHANGED <<fw, home, missed, owner, boot, crashes>>

\* A duel cancelled in the line leaves it; a cancelled profile test finds out
\* when it gets the pipeline (CancelHeld).
CancelQueued(e) ==
  /\ e = "duel" /\ At(e, {"queued"}) /\ Goto(e, "settling")
  /\ UNCHANGED <<fw, home, missed, owner, baseline, boot, crashes>>

EnterUngated(e) ==
  /\ At(e, {"queued"}) /\ Goto(e, "held") /\ owner' = e
  /\ UNCHANGED <<fw, home, missed, baseline, boot, crashes>>

\* `with coordinator.hold`: the session has the pipeline.
Enter(e) ==
  /\ At(e, {"queued"}) /\ Goto(e, "held")
  /\ Gate!Take(e)
  /\ UNCHANGED <<fw, home, missed, baseline, boot, crashes>>

CancelHeld(e) ==
  /\ e \in {"profile_test", "duel"} /\ At(e, {"held"}) /\ Goto(e, "settling")
  /\ Gate!Drop(e)
  /\ UNCHANGED <<fw, home, missed, baseline, boot, crashes>>

-----------------------------------------------------------------------------
(* Under the lock. *)

BeginUnrecorded(e) ==
  /\ At(e, {"held"}) /\ Prompt /\ Goto(e, "ready")
  /\ UNCHANGED <<fw, home, missed, owner, baseline, boot, crashes>>

\* The row goes RUNNING with the baseline just read (a sweep has it already).
Begin(e) ==
  /\ At(e, {"held"}) /\ Prompt /\ Goto(e, "ready")
  /\ baseline' = IF e = "sweep" THEN baseline ELSE [baseline EXCEPT ![e] = fw]
  /\ UNCHANGED <<fw, home, missed, owner, boot, crashes>>

\* A switch to a profile under test, read back before anything is measured.
Apply(e) ==
  /\ At(e, {"ready", "testing"})
  /\ \A d \in Engines : pc[d] \notin {"starting"} \cup (IF Untimely THEN {} ELSE {"late"})
  /\ fw' = e /\ Goto(e, "testing")
  /\ UNCHANGED <<home, missed, owner, baseline, boot, crashes>>

\* The ladder steps aside at a seam, on whatever profile the last leg applied.
StepAside(e) ==
  /\ e = "duel" /\ At(e, {"ready", "testing"}) /\ Prompt
  /\ \E d \in Engines : pc[d] = "queued"
  /\ Goto(e, "aside") /\ Gate!Drop(e)
  /\ UNCHANGED <<fw, home, missed, baseline, boot, crashes>>

StepBack(e) ==
  /\ At(e, {"aside"}) /\ Goto(e, "ready")
  /\ Gate!Take(e)
  /\ UNCHANGED <<fw, home, missed, baseline, boot, crashes>>

\* Restores are best effort: a firewall that does not answer is logged.
WriteBack(e) ==
  \/ fw' = (IF baseline[e] = NoBaseline THEN fw ELSE baseline[e]) /\ UNCHANGED missed
  \/ UNCHANGED fw /\ missed' = TRUE

FinishUnrestored(e) ==
  /\ At(e, {"ready", "testing"}) /\ Prompt
  /\ Goto(e, "restored")
  /\ UNCHANGED <<fw, home, missed, owner, baseline, boot, crashes>>

\* The end of the work, or its cancellation: back to the baseline.
Finish(e) ==
  /\ At(e, {"ready", "testing"}) /\ Prompt
  /\ Goto(e, "restored") /\ WriteBack(e)
  /\ UNCHANGED <<home, owner, baseline, boot, crashes>>

\* A race that confirmed a winner leaves it applied instead.  If that step fails
\* the error is swallowed: the race counts as not promoted, and nothing restores.
Promote(e) ==
  /\ e = "challenge" /\ AutoPromote /\ At(e, {"ready", "testing"}) /\ Prompt
  /\ \/ Goto(e, "promoted") /\ fw' = Winner /\ UNCHANGED missed
     \/ Goto(e, "restored") /\ fw' \in {fw, Winner} /\ missed' = TRUE
  /\ UNCHANGED <<home, owner, baseline, boot, crashes>>

\* The engines whose restore is in a finally inside the lock.
RestoresInFinally(e) ==
  e = "sweep" \/ (e \in {"profile_test", "refresh"} /\ pc[e] # "held")

FailUnrestored(e) ==
  /\ e \in Failing /\ At(e, {"held", "ready", "testing"}) /\ Prompt
  /\ Goto(e, "failed")
  /\ UNCHANGED <<fw, home, missed, owner, baseline, boot, crashes>>

\* The session raises.  A duel's restore is not in a finally: it is skipped.
Fail(e) ==
  /\ e \in Failing /\ At(e, {"held", "ready", "testing"}) /\ Prompt
  /\ Goto(e, "failed")
  /\ IF RestoresInFinally(e) THEN WriteBack(e) ELSE UNCHANGED <<fw, missed>>
  /\ UNCHANGED <<home, owner, baseline, boot, crashes>>

-----------------------------------------------------------------------------
(* After the lock. *)

\* Leaving `with coordinator.hold`.  The except clause of a race or a refresh
\* that raised restores out here, where the lock is no longer held.
Leave(e) ==
  /\ At(e, {"restored", "promoted", "failed"})
  /\ Gate!Drop(e)
  /\ Goto(e, CASE pc[e] = "promoted" -> "settlingWin"
               [] pc[e] = "failed" /\ e \in {"challenge", "refresh"} -> "late"
               [] OTHER -> "settling")
  /\ UNCHANGED <<fw, home, missed, baseline, boot, crashes>>

RestoreLate(e) ==
  /\ At(e, {"late"}) /\ Goto(e, "settling")
  /\ WriteBack(e)
  /\ UNCHANGED <<home, owner, baseline, boot, crashes>>

LadderOpen == "duel" \in Engines /\ baseline["duel"] # NoBaseline

\* The row is closed; from here on a promoted winner is the setting to keep, unless
\* an unfinished ladder is going to restore the setting it found.
Settle(e) ==
  /\ At(e, {"settling", "settlingWin"}) /\ Goto(e, "out")
  /\ baseline' = [baseline EXCEPT ![e] = NoBaseline]
  /\ home' = IF pc[e] = "settlingWin" /\ ~LadderOpen THEN Winner ELSE home
  /\ UNCHANGED <<fw, missed, owner, boot, crashes>>

-----------------------------------------------------------------------------
(* Restarts. *)

\* The process dies: threads and locks are gone; rows and firewall stay.
Crash ==
  /\ crashes < MaxCrashes /\ crashes' = crashes + 1
  /\ boot' = 1 /\ owner' = NoEngine
  /\ pc' = [e \in Engines |->
              IF e = "profile_test" /\ pc[e] \in {"queued", "held", "parked"}
              THEN "parked" ELSE "out"]
  /\ UNCHANGED <<fw, home, missed, baseline>>

\* The next engine restores the baseline of its unfinished row, best effort, and
\* fails the row; after the last one the queued profile tests are resumed.
Reconcile ==
  /\ boot \in 1..Len(Reconciles)
  /\ LET e == Reconciles[boot] IN
       IF e \in Engines /\ baseline[e] # NoBaseline
       THEN WriteBack(e) /\ baseline' = [baseline EXCEPT ![e] = NoBaseline]
       ELSE UNCHANGED <<fw, missed, baseline>>
  /\ IF boot < Len(Reconciles)
     THEN boot' = boot + 1 /\ UNCHANGED pc
     ELSE /\ boot' = 0
          /\ pc' = [e \in Engines |-> IF pc[e] = "parked" THEN "queued" ELSE pc[e]]
  /\ UNCHANGED <<home, owner, crashes>>

-----------------------------------------------------------------------------

\* What the thread of a session does next without being asked.
Proceed(e) ==
  SnapshotEarly(e) \/ Begin(e) \/ Leave(e) \/ RestoreLate(e) \/ Settle(e)

Next ==
  \/ \E e \in Engines :
        \/ Start(e) \/ CancelQueued(e) \/ Enter(e) \/ CancelHeld(e) \/ Proceed(e)
        \/ Apply(e) \/ StepAside(e) \/ StepBack(e) \/ Finish(e) \/ Promote(e) \/ Fail(e)
  \/ Reconcile
  \/ Crash

Spec == Init /\ [][Next]_vars

\* Threads run, sessions end (a sweep runs out of variants, a duel of time), the
\* queue behind the pipeline moves (LineKeepsMoving of Coordinator), a ladder that
\* stepped aside is not passed over for ever, and a boot runs through.
Fairness ==
  /\ \A e \in Engines : WF_vars(Proceed(e))
  /\ SF_vars(\E e \in Engines \ {"duel"} : Finish(e))
  /\ SF_vars("duel" \in Engines /\ Finish("duel"))
  /\ SF_vars(\E e \in Engines : Enter(e))
  /\ SF_vars(\E e \in Engines : StepBack(e))
  /\ WF_vars(Reconcile)

FairSpec == Spec /\ Fairness

-----------------------------------------------------------------------------
(* Properties. *)

\* Whenever no session is in progress, the firewall is on the setting the user
\* (or a promotion) left it on, unless it was out when it mattered.  README.md:
\* "Every session snapshots first and restores afterwards".
HomeWhenIdle ==
  boot = 0 /\ (\A e \in Engines : pc[e] \in {"out", "starting", "queued"})
    => fw = home \/ missed

\* The rows a restart would find unfinished, with something to put back.
Recorded == {e \in Engines : baseline[e] # NoBaseline}

Place(e) == CHOOSE i \in 1..Len(Reconciles) : Reconciles[i] = e

\* Where the firewall would be after reconciling them in order: the last wins.
AfterReconcile ==
  IF Recorded = {} THEN fw
  ELSE baseline[CHOOSE e \in Recorded :
                  \A d \in Recorded : Place(d) <= Place(e)]

\* At every instant, also half way through a session or through a boot, a crash
\* would be repaired: reconciling the rows on disk leads back home.
RecoveryLeadsHome == AfterReconcile = home \/ missed

\* While a session measures, the firewall is on the profile it applied: nobody
\* writes under it (coordinator.py: "one session's apply can land on top of
\* another's measurement").
MeasuresWhatItApplied ==
  \A e \in Engines : At(e, {"testing"}) => fw = e

\* However many sessions are asked for, the firewall keeps coming home.
ComesHome == []<>(fw = home \/ missed)
-----------------------------------------------------------------------------
(* What carries the properties from one step to the next, for the proofs. *)

Holding == {"held", "ready", "testing", "restored", "promoted", "failed"}

\* The pipeline is with the session that holds it; a booting process has none.
OwnerHolds ==
  /\ boot = 0 => \A e \in Engines : pc[e] # "parked" /\ (pc[e] \in Holding <=> owner = e)
  /\ boot # 0 => owner = NoEngine /\ \A e \in Engines : pc[e] \in {"out", "parked"}

\* Points that only some engines have.
EnginesDiffer ==
  \A e \in Engines :
    /\ pc[e] = "starting" => e = "sweep"
    /\ pc[e] = "aside" => e = "duel"
    /\ pc[e] \in {"promoted", "settlingWin"} => e = "challenge"
    /\ pc[e] = "late" => e \in {"challenge", "refresh"}
    /\ pc[e] = "failed" => e # "duel"
    /\ pc[e] = "parked" => e = "profile_test"

\* Which rows are unfinished: while up, by where the session is; during a boot, none that
\* was reconciled already.
RowsFollowSessions ==
  /\ boot = 0 => \A e \in Engines :
       /\ pc[e] \in {"out", "starting"} => baseline[e] = NoBaseline
       /\ pc[e] \in {"queued", "held"} => (baseline[e] # NoBaseline <=> e = "sweep")
       /\ pc[e] \in {"ready", "testing", "aside", "restored", "promoted", "settlingWin"}
            => baseline[e] # NoBaseline
  /\ \A i \in 1..Len(Reconciles) :
       i < boot /\ Reconciles[i] \in Engines => baseline[Reconciles[i]] = NoBaseline

\* An unfinished session that has had its turn.
Open(e) == baseline[e] # NoBaseline /\ pc[e] \notin {"queued", "held"}

\* Sessions nest in a ladder that is not over yet, and in nothing else.
OneAtATime ==
  boot = 0 => \A d, e \in Engines :
    d # e /\ Open(d) /\ Open(e) =>
      \E l \in {d, e} : l = "duel" /\ pc[l] \in {"aside", "ready", "testing"}

\* A late restore is over before anything is applied.
LateIsOver ==
  \A d, e \in Engines : pc[e] = "testing" => pc[d] \notin {"late", "starting"}

\* Between its start and its turn a sweep is alone with the profile tests.
SweepIsAlone ==
  boot = 0 => \A s \in Engines : \A d \in Engines \ {"sweep", "profile_test"} :
    s = "sweep" =>
      /\ pc[s] = "starting" => pc[d] \in {"out", "late", "settling", "settlingWin"}
      /\ pc[s] \in {"queued"} \cup Holding => pc[d] = "out"
      /\ baseline[s] # NoBaseline => baseline[d] = NoBaseline

\* The sessions that may have left the firewall elsewhere.
Astray(e) ==
  \/ boot # 0 \/ pc[e] \in {"testing", "promoted", "settlingWin"}
  \/ e \in {"challenge", "refresh"} /\ pc[e] \in {"failed", "late"}

\* The way home: an open ladder's baseline, else every baseline there is, else the firewall.
WayHome ==
  \/ missed
  \/ /\ LadderOpen /\ baseline["duel"] = home
     /\ pc["duel"] \in {"restored", "settling"} => fw = home
  \/ /\ ~LadderOpen
     /\ \A e \in Recorded : baseline[e] = home
     /\ fw = home \/ \E e \in Recorded : Astray(e)
     /\ \A e \in Engines : pc[e] \in {"promoted", "settlingWin"} => fw = Winner

BaselinesInv ==
  /\ TypeOK /\ OwnerHolds /\ EnginesDiffer /\ RowsFollowSessions
  /\ OneAtATime /\ LateIsOver /\ SweepIsAlone /\ WayHome /\ MeasuresWhatItApplied
=============================================================================
