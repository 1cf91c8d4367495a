--------------------------- MODULE BaselinesProofs ---------------------------
(***************************************************************************)
(* Proofs about Baselines, for any subset of the five engines, any of them *)
(* failing but the duel, and any number of restarts, under its assumption  *)
(* that nothing is Untimely.                                               *)
(***************************************************************************)
EXTENDS Baselines, TLAPS

\* The order in which a boot reconciles the engines, place by place.
LEMMA OrderOfTheBoot ==
  /\ Len(Reconciles) = 5
  /\ Reconciles[1] = "sweep" /\ Reconciles[2] = "profile_test" /\ Reconciles[3] = "challenge"
  /\ Reconciles[4] = "refresh" /\ Reconciles[5] = "duel"
BY DEF Reconciles

\* A row without a baseline is told apart from every setting.
LEMMA NoBaselineIsNoSetting == NoBaseline \notin Settings
BY EnginesAssumption DEF Settings

\* start() of an engine: only a sweep may not be asked for while others are about to begin.
LEMMA StartKeeps ==
  ASSUME ~Untimely, "duel" \notin Failing, BaselinesInv, NEW e \in Engines, Start(e)
  PROVE  BaselinesInv'
<1> USE EnginesAssumption, NoBaselineIsNoSetting
        DEF BaselinesInv, TypeOK, OwnerHolds, Holding, EnginesDiffer,
            Start, Goto, At, InGap
<1>1. OwnerHolds' /\ EnginesDiffer' /\ LateIsOver' /\ MeasuresWhatItApplied'
  BY DEF LateIsOver, MeasuresWhatItApplied
<1>2. TypeOK' /\ RowsFollowSessions'
  BY DEF RowsFollowSessions, Settings, Points
<1>3. OneAtATime'
  BY DEF OneAtATime, Open, RowsFollowSessions, SweepIsAlone
<1>4. SweepIsAlone'
  <2> SUFFICES ASSUME NEW s \in Engines, NEW d \in Engines \ {"sweep", "profile_test"}, s = "sweep"
                PROVE  /\ pc'[s] = "starting" => pc'[d] \in {"out", "late", "settling", "settlingWin"}
                       /\ pc'[s] \in {"queued"} \cup Holding => pc'[d] = "out"
                       /\ baseline'[s] # NoBaseline => baseline'[d] = NoBaseline
    BY DEF SweepIsAlone
  <2>1. CASE e = s
    <3>1. pc[d] \notin {"queued", "aside", "starting"} \cup Holding
      BY <2>1
    <3>2. QED
      BY <2>1, <3>1 DEF Points, RowsFollowSessions
  <2>2. CASE e = d
    BY <2>2 DEF SweepIsAlone, RowsFollowSessions
  <2>3. CASE e \notin {s, d}
    BY <2>3 DEF SweepIsAlone
  <2>4. QED
    BY <2>1, <2>2, <2>3
<1>5. WayHome'
  BY DEF WayHome, LadderOpen, Recorded, Astray, RowsFollowSessions, OneAtATime, Open,
         SweepIsAlone
<1>6. QED
  BY <1>1, <1>2, <1>3, <1>4, <1>5

\* A duel leaves the line: it has no baseline yet.
LEMMA CancelQueuedKeeps ==
  ASSUME ~Untimely, "duel" \notin Failing, BaselinesInv, NEW e \in Engines, CancelQueued(e)
  PROVE  BaselinesInv'
<1> USE EnginesAssumption, NoBaselineIsNoSetting
        DEF BaselinesInv, TypeOK, OwnerHolds, Holding, EnginesDiffer,
            CancelQueued, Goto, At
<1>1. OwnerHolds' /\ EnginesDiffer' /\ LateIsOver' /\ MeasuresWhatItApplied'
  BY DEF LateIsOver, MeasuresWhatItApplied
<1>2. TypeOK' /\ RowsFollowSessions'
  BY DEF RowsFollowSessions, Settings, Points
<1>3. OneAtATime'
  BY DEF OneAtATime, Open, RowsFollowSessions, SweepIsAlone
<1>4. SweepIsAlone'
  BY DEF SweepIsAlone, RowsFollowSessions, OneAtATime, Open
<1>5. WayHome'
  BY DEF WayHome, LadderOpen, Recorded, Astray, RowsFollowSessions, OneAtATime, Open,
         SweepIsAlone
<1>6. QED
  BY <1>1, <1>2, <1>3, <1>4, <1>5

\* `with coordinator.hold`: a session that was in line, with the lock free.
LEMMA EnterKeeps ==
  ASSUME ~Untimely, "duel" \notin Failing, BaselinesInv, NEW e \in Engines, Enter(e)
  PROVE  BaselinesInv'
<1> USE EnginesAssumption, NoBaselineIsNoSetting
        DEF BaselinesInv, TypeOK, OwnerHolds, Holding, EnginesDiffer,
            Enter, Goto, At, Gate!Take
<1>1. OwnerHolds' /\ EnginesDiffer' /\ LateIsOver' /\ MeasuresWhatItApplied'
  BY DEF LateIsOver, MeasuresWhatItApplied
<1>2. TypeOK' /\ RowsFollowSessions'
  BY DEF RowsFollowSessions, Settings, Points
<1>3. OneAtATime'
  BY DEF OneAtATime, Open, RowsFollowSessions, SweepIsAlone
<1>4. SweepIsAlone'
  BY DEF SweepIsAlone, RowsFollowSessions, OneAtATime, Open
<1>5. WayHome'
  BY DEF WayHome, LadderOpen, Recorded, Astray, RowsFollowSessions, OneAtATime, Open,
         SweepIsAlone
<1>6. QED
  BY <1>1, <1>2, <1>3, <1>4, <1>5

\* A cancelled session gives the pipeline back before it read a baseline.
LEMMA CancelHeldKeeps ==
  ASSUME ~Untimely, "duel" \notin Failing, BaselinesInv, NEW e \in Engines, CancelHeld(e)
  PROVE  BaselinesInv'
<1> USE EnginesAssumption, NoBaselineIsNoSetting
        DEF BaselinesInv, TypeOK, OwnerHolds, Holding, EnginesDiffer,
            CancelHeld, Goto, At, Gate!Drop
<1>1. OwnerHolds' /\ EnginesDiffer' /\ LateIsOver' /\ MeasuresWhatItApplied'
  BY DEF LateIsOver, MeasuresWhatItApplied
<1>2. TypeOK' /\ RowsFollowSessions'
  BY DEF RowsFollowSessions, Settings, Points
<1>3. OneAtATime'
  BY DEF OneAtATime, Open, RowsFollowSessions, SweepIsAlone
<1>4. SweepIsAlone'
  BY DEF SweepIsAlone, RowsFollowSessions, OneAtATime, Open
<1>5. WayHome'
  BY DEF WayHome, LadderOpen, Recorded, Astray, RowsFollowSessions, OneAtATime, Open,
         SweepIsAlone
<1>6. QED
  BY <1>1, <1>2, <1>3, <1>4, <1>5

\* A sweep reads its baseline without the lock: nobody is under way, so it reads home.
LEMMA SnapshotEarlyKeeps ==
  ASSUME ~Untimely, "duel" \notin Failing, BaselinesInv, NEW e \in Engines, SnapshotEarly(e)
  PROVE  BaselinesInv'
<1> USE EnginesAssumption, NoBaselineIsNoSetting
        DEF BaselinesInv, TypeOK, OwnerHolds, Holding, EnginesDiffer,
            SnapshotEarly, Goto, At, Prompt
<1>1. OwnerHolds' /\ EnginesDiffer' /\ LateIsOver' /\ MeasuresWhatItApplied'
  BY DEF LateIsOver, MeasuresWhatItApplied
<1>2. TypeOK' /\ RowsFollowSessions'
  BY DEF RowsFollowSessions, Settings, Points
<1>3. OneAtATime'
  BY DEF OneAtATime, Open, RowsFollowSessions, SweepIsAlone
<1>4. SweepIsAlone'
  BY DEF SweepIsAlone, RowsFollowSessions, OneAtATime, Open
<1>5. WayHome'
  <2>1. e = "sweep" /\ baseline[e] = NoBaseline
    BY DEF RowsFollowSessions
  <2>2. \A d \in Engines \ {"sweep", "profile_test"} : pc[d] = "out"
    BY <2>1 DEF SweepIsAlone
  <2>3. ~LadderOpen /\ ~LadderOpen'
    BY <2>1, <2>2 DEF LadderOpen, RowsFollowSessions
  <2>4. \A d \in Engines : ~Astray(d)
    BY <2>1, <2>2 DEF Astray, LateIsOver
  <2>5. missed \/ (fw = home /\ \A d \in Recorded : baseline[d] = home)
    BY <2>3, <2>4 DEF WayHome, Recorded
  <2>6. QED
    BY <2>1, <2>2, <2>3, <2>5 DEF WayHome, Recorded
<1>6. QED
  BY <1>1, <1>2, <1>3, <1>4, <1>5

\* A session reads its baseline under the lock: the only other one open is a ladder aside.
LEMMA BeginKeeps ==
  ASSUME ~Untimely, "duel" \notin Failing, BaselinesInv, NEW e \in Engines, Begin(e)
  PROVE  BaselinesInv'
<1> USE EnginesAssumption, NoBaselineIsNoSetting
        DEF BaselinesInv, TypeOK, OwnerHolds, Holding, EnginesDiffer,
            Begin, Goto, At, Prompt
<1>1. OwnerHolds' /\ EnginesDiffer' /\ LateIsOver' /\ MeasuresWhatItApplied'
  BY DEF LateIsOver, MeasuresWhatItApplied
<1>2. TypeOK' /\ RowsFollowSessions'
  BY DEF RowsFollowSessions, Settings, Points
<1>3. OneAtATime'
  <2> SUFFICES ASSUME NEW d \in Engines, NEW f \in Engines, d # f, Open(d)', Open(f)'
                PROVE  \E l \in {d, f} : l = "duel" /\ pc'[l] \in {"aside", "ready", "testing"}
    BY DEF OneAtATime, Open
  <2>1. \A g \in Engines \ {e} : Open(g) => g = "duel" /\ pc[g] = "aside"
    BY DEF Open, RowsFollowSessions, Points
  <2>2. \A g \in Engines \ {e} : Open(g)' => Open(g) /\ pc'[g] = pc[g]
    BY DEF Open
  <2>3. QED
    BY <2>1, <2>2
<1>4. SweepIsAlone'
  <2> SUFFICES ASSUME NEW s \in Engines, NEW d \in Engines \ {"sweep", "profile_test"}, s = "sweep"
                PROVE  /\ pc'[s] = "starting" => pc'[d] \in {"out", "late", "settling", "settlingWin"}
                       /\ pc'[s] \in {"queued"} \cup Holding => pc'[d] = "out"
                       /\ baseline'[s] # NoBaseline => baseline'[d] = NoBaseline
    BY DEF SweepIsAlone
  <2>1. CASE e = s
    BY <2>1 DEF SweepIsAlone
  <2>2. CASE e = d
    <3>1. baseline[s] = NoBaseline
      BY <2>2 DEF SweepIsAlone, RowsFollowSessions, Points
    <3>2. QED
      BY <2>2, <3>1 DEF SweepIsAlone
  <2>3. CASE e \notin {s, d}
    BY <2>3 DEF SweepIsAlone
  <2>4. QED
    BY <2>1, <2>2, <2>3
<1>5. WayHome'
  BY DEF WayHome, LadderOpen, Recorded, Astray, RowsFollowSessions, OneAtATime, Open,
         SweepIsAlone
<1>6. QED
  BY <1>1, <1>2, <1>3, <1>4, <1>5

\* A profile under test goes on the firewall: its own row has what was there.
LEMMA ApplyKeeps ==
  ASSUME ~Untimely, "duel" \notin Failing, BaselinesInv, NEW e \in Engines, Apply(e)
  PROVE  BaselinesInv'
<1> USE EnginesAssumption, NoBaselineIsNoSetting
        DEF BaselinesInv, TypeOK, OwnerHolds, Holding, EnginesDiffer,
            Apply, Goto, At
<1>1. OwnerHolds' /\ EnginesDiffer' /\ LateIsOver' /\ MeasuresWhatItApplied'
  BY DEF LateIsOver, MeasuresWhatItApplied
<1>2. TypeOK' /\ RowsFollowSessions'
  BY DEF RowsFollowSessions, Settings, Points
<1>3. OneAtATime'
  BY DEF OneAtATime, Open, RowsFollowSessions, SweepIsAlone
<1>4. SweepIsAlone'
  BY DEF SweepIsAlone, RowsFollowSessions, OneAtATime, Open
<1>5. WayHome'
  BY DEF WayHome, LadderOpen, Recorded, Astray, RowsFollowSessions, OneAtATime, Open,
         SweepIsAlone
<1>6. QED
  BY <1>1, <1>2, <1>3, <1>4, <1>5

\* The ladder steps aside with its row open.
LEMMA StepAsideKeeps ==
  ASSUME ~Untimely, "duel" \notin Failing, BaselinesInv, NEW e \in Engines, StepAside(e)
  PROVE  BaselinesInv'
<1> USE EnginesAssumption, NoBaselineIsNoSetting
        DEF BaselinesInv, TypeOK, OwnerHolds, Holding, EnginesDiffer,
            StepAside, Goto, At, Gate!Drop, Prompt
<1>1. OwnerHolds' /\ EnginesDiffer' /\ LateIsOver' /\ MeasuresWhatItApplied'
  BY DEF LateIsOver, MeasuresWhatItApplied
<1>2. TypeOK' /\ RowsFollowSessions'
  BY DEF RowsFollowSessions, Settings, Points
<1>3. OneAtATime'
  <2>1. boot = 0 /\ baseline' = baseline
    OBVIOUS
  <2>2. \A l \in Engines : pc[l] \in {"aside", "ready", "testing"} =>
          pc'[l] \in {"aside", "ready", "testing"}
    OBVIOUS
  <2>3. \A d \in Engines : pc'[d] \notin {"queued", "held"} => pc[d] \notin {"queued", "held"}
    OBVIOUS
  <2>4. ASSUME NEW d \in Engines, NEW f \in Engines, d # f,
               baseline[d] # NoBaseline, pc'[d] \notin {"queued", "held"},
               baseline[f] # NoBaseline, pc'[f] \notin {"queued", "held"}
        PROVE  \E l \in {d, f} : l = "duel" /\ pc[l] \in {"aside", "ready", "testing"}
    BY <2>1, <2>3, <2>4 DEF OneAtATime, Open
  <2>5. ASSUME NEW d \in Engines, NEW f \in Engines, d # f,
               baseline'[d] # NoBaseline, pc'[d] \notin {"queued", "held"},
               baseline'[f] # NoBaseline, pc'[f] \notin {"queued", "held"}
        PROVE  \E l \in {d, f} : l = "duel" /\ pc'[l] \in {"aside", "ready", "testing"}
    <3>1. PICK l \in {d, f} : l = "duel" /\ pc[l] \in {"aside", "ready", "testing"}
      BY <2>1, <2>4, <2>5
    <3>2. pc'[l] \in {"aside", "ready", "testing"}
      BY <2>2, <3>1
    <3>3. QED
      BY <3>1, <3>2
  <2>6. QED
    BY ONLY <2>5 DEF OneAtATime, Open
<1>4. SweepIsAlone'
  BY DEF SweepIsAlone, RowsFollowSessions, OneAtATime, Open
<1>5. WayHome'
  BY DEF WayHome, LadderOpen, Recorded, Astray, RowsFollowSessions, OneAtATime, Open,
         SweepIsAlone
<1>6. QED
  BY <1>1, <1>2, <1>3, <1>4, <1>5

\* The ladder takes the pipeline back, and finds the firewall wherever it is.
LEMMA StepBackKeeps ==
  ASSUME ~Untimely, "duel" \notin Failing, BaselinesInv, NEW e \in Engines, StepBack(e)
  PROVE  BaselinesInv'
<1> USE EnginesAssumption, NoBaselineIsNoSetting
        DEF BaselinesInv, TypeOK, OwnerHolds, Holding, EnginesDiffer,
            StepBack, Goto, At, Gate!Take
<1>1. OwnerHolds' /\ EnginesDiffer' /\ LateIsOver' /\ MeasuresWhatItApplied'
  BY DEF LateIsOver, MeasuresWhatItApplied
<1>2. TypeOK' /\ RowsFollowSessions'
  BY DEF RowsFollowSessions, Settings, Points
<1>3. OneAtATime'
  BY DEF OneAtATime, Open, RowsFollowSessions, SweepIsAlone
<1>4. SweepIsAlone'
  BY DEF SweepIsAlone, RowsFollowSessions, OneAtATime, Open
<1>5. WayHome'
  BY DEF WayHome, LadderOpen, Recorded, Astray, RowsFollowSessions, OneAtATime, Open,
         SweepIsAlone
<1>6. QED
  BY <1>1, <1>2, <1>3, <1>4, <1>5

\* A session puts its baseline back: nobody else is open when a ladder does.
LEMMA FinishKeeps ==
  ASSUME ~Untimely, "duel" \notin Failing, BaselinesInv, NEW e \in Engines, Finish(e)
  PROVE  BaselinesInv'
<1> USE EnginesAssumption, NoBaselineIsNoSetting
        DEF BaselinesInv, TypeOK, OwnerHolds, Holding, EnginesDiffer,
            Finish, Goto, At, WriteBack, Prompt
<1>1. OwnerHolds' /\ EnginesDiffer' /\ LateIsOver' /\ MeasuresWhatItApplied'
  BY DEF LateIsOver, MeasuresWhatItApplied
<1>2. TypeOK' /\ RowsFollowSessions'
  <2>1. fw' \in Settings /\ missed' \in BOOLEAN
    BY DEF Settings
  <2>2. TypeOK'
    BY <2>1 DEF Points
  <2>3. RowsFollowSessions'
    BY DEF RowsFollowSessions
  <2>4. QED
    BY <2>2, <2>3
<1>3. OneAtATime'
  <2> SUFFICES ASSUME NEW d \in Engines, NEW f \in Engines, d # f, Open(d)', Open(f)'
                PROVE  \E l \in {d, f} : l = "duel" /\ pc'[l] \in {"aside", "ready", "testing"}
    BY DEF OneAtATime, Open
  <2>1. Open(d) /\ Open(f)
    BY DEF Open, RowsFollowSessions
  <2>2. CASE e = "duel"
    BY <2>1, <2>2 DEF Open, RowsFollowSessions, Points
  <2>3. CASE e # "duel"
    BY <2>1, <2>3 DEF OneAtATime
  <2>4. QED
    BY <2>2, <2>3
<1>4. SweepIsAlone'
  BY DEF SweepIsAlone, RowsFollowSessions, OneAtATime, Open
<1>5. WayHome'
  BY DEF WayHome, LadderOpen, Recorded, Astray, RowsFollowSessions, OneAtATime, Open,
         SweepIsAlone
<1>6. QED
  BY <1>1, <1>2, <1>3, <1>4, <1>5

\* A race leaves its winner on the firewall instead.
LEMMA PromoteKeeps ==
  ASSUME ~Untimely, "duel" \notin Failing, BaselinesInv, NEW e \in Engines, Promote(e)
  PROVE  BaselinesInv'
<1> USE EnginesAssumption, NoBaselineIsNoSetting
        DEF BaselinesInv, TypeOK, OwnerHolds, Holding, EnginesDiffer,
            Promote, Goto, At, Prompt
<1>1. OwnerHolds' /\ EnginesDiffer' /\ LateIsOver' /\ MeasuresWhatItApplied'
  BY DEF LateIsOver, MeasuresWhatItApplied
<1>2. TypeOK' /\ RowsFollowSessions'
  <2>1. fw' \in Settings /\ missed' \in BOOLEAN
    BY DEF Settings
  <2>2. TypeOK'
    BY <2>1 DEF Points
  <2>3. RowsFollowSessions'
    BY DEF RowsFollowSessions
  <2>4. QED
    BY <2>2, <2>3
<1>3. OneAtATime'
  BY DEF OneAtATime, Open, RowsFollowSessions, SweepIsAlone
<1>4. SweepIsAlone'
  BY DEF SweepIsAlone, RowsFollowSessions, OneAtATime, Open
<1>5. WayHome'
  BY DEF WayHome, LadderOpen, Recorded, Astray, RowsFollowSessions, OneAtATime, Open,
         SweepIsAlone
<1>6. QED
  BY <1>1, <1>2, <1>3, <1>4, <1>5

\* A session raises, and restores in its finally, or after the lock, or has nothing to restore.
LEMMA FailKeeps ==
  ASSUME ~Untimely, "duel" \notin Failing, BaselinesInv, NEW e \in Engines, Fail(e)
  PROVE  BaselinesInv'
<1> USE EnginesAssumption, NoBaselineIsNoSetting
        DEF BaselinesInv, TypeOK, OwnerHolds, Holding, EnginesDiffer,
            Fail, Goto, At, WriteBack, RestoresInFinally, Prompt
<1>1. OwnerHolds' /\ EnginesDiffer' /\ LateIsOver' /\ MeasuresWhatItApplied'
  BY DEF LateIsOver, MeasuresWhatItApplied
<1>2. TypeOK' /\ RowsFollowSessions'
  <2>1. fw' \in Settings /\ missed' \in BOOLEAN
    BY DEF Settings
  <2>2. TypeOK'
    BY <2>1 DEF Points
  <2>3. RowsFollowSessions'
    BY DEF RowsFollowSessions
  <2>4. QED
    BY <2>2, <2>3
<1>3. OneAtATime'
  <2> SUFFICES ASSUME NEW d \in Engines, NEW f \in Engines, d # f, Open(d)', Open(f)'
                PROVE  \E l \in {d, f} : l = "duel" /\ pc'[l] \in {"aside", "ready", "testing"}
    BY DEF OneAtATime, Open
  <2>1. e # "duel"
    OBVIOUS
  <2>2. CASE pc[e] = "held"
    <3>1. Open(d) \/ d = e
      BY <2>2 DEF Open
    <3>2. Open(f) \/ f = e
      BY <2>2 DEF Open
    <3>3. QED
      BY <2>1, <2>2, <3>1, <3>2 DEF SweepIsAlone, Open, RowsFollowSessions, Points
  <2>3. CASE pc[e] # "held"
    <3>1. Open(d) /\ Open(f)
      BY <2>3 DEF Open
    <3>2. QED
      BY <2>1, <2>3, <3>1 DEF OneAtATime
  <2>4. QED
    BY <2>2, <2>3
<1>4. SweepIsAlone'
  BY DEF SweepIsAlone, RowsFollowSessions, OneAtATime, Open
<1>5. WayHome'
  BY DEF WayHome, LadderOpen, Recorded, Astray, RowsFollowSessions, OneAtATime, Open,
         SweepIsAlone
<1>6. QED
  BY <1>1, <1>2, <1>3, <1>4, <1>5

\* The lock is given back.
LEMMA LeaveKeeps ==
  ASSUME ~Untimely, "duel" \notin Failing, BaselinesInv, NEW e \in Engines, Leave(e)
  PROVE  BaselinesInv'
<1> USE EnginesAssumption, NoBaselineIsNoSetting
        DEF BaselinesInv, TypeOK, OwnerHolds, Holding, EnginesDiffer,
            Leave, Goto, At, Gate!Drop
<1>1. OwnerHolds' /\ EnginesDiffer' /\ LateIsOver' /\ MeasuresWhatItApplied'
  BY DEF LateIsOver, MeasuresWhatItApplied
<1>2. TypeOK' /\ RowsFollowSessions'
  BY DEF RowsFollowSessions, Settings, Points
<1>3. OneAtATime'
  BY DEF OneAtATime, Open, RowsFollowSessions, SweepIsAlone
<1>4. SweepIsAlone'
  BY DEF SweepIsAlone, RowsFollowSessions, OneAtATime, Open
<1>5. WayHome'
  BY DEF WayHome, LadderOpen, Recorded, Astray, RowsFollowSessions, OneAtATime, Open,
         SweepIsAlone
<1>6. QED
  BY <1>1, <1>2, <1>3, <1>4, <1>5

\* The restore after the lock: nobody measures under it.
LEMMA RestoreLateKeeps ==
  ASSUME ~Untimely, "duel" \notin Failing, BaselinesInv, NEW e \in Engines, RestoreLate(e)
  PROVE  BaselinesInv'
<1> USE EnginesAssumption, NoBaselineIsNoSetting
        DEF BaselinesInv, TypeOK, OwnerHolds, Holding, EnginesDiffer,
            RestoreLate, Goto, At, WriteBack
<1>1. OwnerHolds' /\ EnginesDiffer' /\ LateIsOver' /\ MeasuresWhatItApplied'
  BY DEF LateIsOver, MeasuresWhatItApplied
<1>2. TypeOK' /\ RowsFollowSessions'
  <2>1. fw' \in Settings /\ missed' \in BOOLEAN
    BY DEF Settings
  <2>2. TypeOK'
    BY <2>1 DEF Points
  <2>3. RowsFollowSessions'
    BY DEF RowsFollowSessions
  <2>4. QED
    BY <2>2, <2>3
<1>3. OneAtATime'
  BY DEF OneAtATime, Open, RowsFollowSessions, SweepIsAlone
<1>4. SweepIsAlone'
  BY DEF SweepIsAlone, RowsFollowSessions, OneAtATime, Open
<1>5. WayHome'
  BY DEF WayHome, LadderOpen, Recorded, Astray, RowsFollowSessions, OneAtATime, Open,
         SweepIsAlone
<1>6. QED
  BY <1>1, <1>2, <1>3, <1>4, <1>5

\* The row is closed: a ladder's is the last one, a winner's makes the winner home.
LEMMA SettleKeeps ==
  ASSUME ~Untimely, "duel" \notin Failing, BaselinesInv, NEW e \in Engines, Settle(e)
  PROVE  BaselinesInv'
<1> USE EnginesAssumption, NoBaselineIsNoSetting
        DEF BaselinesInv, TypeOK, OwnerHolds, Holding, EnginesDiffer,
            Settle, Goto, At
<1>1. OwnerHolds' /\ EnginesDiffer' /\ LateIsOver' /\ MeasuresWhatItApplied'
  BY DEF LateIsOver, MeasuresWhatItApplied
<1>2. TypeOK' /\ RowsFollowSessions'
  BY DEF RowsFollowSessions, Settings, Points
<1>3. OneAtATime'
  BY DEF OneAtATime, Open, RowsFollowSessions, SweepIsAlone
<1>4. SweepIsAlone'
  BY DEF SweepIsAlone, RowsFollowSessions, OneAtATime, Open
<1>5. WayHome'
  <2>1. CASE missed
    BY <2>1 DEF WayHome
  <2>2. CASE ~missed /\ LadderOpen /\ e # "duel"
    BY <2>2 DEF WayHome, LadderOpen
  <2>3. CASE ~missed /\ LadderOpen /\ e = "duel"
    <3>1. \A d \in Engines \ {e} : ~Open(d)
      BY <2>3 DEF LadderOpen, OneAtATime, Open
    <3>2. \A d \in Engines \ {e} : baseline[d] = NoBaseline
      BY <2>3, <3>1 DEF LadderOpen, Open, RowsFollowSessions, SweepIsAlone
    <3>3. pc[e] = "settling" /\ home' = home /\ fw' = home
      BY <2>3 DEF WayHome
    <3>4. ~LadderOpen' /\ \A d \in Engines : baseline'[d] = NoBaseline
      BY <2>3, <3>2 DEF LadderOpen
    <3>5. \A d \in Engines : pc'[d] \notin {"promoted", "settlingWin"}
      BY <2>3, <3>2, <3>3 DEF RowsFollowSessions
    <3>6. QED
      BY <3>3, <3>4, <3>5 DEF WayHome, Recorded
  <2>4. CASE ~missed /\ ~LadderOpen /\ pc[e] = "settling"
    BY <2>4 DEF WayHome, LadderOpen, Recorded, Astray
  <2>5. CASE ~missed /\ ~LadderOpen /\ pc[e] = "settlingWin"
    <3>1. e = "challenge" /\ baseline[e] # NoBaseline /\ fw = Winner /\ home' = Winner
      BY <2>5 DEF WayHome, RowsFollowSessions
    <3>2. \A d \in Engines \ {e} : baseline[d] = NoBaseline
      BY <2>5, <3>1 DEF LadderOpen, OneAtATime, Open, RowsFollowSessions, SweepIsAlone
    <3>3. ~LadderOpen' /\ fw' = home'
      BY <2>5, <3>1 DEF LadderOpen
    <3>4. \A d \in Engines : baseline'[d] = NoBaseline
      BY <3>2
    <3>5. QED
      BY <3>1, <3>3, <3>4 DEF WayHome, Recorded
  <2>6. QED
    BY <2>1, <2>2, <2>3, <2>4, <2>5
<1>6. QED
  BY <1>1, <1>2, <1>3, <1>4, <1>5

\* The state before any session satisfies the invariant.
LEMMA InitEstablishesBaselinesInv == Init => BaselinesInv
<1> SUFFICES ASSUME Init PROVE BaselinesInv
  OBVIOUS
<1> USE EnginesAssumption, SwitchesAssumption, OrderOfTheBoot DEF Init, Gate!Init
<1>1. TypeOK
  <2>1. fw \in Settings /\ home \in {User, Winner} /\ missed \in BOOLEAN
    BY DEF Settings
  <2>2. pc \in [Engines -> Points] /\ baseline \in [Engines -> Settings \cup {NoBaseline}]
    BY DEF Points
  <2>3. boot \in 0..Len(Reconciles) /\ crashes \in 0..MaxCrashes
    OBVIOUS
  <2>4. QED
    BY <2>1, <2>2, <2>3 DEF TypeOK
<1>2. OwnerHolds /\ EnginesDiffer /\ LateIsOver /\ MeasuresWhatItApplied
  BY DEF OwnerHolds, EnginesDiffer, LateIsOver, MeasuresWhatItApplied, Holding, At
<1>3. RowsFollowSessions /\ OneAtATime /\ SweepIsAlone
  BY DEF RowsFollowSessions, OneAtATime, SweepIsAlone, Open
<1>4. WayHome
  BY DEF WayHome, LadderOpen, Recorded
<1>5. QED
  BY <1>1, <1>2, <1>3, <1>4 DEF BaselinesInv

\* A crash keeps rows and firewall: an unfinished row is what may be astray.
LEMMA CrashKeeps ==
  ASSUME BaselinesInv, Crash
  PROVE  BaselinesInv'
<1> USE EnginesAssumption, SwitchesAssumption, OrderOfTheBoot DEF BaselinesInv, TypeOK, Crash
<1>1. TypeOK'
  BY DEF Points
<1>2. OwnerHolds' /\ EnginesDiffer' /\ LateIsOver' /\ MeasuresWhatItApplied'
  BY DEF OwnerHolds, EnginesDiffer, LateIsOver, MeasuresWhatItApplied, At
<1>3. RowsFollowSessions' /\ OneAtATime' /\ SweepIsAlone'
  BY DEF RowsFollowSessions, OneAtATime, SweepIsAlone
<1>4. WayHome'
  BY DEF WayHome, LadderOpen, Recorded, Astray
<1>5. QED
  BY <1>1, <1>2, <1>3, <1>4

\* The boot puts one row's baseline back and closes it: the ladder's comes last.
LEMMA ReconcileKeeps ==
  ASSUME BaselinesInv, Reconcile
  PROVE  BaselinesInv'
<1> DEFINE e == Reconciles[boot]
<1> USE EnginesAssumption, SwitchesAssumption, NoBaselineIsNoSetting, OrderOfTheBoot
        DEF BaselinesInv, TypeOK, Reconcile, WriteBack
<1>1. boot \in 1..5 /\ \A d \in Engines : pc[d] \in {"out", "parked"}
  BY DEF OwnerHolds
<1>2. fw' \in Settings /\ missed' \in BOOLEAN
  <2>1. CASE e \in Engines /\ baseline[e] # NoBaseline
    <3>1. baseline[e] \in Settings
      BY <2>1
    <3>2. \/ fw' = baseline[e] /\ missed' = missed
          \/ fw' = fw /\ missed' = TRUE
      BY <2>1
    <3>3. QED
      BY <3>1, <3>2
  <2>2. CASE ~(e \in Engines /\ baseline[e] # NoBaseline)
    BY <2>2
  <2>3. QED
    BY <2>1, <2>2
<1>3. baseline' \in [Engines -> Settings \cup {NoBaseline}]
  BY <1>1
<1>4. boot' \in 0..5 /\ pc' \in [Engines -> {"out", "parked", "queued"}]
  BY <1>1
<1>5. TypeOK'
  BY <1>2, <1>3, <1>4 DEF Points
<1>6. OwnerHolds' /\ EnginesDiffer' /\ LateIsOver' /\ MeasuresWhatItApplied'
  BY <1>1 DEF OwnerHolds, EnginesDiffer, LateIsOver, MeasuresWhatItApplied, At, Holding
<1>7. \A i \in 1..5 : i <= boot /\ Reconciles[i] \in Engines => baseline'[Reconciles[i]] = NoBaseline
  BY <1>1 DEF RowsFollowSessions
<1>8. boot = 5 => \A d \in Engines : baseline'[d] = NoBaseline
  BY <1>7
<1>9. RowsFollowSessions' /\ OneAtATime' /\ SweepIsAlone'
  <2>1. CASE boot < 5
    BY <1>1, <1>7, <2>1 DEF RowsFollowSessions, OneAtATime, SweepIsAlone
  <2>2. CASE boot = 5
    <3>1. boot' = 0 /\ \A d \in Engines : pc'[d] \in {"out", "queued"}
      BY <1>1, <2>2
    <3>2. \A d \in Engines : d = "sweep" => pc'[d] = "out"
      BY <1>1, <2>2 DEF EnginesDiffer
    <3>3. QED
      BY <1>8, <2>2, <3>1, <3>2 DEF RowsFollowSessions, OneAtATime, SweepIsAlone, Open, Holding
  <2>3. QED
    BY <1>1, <2>1, <2>2
<1>10. WayHome'
  BY <1>1, <1>8 DEF WayHome, LadderOpen, Recorded, Astray
<1>11. QED
  BY <1>5, <1>6, <1>9, <1>10

\* Every step keeps the invariant: one lemma above per action.
LEMMA StepKeepsBaselinesInv ==
  ASSUME ~Untimely, "duel" \notin Failing, BaselinesInv, [Next]_vars
  PROVE  BaselinesInv'
<1>1. ASSUME NEW e \in Engines,
             Start(e) \/ CancelQueued(e) \/ Enter(e) \/ CancelHeld(e) \/ Proceed(e)
               \/ Apply(e) \/ StepAside(e) \/ StepBack(e) \/ Finish(e) \/ Promote(e) \/ Fail(e)
      PROVE  BaselinesInv'
  BY <1>1, StartKeeps, CancelQueuedKeeps, EnterKeeps, CancelHeldKeeps, SnapshotEarlyKeeps,
     BeginKeeps, ApplyKeeps, StepAsideKeeps, StepBackKeeps, FinishKeeps, PromoteKeeps,
     FailKeeps, LeaveKeeps, RestoreLateKeeps, SettleKeeps
     DEF Proceed
<1>2. CASE Reconcile
  BY <1>2, ReconcileKeeps
<1>3. CASE Crash
  BY <1>3, CrashKeeps
<1>4. CASE UNCHANGED vars
  BY <1>4 DEF vars, BaselinesInv, TypeOK, OwnerHolds, EnginesDiffer, RowsFollowSessions,
     OneAtATime, LateIsOver, SweepIsAlone, WayHome, MeasuresWhatItApplied, At, Open, Astray,
     Recorded, LadderOpen
<1>5. QED
  BY <1>1, <1>2, <1>3, <1>4 DEF Next

\* A place in the order of the boot is that of its engine.
\* The place of each engine in that order.
LEMMA PlacesOfTheBoot ==
  /\ Place("sweep") = 1 /\ Place("profile_test") = 2 /\ Place("challenge") = 3
  /\ Place("refresh") = 4 /\ Place("duel") = 5
BY OrderOfTheBoot DEF Place

\* Some unfinished row is reconciled last.
LEMMA LastRecordedExists ==
  ASSUME Recorded # {}
  PROVE  \E e \in Recorded : \A d \in Recorded : Place(d) <= Place(e)
<1>1. Recorded \subseteq {"sweep", "profile_test", "challenge", "refresh", "duel"}
  BY EnginesAssumption DEF Recorded
<1>2. CASE "duel" \in Recorded
  BY <1>1, <1>2, PlacesOfTheBoot
<1>3. CASE "duel" \notin Recorded /\ "refresh" \in Recorded
  BY <1>1, <1>3, PlacesOfTheBoot
<1>4. CASE Recorded \cap {"duel", "refresh"} = {} /\ "challenge" \in Recorded
  BY <1>1, <1>4, PlacesOfTheBoot
<1>5. CASE Recorded \cap {"duel", "refresh", "challenge"} = {}
  <2>1. Recorded \subseteq {"sweep", "profile_test"}
    BY <1>1, <1>5
  <2>2. CASE "profile_test" \in Recorded
    BY <2>1, <2>2, PlacesOfTheBoot
  <2>3. CASE "profile_test" \notin Recorded
    <3>1. Recorded = {"sweep"}
      BY <2>1, <2>3
    <3>2. QED
      BY <3>1, PlacesOfTheBoot
  <2>4. QED
    BY <2>2, <2>3
<1>6. QED
  BY <1>2, <1>3, <1>4, <1>5

\* The invariant says where the last reconciled row leads, and where an idle firewall is.
LEMMA InvLeadsHome ==
  ASSUME BaselinesInv
  PROVE  RecoveryLeadsHome /\ HomeWhenIdle
<1> USE DEF BaselinesInv
<1>1. CASE missed
  BY <1>1 DEF RecoveryLeadsHome, HomeWhenIdle
<1>2. CASE ~missed
  <2>1. HomeWhenIdle
    BY <1>2, EnginesAssumption
       DEF HomeWhenIdle, WayHome, LadderOpen, RowsFollowSessions, Recorded, Astray
  <2>2. CASE Recorded = {}
    <3>1. ~LadderOpen
      BY <2>2 DEF LadderOpen, Recorded
    <3>2. fw = home
      BY <1>2, <2>2, <3>1 DEF WayHome
    <3>3. QED
      BY <2>1, <2>2, <3>2 DEF RecoveryLeadsHome, AfterReconcile
  <2>3. CASE Recorded # {}
    <3> DEFINE Last(e) == e \in Recorded /\ \A d \in Recorded : Place(d) <= Place(e)
    <3>1. PICK last : Last(last) /\ AfterReconcile = baseline[last]
      <4>1. \E e \in Recorded : \A d \in Recorded : Place(d) <= Place(e)
        BY <2>3, LastRecordedExists
      <4>2. AfterReconcile = baseline[CHOOSE e \in Recorded :
                                        \A d \in Recorded : Place(d) <= Place(e)]
        BY <2>3 DEF AfterReconcile
      <4>3. QED
        BY <4>1, <4>2, Zenon
    <3>2. last \in Recorded
      BY <3>1
    <3>3. CASE LadderOpen
      <4>1. Place("duel") <= Place(last)
        BY <3>1, <3>3 DEF LadderOpen, Recorded
      <4>2. last \in {"sweep", "profile_test", "challenge", "refresh", "duel"}
        BY <3>2, EnginesAssumption DEF Recorded
      <4>3. last = "duel"
        BY <4>1, <4>2, PlacesOfTheBoot
      <4>4. baseline["duel"] = home
        BY <1>2, <3>3 DEF WayHome
      <4>5. QED
        BY <2>1, <3>1, <4>3, <4>4 DEF RecoveryLeadsHome
    <3>4. CASE ~LadderOpen
      <4>1. baseline[last] = home
        BY <1>2, <3>2, <3>4 DEF WayHome
      <4>2. QED
        BY <2>1, <3>1, <4>1 DEF RecoveryLeadsHome
    <3>5. QED
      BY <3>3, <3>4
  <2>4. QED
    BY <2>1, <2>2, <2>3
<1>3. QED
  BY <1>1, <1>2

\* The inductive invariant of the sessions, their rows and the boot.
THEOREM SpecKeepsBaselinesInv ==
  ASSUME ~Untimely, "duel" \notin Failing
  PROVE  Spec => []BaselinesInv
<1>1. BaselinesInv /\ [Next]_vars => BaselinesInv'
  BY StepKeepsBaselinesInv
<1>2. QED
  BY InitEstablishesBaselinesInv, <1>1, PTL DEF Spec

\* Whenever no session is in progress, the firewall is on the setting the user (or a
\* promotion) left it on, unless a restore was not answered (the finally and except clauses of
\* the five engines, main.lifespan).
THEOREM FirewallIsHomeWhenIdle ==
  ASSUME ~Untimely, "duel" \notin Failing
  PROVE  Spec => []HomeWhenIdle
<1>1. BaselinesInv => HomeWhenIdle
  BY InvLeadsHome
<1>2. QED
  BY SpecKeepsBaselinesInv, <1>1, PTL

\* At every instant, also inside a nested session or half way through a boot, reconciling the
\* rows on disk would lead home (reconcile_interrupted of the five engines).
THEOREM EveryCrashIsRepairable ==
  ASSUME ~Untimely, "duel" \notin Failing
  PROVE  Spec => []RecoveryLeadsHome
<1>1. BaselinesInv => RecoveryLeadsHome
  BY InvLeadsHome
<1>2. QED
  BY SpecKeepsBaselinesInv, <1>1, PTL

\* While a session measures, the firewall is on what it applied: nobody writes under it
\* (coordinator.hold, and the restores before and after it).
THEOREM SessionsMeasureWhatTheyApplied ==
  ASSUME ~Untimely, "duel" \notin Failing
  PROVE  Spec => []MeasuresWhatItApplied
<1>1. BaselinesInv => MeasuresWhatItApplied
  BY DEF BaselinesInv
<1>2. QED
  BY SpecKeepsBaselinesInv, <1>1, PTL
=============================================================================
