--------------------------- MODULE SchedulerProofs ---------------------------
(***************************************************************************)
(* Proofs about Scheduler, for any values, pipes, hours and days and any   *)
(* number of faults.  None of them assumes anything of who writes when.    *)
(***************************************************************************)
EXTENDS Scheduler, TLAPS

\* A process that comes up with nothing in progress satisfies the invariant.
LEMMA InitEstablishesSchedulerInv == Init => SchedulerInv
<1> SUFFICES ASSUME Init PROVE SchedulerInv
  OBVIOUS
<1> USE SchedulerAssumption DEF Init
<1>1. TypeOK
  <2>1. day \in 1..Days /\ hour \in 0..(Hours - 1) /\ {date, seen, refused} \subseteq 0..Days
    OBVIOUS
  <2>2. faults \in 0..Faults /\ value \in Values /\ home \in Values /\ shaping \subseteq Pipes
    OBVIOUS
  <2>3. {ticked, armed, unapplied, booting} \subseteq BOOLEAN /\ mishaps \subseteq Mishaps
    OBVIOUS
  <2>4. QED
    BY <2>1, <2>2, <2>3 DEF TypeOK
<1>2. OwnersAct
  BY DEF OwnersAct
<1>3. LeadsHome /\ CurrentIsOn /\ InHand
  BY DEF LeadsHome, CurrentIsOn, Active, Standing, InHand
<1>4. RowCoversShaping
  BY DEF RowCoversShaping
<1>5. NightWasSeen
  BY DEF NightWasSeen
<1>6. QED
  BY <1>1, <1>2, <1>3, <1>4, <1>5 DEF SchedulerInv

\* Every step keeps it: one step of the proof per action.
LEMMA StepKeepsSchedulerInv ==
  ASSUME SchedulerInv, [Next]_vars
  PROVE  SchedulerInv'
<1> USE SchedulerAssumption
        DEF SchedulerInv, TypeOK, OwnersAct, InHand, LeadsHome, CurrentIsOn,
            RowCoversShaping, NightWasSeen, Active, Standing, Undisturbed, Mishaps, thread
<1>1. CASE HourPasses
  <2>1. TypeOK'
    <3>1. day' \in 1..Days
      BY <1>1 DEF HourPasses
    <3>2. hour' \in 0..(Hours - 1)
      BY <1>1 DEF HourPasses
    <3>3. ticked' \in BOOLEAN
      BY <1>1 DEF HourPasses
    <3>4. QED
      BY <1>1, <3>1, <3>2, <3>3 DEF HourPasses, exp, fw, truth, bt
  <2>2. OwnersAct'
    BY <1>1 DEF HourPasses, exp, fw, truth, bt
  <2>3. LeadsHome'
    BY <1>1 DEF HourPasses, exp, fw, truth, bt
  <2>3a. InHand'
    BY <1>1 DEF HourPasses, exp, fw, truth, bt
  <2>4. CurrentIsOn'
    BY <1>1 DEF HourPasses, exp, fw, truth, bt
  <2>5. RowCoversShaping'
    BY <1>1 DEF HourPasses, exp, fw, truth, bt
  <2>6. NightWasSeen'
    BY <1>1 DEF HourPasses, exp, fw, truth, bt
  <2>7. QED
    BY <2>1, <2>2, <2>3, <2>3a, <2>4, <2>5, <2>6
<1>2. CASE Arm
  BY <1>2 DEF Arm, clock, exp, fw, truth, bt
<1>3. CASE SessionStarts
  BY <1>3 DEF SessionStarts, clock, exp, fw, truth, bt
<1>4. CASE SessionTries
  BY <1>4 DEF SessionTries, clock, exp, truth, bt
<1>5. CASE SessionEnds
  BY <1>5 DEF SessionEnds, clock, exp, truth, bt
<1>6. CASE Tick
  BY <1>6 DEF Tick, exp, fw, truth, bt, Due, StartTest
<1>6a. CASE TickStartFails
  BY <1>6a DEF TickStartFails, exp, fw, truth, bt, Due, Fails
<1>7. CASE TickGate
  BY <1>7 DEF TickGate, clock, exp, fw, truth, bt
<1>8. CASE Disarmed
  <2>1. TypeOK'
    <3>1. value' \in Values /\ faults' \in 0..Faults
      BY <1>8 DEF Disarmed, Ended, Applies, Fails, Works
    <3>2. mishaps' \subseteq Mishaps
      BY <1>8 DEF Disarmed, Ended
    <3>3. baseline' = Nobody /\ current' = Nobody /\ tried' = {} /\ tick' = "idle"
      BY <1>8 DEF Disarmed, Ended, TickIsOver
    <3>4. QED
      BY <1>8, <3>1, <3>2, <3>3 DEF Disarmed, Ended, TickIsOver, clock, bt
  <2>2. OwnersAct'
    BY <1>8 DEF Disarmed, TickIsOver, clock, bt, Ended, Applies, Fails, Works
  <2>3. LeadsHome'
    BY <1>8 DEF Disarmed, TickIsOver, clock, bt, Ended, Applies, Fails, Works
  <2>3a. InHand'
    BY <1>8 DEF Disarmed, TickIsOver, clock, bt, Ended, Applies, Fails, Works
  <2>4. CurrentIsOn'
    BY <1>8 DEF Disarmed, TickIsOver, clock, bt, Ended, Applies, Fails, Works
  <2>5. RowCoversShaping'
    BY <1>8 DEF Disarmed, TickIsOver, clock, bt, Ended, Applies, Fails, Works
  <2>6. NightWasSeen'
    BY <1>8 DEF Disarmed, TickIsOver, clock, bt, Ended, Applies, Fails, Works
  <2>7. QED
    BY <2>1, <2>2, <2>3, <2>3a, <2>4, <2>5, <2>6
<1>9. CASE Finalize
  <2>1. TypeOK'
    <3>1. value' \in Values /\ home' \in Values /\ faults' \in 0..Faults
      BY <1>9 DEF Finalize, Ended, Applies, Fails, Works
    <3>2. mishaps' \subseteq Mishaps
      BY <1>9 DEF Finalize, Ended
    <3>3. baseline' = Nobody /\ current' = Nobody /\ tried' = {} /\ tick' = "idle"
      BY <1>9 DEF Finalize, Ended, TickIsOver
    <3>4. QED
      BY <1>9, <3>1, <3>2, <3>3 DEF Finalize, Ended, TickIsOver, clock, bt
  <2>2. OwnersAct'
    BY <1>9 DEF Finalize, TickIsOver, clock, bt, Ended, Applies, Fails, Works, InWindow
  <2>3. LeadsHome'
    BY <1>9 DEF Finalize, TickIsOver, clock, bt, Ended, Applies, Fails, Works, InWindow
  <2>3a. InHand'
    BY <1>9 DEF Finalize, TickIsOver, clock, bt, Ended, Applies, Fails, Works, InWindow
  <2>4. CurrentIsOn'
    BY <1>9 DEF Finalize, TickIsOver, clock, bt, Ended, Applies, Fails, Works, InWindow
  <2>5. RowCoversShaping'
    BY <1>9 DEF Finalize, TickIsOver, clock, bt, Ended, Applies, Fails, Works, InWindow
  <2>6. NightWasSeen'
    BY <1>9 DEF Finalize, TickIsOver, clock, bt, Ended, Applies, Fails, Works, InWindow
  <2>7. QED
    BY <2>1, <2>2, <2>3, <2>3a, <2>4, <2>5, <2>6
<1>10. CASE NoExperiment
  BY <1>10 DEF NoExperiment, clock, exp, fw, truth, bt, Fails, Works, InWindow
<1>11. CASE StartExperiment
  <2>1. TypeOK'
    <3>1. mishaps' \subseteq Mishaps
      BY <1>11 DEF StartExperiment
    <3>2. QED
      BY <1>11, <3>1 DEF StartExperiment, clock, fw, truth, bt
  <2>2. OwnersAct' /\ InHand'
    BY <1>11 DEF StartExperiment, clock, fw, truth, bt
  <2>3. LeadsHome'
    <3>1. CASE baseline' = Standing
      BY <1>11, <3>1 DEF StartExperiment
    <3>2. CASE baseline' # Standing
      BY <1>11, <3>2 DEF StartExperiment
    <3>3. QED
      BY <3>1, <3>2
  <2>4. CurrentIsOn' /\ NightWasSeen'
    BY <1>11 DEF StartExperiment, clock, fw, truth, bt
  <2>5. RowCoversShaping'
    BY <1>11 DEF StartExperiment, clock, fw, truth, bt
  <2>6. QED
    BY <2>1, <2>2, <2>3, <2>4, <2>5
<1>12. CASE GoesOn
  BY <1>12 DEF GoesOn, clock, exp, fw, truth, bt, InWindow
<1>13. CASE Deferred
  BY <1>13 DEF Deferred, exp, fw, truth, TickIsOver, clock, bt
<1>14. CASE FirstValue
  <2>1. TypeOK'
    BY <1>14 DEF FirstValue, TickIsOver, clock, bt, Tries, Applies, Fails, Works
  <2>2. OwnersAct'
    BY <1>14 DEF FirstValue, TickIsOver, clock, bt, Tries, Applies, Fails, Works
  <2>3. LeadsHome'
    BY <1>14 DEF FirstValue, TickIsOver, clock, bt, Tries, Applies, Fails, Works
  <2>3a. InHand'
    BY <1>14 DEF FirstValue, TickIsOver, clock, bt, Tries, Applies, Fails, Works
  <2>4. CurrentIsOn'
    BY <1>14 DEF FirstValue, TickIsOver, clock, bt, Tries, Applies, Fails, Works
  <2>5. RowCoversShaping'
    BY <1>14 DEF FirstValue, TickIsOver, clock, bt, Tries, Applies, Fails, Works
  <2>6. NightWasSeen'
    BY <1>14 DEF FirstValue, TickIsOver, clock, bt, Tries, Applies, Fails, Works
  <2>7. QED
    BY <2>1, <2>2, <2>3, <2>3a, <2>4, <2>5, <2>6
<1>15. CASE Benchmark
  BY <1>15 DEF Benchmark, clock, exp, fw, truth, bt
<1>16. CASE Trial
  <2>1. TypeOK'
    <3>1. value' \in Values /\ current' \in Values /\ faults' \in 0..Faults
      BY <1>16 DEF Trial, Tries, Applies, Fails, Works
    <3>2. mishaps' \subseteq Mishaps
      BY <1>16 DEF Trial
    <3>3. tried' \subseteq Values
      BY <1>16 DEF Trial
    <3>4. unapplied' \in BOOLEAN
      BY <1>16 DEF Trial, Tries
    <3>5. QED
      BY <1>16, <3>1, <3>2, <3>3, <3>4 DEF Trial, Tries, TickIsOver, clock, bt
  <2>2. OwnersAct'
    BY <1>16 DEF Trial, TickIsOver, clock, bt, Tries, Applies, Fails, Works
  <2>3. LeadsHome'
    BY <1>16 DEF Trial, TickIsOver, clock, bt, Tries, Applies, Fails, Works
  <2>3a. InHand'
    BY <1>16 DEF Trial, TickIsOver, clock, bt, Tries, Applies, Fails, Works
  <2>4. CurrentIsOn'
    BY <1>16 DEF Trial, TickIsOver, clock, bt, Tries, Applies, Fails, Works
  <2>5. RowCoversShaping'
    BY <1>16 DEF Trial, TickIsOver, clock, bt, Tries, Applies, Fails, Works
  <2>6. NightWasSeen'
    BY <1>16 DEF Trial, TickIsOver, clock, bt, Tries, Applies, Fails, Works
  <2>7. QED
    BY <2>1, <2>2, <2>3, <2>3a, <2>4, <2>5, <2>6
<1>17. CASE TrialRaises
  BY <1>17 DEF TrialRaises, exp, fw, truth, Fails, TickIsOver, clock, bt
<1>18. CASE Abort
  <2>1. TypeOK'
    <3>1. value' \in Values /\ faults' \in 0..Faults
      BY <1>18 DEF Abort, Ended, Applies, Fails, Works
    <3>2. mishaps' \subseteq Mishaps
      BY <1>18 DEF Abort, Ended
    <3>3. baseline' = Nobody /\ current' = Nobody /\ tried' = {}
      BY <1>18 DEF Abort, Ended
    <3>4. QED
      BY <1>18, <3>1, <3>2, <3>3 DEF Abort, Ended, clock, bt
  <2>2. OwnersAct'
    BY <1>18 DEF Abort, clock, bt, Ended, Applies, Fails, Works
  <2>3. LeadsHome'
    BY <1>18 DEF Abort, clock, bt, Ended, Applies, Fails, Works
  <2>3a. InHand'
    BY <1>18 DEF Abort, clock, bt, Ended, Applies, Fails, Works
  <2>4. CurrentIsOn'
    BY <1>18 DEF Abort, clock, bt, Ended, Applies, Fails, Works
  <2>5. RowCoversShaping'
    BY <1>18 DEF Abort, clock, bt, Ended, Applies, Fails, Works
  <2>6. NightWasSeen'
    BY <1>18 DEF Abort, clock, bt, Ended, Applies, Fails, Works
  <2>7. QED
    BY <2>1, <2>2, <2>3, <2>3a, <2>4, <2>5, <2>6
<1>19. CASE SubmitTest
  BY <1>19 DEF SubmitTest, StartTest, around, clock, exp
<1>20. CASE HoldTest
  BY <1>20 DEF HoldTest, around, clock, exp
<1>21. CASE TurnOff
  BY <1>21 DEF TurnOff, around, clock, exp, Turned
<1>22. CASE Measured
  BY <1>22 DEF Measured, around, clock, exp
<1>23. CASE TurnOffFails
  BY <1>23 DEF TurnOffFails, Fails, around, clock, exp
<1>24. CASE TurnOn
  <2>1. TypeOK'
    <3>1. shaping' \subseteq Pipes /\ todo' \subseteq Pipes /\ faults' \in 0..Faults
      BY <1>24 DEF TurnOn, Turned, Fails, Works
    <3>2. mishaps' \subseteq Mishaps
      BY <1>24 DEF TurnOn
    <3>3. QED
      BY <1>24, <3>1, <3>2 DEF TurnOn, around, clock, exp
  <2>2. OwnersAct'
    BY <1>24 DEF TurnOn, Fails, Works, around, clock, exp, Turned
  <2>3. LeadsHome'
    BY <1>24 DEF TurnOn, Fails, Works, around, clock, exp, Turned
  <2>3a. InHand'
    BY <1>24 DEF TurnOn, Fails, Works, around, clock, exp, Turned
  <2>4. CurrentIsOn'
    BY <1>24 DEF TurnOn, Fails, Works, around, clock, exp, Turned
  <2>5. RowCoversShaping'
    BY <1>24 DEF TurnOn, Fails, Works, around, clock, exp, Turned
  <2>6. NightWasSeen'
    BY <1>24 DEF TurnOn, Fails, Works, around, clock, exp, Turned
  <2>7. QED
    BY <2>1, <2>2, <2>3, <2>3a, <2>4, <2>5, <2>6
<1>25. CASE TestEnds
  BY <1>25 DEF TestEnds, around, clock, exp
<1>26. CASE Crash
  BY <1>26 DEF Crash, truth, Fails
<1>27. CASE Reconcile
  <2>1. TypeOK'
    <3>1. shaping' \subseteq Pipes /\ todo' \subseteq Pipes /\ faults' \in 0..Faults
      BY <1>27 DEF Reconcile, Turned, Fails, Works
    <3>2. mishaps' \subseteq Mishaps
      BY <1>27 DEF Reconcile
    <3>3. QED
      BY <1>27, <3>1, <3>2 DEF Reconcile, around, clock, exp
  <2>2. OwnersAct'
    BY <1>27 DEF Reconcile, Fails, Works, around, clock, exp, Turned
  <2>3. LeadsHome'
    BY <1>27 DEF Reconcile, Fails, Works, around, clock, exp, Turned
  <2>3a. InHand'
    BY <1>27 DEF Reconcile, Fails, Works, around, clock, exp, Turned
  <2>4. CurrentIsOn'
    BY <1>27 DEF Reconcile, Fails, Works, around, clock, exp, Turned
  <2>5. RowCoversShaping'
    BY <1>27 DEF Reconcile, Fails, Works, around, clock, exp, Turned
  <2>6. NightWasSeen'
    BY <1>27 DEF Reconcile, Fails, Works, around, clock, exp, Turned
  <2>7. QED
    BY <2>1, <2>2, <2>3, <2>3a, <2>4, <2>5, <2>6
<1>28. CASE Booted
  BY <1>28 DEF Booted, clock, exp, fw, truth
<1>29. CASE CrashInBoot
  BY <1>29 DEF CrashInBoot, Fails, around, clock, exp
<1>30. CASE UNCHANGED vars
  BY <1>30 DEF vars, clock, exp, fw, truth, bt
<1>31. QED
  BY <1>1, <1>2, <1>3, <1>4, <1>5, <1>6, <1>6a, <1>7, <1>8, <1>9, <1>10, <1>11, <1>12, <1>13, <1>14,
       <1>15, <1>16, <1>17, <1>18, <1>19, <1>20, <1>21, <1>22, <1>23, <1>24, <1>25, <1>26, <1>27,
       <1>28, <1>29, <1>30 DEF Next, Ticks, TestSteps

\* In every behaviour the threads do what the owner of the pipeline says, the way home is on
\* record, the next trial's value is on the firewall and the row covers the pipes turned off.
THEOREM SpecKeepsSchedulerInv == Spec => []SchedulerInv
<1>1. SchedulerInv /\ [Next]_vars => SchedulerInv'
  BY StepKeepsSchedulerInv
<1>2. QED
  BY InitEstablishesSchedulerInv, <1>1, PTL DEF Spec

\* The scheduler's state is always of its type: the clock within its days, every value one of
\* the parameter's, every pipe of a row one of the link's (scheduler.py, experiment.py).
THEOREM SchedulerTypeCorrect == Spec => []TypeOK
<1>1. SchedulerInv => TypeOK
  BY DEF SchedulerInv
<1>2. QED
  BY SpecKeepsSchedulerInv, <1>1, PTL

\* With no experiment and no session in progress the parameter is where the user left it, or
\* where a winner was promoted, unless one of the mishaps of its way home is on record: a
\* write that failed, an end under a session, a baseline read off another pipe, an aborted
\* experiment's last trial (experiment.py:76, 128, 219).
THEOREM ParameterComesHome == Spec => []HomeWithoutExperiment
<1>1. SchedulerInv => HomeWithoutExperiment
  BY DEF SchedulerInv, LeadsHome, HomeWithoutExperiment, Undisturbed, Standing
<1>2. QED
  BY SpecKeepsSchedulerInv, <1>1, PTL

\* Every trial of a running experiment measures the value it is filed under, or one whose write
\* failed, though it was applied in an earlier tick (experiment.py:128-168).
THEOREM TrialsMeasureTheirValue == Spec => []TrialsAreTrue
<1>1. SchedulerInv => TrialsAreTrue
  <2> SUFFICES ASSUME SchedulerInv, tick = "bench", Active PROVE value = current \/ unapplied
    BY DEF TrialsAreTrue
  <2>1. owner = "experiment" /\ current # Nobody
    BY DEF SchedulerInv, OwnersAct
  <2>2. QED
    BY <2>1 DEF SchedulerInv, CurrentIsOn, Standing
<1>2. QED
  BY SpecKeepsSchedulerInv, <1>1, PTL

\* Once the nightly test is over every pipe that was shaped is shaped again, unless a toggle
\* of the way back failed (baseline_test.py:120, 272).
THEOREM PipesAreShapedAgain == Spec => []ShapingComesBack
<1>1. SchedulerInv => ShapingComesBack
  BY DEF SchedulerInv, RowCoversShaping, ShapingComesBack
<1>2. QED
  BY SpecKeepsSchedulerInv, <1>1, PTL

\* When the hour of the nightly test is over it has been started, or was running when it was
\* due, or its start raised, however busy the pipeline was (scheduler.py:225-267, 342).
THEOREM NoNightIsMissed == Spec => []NightIsNotMissed
<1>1. SchedulerInv => NightIsNotMissed
  BY DEF SchedulerInv, NightWasSeen, NightIsNotMissed
<1>2. QED
  BY SpecKeepsSchedulerInv, <1>1, PTL
=============================================================================
