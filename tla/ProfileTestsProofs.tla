------------------------- MODULE ProfileTestsProofs -------------------------
(***************************************************************************)
(* Proofs about ProfileTests, for any number of tests and of restarts.     *)
(***************************************************************************)
EXTENDS ProfileTests, TLAPS, WellFoundedInduction

\* The oldest row of a queue is one of it: the least of a set of row ids exists.
LEMMA OldestIsQueued ==
  ASSUME NEW S \in SUBSET Nat, S # {}
  PROVE  Oldest(S) \in S
<1> DEFINE Less == {ss \in Nat \X Nat : ss[1] < ss[2]}
<1>1. IsWellFoundedOn(Less, Nat)
  BY NatLessThanWellFounded, Zenon DEF OpToRel
<1>2. PICK t \in S : \A u \in S : ~(<<u, t>> \in Less)
  BY <1>1, WFMin, Zenon
<1>3. \A u \in S : t <= u
  <2> SUFFICES ASSUME NEW u \in S PROVE t <= u
    OBVIOUS
  <2>1. ~(<<u, t>> \in Less)
    BY <1>2
  <2>2. u \in Nat /\ t \in Nat
    OBVIOUS
  <2>3. ~(u < t)
    BY <2>1, <2>2
  <2>4. QED
    BY <2>2, <2>3
<1>4. QED
  BY <1>3 DEF Oldest

\* The settled statuses are not the statuses of a row that waits or runs.
LEMMA FinalNames ==
  /\ {"COMPLETE", "CANCELLED", "FAILED"} \subseteq Final
  /\ "none" \notin Final /\ "PENDING" \notin Final /\ "RUNNING" \notin Final
BY DEF Final

\* What the worker claims is a queued row.
LEMMA ClaimedIsQueued ==
  ASSUME Pending # {}
  PROVE  Oldest(Pending) \in Tests /\ status[Oldest(Pending)] = "PENDING"
<1>1. Pending \in SUBSET Nat
  BY BoundsAssumption DEF Pending, Tests
<1>2. Oldest(Pending) \in Pending
  BY <1>1, OldestIsQueued
<1>3. QED
  BY <1>2 DEF Pending

\* An empty queue satisfies both parts of the invariant.
LEMMA InitEstablishesDriverInv ==
  ASSUME Init
  PROVE  DriverInv /\ RowInStep
BY BoundsAssumption, NoneAssumption, FinalNames
   DEF Init, DriverInv, TypeOK, WorkerDrives, RunningIsDriven, RowInStep

\* Every step keeps the part about the worker: one step of the proof per action.
LEMMA StepKeepsDriverInv ==
  ASSUME DriverInv, [Next]_vars
  PROVE  DriverInv'
<1> USE BoundsAssumption, NoneAssumption, FinalNames
        DEF DriverInv, TypeOK, WorkerDrives, RunningIsDriven
<1>1. ASSUME NEW t \in Tests, EnsureWorker(t) PROVE DriverInv'
  BY <1>1 DEF EnsureWorker
<1>2. CASE Claim
  BY <1>2, ClaimedIsQueued DEF Claim
<1>3. CASE CheckCancel
  BY <1>3 DEF CheckCancel
<1>4. CASE GoRunning
  BY <1>4 DEF GoRunning, SetRow
<1>5. CASE SettleRow
  BY <1>5 DEF SettleRow, SetRow
<1>6. CASE Unclaim
  BY <1>6 DEF Unclaim
<1>7. CASE CancelFlag
  BY <1>7 DEF CancelFlag
<1>8. CASE CancelRead
  BY <1>8 DEF CancelRead
<1>9. CASE CancelWrite
  BY <1>9 DEF CancelWrite, SetRow
<1>10. CASE OtherLeaves
  BY <1>10 DEF OtherLeaves
<1>11. CASE NoTarget
  BY <1>11 DEF NoTarget, SetRow
<1>12. CASE Hold
  BY <1>12 DEF Hold
<1>13. CASE CancelClaimed
  BY <1>13 DEF CancelClaimed
<1>14. CASE OtherTakes
  BY <1>14 DEF OtherTakes
<1>15. CASE Crash
  <2>1. /\ worker' = "none" /\ driving' = None /\ target' = None /\ asker' = "idle"
        /\ starters' = {} /\ flagged' = {} /\ outcome' = "COMPLETE" /\ pipeline' = "free"
        /\ up' = FALSE /\ status' = status
    BY <1>15 DEF Crash
  <2>2. crashes' \in 0..MaxCrashes
    BY <1>15 DEF Crash
  <2>3. QED
    BY <2>1, <2>2
<1>16. CASE Reboot
  BY <1>16 DEF Reboot, Reconciled
<1>17. ASSUME NEW t \in Tests, Start(t) PROVE DriverInv'
  BY <1>17 DEF Start, SetRow
<1>18. ASSUME NEW t \in Tests, CancelGate(t) PROVE DriverInv'
  BY <1>18 DEF CancelGate
<1>19. ASSUME NEW o \in Final, LeaveWith(o) PROVE DriverInv'
  BY <1>19 DEF LeaveWith
<1>20. CASE UNCHANGED vars
  BY <1>20 DEF vars
<1>21. QED
  BY <1>1, <1>2, <1>3, <1>4, <1>5, <1>6, <1>7, <1>8, <1>9, <1>10, <1>11, <1>12, <1>13, <1>14,
       <1>15, <1>16, <1>17, <1>18, <1>19, <1>20 DEF Next, Proceed

\* ... and the part about the rows, if no test is claimed while its cancel looks at it.
LEMMA StepKeepsRowInStep ==
  ASSUME ~SlowCancel, DriverInv, RowInStep, [Next]_vars
  PROVE  RowInStep'
<1> USE BoundsAssumption, NoneAssumption, FinalNames
        DEF DriverInv, TypeOK, WorkerDrives, RunningIsDriven, RowInStep
<1>1. ASSUME NEW t \in Tests, EnsureWorker(t) PROVE RowInStep'
  BY <1>1 DEF EnsureWorker
<1>2. CASE Claim
  BY <1>2, ClaimedIsQueued DEF Claim, Pending
<1>3. CASE CheckCancel
  BY <1>3 DEF CheckCancel
<1>4. CASE GoRunning
  BY <1>4 DEF GoRunning, SetRow
<1>5. CASE SettleRow
  BY <1>5 DEF SettleRow, SetRow
<1>6. CASE Unclaim
  BY <1>6 DEF Unclaim
<1>7. CASE CancelFlag
  BY <1>7 DEF CancelFlag
<1>8. CASE CancelRead
  BY <1>8 DEF CancelRead
<1>9. CASE CancelWrite
  BY <1>9 DEF CancelWrite, SetRow
<1>10. CASE OtherLeaves
  BY <1>10 DEF OtherLeaves
<1>11. CASE NoTarget
  BY <1>11 DEF NoTarget, SetRow
<1>12. CASE Hold
  BY <1>12 DEF Hold
<1>13. CASE CancelClaimed
  BY <1>13 DEF CancelClaimed
<1>14. CASE OtherTakes
  BY <1>14 DEF OtherTakes
<1>15. CASE Crash
  BY <1>15 DEF Crash
<1>16. CASE Reboot
  BY <1>16 DEF Reboot, Reconciled
<1>17. ASSUME NEW t \in Tests, Start(t) PROVE RowInStep'
  BY <1>17 DEF Start, SetRow
<1>18. ASSUME NEW t \in Tests, CancelGate(t) PROVE RowInStep'
  BY <1>18 DEF CancelGate
<1>19. ASSUME NEW o \in Final, LeaveWith(o) PROVE RowInStep'
  BY <1>19 DEF LeaveWith
<1>20. CASE UNCHANGED vars
  BY <1>20 DEF vars
<1>21. QED
  BY <1>1, <1>2, <1>3, <1>4, <1>5, <1>6, <1>7, <1>8, <1>9, <1>10, <1>11, <1>12, <1>13, <1>14,
       <1>15, <1>16, <1>17, <1>18, <1>19, <1>20 DEF Next, Proceed

\* The part of the invariant that needs no assumption.
LEMMA SpecKeepsDriverInv == Spec => []DriverInv
<1>1. Init => DriverInv
  BY InitEstablishesDriverInv
<1>2. DriverInv /\ [Next]_vars => DriverInv'
  BY StepKeepsDriverInv
<1>3. QED
  BY <1>1, <1>2, PTL DEF Spec

\* A RUNNING test is the one the worker drives, under the pipeline or past it on the way to
\* settle its row, whatever cancels and restarts do (profile_test.py).
THEOREM TestsRunUnderThePipeline == Spec => []RunsUnderThePipeline
<1>1. DriverInv => RunsUnderThePipeline
  BY DEF DriverInv, WorkerDrives, RunningIsDriven, RunsUnderThePipeline
<1>2. QED
  BY SpecKeepsDriverInv, <1>1, PTL

\* A settled row stays settled, so a test removed from the queue never runs, if no test is
\* claimed while its cancel looks at its row (profile_test.py, cancel and _worker).
THEOREM SettledIsFinal ==
  ASSUME ~SlowCancel
  PROVE  Spec => SettledStaysSettled
<1>1. Init => RowInStep
  BY InitEstablishesDriverInv
<1>2. DriverInv /\ RowInStep /\ [Next]_vars => RowInStep'
  BY StepKeepsRowInStep
<1>3. DriverInv /\ RowInStep /\ [Next]_vars
        => [\A t \in Tests : status[t] \in Final => status'[t] = status[t]]_vars
  <2> SUFFICES ASSUME DriverInv, RowInStep, Next, NEW q \in Tests, status[q] \in Final
               PROVE  status'[q] = status[q]
    BY DEF vars
  <2> USE FinalNames DEF DriverInv, TypeOK, WorkerDrives, RowInStep
  <2>1. ASSUME NEW t \in Tests, EnsureWorker(t) PROVE status'[q] = status[q]
    BY <2>1 DEF EnsureWorker
  <2>2. CASE Claim
    BY <2>2 DEF Claim
  <2>3. CASE CheckCancel
    BY <2>3 DEF CheckCancel
  <2>4. CASE GoRunning
    BY <2>4 DEF GoRunning, SetRow
  <2>5. CASE SettleRow
    BY <2>5 DEF SettleRow, SetRow
  <2>6. CASE Unclaim
    BY <2>6 DEF Unclaim
  <2>7. CASE CancelFlag
    BY <2>7 DEF CancelFlag
  <2>8. CASE CancelRead
    BY <2>8 DEF CancelRead
  <2>9. CASE CancelWrite
    BY <2>9 DEF CancelWrite, SetRow
  <2>10. CASE OtherLeaves
    BY <2>10 DEF OtherLeaves
  <2>11. CASE NoTarget
    BY <2>11 DEF NoTarget, SetRow
  <2>12. CASE Hold
    BY <2>12 DEF Hold
  <2>13. CASE CancelClaimed
    BY <2>13 DEF CancelClaimed
  <2>14. CASE OtherTakes
    BY <2>14 DEF OtherTakes
  <2>15. CASE Crash
    BY <2>15 DEF Crash
  <2>16. CASE Reboot
    BY <2>16 DEF Reboot, Reconciled
  <2>17. ASSUME NEW t \in Tests, Start(t) PROVE status'[q] = status[q]
    BY <2>17 DEF Start, SetRow
  <2>18. ASSUME NEW t \in Tests, CancelGate(t) PROVE status'[q] = status[q]
    BY <2>18 DEF CancelGate
  <2>19. ASSUME NEW o \in Final, LeaveWith(o) PROVE status'[q] = status[q]
    BY <2>19 DEF LeaveWith
  <2>20. QED
    BY <2>1, <2>2, <2>3, <2>4, <2>5, <2>6, <2>7, <2>8, <2>9, <2>10, <2>11, <2>12, <2>13,
         <2>14, <2>15, <2>16, <2>17, <2>18, <2>19 DEF Next, Proceed
<1>4. QED
  BY SpecKeepsDriverInv, <1>1, <1>2, <1>3, PTL DEF Spec, SettledStaysSettled
=============================================================================
