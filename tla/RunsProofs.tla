----------------------------- MODULE RunsProofs -----------------------------
(***************************************************************************)
(* Proofs about Runs, for any number of runs, chunks, iterations, restarts *)
(* and settings.                                                           *)
(***************************************************************************)
EXTENDS Runs, TLAPS

\* The reasons of a FAILED row are not the statuses of any other.
LEMMA FailedNames ==
  /\ {"cancelled", "overdue", "drifted", "raised", "interrupted", "expired"} \subseteq Failed
  /\ "none" \notin Failed /\ "PENDING" \notin Failed
  /\ "RUNNING" \notin Failed /\ "COMPLETE" \notin Failed
BY DEF Failed

\* What the next chunk n of r's series changes: the row it leaves is COMPLETE, the one it takes new.
NextChunkMoves(r, n) ==
  /\ r # n /\ status[r] = "COMPLETE" /\ status[n] = "none" /\ pc[r] = "out" /\ pc[n] = "none"
  /\ owner = r /\ owner' = n /\ stop' \subseteq stop
  /\ \A q \in Runs : q # r /\ q \in stop => q \in stop'
  /\ \A q \in Runs : status'[q] = IF q = n THEN "PENDING" ELSE status[q]
  /\ \A q \in Runs : pc'[q] = IF q = r THEN "none" ELSE IF q = n THEN "held" ELSE pc[q]
  /\ status' \in [Runs -> {"none", "COMPLETE"} \cup Active \cup Failed]
  /\ pc' \in [Runs -> Points]
  /\ more' \in [Runs -> 0..(MaxChunks - 1)]
  /\ Forget({r})
  /\ up /\ UNCHANGED <<chunks, asker, scheduled, live, budget, up, crashes, moves, told>>

\* ... as NextChunk says, by the part of the invariant about the owner.
LEMMA NextChunkChanges ==
  ASSUME OwnerInv, NEW r \in Runs, NEW n \in Runs, NextChunk(r, n)
  PROVE  NextChunkMoves(r, n)
<1>1. /\ r # n /\ status[r] = "COMPLETE" /\ status[n] = "none" /\ pc[r] = "out" /\ owner' = n
      /\ stop' = stop \ {r}
  BY DEF NextChunk, IsNextRow
<1>2. owner = r /\ pc[n] = "none"
  BY <1>1 DEF OwnerInv, OwnerWorks, RowFollowsThread, Working
<1>3. status' = [status EXCEPT ![n] = "PENDING"]
  BY DEF NextChunk, SetRow
<1>4. /\ status \in [Runs -> {"none", "COMPLETE"} \cup Active \cup Failed]
      /\ pc \in [Runs -> Points]
      /\ more \in [Runs -> 0..(MaxChunks - 1)]
  BY DEF OwnerInv, TypeOK
<1>5. /\ \A q \in Runs : pc'[q] = IF q = r THEN "none" ELSE IF q = n THEN "held" ELSE pc[q]
      /\ pc' \in [Runs -> Points]
  BY <1>1, <1>4 DEF NextChunk, Points
<1>6. /\ \A q \in Runs : status'[q] = IF q = n THEN "PENDING" ELSE status[q]
      /\ status' \in [Runs -> {"none", "COMPLETE"} \cup Active \cup Failed]
  BY <1>3, <1>4 DEF Active
<1>7. more' \in [Runs -> 0..(MaxChunks - 1)]
  <2>1. more' = [more EXCEPT ![r] = 0, ![n] = more[r] - 1] /\ more[r] > 0
    BY DEF NextChunk
  <2>2. more[r] \in 0..(MaxChunks - 1)
    BY <1>4
  <2>3. more[r] - 1 \in 0..(MaxChunks - 1) /\ 0 \in 0..(MaxChunks - 1)
    BY <2>1, <2>2, RunsAssumption
  <2>4. QED
    BY <2>1, <2>3, <1>4
<1>8. /\ Forget({r})
      /\ up /\ UNCHANGED <<chunks, asker, scheduled, live, budget, up, crashes, moves, told>>
  BY DEF NextChunk
<1>9. QED
  BY <1>1, <1>2, <1>5, <1>6, <1>7, <1>8 DEF NextChunkMoves

\* A process without rows satisfies every part of the invariant.
LEMMA InitEstablishesRunsInv ==
  ASSUME Init
  PROVE  OwnerInv /\ StopReaches /\ FailedIsRead /\ MovedIsSeen
<1> USE RunsAssumption, NamesAssumption, FailedNames DEF Init, Idle
<1>1. TypeOK
  BY DEF TypeOK, Runs, Active, Points
<1>2. OwnerWorks /\ RowFollowsThread
  BY DEF OwnerWorks, RowFollowsThread, Working, Idle, Measuring
<1>3. StopReaches /\ FailedIsRead /\ MovedIsSeen
  BY DEF StopReaches, FailedIsRead, MovedIsSeen
<1>4. QED
  BY <1>1, <1>2, <1>3 DEF OwnerInv

\* Every step keeps the types, one step of the proof per action.
LEMMA StepKeepsTypes ==
  ASSUME OwnerInv, [Next]_vars
  PROVE  TypeOK'
<1>a. TypeOK /\ OwnerWorks /\ RowFollowsThread
  BY DEF OwnerInv
<1> USE RunsAssumption, NamesAssumption, FailedNames, <1>a
        DEF OwnerWorks, TypeOK, Active, Points, Measuring, Forget, run, changes
<1>1. ASSUME NEW r \in Runs, NEW n \in 1..MaxChunks, Trigger(r, n) PROVE TypeOK'
  BY <1>1 DEF Trigger, SetRow, Go, history, IsNextRow
<1>2. ASSUME NEW r \in Runs, Monitor(r) PROVE TypeOK'
  BY <1>2 DEF Monitor, history, IsActive, SetRow, Go, IsNextRow
<1>3. ASSUME NEW r \in Runs, Hold(r) PROVE TypeOK'
  BY <1>3 DEF Hold, rows, history, Go
<1>4. ASSUME NEW r \in Runs, Begin(r) PROVE TypeOK'
  BY <1>4 DEF Begin, rows, world, history, Go
<1>5. ASSUME NEW r \in Runs, Start(r) PROVE TypeOK'
  BY <1>5 DEF Start, history, SetRow, Go, Reading
<1>6. ASSUME NEW r \in Runs, StopHere(r) PROVE TypeOK'
  BY <1>6 DEF StopHere, world, history, SetRow, Go, Stopped, AskedByRow
<1>7. ASSUME NEW r \in Runs, Iterate(r) PROVE TypeOK'
  BY <1>7 DEF RowFollowsThread, Iterate, world, history, Go, Stopped, AskedByRow, IsLast
<1>8. ASSUME NEW r \in Runs, Store(r) PROVE TypeOK'
  BY <1>8 DEF Store, world, SetRow, Go, Reading, FinalStatus
<1>9. ASSUME NEW r \in Runs, Raise(r) PROVE TypeOK'
  BY <1>9 DEF Raise, world, history, SetRow, Go
<1>10. ASSUME NEW r \in Runs, Leave(r) PROVE TypeOK'
  BY <1>10 DEF Leave, rows, history, Go
<1>11. ASSUME NEW r \in Runs, CancelRead(r) PROVE TypeOK'
  BY <1>11 DEF CancelRead, rows, world, history, Idle, IsActive
<1>12. ASSUME NEW r \in Runs, NEW n \in Runs, NextChunk(r, n) PROVE TypeOK'
  <2>1. NextChunkMoves(r, n)
    BY <1>12, NextChunkChanges
  <2>2. QED
    BY <2>1 DEF NextChunkMoves
<1>13. CASE CancelWrite
  BY <1>13 DEF CancelWrite, world, history, SetRow
<1>14. CASE CancelAsk
  BY <1>14 DEF CancelAsk, Idle, rows, world
<1>15. CASE Watchdog
  BY <1>15 DEF Watchdog, threads, world, history, IsActive
<1>16. CASE OtherTakes
  BY <1>16 DEF OtherTakes, rows, threads, history
<1>17. CASE OtherLeaves
  BY <1>17 DEF OtherLeaves, rows, threads, history
<1>18. CASE Crash
  <2>1. asker' \in [run : Runs \cup {NoRun}, at : {"idle", "toWrite", "toAsk"}]
    BY <1>18 DEF Crash, Idle
  <2>2. pc' \in [Runs -> Points]
    BY <1>18 DEF Crash
  <2>3. more' \in [Runs -> 0..(MaxChunks - 1)]
    BY <1>18, <2>1 DEF Crash
  <2>4. stop' \subseteq Runs /\ scheduled' = NoRun /\ owner' = NoRun /\ up' = FALSE
    BY <1>18 DEF Crash
  <2>5. crashes' \in 0..MaxCrashes
    BY <1>18 DEF Crash
  <2>6. /\ UNCHANGED <<status, chunks, live, budget, moves, told>>
        /\ done' \in [Runs -> 0..Iterations] /\ seen' \in [Runs -> Settings \cup {NoRun}]
        /\ unread' \subseteq Runs /\ moved' \subseteq Runs /\ back' \subseteq Runs
    BY <1>18 DEF Crash, rows
  <2>7. QED
    BY <2>1, <2>2, <2>3, <2>4, <2>5, <2>6
<1>19. CASE Reboot
  BY <1>19 DEF Reboot, Reconciled, Resume, history
<1>23. ASSUME NEW r \in Runs, Ask(r) PROVE TypeOK'
  BY <1>23 DEF Ask, rows, world, history, Go, Stopped, AskedByRow
<1>20. ASSUME NEW s \in Settings, Move(s) PROVE TypeOK'
  BY <1>20 DEF Move, rows, threads
<1>21. CASE UNCHANGED vars
  BY <1>21 DEF vars, rows, threads, world, history
<1>22. QED
  BY <1>1, <1>2, <1>3, <1>4, <1>5, <1>6, <1>7, <1>8, <1>9, <1>10, <1>11, <1>12, <1>13, <1>14,
       <1>15, <1>16, <1>17, <1>18, <1>19, <1>20, <1>21, <1>23 DEF Next

\* ... the pipeline with the run whose thread works, and its row in step with the thread,
LEMMA StepKeepsOwnerWorks ==
  ASSUME OwnerInv, [Next]_vars
  PROVE  OwnerWorks' /\ RowFollowsThread'
<1>a. TypeOK /\ OwnerWorks /\ RowFollowsThread
  BY DEF OwnerInv
<1> USE RunsAssumption, NamesAssumption, FailedNames, <1>a
        DEF OwnerWorks, RowFollowsThread, TypeOK, Working, Points, Measuring, Forget, run,
            changes
<1>1. ASSUME NEW r \in Runs, NEW n \in 1..MaxChunks, Trigger(r, n) PROVE OwnerWorks' /\ RowFollowsThread'
  BY <1>1 DEF Trigger, history, SetRow, Go, IsNextRow
<1>2. ASSUME NEW r \in Runs, Monitor(r) PROVE OwnerWorks' /\ RowFollowsThread'
  BY <1>2 DEF Monitor, history, IsActive, SetRow, Go, IsNextRow
<1>3. ASSUME NEW r \in Runs, Hold(r) PROVE OwnerWorks' /\ RowFollowsThread'
  BY <1>3 DEF Hold, rows, history, Go
<1>4. ASSUME NEW r \in Runs, Begin(r) PROVE OwnerWorks' /\ RowFollowsThread'
  BY <1>4 DEF Begin, rows, world, history, Go
<1>5. ASSUME NEW r \in Runs, Start(r) PROVE OwnerWorks' /\ RowFollowsThread'
  BY <1>5 DEF Start, history, SetRow, Go, Reading
<1>6. ASSUME NEW r \in Runs, StopHere(r) PROVE OwnerWorks' /\ RowFollowsThread'
  BY <1>6 DEF StopHere, world, history, SetRow, Go, Stopped, AskedByRow
<1>7. ASSUME NEW r \in Runs, Iterate(r) PROVE OwnerWorks' /\ RowFollowsThread'
  BY <1>7 DEF Iterate, world, history, Go, Stopped, AskedByRow, IsLast
<1>8. ASSUME NEW r \in Runs, Store(r) PROVE OwnerWorks' /\ RowFollowsThread'
  BY <1>8 DEF Store, world, SetRow, Go, Reading, FinalStatus
<1>9. ASSUME NEW r \in Runs, Raise(r) PROVE OwnerWorks' /\ RowFollowsThread'
  BY <1>9 DEF Raise, world, history, SetRow, Go
<1>10. ASSUME NEW r \in Runs, Leave(r) PROVE OwnerWorks' /\ RowFollowsThread'
  BY <1>10 DEF Leave, rows, history, Go
<1>11. ASSUME NEW r \in Runs, CancelRead(r) PROVE OwnerWorks' /\ RowFollowsThread'
  BY <1>11 DEF CancelRead, rows, world, history, Idle, IsActive
<1>12. ASSUME NEW r \in Runs, NEW n \in Runs, NextChunk(r, n) PROVE OwnerWorks' /\ RowFollowsThread'
  <2>1. NextChunkMoves(r, n)
    BY <1>12, NextChunkChanges
  <2>2. QED
    BY <2>1 DEF NextChunkMoves
<1>13. CASE CancelWrite
  BY <1>13 DEF CancelWrite, world, history, SetRow
<1>14. CASE CancelAsk
  BY <1>14 DEF CancelAsk, rows, world, Idle
<1>15. CASE Watchdog
  BY <1>15 DEF Watchdog, threads, world, history, IsActive
<1>16. CASE OtherTakes
  BY <1>16 DEF OtherTakes, rows, threads, history
<1>17. CASE OtherLeaves
  BY <1>17 DEF OtherLeaves, rows, threads, history
<1>18. CASE Crash
  BY <1>18 DEF Crash, rows, history, Idle
<1>19. CASE Reboot
  BY <1>19 DEF Reboot, Reconciled, Resume, history
<1>23. ASSUME NEW r \in Runs, Ask(r) PROVE OwnerWorks' /\ RowFollowsThread'
  BY <1>23 DEF Ask, rows, world, history, Go, Stopped, AskedByRow
<1>20. ASSUME NEW s \in Settings, Move(s) PROVE OwnerWorks' /\ RowFollowsThread'
  BY <1>20 DEF Move, rows, threads
<1>21. CASE UNCHANGED vars
  BY <1>21 DEF vars, rows, threads, world, history
<1>22. QED
  BY <1>1, <1>2, <1>3, <1>4, <1>5, <1>6, <1>7, <1>8, <1>9, <1>10, <1>11, <1>12, <1>13, <1>14,
       <1>15, <1>16, <1>17, <1>18, <1>19, <1>20, <1>21, <1>23 DEF Next

\* ... an answered cancel ahead of the last iteration,
LEMMA StepKeepsStopReaches ==
  ASSUME OwnerInv, StopReaches, [Next]_vars
  PROVE  StopReaches'
<1>a. TypeOK /\ OwnerWorks /\ RowFollowsThread
  BY DEF OwnerInv
<1> USE RunsAssumption, NamesAssumption, FailedNames, <1>a
        DEF StopReaches, OwnerWorks, RowFollowsThread, TypeOK, Points, Measuring, Forget, run,
            changes, AsksAgain, IsLast
<1>1. ASSUME NEW r \in Runs, NEW n \in 1..MaxChunks, Trigger(r, n) PROVE StopReaches'
  BY <1>1 DEF Trigger, IsNextRow, SetRow, Go, history
<1>2. ASSUME NEW r \in Runs, Monitor(r) PROVE StopReaches'
  BY <1>2 DEF Monitor, IsNextRow, SetRow, Go, history, IsActive
<1>3. ASSUME NEW r \in Runs, Hold(r) PROVE StopReaches'
  BY <1>3 DEF Hold, rows, history, Go
<1>4. ASSUME NEW r \in Runs, Begin(r) PROVE StopReaches'
  BY <1>4 DEF Begin, rows, world, history, Go
<1>5. ASSUME NEW r \in Runs, Start(r) PROVE StopReaches'
  BY <1>5 DEF Start, history, SetRow, Go, Reading
<1>6. ASSUME NEW r \in Runs, StopHere(r) PROVE StopReaches'
  BY <1>6 DEF StopHere, world, history, SetRow, Go, Stopped, AskedByRow
<1>7. ASSUME NEW r \in Runs, Iterate(r) PROVE StopReaches'
  BY <1>7 DEF Iterate, Stopped, SetRow, Go, world, history, AskedByRow, IsLast
<1>8. ASSUME NEW r \in Runs, Store(r) PROVE StopReaches'
  BY <1>8 DEF Store, SetRow, Go, world, Reading, FinalStatus
<1>9. ASSUME NEW r \in Runs, Raise(r) PROVE StopReaches'
  BY <1>9 DEF Raise, world, history, SetRow, Go
<1>10. ASSUME NEW r \in Runs, Leave(r) PROVE StopReaches'
  BY <1>10 DEF Leave, rows, history, Go
<1>11. ASSUME NEW r \in Runs, CancelRead(r) PROVE StopReaches'
  BY <1>11 DEF CancelRead, rows, world, history, Idle, IsActive, Active
<1>12. ASSUME NEW r \in Runs, NEW n \in Runs, NextChunk(r, n) PROVE StopReaches'
  <2>1. NextChunkMoves(r, n)
    BY <1>12, NextChunkChanges
  <2>2. QED
    BY <2>1 DEF NextChunkMoves
<1>13. CASE CancelWrite
  BY <1>13 DEF CancelWrite, SetRow, Go, world, history
<1>14. CASE CancelAsk
  BY <1>14 DEF CancelAsk, rows, world, Idle
<1>15. CASE Watchdog
  BY <1>15 DEF Watchdog, threads, world, history, IsActive
<1>16. CASE OtherTakes
  BY <1>16 DEF OtherTakes, rows, threads, history
<1>17. CASE OtherLeaves
  BY <1>17 DEF OtherLeaves, rows, threads, history
<1>18. CASE Crash
  BY <1>18 DEF Crash, rows, history, Idle
<1>19. CASE Reboot
  <2>1. asker.at = "idle" /\ UNCHANGED <<told, asker>>
    BY <1>19 DEF Reboot, Idle, history
  <2>2. ASSUME NEW r \in told
        PROVE  /\ status'[r] \in Failed \cup {"RUNNING"}
               /\ pc'[r] \notin {"starting", "loop", "iterating", "measured"}
    <3>1. r \in Runs /\ status[r] \in Failed \cup {"RUNNING"}
      OBVIOUS
    <3>2. PICK expired \in SUBSET {q \in Runs : status[q] = "PENDING"} :
             /\ status' = [q \in Runs |-> Reconciled(q, expired)]
             /\ Resume({q \in Runs : status[q] = "PENDING"} \ expired)
      BY <1>19, Zenon DEF Reboot
    <3>3. QED
      BY <3>1, <3>2 DEF Reconciled, Resume
  <2>3. QED
    BY <2>1, <2>2
<1>23. ASSUME NEW r \in Runs, Ask(r) PROVE StopReaches'
  BY <1>23 DEF Ask, rows, world, history, Go, Stopped, AskedByRow
<1>20. ASSUME NEW s \in Settings, Move(s) PROVE StopReaches'
  BY <1>20 DEF Move, rows, threads
<1>21. CASE UNCHANGED vars
  BY <1>21 DEF vars, rows, threads, world, history
<1>22. QED
  BY <1>1, <1>2, <1>3, <1>4, <1>5, <1>6, <1>7, <1>8, <1>9, <1>10, <1>11, <1>12, <1>13, <1>14,
       <1>15, <1>16, <1>17, <1>18, <1>19, <1>20, <1>21, <1>23 DEF Next

\* ... a row that says FAILED ahead of a read, unless it was written too late,
LEMMA StepKeepsFailedIsRead ==
  ASSUME OwnerInv, FailedIsRead, [Next]_vars
  PROVE  FailedIsRead'
<1>a. TypeOK /\ OwnerWorks /\ RowFollowsThread
  BY DEF OwnerInv
<1> USE RunsAssumption, NamesAssumption, FailedNames, <1>a
        DEF FailedIsRead, RowFollowsThread, TypeOK, Points, Measuring, Forget, run, changes,
            ReadsRowAgain, IsLast
<1>1. ASSUME NEW r \in Runs, NEW n \in 1..MaxChunks, Trigger(r, n) PROVE FailedIsRead'
  BY <1>1 DEF Trigger, history, SetRow, Go, IsNextRow
<1>2. ASSUME NEW r \in Runs, Monitor(r) PROVE FailedIsRead'
  BY <1>2 DEF Monitor, history, IsActive, SetRow, Go, IsNextRow
<1>3. ASSUME NEW r \in Runs, Hold(r) PROVE FailedIsRead'
  BY <1>3 DEF Hold, rows, history, Go
<1>4. ASSUME NEW r \in Runs, Begin(r) PROVE FailedIsRead'
  BY <1>4 DEF Begin, rows, world, history, Go
<1>5. ASSUME NEW r \in Runs, Start(r) PROVE FailedIsRead'
  BY <1>5 DEF Start, history, SetRow, Go, Reading
<1>6. ASSUME NEW r \in Runs, StopHere(r) PROVE FailedIsRead'
  BY <1>6 DEF StopHere, world, history, SetRow, Go, Stopped, AskedByRow
<1>7. ASSUME NEW r \in Runs, Iterate(r) PROVE FailedIsRead'
  BY <1>7 DEF Iterate, world, history, Go, Stopped, AskedByRow, IsLast
<1>8. ASSUME NEW r \in Runs, Store(r) PROVE FailedIsRead'
  BY <1>8 DEF Store, world, SetRow, Go, Reading, FinalStatus
<1>9. ASSUME NEW r \in Runs, Raise(r) PROVE FailedIsRead'
  BY <1>9 DEF Raise, world, history, SetRow, Go
<1>10. ASSUME NEW r \in Runs, Leave(r) PROVE FailedIsRead'
  BY <1>10 DEF Leave, rows, history, Go
<1>11. ASSUME NEW r \in Runs, CancelRead(r) PROVE FailedIsRead'
  BY <1>11 DEF CancelRead, rows, world, history, Idle, IsActive
<1>12. ASSUME NEW r \in Runs, NEW n \in Runs, NextChunk(r, n) PROVE FailedIsRead'
  <2>1. NextChunkMoves(r, n)
    BY <1>12, NextChunkChanges
  <2>2. QED
    BY <2>1 DEF NextChunkMoves
<1>13. CASE CancelWrite
  BY <1>13 DEF CancelWrite, world, history, SetRow
<1>14. CASE CancelAsk
  BY <1>14 DEF CancelAsk, rows, world, Idle
<1>15. CASE Watchdog
  BY <1>15 DEF Watchdog, threads, world, history, IsActive
<1>16. CASE OtherTakes
  BY <1>16 DEF OtherTakes, rows, threads, history
<1>17. CASE OtherLeaves
  BY <1>17 DEF OtherLeaves, rows, threads, history
<1>18. CASE Crash
  BY <1>18 DEF Crash, rows, history, Idle
<1>19. CASE Reboot
  BY <1>19 DEF Reboot, Reconciled, Resume, history
<1>23. ASSUME NEW r \in Runs, Ask(r) PROVE FailedIsRead'
  BY <1>23 DEF Ask, rows, world, history, Go, Stopped, AskedByRow
<1>20. ASSUME NEW s \in Settings, Move(s) PROVE FailedIsRead'
  BY <1>20 DEF Move, rows, threads
<1>21. CASE UNCHANGED vars
  BY <1>21 DEF vars, rows, threads, world, history
<1>22. QED
  BY <1>1, <1>2, <1>3, <1>4, <1>5, <1>6, <1>7, <1>8, <1>9, <1>10, <1>11, <1>12, <1>13, <1>14,
       <1>15, <1>16, <1>17, <1>18, <1>19, <1>20, <1>21, <1>23 DEF Next

\* ... and a change of settings that was not changed back visible.
LEMMA StepKeepsMovedIsSeen ==
  ASSUME OwnerInv, MovedIsSeen, [Next]_vars
  PROVE  MovedIsSeen'
<1>a. TypeOK /\ OwnerWorks /\ RowFollowsThread
  BY DEF OwnerInv
<1> USE RunsAssumption, NamesAssumption, FailedNames, <1>a
        DEF MovedIsSeen, RowFollowsThread, TypeOK, Working, Points, Measuring, Forget, run,
            changes
<1>1. ASSUME NEW r \in Runs, NEW n \in 1..MaxChunks, Trigger(r, n) PROVE MovedIsSeen'
  BY <1>1 DEF Trigger, IsNextRow, SetRow, Go, history
<1>2. ASSUME NEW r \in Runs, Monitor(r) PROVE MovedIsSeen'
  BY <1>2 DEF Monitor, IsNextRow, SetRow, Go, history, IsActive
<1>3. ASSUME NEW r \in Runs, Hold(r) PROVE MovedIsSeen'
  BY <1>3 DEF Hold, rows, history, Go
<1>4. ASSUME NEW r \in Runs, Begin(r) PROVE MovedIsSeen'
  BY <1>4 DEF Begin, rows, world, history, Go
<1>5. ASSUME NEW r \in Runs, Start(r) PROVE MovedIsSeen'
  BY <1>5 DEF Start, SetRow, Go, history, Reading
<1>6. ASSUME NEW r \in Runs, StopHere(r) PROVE MovedIsSeen'
  BY <1>6 DEF StopHere, world, history, SetRow, Go, Stopped, AskedByRow
<1>7. ASSUME NEW r \in Runs, Iterate(r) PROVE MovedIsSeen'
  BY <1>7 DEF Iterate, world, history, Go, Stopped, AskedByRow, IsLast
<1>8. ASSUME NEW r \in Runs, Store(r) PROVE MovedIsSeen'
  BY <1>8 DEF Store, world, SetRow, Go, Reading, FinalStatus
<1>9. ASSUME NEW r \in Runs, Raise(r) PROVE MovedIsSeen'
  BY <1>9 DEF Raise, world, history, SetRow, Go
<1>10. ASSUME NEW r \in Runs, Leave(r) PROVE MovedIsSeen'
  BY <1>10 DEF Leave, rows, history, Go
<1>11. ASSUME NEW r \in Runs, CancelRead(r) PROVE MovedIsSeen'
  BY <1>11 DEF CancelRead, rows, world, history, Idle, IsActive
<1>12. ASSUME NEW r \in Runs, NEW n \in Runs, NextChunk(r, n) PROVE MovedIsSeen'
  <2>1. NextChunkMoves(r, n)
    BY <1>12, NextChunkChanges
  <2>2. QED
    BY <2>1 DEF NextChunkMoves
<1>13. CASE CancelWrite
  BY <1>13 DEF CancelWrite, world, history, SetRow
<1>14. CASE CancelAsk
  BY <1>14 DEF CancelAsk, rows, world, Idle
<1>15. CASE Watchdog
  BY <1>15 DEF Watchdog, threads, world, history, IsActive
<1>16. CASE OtherTakes
  BY <1>16 DEF OtherTakes, rows, threads, history
<1>17. CASE OtherLeaves
  BY <1>17 DEF OtherLeaves, rows, threads, history
<1>18. CASE Crash
  BY <1>18 DEF Crash, rows, history, Idle
<1>19. CASE Reboot
  <2>1. moved \ back = {}
    BY <1>19 DEF Reboot, OwnerWorks
  <2>2. QED
    BY <1>19, <2>1 DEF Reboot, history
<1>23. ASSUME NEW r \in Runs, Ask(r) PROVE MovedIsSeen'
  BY <1>23 DEF Ask, rows, world, history, Go, Stopped, AskedByRow
<1>20. ASSUME NEW s \in Settings, Move(s) PROVE MovedIsSeen'
  BY <1>20 DEF Move, rows, threads
<1>21. CASE UNCHANGED vars
  BY <1>21 DEF vars, rows, threads, world, history
<1>22. QED
  BY <1>1, <1>2, <1>3, <1>4, <1>5, <1>6, <1>7, <1>8, <1>9, <1>10, <1>11, <1>12, <1>13, <1>14,
       <1>15, <1>16, <1>17, <1>18, <1>19, <1>20, <1>21, <1>23 DEF Next

\* The part of the invariant the others rest on.
LEMMA SpecKeepsOwnerInv == Spec => []OwnerInv
<1>1. Init => OwnerInv
  BY InitEstablishesRunsInv
<1>2. OwnerInv /\ [Next]_vars => OwnerInv'
  BY StepKeepsTypes, StepKeepsOwnerWorks DEF OwnerInv
<1>3. QED
  BY <1>1, <1>2, PTL DEF Spec

\* The rows, threads and requests of the runs are always of their types (runner.py).
THEOREM RunsTypeCorrect == Spec => []TypeOK
<1>1. OwnerInv => TypeOK
  BY DEF OwnerInv
<1>2. QED
  BY SpecKeepsOwnerInv, <1>1, PTL

\* While the process is up a RUNNING row is one a thread executes with the pipeline its own:
\* whatever the cancels, the watchdog and the restarts write (runner.py, routes_run.py).
THEOREM OnlyOneRunMeasures == Spec => []OneRunMeasures
<1>1. OwnerInv => OneRunMeasures
  BY DEF OwnerInv, OwnerWorks, RowFollowsThread, OneRunMeasures, Working, Measuring
<1>2. QED
  BY SpecKeepsOwnerInv, <1>1, PTL

\* A run whose cancel was answered before its last iteration began is never COMPLETE, for
\* runs of one iteration or many (runner.py, the cancel route of routes_run.py).
THEOREM CancelledIsNotScored == Spec => []CancelledNotScored
<1>1. Init => StopReaches
  BY InitEstablishesRunsInv
<1>2. OwnerInv /\ StopReaches /\ [Next]_vars => StopReaches'
  BY StepKeepsStopReaches
<1>3. StopReaches => CancelledNotScored
  BY FailedNames DEF StopReaches, CancelledNotScored
<1>4. QED
  BY SpecKeepsOwnerInv, <1>1, <1>2, <1>3, PTL DEF Spec

\* A FAILED row stays FAILED, unless another thread wrote it after the run had read its row
\* for the last time (runner.py).
THEOREM FailedIsFinal == Spec => FailedStaysFailed
<1>1. Init => FailedIsRead
  BY InitEstablishesRunsInv
<1>2. OwnerInv /\ FailedIsRead /\ [Next]_vars => FailedIsRead'
  BY StepKeepsFailedIsRead
<1>3. OwnerInv /\ FailedIsRead /\ [Next]_vars
        => [\A r \in Runs : status[r] \in Failed /\ r \notin unread => status'[r] \in Failed]_vars
  <2> SUFFICES ASSUME OwnerInv, FailedIsRead, Next,
                      NEW q \in Runs, status[q] \in Failed, q \notin unread
               PROVE  status'[q] \in Failed
    BY DEF vars
  <2>0. /\ pc[q] \notin {"starting", "measured"}
        /\ status \in [Runs -> {"none", "COMPLETE"} \cup Active \cup Failed]
        /\ asker.at # "idle" => asker.run \in Runs
    BY DEF FailedIsRead, ReadsRowAgain, OwnerInv, TypeOK, OwnerWorks
  <2> USE FailedNames, <2>0
  <2>1. ASSUME NEW r \in Runs, NEW n \in 1..MaxChunks, Trigger(r, n) PROVE status'[q] \in Failed
    BY <2>1 DEF Trigger, SetRow, IsNextRow
  <2>2. ASSUME NEW r \in Runs, Monitor(r) PROVE status'[q] \in Failed
    BY <2>2 DEF Monitor, SetRow, IsNextRow
  <2>3. ASSUME NEW r \in Runs, Hold(r) PROVE status'[q] \in Failed
    BY <2>3 DEF Hold, rows
  <2>4. ASSUME NEW r \in Runs, Begin(r) PROVE status'[q] \in Failed
    BY <2>4 DEF Begin, rows
  <2>5. ASSUME NEW r \in Runs, Start(r) PROVE status'[q] \in Failed
    BY <2>5 DEF Start, SetRow
  <2>6. ASSUME NEW r \in Runs, StopHere(r) PROVE status'[q] \in Failed
    BY <2>6 DEF StopHere, SetRow, Stopped, AskedByRow
  <2>7. ASSUME NEW r \in Runs, Ask(r) PROVE status'[q] \in Failed
    BY <2>7 DEF Ask, rows
  <2>8. ASSUME NEW r \in Runs, Iterate(r) PROVE status'[q] \in Failed
    BY <2>8 DEF Iterate
  <2>9. ASSUME NEW r \in Runs, Store(r) PROVE status'[q] \in Failed
    BY <2>9 DEF Store, SetRow
  <2>10. ASSUME NEW r \in Runs, Raise(r) PROVE status'[q] \in Failed
    BY <2>10 DEF Raise, SetRow
  <2>11. ASSUME NEW r \in Runs, Leave(r) PROVE status'[q] \in Failed
    BY <2>11 DEF Leave, rows
  <2>12. ASSUME NEW r \in Runs, CancelRead(r) PROVE status'[q] \in Failed
    BY <2>12 DEF CancelRead, rows
  <2>13. ASSUME NEW r \in Runs, NEW n \in Runs, NextChunk(r, n) PROVE status'[q] \in Failed
    BY <2>13 DEF NextChunk, SetRow, IsNextRow
  <2>14. CASE CancelWrite
    BY <2>14 DEF CancelWrite, SetRow
  <2>15. CASE CancelAsk
    BY <2>15 DEF CancelAsk, rows
  <2>16. CASE Watchdog
    BY <2>16 DEF Watchdog
  <2>17. CASE OtherTakes
    BY <2>17 DEF OtherTakes, rows
  <2>18. CASE OtherLeaves
    BY <2>18 DEF OtherLeaves, rows
  <2>19. CASE Crash
    BY <2>19 DEF Crash, rows
  <2>20. CASE Reboot
    BY <2>20 DEF Reboot, Reconciled
  <2>21. ASSUME NEW s \in Settings, Move(s) PROVE status'[q] \in Failed
    BY <2>21 DEF Move, rows
  <2>22. QED
    BY <2>1, <2>2, <2>3, <2>4, <2>5, <2>6, <2>7, <2>8, <2>9, <2>10, <2>11, <2>12, <2>13,
         <2>14, <2>15, <2>16, <2>17, <2>18, <2>19, <2>20, <2>21 DEF Next
<1>4. QED
  BY SpecKeepsOwnerInv, <1>1, <1>2, <1>3, PTL DEF Spec, FailedStaysFailed

\* A COMPLETE run whose settings could be read was measured under one set of them, unless a
\* change from outside was changed back while it was under way (runner.py:1379-1404).
THEOREM RunsMeasureOneSetting == Spec => []MeasuredOneSetting
<1>1. Init => MovedIsSeen
  BY InitEstablishesRunsInv
<1>2. OwnerInv /\ MovedIsSeen /\ [Next]_vars => MovedIsSeen'
  BY StepKeepsMovedIsSeen
<1>3. MovedIsSeen => MeasuredOneSetting
  BY FailedNames DEF MovedIsSeen, MeasuredOneSetting
<1>4. QED
  BY SpecKeepsOwnerInv, <1>1, <1>2, <1>3, PTL DEF Spec
=============================================================================
