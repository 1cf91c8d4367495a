-------------------------------- MODULE Runs --------------------------------
(***************************************************************************)
(* The life of a benchmark run: backend/pathbrain/runner.py (execute_run,  *)
(* the stop requests, the watchdog and the startup reconcile), the drivers *)
(* of api/routes_run.py (one run, or a series of chunks under one hold of  *)
(* the pipeline) and the monitoring runs of scheduler.py.                  *)
(*                                                                         *)
(* A run is a row of the database and, while it is executed, a thread that *)
(* keeps its own copy of the row.  Cancel requests and the watchdog write  *)
(* the same row from other threads, at any moment.  One action per         *)
(* database transaction; the question "was I stopped?" and the minutes of  *)
(* the iteration after it are two.                                         *)
(***************************************************************************)
EXTENDS Integers, FiniteSets

CONSTANTS
  MaxRuns,     \* bound on the rows ever created
  Iterations,  \* iterations of each run
  MaxChunks,   \* bound on the chunks of a series
  MaxCrashes,  \* bound on restarts of the process
  MaxMoves,    \* bound on settings changed from outside PathBrain
  Settings,    \* firewall settings, as fingerprints
  NoRun,       \* nobody, no run
  Other        \* any other session of the pipeline

ASSUME RunsAssumption ==
  /\ MaxRuns \in Nat \ {0} /\ Iterations \in Nat \ {0} /\ MaxChunks \in Nat \ {0}
  /\ MaxCrashes \in Nat /\ MaxMoves \in Nat
  /\ Settings # {}

Runs == 1..MaxRuns   \* row ids

ASSUME NamesAssumption ==
  NoRun \notin Runs \cup {Other} \cup Settings /\ Other \notin Runs

Active == {"PENDING", "RUNNING"}

\* A FAILED row, by the reason its error gives.
Failed == {"cancelled", "overdue", "drifted", "raised", "interrupted", "expired"}

VARIABLES
  status,     \* Run.status, "none" before the row exists
  chunks,     \* durable: chunks of the series this row is the first of, else 1
  done,       \* the iterations the thread has committed
  pc,         \* where the thread that executes the run is
  more,       \* its driver's memory: chunks to come after this one
  seen,       \* the settings read when the run started, NoRun if unread
  stop,       \* _STOP_REQUESTS
  asker,      \* the run a cancel request is at, and how far the request is
  scheduled,  \* the run the scheduler's own thread is executing
  owner,      \* who holds the pipeline
  live,       \* the settings of the firewall
  budget,     \* rows that may still be asked for
  up, crashes, moves,
  told,       \* history: runs whose cancel was answered in time
  unread,     \* history: runs under way that another thread failed after they
              \* had read their row for the last time
  moved,      \* history: runs under way during which the settings changed, but
              \* for those whose settings could not be read before or after
  back        \* history: runs under way during which a change brought back the
              \* settings they had started under

rows    == <<status, chunks>>
run     == <<done, seen>>
threads == <<pc, more, run, stop, asker, scheduled>>
world   == <<owner, live, budget, up, crashes, moves>>
changes == <<moved, back>>
history == <<told, unread, changes>>
vars    == <<rows, threads, world, history>>

Points == {"none", "waiting", "held", "starting", "loop", "iterating", "measured", "out"}

TypeOK ==
  /\ status \in [Runs -> {"none", "COMPLETE"} \cup Active \cup Failed]
  /\ chunks \in [Runs -> 1..MaxChunks] /\ more \in [Runs -> 0..(MaxChunks - 1)]
  /\ done \in [Runs -> 0..Iterations]
  /\ pc \in [Runs -> Points]
  /\ seen \in [Runs -> Settings \cup {NoRun}]
  /\ stop \subseteq Runs /\ told \subseteq Runs
  /\ unread \subseteq Runs /\ moved \subseteq Runs /\ back \subseteq Runs
  /\ asker \in [run : Runs \cup {NoRun}, at : {"idle", "toWrite", "toAsk"}]
  /\ scheduled \in Runs \cup {NoRun} /\ owner \in Runs \cup {NoRun, Other}
  /\ live \in Settings /\ budget \in 0..MaxRuns
  /\ up \in BOOLEAN /\ crashes \in 0..MaxCrashes /\ moves \in 0..MaxMoves

Idle == [run |-> NoRun, at |-> "idle"]

Init ==
  /\ status = [r \in Runs |-> "none"] /\ chunks = [r \in Runs |-> 1]
  /\ done = [r \in Runs |-> 0] /\ pc = [r \in Runs |-> "none"]
  /\ more = [r \in Runs |-> 0] /\ seen = [r \in Runs |-> NoRun]
  /\ stop = {} /\ asker = Idle /\ scheduled = NoRun
  /\ owner = NoRun /\ live \in Settings /\ budget = MaxRuns
  /\ up = TRUE /\ crashes = 0 /\ moves = 0
  /\ told = {} /\ unread = {} /\ moved = {} /\ back = {}

IsActive(r) == status[r] \in Active
Measuring(r) == pc[r] \in {"loop", "iterating", "measured"}
IsLast(r) == done[r] + 1 = Iterations

SetRow(r, s) == status' = [status EXCEPT ![r] = s]
Go(r, p) == pc' = [pc EXCEPT ![r] = p]

\* The threads of these runs are gone, and what was theirs with them.
Forget(gone) ==
  /\ done' = [r \in Runs |-> IF r \in gone THEN 0 ELSE done[r]]
  /\ seen' = [r \in Runs |-> IF r \in gone THEN NoRun ELSE seen[r]]
  /\ unread' = unread \ gone /\ moved' = moved \ gone /\ back' = back \ gone

\* The row create_run inserts next.
IsNextRow(r) == status[r] = "none" /\ \A q \in 1..(r - 1) : status[q] # "none"

-----------------------------------------------------------------------------
(* Where runs come from. *)

\* POST /run: the row exists at once, its background task waits for the
\* pipeline; a large request is a series of n chunks.
Trigger(r, n) ==
  /\ up /\ IsNextRow(r) /\ n <= budget /\ budget' = budget - n
  /\ SetRow(r, "PENDING") /\ Go(r, "waiting")
  /\ chunks' = [chunks EXCEPT ![r] = n] /\ more' = [more EXCEPT ![r] = n - 1]
  /\ UNCHANGED <<run, stop, asker, scheduled, owner, live, up,
                 crashes, moves, history>>

\* A tick of the scheduler with the pipeline free and no active row: try_hold,
\* create_run, execute_run, all in the scheduler's thread.
Monitor(r) ==
  /\ up /\ scheduled = NoRun /\ owner = NoRun /\ \A q \in Runs : ~IsActive(q)
  /\ IsNextRow(r) /\ budget > 0 /\ budget' = budget - 1
  /\ SetRow(r, "PENDING") /\ Go(r, "held") /\ owner' = r /\ scheduled' = r
  /\ UNCHANGED <<chunks, run, more, stop, asker, live, up,
                 crashes, moves, history>>

HoldAnyway(r) ==
  /\ up /\ pc[r] = "waiting"
  /\ owner' = r /\ Go(r, "held")
  /\ UNCHANGED <<rows, run, more, stop, asker, scheduled, live, budget, up,
                 crashes, moves, history>>

\* coordinator.hold() returns to the driver.
Hold(r) ==
  /\ up /\ pc[r] = "waiting" /\ owner = NoRun
  /\ owner' = r /\ Go(r, "held")
  /\ UNCHANGED <<rows, run, more, stop, asker, scheduled, live, budget, up,
                 crashes, moves, history>>

-----------------------------------------------------------------------------
(* execute_run(). *)

\* The row is read; only a PENDING run is executed.
Begin(r) ==
  /\ up /\ pc[r] = "held"
  /\ Go(r, IF status[r] = "PENDING" THEN "starting" ELSE "out")
  /\ UNCHANGED <<rows, run, more, stop, asker, scheduled, world, history>>

\* What reading the settings of the firewall gives: nothing, if it is out.
Reading == {live, NoRun}

\* The settings are read from the firewall (best effort), and then RUNNING and
\* started_at are committed, over whatever the row says by now.
Start(r) ==
  /\ up /\ pc[r] = "starting" /\ Go(r, "loop")
  /\ SetRow(r, "RUNNING")
  /\ \E s \in Reading : seen' = [seen EXCEPT ![r] = s]
  /\ unread' = unread \ {r}
  /\ UNCHANGED <<chunks, done, more, stop, asker, scheduled, owner, live, budget,
                 up, crashes, moves, told, changes>>

\* The row is read again before every iteration but the first.
AskedByRow(r) == done[r] > 0 /\ status[r] \in Failed

StoppedOnlyByRow(r) == pc[r] = "loop" /\ AskedByRow(r)
StoppedOnlyByRequest(r) == pc[r] = "loop" /\ r \in stop

\* Asked before every iteration: the requests of this process, then the row.
Stopped(r) == pc[r] = "loop" /\ (r \in stop \/ AskedByRow(r))

\* The run ends here, FAILED with the reason; nothing was stored.
StopHere(r) ==
  /\ up /\ Stopped(r) /\ Go(r, "out")
  /\ SetRow(r, IF r \in stop THEN "cancelled" ELSE status[r])
  /\ UNCHANGED <<chunks, run, more, stop, asker, scheduled, world, history>>

\* Not stopped: the next iteration begins, and nothing is asked until it is over.
Ask(r) ==
  /\ up /\ pc[r] = "loop" /\ ~Stopped(r) /\ Go(r, "iterating")
  /\ UNCHANGED <<rows, run, more, stop, asker, scheduled, world, history>>

\* The iteration is over: a commit that touches iterations_completed only.
Iterate(r) ==
  /\ up /\ pc[r] = "iterating"
  /\ done' = [done EXCEPT ![r] = @ + 1]
  /\ Go(r, IF IsLast(r) THEN "measured" ELSE "loop")
  /\ UNCHANGED <<status, chunks, seen, more, stop, asker, scheduled, world, history>>

FinalStatusUnread(r, end) == "COMPLETE"

\* Read-after integrity check: a re-read that fails proves nothing.
FinalStatus(r, end) ==
  IF NoRun \notin {seen[r], end} /\ seen[r] # end THEN "drifted" ELSE "COMPLETE"

\* Results, scores and the final status in one commit, over whatever the row
\* says by now.
Store(r) ==
  /\ up /\ pc[r] = "measured" /\ Go(r, "out")
  /\ \E end \in Reading :
       /\ SetRow(r, FinalStatus(r, end))
       /\ moved' = IF NoRun \in {seen[r], end} THEN moved \ {r} ELSE moved
  /\ UNCHANGED <<chunks, run, more, stop, asker, scheduled, world, told,
                 unread, back>>

\* Anything raises: rolled back, and FAILED is written.
Raise(r) ==
  /\ up /\ (pc[r] \in {"held", "starting"} \/ Measuring(r))
  /\ Go(r, "out") /\ SetRow(r, "raised")
  /\ UNCHANGED <<chunks, run, more, stop, asker, scheduled, world, history>>

\* The finally drops the stop request, and the driver goes on ...
\* ... with the next chunk of its series (run_chunk), when this one COMPLETEd,
NextChunk(r, n) ==
  /\ up /\ pc[r] = "out" /\ status[r] = "COMPLETE" /\ more[r] > 0 /\ IsNextRow(n)
  /\ stop' = stop \ {r} /\ owner' = n
  /\ SetRow(n, "PENDING") /\ pc' = [pc EXCEPT ![r] = "none", ![n] = "held"]
  /\ more' = [more EXCEPT ![r] = 0, ![n] = more[r] - 1]
  /\ Forget({r})
  /\ UNCHANGED <<chunks, asker, scheduled, live, budget, up, crashes, moves, told>>

\* ... or out of the pipeline.
Leave(r) ==
  /\ up /\ pc[r] = "out" /\ (status[r] # "COMPLETE" \/ more[r] = 0)
  /\ stop' = stop \ {r} /\ Go(r, "none") /\ more' = [more EXCEPT ![r] = 0]
  /\ scheduled' = IF scheduled = r THEN NoRun ELSE scheduled
  /\ owner' = NoRun /\ Forget({r})
  /\ UNCHANGED <<rows, asker, live, budget, up, crashes, moves, told>>

-----------------------------------------------------------------------------
(* POST /runs/{id}/cancel: read the row, write it, ask the loop. *)

\* The user may press at any time: before the run has the pipeline, while it
\* measures, and when nothing will ask any more.
CancelRead(r) ==
  /\ up /\ asker = Idle /\ IsActive(r)
  /\ asker' = [run |-> r, at |-> "toWrite"]
  /\ UNCHANGED <<rows, run, pc, more, stop, scheduled, world, history>>

\* The thread of r will read its row again: before it starts, or before an
\* iteration that is not its first.  (A thread that is starting overwrites it.)
ReadsRowAgain(r) ==
  CASE pc[r] = "loop"      -> Iterations > 1
    [] pc[r] = "iterating" -> ~IsLast(r)
    [] OTHER               -> pc[r] \notin {"starting", "measured"}

\* The thread of r will look at the requests again, before an iteration.
AsksAgain(r) ==
  \/ pc[r] \in {"waiting", "held", "starting", "loop"}
  \/ pc[r] = "iterating" /\ ~IsLast(r)

CancelWrite ==
  /\ up /\ asker.at = "toWrite" /\ asker' = [asker EXCEPT !.at = "toAsk"]
  /\ SetRow(asker.run, "cancelled")
  /\ unread' = IF ReadsRowAgain(asker.run) THEN unread ELSE unread \cup {asker.run}
  /\ UNCHANGED <<chunks, run, pc, more, stop, scheduled, world, told, changes>>

CancelAsk ==
  /\ up /\ asker.at = "toAsk" /\ asker' = Idle
  /\ stop' = stop \cup {asker.run}
  /\ told' = IF AsksAgain(asker.run) THEN told \cup {asker.run} ELSE told
  /\ UNCHANGED <<rows, run, pc, more, scheduled, world, unread, changes>>

-----------------------------------------------------------------------------
(* The watchdog, the world outside and restarts. *)

\* fail_stale_runs, on a tick of the scheduler's thread: active rows past the
\* limit, which counts from started_at, or from created_at while a row is queued.
Watchdog ==
  /\ up /\ scheduled = NoRun
  /\ \E late \in SUBSET {r \in Runs : IsActive(r)} :
       /\ late # {}
       /\ status' = [r \in Runs |-> IF r \in late THEN "overdue" ELSE status[r]]
       /\ unread' = unread \cup {r \in late : ~ReadsRowAgain(r)}
  /\ UNCHANGED <<chunks, threads, world, told, changes>>

\* Somebody else changes the settings of the firewall.
Move(s) ==
  /\ up /\ moves < MaxMoves /\ moves' = moves + 1 /\ s # live /\ live' = s
  /\ moved' = moved \cup {r \in Runs : Measuring(r)}
  /\ back' = back \cup {r \in Runs : Measuring(r) /\ seen[r] = s}
  /\ UNCHANGED <<rows, threads, owner, budget, up, crashes, told, unread>>

OtherTakes ==
  /\ up /\ owner = NoRun /\ owner' = Other
  /\ UNCHANGED <<rows, threads, live, budget, up, crashes, moves, history>>

OtherLeaves ==
  /\ up /\ owner = Other /\ owner' = NoRun
  /\ UNCHANGED <<rows, threads, live, budget, up, crashes, moves, history>>

Crash ==
  /\ up /\ up' = FALSE /\ crashes < MaxCrashes /\ crashes' = crashes + 1
  /\ pc' = [r \in Runs |-> "none"] /\ more' = [r \in Runs |-> 0]
  /\ stop' = {} /\ asker' = Idle /\ scheduled' = NoRun /\ owner' = NoRun
  /\ Forget(Runs)
  /\ UNCHANGED <<rows, live, budget, moves, told>>

\* reconcile_interrupted_runs: what ran is failed, what was queued is kept
\* unless it is older than the resume window.
Reconciled(r, expired) ==
  CASE status[r] = "RUNNING" -> "interrupted"
    [] status[r] = "PENDING" /\ r \in expired -> "expired"
    [] OTHER -> status[r]

ResumeNone(keep) == UNCHANGED <<pc, more>>

\* resume_pending_runs: every kept row gets a driver again, the first chunk of
\* a series as the whole series.
Resume(keep) ==
  /\ pc' = [r \in Runs |-> IF r \in keep THEN "waiting" ELSE "none"]
  /\ more' = [r \in Runs |-> IF r \in keep THEN chunks[r] - 1 ELSE 0]

Reboot ==
  /\ ~up /\ up' = TRUE
  /\ LET queued == {r \in Runs : status[r] = "PENDING"} IN
     \E expired \in SUBSET queued :
       /\ status' = [r \in Runs |-> Reconciled(r, expired)]
       /\ Resume(queued \ expired)
  /\ UNCHANGED <<chunks, run, stop, asker, scheduled, owner, live, budget,
                 crashes, moves, history>>

-----------------------------------------------------------------------------

Next ==
  \/ \E r \in Runs :
       \/ \E n \in 1..MaxChunks : Trigger(r, n)
       \/ Monitor(r) \/ Hold(r) \/ Begin(r) \/ Start(r) \/ StopHere(r) \/ Ask(r)
       \/ Iterate(r) \/ Store(r) \/ Raise(r) \/ Leave(r) \/ CancelRead(r)
       \/ \E n \in Runs : NextChunk(r, n)
  \/ CancelWrite \/ CancelAsk \/ Watchdog \/ OtherTakes \/ OtherLeaves
  \/ Crash \/ Reboot
  \/ \E s \in Settings : Move(s)

Spec == Init /\ [][Next]_vars

\* Threads run, an iteration ends (every probe has a deadline), other sessions
\* leave, and a free lock goes to a thread parked on it.
Fairness ==
  /\ \A r \in Runs :
       /\ SF_vars(Hold(r))
       /\ WF_vars(Begin(r)) /\ WF_vars(Start(r)) /\ WF_vars(StopHere(r))
       /\ WF_vars(Ask(r)) /\ WF_vars(Iterate(r)) /\ WF_vars(Store(r)) /\ WF_vars(Leave(r))
       /\ WF_vars(\E n \in Runs : NextChunk(r, n))
  /\ WF_vars(CancelWrite) /\ WF_vars(CancelAsk) /\ WF_vars(OtherLeaves)
  /\ WF_vars(Reboot)

FairSpec == Spec /\ Fairness

-----------------------------------------------------------------------------
(* Properties. *)

\* A run whose cancel was answered before its last iteration began is never
\* COMPLETE, wherever in its start, its loop, a series or a restart the request
\* landed: "a cancelled run stops with what it has ... and nothing from it is
\* scored".  A cancel of the last iteration, or of the scoring, is not kept: the
\* run ends COMPLETE (CancelledNeverScored is what the code does not promise).
CancelledNotScored == \A r \in told : status[r] # "COMPLETE"

CancelledNeverScored ==
  [][\A r \in Runs : status[r] = "cancelled" => status'[r] # "COMPLETE"]_vars

\* A FAILED row stays FAILED, whoever wrote it, unless another thread wrote it
\* after the run had read its row for the last time: "a FAILED written by another
\* process or the watchdog is honoured too".
FailedStaysFailed ==
  [][\A r \in Runs : status[r] \in Failed /\ r \notin unread => status'[r] \in Failed]_vars

\* A RUNNING row is one a live thread is executing with the pipeline its own:
\* no two runs measure at once, and no run outlives its process as RUNNING.
OneRunMeasures ==
  up => \A r \in Runs : status[r] = "RUNNING" => owner = r /\ Measuring(r)

\* A COMPLETE run whose settings were read before and after was measured under
\* one set of settings: the check confirms that they "never changed mid-run".  A
\* change that is changed back while the run is under way is beyond two readings.
MeasuredOneSetting == \A r \in moved \ back : status[r] # "COMPLETE"

\* Every run that was asked for ends.
RunsSettle == \A r \in Runs : IsActive(r) ~> ~IsActive(r)

-----------------------------------------------------------------------------
(* What carries the properties from one step to the next, for the proofs. *)

Working == {"held", "starting", "loop", "iterating", "measured", "out"}

\* The pipeline is the run's whose thread works; nothing works while the process is down.
OwnerWorks ==
  /\ \A r \in Runs : pc[r] \in Working => owner = r
  /\ ~up => asker = Idle /\ \A r \in Runs : pc[r] = "none"
  /\ asker.at # "idle" => asker.run \in Runs

\* What the row of a run may say while its thread is there.
RowFollowsThread ==
  \A r \in Runs :
    /\ up /\ status[r] = "RUNNING" => Measuring(r)
    /\ Measuring(r) => status[r] \in Failed \cup {"RUNNING"}
    /\ pc[r] # "none" => status[r] # "none"
    /\ pc[r] \in {"none", "waiting", "held", "starting"} => done[r] = 0
    /\ pc[r] \in {"loop", "iterating"} => done[r] < Iterations

OwnerInv == TypeOK /\ OwnerWorks /\ RowFollowsThread

\* A cancel in time is known to the thread before its last iteration, and a run
\* with its last iteration begun was not cancelled in time.
StopReaches ==
  /\ asker.at # "idle" => status[asker.run] # "none"
  /\ asker.at = "toAsk" /\ AsksAgain(asker.run) =>
       status[asker.run] \in Failed \cup {"RUNNING"}
  /\ \A r \in told :
       /\ status[r] \in Failed \cup {"RUNNING"} /\ pc[r] # "measured"
       /\ pc[r] = "iterating" => ~IsLast(r)
       /\ pc[r] \in {"starting", "loop", "iterating"} => r \in stop

\* A row that says FAILED is read again, unless it was written too late.
FailedIsRead ==
  \A r \in Runs : status[r] \in Failed /\ r \notin unread => ReadsRowAgain(r)

\* A run during which the settings changed, and not back, has not read them as
\* they are now.
MovedIsSeen ==
  \A r \in moved \ back :
    /\ status[r] \in Failed \cup {"RUNNING"}
    /\ pc[r] = "out" \/ (Measuring(r) /\ seen[r] # live)
=============================================================================
