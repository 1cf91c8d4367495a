------------------------------ MODULE JobQueue ------------------------------
(***************************************************************************)
(* backend/pathbrain/job_queue.py: the "add a job" queue in front of the   *)
(* engines.  A submitted job starts at once when the pipeline is free, or  *)
(* becomes a ticket that one dispatcher thread starts later; tickets are   *)
(* kept on disk and come back after a restart.                             *)
(*                                                                         *)
(* A job is known by its number, given in the order of submission (which   *)
(* is also the order of the rows on disk).  The engines are reduced to     *)
(* their start(), which checks that no session of its kind is active,      *)
(* works for a while (a sweep reads the firewall) and sets its flag, and   *)
(* to the thread it leaves behind, which queues for the coordinator.       *)
(***************************************************************************)
EXTENDS Integers, Sequences, FiniteSets, SequencesExt

CONSTANTS
  Kinds,          \* kinds of job with an engine of their own
  Duel,           \* the kind the scheduler also starts, past the queue (if a kind)
  MaxJobs,        \* bound: jobs ever recorded
  MaxCrashes,     \* bound: process deaths
  MaxOutside      \* bound: sessions that never come through the queue

ASSUME JobQueueAssumption ==
  MaxJobs \in Nat /\ MaxCrashes \in Nat /\ MaxOutside \in Nat

VARIABLES
  up,       \* the process is running and serves requests
  jobs,     \* every job so far, as recorded below
  queue,    \* _queue: the numbers of the waiting tickets
  qlock,    \* the job whose start() runs inside submit, under _lock; or 0
  hand,     \* the ticket the dispatcher popped and has not settled; or 0
  disp,     \* _dispatcher is alive
  active,   \* active() of every engine
  pipe,     \* who holds the coordinator: a job, Outside or 0
  crashes,  \* process deaths so far
  outside   \* sessions of the other queueing layers so far

queueVars == <<up, jobs, queue, qlock, hand, disp, active, pipe, crashes, outside>>

Outside == -1

\* starting..checked: inside the engine's start(); waiting..closing: its thread.
Stages == {"queued", "starting", "checked", "waiting", "running", "closing",
           "done", "refused", "failed", "cancelled", "lost", "interrupted"}

\* "stale": pending still, because the database refused the settling write; for
\* the code that reads it, the row is as pending as any.
Disk == {"none", "pending", "stale", "started", "failed", "cancelled", "expired"}
Pending == {"pending", "stale"}

Job == [kind : Kinds, stage : Stages, disk : Disk, starts : Nat]

Ids == 1..Len(jobs)

QueueTypeOK ==
  /\ up \in BOOLEAN /\ disp \in BOOLEAN
  /\ jobs \in Seq(Job) /\ Len(jobs) <= MaxJobs
  /\ queue \in Seq(Ids)
  /\ {qlock, hand} \subseteq Ids \cup {0}
  /\ active \in [Kinds -> BOOLEAN]
  /\ pipe \in Ids \cup {0, Outside}
  /\ crashes \in 0..MaxCrashes /\ outside \in 0..MaxOutside

QueueInit ==
  /\ up = TRUE /\ jobs = <<>> /\ queue = <<>> /\ qlock = 0 /\ hand = 0
  /\ disp = FALSE /\ active = [k \in Kinds |-> FALSE] /\ pipe = 0
  /\ crashes = 0 /\ outside = 0

NewJob(k, stage, disk) ==
  [kind |-> k, stage |-> stage, disk |-> disk, starts |-> 0]

Stage(j, s) == jobs' = [jobs EXCEPT ![j].stage = s]

-----------------------------------------------------------------------------
(* Submitting. *)

\* A free pipeline, an empty queue and no session of the kind: submit calls the
\* engine's start() itself, still holding _lock.
SubmitNow(k) ==
  /\ up /\ qlock = 0 /\ Len(jobs) < MaxJobs
  /\ queue = <<>> /\ pipe = 0 /\ ~active[k]
  /\ jobs' = Append(jobs, NewJob(k, "starting", "none"))
  /\ qlock' = Len(jobs) + 1
  /\ UNCHANGED <<up, queue, hand, disp, active, pipe, crashes, outside>>

\* Anything in the way: a ticket, written to disk if the database lets it, and a
\* dispatcher to drain it.
SubmitQueued(k) ==
  /\ up /\ qlock = 0 /\ Len(jobs) < MaxJobs
  /\ queue # <<>> \/ pipe # 0 \/ active[k]
  /\ \E disk \in {"pending", "none"} : jobs' = Append(jobs, NewJob(k, "queued", disk))
  /\ queue' = Append(queue, Len(jobs) + 1)
  /\ disp' = TRUE
  /\ UNCHANGED <<up, qlock, hand, active, pipe, crashes, outside>>

\* The scheduler thread starts the nightly duel itself, on seeing none active.
Kick ==
  /\ up /\ Len(jobs) < MaxJobs /\ Duel \in Kinds /\ ~active[Duel]
  /\ \A j \in Ids : jobs[j].stage \in {"starting", "checked"} => j \in {qlock, hand}
  /\ jobs' = Append(jobs, NewJob(Duel, "starting", "none"))
  /\ UNCHANGED <<up, queue, qlock, hand, disp, active, pipe, crashes, outside>>

-----------------------------------------------------------------------------
(* An engine: start() and the thread it leaves. *)

\* start(): "already running" is raised to whoever called it.
StartCheck(j) ==
  /\ jobs[j].stage = "starting"
  /\ IF active[jobs[j].kind]
     THEN /\ Stage(j, IF j = hand THEN "failed" ELSE "refused")
          /\ qlock' = IF qlock = j THEN 0 ELSE qlock
     ELSE Stage(j, "checked") /\ UNCHANGED qlock
  /\ UNCHANGED <<up, queue, hand, disp, active, pipe, crashes, outside>>

\* ... and past its check it records the session and starts the thread.
Launch(j) ==
  /\ jobs[j].stage = "checked"
  /\ jobs' = [jobs EXCEPT ![j].stage = "waiting", ![j].starts = @ + 1]
  /\ active' = [active EXCEPT ![jobs[j].kind] = TRUE]
  /\ qlock' = IF qlock = j THEN 0 ELSE qlock
  /\ UNCHANGED <<up, queue, hand, disp, pipe, crashes, outside>>

\* The thread takes the coordinator, gives it back, and clears the flag.
Enter(j) ==
  /\ jobs[j].stage = "waiting" /\ pipe = 0 /\ pipe' = j
  /\ Stage(j, "running")
  /\ UNCHANGED <<up, queue, qlock, hand, disp, active, crashes, outside>>

Leave(j) ==
  /\ jobs[j].stage = "running" /\ pipe' = 0
  /\ Stage(j, "closing")
  /\ UNCHANGED <<up, queue, qlock, hand, disp, active, crashes, outside>>

LeaveActive(j) ==
  /\ jobs[j].stage = "closing"
  /\ Stage(j, "done")
  /\ UNCHANGED <<up, queue, qlock, hand, disp, active, pipe, crashes, outside>>

Deactivate(j) ==
  /\ jobs[j].stage = "closing"
  /\ active' = [active EXCEPT ![jobs[j].kind] = FALSE]
  /\ Stage(j, "done")
  /\ UNCHANGED <<up, queue, qlock, hand, disp, pipe, crashes, outside>>

\* A profile test, a manual run or the monitoring tick uses the pipeline.
OutsideTakes ==
  /\ up /\ pipe = 0 /\ pipe' = Outside
  /\ outside < MaxOutside /\ outside' = outside + 1
  /\ UNCHANGED <<up, jobs, queue, qlock, hand, disp, active, crashes>>

OutsideLeaves ==
  /\ pipe = Outside /\ pipe' = 0
  /\ UNCHANGED <<up, jobs, queue, qlock, hand, disp, active, crashes, outside>>

-----------------------------------------------------------------------------
(* The dispatcher, _drain(). *)

\* Under _lock it claims the head when the pipeline and its kind are free ...
Claim ==
  /\ disp /\ hand = 0 /\ qlock = 0 /\ queue # <<>>
  /\ pipe = 0 /\ ~active[jobs[Head(queue)].kind]
  /\ hand' = Head(queue) /\ queue' = Tail(queue)
  /\ Stage(Head(queue), "starting")
  /\ UNCHANGED <<up, qlock, disp, active, pipe, crashes, outside>>

\* ... or retires, when nothing is left.
Retire ==
  /\ disp /\ hand = 0 /\ qlock = 0 /\ queue = <<>> /\ disp' = FALSE
  /\ UNCHANGED <<up, jobs, queue, qlock, hand, active, pipe, crashes, outside>>

SettleForgets ==
  /\ hand # 0 /\ jobs[hand].stage \notin {"starting", "checked"} /\ hand' = 0
  /\ UNCHANGED <<up, jobs, queue, qlock, disp, active, pipe, crashes, outside>>

\* The start() it called without the lock is over: the row gets the outcome.  The
\* started engine's flag is up already, so the grace wait ends at once.
Settle ==
  /\ hand # 0 /\ jobs[hand].stage \notin {"starting", "checked"}
  /\ LET outcome == IF jobs[hand].stage = "failed" THEN "failed" ELSE "started"
     IN  \E row \in {outcome, "stale"} :
           jobs' = [jobs EXCEPT ![hand].disk = IF @ = "pending" THEN row ELSE @]
  /\ hand' = 0
  /\ UNCHANGED <<up, queue, qlock, disp, active, pipe, crashes, outside>>

CancelInMemory(n) ==
  /\ up /\ qlock = 0
  /\ queue' = RemoveAt(queue, n)
  /\ Stage(queue[n], "cancelled")
  /\ UNCHANGED <<up, qlock, hand, disp, active, pipe, crashes, outside>>

\* cancel(): under _lock, a waiting ticket leaves the line and its row says so.
Cancel(n) ==
  /\ up /\ qlock = 0
  /\ queue' = RemoveAt(queue, n)
  /\ \E row \in {"cancelled", "stale"} :
        jobs' = [jobs EXCEPT ![queue[n]].stage = "cancelled",
                             ![queue[n]].disk = IF @ = "pending" THEN row ELSE @]
  /\ UNCHANGED <<up, qlock, hand, disp, active, pipe, crashes, outside>>

-----------------------------------------------------------------------------
(* Restarts. *)

\* What a job is to the next process: a start() may die before or after it made
\* the session's row, and a finished session before or after it closed it.
AfterCrash(stage, recorded, closed) ==
  CASE stage \in {"queued", "starting"} -> "lost"
    [] stage = "checked" -> IF recorded THEN "interrupted" ELSE "lost"
    [] stage \in {"waiting", "running"} -> "interrupted"
    [] stage = "closing" -> IF closed THEN "done" ELSE "interrupted"
    [] OTHER -> stage

\* The process dies: only the rows stay.
Crash ==
  /\ up /\ up' = FALSE
  /\ crashes < MaxCrashes /\ crashes' = crashes + 1
  /\ \E recorded, closed \in BOOLEAN :
       jobs' = [j \in Ids |-> [jobs[j] EXCEPT !.stage = AfterCrash(@, recorded, closed)]]
  /\ queue' = <<>> /\ qlock' = 0 /\ hand' = 0 /\ disp' = FALSE /\ pipe' = 0
  /\ active' = [k \in Kinds |-> FALSE]
  /\ UNCHANGED outside

\* reconcile_interrupted_duels() queues the rest of an interrupted window.
Requeued ==
  {j \in Ids : jobs[j].kind = Duel /\ jobs[j].stage = "interrupted"}

RestoredNewestFirst(js, expired) ==
  LET rows == {j \in DOMAIN js : js[j].disk \in Pending} \ expired
  IN  {line \in [1..Cardinality(rows) -> rows] :
         \A m, n \in DOMAIN line : m < n => line[m] > line[n]}

\* restore(): the pending rows, unless past RESUME_WINDOW_HOURS, come back as tickets, by
\* their ids: the one line of that length that is in order.
Restored(js, expired) ==
  LET rows == {j \in DOMAIN js : js[j].disk \in Pending} \ expired
  IN  {line \in [1..Cardinality(rows) -> rows] :
         \A m, n \in DOMAIN line : m < n => line[m] < line[n]}

\* A session's row left interrupted is closed; a pending row is a ticket or
\* expires.
Reconciled(job, ticket) ==
  [job EXCEPT
    !.stage = IF ticket THEN "queued" ELSE IF @ = "interrupted" THEN "failed" ELSE @,
    !.disk = IF ticket THEN "pending" ELSE IF @ \in Pending THEN "expired" ELSE @]

\* Startup: the duels' reconcile (only some windows are worth finishing), then
\* restore(), before the first request.
Boot ==
  /\ ~up /\ up' = TRUE
  /\ \E D \in SUBSET Requeued, expired \in SUBSET Ids :
       LET all == jobs \o [i \in 1..Cardinality(D) |-> NewJob(Duel, "lost", "pending")]
       IN  /\ Len(all) <= MaxJobs
           /\ queue' \in Restored(all, expired)
           /\ jobs' = [j \in DOMAIN all |-> Reconciled(all[j], j \in ToSet(queue'))]
           /\ disp' = (queue' # <<>>)
  /\ UNCHANGED <<qlock, hand, active, pipe, crashes, outside>>

-----------------------------------------------------------------------------

Engine(j) == StartCheck(j) \/ Launch(j) \/ Enter(j) \/ Leave(j) \/ Deactivate(j)

QueueNext ==
  \/ \E k \in Kinds : SubmitNow(k) \/ SubmitQueued(k)
  \/ Kick
  \/ \E j \in Ids : Engine(j)
  \/ \E n \in DOMAIN queue : Cancel(n)
  \/ OutsideTakes \/ OutsideLeaves
  \/ Claim \/ Retire \/ Settle
  \/ Crash \/ Boot

QueueSpec == QueueInit /\ [][QueueNext]_queueVars

\* Threads run, sessions end (the coordinator sees to wedged ones), a dead
\* process is restarted.  Nobody has to submit, cancel or crash.
QueueFairness ==
  /\ \A j \in 1..MaxJobs : WF_queueVars(j \in Ids /\ Engine(j))
  /\ WF_queueVars(OutsideLeaves) /\ WF_queueVars(Claim) /\ WF_queueVars(Settle) /\ WF_queueVars(Boot)

FairQueueSpec == QueueSpec /\ QueueFairness

-----------------------------------------------------------------------------
(* Properties. *)

\* Tickets wait in the order they were asked for, each of them once, and none that
\* the dispatcher has in hand; a restart keeps that order.
OldestFirst ==
  /\ \A m, n \in DOMAIN queue : m < n => queue[m] < queue[n]
  /\ hand \notin ToSet(queue)

\* While the process runs, a row is pending exactly while its ticket is (but for a
\* settling write the database refused): a restart brings back every waiting job,
\* and none that was settled.
PendingRowsAreTickets ==
  up => \A j \in Ids :
          /\ jobs[j].disk = "pending" => j \in ToSet(queue) \cup {hand}
          /\ j \in ToSet(queue) => jobs[j].disk \in {"pending", "none"}

\* cancel: "a pending ticket has applied nothing": a job reported cancelled, and
\* whose row says so, is never started afterwards, whatever restarts follow.
CancelledNeverRuns ==
  [][\A j \in Ids : jobs[j].stage = "cancelled" =>
        /\ jobs'[j].starts = jobs[j].starts
        /\ jobs[j].disk # "stale" => jobs'[j].stage = "cancelled"]_queueVars

\* Every ticket leaves the line (it is started, fails, is cancelled or is lost
\* with the process): once no more jobs come, the line empties.
TicketsMoveOn == queue # <<>> ~> queue = <<>>

-----------------------------------------------------------------------------
(* What carries them from step to step.                                      *)

\* A ticket in the line waits; nothing that was cancelled has a row that is pending.
TicketsWait == \A n \in DOMAIN queue : jobs[queue[n]].stage = "queued"
CancelledIsSettled ==
  \A j \in Ids : jobs[j].stage = "cancelled" => jobs[j].disk # "pending"

\* A dead process has no line, no dispatcher and no start() in progress.
DeadIsEmpty == ~up => queue = <<>> /\ hand = 0 /\ qlock = 0 /\ ~disp

QueueInv ==
  /\ QueueTypeOK /\ OldestFirst /\ PendingRowsAreTickets
  /\ TicketsWait /\ CancelledIsSettled /\ DeadIsEmpty

-----------------------------------------------------------------------------
(* Promises the code does not keep (the README says how each is broken).     *)

\* sweep.py, "Single sweep at a time", and every engine alike: the dispatcher
\* starts an engine outside the lock submit starts one under.
OneSessionPerKind ==
  \A i, j \in Ids :
     /\ jobs[i].kind = jobs[j].kind
     /\ {jobs[i].stage, jobs[j].stage} \subseteq {"waiting", "running"}
     => i = j

\* job_queue.py, "submitting a job always succeeds": a job never ends because one
\* of its kind was running (the only reason start() fails here).
NeverRefused == \A j \in Ids : jobs[j].stage \notin {"failed", "refused"} \/ jobs[j].starts > 0

\* _settle, "so a restart never resurrects it": a ticket that was started is not
\* queued again.
StartedNeverResurrected ==
  \A j \in ToSet(queue) : jobs[j].starts = 0
=============================================================================
