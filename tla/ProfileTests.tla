---------------------------- MODULE ProfileTests ----------------------------
(***************************************************************************)
(* backend/pathbrain/profile_test.py: profile tests queue, they are never  *)
(* refused.  The PENDING rows of the database are the queue; one worker    *)
(* thread claims the oldest, waits for the pipeline, runs the test and     *)
(* looks for the next, and retires when there is none.  Requests add rows  *)
(* and cancel tests from threads of their own, and a restart finds the     *)
(* rows again.                                                             *)
(*                                                                         *)
(* Grain of atomicity: one action per section under _gate, per database    *)
(* transaction and per step of the pipeline; an ORM read and the write     *)
(* that follows it are two steps, because nothing makes them one.  What a  *)
(* test does to the firewall is in Baselines.                              *)
(*                                                                         *)
(* Timing assumption, unless SlowCancel: a cancel that found its test      *)
(* unclaimed writes the row before the worker claims that very test.       *)
(***************************************************************************)
EXTENDS Integers, FiniteSets

CONSTANTS
  MaxTests,    \* bound on the tests asked for
  None,        \* no test
  MaxCrashes,  \* bound on restarts of the process
  SlowCancel   \* TRUE: a test may be claimed while its cancel looks at its row

ASSUME BoundsAssumption ==
  MaxTests \in Nat \ {0} /\ MaxCrashes \in Nat /\ SlowCancel \in BOOLEAN

Tests == 1..MaxTests   \* row ids

ASSUME NoneAssumption == None \notin Tests

Final == {"COMPLETE", "CANCELLED", "FAILED"}

VARIABLES
  status,    \* status of each row, "none" before it is inserted
  starters,  \* rows whose request has still to call _ensure_worker
  worker,    \* where the worker thread is, "none" when _state["thread"] is None
  driving,   \* _state["driving"]
  flagged,   \* _state["cancel"]
  outcome,   \* final_status of the test being driven
  asker,     \* a cancel request between its gate and its row: where it is
  target,    \* ... and which test it is for
  pipeline,  \* who holds the coordination lock: "free", "mine", "other"
  up,        \* the process runs; FALSE between a crash and the reconcile
  crashes

vars == <<status, starters, worker, driving, flagged, outcome, asker, target,
          pipeline, up, crashes>>

TypeOK ==
  /\ status \in [Tests -> {"none", "PENDING", "RUNNING"} \cup Final]
  /\ starters \subseteq Tests /\ flagged \subseteq Tests
  /\ worker \in {"none", "pick", "queued", "held", "reading", "running", "left",
                 "finished"}
  /\ driving \in Tests \cup {None} /\ target \in Tests \cup {None}
  /\ outcome \in Final
  /\ asker \in {"idle", "toFlag", "toRead", "toWrite"}
  /\ pipeline \in {"free", "mine", "other"}
  /\ up \in BOOLEAN /\ crashes \in 0..MaxCrashes

Init ==
  /\ status = [t \in Tests |-> "none"]
  /\ starters = {} /\ flagged = {}
  /\ worker = "none" /\ driving = None /\ outcome = "COMPLETE"
  /\ asker = "idle" /\ target = None
  /\ pipeline = "free" /\ up = TRUE /\ crashes = 0

SetRow(t, s) == status' = [status EXCEPT ![t] = s]

Pending == {t \in Tests : status[t] = "PENDING"}

\* _next_pending_id(): rows are drained in the order of their ids.
Oldest(S) == CHOOSE t \in S : \A u \in S : t <= u

-----------------------------------------------------------------------------
(* start(). *)

\* The row is committed ...
Start(t) ==
  /\ up /\ status[t] = "none" /\ \A u \in 1..(t - 1) : status[u] # "none"
  /\ SetRow(t, "PENDING") /\ starters' = starters \cup {t}
  /\ UNCHANGED <<worker, driving, flagged, outcome, asker, target, pipeline,
                 up, crashes>>

\* ... and then _ensure_worker, under _gate.
EnsureWorker(t) ==
  /\ up /\ t \in starters /\ starters' = starters \ {t}
  /\ worker' = IF worker = "none" THEN "pick" ELSE worker
  /\ UNCHANGED <<status, driving, flagged, outcome, asker, target, pipeline,
                 up, crashes>>

-----------------------------------------------------------------------------
(* _worker() and _drive(). *)

\* Under _gate: claim the oldest pending row, or retire.
Claim ==
  /\ up /\ worker = "pick"
  /\ ~SlowCancel /\ target \in Pending => target # Oldest(Pending)
  /\ IF Pending = {}
     THEN worker' = "none" /\ UNCHANGED driving
     ELSE worker' = "queued" /\ driving' = Oldest(Pending)
  /\ UNCHANGED <<status, starters, flagged, outcome, asker, target, pipeline,
                 up, crashes>>

\* A row without target settings is failed before it queues for the pipeline.
NoTarget ==
  /\ up /\ worker = "queued" /\ worker' = "finished"
  /\ SetRow(driving, "FAILED")
  /\ UNCHANGED <<starters, driving, flagged, outcome, asker, target, pipeline,
                 up, crashes>>

HoldNotWaiting ==
  /\ up /\ worker = "queued" /\ worker' = "held"
  /\ UNCHANGED <<status, starters, driving, flagged, outcome, asker, target,
                 pipeline, up, crashes>>

\* The pipeline is mine.
Hold ==
  /\ up /\ worker = "queued" /\ worker' = "held"
  /\ pipeline = "free" /\ pipeline' = "mine"
  /\ UNCHANGED <<status, starters, driving, flagged, outcome, asker, target,
                 up, crashes>>

\* Cancelled while it queued for the lock: leave without applying anything.
CheckCancel ==
  /\ up /\ worker = "held"
  /\ IF driving \in flagged
     THEN worker' = "left" /\ outcome' = "CANCELLED" /\ pipeline' = "free"
     ELSE worker' = "reading" /\ UNCHANGED <<outcome, pipeline>>
  /\ UNCHANGED <<status, starters, driving, flagged, asker, target, up, crashes>>

\* The baseline is read and the row goes RUNNING, whatever it was.
GoRunning ==
  /\ up /\ worker = "reading" /\ worker' = "running"
  /\ SetRow(driving, "RUNNING")
  /\ UNCHANGED <<starters, driving, flagged, outcome, asker, target, pipeline,
                 up, crashes>>

\* The firewall does not answer while it is read, or the work is over: all its
\* chunks, or a cancel between two of them, or a failure.  The lock is released.
LeaveWith(o) ==
  /\ up
  /\ \/ worker = "reading" /\ o = "FAILED"
     \/ worker = "running" /\ (o = "CANCELLED" => driving \in flagged)
  /\ worker' = "left" /\ outcome' = o /\ pipeline' = "free"
  /\ UNCHANGED <<status, starters, driving, flagged, asker, target, up, crashes>>

SettleOnlyDone ==
  /\ up /\ worker = "left" /\ worker' = "finished"
  /\ IF outcome = "FAILED" THEN UNCHANGED status ELSE SetRow(driving, outcome)
  /\ UNCHANGED <<starters, driving, flagged, outcome, asker, target, pipeline,
                 up, crashes>>

\* The finally of _drive writes the final status.
SettleRow ==
  /\ up /\ worker = "left" /\ worker' = "finished"
  /\ SetRow(driving, outcome)
  /\ UNCHANGED <<starters, driving, flagged, outcome, asker, target, pipeline,
                 up, crashes>>

\* The finally of _worker, under _gate.
Unclaim ==
  /\ up /\ worker = "finished" /\ worker' = "pick"
  /\ driving' = None /\ flagged' = flagged \ {driving} /\ outcome' = "COMPLETE"
  /\ UNCHANGED <<status, starters, asker, target, pipeline, up, crashes>>

-----------------------------------------------------------------------------
(* cancel(). *)

\* The claimed test is flagged; for another one, the gate is left to look at
\* its row.
CancelGate(t) ==
  /\ up /\ asker = "idle" /\ status[t] # "none"
  /\ IF driving = t
     THEN flagged' = flagged \cup {t} /\ UNCHANGED <<asker, target>>
     ELSE asker' = "toRead" /\ target' = t /\ UNCHANGED flagged
  /\ UNCHANGED <<status, starters, worker, driving, outcome, pipeline, up, crashes>>

\* With no id, whichever test is claimed: read under _gate, flagged after it.
CancelClaimed ==
  /\ up /\ asker = "idle" /\ driving # None
  /\ asker' = "toFlag" /\ target' = driving
  /\ UNCHANGED <<status, starters, worker, driving, flagged, outcome, pipeline,
                 up, crashes>>

CancelFlag ==
  /\ up /\ asker = "toFlag" /\ asker' = "idle" /\ target' = None
  /\ flagged' = flagged \cup {target}
  /\ UNCHANGED <<status, starters, worker, driving, outcome, pipeline, up, crashes>>

CancelRead ==
  /\ up /\ asker = "toRead"
  /\ IF status[target] = "PENDING"
     THEN asker' = "toWrite" /\ UNCHANGED target
     ELSE asker' = "idle" /\ target' = None
  /\ UNCHANGED <<status, starters, worker, driving, flagged, outcome, pipeline,
                 up, crashes>>

\* The row is CANCELLED: "removed from the queue before it started".
CancelWrite ==
  /\ up /\ asker = "toWrite" /\ asker' = "idle" /\ target' = None
  /\ SetRow(target, "CANCELLED")
  /\ UNCHANGED <<starters, worker, driving, flagged, outcome, pipeline, up, crashes>>

-----------------------------------------------------------------------------
(* The rest of the system, and restarts. *)

\* Another session takes the pipeline and gives it back.
OtherTakes ==
  /\ up /\ pipeline = "free" /\ pipeline' = "other"
  /\ UNCHANGED <<status, starters, worker, driving, flagged, outcome, asker,
                 target, up, crashes>>

OtherLeaves ==
  /\ up /\ pipeline = "other" /\ pipeline' = "free"
  /\ UNCHANGED <<status, starters, worker, driving, flagged, outcome, asker,
                 target, up, crashes>>

Crash ==
  /\ up /\ crashes < MaxCrashes
  /\ up' = FALSE /\ crashes' = crashes + 1
  /\ starters' = {} /\ worker' = "none" /\ driving' = None /\ flagged' = {}
  /\ outcome' = "COMPLETE" /\ asker' = "idle" /\ target' = None /\ pipeline' = "free"
  /\ UNCHANGED status

ReconciledUnlessQueued(t, expired) ==
  CASE status[t] = "none" -> "none"
    [] status[t] = "PENDING" /\ t \notin expired -> "PENDING"
    [] OTHER -> "FAILED"

\* reconcile_interrupted_profile_tests: a running row failed, a queued row is
\* kept unless it is past the resume window.
Reconciled(t, expired) ==
  CASE status[t] = "RUNNING" -> "FAILED"
    [] status[t] = "PENDING" /\ t \in expired -> "CANCELLED"
    [] OTHER -> status[t]

RebootNoResume ==
  /\ ~up /\ up' = TRUE
  /\ \E expired \in SUBSET Pending :
       status' = [t \in Tests |-> Reconciled(t, expired)]
  /\ UNCHANGED <<starters, worker, driving, flagged, outcome, asker, target,
                 pipeline, crashes>>

\* ... and resume_queued starts the worker if a row is left.
Reboot ==
  /\ ~up /\ up' = TRUE
  /\ \E expired \in SUBSET Pending :
       /\ status' = [t \in Tests |-> Reconciled(t, expired)]
       /\ worker' = IF Pending \ expired = {} THEN worker ELSE "pick"
  /\ UNCHANGED <<starters, driving, flagged, outcome, asker, target, pipeline,
                 crashes>>

-----------------------------------------------------------------------------

Proceed ==
  \/ \E t \in Tests : EnsureWorker(t)
  \/ Claim \/ CheckCancel \/ GoRunning \/ SettleRow \/ Unclaim
  \/ CancelFlag \/ CancelRead \/ CancelWrite \/ OtherLeaves

Next ==
  \/ Proceed \/ NoTarget \/ Hold \/ CancelClaimed \/ OtherTakes \/ Crash \/ Reboot
  \/ \E t \in Tests : Start(t) \/ CancelGate(t)
  \/ \E o \in Final : LeaveWith(o)

Spec == Init /\ [][Next]_vars

\* Threads run, sessions end, and a lock that stays free is taken by the thread
\* parked on it (the same promise of threading.Lock as in Coordinator).
Fairness ==
  /\ \A t \in Tests : WF_vars(EnsureWorker(t))
  /\ SF_vars(Claim) /\ WF_vars(CheckCancel) /\ WF_vars(GoRunning)
  /\ WF_vars(SettleRow) /\ WF_vars(Unclaim) /\ WF_vars(OtherLeaves)
  /\ WF_vars(CancelRead) /\ WF_vars(CancelWrite)
  /\ WF_vars(\E o \in Final : LeaveWith(o))
  /\ SF_vars(Hold)
  /\ WF_vars(Reboot)

FairSpec == Spec /\ Fairness

-----------------------------------------------------------------------------
(* Properties. *)

\* A running row is the one the worker drives, under the pipeline (or past it, on
\* the way to settle it): "A test only becomes RUNNING once it holds the
\* coordination lock".
RunsUnderThePipeline ==
  up => \A t \in Tests :
          status[t] = "RUNNING" =>
            /\ driving = t
            /\ worker = "left" \/ (worker = "running" /\ pipeline = "mine")

\* A row that was settled stays settled: in particular a test removed from the
\* queue never runs.
SettledStaysSettled ==
  [][\A t \in Tests : status[t] \in Final => status'[t] = status[t]]_vars

\* Every test that was queued is eventually settled.
TestsSettle ==
  \A t \in Tests : status[t] = "PENDING" ~> status[t] \in Final

-----------------------------------------------------------------------------
(* What carries the properties from one step to the next, for the proofs. *)

\* A worker past its claim drives a test, and holds the pipeline while it works on it.
WorkerDrives ==
  /\ driving = None <=> worker \in {"none", "pick"}
  /\ worker \in {"held", "reading", "running"} => pipeline = "mine"
  /\ target = None <=> asker = "idle"
  /\ ~up => worker = "none" /\ asker = "idle"

RunningIsDriven ==
  up => \A t \in Tests :
          status[t] = "RUNNING" => driving = t /\ worker \in {"running", "left"}

DriverInv == TypeOK /\ WorkerDrives /\ RunningIsDriven

\* The row of the driven test is where the worker is, and a cancel that looks at a row looks
\* at another one.
RowInStep ==
  /\ worker \in {"queued", "held", "reading"} => status[driving] = "PENDING"
  /\ worker = "running" => status[driving] = "RUNNING"
  /\ worker = "left" => status[driving] \in {"PENDING", "RUNNING"}
  /\ asker \in {"toRead", "toWrite"} => driving # target
  /\ asker = "toWrite" => status[target] = "PENDING"
=============================================================================
