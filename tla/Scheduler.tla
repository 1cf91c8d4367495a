------------------------------ MODULE Scheduler ------------------------------
(***************************************************************************)
(* One process's scheduler thread (scheduler.py) and the two engines it    *)
(* drives itself: the experiment (experiment.py), which advances one trial *)
(* per tick and lets the pipeline go in between, and the nightly baseline  *)
(* test (baseline_test.py), which turns shaping off pipe by pipe, measures *)
(* and turns it on again.                                                  *)
(*                                                                         *)
(* An hour is the catch-up window of a nightly schedule; the day is as     *)
(* long as Night, the window and the hours outside them need.  Another     *)
(* session of the pipeline takes the parameter as it finds it, tries       *)
(* values and puts back what it found (Baselines).                         *)
(*                                                                         *)
(* Nothing keeps an experiment's end off a session's firewall, nor an      *)
(* abort out of a trial: neither asks for the pipeline.  What goes wrong   *)
(* of it, and of writes that fail, is kept in mishaps, a history no action *)
(* reads: the properties say what holds while there was none.              *)
(*                                                                         *)
(* Assumptions: in every hour one tick gets as far as the schedules, and a *)
(* restart takes less than an hour (a hung run is cut short, Runs).  An    *)
(* end writes the value and closes the row in one step: no abort falls     *)
(* within the seconds of an end.  A dry run writes nothing and is left out.*)
(***************************************************************************)
EXTENDS Integers, FiniteSets

CONSTANTS
  Values,       \* of the parameter the experiment sweeps
  Candidates,   \* those it tries against the one it found
  Pipes, Shaped,        \* the pipes, and those whose shaper the user has on
  Hours,        \* of a day: 0..Hours - 1
  Night,        \* the hour the baseline test is scheduled at
  Window,       \* the hours of the experiment's window
  Days,         \* bound on the days
  AutoPromote,  \* the experiment may leave its winner applied
  Nobody,       \* no holder, no value, no experiment
  Faults        \* bound on crashes and on firewall writes that fail

ASSUME SchedulerAssumption ==
  /\ Candidates \subseteq Values /\ Shaped \subseteq Pipes
  /\ Nobody \notin Values \cup {"experiment", "baseline", "session"}
  /\ Hours \in Nat \ {0} /\ Night \in 0..(Hours - 1) /\ Window \subseteq 0..(Hours - 1)
  /\ Days \in Nat \ {0} /\ Faults \in Nat /\ AutoPromote \in BOOLEAN

VARIABLES
  day, hour,
  ticked,    \* a tick began in this hour
  tick,      \* where the thread is: idle, gate, step, trial, bench
  mine,      \* the baseline of the experiment it has in hand
  armed,     \* experiment.enabled
  baseline,  \* of the RUNNING experiment, or Nobody
  current,   \* _state["current_value"]
  tried,     \* the values with a trial
  value,     \* of the parameter, on the firewall
  home,      \* the value it should come back to
  unapplied, \* the last write of a trial's value failed
  shaping,   \* the pipes whose shaper is on
  owner,     \* of the pipeline: Nobody, "experiment", "baseline", "session"
  found,     \* what the session found
  test,      \* where the baseline test is
  states,    \* the pipe states on its unfinished row
  todo,      \* the pipes it has yet to turn
  date,      \* baseline_last_date
  seen,      \* the last day the test was started, or running when it was due
  refused,   \* the last day its start failed
  mishaps,   \* what went wrong on the way home
  booting, faults

clock == <<day, hour, ticked, date, seen, refused>>
thread == <<tick, mine>>
exp == <<baseline, current, tried>>
fw == <<value, shaping>>
truth == <<home, mishaps, unapplied>>
bt == <<test, states, todo>>
vars == <<clock, thread, armed, exp, fw, truth, owner, found, bt, booting, faults>>

Mishaps == {"restore", "toggle", "session", "misread", "straggler"}

Init ==
  /\ day = 1 /\ hour = 0 /\ ticked = FALSE /\ date = 0 /\ seen = 0 /\ refused = 0
  /\ tick = "idle" /\ mine = Nobody /\ armed \in BOOLEAN
  /\ baseline = Nobody /\ current = Nobody /\ tried = {}
  /\ value \in Values /\ home = value /\ mishaps = {} /\ unapplied = FALSE
  /\ shaping = Shaped
  /\ owner = Nobody /\ found = Nobody
  /\ test = "out" /\ states = {} /\ todo = {}
  /\ booting = FALSE /\ faults = 0

TypeOK ==
  /\ day \in 1..Days /\ hour \in 0..(Hours - 1) /\ {date, seen, refused} \subseteq 0..Days
  /\ {ticked, armed, unapplied, booting} \subseteq BOOLEAN
  /\ tick \in {"idle", "gate", "step", "trial", "bench"} /\ faults \in 0..Faults
  /\ {value, home} \subseteq Values /\ {baseline, current, found, mine} \subseteq Values \cup {Nobody}
  /\ mishaps \subseteq Mishaps /\ tried \subseteq Values /\ shaping \subseteq Pipes /\ states \cup todo \subseteq Pipes
  /\ owner \in {Nobody, "experiment", "baseline", "session"}
  /\ test \in {"out", "queued", "off", "on"}

Fails == faults < Faults /\ faults' = faults + 1
Works == UNCHANGED faults

\* _apply: a write that fails is logged, and the caller goes on as if it had not.
Applies(v) == (value' = v /\ Works) \/ (UNCHANGED value /\ Fails)

-----------------------------------------------------------------------------
(* Time, the switch, and everybody else. *)

HourPasses ==
  /\ ticked /\ ~booting /\ ticked' = FALSE
  /\ IF hour + 1 < Hours THEN hour' = hour + 1 /\ UNCHANGED day
     ELSE day < Days /\ hour' = 0 /\ day' = day + 1
  /\ UNCHANGED <<date, seen, refused, thread, armed, exp, fw, truth, owner, found, bt, booting, faults>>

\* The configuration is saved: the engine is armed or disarmed.
Arm ==
  /\ armed' = ~armed /\ ~booting
  /\ UNCHANGED <<clock, thread, exp, fw, truth, owner, found, bt, booting, faults>>

SessionStarts ==
  /\ ~booting /\ owner = Nobody 
  /\ owner' = "session" /\ found' = value
  /\ UNCHANGED <<clock, thread, armed, exp, fw, truth, bt, booting, faults>>

SessionTries ==
  /\ ~booting /\ owner = "session" /\ value' \in Values \ {value}
  /\ UNCHANGED <<clock, thread, armed, exp, shaping, truth, owner, found, bt, booting, faults>>

SessionEnds ==
  /\ ~booting /\ owner = "session" /\ owner' = Nobody /\ value' = found /\ found' = Nobody
  /\ UNCHANGED <<clock, thread, armed, exp, shaping, truth, bt, booting, faults>>

-----------------------------------------------------------------------------
(* The tick. *)

\* _schedule_due: from the scheduled time until the catch-up window is over.
Due == hour = Night

\* baseline_test.start: a PENDING row and a thread that waits for the pipeline.
StartTest == test' = "queued" /\ states' = {} /\ todo' = {}

TickBusyFirst ==
  /\ ~booting /\ tick = "idle" /\ ticked' = TRUE
  /\ IF Due /\ date # day /\ test = "out" /\ owner = Nobody
     THEN StartTest /\ date' = day /\ UNCHANGED tick
     ELSE tick' = "gate" /\ UNCHANGED <<date, bt>>
  /\ seen' = IF Due /\ (date' = day \/ test # "out") THEN day ELSE seen
  /\ UNCHANGED <<day, hour, refused, mine, armed, exp, fw, truth, owner, found, booting, faults>>

\* _maybe_run_baseline, before the busy gate: once a day, unless one is going.
Tick ==
  /\ ~booting /\ tick = "idle" /\ ticked' = TRUE
  /\ IF Due /\ date # day /\ test = "out"
     THEN StartTest /\ date' = day /\ UNCHANGED tick
     ELSE tick' = "gate" /\ UNCHANGED <<date, bt>>
  /\ seen' = IF Due /\ (date' = day \/ test # "out") THEN day ELSE seen
  /\ UNCHANGED <<day, hour, refused, mine, armed, exp, fw, truth, owner, found, booting, faults>>

\* The start raises: the day is stamped all the same, and the tick goes on.
TickStartFails ==
  /\ ~booting /\ tick = "idle" /\ ticked' = TRUE /\ tick' = "gate"
  /\ Due /\ date # day /\ test = "out" /\ Fails
  /\ date' = day /\ refused' = day
  /\ UNCHANGED <<day, hour, seen, mine, armed, exp, fw, truth, owner, found, bt, booting>>

\* coordinator.busy().
TickGate ==
  /\ ~booting /\ tick = "gate" /\ tick' = IF owner = Nobody THEN "step" ELSE "idle"
  /\ UNCHANGED <<clock, mine, armed, exp, fw, truth, owner, found, bt, booting, faults>>

TickIsOver ==
  /\ tick' = "idle" /\ mine' = Nobody
  /\ UNCHANGED <<clock, armed, found, bt, booting>>

\* The experiment ends on v; if that write fails, on whatever the firewall is on.  A session
\* that has the pipeline will put back the trial's value it found.
Ended(v) ==
  /\ baseline' = Nobody /\ current' = Nobody /\ tried' = {}
  /\ Applies(v)
  /\ mishaps' = mishaps \cup {m \in {"restore"} : value' # v}
                        \cup {m \in {"session"} : owner = "session"}
  /\ UNCHANGED <<shaping, unapplied>>

InWindow == hour \in Window
Active == baseline # Nobody

\* step: disarmed in the middle, back to the baseline.
Disarmed ==
  /\ ~booting /\ tick = "step" /\ ~armed /\ Active
  /\ Ended(baseline) /\ TickIsOver /\ UNCHANGED <<home, owner>>

\* The window is over: the baseline again, or the winner of those that were tried.
Finalize ==
  /\ ~booting /\ tick = "step" /\ armed /\ ~InWindow /\ Active
  /\ \/ Ended(baseline) /\ UNCHANGED home
     \/ AutoPromote /\ \E v \in tried \ {baseline} : Ended(v) /\ home' = v
  /\ TickIsOver /\ UNCHANGED owner

\* Nothing to do, or the firewall does not say what it is set to.
NoExperiment ==
  /\ ~booting /\ tick = "step" /\ ~Active
  /\ \/ ~(armed /\ InWindow) /\ Works
     \/ armed /\ InWindow /\ Fails
  /\ tick' = "idle"
  /\ UNCHANGED <<clock, mine, armed, found, bt, booting, exp, fw, truth, owner>>

\* The value the parameter will be on once a session has put back what it found.
Standing == IF owner = "session" THEN found ELSE value

\* _start: the baseline is what the firewall is on.  _baseline_value looks for the pipe's uuid
\* in settings that no longer carry it and takes the first pipe's value instead: any value,
\* unless the parameter is the first pipe's.
StartExperiment ==
  /\ ~booting /\ tick = "step" /\ armed /\ InWindow /\ ~Active
  /\ baseline' \in Values /\ mine' = baseline'
  /\ mishaps' = mishaps \cup {m \in {"misread"} : baseline' # Standing}
  /\ current' = Nobody /\ tried' = {} /\ tick' = "trial"
  /\ UNCHANGED <<clock, armed, fw, home, unapplied, owner, found, bt, booting, faults>>

GoesOn ==
  /\ ~booting /\ tick = "step" /\ armed /\ InWindow /\ Active
  /\ tick' = "trial" /\ mine' = baseline
  /\ UNCHANGED <<clock, armed, exp, fw, truth, owner, found, bt, booting, faults>>

\* try_hold is refused, or the value has not dwelled long enough.
Deferred ==
  /\ ~booting /\ tick = "trial" /\ (owner # Nobody \/ current # Nobody)
  /\ TickIsOver /\ UNCHANGED <<exp, fw, truth, owner, faults>>

\* The next trial is of v, on the firewall or not.
Tries(v) ==
  /\ current' = v /\ Applies(v) /\ unapplied' = (value' # v)
  /\ UNCHANGED <<baseline, shaping, home>>

FirstValueAssumed ==
  /\ ~booting /\ tick = "trial" /\ owner = Nobody /\ current = Nobody
  /\ current' = mine /\ TickIsOver
  /\ UNCHANGED <<baseline, tried, fw, truth, owner, faults>>

\* The first step of a process puts the baseline on.
FirstValue ==
  /\ ~booting /\ tick = "trial" /\ owner = Nobody /\ current = Nobody
  /\ Tries(mine) /\ TickIsOver /\ UNCHANGED <<tried, mishaps, owner>>

Benchmark ==
  /\ ~booting /\ tick = "trial" /\ owner = Nobody /\ current # Nobody
  /\ owner' = "experiment" /\ tick' = "bench"
  /\ UNCHANGED <<clock, mine, armed, exp, fw, truth, found, bt, booting, faults>>

\* The trial is recorded, and the next value applied: one of the least sampled.  Nobody looks
\* whether the experiment was aborted meanwhile.
Trial ==
  /\ ~booting /\ tick = "bench" /\ owner' = Nobody
  /\ tried' = IF Active THEN tried \cup {current} ELSE tried
  /\ \E v \in Candidates \cup {mine} : Tries(v)
  /\ mishaps' = mishaps \cup {m \in {"straggler"} : ~Active /\ value' # mine}
  /\ TickIsOver

\* create_run or execute_run raises: the step is rolled back.
TrialRaises ==
  /\ ~booting /\ tick = "bench" /\ owner' = Nobody /\ Fails
  /\ TickIsOver /\ UNCHANGED <<exp, fw, truth>>

\* abort_active: a request thread restores the baseline; it holds nothing and asks nobody.
Abort ==
  /\ ~booting /\ Active /\ Ended(baseline)
  /\ UNCHANGED <<clock, thread, armed, home, owner, found, bt, booting>>

Ticks ==
  \/ Tick \/ TickStartFails \/ TickGate \/ Disarmed \/ Finalize \/ NoExperiment \/ StartExperiment \/ GoesOn
  \/ Deferred \/ FirstValue \/ Benchmark \/ Trial \/ TrialRaises
-----------------------------------------------------------------------------
(* The baseline test. *)

around == <<clock, thread, armed, exp, value, home, unapplied, found, booting>>

\* The job queue starts one by hand.
SubmitTest ==
  /\ ~booting /\ test = "out" /\ owner = Nobody /\ StartTest
  /\ UNCHANGED <<around, shaping, mishaps, owner, faults>>

HoldUnrecorded ==
  /\ ~booting /\ test = "queued" /\ owner = Nobody /\ owner' = "baseline"
  /\ test' = "off" /\ todo' = shaping
  /\ UNCHANGED <<around, shaping, states, mishaps, faults>>

\* Under the pipeline, the states of the pipes are read and recorded.
HoldTest ==
  /\ ~booting /\ test = "queued" /\ owner = Nobody /\ owner' = "baseline"
  /\ test' = "off" /\ states' = shaping /\ todo' = shaping
  /\ UNCHANGED <<around, shaping, mishaps, faults>>

Turned(on, p) == shaping' = IF on THEN shaping \cup {p} ELSE shaping \ {p}

\* Shaping is turned off, pipe by pipe.
TurnOff ==
  /\ ~booting /\ test = "off" /\ todo # {}
  /\ \E p \in todo : Turned(FALSE, p) /\ todo' = todo \ {p}
  /\ UNCHANGED <<around, test, states, mishaps, owner, faults>>

\* The unshaped link is measured, cut short by a cancel or a chunk that fails.
Measured ==
  /\ ~booting /\ test = "off" /\ todo = {} /\ test' = "on" /\ todo' = states
  /\ UNCHANGED <<around, shaping, states, mishaps, owner, faults>>

\* A pipe does not answer: the rest stay on, and all of them are turned on again.
TurnOffFails ==
  /\ ~booting /\ test = "off" /\ todo # {} /\ Fails
  /\ test' = "on" /\ todo' = states
  /\ UNCHANGED <<around, shaping, states, mishaps, owner>>

\* The restore is best effort, pipe by pipe.
TurnOn ==
  /\ ~booting /\ test = "on" /\ todo # {}
  /\ \E p \in todo :
       /\ todo' = todo \ {p}
       /\ \/ Turned(TRUE, p) /\ UNCHANGED mishaps /\ Works
          \/ UNCHANGED shaping /\ mishaps' = mishaps \cup {"toggle"} /\ Fails
  /\ UNCHANGED <<around, test, states, owner>>

TestEnds ==
  /\ ~booting /\ test = "on" /\ todo = {} /\ test' = "out" /\ owner' = Nobody
  /\ states' = {} /\ UNCHANGED <<around, todo, shaping, mishaps, faults>>

TestSteps == HoldTest \/ TurnOff \/ Measured \/ TurnOn \/ TestEnds

-----------------------------------------------------------------------------
(* Restarts. *)

\* A boot that fails the running experiment's row like those of the other engines.
CrashFailingRow ==
  /\ ~booting /\ Fails /\ booting' = TRUE /\ tick' = "idle" /\ mine' = Nobody /\ owner' = Nobody
  /\ baseline' = Nobody /\ tried' = {}
  /\ current' = Nobody /\ date' = 0 /\ test' = "out" /\ todo' = states
  /\ value' = IF owner = "session" THEN found ELSE value
  /\ found' = Nobody
  /\ UNCHANGED <<day, hour, ticked, seen, refused, armed, shaping, truth, states>>

\* The process dies.  The rows stay: the experiment goes on as if nothing had happened.
\* What a session had applied is put back by its own reconcile.
Crash ==
  /\ ~booting /\ Fails /\ booting' = TRUE /\ tick' = "idle" /\ mine' = Nobody /\ owner' = Nobody
  /\ current' = Nobody /\ date' = 0 /\ test' = "out" /\ todo' = states
  /\ value' = IF owner = "session" THEN found ELSE value
  /\ found' = Nobody
  /\ UNCHANGED <<day, hour, ticked, seen, refused, armed, baseline, tried, shaping, truth, states>>

\* reconcile_interrupted_baseline_tests turns the pipes of the row on, best effort.
Reconcile ==
  /\ booting /\ todo # {}
  /\ \E p \in todo :
       /\ todo' = todo \ {p}
       /\ \/ Turned(TRUE, p) /\ UNCHANGED mishaps /\ Works
          \/ UNCHANGED shaping /\ mishaps' = mishaps \cup {"toggle"} /\ Fails
  /\ UNCHANGED <<around, test, states, owner>>

Booted ==
  /\ booting /\ todo = {} /\ booting' = FALSE /\ states' = {}
  /\ UNCHANGED <<clock, thread, armed, exp, fw, truth, owner, found, test, todo, faults>>

CrashInBoot ==
  /\ booting /\ Fails /\ todo' = states
  /\ UNCHANGED <<around, shaping, test, states, mishaps, owner>>

-----------------------------------------------------------------------------

Next ==
  \/ HourPasses \/ Arm \/ SessionStarts \/ SessionTries \/ SessionEnds
  \/ Ticks \/ Abort \/ SubmitTest \/ TestSteps \/ TurnOffFails
  \/ Crash \/ Reconcile \/ Booted \/ CrashInBoot

Spec == Init /\ [][Next]_vars

-----------------------------------------------------------------------------
(* Properties. *)

\* On the parameter's way home nothing went wrong (a pipe's toggle is none of its business).
Undisturbed == mishaps \subseteq {"toggle"}

\* "Restore the pre-experiment baseline when the window closes -- always", unless a winner
\* was promoted: with no experiment and no session in progress the parameter is home, also
\* after restarts, disarming, aborts in the middle of a trial and sessions that ran on top of
\* one; but for a write that failed, an end that fell under a session, a baseline read off
\* another pipe, and the value the aborted experiment's last trial left behind.
HomeWithoutExperiment ==
  ~Active /\ owner # "session" => value = home \/ ~Undisturbed

\* "Stop the running experiment immediately and restore the baseline config." (stated, and
\* refuted: the trial that was under way applies the next value after the restore)
AbortRestores ==
  ~Active /\ owner # "session" => value = home \/ mishaps \ {"toggle", "straggler"} # {}

\* Every trial a running experiment will count is of the value it is recorded under, unless
\* the write of that value failed: sessions, restarts and ends between the tick that applied
\* it and the tick that measures it put it back, or make the engine apply one anew; and an
\* abort that restores the baseline under the measurement leaves no experiment to count it.
TrialsAreTrue == tick = "bench" /\ Active => value = current \/ unapplied

\* Shaping comes back on every pipe that had it when the test is over, whoever ended it.
ShapingComesBack == test = "out" /\ ~booting => shaping = Shaped \/ "toggle" \in mishaps

\* "a missed minute cost minutes": once its hour is over the nightly test has run or was
\* running, though the pipeline was busy all through that hour; only a start that raised
\* costs the night, and no later tick of that hour makes up for it.
NightIsNotMissed == hour > Night => seen = day \/ refused = day

-----------------------------------------------------------------------------
(* What carries the properties from one step to the next, for the proofs. *)

\* Who has the pipeline is what the threads say they are doing.
OwnersAct ==
  /\ tick = "bench" => owner = "experiment"
  /\ ~booting /\ test \in {"off", "on"} => owner = "baseline"
  /\ owner = "session" => found \in Values
  /\ booting => tick = "idle" /\ test = "out" /\ owner = Nobody
  /\ tick = "bench" /\ Active => current # Nobody

\* What the tick has in hand is the running experiment's baseline, or that of one which was
\* aborted since.
InHand ==
  tick \in {"trial", "bench"} =>
    /\ mine # Nobody
    /\ IF Active THEN mine = baseline ELSE ~Undisturbed \/ mine = home

\* The way home: the experiment's baseline, else what the session found, else the firewall.
LeadsHome == ~Undisturbed \/ home = IF Active THEN baseline ELSE Standing

\* What the next trial will find on the firewall, once a session has put back what it found.
CurrentIsOn == Active /\ current # Nobody => unapplied \/ current = Standing

\* The row of an unfinished test names every pipe that is still to be turned on.
RowCoversShaping ==
  \/ "toggle" \in mishaps
  \/ /\ shaping \subseteq Shaped /\ states \subseteq Shaped /\ todo \subseteq Shaped
     /\ Shaped \ shaping \subseteq states
     /\ booting \/ test = "on" => Shaped \ shaping \subseteq todo
     /\ ~booting /\ test \in {"out", "queued"} => shaping = Shaped /\ states = {}
     /\ ~booting /\ test \in {"off", "on"} => states = Shaped

NightWasSeen == hour > Night \/ (hour = Night /\ ticked) => seen = day \/ refused = day

SchedulerInv ==
  TypeOK /\ OwnersAct /\ InHand /\ LeadsHome /\ CurrentIsOn /\ RowCoversShaping /\ NightWasSeen
=============================================================================
