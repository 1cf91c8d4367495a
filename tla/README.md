# PathBrain in TLA+

PathBrain looks for better traffic-shaper (SQM) settings for a home OPNsense
firewall: it benchmarks a profile, switches the firewall to another one,
benchmarks again, ranks the results, and at the end puts the user's own settings
back. One FastAPI process does everything, with one thread per session, a
scheduler thread, a queue dispatcher, short-lived request threads, and SQLite
rows as the only memory that outlives the process. What can go wrong is seldom
in one function. It is in two sessions on one firewall, a call that never
returns, a cancel that races an end, a restart between two writes.

This directory models those parts in TLA+, checks them with TLC, and proves most of
their safety with TLAPS. Paths below are relative to
`src/backend/pathbrain/`. `PROJECT.json` maps every definition to the lines it
models.

Contents: 1 The system; 2 The modules; 3 The runs; 4 Fairness; 5 The proofs;
6 What the code does not promise; 7 What is not modelled; 8 The plan.

## 1 The system

### 1.1 Components

| Component | State | Operations | What makes it correct |
|---|---|---|---|
| Coordination gate, `coordinator.py` | `_lock` (a `threading.Lock`), `_lease` (who, when it last beat, revoked), the waiter count | `hold`, `try_hold`, `beat`, `evict_if_stalled`, `yield_if_waiting`, `_release` | One owner at a time, evictions and yields included; the lock is never stranded; a wedged holder is disowned |
| Job queue, `job_queue.py` | `_queue` in memory, `queued_jobs` rows, the dispatcher thread | `submit`, `_drain`, `cancel`, `restore`, the requeue of an interrupted duel | No ticket strands, order is kept, cancelled means cancelled, rows and tickets agree |
| Session engines: `sweep.py`, `profile_test.py`, `challenger.py`, `refresh.py`, `duel.py` | a row with the status and the baseline; `_state` in memory | `start`, `_drive`, `cancel`, `reconcile_interrupted_*` | The firewall comes back to what the user had; who measures, measures what it applied |
| Profile test queue, `profile_test.py` | PENDING rows, one worker thread, `_state` under `_gate` | `start`, `_worker`, `_drive`, `cancel`, reconcile, resume | No row strands, oldest first, settled stays settled |
| Runs, `runner.py`, `api/routes_run.py` | `Run` rows, `_STOP_REQUESTS`, a thread per run or per series | trigger, `execute_run`, cancel, `fail_stale_runs`, reconcile, resume | A stop is honoured, one run measures at a time, every run ends, a drifted run does not count |
| Scheduler loop, `scheduler.py` | the leader flock, when each schedule last fired | watchdog, monitoring run, nightly sessions, experiment and crown steps, once per tick | Each schedule fires once a day; the tick itself does not hang |
| Firewall write path, `firewall_write.py`, `settings_profile.py`, `session_runtime.py`, `providers/` | stored and running configuration, on the firewall | plan, `apply_many`, verify, retry of reads, read-back | All or nothing; a write that returned is saved; an answered one runs |
| Duel ring, `duel.py` | seats, legs and carried matches in memory; open matches and matchups on each row | legs, references, adjudication, carry-over, yield at a seam, re-grade of the ledger | A match counts once, a round is read against its neighbours, a measured round is never lost |
| Evidence and belt, `duel.py` | the margins of a match; the records of the last 50 rows | streak, signed rank, sign test, cap, narrow win; the replay of the belt | No rule favours a side, every match ends, the belt is lost in the ring |
| Field memo and profile rollups, `api/routes_settings.py`, `profile_aggregates.py` | one memo of the field with the passes in flight; one stored row per profile with its stamp | single flight, verification on read, drop on rewrite | What is served was true during the call; nobody waits for a pass that is over |
| Experiment, `experiment.py` | the row with its baseline, the value in force, the trials | one step per tick, finalize, abort | Baseline or winner restored, a trial is of its value |
| Crown follower, `crown_follower.py`, `crowning.py` | event queue, churn ledger, the filter's cache, retry and backstop clocks | enqueue, filter, check, apply, backstop | The ledger and the firewall come to the governing crown, never over a session |
| Baseline test (SQM off), current-settings test | row, which pipes were on | toggle, settle, chunks, restore | Shaping is on again afterwards |
| Write probe, link watch | samples, the write in progress | time a switch, ping, attribute a gap | A gap is filed under the write it overlaps |
| Explore: bets, share, tracker | counters of the session | choose a bet, pace the share | The share is never exceeded |
| Background jobs, `jobs.py` | one running job per kind | start, progress, finish | One of a kind at a time |
| Lever campaigns, `levers.py` | campaign rows: pinned base, open matches | resolve, take the open matches, close | Its matches survive its sessions |
| Self-update | pending verdict | trigger, compare after the restart | The verdict is that of the version that came up |
| Ranking, rating, statistics; scoring, methodology | none (read stored runs) | pure numeric pipelines | Numeric |
| Instruments, plugins, probes, config, persistence, API routes, frontend | samples, settings, rows, views | I/O | – |

### 1.2 How they interact

* **One gate.** Every session takes `coordinator.hold` before it writes the
  firewall, and waits in it when it is taken. The scheduler and the crown
  follower use `try_hold` and give up. The duel, which may last hours, steps
  aside at its seams for one waiter and resumes (the "zipper merge"). Experiment
  finalize and abort are the exceptions: they write without the gate. The experiment also gives
  the gate back between its trials, with a trial's value on the firewall.
* **Three layers of queueing.** The job queue in front of `start()`, the PENDING
  rows of profile tests and runs, and the threads parked in `hold`. Only the first
  two outlive the process.
* **Eviction.** A waiter, or the watchdog on the scheduler's thread, revokes the
  lease of a holder that has not beaten for `STALE_HOLDER_S` and releases its lock
  for it (a `threading.Lock` may be released by any thread).
* **Two copies of a row.** Executing threads keep an ORM object for minutes or
  hours; cancel requests and the watchdog write the same row from elsewhere.
* **A match in three copies.** A duel keeps its matches in seats, in a snapshot on its row that the next
  session adopts, and as records on the ledger that ratings, belt and campaigns are computed from.
* **Caches over rewritten rows.** Standings are computed from runs that a publish, a re-grade, a re-key or a
  backfill rewrite; the crown follower acts on what it read.
* **Two configurations of the firewall.** `setPipe` changes what is stored;
  `reconfigure` makes the shaper run it; `getSettings` reads what is stored.
* **Restart.** `main.lifespan` fails the runs that were running, then reconciles sweep,
  profile test, challenger, refresh and duel in that order, each putting back the
  baseline of its unfinished row; then the job queue, the queued profile tests and the
  queued runs are resumed.

### 1.3 What is hard

Interleavings of the lock, the lease and the evictor; nested baselines, since a
session inside a ladder's step-aside snapshots the ladder's setting, not the user's; a restart in
the middle of a recovery; a cancel anywhere; writes that were lost, half done or
late; threads that retire while somebody enqueues. `PROJECT.json` lists 40 such
hazards at their lines, with the properties that cover them, or a note that says why none does.

## 2 The modules

| Module | Models | Over |
|---|---|---|
| `Pipeline` | what the gate promises: an owner, `Take`, `Drop` | – |
| `Coordinator` | the gate, statement by statement | implements `Pipeline` |
| `PipelineProofs` | the theorems of the gate and of the line | `Coordinator`, `JobQueue` |
| `Baselines` | five engines on one firewall, and the boot | `Gate == INSTANCE Pipeline` |
| `JobQueue` | tickets, dispatcher, disk rows, restart | – |
| `ProfileTests` | the row queue and its worker | – |
| `Runs` | runs, series, monitoring, watchdog, cancel | – |
| `FirewallWrite` | one switch and its restore, call by call | – |
| `DuelRing` | a ladder's or lever session's matches, legs, transactions; the re-grade of the ledger | – |
| `Belt` | the stopping rules of a match, its record, the replayed belt | – |
| `FieldCache` | the memo and the rollups in front of the standings | – |
| `CrownFollower` | the follower, its filter, the re-grade it holds for, the policies | – |
| `Scheduler` | a tick, the experiment, the nightly baseline test, restarts over days | – |
| `FirewallProofs` | theorems of the write path and of the follower | `FirewallWrite`, `CrownFollower` |
| `SchedulerProofs` | its theorems | `Scheduler` |
| `RunsProofs` | its theorems | `Runs` |
| `ProfileTestsProofs` | its theorems | `ProfileTests` |
| `StandingsProofs` | theorems of the stopping rules and of what the standings serve | `Belt`, `FieldCache` |
| `BaselinesProofs` | its theorems | `Baselines` |
| `DuelRingProofs` | its theorems | `DuelRing` |
| `MC*` | the models TLC runs | the module they are named after |

`Baselines` takes its steps on the pipeline through `Gate!Take` and `Gate!Drop`.
What it assumes of the gate is therefore what `Coordinator` is shown, and proved, to
implement. Every module states a `TypeOK`; it documents the range of each variable, was checked on the instances
below, and is proved where section 5 says so. `JobQueue`, `ProfileTests`, `Runs`, `CrownFollower` and `Scheduler` keep the holder of the pipeline as a
variable with the same two steps.

### Coordinator

`lock`, `lease` and `revoked` are the module globals and the `Lease` flag. `quiet` is the time since the
last beat, in ticks, up to the stale bar. `pc` is where a session's thread is, with a point between any two statements
that touch the lock or the lease. `seen` is the local variable of `yield_if_waiting`. `evicting` holds
the actors between revoking a lease (`coordinator.py:285`) and freeing its lock (`:286-295`). `written` is the
session that last wrote the firewall. `Hold`, `TryHold`, `Acquire`, `AbortWait` are the ways in;
`Probe` is a beat; `Write` is an apply, after `Lease.check` for members of `Ring`; `Wedge` and
`Finish` end a session's work, or fail to; `Seam`, `BetChosen` and `Yield*` are the step
aside; `Release` and `ReleaseLock` are `_release`; `Evict` and `EvictRelease` the eviction.

`Tick` may not fall between two adjacent statements of the gate, because the stale bar is
20 minutes. It may fall in a session's work and in a wedged call. With `SlowSeam` it may also fall while
the ring chooses its Explore bet, which reads the whole stored field between the check
(`duel.py:4282`) and the yield.

### JobQueue

A job is a record: its kind, its stage (in memory), its row (on disk) and how often it was started. Its number
is also its order. `SubmitNow` and `SubmitQueued` are the two ways through `submit`.
`StartCheck` and `Launch` are the two halves of an engine's `start()`: the check that none is active, and
the set of the flag, with a firewall read in between for a sweep. `Claim`, `Retire`
and `Settle` are the dispatcher. `disk = "stale"` is a row the database refused to settle.
`Crash` and `Boot` are the restart. `Boot` restores the pending rows in order and requeues an interrupted duel:
`Restored` is that one line. A ticket is cancelled at its place in the line (`Cancel`), since its number is all a caller has.
`Kick` is the scheduler starting a duel past the queue, `OutsideTakes` a session that never queues.

### Baselines

`fw` is the setting the firewall is on, one abstract value per profile that matters. `baseline` is the
baseline on an engine's unfinished row, which is what a restart reads. `home` is a
history variable: where the firewall should be when nobody works. It is the user's setting until a race promotes its winner.
`missed` is a history variable: the firewall did not answer a restore or a promotion.
The engines share the actions, and differ where the code does:

* a sweep snapshots in `start()`, without the lock (`SnapshotEarly`); the others under it (`Begin`);
* sweep, refresh and profile test restore in a `finally` under the lock; a race or a refresh that raised
  restores after the lock is released (`RestoreLate`); a duel that raised does not restore at all (`Fail`);
* a duel steps aside with its contender applied and its row open (`StepAside`, `StepBack`);
* a race may leave its winner applied (`Promote`).

`Reconcile` is one engine of the boot; a `Crash` may also hit between two of them.

### ProfileTests

`status` is the column of the rows. `worker` is where the one worker thread is. `driving` and `flagged`
are `_state`. `starters` are requests between committing a row and `_ensure_worker`. `asker` and
`target` are a cancel between looking at `_state` and writing the row, because `cancel` decides under
`_gate` but writes outside it. `outcome` is the `final_status` local. `LeaveWith` stands for the measurement and its
end; what it does to the firewall is in `Baselines`.

### Runs

`status` is the row, a `FAILED` one split by its reason (`overdue` is what the code calls timed out). `done` counts iterations. `seen` is the settings
fingerprint read at the start. `stop` is `_STOP_REQUESTS`. `more` is what a driver still has to do
of its series, `chunks` what the rows say of it. `asker` is a cancel request between its read, its write and
`request_stop`. `Hold` to `Leave` follow one run through `execute_run`. `NextChunk` is the series.
`Watchdog` is `fail_stale_runs`. The history variables `told` and `moved` are the runs whose cancel was answered
and those the settings changed under.

### FirewallWrite

`stored` and `running` map each pipe to its value, the ten or so fields of a pipe taken as one. `phase`
follows a session through its apply, the read-back, the measurement and its restore. `batch`, `saved`
and `originals` are the locals of `apply_many`. `reloading` is a reload whose caller timed out. A call may be lost
(`SaveLost`, `ReloadLost`, `Unanswered`, `ReadFails`), in which case the firewall may have done it, or not, or be
still doing it. A transport failure is verified by a re-read; any other raises. A `setPipe` may also be
rejected, whereupon the saved pipes are put back, each best effort (`PutBack`).

### DuelRing

`rows` are the duel rows with their open matches and matchups, `campaign` the open matches on the campaign's row, `current`
the published methodology; `ring` is the memory of `_run_ring`: defender, lead leg, seats, carried matches,
challenger legs, records. `bout` says who meets whom in each match. A session runs `Start`, `Take` or
`TakeCampaign`, then cycles: `Notice` a publish, find a defender (`ChooseDefender`, `SwitchDefender`, `NoDefender`),
fill the seats (`SeatCarried`, `SeatFresh`), close what cannot resume (`Dismiss`), `WriteOpen`, `OpeningLeg`, `ChallengerLeg`s, `ClosingLeg`, adjudicate
(`Judged`), write (`Sync`, `PersistOpen`), and the seam (`Yield`, `WindowEnds`). `Die` is a death between any two
transactions. `RegradeReads` and `RegradeWrites` are `regrade_ledger`, which reads every row, takes its time, and writes whole columns.
A round carries the readings it was read against, a history that `RoundsAreComparable` inspects. `paid` is the most rounds of each match that ever reached the disk.

### Belt

`match` is the match in progress with its margins (challenger minus reference), `ledger` the records in order, `session` the newest row, `rules` the
configuration. `Decide` is `PairedEvidence.decide`, `Sprt` is `SprtState.decision` with its logarithms as integers,
`Significant` is `wilcoxon_p` against the peek-corrected level: exact by `RankSumCounts` when no rank is fractional, else the
normal approximation, squared so that no root is taken. `Smallest` is the place of a margin in the sorted row, by counting, which is all `_median` needs of a sort. `Paired` and `PairWins` are the two methods of `_adjudicate`, `Narrow` its tiny win.
`Belts` is the replay, record by record, of those in the window, and `Holder` what the last leaves, which is `lineal_belt`. `Round`, `Dismiss` and `Abort` end a match.

### FieldCache

`fp`, `scored`, `scores`, `clock` and `version` are the database: what each run is filed under, the write that last touched its score, and
the methodology in force. `memo` and `flights` are `_FIELD_CACHE` and `_FIELD_INFLIGHT`, `rollups` the stored
rows, `call` what each caller is doing, with the values that were true since it began (`seen`, history). A field or a rollup is
represented by the rows it was computed from, which is what staleness is about. `Lead`, `Read`, `Store`, `Pop`, `Set` are one pass, `Follow` is a caller
that waits on its event, `Raise` a pass that fails; `AskRollup` to `Persist` are `aggregates`. `RunLands`, `Publish`,
`RegradeRun`, `Refingerprint`, `Backfill` and the two drops move what lies under them.

### CrownFollower

`pending`, `poked`, `retry`, `cache` and `ledger` are the follower's event queue, clocks, filter cache and churn ledger; `lock` is `_check_lock`; `chk` is
where the tick and a request's check are, with what each read. `TickHolds`, `TickGivesUp`, `TickIsDue`, `TickFilters`, `FilterEscalates`, `FilterPasses` are the tick up to
the check; `ReadField`, `Vacant`, `Plan`, `Deferred`, `Apply`, `ApplyUnverified`, `ApplyFails`, `Record` the check. The world around it moves
by sessions (which restore what they found), runs, duels, re-grades that complete or fail, and the switch. A profile's settings are the
set of fields it turns up, so a half-applied plan is visible.

### Scheduler

One thread: `Tick` looks at the nightly schedule, `TickGate` asks whether the pipeline is free, and then the experiment makes one step
(`StartExperiment`, `Benchmark`, `Trial`, `Deferred`, `Disarmed`, `Finalize`). `value` and `shaping` are the firewall, `home` where the value belongs,
`astray` that a write on the way home failed. The baseline test is a thread of its own: `HoldTest` records the pipes that are on, `TurnOff`
and `TurnOn` take one pipe each, `Measured` is its measurement however it ends. `Crash`, `Reconcile` and `Booted` are the restart. A session of
the pipeline takes the value as it finds it, tries others and puts it back.

## 3 The runs

All run in the default breadth-first mode and cover their bounded state space completely.

| Run | cfg | Distinct states | Shows |
|---|---|---|---|
| `gate` | CoordinatorRing | 9,636 | The gate with a yielding duel, a profile test and the monitoring run: safety, refinement of `Pipeline`, a wedged holder is disowned, the line moves |
| `queue` | JobQueue | 946 k | The job queue with a crash, failing disk writes and sessions from outside |
| `baseline_ladder` | BaselinesLadder | 162 k | Five engines, two crashes, promotions, failing sessions: home when idle, every crash repairable, who measures measures what it applied, the firewall keeps coming home |
| `tests` | ProfileTests | 211 k | The profile test queue with cancels and a crash |
| `runs` | Runs | 367 k | Runs, series, monitoring, cancel, watchdog, drift, a crash |
| `firewall` | FirewallWrite | 25 k | The write path with lost and rejected calls |
| `ring` | DuelRing | 1.93 M | Two sessions of a ring with deaths between transactions and a publish: rounds comparable, none lost, a match recorded once |
| `belt` | Belt | 1.22 M | Matches under five configurations: sides alike unless the rounds are level, matches end, the belt moves only by a bout that earned it |
| `field` | FieldCache | 2.90 M | Two callers of the caches while rows are added, graded, re-keyed, and passes raise |
| `follower` | CrownFollower | 593 k | Tick and request at once, with sessions, runs, re-grades and failures: a true history, an applied crown, convergence |
| `scheduler` | Scheduler | 325 k | Experiment, sessions on top of it, the nightly test, failing writes and crashes over two days |
| `baseline_duel_fails` | BaselinesDuelFails | – | a violation, section 6 |

**Bounds, and why they are enough.**

* `gate`: three sessions, since a race of the gate needs a holder, an evictor and a third that takes the freed lock.
  All three kinds of session are present. The watchdog is a fourth actor. `StaleAfter = 2` distinguishes a fresh, an aging and a
  stale lease.
* `queue`: two kinds, because the queue treats kinds alike except the duel, which a restart requeues. Three
  jobs: one running, one in the dispatcher's hand, one waiting. One crash: a boot starts from rows alone, so a second one adds only longer rows.
* `baseline_ladder`: all five engines and all orders of their rows. Two crashes, so that the second can hit the recovery of
  the first. Sessions are unbounded.
* `tests`: three tests (one driven, one waiting, one arriving) and one crash. Other sessions are unbounded.
* `runs`: two rows, which make a series of two chunks or two runs in competition; two iterations, so that there is an iteration before the last;
  one change of settings, one crash.
* `firewall`: two pipes (download and upload, what the code writes in one batch), two values, two
  sessions, so that a lost reload of the first may end in the second, and three losses: one for the apply, one for its verification
  or the restore, one for the next session.
* `ring`: three profiles, of which one pair cannot differ; two seats and one challenger leg per cycle, so that a seat waits for its leg;
  two rounds end a match, so that it can be carried after one; two matches, two sessions (one that leaves open
  matches and one that adopts them), one publish.
* `belt`: three profiles, so that a bout can pass the holder by. A margin is -1, 0, 1 or 2 with a floor of 0 or 2: losses, levels, wins within the floor
  and beyond it, ranks tied and whole. A match may end from the third round (`MinPairs`) and must at the fifth. Three matches, the least that can move a belt by a rematch.
  Two sessions and a window of one, so that a row leaves the replay.
* `field`: two callers, a leader and a follower; three runs (one filed under an older spelling, one without settings, one that
  lands), three writes of scores (two are those of the first runs), one publish, one pass that raises.
* `follower`: two profiles, one with a field more, so that a plan both adds and removes; standings 0 (not confident), 1 and 2; both policies. Three hazards of any kind: one that moves the crown, one that
  hides it, one that fails.
* `scheduler`: two values, three pipes of which two are shaped, two days of two hours (one is the night), two faults.

`CHECK_DEADLOCK FALSE` appears in the cfgs of `JobQueue`, `FirewallWrite`, `DuelRing` and `Belt` only: there the bound on what may be
asked for ends all work, and the system idles. Everywhere else the end of the work is not a deadlock of the model, and deadlock is checked.

**Timing assumptions** are constants, so that their absence can be tried. They say that the milliseconds between two
statements are not longer than minutes or firewall round trips elsewhere:
`SlowSeam` (Coordinator), `Untimely`, `Prompt` and the guard of `Apply` (Baselines), `LateStops` (Runs),
`SlowCancel` (ProfileTests), `Torn` and `SlowRegrade` (DuelRing), `SlowPass` (FieldCache), `LateAbort` and `SlipsIn` (Scheduler).
`BaseMoves` (DuelRing) is of another kind: it says that a campaign's base stays reachable. `Baselines` explains its own where they are used. Section 6 says what each of them hides.

## 4 Fairness

Nothing obliges a user to submit, cancel or retry, a process to crash, or a wedged call to return. What is assumed:

* a thread that can take its next step takes it (`WF` of `Proceed`, `Engine`, `Claim`, `Settle`, ...);
* the free lock goes to some parked thread (`SF` of the disjunction over the waiting sessions; Python's lock promises no order,
  so none is assumed between the sessions). For a single run or test (`Runs`, `ProfileTests`) `SF` of its own `Hold`
  is assumed: every other session leaves, and the number that can overtake is finite in the code, because each overtaker was asked for;
* sessions end: a sweep runs out of variants, a duel of time (`SF` of `Finish`);
* an actor that can evict does, once per poll: `hold` wakes up every 15 seconds for it, and the watchdog ticks;
* time passes (`SF` of `Tick`);
* a dead process is started again (the service manager) and its boot runs through;
* in `CrownFollower` the tick, a check once begun, the backstop's clock and the monitoring run that a due schedule starts go on (`WF`), sessions end, a
  re-grade grades its last run and its job ends. No standing has to move and nobody has to ask for a check.

`DuelRing`, `Belt`, `FieldCache`, `FirewallWrite` and `Scheduler` state safety only and assume no fairness.

`WedgedHolderIsDisowned` excludes one case on purpose: the scheduler's own monitoring run being the wedged one. The watchdog lives on that
thread.

## 5 The proofs

The eight proof modules hold for every value of the constants; TLC's runs above are the small instances of the same formulas.

**PipelineProofs** (1282 obligations), of the gate and of the line in front of it.

The gate. Assumptions: `SessionsAssumption`, `TimeAssumption` and `~SlowSeam`. The inductive invariant is

    GateInv == TypeOK /\ OneOwner /\ LockAccounted
               /\ LeaseIsClaim /\ YieldersKeepTheirLease /\ SeamIsFresh

`OneOwner` says who may act. It is not inductive, since a session could release a lock that is no longer its own.
`LockAccounted` ties the lock to exactly those who will release it. `LeaseIsClaim` ties the lease to the
session with the live claim, so that `_release` and `Evict` decide rightly. `YieldersKeepTheirLease` is
about the lease a yielding session remembers and puts back. `SeamIsFresh` is why it has not changed meanwhile: no
tick falls in a seam. From `GateInv` follow:

* `GateInvariant`, `GateHasOneOwner`, `GateLockAccounted`: the invariant and its parts;
* `GateLeases`: a lease is lost only by its owner's release or yield, or by revocation;
* `RingWritesSafely`: a session that checks its lease never writes without it;
* `GateImplementsPipeline`: `Spec => Gate!Spec`, with the owner mapped to the session that has the
  live claim. Each action is a `Take`, a `Drop` or a stutter.

The line. Assumption: `JobQueueAssumption` alone. Two of the three properties relate memory and disk, which a job's two
writes, a refused write, a death and a boot pull apart; the inductive invariant says how far:

    QueueInv == QueueTypeOK /\ OldestFirst /\ PendingRowsAreTickets
                /\ TicketsWait /\ CancelledIsSettled /\ DeadIsEmpty

`TicketsWait` says that a number in the line is that of a job still queued; `CancelledIsSettled` that
no cancelled job has a pending row, which is what keeps it out of the line a boot restores; `DeadIsEmpty` that a dead process holds no ticket. The lemma
`RemoveAtShifts` says what is at each place of a line from which one was taken. Theorems: `SpecKeepsQueueInv`, `TicketsWaitInOrder` (`OldestFirst`),
`RestartsBringBackTheLine` (`PendingRowsAreTickets`), `CancelledStaysCancelled` (`CancelledNeverRuns`, an action property).

**FirewallProofs** (783 obligations), of what is written and of the one who writes by himself.

The write path. Assumption: `WriteAssumption`, that is, a finite non-empty set of pipes, a non-empty set of
values and any bounds. The inductive invariant is

    WriteInv == TypeOK /\ OkIsOnTheShaper /\ ReturnedIsStored /\ AllOrNothing
                /\ SavedAsAimed /\ InStep

The three properties speak of the end of a write. `SavedAsAimed` carries them through it: each pipe saved, or outside
the batch, is stored as aimed at. `InStep` says how the shaper relates to the stored configuration while nothing is lost:
equal, or equal to what `apply_many` read until the reload. Without it `AllOrNothing` does not survive `PutBack`. Theorems: `WriteInvariant`, `WriteTypes`,
`AnsweredIsOnTheShaper`, `ReturnedIsStoredAlways`, `RejectionLeavesNoMix`.

The crown follower. Assumption: `FollowerAssumption`, for any profiles, fields and bounds, with the tick and any request in a check at once.

    FollowerInv == FollowerTypeOK /\ InsideHolds /\ SawTheLedger

`SawTheLedger` says that what a check read of the churn ledger is still the ledger when it records; it follows from `InsideHolds`, that is, from `_check_lock` being held over all
of `read`, `plan`, `hold` and `record`. Types are not free here: a crown is chosen among the best of the standings, and that there is a best is `LeadsIsBest`, by well-founded induction. Theorems: `SpecKeepsFollowerInv`;
`LedgerStaysAHistory` (`LedgerIsAHistory`, an action property: a change is recorded against the crown that was recorded last);
`AppliedIsOnTheFirewall` (`AppliedIsLive`, an action property: an apply is reported only with every field of its profile on the firewall, though the plan was made against what the firewall was on before the pipeline was free).

**SchedulerProofs** (311 obligations). Assumptions: `SchedulerAssumption`, `~LateAbort` and `~SlipsIn`. The inductive invariant is

    SchedulerInv == TypeOK /\ OwnersAct /\ LeadsHome /\ CurrentIsOn
                    /\ RowCoversShaping /\ NightWasSeen

`HomeWithoutExperiment` is silent while an experiment runs; `LeadsHome` names the way back in every state: the experiment's
baseline, else what the session on top found, else the firewall itself, unless a write on the way failed. `CurrentIsOn` is the same for the value the next trial
measures. `RowCoversShaping` says that the row of an unfinished baseline test names every pipe that is off, which is what a boot has to go by.
Theorems: `SchedulerTypeCorrect`, `ParameterComesHome`, `TrialsMeasureTheirValue`, `PipesAreShapedAgain`, `NoNightIsMissed`.

**RunsProofs** (539 obligations), in layers, since the assumptions differ.

    OwnerInv == TypeOK /\ OwnerWorks /\ RowFollowsThread

* `RunsTypeCorrect`, `OnlyOneRunMeasures`, under `RunsAssumption` and `NamesAssumption` alone. `OwnerWorks` ties each working thread to the pipeline, `RowFollowsThread` ties
  what a row may say to where its thread is: the watchdog and a cancel write rows of threads they know nothing of.
* `CancelledIsNotScored` (with `~LateStops`), by `StopReaches`: a run whose cancel was answered has its stop request set until it has left its loop.
* `FailedIsFinal` (with `~LateStops` and `Iterations > 1`), by `MeasuredIsRunning`: a run with all its iterations has a row that nobody failed. One iteration is
  not enough: the row is read between iterations only (`runner.py:1409`), so it is never read in a run of one.
* `RunsMeasureOneSetting` (with `MaxMoves <= 1`), by `MovedIsSeen`: a run during which the settings changed holds a fingerprint other than the live one. Section 6 says why one change.

**ProfileTestsProofs** (249 obligations).

    DriverInv == TypeOK /\ WorkerDrives /\ RunningIsDriven

* `TestsRunUnderThePipeline`, under `BoundsAssumption` and `NoneAssumption` alone: a RUNNING row belongs to the test the one worker drives, and that worker has the pipeline.
* `SettledIsFinal` (with `~SlowCancel`), by `RowInStep`: the row of the driven test is where its worker is, and a cancel between its look and its write is at another test.

**StandingsProofs** (2827 obligations), of the stopping rules and of what is served in front of the standings.

Matches end. Assumption: `BeltAssumption`. `EveryMatchEnds`: no stopping rule answers "open" at the cap, whatever the margins and whatever
`wilcoxon_p` makes of them. The invariant says that a match in progress has fewer rounds than the cap; the lemmas go through `SprtState.decision`, the wins-only rule, the
paired rule and the tie-break, each of which ends at the cap by a fallback of its own. The sums of ranks are not expanded.

Sides are alike. Same assumption. `SidesAreTreatedAlike` (`SidesAreAlike`): the rounds of the other side are the margins negated (`Mirror`), and each rule is followed through that. Counts of wins
exchange (`WinsMirror`), the k-th smallest becomes the k-th largest (`SmallestMirrors`, from `SmallestIsThere` and `SmallestIsOne`: it exists and is the only one), so the median changes its sign and the
floor does not see it. The signed-rank test is asked the same question of the same row, since direction and margins turn around together. A streak keeps its length. The two walks of the sign
test cannot both be up (`OneSideIsUp`), because a win steps up by less than a loss steps down. The exception in the property, `LevelIsTheBelts`, came out of this proof: without its second
disjunct `DecideMirrors` is false, which five rounds, the bound of the run, are too few to show (section 6).

The title. Same assumption. `TitlesAreWonInTheRing` (`BeltIsLostInTheRing`, an action property), from

    BeltInv == TypeOK /\ (match # NoMatch => Len(match.margins) <= rounds /\ match.ref # match.cha)
               /\ \A i \in DOMAIN ledger : ledger[i].incumbent # ledger[i].challenger

It relates a replay to the ledger it replays, so it takes an induction over data. The theorem of the library that would do it has an operator for a parameter; here `EveryNatural` states induction
over a *set* of naturals, which the provers instantiate, and each claim becomes the set of the lengths it holds for. In this way: a replay of any length exists (`ReplayExists`), so `Belts` satisfies
its own equation (`BeltsAreReplayed`); its counters count the matches and the rounds of every pair (`CountersCount`); and a record that is appended leaves the earlier belts alone (`EarlierBeltsStay`). What
is left is one step of `After`. That no record has one profile on both sides is needed: the counter of such a pair would count both sides' rounds.

The caches, in two layers, since the assumptions differ. `CacheAssumption` holds of both.

    CacheInv == CacheTypeOK /\ AnswersHeld /\ WaitersFollow /\ NobodyWaitsForNothing
                /\ RollupsWereTrue /\ ReadersHaveSeen
    FieldInv == StampsAreOld /\ PassesAreCurrent /\ AskersHaveSeen

* `SpecKeepsCacheInv`, `NobodyIsLeftWaiting` (`NobodyWaitsForNothing`) and `ServedRollupsAreTrue` (`RollupIsCurrent`), whatever the timing. `RollupsWereTrue` says that a rollup, stored or about to be, is the rollup of some set of rows and that these are behind the
  rows of now: no run of theirs is gone, no score of theirs is newer; `ReadersHaveSeen` that a reader may be served only what was true during its call. The key lemma is `StampTellsRows`: a stamp is a count, the newest run and the newest scoring, and two databases of one
  history with the same stamp have the same rows. It needs that runs stay and that a score is only replaced by a newer one, and that the newest is the greatest
  (`NewestIsMax`, by well-founded induction).
* `SpecKeepsFieldInv` and `ServedFieldsAreTrue` (`FieldIsCurrent`), with `~SlowPass`. `PassesAreCurrent` says that a pass, in progress or memoised, whose stamp is the present one has the present
  field, unless rows are being rewritten in place and the drop of the memo is yet to come. Without the assumption a pass outlasts the drop (section 6).

**BaselinesProofs** (600 obligations). Assumptions: `EnginesAssumption` (any subset of the five engines), `SwitchesAssumption`, `~Untimely`, and that the duel is
not among the `Failing` engines. The last one is the subject of `baseline_duel_fails`: a duel that raises restores nothing. The inductive invariant is

    BaselinesInv == TypeOK /\ OwnerHolds /\ EnginesDiffer /\ RowsFollowSessions
                    /\ OneAtATime /\ LateIsOver /\ SweepIsAlone /\ WayHome
                    /\ MeasuresWhatItApplied

The three properties say where the firewall is when nobody works, where a restart would lead, and what is measured. None of them survives a step by itself. `WayHome` names the
way in every state: while a ladder is open it is the ladder's baseline, whatever the sessions nested in it wrote and recorded; otherwise every baseline on
disk is `home`, and the firewall is there too unless a session with a baseline has gone astray. For that to hold through a session's end, sessions may only nest in a
ladder that is not over (`OneAtATime`), a restore that comes after the lock is released must be over before anything is applied (`LateIsOver`), and the sweep, whose baseline is
read before its turn, must be alone in between (`SweepIsAlone`). `RowsFollowSessions` ties the rows to the threads, and during a boot says which rows are closed already, so that a
crash between two reconciles (which run in a fixed order, ladders last) is a step like any other. Theorems: `SpecKeepsBaselinesInv`, `FirewallIsHomeWhenIdle`,
`EveryCrashIsRepairable`, `SessionsMeasureWhatTheyApplied`.

**DuelRingProofs** (3462 obligations), in three layers, since the assumptions differ. `RingAssumption` holds of all three.

    RingInv == RingTypes /\ RingFollowsPc /\ CopiesAreComparable
    OnceInv == RingInv /\ ReadingIsLedger /\ EachMatchOnce
    PaidInv == OnceInv /\ PaidIsKept

* `EveryRoundIsComparable`, with no further assumption: deaths, publishes and re-grades fall anywhere. `RingFollowsPc` says what the memory of the ring
  holds at each point of a cycle, in particular which legs are pending and against which lead they will be read.
* `EveryMatchIsRecordedOnce` (with `~Torn` and `~SlowRegrade`). A match is in five places: an older row, the campaign, the session's row, memory, the ledger. `EachMatchOnce`
  says which of them may have it at once: no two shelves on disk (`ShelvesApart`), no two copies in memory (`MemoryApart`), memory and a foreign shelf
  never (`OnOwnShelf`), and the ledger and a shelf only between the two transactions of a close (`OverOnTheLedger`).
* `NoPaidRoundIsLost` (with `~BaseMoves` too). `PaidIsKept` relates each copy to the most rounds that ever reached the disk: a shelf has no more, memory no less, and some place
  has exactly as many, or memory has them until the session writes.

`GateInv`, `QueueInv`, `CacheInv`, `FieldInv`, `FollowerInv`, `BeltInv`, `LockAccounted`, `LeaseTakenOnlyByRevoking`, `WriteInv`, `OwnerInv`, `StopReaches`, `MovedIsSeen`, `DriverInv`, `RowInStep`, `SchedulerInv`, `BaselinesInv`, `RingInv`, `OnceInv`, `PaidInv` and the two `TypeOK` of the gate and
the write path are proved and most were checked by TLC while the proofs were written; the cfgs leave them out, since the theorems say more.

**Only model-checked**: the liveness properties `WedgedHolderIsDisowned`, `LineKeepsMoving`, `TicketsMoveOn`, `ComesHome`, `TestsSettle`, `RunsSettle` and `FollowsTheCrown`. Liveness under fairness
and `ENABLED` are out of TLAPS's reach in the version used. Every safety property that a passing run checks is stated by a theorem. No module here declares a RECURSIVE operator.

A union of two unions is written with parentheses where a proof uses it, `(UNION S) \cup T`: TLC and the prover read it differently without them.

## 6 What the code does not promise

The run `baseline_duel_fails` shows a statement of the repository's own text violated by what the code does (`PROJECT.json` quotes
the lines): a duel that raises after its first leg restores nothing and closes its row (`duel.py:4579`, `:4608`), so `HomeWhenIdle` fails.

The others are kept out of the passing runs by a named constant or by the wording of a property. To see one, change what is named here and run
TLC: it finds a violation.

* **Only the duel checks its lease** (`profile_test.py:252` and the other `hold` sites drop it; `coordinator.py:38-41`). Any other session, evicted and
  awake again, writes the firewall over the next holder. Add `EvictedNeverWrites` to CoordinatorRing.cfg.
* **Late restore** (`challenger.py:463`, `refresh.py:536`). A race or refresh that raised restores after releasing the pipeline, under the next
  session's measurement. `Untimely = TRUE` in BaselinesLadder: `MeasuresWhatItApplied`.
* **Late stop** (`runner.py:1409`). A run cancelled during its last iteration, or while it is scored, ends COMPLETE. `LateStops = TRUE` in Runs: `CancelledNotScored`.
* **Verified on the stored configuration** (`session_runtime.py:220`). A write whose answer was lost is "verified" while the shaper runs the old
  one. Add `VerifiedMeansTook` to FirewallWrite.cfg.
* **Abort in the middle of a trial** (`experiment.py:241`, `:166`). `abort_active` takes neither the pipeline nor a look at the tick: it restores the baseline and closes
  the row while `_run_trial_step` measures; then the tick applies the next candidate and nothing is left to put the baseline back, though
  `routes_experiments.py:81` says "Stop the running experiment immediately and restore the baseline config." `LateAbort = TRUE` in Scheduler: `HomeWithoutExperiment`.
* **A session between the tick's look and its write** (`scheduler.py:342`). The experiment's end writes without the pipeline; a session that took it meanwhile
  restores the trial's value afterwards. `SlipsIn = TRUE` in Scheduler: `HomeWithoutExperiment`.
* **Two transactions of a close** (`duel.py:3839`). A death between the record of a match and the write of the open ones leaves both; the next session
  adjudicates it again. `Torn = TRUE` in DuelRing: `RecordedOnce`.
* **A campaign's base that cannot be reached** (`levers.py:828`, `duel.py:3948`). The error comes after the campaign's open matches were taken off its row, and they
  are lost. `BaseMoves = TRUE` in DuelRing: `PaidRoundsAreKept`.
* **A re-grade of the ledger under a running ladder** (`duel.py:3076`). It writes back columns it read before. `SlowRegrade = TRUE` in DuelRing: `PaidRoundsAreKept`.
* **A belt that moves by itself** (`duel.py:2391`). The replay reads 50 rows, so a title bout leaves it when a session starts, and the belt may go to somebody else,
  or to nobody, without a bout; `duel.py:1342` says "Bouts the holder is not in cannot move it." Add `BeltIsNeverForgotten` to the properties of Belt.cfg.
* **A pass that outlasts a drop** (`api/routes_settings.py:2275`). It stores what it read before a re-key or re-grade under a stamp that still matches.
  `SlowPass = TRUE` in FieldCache: `FieldIsCurrent`. `refresh.py:228-239` has the same shape.
* **The backfill of settings drops no cache** (`api/routes_settings.py:708`, against `:746-750`). Add `NeverStale` to the properties of FieldCache.cfg.
* **Slow seam** (`coordinator.py:316`). If choosing an Explore bet outlasts the stale bar, a yielding duel clears whichever
  lease is current and frees a lock that is not its own. `SlowSeam = TRUE` in CoordinatorRing: `GateInv` is violated, and its part `OneOwner`.
* **Wedged monitoring run** (`scheduler.py:324`, `:391`). The watchdog's own thread executes it: without a waiter in
  `hold` nobody evicts it. Drop the last disjunct of `WedgedHolderIsDisowned`.
* **Job queue** (`job_queue.py:559`, `:568`; `sweep.py:250`). The dispatcher starts an engine outside the lock under which `submit` starts one, and a sweep
  sets its flag only after reading the firewall. `OneSessionPerKind` (two sweeps at once), `NeverRefused` (a job ends because one
  of its kind runs) and `StartedNeverResurrected` (a crash between a start and its settling) are stated at the end of `JobQueue` and are violated on JobQueue.cfg.
* **Early snapshot** (`sweep.py:259`). A session that starts between a sweep's start and its turn makes the sweep's baseline
  the other's profile. `Untimely = TRUE` in BaselinesLadder: `RecoveryLeadsHome` is violated, and `HomeWhenIdle` after it.
* **Promotion undone by a ladder** (`duel.py:4579`). A race inside a ladder's step-aside promotes its winner; the ladder then
  restores the setting it found hours before. `Settle` of `Baselines` leaves `home` alone while a ladder is open, so the passing run does not count this as a violation; drop `~LadderOpen` to see it: `RecoveryLeadsHome` is violated.
* **Restore unanswered, reported done** (`profile_test.py:397`). The restore is best effort and the message says "baseline restored" whatever it did. The properties of `Baselines` carry `missed` for it.
* **Cancel of a test that is being claimed** (`profile_test.py:108-115`). The row is written CANCELLED while the worker
  runs it. `SlowCancel = TRUE` in ProfileTests: `SettledStaysSettled` is violated.
* **Settings changed there and back** (`runner.py:1395`). The fingerprint is compared at the start and at the end only. `MaxMoves = 2` in Runs:
  `MeasuredOneSetting` is violated.
* **Queued runs time out** (`runner.py:1080`). The watchdog counts from the creation of a row, so a run that waits behind a long session, or that a restart
  kept, is failed before it starts. `Watchdog` does so in the passing run; no property there promises otherwise.

Seen while modelling, below what a property states:

* Open matches are looked for in 25 rows only; the `prospect` flag and the dropped rounds of a match are not in its snapshot; a failed closing leg still opens the next
  cycle as its lead; the re-grade of the ledger does not reach a campaign's open matches, and keeps verdicts while it changes rounds, which the belt counts.
* A margin of zero is the belt's (`duel.py:2977`), so a match of nothing but zeros is a narrow win of the incumbent and no draw (`duel.py:3252`). A streak names the side that
  won the last rounds also when the median is for the other: the floor is asked of its absolute value (`duel.py:502`).
* A median of exactly zero is tested for the belt alone (`duel.py:512`: `direction = 1 if median > 0 else -1`), and only a floor above zero keeps it from the test. With
  no floor, which is the default, a skewed match without a zero margin ends for the incumbent by the signed-rank test, and the same match seen from the other side stays open. It takes many rounds or a
  mild correction: the smallest we found is 30 rounds with `min_pairs` and `max_pairs` both 30 and alpha 0.05, and 40 with 10 and 40. `LevelIsTheBelts` of `Belt` names the case.
* `duel.py:4636` calls `crown_follower.poke("duel verdict")`, and `poke` takes no argument: the TypeError is caught and the event never delivered. A manual
  sync swallows a poke while a re-grade runs. Only the backstop heals either, and a re-grade that failed.
* The quick filter is inexact when following is not armed (`crown_follower.py:284`): the ledger is then behind until the backstop.
* `experiment._apply` writes the parameter of the configuration in force, not of the row (`experiment.py:63`), and its result is not looked at (`:166`).
* A restart within the catch-up hour may fire a nightly schedule again; the hour is cut at midnight (`scheduler.py:143`). `_leader` is cached and `start_scheduler` called once, so
  a second process is not promoted when the first dies (`scheduler.py:74-76`).
* A baseline test's row says the shaper was restored whatever happened (`baseline_test.py:233`); a final write of a test's row that fails leaves it RUNNING (`profile_test.py:404`); a provider that
  cannot be built leaves it PENDING for the worker to claim again (`profile_test.py:231`).

## 7 What is not modelled

* Evictions appear in `Coordinator` only. The other modules take the pipeline from a gate that nobody is evicted from.
* What an iteration measures, how a run is scored, which profile is tested next: data no property here tells apart.
* A failing final write of a session's row (`Baselines` takes it to commit), and SQLite itself, whose transactions are taken as atomic.
* Messages, progress, notifications, logging.
* A second process. `restart` here is the death of the only one; the leader flock that keeps a second scheduler quiet is the kernel's.
* In `DuelRing`: the ranking that names defender and challengers, the Explore share, the seeding tiers. In `Belt`: the Bradley-Terry ratings, the fallback of `belt_holder`,
  the choice of who meets whom (any pair), streaks derived from the level. In `FieldCache`: the size of the memo and its other keys. In `CrownFollower`: the policies `fused`, `math`
  and `lcp_first`. In `Scheduler`: dry runs, dwell beyond a deferring tick, time zones, the nightly duel, which has the window and the guard of the
  baseline test.
* The components of section 1 with no module, listed with their reasons in `PROJECT.json`: link watch and write probe, explore and self-update are planned below.
  Ranking, statistics, scoring and interpretation are floating-point pipelines over stored data; instruments, plugins, probes, routes and
  the frontend are I/O or thin callers. Neither is planned: most of the repository's lines are of these two kinds.

## 8 The plan

Order: what touches the firewall first, since every session and every restart meets there; then what decides what a session counts.

Done: `Pipeline`, `Coordinator`, `JobQueue`, `Baselines`, `ProfileTests`, `Runs`, `FirewallWrite`, `DuelRing`, `Belt`, `FieldCache`, `CrownFollower`, `Scheduler`, each with
proofs of the safety properties its run checks. Liveness stays with TLC.

Modules that remain: `LinkWatch` with the write probe (a gap is filed under the write it overlaps), `ExploreShare` (the share is never exceeded), updates, and
the nightly schedule in minutes, as small modules that share runs with the ones they compose with.
