---------------------------- MODULE Coordinator ----------------------------
(***************************************************************************)
(* backend/pathbrain/coordinator.py: the one gate every session that       *)
(* writes the firewall and benchmarks must hold.  The gate is a plain      *)
(* threading.Lock, which any thread may release, next to a Lease that says *)
(* whose turn it is.  A waiter, or the scheduler's watchdog, evicts a      *)
(* holder that stopped showing progress; a long session may step aside for *)
(* one waiter and resume (the "zipper merge").                             *)
(*                                                                         *)
(* Grain of atomicity: one action per statement that touches the lock or   *)
(* the lease.  The waiter count is the number of threads inside the wait   *)
(* loop, so it is an expression here and not a variable.  The duel asks     *)
(* Lease.check and writes the firewall some network calls later; the two   *)
(* are steps of their own, and an eviction may fall between them.          *)
(*                                                                         *)
(* Time: quiet counts ticks since the current lease last beat, up to the   *)
(* stale bar.  A tick is minutes, so none falls between two adjacent       *)
(* statements of the gate (see Tick); a session's own work, a wedged call, *)
(* a switch under way and, with SlowSeam, the choice of an Explore bet do  *)
(* take that long.                                                         *)
(***************************************************************************)
EXTENDS Integers, FiniteSets

CONSTANTS
  Sessions,    \* sessions, each on a thread of its own
  NoSession,   \* no lease
  Ring,        \* the sessions that check their lease and yield (the duel)
  Scheduler,   \* the session the scheduler thread itself runs, or NoSession
  Watchdog,    \* the scheduler thread in its role of evictor
  StaleAfter,  \* STALE_HOLDER_S, in ticks
  SlowSeam     \* TRUE: choosing an Explore bet may outlast the stale bar

ASSUME SessionsAssumption ==
  /\ NoSession \notin Sessions
  /\ Watchdog \notin Sessions
  /\ Ring \subseteq Sessions
  /\ Scheduler \in Sessions \cup {NoSession}
  /\ Scheduler \notin Ring

ASSUME TimeAssumption == StaleAfter \in Nat \ {0} /\ SlowSeam \in BOOLEAN

VARIABLES
  lock,      \* _lock.locked()
  lease,     \* _lease: the session whose Lease is current
  revoked,   \* the sessions whose Lease.revoked is set
  quiet,     \* ticks since the current lease last beat
  pc,        \* where each session's thread is
  seen,      \* the lease a yielding thread read, and will put back
  evicting,  \* actors between revoking a lease and releasing its lock
  begun,     \* history: evicted sessions with a switch already begun
  late       \* history: firewall writes of each session since its eviction

history == <<begun, late>>
vars == <<lock, lease, revoked, quiet, pc, seen, evicting, begun, late>>

Actors == Sessions \cup {Watchdog}

\* "switching" and "closing" are between Lease.check and the firewall write of a
\* leg, and of the restore at the end.
Switching == {"switching", "closing"}

\* The points at which the session's lease is the current one, unless revoked.
Holding == {"in", "wedged", "seam", "yRead", "yClear", "leave"} \cup Switching

\* "got" and "yGot" are the statements between taking the lock and recording the
\* lease; "leave" and "relLock" are _release; the y* ones yield_if_waiting.
Points == {"out", "waiting", "got", "yFree", "yGrace", "yWaiting", "yGot",
           "relLock"} \cup Holding

\* LateCap writes after an eviction are as many as a property tells apart.
LateCap == 2

\* waiting(): the threads parked in _acquire_or_evict.
Waiters == {s \in Sessions : pc[s] \in {"waiting", "yWaiting"}}

TypeOK ==
  /\ lock \in BOOLEAN
  /\ lease \in Sessions \cup {NoSession}
  /\ revoked \subseteq Sessions
  /\ quiet \in 0..StaleAfter
  /\ pc \in [Sessions -> Points]
  /\ seen \in [Sessions -> Sessions \cup {NoSession}]
  /\ evicting \subseteq Actors
  /\ begun \subseteq Sessions
  /\ late \in [Sessions -> 0..LateCap]

Init ==
  /\ lock = FALSE
  /\ lease = NoSession
  /\ revoked = {}
  /\ quiet = 0
  /\ pc = [s \in Sessions |-> "out"]
  /\ seen = [s \in Sessions |-> NoSession]
  /\ evicting = {}
  /\ begun = {}
  /\ late = [s \in Sessions |-> 0]

Goto(s, p) == pc' = [pc EXCEPT ![s] = p]

-----------------------------------------------------------------------------
(* Taking the pipeline. *)

\* hold(): join the line.
Hold(s) ==
  /\ pc[s] = "out" /\ s # Scheduler
  /\ Goto(s, "waiting")
  /\ UNCHANGED <<lock, lease, revoked, quiet, seen, evicting, history>>

\* try_hold(): the scheduler thread takes a free lock and never waits for one.
TryHold(s) ==
  /\ pc[s] = "out" /\ s = Scheduler /\ Watchdog \notin evicting
  /\ ~lock /\ lock' = TRUE
  /\ Goto(s, "got")
  /\ UNCHANGED <<lease, revoked, quiet, seen, evicting, history>>

AcquireHeld(s) ==
  /\ s \in Waiters \ evicting /\ lock' = TRUE
  /\ Goto(s, IF pc[s] = "waiting" THEN "got" ELSE "yGot")
  /\ UNCHANGED <<lease, revoked, quiet, seen, evicting, history>>

\* One timed acquire of the wait loop succeeds.
Acquire(s) ==
  /\ s \in Waiters \ evicting
  /\ ~lock /\ lock' = TRUE
  /\ Goto(s, IF pc[s] = "waiting" THEN "got" ELSE "yGot")
  /\ UNCHANGED <<lease, revoked, quiet, seen, evicting, history>>

\* The abort predicate of a queued duel came true: it leaves the line.
AbortWait(s) ==
  /\ s \in Ring /\ pc[s] = "waiting" /\ s \notin evicting
  /\ Goto(s, "out")
  /\ UNCHANGED <<lock, lease, revoked, quiet, seen, evicting, history>>

\* _new_lease(): a fresh lease, alive and just beaten.
NewLease(s) ==
  /\ pc[s] = "got" /\ Goto(s, "in")
  /\ lease' = s /\ revoked' = revoked \ {s} /\ quiet' = 0
  /\ begun' = begun \ {s} /\ late' = [late EXCEPT ![s] = 0]
  /\ UNCHANGED <<lock, seen, evicting>>

-----------------------------------------------------------------------------
(* Eviction. *)

\* Who asks: a thread whose timed acquire expired, or the watchdog, which is
\* the scheduler thread and cannot ask while that thread runs a session.
MayEvict(a) ==
  \/ a \in Waiters
  \/ a = Watchdog /\ (Scheduler \in Sessions => pc[Scheduler] = "out")

EvictLeavesLease(a) ==
  /\ MayEvict(a) /\ a \notin evicting
  /\ lease # NoSession /\ lease \notin revoked /\ quiet >= StaleAfter
  /\ revoked' = revoked \cup {lease}
  /\ evicting' = evicting \cup {a}
  /\ UNCHANGED <<lock, lease, quiet, pc, seen, history>>

EvictPastTheBar(a) ==
  /\ MayEvict(a) /\ a \notin evicting
  /\ lease # NoSession /\ lease \notin revoked /\ quiet > StaleAfter
  /\ revoked' = revoked \cup {lease} /\ lease' = NoSession
  /\ evicting' = evicting \cup {a}
  /\ UNCHANGED <<lock, quiet, pc, seen, history>>

\* evict_if_stalled(), the part under _state_lock.
Evict(a) ==
  /\ MayEvict(a) /\ a \notin evicting
  /\ lease # NoSession /\ lease \notin revoked /\ quiet >= StaleAfter
  /\ revoked' = revoked \cup {lease} /\ lease' = NoSession
  /\ evicting' = evicting \cup {a}
  /\ begun' = IF pc[lease] \in Switching THEN begun \cup {lease} ELSE begun
  /\ UNCHANGED <<lock, quiet, pc, seen, late>>

\* ... and the release after it (a RuntimeError on a free lock is swallowed).
EvictRelease(a) ==
  /\ a \in evicting /\ evicting' = evicting \ {a}
  /\ lock' = FALSE
  /\ UNCHANGED <<lease, revoked, quiet, pc, seen, history>>

-----------------------------------------------------------------------------
(* A session at work. *)

\* beat(), called by the runner around every probe, stamps whichever lease is
\* current: the caller's own or, once the caller was evicted, a stranger's.
Probe(s) ==
  /\ pc[s] = "in" /\ lease # NoSession /\ quiet' = 0
  /\ UNCHANGED <<lock, lease, revoked, pc, seen, evicting, history>>

\* s writes the firewall; the write counts when s has been evicted.
Writes(s) ==
  late' = IF s \in revoked /\ late[s] < LateCap
          THEN [late EXCEPT ![s] = @ + 1] ELSE late

LegUnchecked(s) ==
  /\ s \in Ring /\ pc[s] = "in"
  /\ Goto(s, "switching")
  /\ UNCHANGED <<lock, lease, revoked, quiet, seen, evicting, history>>

\* The duel's leg asks Lease.check, and an evicted duel stops here; the firewall
\* is then read, with retries, before it is written.
Leg(s) ==
  /\ s \in Ring /\ pc[s] = "in"
  /\ Goto(s, IF s \in revoked THEN "leave" ELSE "switching")
  /\ UNCHANGED <<lock, lease, revoked, quiet, seen, evicting, history>>

\* A switch of profile: the duel's after its check, whenever the calls before it
\* return, any other engine's without one.
Write(s) ==
  /\ pc[s] = IF s \in Ring THEN "switching" ELSE "in"
  /\ Goto(s, "in") /\ Writes(s)
  /\ UNCHANGED <<lock, lease, revoked, quiet, seen, evicting, begun>>

\* An apply that raises before it wrote anything: the leg is recorded as failed.
LegFails(s) ==
  /\ pc[s] = "switching" /\ Goto(s, "in")
  /\ UNCHANGED <<lock, lease, revoked, quiet, seen, evicting, history>>

\* A call that does not return, and the thread waking up long after.
Wedge(s) ==
  /\ pc[s] = "in" /\ Goto(s, "wedged")
  /\ UNCHANGED <<lock, lease, revoked, quiet, seen, evicting, history>>

Wake(s) ==
  /\ pc[s] = "wedged" /\ Goto(s, "in")
  /\ UNCHANGED <<lock, lease, revoked, quiet, seen, evicting, history>>

\* The end of the duel asks Lease.check once more: an evicted duel leaves without
\* a restore, another replays the ledger and reads the firewall first.
Close(s) ==
  /\ s \in Ring /\ pc[s] = "in"
  /\ Goto(s, IF s \in revoked THEN "leave" ELSE "closing")
  /\ UNCHANGED <<lock, lease, revoked, quiet, seen, evicting, history>>

\* The end of a session: it restores the baseline and leaves.
Finish(s) ==
  /\ pc[s] = IF s \in Ring THEN "closing" ELSE "in"
  /\ Goto(s, "leave") /\ Writes(s)
  /\ UNCHANGED <<lock, lease, revoked, quiet, seen, evicting, begun>>

-----------------------------------------------------------------------------
(* The zipper merge. *)

\* The ring's seam: Lease.check (an evicted ring stops here), then beat.
Seam(s) ==
  /\ s \in Ring /\ pc[s] = "in"
  /\ IF s \in revoked
     THEN Goto(s, "leave") /\ UNCHANGED quiet
     ELSE Goto(s, "seam") /\ quiet' = 0
  /\ UNCHANGED <<lock, lease, revoked, seen, evicting, history>>

\* An Explore bet has been chosen; the ring beats its own lease again.
BetChosen(s) ==
  /\ pc[s] = "seam" /\ Goto(s, "yRead")
  /\ quiet' = IF lease = s THEN 0 ELSE quiet
  /\ UNCHANGED <<lock, lease, revoked, seen, evicting, history>>

\* yield_if_waiting() reads current_lease(), which need not be the caller's.
YieldRead(s) ==
  /\ pc[s] = "yRead"
  /\ IF lease = NoSession \/ lease \in revoked \/ Waiters = {}
     THEN Goto(s, "in") /\ UNCHANGED seen
     ELSE Goto(s, "yClear") /\ seen' = [seen EXCEPT ![s] = lease]
  /\ UNCHANGED <<lock, lease, revoked, quiet, evicting, history>>

YieldClear(s) ==
  /\ pc[s] = "yClear" /\ Goto(s, "yFree") /\ lease' = NoSession
  /\ UNCHANGED <<lock, revoked, quiet, seen, evicting, history>>

\* Releasing a lock that is already free raises, which ends the session.
YieldFree(s) ==
  /\ pc[s] = "yFree" /\ lock' = FALSE
  /\ Goto(s, IF lock THEN "yGrace" ELSE "leave")
  /\ UNCHANGED <<lease, revoked, quiet, seen, evicting, history>>

\* Someone took the lock, or the handoff grace ran out: queue for it again.
YieldQueue(s) ==
  /\ pc[s] = "yGrace" /\ Goto(s, "yWaiting")
  /\ UNCHANGED <<lock, lease, revoked, quiet, seen, evicting, history>>

\* The same lease object resumes, just beaten.
YieldResume(s) ==
  /\ pc[s] = "yGot" /\ Goto(s, "in")
  /\ lease' = seen[s] /\ quiet' = 0
  /\ seen' = [seen EXCEPT ![s] = NoSession]
  /\ UNCHANGED <<lock, revoked, evicting, history>>

-----------------------------------------------------------------------------
(* Leaving. *)

ReleaseBlindly(s) ==
  /\ pc[s] = "leave"
  /\ lease' = NoSession /\ Goto(s, "relLock")
  /\ UNCHANGED <<lock, revoked, quiet, seen, evicting, history>>

\* _release(), under _state_lock: only the current, live lease gives the lock
\* back; a session that was evicted just goes.
Release(s) ==
  /\ pc[s] = "leave"
  /\ IF lease = s /\ s \notin revoked
     THEN lease' = NoSession /\ Goto(s, "relLock")
     ELSE UNCHANGED lease /\ Goto(s, "out")
  /\ UNCHANGED <<lock, revoked, quiet, seen, evicting, history>>

ReleaseLock(s) ==
  /\ pc[s] = "relLock" /\ lock' = FALSE /\ Goto(s, "out")
  /\ UNCHANGED <<lease, revoked, quiet, seen, evicting, history>>

-----------------------------------------------------------------------------

\* Points a thread can rest at for minutes.
Resting == {"out", "waiting", "in", "wedged", "yGrace", "yWaiting"}
           \cup Switching \cup (IF SlowSeam THEN {"seam"} ELSE {})

Tick ==
  /\ evicting = {} /\ \A s \in Sessions : pc[s] \in Resting
  /\ quiet < StaleAfter /\ quiet' = quiet + 1
  /\ UNCHANGED <<lock, lease, revoked, pc, seen, evicting, history>>

\* What the thread of s does next without being asked.
Proceed(s) ==
  \/ NewLease(s) \/ BetChosen(s) \/ YieldRead(s) \/ YieldClear(s)
  \/ YieldFree(s) \/ YieldQueue(s) \/ YieldResume(s)
  \/ Release(s) \/ ReleaseLock(s)

Next ==
  \/ \E s \in Sessions :
        \/ Hold(s) \/ TryHold(s) \/ Acquire(s) \/ AbortWait(s) \/ Proceed(s)
        \/ Probe(s) \/ Leg(s) \/ Write(s) \/ LegFails(s) \/ Wedge(s) \/ Wake(s)
        \/ Seam(s) \/ Close(s) \/ Finish(s)
  \/ \E a \in Actors : Evict(a) \/ EvictRelease(a)
  \/ Tick

Spec == Init /\ [][Next]_vars

\* Threads run; a lock that stays free is taken by some thread parked on it
\* (threading.Lock promises no more than that); time passes; waiters and the
\* watchdog poll; a session that is not wedged reaches its end.  Nothing makes
\* a user press a button or a wedged call return, and the calls of a duel that is
\* switching or restoring are such calls.
Fairness ==
  /\ \A s \in Sessions : WF_vars(Proceed(s)) /\ SF_vars(Close(s))
  /\ \A s \in Sessions \ Ring : SF_vars(Finish(s))
  /\ SF_vars(\E s \in Sessions : Acquire(s))
  /\ \A a \in Actors : WF_vars(EvictRelease(a))
  /\ WF_vars(\E a \in Actors : Evict(a))
  /\ SF_vars(Tick)

FairSpec == Spec /\ Fairness

-----------------------------------------------------------------------------
(* Properties. *)

\* s is past its acquire, has not given the lock back, and was not evicted.
Claims(s) ==
  \/ pc[s] \in {"got", "yFree", "yGot", "relLock"}
  \/ pc[s] \in Holding /\ s \notin revoked

\* Two sessions are never both entitled to the pipeline, and none is while an
\* evictor has still to free the lock it took away (coordinator.py: "one
\* session at a time", eviction included).
OneOwner ==
  /\ \A s, t \in Sessions : Claims(s) /\ Claims(t) => s = t
  /\ \A a, b \in evicting : a = b
  /\ evicting # {} => \A s \in Sessions : ~Claims(s)

\* The lock is held exactly while somebody will release it: it is never
\* stranded behind an evicted or departed session, and never free under a live
\* one.
LockAccounted ==
  lock <=> (evicting # {} \/ \E s \in Sessions : Claims(s))

\* The current lease is that of the one session that holds it unrevoked.
LeaseIsClaim ==
  \A s \in Sessions :
     lease = s <=> pc[s] \in Holding /\ s \notin revoked

\* A session that steps aside will put back its own lease, and nobody revokes it
\* meanwhile.
YieldersKeepTheirLease ==
  \A s \in Sessions :
     /\ pc[s] \in {"yClear", "yFree", "yGrace", "yWaiting", "yGot"} => seen[s] = s
     /\ pc[s] \in {"yFree", "yGrace", "yWaiting", "yGot"} => s \notin revoked

\* Between its lease check and giving the lock away, a ring is not evictable.
SeamIsFresh ==
  \A s \in Sessions :
     pc[s] \in {"seam", "yRead", "yClear"} => lease = s /\ quiet < StaleAfter

\* What a ring owes after an eviction: at most the write of a switch it had begun,
\* and nothing once that is made.
SwitchesAccounted ==
  \A s \in Ring :
     /\ s \in begun => s \in revoked
     /\ late[s] <= (IF s \in begun THEN 1 ELSE 0)
     /\ s \in revoked /\ pc[s] \in Switching => s \in begun /\ late[s] = 0

\* The inductive invariant of the gate, when a seam is short: one owner, the lock
\* accounted for by it, the lease it is known by, and the switches under way.
GateInv ==
  /\ TypeOK
  /\ OneOwner
  /\ LockAccounted
  /\ LeaseIsClaim
  /\ YieldersKeepTheirLease
  /\ SeamIsFresh
  /\ SwitchesAccounted

\* A session loses its lease only by its own release or yield, or by being
\* revoked: nobody else's code path takes it.
LeaseTakenOnlyByRevoking ==
  [][\A s \in Sessions : lease = s /\ lease' # s =>
        s \in revoked' \/ pc[s] \in {"yClear", "leave"}]_vars

\* An evicted duel, whose thread may hang and wake long after at any point, makes
\* no switch it had not begun when it was evicted, and of that one a single write:
\* its next leg, its next seam and its end ask the lease and stop.
EvictedRingStops ==
  \A s \in Ring : late[s] <= (IF s \in begun THEN 1 ELSE 0)

\* A session that was evicted never writes the firewall again (the duel's leg:
\* "never write the firewall on an evicted lease").  Not so: an engine without a
\* check restores its baseline, and a duel writes the switch it had begun.
EvictedNeverWrites == \A s \in Sessions : late[s] = 0

\* A wedged holder, in a switch of the duel as anywhere else, does not keep the
\* pipeline, queue or no queue, unless the scheduler's thread, which is the
\* watchdog, is wedged as well.
Stuck(s) == pc[s] \in {"wedged"} \cup Switching

WedgedHolderIsDisowned ==
  \A s \in Sessions :
     lease = s /\ Stuck(s) ~>
       \/ lease # s \/ ~Stuck(s)
       \/ Scheduler \in Sessions /\ pc[Scheduler] = "wedged"

\* While someone queues, the pipeline keeps being handed to queued sessions.
LineKeepsMoving ==
  []<>(Waiters = {}) \/ []<>(\E s \in Sessions : pc[s] \in {"got", "yGot"})

\* The abstract gate: its owner is the session with a live claim.
Owner == IF \E s \in Sessions : Claims(s)
         THEN CHOOSE s \in Sessions : Claims(s) ELSE NoSession

Gate == INSTANCE Pipeline WITH owner <- Owner

ImplementsPipeline == Gate!Spec
=============================================================================
