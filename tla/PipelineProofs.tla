-------------------------- MODULE PipelineProofs --------------------------
(***************************************************************************)
(* Proofs about who gets the pipeline: the gate in front of it and the     *)
(* queue of jobs in front of the gate.                                     *)
(*                                                                         *)
(* Coordinator, for every number of sessions, rings and stale bars: the    *)
(* pipeline has one owner, its lock is accounted for, leases are lost only *)
(* by release, yield or revocation, and the gate implements Pipeline.  All *)
(* of it rests on a seam being shorter than the stale bar.                 *)
(*                                                                         *)
(* JobQueue, for every number of jobs, kinds and crashes: tickets wait in  *)
(* order and once each, the pending rows are the waiting tickets, and a    *)
(* cancelled job stays cancelled through restarts.                         *)
(***************************************************************************)
EXTENDS Coordinator, JobQueue, SequenceTheorems, FiniteSetTheorems, TLAPS

-----------------------------------------------------------------------------
(* The gate. *)

\* The idle gate satisfies the invariant.
LEMMA InitEstablishesInv == Init => GateInv
<1> SUFFICES ASSUME Init PROVE GateInv
  OBVIOUS
<1> USE SessionsAssumption, TimeAssumption DEF Init
<1>1. \A s \in Sessions : pc[s] = "out" /\ ~Claims(s)
  BY DEF Claims, Holding, Switching
<1>2. TypeOK
  <2>1. pc \in [Sessions -> Points] /\ seen \in [Sessions -> Sessions \cup {NoSession}]
    BY DEF Points
  <2>2. quiet \in 0..StaleAfter /\ revoked \subseteq Sessions /\ evicting \subseteq Actors
    OBVIOUS
  <2>3. lock \in BOOLEAN
    OBVIOUS
  <2>4. begun \subseteq Sessions /\ late \in [Sessions -> 0..LateCap]
    BY DEF LateCap
  <2> QED
    BY <2>1, <2>2, <2>3, <2>4 DEF TypeOK
<1>3. OneOwner /\ LockAccounted
  BY <1>1 DEF OneOwner, LockAccounted
<1>4. LeaseIsClaim /\ YieldersKeepTheirLease /\ SeamIsFresh
  BY <1>1 DEF LeaseIsClaim, YieldersKeepTheirLease, SeamIsFresh, Holding, Switching
<1>5. SwitchesAccounted
  BY <1>1 DEF SwitchesAccounted
<1> QED
  BY <1>2, <1>3, <1>4, <1>5 DEF GateInv

\* When the only claim ends, nobody claims and nobody evicts.
LEMMA LastClaim ==
  ASSUME OneOwner, NEW s \in Sessions, Claims(s)
  PROVE  evicting = {} /\ \A t \in Sessions : Claims(t) => t = s
BY DEF OneOwner

\* Every step of the gate keeps the invariant: one step of the proof per action.
LEMMA StepKeepsInv ==
  ASSUME ~SlowSeam, GateInv, [Next]_vars
  PROVE  GateInv'
<1> USE SessionsAssumption, TimeAssumption
    DEF GateInv, TypeOK, OneOwner, LockAccounted, LeaseIsClaim,
        YieldersKeepTheirLease, SeamIsFresh, SwitchesAccounted, Claims, Points,
        Holding, Switching, Actors, Goto, LateCap, Writes, history
<1>1. ASSUME NEW s \in Sessions, Hold(s) PROVE GateInv'
  BY <1>1 DEF Hold
<1>2. ASSUME NEW s \in Sessions, TryHold(s) PROVE GateInv'
  BY <1>2 DEF TryHold
<1>3. ASSUME NEW s \in Sessions, Acquire(s) PROVE GateInv'
  BY <1>3 DEF Acquire, Waiters
<1>4. ASSUME NEW s \in Sessions, AbortWait(s) PROVE GateInv'
  BY <1>4 DEF AbortWait
<1>5. ASSUME NEW s \in Sessions, NewLease(s) PROVE GateInv'
  BY <1>5 DEF NewLease
<1>6. ASSUME NEW s \in Sessions, BetChosen(s) PROVE GateInv'
  BY <1>6 DEF BetChosen
<1>7. ASSUME NEW s \in Sessions, YieldRead(s) PROVE GateInv'
  BY <1>7 DEF YieldRead
<1>8. ASSUME NEW s \in Sessions, YieldClear(s) PROVE GateInv'
  BY <1>8 DEF YieldClear
<1>9. ASSUME NEW s \in Sessions, YieldFree(s) PROVE GateInv'
  <2>1. Claims(s) /\ lock
    BY <1>9 DEF YieldFree
  <2>2. evicting = {} /\ \A t \in Sessions : Claims(t) => t = s
    BY <2>1, LastClaim
  <2>3. \A t \in Sessions : ~Claims(t)'
    BY <1>9, <2>1, <2>2 DEF YieldFree
  <2>4. TypeOK'
    BY <1>9 DEF YieldFree
  <2>5. OneOwner' /\ LockAccounted'
    BY <1>9, <2>2, <2>3 DEF YieldFree
  <2>6. LeaseIsClaim'
    BY <1>9, <2>1, <2>2 DEF YieldFree
  <2>7. YieldersKeepTheirLease' /\ SeamIsFresh' /\ SwitchesAccounted'
    BY <1>9, <2>1 DEF YieldFree
  <2> QED
    BY <2>4, <2>5, <2>6, <2>7
<1>10. ASSUME NEW s \in Sessions, YieldQueue(s) PROVE GateInv'
  BY <1>10 DEF YieldQueue
<1>11. ASSUME NEW s \in Sessions, YieldResume(s) PROVE GateInv'
  BY <1>11 DEF YieldResume
<1>12. ASSUME NEW s \in Sessions, Release(s) PROVE GateInv'
  BY <1>12 DEF Release
<1>13. ASSUME NEW s \in Sessions, ReleaseLock(s) PROVE GateInv'
  <2>1. Claims(s) /\ lock
    BY <1>13 DEF ReleaseLock
  <2>2. evicting = {} /\ \A t \in Sessions : Claims(t) => t = s
    BY <2>1, LastClaim
  <2>3. \A t \in Sessions : ~Claims(t)'
    BY <1>13, <2>1, <2>2 DEF ReleaseLock
  <2>4. TypeOK'
    BY <1>13 DEF ReleaseLock
  <2>5. OneOwner' /\ LockAccounted'
    BY <1>13, <2>2, <2>3 DEF ReleaseLock
  <2>6. LeaseIsClaim'
    BY <1>13, <2>1, <2>2 DEF ReleaseLock
  <2>7. YieldersKeepTheirLease' /\ SeamIsFresh' /\ SwitchesAccounted'
    BY <1>13, <2>1 DEF ReleaseLock
  <2> QED
    BY <2>4, <2>5, <2>6, <2>7
<1>14. ASSUME NEW s \in Sessions, Probe(s) PROVE GateInv'
  BY <1>14 DEF Probe
<1>15. ASSUME NEW s \in Sessions, Write(s) PROVE GateInv'
  BY <1>15 DEF Write
<1>24. ASSUME NEW s \in Sessions, Leg(s) PROVE GateInv'
  BY <1>24 DEF Leg
<1>25. ASSUME NEW s \in Sessions, LegFails(s) PROVE GateInv'
  BY <1>25 DEF LegFails
<1>26. ASSUME NEW s \in Sessions, Close(s) PROVE GateInv'
  BY <1>26 DEF Close
<1>16. ASSUME NEW s \in Sessions, Wedge(s) PROVE GateInv'
  BY <1>16 DEF Wedge
<1>17. ASSUME NEW s \in Sessions, Wake(s) PROVE GateInv'
  BY <1>17 DEF Wake
<1>18. ASSUME NEW s \in Sessions, Seam(s) PROVE GateInv'
  BY <1>18 DEF Seam
<1>19. ASSUME NEW s \in Sessions, Finish(s) PROVE GateInv'
  BY <1>19 DEF Finish
<1>20. ASSUME NEW a \in Actors, Evict(a) PROVE GateInv'
  BY <1>20 DEF Evict
<1>21. ASSUME NEW a \in Actors, EvictRelease(a) PROVE GateInv'
  <2>1. /\ lock' = FALSE /\ evicting' = {}
        /\ UNCHANGED <<lease, revoked, quiet, pc, seen, begun, late>>
    BY <1>21 DEF EvictRelease
  <2>2. \A t \in Sessions : ~Claims(t) /\ ~Claims(t)'
    BY <1>21, <2>1 DEF EvictRelease
  <2>3. TypeOK'
    BY <1>21 DEF EvictRelease
  <2>4. OneOwner' /\ LockAccounted'
    BY <2>1, <2>2
  <2>5. LeaseIsClaim' /\ YieldersKeepTheirLease' /\ SeamIsFresh' /\ SwitchesAccounted'
    BY <2>1
  <2> QED
    BY <2>3, <2>4, <2>5
<1>22. CASE Tick
  BY <1>22 DEF Tick, Resting
<1>23. CASE UNCHANGED vars
  BY <1>23 DEF vars
<1> QED
  BY <1>1, <1>2, <1>3, <1>4, <1>5, <1>6, <1>7, <1>8, <1>9, <1>10, <1>11, <1>12,
     <1>13, <1>14, <1>15, <1>16, <1>17, <1>18, <1>19, <1>20, <1>21, <1>22, <1>23,
     <1>24, <1>25, <1>26
     DEF Next, Proceed

\* The invariant holds for ever, provided no seam outlasts the stale bar.
THEOREM GateInvariant ==
  ASSUME ~SlowSeam PROVE Spec => []GateInv
<1>1. GateInv /\ [Next]_vars => GateInv'
  BY StepKeepsInv
<1> QED
  BY InitEstablishesInv, <1>1, PTL DEF Spec

-----------------------------------------------------------------------------
(* What the gate promises. *)

\* However sessions queue, yield, wedge and are evicted, every variable of the
\* gate keeps its type.
THEOREM GateTypes ==
  ASSUME ~SlowSeam PROVE Spec => []TypeOK
<1>1. Spec => []GateInv
  BY GateInvariant
<1>2. GateInv => TypeOK
  BY DEF GateInv
<1> QED
  BY <1>1, <1>2, PTL

\* coordinator.py, "one session at a time": two sessions never both own the
\* pipeline, and none owns it while an eviction is under way.
THEOREM GateHasOneOwner ==
  ASSUME ~SlowSeam PROVE Spec => []OneOwner
<1>1. Spec => []GateInv
  BY GateInvariant
<1>2. GateInv => OneOwner
  BY DEF GateInv
<1> QED
  BY <1>1, <1>2, PTL

\* The lock is never stranded behind a session that is gone, nor free under one
\* that is live: it is held exactly while somebody is bound to release it.
THEOREM GateLockAccounted ==
  ASSUME ~SlowSeam PROVE Spec => []LockAccounted
<1>1. Spec => []GateInv
  BY GateInvariant
<1>2. GateInv => LockAccounted
  BY DEF GateInv
<1> QED
  BY <1>1, <1>2, PTL

\* A session loses its lease only by releasing, by yielding or by revocation.
THEOREM GateLeases ==
  ASSUME ~SlowSeam PROVE Spec => LeaseTakenOnlyByRevoking
<1>1. ASSUME GateInv, Next, NEW t \in Sessions, lease = t, lease' # t
      PROVE  t \in revoked' \/ pc[t] \in {"yClear", "leave"}
  <2> USE <1>1, SessionsAssumption, TimeAssumption
      DEF GateInv, TypeOK, OneOwner, LeaseIsClaim, SeamIsFresh, Claims, Holding,
          Switching
  <2>1. ASSUME NEW s \in Sessions, NewLease(s) PROVE FALSE
    BY <2>1 DEF NewLease
  <2>2. ASSUME NEW s \in Sessions, YieldClear(s)
        PROVE  pc[t] = "yClear"
    BY <2>2 DEF YieldClear
  <2>3. ASSUME NEW s \in Sessions, YieldResume(s) PROVE FALSE
    BY <2>3 DEF YieldResume
  <2>4. ASSUME NEW s \in Sessions, Release(s) PROVE pc[t] = "leave"
    BY <2>4 DEF Release
  <2>5. ASSUME NEW a \in Actors, Evict(a) PROVE t \in revoked'
    BY <2>5 DEF Evict
  <2> QED
    BY <2>1, <2>2, <2>3, <2>4, <2>5
       DEF Next, Proceed, Hold, TryHold, Acquire, AbortWait, BetChosen, YieldRead,
           YieldFree, YieldQueue, ReleaseLock, Probe, Leg, Write, LegFails, Wedge,
           Wake, Seam, Close, Finish, EvictRelease, Tick
<1>2. GateInv /\ [Next]_vars =>
        [\A s \in Sessions : lease = s /\ lease' # s =>
            s \in revoked' \/ pc[s] \in {"yClear", "leave"}]_vars
  BY <1>1
<1>3. Spec => []GateInv
  BY GateInvariant
<1> QED
  BY <1>2, <1>3, PTL DEF Spec, LeaseTakenOnlyByRevoking

\* However long its calls hang, an evicted duel writes the firewall at most once
\* more, and only the switch it had begun when it was evicted.
THEOREM EvictedRingStopsSoon ==
  ASSUME ~SlowSeam PROVE Spec => []EvictedRingStops
<1>1. Spec => []GateInv
  BY GateInvariant
<1>2. GateInv => EvictedRingStops
  BY DEF GateInv, SwitchesAccounted, EvictedRingStops
<1> QED
  BY <1>1, <1>2, PTL

-----------------------------------------------------------------------------
(* The gate implements Pipeline: the session with the live claim is the owner. *)

\* While one session claims, it is the abstract owner; while none does, nobody is.
LEMMA OwnerIsTheClaim ==
  ASSUME OneOwner
  PROVE  /\ \A s \in Sessions : Claims(s) => Owner = s
         /\ (\A s \in Sessions : ~Claims(s)) => Owner = NoSession
BY DEF OneOwner, Owner

\* The same of the next state.
LEMMA NextOwnerIsTheClaim ==
  ASSUME OneOwner'
  PROVE  /\ \A s \in Sessions : Claims(s)' => Owner' = s
         /\ (\A s \in Sessions : ~Claims(s)') => Owner' = NoSession
BY DEF OneOwner, Owner

\* A step that moves no claim stutters in Pipeline.
LEMMA SameClaimsSameOwner ==
  ASSUME OneOwner, OneOwner', \A s \in Sessions : Claims(s)' <=> Claims(s)
  PROVE  Owner' = Owner
<1>1. CASE \E s \in Sessions : Claims(s)
  BY <1>1, OwnerIsTheClaim, NextOwnerIsTheClaim
<1>2. CASE \A s \in Sessions : ~Claims(s)
  BY <1>2, OwnerIsTheClaim, NextOwnerIsTheClaim
<1> QED
  BY <1>1, <1>2

\* Every step of the gate is a step of Pipeline or leaves its owner alone.
LEMMA StepsRefine ==
  ASSUME ~SlowSeam, GateInv, [Next]_vars
  PROVE  [Gate!Next]_Owner
<1> USE SessionsAssumption DEF GateInv, Goto
<1>0. OneOwner /\ OneOwner'
  BY StepKeepsInv
<1>1. ASSUME NEW s \in Sessions, Acquire(s) \/ TryHold(s) PROVE Gate!Take(s)
  <2>1. \A t \in Sessions : ~Claims(t)
    BY <1>1 DEF Acquire, TryHold, LockAccounted
  <2>2. Claims(s)'
    BY <1>1 DEF Acquire, TryHold, Waiters, Claims, TypeOK
  <2> QED
    BY <1>0, <2>1, <2>2, OwnerIsTheClaim, NextOwnerIsTheClaim DEF Gate!Take
<1>2. ASSUME NEW s \in Sessions, YieldFree(s) \/ ReleaseLock(s) PROVE Gate!Drop(s)
  <2>1. Claims(s) /\ lock
    BY <1>2 DEF YieldFree, ReleaseLock, LockAccounted, Claims
  <2>2. \A t \in Sessions : ~Claims(t)'
    BY <1>0, <1>2, <2>1, LastClaim
       DEF YieldFree, ReleaseLock, Claims, Holding, Switching, TypeOK
  <2> QED
    BY <1>0, <2>1, <2>2, OwnerIsTheClaim, NextOwnerIsTheClaim DEF Gate!Drop
<1>3. ASSUME NEW a \in Actors, Evict(a) PROVE Gate!Drop(lease)
  <2>1. lease \in Sessions /\ Claims(lease)
    BY <1>3 DEF Evict, LeaseIsClaim, TypeOK, Claims
  <2>2. evicting' # {}
    BY <1>3 DEF Evict
  <2>3. \A t \in Sessions : ~Claims(t)'
    BY <1>0, <2>2 DEF OneOwner
  <2> QED
    BY <1>0, <2>1, <2>3, OwnerIsTheClaim, NextOwnerIsTheClaim DEF Gate!Drop
<1>4. ASSUME NEW s \in Sessions, Release(s) PROVE Owner' = Owner
  <2>1. \A t \in Sessions : Claims(t)' <=> Claims(t)
    BY <1>4 DEF Release, Claims, Holding, Switching, TypeOK, LeaseIsClaim
  <2> QED
    BY <1>0, <2>1, SameClaimsSameOwner
<1>5. ASSUME NEW s \in Sessions, NewLease(s) \/ YieldResume(s) PROVE Owner' = Owner
  <2>1. \A t \in Sessions : Claims(t)' <=> Claims(t)
    BY <1>5 DEF NewLease, YieldResume, Claims, Holding, Switching, TypeOK,
                YieldersKeepTheirLease
  <2> QED
    BY <1>0, <2>1, SameClaimsSameOwner
<1>6. ASSUME NEW s \in Sessions,
             \/ BetChosen(s) \/ YieldRead(s) \/ YieldClear(s) \/ YieldQueue(s)
             \/ Hold(s) \/ AbortWait(s) \/ Probe(s) \/ Leg(s) \/ Write(s)
             \/ LegFails(s) \/ Wedge(s) \/ Wake(s) \/ Seam(s) \/ Close(s) \/ Finish(s)
      PROVE  Owner' = Owner
  <2>1. \A t \in Sessions : Claims(t)' <=> Claims(t)
    <3> USE DEF Claims, TypeOK, Holding, Switching
    <3>1. CASE BetChosen(s) \/ YieldRead(s) \/ YieldClear(s) \/ YieldQueue(s)
      BY <3>1 DEF BetChosen, YieldRead, YieldClear, YieldQueue, SeamIsFresh,
                  LeaseIsClaim
    <3>2. CASE Hold(s) \/ AbortWait(s) \/ Probe(s) \/ Write(s)
      BY <3>2 DEF Hold, AbortWait, Probe, Write
    <3>3. CASE Wedge(s) \/ Wake(s) \/ Close(s) \/ Finish(s)
      BY <3>3 DEF Wedge, Wake, Close, Finish
    <3>5. CASE Leg(s) \/ LegFails(s)
      BY <3>5 DEF Leg, LegFails
    <3>4. CASE Seam(s)
      BY <3>4 DEF Seam
    <3> QED
      BY <1>6, <3>1, <3>2, <3>3, <3>4, <3>5
  <2> QED
    BY <1>0, <2>1, SameClaimsSameOwner
<1>7. ASSUME \/ \E a \in Actors : EvictRelease(a)
             \/ Tick \/ UNCHANGED vars
      PROVE  Owner' = Owner
  <2>1. \A t \in Sessions : Claims(t)' <=> Claims(t)
    BY <1>7 DEF EvictRelease, Tick, vars, Claims
  <2> QED
    BY <1>0, <2>1, SameClaimsSameOwner
<1>8. CASE Next
  <2>1. ASSUME NEW s \in Sessions, Acquire(s) \/ TryHold(s) \/ YieldFree(s) \/ ReleaseLock(s)
        PROVE  Gate!Next
    BY <1>1, <1>2, <2>1 DEF Gate!Next
  <2>2. ASSUME NEW a \in Actors, Evict(a) PROVE Gate!Next
    BY <1>3, <2>2 DEF Gate!Next, Evict, TypeOK
  <2> QED
    <3>1. CASE Tick
      BY <1>7, <3>1
    <3>2. ASSUME NEW a \in Actors, Evict(a) \/ EvictRelease(a)
          PROVE  [Gate!Next]_Owner
      BY <1>7, <2>2, <3>2
    <3>3. ASSUME NEW s \in Sessions,
                 \/ Hold(s) \/ TryHold(s) \/ Acquire(s) \/ AbortWait(s) \/ Proceed(s)
                 \/ Probe(s) \/ Leg(s) \/ Write(s) \/ LegFails(s) \/ Wedge(s)
                 \/ Wake(s) \/ Seam(s) \/ Close(s) \/ Finish(s)
          PROVE  [Gate!Next]_Owner
      BY <1>4, <1>5, <1>6, <2>1, <3>3 DEF Proceed
    <3> QED
      BY <1>8, <3>1, <3>2, <3>3 DEF Next
<1> QED
  BY <1>7, <1>8

\* coordinator.py hands the pipeline from session to session only through
\* nobody: the gate implements Pipeline.
THEOREM GateImplementsPipeline ==
  ASSUME ~SlowSeam PROVE Spec => ImplementsPipeline
<1>1. Init => Gate!Init
  BY SessionsAssumption DEF Init, Gate!Init, Owner, Claims, Holding, Switching
<1>2. GateInv /\ [Next]_vars => [Gate!Next]_Owner
  BY StepsRefine
<1>3. Spec => []GateInv
  BY GateInvariant
<1> QED
  BY <1>1, <1>2, <1>3, PTL DEF Spec, ImplementsPipeline, Gate!Spec

-----------------------------------------------------------------------------
(* The job queue. *)

\* What cancel leaves of the line when it pops the n-th ticket.
LEMMA RemoveAtShifts ==
  ASSUME NEW S, NEW s \in Seq(S), NEW n \in DOMAIN s
  PROVE  /\ RemoveAt(s, n) \in Seq(S)
         /\ DOMAIN RemoveAt(s, n) = 1..Len(s) - 1
         /\ \A i \in 1..Len(s) - 1 : RemoveAt(s, n)[i] = IF i < n THEN s[i] ELSE s[i + 1]
<1> DEFINE front == SubSeq(s, 1, n - 1)
           back  == SubSeq(s, n + 1, Len(s))
<1>1. n \in 1..Len(s) /\ Len(s) \in Nat
  OBVIOUS
<1>2. front \in Seq(S) /\ Len(front) = n - 1 /\ \A i \in 1..n - 1 : front[i] = s[i]
  BY <1>1
<1>3. back \in Seq(S) /\ Len(back) = Len(s) - n /\ \A i \in 1..Len(s) - n : back[i] = s[i + n]
  BY <1>1
<1>4. /\ front \o back \in Seq(S) /\ Len(front \o back) = Len(s) - 1
      /\ \A i \in 1..Len(s) - 1 :
           (front \o back)[i] = IF i <= n - 1 THEN front[i] ELSE back[i - (n - 1)]
  <2> HIDE DEF front, back
  <2>1. Len(front) + Len(back) = Len(s) - 1
    BY <1>1, <1>2, <1>3
  <2>2. /\ front \o back \in Seq(S)
        /\ Len(front \o back) = Len(front) + Len(back)
        /\ \A i \in 1..Len(front) + Len(back) :
             (front \o back)[i] = IF i <= Len(front) THEN front[i] ELSE back[i - Len(front)]
    BY <1>2, <1>3, ConcatProperties, Zenon
  <2>3. QED
    BY <1>2, <2>1, <2>2, Zenon
<1>5. \A i \in 1..Len(s) - 1 : i <= n - 1 => front[i] = s[i]
  BY <1>1, <1>2
<1>6. \A i \in 1..Len(s) - 1 : ~(i <= n - 1) => back[i - (n - 1)] = s[i + 1]
  <2> SUFFICES ASSUME NEW i \in 1..Len(s) - 1, ~(i <= n - 1) PROVE back[i - (n - 1)] = s[i + 1]
    OBVIOUS
  <2>1. i - (n - 1) \in 1..Len(s) - n /\ (i - (n - 1)) + n = i + 1
    BY <1>1
  <2>2. QED
    BY <1>3, <2>1
<1> HIDE DEF front, back
<1>7. RemoveAt(s, n) = front \o back
  BY DEF RemoveAt, front, back
<1>8. \A i \in 1..Len(s) - 1 : RemoveAt(s, n)[i] = IF i < n THEN s[i] ELSE s[i + 1]
  <2> SUFFICES ASSUME NEW i \in 1..Len(s) - 1
               PROVE  RemoveAt(s, n)[i] = IF i < n THEN s[i] ELSE s[i + 1]
    OBVIOUS
  <2>1. i <= n - 1 <=> i < n
    BY <1>1
  <2>2. QED
    BY <1>4, <1>5, <1>6, <1>7, <2>1
<1>9. QED
  BY <1>4, <1>7, <1>8

\* Steps that leave the line and the rows on disk alone, and cancel nothing.
LEMMA LineStands ==
  ASSUME QueueInv, QueueTypeOK', UNCHANGED <<up, queue, hand>>,
         UNCHANGED disp, qlock' \in {qlock, 0}, Len(jobs') = Len(jobs),
         \A j \in Ids : jobs'[j].disk = jobs[j].disk,
         \A j \in Ids : jobs[j].stage = "queued" => jobs'[j].stage = "queued",
         \A j \in Ids : jobs'[j].stage = "cancelled" => jobs[j].stage = "cancelled"
  PROVE  QueueInv'
<1>1. queue \in Seq(Ids) /\ Ids' = Ids
  BY DEF QueueInv, QueueTypeOK, Ids
<1>2. OldestFirst'
  BY DEF QueueInv, OldestFirst, ToSet
<1>3. PendingRowsAreTickets'
  BY <1>1 DEF QueueInv, PendingRowsAreTickets, ToSet
<1>4. TicketsWait' /\ CancelledIsSettled' /\ DeadIsEmpty'
  BY <1>1 DEF QueueInv, TicketsWait, CancelledIsSettled, DeadIsEmpty
<1>5. QED
  BY <1>2, <1>3, <1>4 DEF QueueInv

\* A start() that is not a ticket's adds a job with no row.
LEMMA StartedJobIsNoTicket ==
  ASSUME QueueInv, QueueTypeOK', UNCHANGED <<up, queue, hand>>, up,
         NEW k \in Kinds, jobs' = Append(jobs, NewJob(k, "starting", "none"))
  PROVE  QueueInv'
<1>1. jobs \in Seq(Job) /\ queue \in Seq(Ids) /\ hand \in Ids \cup {0}
  BY DEF QueueInv, QueueTypeOK
<1>2. /\ Ids' = Ids \cup {Len(jobs) + 1} /\ Len(jobs) \in Nat
      /\ \A j \in Ids : jobs'[j] = jobs[j]
      /\ jobs'[Len(jobs) + 1] = NewJob(k, "starting", "none")
  BY <1>1 DEF Ids
<1>3. OldestFirst'
  BY DEF QueueInv, OldestFirst, ToSet
<1>4. PendingRowsAreTickets'
  BY <1>1, <1>2 DEF QueueInv, PendingRowsAreTickets, ToSet, NewJob, Ids
<1>5. TicketsWait'
  <2>1. \A n \in DOMAIN queue : queue[n] \in Ids
    BY <1>1
  <2>2. QED
    BY <1>2, <2>1 DEF QueueInv, TicketsWait
<1>6. CancelledIsSettled'
  <2> SUFFICES ASSUME NEW j \in Ids', jobs'[j].stage = "cancelled" PROVE jobs'[j].disk # "pending"
    BY DEF CancelledIsSettled
  <2>1. CASE j \in Ids
    BY <1>2, <2>1, Zenon DEF QueueInv, CancelledIsSettled
  <2>2. CASE j = Len(jobs) + 1
    BY <1>2, <2>2 DEF NewJob
  <2>3. QED
    BY <1>2, <2>1, <2>2
<1>7. DeadIsEmpty'
  BY DEF DeadIsEmpty
<1>8. QED
  BY <1>3, <1>4, <1>5, <1>6, <1>7 DEF QueueInv

\* A submission that cannot start at once goes to the end of the line.
LEMMA SubmitQueuedKeepsQueue ==
  ASSUME QueueInv, QueueTypeOK', NEW k \in Kinds, SubmitQueued(k)
  PROVE  QueueInv'
<1>1. jobs \in Seq(Job) /\ queue \in Seq(Ids) /\ hand \in Ids \cup {0} /\ up
  BY DEF QueueInv, QueueTypeOK, SubmitQueued
<1>2. PICK disk \in {"pending", "none"} : jobs' = Append(jobs, NewJob(k, "queued", disk))
  BY DEF SubmitQueued
<1>3. /\ Ids' = Ids \cup {Len(jobs) + 1} /\ Len(jobs) \in Nat
      /\ \A j \in Ids : jobs'[j] = jobs[j]
      /\ jobs'[Len(jobs) + 1] = NewJob(k, "queued", disk)
  BY <1>1, <1>2 DEF Ids
<1>4. /\ DOMAIN queue' = 1..Len(queue) + 1 /\ Len(queue) \in Nat /\ DOMAIN queue = 1..Len(queue)
      /\ \A n \in DOMAIN queue : queue'[n] = queue[n]
      /\ queue'[Len(queue) + 1] = Len(jobs) + 1
  BY <1>1 DEF SubmitQueued
<1>5. UNCHANGED <<up, hand, qlock>> /\ up
  BY DEF SubmitQueued
<1>6. \A n \in DOMAIN queue : queue[n] \in 1..Len(jobs)
  BY <1>1 DEF Ids
<1>7. OldestFirst'
  <2>1. \A m, n \in DOMAIN queue' : m < n => queue'[m] < queue'[n]
    <3> SUFFICES ASSUME NEW m \in DOMAIN queue', NEW n \in DOMAIN queue', m < n
                 PROVE  queue'[m] < queue'[n]
      OBVIOUS
    <3>1. m \in DOMAIN queue
      BY <1>4
    <3>2. CASE n \in DOMAIN queue
      BY <1>4, <3>1, <3>2 DEF QueueInv, OldestFirst
    <3>3. CASE n = Len(queue) + 1
      BY <1>3, <1>4, <1>6, <3>1, <3>3
    <3>4. QED
      BY <1>4, <3>2, <3>3
  <2>2. \A n \in DOMAIN queue' : queue'[n] # hand
    <3>1. hand # Len(jobs) + 1
      BY <1>1, <1>3 DEF Ids
    <3>2. \A n \in DOMAIN queue : queue[n] # hand
      BY DEF QueueInv, OldestFirst, ToSet
    <3>3. QED
      BY <1>4, <3>1, <3>2
  <2>3. QED
    BY <1>5, <2>1, <2>2 DEF OldestFirst, ToSet
<1>8. PendingRowsAreTickets'
  <2> SUFFICES ASSUME NEW j \in Ids'
               PROVE  /\ jobs'[j].disk = "pending" => j \in ToSet(queue') \cup {hand'}
                      /\ j \in ToSet(queue') => jobs'[j].disk \in {"pending", "none"}
    BY DEF PendingRowsAreTickets
  <2>1. ToSet(queue') = ToSet(queue) \cup {Len(jobs) + 1}
    BY <1>4 DEF ToSet
  <2>2. CASE j \in Ids
    <3>1. j # Len(jobs) + 1
      BY <1>3, <2>2 DEF Ids
    <3>2. QED
      BY <1>3, <1>5, <2>1, <2>2, <3>1 DEF QueueInv, PendingRowsAreTickets
  <2>3. CASE j = Len(jobs) + 1
    BY <1>3, <2>1, <2>3 DEF NewJob
  <2>4. QED
    BY <1>3, <2>2, <2>3
<1>9. TicketsWait'
  BY <1>1, <1>3, <1>4 DEF QueueInv, TicketsWait, NewJob
<1>10. CancelledIsSettled' /\ DeadIsEmpty'
  BY <1>3, <1>5 DEF QueueInv, CancelledIsSettled, DeadIsEmpty, NewJob
<1>11. QED
  BY <1>7, <1>8, <1>9, <1>10 DEF QueueInv

\* The dispatcher takes the oldest ticket.
LEMMA ClaimKeepsQueue ==
  ASSUME QueueInv, QueueTypeOK', Claim
  PROVE  QueueInv'
<1>1. jobs \in Seq(Job) /\ queue \in Seq(Ids) /\ queue # <<>>
  BY DEF QueueInv, QueueTypeOK, Claim
<1>2. /\ Head(queue) = queue[1] /\ queue' = Tail(queue) /\ hand' = queue[1] /\ hand = 0
      /\ up' = up /\ qlock' = qlock /\ disp' = disp
      /\ jobs' = [jobs EXCEPT ![queue[1]].stage = "starting"]
  BY <1>1 DEF Claim, Stage
<1>3. /\ Len(queue) \in Nat /\ DOMAIN queue = 1..Len(queue) /\ 1 \in DOMAIN queue
      /\ DOMAIN queue' = 1..Len(queue) - 1
      /\ \A n \in DOMAIN queue' : queue'[n] = queue[n + 1] /\ n + 1 \in DOMAIN queue
  BY <1>1, <1>2
<1>4. /\ Ids' = Ids
      /\ \A j \in Ids : jobs'[j].disk = jobs[j].disk
      /\ \A j \in Ids : j # queue[1] => jobs'[j] = jobs[j]
      /\ jobs'[queue[1]].stage = "starting"
  BY <1>1, <1>2, <1>3 DEF Ids, Job
<1>5. \A m, n \in DOMAIN queue : m < n => queue[m] < queue[n]
  BY DEF QueueInv, OldestFirst
<1>6. \A n \in DOMAIN queue : queue[n] \in Ids
  BY <1>1
<1>7. \A n \in DOMAIN queue' : queue[1] < queue'[n]
  BY <1>3, <1>5
<1>8. ToSet(queue) = ToSet(queue') \cup {queue[1]}
  <2>1. \A n \in DOMAIN queue : n = 1 \/ (n - 1 \in DOMAIN queue' /\ queue'[n - 1] = queue[n])
    BY <1>3
  <2>2. QED
    BY <1>3, <2>1 DEF ToSet
<1>9. OldestFirst'
  <2>1. \A m, n \in DOMAIN queue' : m < n => queue'[m] < queue'[n]
    BY <1>3, <1>5
  <2>2. \A n \in DOMAIN queue' : queue'[n] # queue[1]
    BY <1>3, <1>6, <1>7 DEF Ids
  <2>3. QED
    BY <1>2, <2>1, <2>2 DEF OldestFirst, ToSet
<1>10. PendingRowsAreTickets'
  BY <1>2, <1>4, <1>8 DEF QueueInv, PendingRowsAreTickets, Ids
<1>11. TicketsWait'
  <2> SUFFICES ASSUME NEW n \in DOMAIN queue' PROVE jobs'[queue'[n]].stage = "queued"
    BY DEF TicketsWait
  <2>1. queue'[n] \in Ids /\ queue'[n] # queue[1]
    BY <1>3, <1>6, <1>7 DEF Ids
  <2>2. jobs[queue'[n]].stage = "queued"
    BY <1>3 DEF QueueInv, TicketsWait
  <2>3. QED
    BY <1>4, <2>1, <2>2
<1>12. CancelledIsSettled' /\ DeadIsEmpty'
  BY <1>1, <1>2, <1>4 DEF QueueInv, CancelledIsSettled, DeadIsEmpty
<1>13. QED
  BY <1>9, <1>10, <1>11, <1>12 DEF QueueInv
\* The outcome of a ticket's start() is written to its row, or the row stays as it was.
LEMMA SettleKeepsQueue ==
  ASSUME QueueInv, QueueTypeOK', Settle
  PROVE  QueueInv'
<1>1. jobs \in Seq(Job) /\ queue \in Seq(Ids) /\ hand \in Ids
  BY DEF QueueInv, QueueTypeOK, Settle
<1>2. PICK row \in {"failed", "started", "stale"} :
        jobs' = [jobs EXCEPT ![hand].disk = IF @ = "pending" THEN row ELSE @]
  BY DEF Settle
<1>3. UNCHANGED <<up, queue, qlock, disp>> /\ hand' = 0
  BY DEF Settle
<1>4. /\ Ids' = Ids
      /\ \A j \in Ids : jobs'[j].stage = jobs[j].stage
      /\ \A j \in Ids : j # hand => jobs'[j].disk = jobs[j].disk
      /\ jobs'[hand].disk # "pending"
  BY <1>1, <1>2 DEF Ids, Job
<1>5. OldestFirst'
  <2>1. 0 \notin ToSet(queue)
    BY <1>1 DEF ToSet, Ids
  <2>2. QED
    BY <1>3, <2>1 DEF QueueInv, OldestFirst, ToSet
<1>6. PendingRowsAreTickets'
  BY <1>3, <1>4 DEF QueueInv, PendingRowsAreTickets, OldestFirst, ToSet
<1>7. TicketsWait'
  BY <1>1, <1>3, <1>4 DEF QueueInv, TicketsWait
<1>8. CancelledIsSettled' /\ DeadIsEmpty'
  BY <1>3, <1>4 DEF QueueInv, CancelledIsSettled, DeadIsEmpty
<1>9. QED
  BY <1>5, <1>6, <1>7, <1>8 DEF QueueInv

\* A ticket that is cancelled leaves its place to those behind it.
LEMMA CancelKeepsQueue ==
  ASSUME QueueInv, QueueTypeOK', NEW n \in DOMAIN queue, Cancel(n)
  PROVE  QueueInv'
<1> DEFINE gone == queue[n]
<1>1. jobs \in Seq(Job) /\ queue \in Seq(Ids) /\ gone \in Ids /\ up
  BY DEF QueueInv, QueueTypeOK, Cancel
<1>2. PICK row \in {"cancelled", "stale"} :
        jobs' = [jobs EXCEPT ![gone].stage = "cancelled",
                             ![gone].disk = IF @ = "pending" THEN row ELSE @]
  BY DEF Cancel
<1>3. UNCHANGED <<up, qlock, hand, disp>> /\ queue' = RemoveAt(queue, n)
  BY DEF Cancel
<1>4. /\ Ids' = Ids
      /\ \A j \in Ids : j # gone => jobs'[j] = jobs[j]
      /\ jobs'[gone].stage = "cancelled" /\ jobs'[gone].disk # "pending"
  BY <1>1, <1>2 DEF Ids, Job
<1>5. /\ Len(queue) \in Nat /\ DOMAIN queue = 1..Len(queue)
      /\ DOMAIN queue' = 1..Len(queue) - 1
      /\ \A i \in DOMAIN queue' : queue'[i] = IF i < n THEN queue[i] ELSE queue[i + 1]
  <2>1. /\ DOMAIN RemoveAt(queue, n) = 1..Len(queue) - 1
        /\ \A i \in 1..Len(queue) - 1 :
             RemoveAt(queue, n)[i] = IF i < n THEN queue[i] ELSE queue[i + 1]
    BY <1>1, RemoveAtShifts, Zenon
  <2>2. Len(queue) \in Nat /\ DOMAIN queue = 1..Len(queue)
    BY <1>1
  <2>3. QED
    BY <1>3, <2>1, <2>2, Zenon
<1>6. \A i \in DOMAIN queue' : \E k \in DOMAIN queue \ {n} : queue'[i] = queue[k]
  <2> SUFFICES ASSUME NEW i \in DOMAIN queue'
               PROVE  \E k \in DOMAIN queue \ {n} : queue'[i] = queue[k]
    OBVIOUS
  <2>1. CASE i < n
    <3>1. i \in DOMAIN queue \ {n}
      BY <1>5, <2>1
    <3>2. QED
      BY <1>5, <2>1, <3>1
  <2>2. CASE ~(i < n)
    <3>1. i + 1 \in DOMAIN queue \ {n}
      BY <1>5, <2>2
    <3>2. QED
      BY <1>5, <2>2, <3>1
  <2>3. QED
    BY <2>1, <2>2
<1>7. \A k \in DOMAIN queue \ {n} : \E i \in DOMAIN queue' : queue'[i] = queue[k]
  <2> SUFFICES ASSUME NEW k \in DOMAIN queue \ {n}
               PROVE  \E i \in DOMAIN queue' : queue'[i] = queue[k]
    OBVIOUS
  <2>1. CASE k < n
    <3>1. k \in DOMAIN queue'
      BY <1>5, <2>1
    <3>2. QED
      BY <1>5, <2>1, <3>1
  <2>2. CASE ~(k < n)
    <3>1. k - 1 \in DOMAIN queue' /\ ~(k - 1 < n) /\ (k - 1) + 1 = k
      BY <1>5, <2>2
    <3>2. QED
      BY <1>5, <3>1
  <2>3. QED
    BY <2>1, <2>2
<1>8. \A k \in DOMAIN queue \ {n} : queue[k] # gone
  <2>1. \A i, k \in DOMAIN queue : i < k => queue[i] < queue[k]
    BY DEF QueueInv, OldestFirst
  <2>2. \A k \in DOMAIN queue : queue[k] \in Nat
    BY <1>1 DEF Ids
  <2>3. QED
    BY <1>5, <2>1, <2>2
<1>9. ToSet(queue') = ToSet(queue) \ {gone}
  BY <1>6, <1>7, <1>8 DEF ToSet
<1>10. OldestFirst'
  <2>1. \A i, k \in DOMAIN queue' : i < k => queue'[i] < queue'[k]
    <3>1. \A i, k \in DOMAIN queue : i < k => queue[i] < queue[k]
      BY DEF QueueInv, OldestFirst
    <3>2. QED
      BY <1>5, <3>1
  <2>2. QED
    BY <1>3, <1>9, <2>1 DEF QueueInv, OldestFirst
<1>11. PendingRowsAreTickets'
  BY <1>3, <1>4, <1>9 DEF QueueInv, PendingRowsAreTickets
<1>12. TicketsWait'
  <2> SUFFICES ASSUME NEW i \in DOMAIN queue' PROVE jobs'[queue'[i]].stage = "queued"
    BY DEF TicketsWait
  <2>1. PICK k \in DOMAIN queue \ {n} : queue'[i] = queue[k]
    BY <1>6
  <2>2. queue[k] \in Ids /\ queue[k] # gone /\ jobs[queue[k]].stage = "queued"
    BY <1>1, <1>8 DEF QueueInv, TicketsWait
  <2>3. QED
    BY <1>4, <2>1, <2>2
<1>13. CancelledIsSettled' /\ DeadIsEmpty'
  BY <1>1, <1>3, <1>4 DEF QueueInv, CancelledIsSettled, DeadIsEmpty
<1>14. QED
  BY <1>10, <1>11, <1>12, <1>13 DEF QueueInv

\* The process dies with its tickets; what was cancelled stays so.
LEMMA CrashKeepsQueue ==
  ASSUME QueueInv, QueueTypeOK', Crash
  PROVE  QueueInv'
<1>1. jobs \in Seq(Job)
  BY DEF QueueInv, QueueTypeOK
<1>2. PICK recorded \in BOOLEAN, closed \in BOOLEAN :
        jobs' = [j \in Ids |-> [jobs[j] EXCEPT !.stage = AfterCrash(@, recorded, closed)]]
  BY DEF Crash
<1>3. ~up' /\ queue' = <<>> /\ qlock' = 0 /\ hand' = 0 /\ ~disp'
  BY DEF Crash
<1>4. Ids' = Ids
  BY <1>1, <1>2 DEF Ids
<1>5. CancelledIsSettled'
  <2> SUFFICES ASSUME NEW j \in Ids, jobs'[j].stage = "cancelled" PROVE jobs'[j].disk # "pending"
    BY <1>4 DEF CancelledIsSettled
  <2>1. jobs[j] \in Job
    BY <1>1 DEF Ids
  <2>2. /\ jobs'[j].disk = jobs[j].disk
        /\ jobs'[j].stage = AfterCrash(jobs[j].stage, recorded, closed)
    BY <1>2, <2>1 DEF Job
  <2>3. jobs[j].stage = "cancelled"
    BY <2>1, <2>2 DEF AfterCrash, Job, Stages
  <2>4. QED
    BY <2>2, <2>3 DEF QueueInv, CancelledIsSettled
<1>6. OldestFirst' /\ PendingRowsAreTickets' /\ TicketsWait' /\ DeadIsEmpty'
  BY <1>3 DEF OldestFirst, PendingRowsAreTickets, TicketsWait, DeadIsEmpty, ToSet
<1>7. QED
  BY <1>5, <1>6 DEF QueueInv

\* A sequence with n more elements, all the same.
LEMMA Extended ==
  ASSUME NEW S, NEW s \in Seq(S), NEW n \in Nat, NEW v
  PROVE  /\ DOMAIN (s \o [i \in 1..n |-> v]) = 1..Len(s) + n
         /\ \A j \in 1..Len(s) : (s \o [i \in 1..n |-> v])[j] = s[j]
         /\ \A j \in Len(s) + 1..Len(s) + n : (s \o [i \in 1..n |-> v])[j] = v
<1> DEFINE T == S \cup {v}
           t == [i \in 1..n |-> v]
<1>1. s \in Seq(T) /\ Len(s) \in Nat
  OBVIOUS
<1>2. t \in Seq(T) /\ Len(t) = n /\ \A i \in 1..n : t[i] = v
  OBVIOUS
<1> HIDE DEF T, t
<1>3. /\ s \o t \in Seq(T)
      /\ Len(s \o t) = Len(s) + Len(t)
      /\ \A i \in 1..Len(s) + Len(t) :
           (s \o t)[i] = IF i <= Len(s) THEN s[i] ELSE t[i - Len(s)]
  BY <1>1, <1>2, ConcatProperties, Zenon
<1>4. DOMAIN (s \o t) = 1..Len(s) + n
  BY <1>1, <1>2, <1>3
<1>5. \A j \in 1..Len(s) : (s \o t)[j] = s[j]
  BY <1>1, <1>2, <1>3
<1>6. \A j \in Len(s) + 1..Len(s) + n : (s \o t)[j] = v
  <2> SUFFICES ASSUME NEW j \in Len(s) + 1..Len(s) + n PROVE (s \o t)[j] = v
    OBVIOUS
  <2>1. j \in 1..Len(s) + Len(t) /\ ~(j <= Len(s)) /\ j - Len(s) \in 1..n
    BY <1>1, <1>2
  <2>2. QED
    BY <1>2, <1>3, <2>1
<1>7. QED
  BY <1>4, <1>5, <1>6 DEF t

\* What a boot makes of the rows: the jobs of the last process and the duels it requeues.
LEMMA BootReadsTheRows ==
  ASSUME QueueTypeOK, QueueInv, Boot
  PROVE  \E all, rows :
           /\ DOMAIN all \in SUBSET Nat /\ \A j \in DOMAIN all : j # 0 /\ all[j] \in Job
           /\ Len(jobs') = Len(all) /\ DOMAIN all = 1..Len(all)
           /\ Len(all) \in Nat /\ Len(all) <= MaxJobs
           /\ \A j \in Ids : j \in DOMAIN all /\ all[j] = jobs[j]
           /\ \A j \in DOMAIN all : all[j].stage = "cancelled" => all[j].disk # "pending"
           /\ rows \subseteq DOMAIN all /\ \A j \in rows : all[j].disk \in Pending
           /\ \E n \in Nat : queue' \in [1..n -> rows]
           /\ \A m, n \in DOMAIN queue' : m < n => queue'[m] < queue'[n]
           /\ jobs' = [j \in DOMAIN all |-> Reconciled(all[j], j \in ToSet(queue'))]
<1>1. jobs \in Seq(Job)
  BY DEF QueueTypeOK
<1>2. PICK D \in SUBSET Requeued, expired \in SUBSET Ids :
        LET all == jobs \o [i \in 1..Cardinality(D) |-> NewJob(Duel, "lost", "pending")]
        IN  /\ Len(all) <= MaxJobs
            /\ queue' \in Restored(all, expired)
            /\ jobs' = [j \in DOMAIN all |-> Reconciled(all[j], j \in ToSet(queue'))]
  BY DEF Boot
<1> DEFINE all  == jobs \o [i \in 1..Cardinality(D) |-> NewJob(Duel, "lost", "pending")]
           rows == {j \in DOMAIN all : all[j].disk \in Pending} \ expired
<1>3. queue' \in Restored(all, expired) /\ Len(all) <= MaxJobs
  BY <1>2
<1>4. jobs' = [j \in DOMAIN all |-> Reconciled(all[j], j \in ToSet(queue'))]
  BY <1>2
<1>5. /\ queue' \in [1..Cardinality(rows) -> rows]
      /\ \A m, n \in DOMAIN queue' : m < n => queue'[m] < queue'[n]
  BY <1>3 DEF Restored
<1>6. IsFiniteSet(D) /\ Cardinality(D) \in Nat
  <2>1. IsFiniteSet(Ids)
    BY <1>1, FS_Interval DEF Ids
  <2>2. QED
    BY <2>1, FS_Subset, FS_CardinalityType DEF Requeued
<1>7. D # {} => NewJob(Duel, "lost", "pending") \in Job
  <2>1. \A j \in Requeued : Duel \in Kinds
    <3>1. \A j \in Ids : jobs[j] \in Job
      BY <1>1 DEF Ids
    <3>2. \A j \in Ids : jobs[j].kind \in Kinds
      BY <3>1 DEF Job
    <3>3. QED
      BY <3>2 DEF Requeued
  <2>2. QED
    BY <2>1 DEF NewJob, Job, Stages, Disk
<1>8. /\ DOMAIN all = 1..Len(jobs) + Cardinality(D)
      /\ \A j \in 1..Len(jobs) : all[j] = jobs[j]
      /\ \A j \in Len(jobs) + 1..Len(jobs) + Cardinality(D) : all[j] = NewJob(Duel, "lost", "pending")
  BY <1>1, <1>6, Extended
<1>9. Len(jobs) \in Nat
  BY <1>1
<1> HIDE DEF all, rows
<1>10. \A j \in DOMAIN all : all[j] \in Job /\ (all[j].stage = "cancelled" => all[j].disk # "pending")
  <2> SUFFICES ASSUME NEW j \in DOMAIN all
               PROVE  all[j] \in Job /\ (all[j].stage = "cancelled" => all[j].disk # "pending")
    OBVIOUS
  <2>1. CASE j \in 1..Len(jobs)
    <3>1. all[j] = jobs[j] /\ jobs[j] \in Job
      BY <1>1, <1>8, <2>1
    <3>2. QED
      BY <2>1, <3>1 DEF QueueInv, CancelledIsSettled, Ids
  <2>2. CASE j \in Len(jobs) + 1..Len(jobs) + Cardinality(D)
    <3>1. Cardinality(D) # 0
      BY <1>6, <1>9, <2>2
    <3>2. D # {}
      BY <3>1, FS_EmptySet
    <3>3. QED
      BY <1>7, <1>8, <2>2, <3>2 DEF NewJob
  <2>3. QED
    BY <1>6, <1>8, <1>9, <2>1, <2>2
<1>11. Len(all) = Len(jobs) + Cardinality(D) /\ Len(jobs') = Len(all)
  BY <1>4, <1>6, <1>8, <1>9
<1>12. rows \subseteq DOMAIN all /\ \A j \in rows : all[j].disk \in Pending
  BY DEF rows
<1>13. Cardinality(rows) \in Nat
  <2>1. IsFiniteSet(DOMAIN all)
    BY <1>6, <1>8, <1>9, FS_Interval
  <2>2. QED
    BY <1>12, <2>1, FS_Subset, FS_CardinalityType
<1>14. \A j \in DOMAIN all : j \in Nat /\ j # 0
  BY <1>6, <1>8, <1>9
<1>15. \A j \in Ids : j \in DOMAIN all /\ all[j] = jobs[j]
  BY <1>6, <1>8, <1>9 DEF Ids
<1>16. DOMAIN all = 1..Len(all) /\ DOMAIN all \in SUBSET Nat /\ Len(all) \in Nat
  BY <1>6, <1>8, <1>9, <1>11
<1>17. \E n \in Nat : queue' \in [1..n -> rows]
  BY <1>5, <1>13
<1>18. QED
  BY <1>3, <1>4, <1>5, <1>10, <1>11, <1>12, <1>14, <1>15, <1>16, <1>17

\* A boot makes tickets of the pending rows it keeps, and settles the others.
LEMMA BootKeepsQueue ==
  ASSUME QueueInv, QueueTypeOK', Boot
  PROVE  QueueInv'
<1>1. QueueTypeOK /\ hand = 0 /\ UNCHANGED hand /\ up'
  BY DEF QueueInv, DeadIsEmpty, Boot
<1>2. PICK all, rows :
        /\ \A j \in DOMAIN all : j \in Nat /\ j # 0 /\ all[j] \in Job
        /\ Len(jobs') = Len(all) /\ DOMAIN all = 1..Len(all)
        /\ \A j \in DOMAIN all : all[j].stage = "cancelled" => all[j].disk # "pending"
        /\ rows \subseteq DOMAIN all
        /\ \E n \in Nat : queue' \in [1..n -> rows]
        /\ \A m, n \in DOMAIN queue' : m < n => queue'[m] < queue'[n]
        /\ jobs' = [j \in DOMAIN all |-> Reconciled(all[j], j \in ToSet(queue'))]
  BY <1>1, BootReadsTheRows
<1>3. /\ Ids' = DOMAIN all
      /\ \A j \in DOMAIN all :
           /\ jobs'[j].stage = IF j \in ToSet(queue') THEN "queued"
                               ELSE IF all[j].stage = "interrupted" THEN "failed" ELSE all[j].stage
           /\ jobs'[j].disk = IF j \in ToSet(queue') THEN "pending"
                              ELSE IF all[j].disk \in Pending THEN "expired" ELSE all[j].disk
  <2>1. Ids' = DOMAIN all
    BY <1>2 DEF Ids
  <2>2. QED
    BY <1>2, <2>1 DEF Reconciled, Job
<1>4. \A n \in DOMAIN queue' : queue'[n] \in DOMAIN all
  BY <1>2
<1>5. OldestFirst'
  BY <1>1, <1>2, <1>4 DEF OldestFirst, ToSet
<1>6. PendingRowsAreTickets'
  BY <1>3 DEF PendingRowsAreTickets, Pending
<1>7. TicketsWait'
  BY <1>3, <1>4 DEF TicketsWait, ToSet
<1>8. CancelledIsSettled'
  BY <1>2, <1>3 DEF CancelledIsSettled, Pending
<1>9. DeadIsEmpty'
  BY <1>1 DEF DeadIsEmpty
<1>10. QED
  BY <1>5, <1>6, <1>7, <1>8, <1>9 DEF QueueInv

\* Each step keeps the types.
LEMMA StepKeepsQueueTypes ==
  ASSUME QueueInv, QueueNext
  PROVE  QueueTypeOK'
<1>1. QueueTypeOK /\ JobQueueAssumption
  BY JobQueueAssumption DEF QueueInv
<1>2. jobs \in Seq(Job) /\ queue \in Seq(Ids) /\ Len(jobs) \in Nat /\ active \in [Kinds -> BOOLEAN]
  BY <1>1 DEF QueueTypeOK
<1>3. ASSUME NEW k \in Kinds, NEW stage \in Stages, NEW disk \in Disk, Len(jobs) < MaxJobs,
             jobs' = Append(jobs, NewJob(k, stage, disk))
      PROVE  /\ jobs' \in Seq(Job) /\ Len(jobs') <= MaxJobs
             /\ Len(jobs') = Len(jobs) + 1 /\ Ids \subseteq Ids' /\ Len(jobs) + 1 \in Ids'
  <2>1. NewJob(k, stage, disk) \in Job
    BY <1>3 DEF NewJob, Job
  <2>2. jobs' \in Seq(Job) /\ Len(jobs') = Len(jobs) + 1
    BY <1>2, <1>3, <2>1
  <2>3. QED
    BY <1>1, <1>2, <1>3, <2>2 DEF Ids, JobQueueAssumption
<1>4. ASSUME NEW j \in Ids, NEW job \in Job, jobs' = [jobs EXCEPT ![j] = job]
      PROVE  jobs' \in Seq(Job) /\ Len(jobs') = Len(jobs) /\ Ids' = Ids
  BY <1>2, <1>4 DEF Ids
<1>5. ASSUME NEW k \in Kinds, SubmitNow(k)
      PROVE  QueueTypeOK'
  <2>1. "starting" \in Stages /\ "none" \in Disk
    BY DEF Stages, Disk
  <2>2. /\ jobs' \in Seq(Job) /\ Len(jobs') <= MaxJobs
        /\ Ids \subseteq Ids' /\ Len(jobs) + 1 \in Ids'
    BY <1>3, <1>5, <2>1, Zenon DEF SubmitNow
  <2>3. queue' \in Seq(Ids')
    BY <1>2, <1>5, <2>2 DEF SubmitNow
  <2>4. QED
    BY <1>1, <1>5, <2>2, <2>3 DEF SubmitNow, QueueTypeOK
<1>6. ASSUME NEW k \in Kinds, SubmitQueued(k)
      PROVE  QueueTypeOK'
  <2>1. PICK disk \in {"pending", "none"} : jobs' = Append(jobs, NewJob(k, "queued", disk))
    BY <1>6 DEF SubmitQueued
  <2>2. "queued" \in Stages /\ disk \in Disk
    BY DEF Stages, Disk
  <2>3. /\ jobs' \in Seq(Job) /\ Len(jobs') <= MaxJobs
        /\ Ids \subseteq Ids' /\ Len(jobs) + 1 \in Ids'
    BY <1>3, <1>6, <2>1, <2>2, Zenon DEF SubmitQueued
  <2>4. queue' \in Seq(Ids')
    BY <1>2, <1>6, <2>3 DEF SubmitQueued
  <2>5. QED
    BY <1>1, <1>6, <2>3, <2>4 DEF SubmitQueued, QueueTypeOK
<1>7. CASE Kick
  <2>1. "starting" \in Stages /\ "none" \in Disk
    BY DEF Stages, Disk
  <2>2. /\ jobs' \in Seq(Job) /\ Len(jobs') <= MaxJobs
        /\ Ids \subseteq Ids' /\ Len(jobs) + 1 \in Ids'
    BY <1>3, <1>7, <2>1, Zenon DEF Kick
  <2>3. queue' \in Seq(Ids')
    BY <1>2, <1>7, <2>2 DEF Kick
  <2>4. QED
    BY <1>1, <1>7, <2>2, <2>3 DEF Kick, QueueTypeOK
<1>8. ASSUME NEW j \in Ids, Engine(j)
      PROVE  QueueTypeOK'
  <2>1. jobs[j] \in Job /\ jobs[j].kind \in Kinds
    <3>1. jobs[j] \in Job
      BY <1>2 DEF Ids
    <3>2. QED
      BY <3>1 DEF Job
  <2>2. jobs' \in Seq(Job) /\ Len(jobs') = Len(jobs)
    <3>1. PICK s \in Stages, n \in Nat :
            jobs' = [jobs EXCEPT ![j].stage = s, ![j].starts = n]
      BY <1>8, <2>1 DEF Engine, StartCheck, Launch, Enter, Leave, Deactivate, Stage, Job, Stages
    <3>2. [jobs[j] EXCEPT !.stage = s, !.starts = n] \in Job
      BY <2>1 DEF Job
    <3>3. jobs' = [jobs EXCEPT ![j] = [jobs[j] EXCEPT !.stage = s, !.starts = n]]
      BY <1>2, <3>1 DEF Ids
    <3>4. QED
      BY <1>4, <3>2, <3>3, Zenon
  <2>3. Ids' = Ids
    BY <2>2 DEF Ids
  <2>4. qlock' \in {qlock, 0} /\ pipe' \in {pipe, j, 0} /\ active' \in [Kinds -> BOOLEAN]
    BY <1>2, <1>8, <2>1 DEF Engine, StartCheck, Launch, Enter, Leave, Deactivate
  <2>5. UNCHANGED <<up, queue, hand, disp, crashes, outside>>
    BY <1>8 DEF Engine, StartCheck, Launch, Enter, Leave, Deactivate
  <2>6. QED
    BY <1>1, <2>2, <2>3, <2>4, <2>5 DEF QueueTypeOK
<1>9. CASE OutsideTakes \/ OutsideLeaves
  BY <1>1, <1>9 DEF OutsideTakes, OutsideLeaves, QueueTypeOK, Ids, JobQueueAssumption
<1>10. CASE Claim
  <2>1. Head(queue) \in Ids /\ Tail(queue) \in Seq(Ids)
    BY <1>2, <1>10 DEF Claim
  <2>2. jobs' \in Seq(Job) /\ Len(jobs') = Len(jobs)
    <3>1. jobs[Head(queue)] \in Job
      BY <1>2, <2>1 DEF Ids
    <3>2. [jobs[Head(queue)] EXCEPT !.stage = "starting"] \in Job
      BY <3>1 DEF Job, Stages
    <3>3. jobs' = [jobs EXCEPT ![Head(queue)] = [jobs[Head(queue)] EXCEPT !.stage = "starting"]]
      BY <1>10 DEF Claim, Stage
    <3>4. QED
      BY <1>4, <2>1, <3>2, <3>3, Zenon
  <2>3. QED
    BY <1>1, <1>10, <2>1, <2>2 DEF Claim, QueueTypeOK, Ids
<1>11. CASE Retire
  BY <1>1, <1>11 DEF Retire, QueueTypeOK, Ids
<1>12. CASE Settle
  <2>1. PICK row \in {"failed", "started", "stale"} :
          jobs' = [jobs EXCEPT ![hand].disk = IF @ = "pending" THEN row ELSE @]
    BY <1>12 DEF Settle
  <2>2. hand \in Ids
    BY <1>1, <1>12 DEF Settle, QueueTypeOK
  <2>3. jobs' \in Seq(Job) /\ Len(jobs') = Len(jobs)
    <3>1. jobs[hand] \in Job
      BY <1>2, <2>2 DEF Ids
    <3> DEFINE job == [jobs[hand] EXCEPT !.disk = IF @ = "pending" THEN row ELSE @]
    <3>2. job \in Job
      BY <3>1 DEF Job, Disk
    <3>3. jobs' = [jobs EXCEPT ![hand] = job]
      BY <2>1
    <3>4. QED
      BY <1>4, <2>2, <3>2, <3>3, Zenon
  <2>4. QED
    BY <1>1, <1>12, <2>3 DEF Settle, QueueTypeOK, Ids
<1>13. ASSUME NEW n \in DOMAIN queue, Cancel(n)
       PROVE  QueueTypeOK'
  <2>1. PICK row \in {"cancelled", "stale"} :
          jobs' = [jobs EXCEPT ![queue[n]].stage = "cancelled",
                               ![queue[n]].disk = IF @ = "pending" THEN row ELSE @]
    BY <1>13 DEF Cancel
  <2>2. queue[n] \in Ids
    BY <1>2
  <2>3. jobs' \in Seq(Job) /\ Len(jobs') = Len(jobs)
    <3>1. jobs[queue[n]] \in Job
      BY <1>2, <2>2 DEF Ids
    <3> DEFINE job == [jobs[queue[n]] EXCEPT !.stage = "cancelled",
                                             !.disk = IF @ = "pending" THEN row ELSE @]
    <3>2. job \in Job
      BY <3>1 DEF Job, Disk, Stages
    <3>3. jobs' = [jobs EXCEPT ![queue[n]] = job]
      BY <1>2, <2>1, <2>2 DEF Ids
    <3>4. QED
      BY <1>4, <2>2, <3>2, <3>3, Zenon
  <2>4. queue' \in Seq(Ids)
    BY <1>2, <1>13, RemoveAtShifts DEF Cancel
  <2>5. QED
    BY <1>1, <1>13, <2>3, <2>4 DEF Cancel, QueueTypeOK, Ids
<1>14. CASE Crash
  <2>1. PICK recorded \in BOOLEAN, closed \in BOOLEAN :
          jobs' = [j \in Ids |-> [jobs[j] EXCEPT !.stage = AfterCrash(@, recorded, closed)]]
    BY <1>14 DEF Crash
  <2>2. \A j \in Ids : [jobs[j] EXCEPT !.stage = AfterCrash(@, recorded, closed)] \in Job
    <3> SUFFICES ASSUME NEW j \in Ids
                 PROVE  [jobs[j] EXCEPT !.stage = AfterCrash(@, recorded, closed)] \in Job
      OBVIOUS
    <3>1. jobs[j] \in Job
      BY <1>2 DEF Ids
    <3>2. AfterCrash(jobs[j].stage, recorded, closed) \in Stages
      BY <3>1 DEF AfterCrash, Job, Stages
    <3>3. QED
      BY <3>1, <3>2 DEF Job
  <2>3. jobs' \in Seq(Job) /\ Len(jobs') = Len(jobs)
    BY <1>2, <2>1, <2>2 DEF Ids
  <2>4. QED
    <3>1. Ids' = Ids /\ crashes' \in 0..MaxCrashes
      BY <1>1, <1>14, <2>3 DEF Crash, QueueTypeOK, Ids, JobQueueAssumption
    <3>2. queue' \in Seq(Ids) /\ active' \in [Kinds -> BOOLEAN]
      BY <1>14 DEF Crash
    <3>3. up' \in BOOLEAN /\ disp' \in BOOLEAN /\ qlock' = 0 /\ hand' = 0 /\ pipe' = 0
      BY <1>14 DEF Crash
    <3>4. QED
      BY <1>1, <1>14, <2>3, <3>1, <3>2, <3>3 DEF Crash, QueueTypeOK
<1>15. CASE Boot
  <2>1. PICK all, rows :
          /\ \A j \in DOMAIN all : all[j] \in Job
          /\ Len(jobs') = Len(all) /\ DOMAIN all = 1..Len(all)
          /\ Len(all) \in Nat /\ Len(all) <= MaxJobs
          /\ \A j \in Ids : j \in DOMAIN all
          /\ rows \subseteq DOMAIN all
          /\ \E n \in Nat : queue' \in [1..n -> rows]
          /\ jobs' = [j \in DOMAIN all |-> Reconciled(all[j], j \in ToSet(queue'))]
    BY <1>1, <1>15, BootReadsTheRows
  <2>2. \A j \in DOMAIN all : Reconciled(all[j], j \in ToSet(queue')) \in Job
    BY <2>1 DEF Reconciled, Job, Stages, Disk
  <2>3. jobs' \in Seq(Job) /\ Ids' = DOMAIN all /\ Len(jobs') <= MaxJobs
    BY <2>1, <2>2 DEF Ids
  <2>4. queue' \in Seq(Ids')
    BY <2>1, <2>3
  <2>5. up' = TRUE /\ disp' \in BOOLEAN /\ UNCHANGED <<qlock, hand, active, pipe, crashes, outside>>
    BY <1>15 DEF Boot
  <2>6. QED
    BY <1>1, <2>1, <2>3, <2>4, <2>5 DEF QueueTypeOK
<1>16. QED
  BY <1>5, <1>6, <1>7, <1>8, <1>9, <1>10, <1>11, <1>12, <1>13, <1>14, <1>15 DEF QueueNext

\* Each step keeps the invariant.
LEMMA StepKeepsQueue ==
  ASSUME QueueInv, [QueueNext]_queueVars
  PROVE  QueueInv'
<1>1. CASE UNCHANGED queueVars
  BY <1>1 DEF queueVars, QueueInv, QueueTypeOK, OldestFirst, PendingRowsAreTickets, TicketsWait,
              CancelledIsSettled, DeadIsEmpty, Ids
<1>2. CASE QueueNext
  <2>1. QueueTypeOK'
    BY <1>2, StepKeepsQueueTypes
  <2>2. jobs \in Seq(Job) /\ (up \/ hand = 0)
    BY DEF QueueInv, QueueTypeOK, DeadIsEmpty
  <2>3. ASSUME NEW k \in Kinds, SubmitNow(k) \/ (k = Duel /\ Kick)
        PROVE  QueueInv'
    BY <2>1, <2>3, StartedJobIsNoTicket DEF SubmitNow, Kick
  <2>4. ASSUME NEW j \in Ids, Engine(j)
        PROVE  QueueInv'
    <3>1. jobs[j] \in Job
      BY <2>2 DEF Ids
    <3>2. /\ Len(jobs') = Len(jobs)
          /\ \A i \in Ids : i # j => jobs'[i] = jobs[i]
          /\ jobs'[j].disk = jobs[j].disk
          /\ jobs[j].stage # "queued" /\ jobs'[j].stage # "cancelled"
      <4>1. CASE Launch(j)
        BY <2>2, <3>1, <4>1 DEF Launch, Job, Ids
      <4>2. CASE ~Launch(j)
        <5>1. PICK s \in Stages \ {"cancelled"} : Stage(j, s) /\ jobs[j].stage # "queued"
          BY <2>4, <4>2 DEF Engine, StartCheck, Enter, Leave, Deactivate, Stages
        <5>2. QED
          BY <2>2, <3>1, <5>1 DEF Stage, Job, Ids
      <4>3. QED
        BY <4>1, <4>2
    <3>3. UNCHANGED <<up, queue, hand, disp>> /\ qlock' \in {qlock, 0}
      BY <2>4 DEF Engine, StartCheck, Launch, Enter, Leave, Deactivate
    <3>4. /\ \A i \in Ids : jobs'[i].disk = jobs[i].disk
          /\ \A i \in Ids : jobs[i].stage = "queued" => jobs'[i].stage = "queued"
          /\ \A i \in Ids : jobs'[i].stage = "cancelled" => jobs[i].stage = "cancelled"
      BY <3>2
    <3>5. QED
      BY <2>1, <3>2, <3>3, <3>4, LineStands
  <2>5. CASE OutsideTakes \/ OutsideLeaves \/ Retire
    <3>1. jobs' = jobs /\ queue' = queue /\ hand' = hand /\ up' = up /\ qlock' = qlock
      BY <2>5 DEF OutsideTakes, OutsideLeaves, Retire
    <3>2. disp' \in {disp, FALSE}
      BY <2>5 DEF OutsideTakes, OutsideLeaves, Retire
    <3>3. OldestFirst' /\ PendingRowsAreTickets' /\ TicketsWait' /\ CancelledIsSettled'
      BY <3>1, Zenon DEF QueueInv, OldestFirst, PendingRowsAreTickets, TicketsWait,
         CancelledIsSettled, Ids
    <3>4. DeadIsEmpty'
      BY <3>1, <3>2, Zenon DEF QueueInv, DeadIsEmpty
    <3>5. QED
      BY <2>1, <3>3, <3>4 DEF QueueInv
  <2>6. CASE Claim \/ Settle \/ Crash \/ Boot
    BY <2>1, <2>6, ClaimKeepsQueue, SettleKeepsQueue, CrashKeepsQueue, BootKeepsQueue
  <2>7. ASSUME NEW n \in DOMAIN queue, Cancel(n)
        PROVE  QueueInv'
    BY <2>1, <2>7, CancelKeepsQueue
  <2>8. ASSUME NEW k \in Kinds, SubmitQueued(k)
        PROVE  QueueInv'
    BY <2>1, <2>8, SubmitQueuedKeepsQueue
  <2>9. CASE Kick
    BY <2>3, <2>9 DEF Kick
  <2>10. QED
    BY <1>2, <2>3, <2>4, <2>5, <2>6, <2>7, <2>8, <2>9 DEF QueueNext
<1>3. QED
  BY <1>1, <1>2

\* The invariant of the line and the rows holds in every state.
THEOREM SpecKeepsQueueInv == QueueSpec => []QueueInv
<1>1. QueueInit => QueueInv
  <2> SUFFICES ASSUME QueueInit PROVE QueueInv
    OBVIOUS
  <2>1. QueueTypeOK
    <3>1. jobs \in Seq(Job) /\ Len(jobs) <= MaxJobs /\ queue \in Seq(Ids)
      BY JobQueueAssumption DEF QueueInit, JobQueueAssumption
    <3>2. active \in [Kinds -> BOOLEAN] /\ crashes \in 0..MaxCrashes /\ outside \in 0..MaxOutside
      BY JobQueueAssumption DEF QueueInit, JobQueueAssumption
    <3>3. QED
      BY <3>1, <3>2 DEF QueueInit, QueueTypeOK
  <2>2. OldestFirst /\ PendingRowsAreTickets /\ TicketsWait /\ CancelledIsSettled /\ DeadIsEmpty
    BY DEF QueueInit, OldestFirst, PendingRowsAreTickets, TicketsWait, CancelledIsSettled,
       DeadIsEmpty, Ids, ToSet
  <2>3. QED
    BY <2>1, <2>2 DEF QueueInv
<1>2. QueueInv /\ [QueueNext]_queueVars => QueueInv'
  BY StepKeepsQueue
<1>3. QED
  BY <1>1, <1>2, PTL DEF QueueSpec

\* Tickets wait in the order they were asked for, each once, and none that the dispatcher
\* has in hand, whatever is submitted, cancelled and restarted (submit, _drain, restore).
THEOREM TicketsWaitInOrder == QueueSpec => []OldestFirst
<1>1. QueueInv => OldestFirst
  BY DEF QueueInv
<1>2. QED
  BY SpecKeepsQueueInv, <1>1, PTL

\* A pending row is a waiting ticket, and a ticket's row is pending if it has one: what a
\* restart brings back is what was waiting (submit, _settle, restore).
THEOREM RestartsBringBackTheLine == QueueSpec => []PendingRowsAreTickets
<1>1. QueueInv => PendingRowsAreTickets
  BY DEF QueueInv
<1>2. QED
  BY SpecKeepsQueueInv, <1>1, PTL

\* A cancelled job is never started afterwards, and stays cancelled through restarts once
\* its row says so (cancel, _settle, restore).
THEOREM CancelledStaysCancelled == QueueSpec => CancelledNeverRuns
<1> DEFINE Kept(j) == jobs[j].stage = "cancelled" =>
                        /\ jobs'[j].starts = jobs[j].starts
                        /\ jobs[j].disk # "stale" => jobs'[j].stage = "cancelled"
<1>1. QueueInv /\ [QueueNext]_queueVars => [\A j \in Ids : Kept(j)]_queueVars
  <2> SUFFICES ASSUME QueueInv, QueueNext, NEW j \in Ids, jobs[j].stage = "cancelled"
               PROVE  Kept(j)
    OBVIOUS
  <2>1. jobs \in Seq(Job) /\ queue \in Seq(Ids) /\ jobs[j] \in Job /\ hand \in Ids \cup {0}
    BY DEF QueueInv, QueueTypeOK, Ids
  <2>2. jobs[j].disk # "pending"
    BY DEF QueueInv, CancelledIsSettled
  <2>3. \A n \in DOMAIN queue : queue[n] # j
    BY DEF QueueInv, TicketsWait
  <2>4. CASE jobs' = jobs
    BY <2>4
  <2>5. ASSUME NEW job, jobs' = Append(jobs, job)
        PROVE  Kept(j)
    BY <2>1, <2>5 DEF Ids
  <2>6. ASSUME NEW i \in Ids, Engine(i)
        PROVE  Kept(j)
    <3>1. i # j
      BY <2>6 DEF Engine, StartCheck, Launch, Enter, Leave, Deactivate
    <3>2. jobs'[j] = jobs[j]
      BY <2>1, <2>6, <3>1 DEF Engine, StartCheck, Launch, Enter, Leave, Deactivate, Stage, Ids
    <3>3. QED
      BY <3>2
  <2>7. CASE Claim
    <3>1. Head(queue) # j
      BY <2>1, <2>3, <2>7 DEF Claim
    <3>2. jobs'[j] = jobs[j]
      BY <2>1, <2>7, <3>1 DEF Claim, Stage, Ids
    <3>3. QED
      BY <3>2
  <2>8. CASE Settle
    <3>1. PICK row : jobs' = [jobs EXCEPT ![hand].disk = IF @ = "pending" THEN row ELSE @]
      BY <2>8 DEF Settle
    <3>2. jobs'[j].stage = jobs[j].stage /\ jobs'[j].starts = jobs[j].starts
      BY <2>1, <3>1 DEF Job, Ids
    <3>3. QED
      BY <3>2
  <2>9. ASSUME NEW n \in DOMAIN queue, Cancel(n)
        PROVE  Kept(j)
    <3>1. PICK row : jobs' = [jobs EXCEPT ![queue[n]].stage = "cancelled",
                                          ![queue[n]].disk = IF @ = "pending" THEN row ELSE @]
      BY <2>9 DEF Cancel
    <3>2. jobs'[j] = jobs[j]
      BY <2>1, <2>3, <3>1 DEF Ids
    <3>3. QED
      BY <3>2
  <2>10. CASE Crash
    <3>1. PICK recorded \in BOOLEAN, closed \in BOOLEAN :
            jobs' = [i \in Ids |-> [jobs[i] EXCEPT !.stage = AfterCrash(@, recorded, closed)]]
      BY <2>10 DEF Crash
    <3>2. jobs'[j].stage = AfterCrash("cancelled", recorded, closed)
          /\ jobs'[j].starts = jobs[j].starts
      BY <2>1, <3>1 DEF Job
    <3>3. QED
      BY <3>2 DEF AfterCrash
  <2>11. CASE Boot
    <3>1. QueueTypeOK
      BY DEF QueueInv
    <3>2. PICK all, rows :
            /\ \A i \in DOMAIN all : all[i] \in Job
            /\ \A i \in Ids : i \in DOMAIN all /\ all[i] = jobs[i]
            /\ \A i \in rows : all[i].disk \in Pending
            /\ \E n \in Nat : queue' \in [1..n -> rows]
            /\ jobs' = [i \in DOMAIN all |-> Reconciled(all[i], i \in ToSet(queue'))]
      BY <2>11, <3>1, BootReadsTheRows
    <3>3. jobs[j].disk # "stale" => j \notin ToSet(queue')
      BY <2>2, <3>2 DEF ToSet, Pending
    <3>4. QED
      BY <2>1, <3>2, <3>3 DEF Reconciled, Job
  <2>12. QED
    BY <2>4, <2>5, <2>6, <2>7, <2>8, <2>9, <2>10, <2>11
       DEF QueueNext, SubmitNow, SubmitQueued, Kick, OutsideTakes, OutsideLeaves, Retire
<1>2. QED
  BY SpecKeepsQueueInv, <1>1, PTL DEF QueueSpec, CancelledNeverRuns
=============================================================================
