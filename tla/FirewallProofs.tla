---------------------------- MODULE FirewallProofs ----------------------------
(***************************************************************************)
(* Proofs about what writes the firewall.                                  *)
(*                                                                         *)
(* FirewallWrite, for any pipes, any values and any number of sessions and *)
(* lost calls: a write that was answered is on the shaper, one that was    *)
(* verified is stored, and a rejected one leaves no mix.                   *)
(*                                                                         *)
(* CrownFollower, for any profiles, settings, policies, databases and      *)
(* hazards: its ledger is a history, and what it recorded as applied is on *)
(* the firewall.                                                           *)
(***************************************************************************)
EXTENDS FirewallWrite, CrownFollower, WellFoundedInduction, TLAPS

------------------------------------------------------------------------------
(* The write path. *)

\* The idle firewall satisfies the invariant.
LEMMA InitEstablishesWriteInv == Init => WriteInv
<1> SUFFICES ASSUME Init PROVE WriteInv
  OBVIOUS
<1> USE WriteAssumption DEF Init
<1>1. TypeOK
  <2>1. stored \in Profile /\ running \in Profile /\ originals \in Profile
    OBVIOUS
  <2>2. target \in Profile /\ baseline \in Profile
    OBVIOUS
  <2>3. phase \in Phases
    BY DEF Phases
  <2>4. sessions \in 0..MaxSessions /\ losses \in 0..MaxLosses
    OBVIOUS
  <2>5. QED
    BY <2>1, <2>2, <2>3, <2>4 DEF TypeOK
<1>2. OkIsOnTheShaper /\ ReturnedIsStored
  BY DEF OkIsOnTheShaper, ReturnedIsStored
<1>3. AllOrNothing
  BY DEF AllOrNothing
<1>4. SavedAsAimed /\ InStep
  BY DEF SavedAsAimed, InStep, Writing
<1>5. QED
  BY <1>1, <1>2, <1>3, <1>4 DEF WriteInv

\* Two profiles that agree on every pipe are the same.
LEMMA SameProfile ==
  ASSUME NEW f \in Profile, NEW g \in Profile, \A p \in Pipes : f[p] = g[p]
  PROVE  f = g
BY DEF Profile

\* The profile a switch aims at is one of the session's two.
LEMMA AimIsAProfile ==
  ASSUME TypeOK
  PROVE  Aim \in Profile /\ Aim \in {baseline, target}
BY DEF TypeOK, Aim

\* A lost call is counted, and within the bound.
LEMMA LossIsCounted ==
  ASSUME TypeOK, Lose
  PROVE  losses' \in 0..MaxLosses /\ losses' # 0
BY WriteAssumption DEF TypeOK, Lose

\* Every step of the session and of the firewall keeps the invariant: one step of the
\* proof per action.
LEMMA StepKeepsWriteInv ==
  ASSUME WriteInv, [Next]_vars
  PROVE  WriteInv'
<1>a. TypeOK /\ OkIsOnTheShaper /\ ReturnedIsStored /\ AllOrNothing /\ SavedAsAimed /\ InStep
  BY DEF WriteInv
<1>b. Aim \in Profile /\ Aim \in {baseline, target}
  BY <1>a, AimIsAProfile
<1> USE WriteAssumption, <1>a, <1>b
<1>1. ASSUME NEW q \in Profile, Begin(q)
     PROVE  WriteInv'
  <2> USE <1>1 DEF Begin, firewall
  <2>1. TypeOK'
    <3>1. sessions' \in 0..MaxSessions
      BY DEF TypeOK
    <3>2. stored' \in Profile /\ running' \in Profile /\ originals' \in Profile
      BY DEF TypeOK
    <3>3. target' \in Profile /\ baseline' \in Profile /\ losses' \in 0..MaxLosses
      BY DEF TypeOK
    <3>4. batch' \subseteq Pipes /\ saved' \subseteq batch' /\ phase' \in Phases
      BY DEF TypeOK, Phases
    <3>5. QED
      BY <3>1, <3>2, <3>3, <3>4 DEF TypeOK
  <2>2. OkIsOnTheShaper' /\ ReturnedIsStored'
    BY DEF OkIsOnTheShaper, ReturnedIsStored
  <2>3. AllOrNothing' /\ InStep'
    BY DEF AllOrNothing, InStep
  <2>4. SavedAsAimed'
    BY DEF SavedAsAimed, Writing
  <2>5. QED
    BY <2>1, <2>2, <2>3, <2>4 DEF WriteInv
<1>2. CASE Plan
  <2> USE <1>2 DEF Plan, Return, firewall, plan
  <2>1. TypeOK'
    BY DEF TypeOK, Phases
  <2>2. OkIsOnTheShaper' /\ ReturnedIsStored'
    BY SameProfile DEF TypeOK, OkIsOnTheShaper, ReturnedIsStored, Switched, Aim
  <2>3. AllOrNothing' /\ InStep'
    BY DEF AllOrNothing, InStep
  <2>4. SavedAsAimed'
    BY DEF SavedAsAimed, Aim
  <2>5. QED
    BY <2>1, <2>2, <2>3, <2>4 DEF WriteInv
<1>3. CASE ReadFails
  <2> USE <1>3 DEF ReadFails, Fail, firewall, plan
  <2>1. TypeOK'
    BY LossIsCounted DEF TypeOK, Phases
  <2>2. OkIsOnTheShaper' /\ ReturnedIsStored'
    BY DEF OkIsOnTheShaper, ReturnedIsStored
  <2>3. AllOrNothing' /\ InStep'
    BY LossIsCounted DEF AllOrNothing, InStep
  <2>4. SavedAsAimed'
    BY DEF SavedAsAimed, Writing
  <2>5. QED
    BY <2>1, <2>2, <2>3, <2>4 DEF WriteInv
<1>4. CASE Check
  <2> USE <1>4 DEF Check, Fail, firewall, plan
  <2>1. TypeOK'
    BY DEF TypeOK, Phases
  <2>2. OkIsOnTheShaper' /\ ReturnedIsStored'
    BY DEF OkIsOnTheShaper, ReturnedIsStored, Switched, Aim
  <2>3. AllOrNothing' /\ InStep'
    BY DEF AllOrNothing, InStep
  <2>4. SavedAsAimed'
    BY DEF SavedAsAimed, Writing
  <2>5. QED
    BY <2>1, <2>2, <2>3, <2>4 DEF WriteInv
<1>5. CASE Measured
  <2> USE <1>5 DEF Measured, firewall, plan
  <2>1. TypeOK'
    BY DEF TypeOK, Phases
  <2>2. OkIsOnTheShaper' /\ ReturnedIsStored'
    BY DEF OkIsOnTheShaper, ReturnedIsStored, Switched
  <2>3. AllOrNothing' /\ InStep'
    BY DEF AllOrNothing, InStep
  <2>4. SavedAsAimed'
    BY DEF SavedAsAimed, Writing
  <2>5. QED
    BY <2>1, <2>2, <2>3, <2>4 DEF WriteInv
<1>6. CASE Read
  <2> USE <1>6 DEF Read, Unanswered, Fail, firewall, plan
  <2>1. TypeOK'
    BY LossIsCounted DEF TypeOK, Phases
  <2>2. OkIsOnTheShaper' /\ ReturnedIsStored'
    BY DEF OkIsOnTheShaper, ReturnedIsStored, Switched
  <2>3. AllOrNothing' /\ InStep'
    BY LossIsCounted DEF AllOrNothing, InStep
  <2>4. SavedAsAimed'
    BY DEF SavedAsAimed, Writing, Aim
  <2>5. QED
    BY <2>1, <2>2, <2>3, <2>4 DEF WriteInv
<1>7. CASE SaveRejected
  <2> USE <1>7 DEF SaveRejected, firewall, plan
  <2>1. TypeOK'
    BY DEF TypeOK, Phases
  <2>2. OkIsOnTheShaper' /\ ReturnedIsStored'
    BY DEF OkIsOnTheShaper, ReturnedIsStored, Switched
  <2>3. AllOrNothing' /\ InStep'
    BY DEF AllOrNothing, InStep
  <2>4. SavedAsAimed'
    BY DEF SavedAsAimed, Writing, Aim
  <2>5. QED
    BY <2>1, <2>2, <2>3, <2>4 DEF WriteInv
<1>8. CASE PutBack
  <2> USE <1>8 DEF PutBack, Fail, plan, Profile
  <2>1. TypeOK'
    BY LossIsCounted DEF TypeOK, Phases
  <2>2. OkIsOnTheShaper' /\ ReturnedIsStored'
    BY DEF OkIsOnTheShaper, ReturnedIsStored
  <2>3. AllOrNothing' /\ InStep'
    BY LossIsCounted DEF TypeOK, AllOrNothing, InStep
  <2>4. SavedAsAimed'
    BY DEF SavedAsAimed, Writing
  <2>5. QED
    BY <2>1, <2>2, <2>3, <2>4 DEF WriteInv
<1>9. ASSUME NEW q \in Pipes, Save(q)
     PROVE  WriteInv'
  <2> USE <1>9 DEF Save, plan, Profile
  <2>1. TypeOK'
    BY DEF TypeOK, Phases
  <2>2. OkIsOnTheShaper' /\ ReturnedIsStored'
    BY DEF OkIsOnTheShaper, ReturnedIsStored, Switched
  <2>3. AllOrNothing' /\ InStep'
    BY DEF TypeOK, AllOrNothing, InStep, SavedAsAimed, Writing
  <2>4. SavedAsAimed'
    BY DEF TypeOK, SavedAsAimed, Writing, Aim
  <2>5. QED
    BY <2>1, <2>2, <2>3, <2>4 DEF WriteInv
<1>10. ASSUME NEW q \in Pipes, SaveLost(q)
     PROVE  WriteInv'
  <2> USE <1>10 DEF SaveLost, Unanswered, Fail, plan, Profile
  <2>1. TypeOK'
    BY LossIsCounted DEF TypeOK, Phases
  <2>2. OkIsOnTheShaper' /\ ReturnedIsStored'
    BY DEF OkIsOnTheShaper, ReturnedIsStored, Switched
  <2>3. AllOrNothing' /\ InStep'
    BY LossIsCounted DEF AllOrNothing, InStep
  <2>4. SavedAsAimed'
    BY DEF TypeOK, SavedAsAimed, Writing, Aim
  <2>5. QED
    BY <2>1, <2>2, <2>3, <2>4 DEF WriteInv
<1>11. CASE Reload
  <2> USE <1>11 DEF Reload, Return, plan
  <2>1. TypeOK'
    BY DEF TypeOK, Phases
  <2>2. OkIsOnTheShaper' /\ ReturnedIsStored'
    BY SameProfile DEF TypeOK, OkIsOnTheShaper, ReturnedIsStored, SavedAsAimed, Writing, Aim
  <2>3. AllOrNothing' /\ InStep'
    BY DEF AllOrNothing, InStep
  <2>4. SavedAsAimed'
    BY DEF SavedAsAimed, Writing
  <2>5. QED
    BY <2>1, <2>2, <2>3, <2>4 DEF WriteInv
<1>12. CASE ReloadLost
  <2> USE <1>12 DEF ReloadLost, Unanswered, Fail, plan
  <2>1. TypeOK'
    BY LossIsCounted DEF TypeOK, Phases
  <2>2. OkIsOnTheShaper' /\ ReturnedIsStored'
    BY DEF OkIsOnTheShaper, ReturnedIsStored, Switched
  <2>3. AllOrNothing' /\ InStep'
    BY LossIsCounted DEF AllOrNothing, InStep
  <2>4. SavedAsAimed'
    BY DEF SavedAsAimed, Writing, Aim
  <2>5. QED
    BY <2>1, <2>2, <2>3, <2>4 DEF WriteInv
<1>13. CASE ReloadEnds
  <2> USE <1>13 DEF ReloadEnds, plan
  <2>1. TypeOK'
    BY DEF TypeOK
  <2>2. OkIsOnTheShaper' /\ ReturnedIsStored'
    BY DEF OkIsOnTheShaper, ReturnedIsStored, Switched, Aim
  <2>3. AllOrNothing' /\ InStep'
    BY DEF AllOrNothing, InStep
  <2>4. SavedAsAimed'
    BY DEF SavedAsAimed, Aim
  <2>5. QED
    BY <2>1, <2>2, <2>3, <2>4 DEF WriteInv
<1>14. CASE Verify
  <2> USE <1>14 DEF Verify, Return, Fail, firewall, plan
  <2>1. TypeOK'
    BY LossIsCounted DEF TypeOK, Phases
  <2>2. OkIsOnTheShaper' /\ ReturnedIsStored'
    BY SameProfile DEF TypeOK, OkIsOnTheShaper, ReturnedIsStored, SavedAsAimed, Writing, Aim
  <2>3. AllOrNothing' /\ InStep'
    BY LossIsCounted DEF AllOrNothing, InStep
  <2>4. SavedAsAimed'
    BY DEF SavedAsAimed, Writing
  <2>5. QED
    BY <2>1, <2>2, <2>3, <2>4 DEF WriteInv
<1>15. CASE UNCHANGED vars
  <2> USE <1>15 DEF vars, firewall, plan
  <2>1. TypeOK'
    BY DEF TypeOK
  <2>2. OkIsOnTheShaper' /\ ReturnedIsStored'
    BY DEF OkIsOnTheShaper, ReturnedIsStored, Switched, Aim
  <2>3. AllOrNothing' /\ InStep'
    BY DEF AllOrNothing, InStep
  <2>4. SavedAsAimed'
    BY DEF SavedAsAimed, Aim
  <2>5. QED
    BY <2>1, <2>2, <2>3, <2>4 DEF WriteInv
<1>16. QED
  BY <1>1, <1>2, <1>3, <1>4, <1>5, <1>6, <1>7, <1>8,
     <1>9, <1>10, <1>11, <1>12, <1>13, <1>14, <1>15 DEF Next

\* The invariant of the write path holds for ever.
THEOREM WriteInvariant == Spec => []WriteInv
<1>1. Init => WriteInv
  BY InitEstablishesWriteInv
<1>2. WriteInv /\ [Next]_vars => WriteInv'
  BY StepKeepsWriteInv
<1>3. QED
  BY <1>1, <1>2, PTL DEF Spec

\* Whatever the firewall answers, every variable keeps its type: what a call saved is part
\* of its batch, and every configuration gives each pipe a value.
THEOREM WriteTypes == Spec => []TypeOK
<1>1. WriteInv => TypeOK
  BY DEF WriteInv
<1>2. QED
  BY WriteInvariant, <1>1, PTL

\* apply_changes: a switch the firewall answered is on the shaper, on every pipe, for as
\* long as the session measures, and after it has restored.
THEOREM AnsweredIsOnTheShaper == Spec => []OkIsOnTheShaper
<1>1. WriteInv => OkIsOnTheShaper
  BY DEF WriteInv
<1>2. QED
  BY WriteInvariant, <1>1, PTL

\* ResilientProvider._write: a switch that did not raise is stored, also when its answer
\* was lost and it was only verified.
THEOREM ReturnedIsStoredAlways == Spec => []ReturnedIsStored
<1>1. WriteInv => ReturnedIsStored
  BY DEF WriteInv
<1>2. QED
  BY WriteInvariant, <1>1, PTL

\* apply_many: while every call is answered, rejections included, the shaper is on one of
\* the two profiles and no half-saved configuration is left behind.
THEOREM RejectionLeavesNoMix == Spec => []AllOrNothing
<1>1. WriteInv => AllOrNothing
  BY DEF WriteInv
<1>2. QED
  BY WriteInvariant, <1>1, PTL

------------------------------------------------------------------------------
(* The follower: who leads, and where a check is. *)

\* The best of some profiles is one of them, and none has a higher Overall.
LEMMA LeadsIsBest ==
  ASSUME FollowerAssumption, NEW s \in [Profiles -> Standings], NEW S \in SUBSET Profiles, S # {}
  PROVE  Leads(s, S) \in S /\ \A q \in S : s[q] <= s[Leads(s, S)]
<1> DEFINE Less == {ss \in Nat \X Nat : ss[1] < ss[2]}
           Gaps == {MaxOverall - s[q] : q \in S}
<1>0. MaxOverall \in Nat /\ \A q \in S : s[q] \in (-MaxOverall)..MaxOverall
  BY DEF FollowerAssumption
<1>1. IsWellFoundedOn(Less, Nat)
  BY NatLessThanWellFounded, Zenon DEF OpToRel
<1>2. Gaps \in SUBSET Nat /\ Gaps # {}
  <2>1. \A q \in S : MaxOverall - s[q] \in Nat
    BY <1>0, SMT
  <2>2. QED
    BY <2>1, SMT
<1>3. PICK t \in Gaps : \A u \in Gaps : ~(<<u, t>> \in Less)
  <2> HIDE DEF Gaps
  <2> QED
    BY <1>1, <1>2, WFMin, Zenon
<1>4. PICK m \in S : t = MaxOverall - s[m]
  BY <1>3
<1>5. \A q \in S : s[q] <= s[m]
  <2> SUFFICES ASSUME NEW q \in S PROVE s[q] <= s[m]
    OBVIOUS
  <2>1. ~(<<MaxOverall - s[q], t>> \in Less) /\ MaxOverall - s[q] \in Nat /\ t \in Nat
    BY <1>2, <1>3
  <2>2. ~(MaxOverall - s[q] < t)
    BY <2>1
  <2>3. QED
    BY <1>0, <1>4, <2>2
<1>6. QED
  BY <1>5 DEF Leads

\* The crown is a profile or nobody, and the runner-up has an Overall.
LEMMA CrownIsKnown ==
  ASSUME FollowerAssumption, FollowerTypeOK, NEW s \in [Profiles -> Standings]
  PROVE  /\ CrownOf(s) \in Profiles \cup {None} /\ RunnerUp(s) \in Overall
         /\ \A k \in Profiles : Governing(s, k) \in Profiles
<1>1. Confident(s) \in SUBSET Profiles /\ Confident(s) \ {CrownOf(s)} \in SUBSET Profiles
  BY DEF Confident
<1>2. CrownOf(s) \in Profiles \cup {None}
  BY <1>1, LeadsIsBest DEF CrownOf
<1>3. 0 \in Overall
  BY DEF Overall, FollowerAssumption
<1>4. RunnerUp(s) \in Overall
  <2> DEFINE rest == Confident(s) \ {CrownOf(s)}
             up   == Leads(s, rest)
  <2>1. CASE rest = {}
    BY <1>3, <2>1 DEF RunnerUp
  <2>2. CASE rest # {}
    <3>1. up \in rest
      BY <1>1, <2>2, LeadsIsBest
    <3>2. up \in Profiles /\ s[up] > 0
      BY <3>1 DEF Confident
    <3>3. s[up] \in Overall
      <4> HIDE DEF up
      <4>1. s[up] \in Standings
        BY <3>2
      <4>2. MaxOverall \in Nat /\ s[up] \in (-MaxOverall)..MaxOverall
        BY <4>1 DEF FollowerAssumption
      <4>3. QED
        BY <3>2, <4>2 DEF Overall
    <3>4. QED
      BY <2>2, <3>3 DEF RunnerUp
  <2>3. QED
    BY <2>1, <2>2
<1>5. QED
  BY <1>2, <1>4 DEF Governing, FollowerTypeOK

\* What the filter keeps of a standing is an Overall.
LEMMA SizesAreOveralls ==
  ASSUME FollowerAssumption, NEW v \in Standings
  PROVE  Size(v) \in Overall
BY DEF FollowerAssumption, Size, Overall

LEMMA FingerprintIsKnown == Fingerprint(live) \in Profiles \cup {Other}
BY DEF Fingerprint

LEMMA PointMoves ==
  ASSUME FollowerTypeOK, NEW c \in Checkers, NEW r \in Point, Become(c, r)
  PROVE  /\ chk' \in [Checkers -> Point] /\ chk'[c] = r
         /\ \A d \in Checkers \ {c} : chk'[d] = chk[d]
BY DEF FollowerTypeOK, Become

\* What is at each point.
LEMMA AtPoint ==
  ASSUME FollowerTypeOK, NEW c \in Checkers
  PROVE  /\ chk[c].pc = "filter" => chk[c].queue \in SUBSET (Profiles \cup {Other})
         /\ chk[c].pc \in {"plan", "hold", "record"} => chk[c].saw \in Sight
         /\ chk[c].pc \in {"hold", "record"} => chk[c].target \in Profiles
         /\ chk[c].pc = "hold" => chk[c].up \in SUBSET Fields /\ chk[c].down \in SUBSET Fields
         /\ chk[c].pc = "record" => chk[c].on \in BOOLEAN
<1>1. chk[c] \in Point
  BY DEF FollowerTypeOK
<1>2. QED
  BY <1>1 DEF Point

\* A checker at a point without data, and one that has planned or is to record.
LEMMA PointsAre ==
  /\ \A p \in {"idle", "lock", "test", "read"} : [pc |-> p] \in Point
  /\ \A q \in SUBSET (Profiles \cup {Other}) : [pc |-> "filter", queue |-> q] \in Point
  /\ \A s \in Sight : [pc |-> "plan", saw |-> s] \in Point
  /\ \A s \in Sight, t \in Profiles, u, d \in SUBSET Fields :
       [pc |-> "hold", saw |-> s, target |-> t, up |-> u, down |-> d] \in Point
  /\ \A s \in Sight, t \in Profiles, o \in BOOLEAN :
       \A h \in {"skipped", "deferred", "applied", "error"} :
         [pc |-> "record", saw |-> s, target |-> t, how |-> h, on |-> o] \in Point
BY DEF Point

------------------------------------------------------------------------------
(* Types. *)

LEMMA SpendKeepsTypes ==
  ASSUME FollowerAssumption, FollowerTypeOK, Spend \/ Forgets
  PROVE  /\ used' \in 0..Hazards /\ 0..used \subseteq 0..used' /\ version + 1 \in 0..used'
         /\ unheard' \in BOOLEAN
<1>1. Hazards \in Nat /\ used \in 0..Hazards /\ version \in 0..used
  BY DEF FollowerAssumption, FollowerTypeOK
<1>2. used < Hazards /\ used' = used + 1
  BY DEF Spend, Forgets
<1>3. unheard' \in BOOLEAN
  BY DEF FollowerTypeOK, Spend, Forgets
<1>4. QED
  BY <1>1, <1>2, <1>3

LEMMA MovesKeepTypes ==
  ASSUME FollowerAssumption, FollowerTypeOK, NEW p \in Profiles, Moves(p) \/ RunMoves(p) \/ Stays
  PROVE  /\ standing' \in [Profiles -> Standings] /\ used' \in 0..Hazards /\ version' \in 0..used'
         /\ unheard' \in BOOLEAN
<1>1. CASE Moves(p) \/ RunMoves(p)
  BY <1>1, SpendKeepsTypes DEF FollowerTypeOK, Moves, RunMoves
<1>2. CASE Stays
  BY <1>2 DEF FollowerTypeOK, Stays, spent
<1>3. QED
  BY <1>1, <1>2

LEMMA AroundKeepsTypes ==
  ASSUME FollowerAssumption, FollowerTypeOK, Around
  PROVE  FollowerTypeOK'
<1> USE DEF world, state, spent
<1>1. CASE Backstop
  BY <1>1 DEF Backstop, FollowerTypeOK
<1>2. CASE SessionStarts
  BY <1>2, SpendKeepsTypes DEF SessionStarts, FollowerTypeOK
<1>3. CASE SessionEnds
  <2>1. champion' \in Profiles \cup {None} /\ live' \in SUBSET Fields
    BY <1>3 DEF SessionEnds, FollowerTypeOK
  <2>2. QED
    BY <1>3, <2>1 DEF SessionEnds, FollowerTypeOK
<1>4. CASE Monitoring
  <2>1. /\ standing' \in [Profiles -> Standings] /\ used' \in 0..Hazards /\ version' \in 0..used'
        /\ unheard' \in BOOLEAN
    <3>1. CASE Stays
      BY <3>1 DEF FollowerTypeOK, Stays
    <3>2. CASE \E p \in Profiles : RunMoves(p)
      BY <3>2, MovesKeepTypes
    <3>3. QED
      BY <1>4, <3>1, <3>2 DEF Monitoring
  <2>2. pending' \in SUBSET (Profiles \cup {Other})
    BY <1>4, FingerprintIsKnown DEF Monitoring
  <2>3. QED
    BY <1>4, <2>1, <2>2 DEF Monitoring, FollowerTypeOK
<1>5. CASE StartRegrade
  <2>1. /\ standing' \in [Profiles -> Standings] /\ version' \in 0..used' /\ used' \in 0..Hazards
        /\ unheard' \in BOOLEAN
    <3>1. 0 \in Standings
      BY DEF FollowerAssumption
    <3>2. CASE UNCHANGED <<standing, version>>
      BY <1>5, <3>2, SpendKeepsTypes DEF StartRegrade, FollowerTypeOK
    <3>3. CASE standing' = [p \in Profiles |-> 0] /\ version' = version + 1
      BY <1>5, <3>1, <3>3, SpendKeepsTypes DEF StartRegrade
    <3>4. QED
      BY <1>5, <3>2, <3>3 DEF StartRegrade
  <2>2. QED
    BY <1>5, <2>1 DEF StartRegrade, FollowerTypeOK
<1>6. CASE Graded
  BY <1>6 DEF Graded, FollowerTypeOK
<1>7. CASE JobEnds
  BY <1>7 DEF JobEnds, FollowerTypeOK
<1>8. CASE JobFails
  BY <1>8, SpendKeepsTypes DEF JobFails, FollowerTypeOK
<1>9. CASE Configure
  <2>1. enabled' \in BOOLEAN /\ policy' \in Policies /\ poked' \in BOOLEAN
    BY <1>9, Zenon DEF Configure, FollowerTypeOK
  <2>2. used' \in 0..Hazards /\ version' \in 0..used' /\ unheard' \in BOOLEAN
    BY <1>9, SpendKeepsTypes DEF Configure, FollowerTypeOK
  <2>3. QED
    BY <1>9, <2>1, <2>2 DEF Configure, FollowerTypeOK
<1>10. ASSUME NEW p \in Profiles, SessionRuns(p)
       PROVE  FollowerTypeOK'
  <2>1. live' \in SUBSET Fields
    BY <1>10 DEF SessionRuns, FollowerAssumption
  <2>2. session' \in [baseline : SUBSET Fields, ran : SUBSET Profiles]
    BY <1>10 DEF SessionRuns, FollowerTypeOK
  <2>3. /\ standing' \in [Profiles -> Standings] /\ used' \in 0..Hazards /\ version' \in 0..used'
        /\ unheard' \in BOOLEAN
    BY <1>10, MovesKeepTypes DEF SessionRuns
  <2>4. pending' \in SUBSET (Profiles \cup {Other})
    BY <1>10 DEF SessionRuns, FollowerTypeOK
  <2>5. QED
    BY <1>10, <2>1, <2>2, <2>3, <2>4 DEF SessionRuns, FollowerTypeOK
<1>11. ASSUME NEW p \in Profiles, GradeProfile(p)
       PROVE  FollowerTypeOK'
  BY <1>11, MovesKeepTypes DEF GradeProfile, FollowerTypeOK
<1>12. CASE ChampionGoesStale
  BY <1>12, SpendKeepsTypes DEF ChampionGoesStale, FollowerTypeOK
<1>13. QED
  BY <1>1, <1>2, <1>3, <1>4, <1>5, <1>6, <1>7, <1>8, <1>9, <1>10, <1>11, <1>12 DEF Around

\* A checker that only moves on, the pipeline and the queue being whatever they are.
LEMMA StepMoves ==
  ASSUME FollowerTypeOK, NEW c \in Checkers, NEW r \in Point, Become(c, r),
         UNCHANGED <<standing, version, regrade, owner, session, champion, policy, enabled>>,
         live' \in SUBSET Fields, pending' \in SUBSET (Profiles \cup {Other}),
         used' \in 0..Hazards, 0..used \subseteq 0..used', unheard' \in BOOLEAN,
         poked' \in BOOLEAN, retry' \in BOOLEAN, lock' \in Checkers \cup {None},
         ledger' \in Profiles \cup {None},
         cache' \in [version : -1..Hazards, crown : Profiles \cup {None}, overall : Overall,
                     runnerUp : Overall, live : Profiles \cup {Other, None}]
  PROVE  FollowerTypeOK'
BY PointMoves DEF FollowerTypeOK

LEMMA TickKeepsTypes ==
  ASSUME FollowerAssumption, FollowerTypeOK,
         TickHolds \/ TickIsDue \/ TickFilters \/ FilterEscalates \/ FilterPasses \/ TickGivesUp
  PROVE  FollowerTypeOK'
<1> USE DEF world, state, spent
<1>t. "tick" \in Checkers /\ [pc |-> "lock"] \in Point /\ Free \in Point
  BY PointsAre DEF Checkers, Free
<1>1. CASE TickHolds
  BY <1>1 DEF TickHolds, Ticks, FollowerTypeOK
<1>2. CASE TickGivesUp
  BY <1>2, SpendKeepsTypes DEF TickGivesUp, Ticks, FollowerTypeOK
<1>3. CASE TickIsDue
  BY <1>3, <1>t, StepMoves DEF TickIsDue, Ticks, GoesFull, FollowerTypeOK
<1>4. CASE TickFilters
  <2>1. [pc |-> "filter", queue |-> pending] \in Point
    BY PointsAre DEF FollowerTypeOK
  <2>2. QED
    BY <1>4, <1>t, <2>1, StepMoves DEF TickFilters, Ticks, FollowerTypeOK
<1>5. CASE FilterEscalates
  BY <1>5, <1>t, StepMoves DEF FilterEscalates, GoesFull, FollowerTypeOK
<1>6. CASE FilterPasses
  <2>1. PICK f \in chk["tick"].queue :
          LET rest == chk["tick"].queue \ {f} IN
          /\ cache' = IF f # Other /\ OnCrown(f) THEN [cache EXCEPT !.overall = Size(standing[f])] ELSE cache
          /\ Become("tick", IF rest = {} THEN Free ELSE [pc |-> "filter", queue |-> rest])
    BY <1>6 DEF FilterPasses
  <2>2. chk["tick"].queue \in SUBSET (Profiles \cup {Other})
    BY <1>6, <1>t, AtPoint DEF FilterPasses
  <2>3. cache' \in [version : -1..Hazards, crown : Profiles \cup {None}, overall : Overall,
                    runnerUp : Overall, live : Profiles \cup {Other, None}]
    <3>1. CASE f # Other /\ OnCrown(f)
      <4>1. f \in Profiles /\ standing[f] \in Standings
        BY <2>2, <3>1 DEF FollowerTypeOK
      <4>2. Size(standing[f]) \in Overall
        BY <4>1, SizesAreOveralls
      <4>3. QED
        BY <2>1, <3>1, <4>2 DEF FollowerTypeOK
    <3>2. CASE ~(f # Other /\ OnCrown(f))
      BY <2>1, <3>2 DEF FollowerTypeOK
    <3>3. QED
      BY <3>1, <3>2
  <2>4. [pc |-> "filter", queue |-> chk["tick"].queue \ {f}] \in Point
    BY <2>2, PointsAre
  <2>5. (IF chk["tick"].queue \ {f} = {} THEN Free
         ELSE [pc |-> "filter", queue |-> chk["tick"].queue \ {f}]) \in Point
    BY <1>t, <2>4
  <2>6. QED
    BY <1>6, <1>t, <2>1, <2>3, <2>5, StepMoves DEF FilterPasses, FollowerTypeOK
<1>7. QED
  BY <1>1, <1>2, <1>3, <1>4, <1>5, <1>6

\* _cache_standings stores what a check saw.
LEMMA CachedIsTyped ==
  ASSUME FollowerAssumption, FollowerTypeOK, NEW c \in Checkers, chk[c].saw \in Sight,
         NEW l \in Profiles \cup {Other, None}
  PROVE  Cached(c, l) \in [version : -1..Hazards, crown : Profiles \cup {None}, overall : Overall,
                           runnerUp : Overall, live : Profiles \cup {Other, None}]
<1>1. RunnerUp(chk[c].saw.field) \in Overall
  BY CrownIsKnown DEF Sight
<1>2. 0 \in Overall
  BY DEF FollowerAssumption, Overall
<1>3. chk[c].saw.version \in -1..Hazards
  BY DEF Sight, FollowerAssumption
<1>4. chk[c].saw.crown # None => Size(chk[c].saw.field[chk[c].saw.crown]) \in Overall
  BY SizesAreOveralls DEF Sight
<1>5. QED
  BY <1>1, <1>2, <1>3, <1>4 DEF Cached, Sight

LEMMA EndsMoves ==
  ASSUME FollowerTypeOK, NEW c \in Checkers, chk[c].saw \in Sight, NEW t \in Profiles,
         NEW o \in BOOLEAN, NEW h \in {"skipped", "deferred", "applied", "error"}, Ends(c, t, h, o)
  PROVE  \E r \in Point : Become(c, r)
<1>1. [pc |-> "record", saw |-> chk[c].saw, target |-> t, how |-> h, on |-> o] \in Point
  BY PointsAre
<1>2. QED
  BY <1>1 DEF Ends

LEMMA CheckKeepsTypes ==
  ASSUME FollowerAssumption, FollowerTypeOK, NEW c \in Checkers, CheckStep(c) \/ Faults(c)
  PROVE  FollowerTypeOK'
<1> USE DEF world, state, spent
<1>t. /\ [pc |-> "test"] \in Point /\ [pc |-> "read"] \in Point /\ Free \in Point
      /\ 0..used \subseteq 0..used /\ used \in 0..Hazards /\ unheard \in BOOLEAN
      /\ pending \in SUBSET (Profiles \cup {Other}) /\ live \in SUBSET Fields
      /\ poked \in BOOLEAN /\ retry \in BOOLEAN /\ ledger \in Profiles \cup {None}
      /\ lock \in Checkers \cup {None}
      /\ cache \in [version : -1..Hazards, crown : Profiles \cup {None}, overall : Overall,
                    runnerUp : Overall, live : Profiles \cup {Other, None}]
  BY PointsAre DEF Free, FollowerTypeOK
<1>1. CASE Enter(c)
  BY <1>1, <1>t, StepMoves DEF Enter
<1>2. CASE CheckHolds(c)
  BY <1>2, <1>t, StepMoves DEF CheckHolds, Leave
<1>3. CASE CheckProceeds(c)
  BY <1>3, <1>t, StepMoves DEF CheckProceeds
<1>4. CASE ReadField(c)
  <2>1. [field |-> standing, crown |-> CrownOf(standing), version |-> version,
         previous |-> ledger, armed |-> enabled] \in Sight
    <3>1. CrownOf(standing) \in Profiles \cup {None}
      BY CrownIsKnown DEF FollowerTypeOK
    <3>2. version \in 0..Hazards
      BY DEF FollowerTypeOK, FollowerAssumption
    <3>3. QED
      BY <3>1, <3>2 DEF FollowerTypeOK, Sight
  <2>2. QED
    BY <1>4, <1>t, <2>1, PointsAre, StepMoves DEF ReadField
<1>5. CASE ReadRaises(c)
  BY <1>5, <1>t, SpendKeepsTypes, StepMoves DEF ReadRaises, Leave
<1>6. CASE Vacant(c)
  <2>1. Cached(c, None) \in [version : -1..Hazards, crown : Profiles \cup {None}, overall : Overall,
                             runnerUp : Overall, live : Profiles \cup {Other, None}]
    BY <1>6, AtPoint, CachedIsTyped DEF Vacant
  <2>2. QED
    BY <1>6, <1>t, <2>1, StepMoves DEF Vacant, Leave
<1>7. CASE PlanWrite(c)
  <2> DEFINE aim == Governing(chk[c].saw.field, chk[c].saw.crown)
  <2>1. chk[c].saw \in Sight /\ aim \in Profiles
    BY <1>7, AtPoint, CrownIsKnown DEF PlanWrite, Sight
  <2>2. Setting[aim] \in SUBSET Fields
    BY <2>1 DEF FollowerAssumption
  <2>3. \E r \in Point : Become(c, r)
    <3>1. CASE Ends(c, aim, "skipped", live = Setting[aim])
      BY <2>1, <3>1, EndsMoves
    <3>2. CASE Become(c, [pc |-> "hold", saw |-> chk[c].saw, target |-> aim,
                          up |-> Setting[aim] \ live, down |-> live \ Setting[aim]])
      BY <1>t, <2>1, <2>2, <3>2, PointsAre
    <3>3. QED
      BY <1>7, <3>1, <3>2 DEF PlanWrite
  <2>4. QED
    BY <1>7, <1>t, <2>3, StepMoves DEF PlanWrite
<1>8. CASE DiscoveryFails(c)
  <2>1. chk[c].saw \in Sight /\ Governing(chk[c].saw.field, chk[c].saw.crown) \in Profiles
    BY <1>8, AtPoint, CrownIsKnown DEF DiscoveryFails, Sight
  <2>2. \E r \in Point : Become(c, r)
    BY <1>8, <2>1, EndsMoves DEF DiscoveryFails
  <2>3. QED
    BY <1>8, <1>t, <2>2, SpendKeepsTypes, StepMoves DEF DiscoveryFails
<1>9. CASE Deferred(c)
  <2>1. \E r \in Point : Become(c, r)
    BY <1>9, AtPoint, EndsMoves DEF Deferred
  <2>2. QED
    BY <1>9, <1>t, <2>1, StepMoves DEF Deferred
<1>10. CASE Apply(c)
  <2>1. live' \in SUBSET Fields /\ \E r \in Point : Become(c, r)
    <3>1. chk[c].up \in SUBSET Fields /\ chk[c].saw \in Sight /\ chk[c].target \in Profiles
      BY <1>10, AtPoint DEF Apply
    <3>2. live' \in SUBSET Fields
      BY <1>10, <1>t, <3>1 DEF Apply, Written
    <3>3. Ends(c, chk[c].target, "applied", TRUE) \/ Ends(c, chk[c].target, "error", FALSE)
      BY <1>10 DEF Apply
    <3>4. QED
      BY <3>1, <3>2, <3>3, EndsMoves
  <2>2. QED
    BY <1>10, <1>t, <2>1, StepMoves DEF Apply
<1>11. CASE ApplyFails(c)
  <2>1. live' \in SUBSET Fields /\ \E r \in Point : Become(c, r)
    <3>1. chk[c].up \in SUBSET Fields /\ chk[c].saw \in Sight /\ chk[c].target \in Profiles
      BY <1>11, AtPoint DEF ApplyFails
    <3>2. live' \in SUBSET Fields
      BY <1>11, <1>t, <3>1 DEF ApplyFails
    <3>3. QED
      BY <1>11, <3>1, <3>2, EndsMoves DEF ApplyFails
  <2>2. QED
    BY <1>11, <1>t, <2>1, SpendKeepsTypes, StepMoves DEF ApplyFails
<1>12. CASE Record(c)
  <2>1. chk[c].saw \in Sight
    BY <1>12, AtPoint DEF Record
  <2>2. ledger' \in Profiles \cup {None}
    BY <1>12, <1>t, <2>1 DEF Record, Sight
  <2>3. cache' \in [version : -1..Hazards, crown : Profiles \cup {None}, overall : Overall,
                    runnerUp : Overall, live : Profiles \cup {Other, None}]
    BY <1>12, <2>1, AtPoint, CachedIsTyped DEF Record
  <2>4. retry' \in BOOLEAN
    BY <1>12, <1>t, <2>1 DEF Record, Sight
  <2>5. QED
    BY <1>12, <1>t, <2>2, <2>3, <2>4, StepMoves DEF Record, Leave
<1>13. QED
  BY <1>1, <1>2, <1>3, <1>4, <1>5, <1>6, <1>7, <1>8, <1>9, <1>10, <1>11, <1>12
     DEF CheckStep, Faults

------------------------------------------------------------------------------
(* The ledger and the firewall. *)

Inside == {"test", "read", "plan", "hold", "record"}
Holding == {"plan", "hold", "record"}

\* What happens around the checks, and the tick on its way to one.
LEMMA OutsideKeepsLedger ==
  ASSUME FollowerInv,
         \/ Around \/ TickGivesUp \/ Sync
         \/ TickHolds \/ TickIsDue \/ TickFilters \/ FilterEscalates \/ FilterPasses
  PROVE  /\ lock' = lock /\ ledger' = ledger
         /\ \A c \in Checkers :
              chk'[c] = chk[c] \/ (chk[c].pc \notin Inside /\ chk'[c].pc \notin Inside)
<1> USE DEF world, state, Inside
<1>t. chk \in [Checkers -> Point] /\ {"tick", "sync"} = Checkers
  BY DEF FollowerInv, FollowerTypeOK, Checkers
<1>1. CASE Around
  <2>1. chk' = chk /\ lock' = lock /\ ledger' = ledger
    BY <1>1 DEF Around, Backstop, SessionStarts, SessionEnds, Monitoring, StartRegrade, Graded,
                JobEnds, JobFails, Configure, SessionRuns, GradeProfile, ChampionGoesStale
  <2>2. QED
    BY <2>1
<1>2. CASE TickGivesUp \/ TickHolds
  BY <1>2 DEF TickGivesUp, TickHolds
<1>3. CASE TickIsDue
  BY <1>3, <1>t DEF TickIsDue, Ticks, GoesFull, Become
<1>4. CASE TickFilters
  BY <1>4, <1>t DEF TickFilters, Ticks, Become
<1>5. CASE FilterEscalates
  BY <1>5, <1>t DEF FilterEscalates, GoesFull, Become
<1>6. CASE FilterPasses
  BY <1>6, <1>t DEF FilterPasses, Become, Free
<1>7. CASE Sync
  BY <1>7, <1>t DEF Sync, Become
<1>8. QED
  BY <1>1, <1>2, <1>3, <1>4, <1>5, <1>6, <1>7

\* A step of a check: it enters while nobody holds the lock, goes on inside, or leaves.
LEMMA CheckFollowsLock ==
  ASSUME FollowerInv, NEW c \in Checkers, CheckStep(c) \/ Faults(c)
  PROVE  /\ \A d \in Checkers \ {c} : chk'[d] = chk[d]
         /\ \/ lock = None /\ lock' = c /\ ledger' = ledger /\ chk'[c].pc = "test"
            \/ /\ chk[c].pc \in Inside /\ lock' = lock /\ ledger' = ledger
               /\ chk'[c].pc \in Holding =>
                    \/ chk[c].pc \in Holding /\ chk'[c].saw = chk[c].saw
                    \/ chk'[c].saw.previous = ledger
            \/ chk[c].pc \in Inside /\ lock' = None /\ chk'[c].pc = "idle"
<1> USE DEF world, state, Inside, Holding
<1>t. chk \in [Checkers -> Point]
  BY DEF FollowerInv, FollowerTypeOK
<1>1. CASE Enter(c)
  BY <1>1, <1>t DEF Enter, Become
<1>2. CASE CheckHolds(c) \/ ReadRaises(c) \/ Vacant(c) \/ Record(c)
  <2>1. chk[c].pc \in Inside /\ Leave(c)
    BY <1>2 DEF CheckHolds, ReadRaises, Vacant, Record
  <2>2. QED
    BY <1>t, <2>1 DEF Leave, Become, Free
<1>3. CASE CheckProceeds(c)
  BY <1>3, <1>t DEF CheckProceeds, Become
<1>4. CASE ReadField(c)
  BY <1>4, <1>t DEF ReadField, Become
<1>5. CASE PlanWrite(c)
  BY <1>5, <1>t DEF PlanWrite, Ends, Become
<1>6. CASE DiscoveryFails(c)
  BY <1>6, <1>t DEF DiscoveryFails, Ends, Become
<1>7. CASE Deferred(c)
  BY <1>7, <1>t DEF Deferred, Ends, Become
<1>8. CASE Apply(c)
  BY <1>8, <1>t DEF Apply, Ends, Become
<1>9. CASE ApplyFails(c)
  BY <1>9, <1>t DEF ApplyFails, Ends, Become
<1>10. QED
  BY <1>1, <1>2, <1>3, <1>4, <1>5, <1>6, <1>7, <1>8, <1>9 DEF CheckStep, Faults

LEMMA StepKeepsFollowerInv ==
  ASSUME FollowerAssumption, FollowerInv, [FollowerNext]_followerVars
  PROVE  FollowerInv'
<1>1. CASE UNCHANGED followerVars
  BY <1>1 DEF FollowerInv, FollowerTypeOK, InsideHolds, SawTheLedger, followerVars, world, state, spent
<1>2. CASE \/ Around \/ TickGivesUp \/ Sync
           \/ TickHolds \/ TickIsDue \/ TickFilters \/ FilterEscalates \/ FilterPasses
  <2>1. FollowerTypeOK'
    <3>1. CASE Sync
      <4>1. "sync" \in Checkers /\ [pc |-> "lock"] \in Point
        BY PointsAre DEF Checkers
      <4>2. QED
        BY <3>1, <4>1, SpendKeepsTypes, StepMoves DEF Sync, FollowerInv, FollowerTypeOK, world, state
    <3>2. QED
      BY <1>2, <3>1, AroundKeepsTypes, TickKeepsTypes DEF FollowerInv
  <2>2. InsideHolds' /\ SawTheLedger'
    BY <1>2, OutsideKeepsLedger DEF FollowerInv, InsideHolds, SawTheLedger, Inside
  <2>3. QED
    BY <2>1, <2>2 DEF FollowerInv
<1>3. ASSUME NEW c \in Checkers, CheckStep(c) \/ Faults(c)
      PROVE  FollowerInv'
  <2>1. FollowerTypeOK'
    BY <1>3, CheckKeepsTypes DEF FollowerInv
  <2>2. /\ None \notin Checkers
        /\ \A d \in Checkers : chk[d].pc \in Inside => lock = d
        /\ \A d \in Checkers : chk[d].pc \in Holding => chk[d].saw.previous = ledger
    BY DEF FollowerAssumption, FollowerInv, InsideHolds, SawTheLedger, Inside, Holding, Checkers
  <2>3. /\ \A d \in Checkers : chk'[d].pc \in Inside => lock' = d
        /\ \A d \in Checkers : chk'[d].pc \in Holding => chk'[d].saw.previous = ledger'
    BY <1>3, <2>2, CheckFollowsLock DEF Inside, Holding
  <2>4. QED
    BY <2>1, <2>3 DEF FollowerInv, InsideHolds, SawTheLedger, Inside, Holding
<1>4. QED
  BY <1>1, <1>2, <1>3 DEF FollowerNext, Tick, Checkers

LEMMA InitEstablishesFollowerInv ==
  ASSUME FollowerAssumption, FollowerInit
  PROVE  FollowerInv
<1> USE FollowerAssumption DEF FollowerInit
<1>1. Free \in Point /\ chk = [c \in Checkers |-> Free] /\ 0 \in Overall
  BY PointsAre DEF Free, Overall
<1>2. FollowerTypeOK
  <2>1. standing \in [Profiles -> Standings] /\ policy \in Policies /\ enabled \in BOOLEAN
        /\ live \in SUBSET Fields
    BY DEF Overall
  <2>2. cache \in [version : -1..Hazards, crown : Profiles \cup {None}, overall : Overall,
                   runnerUp : Overall, live : Profiles \cup {Other, None}]
    BY <1>1 DEF NoCache
  <2>3. chk \in [Checkers -> Point]
    BY <1>1
  <2>4. used \in 0..Hazards /\ version \in 0..used
    OBVIOUS
  <2>5. session \in [baseline : SUBSET Fields, ran : SUBSET Profiles]
    OBVIOUS
  <2>6. QED
    BY <2>1, <2>2, <2>3, <2>4, <2>5 DEF FollowerTypeOK
<1>3. InsideHolds /\ SawTheLedger
  BY <1>1 DEF InsideHolds, SawTheLedger, Free
<1>4. QED
  BY <1>2, <1>3 DEF FollowerInv

\* For any profiles, settings, policies and hazards: who is inside a check has its lock, and
\* what it saw of the ledger is still there.
THEOREM SpecKeepsFollowerInv == FollowerSpec => []FollowerInv
<1>1. FollowerInit => FollowerInv
  BY InitEstablishesFollowerInv, FollowerAssumption
<1>2. FollowerInv /\ [FollowerNext]_followerVars => FollowerInv'
  BY StepKeepsFollowerInv, FollowerAssumption
<1>3. QED
  BY <1>1, <1>2, PTL DEF FollowerSpec

\* _do_check under _check_lock: a change of the crown is recorded against the crown recorded
\* last, though the scheduler and a request check at the same time.
THEOREM LedgerStaysAHistory == FollowerSpec => LedgerIsAHistory
<1>1. FollowerInv /\ [FollowerNext]_followerVars =>
        [\A c \in Checkers : Record(c) => chk[c].saw.previous = ledger]_followerVars
  BY DEF FollowerInv, SawTheLedger, Record
<1>2. QED
  BY <1>1, SpecKeepsFollowerInv, PTL DEF FollowerSpec, LedgerIsAHistory
=============================================================================
