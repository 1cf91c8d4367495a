--------------------------- MODULE StandingsProofs ---------------------------
(***************************************************************************)
(* Proofs about what the standings are made of.                            *)
(*                                                                         *)
(* Belt, for any profiles, margins, configurations and caps: every match   *)
(* ends, its verdict favours neither side, and the title changes hands     *)
(* only by a bout that earned it.                                          *)
(*                                                                         *)
(* FieldCache, for any callers, runs, writes, publishes and passes that    *)
(* raise: nobody waits for a flight that has landed, a stored rollup that  *)
(* is served was true during the call, and so was a field of the memo,     *)
(* unless it is of a pass that outlasted a drop.                           *)
(***************************************************************************)
EXTENDS Belt, FieldCache, FunctionTheorems, FiniteSetTheorems, WellFoundedInduction, TLAPS

-----------------------------------------------------------------------------
(* The matches. *)

\* The walk, the tie-break and the side of a round always name an outcome.
LEMMA NarrowIsAVerdict ==
  ASSUME NEW s
  PROVE  Narrow(s) \in {"challenger", "incumbent", "draw"}
BY DEF Narrow

\* The sequential test leaves no match open at the cap, and no cap lies below its floor.
LEMMA SprtEndsAtTheCap ==
  ASSUME NEW s, Len(s) \in Nat, Len(s) >= MaxPairs
  PROVE  Sprt(s) \in {"challenger", "incumbent", "draw"}
<1>1. ~(Len(s) < MinPairs)
  BY BeltAssumption
<1>2. QED
  BY <1>1 DEF Sprt

\* Neither rule does: _adjudicate falls back on the side ahead (duel.py:3312), the wins-only
\* rule on the sequential test, whose verdict it turns into a draw or into the side ahead.
LEMMA AdjudicateEndsAtTheCap ==
  ASSUME NEW s, Len(s) \in Nat, Adjudicate(s) = "open"
  PROVE  Len(s) < MaxPairs
<1> SUFFICES ASSUME ~(Len(s) < MaxPairs) PROVE FALSE
  OBVIOUS
<1>1. Len(s) >= MaxPairs
  BY BeltAssumption
<1>2. Narrow(s) # "open"
  BY NarrowIsAVerdict
<1>3. CASE rules.method = "pair_wins"
  <2>1. Sprt(s) \in {"challenger", "incumbent", "draw"}
    BY <1>1, SprtEndsAtTheCap
  <2>2. PairWins(s) = "open"
    BY <1>3 DEF Adjudicate
  <2>3. QED
    BY <2>1, <2>2, <1>2 DEF PairWins, Sided
<1>4. CASE rules.method # "pair_wins"
  <2>1. Paired(s) = "open"
    BY <1>4 DEF Adjudicate
  <2>2. QED
    BY <2>1, <1>1, <1>2 DEF Paired, Sided
<1>5. QED
  BY <1>3, <1>4

\* A match in progress has its rounds, all of them real ones, and fewer than the cap.
MatchInv ==
  /\ session \in Nat /\ rules \in Rules
  /\ match # NoMatch =>
       /\ match \in [ref : Profiles, cha : Profiles, since : Nat, margins : Seq(Margins)]
       /\ Len(match.margins) < MaxPairs

\* Every step keeps it: one step of the proof per action.
LEMMA StepKeepsMatchInv ==
  ASSUME MatchInv, [Next]_vars
  PROVE  MatchInv'
<1> USE BeltAssumption DEF MatchInv
<1>1. CASE NewSession
  BY <1>1 DEF NewSession
<1>2. ASSUME NEW ref \in Profiles, NEW cha \in Profiles, Seat(ref, cha) PROVE MatchInv'
  <2>1. match' = [ref |-> ref, cha |-> cha, since |-> session, margins |-> <<>>]
    BY <1>2 DEF Seat
  <2>2. match'.margins = <<>> /\ session' = session /\ rules' = rules
    BY <1>2, <2>1 DEF Seat
  <2>3. QED
    BY <2>1, <2>2
<1>3. CASE Round
  <2>1. PICK x \in Margins :
          LET s == Append(match.margins, x) IN
          IF Adjudicate(s) = "open"
          THEN match' = [match EXCEPT !.margins = s] /\ UNCHANGED ledger
          ELSE Close(s, Adjudicate(s))
    BY <1>3 DEF Round
  <2> DEFINE s == Append(match.margins, x)
  <2>2. s \in Seq(Margins) /\ Len(s) \in Nat
    BY <1>3 DEF Round
  <2>3. CASE Adjudicate(s) = "open"
    <3>1. Len(s) < MaxPairs
      BY <2>2, <2>3, AdjudicateEndsAtTheCap
    <3>2. match' = [match EXCEPT !.margins = s]
      BY <2>1, <2>3
    <3>3. match'.margins = s
      BY <3>2, <1>3 DEF Round
    <3>4. session' = session
      BY <1>3 DEF Round
    <3>5. QED
      BY <1>3, <2>2, <3>1, <3>2, <3>3, <3>4 DEF Round
  <2>4. CASE Adjudicate(s) # "open"
    BY <1>3, <2>1, <2>4 DEF Close, Round
  <2>5. QED
    BY <2>3, <2>4
<1>4. CASE Dismiss
  BY <1>4 DEF Dismiss, Close
<1>5. CASE Abort
  BY <1>5 DEF Abort, Close
<1>6. CASE UNCHANGED vars
  BY <1>6 DEF vars
<1>7. QED
  BY <1>1, <1>2, <1>3, <1>4, <1>5, <1>6 DEF Next

\* Every match is over at its cap, whatever the tests and the floor make of its rounds
\* (SprtState.decision and _adjudicate of duel.py).
THEOREM EveryMatchEnds == Spec => []MatchesEnd
<1>1. Init => MatchInv
  BY DEF Init, MatchInv
<1>2. MatchInv /\ [Next]_vars => MatchInv'
  BY StepKeepsMatchInv
<1>3. MatchInv => MatchesEnd
  BY DEF MatchInv, MatchesEnd
<1>4. QED
  BY <1>1, <1>2, <1>3, PTL DEF Spec

-----------------------------------------------------------------------------
(* The other side of a match. *)

\* The same rounds seen from the other side.
Mirror(s) == Times(s, -1)

LEMMA TimesIsASequence ==
  ASSUME NEW s \in Seq(Int), NEW k \in Int
  PROVE  /\ Times(s, k) \in Seq(Int) /\ Len(Times(s, k)) = Len(s)
         /\ DOMAIN Times(s, k) = DOMAIN s /\ DOMAIN s = 1..Len(s) /\ Len(s) \in Nat
         /\ \A i \in DOMAIN s : Times(s, k)[i] = k * s[i] /\ s[i] \in Int
<1>1. DOMAIN s = 1..Len(s) /\ Len(s) \in Nat /\ \A i \in DOMAIN s : s[i] \in Int
  OBVIOUS
<1>2. Times(s, k) = [i \in 1..Len(s) |-> k * s[i]]
  BY <1>1 DEF Times
<1>3. \A i \in 1..Len(s) : k * s[i] \in Int
  BY <1>1
<1>4. Times(s, k) \in Seq(Int) /\ Len(Times(s, k)) = Len(s)
  BY <1>1, <1>2, <1>3
<1>5. QED
  BY <1>1, <1>2, <1>4

LEMMA MirrorIsASequence ==
  ASSUME NEW s \in Seq(Int)
  PROVE  /\ Mirror(s) \in Seq(Int) /\ Len(Mirror(s)) = Len(s)
         /\ DOMAIN Mirror(s) = DOMAIN s /\ DOMAIN s = 1..Len(s) /\ Len(s) \in Nat
         /\ \A i \in DOMAIN s : Mirror(s)[i] = -s[i] /\ s[i] \in Int
BY TimesIsASequence DEF Mirror

\* Seen from the other side in the other direction, they are the same.
LEMMA MirrorTurnsBack ==
  ASSUME NEW s \in Seq(Int), NEW k \in {-1, 1}
  PROVE  Times(Mirror(s), -k) = Times(s, k)
<1>1. DOMAIN s = DOMAIN Mirror(s) /\ \A i \in DOMAIN s : Mirror(s)[i] = -s[i] /\ s[i] \in Int
  BY MirrorIsASequence
<1>2. \A i \in DOMAIN s : (-k) * Mirror(s)[i] = k * s[i]
  BY <1>1
<1>3. QED
  BY <1>1, <1>2 DEF Times

\* Rounds are counted, and what some of them are not, the others are.
LEMMA RoundsCount ==
  ASSUME NEW s \in Seq(Int), NEW T \in SUBSET DOMAIN s
  PROVE  /\ IsFiniteSet(T) /\ Cardinality(T) \in 0..Len(s)
         /\ Cardinality(DOMAIN s \ T) = Len(s) - Cardinality(T)
<1> DEFINE D == DOMAIN s
<1>1. D = 1..Len(s) /\ Len(s) \in Nat /\ T \in SUBSET D
  OBVIOUS
<1> HIDE DEF D
<1>2. IsFiniteSet(D) /\ Cardinality(D) = Len(s)
  <2>1. IsFiniteSet(1..Len(s)) /\ Cardinality(1..Len(s)) = IF 1 > Len(s) THEN 0 ELSE Len(s) - 1 + 1
    BY <1>1, FS_Interval
  <2>2. QED
    BY <1>1, <2>1
<1>3. IsFiniteSet(T) /\ Cardinality(T) <= Cardinality(D)
  BY <1>1, <1>2, FS_Subset
<1>4. Cardinality(T) \in Nat
  BY <1>3, FS_CardinalityType
<1>5. Cardinality(D \ T) = Cardinality(D) - Cardinality(D \cap T) /\ D \cap T = T
  BY <1>1, <1>2, FS_Difference
<1>6. Cardinality(T) \in 0..Len(s)
  BY <1>1, <1>2, <1>3, <1>4
<1>7. Cardinality(D \ T) = Len(s) - Cardinality(T)
  BY <1>2, <1>5
<1>8. QED
  BY <1>3, <1>6, <1>7, Zenon DEF D

LEMMA EveryRoundCounts ==
  ASSUME NEW s \in Seq(Int)
  PROVE  Cardinality(DOMAIN s) = Len(s)
<1>1. DOMAIN s = 1..Len(s) /\ Len(s) \in Nat
  OBVIOUS
<1>2. Cardinality(1..Len(s)) = IF 1 > Len(s) THEN 0 ELSE Len(s) - 1 + 1
  BY <1>1, FS_Interval
<1>3. QED
  BY <1>1, <1>2

\* More rounds count more.
LEMMA FewerCountLess ==
  ASSUME NEW s \in Seq(Int), NEW U \in SUBSET DOMAIN s, NEW T \in SUBSET U
  PROVE  Cardinality(T) <= Cardinality(U) /\ (T # U => Cardinality(T) < Cardinality(U))
<1>1. IsFiniteSet(U) /\ IsFiniteSet(T)
  <2>1. T \in SUBSET DOMAIN s
    OBVIOUS
  <2>2. QED
    BY <2>1, RoundsCount
<1>2. Cardinality(U) \in Nat /\ Cardinality(T) \in Nat
  BY <1>1, FS_CardinalityType
<1>3. Cardinality(T) <= Cardinality(U) /\ (Cardinality(U) = Cardinality(T) => U = T)
  BY <1>1, FS_Subset
<1>4. QED
  BY <1>2, <1>3

\* Without a round of zero, the wins of one side are those of the other, seen from there.
LEMMA WinsMirror ==
  ASSUME NEW s \in Seq(Int), \A i \in DOMAIN s : s[i] # 0
  PROVE  /\ ChallengerWins(s) \in Nat /\ IncumbentWins(s) \in Nat
         /\ ChallengerWins(Mirror(s)) = IncumbentWins(s)
         /\ IncumbentWins(Mirror(s)) = ChallengerWins(s)
<1> DEFINE won == {i \in DOMAIN s : s[i] > 0}
           lost == {i \in DOMAIN Mirror(s) : Mirror(s)[i] > 0}
<1>1. /\ DOMAIN Mirror(s) = DOMAIN s /\ Len(Mirror(s)) = Len(s) /\ Len(s) \in Nat
      /\ \A i \in DOMAIN s : Mirror(s)[i] = -s[i] /\ s[i] \in Int
  BY MirrorIsASequence
<1>2. lost = DOMAIN s \ won
  <2>1. \A i \in DOMAIN s : Mirror(s)[i] > 0 <=> ~(s[i] > 0)
    BY <1>1
  <2>2. QED
    BY <1>1, <2>1
<1>3. Cardinality(won) \in 0..Len(s) /\ Cardinality(lost) = Len(s) - Cardinality(won)
  BY <1>2, RoundsCount
<1>4. ChallengerWins(s) = Cardinality(won) /\ ChallengerWins(Mirror(s)) = Cardinality(lost)
  BY DEF ChallengerWins
<1>5. QED
  BY <1>1, <1>3, <1>4 DEF IncumbentWins

-----------------------------------------------------------------------------
(* The median. *)

LEMMA BelowIsNatural ==
  ASSUME NEW s \in Seq(Int), NEW v \in Int
  PROVE  Below(s, v) \in 0..Len(s) /\ UpTo(s, v) \in 0..Len(s)
<1>1. {i \in DOMAIN s : s[i] < v} \in SUBSET DOMAIN s /\ {i \in DOMAIN s : s[i] <= v} \in SUBSET DOMAIN s
  OBVIOUS
<1>2. QED
  BY <1>1, RoundsCount DEF Below, UpTo

\* Some round has the most rounds up to it, of those that have a property.
LEMMA SomeRoundIsLast ==
  ASSUME NEW s \in Seq(Int), NEW T \in SUBSET DOMAIN s, T # {}
  PROVE  \E m \in T : \A j \in T : s[j] <= s[m]
<1> DEFINE Less == {ss \in Nat \X Nat : ss[1] < ss[2]}
           Gap(i) == Len(s) - UpTo(s, s[i])
           Gaps == {Gap(i) : i \in T}
<1>0. \A i \in DOMAIN s : s[i] \in Int /\ UpTo(s, s[i]) \in 0..Len(s)
  <2>1. \A i \in DOMAIN s : s[i] \in Int
    OBVIOUS
  <2>2. QED
    BY <2>1, BelowIsNatural, Zenon
<1>1. IsWellFoundedOn(Less, Nat)
  BY NatLessThanWellFounded, Zenon DEF OpToRel
<1>2. Gaps \in SUBSET Nat /\ Gaps # {}
  <2>1. \A i \in T : Gap(i) \in Nat
    BY <1>0
  <2>2. QED
    BY <2>1, SMT
<1>3. PICK t \in Gaps : \A u \in Gaps : ~(<<u, t>> \in Less)
  <2> HIDE DEF Gaps
  <2> QED
    BY <1>1, <1>2, WFMin, Zenon
<1>4. PICK m \in T : t = Gap(m)
  BY <1>3
<1>5. ASSUME NEW j \in T, ~(s[j] <= s[m])
      PROVE  FALSE
  <2> DEFINE before == {i \in DOMAIN s : s[i] <= s[m]}
             upto == {i \in DOMAIN s : s[i] <= s[j]}
  <2>1. before \in SUBSET upto /\ before # upto
    <3>1. s[m] \in Int /\ s[j] \in Int /\ \A i \in DOMAIN s : s[i] \in Int
      BY <1>0
    <3>2. \A i \in DOMAIN s : s[i] <= s[m] => s[i] <= s[j]
      BY <1>5, <3>1
    <3>3. j \in upto /\ j \notin before
      BY <1>5, <3>1
    <3>4. QED
      BY <3>2, <3>3
  <2>2. UpTo(s, s[m]) < UpTo(s, s[j])
    BY <2>1, FewerCountLess DEF UpTo
  <2>3. Gap(j) \in Gaps /\ Gap(j) \in Nat /\ Gap(m) \in Nat
    BY <1>2
  <2>4. Gap(j) < Gap(m)
    BY <1>0, <2>2
  <2>5. QED
    BY <1>3, <1>4, <2>3, <2>4
<1>6. QED
  BY <1>5

\* Among the values of rounds there is a k-th smallest ...
LEMMA SmallestIsThere ==
  ASSUME NEW s \in Seq(Int), NEW k \in 1..Len(s)
  PROVE  LET v == Smallest(s, k) IN
           /\ v \in Int /\ v \in {s[i] : i \in DOMAIN s}
           /\ Below(s, v) < k /\ k <= UpTo(s, v)
<1> DEFINE Late == {i \in DOMAIN s : k <= UpTo(s, s[i])}
           Less == {ss \in Nat \X Nat : ss[1] < ss[2]}
           Ups == {UpTo(s, s[i]) : i \in Late}
<1>0. /\ DOMAIN s = 1..Len(s) /\ Len(s) \in Nat /\ k \in Nat /\ k > 0 /\ DOMAIN s # {}
      /\ \A i \in DOMAIN s : s[i] \in Int /\ UpTo(s, s[i]) \in 0..Len(s)
  <2>1. DOMAIN s = 1..Len(s) /\ Len(s) \in Nat /\ k \in Nat /\ k > 0 /\ k \in DOMAIN s
        /\ \A i \in DOMAIN s : s[i] \in Int
    OBVIOUS
  <2>2. \A i \in DOMAIN s : UpTo(s, s[i]) \in 0..Len(s)
    BY <2>1, BelowIsNatural, Zenon
  <2>3. QED
    BY <2>1, <2>2
<1>1. Late # {}
  <2>1. PICK m \in DOMAIN s : \A j \in DOMAIN s : s[j] <= s[m]
    BY <1>0, SomeRoundIsLast
  <2>2. {i \in DOMAIN s : s[i] <= s[m]} = DOMAIN s
    BY <2>1
  <2>3. UpTo(s, s[m]) = Len(s)
    BY <2>2, EveryRoundCounts DEF UpTo
  <2>4. QED
    BY <1>0, <2>3
<1>2. IsWellFoundedOn(Less, Nat)
  BY NatLessThanWellFounded, Zenon DEF OpToRel
<1>3. Ups \in SUBSET Nat /\ Ups # {}
  <2>1. \A i \in Late : UpTo(s, s[i]) \in Nat
    BY <1>0
  <2>2. QED
    BY <1>1, <2>1, SMT
<1>4. PICK t \in Ups : \A u \in Ups : ~(<<u, t>> \in Less)
  <2> HIDE DEF Ups
  <2> QED
    BY <1>2, <1>3, WFMin, Zenon
<1>5. PICK m \in Late : t = UpTo(s, s[m])
  BY <1>4
<1>6. Below(s, s[m]) < k
  <2> SUFFICES ASSUME ~(Below(s, s[m]) < k) PROVE FALSE
    OBVIOUS
  <2> DEFINE before == {i \in DOMAIN s : s[i] < s[m]}
             upto == {i \in DOMAIN s : s[i] <= s[m]}
  <2>1. Cardinality(before) \in Nat /\ Cardinality(before) >= k
    <3>1. before \in SUBSET DOMAIN s /\ Below(s, s[m]) = Cardinality(before)
      BY DEF Below
    <3>2. Cardinality(before) \in 0..Len(s)
      BY <3>1, RoundsCount
    <3>3. QED
      BY <1>0, <3>1, <3>2
  <2>2. before # {}
    <3>1. before = {} => Cardinality(before) = 0
      BY FS_EmptySet, Zenon
    <3>2. QED
      BY <1>0, <2>1, <3>1
  <2>3. PICK j \in before : \A i \in before : s[i] <= s[j]
    BY <2>2, SomeRoundIsLast
  <2>4. {i \in DOMAIN s : s[i] <= s[j]} = before
    <3>1. \A i \in DOMAIN s : s[i] <= s[j] => s[i] < s[m]
      <4>1. s[m] \in Int /\ s[j] \in Int /\ s[j] < s[m]
        BY <1>0
      <4>2. QED
        BY <1>0, <4>1
    <3>2. QED
      BY <2>3, <3>1
  <2>5. UpTo(s, s[j]) = Cardinality(before)
    BY <2>4 DEF UpTo
  <2>6. j \in Late /\ UpTo(s, s[j]) \in Ups
    BY <2>1, <2>5
  <2>7. before \in SUBSET upto /\ m \in upto /\ m \notin before
    <3>0. m \in DOMAIN s /\ s[m] \in Int
      BY <1>0
    <3>1. \A i \in DOMAIN s : s[i] < s[m] => s[i] <= s[m]
      BY <1>0, <3>0
    <3>2. s[m] <= s[m] /\ ~(s[m] < s[m])
      BY <3>0
    <3>3. QED
      BY <3>0, <3>1, <3>2
  <2>8. UpTo(s, s[j]) < UpTo(s, s[m])
    BY <2>5, <2>7, FewerCountLess DEF UpTo
  <2>9. UpTo(s, s[j]) \in Nat /\ t \in Nat
    BY <1>3, <2>6
  <2>10. QED
    BY <1>4, <1>5, <2>6, <2>8, <2>9
<1>7. \E v \in {s[i] : i \in DOMAIN s} : Below(s, v) < k /\ k <= UpTo(s, v)
  BY <1>6
<1>8. QED
  BY <1>0, <1>7 DEF Smallest

\* ... and no other.
LEMMA SmallestIsOne ==
  ASSUME NEW s \in Seq(Int), NEW k \in Nat, NEW v \in Int, NEW w \in Int,
         Below(s, v) < k, k <= UpTo(s, v), Below(s, w) < k, k <= UpTo(s, w)
  PROVE  v = w
<1>1. ASSUME NEW x \in Int, NEW y \in Int, x < y, k <= UpTo(s, x), Below(s, y) < k
      PROVE  FALSE
  <2>1. {i \in DOMAIN s : s[i] <= x} \in SUBSET {i \in DOMAIN s : s[i] < y}
    <3>1. \A i \in DOMAIN s : s[i] \in Int
      OBVIOUS
    <3>2. \A i \in DOMAIN s : s[i] <= x => s[i] < y
      BY <1>1, <3>1
    <3>3. QED
      BY <3>2
  <2>2. UpTo(s, x) <= Below(s, y)
    BY <2>1, FewerCountLess DEF UpTo, Below
  <2>3. UpTo(s, x) \in 0..Len(s) /\ Below(s, y) \in 0..Len(s)
    BY BelowIsNatural, Zenon
  <2>4. QED
    BY <1>1, <2>2, <2>3
<1>2. ~(v < w) /\ ~(w < v)
  BY <1>1
<1>3. QED
  BY <1>2

\* Negation turns an order around.
LEMMA NegationReverses == \A a, b \in Int : (-a < -b <=> ~(a <= b)) /\ (-a <= -b <=> ~(a < b))
OBVIOUS

\* From the other side, the k-th smallest is the k-th largest.
LEMMA SmallestMirrors ==
  ASSUME NEW s \in Seq(Int), NEW k \in 1..Len(s)
  PROVE  Smallest(Mirror(s), k) = -Smallest(s, Len(s) + 1 - k)
<1> DEFINE v == Smallest(Mirror(s), k)
           w == Smallest(s, Len(s) + 1 - k)
<1>1. /\ DOMAIN Mirror(s) = DOMAIN s /\ Len(Mirror(s)) = Len(s) /\ Len(s) \in Nat
      /\ Mirror(s) \in Seq(Int) /\ \A i \in DOMAIN s : Mirror(s)[i] = -s[i] /\ s[i] \in Int
  BY MirrorIsASequence
<1>2. k \in 1..Len(Mirror(s)) /\ Len(s) + 1 - k \in 1..Len(s)
  BY <1>1
<1>3. v \in Int /\ Below(Mirror(s), v) < k /\ k <= UpTo(Mirror(s), v)
  BY <1>1, <1>2, SmallestIsThere
<1>4. w \in Int /\ Below(s, w) < Len(s) + 1 - k /\ Len(s) + 1 - k <= UpTo(s, w)
  BY <1>2, SmallestIsThere
<1> HIDE DEF v, w
<1>5. Below(Mirror(s), -w) = Len(s) - UpTo(s, w)
  <2> DEFINE upto == {i \in DOMAIN s : s[i] <= w}
  <2>1. ASSUME NEW i \in DOMAIN s
        PROVE  Mirror(s)[i] < -w <=> ~(s[i] <= w)
    <3>1. s[i] \in Int /\ Mirror(s)[i] = -s[i]
      BY <1>1
    <3>2. QED
      BY <1>4, <3>1, NegationReverses
  <2>2. {i \in DOMAIN Mirror(s) : Mirror(s)[i] < -w} = DOMAIN s \ upto
    BY <1>1, <2>1
  <2>3. QED
    BY <2>2, RoundsCount DEF Below, UpTo
<1>6. UpTo(Mirror(s), -w) = Len(s) - Below(s, w)
  <2> DEFINE before == {i \in DOMAIN s : s[i] < w}
  <2>1. ASSUME NEW i \in DOMAIN s
        PROVE  Mirror(s)[i] <= -w <=> ~(s[i] < w)
    <3>1. s[i] \in Int /\ Mirror(s)[i] = -s[i]
      BY <1>1
    <3>2. QED
      BY <1>4, <3>1, NegationReverses
  <2>2. {i \in DOMAIN Mirror(s) : Mirror(s)[i] <= -w} = DOMAIN s \ before
    BY <1>1, <2>1
  <2>3. QED
    BY <2>2, RoundsCount DEF Below, UpTo
<1>7. -w \in Int /\ Below(Mirror(s), -w) < k /\ k <= UpTo(Mirror(s), -w)
  <2>1. UpTo(s, w) \in 0..Len(s) /\ Below(s, w) \in 0..Len(s) /\ k \in Nat
    BY <1>4, BelowIsNatural
  <2>2. -w \in Int
    BY <1>4
  <2>3. Len(s) - UpTo(s, w) < k /\ k <= Len(s) - Below(s, w)
    BY <1>1, <1>4, <2>1
  <2>4. QED
    BY <1>5, <1>6, <2>2, <2>3
<1>8. v = -w
  BY <1>1, <1>3, <1>7, SmallestIsOne
<1>9. QED
  BY <1>8 DEF v, w

LEMMA MedianMirrors ==
  ASSUME NEW s \in Seq(Int), s # <<>>
  PROVE  Median2(s) \in Int /\ Median2(Mirror(s)) = -Median2(s)
<1> DEFINE n == Len(s)  lo == (n + 1) \div 2  hi == n \div 2 + 1
<1>1. n \in Nat /\ n > 0
  OBVIOUS
<1>2. lo \in 1..n /\ hi \in 1..n /\ n + 1 - lo = hi /\ n + 1 - hi = lo
  BY <1>1
<1>3. Smallest(s, lo) \in Int /\ Smallest(s, hi) \in Int
  BY <1>2, SmallestIsThere
<1>4. Len(Mirror(s)) = n
  BY MirrorIsASequence
<1>5. Smallest(Mirror(s), lo) = -Smallest(s, hi) /\ Smallest(Mirror(s), hi) = -Smallest(s, lo)
  BY <1>2, SmallestMirrors
<1>6. Median2(s) = Smallest(s, lo) + Smallest(s, hi)
  BY DEF Median2
<1>7. Median2(Mirror(s)) = Smallest(Mirror(s), lo) + Smallest(Mirror(s), hi)
  BY <1>4 DEF Median2
<1> HIDE DEF n, lo, hi
<1>8. QED
  BY <1>3, <1>5, <1>6, <1>7

-----------------------------------------------------------------------------
(* The rules, from either side. *)

LEMMA FloorMirrors ==
  ASSUME NEW s \in Seq(Int), s # <<>>
  PROVE  ClearsFloor(Mirror(s)) <=> ClearsFloor(s)
BY MedianMirrors DEF ClearsFloor, Abs

LEMMA StreakMirrors ==
  ASSUME NEW s \in Seq(Int), s # <<>>, \A i \in DOMAIN s : s[i] # 0
  PROVE  /\ StreakLength(Mirror(s)) = StreakLength(s)
         /\ Side(Mirror(s)[Len(Mirror(s))] > 0) = Exchanged(Side(s[Len(s)] > 0))
<1>1. /\ DOMAIN Mirror(s) = DOMAIN s /\ Len(Mirror(s)) = Len(s) /\ Len(s) \in DOMAIN s
      /\ \A i \in DOMAIN s : Mirror(s)[i] = -s[i] /\ s[i] \in Int
  BY MirrorIsASequence
<1>2. \A i \in DOMAIN s : Mirror(s)[i] > 0 <=> ~(s[i] > 0)
  BY <1>1
<1>3. {i \in DOMAIN Mirror(s) : (Mirror(s)[i] > 0) # (Mirror(s)[Len(Mirror(s))] > 0)}
        = {i \in DOMAIN s : (s[i] > 0) # (s[Len(s)] > 0)}
  BY <1>1, <1>2
<1>4. StreakLength(Mirror(s)) = StreakLength(s)
  BY <1>1, <1>3 DEF StreakLength
<1>5. QED
  BY <1>1, <1>2, <1>4 DEF Side, Exchanged

LEMMA HalvesAndSigns ==
  /\ \A f \in Nat : f # 0 => ~(0 >= 2 * f)
  /\ \A m \in Int : m # 0 /\ ~(m > 0) => -m > 0
OBVIOUS

\* PairedEvidence.decide, but for a median of zero that no floor rules out.
LEMMA DecideMirrors ==
  ASSUME BeltAssumption, rules \in Rules, NEW s \in Seq(Int), s # <<>>,
         \A i \in DOMAIN s : s[i] # 0, Median2(s) # 0 \/ rules.floor # 0
  PROVE  /\ Decide(s) \in {"challenger", "incumbent", "open"}
         /\ Decide(Mirror(s)) = Exchanged(Decide(s))
<1> DEFINE ahead(t) == IF Median2(t) > 0 THEN 1 ELSE -1
           streak(t) == rules.streak > 0 /\ StreakLength(t) >= rules.streak /\ ClearsFloor(t)
           clear(t) == Len(t) >= MinPairs /\ ClearsFloor(t) /\ Significant(t, ahead(t))
           last(t) == Side(t[Len(t)] > 0)
<1>1. /\ Median2(s) \in Int /\ Median2(Mirror(s)) = -Median2(s) /\ Len(Mirror(s)) = Len(s)
      /\ ClearsFloor(Mirror(s)) <=> ClearsFloor(s)
  BY MedianMirrors, FloorMirrors, MirrorIsASequence
<1>2. streak(Mirror(s)) <=> streak(s)
  BY <1>1, StreakMirrors
<1>3. last(Mirror(s)) = Exchanged(last(s)) /\ last(s) \in {"challenger", "incumbent"}
  BY StreakMirrors DEF Side
<1>4. CASE Median2(s) = 0
  <2>1. ~ClearsFloor(s) /\ ~ClearsFloor(Mirror(s))
    <3>1. rules.floor \in Nat /\ rules.floor # 0
      BY <1>4 DEF BeltAssumption
    <3>2. ~(0 >= 2 * rules.floor)
      BY <3>1, HalvesAndSigns, Zenon
    <3>3. QED
      BY <1>1, <1>4, <3>2 DEF ClearsFloor, Abs
  <2>2. Decide(s) = "open" /\ Decide(Mirror(s)) = "open"
    BY <2>1 DEF Decide
  <2>3. QED
    BY <2>2 DEF Exchanged
<1>5. CASE Median2(s) # 0
  <2>1. ahead(s) \in {-1, 1} /\ ahead(Mirror(s)) = -ahead(s)
    <3>1. CASE Median2(s) > 0
      BY <1>1, <3>1
    <3>2. CASE ~(Median2(s) > 0)
      <4>1. Median2(Mirror(s)) > 0
        BY <1>1, <1>5, <3>2, HalvesAndSigns, Zenon
      <4>2. ahead(Mirror(s)) = 1 /\ ahead(s) = -1
        BY <3>2, <4>1, Zenon
      <4>3. QED
        BY <4>2
    <3>3. QED
      BY <3>1, <3>2
  <2>2. Times(Mirror(s), -ahead(s)) = Times(s, ahead(s))
    BY <2>1, MirrorTurnsBack
  <2>3. Significant(Mirror(s), ahead(Mirror(s))) <=> Significant(s, ahead(s))
    BY <2>1, <2>2 DEF Significant
  <2>4. clear(Mirror(s)) <=> clear(s)
    BY <1>1, <2>3
  <2>5. Side(ahead(Mirror(s)) = 1) = Exchanged(Side(ahead(s) = 1))
        /\ Side(ahead(s) = 1) \in {"challenger", "incumbent"}
    <3>1. (ahead(Mirror(s)) = 1) <=> ~(ahead(s) = 1)
      BY <2>1
    <3>2. QED
      BY <3>1 DEF Side, Exchanged
  <2>6. \A t \in {s, Mirror(s)} :
          Decide(t) = IF streak(t) THEN last(t) ELSE IF clear(t) THEN Side(ahead(t) = 1) ELSE "open"
    BY DEF Decide
  <2> HIDE DEF ahead, streak, clear, last
  <2>7. QED
    BY <1>2, <1>3, <2>4, <2>5, <2>6 DEF Exchanged
<1>6. QED
  BY <1>4, <1>5

\* The walks of both sides cannot be up at once: a win steps up by less than a loss down.
LEMMA OneSideIsUp ==
  ASSUME BeltAssumption, NEW w \in Nat, NEW l \in Nat
  PROVE  Walk(w, l) \in Int /\ ~(Walk(w, l) >= Boundary /\ Walk(l, w) >= Boundary)
<1>1. WinStep \in Nat /\ LossStep \in Nat /\ Boundary \in Nat /\ Boundary > 0 /\ WinStep < LossStep
  BY DEF BeltAssumption
<1>2. w * WinStep \in Nat /\ l * LossStep \in Nat /\ l * WinStep \in Nat /\ w * LossStep \in Nat
  BY <1>1
<1>3. w * WinStep <= w * LossStep /\ l * WinStep <= l * LossStep
  BY <1>1
<1>4. QED
  BY <1>1, <1>2, <1>3 DEF Walk

LEMMA SprtMirrors ==
  ASSUME BeltAssumption, NEW s \in Seq(Int), \A i \in DOMAIN s : s[i] # 0
  PROVE  /\ Sprt(s) \in {"challenger", "incumbent", "draw", "open"}
         /\ Sprt(Mirror(s)) = Exchanged(Sprt(s))
<1> DEFINE w == ChallengerWins(s)  l == IncumbentWins(s)
<1>1. /\ w \in Nat /\ l \in Nat /\ Len(Mirror(s)) = Len(s)
      /\ ChallengerWins(Mirror(s)) = l /\ IncumbentWins(Mirror(s)) = w
  BY WinsMirror, MirrorIsASequence
<1>2. ~(Walk(w, l) >= Boundary /\ Walk(l, w) >= Boundary)
  BY <1>1, OneSideIsUp
<1> HIDE DEF w, l
<1>3. QED
  BY <1>1, <1>2 DEF Sprt, Exchanged, w, l

LEMMA NarrowMirrors ==
  ASSUME NEW s \in Seq(Int), s # <<>>, \A i \in DOMAIN s : s[i] # 0
  PROVE  Narrow(Mirror(s)) = Exchanged(Narrow(s))
<1>1. /\ Median2(s) \in Int /\ Median2(Mirror(s)) = -Median2(s)
      /\ ChallengerWins(s) \in Nat /\ IncumbentWins(s) \in Nat
      /\ ChallengerWins(Mirror(s)) = IncumbentWins(s)
      /\ IncumbentWins(Mirror(s)) = ChallengerWins(s)
  BY MedianMirrors, WinsMirror
<1>2. QED
  BY <1>1 DEF Narrow, Exchanged

\* _adjudicate under either method.
LEMMA AdjudicateMirrors ==
  ASSUME BeltAssumption, rules \in Rules, NEW s \in Seq(Int), s # <<>>, ~LevelIsTheBelts(s)
  PROVE  Adjudicate(Mirror(s)) = Exchanged(Adjudicate(s))
<1>1. (\A i \in DOMAIN s : s[i] # 0) /\ rules.method \in {"paired", "pair_wins"}
  BY DEF LevelIsTheBelts, BeltAssumption
<1>2. /\ Sprt(s) \in {"challenger", "incumbent", "draw", "open"}
      /\ Sprt(Mirror(s)) = Exchanged(Sprt(s))
      /\ Narrow(Mirror(s)) = Exchanged(Narrow(s)) /\ Narrow(s) \in {"challenger", "incumbent", "draw"}
      /\ ClearsFloor(Mirror(s)) <=> ClearsFloor(s)
      /\ Len(Mirror(s)) = Len(s)
  BY <1>1, SprtMirrors, NarrowMirrors, FloorMirrors, MirrorIsASequence DEF Narrow
<1>3. CASE rules.method = "pair_wins"
  BY <1>2, <1>3 DEF Adjudicate, PairWins, Sided, Exchanged
<1>4. CASE rules.method = "paired"
  <2>1. /\ Decide(s) \in {"challenger", "incumbent", "open"}
        /\ Decide(Mirror(s)) = Exchanged(Decide(s))
    BY <1>1, <1>4, DecideMirrors DEF LevelIsTheBelts
  <2>2. QED
    BY <1>2, <1>4, <2>1 DEF Adjudicate, Paired, Sided, Exchanged
<1>5. QED
  BY <1>1, <1>3, <1>4

LEMMA RoundsAreIntegers ==
  ASSUME NEW S \in SUBSET Int, NEW s \in Seq(S)
  PROVE  s \in Seq(Int)
<1>1. s = [i \in 1..Len(s) |-> s[i]] /\ Len(s) \in Nat /\ \A i \in 1..Len(s) : s[i] \in Int
  OBVIOUS
<1>2. QED
  BY <1>1

\* The same rounds with the sides exchanged give the exchanged verdict, for any margins and any
\* rule that ends the match (decide, decision, _narrow_verdict and _adjudicate of duel.py),
\* but where they are level.
THEOREM SidesAreTreatedAlike == Spec => []SidesAreAlike
<1>1. MatchInv => SidesAreAlike
  <2> SUFFICES ASSUME MatchInv, match # NoMatch, NEW x \in Margins,
                      ~LevelIsTheBelts(Append(match.margins, x))
               PROVE  LET s == Append(match.margins, x) IN
                        Adjudicate(Times(s, -1)) = Exchanged(Adjudicate(s))
    BY DEF SidesAreAlike
  <2> DEFINE s == Append(match.margins, x)
  <2>1. match.margins \in Seq(Int) /\ x \in Int /\ rules \in Rules
    <3>1. match.margins \in Seq(Margins) /\ rules \in Rules /\ Margins \subseteq Int
      BY BeltAssumption DEF MatchInv
    <3>2. match.margins \in Seq(Int)
      BY <3>1, RoundsAreIntegers
    <3>3. QED
      BY <3>1, <3>2
  <2>2. s \in Seq(Int) /\ s # <<>>
    BY <2>1
  <2>3. ~LevelIsTheBelts(s)
    OBVIOUS
  <2> HIDE DEF s
  <2>4. Adjudicate(Mirror(s)) = Exchanged(Adjudicate(s))
    BY <2>1, <2>2, <2>3, BeltAssumption, AdjudicateMirrors
  <2>5. QED
    BY <2>4 DEF Mirror, s
<1>2. Init => MatchInv
  BY BeltAssumption DEF Init, MatchInv
<1>3. MatchInv /\ [Next]_vars => MatchInv'
  BY StepKeepsMatchInv
<1>4. QED
  BY <1>1, <1>2, <1>3, PTL DEF Spec

-----------------------------------------------------------------------------
(* The belt, replayed. *)

\* Induction, over a set of naturals.
LEMMA EveryNatural ==
  ASSUME NEW S \in SUBSET Nat, 0 \in S, \A n \in S : n + 1 \in S
  PROVE  \A n \in Nat : n \in S
<1> DEFINE Less == {ss \in Nat \X Nat : ss[1] < ss[2]}
<1>1. IsWellFoundedOn(Less, Nat)
  BY NatLessThanWellFounded, Zenon DEF OpToRel
<1>2. SUFFICES ASSUME Nat \ S # {} PROVE FALSE
  OBVIOUS
<1>3. PICK m \in Nat \ S : \A k \in Nat \ S : ~(<<k, m>> \in Less)
  <2> HIDE DEF Less
  <2>1. Nat \ S \subseteq Nat
    OBVIOUS
  <2> QED
    BY <1>1, <1>2, <2>1, WFMin, Zenon
<1>4. m # 0 /\ m \in Nat
  BY <1>3
<1>5. m - 1 \in Nat /\ m - 1 < m /\ (m - 1) + 1 = m
  BY <1>4
<1>6. m - 1 \in S
  <2>1. SUFFICES ASSUME m - 1 \in Nat \ S PROVE FALSE
    BY <1>5
  <2>2. <<m - 1, m>> \in Less
    BY <1>4, <1>5
  <2>3. QED
    BY <1>3, <2>1, <2>2
<1>7. QED
  BY <1>3, <1>5, <1>6

\* What a replay of n steps goes through.
Replays(n, V, start, step) ==
  {g \in [0..n -> V] : g[0] = start /\ \A k \in 1..n : g[k] = step[<<k, g[k - 1]>>]}

LEMMA ReplayExists ==
  ASSUME NEW V, NEW start \in V, NEW step \in [Nat \X V -> V]
  PROVE  \A n \in Nat : Replays(n, V, start, step) # {}
<1> DEFINE S == {n \in Nat : Replays(n, V, start, step) # {}}
<1>1. 0 \in S
  <2>1. [k \in 0..0 |-> start] \in Replays(0, V, start, step)
    BY DEF Replays
  <2>2. QED
    BY <2>1
<1>2. ASSUME NEW n \in S PROVE n + 1 \in S
  <2>1. PICK g \in [0..n -> V] : g \in Replays(n, V, start, step)
    BY <1>2 DEF Replays
  <2>2. n \in Nat /\ n \in 0..n /\ g[n] \in V
    BY <1>2
  <2> DEFINE last == step[<<n + 1, g[n]>>]
             h == [k \in 0..(n + 1) |-> IF k \in 0..n THEN g[k] ELSE last]
  <2>3. last \in V
    BY <2>2
  <2>4. h \in [0..(n + 1) -> V]
    BY <2>3
  <2> HIDE DEF last
  <2>5. h[0] = start
    BY <2>1, <2>2 DEF Replays
  <2>6. ASSUME NEW k \in 1..(n + 1) PROVE h[k] = step[<<k, h[k - 1]>>]
    <3>1. k - 1 \in 0..n /\ h[k - 1] = g[k - 1]
      BY <2>2, <2>6
    <3>2. CASE k \in 1..n
      BY <2>1, <2>2, <3>1, <3>2 DEF Replays
    <3>3. CASE k = n + 1
      <4>1. h[k] = last /\ h[k - 1] = g[n] /\ k = n + 1
        BY <2>2, <3>1, <3>3
      <4>2. QED
        BY <4>1, Zenon DEF last
    <3>4. QED
      BY <2>2, <3>2, <3>3
  <2>7. h \in Replays(n + 1, V, start, step)
    <3> HIDE DEF h
    <3> QED
      BY <2>4, <2>5, <2>6 DEF Replays
  <2>8. QED
    BY <2>2, <2>7
<1>3. QED
  <2> HIDE DEF S
  <2>1. S \in SUBSET Nat
    BY DEF S
  <2>2. \A n \in Nat : n \in S
    BY <1>1, <1>2, <2>1, EveryNatural
  <2>3. QED
    BY <2>2 DEF S

\* A belt of the replay.
Title == [holder : Profiles \cup {NoOne}, matches : [Profiles \X Profiles -> Nat],
          rounds : [Profiles \X Profiles -> Nat]]

LEMMA SidesOfARecord ==
  ASSUME NEW r \in Record
  PROVE  /\ r.incumbent \in Profiles /\ r.challenger \in Profiles
         /\ r.wins_incumbent \in Nat /\ r.wins_challenger \in Nat
         /\ Winner(r) \in Profiles /\ Loser(r) \in Profiles
BY DEF Record, Winner, Loser

LEMMA CountedIs ==
  ASSUME NEW belt \in Title, NEW r \in Record
  PROVE  /\ Counted(belt, r) \in Title /\ Counted(belt, r).holder = belt.holder
         /\ \A a, b \in Profiles :
              Counted(belt, r).matches[<<a, b>>] =
                IF Decided(r) /\ <<a, b>> = <<Winner(r), Loser(r)>>
                THEN belt.matches[<<a, b>>] + 1 ELSE belt.matches[<<a, b>>]
         /\ r.incumbent # r.challenger =>
              \A a, b \in Profiles :
                Counted(belt, r).rounds[<<a, b>>] = belt.rounds[<<a, b>>] + Taken(r, a, b)
<1> DEFINE i == r.incumbent  c == r.challenger  w == Winner(r)  l == Loser(r)
           wi == r.wins_incumbent  wc == r.wins_challenger
           R == [belt.rounds EXCEPT ![<<i, c>>] = @ + wi, ![<<c, i>>] = @ + wc]
           M == [belt.matches EXCEPT ![<<w, l>>] = @ + 1]
           MM == IF Decided(r) THEN M ELSE belt.matches
<1>1. i \in Profiles /\ c \in Profiles /\ w \in Profiles /\ l \in Profiles /\ wi \in Nat /\ wc \in Nat
  BY SidesOfARecord
<1>2. belt.rounds \in [Profiles \X Profiles -> Nat] /\ belt.matches \in [Profiles \X Profiles -> Nat]
  BY DEF Title
<1>3. Counted(belt, r) = [holder |-> belt.holder, rounds |-> R, matches |-> MM]
  BY Zenon DEF Counted
<1> HIDE DEF i, c, w, l, wi, wc
<1>4. R \in [Profiles \X Profiles -> Nat] /\ M \in [Profiles \X Profiles -> Nat]
  BY <1>1, <1>2
<1>5. \A a, b \in Profiles : M[<<a, b>>] = IF <<a, b>> = <<w, l>> THEN belt.matches[<<a, b>>] + 1
                                                               ELSE belt.matches[<<a, b>>]
  BY <1>1, <1>2
<1>6. ASSUME i # c, NEW a \in Profiles, NEW b \in Profiles
      PROVE  R[<<a, b>>] = belt.rounds[<<a, b>>] + Taken(r, a, b)
  <2>1. <<a, b>> \in Profiles \X Profiles /\ belt.rounds[<<a, b>>] \in Nat
    BY <1>2
  <2>2. CASE a = i /\ b = c
    BY <1>1, <1>2, <1>6, <2>1, <2>2 DEF Taken, i, c, wi, wc
  <2>3. CASE a = c /\ b = i
    BY <1>1, <1>2, <1>6, <2>1, <2>3 DEF Taken, i, c, wi, wc
  <2>4. CASE ~(a = i /\ b = c) /\ ~(a = c /\ b = i)
    <3>1. Taken(r, a, b) = 0
      BY <2>4 DEF Taken, i, c
    <3>2. R[<<a, b>>] = belt.rounds[<<a, b>>]
      BY <1>1, <1>2, <2>1, <2>4
    <3>3. QED
      BY <2>1, <3>1, <3>2
  <2>5. QED
    BY <2>2, <2>3, <2>4
<1>7. MM \in [Profiles \X Profiles -> Nat]
  BY <1>2, <1>4
<1> HIDE DEF R, M, MM
<1>8. /\ Counted(belt, r) \in Title /\ Counted(belt, r).holder = belt.holder
      /\ Counted(belt, r).rounds = R /\ Counted(belt, r).matches = MM
  BY <1>3, <1>4, <1>7 DEF Title
<1>9. QED
  BY <1>5, <1>6, <1>8 DEF MM, i, c, w, l

LEMMA AfterIsATitle ==
  ASSUME NEW belt \in Title, NEW r \in Record
  PROVE  /\ After(belt, r) \in Title
         /\ After(belt, r).matches = Counted(belt, r).matches
         /\ After(belt, r).rounds = Counted(belt, r).rounds
<1>1. Counted(belt, r) \in Title /\ Winner(r) \in Profiles
  BY CountedIs, SidesOfARecord
<1>2. QED
  BY <1>1 DEF After, Title

LEMMA NobodyIsATitle == Nobody \in Title
BY DEF Nobody, Title

\* The belts are the replay of the ledger.
LEMMA BeltsAreReplayed ==
  ASSUME ledger \in Seq(Record)
  PROVE  /\ Belts \in [0..Len(ledger) -> Title] /\ Belts[0] = Nobody
         /\ \A n \in 1..Len(ledger) :
              Belts[n] = IF n \in Replayed THEN After(Belts[n - 1], ledger[n]) ELSE Belts[n - 1]
<1> DEFINE Then(n, v) == IF n \in Replayed THEN After(v, ledger[n]) ELSE v
           step == [x \in Nat \X Title |-> Then(x[1], x[2])]
           Eqn(g) == g = [n \in 0..Len(ledger) |->
                            IF n = 0 THEN Nobody
                            ELSE IF n \in Replayed THEN After(g[n - 1], ledger[n]) ELSE g[n - 1]]
<1>1. /\ Len(ledger) \in Nat /\ DOMAIN ledger = 1..Len(ledger)
      /\ \A n \in DOMAIN ledger : ledger[n] \in Record
  OBVIOUS
<1>2. \A n \in Nat, v \in Title : Then(n, v) \in Title
  BY <1>1, AfterIsATitle DEF Replayed
<1> HIDE DEF Then
<1>3. step \in [Nat \X Title -> Title] /\ \A n \in Nat, v \in Title : step[<<n, v>>] = Then(n, v)
  BY <1>2
<1> HIDE DEF step
<1>4. PICK g \in [0..Len(ledger) -> Title] :
        g[0] = Nobody /\ \A k \in 1..Len(ledger) : g[k] = step[<<k, g[k - 1]>>]
  <2>1. Replays(Len(ledger), Title, Nobody, step) # {}
    BY <1>1, <1>3, NobodyIsATitle, ReplayExists
  <2>2. QED
    BY <2>1 DEF Replays
<1>5. \A k \in 1..Len(ledger) : k \in Nat /\ k - 1 \in 0..Len(ledger) /\ k # 0 /\ g[k - 1] \in Title
  BY <1>1, <1>4
<1>6. \A k \in 1..Len(ledger) : g[k] = Then(k, g[k - 1])
  BY <1>3, <1>4, <1>5
<1>7. Eqn(g)
  <2>1. \A n \in 0..Len(ledger) : n = 0 \/ n \in 1..Len(ledger)
    BY <1>1
  <2>2. \A n \in 0..Len(ledger) : g[n] = IF n = 0 THEN Nobody
            ELSE IF n \in Replayed THEN After(g[n - 1], ledger[n]) ELSE g[n - 1]
    BY <1>4, <1>5, <1>6, <2>1 DEF Then
  <2>3. QED
    BY <1>4, <2>2
<1>8. Belts = CHOOSE f : Eqn(f)
  BY DEF Belts
<1>9. Eqn(Belts)
  <2> HIDE DEF Eqn
  <2>1. QED
    BY <1>7, <1>8, Zenon
<1> HIDE DEF Belts
<1>10. \A n \in 0..Len(ledger) : n = 0 \/ (n # 0 /\ n \in 1..Len(ledger) /\ n - 1 \in 0..Len(ledger))
  BY <1>1
<1> DEFINE S == {n \in Nat : n \in 0..Len(ledger) => Belts[n] \in Title}
<1>11. /\ 0 \in 0..Len(ledger) /\ Belts[0] = Nobody
       /\ \A n \in 1..Len(ledger) : n \in 0..Len(ledger) /\ n # 0
                                    /\ Belts[n] = Then(n, Belts[n - 1])
  BY <1>1, <1>9 DEF Then
<1>12. \A n \in Nat : n \in S
  <2>1. 0 \in S
    BY <1>11, NobodyIsATitle
  <2>2. ASSUME NEW n \in S PROVE n + 1 \in S
    <3>1. /\ n \in Nat /\ n + 1 \in Nat /\ (n + 1) - 1 = n
          /\ n + 1 \in 0..Len(ledger) => n \in 0..Len(ledger) /\ n + 1 \in 1..Len(ledger)
      BY <1>1
    <3>2. QED
      BY <1>2, <1>11, <3>1
  <2>3. S \in SUBSET Nat
    OBVIOUS
  <2> HIDE DEF S
  <2>4. QED
    BY <2>1, <2>2, <2>3, EveryNatural
<1>13. QED
  <2>1. \A n \in 0..Len(ledger) : Belts[n] \in Title
    BY <1>1, <1>12
  <2>2. DOMAIN Belts = 0..Len(ledger) /\ Belts = [n \in 0..Len(ledger) |-> Belts[n]]
    BY <1>9
  <2>3. QED
    BY <1>11, <2>1, <2>2 DEF Then

-----------------------------------------------------------------------------
(* The record of two profiles. *)

\* What the first n records count for a against b: the matches, and the rounds one by one.
MatchesOf(n, a, b) ==
  {i \in Replayed : i <= n /\ Decided(ledger[i])
                    /\ <<a, b>> = <<Winner(ledger[i]), Loser(ledger[i])>>}
RoundsOf(n, a, b) == UNION {{i} \X (1..Taken(ledger[i], a, b)) : i \in {j \in Replayed : j <= n}}

LEMMA TakenIsNatural ==
  ASSUME NEW r \in Record, NEW a, NEW b
  PROVE  Taken(r, a, b) \in Nat
BY SidesOfARecord DEF Taken

\* One record adds its rounds.
LEMMA RoundsAdd ==
  ASSUME ledger \in Seq(Record), NEW n \in Nat, n + 1 \in DOMAIN ledger,
         NEW a, NEW b, IsFiniteSet(RoundsOf(n, a, b))
  PROVE  /\ IsFiniteSet(RoundsOf(n + 1, a, b))
         /\ Cardinality(RoundsOf(n + 1, a, b)) =
              Cardinality(RoundsOf(n, a, b))
                + IF n + 1 \in Replayed THEN Taken(ledger[n + 1], a, b) ELSE 0
<1> DEFINE t == Taken(ledger[n + 1], a, b)
           new == {n + 1} \X (1..t)
           old == RoundsOf(n, a, b)
<1>1. t \in Nat /\ Replayed \subseteq Nat
  <2>1. ledger[n + 1] \in Record /\ DOMAIN ledger \subseteq Nat
    OBVIOUS
  <2>2. QED
    BY <2>1, TakenIsNatural DEF Replayed
<1>2. Cardinality(old) \in Nat
  BY FS_CardinalityType
<1>3. CASE n + 1 \notin Replayed
  <2>1. {j \in Replayed : j <= n + 1} = {j \in Replayed : j <= n}
    <3>1. \A j \in Replayed : j <= n + 1 <=> j <= n
      BY <1>1, <1>3
    <3>2. QED
      BY <3>1
  <2>2. RoundsOf(n + 1, a, b) = old
    BY <2>1, Zenon DEF RoundsOf
  <2>3. QED
    BY <1>2, <1>3, <2>2
<1>4. CASE n + 1 \in Replayed
  <2>1. {j \in Replayed : j <= n + 1} = {j \in Replayed : j <= n} \cup {n + 1}
    <3>1. \A j \in Replayed : j <= n + 1 <=> j <= n \/ j = n + 1
      BY <1>1
    <3>2. ~(n + 1 <= n) /\ n + 1 <= n + 1
      OBVIOUS
    <3>3. QED
      BY <1>4, <3>1
  <2>2. RoundsOf(n + 1, a, b) = old \cup new
    BY <2>1, Zenon DEF RoundsOf
  <2>3. old \cap new = {}
    <3>1. SUFFICES ASSUME NEW x \in old, x \in new PROVE FALSE
      OBVIOUS
    <3>2. PICK j \in Replayed : j <= n /\ x \in {j} \X (1..Taken(ledger[j], a, b))
      BY <3>1, Zenon DEF RoundsOf
    <3>3. x[1] = j /\ x[1] = n + 1
      BY <3>1, <3>2
    <3>4. QED
      BY <1>1, <3>2, <3>3
  <2>4. IsFiniteSet(new) /\ Cardinality(new) = t
    <3>1. IsFiniteSet({n + 1}) /\ Cardinality({n + 1}) = 1
      BY FS_Singleton
    <3>2. IsFiniteSet(1..t) /\ Cardinality(1..t) = IF 1 > t THEN 0 ELSE t - 1 + 1
      <4> HIDE DEF t
      <4>1. t \in Int /\ 1 \in Int
        BY <1>1
      <4>2. QED
        BY <4>1, FS_Interval
    <3>3. IsFiniteSet(new) /\ Cardinality(new) = 1 * Cardinality(1..t)
      BY <3>1, <3>2, FS_Product
    <3>4. QED
      BY <1>1, <3>2, <3>3
  <2> HIDE DEF old, new, t
  <2>5. /\ IsFiniteSet(old \cup new)
        /\ Cardinality(old \cup new) = Cardinality(old) + Cardinality(new) - Cardinality(old \cap new)
    BY <2>4, FS_Union DEF old
  <2>6. Cardinality(old \cap new) = 0
    BY <2>3, FS_EmptySet
  <2>7. QED
    <3>1. IsFiniteSet(old \cup new) /\ Cardinality(old \cup new) = Cardinality(old) + t
      BY <1>1, <1>2, <2>4, <2>5, <2>6
    <3>2. QED
      BY <1>4, <2>2, <3>1, Zenon DEF old, t
<1>5. QED
  BY <1>3, <1>4

LEMMA MatchesAdd ==
  ASSUME ledger \in Seq(Record), NEW n \in Nat, n + 1 \in DOMAIN ledger,
         NEW a, NEW b, IsFiniteSet(MatchesOf(n, a, b))
  PROVE  /\ IsFiniteSet(MatchesOf(n + 1, a, b))
         /\ Cardinality(MatchesOf(n + 1, a, b)) =
              Cardinality(MatchesOf(n, a, b))
                + IF /\ n + 1 \in Replayed /\ Decided(ledger[n + 1])
                     /\ <<a, b>> = <<Winner(ledger[n + 1]), Loser(ledger[n + 1])>> THEN 1 ELSE 0
<1> DEFINE Counts(i) == Decided(ledger[i]) /\ <<a, b>> = <<Winner(ledger[i]), Loser(ledger[i])>>
           old == MatchesOf(n, a, b)
<1>1. Replayed \subseteq Nat
  BY DEF Replayed
<1>2. old = {i \in Replayed : i <= n /\ Counts(i)}
      /\ MatchesOf(n + 1, a, b) = {i \in Replayed : i <= n + 1 /\ Counts(i)}
  BY Zenon DEF MatchesOf
<1>3. Cardinality(old) \in Nat /\ IsFiniteSet(old)
  BY FS_CardinalityType
<1> HIDE DEF Counts, old
<1>4. n + 1 \notin old
  BY <1>2
<1>5. CASE n + 1 \in Replayed /\ Counts(n + 1)
  <2>1. MatchesOf(n + 1, a, b) = old \cup {n + 1}
    <3>1. \A j \in Replayed : j <= n + 1 <=> j <= n \/ j = n + 1
      BY <1>1
    <3>2. n + 1 <= n + 1
      OBVIOUS
    <3>3. QED
      BY <1>2, <1>5, <3>1, <3>2
  <2>2. IsFiniteSet(old \cup {n + 1}) /\ Cardinality(old \cup {n + 1}) = Cardinality(old) + 1
    BY <1>3, <1>4, FS_AddElement
  <2>3. QED
    BY <1>5, <2>1, <2>2, Zenon DEF Counts, old
<1>6. CASE ~(n + 1 \in Replayed /\ Counts(n + 1))
  <2>1. MatchesOf(n + 1, a, b) = old
    <3>1. \A j \in Replayed : j <= n + 1 <=> j <= n \/ j = n + 1
      BY <1>1
    <3>2. QED
      BY <1>2, <1>6, <3>1
  <2>2. Cardinality(old) + 0 = Cardinality(old)
    BY <1>3
  <2>3. QED
    BY <1>3, <1>6, <2>1, <2>2, Zenon DEF Counts, old
<1>7. QED
  BY <1>5, <1>6

\* The counters of the replay count: by induction over the ledger.
LEMMA CountersCount ==
  ASSUME ledger \in Seq(Record),
         \A i \in DOMAIN ledger : ledger[i].incumbent # ledger[i].challenger
  PROVE  \A a, b \in Profiles :
           /\ Belts[Len(ledger)].matches[<<a, b>>] = Cardinality(MatchesOf(Len(ledger), a, b))
           /\ Belts[Len(ledger)].rounds[<<a, b>>] = Cardinality(RoundsOf(Len(ledger), a, b))
<1>1. Len(ledger) \in Nat /\ DOMAIN ledger = 1..Len(ledger)
      /\ \A n \in DOMAIN ledger : ledger[n] \in Record
  OBVIOUS
<1>2. SUFFICES ASSUME NEW a \in Profiles, NEW b \in Profiles
               PROVE  /\ Belts[Len(ledger)].matches[<<a, b>>] = Cardinality(MatchesOf(Len(ledger), a, b))
                      /\ Belts[Len(ledger)].rounds[<<a, b>>] = Cardinality(RoundsOf(Len(ledger), a, b))
  OBVIOUS
<1> DEFINE Fine(n) == /\ IsFiniteSet(MatchesOf(n, a, b)) /\ IsFiniteSet(RoundsOf(n, a, b))
                      /\ Belts[n].matches[<<a, b>>] = Cardinality(MatchesOf(n, a, b))
                      /\ Belts[n].rounds[<<a, b>>] = Cardinality(RoundsOf(n, a, b))
           S == {n \in Nat : n \in 0..Len(ledger) => Fine(n)}
<1>3. 0 \in S
  <2>1. {j \in Replayed : j <= 0} = {}
    BY <1>1 DEF Replayed
  <2>2. MatchesOf(0, a, b) = {}
    BY <2>1, Zenon DEF MatchesOf
  <2>3. RoundsOf(0, a, b) = {}
    BY <2>1, Zenon DEF RoundsOf
  <2>4. Belts[0].matches[<<a, b>>] = 0 /\ Belts[0].rounds[<<a, b>>] = 0
    BY BeltsAreReplayed DEF Nobody
  <2>5. QED
    BY <2>2, <2>3, <2>4, FS_EmptySet
<1>4. ASSUME NEW n \in S PROVE n + 1 \in S
  <2>1. SUFFICES ASSUME n + 1 \in 0..Len(ledger) PROVE Fine(n + 1)
    BY <1>4
  <2>2. n \in Nat /\ n \in 0..Len(ledger) /\ n + 1 \in 1..Len(ledger) /\ (n + 1) - 1 = n
    BY <1>1, <1>4, <2>1
  <2>3. Fine(n)
    BY <1>4, <2>2
  <2>4. Belts[n] \in Title /\ ledger[n + 1] \in Record
        /\ Belts[n + 1] = IF n + 1 \in Replayed THEN After(Belts[n], ledger[n + 1]) ELSE Belts[n]
    BY <1>1, <2>2, BeltsAreReplayed
  <2> DEFINE r == ledger[n + 1]
  <2>13. r \in Record
    BY <2>4
  <2> HIDE DEF r
  <2>14. /\ After(Belts[n], r).matches = Counted(Belts[n], r).matches
         /\ After(Belts[n], r).rounds = Counted(Belts[n], r).rounds
    BY <2>4, <2>13, AfterIsATitle
  <2>5. After(Belts[n], r).matches[<<a, b>>] =
          IF Decided(r) /\ <<a, b>> = <<Winner(r), Loser(r)>>
          THEN Belts[n].matches[<<a, b>>] + 1 ELSE Belts[n].matches[<<a, b>>]
    <3>1. Counted(Belts[n], r).matches[<<a, b>>] =
            IF Decided(r) /\ <<a, b>> = <<Winner(r), Loser(r)>>
            THEN Belts[n].matches[<<a, b>>] + 1 ELSE Belts[n].matches[<<a, b>>]
      BY <2>4, <2>13, CountedIs, Zenon
    <3>2. QED
      BY <2>14, <3>1, Zenon
  <2>6. After(Belts[n], r).rounds[<<a, b>>] = Belts[n].rounds[<<a, b>>] + Taken(r, a, b)
    <3>1. r.incumbent # r.challenger
      BY <1>1, <2>2 DEF r
    <3>2. Counted(Belts[n], r).rounds[<<a, b>>] = Belts[n].rounds[<<a, b>>] + Taken(r, a, b)
      BY <2>4, <2>13, <3>1, CountedIs, Zenon
    <3>3. QED
      BY <2>14, <3>2, Zenon
  <2>7. Belts[n].matches[<<a, b>>] \in Nat /\ Belts[n].rounds[<<a, b>>] \in Nat
    BY <2>4 DEF Title
  <2>8. /\ IsFiniteSet(MatchesOf(n + 1, a, b))
        /\ Cardinality(MatchesOf(n + 1, a, b)) =
              Cardinality(MatchesOf(n, a, b))
                + IF /\ n + 1 \in Replayed /\ Decided(r)
                     /\ <<a, b>> = <<Winner(r), Loser(r)>> THEN 1 ELSE 0
    BY <1>1, <2>2, <2>3, MatchesAdd DEF r
  <2>9. /\ IsFiniteSet(RoundsOf(n + 1, a, b))
        /\ Cardinality(RoundsOf(n + 1, a, b)) =
              Cardinality(RoundsOf(n, a, b)) + IF n + 1 \in Replayed THEN Taken(r, a, b) ELSE 0
    BY <1>1, <2>2, <2>3, RoundsAdd DEF r
  <2>10. Belts[n + 1].matches[<<a, b>>] = Cardinality(MatchesOf(n + 1, a, b))
    BY <2>3, <2>4, <2>5, <2>7, <2>8 DEF r
  <2>11. Belts[n + 1].rounds[<<a, b>>] = Cardinality(RoundsOf(n + 1, a, b))
    BY <2>3, <2>4, <2>6, <2>7, <2>9 DEF r
  <2>12. QED
    BY <2>8, <2>9, <2>10, <2>11
<1>5. \A n \in Nat : n \in S
  <2>1. S \in SUBSET Nat
    OBVIOUS
  <2> HIDE DEF S
  <2>2. QED
    BY <1>3, <1>4, <2>1, EveryNatural
<1>6. QED
  BY <1>1, <1>5

-----------------------------------------------------------------------------
(* The title. *)

\* What carries the record from step to step.
BeltInv ==
  /\ TypeOK
  /\ match # NoMatch => Len(match.margins) <= rounds /\ match.ref # match.cha
  /\ \A i \in DOMAIN ledger : ledger[i].incumbent # ledger[i].challenger

LEMMA AdjudicateIsAVerdict ==
  ASSUME NEW s, Adjudicate(s) # "open"
  PROVE  Adjudicate(s) \in Verdicts
BY DEF Adjudicate, PairWins, Paired, Sided, Narrow, Verdicts

LEMMA WinsAreRounds ==
  ASSUME NEW s \in Seq(Int)
  PROVE  ChallengerWins(s) \in 0..Len(s) /\ IncumbentWins(s) \in 0..Len(s)
<1>1. Cardinality({i \in DOMAIN s : s[i] > 0}) \in 0..Len(s)
  BY RoundsCount
<1>2. Len(s) \in Nat
  OBVIOUS
<1>3. QED
  BY <1>1, <1>2 DEF ChallengerWins, IncumbentWins

\* _close.
LEMMA CloseKeepsBeltInv ==
  ASSUME BeltInv, match # NoMatch, NEW s \in Seq(Margins), Len(s) <= rounds',
         NEW verdict \in Verdicts, Close(s, verdict), session' = session, rules' = rules,
         rounds' \in 0..MaxRounds
  PROVE  BeltInv'
<1> DEFINE r == [session |-> session, incumbent |-> match.ref, challenger |-> match.cha,
                 verdict |-> verdict, wins_incumbent |-> IncumbentWins(s),
                 wins_challenger |-> ChallengerWins(s)]
<1>1. match \in Match /\ session \in 1..MaxSessions /\ ledger \in Seq(Record) /\ match.ref # match.cha
  BY DEF BeltInv, TypeOK
<1>2. s \in Seq(Int) /\ Len(s) \in Nat
  <2>1. Margins \in SUBSET Int
    BY BeltAssumption
  <2>2. QED
    BY <2>1, RoundsAreIntegers
<1>3. ChallengerWins(s) \in 0..MaxRounds /\ IncumbentWins(s) \in 0..MaxRounds
  <2>1. MaxRounds \in Nat
    BY BeltAssumption
  <2>2. QED
    BY <1>2, <2>1, WinsAreRounds
<1>4. r \in Record /\ r.incumbent # r.challenger
  BY <1>1, <1>3 DEF Record, Match
<1>5. match' = NoMatch /\ ledger' = Append(ledger, r)
  BY DEF Close
<1> HIDE DEF r
<1>6. ledger' \in Seq(Record) /\ \A i \in DOMAIN ledger' : ledger'[i].incumbent # ledger'[i].challenger
  <2>1. \A i \in DOMAIN ledger : ledger[i].incumbent # ledger[i].challenger
    BY DEF BeltInv
  <2>2. QED
    BY <1>1, <1>4, <1>5, <2>1
<1>7. QED
  BY <1>1, <1>5, <1>6 DEF BeltInv, TypeOK

LEMMA StepKeepsBeltInv ==
  ASSUME BeltInv, [Next]_vars
  PROVE  BeltInv'
<1> USE BeltAssumption
<1>1. CASE NewSession
  <2>1. session' \in 1..MaxSessions
    BY <1>1 DEF NewSession, BeltInv, TypeOK
  <2>2. QED
    BY <1>1, <2>1 DEF NewSession, BeltInv, TypeOK
<1>2. ASSUME NEW ref \in Profiles, NEW cha \in Profiles, Seat(ref, cha) PROVE BeltInv'
  <2>1. /\ match' = [ref |-> ref, cha |-> cha, since |-> session, margins |-> <<>>] /\ ref # cha
        /\ UNCHANGED <<rules, session, ledger, rounds>>
    BY <1>2 DEF Seat
  <2>2. match' \in Match /\ Len(match'.margins) = 0 /\ match'.ref # match'.cha
    BY <2>1 DEF BeltInv, TypeOK, Match
  <2>3. rounds \in Nat
    BY DEF BeltInv, TypeOK
  <2>4. QED
    BY <2>1, <2>2, <2>3 DEF BeltInv, TypeOK
<1>3. CASE Round
  <2>1. PICK x \in Margins :
          LET s == Append(match.margins, x) IN
          IF Adjudicate(s) = "open"
          THEN match' = [match EXCEPT !.margins = s] /\ UNCHANGED ledger
          ELSE Close(s, Adjudicate(s))
    BY <1>3 DEF Round
  <2> DEFINE s == Append(match.margins, x)
  <2>2. /\ match \in Match /\ match.margins \in Seq(Margins) /\ Len(match.margins) <= rounds
        /\ rounds \in 0..MaxRounds /\ rounds < MaxRounds /\ rounds' = rounds + 1 /\ match # NoMatch
        /\ match.ref # match.cha /\ session' = session /\ rules' = rules
    BY <1>3 DEF Round, BeltInv, TypeOK, Match
  <2>3. s \in Seq(Margins) /\ Len(s) = Len(match.margins) + 1 /\ Len(match.margins) \in Nat
    BY <2>2
  <2>4. Len(s) <= rounds' /\ rounds' \in 0..MaxRounds
    BY <2>2, <2>3
  <2> HIDE DEF s
  <2>5. CASE Adjudicate(s) = "open"
    <3>1. match' = [match EXCEPT !.margins = s] /\ ledger' = ledger
      BY <2>1, <2>5 DEF s
    <3>2. match' \in Match /\ match'.margins = s /\ match'.ref # match'.cha
      BY <2>2, <2>3, <3>1 DEF Match
    <3>3. QED
      BY <2>2, <2>4, <3>1, <3>2 DEF BeltInv, TypeOK
  <2>6. CASE Adjudicate(s) # "open"
    <3>1. Close(s, Adjudicate(s))
      BY <2>1, <2>6 DEF s
    <3>2. QED
      BY <2>2, <2>3, <2>4, <2>6, <3>1, AdjudicateIsAVerdict, CloseKeepsBeltInv
  <2>7. QED
    BY <2>5, <2>6
<1>4. CASE Dismiss
  <2>1. /\ match # NoMatch /\ match.margins \in Seq(Margins) /\ Len(match.margins) <= rounds'
        /\ rounds' \in 0..MaxRounds /\ session' = session /\ rules' = rules
        /\ Close(match.margins, Narrow(match.margins)) /\ Narrow(match.margins) \in Verdicts
    BY <1>4 DEF Dismiss, BeltInv, TypeOK, Match, Narrow, Verdicts
  <2>2. QED
    BY <2>1, CloseKeepsBeltInv
<1>5. CASE Abort
  <2>1. /\ match # NoMatch /\ match.margins \in Seq(Margins) /\ Len(match.margins) <= rounds'
        /\ rounds' \in 0..MaxRounds /\ session' = session /\ rules' = rules
        /\ Close(match.margins, "aborted") /\ "aborted" \in Verdicts
    BY <1>5 DEF Abort, BeltInv, TypeOK, Match, Verdicts
  <2>2. QED
    BY <2>1, CloseKeepsBeltInv
<1>6. CASE UNCHANGED vars
  BY <1>6 DEF vars, BeltInv, TypeOK
<1>7. QED
  BY <1>1, <1>2, <1>3, <1>4, <1>5, <1>6 DEF Next

LEMMA InitEstablishesBeltInv == Init => BeltInv
<1>1. MaxSessions \in Nat /\ MaxSessions # 0 /\ MaxRounds \in Nat
  BY BeltAssumption
<1>2. QED
  BY <1>1 DEF Init, BeltInv, TypeOK

\* The types of a match, of its record and of the ledger, as duel.py writes them.
THEOREM SpecKeepsBeltInv == Spec => []BeltInv
BY InitEstablishesBeltInv, StepKeepsBeltInv, PTL DEF Spec

\* The replay reads the ledger as a history would: each belt is the one before after a record,
\* and its counters count.
BeltsFollow ==
  /\ Belts \in [0..Len(ledger) -> Title] /\ Belts[0] = Nobody
  /\ \A n \in 1..Len(ledger) :
       Belts[n] = IF n \in Replayed THEN After(Belts[n - 1], ledger[n]) ELSE Belts[n - 1]
CountersAreTrue ==
  \A a, b \in Profiles :
    /\ Belts[Len(ledger)].matches[<<a, b>>] = MatchesWon(a, b)
    /\ Belts[Len(ledger)].rounds[<<a, b>>] = RoundsWon(a, b)

LEMMA ReplayIsTrue == BeltInv => BeltsFollow /\ CountersAreTrue
<1> SUFFICES ASSUME BeltInv PROVE BeltsFollow /\ CountersAreTrue
  OBVIOUS
<1>1. ledger \in Seq(Record) /\ \A i \in DOMAIN ledger : ledger[i].incumbent # ledger[i].challenger
  BY DEF BeltInv, TypeOK
<1>2. BeltsFollow
  BY <1>1, BeltsAreReplayed DEF BeltsFollow
<1>3. ASSUME NEW a \in Profiles, NEW b \in Profiles
      PROVE  /\ Belts[Len(ledger)].matches[<<a, b>>] = MatchesWon(a, b)
             /\ Belts[Len(ledger)].rounds[<<a, b>>] = RoundsWon(a, b)
  <2>1. \A i \in Replayed : i <= Len(ledger)
    BY <1>1 DEF Replayed
  <2>2. MatchesOf(Len(ledger), a, b) =
          {i \in Replayed : Decided(ledger[i])
                            /\ <<a, b>> = <<Winner(ledger[i]), Loser(ledger[i])>>}
    BY <2>1, Zenon DEF MatchesOf
  <2>3. {j \in Replayed : j <= Len(ledger)} = Replayed
    BY <2>1
  <2>4. RoundsOf(Len(ledger), a, b) = UNION {{i} \X (1..Taken(ledger[i], a, b)) : i \in Replayed}
    BY <2>3, Zenon DEF RoundsOf
  <2>5. QED
    BY <1>1, <2>2, <2>4, CountersCount, Zenon DEF MatchesWon, RoundsWon
<1>4. QED
  BY <1>2, <1>3 DEF CountersAreTrue

\* A bout that is over is on the ledger, under its row.
LEMMA StepsOfTheLedger ==
  ASSUME [Next]_vars
  PROVE  \/ ledger' = ledger
         \/ \E r : r.session = session /\ ledger' = Append(ledger, r)
BY Zenon DEF Next, NewSession, Seat, Round, Dismiss, Abort, Close, vars

\* What the replay made of the older records stays.
LEMMA EarlierBeltsStay ==
  ASSUME BeltInv, BeltInv', BeltsFollow, BeltsFollow', session' = session,
         NEW r, ledger' = Append(ledger, r)
  PROVE  \A n \in 0..Len(ledger) : Belts'[n] = Belts[n]
<1>1. /\ Len(ledger) \in Nat /\ Len(ledger') = Len(ledger) + 1
      /\ DOMAIN ledger = 1..Len(ledger) /\ DOMAIN ledger' = 1..(Len(ledger) + 1)
      /\ \A n \in 1..Len(ledger) : ledger'[n] = ledger[n]
  BY DEF BeltInv, TypeOK
<1>2. \A n \in 1..Len(ledger) : n \in Replayed' <=> n \in Replayed
  BY <1>1 DEF Replayed
<1> DEFINE S == {n \in Nat : n \in 0..Len(ledger) => Belts'[n] = Belts[n]}
<1>3. 0 \in S
  BY DEF BeltsFollow
<1>4. ASSUME NEW n \in S PROVE n + 1 \in S
  <2>1. SUFFICES ASSUME n + 1 \in 0..Len(ledger) PROVE Belts'[n + 1] = Belts[n + 1]
    BY <1>4
  <2>2. n \in 0..Len(ledger) /\ n + 1 \in 1..Len(ledger) /\ n + 1 \in 1..Len(ledger') /\ (n + 1) - 1 = n
    BY <1>1, <1>4, <2>1
  <2>3. Belts'[n] = Belts[n]
    BY <1>4, <2>2
  <2>4. Belts[n + 1] = IF n + 1 \in Replayed THEN After(Belts[n], ledger[n + 1]) ELSE Belts[n]
    BY <2>2 DEF BeltsFollow
  <2>5. Belts'[n + 1] = IF n + 1 \in Replayed' THEN After(Belts'[n], ledger'[n + 1]) ELSE Belts'[n]
    BY <2>2 DEF BeltsFollow
  <2>6. QED
    BY <1>1, <1>2, <2>2, <2>3, <2>4, <2>5
<1>5. \A n \in Nat : n \in S
  <2>1. S \in SUBSET Nat
    OBVIOUS
  <2> HIDE DEF S
  <2>2. QED
    BY <1>3, <1>4, <2>1, EveryNatural
<1>6. QED
  BY <1>1, <1>5

LEMMA BeltIsTaken ==
  ASSUME BeltInv, BeltInv', BeltsFollow, BeltsFollow', CountersAreTrue', [Next]_vars,
         NEW h \in Profiles, session' = session, Holder = h, Holder' # h
  PROVE  BeatsTheHolder(Holder, h)'
<1>1. PICK r : r.session = session /\ ledger' = Append(ledger, r)
  <2>1. CASE ledger' = ledger
    <3>1. Holder' = Holder
      BY <2>1 DEF Holder, Belts, Replayed
    <3>2. QED
      BY <3>1
  <2>2. QED
    BY <2>1, StepsOfTheLedger
<1> DEFINE n == Len(ledger)
<1>2. /\ n \in Nat /\ Len(ledger') = n + 1 /\ ledger'[n + 1] = r /\ r \in Record
      /\ Last(ledger') = r /\ DOMAIN ledger' = 1..(n + 1)
  <2>1. ledger \in Seq(Record) /\ ledger' \in Seq(Record)
    BY DEF BeltInv, TypeOK
  <2>2. n \in Nat /\ Len(ledger') = n + 1 /\ ledger'[n + 1] = r /\ DOMAIN ledger' = 1..(n + 1)
    BY <1>1, <2>1
  <2>3. n + 1 \in 1..(n + 1)
    BY <2>2
  <2>4. r \in Record
    BY <2>1, <2>2, <2>3
  <2>5. QED
    BY <2>2, <2>4 DEF Last
<1> HIDE DEF n
<1>3. n + 1 \in Replayed'
  <2>1. Window \in Nat \ {0} /\ session \in Nat
    BY BeltAssumption DEF BeltInv, TypeOK
  <2>2. QED
    BY <1>1, <1>2, <2>1 DEF Replayed
<1>4. Belts[n] \in Title /\ Belts'[n] = Belts[n] /\ Belts[n].holder = h
  BY <1>1, <1>2, EarlierBeltsStay DEF BeltsFollow, Holder, n
<1>5. Belts'[n + 1] = After(Belts[n], r)
  <2>1. n + 1 \in 1..Len(ledger') /\ (n + 1) - 1 = n
    BY <1>2
  <2>2. Belts'[n + 1] = IF n + 1 \in Replayed' THEN After(Belts'[n], ledger'[n + 1]) ELSE Belts'[n]
    BY <2>1 DEF BeltsFollow
  <2>3. QED
    BY <1>2, <1>3, <1>4, <2>2
<1> DEFINE counted == Counted(Belts[n], r)
<1>6. /\ counted \in Title /\ counted.holder = h
      /\ Belts'[n + 1].matches = counted.matches /\ Belts'[n + 1].rounds = counted.rounds
  <2>1. counted \in Title /\ counted.holder = Belts[n].holder
    BY <1>2, <1>4, CountedIs, Zenon
  <2>2. After(Belts[n], r).matches = counted.matches /\ After(Belts[n], r).rounds = counted.rounds
    BY <1>2, <1>4, AfterIsATitle, Zenon
  <2>3. QED
    BY <1>4, <1>5, <2>1, <2>2, Zenon
<1> HIDE DEF counted
<1>7. After(Belts[n], r) = IF Takes(counted, r) THEN [counted EXCEPT !.holder = Winner(r)] ELSE counted
  BY Zenon DEF After, counted
<1>8. Takes(counted, r) /\ Holder' = Winner(r)
  BY <1>2, <1>5, <1>6, <1>7 DEF Holder, Title
<1>9. h # NoOne /\ Winner(r) \in Profiles
  BY <1>2, BeltAssumption, SidesOfARecord
<1>10. Loser(r) = h /\ Leads(counted.matches, Winner(r), h) /\ Leads(counted.rounds, Winner(r), h)
  BY <1>6, <1>8, <1>9 DEF Takes
<1> DEFINE w == Winner(r)
<1>11. /\ Belts'[n + 1].matches[<<w, h>>] > Belts'[n + 1].matches[<<h, w>>]
       /\ Belts'[n + 1].rounds[<<w, h>>] > Belts'[n + 1].rounds[<<h, w>>]
  BY <1>6, <1>10 DEF Leads
<1>12. \A a, b \in Profiles : /\ Belts'[n + 1].matches[<<a, b>>] = MatchesWon(a, b)'
                              /\ Belts'[n + 1].rounds[<<a, b>>] = RoundsWon(a, b)'
  BY <1>2, Zenon DEF CountersAreTrue
<1> HIDE DEF w
<1>13. w \in Profiles /\ Holder' = w
  BY <1>8, <1>9 DEF w
<1>14. /\ MatchesWon(w, h)' > MatchesWon(h, w)' /\ RoundsWon(w, h)' > RoundsWon(h, w)'
  BY <1>11, <1>12, <1>13, Zenon
<1>15. <<w, h>> = <<Winner(Last(ledger')), Loser(Last(ledger'))>>
  BY <1>2, <1>10 DEF w
<1>16. QED
  BY <1>13, <1>14, <1>15 DEF BeatsTheHolder, MatchesWon, RoundsWon

\* lineal_belt: the title changes hands only by a bout its holder lost, to a profile that leads
\* their whole record on both counts, for ledgers of any length and any window of the replay.
THEOREM TitlesAreWonInTheRing == Spec => BeltIsLostInTheRing
<1>1. BeltInv => BeltsFollow /\ CountersAreTrue
  BY ReplayIsTrue
<1>2. BeltInv /\ BeltInv' /\ BeltsFollow /\ BeltsFollow' /\ CountersAreTrue' /\ [Next]_vars =>
        [\A h \in Profiles :
           session' = session /\ Holder = h /\ Holder' # h => BeatsTheHolder(Holder, h)']_vars
  BY BeltIsTaken
<1>3. QED
  BY <1>1, <1>2, SpecKeepsBeltInv, PTL DEF Spec, BeltIsLostInTheRing

-----------------------------------------------------------------------------
(* Stamps. *)

\* The newest of some naturals is one of them, and no other is newer.
LEMMA NewestIsMax ==
  ASSUME NEW S \in SUBSET Nat, S # {}, NEW k \in Nat, \A x \in S : x <= k
  PROVE  Newest(S) \in S /\ \A x \in S : x <= Newest(S)
<1> DEFINE Less == {ss \in Nat \X Nat : ss[1] < ss[2]}
           Gaps == {k - x : x \in S}
<1>1. IsWellFoundedOn(Less, Nat)
  BY NatLessThanWellFounded, Zenon DEF OpToRel
<1>2. Gaps \in SUBSET Nat /\ Gaps # {}
  <2>1. \A x \in S : k - x \in Nat
    BY SMT
  <2>2. QED
    BY <2>1, Zenon
<1>3. PICK t \in Gaps : \A u \in Gaps : ~(<<u, t>> \in Less)
  <2> HIDE DEF Gaps
  <2> QED
    BY <1>1, <1>2, WFMin, Zenon
<1>4. PICK m \in S : t = k - m
  BY <1>3
<1>5. \A x \in S : x <= m
  <2> SUFFICES ASSUME NEW x \in S PROVE x <= m
    OBVIOUS
  <2>1. ~(<<k - x, t>> \in Less) /\ k - x \in Nat /\ t \in Nat
    BY <1>2, <1>3
  <2>2. ~(k - x < t)
    BY <2>1
  <2>3. QED
    BY <1>4, <2>2
<1>6. QED
  BY <1>5 DEF Newest

LEMMA NewestIsNatural ==
  ASSUME NEW S \in SUBSET Nat, NEW k \in Nat, \A x \in S : x <= k
  PROVE  Newest(S) \in Nat
<1>1. CASE S = {}
  BY <1>1 DEF Newest
<1>2. CASE S # {}
  BY <1>2, NewestIsMax
<1>3. QED
  BY <1>1, <1>2

\* What a rollup is aggregated from, a score per run, is counted by its runs.
LEMMA RowsCountRuns ==
  ASSUME NEW rows \in SUBSET (Nat \X Nat), \A x, y \in rows : x[1] = y[1] => x = y,
         NEW n \in Nat, \A x \in rows : x[1] \in 1..n
  PROVE  /\ IsFiniteSet(rows) /\ IsFiniteSet({x[1] : x \in rows})
         /\ Cardinality(rows) \in Nat
         /\ Cardinality({x[1] : x \in rows}) = Cardinality(rows)
<1> DEFINE runs == {x[1] : x \in rows}
           f == [x \in rows |-> x[1]]
           g == [r \in runs |-> CHOOSE x \in rows : x[1] = r]
<1>1. IsFiniteSet(runs)
  <2>1. IsFiniteSet(1..n) /\ runs \in SUBSET (1..n)
    BY FS_Interval
  <2>2. QED
    BY <2>1, FS_Subset
<1>2. g \in Bijection(runs, rows)
  <2>1. \A r \in runs : g[r] \in rows /\ g[r][1] = r
    OBVIOUS
  <2>2. g \in [runs -> rows] /\ \A a, b \in runs : g[a] = g[b] => a = b
    BY <2>1
  <2>3. \A x \in rows : x[1] \in runs /\ g[x[1]] = x
    BY <2>1
  <2>4. QED
    BY <2>2, <2>3, Zenon DEF Bijection, Injection, Surjection, IsInjective
<1>3. ExistsBijection(runs, rows)
  BY <1>2 DEF ExistsBijection
<1>4. QED
  BY <1>1, <1>3, FS_Bijection, FS_CardinalityType

\* A tagged list of runs, and their scores under one methodology, as the database has them.
Filed(f, s) ==
  /\ f \in Seq(Fingerprints \cup {Unstamped})
  /\ s \in Seq([Versions -> Nat]) /\ Len(s) = Len(f)

LEMMA FieldIsTyped ==
  ASSUME NEW f, NEW s, Filed(f, s), NEW v \in Versions
  PROVE  {<<r, f[r], s[r][v]>> :
            r \in {x \in {y \in DOMAIN f : s[y][v] > 0} : f[x] # Unstamped}}
           \in SUBSET (Nat \X Fingerprints \X Nat)
<1>1. \A r \in DOMAIN f : r \in Nat /\ f[r] \in Fingerprints \cup {Unstamped} /\ s[r][v] \in Nat
  <2> SUFFICES ASSUME NEW r \in DOMAIN f
               PROVE  r \in Nat /\ f[r] \in Fingerprints \cup {Unstamped} /\ s[r][v] \in Nat
    OBVIOUS
  <2>1. r \in 1..Len(f) /\ r \in 1..Len(s)
    BY DEF Filed
  <2>2. f[r] \in Fingerprints \cup {Unstamped} /\ s[r] \in [Versions -> Nat]
    BY <2>1 DEF Filed
  <2>3. QED
    BY <2>1, <2>2
<1>2. QED
  BY <1>1

\* ... and has a stamp.
LEMMA RowsHaveAStamp ==
  ASSUME NEW rows \in SUBSET (Nat \X Nat), \A x, y \in rows : x[1] = y[1] => x = y,
         NEW n \in Nat, \A x \in rows : x[1] \in 1..n,
         NEW k \in Nat, \A x \in rows : x[2] <= k
  PROVE  RowsStamp(rows) \in Stamps
<1>1. Cardinality(rows) \in Nat
  BY RowsCountRuns
<1>2. Newest({x[1] : x \in rows}) \in Nat
  <2>1. {x[1] : x \in rows} \in SUBSET Nat /\ \A t \in {x[1] : x \in rows} : t <= n
    OBVIOUS
  <2>2. QED
    BY <2>1, NewestIsNatural
<1>3. Newest({x[2] : x \in rows}) \in Nat
  <2>1. {x[2] : x \in rows} \in SUBSET Nat /\ \A t \in {x[2] : x \in rows} : t <= k
    OBVIOUS
  <2>2. QED
    BY <2>1, NewestIsNatural
<1>4. QED
  BY <1>1, <1>2, <1>3 DEF RowsStamp, Stamps

\* Two rollups of the same stamp, the one of them with no run and no newer score than the
\* other has, are the same: a count, a newest run and a newest scoring tell them apart.
LEMMA StampTellsRows ==
  ASSUME NEW old \in SUBSET (Nat \X Nat), NEW new \in SUBSET (Nat \X Nat),
         \A x, y \in old : x[1] = y[1] => x = y,
         \A x, y \in new : x[1] = y[1] => x = y,
         NEW n \in Nat, \A x \in new : x[1] \in 1..n,
         NEW k \in Nat, \A x \in old \cup new : x[2] <= k,
         \A x \in old : \E y \in new :
            x[1] = y[1] /\ (x[2] = y[2] \/ \A z \in old : z[2] < y[2]),
         RowsStamp(old) = RowsStamp(new)
  PROVE  old = new
<1> DEFINE runsOf(rows) == {x[1] : x \in rows}
           scoresOf(rows) == {x[2] : x \in rows}
<1>1. runsOf(old) \subseteq runsOf(new) /\ \A x \in old : x[1] \in 1..n
  OBVIOUS
<1>2. Cardinality(old) = Cardinality(new) /\ Newest(scoresOf(old)) = Newest(scoresOf(new))
  BY Zenon DEF RowsStamp
<1>3. runsOf(old) = runsOf(new)
  <2>1. /\ IsFiniteSet(runsOf(new)) /\ Cardinality(runsOf(new)) = Cardinality(new)
        /\ Cardinality(runsOf(old)) = Cardinality(old)
    BY <1>1, RowsCountRuns
  <2>2. QED
    BY <1>1, <1>2, <2>1, FS_Subset
<1>4. ASSUME NEW x \in old, NEW y \in new, x[1] = y[1]
      PROVE  x = y
  <2>1. x[2] = y[2] \/ \A z \in old : z[2] < y[2]
    BY <1>4
  <2>2. ~(\A z \in old : z[2] < y[2])
    <3>1. /\ scoresOf(old) \in SUBSET Nat /\ scoresOf(old) # {} /\ \A t \in scoresOf(old) : t <= k
          /\ scoresOf(new) \in SUBSET Nat /\ scoresOf(new) # {} /\ \A t \in scoresOf(new) : t <= k
      BY <1>4
    <3>2. Newest(scoresOf(old)) \in scoresOf(old) /\ y[2] <= Newest(scoresOf(new))
      <4> HIDE DEF scoresOf
      <4>1. y[2] \in scoresOf(new)
        BY DEF scoresOf
      <4>2. QED
        BY <3>1, <4>1, NewestIsMax
    <3>3. PICK z \in old : z[2] = Newest(scoresOf(old))
      BY <3>2
    <3>4. y[2] <= z[2] /\ y[2] \in Nat /\ z[2] \in Nat
      BY <1>2, <3>2, <3>3
    <3>5. QED
      BY <3>4
  <2>3. x \in Nat \X Nat /\ y \in Nat \X Nat /\ x[1] = y[1] /\ x[2] = y[2]
    BY <1>4, <2>1, <2>2
  <2>4. QED
    BY <2>3
<1>5. old \subseteq new
  <2> SUFFICES ASSUME NEW x \in old PROVE x \in new
    OBVIOUS
  <2>1. PICK y \in new : x[1] = y[1]
    OBVIOUS
  <2>2. QED
    BY <1>4, <2>1
<1>6. new \subseteq old
  <2> SUFFICES ASSUME NEW y \in new PROVE y \in old
    OBVIOUS
  <2>1. y[1] \in runsOf(old)
    BY <1>3
  <2>2. PICK x \in old : x[1] = y[1]
    BY <2>1
  <2>3. QED
    BY <1>4, <2>2
<1>7. QED
  BY <1>5, <1>6

LEMMA DbIsFiled ==
  ASSUME DbTypes
  PROVE  /\ Filed(fp, scored) /\ clock \in Nat /\ Runs = 1..Len(fp) /\ Len(fp) \in Nat
         /\ \A v \in Versions : \A r \in Runs : scored[r][v] \in Nat /\ scored[r][v] <= clock
<1>1. clock \in Nat
  BY CacheAssumption DEF DbTypes, CacheAssumption
<1>2. scored \in Seq([Versions -> 0..clock]) /\ fp \in Seq(Fingerprints \cup {Unstamped})
      /\ Len(scored) = Len(fp)
  BY DEF DbTypes
<1>3. \A r \in 1..Len(fp) : scored[r] \in [Versions -> 0..clock]
  BY <1>2
<1>4. scored \in Seq([Versions -> Nat])
  BY <1>2, <1>3, <1>1
<1>5. QED
  BY <1>1, <1>2, <1>3, <1>4 DEF Filed, Runs

\* The answers of the moment are of their types, and true.
LEMMA AnswersAreTrue ==
  DbTypes =>
    /\ FieldNow \in Fields /\ FieldStamp \in Stamps
    /\ \A v \in Versions : \A p \in Fingerprints :
         RollupNow(v, p) \in Rollups /\ WasTrue(RollupNow(v, p)) /\ IsBehind(RollupNow(v, p), p)
<1> SUFFICES ASSUME DbTypes
             PROVE  /\ FieldNow \in Fields /\ FieldStamp \in Stamps
                    /\ \A v \in Versions : \A p \in Fingerprints :
                         /\ RollupNow(v, p) \in Rollups
                         /\ WasTrue(RollupNow(v, p)) /\ IsBehind(RollupNow(v, p), p)
  OBVIOUS
<1>1. FieldNow \in Fields
  <2>1. version \in Versions
    BY DEF DbTypes
  <2>2. FieldNow.rows \in SUBSET (Nat \X Fingerprints \X Nat)
    BY <2>1, DbIsFiled, FieldIsTyped DEF FieldNow, Scored, Runs
  <2>3. QED
    BY <2>1, <2>2 DEF FieldNow, Fields
<1>2. FieldStamp \in Stamps
  BY DbIsFiled DEF FieldStamp, Stamps, DbTypes, Versions
<1>3. ASSUME NEW v \in Versions, NEW p \in Fingerprints
      PROVE  RollupNow(v, p) \in Rollups /\ WasTrue(RollupNow(v, p)) /\ IsBehind(RollupNow(v, p), p)
  <2> DEFINE rows == RowsOf(v, p)
  <2>1. /\ rows \in SUBSET (Nat \X Nat) /\ IsFiniteSet(rows)
        /\ \A x, y \in rows : x[1] = y[1] => x = y
        /\ RowsStamp(rows) \in Stamps
    <3>1. /\ rows \in SUBSET (Nat \X Nat) /\ \A x, y \in rows : x[1] = y[1] => x = y
          /\ \A x \in rows : x[1] \in 1..Len(fp) /\ x[2] <= clock
      BY DbIsFiled DEF RowsOf, Scored
    <3>2. Len(fp) \in Nat /\ clock \in Nat
      BY DbIsFiled
    <3> HIDE DEF rows
    <3>3. QED
      BY <3>1, <3>2, RowsCountRuns, RowsHaveAStamp
  <2>2. \A x \in rows : /\ x[1] \in Runs /\ fp[x[1]] = p
                        /\ scored[x[1]][v] > 0 /\ scored[x[1]][v] = x[2] /\ x[2] <= clock
    BY DbIsFiled DEF RowsOf, Scored
  <2>3. /\ RollupNow(v, p) \in Rollups /\ RollupNow(v, p).version = v
        /\ RollupNow(v, p).rows = rows /\ RollupNow(v, p).stamp = RowsStamp(rows)
    BY <2>1 DEF RollupNow, Rollups
  <2> HIDE DEF rows
  <2>4. QED
    BY <2>1, <2>2, <2>3, Zenon DEF WasTrue, IsBehind
<1>4. QED
  BY <1>1, <1>2, <1>3

\* ... and so are those of the next moment.
LEMMA NextAnswersAreTrue ==
  (DbTypes =>
    /\ FieldNow \in Fields /\ FieldStamp \in Stamps
    /\ \A v \in Versions : \A p \in Fingerprints :
         RollupNow(v, p) \in Rollups /\ WasTrue(RollupNow(v, p)) /\ IsBehind(RollupNow(v, p), p))'
BY AnswersAreTrue, PTL

-----------------------------------------------------------------------------
(* Types. *)

LEMMA IdleIsACall == Idle \in Call
<1>1. 0 \in Versions /\ <<0, 0, 0>> \in Stamps
  BY CacheAssumption DEF Versions, Stamps, CacheAssumption
<1>2. QED
  BY <1>1 DEF Idle, Call, Points

\* A list of scores stays one when more scores are possible, and when one is replaced.
LEMMA ScoresGrow ==
  /\ \A S, T : S \subseteq T => Seq(S) \subseteq Seq(T)
  /\ \A S : \A s \in Seq(S) : \A i \in 1..Len(s) : \A x \in S :
       [s EXCEPT ![i] = x] \in Seq(S) /\ Len([s EXCEPT ![i] = x]) = Len(s)
OBVIOUS

LEMMA RunLandsKeepsDb ==
  ASSUME DbTypes, RunLands
  PROVE  DbTypes'
<1>1. clock \in Nat /\ clock + 1 <= MaxWrites /\ MaxWrites \in Nat /\ MaxRuns \in Nat
  BY DbIsFiled, CacheAssumption DEF RunLands, CacheAssumption, DbTypes
<1>2. scored \in Seq([Versions -> 0..clock'])
  <2>1. [Versions -> 0..clock] \subseteq [Versions -> 0..clock']
    BY <1>1 DEF RunLands
  <2>2. QED
    BY <2>1, ScoresGrow DEF DbTypes
<1>3. scored' \in Seq([Versions -> 0..clock']) /\ Len(scored') = Len(scored) + 1
  <2>1. [v \in Versions |-> IF v = version THEN clock + 1 ELSE 0] \in [Versions -> 0..clock']
    BY <1>1 DEF RunLands
  <2>2. QED
    BY <1>2, <2>1 DEF RunLands
<1>4. fp' \in Seq(Fingerprints \cup {Unstamped}) /\ Len(fp') = Len(fp) + 1
  BY DEF RunLands, DbTypes, Fingerprints
<1>5. QED
  BY <1>1, <1>3, <1>4 DEF RunLands, DbTypes, rewrites

LEMMA RegradeRunKeepsDb ==
  ASSUME DbTypes, RegradeRun
  PROVE  DbTypes'
<1>1. clock \in Nat /\ clock + 1 <= MaxWrites /\ MaxWrites \in Nat
  BY DbIsFiled, CacheAssumption DEF RegradeRun, CacheAssumption, DbTypes
<1>2. under' \in Versions
  BY DEF RegradeRun, DbTypes
<1>3. PICK r \in Runs : /\ scored' = [scored EXCEPT ![r][under'] = clock + 1]
                        /\ scores' = IF scored[r][under'] = 0 THEN scores + 1 ELSE scores
  BY DEF RegradeRun
<1>4. scored' \in Seq([Versions -> 0..clock']) /\ Len(scored') = Len(scored)
  <2>1. [Versions -> 0..clock] \subseteq [Versions -> 0..clock']
    BY <1>1 DEF RegradeRun
  <2>2. scored \in Seq([Versions -> 0..clock']) /\ r \in 1..Len(scored)
    BY <2>1, ScoresGrow, DbIsFiled DEF DbTypes
  <2>3. [scored[r] EXCEPT ![under'] = clock + 1] \in [Versions -> 0..clock']
    <3>1. scored[r] \in [Versions -> 0..clock'] /\ clock + 1 \in 0..clock'
      BY <1>1, <2>2 DEF RegradeRun
    <3>2. QED
      BY <1>2, <3>1
  <2>4. scored' = [scored EXCEPT ![r] = [scored[r] EXCEPT ![under'] = clock + 1]]
    BY <1>3, Zenon
  <2>5. QED
    BY <2>2, <2>3, <2>4, ScoresGrow
<1>5. scores' \in Nat /\ clock' \in 0..MaxWrites
  BY <1>1, <1>3 DEF RegradeRun, DbTypes
<1>6. QED
  BY <1>2, <1>4, <1>5 DEF RegradeRun, DbTypes

LEMMA DbStepKeepsDb ==
  ASSUME DbTypes, RunLands \/ Publish \/ RegradeRun \/ Refingerprint \/ Backfill
  PROVE  DbTypes'
<1>1. CASE Publish
  BY <1>1, CacheAssumption DEF Publish, DbTypes, Versions, rewrites, CacheAssumption
<1>2. CASE Refingerprint
  BY <1>2 DEF Refingerprint, DbTypes, Fingerprints, Runs
<1>3. CASE Backfill
  BY <1>3 DEF Backfill, DbTypes, Fingerprints, Runs, rewrites
<1>4. QED
  BY <1>1, <1>2, <1>3, RunLandsKeepsDb, RegradeRunKeepsDb

DbStep == RunLands \/ Publish \/ RegradeRun \/ Refingerprint \/ Backfill

\* Through a move of the database a call keeps all but its history; who may yet be given a
\* stored answer has seen the next true one.
LEMMA CallsWitness ==
  ASSUME CacheTypeOK, DbTypes', Witnessed
  PROVE  /\ call' \in [Callers -> Call]
         /\ \A c \in Callers :
              /\ call'[c].pc = call[c].pc /\ call'[c].what = call[c].what
              /\ call'[c].under = call[c].under /\ call'[c].stamp = call[c].stamp
              /\ call'[c].got = call[c].got /\ call'[c].leader = call[c].leader
              /\ call[c].seen \subseteq call'[c].seen
              /\ call[c].rewrote => call'[c].rewrote
              /\ call[c].pc \in {"enter", "wait", "rows"} =>
                   /\ call[c].what = "field" => FieldNow' \in call'[c].seen
                   /\ \A v \in Versions, p \in Fingerprints :
                        call[c].under = v /\ call[c].what = p => RollupNow(v, p)' \in call'[c].seen
<1> DEFINE now(c) == {Now'[call[c].what][call[c].under]}
           Later(c) == IF call[c].pc \notin {"enter", "wait", "rows"} THEN call[c]
                       ELSE [call[c] EXCEPT !.seen = @ \cup now(c), !.rewrote = @ \/ Rewriting']
<1>1. call' = [c \in Callers |-> Later(c)]
  BY Zenon DEF Witnessed
<1>2. ASSUME NEW c \in Callers
      PROVE  /\ now(c) \subseteq Fields \cup Rollups
             /\ call[c].what = "field" => FieldNow' \in now(c)
             /\ \A v \in Versions, p \in Fingerprints :
                  call[c].under = v /\ call[c].what = p => RollupNow(v, p)' \in now(c)
  <2>1. PICK w \in {"field"} \cup Fingerprints, v \in Versions :
          w = call[c].what /\ v = call[c].under
    BY DEF CacheTypeOK, Call
  <2>2. now(c) = {IF w = "field" THEN FieldNow' ELSE RollupNow(v, w)'}
    BY <2>1 DEF Now
  <2>3. CASE w = "field"
    <3>1. now(c) = {FieldNow'} /\ w \notin Fingerprints
      BY <2>2, <2>3, CacheAssumption DEF Fingerprints, CacheAssumption
    <3> HIDE DEF now
    <3>2. QED
      BY <2>1, <2>3, <3>1, NextAnswersAreTrue
  <2>4. CASE w # "field"
    <3>1. now(c) = {RollupNow(v, w)'}
      BY <2>2, <2>4
    <3> HIDE DEF now
    <3>2. w \in Fingerprints /\ RollupNow(v, w)' \in Rollups
      BY <2>1, <2>4, NextAnswersAreTrue
    <3>3. QED
      BY <2>1, <2>4, <3>1, <3>2
  <2>5. QED
    BY <2>3, <2>4
<1>3. ASSUME NEW c \in Callers
      PROVE  Later(c) \in Call
  <2>1. call[c] \in Call /\ Rewriting' \in BOOLEAN
    BY DEF CacheTypeOK, Rewriting
  <2> HIDE DEF now
  <2>2. QED
    BY <1>2, <2>1 DEF Call
<1>4. QED
  <2> HIDE DEF now
  <2> SUFFICES ASSUME NEW c \in Callers
               PROVE  /\ call'[c] \in Call
                      /\ call'[c].pc = call[c].pc /\ call'[c].what = call[c].what
                      /\ call'[c].under = call[c].under /\ call'[c].stamp = call[c].stamp
                      /\ call'[c].got = call[c].got /\ call'[c].leader = call[c].leader
                      /\ call[c].seen \subseteq call'[c].seen
                      /\ call[c].rewrote => call'[c].rewrote
                      /\ call[c].pc \in {"enter", "wait", "rows"} => now(c) \subseteq call'[c].seen
    BY <1>1, <1>2
  <2>1. call[c] \in Call
    BY DEF CacheTypeOK
  <2>2. QED
    BY <1>1, <1>3, <2>1 DEF Call

LEMMA DbStepKeepsTypes ==
  ASSUME CacheTypeOK, DbStep
  PROVE  CacheTypeOK'
<1>1. DbTypes' /\ Witnessed
  BY DbStepKeepsDb DEF CacheTypeOK, DbStep, RunLands, Publish, RegradeRun, Refingerprint, Backfill
<1>2. call' \in [Callers -> Call]
  BY <1>1, CallsWitness
<1>3. rewrite' \in [Rewriters -> {"idle", "written", "cleared"}]
  BY DEF CacheTypeOK, DbStep, RunLands, Publish, RegradeRun, Refingerprint, Backfill, rewrites,
         Rewriters
<1>4. UNCHANGED cached
  BY DEF DbStep, RunLands, Publish, RegradeRun, Refingerprint, Backfill
<1>5. QED
  BY <1>1, <1>2, <1>3, <1>4 DEF CacheTypeOK, cached, drops

\* A caller that goes on to another point of its call.
LEMMA Onward ==
  ASSUME CacheTypeOK, NEW c \in Callers, NEW p \in Points
  PROVE  /\ [call[c] EXCEPT !.pc = p, !.got = NoField, !.seen = {}, !.rewrote = FALSE] \in Call
         /\ \A d \in Callers : [call[c] EXCEPT !.pc = p, !.leader = d] \in Call
         /\ \A x \in Fields \cup Rollups : [call[c] EXCEPT !.pc = p, !.got = x] \in Call
<1>1. call[c] \in Call
  BY DEF CacheTypeOK
<1>2. QED
  BY <1>1 DEF Call

CallerStep(c) == Ask(c) \/ AskRollup(c) \/ Raise(c) \/ Step(c)

\* But for the leader that sets its event, a step of a caller changes its own call only.
LEMMA CallerMoves ==
  ASSUME CacheTypeOK, NEW c \in Callers, CallerStep(c), ~Set(c)
  PROVE  \E k \in Call : call' = [call EXCEPT ![c] = k]
<1> USE DEF Become, To, Points
<1>1. CASE Ask(c)
  <2> DEFINE k == [Idle EXCEPT !.pc = "enter", !.stamp = FieldStamp,
                               !.seen = {FieldNow}, !.rewrote = Rewriting]
  <2>1. FieldStamp \in Stamps /\ FieldNow \in Fields /\ Rewriting \in BOOLEAN
    BY AnswersAreTrue DEF CacheTypeOK, Rewriting
  <2>2. k \in Call
    BY <2>1, IdleIsACall DEF Call
  <2>3. QED
    BY <1>1, <2>2 DEF Ask
<1>2. CASE AskRollup(c)
  <2>1. PICK p \in Asked :
          Become(c, [Idle EXCEPT !.pc = "rows", !.what = p, !.under = version,
                                 !.stamp = RollupNow(version, p).stamp,
                                 !.seen = {RollupNow(version, p)}])
    BY <1>2 DEF AskRollup
  <2> DEFINE k == [Idle EXCEPT !.pc = "rows", !.what = p, !.under = version,
                               !.stamp = RollupNow(version, p).stamp,
                               !.seen = {RollupNow(version, p)}]
  <2>2. p \in Fingerprints /\ version \in Versions
    BY CacheAssumption DEF CacheTypeOK, DbTypes, Fingerprints, CacheAssumption
  <2>3. RollupNow(version, p) \in Rollups
    BY <2>2, AnswersAreTrue DEF CacheTypeOK
  <2>4. RollupNow(version, p).stamp \in Stamps
    BY <2>3 DEF Rollups
  <2>5. k \in Call
    BY <2>2, <2>3, <2>4, IdleIsACall DEF Call
  <2>6. QED
    BY <2>1, <2>5
<1>3. CASE Raise(c) \/ Lead(c) \/ Store(c) \/ Pop(c) \/ FindStale(c)
  BY <1>3, Onward DEF Raise, Lead, Store, Pop, FindStale
<1>4. CASE Hit(c) \/ NothingToRead(c) \/ ServeStored(c) \/ Persist(c)
  BY <1>4, IdleIsACall DEF Hit, NothingToRead, ServeStored, Persist
<1>5. CASE Follow(c)
  BY <1>5, Onward DEF Follow, Flight, CacheTypeOK
<1>6. CASE Read(c)
  <2>1. FieldNow \in Fields
    BY AnswersAreTrue DEF CacheTypeOK
  <2>2. QED
    BY <1>6, <2>1, Onward DEF Read
<1>7. CASE Recompute(c)
  <2>1. Now[call[c].what][call[c].under] \in Fields \cup Rollups
    BY <1>7, AnswersAreTrue DEF Recompute, AsksRollup, Now, CacheTypeOK, Call
  <2>2. QED
    BY <1>7, <2>1, Onward DEF Recompute
<1>8. QED
  BY <1>1, <1>2, <1>3, <1>4, <1>5, <1>6, <1>7 DEF CallerStep, Step

LEMMA SetMoves ==
  ASSUME CacheTypeOK, NEW c \in Callers, Set(c)
  PROVE  /\ call' \in [Callers -> Call] /\ call'[c] = Idle
         /\ \A d \in Callers \ {c} :
              \/ call'[d] = call[d] /\ ~(call[d].pc = "wait" /\ call[d].leader = c)
              \/ /\ call[d].pc = "wait"
                 /\ call'[d] = [call[d] EXCEPT !.pc = "enter", !.leader = NoCaller]
<1> DEFINE Turn(d) == CASE d = c -> Idle
                        [] call[d].pc = "wait" /\ call[d].leader = c ->
                             [call[d] EXCEPT !.pc = "enter", !.leader = NoCaller]
                        [] OTHER -> call[d]
<1>1. call' = [d \in Callers |-> Turn(d)] /\ call[c].pc = "set"
  BY DEF Set, AsksField
<1>2. ASSUME NEW d \in Callers, d # c
      PROVE  /\ Turn(d) \in Call
             /\ \/ Turn(d) = call[d] /\ ~(call[d].pc = "wait" /\ call[d].leader = c)
                \/ /\ call[d].pc = "wait"
                   /\ Turn(d) = [call[d] EXCEPT !.pc = "enter", !.leader = NoCaller]
  <2>1. call[d] \in Call
    BY DEF CacheTypeOK
  <2>2. [call[d] EXCEPT !.pc = "enter", !.leader = NoCaller] \in Call
    BY <2>1 DEF Call, Points
  <2>3. QED
    BY <1>2, <2>1, <2>2
<1>3. Turn(c) = Idle
  BY <1>1
<1> HIDE DEF Turn
<1>4. QED
  BY <1>1, <1>2, <1>3, IdleIsACall

\* What the steps of callers leave alone, and what they do to the stored answers.
LEMMA CallersStore ==
  ASSUME CacheTypeOK, NEW c \in Callers, CallerStep(c)
  PROVE  /\ UNCHANGED <<db, rewrites>>
         /\ \/ memo' = memo /\ UNCHANGED drops
            \/ /\ Store(c) /\ memo' = Stored(c)
               /\ undone' = (c \in overtaken) /\ overtaken' = overtaken \ {c}
         /\ \/ rollups' = rollups
            \/ Persist(c) /\ rollups' = [rollups EXCEPT ![call[c].what] = call[c].got]
         /\ \/ flights' = flights
            \/ Lead(c) /\ flights' = flights \cup {[stamp |-> call[c].stamp, leader |-> c]}
            \/ Pop(c) /\ flights' = flights \ Flight(c)
BY DEF CallerStep, Step, Ask, AskRollup, Raise, Hit, Lead, Follow, Read, Store, Pop, Set,
       NothingToRead, ServeStored, FindStale, Recompute, Persist, cached, Stored

LEMMA CallerStepKeepsTypes ==
  ASSUME CacheTypeOK, AnswersHeld, NEW c \in Callers, CallerStep(c)
  PROVE  CacheTypeOK'
<1>1. DbTypes' /\ rewrite' \in [Rewriters -> {"idle", "written", "cleared"}]
  BY CallersStore DEF CacheTypeOK, DbTypes, db, rewrites, Versions
<1>2. call' \in [Callers -> Call]
  <2>1. CASE Set(c)
    BY <2>1, SetMoves
  <2>2. CASE ~Set(c)
    BY <2>2, CallerMoves DEF CacheTypeOK
  <2>3. QED
    BY <2>1, <2>2
<1>3. memo' \in [stamp : Stamps, field : Fields] \cup {NoField}
  <2>1. CASE Store(c) /\ memo' = Stored(c)
    <3>1. call[c].stamp \in Stamps /\ call[c].got \in Fields
      BY <2>1 DEF Store, AnswersHeld, CacheTypeOK, Call
    <3>2. QED
      BY <2>1, <3>1 DEF Stored
  <2>2. QED
    BY <2>1, CallersStore DEF CacheTypeOK
<1>4. rollups' \in [Fingerprints -> Rollups \cup {NoRow}]
  <2>1. CASE Persist(c) /\ rollups' = [rollups EXCEPT ![call[c].what] = call[c].got]
    <3>1. call[c].what \in Fingerprints /\ call[c].got \in Rollups
      BY <2>1 DEF Persist, AsksRollup, AnswersHeld
    <3>2. QED
      BY <2>1, <3>1 DEF CacheTypeOK
  <2>2. QED
    BY <2>1, CallersStore DEF CacheTypeOK
<1>5. flights' \subseteq [stamp : Stamps, leader : Callers]
  <2>1. call[c].stamp \in Stamps
    BY DEF CacheTypeOK, Call
  <2>2. QED
    BY <2>1, CallersStore DEF CacheTypeOK
<1>6. raises' \in 0..MaxRaises
  <2>1. raises \in 0..MaxRaises /\ MaxRaises \in Nat
    BY CacheAssumption DEF CacheTypeOK, CacheAssumption
  <2>2. raises' = raises \/ (raises < MaxRaises /\ raises' = raises + 1)
    BY DEF CallerStep, Step, Ask, AskRollup, Raise, Hit, Lead, Follow, Read, Store, Pop, Set,
           NothingToRead, ServeStored, FindStale, Recompute, Persist, cached
  <2>3. QED
    BY <2>1, <2>2
<1>7. overtaken' \subseteq Callers /\ undone' \in BOOLEAN
  <2>1. (c \in overtaken) \in BOOLEAN
    OBVIOUS
  <2>2. QED
    BY <2>1, CallersStore DEF CacheTypeOK, drops
<1>8. QED
  BY <1>1, <1>2, <1>3, <1>4, <1>5, <1>6, <1>7 DEF CacheTypeOK

LEMMA DropKeepsTypes ==
  ASSUME CacheTypeOK, NEW w \in Rewriters, DropMemo(w) \/ DropRollups(w)
  PROVE  CacheTypeOK'
<1>1. DbTypes'
  BY DEF CacheTypeOK, DbTypes, DropMemo, DropRollups, db, Versions
<1>2. overtaken' \subseteq Callers /\ undone' \in BOOLEAN
  BY DEF CacheTypeOK, DropMemo, DropRollups, Passing, drops
<1>3. QED
  BY <1>1, <1>2 DEF CacheTypeOK, DropMemo, DropRollups

-----------------------------------------------------------------------------
(* Nobody waits for a pass that is over. *)

Awaited == {"read", "store", "pop", "set"}
Aloof == {"idle", "enter", "rows", "recompute", "persist"}

\* A call that nobody waits for before its step and that waits for nobody after it.
LEMMA AloofKeepsWaits ==
  ASSUME CacheTypeOK, WaitersFollow, NobodyWaitsForNothing, flights' = flights,
         NEW c \in Callers, NEW k, call' = [call EXCEPT ![c] = k],
         call[c].pc \in Aloof, k.pc \in Aloof
  PROVE  WaitersFollow' /\ NobodyWaitsForNothing'
<1>1. call'[c] = k /\ \A d \in Callers : d # c => call'[d] = call[d]
  BY DEF CacheTypeOK
<1>2. \A d \in Callers : call[d].pc = "wait" => call[d].leader \in Callers /\ call[d].leader # c
  BY DEF WaitersFollow, NobodyWaitsForNothing, Aloof
<1>3. \A f \in flights : f.leader \in Callers /\ f.leader # c
  BY DEF CacheTypeOK, NobodyWaitsForNothing, Aloof
<1>4. WaitersFollow'
  BY <1>1 DEF WaitersFollow, Aloof
<1>5. NobodyWaitsForNothing'
  BY <1>1, <1>2, <1>3 DEF NobodyWaitsForNothing, Aloof
<1>6. QED
  BY <1>4, <1>5

\* A leader on its way to set its event.
LEMMA LeaderKeepsWaits ==
  ASSUME CacheTypeOK, WaitersFollow, NobodyWaitsForNothing,
         NEW c \in Callers, NEW k, call' = [call EXCEPT ![c] = k],
         call[c].pc \in Awaited, k.pc \in Awaited, k.stamp = call[c].stamp,
         \/ flights' = flights /\ k.pc # "set"
         \/ flights' = flights \ Flight(c)
  PROVE  WaitersFollow' /\ NobodyWaitsForNothing'
<1>1. call'[c] = k /\ \A d \in Callers : d # c => call'[d] = call[d]
  BY DEF CacheTypeOK
<1>2. \A d \in Callers : call[d].pc = "wait" => d # c /\ call[d].leader \in Callers
  BY DEF WaitersFollow, Awaited
<1>3. \A f \in flights : f.leader \in Callers /\ f.stamp = call[f.leader].stamp
  BY DEF CacheTypeOK, NobodyWaitsForNothing
<1>4. \A f \in flights' : f \in flights /\ (f.leader = c => k.pc # "set")
  BY <1>3 DEF Flight
<1>5. WaitersFollow'
  BY <1>1 DEF WaitersFollow, Awaited
<1>6. NobodyWaitsForNothing'
  <2>1. ASSUME NEW d \in Callers, call'[d].pc = "wait"
        PROVE  /\ call'[call'[d].leader].pc \in {"read", "store", "pop", "set"}
               /\ call'[call'[d].leader].stamp = call'[d].stamp
    <3>1. d # c /\ call'[d] = call[d] /\ call[d].leader \in Callers
      BY <1>1, <1>2, <2>1 DEF Awaited
    <3>2. /\ call[call[d].leader].pc \in {"read", "store", "pop", "set"}
          /\ call[call[d].leader].stamp = call[d].stamp
      BY <2>1, <3>1 DEF NobodyWaitsForNothing
    <3>3. QED
      BY <1>1, <3>1, <3>2 DEF Awaited
  <2>2. ASSUME NEW f \in flights'
        PROVE  call'[f.leader].pc \in {"read", "store", "pop"} /\ call'[f.leader].stamp = f.stamp
    <3>1. call[f.leader].pc \in {"read", "store", "pop"} /\ f.leader \in Callers
      BY <1>3, <1>4 DEF NobodyWaitsForNothing
    <3>2. QED
      BY <1>1, <1>3, <1>4, <3>1 DEF Awaited
  <2>3. QED
    BY <2>1, <2>2 DEF NobodyWaitsForNothing
<1>7. QED
  BY <1>5, <1>6

LEMMA CallerStepKeepsWaits ==
  ASSUME CacheTypeOK, WaitersFollow, NobodyWaitsForNothing, NEW c \in Callers, CallerStep(c)
  PROVE  WaitersFollow' /\ NobodyWaitsForNothing'
<1> DEFINE Ahead(p) == [call[c] EXCEPT !.pc = p, !.got = NoField, !.seen = {}, !.rewrote = FALSE]
<1>1. call[c] \in Call
  BY DEF CacheTypeOK
<1>2. \A p \in Points : Ahead(p).pc = p /\ Ahead(p).stamp = call[c].stamp
  BY <1>1 DEF Call
<1>3. CASE \/ Hit(c) \/ NothingToRead(c) \/ ServeStored(c) \/ Persist(c)
  BY <1>3, AloofKeepsWaits DEF Hit, NothingToRead, ServeStored, Persist, Become, Idle, Aloof,
     AsksField, AsksRollup, cached
<1>4. CASE FindStale(c)
  BY <1>2, <1>4, AloofKeepsWaits DEF FindStale, To, Become, Aloof, Points, AsksRollup, cached
<1>5. CASE Ask(c)
  <2> DEFINE k == [Idle EXCEPT !.pc = "enter", !.stamp = FieldStamp,
                               !.seen = {FieldNow}, !.rewrote = Rewriting]
  <2>1. call' = [call EXCEPT ![c] = k] /\ k.pc = "enter"
    BY <1>5 DEF Ask, Become, Idle
  <2> HIDE DEF k
  <2>2. QED
    BY <1>5, <2>1, AloofKeepsWaits DEF Ask, Aloof, cached
<1>6. CASE AskRollup(c)
  <2> DEFINE k(p) == [Idle EXCEPT !.pc = "rows", !.what = p, !.under = version,
                                  !.stamp = RollupNow(version, p).stamp,
                                  !.seen = {RollupNow(version, p)}]
  <2>1. PICK p \in Asked : call' = [call EXCEPT ![c] = k(p)] /\ k(p).pc = "rows"
    BY <1>6 DEF AskRollup, Become, Idle
  <2> HIDE DEF k
  <2>2. QED
    BY <1>6, <2>1, AloofKeepsWaits DEF AskRollup, Aloof, cached
<1>7. CASE Recompute(c)
  <2> DEFINE k == [call[c] EXCEPT !.pc = "persist", !.got = Now[call[c].what][call[c].under]]
  <2>1. call' = [call EXCEPT ![c] = k] /\ k.pc = "persist"
    BY <1>1, <1>7 DEF Recompute, Become, Call
  <2> HIDE DEF k
  <2>2. QED
    BY <1>7, <2>1, AloofKeepsWaits DEF Recompute, AsksRollup, Aloof, cached
<1>8. CASE Raise(c) \/ Store(c)
  <2>1. call' = [call EXCEPT ![c] = Ahead("pop")] /\ flights' = flights
        /\ call[c].pc \in {"read", "store"}
    BY <1>8 DEF Raise, Store, To, Become, AsksField
  <2>2. Ahead("pop").pc = "pop" /\ Ahead("pop").stamp = call[c].stamp
    BY <1>2 DEF Points
  <2> HIDE DEF Ahead
  <2>3. QED
    BY <2>1, <2>2, LeaderKeepsWaits DEF Awaited
<1>9. CASE Read(c)
  <2> DEFINE k == [call[c] EXCEPT !.pc = "store", !.got = FieldNow]
  <2>1. call' = [call EXCEPT ![c] = k] /\ k.pc = "store" /\ k.stamp = call[c].stamp
    BY <1>1, <1>9 DEF Read, Become, Call
  <2> HIDE DEF k
  <2>2. QED
    BY <1>9, <2>1, LeaderKeepsWaits DEF Read, AsksField, Awaited, cached
<1>10. CASE Pop(c)
  BY <1>2, <1>10, LeaderKeepsWaits DEF Pop, To, Become, Awaited, Points, AsksField
<1>11. CASE Lead(c)
  <2> DEFINE f == [stamp |-> call[c].stamp, leader |-> c]
  <2>1. call' = [call EXCEPT ![c] = Ahead("read")] /\ call[c].pc = "enter"
        /\ flights' = flights \cup {f}
    BY <1>11 DEF Lead, To, Become, AsksField
  <2>2. /\ call'[c].pc = "read" /\ call'[c].stamp = call[c].stamp
        /\ \A d \in Callers : d # c => call'[d] = call[d]
    BY <1>2, <2>1 DEF CacheTypeOK, Points
  <2>3. \A d \in Callers : call'[d].pc = "wait" =>
          d # c /\ call[d].leader \in Callers /\ call[d].leader # c
    BY <2>1, <2>2 DEF WaitersFollow, NobodyWaitsForNothing
  <2>4. \A g \in flights : g.leader \in Callers /\ g.leader # c
    BY <2>1 DEF CacheTypeOK, NobodyWaitsForNothing
  <2>5. WaitersFollow'
    BY <2>2, <2>3 DEF WaitersFollow
  <2>6. NobodyWaitsForNothing'
    BY <2>1, <2>2, <2>3, <2>4 DEF NobodyWaitsForNothing
  <2>7. QED
    BY <2>5, <2>6
<1>12. CASE Follow(c)
  <2>1. PICK f \in flights :
          /\ f.stamp = call[c].stamp /\ call[c].pc = "enter" /\ flights' = flights
          /\ call' = [call EXCEPT ![c] = [call[c] EXCEPT !.pc = "wait", !.leader = f.leader]]
    BY <1>12 DEF Follow, Flight, Become, AsksField, cached
  <2>2. /\ call'[c].pc = "wait" /\ call'[c].stamp = call[c].stamp /\ call'[c].leader = f.leader
        /\ \A d \in Callers : d # c => call'[d] = call[d]
    BY <1>1, <2>1 DEF CacheTypeOK, Call
  <2>3. \A d \in Callers : call[d].pc = "wait" =>
          d # c /\ call[d].leader \in Callers /\ call[d].leader # c
    BY <2>1 DEF WaitersFollow, NobodyWaitsForNothing
  <2>4. \A g \in flights : g.leader \in Callers /\ g.leader # c
    BY <2>1 DEF CacheTypeOK, NobodyWaitsForNothing
  <2>5. WaitersFollow'
    BY <2>1, <2>2, <2>3, <2>4 DEF WaitersFollow
  <2>6. NobodyWaitsForNothing'
    BY <2>1, <2>2, <2>3, <2>4 DEF NobodyWaitsForNothing
  <2>7. QED
    BY <2>5, <2>6
<1>13. CASE Set(c)
  <2>1. call[c].pc = "set" /\ flights' = flights
    BY <1>13 DEF Set, AsksField, cached
  <2>2. /\ call'[c] = Idle
        /\ \A d \in Callers \ {c} :
              \/ call'[d] = call[d] /\ ~(call[d].pc = "wait" /\ call[d].leader = c)
              \/ /\ call[d].pc = "wait"
                 /\ call'[d] = [call[d] EXCEPT !.pc = "enter", !.leader = NoCaller]
    BY <1>13, SetMoves
  <2>3. \A d \in Callers : call[d].pc = "wait" =>
          /\ call[d].leader \in Callers
          /\ call[call[d].leader].pc \in Awaited /\ call[call[d].leader].stamp = call[d].stamp
    BY DEF WaitersFollow, NobodyWaitsForNothing, Awaited
  <2>4. \A d \in Callers : call'[d].pc = "wait" =>
          d # c /\ call'[d] = call[d] /\ call[d].pc = "wait" /\ call[d].leader # c
    <3>1. \A d \in Callers : call[d] \in Call
      BY DEF CacheTypeOK
    <3>2. \A d \in Callers : [call[d] EXCEPT !.pc = "enter", !.leader = NoCaller].pc = "enter"
      BY <3>1 DEF Call
    <3>3. Idle.pc = "idle"
      BY DEF Idle
    <3>4. SUFFICES ASSUME NEW d \in Callers, call'[d].pc = "wait"
                   PROVE  d # c /\ call'[d] = call[d] /\ call[d].leader # c
      BY Zenon
    <3>5. d # c
      BY <2>2, <3>3, <3>4
    <3>6. call'[d] # [call[d] EXCEPT !.pc = "enter", !.leader = NoCaller]
      BY <3>2, <3>4
    <3>7. call'[d] = call[d] /\ ~(call[d].pc = "wait" /\ call[d].leader = c)
      BY <2>2, <3>5, <3>6, Zenon
    <3>8. QED
      BY <3>4, <3>5, <3>7
  <2>5. \A d \in Callers : d # c /\ call[d].pc # "wait" => call'[d] = call[d]
    BY <2>2
  <2>6. \A g \in flights : g.leader \in Callers /\ g.leader # c
    BY <2>1 DEF CacheTypeOK, NobodyWaitsForNothing
  <2>7. WaitersFollow'
    BY <2>3, <2>4 DEF WaitersFollow
  <2>8. NobodyWaitsForNothing'
    <3>1. \A d \in Callers : call'[d].pc = "wait" =>
            /\ call'[call'[d].leader].pc \in Awaited
            /\ call'[call'[d].leader].stamp = call'[d].stamp
      BY <2>3, <2>4, <2>5 DEF Awaited
    <3>2. \A g \in flights : call'[g.leader] = call[g.leader]
      BY <2>5, <2>6 DEF NobodyWaitsForNothing
    <3>3. QED
      BY <2>1, <3>1, <3>2 DEF NobodyWaitsForNothing, Awaited
  <2>9. QED
    BY <2>7, <2>8
<1>14. QED
  BY <1>3, <1>4, <1>5, <1>6, <1>7, <1>8, <1>9, <1>10, <1>11, <1>12, <1>13 DEF CallerStep, Step

\* The database and the drops leave the flights and the waiting alone.
LEMMA OthersKeepWaits ==
  ASSUME CacheTypeOK, WaitersFollow, NobodyWaitsForNothing, flights' = flights,
         \A c \in Callers : /\ call'[c].pc = call[c].pc /\ call'[c].leader = call[c].leader
                            /\ call'[c].stamp = call[c].stamp
  PROVE  WaitersFollow' /\ NobodyWaitsForNothing'
<1>1. \A f \in flights : f.leader \in Callers
  BY DEF CacheTypeOK
<1>2. WaitersFollow'
  BY DEF WaitersFollow
<1>3. NobodyWaitsForNothing'
  BY <1>1 DEF WaitersFollow, NobodyWaitsForNothing
<1>4. QED
  BY <1>2, <1>3

-----------------------------------------------------------------------------
(* The rollups. *)

\* What a move of the database does to the runs: their scores stay or are the newest, and
\* the runs of one profile stay with it or all leave it for good.
LEMMA DbMoves ==
  ASSUME DbTypes, DbStep
  PROVE  /\ clock <= clock'
         /\ \A r \in Runs :
              /\ r \in Runs'
              /\ \A v \in Versions : scored'[r][v] = scored[r][v] \/ scored'[r][v] > clock
              /\ fp[r] = Profile => fp'[r] = Profile
         /\ \/ \A r \in Runs : fp[r] = Spelling => fp'[r] = Spelling
            \/ \A r \in Runs' : fp'[r] # Spelling
         /\ (\A r \in Runs : fp[r] # Spelling) => \A r \in Runs' : fp'[r] # Spelling
<1> USE CacheAssumption, DbIsFiled DEF CacheAssumption
<1>1. CASE RunLands
  <2>1. /\ Len(fp') = Len(fp) + 1 /\ \A r \in 1..Len(fp) : fp'[r] = fp[r]
        /\ fp'[Len(fp) + 1] = Profile
    BY <1>1 DEF RunLands, Filed
  <2>2. \A r \in 1..Len(fp) : scored'[r] = scored[r]
    BY <1>1 DEF RunLands, Filed
  <2>3. fp' \in Seq(Fingerprints \cup {Unstamped})
    BY <1>1, RunLandsKeepsDb DEF DbTypes
  <2>4. Runs' = 1..Len(fp) + 1
    BY <2>1, <2>3 DEF Runs
  <2>5. \A r \in Runs : r \in Runs' /\ fp'[r] = fp[r] /\ scored'[r] = scored[r]
    BY <2>1, <2>2, <2>4
  <2>6. \A r \in Runs' : (r \in Runs /\ fp'[r] = fp[r]) \/ fp'[r] = Profile
    BY <2>1, <2>4
  <2>7. clock <= clock' /\ Profile # Spelling
    BY <1>1 DEF RunLands
  <2>8. QED
    BY <2>5, <2>6, <2>7
<1>2. CASE Publish
  BY <1>2 DEF Publish, Runs
<1>3. CASE RegradeRun
  <2>1. PICK r \in Runs : scored' = [scored EXCEPT ![r][under'] = clock + 1]
    BY <1>3 DEF RegradeRun
  <2>2. \A i \in Runs : \A v \in Versions : scored'[i][v] = scored[i][v] \/ scored'[i][v] > clock
    <3>1. \A i \in Runs : i \in DOMAIN scored /\ (i # r => scored'[i] = scored[i])
      BY <2>1 DEF Filed
    <3>2. scored'[r] = [scored[r] EXCEPT ![under'] = clock + 1]
      BY <2>1, <3>1
    <3>3. scored[r] \in [Versions -> Nat]
      BY DEF Filed
    <3>4. QED
      BY <3>1, <3>2, <3>3
  <2>3. QED
    BY <1>3, <2>2 DEF RegradeRun, Runs
<1>4. CASE Refingerprint
  BY <1>4 DEF Refingerprint, Runs
<1>5. CASE Backfill
  BY <1>5 DEF Backfill, Runs
<1>6. QED
  BY <1>1, <1>2, <1>3, <1>4, <1>5 DEF DbStep

\* A row with the version and the stamp of the present rollup is the present rollup.
LEMMA StampTells ==
  ASSUME DbTypes, NEW p \in Fingerprints, NEW v \in Versions, NEW row,
         WasTrue(row), IsBehind(row, p) \/ (p = Spelling /\ \A r \in Runs : fp[r] # Spelling),
         row.version = v, row.stamp = RollupNow(v, p).stamp, row.stamp # NoRows
  PROVE  row = RollupNow(v, p)
<1>1. RollupNow(v, p) \in Rollups /\ WasTrue(RollupNow(v, p)) /\ IsBehind(RollupNow(v, p), p)
  BY AnswersAreTrue
<1>2. /\ RollupNow(v, p).rows = RowsOf(v, p) /\ RollupNow(v, p).version = v
      /\ RollupNow(v, p).stamp = RowsStamp(RowsOf(v, p))
  BY DEF RollupNow
<1>3. row.rows = RowsOf(v, p)
  <2>1. CASE p = Spelling /\ \A r \in Runs : fp[r] # Spelling
    <3>1. RowsOf(v, p) = {}
      BY <2>1 DEF RowsOf, Scored
    <3>2. RowsStamp({}) = <<0, 0, 0>>
      BY FS_EmptySet DEF RowsStamp, Newest
    <3>3. QED
      BY <1>2, <3>1, <3>2 DEF NoRows
  <2>2. CASE IsBehind(row, p)
    <3>1. /\ row.rows \in SUBSET (Nat \X Nat) /\ RowsOf(v, p) \in SUBSET (Nat \X Nat)
          /\ \A x, y \in row.rows : x[1] = y[1] => x = y
          /\ \A x, y \in RowsOf(v, p) : x[1] = y[1] => x = y
      BY <1>1, <1>2 DEF WasTrue, Rollups
    <3>2. \A x \in row.rows \cup RowsOf(v, p) : x[2] <= clock
      BY <1>1, <1>2 DEF WasTrue
    <3>3. Len(fp) \in Nat /\ clock \in Nat /\ \A x \in RowsOf(v, p) : x[1] \in 1..Len(fp)
      BY DbIsFiled DEF RowsOf, Scored
    <3>4. \A x \in row.rows : \E y \in RowsOf(v, p) :
            x[1] = y[1] /\ (x[2] = y[2] \/ \A z \in row.rows : z[2] < y[2])
      <4> SUFFICES ASSUME NEW x \in row.rows
                   PROVE  \E y \in RowsOf(v, p) :
                            x[1] = y[1] /\ (x[2] = y[2] \/ \A z \in row.rows : z[2] < y[2])
        OBVIOUS
      <4> DEFINE y == <<x[1], scored[x[1]][v]>>
      <4>1. /\ x[1] \in Runs /\ fp[x[1]] = p /\ scored[x[1]][v] > 0
            /\ scored[x[1]][v] = x[2] \/ \A z \in row.rows : z[2] < scored[x[1]][v]
        BY <2>2 DEF IsBehind
      <4>2. y \in RowsOf(v, p)
        BY <4>1 DEF RowsOf, Scored
      <4>3. QED
        BY <4>1, <4>2
    <3>5. RowsStamp(row.rows) = RowsStamp(RowsOf(v, p))
      BY <1>2 DEF WasTrue
    <3>6. QED
      BY <3>1, <3>2, <3>3, <3>4, <3>5, StampTellsRows
  <2>3. QED
    BY <2>1, <2>2
<1>4. row \in Rollups
  BY DEF WasTrue
<1>5. QED
  BY <1>1, <1>2, <1>3, <1>4 DEF Rollups

LEMMA DbKeepsRollups ==
  ASSUME CacheTypeOK, RollupsWereTrue, ReadersHaveSeen, DbStep
  PROVE  RollupsWereTrue' /\ ReadersHaveSeen'
<1>1. DbTypes /\ DbTypes' /\ Witnessed /\ rollups' = rollups /\ CacheTypeOK'
  BY DbStepKeepsDb, DbStepKeepsTypes
     DEF CacheTypeOK, DbStep, RunLands, Publish, RegradeRun, Refingerprint, Backfill, cached
<1>2. \A c \in Callers :
        /\ call'[c].pc = call[c].pc /\ call'[c].what = call[c].what
        /\ call'[c].under = call[c].under /\ call'[c].stamp = call[c].stamp
        /\ call'[c].got = call[c].got /\ call[c].seen \subseteq call'[c].seen
        /\ call[c].pc = "rows" =>
             \A v \in Versions, p \in Fingerprints :
               call[c].under = v /\ call[c].what = p => RollupNow(v, p)' \in call'[c].seen
  BY <1>1, CallsWitness
<1>3. \A p \in Fingerprints : Built(p)' = Built(p)
  BY <1>1, <1>2 DEF Built
<1>4. \A row : WasTrue(row) => WasTrue(row)'
  <2> SUFFICES ASSUME NEW row, WasTrue(row) PROVE WasTrue(row)'
    OBVIOUS
  <2>1. \A x \in row.rows : x[2] <= clock /\ x[2] \in Nat
    BY DEF WasTrue, Rollups
  <2>2. clock <= clock' /\ clock \in Nat /\ clock' \in Nat
    BY <1>1, DbMoves, DbIsFiled, CacheAssumption DEF DbTypes, CacheAssumption
  <2>3. \A x \in row.rows : x[2] <= clock'
    BY <2>1, <2>2
  <2>4. QED
    BY <2>3, Zenon DEF WasTrue
<1>5. ASSUME NEW p \in Fingerprints, NEW row \in Built(p)
      PROVE  IsBehind(row, p)' \/ (p = Spelling /\ \A r \in Runs' : fp'[r] # Spelling)
  <2>1. WasTrue(row) /\ (IsBehind(row, p) \/ (p = Spelling /\ \A r \in Runs : fp[r] # Spelling))
    BY <1>5 DEF RollupsWereTrue
  <2>2. CASE p = Spelling /\ \A r \in Runs : fp[r] # Spelling
    BY <1>1, <2>2, DbMoves
  <2>3. CASE p = Spelling /\ \A r \in Runs' : fp'[r] # Spelling
    BY <2>3
  <2>4. CASE IsBehind(row, p) /\ ~(p = Spelling /\ \A r \in Runs' : fp'[r] # Spelling)
    <3>1. \A r \in Runs : fp[r] = p => r \in Runs' /\ fp'[r] = p
      BY <1>1, <2>4, DbMoves DEF Fingerprints
    <3>2. row.version \in Versions /\ \A y \in row.rows : y[2] <= clock /\ y[2] \in Nat
      BY <2>1 DEF WasTrue, Rollups
    <3>3. \A r \in Runs : /\ scored[r][row.version] \in Nat /\ scored'[r][row.version] \in Nat
                          /\ \/ scored'[r][row.version] = scored[r][row.version]
                             \/ scored'[r][row.version] > clock
      <4>1. \A v \in Versions : \A r \in Runs' : scored'[r][v] \in Nat
        <5>1. clock' \in Nat /\ Runs' = 1..Len(scored')
          BY <1>1, CacheAssumption DEF DbTypes, Runs, CacheAssumption
        <5>2. \A r \in Runs' : scored'[r] \in [Versions -> 0..clock']
          <6>1. scored' \in Seq([Versions -> 0..clock'])
            BY <1>1 DEF DbTypes
          <6>2. QED
            BY <5>1, <6>1
        <5>3. QED
          BY <5>1, <5>2
      <4>2. QED
        BY <1>1, <3>2, <4>1, DbMoves, DbIsFiled
    <3>4. clock \in Nat
      BY <1>1, DbIsFiled
    <3>5. ASSUME NEW x \in row.rows
          PROVE  /\ x[1] \in Runs' /\ fp'[x[1]] = p /\ scored'[x[1]][row.version] > 0
                 /\ \/ scored'[x[1]][row.version] = x[2]
                    \/ \A y \in row.rows : y[2] < scored'[x[1]][row.version]
      <4>1. /\ x[1] \in Runs /\ fp[x[1]] = p /\ scored[x[1]][row.version] > 0
            /\ \/ scored[x[1]][row.version] = x[2]
               \/ \A y \in row.rows : y[2] < scored[x[1]][row.version]
        BY <2>4 DEF IsBehind
      <4>2. QED
        BY <3>1, <3>2, <3>3, <3>4, <4>1
    <3>6. QED
      BY <3>5 DEF IsBehind
  <2>5. QED
    BY <2>1, <2>2, <2>3, <2>4
<1>6. RollupsWereTrue'
  BY <1>3, <1>4, <1>5 DEF RollupsWereTrue
<1>7. ReadersHaveSeen'
  <2> SUFFICES ASSUME NEW c \in Callers, call'[c].pc = "rows"
               PROVE  /\ call'[c].what \in Fingerprints
                      /\ RollupNow(call[c].under, call[c].what)' \in call'[c].seen
                      /\ \A row \in Built(call[c].what)' :
                           row.version = call'[c].under /\ row.stamp = call'[c].stamp
                           /\ call'[c].stamp # NoRows => row \in call'[c].seen
    BY DEF ReadersHaveSeen
  <2>1. PICK p \in Fingerprints, v \in Versions : p = call[c].what /\ v = call[c].under
    BY <1>2 DEF ReadersHaveSeen, CacheTypeOK, Call
  <2>2. RollupNow(v, p)' \in call'[c].seen
    BY <1>2, <2>1
  <2>3. p = call'[c].what /\ v = call'[c].under
    BY <1>2, <2>1
  <2>4. RollupNow(call[c].under, call[c].what)' \in call'[c].seen
    BY <2>2, <2>3
  <2>5. Built(call[c].what)' = Built(p)
    BY <1>3, <2>3
  <2>6. QED
    BY <1>2, <2>1, <2>3, <2>4, <2>5 DEF ReadersHaveSeen
<1>8. QED
  BY <1>6, <1>7

\* What a caller stores, or will, is what a recomputation found.
LEMMA BuiltByCallers ==
  ASSUME CacheTypeOK, NEW c \in Callers, CallerStep(c),
         NEW p \in Fingerprints, NEW row \in Built(p)'
  PROVE  row \in Built(p) \/ \E v \in Versions : row = RollupNow(v, p)
<1>1. call[c] \in Call
  BY DEF CacheTypeOK
<1>2. CASE row = rollups'[p] /\ row # NoRow
  <2>1. CASE rollups' = rollups
    BY <1>2, <2>1 DEF Built
  <2>2. CASE Persist(c) /\ rollups' = [rollups EXCEPT ![call[c].what] = call[c].got]
    <3>1. call[c].pc = "persist" /\ (row = rollups[p] \/ (call[c].what = p /\ row = call[c].got))
      BY <1>2, <2>2 DEF CacheTypeOK, Persist, AsksRollup
    <3>2. QED
      BY <1>2, <3>1 DEF Built
  <2>3. QED
    BY <2>1, <2>2, CallersStore
<1>3. ASSUME NEW d \in Callers, call'[d].pc = "persist", call'[d].what = p, row = call'[d].got
      PROVE  row \in Built(p) \/ \E v \in Versions : row = RollupNow(v, p)
  <2>1. CASE call'[d] = call[d]
    BY <1>3, <2>1 DEF Built
  <2>2. CASE Recompute(c) /\ d = c
    <3>1. call'[c] = [call[c] EXCEPT !.pc = "persist", !.got = Now[call[c].what][call[c].under]]
      BY <2>2 DEF Recompute, Become, CacheTypeOK
    <3>2. call[c].what = p /\ row = Now[call[c].what][call[c].under] /\ call[c].under \in Versions
      BY <1>1, <1>3, <2>2, <3>1 DEF Call
    <3>3. p # "field"
      BY CacheAssumption DEF Fingerprints, CacheAssumption
    <3>4. QED
      BY <3>2, <3>3 DEF Now
  <2>3. CASE Set(c)
    <3>1. call[d] \in Call
      BY DEF CacheTypeOK
    <3>2. [call[d] EXCEPT !.pc = "enter", !.leader = NoCaller].pc # "persist" /\ Idle.pc # "persist"
      BY <3>1 DEF Call, Idle
    <3>3. call'[d] = call[d]
      BY <1>3, <2>3, <3>2, SetMoves
    <3>4. QED
      BY <2>1, <3>3
  <2>4. CASE ~Set(c) /\ ~Recompute(c)
    <3>1. PICK k \in Call : call' = [call EXCEPT ![c] = k]
      BY <2>4, CallerMoves
    <3>2. call'[c] = k /\ (d # c => call'[d] = call[d])
      BY <3>1 DEF CacheTypeOK
    <3>3. call'[c].pc # "persist"
      <4>1. \A q \in Points : [call[c] EXCEPT !.pc = q, !.got = NoField, !.seen = {}, !.rewrote = FALSE].pc = q
        BY <1>1 DEF Call
      <4>2. CASE Raise(c) \/ Lead(c) \/ Store(c) \/ Pop(c) \/ FindStale(c)
        BY <3>2, <4>1, <4>2 DEF CacheTypeOK, Raise, Lead, Store, Pop, FindStale, To, Become, Points
      <4>3. CASE Hit(c) \/ NothingToRead(c) \/ ServeStored(c) \/ Persist(c)
        BY <4>3 DEF CacheTypeOK, Hit, NothingToRead, ServeStored, Persist, Become, Idle
      <4>4. CASE Ask(c)
        BY <4>4 DEF CacheTypeOK, Ask, Become, Idle
      <4>5. CASE AskRollup(c)
        BY <4>5 DEF CacheTypeOK, AskRollup, Become, Idle
      <4>6. CASE Follow(c)
        BY <1>1, <4>6 DEF CacheTypeOK, Follow, Become, Call
      <4>7. CASE Read(c)
        BY <1>1, <4>7 DEF CacheTypeOK, Read, Become, Call
      <4>8. QED
        BY <2>4, <4>2, <4>3, <4>4, <4>5, <4>6, <4>7 DEF CallerStep, Step
    <3>4. QED
      BY <1>3, <2>1, <3>2, <3>3
  <2>5. CASE Recompute(c) /\ d # c
    BY <2>1, <2>5 DEF Recompute, Become, CacheTypeOK
  <2>6. QED
    BY <2>2, <2>3, <2>4, <2>5
<1>4. QED
  BY <1>2, <1>3 DEF Built

\* Who reads the stored rollups after the step of a caller asked before it, or just asked.
LEMMA ReadersAsked ==
  ASSUME CacheTypeOK, NEW c \in Callers, CallerStep(c), NEW d \in Callers, call'[d].pc = "rows"
  PROVE  \/ call'[d] = call[d]
         \/ \E p \in Fingerprints :
              /\ call'[d].what = p /\ call'[d].under = version
              /\ call'[d].stamp = RollupNow(version, p).stamp
              /\ call'[d].seen = {RollupNow(version, p)}
<1>1. call[c] \in Call /\ call[d] \in Call
  BY DEF CacheTypeOK
<1>2. CASE Set(c)
  <2>1. [call[d] EXCEPT !.pc = "enter", !.leader = NoCaller].pc # "rows" /\ Idle.pc # "rows"
    BY <1>1 DEF Call, Idle
  <2>2. QED
    BY <1>2, <2>1, SetMoves
<1>3. CASE ~Set(c) /\ d # c
  BY <1>3, CallerMoves DEF CacheTypeOK
<1>4. CASE ~Set(c) /\ d = c /\ ~AskRollup(c)
  <2>1. \A q \in Points : [call[c] EXCEPT !.pc = q, !.got = NoField, !.seen = {}, !.rewrote = FALSE].pc = q
    BY <1>1 DEF Call
  <2>2. CASE Raise(c) \/ Lead(c) \/ Store(c) \/ Pop(c) \/ FindStale(c)
    BY <1>4, <2>1, <2>2 DEF CacheTypeOK, Raise, Lead, Store, Pop, FindStale, To, Become, Points
  <2>3. CASE Hit(c) \/ NothingToRead(c) \/ ServeStored(c) \/ Persist(c)
    BY <1>4, <2>3 DEF CacheTypeOK, Hit, NothingToRead, ServeStored, Persist, Become, Idle
  <2>4. CASE Ask(c)
    BY <1>4, <2>4 DEF CacheTypeOK, Ask, Become, Idle
  <2>5. CASE Follow(c)
    BY <1>1, <1>4, <2>5 DEF CacheTypeOK, Follow, Become, Call
  <2>6. CASE Read(c)
    BY <1>1, <1>4, <2>6 DEF CacheTypeOK, Read, Become, Call
  <2>7. CASE Recompute(c)
    BY <1>1, <1>4, <2>7 DEF CacheTypeOK, Recompute, Become, Call
  <2>8. QED
    BY <1>4, <2>2, <2>3, <2>4, <2>5, <2>6, <2>7 DEF CallerStep, Step
<1>5. CASE AskRollup(c) /\ d = c
  <2>1. PICK p \in Asked :
          call'[c] = [Idle EXCEPT !.pc = "rows", !.what = p, !.under = version,
                                  !.stamp = RollupNow(version, p).stamp,
                                  !.seen = {RollupNow(version, p)}]
    BY <1>5 DEF AskRollup, Become, CacheTypeOK
  <2>2. p \in Fingerprints
    BY CacheAssumption DEF Fingerprints, CacheAssumption
  <2>3. QED
    BY <1>5, <2>1, <2>2 DEF Idle
<1>6. QED
  BY <1>2, <1>3, <1>4, <1>5

LEMMA CallerStepKeepsRollups ==
  ASSUME CacheTypeOK, RollupsWereTrue, ReadersHaveSeen, NEW c \in Callers, CallerStep(c)
  PROVE  RollupsWereTrue' /\ ReadersHaveSeen'
<1>1. UNCHANGED db /\ DbTypes /\ version \in Versions
  BY CallersStore DEF CacheTypeOK, DbTypes
<1>2. \A p \in Fingerprints : \A row \in Built(p)' :
        row \in Built(p) \/ \E v \in Versions : row = RollupNow(v, p)
  BY BuiltByCallers
<1>3. \A p \in Fingerprints : \A row \in Built(p)' :
        WasTrue(row) /\ (IsBehind(row, p) \/ (p = Spelling /\ \A r \in Runs : fp[r] # Spelling))
  BY <1>1, <1>2, AnswersAreTrue DEF RollupsWereTrue
<1>4. RollupsWereTrue'
  <2>1. \A row : WasTrue(row) => WasTrue(row)'
    BY <1>1 DEF WasTrue, db, Versions, Rollups
  <2>2. \A row, p : IsBehind(row, p) => IsBehind(row, p)'
    BY <1>1 DEF IsBehind, db, Runs
  <2>3. QED
    BY <1>1, <1>3, <2>1, <2>2, Zenon DEF RollupsWereTrue, db, Runs
<1>5. ReadersHaveSeen'
  <2> SUFFICES ASSUME NEW d \in Callers, call'[d].pc = "rows"
               PROVE  /\ call'[d].what \in Fingerprints
                      /\ RollupNow(call[d].under, call[d].what)' \in call'[d].seen
                      /\ \A row \in Built(call[d].what)' :
                           row.version = call'[d].under /\ row.stamp = call'[d].stamp
                           /\ call'[d].stamp # NoRows => row \in call'[d].seen
    BY DEF ReadersHaveSeen
  <2>1. \A p, v : RollupNow(v, p)' = RollupNow(v, p)
    BY <1>1 DEF db, RollupNow, RowsOf, Scored, Runs
  <2>2. CASE call'[d] = call[d]
    <3>1. PICK p \in Fingerprints, v \in Versions :
            p = call[d].what /\ v = call[d].under /\ RollupNow(v, p) \in call[d].seen
      BY <2>2 DEF ReadersHaveSeen, CacheTypeOK, Call
    <3>2. p = call'[d].what /\ v = call'[d].under
      BY <2>2, <3>1
    <3>3. RollupNow(call[d].under, call[d].what)' = RollupNow(v, p)
      BY <2>1, <3>2
    <3>4. Built(call[d].what)' = Built(p)'
      BY <3>2
    <3>5. ASSUME NEW row \in Built(p)', row.version = v, row.stamp = call[d].stamp,
                 call[d].stamp # NoRows
          PROVE  row \in call[d].seen
      <4>1. CASE row \in Built(p)
        BY <2>2, <3>1, <3>5, <4>1 DEF ReadersHaveSeen
      <4>2. CASE \E u \in Versions : row = RollupNow(u, p)
        <5>1. row = RollupNow(v, p)
          BY <3>5, <4>2 DEF RollupNow
        <5>2. QED
          BY <3>1, <5>1
      <4>3. QED
        BY <1>2, <4>1, <4>2
    <3>6. QED
      BY <2>2, <3>1, <3>2, <3>3, <3>4, <3>5
  <2>3. ASSUME NEW p \in Fingerprints, call'[d].what = p, call'[d].under = version,
               call'[d].stamp = RollupNow(version, p).stamp,
               call'[d].seen = {RollupNow(version, p)}
        PROVE  /\ call'[d].what \in Fingerprints
               /\ RollupNow(call[d].under, call[d].what)' \in call'[d].seen
               /\ \A row \in Built(call[d].what)' :
                    row.version = call'[d].under /\ row.stamp = call'[d].stamp
                    /\ call'[d].stamp # NoRows => row \in call'[d].seen
    <3>1. RollupNow(call[d].under, call[d].what)' = RollupNow(version, p)
      BY <2>1, <2>3
    <3>2. Built(call[d].what)' = Built(p)'
      BY <2>3
    <3>3. ASSUME NEW row \in Built(p)', row.version = version,
                 row.stamp = RollupNow(version, p).stamp, row.stamp # NoRows
          PROVE  row = RollupNow(version, p)
      BY <1>1, <1>3, <3>3, StampTells
    <3>4. QED
      BY <2>3, <3>1, <3>2, <3>3
  <2>4. QED
    BY <2>2, <2>3, ReadersAsked
<1>6. QED
  BY <1>4, <1>5

\* Fewer rollups do no harm.
LEMMA FewerRollups ==
  ASSUME CacheTypeOK, RollupsWereTrue, ReadersHaveSeen, UNCHANGED <<db, call>>,
         \/ rollups' = rollups
         \/ rollups' = [p \in Fingerprints |-> NoRow]
  PROVE  RollupsWereTrue' /\ ReadersHaveSeen'
<1>1. UNCHANGED <<db, call>>
  OBVIOUS
<1>2. \A p \in Fingerprints : Built(p)' \subseteq Built(p)
  BY DEF Built
<1>3. RollupsWereTrue'
  <2>1. \A row : WasTrue(row) => WasTrue(row)'
    BY <1>1 DEF WasTrue, db, Versions, Rollups
  <2>2. \A row, p : IsBehind(row, p) => IsBehind(row, p)'
    BY <1>1 DEF IsBehind, db, Runs
  <2>3. QED
    BY <1>1, <1>2, <2>1, <2>2 DEF RollupsWereTrue, db, Runs
<1>4. ReadersHaveSeen'
  <2>1. \A p, v : RollupNow(v, p)' = RollupNow(v, p)
    BY <1>1 DEF db, RollupNow, RowsOf, Scored, Runs
  <2>2. QED
    BY <1>1, <1>2, <2>1 DEF ReadersHaveSeen
<1>5. QED
  BY <1>3, <1>4

-----------------------------------------------------------------------------
(* The flights and the rollups. *)

LEMMA InitEstablishesCacheInv == CacheInit => CacheInv /\ FieldInv
<1> SUFFICES ASSUME CacheInit PROVE CacheInv /\ FieldInv
  OBVIOUS
<1>1. \A c \in Callers : call[c] = Idle /\ Idle.pc = "idle" /\ Idle.stamp = <<0, 0, 0>>
  BY DEF CacheInit, Idle
<1>2. DbTypes
  <2>1. fp \in Seq(Fingerprints \cup {Unstamped}) /\ Len(fp) = 2
    BY DEF CacheInit, Fingerprints
  <2>2. 0 \in Versions /\ clock = 2 /\ 2 \in 0..MaxWrites /\ 2 \in 2..MaxRuns
    BY CacheAssumption DEF CacheInit, Versions, CacheAssumption
  <2>3. FirstScore(1) \in [Versions -> 0..clock] /\ FirstScore(2) \in [Versions -> 0..clock]
    BY <2>2 DEF FirstScore
  <2>4. scored \in Seq([Versions -> 0..clock]) /\ Len(scored) = 2
    BY <2>3 DEF CacheInit
  <2>5. QED
    BY <2>1, <2>2, <2>4 DEF CacheInit, DbTypes
<1>3. CacheTypeOK
  <2>1. call \in [Callers -> Call]
    BY IdleIsACall DEF CacheInit
  <2>2. raises \in 0..MaxRaises
    BY CacheAssumption DEF CacheInit, CacheAssumption
  <2>3. QED
    BY <1>2, <2>1, <2>2 DEF CacheInit, CacheTypeOK
<1>4. AnswersHeld /\ WaitersFollow /\ NobodyWaitsForNothing
  BY <1>1 DEF CacheInit, AnswersHeld, AsksField, AsksRollup, WaitersFollow, NobodyWaitsForNothing
<1>5. \A p \in Fingerprints : Built(p) = {}
  BY <1>1 DEF CacheInit, Built
<1>6. RollupsWereTrue /\ ReadersHaveSeen
  BY <1>1, <1>5 DEF RollupsWereTrue, ReadersHaveSeen
<1>7. Passes = {} /\ Timely = {}
  BY <1>1 DEF CacheInit, Passes, Timely, Passing
<1>8. StampsAreOld
  BY <1>1, <1>2 DEF CacheInit, StampsAreOld, NotAhead, FieldStamp, DbTypes
<1>9. PassesAreCurrent /\ AskersHaveSeen
  BY <1>1, <1>7 DEF PassesAreCurrent, AskersHaveSeen
<1>10. QED
  BY <1>3, <1>4, <1>6, <1>8, <1>9 DEF CacheInv, FieldInv

\* What a call holds stays an answer: a pass holds the field, a recomputation a rollup.
LEMMA StepKeepsAnswersHeld ==
  ASSUME CacheInv, NEW c \in Callers, CallerStep(c)
  PROVE  AnswersHeld'
<1> SUFFICES ASSUME NEW d \in Callers
             PROVE  /\ AsksField(d, "store")' => call'[d].got \in Fields
                    /\ AsksRollup(d, "persist")' => call'[d].got \in Rollups
  BY DEF AnswersHeld, Fields, Rollups, Versions, Stamps, Fingerprints
<1>1. CacheTypeOK /\ AnswersHeld /\ call[c] \in Call /\ call[d] \in Call
  BY DEF CacheInv, CacheTypeOK
<1>2. CASE call'[d] = call[d]
  BY <1>1, <1>2 DEF AnswersHeld, AsksField, AsksRollup
<1>3. CASE Set(c)
  <2>1. /\ [call[d] EXCEPT !.pc = "enter", !.leader = NoCaller].pc = "enter"
        /\ Idle.pc = "idle"
    BY <1>1 DEF Call, Idle
  <2>2. QED
    BY <1>1, <1>2, <1>3, <2>1, SetMoves DEF AsksField, AsksRollup
<1>4. CASE ~Set(c) /\ d # c
  BY <1>1, <1>2, <1>4, CallerMoves DEF CacheTypeOK
<1>5. CASE Read(c) /\ d = c
  <2>1. call'[c] = [call[c] EXCEPT !.pc = "store", !.got = FieldNow]
    BY <1>1, <1>5 DEF Read, Become, CacheTypeOK
  <2>2. call'[c].pc = "store" /\ call'[c].got \in Fields
    BY <1>1, <2>1, AnswersAreTrue DEF Call, CacheTypeOK
  <2>3. QED
    BY <1>5, <2>2 DEF AsksField, AsksRollup
<1>6. CASE Recompute(c) /\ d = c
  <2>1. call'[c] = [call[c] EXCEPT !.pc = "persist", !.got = Now[call[c].what][call[c].under]]
    BY <1>1, <1>6 DEF Recompute, Become, CacheTypeOK
  <2>2. call[c].what \in Fingerprints /\ call[c].under \in Versions /\ call[c].what # "field"
    BY <1>1, <1>6, CacheAssumption DEF Recompute, AsksRollup, Call, Fingerprints, CacheAssumption
  <2>3. Now[call[c].what][call[c].under] \in Rollups
    BY <1>1, <2>2, AnswersAreTrue DEF Now, CacheTypeOK
  <2>4. call'[c].pc = "persist" /\ call'[c].got \in Rollups
    BY <1>1, <2>1, <2>3 DEF Call
  <2>5. QED
    BY <1>6, <2>4 DEF AsksField, AsksRollup
<1>7. CASE ~Set(c) /\ ~Read(c) /\ ~Recompute(c) /\ d = c
  <2>1. call'[c].pc \notin {"store", "persist"}
    <3>1. \A q \in Points : [call[c] EXCEPT !.pc = q, !.got = NoField, !.seen = {}, !.rewrote = FALSE].pc = q
      BY <1>1 DEF Call
    <3>2. CASE Raise(c) \/ Lead(c) \/ Store(c) \/ Pop(c) \/ FindStale(c)
      BY <1>1, <3>1, <3>2 DEF CacheTypeOK, Raise, Lead, Store, Pop, FindStale, To, Become, Points
    <3>3. CASE Hit(c) \/ NothingToRead(c) \/ ServeStored(c) \/ Persist(c)
      BY <1>1, <3>3 DEF CacheTypeOK, Hit, NothingToRead, ServeStored, Persist, Become, Idle
    <3>4. CASE Ask(c)
      BY <1>1, <3>4 DEF CacheTypeOK, Ask, Become, Idle
    <3>5. CASE AskRollup(c)
      BY <1>1, <3>5 DEF CacheTypeOK, AskRollup, Become, Idle
    <3>6. CASE Follow(c)
      BY <1>1, <3>6 DEF CacheTypeOK, Follow, Become, Call
    <3>7. QED
      BY <1>7, <3>2, <3>3, <3>4, <3>5, <3>6 DEF CallerStep, Step
  <2>2. QED
    BY <1>7, <2>1 DEF AsksField, AsksRollup
<1>8. QED
  BY <1>3, <1>4, <1>5, <1>6, <1>7

\* Every step keeps it: the database, the drops, the callers.
LEMMA StepKeepsCacheInv ==
  ASSUME CacheInv, [CacheNext]_cacheVars
  PROVE  CacheInv'
<1>1. CacheTypeOK /\ AnswersHeld /\ WaitersFollow /\ NobodyWaitsForNothing
      /\ RollupsWereTrue /\ ReadersHaveSeen
  BY DEF CacheInv
<1>2. CASE DbStep
  <2>1. CacheTypeOK' /\ DbTypes' /\ Witnessed /\ flights' = flights
    BY <1>1, <1>2, DbStepKeepsTypes
       DEF CacheTypeOK, DbStep, RunLands, Publish, RegradeRun, Refingerprint, Backfill, cached
  <2>2. \A c \in Callers : /\ call'[c].pc = call[c].pc /\ call'[c].what = call[c].what
                           /\ call'[c].stamp = call[c].stamp /\ call'[c].leader = call[c].leader
                           /\ call'[c].got = call[c].got
    BY <1>1, <2>1, CallsWitness
  <2>3. WaitersFollow' /\ NobodyWaitsForNothing'
    BY <1>1, <2>1, <2>2, OthersKeepWaits
  <2>4. AnswersHeld'
    BY <1>1, <2>2 DEF AnswersHeld, AsksField, AsksRollup
  <2>5. QED
    BY <1>1, <1>2, <2>1, <2>3, <2>4, DbKeepsRollups DEF CacheInv
<1>3. ASSUME NEW w \in Rewriters, DropMemo(w) \/ DropRollups(w)
      PROVE  CacheInv'
  <2>1. call' = call /\ flights' = flights
    BY <1>3 DEF DropMemo, DropRollups
  <2>2. WaitersFollow' /\ NobodyWaitsForNothing'
    BY <1>1, <2>1, OthersKeepWaits
  <2>3. AnswersHeld'
    BY <1>1, <2>1 DEF AnswersHeld, AsksField, AsksRollup
  <2>4. QED
    BY <1>1, <1>3, <2>2, <2>3, DropKeepsTypes, FewerRollups DEF CacheInv, DropMemo, DropRollups
<1>4. ASSUME NEW c \in Callers, CallerStep(c)
      PROVE  CacheInv'
  BY <1>1, <1>4, CallerStepKeepsTypes, CallerStepKeepsWaits, CallerStepKeepsRollups,
     StepKeepsAnswersHeld DEF CacheInv
<1>5. CASE UNCHANGED cacheVars
  <2>1. UNCHANGED <<db, rewrites, memo, flights, rollups, call, raises, drops>>
    BY <1>5 DEF cacheVars
  <2>2. CacheTypeOK'
    BY <1>1, <2>1 DEF CacheTypeOK, DbTypes, db, rewrites, drops, Versions
  <2>3. WaitersFollow' /\ NobodyWaitsForNothing'
    BY <1>1, <2>1, OthersKeepWaits
  <2>4. AnswersHeld'
    BY <1>1, <2>1 DEF AnswersHeld, AsksField, AsksRollup
  <2>5. QED
    BY <1>1, <2>1, <2>2, <2>3, <2>4, FewerRollups DEF CacheInv
<1>6. QED
  BY <1>2, <1>3, <1>4, <1>5 DEF CacheNext, DbStep, CallerStep

\* The invariant of the flights and of the rollups.
THEOREM SpecKeepsCacheInv == CacheSpec => []CacheInv
<1>1. CacheInit => CacheInv
  BY InitEstablishesCacheInv
<1>2. CacheInv /\ [CacheNext]_cacheVars => CacheInv'
  BY StepKeepsCacheInv
<1>3. QED
  BY <1>1, <1>2, PTL DEF CacheSpec

\* Who waits for the pass of another, waits for one that is on its way to set its event, and
\* no flight outlives its leader, also when passes raise (compute_profiles).
THEOREM NobodyIsLeftWaiting == CacheSpec => []NobodyWaitsForNothing
<1>1. CacheInv => NobodyWaitsForNothing
  BY DEF CacheInv
<1>2. QED
  BY SpecKeepsCacheInv, <1>1, PTL

\* A stored rollup that is served was true at some instant of the call, whatever was
\* rewritten or left undropped: a count, a newest run and a newest scoring tell (aggregates).
THEOREM ServedRollupsAreTrue == CacheSpec => RollupIsCurrent
<1>1. CacheInv /\ [CacheNext]_cacheVars =>
        [\A c \in Callers :
           ServeStored(c) => rollups[call[c].what] \in call[c].seen]_cacheVars
  <2> SUFFICES ASSUME CacheInv, NEW c \in Callers, ServeStored(c)
               PROVE  rollups[call[c].what] \in call[c].seen
    OBVIOUS
  <2>1. /\ call[c].pc = "rows" /\ call[c].what \in Fingerprints /\ call[c].stamp # NoRows
        /\ rollups[call[c].what] # NoRow /\ rollups[call[c].what].version = call[c].under
        /\ rollups[call[c].what].stamp = call[c].stamp
    BY DEF ServeStored, AsksRollup, Verified
  <2>2. rollups[call[c].what] \in Built(call[c].what)
    BY <2>1 DEF Built
  <2>3. QED
    BY <2>1, <2>2 DEF CacheInv, ReadersHaveSeen
<1>2. QED
  BY SpecKeepsCacheInv, <1>1, PTL DEF CacheSpec, RollupIsCurrent

-----------------------------------------------------------------------------
(* The memo. *)

\* A move of the database that keeps the stamp of the field leaves a rewrite to drop the
\* memo, or is the backfill.
LEMMA StampMoves ==
  ASSUME CacheTypeOK, DbStep
  PROVE  /\ NotAhead(FieldStamp, FieldStamp')
         /\ FieldStamp' = FieldStamp =>
              BackFilled' \/ \E w \in Rewriters : rewrite'[w] = "written"
         /\ BackFilled => BackFilled'
<1>1. DbTypes /\ DbTypes'
  BY DbStepKeepsDb DEF CacheTypeOK, DbStep
<1>2. /\ Len(fp) \in Nat /\ scores \in Nat /\ version \in Nat /\ Len(fp) >= 2
      /\ Len(fp') \in Nat /\ scores' \in Nat /\ version' \in Nat
      /\ fp \in Seq(Fingerprints \cup {Unstamped})
  BY <1>1, CacheAssumption DEF DbTypes, Versions, CacheAssumption
<1>3. Profile # Unstamped /\ "regrade" \in Rewriters /\ "refingerprint" \in Rewriters
  BY CacheAssumption DEF CacheAssumption, Rewriters
<1>4. CASE RunLands
  <2>1. Len(fp') = Len(fp) + 1 /\ fp'[2] = fp[2]
    BY <1>2, <1>4 DEF RunLands
  <2>2. QED
    BY <1>2, <1>4, <2>1 DEF RunLands, NotAhead, FieldStamp, BackFilled
<1>5. CASE Publish
  BY <1>2, <1>5 DEF Publish, NotAhead, FieldStamp, BackFilled
<1>6. CASE RegradeRun
  <2>1. rewrite'["regrade"] = "written"
    BY <1>3, <1>6 DEF RegradeRun, CacheTypeOK
  <2>2. QED
    BY <1>2, <1>3, <1>6, <2>1 DEF RegradeRun, NotAhead, FieldStamp, BackFilled
<1>7. CASE Refingerprint
  <2>1. rewrite'["refingerprint"] = "written"
    BY <1>3, <1>7 DEF Refingerprint, CacheTypeOK
  <2>2. Len(fp') = Len(fp) /\ (fp[2] # Unstamped => fp'[2] # Unstamped)
    BY <1>2, <1>3, <1>7 DEF Refingerprint, Runs
  <2>3. NotAhead(FieldStamp, FieldStamp')
    <3>1. scores' = scores /\ version' = version
      BY <1>7 DEF Refingerprint
    <3>2. QED
      BY <1>2, <2>2, <3>1 DEF NotAhead, FieldStamp
  <2>4. QED
    BY <1>3, <2>1, <2>2, <2>3 DEF BackFilled
<1>8. CASE Backfill
  <2>1. Len(fp') = Len(fp) /\ fp'[2] # Unstamped
    BY <1>2, <1>3, <1>8 DEF Backfill, Runs
  <2>2. NotAhead(FieldStamp, FieldStamp')
    <3>1. scores' = scores /\ version' = version
      BY <1>8 DEF Backfill
    <3>2. QED
      BY <1>2, <2>1, <3>1 DEF NotAhead, FieldStamp
  <2>3. QED
    BY <2>1, <2>2 DEF BackFilled
<1>9. QED
  BY <1>4, <1>5, <1>6, <1>7, <1>8 DEF DbStep

\* The outline of a field: the runs it was read from.
FieldRows(f, s, v, R) == {<<r, f[r], s[r][v]>> : r \in R}

LEMMA OutlineOfRows ==
  ASSUME NEW v, NEW R, NEW f, NEW s
  PROVE  Outline([version |-> v, rows |-> FieldRows(f, s, v, R)]) = [version |-> v, runs |-> R]
<1> DEFINE rows == FieldRows(f, s, v, R)
<1>1. {x[1] : x \in rows} = R
  <2>1. ASSUME NEW r \in R PROVE r \in {x[1] : x \in rows}
    <3>1. <<r, f[r], s[r][v]>> \in rows /\ <<r, f[r], s[r][v]>>[1] = r
      BY DEF FieldRows
    <3>2. QED
      BY <3>1
  <2>2. \A x \in rows : x[1] \in R
    BY DEF FieldRows
  <2> HIDE DEF rows
  <2>3. QED
    BY <2>1, <2>2
<1>2. QED
  BY <1>1 DEF Outline

\* It moves with the stamp of the field only, or by the backfill.
LEMMA OutlineMoves ==
  ASSUME CacheTypeOK, DbStep, FieldStamp' = FieldStamp, ~BackFilled'
  PROVE  Outline(FieldNow)' = Outline(FieldNow)
<1> DEFINE runs == {x \in Scored(version) : fp[x] # Unstamped}
<1>1. DbTypes /\ Profile # Unstamped /\ Spelling # Unstamped
  BY CacheAssumption DEF CacheTypeOK, CacheAssumption
<1>2. /\ Len(fp) \in Nat /\ Len(fp) >= 2 /\ scores \in Nat /\ version \in Versions
      /\ fp \in Seq(Fingerprints \cup {Unstamped})
      /\ scored \in Seq([Versions -> 0..clock]) /\ Len(scored) = Len(fp)
  BY <1>1 DEF DbTypes
<1>3. Len(fp') = Len(fp) /\ scores' = scores /\ version' = version
  BY DEF FieldStamp
<1>4. runs' = runs
  <2>1. CASE RunLands
    BY <1>2, <1>3, <2>1 DEF RunLands
  <2>2. CASE Publish
    <3>1. version' = version + 1 /\ version \in Nat
      BY <1>2, <2>2, CacheAssumption DEF Publish, Versions, CacheAssumption
    <3>2. QED
      BY <1>3, <3>1
  <2>3. CASE Backfill
    BY <1>1, <1>2, <2>3 DEF Backfill, BackFilled, Runs
  <2>4. CASE Refingerprint
    BY <1>1, <1>2, <1>3, <2>4 DEF Refingerprint, Scored, Runs
  <2>5. CASE RegradeRun
    <3>1. PICK r \in Runs :
            /\ scored' = [scored EXCEPT ![r][under'] = clock + 1]
            /\ scores' = IF scored[r][under'] = 0 THEN scores + 1 ELSE scores
      BY <2>5 DEF RegradeRun
    <3>2. scored[r][under'] # 0 /\ r \in DOMAIN scored /\ DOMAIN scored = DOMAIN fp
      BY <1>2, <1>3, <3>1 DEF Runs
    <3>3. /\ clock \in Nat /\ under' \in Versions /\ fp' = fp
          /\ \A x \in Runs : scored[x] \in [Versions -> Nat]
      <4>1. clock \in Nat /\ under' \in Versions /\ fp' = fp
        BY <1>1, <1>2, <2>5, CacheAssumption DEF RegradeRun, DbTypes, CacheAssumption
      <4>2. QED
        BY <1>2, <3>2, <4>1 DEF Runs
    <3>4. \A x \in Runs : scored'[x][version] > 0 <=> scored[x][version] > 0
      BY <1>2, <3>1, <3>2, <3>3 DEF Runs
    <3>5. QED
      BY <1>3, <3>3, <3>4 DEF Scored, Runs
  <2>6. QED
    BY <2>1, <2>2, <2>3, <2>4, <2>5 DEF DbStep
<1>5. FieldNow = [version |-> version, rows |-> FieldRows(fp, scored, version, runs)]
  BY DEF FieldNow, FieldRows
<1>6. FieldNow' = [version |-> version', rows |-> FieldRows(fp', scored', version', runs')]
  BY DEF FieldNow, FieldRows
<1> HIDE DEF runs
<1>7. Outline(FieldNow) = [version |-> version, runs |-> runs]
  BY <1>5, OutlineOfRows
<1>8. Outline(FieldNow') = [version |-> version', runs |-> runs']
  BY <1>6, OutlineOfRows
<1>9. QED
  BY <1>3, <1>4, <1>7, <1>8 DEF Outline

\* Stamps are compared count by count.
LEMMA StampOrder ==
  /\ \A s, t, u \in Stamps : NotAhead(s, t) /\ NotAhead(t, u) => NotAhead(s, u)
  /\ \A s, t \in Stamps : NotAhead(s, t) /\ NotAhead(t, s) => s = t
  /\ \A s \in Stamps : NotAhead(s, s)
BY DEF NotAhead, Stamps

LEMMA DbKeepsField ==
  ASSUME CacheTypeOK, AnswersHeld, FieldInv, DbStep
  PROVE  FieldInv'
<1>1. CacheTypeOK' /\ DbTypes /\ DbTypes' /\ Witnessed /\ memo' = memo /\ UNCHANGED drops
  BY DbStepKeepsTypes
     DEF CacheTypeOK, DbStep, RunLands, Publish, RegradeRun, Refingerprint, Backfill, cached
<1>2. FieldStamp \in Stamps /\ FieldStamp' \in Stamps
  BY <1>1, AnswersAreTrue, NextAnswersAreTrue
<1>3. \A c \in Callers :
        /\ call'[c].pc = call[c].pc /\ call'[c].what = call[c].what
        /\ call'[c].stamp = call[c].stamp /\ call'[c].got = call[c].got
        /\ call[c].seen \subseteq call'[c].seen /\ (call[c].rewrote => call'[c].rewrote)
        /\ call[c].pc \in {"enter", "wait"} /\ call[c].what = "field" => FieldNow' \in call'[c].seen
  BY <1>1, CallsWitness
<1>4. Passes' = Passes /\ Timely' = Timely
  BY <1>1, <1>3 DEF Passes, Timely, Passing, Stored, drops
<1>5. \A c \in Callers : call[c].stamp \in Stamps
  BY DEF CacheTypeOK, Call
<1>6. StampsAreOld'
  BY <1>2, <1>3, <1>5, StampMoves, StampOrder, Zenon DEF FieldInv, StampsAreOld
<1>7. \A x \in Passes : x.stamp \in Stamps
  BY <1>5 DEF Passes, Passing, Stored, CacheTypeOK
<1>8. PassesAreCurrent'
  <2>1. \A x \in Passes : NotAhead(x.stamp, FieldStamp) /\ NotAhead(FieldStamp, FieldStamp')
    BY StampMoves DEF FieldInv, PassesAreCurrent
  <2>2. \A x \in Passes : NotAhead(x.stamp, FieldStamp')
    BY <1>2, <1>7, <2>1, StampOrder
  <2>3. \A x \in Passes : x.stamp = FieldStamp' => FieldStamp' = FieldStamp
    BY <1>2, <1>7, <2>1, StampOrder
  <2>4. Timely \subseteq Passes
    BY DEF Timely, Passes
  <2>5. ASSUME NEW x \in Passes, x.stamp = FieldStamp', ~BackFilled'
        PROVE  Outline(x.field) = Outline(FieldNow')
    <3>1. FieldStamp' = FieldStamp /\ ~BackFilled
      BY <2>3, <2>5, StampMoves
    <3>2. Outline(x.field) = Outline(FieldNow)
      BY <2>5, <3>1 DEF FieldInv, PassesAreCurrent
    <3>3. QED
      BY <2>5, <3>1, <3>2, OutlineMoves DEF Outline
  <2>6. ASSUME NEW x \in Timely, x.stamp = FieldStamp', ~BackFilled',
               \A w \in Rewriters : rewrite'[w] # "written"
        PROVE  x.field = FieldNow'
    BY <2>3, <2>4, <2>6, StampMoves
  <2>7. QED
    BY <1>4, <2>2, <2>5, <2>6 DEF PassesAreCurrent, Outline
<1>9. AskersHaveSeen'
  <2>1. BackFilled => BackFilled'
    BY StampMoves
  <2> SUFFICES ASSUME NEW c \in Callers, call[c].pc \in {"enter", "wait"}
               PROVE  /\ call[c].what = "field" /\ FieldNow' \in call'[c].seen
                      /\ \A x \in Passes : x.stamp = call[c].stamp /\ ~BackFilled' =>
                           \E f \in call'[c].seen : Outline(f) = Outline(x.field)
                      /\ \A x \in Timely :
                           x.stamp = call[c].stamp /\ ~call'[c].rewrote /\ ~BackFilled'
                             => x.field \in call'[c].seen
    <3>1. Passes' = Passes /\ Timely' = Timely
      BY <1>4
    <3>2. QED
      BY <1>3, <3>1 DEF AskersHaveSeen
  <2>2. QED
    BY <1>3, <2>1 DEF FieldInv, AskersHaveSeen
<1>10. QED
  BY <1>6, <1>8, <1>9 DEF FieldInv

LEMMA DropKeepsField ==
  ASSUME CacheTypeOK, FieldInv,
         NEW w \in Rewriters, DropMemo(w) \/ DropRollups(w)
  PROVE  FieldInv'
<1>1. UNCHANGED <<db, call>> /\ FieldStamp' = FieldStamp /\ FieldNow' = FieldNow
      /\ BackFilled' = BackFilled
  BY DEF DropMemo, DropRollups, db, FieldStamp, FieldNow, Scored, Runs, BackFilled
<1>2. StampsAreOld'
  BY <1>1 DEF FieldInv, StampsAreOld
<1>3. CASE DropMemo(w)
  <2>1. Passes' \subseteq Passes /\ Timely' = {}
    BY <1>1, <1>3 DEF DropMemo, Passes, Timely, Passing, Stored
  <2>2. QED
    BY <1>1, <1>2, <2>1 DEF FieldInv, PassesAreCurrent, AskersHaveSeen, Outline
<1>4. CASE DropRollups(w)
  <2>1. Passes' = Passes /\ Timely' = Timely
    BY <1>1, <1>4 DEF DropRollups, Passes, Timely, Passing, Stored, drops
  <2>2. \A v \in Rewriters : rewrite[v] = "written" => rewrite'[v] = "written"
    BY <1>4 DEF DropRollups, CacheTypeOK
  <2>3. QED
    BY <1>1, <1>2, <2>1, <2>2 DEF FieldInv, PassesAreCurrent, AskersHaveSeen, Outline
<1>5. QED
  BY <1>3, <1>4

\* What the step of one caller does to another, and to the passes.
LEMMA CallersAskAndPass ==
  ASSUME CacheTypeOK, NEW c \in Callers, CallerStep(c), NEW d \in Callers
  PROVE  \/ call'[d] = call[d]
         \/ call'[d] = Idle
         \/ /\ call'[d].what = "field" /\ call'[d].stamp = FieldStamp /\ call'[d].pc = "enter"
            /\ call'[d].seen = {FieldNow} /\ call'[d].rewrote = Rewriting
         \/ /\ call[d].pc \in {"enter", "wait"} /\ call'[d].pc \in {"enter", "wait"}
            /\ call'[d].what = call[d].what /\ call'[d].stamp = call[d].stamp
            /\ call'[d].seen = call[d].seen /\ call'[d].rewrote = call[d].rewrote
         \/ /\ call'[d].pc = "store" /\ call'[d].what = call[d].what
            /\ call'[d].stamp = call[d].stamp /\ call'[d].got = FieldNow
         \/ /\ call'[d].pc \notin {"enter", "wait", "store"} /\ call'[d].what = call[d].what
            /\ call'[d].stamp = call[d].stamp
         \/ call'[d].pc = "rows" /\ call'[d].what # "field"
<1>1. call[c] \in Call /\ call[d] \in Call
  BY DEF CacheTypeOK
<1>2. CASE Set(c)
  <2>1. LET k == [call[d] EXCEPT !.pc = "enter", !.leader = NoCaller]
        IN  /\ k.pc = "enter" /\ k.what = call[d].what /\ k.stamp = call[d].stamp
            /\ k.seen = call[d].seen /\ k.rewrote = call[d].rewrote
    BY <1>1 DEF Call
  <2>2. QED
    BY <1>2, <2>1, SetMoves
<1>3. CASE ~Set(c) /\ d # c
  BY <1>3, CallerMoves DEF CacheTypeOK
<1>4. CASE ~Set(c) /\ d = c
  <2>1. \A q \in Points :
          LET k == [call[c] EXCEPT !.pc = q, !.got = NoField, !.seen = {}, !.rewrote = FALSE]
          IN  k.pc = q /\ k.what = call[c].what /\ k.stamp = call[c].stamp
    BY <1>1 DEF Call
  <2>2. CASE Raise(c) \/ Lead(c) \/ Store(c) \/ Pop(c) \/ FindStale(c)
    <3>1. PICK q \in {"pop", "read", "set", "recompute"} :
            call'[c] = [call[c] EXCEPT !.pc = q, !.got = NoField, !.seen = {}, !.rewrote = FALSE]
      BY <2>2 DEF CacheTypeOK, Raise, Lead, Store, Pop, FindStale, To, Become
    <3>2. call'[c].pc = q /\ call'[c].what = call[c].what /\ call'[c].stamp = call[c].stamp
      BY <2>1, <3>1 DEF Points
    <3>3. QED
      BY <1>4, <3>2
  <2>3. CASE Hit(c) \/ NothingToRead(c) \/ ServeStored(c) \/ Persist(c)
    BY <1>4, <2>3 DEF CacheTypeOK, Hit, NothingToRead, ServeStored, Persist, Become
  <2>4. CASE Ask(c)
    BY <1>4, <2>4 DEF CacheTypeOK, Ask, Become, Idle
  <2>5. CASE AskRollup(c)
    <3>1. PICK p \in Asked : call'[c].pc = "rows" /\ call'[c].what = p
      BY <2>5 DEF CacheTypeOK, AskRollup, Become, Idle
    <3>2. p # "field"
      BY CacheAssumption DEF CacheAssumption
    <3>3. QED
      BY <1>4, <3>1, <3>2
  <2>6. CASE Follow(c)
    <3>1. PICK l : call'[c] = [call[c] EXCEPT !.pc = "wait", !.leader = l] /\ call[c].pc = "enter"
      BY <2>6 DEF CacheTypeOK, Follow, Become, AsksField
    <3>2. /\ call'[c].pc = "wait" /\ call'[c].what = call[c].what /\ call'[c].stamp = call[c].stamp
          /\ call'[c].seen = call[c].seen /\ call'[c].rewrote = call[c].rewrote
      BY <1>1, <3>1 DEF Call
    <3>3. QED
      BY <1>4, <3>1, <3>2
  <2>7. CASE Read(c)
    <3>1. call'[c] = [call[c] EXCEPT !.pc = "store", !.got = FieldNow]
      BY <2>7 DEF CacheTypeOK, Read, Become
    <3>2. /\ call'[c].pc = "store" /\ call'[c].what = call[c].what
          /\ call'[c].stamp = call[c].stamp /\ call'[c].got = FieldNow
      BY <1>1, <3>1 DEF Call
    <3>3. QED
      BY <1>4, <3>2
  <2>8. CASE Recompute(c)
    <3>1. call'[c] = [call[c] EXCEPT !.pc = "persist", !.got = Now[call[c].what][call[c].under]]
      BY <2>8 DEF CacheTypeOK, Recompute, Become
    <3>2. /\ call'[c].pc = "persist" /\ call'[c].what = call[c].what
          /\ call'[c].stamp = call[c].stamp
      BY <1>1, <3>1 DEF Call
    <3>3. QED
      BY <1>4, <3>2
  <2>9. QED
    BY <1>4, <2>2, <2>3, <2>4, <2>5, <2>6, <2>7, <2>8 DEF CallerStep, Step
<1>5. QED
  BY <1>2, <1>3, <1>4

LEMMA CallerStepKeepsField ==
  ASSUME CacheTypeOK, FieldInv, NEW c \in Callers, CallerStep(c)
  PROVE  FieldInv'
<1>1. /\ FieldStamp' = FieldStamp /\ FieldNow' = FieldNow /\ BackFilled' = BackFilled
      /\ rewrite' = rewrite
  BY CallersStore DEF db, rewrites, FieldStamp, FieldNow, Scored, Runs, BackFilled
<1>2. /\ FieldStamp \in Stamps
      /\ FieldStamp[1] \in Nat /\ FieldStamp[2] \in Nat /\ FieldStamp[3] \in Nat
  BY AnswersAreTrue DEF CacheTypeOK, Stamps
<1>3. StampsAreOld'
  <2>1. NotAhead(Idle.stamp, FieldStamp) /\ NotAhead(FieldStamp, FieldStamp)
    BY <1>2 DEF Idle, NotAhead
  <2>2. QED
    BY <1>1, <2>1, CallersAskAndPass, Zenon DEF FieldInv, StampsAreOld
<1>4. ASSUME NEW d \in Callers, call'[d].what = "field", call'[d].pc = "store"
      PROVE  \/ call'[d] = call[d]
             \/ Stored(d)'.field = FieldNow /\ NotAhead(Stored(d)'.stamp, FieldStamp)
  <2>1. CASE call'[d].got = FieldNow /\ call'[d].what = call[d].what
             /\ call'[d].stamp = call[d].stamp
    BY <1>4, <2>1 DEF Stored, FieldInv, StampsAreOld
  <2>2. Idle.pc # "store"
    BY DEF Idle
  <2>3. QED
    BY <1>4, <2>1, <2>2, CallersAskAndPass
<1>5. /\ \A x \in Passes' : x \in Passes \/ (x.field = FieldNow /\ NotAhead(x.stamp, FieldStamp))
      /\ \A x \in Timely' : x \in Timely \/ x.field = FieldNow
  <2>1. Store(c) => Stored(c) \in Passes /\ (c \notin overtaken => Stored(c) \in Timely)
    BY DEF Store, AsksField, Passes, Timely, Passing
  <2>2. memo' = memo \/ memo' \in Passes
    BY <2>1, CallersStore
  <2>3. undone' \/ (memo' = memo /\ ~undone) \/ memo' \in Timely
    BY <2>1, CallersStore DEF drops
  <2>4. \A d \in Callers : d \in Passing' /\ d \notin overtaken' => d \notin overtaken
    <3>1. Store(c) => c \notin Passing'
      <4>1. Store(c) => call'[c].pc = "pop"
        <5>1. call[c] \in Call
          BY DEF CacheTypeOK
        <5>2. QED
          BY <5>1 DEF Store, To, Become, CacheTypeOK, Call
      <4>2. QED
        BY <4>1 DEF Passing
    <3>2. QED
      BY <3>1, CallersStore DEF drops
  <2>5. \A d \in Callers : d \in Passing' => call'[d].what = "field" /\ call'[d].pc = "store"
    BY DEF Passing
  <2>6. \A d \in Callers : d \in Passing' /\ call'[d] = call[d] =>
          d \in Passing /\ Stored(d)' = Stored(d)
    BY DEF Passing, Stored
  <2>7. Passing \subseteq Callers /\ Passing' \subseteq Callers
    BY DEF Passing
  <2>8. \A d \in Passing' :
          \/ Stored(d)' \in Passes /\ (d \notin overtaken' => Stored(d)' \in Timely)
          \/ Stored(d)'.field = FieldNow /\ NotAhead(Stored(d)'.stamp, FieldStamp)
    BY <1>4, <2>4, <2>5, <2>6, <2>7 DEF Passes, Timely
  <2>9. Passes' = ({memo'} \ {NoField}) \cup {Stored(d)' : d \in Passing'}
    BY DEF Passes
  <2>10. Timely' = (IF undone' THEN {} ELSE {memo'} \ {NoField})
                     \cup {Stored(d)' : d \in Passing' \ overtaken'}
    BY DEF Timely
  <2>11. \A x \in Passes' : x \in Passes \/ (x.field = FieldNow /\ NotAhead(x.stamp, FieldStamp))
    <3>1. memo' # NoField /\ memo' = memo => memo' \in Passes
      BY DEF Passes
    <3>2. QED
      BY <2>2, <2>8, <2>9, <3>1
  <2>12. \A x \in Timely' : x \in Timely \/ x.field = FieldNow
    <3>1. memo' # NoField /\ memo' = memo /\ ~undone => memo' \in Timely
      BY DEF Timely
    <3>2. QED
      BY <2>3, <2>8, <2>10, <3>1
  <2>13. QED
    BY <2>11, <2>12
<1>6. PassesAreCurrent'
  BY <1>1, <1>5 DEF FieldInv, PassesAreCurrent, Outline
<1>7. AskersHaveSeen'
  <2> SUFFICES ASSUME NEW d \in Callers, call'[d].pc \in {"enter", "wait"}
               PROVE  /\ call'[d].what = "field" /\ FieldNow \in call'[d].seen
                      /\ \A x \in Passes' : x.stamp = call'[d].stamp /\ ~BackFilled =>
                           \E f \in call'[d].seen : Outline(f) = Outline(x.field)
                      /\ \A x \in Timely' :
                           x.stamp = call'[d].stamp /\ ~call'[d].rewrote /\ ~BackFilled
                             => x.field \in call'[d].seen
    BY <1>1 DEF AskersHaveSeen, Outline
  <2>1. CASE /\ call[d].pc \in {"enter", "wait"} /\ call'[d].what = call[d].what
             /\ call'[d].stamp = call[d].stamp /\ call'[d].seen = call[d].seen
             /\ call'[d].rewrote = call[d].rewrote
    BY <1>5, <2>1 DEF FieldInv, AskersHaveSeen
  <2>2. CASE /\ call'[d].what = "field" /\ call'[d].stamp = FieldStamp
             /\ call'[d].seen = {FieldNow} /\ call'[d].rewrote = Rewriting
    <3>1. ~Rewriting => \A w \in Rewriters : rewrite[w] # "written"
      BY DEF Rewriting
    <3>2. QED
      BY <1>5, <2>2, <3>1 DEF FieldInv, PassesAreCurrent
  <2>3. Idle.pc # "enter" /\ Idle.pc # "wait"
    BY DEF Idle
  <2>4. QED
    BY <2>1, <2>2, <2>3, CallersAskAndPass
<1>8. QED
  BY <1>3, <1>6, <1>7 DEF FieldInv

\* The invariant of the memo.
THEOREM SpecKeepsFieldInv == CacheSpec => []FieldInv
<1>1. CacheInit => FieldInv
  BY InitEstablishesCacheInv
<1>2. CacheInv /\ FieldInv /\ [CacheNext]_cacheVars => FieldInv'
  <2> SUFFICES ASSUME CacheInv, FieldInv, [CacheNext]_cacheVars PROVE FieldInv'
    OBVIOUS
  <2>1. CacheTypeOK /\ AnswersHeld
    BY DEF CacheInv
  <2>2. CASE DbStep
    BY <2>1, <2>2, DbKeepsField
  <2>3. ASSUME NEW w \in Rewriters, DropMemo(w) \/ DropRollups(w)
        PROVE  FieldInv'
    BY <2>1, <2>3, DropKeepsField
  <2>4. ASSUME NEW c \in Callers, CallerStep(c)
        PROVE  FieldInv'
    BY <2>1, <2>4, CallerStepKeepsField
  <2>5. CASE UNCHANGED cacheVars
    <3>1. UNCHANGED <<db, rewrites, memo, call, drops>>
      BY <2>5 DEF cacheVars
    <3>2. FieldStamp' = FieldStamp /\ FieldNow' = FieldNow /\ BackFilled' = BackFilled
      BY <3>1 DEF db, FieldStamp, FieldNow, Scored, Runs, BackFilled
    <3>3. Passes' = Passes /\ Timely' = Timely
      BY <3>1 DEF drops, Passes, Timely, Passing, Stored
    <3>4. QED
      BY <3>1, <3>2, <3>3
         DEF rewrites, FieldInv, StampsAreOld, PassesAreCurrent, AskersHaveSeen, Outline
  <2>6. QED
    BY <2>2, <2>3, <2>4, <2>5 DEF CacheNext, DbStep, CallerStep
<1>3. QED
  BY <1>1, <1>2, SpecKeepsCacheInv, PTL DEF CacheSpec

\* A field served from the memo misses no run and no publish, and was true at some instant of
\* the call, unless a rewrite was under way during it or the field is of a pass that outlasted
\* a drop (compute_profiles, invalidate_profiles_cache).
THEOREM ServedFieldsAreTrue == CacheSpec => FieldIsCurrent
<1>1. FieldInv /\ [CacheNext]_cacheVars =>
        [\A c \in Callers : Hit(c) /\ ~BackFilled =>
           \E f \in call[c].seen :
             /\ Outline(f) = Outline(memo.field)
             /\ ~call[c].rewrote /\ ~undone => f = memo.field]_cacheVars
  <2> SUFFICES ASSUME FieldInv, NEW c \in Callers, Hit(c), ~BackFilled
               PROVE  \E f \in call[c].seen :
                        /\ Outline(f) = Outline(memo.field)
                        /\ ~call[c].rewrote /\ ~undone => f = memo.field
    OBVIOUS
  <2>1. memo \in Passes /\ memo.stamp = call[c].stamp /\ call[c].pc = "enter"
        /\ (~undone => memo \in Timely)
    BY DEF Hit, Hits, AsksField, Passes, Timely
  <2>2. \E f \in call[c].seen : Outline(f) = Outline(memo.field)
    BY <2>1 DEF FieldInv, AskersHaveSeen
  <2>3. CASE ~call[c].rewrote /\ ~undone
    <3>1. memo.field \in call[c].seen
      BY <2>1, <2>3 DEF FieldInv, AskersHaveSeen
    <3>2. QED
      BY <3>1
  <2>4. QED
    BY <2>2, <2>3
<1>2. QED
  BY SpecKeepsFieldInv, <1>1, PTL DEF CacheSpec, FieldIsCurrent
=============================================================================
