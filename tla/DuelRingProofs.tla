-------------------------- MODULE DuelRingProofs --------------------------
(***************************************************************************)
(* Proofs about DuelRing, for any field, any number of seats, slots and    *)
(* rounds, and any number of sessions.                                     *)
(***************************************************************************)
EXTENDS DuelRing, TLAPS, SequenceTheorems, WellFoundedInduction

\* A set of numbers has a least one.
LEMMA LeastExists ==
  ASSUME NEW S \in SUBSET Nat, S # {}
  PROVE  \E k \in S : \A l \in S : k <= l
<1> DEFINE Less == {ss \in Nat \X Nat : ss[1] < ss[2]}
<1>1. IsWellFoundedOn(Less, Nat)
  BY NatLessThanWellFounded, Zenon DEF OpToRel
<1>2. PICK k \in S : \A l \in S : ~(<<l, k>> \in Less)
  BY <1>1, WFMin, Zenon
<1>3. \A l \in S : k <= l
  <2> SUFFICES ASSUME NEW l \in S PROVE k <= l
    OBVIOUS
  <2>1. ~(<<l, k>> \in Less)
    BY <1>2
  <2>2. l \in Nat /\ k \in Nat
    OBVIOUS
  <2>3. ~(l < k)
    BY <2>1, <2>2
  <2>4. QED
    BY <2>2, <2>3
<1>4. QED
  BY <1>3

\* The last row with its open matches replaced.
LEMMA OpenReplaced ==
  ASSUME rows \in Seq(Row), rows # <<>>, NEW S \in SUBSET Snapshot,
         rows' = [rows EXCEPT ![Last].open = S]
  PROVE  /\ rows' \in Seq(Row) /\ DOMAIN rows' = DOMAIN rows /\ Last' = Last
         /\ Last \in DOMAIN rows
         /\ rows'[Last].open = S /\ rows'[Last].matchups = rows[Last].matchups
         /\ \A i \in DOMAIN rows \ {Last} : rows'[i] = rows[i]
<1>1. /\ Last \in 1..Len(rows) /\ Last \in DOMAIN rows
      /\ rows[Last] \in Row /\ DOMAIN rows = 1..Len(rows)
  BY LenProperties, EmptySeq, ElementOfSeq DEF Last
<1> DEFINE e == [rows[Last] EXCEPT !.open = S]
<1>2. e \in Row /\ e.open = S /\ e.matchups = rows[Last].matchups
  BY <1>1 DEF Row
<1>3. rows' = [rows EXCEPT ![Last] = e]
  OBVIOUS
<1>4. /\ rows' \in Seq(Row) /\ Last' = Last
      /\ \A j \in 1..Len(rows) : rows'[j] = IF j = Last THEN e ELSE rows[j]
  BY <1>1, <1>2, <1>3, ExceptSeq DEF Last
<1>5. DOMAIN rows' = DOMAIN rows
  BY <1>1, <1>3
<1> HIDE DEF e
<1>6. QED
  BY <1>1, <1>2, <1>4, <1>5

\* The last row with its records replaced.
LEMMA MatchupsReplaced ==
  ASSUME rows \in Seq(Row), rows # <<>>, NEW S \in SUBSET Entry,
         rows' = [rows EXCEPT ![Last].matchups = S]
  PROVE  /\ rows' \in Seq(Row) /\ DOMAIN rows' = DOMAIN rows /\ Last' = Last
         /\ Last \in DOMAIN rows
         /\ rows'[Last].matchups = S /\ rows'[Last].open = rows[Last].open
         /\ \A i \in DOMAIN rows \ {Last} : rows'[i] = rows[i]
<1>1. /\ Last \in 1..Len(rows) /\ Last \in DOMAIN rows
      /\ rows[Last] \in Row /\ DOMAIN rows = 1..Len(rows)
  BY LenProperties, EmptySeq, ElementOfSeq DEF Last
<1> DEFINE e == [rows[Last] EXCEPT !.matchups = S]
<1>2. e \in Row /\ e.matchups = S /\ e.open = rows[Last].open
  BY <1>1 DEF Row
<1>3. rows' = [rows EXCEPT ![Last] = e]
  OBVIOUS
<1>4. /\ rows' \in Seq(Row) /\ Last' = Last
      /\ \A j \in 1..Len(rows) : rows'[j] = IF j = Last THEN e ELSE rows[j]
  BY <1>1, <1>2, <1>3, ExceptSeq DEF Last
<1>5. DOMAIN rows' = DOMAIN rows
  BY <1>1, <1>3
<1> HIDE DEF e
<1>6. QED
  BY <1>1, <1>2, <1>4, <1>5

\* What PersistOpen writes, on the campaign's row or on the session's.
LEMMA OpenPersisted ==
  ASSUME RingTypes, rows # <<>>, NEW r \in Session, PersistOpen(r)
  PROVE  /\ rows' \in Seq(Row) /\ campaign' \in SUBSET Snapshot
         /\ DOMAIN rows' = DOMAIN rows /\ Last' = Last /\ Last \in DOMAIN rows
         /\ \A i \in DOMAIN rows : rows'[i].matchups = rows[i].matchups
         /\ \A i \in DOMAIN rows \ {Last} : rows'[i].open = rows[i].open
         /\ r.lever => rows'[Last].open = rows[Last].open
         /\ r.lever => campaign' = r.seated \cup r.carried
         /\ ~r.lever => campaign' = campaign
         /\ ~r.lever => rows'[Last].open = r.seated \cup r.carried
<1>1. r.seated \cup r.carried \in SUBSET Snapshot /\ r.lever \in BOOLEAN
  BY DEF Session
<1>2. rows \in Seq(Row) /\ campaign \in SUBSET Snapshot /\ Last \in DOMAIN rows
  BY DEF RingTypes, Last
<1>3. CASE r.lever
  BY <1>1, <1>2, <1>3 DEF PersistOpen, Commit, Write, Last
<1>4. CASE ~r.lever
  <2>1. /\ rows' = [rows EXCEPT ![Last].open = r.seated \cup r.carried]
        /\ campaign' = campaign
    BY <1>4 DEF PersistOpen, Commit, Write
  <2>2. QED
    BY <1>1, <1>2, <1>4, <2>1, OpenReplaced
<1>5. QED
  BY <1>1, <1>3, <1>4

\* The empty ring.
LEMMA NothingIsASession ==
  /\ Nothing \in Session
  /\ Nothing.seated = {} /\ Nothing.carried = {} /\ Nothing.doomed = {}
  /\ Nothing.pending = {} /\ Nothing.matchups = {} /\ Nothing.lead = NoLeg
  /\ ~Nothing.writing /\ ~Nothing.taken
BY RingAssumption DEF Nothing, Session, Versions

\* At the beginning there is no match anywhere.
LEMMA InitEstablishesRingInv ==
  ASSUME Init
  PROVE  RingInv
<1> USE RingAssumption DEF Init, Memory
<1>1. RingTypes
  BY NothingIsASession DEF RingTypes, Versions, Points
<1>2. RingFollowsPc
  BY NothingIsASession DEF RingFollowsPc
<1>3. CopiesAreComparable
  BY NothingIsASession DEF CopiesAreComparable
<1>4. QED
  BY <1>1, <1>2, <1>3 DEF RingInv

\* A session starts with a row of its own and nothing in memory.
LEMMA StartKeepsRing ==
  ASSUME RingInv, NEW lever \in BOOLEAN, Start(lever)
  PROVE  RingInv'
<1> DEFINE fresh == [open |-> {}, matchups |-> {}]
<1>1. fresh \in Row
  BY DEF Row
<1>2. /\ rows' = Append(rows, fresh) /\ campaign' = campaign /\ rows \in Seq(Row)
      /\ ring' = [Nothing EXCEPT !.lever = lever, !.rubric = current]
      /\ pc' = "start" /\ UNCHANGED <<current, bout, reading>>
  BY DEF RingInv, RingTypes, Start, Goto, Commit, Write
<1>3. /\ rows' \in Seq(Row) /\ DOMAIN rows' = DOMAIN rows \cup {Len(rows) + 1}
      /\ rows'[Len(rows) + 1] = fresh /\ \A i \in DOMAIN rows : rows'[i] = rows[i]
      /\ rows' # <<>>
  <2>1. /\ rows' \in Seq(Row) /\ Len(rows') = Len(rows) + 1
        /\ \A i \in 1..Len(rows) : rows'[i] = rows[i]
        /\ rows'[Len(rows) + 1] = fresh
    BY <1>1, <1>2, AppendProperties
  <2>2. Len(rows) \in Nat /\ DOMAIN rows = 1..Len(rows) /\ DOMAIN rows' = 1..Len(rows')
    BY <1>2, <2>1, LenProperties
  <2>3. QED
    BY <2>1, <2>2
<1>4. ring' \in Session /\ Memory' = {}
      /\ ring'.matchups = {} /\ ring'.pending = {}
      /\ ring'.seated = {} /\ ring'.carried = {} /\ ring'.doomed = {}
      /\ ring'.lead = NoLeg /\ ~ring'.writing /\ ~ring'.taken
  <2> DEFINE r == [Nothing EXCEPT !.lever = lever]
  <2>1. /\ r \in Session
        /\ r.seated = {} /\ r.carried = {} /\ r.doomed = {} /\ r.pending = {}
        /\ r.matchups = {} /\ r.lead = NoLeg /\ ~r.writing /\ ~r.taken
    BY NothingIsASession DEF Session
  <2>2. current \in Versions
    BY DEF RingInv, RingTypes
  <2>3. ring' = [r EXCEPT !.rubric = current]
    BY <1>2
  <2> HIDE DEF r
  <2>4. /\ ring' \in Session
        /\ ring'.seated = {} /\ ring'.carried = {} /\ ring'.doomed = {}
        /\ ring'.pending = {} /\ ring'.matchups = {} /\ ring'.lead = NoLeg
        /\ ~ring'.writing /\ ~ring'.taken
    BY <2>1, <2>2, <2>3 DEF Session
  <2>5. QED
    BY <2>4 DEF Memory
<1> HIDE DEF fresh
<1>5. RingTypes'
  BY <1>2, <1>3, <1>4 DEF RingInv, RingTypes, Points
<1>6. RingFollowsPc'
  BY <1>2, <1>3, <1>4 DEF RingFollowsPc
<1>7. CopiesAreComparable'
  <2>1. \A i \in DOMAIN rows' : \A x \in rows'[i].open \cup rows'[i].matchups : Comparable(x)'
    BY <1>2, <1>3 DEF RingInv, CopiesAreComparable, Comparable, fresh
  <2>2. QED
    BY <2>1, <1>2, <1>3, <1>4 DEF RingInv, CopiesAreComparable, Comparable
<1>8. QED
  BY <1>5, <1>6, <1>7 DEF RingInv

\* What a session must see to in memory, whatever the step does to the disk: what will be
\* read next is read against the defender, under the session's methodology.
MemoryIsComparable ==
  /\ \A x \in Memory \cup ring.matchups : Comparable(x)
  /\ \A s \in ring.seated : bout[s.m].ref = ring.ref /\ s.rubric = ring.rubric
  /\ pc = "seat" => \A s \in ring.carried : bout[s.m].ref = ring.ref /\ s.rubric = ring.rubric
  /\ ring.lead \in {NoLeg, Unusable, LegOf(ring.ref)}
  /\ \A p \in ring.pending : p.leg \in {Unusable, LegOf(bout[p.s.m].cha)}

MemoryInv == ring \in Session /\ pc \in Points /\ RingFollowsPc /\ MemoryIsComparable

\* The part of the invariant about the memory is one of its parts.
LEMMA RingInvHasMemoryInv ==
  ASSUME RingInv
  PROVE  MemoryInv
BY DEF RingInv, RingTypes, CopiesAreComparable, MemoryInv, MemoryIsComparable

\* A step in memory alone keeps what the invariant says of the disk.
LEMMA MemoryStepKeepsRing ==
  ASSUME RingInv, UNCHANGED <<rows, campaign, current, bout, reading>>, MemoryInv'
  PROVE  RingInv'
<1>1. RingTypes'
  BY DEF RingInv, RingTypes, MemoryInv
<1>2. CopiesAreComparable'
  BY DEF RingInv, CopiesAreComparable, Comparable, MemoryInv, MemoryIsComparable
<1>3. QED
  BY <1>1, <1>2 DEF RingInv, MemoryInv

\* Nothing is left in memory when a session ends.
LEMMA TheRingIsLeft ==
  ASSUME Goto("out", Nothing)
  PROVE  MemoryInv'
BY NothingIsASession
   DEF Goto, MemoryInv, MemoryIsComparable, RingFollowsPc, Memory, Points

\* A session that fails leaves nothing in memory, and the disk as it is.
LEMMA FailKeepsRing ==
  ASSUME RingInv, Fail
  PROVE  RingInv'
BY TheRingIsLeft, MemoryStepKeepsRing DEF Fail

\* The look at the published methodology changes nothing but the point.
LEMMA NoticeKeepsRing ==
  ASSUME RingInv, Notice
  PROVE  RingInv'
<1>1. MemoryInv'
  BY RingInvHasMemoryInv
     DEF Notice, NoCommit, NoWrite, Goto, MemoryInv, MemoryIsComparable, RingFollowsPc, Comparable,
         Memory, Points, LegOf
<1>2. QED
  BY <1>1, MemoryStepKeepsRing DEF Notice, NoCommit, NoWrite

\* Without a defender the ring is left, or the session goes on to its end.
LEMMA NoDefenderKeepsRing ==
  ASSUME RingInv, NoDefender
  PROVE  RingInv'
<1>1. CASE Fail
  BY <1>1, FailKeepsRing
<1>2. CASE pc = "match" /\ Goto("ending", ring) /\ NoCommit /\ UNCHANGED <<current, bout, reading>>
  <2>1. MemoryInv'
    BY <1>2, RingInvHasMemoryInv
       DEF NoCommit, NoWrite, Goto, MemoryInv, MemoryIsComparable, RingFollowsPc,
           Comparable, Memory, Points, LegOf
  <2>2. QED
    BY <1>2, <2>1, MemoryStepKeepsRing DEF NoCommit, NoWrite
<1>3. QED
  BY <1>1, <1>2 DEF NoDefender

\* With the seats filled nothing changes but the point.
LEMMA SeatedKeepsRing ==
  ASSUME RingInv, Seated
  PROVE  RingInv'
<1>1. MemoryInv'
  BY RingInvHasMemoryInv
     DEF Seated, NoCommit, NoWrite, Goto, MemoryInv, MemoryIsComparable, RingFollowsPc, Comparable,
         Memory, Points, LegOf
<1>2. QED
  BY <1>1, MemoryStepKeepsRing DEF Seated, NoCommit, NoWrite

\* A session that dies leaves nothing in memory.
LEMMA DieKeepsRing ==
  ASSUME RingInv, Die
  PROVE  RingInv'
BY FailKeepsRing DEF Die

\* The end of the window is a flag.
LEMMA WindowEndsKeepsRing ==
  ASSUME RingInv, WindowEnds
  PROVE  RingInv'
<1>1. ring' = [ring EXCEPT !.over = TRUE] /\ pc' = pc /\ ring \in Session
  BY DEF WindowEnds, Goto, RingInv, RingTypes
<1>2. /\ ring' \in Session /\ ring'.ref = ring.ref /\ ring'.rubric = ring.rubric
      /\ ring'.seated = ring.seated /\ ring'.carried = ring.carried
      /\ ring'.doomed = ring.doomed /\ ring'.pending = ring.pending
      /\ ring'.matchups = ring.matchups /\ ring'.lead = ring.lead
      /\ ring'.writing = ring.writing /\ ring'.taken = ring.taken
      /\ ring'.lever = ring.lever
  BY <1>1 DEF Session
<1>3. MemoryInv'
  BY <1>1, <1>2, RingInvHasMemoryInv
     DEF WindowEnds, NoCommit, NoWrite, MemoryInv, MemoryIsComparable, RingFollowsPc, Comparable,
         Memory, Points, LegOf
<1>4. QED
  BY <1>3, MemoryStepKeepsRing DEF WindowEnds, NoCommit, NoWrite

\* A session that let another one through has no opening leg.
LEMMA YieldKeepsRing ==
  ASSUME RingInv, Yield
  PROVE  RingInv'
<1>1. /\ ring' = ring \/ ring' = [ring EXCEPT !.lead = NoLeg]
      /\ pc = "seam" /\ pc' = "cycle" /\ ring \in Session
  BY DEF Yield, Goto, RingInv, RingTypes
<1>2. /\ ring' \in Session /\ ring'.ref = ring.ref /\ ring'.rubric = ring.rubric
      /\ ring'.seated = ring.seated /\ ring'.carried = ring.carried
      /\ ring'.doomed = ring.doomed /\ ring'.pending = ring.pending
      /\ ring'.matchups = ring.matchups /\ ring'.lead \in {ring.lead, NoLeg}
      /\ ring'.writing = ring.writing /\ ring'.taken = ring.taken
      /\ ring'.lever = ring.lever
  BY <1>1 DEF Session
<1>3. MemoryInv'
  BY <1>1, <1>2, RingInvHasMemoryInv
     DEF Yield, NoCommit, NoWrite, MemoryInv, MemoryIsComparable, RingFollowsPc, Comparable,
         Memory, Points, LegOf
<1>4. QED
  BY <1>3, MemoryStepKeepsRing DEF Yield, NoCommit, NoWrite

\* The two sides of a match are profiles of the field.
LEMMA SidesAreProfiles ==
  ASSUME RingInv, NEW m \in DOMAIN bout
  PROVE  bout[m].ref \in Profiles /\ bout[m].cha \in Profiles /\ Pair(m) \in SUBSET Profiles
<1>1. bout[m] \in [ref : Profiles, cha : Profiles]
  BY ElementOfSeq, LenProperties DEF RingInv, RingTypes
<1>2. QED
  BY <1>1 DEF Pair

\* A match that is rebuilt is the same match, with the same rounds.
LEMMA RebuiltSnapshot ==
  ASSUME NEW s \in Snapshot
  PROVE  /\ Rebuilt(s) \in Snapshot /\ Rebuilt(s).m = s.m /\ Rebuilt(s).rubric = s.rubric
         /\ Rebuilt(s).rounds = s.rounds /\ Rebuilt(s).aside = 0
         /\ Comparable(s) => Comparable(Rebuilt(s))
<1>1. Rebuilt(s) = [m |-> s.m, rubric |-> s.rubric, rounds |-> s.rounds, aside |-> 0,
                    bad |-> s.bad, read |-> s.read]
  BY DEF Rebuilt, Snapshot
<1>2. QED
  BY <1>1 DEF Snapshot, Comparable

\* What is carried past a new defender is against it, under the session's methodology.
LEMMA DefendKeepsRing ==
  ASSUME RingInv, NoCommit, UNCHANGED <<current, bout, reading>>, pc = "match",
         NEW resume \in BOOLEAN, NEW d \in Profiles, Defend(d, resume),
         ring.seated # {} => d = ring.ref
  PROVE  RingInv'
<1>1. PICK out \in SUBSET ring.carried, again \in SUBSET Rematches(d) :
        /\ {s \in ring.carried : s.rubric # ring.rubric \/ bout[s.m].ref # d} \subseteq out
        /\ Cardinality(again) <= 1
        /\ Goto("seat",
                [ring EXCEPT !.ref = d, !.draining = FALSE, !.resuming = resume,
                             !.lead = IF ring.ref = d THEN @ ELSE NoLeg,
                             !.carried = @ \ out, !.doomed = @ \cup {Rebuilt(s) : s \in out},
                             !.fought = @ \ again, !.rematched = @ \cup again])
  BY Zenon DEF Defend
<1>2. again \in SUBSET SUBSET Profiles
  <2>1. \A x \in ring.matchups : x.m \in DOMAIN bout
    BY DEF RingInv, CopiesAreComparable, Comparable
  <2>2. \A x \in ring.matchups : Pair(x.m) \in SUBSET Profiles
    BY <2>1, SidesAreProfiles
  <2>3. QED
    BY <2>2 DEF Rematches
<1>3. /\ ring \in Session /\ ring.lead \in Reading \cup {NoLeg, Unusable}
      /\ ring.pending = {} /\ ring.doomed = {} /\ out \in SUBSET Snapshot
  BY DEF RingInv, RingTypes, RingFollowsPc, Session
<1> DEFINE gone == {Rebuilt(s) : s \in out}
           lead == IF ring.ref = d THEN ring.lead ELSE NoLeg
<1>4. lead \in Reading \cup {NoLeg, Unusable}
  BY <1>3
<1>5. /\ pc' = "seat"
      /\ ring' = [ring EXCEPT !.ref = d, !.draining = FALSE, !.resuming = resume,
                             !.lead = lead,
                             !.carried = ring.carried \ out,
                             !.doomed = ring.doomed \cup gone,
                             !.fought = ring.fought \ again,
                             !.rematched = ring.rematched \cup again]
  BY <1>1 DEF Goto
<1>6. lead \in {NoLeg, ring.lead} /\ (lead # NoLeg => ring.ref = d)
  OBVIOUS
<1>11. /\ gone \in SUBSET Snapshot
       /\ \A x \in gone : Comparable(x)
  <2>1. \A s \in out : Comparable(s)
    BY DEF RingInv, CopiesAreComparable, Memory
  <2>2. QED
    BY <1>3, <2>1, RebuiltSnapshot
<1> HIDE DEF lead, gone
<1>7. /\ ring' \in Session /\ ring'.ref = d /\ ring'.rubric = ring.rubric
      /\ ring'.seated = ring.seated /\ ring'.carried = ring.carried \ out
      /\ ring'.doomed = gone /\ ring'.pending = {}
      /\ ring'.matchups = ring.matchups /\ ring'.lead = lead
      /\ ring'.writing = ring.writing /\ ring'.taken = ring.taken
      /\ ring'.lever = ring.lever
  BY <1>2, <1>3, <1>4, <1>5, <1>11 DEF Session
<1>8. \A s \in ring'.carried : bout[s.m].ref = ring'.ref /\ s.rubric = ring'.rubric
  BY <1>1, <1>7
<1>9. MemoryInv'
  <2>1. Memory' \subseteq Memory \cup gone
    BY <1>7 DEF Memory
  <2>2. RingFollowsPc'
    BY <1>5, <1>7, <2>1 DEF RingInv, RingFollowsPc, NoCommit, NoWrite
  <2>3. MemoryIsComparable'
    BY <1>5, <1>6, <1>7, <1>8, <1>11, <2>1, RingInvHasMemoryInv
       DEF MemoryInv, MemoryIsComparable, Comparable, LegOf
  <2>4. QED
    BY <1>5, <1>7, <2>2, <2>3 DEF MemoryInv, Points
<1>10. QED
  BY <1>9, MemoryStepKeepsRing DEF NoCommit, NoWrite

\* A new defender waits until the seated matches are finished: nobody is switched to
\* another opponent.
LEMMA ChooseDefenderKeepsRing ==
  ASSUME RingInv, ChooseDefender
  PROVE  RingInv'
<1>1. PICK resume \in BOOLEAN : \E d \in Defenders(resume) :
        IF ring.seated # {} /\ d # ring.ref
        THEN Goto("stale", [ring EXCEPT !.draining = TRUE])
        ELSE Defend(d, resume)
  BY DEF ChooseDefender
<1>2. PICK d \in Defenders(resume) :
        IF ring.seated # {} /\ d # ring.ref
        THEN Goto("stale", [ring EXCEPT !.draining = TRUE])
        ELSE Defend(d, resume)
  BY <1>1
<1>3. CASE ring.seated # {} /\ d # ring.ref
  <2>1. /\ ring' = [ring EXCEPT !.draining = TRUE] /\ pc = "match" /\ pc' = "stale"
        /\ ring \in Session
    BY <1>2, <1>3 DEF ChooseDefender, Goto, RingInv, RingTypes
  <2>2. /\ ring' \in Session /\ ring'.ref = ring.ref /\ ring'.rubric = ring.rubric
        /\ ring'.seated = ring.seated /\ ring'.carried = ring.carried
        /\ ring'.doomed = ring.doomed /\ ring'.pending = ring.pending
        /\ ring'.matchups = ring.matchups /\ ring'.lead = ring.lead
        /\ ring'.writing = ring.writing /\ ring'.taken = ring.taken
        /\ ring'.lever = ring.lever
    BY <2>1 DEF Session
  <2>3. ring.ref \in Profiles
    BY <1>3, SidesAreProfiles DEF RingInv, CopiesAreComparable, Comparable, Memory
  <2>4. MemoryInv'
    BY <2>1, <2>2, <2>3, RingInvHasMemoryInv
       DEF ChooseDefender, NoCommit, NoWrite, MemoryInv, MemoryIsComparable, RingFollowsPc,
           Comparable, Memory, Points, LegOf
  <2>5. QED
    BY <2>4, MemoryStepKeepsRing DEF ChooseDefender, NoCommit, NoWrite
<1>4. CASE ~(ring.seated # {} /\ d # ring.ref)
  <2>1. CarriedReferences \subseteq Profiles
    BY SidesAreProfiles
       DEF CarriedReferences, RingInv, CopiesAreComparable, Comparable, Memory
  <2>2. d \in Profiles
    BY <2>1, RingAssumption DEF Defenders
  <2>3. QED
    BY <1>2, <1>4, <2>2, DefendKeepsRing DEF ChooseDefender
<1>5. QED
  BY <1>3, <1>4

\* A carried match takes a seat as it is.
LEMMA SeatCarriedKeepsRing ==
  ASSUME RingInv, SeatCarried
  PROVE  RingInv'
<1>1. PICK s \in ring.carried :
        Goto(pc, [ring EXCEPT !.carried = @ \ {s}, !.seated = @ \cup {Rebuilt(s)},
                              !.fought = @ \cup {Pair(s.m)}])
  BY DEF SeatCarried
<1>2. Pair(s.m) \in SUBSET Profiles
  BY SidesAreProfiles DEF RingInv, CopiesAreComparable, Comparable, Memory
<1>3. ring \in Session /\ s \in Snapshot /\ pc = "seat" /\ pc' = pc
  BY <1>1 DEF RingInv, RingTypes, Session, SeatCarried, Goto
<1>7. PICK new : new = Rebuilt(s)
  OBVIOUS
<1>8. /\ new \in Snapshot /\ new.m = s.m /\ new.rubric = s.rubric
      /\ Comparable(s) /\ Comparable(new)
  BY <1>3, <1>7, RebuiltSnapshot DEF RingInv, CopiesAreComparable, Memory
<1>4. /\ ring' \in Session /\ ring'.ref = ring.ref /\ ring'.rubric = ring.rubric
      /\ ring'.seated = ring.seated \cup {new} /\ ring'.carried = ring.carried \ {s}
      /\ ring'.doomed = ring.doomed /\ ring'.pending = ring.pending
      /\ ring'.matchups = ring.matchups /\ ring'.lead = ring.lead
      /\ ring'.writing = ring.writing /\ ring'.taken = ring.taken
      /\ ring'.lever = ring.lever
  BY <1>1, <1>2, <1>3, <1>7, <1>8 DEF Session, Goto
<1>5. MemoryInv'
  <2>1. Memory' \subseteq Memory \cup {new}
    BY <1>4 DEF Memory
  <2>2. RingFollowsPc'
    BY <1>3, <1>4 DEF RingInv, RingFollowsPc, SeatCarried, NoCommit, NoWrite
  <2>3. MemoryIsComparable'
    BY <1>3, <1>4, <1>8, <2>1, RingInvHasMemoryInv
       DEF SeatCarried, MemoryInv, MemoryIsComparable, Comparable, LegOf
  <2>4. QED
    BY <1>3, <1>4, <2>2, <2>3 DEF MemoryInv, Points
<1>6. QED
  BY <1>5, MemoryStepKeepsRing DEF SeatCarried, NoCommit, NoWrite

\* A new match is against the defender, and has read nothing.
LEMMA SeatFreshKeepsRing ==
  ASSUME RingInv, SeatFresh
  PROVE  RingInv'
<1>1. PICK c \in Profiles \ {ring.ref} : Seat(c)
  BY DEF SeatFresh
<1>2. /\ ring \in Session /\ ring.ref \in Profiles /\ pc = "seat" /\ ring.rubric \in Versions
      /\ bout \in Seq([ref : Profiles, cha : Profiles])
  BY DEF RingInv, RingTypes, RingFollowsPc, SeatFresh, Session
<1> DEFINE n == Len(bout) + 1
           bt == [ref |-> ring.ref, cha |-> c]
<1>0. PICK new :
        new = [m |-> n, rubric |-> ring.rubric, rounds |-> 0, aside |-> 0, bad |-> 0, read |-> {}]
  OBVIOUS
<1>3. bt \in [ref : Profiles, cha : Profiles]
  BY <1>1, <1>2
<1>4. /\ bout' = Append(bout, bt) /\ pc' = pc
      /\ ring' = [ring EXCEPT !.fought = @ \cup {{ring.ref, c}},
           !.seated = @ \cup {[m |-> Len(bout'), rubric |-> ring.rubric, rounds |-> 0,
                               aside |-> 0, bad |-> 0, read |-> {}]}]
  BY <1>1 DEF Seat, Goto
<1>5. /\ bout' \in Seq([ref : Profiles, cha : Profiles]) /\ Len(bout') = n /\ n \in Nat
      /\ n \in DOMAIN bout' /\ bout'[n] = bt
      /\ \A m \in DOMAIN bout : m \in DOMAIN bout' /\ bout'[m] = bout[m]
  <2>1. /\ bout' \in Seq([ref : Profiles, cha : Profiles]) /\ Len(bout') = n
        /\ bout'[n] = bt /\ \A m \in 1..Len(bout) : bout'[m] = bout[m]
    BY <1>2, <1>3, <1>4, AppendProperties
  <2>2. Len(bout) \in Nat /\ DOMAIN bout = 1..Len(bout) /\ DOMAIN bout' = 1..Len(bout')
    BY <1>2, <2>1, LenProperties
  <2>3. QED
    BY <2>1, <2>2
<1>6. new \in Snapshot
  BY <1>0, <1>2, <1>5 DEF Snapshot
<1>7. ring' = [ring EXCEPT !.fought = @ \cup {{ring.ref, c}}, !.seated = @ \cup {new}]
  BY <1>0, <1>4, <1>5
<1>8. /\ new.m = n /\ new.rubric = ring.rubric /\ new.read = {} /\ bt.ref = ring.ref
  BY <1>0
<1> HIDE DEF bt, n
<1>9. {ring.ref, c} \in SUBSET Profiles
  BY <1>1, <1>2
<1>10. /\ ring' \in Session /\ ring'.ref = ring.ref /\ ring'.rubric = ring.rubric
       /\ ring'.seated = ring.seated \cup {new} /\ ring'.carried = ring.carried
       /\ ring'.doomed = ring.doomed /\ ring'.pending = ring.pending
       /\ ring'.matchups = ring.matchups /\ ring'.lead = ring.lead
       /\ ring'.writing = ring.writing /\ ring'.taken = ring.taken
       /\ ring'.lever = ring.lever
  BY <1>2, <1>6, <1>7, <1>9 DEF Session
<1>11. UNCHANGED <<rows, campaign, current, reading>>
  BY DEF SeatFresh
<1>12. \A x : Comparable(x) => Comparable(x)'
  BY <1>5 DEF Comparable
<1>13. Comparable(new)'
  BY <1>5, <1>8 DEF Comparable
<1>14. RingTypes'
  BY <1>4, <1>5, <1>10, <1>11 DEF RingInv, RingTypes
<1>15. RingFollowsPc'
  BY <1>2, <1>4, <1>10, <1>11 DEF RingInv, RingFollowsPc, Memory
<1>16. CopiesAreComparable'
  <2>1. \A x \in (campaign \cup Memory \cup ring.matchups)' : Comparable(x)'
    BY <1>10, <1>11, <1>12, <1>13 DEF RingInv, CopiesAreComparable, Memory
  <2>2. /\ \A i \in DOMAIN rows' : \A x \in rows'[i].open \cup rows'[i].matchups :
             Comparable(x)'
        /\ \A i \in DOMAIN reading' : \A x \in reading'[i].open \cup reading'[i].matchups :
             Comparable(x)'
        /\ DOMAIN reading' \subseteq DOMAIN rows'
    BY <1>11, <1>12 DEF RingInv, CopiesAreComparable
  <2>3. \A s \in ring.seated \cup ring.carried : bout'[s.m] = bout[s.m]
    BY <1>5 DEF RingInv, CopiesAreComparable, Comparable, Memory
  <2>4. ring.pending = {}
    BY <1>2 DEF RingInv, RingFollowsPc
  <2>5. \A s \in ring'.seated : bout'[s.m].ref = ring'.ref /\ s.rubric = ring'.rubric
    BY <1>5, <1>8, <1>10, <2>3 DEF RingInv, CopiesAreComparable
  <2>6. \A s \in ring'.carried : bout'[s.m].ref = ring'.ref /\ s.rubric = ring'.rubric
    BY <1>2, <1>10, <2>3 DEF RingInv, CopiesAreComparable
  <2>7. ring'.lead \in {NoLeg, Unusable, LegOf(ring.ref)'}
    BY <1>10 DEF RingInv, CopiesAreComparable, LegOf
  <2>8. QED
    BY <2>1, <2>2, <2>4, <2>5, <2>6, <2>7, <1>10 DEF CopiesAreComparable
<1>17. QED
  BY <1>14, <1>15, <1>16 DEF RingInv

\* A leg that can be read is a leg of its profile as the session reads it.
LEMMA LegsAreRead ==
  ASSUME RingInv, NEW fp \in Profiles, NEW l \in Legs(fp)
  PROVE  l \in {Unusable, LegOf(fp)} /\ l \in Reading \cup {Unusable}
<1>1. CASE l = Unusable
  BY <1>1
<1>2. CASE l # Unusable
  <2>1. l \in [fp : {fp}, version : {current}, alone : {TRUE}] /\ l.version = ring.rubric
    BY <1>2 DEF Legs
  <2>2. l = [fp |-> fp, version |-> ring.rubric, alone |-> TRUE]
    BY <2>1
  <2>3. ring.rubric \in Versions
    BY DEF RingInv, RingTypes, Session
  <2>4. QED
    BY <2>2, <2>3 DEF LegOf, Reading
<1>3. QED
  BY <1>1, <1>2

\* The opening leg is one of the defender.
LEMMA OpeningLegKeepsRing ==
  ASSUME RingInv, OpeningLeg
  PROVE  RingInv'
<1>1. /\ ring \in Session /\ pc = "lead" /\ ring.ref \in Profiles
      /\ ring.lead \in Reading \cup {NoLeg, Unusable}
      /\ ring.lead \in {NoLeg, Unusable, LegOf(ring.ref)}
  BY DEF OpeningLeg, RingInv, RingTypes, RingFollowsPc, CopiesAreComparable, Session
<1>2. PICK l \in Reading \cup {NoLeg, Unusable} :
        /\ ring' = ring \/ ring' = [ring EXCEPT !.lead = l]
        /\ l \in {NoLeg, Unusable, LegOf(ring.ref)}
        /\ pc' \in {"slots", "ending", "cycle"}
  BY <1>1, LegsAreRead DEF OpeningLeg, Goto
<1>3. /\ ring' \in Session /\ ring'.ref = ring.ref /\ ring'.rubric = ring.rubric
      /\ ring'.seated = ring.seated /\ ring'.carried = ring.carried
      /\ ring'.doomed = ring.doomed /\ ring'.pending = ring.pending
      /\ ring'.matchups = ring.matchups /\ ring'.lead \in {ring.lead, l}
      /\ ring'.writing = ring.writing /\ ring'.taken = ring.taken
      /\ ring'.lever = ring.lever
  BY <1>1, <1>2 DEF Session
<1>4. MemoryInv'
  BY <1>1, <1>2, <1>3, RingInvHasMemoryInv
     DEF OpeningLeg, NoWrite, MemoryInv, MemoryIsComparable, RingFollowsPc, Comparable,
         Memory, Points, LegOf
<1>5. QED
  BY <1>4, MemoryStepKeepsRing DEF OpeningLeg, NoWrite

\* A challenger's leg is one of its own match, and the only one of the cycle.
LEMMA ChallengerLegKeepsRing ==
  ASSUME RingInv, ChallengerLeg
  PROVE  RingInv'
<1>1. PICK s \in ring.seated \ Measured : \E l \in Legs(bout[s.m].cha) :
        Goto(pc, [ring EXCEPT !.pending = @ \cup {[s |-> s, leg |-> l]}])
  BY DEF ChallengerLeg
<1>2. bout[s.m].cha \in Profiles
  BY SidesAreProfiles DEF RingInv, CopiesAreComparable, Comparable, Memory
<1>3. PICK l \in Reading \cup {Unusable} :
        /\ ring' = [ring EXCEPT !.pending = @ \cup {[s |-> s, leg |-> l]}] /\ pc' = pc
        /\ l \in {Unusable, LegOf(bout[s.m].cha)}
  BY <1>1, <1>2, LegsAreRead DEF Goto
<1>4. ring \in Session /\ s \in Snapshot /\ pc = "slots"
  BY <1>1 DEF RingInv, RingTypes, Session, ChallengerLeg
<1> DEFINE new == [s |-> s, leg |-> l]
<1>5. new \in [s : Snapshot, leg : Reading \cup {Unusable}]
  BY <1>4
<1>6. ring' = [ring EXCEPT !.pending = @ \cup {new}] /\ new.s = s /\ new.leg = l
  BY <1>3
<1> HIDE DEF new
<1>7. /\ ring' \in Session /\ ring'.ref = ring.ref /\ ring'.rubric = ring.rubric
      /\ ring'.seated = ring.seated /\ ring'.carried = ring.carried
      /\ ring'.doomed = ring.doomed /\ ring'.pending = ring.pending \cup {new}
      /\ ring'.matchups = ring.matchups /\ ring'.lead = ring.lead
      /\ ring'.writing = ring.writing /\ ring'.taken = ring.taken
      /\ ring'.lever = ring.lever
  BY <1>4, <1>5, <1>6 DEF Session
<1>8. RingFollowsPc'
  <2>1. \A p, q \in ring'.pending : p.s = q.s => p = q
    BY <1>1, <1>6, <1>7 DEF RingInv, RingFollowsPc, Measured
  <2>2. \A p \in ring'.pending : p.s \in ring'.seated
    BY <1>1, <1>6, <1>7 DEF RingInv, RingFollowsPc
  <2>3. QED
    BY <1>3, <1>4, <1>7, <2>1, <2>2
       DEF ChallengerLeg, NoWrite, RingInv, RingFollowsPc, Memory
<1>9. MemoryIsComparable'
  BY <1>3, <1>4, <1>6, <1>7, RingInvHasMemoryInv
     DEF ChallengerLeg, MemoryInv, MemoryIsComparable, Comparable, Memory, LegOf
<1>10. MemoryInv'
  BY <1>3, <1>4, <1>7, <1>8, <1>9 DEF MemoryInv, Points
<1>11. QED
  BY <1>10, MemoryStepKeepsRing DEF ChallengerLeg, NoWrite

\* A match after its leg: the same match on the same scale, with at most one round more,
\* which was read against its own reference.
LEMMA AfterALeg ==
  ASSUME RingInv, NEW p \in ring.pending,
         NEW flanks \in SUBSET {NoLeg, Unusable, LegOf(ring.ref)}
  PROVE  /\ After(p, flanks) \in Snapshot /\ After(p, flanks).m = p.s.m
         /\ After(p, flanks).rubric = p.s.rubric
         /\ After(p, flanks).rounds >= p.s.rounds /\ After(p, flanks).aside = p.s.aside
         /\ Comparable(After(p, flanks))
<1> DEFINE usable == flanks \ {NoLeg, Unusable}
           ref == LegOf(ring.ref)
<1>1. /\ p.s \in ring.seated /\ p.s \in Snapshot /\ ring \in Session
      /\ ring.rubric \in Versions /\ ring.ref \in Profiles
      /\ p.leg \in {Unusable, LegOf(bout[p.s.m].cha)}
      /\ bout[p.s.m].ref = ring.ref /\ p.s.rubric = ring.rubric
      /\ Comparable(p.s)
  BY DEF RingInv, RingTypes, RingFollowsPc, CopiesAreComparable, Session, Memory
<1>2. usable \subseteq {ref}
  OBVIOUS
<1>3. ref \in Reading /\ ref = [fp |-> ring.ref, version |-> ring.rubric, alone |-> TRUE]
  BY <1>1 DEF Reading, LegOf
<1>4. CASE p.leg = Unusable \/ usable = {}
  <2>1. After(p, flanks) = [p.s EXCEPT !.bad = @ + 1]
    BY <1>4 DEF After
  <2>2. QED
    BY <1>1, <2>1 DEF Snapshot, Comparable
<1>5. CASE ~(p.leg = Unusable \/ usable = {})
  <2> DEFINE seen == {[f EXCEPT !.version = l.version] : f \in usable, l \in usable \cup {p.leg}}
  <2>1. After(p, flanks) = [p.s EXCEPT !.bad = 0, !.rounds = @ + 1, !.read = @ \cup seen]
    BY <1>5 DEF After
  <2>2. \A l \in usable \cup {p.leg} : l.version = ring.rubric
    BY <1>1, <1>2, <1>3, <1>5 DEF LegOf
  <2>3. \A f \in usable, l \in usable \cup {p.leg} : [f EXCEPT !.version = l.version] = ref
    BY <1>2, <1>3, <2>2
  <2>4. seen \subseteq {ref}
    BY <2>3
  <2> HIDE DEF seen, usable, ref
  <2>5. seen \in SUBSET Reading
    BY <1>3, <2>4
  <2>6. /\ After(p, flanks) \in Snapshot /\ After(p, flanks).m = p.s.m
        /\ After(p, flanks).rubric = p.s.rubric
        /\ After(p, flanks).rounds = p.s.rounds + 1 /\ After(p, flanks).aside = p.s.aside
        /\ After(p, flanks).read = p.s.read \cup seen
    <3>1. PICK t : t = p.s
      OBVIOUS
    <3>2. PICK new : new = seen
      OBVIOUS
    <3>3. t \in Snapshot /\ new \in SUBSET Reading
      BY <1>1, <2>5, <3>1, <3>2
    <3>4. PICK x : x = [t EXCEPT !.bad = 0, !.rounds = @ + 1, !.read = @ \cup new]
      OBVIOUS
    <3>5. /\ x \in Snapshot /\ x.m = t.m /\ x.rubric = t.rubric
          /\ x.rounds = t.rounds + 1 /\ x.aside = t.aside /\ x.read = t.read \cup new
      <4>1. x = [m |-> t.m, rubric |-> t.rubric, rounds |-> t.rounds + 1,
                 aside |-> t.aside, bad |-> 0, read |-> t.read \cup new]
        BY <3>3, <3>4 DEF Snapshot
      <4>2. /\ t.m \in Nat /\ t.rubric \in Versions /\ t.rounds + 1 \in Nat /\ t.aside \in Nat
            /\ t.read \cup new \in SUBSET Reading
        BY <3>3 DEF Snapshot
      <4>3. QED
        BY <4>1, <4>2 DEF Snapshot
    <3>6. After(p, flanks) = x
      BY <2>1, <3>1, <3>2, <3>4
    <3>7. QED
      BY <3>1, <3>2, <3>5, <3>6
  <2>7. p.s.rounds \in Nat
    BY <1>1 DEF Snapshot
  <2>8. QED
    BY <1>1, <1>3, <2>4, <2>6, <2>7 DEF Comparable
<1>6. QED
  BY <1>4, <1>5

\* The rounds of a cycle are read against legs of the defender.
LEMMA ClosingLegKeepsRing ==
  ASSUME RingInv, ClosingLeg
  PROVE  RingInv'
<1>1. /\ ring \in Session /\ pc = "slots" /\ ring.ref \in Profiles
      /\ ring.lead \in {NoLeg, Unusable, LegOf(ring.ref)}
  BY DEF ClosingLeg, RingInv, RingTypes, RingFollowsPc, CopiesAreComparable
<1>2. PICK trail \in IF ring.pending = {} \/ ring.over THEN {NoLeg} ELSE Legs(ring.ref) :
        LET after == {After(p, {ring.lead, trail}) : p \in ring.pending}
            aborted == {s \in after : s.bad >= MaxBad}
        IN  Goto("judge", [ring EXCEPT
              !.seated = ((@ \ Measured) \cup after) \ aborted,
              !.doomed = @ \cup aborted, !.pending = {}, !.lead = trail])
  BY DEF ClosingLeg
<1>3. trail \in {NoLeg, Unusable, LegOf(ring.ref)} /\ trail \in Reading \cup {NoLeg, Unusable}
  BY <1>1, LegsAreRead
<1> DEFINE after == {After(p, {ring.lead, trail}) : p \in ring.pending}
           aborted == {s \in after : s.bad >= MaxBad}
<1>4. ring' = [ring EXCEPT !.seated = ((ring.seated \ Measured) \cup after) \ aborted,
                           !.doomed = ring.doomed \cup aborted, !.pending = {}, !.lead = trail]
      /\ pc' = "judge"
  BY <1>2 DEF Goto
<1>5. \A x \in after : \E p \in ring.pending :
         /\ x \in Snapshot /\ x.m = p.s.m /\ x.rubric = p.s.rubric
         /\ x.rounds >= p.s.rounds /\ Comparable(x)
  <2> SUFFICES ASSUME NEW p \in ring.pending
               PROVE  LET x == After(p, {ring.lead, trail}) IN
                      /\ x \in Snapshot /\ x.m = p.s.m /\ x.rubric = p.s.rubric
                      /\ x.rounds >= p.s.rounds /\ Comparable(x)
    OBVIOUS
  <2>1. {ring.lead, trail} \in SUBSET {NoLeg, Unusable, LegOf(ring.ref)}
    BY <1>1, <1>3
  <2>2. QED
    BY <2>1, AfterALeg
<1>6. aborted \subseteq after
  OBVIOUS
<1> HIDE DEF after, aborted
<1>7. after \subseteq Snapshot /\ aborted \subseteq Snapshot
  BY <1>5, <1>6
<1>8. /\ ring' \in Session /\ ring'.ref = ring.ref /\ ring'.rubric = ring.rubric
      /\ ring'.seated = ((ring.seated \ Measured) \cup after) \ aborted
      /\ ring'.carried = ring.carried
      /\ ring'.doomed = ring.doomed \cup aborted /\ ring'.pending = {}
      /\ ring'.matchups = ring.matchups /\ ring'.lead = trail
      /\ ring'.writing = ring.writing /\ ring'.taken = ring.taken
      /\ ring'.lever = ring.lever
  BY <1>1, <1>3, <1>4, <1>7 DEF Session
<1>9. RingFollowsPc'
  BY <1>1, <1>4, <1>8 DEF ClosingLeg, NoWrite, RingInv, RingFollowsPc
<1>10. MemoryIsComparable'
  <2>1. UNCHANGED bout
    BY DEF ClosingLeg
  <2>2. \A x \in after : Comparable(x) /\ bout[x.m].ref = ring.ref /\ x.rubric = ring.rubric
    BY <1>5 DEF RingInv, RingFollowsPc, CopiesAreComparable
  <2>3. \A x \in Memory' \cup ring'.matchups : Comparable(x)'
    BY <1>6, <1>8, <2>1, <2>2 DEF RingInv, CopiesAreComparable, Memory, Comparable
  <2>4. \A x \in ring'.seated : bout'[x.m].ref = ring'.ref /\ x.rubric = ring'.rubric
    BY <1>8, <2>1, <2>2 DEF RingInv, CopiesAreComparable
  <2>5. QED
    BY <1>3, <1>4, <1>8, <2>3, <2>4 DEF MemoryIsComparable, LegOf
<1>11. MemoryInv'
  BY <1>4, <1>8, <1>9, <1>10 DEF MemoryInv, Points
<1>12. QED
  BY <1>11, MemoryStepKeepsRing DEF ClosingLeg, NoWrite

\* A step that writes the open matches of the session keeps what the invariant says of the
\* disk, for it writes matches it had in memory.
LEMMA PersistStepKeepsRing ==
  ASSUME RingInv, pc # "out", NEW r \in Session, PersistOpen(r),
         r.seated \cup r.carried \subseteq Memory,
         UNCHANGED <<current, bout, reading>>, MemoryInv'
  PROVE  RingInv'
<1>1. rows # <<>> /\ RingTypes
  BY DEF RingInv, RingFollowsPc
<1>2. /\ rows' \in Seq(Row) /\ campaign' \in SUBSET Snapshot /\ DOMAIN rows' = DOMAIN rows
      /\ \A i \in DOMAIN rows : rows'[i].matchups = rows[i].matchups
      /\ \A i \in DOMAIN rows : rows'[i].open \subseteq rows[i].open \cup Memory
      /\ campaign' \subseteq campaign \cup Memory
  BY <1>1, OpenPersisted DEF RingTypes
<1>3. RingTypes'
  BY <1>2 DEF RingInv, RingTypes, MemoryInv
<1>4. CopiesAreComparable'
  <2>1. \A x : Comparable(x) => Comparable(x)'
    BY DEF Comparable
  <2>2. /\ \A x \in campaign' : Comparable(x)'
        /\ \A i \in DOMAIN rows' : \A x \in rows'[i].open \cup rows'[i].matchups :
             Comparable(x)'
    BY <1>2, <2>1 DEF RingInv, CopiesAreComparable
  <2>3. /\ \A i \in DOMAIN reading' : \A x \in reading'[i].open \cup reading'[i].matchups :
             Comparable(x)'
        /\ DOMAIN reading' \subseteq DOMAIN rows'
    BY <1>2, <2>1 DEF RingInv, CopiesAreComparable
  <2>4. QED
    BY <2>2, <2>3 DEF CopiesAreComparable, MemoryInv, MemoryIsComparable
<1>5. QED
  BY <1>3, <1>4 DEF RingInv, MemoryInv

\* The open matches are written as they are in memory.
LEMMA SyncKeepsRing ==
  ASSUME RingInv, Sync
  PROVE  RingInv'
<1>1. /\ ring' = [ring EXCEPT !.writing = FALSE, !.taken = FALSE] /\ pc' = pc
      /\ ring \in Session /\ pc # "out" /\ PersistOpen(ring)
      /\ UNCHANGED <<current, bout, reading>>
  BY NothingIsASession DEF Sync, Goto, RingInv, RingTypes, RingFollowsPc
<1>2. /\ ring' \in Session /\ ring'.ref = ring.ref /\ ring'.rubric = ring.rubric
      /\ ring'.seated = ring.seated /\ ring'.carried = ring.carried
      /\ ring'.doomed = ring.doomed /\ ring'.pending = ring.pending
      /\ ring'.matchups = ring.matchups /\ ring'.lead = ring.lead
      /\ ~ring'.writing /\ ~ring'.taken /\ ring'.lever = ring.lever
  BY <1>1 DEF Session
<1>3. rows' # <<>>
  <2>1. rows # <<>> /\ RingTypes
    BY <1>1 DEF RingInv, RingFollowsPc
  <2>2. Last \in DOMAIN rows /\ DOMAIN rows' = DOMAIN rows
    BY <1>1, <2>1, OpenPersisted
  <2>3. QED
    BY <2>2
<1>4. MemoryInv'
  BY <1>1, <1>2, <1>3, RingInvHasMemoryInv
     DEF MemoryInv, MemoryIsComparable, RingFollowsPc, Comparable, Memory, LegOf
<1>5. QED
  BY <1>1, <1>4, PersistStepKeepsRing DEF Memory

\* After the judging, too.
LEMMA JudgedKeepsRing ==
  ASSUME RingInv, Judged
  PROVE  RingInv'
<1>1. /\ ring' = ring /\ pc = "judge" /\ pc' \in {"ending", "seam"}
      /\ ring \in Session /\ PersistOpen(ring) /\ ring.doomed = {} /\ ~ring.writing
      /\ UNCHANGED <<current, bout, reading>>
  BY DEF Judged, Goto, RingInv, RingTypes
<1>2. rows' # <<>>
  <2>1. rows # <<>> /\ RingTypes
    BY <1>1 DEF RingInv, RingFollowsPc
  <2>2. Last \in DOMAIN rows /\ DOMAIN rows' = DOMAIN rows
    BY <1>1, <2>1, OpenPersisted
  <2>3. QED
    BY <2>2
<1>3. MemoryInv'
  BY <1>1, <1>2, RingInvHasMemoryInv
     DEF MemoryInv, MemoryIsComparable, RingFollowsPc, Comparable, Memory, LegOf, Points
<1>4. QED
  BY <1>1, <1>3, PersistStepKeepsRing DEF Memory

\* At the end of a session they are written, and nothing stays in memory.
LEMMA CloseKeepsRing ==
  ASSUME RingInv, Close
  PROVE  RingInv'
BY TheRingIsLeft, PersistStepKeepsRing DEF Close, Memory, RingInv, RingTypes

\* Before the first leg they are written, and the session goes on if one is seated.
LEMMA WriteOpenKeepsRing ==
  ASSUME RingInv, WriteOpen
  PROVE  RingInv'
<1>1. /\ pc = "stale" /\ ring.doomed = {} /\ ~ring.writing /\ ring \in Session
      /\ PersistOpen(ring) /\ UNCHANGED <<current, bout, reading>> /\ ring.ref \in Profiles
      /\ \/ Goto("out", Nothing)
         \/ /\ ring' = [ring EXCEPT !.taken = FALSE] /\ pc' \in {"lead", "ending"}
  BY DEF WriteOpen, Goto, RingInv, RingTypes, RingFollowsPc
<1>2. CASE Goto("out", Nothing)
  BY <1>1, <1>2, TheRingIsLeft, PersistStepKeepsRing DEF Memory
<1>3. CASE ring' = [ring EXCEPT !.taken = FALSE] /\ pc' \in {"lead", "ending"}
  <2>1. /\ ring' \in Session /\ ring'.ref = ring.ref /\ ring'.rubric = ring.rubric
        /\ ring'.seated = ring.seated /\ ring'.carried = ring.carried
        /\ ring'.doomed = ring.doomed /\ ring'.pending = ring.pending
        /\ ring'.matchups = ring.matchups /\ ring'.lead = ring.lead
        /\ ring'.writing = ring.writing /\ ~ring'.taken /\ ring'.lever = ring.lever
    BY <1>1, <1>3 DEF Session
  <2>2. rows' # <<>>
    <3>1. rows # <<>> /\ RingTypes
      BY <1>1 DEF RingInv, RingFollowsPc
    <3>2. Last \in DOMAIN rows /\ DOMAIN rows' = DOMAIN rows
      BY <1>1, <3>1, OpenPersisted
    <3>3. QED
      BY <3>2
  <2>3. MemoryInv'
    BY <1>1, <1>3, <2>1, <2>2, RingInvHasMemoryInv
       DEF MemoryInv, MemoryIsComparable, RingFollowsPc, Comparable, Memory, LegOf, Points
  <2>4. QED
    BY <1>1, <2>3, PersistStepKeepsRing DEF Memory
<1>4. QED
  BY <1>1, <1>2, <1>3

\* The ring starts afresh: nobody is seated, and no reference leg is kept.
LEMMA ReseedKeepsRing ==
  ASSUME RingInv, Reseed
  PROVE  RingInv'
<1> DEFINE r == [ring EXCEPT !.rubric = current, !.fought = {}, !.rematched = {},
                             !.ref = NoProfile, !.draining = FALSE, !.lead = NoLeg]
<1>1. /\ pc = "reseed" /\ pc' = "match" /\ ring.seated = {} /\ ~ring.writing
      /\ ring \in Session /\ current \in Versions /\ ring.pending = {} /\ ring.doomed = {}
      /\ PersistOpen(r) /\ UNCHANGED <<current, bout, reading>>
      /\ ring' = [r EXCEPT !.taken = FALSE]
  BY DEF Reseed, Goto, RingInv, RingTypes, RingFollowsPc
<1>2. /\ r \in Session /\ r.ref = NoProfile /\ r.rubric = current /\ r.lead = NoLeg
      /\ r.seated = {} /\ r.carried = ring.carried /\ r.doomed = {} /\ r.pending = {}
      /\ r.matchups = ring.matchups /\ r.lever = ring.lever /\ ~r.writing
  BY <1>1 DEF Session
<1> HIDE DEF r
<1>3. /\ ring' \in Session /\ ring'.ref = NoProfile /\ ring'.rubric = current
      /\ ring'.lead = NoLeg /\ ring'.seated = {} /\ ring'.carried = ring.carried
      /\ ring'.doomed = {} /\ ring'.pending = {} /\ ring'.matchups = ring.matchups
      /\ ~ring'.writing /\ ~ring'.taken
  BY <1>1, <1>2 DEF Session
<1>4. rows' # <<>>
  <2>1. rows # <<>> /\ RingTypes
    BY <1>1 DEF RingInv, RingFollowsPc
  <2>2. Last \in DOMAIN rows /\ DOMAIN rows' = DOMAIN rows
    BY <1>1, <1>2, <2>1, OpenPersisted
  <2>3. QED
    BY <2>2
<1>5. MemoryInv'
  BY <1>1, <1>3, <1>4, RingInvHasMemoryInv
     DEF MemoryInv, MemoryIsComparable, RingFollowsPc, Comparable, Memory, LegOf, Points
<1>6. r.seated \cup r.carried \subseteq Memory
  BY <1>2 DEF Memory
<1>7. QED
  BY <1>1, <1>2, <1>5, <1>6, PersistStepKeepsRing

\* A match leaves the ring for the ledger with the rounds it had.
LEMMA RecordAsKeepsRing ==
  ASSUME RingInv, NEW s \in Memory, NEW won \in BOOLEAN, RecordAs(s, won),
         pc \in {"reseed", "stale", "judge"}
  PROVE  RingInv'
<1>0. PICK rec : rec = [m |-> s.m, rubric |-> s.rubric, rounds |-> s.rounds, aside |-> 0,
                        won |-> won, read |-> s.read]
  OBVIOUS
<1>1. ring \in Session /\ s \in Snapshot /\ Comparable(s) /\ rows # <<>>
      /\ ring.matchups \in SUBSET Entry /\ rows \in Seq(Row)
  BY DEF RingInv, RingTypes, RingFollowsPc, CopiesAreComparable, Session, Memory
<1>2. rec \in Entry /\ rec.m = s.m /\ rec.rubric = s.rubric /\ rec.read = s.read
  BY <1>0, <1>1 DEF Snapshot, Entry
<1>3. /\ ring' = [ring EXCEPT !.matchups = ring.matchups \cup {rec}, !.writing = TRUE,
                              !.seated = @ \ {s}, !.doomed = @ \ {s}]
      /\ rows' = [rows EXCEPT ![Last].matchups = ring.matchups \cup {rec}]
      /\ campaign' = campaign /\ pc' = pc /\ UNCHANGED <<current, bout, reading>>
  BY <1>0 DEF RecordAs, Goto, Commit, Write
<1>4. ring.matchups \cup {rec} \in SUBSET Entry
  BY <1>1, <1>2
<1>5. /\ rows' \in Seq(Row) /\ DOMAIN rows' = DOMAIN rows /\ Last' = Last
      /\ Last \in DOMAIN rows
      /\ rows'[Last].matchups = ring.matchups \cup {rec}
      /\ rows'[Last].open = rows[Last].open
      /\ \A i \in DOMAIN rows \ {Last} : rows'[i] = rows[i]
  BY <1>1, <1>3, <1>4, MatchupsReplaced
<1>6. /\ ring' \in Session /\ ring'.ref = ring.ref /\ ring'.rubric = ring.rubric
      /\ ring'.seated = ring.seated \ {s} /\ ring'.carried = ring.carried
      /\ ring'.doomed = ring.doomed \ {s} /\ ring'.pending = ring.pending
      /\ ring'.matchups = ring.matchups \cup {rec} /\ ring'.lead = ring.lead
      /\ ring'.writing /\ ring'.taken = ring.taken /\ ring'.lever = ring.lever
  BY <1>1, <1>3, <1>4 DEF Session
<1>7. RingTypes'
  BY <1>3, <1>5, <1>6 DEF RingInv, RingTypes
<1>8. RingFollowsPc'
  BY <1>3, <1>5, <1>6 DEF RingInv, RingFollowsPc, Memory
<1>9. CopiesAreComparable'
  <2>1. \A x : Comparable(x) => Comparable(x)'
    BY <1>3 DEF Comparable
  <2>2. Comparable(rec)'
    BY <1>1, <1>2, <1>3 DEF Comparable
  <2>3. \A x \in (campaign \cup Memory \cup ring.matchups)' : Comparable(x)'
    BY <1>3, <1>6, <2>1, <2>2 DEF RingInv, CopiesAreComparable, Memory
  <2>4. \A i \in DOMAIN rows' : \A x \in rows'[i].open \cup rows'[i].matchups : Comparable(x)'
    BY <1>5, <2>1, <2>2 DEF RingInv, CopiesAreComparable
  <2>5. /\ \A i \in DOMAIN reading' : \A x \in reading'[i].open \cup reading'[i].matchups :
             Comparable(x)'
        /\ DOMAIN reading' \subseteq DOMAIN rows'
    BY <1>3, <1>5, <2>1 DEF RingInv, CopiesAreComparable
  <2>6. ring.pending = {}
    BY DEF RingInv, RingFollowsPc
  <2>7. QED
    BY <1>3, <1>6, <2>3, <2>4, <2>5, <2>6 DEF RingInv, CopiesAreComparable, LegOf
<1>10. QED
  BY <1>7, <1>8, <1>9 DEF RingInv

\* A match that cannot go on is recorded as it is.
LEMMA DismissKeepsRing ==
  ASSUME RingInv, Dismiss
  PROVE  RingInv'
BY RecordAsKeepsRing DEF Dismiss, Memory

\* So is one that is closed for a new methodology ...
LEMMA CloseForReseedKeepsRing ==
  ASSUME RingInv, CloseForReseed
  PROVE  RingInv'
BY RecordAsKeepsRing DEF CloseForReseed, Memory

\* ... and one that is decided.
LEMMA AdjudicateKeepsRing ==
  ASSUME RingInv, Adjudicate
  PROVE  RingInv'
BY RecordAsKeepsRing DEF Adjudicate, Memory

\* What Take leaves on the rows: the open matches of row i are on the session's row.
LEMMA TakenOver ==
  ASSUME rows \in Seq(Row), NEW i \in DOMAIN rows \ {Last},
         rows' = [rows EXCEPT ![Last].open = rows[i].open, ![i].open = {}]
  PROVE  /\ rows' \in Seq(Row) /\ DOMAIN rows' = DOMAIN rows /\ Last' = Last
         /\ Last \in DOMAIN rows
         /\ rows'[Last].open = rows[i].open /\ rows'[i].open = {}
         /\ \A j \in DOMAIN rows : rows'[j].matchups = rows[j].matchups
         /\ \A j \in DOMAIN rows \ {Last, i} : rows'[j] = rows[j]
<1>1. /\ Last \in 1..Len(rows) /\ DOMAIN rows = 1..Len(rows) /\ Len(rows) \in Nat
      /\ \A j \in DOMAIN rows : rows[j] \in Row
  BY LenProperties, EmptySeq, ElementOfSeq DEF Last
<1> DEFINE e == [rows[Last] EXCEPT !.open = rows[i].open]
           f == [rows[i] EXCEPT !.open = {}]
<1>2. /\ e \in Row /\ e.open = rows[i].open /\ e.matchups = rows[Last].matchups
      /\ f \in Row /\ f.open = {} /\ f.matchups = rows[i].matchups
  BY <1>1 DEF Row
<1>3. rows' = [[rows EXCEPT ![Last] = e] EXCEPT ![i] = f]
  BY <1>1
<1> HIDE DEF e, f
<1> DEFINE d == [rows EXCEPT ![Last] = e]
<1>4. /\ d \in Seq(Row) /\ Len(d) = Len(rows)
      /\ \A j \in 1..Len(rows) : d[j] = IF j = Last THEN e ELSE rows[j]
  BY <1>1, <1>2, ExceptSeq
<1>5. rows' = [d EXCEPT ![i] = f]
  BY <1>3
<1> HIDE DEF d
<1>6. /\ rows' \in Seq(Row) /\ Len(rows') = Len(rows)
      /\ \A j \in 1..Len(rows) : rows'[j] = IF j = i THEN f ELSE d[j]
  <2>1. i \in 1..Len(d)
    BY <1>1, <1>4
  <2>2. /\ [d EXCEPT ![i] = f] \in Seq(Row) /\ Len([d EXCEPT ![i] = f]) = Len(d)
        /\ \A j \in 1..Len(d) : [d EXCEPT ![i] = f][j] = IF j = i THEN f ELSE d[j]
    BY <1>2, <1>4, <2>1, ExceptSeq
  <2>3. QED
    BY <1>4, <1>5, <2>2
<1>7. DOMAIN rows' = DOMAIN rows /\ Last' = Last
  BY <1>1, <1>6, LenProperties DEF Last
<1>8. QED
  BY <1>1, <1>2, <1>4, <1>6, <1>7

\* The newest of the rows that hold open matches is one of them.
LEMMA NewestHolder ==
  ASSUME RingInv, Holder # {}
  PROVE  (CHOOSE i \in Holder : \A j \in Holder : j <= i) \in Holder
<1>1. Holder \subseteq 1..Len(rows) /\ Len(rows) \in Nat
  BY LenProperties DEF Holder, RingInv, RingTypes
<1> DEFINE n == Len(rows)
           far == {n - j : j \in Holder}
<1>2. far \in SUBSET Nat /\ far # {}
  <2>1. \A j \in Holder : n - j \in Nat
    BY <1>1
  <2>2. QED
    BY <2>1
<1>3. PICK k \in far : \A l \in far : k <= l
  BY <1>2, LeastExists
<1>4. PICK i \in Holder : k = n - i
  BY <1>3
<1>5. \A j \in Holder : j <= i
  <2> SUFFICES ASSUME NEW j \in Holder PROVE j <= i
    OBVIOUS
  <2>1. n - i <= n - j
    BY <1>3, <1>4
  <2>2. QED
    BY <1>1, <2>1
<1>6. QED
  BY <1>4, <1>5

\* The open matches of an earlier session come into memory as they are on its row.
LEMMA TakeKeepsRing ==
  ASSUME RingInv, Take
  PROVE  RingInv'
<1>1. /\ ring \in Session /\ pc = "start" /\ ~ring.lever /\ Memory = {} /\ current \in Versions
      /\ ring.pending = {} /\ rows \in Seq(Row) /\ rows # <<>> /\ ring.lead = NoLeg
      /\ UNCHANGED <<current, bout, reading>>
  BY DEF Take, RingInv, RingTypes, RingFollowsPc
<1>2. CASE Holder = {}
  <2>1. ring' = [ring EXCEPT !.rubric = current] /\ pc' = "cycle" /\ NoCommit
    BY <1>2 DEF Take, Goto
  <2>2. /\ ring' \in Session /\ ring'.rubric = current /\ ring'.lead = NoLeg
        /\ ring'.seated = ring.seated /\ ring'.carried = ring.carried
        /\ ring'.doomed = ring.doomed /\ ring'.pending = {}
        /\ ring'.matchups = ring.matchups
        /\ ring'.writing = ring.writing /\ ring'.taken = ring.taken
        /\ ring'.lever = ring.lever
    BY <1>1, <2>1 DEF Session
  <2>3. MemoryInv'
    BY <1>1, <2>1, <2>2, RingInvHasMemoryInv
       DEF MemoryInv, MemoryIsComparable, RingFollowsPc, Comparable, Memory, LegOf, Points,
           NoCommit, NoWrite
  <2>4. QED
    BY <1>1, <2>1, <2>3, MemoryStepKeepsRing DEF NoCommit, NoWrite
<1>3. CASE Holder # {}
  <2>1. PICK i \in DOMAIN rows \ {Last} :
          /\ rows' = [rows EXCEPT ![Last].open = rows[i].open, ![i].open = {}]
          /\ campaign' = campaign /\ pc' = "cycle"
          /\ ring' = [ring EXCEPT !.carried = rows[i].open, !.rubric = current]
    <3>1. (CHOOSE i \in Holder : \A j \in Holder : j <= i) \in DOMAIN rows \ {Last}
      BY <1>3, NewestHolder DEF Holder
    <3>2. QED
      BY <1>3, <3>1 DEF Take, Goto, Commit, Write
  <2>2. /\ rows' \in Seq(Row) /\ DOMAIN rows' = DOMAIN rows /\ Last' = Last
        /\ Last \in DOMAIN rows
        /\ rows'[Last].open = rows[i].open /\ rows'[i].open = {}
        /\ \A j \in DOMAIN rows : rows'[j].matchups = rows[j].matchups
        /\ \A j \in DOMAIN rows \ {Last, i} : rows'[j] = rows[j]
    BY <1>1, <2>1, TakenOver
  <2>3. rows[i].open \in SUBSET Snapshot
    <3>1. rows[i] \in Row
      BY <1>1, ElementOfSeq, LenProperties
    <3>2. QED
      BY <3>1 DEF Row
  <2>4. /\ ring' \in Session /\ ring'.rubric = current /\ ring'.lead = NoLeg
        /\ ring'.seated = ring.seated /\ ring'.carried = rows[i].open
        /\ ring'.doomed = ring.doomed /\ ring'.pending = {}
        /\ ring'.matchups = ring.matchups
        /\ ring'.writing = ring.writing /\ ring'.taken = ring.taken
        /\ ring'.lever = ring.lever
    BY <1>1, <2>1, <2>3 DEF Session
  <2>5. Memory' = rows[i].open
    BY <1>1, <2>4 DEF Memory
  <2>6. RingTypes'
    BY <1>1, <2>1, <2>2, <2>4 DEF RingInv, RingTypes, Points
  <2>7. RingFollowsPc'
    BY <1>1, <2>1, <2>2, <2>4 DEF RingInv, RingFollowsPc, Memory
  <2>8. CopiesAreComparable'
    <3>1. \A x : Comparable(x) => Comparable(x)'
      BY <1>1 DEF Comparable
    <3>2. \A x \in (campaign \cup Memory \cup ring.matchups)' : Comparable(x)'
      BY <2>1, <2>4, <2>5, <3>1 DEF RingInv, CopiesAreComparable
    <3>3. \A j \in DOMAIN rows' : \A x \in rows'[j].open \cup rows'[j].matchups :
            Comparable(x)'
      BY <2>2, <3>1 DEF RingInv, CopiesAreComparable
    <3>4. /\ \A j \in DOMAIN reading' :
               \A x \in reading'[j].open \cup reading'[j].matchups : Comparable(x)'
          /\ DOMAIN reading' \subseteq DOMAIN rows'
      BY <1>1, <2>2, <3>1 DEF RingInv, CopiesAreComparable
    <3>5. ring'.seated = {}
      BY <1>1, <2>4 DEF Memory
    <3>6. QED
      BY <2>1, <2>4, <3>2, <3>3, <3>4, <3>5 DEF CopiesAreComparable
  <2>9. QED
    BY <2>6, <2>7, <2>8 DEF RingInv
<1>4. QED
  BY <1>2, <1>3

\* Those of a campaign come into memory as they are on the campaign's row.
LEMMA TakeCampaignKeepsRing ==
  ASSUME RingInv, TakeCampaign
  PROVE  RingInv'
<1>1. /\ ring \in Session /\ pc = "start" /\ ring.lever /\ Memory = {} /\ current \in Versions
      /\ ring.pending = {} /\ rows # <<>> /\ ring.lead = NoLeg
      /\ UNCHANGED <<current, bout, reading>> /\ rows' = rows /\ campaign' = {}
      /\ ring' = [ring EXCEPT !.carried = campaign, !.rubric = current,
                              !.taken = campaign # {}]
      /\ pc' = "cycle" /\ campaign \in SUBSET Snapshot
  BY DEF TakeCampaign, Goto, Commit, Write, RingInv, RingTypes, RingFollowsPc
<1>2. /\ ring' \in Session /\ ring'.rubric = current /\ ring'.lead = NoLeg
      /\ ring'.seated = ring.seated /\ ring'.carried = campaign
      /\ ring'.doomed = ring.doomed /\ ring'.pending = {}
      /\ ring'.matchups = ring.matchups /\ ring'.writing = ring.writing
      /\ ring'.lever = ring.lever
  BY <1>1 DEF Session
<1>3. Memory' = campaign /\ ring'.seated = {}
  BY <1>1, <1>2 DEF Memory
<1>4. RingTypes'
  BY <1>1, <1>2 DEF RingInv, RingTypes, Points
<1>5. RingFollowsPc'
  BY <1>1, <1>2 DEF RingInv, RingFollowsPc, Memory
<1>6. CopiesAreComparable'
  BY <1>1, <1>2, <1>3 DEF RingInv, CopiesAreComparable, Comparable
<1>7. QED
  BY <1>4, <1>5, <1>6 DEF RingInv

\* No stamp and no leg depends on what is published.
LEMMA PublishKeepsRing ==
  ASSUME RingInv, Publish
  PROVE  RingInv'
<1>1. current' \in Versions /\ UNCHANGED <<rows, campaign, bout, pc, ring, reading>>
  BY RingAssumption DEF Publish, Versions, RingInv, RingTypes
<1>2. RingTypes' /\ RingFollowsPc' /\ CopiesAreComparable'
  BY <1>1 DEF RingInv, RingTypes, RingFollowsPc, CopiesAreComparable, Comparable, Memory,
              LegOf
<1>3. QED
  BY <1>2 DEF RingInv

\* What a re-grade reads is what is on the rows.
LEMMA RegradeReadsKeepsRing ==
  ASSUME RingInv, RegradeReads
  PROVE  RingInv'
<1>1. reading' = rows /\ UNCHANGED <<rows, campaign, current, bout, pc, ring>>
  BY DEF RegradeReads
<1>2. RingTypes' /\ RingFollowsPc' /\ CopiesAreComparable'
  BY <1>1 DEF RingInv, RingTypes, RingFollowsPc, CopiesAreComparable, Comparable, Memory,
              LegOf
<1>3. QED
  BY <1>2 DEF RingInv

\* Copy y of a match is copy x of it, with up to n of its rounds set aside.
ReadAgain(x, y, n) ==
  y.m = x.m /\ All(y) = All(x) /\ y.aside <= n /\ y.rounds + n >= All(x)

\* A re-grade changes the scale a copy is on, and neither its match nor what it has of rounds
\* altogether.
LEMMA RegradedSnapshot ==
  ASSUME current \in Versions, NEW x \in Snapshot, NEW n \in Nat
  PROVE  /\ Regraded(x, n) \in Snapshot /\ ReadAgain(x, Regraded(x, n), n)
         /\ Comparable(x) => Comparable(Regraded(x, n))
<1> DEFINE seen == {[r EXCEPT !.version = current] : r \in x.read}
           k == IF n < All(x) THEN n ELSE All(x)
<1>0. x.rounds \in Nat /\ x.aside \in Nat /\ All(x) = x.rounds + x.aside
  BY DEF Snapshot, All
<1>1. CASE All(x) = 0
  <2>1. Regraded(x, n) = x
    BY <1>1 DEF Regraded
  <2>2. QED
    BY <1>0, <1>1, <2>1 DEF ReadAgain
<1>2. CASE All(x) # 0
  <2>1. \A r \in x.read : r \in Reading
    BY DEF Snapshot
  <2>2. seen \in SUBSET Reading
    BY <2>1 DEF Reading
  <2>3. k \in Nat /\ k <= n /\ k <= All(x)
    BY <1>0
  <2>4. Regraded(x, n) = [m |-> x.m, rubric |-> current, rounds |-> All(x) - k, aside |-> k,
                          bad |-> x.bad, read |-> seen]
    <3>1. Regraded(x, n) = [x EXCEPT !.rubric = current, !.rounds = All(x) - k, !.aside = k,
                                     !.read = seen]
      BY <1>2 DEF Regraded
    <3> HIDE DEF seen, k
    <3>2. QED
      BY <3>1 DEF Snapshot
  <2>5. ASSUME Comparable(x) PROVE Comparable(Regraded(x, n))
    <3>1. \A r \in x.read : r = [fp |-> bout[x.m].ref, version |-> x.rubric, alone |-> TRUE]
      BY <2>5 DEF Comparable
    <3>2. \A r \in seen : r = [fp |-> bout[x.m].ref, version |-> current, alone |-> TRUE]
      BY <3>1
    <3> HIDE DEF seen, k
    <3>3. QED
      BY <2>4, <2>5, <3>2 DEF Comparable
  <2> HIDE DEF seen, k
  <2>6. /\ Regraded(x, n).m = x.m /\ Regraded(x, n).rounds = All(x) - k
        /\ Regraded(x, n).aside = k
    BY <2>4
  <2>7. All(x) - k \in Nat /\ (All(x) - k) + k = All(x) /\ (All(x) - k) + n >= All(x)
    BY <1>0, <2>3
  <2>8. Regraded(x, n) \in Snapshot
    BY <2>2, <2>3, <2>4, <2>7 DEF Snapshot
  <2>9. All(Regraded(x, n)) = All(x)
    BY <2>6, <2>7 DEF All
  <2>10. Regraded(x, n).aside <= n /\ Regraded(x, n).rounds + n >= All(x)
    BY <2>3, <2>6, <2>7
  <2>11. QED
    BY <2>5, <2>6, <2>8, <2>9, <2>10 DEF ReadAgain
<1>3. QED
  BY <1>1, <1>2

\* The same of a record.
LEMMA RegradedEntry ==
  ASSUME current \in Versions, NEW x \in Entry, NEW n \in Nat
  PROVE  /\ Regraded(x, n) \in Entry /\ ReadAgain(x, Regraded(x, n), n)
         /\ Comparable(x) => Comparable(Regraded(x, n))
<1> DEFINE seen == {[r EXCEPT !.version = current] : r \in x.read}
           k == IF n < All(x) THEN n ELSE All(x)
<1>0. x.rounds \in Nat /\ x.aside \in Nat /\ All(x) = x.rounds + x.aside
  BY DEF Entry, All
<1>1. CASE All(x) = 0
  <2>1. Regraded(x, n) = x
    BY <1>1 DEF Regraded
  <2>2. QED
    BY <1>0, <1>1, <2>1 DEF ReadAgain
<1>2. CASE All(x) # 0
  <2>1. \A r \in x.read : r \in Reading
    BY DEF Entry
  <2>2. seen \in SUBSET Reading
    BY <2>1 DEF Reading
  <2>3. k \in Nat /\ k <= n /\ k <= All(x)
    BY <1>0
  <2>4. Regraded(x, n) = [m |-> x.m, rubric |-> current, rounds |-> All(x) - k, aside |-> k,
                          won |-> x.won, read |-> seen]
    <3>1. Regraded(x, n) = [x EXCEPT !.rubric = current, !.rounds = All(x) - k, !.aside = k,
                                     !.read = seen]
      BY <1>2 DEF Regraded
    <3> HIDE DEF seen, k
    <3>2. QED
      BY <3>1 DEF Entry
  <2>5. ASSUME Comparable(x) PROVE Comparable(Regraded(x, n))
    <3>1. \A r \in x.read : r = [fp |-> bout[x.m].ref, version |-> x.rubric, alone |-> TRUE]
      BY <2>5 DEF Comparable
    <3>2. \A r \in seen : r = [fp |-> bout[x.m].ref, version |-> current, alone |-> TRUE]
      BY <3>1
    <3> HIDE DEF seen, k
    <3>3. QED
      BY <2>4, <2>5, <3>2 DEF Comparable
  <2> HIDE DEF seen, k
  <2>6. /\ Regraded(x, n).m = x.m /\ Regraded(x, n).rounds = All(x) - k
        /\ Regraded(x, n).aside = k
    BY <2>4
  <2>7. All(x) - k \in Nat /\ (All(x) - k) + k = All(x) /\ (All(x) - k) + n >= All(x)
    BY <1>0, <2>3
  <2>8. Regraded(x, n) \in Entry
    BY <2>2, <2>3, <2>4, <2>7 DEF Entry
  <2>9. All(Regraded(x, n)) = All(x)
    BY <2>6, <2>7 DEF All
  <2>10. Regraded(x, n).aside <= n /\ Regraded(x, n).rounds + n >= All(x)
    BY <2>3, <2>6, <2>7
  <2>11. QED
    BY <2>5, <2>6, <2>8, <2>9, <2>10 DEF ReadAgain
<1>3. QED
  BY <1>1, <1>2

\* Column `was` of a row as a re-grade that could not read `lost` writes it: the copies are the
\* same, one by one, and if the session has written the column meanwhile, its matches are torn.
Again(was, now, new, lost, t) ==
  /\ \A x \in was : \E y \in new : ReadAgain(x, y, lost[x.m])
  /\ \A y \in new : \E x \in was : ReadAgain(x, y, lost[x.m])
  /\ \A y, z \in new : y.m = z.m /\ y # z =>
       \E u, v \in was : u.m = y.m /\ v.m = y.m /\ u # v
  /\ was # now => Ids(was \cup now) \subseteq t

\* What RegradeWrites leaves on a row: each of its two columns as it is, or as the re-grade
\* read it, re-graded.
LEMMA RegradeWritesColumns ==
  ASSUME RingInv, RegradeWrites
  PROVE  \E lost \in [DOMAIN bout -> Nat] :
         /\ DOMAIN rows' = DOMAIN rows /\ campaign' = campaign
         /\ rows' \in Seq(Row)
         /\ unread' = [m \in 1..Len(bout) |-> unread[m] + lost[m]] /\ torn \subseteq torn'
         /\ \A i \in DOMAIN rows :
              /\ \/ rows'[i].open = rows[i].open
                 \/ /\ i \in DOMAIN reading
                    /\ Again(reading[i].open, rows[i].open, rows'[i].open, lost, torn')
              /\ \/ rows'[i].matchups = rows[i].matchups
                 \/ /\ i \in DOMAIN reading
                    /\ Again(reading[i].matchups, rows[i].matchups, rows'[i].matchups, lost,
                             torn')
              /\ \A x \in rows'[i].open \cup rows'[i].matchups : Comparable(x)
<1> DEFINE Changes(was, lost) == RegradedAll(was, lost) # was
           Column(was, now, lost) == IF Changes(was, lost) THEN RegradedAll(was, lost) ELSE now
           Over(was, now, lost) ==
             IF Changes(was, lost) /\ was # now THEN Ids(was \cup now) ELSE {}
           row(i, lost) == IF i \notin DOMAIN reading THEN rows[i]
                           ELSE [open |-> Column(reading[i].open, rows[i].open, lost),
                                 matchups |-> Column(reading[i].matchups, rows[i].matchups, lost)]
<1>1. PICK lost \in [DOMAIN bout -> Rounds] :
        /\ rows' = [i \in DOMAIN rows |-> row(i, lost)] /\ campaign' = campaign
        /\ unread' = [m \in 1..Len(bout) |-> unread[m] + lost[m]]
        /\ torn' = torn \cup UNION {Over(reading[i].open, rows[i].open, lost)
                                      \cup Over(reading[i].matchups, rows[i].matchups, lost) :
                                    i \in DOMAIN reading}
  BY Zenon DEF RegradeWrites, Write
<1>2. lost \in [DOMAIN bout -> Nat]
  <2>1. {MaxPairs, MaxSessions} \subseteq Nat
    BY RingAssumption
  <2>2. Rounds \subseteq Nat
    BY <2>1 DEF Rounds
  <2>3. QED
    BY <2>2
<1>3. /\ rows \in Seq(Row) /\ reading \in Seq(Row) /\ current \in Versions
      /\ Len(rows) \in Nat /\ DOMAIN rows = 1..Len(rows)
      /\ \A i \in DOMAIN rows : rows[i] \in Row
      /\ \A i \in DOMAIN reading : reading[i] \in Row
  BY ElementOfSeq, LenProperties DEF RingInv, RingTypes
<1>4. ASSUME NEW i \in DOMAIN reading
      PROVE  /\ \A x \in reading[i].open :
                  /\ Regraded(x, lost[x.m]) \in Snapshot
                  /\ ReadAgain(x, Regraded(x, lost[x.m]), lost[x.m])
                  /\ Regraded(x, lost[x.m]).m = x.m
                  /\ Comparable(Regraded(x, lost[x.m]))
             /\ \A x \in reading[i].matchups :
                  /\ Regraded(x, lost[x.m]) \in Entry
                  /\ ReadAgain(x, Regraded(x, lost[x.m]), lost[x.m])
                  /\ Regraded(x, lost[x.m]).m = x.m
                  /\ Comparable(Regraded(x, lost[x.m]))
  <2>1. reading[i].open \in SUBSET Snapshot /\ reading[i].matchups \in SUBSET Entry
    BY <1>3 DEF Row
  <2>5. \A x \in reading[i].open \cup reading[i].matchups : Comparable(x)
    BY DEF RingInv, CopiesAreComparable
  <2>2. \A x \in reading[i].open \cup reading[i].matchups : x.m \in DOMAIN bout
    BY <2>5 DEF Comparable
  <2>3. \A x \in reading[i].open \cup reading[i].matchups : lost[x.m] \in Nat
    BY <1>2, <2>2
  <2>6. \A x, n : ReadAgain(x, Regraded(x, n), n) => Regraded(x, n).m = x.m
    BY DEF ReadAgain
  <2>4. QED
    BY <1>3, <2>1, <2>3, <2>5, <2>6, RegradedSnapshot, RegradedEntry
<1>5. ASSUME NEW i \in DOMAIN reading, i \in DOMAIN rows
      PROVE  /\ row(i, lost).open = Column(reading[i].open, rows[i].open, lost)
             /\ row(i, lost).matchups = Column(reading[i].matchups, rows[i].matchups, lost)
             /\ Over(reading[i].open, rows[i].open, lost) \subseteq torn'
             /\ Over(reading[i].matchups, rows[i].matchups, lost) \subseteq torn'
  <2>1. row(i, lost) = [open |-> Column(reading[i].open, rows[i].open, lost),
                        matchups |-> Column(reading[i].matchups, rows[i].matchups, lost)]
    BY <1>5
  <2>2. Over(reading[i].open, rows[i].open, lost)
          \cup Over(reading[i].matchups, rows[i].matchups, lost) \subseteq torn'
    BY <1>1
  <2> HIDE DEF row, Over, Column
  <2>3. QED
    BY <2>1, <2>2
<1>6. ASSUME NEW i \in DOMAIN rows
      PROVE  /\ row(i, lost) \in Row
             /\ \/ row(i, lost).open = rows[i].open
                \/ /\ i \in DOMAIN reading
                   /\ Again(reading[i].open, rows[i].open, row(i, lost).open, lost, torn')
             /\ \/ row(i, lost).matchups = rows[i].matchups
                \/ /\ i \in DOMAIN reading
                   /\ Again(reading[i].matchups, rows[i].matchups, row(i, lost).matchups, lost,
                            torn')
             /\ \A x \in row(i, lost).open \cup row(i, lost).matchups : Comparable(x)
  <2>0. \A x \in rows[i].open \cup rows[i].matchups : Comparable(x)
    BY DEF RingInv, CopiesAreComparable
  <2>1. rows[i] \in Row /\ rows[i].open \in SUBSET Snapshot /\ rows[i].matchups \in SUBSET Entry
    BY <1>3 DEF Row
  <2>2. CASE i \notin DOMAIN reading
    BY <2>0, <2>1, <2>2
  <2>3. CASE i \in DOMAIN reading
    <3>1. /\ \/ row(i, lost).open = rows[i].open
             \/ /\ row(i, lost).open = RegradedAll(reading[i].open, lost)
                /\ reading[i].open # rows[i].open =>
                     Ids(reading[i].open \cup rows[i].open) \subseteq torn'
          /\ \/ row(i, lost).matchups = rows[i].matchups
             \/ /\ row(i, lost).matchups = RegradedAll(reading[i].matchups, lost)
                /\ reading[i].matchups # rows[i].matchups =>
                     Ids(reading[i].matchups \cup rows[i].matchups) \subseteq torn'
      <4> HIDE DEF row
      <4>1. QED
        BY <1>5, <2>3
    <3>2. row(i, lost) = [open |-> row(i, lost).open, matchups |-> row(i, lost).matchups]
      BY <2>3
    <3> HIDE DEF row
    <3>3. /\ RegradedAll(reading[i].open, lost) \in SUBSET Snapshot
          /\ RegradedAll(reading[i].matchups, lost) \in SUBSET Entry
      BY <1>4, <2>3 DEF RegradedAll
    <3>4. row(i, lost) \in Row
      <4>1. row(i, lost).open \in SUBSET Snapshot /\ row(i, lost).matchups \in SUBSET Entry
        BY <2>1, <3>1, <3>3
      <4>2. QED
        BY <3>2, <4>1 DEF Row
    <3>5. /\ row(i, lost).open = RegradedAll(reading[i].open, lost) =>
               /\ \A x \in reading[i].open : \E y \in row(i, lost).open :
                    ReadAgain(x, y, lost[x.m])
               /\ \A y \in row(i, lost).open : \E x \in reading[i].open :
                    ReadAgain(x, y, lost[x.m])
               /\ \A y, z \in row(i, lost).open : y.m = z.m /\ y # z =>
                    \E u, v \in reading[i].open : u.m = y.m /\ v.m = y.m /\ u # v
               /\ \A x \in row(i, lost).open : Comparable(x)
      BY <1>4, <2>3 DEF RegradedAll
    <3>6. /\ row(i, lost).matchups = RegradedAll(reading[i].matchups, lost) =>
               /\ \A x \in reading[i].matchups : \E y \in row(i, lost).matchups :
                    ReadAgain(x, y, lost[x.m])
               /\ \A y \in row(i, lost).matchups : \E x \in reading[i].matchups :
                    ReadAgain(x, y, lost[x.m])
               /\ \A y, z \in row(i, lost).matchups : y.m = z.m /\ y # z =>
                    \E u, v \in reading[i].matchups : u.m = y.m /\ v.m = y.m /\ u # v
               /\ \A x \in row(i, lost).matchups : Comparable(x)
      BY <1>4, <2>3 DEF RegradedAll
    <3>7. QED
      BY <2>0, <2>3, <3>1, <3>4, <3>5, <3>6 DEF Again
  <2>4. QED
    BY <2>2, <2>3
<1>7. \A i \in DOMAIN rows : rows'[i] = row(i, lost)
  BY <1>1
<1>8. rows' \in [1..Len(rows) -> Row] /\ DOMAIN rows' = DOMAIN rows
  <2>1. rows' = [i \in DOMAIN rows |-> row(i, lost)]
    BY <1>1
  <2>2. \A i \in DOMAIN rows : row(i, lost) \in Row
    BY <1>6
  <2> HIDE DEF row
  <2>3. QED
    BY <1>3, <2>1, <2>2
<1>9. rows' \in Seq(Row)
  BY <1>3, <1>8, SeqDef
<1>10. torn \subseteq torn'
  BY <1>1
<1>11. /\ campaign' = campaign
       /\ unread' = [m \in 1..Len(bout) |-> unread[m] + lost[m]]
  BY <1>1
<1> HIDE DEF row
<1>12. QED
  BY <1>2, <1>6, <1>7, <1>8, <1>9, <1>10, <1>11

\* What a re-grade writes is comparable under the new stamp.
LEMMA RegradeWritesKeepsRing ==
  ASSUME RingInv, RegradeWrites
  PROVE  RingInv'
<1>1. reading' = <<>> /\ UNCHANGED <<campaign, current, bout, pc, ring>>
  BY Zenon DEF RegradeWrites, Write
<1>2. /\ DOMAIN rows' = DOMAIN rows /\ rows' \in Seq(Row)
      /\ \A i \in DOMAIN rows : \A x \in rows'[i].open \cup rows'[i].matchups : Comparable(x)
  BY RegradeWritesColumns
<1>3. RingTypes'
  BY <1>1, <1>2, EmptySeq DEF RingInv, RingTypes
<1>4. rows # <<>> => rows' # <<>>
  BY <1>2
<1>5. RingFollowsPc'
  BY <1>1, <1>4 DEF RingInv, RingFollowsPc, Memory
<1>6. CopiesAreComparable'
  <2>1. \A x : Comparable(x) => Comparable(x)'
    BY <1>1 DEF Comparable
  <2>3. \A i \in DOMAIN rows : \A x \in rows'[i].open \cup rows'[i].matchups : Comparable(x)'
    BY <1>2, <2>1
  <2>4. \A x \in (campaign \cup Memory \cup ring.matchups)' : Comparable(x)'
    BY <1>1, <2>1 DEF RingInv, CopiesAreComparable, Memory
  <2>5. DOMAIN reading' = {}
    BY <1>1
  <2>6. QED
    BY <1>1, <1>2, <2>3, <2>4, <2>5 DEF RingInv, CopiesAreComparable, LegOf
<1>7. QED
  BY <1>3, <1>5, <1>6 DEF RingInv

\* Every step keeps the invariant: one step of the proof per action.
LEMMA StepKeepsRingInv ==
  ASSUME RingInv, [Next]_vars
  PROVE  RingInv'
<1>1. CASE \E lever \in BOOLEAN : Start(lever)
  BY <1>1, StartKeepsRing
<1>2. CASE Take \/ TakeCampaign
  BY <1>2, TakeKeepsRing, TakeCampaignKeepsRing
<1>3. CASE Sync \/ Dismiss
  BY <1>3, SyncKeepsRing, DismissKeepsRing
<1>4. CASE Notice \/ CloseForReseed \/ Reseed
  BY <1>4, NoticeKeepsRing, CloseForReseedKeepsRing, ReseedKeepsRing
<1>5. CASE ChooseDefender \/ NoDefender \/ SeatCarried \/ SeatFresh \/ Seated
  BY <1>5, ChooseDefenderKeepsRing, NoDefenderKeepsRing, SeatCarriedKeepsRing,
     SeatFreshKeepsRing, SeatedKeepsRing
<1>6. CASE WriteOpen \/ OpeningLeg \/ ChallengerLeg \/ ClosingLeg
  BY <1>6, WriteOpenKeepsRing, OpeningLegKeepsRing, ChallengerLegKeepsRing,
     ClosingLegKeepsRing
<1>7. CASE Adjudicate \/ Judged \/ Yield
  BY <1>7, AdjudicateKeepsRing, JudgedKeepsRing, YieldKeepsRing
<1>8. CASE WindowEnds \/ Close \/ Die
  BY <1>8, WindowEndsKeepsRing, CloseKeepsRing, DieKeepsRing
<1>9. CASE Publish \/ RegradeReads \/ RegradeWrites
  BY <1>9, PublishKeepsRing, RegradeReadsKeepsRing, RegradeWritesKeepsRing
<1>10. CASE UNCHANGED vars
  BY <1>10 DEF vars, RingInv, RingTypes, RingFollowsPc, CopiesAreComparable, Comparable,
               Memory, LegOf
<1>11. QED
  BY <1>1, <1>2, <1>3, <1>4, <1>5, <1>6, <1>7, <1>8, <1>9, <1>10 DEF Next

\* The invariant about the copies holds in every state.
THEOREM SpecKeepsRingInv == Spec => []RingInv
<1>1. Init => RingInv
  BY InitEstablishesRingInv
<1>2. RingInv /\ [Next]_vars => RingInv'
  BY StepKeepsRingInv
<1>3. QED
  BY <1>1, <1>2, PTL DEF Spec

\* Every round in every copy of a match was read against the match's own reference, side
\* by side with it, under the methodology on its stamp, whatever sessions, belts,
\* methodologies, deaths and re-grades came between.
THEOREM EveryRoundIsComparable == Spec => []RoundsAreComparable
<1>1. RingInv => RoundsAreComparable
  <2> SUFFICES ASSUME RingInv, NEW x \in Copies \cup Ledger PROVE Comparable(x)
    BY DEF RoundsAreComparable, Comparable
  <2>1. CASE x \in UNION {rows[i].open : i \in DOMAIN rows}
    <3>1. PICK i \in DOMAIN rows : x \in rows[i].open
      BY <2>1, Zenon
    <3>2. QED
      BY <3>1 DEF RingInv, CopiesAreComparable
  <2>2. CASE x \in UNION {rows[i].matchups : i \in DOMAIN rows}
    <3>1. PICK i \in DOMAIN rows : x \in rows[i].matchups
      BY <2>2, Zenon
    <3>2. QED
      BY <3>1 DEF RingInv, CopiesAreComparable
  <2>3. CASE x \in campaign \cup Memory
    BY <2>3 DEF RingInv, CopiesAreComparable
  <2> DEFINE O == UNION {rows[i].open : i \in DOMAIN rows}
             R == UNION {rows[i].matchups : i \in DOMAIN rows}
  <2>4. Copies = O \cup campaign \cup ring.seated \cup ring.carried \cup ring.doomed /\ Ledger = R
    BY DEF Copies, Ledger
  <2>5. x \in O \/ x \in R => Comparable(x)
    BY <2>1, <2>2
  <2> HIDE DEF O, R
  <2>6. QED
    BY <2>3, <2>4, <2>5 DEF Memory
<1>2. QED
  BY <1>1, SpecKeepsRingInv, PTL

-----------------------------------------------------------------------------
(* That a match is on one shelf, in memory or on the ledger. *)

\* Copies of matches exchanged for others of the same matches.
LEMMA Exchanged ==
  ASSUME NEW M, NEW S \in SUBSET M, NEW N, Apart(M), Apart(N), Ids(N) = Ids(S)
  PROVE  /\ Apart((M \ S) \cup N) /\ Ids((M \ S) \cup N) = Ids(M)
         /\ \A x \in N : \A y \in M \ S : x.m # y.m /\ x # y
<1>1. \A x \in N : \E s \in S : s.m = x.m
  BY DEF Ids
<1>2. \A x \in N : \A y \in M \ S : x.m # y.m
  BY <1>1 DEF Apart
<1>3. Apart((M \ S) \cup N)
  BY <1>2 DEF Apart
<1>4. Ids((M \ S) \cup N) = Ids(M)
  BY DEF Ids
<1>5. QED
  BY <1>2, <1>3, <1>4

\* A step that leaves the disk alone and the same matches in memory.
LEMMA QuietStepKeepsOnce ==
  ASSUME EachMatchOnce, UNCHANGED <<rows, campaign, reading, torn>>,
         pc \notin {"out", "start"}, pc' \notin {"out", "start"},
         ring'.lever = ring.lever, ring'.writing = ring.writing,
         ring'.matchups = ring.matchups, Ids(Memory)' = Ids(Memory), MemoryApart'
  PROVE  EachMatchOnce'
<1> USE DEF EachMatchOnce
<1>0. \A i : Shelf(i)' = Shelf(i)
  BY DEF Shelf
<1>1. Shelves' = Shelves /\ Own' = Own /\ Last' = Last
  BY DEF Shelves, Own, Last
<1>2. ShelvesApart'
  BY <1>0, <1>1 DEF ShelvesApart
<1>3. \A i \in Shelves : \A x \in Shelf(i) : x.m \in Ids(Memory) /\ x.m \notin torn => i = Own
  BY DEF OnOwnShelf, Ids
<1>4. OnOwnShelf'
  <2>1. \A i \in Shelves' : \A x \in Shelf(i)', y \in Memory' :
          x.m = y.m /\ x.m \notin torn' => i = Own'
    BY <1>0, <1>1, <1>3 DEF Ids
  <2>2. Ids(Shelf(Own))' = Ids(Shelf(Own))
    BY <1>0, <1>1 DEF Ids
  <2>3. Ids(Memory \cup ring.matchups)' = Ids(Memory \cup ring.matchups)
    BY DEF Ids
  <2>4. QED
    BY <2>1, <2>2, <2>3 DEF OnOwnShelf
<1>5. OverOnTheLedger'
  BY <1>0, <1>1 DEF OverOnTheLedger, RecordedOnce
<1>6. RowInStep'
  BY <1>1 DEF RowInStep, Ids
<1>7. QED
  BY <1>2, <1>4, <1>5, <1>6

\* A session that fails takes its memory with it; a match between the two transactions of its
\* close is torn.
LEMMA FailKeepsOnce ==
  ASSUME OnceInv, Fail
  PROVE  EachMatchOnce'
<1> USE DEF OnceInv, EachMatchOnce
<1>0. \A i : Shelf(i)' = Shelf(i)
  BY DEF Shelf, Fail
<1>1. /\ Shelves' = Shelves /\ Last' = Last /\ pc' = "out" /\ Memory' = {}
      /\ ring'.matchups = {} /\ UNCHANGED <<rows, reading>>
  BY NothingIsASession DEF Shelves, Last, Goto, Memory, Fail
<1>2. /\ torn \subseteq torn'
      /\ ring.writing => Ids(ring.matchups) \cap Ids(Shelf(Own)) \subseteq torn'
  BY DEF Fail
<1>3. ShelvesApart'
  BY <1>0, <1>1, <1>2 DEF ShelvesApart
<1>4. MemoryApart'
  BY <1>1, NothingIsASession DEF MemoryApart, Apart, Goto, Fail
<1>5. OnOwnShelf'
  BY <1>1 DEF OnOwnShelf
<1>6. OverOnTheLedger'
  <2>1. RecordedOnce'
    BY <1>1, <1>2 DEF OverOnTheLedger, RecordedOnce
  <2>2. ASSUME NEW i \in DOMAIN rows, NEW r \in rows[i].matchups, r.m \notin torn',
               NEW j \in Shelves, NEW x \in Shelf(j), x.m = r.m
        PROVE  FALSE
    <3>1. r.m \notin torn /\ ring.writing /\ j = Own /\ r.m \notin Ids(Memory)
      BY <1>2, <2>2 DEF OverOnTheLedger
    <3>2. r.m \in Ids(Shelf(Own))
      BY <2>2, <3>1 DEF Ids
    <3>3. pc \notin {"out", "start"}
      BY <3>1, NothingIsASession DEF RingInv, RingFollowsPc
    <3>4. r.m \in Ids(Memory \cup ring.matchups)
      BY <3>1, <3>2, <3>3 DEF OnOwnShelf
    <3>5. r.m \in Ids(ring.matchups)
      BY <3>1, <3>4 DEF Ids
    <3>6. QED
      BY <1>2, <2>2, <3>1, <3>2, <3>5
  <2>3. Ids(Memory)' = {}
    BY <1>1 DEF Ids
  <2>4. QED
    BY <1>0, <1>1, <2>1, <2>2, <2>3 DEF OverOnTheLedger
<1>7. RowInStep'
  BY <1>1 DEF RowInStep
<1>8. QED
  BY <1>3, <1>4, <1>5, <1>6, <1>7

\* A step in the ring that moves no match.
LEMMA NoMatchMoves ==
  ASSUME EachMatchOnce, NoWrite, UNCHANGED reading,
         pc \notin {"out", "start"}, pc' \notin {"out", "start"},
         ring'.seated = ring.seated, ring'.carried = ring.carried,
         ring'.doomed = ring.doomed, ring'.matchups = ring.matchups,
         ring'.lever = ring.lever, ring'.writing = ring.writing
  PROVE  EachMatchOnce'
<1>1. Memory' = Memory
  BY DEF Memory
<1>2. Ids(Memory)' = Ids(Memory)
  BY <1>1 DEF Ids
<1>3. MemoryApart'
  BY <1>1 DEF EachMatchOnce, MemoryApart, NoWrite, struck
<1>4. QED
  BY <1>2, <1>3, QuietStepKeepsOnce DEF NoWrite, struck

\* The look at the published methodology moves no match.
LEMMA NoticeKeepsOnce ==
  ASSUME OnceInv, Notice
  PROVE  EachMatchOnce'
BY NoMatchMoves DEF OnceInv, Notice, NoCommit, Goto

\* Nor does the end of the seating.
LEMMA SeatedKeepsOnce ==
  ASSUME OnceInv, Seated
  PROVE  EachMatchOnce'
BY NoMatchMoves DEF OnceInv, Seated, NoCommit, Goto

\* Nor does the end of the window.
LEMMA WindowEndsKeepsOnce ==
  ASSUME OnceInv, WindowEnds
  PROVE  EachMatchOnce'
<1>1. ring' = [ring EXCEPT !.over = TRUE] /\ pc' = pc /\ ring \in Session
  BY DEF WindowEnds, Goto, OnceInv, RingInv, RingTypes
<1>2. /\ ring'.seated = ring.seated /\ ring'.carried = ring.carried
      /\ ring'.doomed = ring.doomed /\ ring'.matchups = ring.matchups
      /\ ring'.writing = ring.writing /\ ring'.lever = ring.lever
  BY <1>1 DEF Session
<1>3. QED
  BY <1>1, <1>2, NoMatchMoves DEF OnceInv, WindowEnds, NoCommit

\* Nor does a seam.
LEMMA YieldKeepsOnce ==
  ASSUME OnceInv, Yield
  PROVE  EachMatchOnce'
<1>1. /\ ring' = ring \/ ring' = [ring EXCEPT !.lead = NoLeg]
      /\ pc = "seam" /\ pc' = "cycle" /\ ring \in Session
  BY DEF Yield, Goto, OnceInv, RingInv, RingTypes
<1>2. /\ ring'.seated = ring.seated /\ ring'.carried = ring.carried
      /\ ring'.doomed = ring.doomed /\ ring'.matchups = ring.matchups
      /\ ring'.writing = ring.writing /\ ring'.lever = ring.lever
  BY <1>1 DEF Session
<1>3. QED
  BY <1>1, <1>2, NoMatchMoves DEF OnceInv, Yield, NoCommit

\* Nor does an opening leg.
LEMMA OpeningLegKeepsOnce ==
  ASSUME OnceInv, OpeningLeg
  PROVE  EachMatchOnce'
<1>1. /\ ring' = ring \/ \E l : ring' = [ring EXCEPT !.lead = l]
      /\ pc = "lead" /\ pc' \in {"slots", "ending", "cycle"} /\ ring \in Session
  BY DEF OpeningLeg, Goto, OnceInv, RingInv, RingTypes
<1>2. /\ ring'.seated = ring.seated /\ ring'.carried = ring.carried
      /\ ring'.doomed = ring.doomed /\ ring'.matchups = ring.matchups
      /\ ring'.writing = ring.writing /\ ring'.lever = ring.lever
  BY <1>1 DEF Session
<1>3. QED
  BY <1>1, <1>2, NoMatchMoves DEF OnceInv, OpeningLeg

\* Nor does a challenger's leg.
LEMMA ChallengerLegKeepsOnce ==
  ASSUME OnceInv, ChallengerLeg
  PROVE  EachMatchOnce'
<1>1. PICK s, l : ring' = [ring EXCEPT !.pending = @ \cup {[s |-> s, leg |-> l]}]
  BY DEF ChallengerLeg, Goto
<1>2. pc = "slots" /\ pc' = "slots" /\ ring \in Session
  BY DEF ChallengerLeg, Goto, OnceInv, RingInv, RingTypes
<1>3. /\ ring'.seated = ring.seated /\ ring'.carried = ring.carried
      /\ ring'.doomed = ring.doomed /\ ring'.matchups = ring.matchups
      /\ ring'.writing = ring.writing /\ ring'.lever = ring.lever
  BY <1>1, <1>2 DEF Session
<1>4. QED
  BY <1>2, <1>3, NoMatchMoves DEF OnceInv, ChallengerLeg

\* Without a defender what was in memory is gone, or stays as it is.
LEMMA NoDefenderKeepsOnce ==
  ASSUME OnceInv, NoDefender
  PROVE  EachMatchOnce'
<1>1. CASE Fail
  BY <1>1, FailKeepsOnce
<1>2. CASE pc = "match" /\ Goto("ending", ring) /\ NoCommit /\ UNCHANGED <<current, bout, reading>>
  BY <1>2, NoMatchMoves DEF Goto, NoCommit, OnceInv
<1>3. QED
  BY <1>1, <1>2 DEF NoDefender

\* A session that dies takes its memory with it.
LEMMA DieKeepsOnce ==
  ASSUME OnceInv, Die
  PROVE  EachMatchOnce'
BY FailKeepsOnce DEF Die

\* Of the defender's carried matches, those that cannot resume are out.
LEMMA DefendKeepsOnce ==
  ASSUME OnceInv, NoWrite, UNCHANGED reading, pc = "match", NEW d, NEW resume, Defend(d, resume)
  PROVE  EachMatchOnce'
<1>1. PICK out \in SUBSET ring.carried, again \in SUBSET Rematches(d) :
        Goto("seat",
             [ring EXCEPT !.ref = d, !.draining = FALSE, !.resuming = resume,
                          !.lead = IF ring.ref = d THEN @ ELSE NoLeg,
                          !.carried = @ \ out, !.doomed = @ \cup {Rebuilt(s) : s \in out},
                          !.fought = @ \ again, !.rematched = @ \cup again])
  BY Zenon DEF Defend
<1>2. ring \in Session /\ ring.doomed = {}
  BY DEF OnceInv, RingInv, RingTypes, RingFollowsPc
<1> DEFINE gone == {Rebuilt(s) : s \in out}
<1>3. /\ pc' = "seat" /\ ring'.seated = ring.seated /\ ring'.carried = ring.carried \ out
      /\ ring'.doomed = gone /\ ring'.matchups = ring.matchups
      /\ ring'.writing = ring.writing /\ ring'.lever = ring.lever
  BY <1>1, <1>2 DEF Session, Goto
<1>4. /\ Apart(Memory) /\ out \in SUBSET Memory /\ ring.seated \cap ring.carried = {}
      /\ out \in SUBSET Snapshot
  BY <1>2 DEF OnceInv, EachMatchOnce, MemoryApart, Memory, Session
<1>5. \A s \in out : Rebuilt(s).m = s.m
  BY <1>4, RebuiltSnapshot
<1>6. Apart(gone)
  BY <1>4, <1>5 DEF Apart
<1>7. Ids(gone) = Ids(out)
  BY <1>5 DEF Ids
<1> HIDE DEF gone
<1>8. Memory' = (Memory \ out) \cup gone
  BY <1>2, <1>3, <1>4 DEF Memory
<1>9. /\ Apart(Memory') /\ Ids(Memory') = Ids(Memory)
      /\ \A x \in gone : \A y \in Memory \ out : x # y
  BY <1>4, <1>6, <1>7, <1>8, Exchanged
<1>10. MemoryApart'
  <2>1. gone \cap (ring.seated \cup (ring.carried \ out)) = {}
    BY <1>4, <1>9 DEF Memory
  <2>2. QED
    BY <1>3, <1>4, <1>9, <2>1 DEF OnceInv, EachMatchOnce, MemoryApart, NoWrite, struck
<1>11. Ids(Memory)' = Ids(Memory)
  BY <1>9 DEF Ids
<1>12. QED
  BY <1>3, <1>10, <1>11, QuietStepKeepsOnce DEF OnceInv, NoWrite, struck

\* A new defender may have to wait; otherwise some carried matches are out.
LEMMA ChooseDefenderKeepsOnce ==
  ASSUME OnceInv, ChooseDefender
  PROVE  EachMatchOnce'
<1>1. PICK resume \in BOOLEAN : \E d \in Defenders(resume) :
        IF ring.seated # {} /\ d # ring.ref
        THEN Goto("stale", [ring EXCEPT !.draining = TRUE])
        ELSE Defend(d, resume)
  BY DEF ChooseDefender
<1>2. CASE Goto("stale", [ring EXCEPT !.draining = TRUE])
  <2>1. ring' = [ring EXCEPT !.draining = TRUE] /\ pc' = "stale" /\ ring \in Session
    BY <1>2 DEF Goto, OnceInv, RingInv, RingTypes
  <2>2. /\ ring'.seated = ring.seated /\ ring'.carried = ring.carried
        /\ ring'.doomed = ring.doomed /\ ring'.matchups = ring.matchups
        /\ ring'.writing = ring.writing /\ ring'.lever = ring.lever
    BY <2>1 DEF Session
  <2>3. QED
    BY <2>1, <2>2, NoMatchMoves DEF OnceInv, ChooseDefender, NoCommit
<1>3. CASE \E d : Defend(d, resume)
  BY <1>3, DefendKeepsOnce DEF ChooseDefender, NoCommit
<1>4. QED
  BY <1>1, <1>2, <1>3

\* A match that takes a seat is carried no more.
LEMMA SeatCarriedKeepsOnce ==
  ASSUME OnceInv, SeatCarried
  PROVE  EachMatchOnce'
<1>1. PICK s \in ring.carried :
        Goto(pc, [ring EXCEPT !.carried = @ \ {s}, !.seated = @ \cup {Rebuilt(s)},
                              !.fought = @ \cup {Pair(s.m)}])
  BY DEF SeatCarried
<1>2. ring \in Session /\ pc = "seat" /\ s \in Snapshot
  BY DEF OnceInv, RingInv, RingTypes, SeatCarried, Session
<1>3. PICK new : new = Rebuilt(s)
  OBVIOUS
<1>4. new.m = s.m
  BY <1>2, <1>3, RebuiltSnapshot
<1>5. /\ pc' = "seat" /\ ring'.seated = ring.seated \cup {new}
      /\ ring'.carried = ring.carried \ {s}
      /\ ring'.doomed = ring.doomed /\ ring'.matchups = ring.matchups
      /\ ring'.writing = ring.writing /\ ring'.lever = ring.lever
  BY <1>1, <1>2, <1>3 DEF Session, Goto
<1>6. /\ Apart(Memory) /\ {s} \in SUBSET Memory /\ ring.seated \cap ring.carried = {}
      /\ ring.doomed \cap (ring.seated \cup ring.carried) = {}
  BY DEF OnceInv, EachMatchOnce, MemoryApart, Memory
<1>7. Apart({new}) /\ Ids({new}) = Ids({s})
  BY <1>4 DEF Apart, Ids
<1>8. Memory' = (Memory \ {s}) \cup {new}
  BY <1>5, <1>6 DEF Memory
<1>9. /\ Apart(Memory') /\ Ids(Memory') = Ids(Memory)
      /\ \A y \in Memory \ {s} : new # y
  BY <1>6, <1>7, <1>8, Exchanged
<1>10. MemoryApart'
  <2>1. new \notin ring.carried \ {s} /\ new \notin ring.doomed
    BY <1>6, <1>9 DEF Memory
  <2>2. QED
    BY <1>5, <1>6, <1>9, <2>1
       DEF OnceInv, EachMatchOnce, MemoryApart, SeatCarried, NoCommit, NoWrite, struck
<1>11. Ids(Memory)' = Ids(Memory)
  BY <1>9 DEF Ids
<1>12. QED
  BY <1>2, <1>5, <1>10, <1>11, QuietStepKeepsOnce
     DEF OnceInv, SeatCarried, NoCommit, NoWrite, struck

\* Legs change the snapshots of the matches they measured, and no match moves.
LEMMA ClosingLegKeepsOnce ==
  ASSUME OnceInv, ClosingLeg
  PROVE  EachMatchOnce'
<1> USE DEF OnceInv
<1>1. /\ ring \in Session /\ pc = "slots" /\ ring.ref \in Profiles
      /\ ring.lead \in {NoLeg, Unusable, LegOf(ring.ref)} /\ ring.doomed = {}
  BY DEF ClosingLeg, RingInv, RingTypes, RingFollowsPc, CopiesAreComparable
<1>2. PICK trail \in IF ring.pending = {} \/ ring.over THEN {NoLeg} ELSE Legs(ring.ref) :
        LET after == {After(p, {ring.lead, trail}) : p \in ring.pending}
            aborted == {s \in after : s.bad >= MaxBad}
        IN  Goto("judge", [ring EXCEPT
              !.seated = ((@ \ Measured) \cup after) \ aborted,
              !.doomed = @ \cup aborted, !.pending = {}, !.lead = trail])
  BY DEF ClosingLeg
<1>3. trail \in {NoLeg, Unusable, LegOf(ring.ref)}
  BY <1>1, LegsAreRead
<1> DEFINE flanks == {ring.lead, trail}
           after == {After(p, flanks) : p \in ring.pending}
           aborted == {s \in after : s.bad >= MaxBad}
<1>4. /\ pc' = "judge" /\ ring'.seated = ((ring.seated \ Measured) \cup after) \ aborted
      /\ ring'.carried = ring.carried /\ ring'.doomed = aborted
      /\ ring'.matchups = ring.matchups
      /\ ring'.writing = ring.writing /\ ring'.lever = ring.lever
  BY <1>1, <1>2 DEF Session, Goto
<1>5. \A p \in ring.pending : After(p, flanks).m = p.s.m
  BY <1>1, <1>3, AfterALeg
<1>6. Measured = {p.s : p \in ring.pending} /\ Measured \subseteq ring.seated
  BY DEF Measured, RingInv, RingFollowsPc
<1>7. Apart(after)
  <2> SUFFICES ASSUME NEW p \in ring.pending, NEW q \in ring.pending,
                      After(p, flanks).m = After(q, flanks).m
               PROVE  p = q
    BY DEF Apart
  <2>1. p.s \in Memory /\ q.s \in Memory /\ p.s.m = q.s.m
    BY <1>5, <1>6 DEF Memory
  <2>2. QED
    BY <2>1 DEF RingInv, RingFollowsPc, EachMatchOnce, MemoryApart, Apart
<1>8. Ids(after) = Ids(Measured)
  <2>1. \A x \in after : \E y \in Measured : x.m = y.m
    BY <1>5, <1>6
  <2>2. \A y \in Measured : \E x \in after : x.m = y.m
    <3> SUFFICES ASSUME NEW p \in ring.pending PROVE \E x \in after : x.m = p.s.m
      BY <1>6
    <3>1. After(p, flanks) \in after
      OBVIOUS
    <3>2. QED
      BY <1>5, <3>1
  <2> HIDE DEF after
  <2>3. QED
    BY <2>1, <2>2 DEF Ids
<1>9. aborted \subseteq after
  OBVIOUS
<1> HIDE DEF after, aborted, flanks
<1>10. /\ ring.seated \cap ring.carried = {} /\ Apart(Memory) /\ Measured \in SUBSET Memory
  BY <1>6 DEF EachMatchOnce, MemoryApart, Memory
<1>11. Memory' = (Memory \ Measured) \cup after
  BY <1>1, <1>4, <1>6, <1>9, <1>10 DEF Memory
<1>12. /\ Apart(Memory') /\ Ids(Memory') = Ids(Memory)
       /\ \A x \in after : \A y \in Memory \ Measured : x # y
  BY <1>7, <1>8, <1>10, <1>11, Exchanged
<1>13. Ids(Memory)' = Ids(Memory)
  BY <1>12 DEF Ids
<1>14. MemoryApart'
  <2>1. after \cap ring.carried = {}
    BY <1>6, <1>10, <1>12 DEF Memory
  <2>2. QED
    BY <1>4, <1>9, <1>10, <1>12, <2>1
       DEF EachMatchOnce, MemoryApart, ClosingLeg, NoWrite, struck
<1>15. QED
  BY <1>1, <1>4, <1>13, <1>14, QuietStepKeepsOnce DEF ClosingLeg, NoWrite, struck

\* A fresh match is in no other copy: its id is new.
LEMMA SeatFreshKeepsOnce ==
  ASSUME OnceInv, SeatFresh
  PROVE  EachMatchOnce'
<1> USE DEF OnceInv
<1>1. PICK c \in Profiles \ {ring.ref} : Seat(c)
  BY DEF SeatFresh
<1>2. /\ ring \in Session /\ pc = "seat" /\ ring.rubric \in Versions
      /\ bout \in Seq([ref : Profiles, cha : Profiles])
  BY DEF RingInv, RingTypes, SeatFresh, Session
<1> DEFINE n == Len(bout) + 1
<1>3. Len(bout) \in Nat /\ DOMAIN bout = 1..Len(bout) /\ n \notin DOMAIN bout
  BY <1>2, LenProperties
<1>4. PICK new : new = [m |-> Len(bout'), rubric |-> ring.rubric, rounds |-> 0, aside |-> 0,
                        bad |-> 0, read |-> {}]
  OBVIOUS
<1>5. Len(bout') = n
  BY <1>1, <1>2 DEF Seat
<1>6. /\ pc' = "seat" /\ ring'.seated = ring.seated \cup {new} /\ ring'.carried = ring.carried
      /\ ring'.doomed = ring.doomed /\ ring'.matchups = ring.matchups
      /\ ring'.writing = ring.writing /\ ring'.lever = ring.lever
  <2>1. ring' = [ring EXCEPT !.fought = @ \cup {{ring.ref, c}}, !.seated = @ \cup {new}]
        /\ pc' = pc
    BY <1>1, <1>4 DEF Seat, Goto
  <2>2. QED
    BY <1>2, <2>1 DEF Session
<1>7. new.m = n
  BY <1>4, <1>5
<1> HIDE DEF n
<1>8. /\ \A x \in Memory \cup ring.matchups \cup campaign : x.m # n
      /\ \A i \in DOMAIN rows : \A x \in rows[i].open \cup rows[i].matchups : x.m # n
  BY <1>3 DEF RingInv, CopiesAreComparable, Comparable
<1>9. /\ \A i : Shelf(i)' = Shelf(i)
      /\ Shelves' = Shelves /\ Own' = Own /\ Last' = Last /\ rows' = rows
      /\ pc' \notin {"out", "start"} /\ UNCHANGED <<reading, torn>>
  BY <1>2, <1>6 DEF SeatFresh, Shelf, Shelves, Own, Last
<1>10. Memory' = Memory \cup {new}
  BY <1>6 DEF Memory
<1>11. \A i \in Shelves : \A x \in Shelf(i) : x.m # n
  BY <1>8 DEF Shelves, Shelf, Last, RingInv, RingTypes
<1>12. ShelvesApart'
  BY <1>9 DEF EachMatchOnce, ShelvesApart
<1>13. MemoryApart'
  <2>1. new \notin Memory
    BY <1>7, <1>8
  <2>2. QED
    BY <1>6, <1>7, <1>8, <1>9, <1>10, <2>1 DEF EachMatchOnce, MemoryApart, Memory, Apart
<1>14. OnOwnShelf'
  <2>1. \A i \in Shelves' : \A x \in Shelf(i)', y \in Memory' :
          x.m = y.m /\ x.m \notin torn' => i = Own'
    BY <1>7, <1>9, <1>10, <1>11 DEF EachMatchOnce, OnOwnShelf
  <2>2. Ids(Shelf(Own))' = Ids(Shelf(Own))
    BY <1>9 DEF Ids
  <2>3. Ids(Memory \cup ring.matchups) \subseteq Ids(Memory \cup ring.matchups)'
    BY <1>6, <1>10 DEF Ids
  <2>4. QED
    BY <1>2, <1>9, <2>1, <2>2, <2>3 DEF EachMatchOnce, OnOwnShelf
<1>15. OverOnTheLedger'
  BY <1>6, <1>7, <1>8, <1>9, <1>10 DEF EachMatchOnce, OverOnTheLedger, RecordedOnce, Ids
<1>16. RowInStep'
  BY <1>2, <1>6, <1>9 DEF EachMatchOnce, RowInStep, Ids
<1>17. QED
  BY <1>12, <1>13, <1>14, <1>15, <1>16 DEF EachMatchOnce

\* The row of a new session is an empty shelf.
LEMMA StartKeepsOnce ==
  ASSUME OnceInv, NEW lever \in BOOLEAN, Start(lever)
  PROVE  EachMatchOnce'
<1> USE DEF OnceInv
<1> DEFINE fresh == [open |-> {}, matchups |-> {}]
<1>1. fresh \in Row
  BY DEF Row
<1>2. /\ rows' = Append(rows, fresh) /\ campaign' = campaign /\ rows \in Seq(Row)
      /\ ring' = [Nothing EXCEPT !.lever = lever, !.rubric = current]
      /\ pc = "out" /\ pc' = "start" /\ ring = Nothing /\ UNCHANGED <<reading, torn>>
  BY DEF RingInv, RingTypes, RingFollowsPc, Start, Goto, Commit, Write, struck
<1>3. /\ DOMAIN rows = 1..Last /\ DOMAIN rows' = 1..Last' /\ Last' = Last + 1 /\ Last \in Nat
      /\ rows'[Last'] = fresh /\ \A i \in DOMAIN rows : rows'[i] = rows[i]
  <2>1. /\ rows' \in Seq(Row) /\ Len(rows') = Len(rows) + 1
        /\ \A i \in 1..Len(rows) : rows'[i] = rows[i]
        /\ rows'[Len(rows) + 1] = fresh
    BY <1>1, <1>2, AppendProperties
  <2>2. Len(rows) \in Nat /\ DOMAIN rows = 1..Len(rows) /\ DOMAIN rows' = 1..Len(rows')
    BY <1>2, <2>1, LenProperties
  <2>3. QED
    BY <2>1, <2>2 DEF Last
<1>4. /\ ring'.seated = {} /\ ring'.carried = {} /\ ring'.doomed = {}
      /\ ring'.matchups = {} /\ ~ring'.writing /\ ring'.lever = lever
  <2> DEFINE r == [Nothing EXCEPT !.lever = lever]
  <2>1. /\ r \in Session /\ r.lever = lever
        /\ r.seated = {} /\ r.carried = {} /\ r.doomed = {} /\ r.matchups = {} /\ ~r.writing
    BY NothingIsASession DEF Session
  <2>2. ring' = [r EXCEPT !.rubric = current]
    BY <1>2
  <2> HIDE DEF r
  <2>3. QED
    BY <2>1, <2>2 DEF Session
<1>5. Memory' = {}
  BY <1>4 DEF Memory
<1>6. fresh.open = {} /\ fresh.matchups = {}
  OBVIOUS
<1> HIDE DEF fresh
<1>n. PICK n : n = Last'
  OBVIOUS
<1>7. /\ Shelves' = Shelves \cup {n} /\ Shelf(n)' = {} /\ n \notin Shelves
      /\ \A i \in Shelves : Shelf(i)' = Shelf(i)
  <2>1. Shelves' = Shelves \cup {n} /\ n \notin Shelves /\ n # 0
    BY <1>3, <1>n DEF Shelves
  <2>2. Shelf(n)' = {}
    BY <1>3, <1>6, <1>n, <2>1 DEF Shelf
  <2>3. \A i \in Shelves : Shelf(i)' = Shelf(i)
    BY <1>2, <1>3 DEF Shelf, Shelves
  <2>4. QED
    BY <2>1, <2>2, <2>3
<1>8. ShelvesApart'
  BY <1>2, <1>7 DEF EachMatchOnce, ShelvesApart, Apart
<1>9. MemoryApart'
  BY <1>4, <1>5 DEF MemoryApart, Apart
<1>10. OnOwnShelf'
  BY <1>2, <1>5 DEF OnOwnShelf
<1>11. ~ring.writing
  BY <1>2, NothingIsASession
<1>12. OverOnTheLedger'
  <2>1. \A i \in DOMAIN rows' : \A r \in rows'[i].matchups :
          i \in DOMAIN rows /\ r \in rows[i].matchups
    BY <1>3, <1>6
  <2>2. \A j \in Shelves' : \A x \in Shelf(j)' : j \in Shelves /\ x \in Shelf(j)
    BY <1>7
  <2>3. QED
    BY <1>2, <1>3, <1>5, <1>11, <2>1, <2>2
       DEF EachMatchOnce, OverOnTheLedger, RecordedOnce, Ids
<1>13. RowInStep'
  <2>1. Last' \notin DOMAIN reading
    BY <1>3 DEF RingInv, CopiesAreComparable
  <2>2. QED
    BY <1>2, <1>3, <1>4, <1>6, <2>1 DEF RowInStep, Ids
<1>14. QED
  BY <1>8, <1>9, <1>10, <1>12, <1>13 DEF EachMatchOnce

\* What a write of the open matches changes on the shelves: the session's own has what is
\* seated or carried, the others are as they were.
LEMMA OwnShelfPersisted ==
  ASSUME RingInv, pc # "out", NEW r \in Session, PersistOpen(r),
         r.seated = ring.seated, r.carried = ring.carried, r.lever = ring.lever,
         NEW o, o = Own
  PROVE  /\ o \in Shelves /\ Shelves' = Shelves /\ Last' = Last
         /\ DOMAIN rows' = DOMAIN rows /\ Last \in DOMAIN rows
         /\ Shelf(o)' = ring.seated \cup ring.carried
         /\ \A i \in Shelves : i # o => Shelf(i)' = Shelf(i)
         /\ \A i \in DOMAIN rows : rows'[i].matchups = rows[i].matchups
<1>1. RingTypes /\ rows # <<>> /\ ring.lever \in BOOLEAN
  BY DEF RingInv, RingFollowsPc, RingTypes, Session
<1>2. Last \in Nat /\ DOMAIN rows = 1..Last
  BY LenProperties DEF RingInv, RingTypes, Last
<1>3. /\ DOMAIN rows' = DOMAIN rows /\ Last' = Last /\ Last \in DOMAIN rows
      /\ \A i \in DOMAIN rows : rows'[i].matchups = rows[i].matchups
      /\ \A i \in DOMAIN rows \ {Last} : rows'[i].open = rows[i].open
      /\ ring.lever => rows'[Last].open = rows[Last].open
      /\ ring.lever => campaign' = ring.seated \cup ring.carried
      /\ ~ring.lever => campaign' = campaign
      /\ ~ring.lever => rows'[Last].open = ring.seated \cup ring.carried
  BY <1>1, OpenPersisted
<1>4. o = IF ring.lever THEN 0 ELSE Last
  BY DEF Own
<1>5. Shelves = 0..Last /\ Shelves' = Shelves /\ Last # 0
  BY <1>2, <1>3 DEF Shelves
<1>6. Shelf(o)' = ring.seated \cup ring.carried
  BY <1>1, <1>3, <1>4, <1>5 DEF Shelf
<1>7. \A i \in Shelves : i # o => Shelf(i)' = Shelf(i)
  BY <1>1, <1>2, <1>3, <1>4, <1>5 DEF Shelf
<1>8. QED
  BY <1>2, <1>3, <1>4, <1>5, <1>6, <1>7

\* A write of the open matches by a session that goes on, or that ends with it.
LEMMA PersistStepKeepsOnce ==
  ASSUME OnceInv, pc \notin {"out", "start"}, NEW r \in Session, PersistOpen(r),
         UNCHANGED reading,
         r.seated = ring.seated, r.carried = ring.carried, r.lever = ring.lever,
         \/ Goto("out", Nothing)
         \/ /\ pc' \notin {"out", "start"}
            /\ ring'.seated = ring.seated /\ ring'.carried = ring.carried
            /\ ring'.doomed = ring.doomed /\ ring'.matchups = ring.matchups
            /\ ring'.lever = ring.lever
  PROVE  EachMatchOnce'
<1> USE DEF OnceInv, EachMatchOnce
<1>0. PICK o : o = Own
  OBVIOUS
<1> DEFINE S == ring.seated \cup ring.carried
<1>1. /\ o \in Shelves /\ Shelves' = Shelves /\ Last' = Last
      /\ DOMAIN rows' = DOMAIN rows /\ Last \in DOMAIN rows
      /\ Shelf(o)' = S
      /\ \A i \in Shelves : i # o => Shelf(i)' = Shelf(i)
      /\ \A i \in DOMAIN rows : rows'[i].matchups = rows[i].matchups
  BY <1>0, OwnShelfPersisted
<1>2. S \subseteq Memory
  BY DEF Memory
<1> HIDE DEF S
<1>3. \A i \in Shelves : i # o => \A x \in Shelf(i), y \in Memory : x.m = y.m => x.m \in torn
  BY <1>0 DEF OnOwnShelf
<1>t. torn' = torn
  BY DEF PersistOpen, Commit, struck
<1>4. /\ Memory' \subseteq Memory
      /\ pc' # "out" => /\ Memory' = Memory /\ ring'.matchups = ring.matchups
                        /\ pc' # "start" /\ Own' = o
      /\ pc' = "out" => Memory' = {}
      /\ ring'.matchups \subseteq ring.matchups
  BY <1>0, <1>1, NothingIsASession DEF Memory, Goto, Own
<1>5. ShelvesApart'
  <2>1. \A i \in Shelves : Apart(Shelf(i)')
    <3>1. Apart(S)
      BY <1>2 DEF MemoryApart, Apart
    <3>2. QED
      BY <1>1, <3>1 DEF ShelvesApart
  <2>2. ASSUME NEW i \in Shelves, NEW j \in Shelves, NEW x \in Shelf(i)', NEW y \in Shelf(j)',
               x.m = y.m, x.m \notin torn
        PROVE  i = j
    <3>1. CASE i = o /\ j # o
      BY <1>1, <1>2, <1>3, <2>2, <3>1
    <3>2. CASE i # o /\ j = o
      BY <1>1, <1>2, <1>3, <2>2, <3>2
    <3>3. CASE i # o /\ j # o
      BY <1>1, <2>2, <3>3 DEF ShelvesApart
    <3>4. QED
      BY <3>1, <3>2, <3>3
  <2>3. \A i \in DOMAIN reading' : Apart(reading[i].open)'
    BY DEF ShelvesApart
  <2>4. QED
    BY <1>1, <1>t, <2>1, <2>2, <2>3 DEF ShelvesApart
<1>6. MemoryApart'
  BY <1>4, <1>t, NothingIsASession DEF MemoryApart, Apart, Goto
<1>7. OnOwnShelf'
  <2>1. ASSUME NEW i \in Shelves, NEW x \in Shelf(i)', NEW y \in Memory', x.m = y.m,
               x.m \notin torn
        PROVE  i = Own'
    BY <1>1, <1>3, <1>4, <2>1
  <2>2. pc' # "out" => Ids(Shelf(Own))' \subseteq Ids(Memory \cup ring.matchups)'
    BY <1>1, <1>2, <1>4 DEF Ids
  <2>3. QED
    BY <1>1, <1>t, <2>1, <2>2 DEF OnOwnShelf
<1>8. OverOnTheLedger'
  <2>1. ASSUME NEW i \in DOMAIN rows, NEW y \in rows[i].matchups, y.m \notin torn
        PROVE  /\ y.m \notin Ids(Memory)
               /\ \A j \in Shelves : \A x \in Shelf(j)' : x.m # y.m
    <3>1. y.m \notin Ids(Memory)
      BY <2>1 DEF OverOnTheLedger
    <3>2. \A j \in Shelves : \A x \in Shelf(j) : x.m = y.m => j = o
      BY <1>0, <2>1 DEF OverOnTheLedger
    <3>3. QED
      BY <1>1, <1>2, <3>1, <3>2 DEF Ids
  <2>2. Ids(Memory)' \subseteq Ids(Memory)
    BY <1>4 DEF Ids
  <2>3. RecordedOnce'
    BY <1>1, <1>t DEF OverOnTheLedger, RecordedOnce
  <2>4. QED
    BY <1>1, <1>t, <2>1, <2>2, <2>3 DEF OverOnTheLedger
<1>9. RowInStep'
  BY <1>1, <1>4, <1>t DEF RowInStep, Ids
<1>10. QED
  BY <1>5, <1>6, <1>7, <1>8, <1>9

\* The second transaction of a close.
LEMMA SyncKeepsOnce ==
  ASSUME OnceInv, Sync
  PROVE  EachMatchOnce'
<1>1. /\ ring' = [ring EXCEPT !.writing = FALSE, !.taken = FALSE] /\ pc' = pc
      /\ ring \in Session /\ pc \notin {"out", "start"} /\ PersistOpen(ring)
      /\ UNCHANGED reading
  BY NothingIsASession DEF Sync, Goto, OnceInv, RingInv, RingTypes, RingFollowsPc
<1>2. /\ ring'.seated = ring.seated /\ ring'.carried = ring.carried
      /\ ring'.doomed = ring.doomed /\ ring'.matchups = ring.matchups
      /\ ring'.lever = ring.lever
  BY <1>1 DEF Session
<1>3. QED
  BY <1>1, <1>2, PersistStepKeepsOnce

\* The write at the end of a cycle.
LEMMA JudgedKeepsOnce ==
  ASSUME OnceInv, Judged
  PROVE  EachMatchOnce'
BY PersistStepKeepsOnce DEF Judged, Goto, OnceInv, RingInv, RingTypes

\* The write at the end of a session.
LEMMA CloseKeepsOnce ==
  ASSUME OnceInv, Close
  PROVE  EachMatchOnce'
BY PersistStepKeepsOnce DEF Close, OnceInv, RingInv, RingTypes

\* The write before the first leg.
LEMMA WriteOpenKeepsOnce ==
  ASSUME OnceInv, WriteOpen
  PROVE  EachMatchOnce'
<1>1. /\ pc = "stale" /\ ring \in Session /\ PersistOpen(ring) /\ UNCHANGED reading
      /\ \/ Goto("out", Nothing)
         \/ /\ ring' = [ring EXCEPT !.taken = FALSE] /\ pc' \in {"lead", "ending"}
  BY DEF WriteOpen, Goto, OnceInv, RingInv, RingTypes
<1>2. \/ Goto("out", Nothing)
      \/ /\ ring'.seated = ring.seated /\ ring'.carried = ring.carried
         /\ ring'.doomed = ring.doomed /\ ring'.matchups = ring.matchups
         /\ ring'.lever = ring.lever /\ pc' \notin {"out", "start"}
  BY <1>1 DEF Session
<1>3. QED
  BY <1>1, <1>2, PersistStepKeepsOnce

\* The write of a ring that starts afresh.
LEMMA ReseedKeepsOnce ==
  ASSUME OnceInv, Reseed
  PROVE  EachMatchOnce'
<1> DEFINE r == [ring EXCEPT !.rubric = current, !.fought = {}, !.rematched = {},
                             !.ref = NoProfile, !.draining = FALSE, !.lead = NoLeg]
<1>1. /\ pc = "reseed" /\ pc' = "match" /\ ring \in Session /\ current \in Versions
      /\ PersistOpen(r) /\ ring' = [r EXCEPT !.taken = FALSE] /\ UNCHANGED reading
  BY DEF Reseed, Goto, OnceInv, RingInv, RingTypes
<1>2. /\ r \in Session /\ r.seated = ring.seated /\ r.carried = ring.carried
      /\ r.doomed = ring.doomed /\ r.matchups = ring.matchups /\ r.lever = ring.lever
  BY <1>1 DEF Session
<1> HIDE DEF r
<1>3. /\ ring'.seated = ring.seated /\ ring'.carried = ring.carried
      /\ ring'.doomed = ring.doomed /\ ring'.matchups = ring.matchups
      /\ ring'.lever = ring.lever
  BY <1>1, <1>2 DEF Session
<1>4. QED
  BY <1>1, <1>2, <1>3, PersistStepKeepsOnce

\* What the record of a match changes: the session's records are on its row, the match is
\* in memory no more, and no shelf is touched.
LEMMA MatchRecorded ==
  ASSUME RingInv, NEW s \in Memory, s \notin ring.carried, NEW won \in BOOLEAN,
         RecordAs(s, won), NEW rec,
         rec = [m |-> s.m, rubric |-> s.rubric, rounds |-> s.rounds, aside |-> 0, won |-> won,
                read |-> s.read]
  PROVE  /\ DOMAIN rows' = DOMAIN rows /\ Last' = Last /\ Last \in DOMAIN rows
         /\ rows'[Last].matchups = ring.matchups \cup {rec}
         /\ \A i \in DOMAIN rows : rows'[i].open = rows[i].open
         /\ \A i \in DOMAIN rows \ {Last} : rows'[i].matchups = rows[i].matchups
         /\ Shelves' = Shelves /\ \A i \in Shelves : Shelf(i)' = Shelf(i)
         /\ campaign' = campaign /\ pc' = pc /\ Own' = Own
         /\ ring'.seated = ring.seated \ {s} /\ ring'.carried = ring.carried
         /\ ring'.doomed = ring.doomed \ {s} /\ Memory' = Memory \ {s}
         /\ ring'.matchups = ring.matchups \cup {rec}
         /\ ~ring.writing /\ ring'.writing /\ ring'.taken = ring.taken
         /\ ring'.lever = ring.lever
         /\ rec.m = s.m /\ rec.rounds = s.rounds /\ rec.aside = 0
         /\ UNCHANGED <<reading, torn, unread>>
<1>1. /\ ring \in Session /\ s \in Snapshot /\ rows \in Seq(Row)
      /\ ring.matchups \in SUBSET Entry
  BY DEF RingInv, RingTypes, Session, Memory
<1>2. rec \in Entry /\ rec.m = s.m /\ rec.rounds = s.rounds /\ rec.aside = 0
  BY <1>1 DEF Snapshot, Entry
<1>3. /\ ring' = [ring EXCEPT !.matchups = ring.matchups \cup {rec}, !.writing = TRUE,
                              !.seated = @ \ {s}, !.doomed = @ \ {s}]
      /\ rows' = [rows EXCEPT ![Last].matchups = ring.matchups \cup {rec}]
      /\ campaign' = campaign /\ pc' = pc /\ ~ring.writing
      /\ UNCHANGED <<reading, torn, unread>>
  BY DEF RecordAs, Goto, Commit, Write, struck
<1>4. ring.matchups \cup {rec} \in SUBSET Entry
  BY <1>1, <1>2
<1>5. rows # <<>>
  <2>1. pc # "out"
    BY NothingIsASession DEF RingInv, RingFollowsPc, Memory
  <2>2. QED
    BY <2>1 DEF RingInv, RingFollowsPc
<1>6. /\ DOMAIN rows' = DOMAIN rows /\ Last' = Last /\ Last \in DOMAIN rows
      /\ rows'[Last].matchups = ring.matchups \cup {rec}
      /\ rows'[Last].open = rows[Last].open
      /\ \A i \in DOMAIN rows \ {Last} : rows'[i] = rows[i]
  BY <1>1, <1>3, <1>4, <1>5, MatchupsReplaced
<1>7. /\ ring'.seated = ring.seated \ {s} /\ ring'.carried = ring.carried
      /\ ring'.doomed = ring.doomed \ {s}
      /\ ring'.matchups = ring.matchups \cup {rec} /\ ring'.writing
      /\ ring'.taken = ring.taken /\ ring'.lever = ring.lever
  BY <1>1, <1>3, <1>4 DEF Session
<1>8. Memory' = Memory \ {s}
  BY <1>7 DEF Memory
<1>9. Shelves' = Shelves /\ Own' = Own
  BY <1>3, <1>6, <1>7 DEF Shelves, Own
<1>10. \A i \in Shelves : Shelf(i)' = Shelf(i)
  <2>1. Last \in Nat /\ DOMAIN rows = 1..Last
    BY <1>1, LenProperties DEF Last
  <2>2. QED
    BY <1>3, <1>6, <2>1 DEF Shelf, Shelves
<1>11. QED
  BY <1>2, <1>3, <1>6, <1>7, <1>8, <1>9, <1>10

\* A recorded match was on no ledger, and is off the ring; its snapshot is on the session's own
\* shelf at most, until the second transaction.
LEMMA RecordAsKeepsOnce ==
  ASSUME OnceInv, NEW s \in ring.seated \cup ring.doomed, NEW won \in BOOLEAN,
         RecordAs(s, won), pc \in {"reseed", "stale", "judge"}
  PROVE  EachMatchOnce'
<1> USE DEF OnceInv, EachMatchOnce
<1>0. PICK rec : rec = [m |-> s.m, rubric |-> s.rubric, rounds |-> s.rounds, aside |-> 0,
                        won |-> won, read |-> s.read]
  OBVIOUS
<1>1. s \in Memory /\ s \notin ring.carried
  BY DEF Memory, MemoryApart
<1>2. /\ DOMAIN rows' = DOMAIN rows /\ Last' = Last /\ Last \in DOMAIN rows
      /\ rows'[Last].matchups = ring.matchups \cup {rec}
      /\ \A i \in DOMAIN rows : rows'[i].open = rows[i].open
      /\ \A i \in DOMAIN rows \ {Last} : rows'[i].matchups = rows[i].matchups
      /\ Shelves' = Shelves /\ \A i \in Shelves : Shelf(i)' = Shelf(i)
      /\ campaign' = campaign /\ pc' = pc /\ Own' = Own
      /\ ring'.seated = ring.seated \ {s} /\ ring'.carried = ring.carried
      /\ ring'.doomed = ring.doomed \ {s} /\ Memory' = Memory \ {s}
      /\ ring'.matchups = ring.matchups \cup {rec}
      /\ ~ring.writing /\ ring'.writing /\ ring'.lever = ring.lever
      /\ rec.m = s.m
  BY <1>0, <1>1, MatchRecorded
<1>t. torn' = torn /\ reading' = reading
  BY <1>0, <1>1, MatchRecorded
<1>3. Ids(ring.matchups) \ torn = Ids(rows[Last].matchups) \ torn
  BY DEF RowInStep
<1>4. \A i \in DOMAIN rows : \A r \in rows[i].matchups : r.m \notin torn =>
        r.m # s.m /\ \A j \in Shelves : \A x \in Shelf(j) : x.m # r.m
  BY <1>1, <1>2 DEF OverOnTheLedger, Ids
<1>5. \A x \in ring.matchups : x.m \notin torn => \E r \in rows[Last].matchups : r.m = x.m
  BY <1>3 DEF Ids
<1>6. \A x \in Memory' : x.m # s.m /\ x \in Memory
  BY <1>1, <1>2 DEF MemoryApart, Apart
<1>7. ShelvesApart'
  BY <1>2, <1>t DEF ShelvesApart
<1>8. MemoryApart'
  <2>1. \A x \in ring.matchups : x.m \notin torn => x.m # rec.m
    BY <1>2, <1>4, <1>5
  <2>2. Apart({x \in ring'.matchups : x.m \notin torn})
    BY <1>2, <2>1 DEF MemoryApart, Apart
  <2>3. Apart(Memory')
    BY <1>2 DEF MemoryApart, Apart
  <2>4. QED
    BY <1>2, <1>t, <2>2, <2>3 DEF MemoryApart
<1>9. OnOwnShelf'
  <2>1. \A i \in Shelves' : \A x \in Shelf(i)', y \in Memory' :
          x.m = y.m /\ x.m \notin torn' => i = Own'
    BY <1>2, <1>t DEF OnOwnShelf
  <2>2. Own \in Shelves
    BY <1>2, LenProperties DEF Own, Shelves, RingInv, RingTypes, Last
  <2>3. PICK o : o = Own
    OBVIOUS
  <2>4. Ids(Shelf(o)) \subseteq Ids(Memory \cup ring.matchups) \cup torn
    BY <2>3 DEF OnOwnShelf
  <2>5. Ids(Shelf(o)') \subseteq Ids(Memory' \cup ring'.matchups) \cup torn
    BY <1>2, <2>2, <2>3, <2>4 DEF Ids
  <2>6. Own' = o
    BY <1>2, <2>3
  <2>7. Ids(Shelf(Own))' \subseteq (Ids(Memory \cup ring.matchups) \cup torn)'
    BY <1>t, <2>5, <2>6 DEF Ids
  <2>8. QED
    BY <2>1, <2>7 DEF OnOwnShelf
<1>10. OverOnTheLedger'
  <2>1. ASSUME NEW i \in DOMAIN rows, NEW x \in rows'[i].matchups, x.m \notin torn
        PROVE  \/ i = Last /\ x = rec
               \/ /\ x.m # s.m /\ \E r \in rows[i].matchups : r.m = x.m
                  /\ i = Last => x \in ring.matchups
                  /\ i # Last => x \in rows[i].matchups
    BY <1>2, <1>4, <1>5, <2>1
  <2>2. ASSUME NEW i \in DOMAIN rows, NEW j \in DOMAIN rows,
               NEW x \in rows'[i].matchups, NEW y \in rows'[j].matchups, x.m = y.m,
               x.m \notin torn
        PROVE  i = j /\ x = y
    <3>1. CASE x.m = s.m
      BY <1>2, <2>1, <2>2, <3>1
    <3>2. CASE x.m # s.m
      <4>1. i = j
        BY <1>2, <2>1, <2>2, <3>2 DEF OverOnTheLedger, RecordedOnce
      <4>2. QED
        BY <1>2, <2>1, <2>2, <3>2, <4>1
           DEF OverOnTheLedger, RecordedOnce, MemoryApart, Apart
    <3>3. QED
      BY <3>1, <3>2
  <2>3. ASSUME NEW i \in DOMAIN rows, NEW x \in rows'[i].matchups, x.m \notin torn
        PROVE  x.m \notin Ids(Memory')
    <3>1. CASE x.m = s.m
      BY <1>6, <3>1 DEF Ids
    <3>2. CASE x.m # s.m
      <4>1. PICK r \in rows[i].matchups : r.m = x.m
        BY <1>2, <2>1, <2>3, <3>2
      <4>2. QED
        BY <1>6, <2>3, <4>1 DEF OverOnTheLedger, Ids
    <3>3. QED
      BY <3>1, <3>2
  <2>4. ASSUME NEW i \in DOMAIN rows, NEW x \in rows'[i].matchups, x.m \notin torn,
               NEW j \in Shelves, NEW y \in Shelf(j), y.m = x.m
        PROVE  j = Own
    <3>1. CASE x.m = s.m
      BY <1>1, <2>4, <3>1 DEF OnOwnShelf
    <3>2. CASE x.m # s.m
      BY <1>2, <1>4, <2>1, <2>4, <3>2
    <3>3. QED
      BY <3>1, <3>2
  <2>5. RecordedOnce'
    BY <1>2, <1>t, <2>2 DEF RecordedOnce
  <2>6. QED
    BY <1>2, <1>t, <2>3, <2>4, <2>5 DEF OverOnTheLedger, Ids
<1>11. RowInStep'
  <2>1. pc' # "start"
    BY <1>2
  <2>2. (Ids(ring.matchups) \ torn)' = (Ids(rows[Last].matchups) \ torn)'
    BY <1>2, <1>t DEF Ids
  <2>3. QED
    BY <2>1, <2>2 DEF RowInStep
<1>12. QED
  BY <1>7, <1>8, <1>9, <1>10, <1>11

\* Whichever way a match leaves the ring.
LEMMA RecordersKeepOnce ==
  ASSUME OnceInv, Dismiss \/ CloseForReseed \/ Adjudicate
  PROVE  EachMatchOnce'
BY RecordAsKeepsOnce DEF Dismiss, CloseForReseed, Adjudicate

\* A campaign's matches are moved from their shelf into memory.
LEMMA TakeCampaignKeepsOnce ==
  ASSUME OnceInv, TakeCampaign
  PROVE  EachMatchOnce'
<1> USE DEF OnceInv, EachMatchOnce
<1>1. /\ ring \in Session /\ pc = "start" /\ ring.lever /\ Memory = {}
      /\ rows # <<>> /\ rows' = rows /\ campaign' = {} /\ ring.matchups = {}
      /\ ring' = [ring EXCEPT !.carried = campaign, !.rubric = current,
                              !.taken = campaign # {}]
      /\ pc' = "cycle" /\ ~ring.writing /\ UNCHANGED <<reading, torn>>
  BY DEF TakeCampaign, Goto, Commit, Write, struck, RingInv, RingTypes, RingFollowsPc
<1>2. /\ ring'.seated = {} /\ ring'.carried = campaign /\ ring'.doomed = {}
      /\ ring'.matchups = {} /\ ring'.lever
  BY <1>1 DEF Session, Memory
<1>3. /\ Memory' = campaign /\ Own' = 0 /\ Last' = Last
      /\ Last \in Nat /\ Shelves = 0..Last /\ Shelves' = Shelves
  BY <1>1, <1>2, LenProperties DEF Memory, Own, Last, Shelves, RingInv, RingTypes
<1>4. /\ Shelf(0) = campaign /\ Shelf(0)' = {}
      /\ \A i \in Shelves : i # 0 => Shelf(i)' = Shelf(i)
  BY <1>1 DEF Shelf
<1>5. 0 \in Shelves
  BY <1>3
<1>6. ShelvesApart'
  <2>1. \A i \in Shelves' : Apart(Shelf(i)')
    BY <1>3, <1>4 DEF ShelvesApart, Apart
  <2>2. QED
    BY <1>1, <1>3, <1>4, <2>1 DEF ShelvesApart
<1>7. MemoryApart'
  <2>1. Apart(campaign)
    BY <1>4, <1>5 DEF ShelvesApart
  <2>2. QED
    BY <1>2, <1>3, <2>1 DEF MemoryApart, Apart
<1>8. OnOwnShelf'
  <2>1. \A i \in Shelves' : \A x \in Shelf(i)', y \in Memory' : x.m = y.m => x.m \in torn
    BY <1>3, <1>4, <1>5 DEF ShelvesApart
  <2>2. Shelf(Own)' = {}
    BY <1>3 DEF Shelf, TakeCampaign, Commit, Write
  <2>3. QED
    BY <1>1, <2>1, <2>2 DEF OnOwnShelf, Ids
<1>9. OverOnTheLedger'
  BY <1>1, <1>3, <1>4, <1>5 DEF OverOnTheLedger, RecordedOnce, Ids
<1>10. RowInStep'
  BY <1>1, <1>2, <1>3 DEF RowInStep
<1>11. QED
  BY <1>6, <1>7, <1>8, <1>9, <1>10

\* The open matches of an earlier session are moved from its shelf to this one's.
LEMMA TakeKeepsOnce ==
  ASSUME OnceInv, Take
  PROVE  EachMatchOnce'
<1> USE DEF OnceInv, EachMatchOnce
<1>1. /\ ring \in Session /\ pc = "start" /\ ~ring.lever /\ Memory = {} /\ ring.matchups = {}
      /\ rows \in Seq(Row) /\ rows # <<>> /\ ~ring.writing /\ rows[Last].open = {}
      /\ Last \in DOMAIN rows /\ DOMAIN rows = 1..Last /\ Last \in Nat
  BY LenProperties, EmptySeq
     DEF Take, RingInv, RingTypes, RingFollowsPc, RowInStep, Last
<1>t. UNCHANGED <<reading, torn>>
  BY DEF Take, NoCommit, NoWrite, Commit, struck
<1>2. CASE Holder = {}
  <2>1. ring' = [ring EXCEPT !.rubric = current] /\ pc' = "cycle" /\ NoCommit
    BY <1>2 DEF Take, Goto
  <2>2. /\ ring'.seated = {} /\ ring'.carried = {} /\ ring'.doomed = {}
        /\ ring'.matchups = {} /\ ring'.writing = ring.writing /\ ~ring'.lever
    BY <1>1, <2>1 DEF Session, Memory
  <2>3. /\ Memory' = {} /\ Own' = Last /\ Last' = Last /\ Shelves' = Shelves
        /\ \A i : Shelf(i)' = Shelf(i)
    BY <2>1, <2>2 DEF NoCommit, NoWrite, Memory, Own, Last, Shelves, Shelf
  <2>4. ShelvesApart' /\ MemoryApart'
    BY <1>t, <2>2, <2>3 DEF ShelvesApart, MemoryApart, Apart
  <2>5. OnOwnShelf'
    <3>1. Shelf(Own)' = {}
      BY <1>1, <2>1, <2>3 DEF Shelf, NoCommit, NoWrite
    <3>2. QED
      BY <2>3, <3>1 DEF OnOwnShelf, Ids
  <2>6. OverOnTheLedger'
    BY <1>1, <1>t, <2>1, <2>3 DEF OverOnTheLedger, RecordedOnce, Ids, NoCommit, NoWrite
  <2>7. RowInStep'
    BY <1>1, <1>t, <2>1, <2>2, <2>3 DEF RowInStep, NoCommit, NoWrite
  <2>8. QED
    BY <2>4, <2>5, <2>6, <2>7
<1>3. CASE Holder # {}
  <2>1. PICK i \in DOMAIN rows \ {Last} :
          /\ rows' = [rows EXCEPT ![Last].open = rows[i].open, ![i].open = {}]
          /\ campaign' = campaign /\ pc' = "cycle"
          /\ ring' = [ring EXCEPT !.carried = rows[i].open, !.rubric = current]
    <3>1. (CHOOSE i \in Holder : \A j \in Holder : j <= i) \in DOMAIN rows \ {Last}
      BY <1>3, NewestHolder DEF Holder
    <3>2. QED
      BY <1>3, <3>1 DEF Take, Goto, Commit, Write
  <2>2. /\ DOMAIN rows' = DOMAIN rows /\ Last' = Last
        /\ rows'[Last].open = rows[i].open /\ rows'[i].open = {}
        /\ \A j \in DOMAIN rows : rows'[j].matchups = rows[j].matchups
        /\ \A j \in DOMAIN rows \ {Last, i} : rows'[j] = rows[j]
    BY <1>1, <2>1, TakenOver
  <2>3. /\ ring'.seated = {} /\ ring'.carried = rows[i].open /\ ring'.doomed = {}
        /\ ring'.matchups = {} /\ ring'.writing = ring.writing /\ ~ring'.lever
    BY <1>1, <2>1 DEF Session, Memory
  <2>4. PICK l : l = Last
    OBVIOUS
  <2>5. /\ Memory' = Shelf(i) /\ Own' = l /\ Shelves' = Shelves
        /\ i \in Shelves /\ l \in Shelves /\ i # l /\ Shelf(l) = {}
    BY <1>1, <2>1, <2>2, <2>3, <2>4 DEF Memory, Own, Shelves, Shelf
  <2>6. /\ Shelf(l)' = Shelf(i) /\ Shelf(i)' = {}
        /\ \A j \in Shelves : j # i /\ j # l => Shelf(j)' = Shelf(j)
    BY <1>1, <2>1, <2>2, <2>4 DEF Shelf, Shelves
  <2>7. ShelvesApart'
    <3>1. \A j \in Shelves' : Apart(Shelf(j)')
      BY <2>5, <2>6 DEF ShelvesApart, Apart
    <3>2. \A j, k \in Shelves' : \A x \in Shelf(j)', y \in Shelf(k)' :
            x.m = y.m /\ x.m \notin torn => j = k
      BY <2>5, <2>6 DEF ShelvesApart
    <3>3. QED
      BY <1>t, <3>1, <3>2 DEF ShelvesApart
  <2>8. MemoryApart'
    <3>1. Apart(Memory')
      BY <2>5 DEF ShelvesApart
    <3>2. QED
      BY <2>3, <3>1 DEF MemoryApart, Apart
  <2>9. OnOwnShelf'
    <3>1. \A j \in Shelves' : \A x \in Shelf(j)', y \in Memory' :
            x.m = y.m /\ x.m \notin torn' => j = Own'
      BY <1>t, <2>5, <2>6 DEF ShelvesApart
    <3>2. Shelf(Own)' = Memory'
      BY <2>2, <2>4, <2>5, <1>1 DEF Shelf
    <3>3. QED
      BY <3>1, <3>2 DEF OnOwnShelf, Ids
  <2>10. OverOnTheLedger'
    <3>1. \A j \in DOMAIN rows : \A r \in rows[j].matchups : r.m \notin torn =>
            \A k \in Shelves : \A x \in Shelf(k) : x.m # r.m
      BY <1>1 DEF OverOnTheLedger
    <3>2. \A j \in DOMAIN rows : \A r \in rows[j].matchups : r.m \notin torn =>
            \A k \in Shelves : \A x \in Shelf(k)' : x.m # r.m
      BY <2>5, <2>6, <3>1
    <3>3. \A j \in DOMAIN rows : \A r \in rows[j].matchups : r.m \notin torn =>
            r.m \notin Ids(Memory')
      BY <2>5, <3>1 DEF Ids
    <3>4. RecordedOnce'
      BY <1>t, <2>2 DEF OverOnTheLedger, RecordedOnce
    <3>5. QED
      BY <1>t, <2>2, <2>5, <3>2, <3>3, <3>4 DEF OverOnTheLedger, Ids
  <2>11. RowInStep'
    BY <1>1, <1>t, <2>1, <2>2, <2>3 DEF RowInStep
  <2>12. QED
    BY <2>7, <2>8, <2>9, <2>10, <2>11
<1>4. QED
  BY <1>2, <1>3

\* Nothing on disk or in memory changes.
LEMMA NothingHappened ==
  ASSUME EachMatchOnce, UNCHANGED <<rows, campaign, pc, ring, reading, torn>>
  PROVE  EachMatchOnce'
<1> USE DEF EachMatchOnce
<1>1. /\ Memory' = Memory /\ Shelves' = Shelves /\ Own' = Own /\ Last' = Last
      /\ \A i : Shelf(i)' = Shelf(i)
  BY DEF Memory, Shelves, Shelf, Own, Last
<1>2. ShelvesApart' /\ MemoryApart'
  BY <1>1 DEF ShelvesApart, MemoryApart
<1>3. OnOwnShelf'
  BY <1>1 DEF OnOwnShelf, Ids
<1>4. OverOnTheLedger'
  BY <1>1 DEF OverOnTheLedger, RecordedOnce, Ids
<1>5. RowInStep'
  BY <1>1 DEF RowInStep, Ids
<1>6. QED
  BY <1>2, <1>3, <1>4, <1>5

\* To publish moves no match, nor to read the ledger.
LEMMA PublishersKeepOnce ==
  ASSUME OnceInv, Publish \/ RegradeReads
  PROVE  EachMatchOnce'
<1>1. CASE Publish
  BY <1>1, NothingHappened DEF OnceInv, Publish, struck
<1>2. CASE RegradeReads
  <2> USE DEF OnceInv, EachMatchOnce
  <2>1. reading' = rows /\ UNCHANGED <<rows, campaign, pc, ring, torn>>
    BY <1>2 DEF RegradeReads, struck
  <2>2. /\ Memory' = Memory /\ Shelves' = Shelves /\ Own' = Own /\ Last' = Last
        /\ \A i : Shelf(i)' = Shelf(i)
    BY <2>1 DEF Memory, Shelves, Shelf, Own, Last
  <2>3. \A i \in DOMAIN rows : i \in Shelves /\ Shelf(i) = rows[i].open
    BY LenProperties DEF Shelves, Shelf, Last, RingInv, RingTypes
  <2>4. ShelvesApart'
    BY <2>1, <2>2, <2>3 DEF ShelvesApart
  <2>5. MemoryApart'
    BY <2>1, <2>2 DEF MemoryApart
  <2>6. OnOwnShelf'
    BY <2>1, <2>2 DEF OnOwnShelf, Ids
  <2>7. OverOnTheLedger'
    BY <2>1, <2>2 DEF OverOnTheLedger, RecordedOnce, Ids
  <2>8. RowInStep'
    BY <2>1, <2>2 DEF RowInStep, Ids
  <2>9. QED
    BY <2>4, <2>5, <2>6, <2>7, <2>8
<1>3. QED
  BY <1>1, <1>2

\* Copy y is copy x of a match, or x read again with up to n of its rounds set aside.
Same(x, y, n) == y = x \/ ReadAgain(x, y, n)

\* A column that is what it was, copy by copy, but for torn matches.
Kept(was, now, lost, t) ==
  /\ \A y \in now : y.m \in t \/ \E x \in was : x.m = y.m /\ Same(x, y, lost[x.m])
  /\ \A x \in was : x.m \in t \/ \E y \in now : y.m = x.m /\ Same(x, y, lost[x.m])
  /\ \A y \in now : y \in was \/ y.aside <= lost[y.m]
  /\ \A y, z \in now : y.m = z.m /\ y # z /\ y.m \notin t =>
       \E u, v \in was : u.m = y.m /\ v.m = y.m /\ u # v

\* Such is a column that a re-grade left alone or wrote.
LEMMA ColumnIsKept ==
  ASSUME NEW was, NEW now, NEW new, NEW lost, NEW t,
         new = now \/ Again(was, now, new, lost, t)
  PROVE  Kept(now, new, lost, t)
<1>1. CASE new = now
  BY <1>1 DEF Kept, Same
<1>2. CASE Again(was, now, new, lost, t)
  <2>1. \A x, y, n : ReadAgain(x, y, n) => y.m = x.m /\ y.aside <= n
    BY DEF ReadAgain
  <2>2. \A y \in new : \E x \in was : x.m = y.m /\ ReadAgain(x, y, lost[x.m])
    BY <1>2, <2>1 DEF Again
  <2>3. \A x \in was : \E y \in new : y.m = x.m /\ ReadAgain(x, y, lost[x.m])
    BY <1>2, <2>1 DEF Again
  <2>4. \A y \in new : y.aside <= lost[y.m]
    <3> SUFFICES ASSUME NEW y \in new PROVE y.aside <= lost[y.m]
      OBVIOUS
    <3>1. PICK x \in was : x.m = y.m /\ ReadAgain(x, y, lost[x.m])
      BY <2>2
    <3>2. QED
      BY <2>1, <3>1
  <2>5. CASE was = now
    <3>1. /\ \A y \in new : \E x \in now : x.m = y.m /\ Same(x, y, lost[x.m])
          /\ \A x \in now : \E y \in new : y.m = x.m /\ Same(x, y, lost[x.m])
      BY <2>2, <2>3, <2>5 DEF Same
    <3>2. \A y, z \in new : y.m = z.m /\ y # z =>
            \E u, v \in now : u.m = y.m /\ v.m = y.m /\ u # v
      BY <1>2, <2>5 DEF Again
    <3>3. QED
      BY <2>4, <3>1, <3>2 DEF Kept
  <2>6. CASE was # now
    <3>1. \A x \in was \cup now : x.m \in t
      BY <1>2, <2>6 DEF Again, Ids
    <3>2. \A y \in new : y.m \in t
      <4> SUFFICES ASSUME NEW y \in new PROVE y.m \in t
        OBVIOUS
      <4>1. PICK x \in was : x.m = y.m
        BY <2>2
      <4>2. QED
        BY <3>1, <4>1
    <3>3. QED
      BY <2>4, <3>1, <3>2 DEF Kept
  <2>7. QED
    BY <2>5, <2>6
<1>3. QED
  BY <1>1, <1>2

\* A re-grade leaves every copy where it is, but for torn matches.
LEMMA RegradeMovesNoMatch ==
  ASSUME OnceInv, RegradeWrites
  PROVE  \E lost \in [DOMAIN bout -> Nat] :
         /\ DOMAIN rows' = DOMAIN rows /\ Last' = Last /\ Shelves' = Shelves
         /\ UNCHANGED <<campaign, current, bout, pc, ring>> /\ reading' = <<>>
         /\ unread' = [m \in 1..Len(bout) |-> unread[m] + lost[m]] /\ torn \subseteq torn'
         /\ \A i \in Shelves : Kept(Shelf(i), Shelf(i)', lost, torn') /\ Apart(Shelf(i)')
         /\ \A i \in DOMAIN rows : Kept(rows[i].matchups, rows'[i].matchups, lost, torn')
         /\ pc = "start" => rows'[Last].open = {}
<1> USE DEF OnceInv
<1>1. reading' = <<>> /\ UNCHANGED <<campaign, current, bout, pc, ring>>
  BY Zenon DEF RegradeWrites, Write
<1>2. PICK lost \in [DOMAIN bout -> Nat] :
        /\ DOMAIN rows' = DOMAIN rows /\ rows' \in Seq(Row)
        /\ unread' = [m \in 1..Len(bout) |-> unread[m] + lost[m]] /\ torn \subseteq torn'
        /\ \A i \in DOMAIN rows :
              /\ \/ rows'[i].open = rows[i].open
                 \/ /\ i \in DOMAIN reading
                    /\ Again(reading[i].open, rows[i].open, rows'[i].open, lost, torn')
              /\ \/ rows'[i].matchups = rows[i].matchups
                 \/ /\ i \in DOMAIN reading
                    /\ Again(reading[i].matchups, rows[i].matchups, rows'[i].matchups, lost,
                             torn')
  BY RegradeWritesColumns, Zenon
<1>3. /\ rows \in Seq(Row) /\ Last \in Nat /\ DOMAIN rows = 1..Last
      /\ Last' \in Nat /\ DOMAIN rows' = 1..Last'
  BY <1>2, LenProperties DEF Last, RingInv, RingTypes
<1>4. Last' = Last
  BY <1>2, <1>3
<1>5. Shelves' = Shelves /\ Shelves = 0..Last
  BY <1>4 DEF Shelves
<1>6. \A i \in DOMAIN rows : Kept(rows[i].matchups, rows'[i].matchups, lost, torn')
  BY <1>2, ColumnIsKept
<1>7. ASSUME NEW i \in Shelves
      PROVE  Kept(Shelf(i), Shelf(i)', lost, torn') /\ Apart(Shelf(i)')
  <2>1. CASE i = 0
    <3>1. Shelf(i)' = Shelf(i)
      BY <1>1, <2>1 DEF Shelf
    <3>2. QED
      BY <3>1, ColumnIsKept DEF EachMatchOnce, ShelvesApart
  <2>2. CASE i # 0
    <3>1. i \in DOMAIN rows /\ Shelf(i) = rows[i].open /\ Shelf(i)' = rows'[i].open
      BY <1>3, <1>5, <2>2 DEF Shelf
    <3>2. Kept(Shelf(i), Shelf(i)', lost, torn')
      BY <1>2, <3>1, ColumnIsKept
    <3>3. CASE rows'[i].open = rows[i].open
      BY <3>1, <3>2, <3>3 DEF EachMatchOnce, ShelvesApart
    <3>4. CASE /\ i \in DOMAIN reading
               /\ Again(reading[i].open, rows[i].open, rows'[i].open, lost, torn')
      <4>1. Apart(reading[i].open)
        BY <3>4 DEF EachMatchOnce, ShelvesApart
      <4>2. \A y, z \in rows'[i].open : y.m = z.m /\ y # z =>
              \E u, v \in reading[i].open : u.m = y.m /\ v.m = y.m /\ u # v
        BY <3>4 DEF Again
      <4>3. Apart(rows'[i].open)
        BY <4>1, <4>2 DEF Apart
      <4>4. QED
        BY <3>1, <3>2, <4>3
    <3>5. QED
      BY <1>2, <3>1, <3>2, <3>3, <3>4
  <2>3. QED
    BY <2>1, <2>2
<1>8. ASSUME pc = "start" PROVE rows'[Last].open = {}
  <2>1. Last \in DOMAIN rows
    BY <1>3, <1>8, EmptySeq DEF RingInv, RingFollowsPc, Last
  <2>2. rows[Last].open = {} /\ (Last \in DOMAIN reading => reading[Last].open = {})
    BY <1>8 DEF EachMatchOnce, RowInStep
  <2>3. CASE rows'[Last].open = rows[Last].open
    BY <2>2, <2>3
  <2>4. CASE /\ Last \in DOMAIN reading
             /\ Again(reading[Last].open, rows[Last].open, rows'[Last].open, lost, torn')
    <3>1. \A y \in rows'[Last].open : \E x \in reading[Last].open : TRUE
      BY <2>4 DEF Again
    <3>2. QED
      BY <2>2, <2>4, <3>1
  <2>5. QED
    BY <1>2, <2>1, <2>3, <2>4
<1>9. QED
  BY <1>1, <1>2, <1>4, <1>5, <1>6, <1>7, <1>8

\* So it keeps the invariant.
LEMMA RegradeWritesKeepsOnce ==
  ASSUME OnceInv, RegradeWrites
  PROVE  EachMatchOnce'
<1> USE DEF OnceInv, EachMatchOnce
<1>1. /\ DOMAIN rows' = DOMAIN rows /\ Last' = Last /\ Shelves' = Shelves
      /\ UNCHANGED <<campaign, pc, ring>> /\ reading' = <<>> /\ torn \subseteq torn'
      /\ \A i \in Shelves :
           /\ Apart(Shelf(i)')
           /\ \A x \in Shelf(i)' : x.m \in torn' \/ \E u \in Shelf(i) : u.m = x.m
      /\ \A i \in DOMAIN rows :
           /\ \A x \in rows'[i].matchups : x.m \in torn' \/ \E u \in rows[i].matchups : u.m = x.m
           /\ \A u \in rows[i].matchups : u.m \in torn' \/ \E x \in rows'[i].matchups : u.m = x.m
           /\ \A y, z \in rows'[i].matchups : y.m = z.m /\ y # z /\ y.m \notin torn' =>
                \E u, v \in rows[i].matchups : u.m = y.m /\ v.m = y.m /\ u # v
      /\ pc = "start" => rows'[Last].open = {}
  <2>1. PICK lost \in [DOMAIN bout -> Nat] :
           /\ DOMAIN rows' = DOMAIN rows /\ Last' = Last /\ Shelves' = Shelves
           /\ UNCHANGED <<campaign, current, bout, pc, ring>> /\ reading' = <<>>
           /\ torn \subseteq torn'
           /\ \A i \in Shelves : Kept(Shelf(i), Shelf(i)', lost, torn') /\ Apart(Shelf(i)')
           /\ \A i \in DOMAIN rows : Kept(rows[i].matchups, rows'[i].matchups, lost, torn')
           /\ pc = "start" => rows'[Last].open = {}
    BY RegradeMovesNoMatch, Zenon
  <2>2. QED
    BY <2>1 DEF Kept
<1>2. Memory' = Memory /\ Own' = Own
  BY <1>1 DEF Memory, Own
<1>3. Last \in DOMAIN rows \/ pc = "out"
  BY LenProperties, EmptySeq DEF Last, RingInv, RingTypes, RingFollowsPc
<1>4. ShelvesApart'
  BY <1>1 DEF ShelvesApart
<1>5. MemoryApart'
  <2>1. Apart({x \in ring.matchups : x.m \notin torn'})
    BY <1>1 DEF MemoryApart, Apart
  <2>2. QED
    BY <1>1, <1>2, <2>1 DEF MemoryApart
<1>6. OnOwnShelf'
  <2>1. \A i \in Shelves' : \A x \in Shelf(i)', y \in Memory' :
          x.m = y.m /\ x.m \notin torn' => i = Own'
    BY <1>1, <1>2 DEF OnOwnShelf
  <2>2. pc' \notin {"out", "start"} =>
          Ids(Shelf(Own))' \subseteq (Ids(Memory \cup ring.matchups) \cup torn)'
    <3> SUFFICES ASSUME pc' \notin {"out", "start"}
                 PROVE  Ids(Shelf(Own))' \subseteq (Ids(Memory \cup ring.matchups) \cup torn)'
      OBVIOUS
    <3>1. PICK o : o = Own
      OBVIOUS
    <3>2. o \in Shelves /\ Own' = o
      <4>1. Last \in Nat
        BY LenProperties DEF Last, RingInv, RingTypes
      <4>2. o \in {0, Last}
        BY <1>1, <3>1 DEF Own
      <4>3. QED
        BY <1>2, <3>1, <4>1, <4>2 DEF Shelves
    <3>3. Ids(Shelf(o)) \subseteq Ids(Memory \cup ring.matchups) \cup torn
      BY <1>1, <3>1 DEF OnOwnShelf
    <3>4. Ids(Shelf(o)') \subseteq Ids(Shelf(o)) \cup torn'
      BY <1>1, <3>2 DEF Ids
    <3>5. Ids(Memory \cup ring.matchups)' = Ids(Memory \cup ring.matchups)
      BY <1>1, <1>2 DEF Ids
    <3>6. Ids(Shelf(Own))' = Ids(Shelf(o)')
      BY <3>2 DEF Ids
    <3>7. QED
      BY <1>1, <3>3, <3>4, <3>5, <3>6
  <2>3. QED
    BY <2>1, <2>2 DEF OnOwnShelf
<1>7. OverOnTheLedger'
  <2>1. ASSUME NEW i \in DOMAIN rows, NEW j \in DOMAIN rows,
               NEW x \in rows'[i].matchups, NEW y \in rows'[j].matchups, x.m = y.m,
               x.m \notin torn'
        PROVE  i = j /\ x = y
    <3>1. i = j
      BY <1>1, <2>1 DEF OverOnTheLedger, RecordedOnce
    <3>2. QED
      BY <1>1, <2>1, <3>1 DEF OverOnTheLedger, RecordedOnce
  <2>2. ASSUME NEW i \in DOMAIN rows, NEW r \in rows'[i].matchups, r.m \notin torn'
        PROVE  /\ r.m \notin Ids(Memory')
               /\ \A j \in Shelves : \A x \in Shelf(j)' : x.m = r.m => ring.writing /\ j = Own
    <3>1. PICK u \in rows[i].matchups : u.m = r.m
      BY <1>1, <2>2
    <3>2. /\ u.m \notin Ids(Memory)
          /\ \A j \in Shelves : \A x \in Shelf(j) : x.m = u.m => ring.writing /\ j = Own
      BY <1>1, <2>2, <3>1 DEF OverOnTheLedger
    <3>3. QED
      BY <1>1, <1>2, <2>2, <3>1, <3>2
  <2>3. QED
    BY <1>1, <1>2, <2>1, <2>2 DEF OverOnTheLedger, RecordedOnce, Ids
<1>8. RowInStep'
  <2>1. pc' # "out" => (Ids(ring.matchups) \ torn)' = (Ids(rows[Last].matchups) \ torn)'
    <3> SUFFICES ASSUME pc # "out"
                 PROVE  (Ids(ring.matchups) \ torn)' = (Ids(rows[Last].matchups) \ torn)'
      BY <1>1
    <3>1. PICK l : l = Last
      OBVIOUS
    <3>2. Ids(ring.matchups) \ torn = Ids(rows[l].matchups) \ torn /\ l \in DOMAIN rows
      BY <1>3, <3>1 DEF RowInStep
    <3>3. Ids(rows'[l].matchups) \ torn' = Ids(rows[l].matchups) \ torn'
      BY <1>1, <3>2 DEF Ids
    <3>4. Ids(ring.matchups)' = Ids(ring.matchups)
      BY <1>1 DEF Ids
    <3>5. Ids(rows[Last].matchups)' = Ids(rows'[l].matchups)
      BY <1>1, <3>1 DEF Ids
    <3>6. QED
      BY <1>1, <3>2, <3>3, <3>4, <3>5
  <2>2. QED
    BY <1>1, <2>1 DEF RowInStep
<1>9. QED
  BY <1>4, <1>5, <1>6, <1>7, <1>8

\* At first there is no match.
LEMMA InitEstablishesOnce ==
  ASSUME Init
  PROVE  OnceInv
<1>1. RingInv
  BY InitEstablishesRingInv
<1>2. /\ rows = <<>> /\ campaign = {} /\ pc = "out" /\ Memory = {} /\ ring = Nothing
      /\ reading = <<>>
  BY NothingIsASession DEF Init, Memory
<1>3. Last = 0 /\ Shelves = {0} /\ Shelf(0) = {}
  BY <1>2, EmptySeq DEF Last, Shelves, Shelf
<1>4. EachMatchOnce
  BY <1>2, <1>3, NothingIsASession
     DEF EachMatchOnce, ShelvesApart, MemoryApart, OnOwnShelf, OverOnTheLedger, RowInStep,
         RecordedOnce, Apart
<1>5. QED
  BY <1>1, <1>4 DEF OnceInv

\* The invariant behind RecordedOnce is inductive.
LEMMA StepKeepsOnce ==
  ASSUME OnceInv, [Next]_vars
  PROVE  OnceInv'
<1>1. RingInv'
  BY StepKeepsRingInv DEF OnceInv
<1>2. ASSUME Next PROVE EachMatchOnce'
  <2>1. CASE \E lever \in BOOLEAN : Start(lever)
    BY <2>1, StartKeepsOnce
  <2>2. CASE Take \/ TakeCampaign
    BY <2>2, TakeKeepsOnce, TakeCampaignKeepsOnce
  <2>3. CASE Dismiss \/ CloseForReseed \/ Adjudicate
    BY <2>3, RecordersKeepOnce
  <2>4. CASE Sync \/ Reseed \/ WriteOpen \/ Judged \/ Close
    BY <2>4, SyncKeepsOnce, ReseedKeepsOnce, WriteOpenKeepsOnce, JudgedKeepsOnce,
       CloseKeepsOnce
  <2>5. CASE Notice \/ ChooseDefender \/ NoDefender \/ SeatCarried \/ SeatFresh \/ Seated
    BY <2>5, NoticeKeepsOnce, ChooseDefenderKeepsOnce, NoDefenderKeepsOnce,
       SeatCarriedKeepsOnce, SeatFreshKeepsOnce, SeatedKeepsOnce
  <2>6. CASE OpeningLeg \/ ChallengerLeg \/ ClosingLeg
    BY <2>6, OpeningLegKeepsOnce, ChallengerLegKeepsOnce, ClosingLegKeepsOnce
  <2>7. CASE Yield \/ WindowEnds \/ Die
    BY <2>7, YieldKeepsOnce, WindowEndsKeepsOnce, DieKeepsOnce
  <2>8. CASE Publish \/ RegradeReads \/ RegradeWrites
    BY <2>8, PublishersKeepOnce, RegradeWritesKeepsOnce
  <2>9. QED
    BY <1>2, <2>1, <2>2, <2>3, <2>4, <2>5, <2>6, <2>7, <2>8 DEF Next
<1>3. CASE UNCHANGED vars
  BY <1>1, <1>3, NothingHappened DEF vars, struck, OnceInv
<1>4. QED
  BY <1>1, <1>2, <1>3 DEF OnceInv

\* A match is adjudicated once, in whatever sessions it was fought, whatever publishes, deaths
\* and re-grades come between: but for the matches that are torn.
THEOREM EveryMatchIsRecordedOnce == Spec => []RecordedOnce
<1>1. Init => OnceInv
  BY InitEstablishesOnce
<1>2. OnceInv /\ [Next]_vars => OnceInv'
  BY StepKeepsOnce
<1>3. OnceInv => RecordedOnce
  BY DEF OnceInv, EachMatchOnce, OverOnTheLedger
<1>4. QED
  BY <1>1, <1>2, <1>3, PTL DEF Spec

-----------------------------------------------------------------------------
(* That no round that was ever on disk is lost. *)

\* The rounds of a copy are numbers.
LEMMA RoundsAreNumbers ==
  ASSUME NEW x \in Snapshot \cup Entry
  PROVE  /\ x.rounds \in Nat /\ x.aside \in Nat /\ All(x) \in Nat
         /\ All(x) = x.rounds + x.aside /\ All(x) >= x.rounds
BY DEF Snapshot, Entry, All

\* The most rounds of a match on a disk whose copies have no more than b.
LEMMA MostRounds ==
  ASSUME NEW copies, NEW b \in Nat, copies # {},
         \A x \in copies : All(x) \in Nat /\ All(x) <= b
  PROVE  LET n == CHOOSE n \in {All(x) : x \in copies} : \A x \in copies : All(x) <= n IN
         /\ n \in Nat /\ \A x \in copies : All(x) <= n
         /\ \E x \in copies : All(x) = n
<1> DEFINE short == {b - All(x) : x \in copies}
<1>1. short \in SUBSET Nat /\ short # {}
  OBVIOUS
<1>2. PICK k \in short : \A l \in short : k <= l
  BY <1>1, LeastExists
<1>3. PICK x \in copies : k = b - All(x)
  BY <1>2
<1>4. \A y \in copies : All(y) <= All(x)
  <2> SUFFICES ASSUME NEW y \in copies PROVE All(y) <= All(x)
    OBVIOUS
  <2>1. b - All(x) <= b - All(y)
    BY <1>2, <1>3
  <2>2. QED
    BY <2>1
<1>5. \E n \in {All(y) : y \in copies} : \A y \in copies : All(y) <= n
  BY <1>4
<1>6. QED
  BY <1>5

\* A disk of typed rows: the most rounds of m on it are at least those of each copy, and
\* are those of a copy unless there is none.
LEMMA RoundsOnDisk ==
  ASSUME NEW d, NEW c, NEW m, NEW b \in Nat,
         \A x \in c : x.m = m => All(x) \in Nat /\ All(x) <= b,
         \A i \in DOMAIN d : \A x \in d[i].open \cup d[i].matchups :
           x.m = m => All(x) \in Nat /\ All(x) <= b
  PROVE  LET n == RoundsOn(d, c, m) IN
         /\ n \in Nat
         /\ \A x \in c : x.m = m => All(x) <= n
         /\ \A i \in DOMAIN d : \A x \in d[i].open \cup d[i].matchups : x.m = m => All(x) <= n
         /\ \/ n = 0
            \/ \E x \in c : x.m = m /\ All(x) = n
            \/ \E i \in DOMAIN d : \E x \in d[i].open \cup d[i].matchups :
                 x.m = m /\ All(x) = n
<1> DEFINE copies == CopiesOn(d, c, m)
           n == RoundsOn(d, c, m)
<1>1. n = IF copies = {} THEN 0
          ELSE CHOOSE k \in {All(x) : x \in copies} : \A x \in copies : All(x) <= k
  BY DEF RoundsOn
<1>2. \A x : x \in copies <=>
        /\ x.m = m
        /\ x \in c \/ \E i \in DOMAIN d : x \in d[i].open \cup d[i].matchups
  BY Zenon DEF CopiesOn
<1> HIDE DEF copies, n
<1>3. \A x \in copies : All(x) \in Nat /\ All(x) <= b
  BY <1>2
<1>4. CASE copies = {}
  BY <1>1, <1>2, <1>4 DEF n
<1>5. CASE copies # {}
  <2>1. n \in Nat /\ (\A x \in copies : All(x) <= n) /\ \E x \in copies : All(x) = n
    BY <1>1, <1>3, <1>5, MostRounds
  <2>2. QED
    BY <1>2, <2>1 DEF n
<1>6. QED
  BY <1>4, <1>5

\* What a write remembers of match m: no less than before, nor than any copy on disk, and
\* no more than one of these.
LEMMA Remembered ==
  ASSUME NEW d \in Seq(Row), NEW c \in SUBSET Snapshot, Write(d, c),
         paid \in Seq(Nat), Len(paid) = Len(bout), NEW m \in DOMAIN bout,
         bout \in Seq([ref : Profiles, cha : Profiles]), NEW b \in Nat,
         \A i \in Shelves' : \A x \in Shelf(i)' : x.m = m => All(x) <= b,
         \A i \in DOMAIN rows' : \A x \in rows'[i].matchups : x.m = m => All(x) <= b
  PROVE  /\ paid'[m] \in Nat /\ paid'[m] >= paid[m]
         /\ \A i \in Shelves' : \A x \in Shelf(i)' : x.m = m => All(x) <= paid'[m]
         /\ \A i \in DOMAIN rows' : \A x \in rows'[i].matchups : x.m = m => All(x) <= paid'[m]
         /\ \/ paid'[m] = paid[m]
            \/ \E i \in Shelves' : \E x \in Shelf(i)' : x.m = m /\ All(x) = paid'[m]
            \/ \E i \in DOMAIN rows' : \E x \in rows'[i].matchups :
                 x.m = m /\ All(x) = paid'[m]
<1> DEFINE n == RoundsOn(d, c, m)
<1>1. /\ rows' = d /\ campaign' = c /\ paid[m] \in Nat
      /\ paid'[m] = IF n > paid[m] THEN n ELSE paid[m]
  <2>1. m \in 1..Len(bout) /\ paid[m] \in Nat
    BY LenProperties, ElementOfSeq
  <2>2. QED
    BY <2>1 DEF Write
<1>2. /\ DOMAIN d = 1..Len(d) /\ Len(d) \in Nat
      /\ \A i \in DOMAIN d : d[i].open \in SUBSET Snapshot /\ d[i].matchups \in SUBSET Entry
  <2>1. DOMAIN d = 1..Len(d) /\ Len(d) \in Nat
    BY LenProperties
  <2>2. \A i \in DOMAIN d : d[i] \in Row
    BY <2>1, ElementOfSeq
  <2>3. QED
    BY <2>1, <2>2 DEF Row
<1>3. /\ Shelves' = 0..Len(d) /\ Shelf(0)' = c
      /\ \A i \in DOMAIN d : i \in Shelves' /\ Shelf(i)' = d[i].open
      /\ \A i \in Shelves' : i = 0 \/ i \in DOMAIN d
  BY <1>1, <1>2 DEF Shelves, Shelf, Last
<1>4. 0 \in Shelves'
  BY <1>2, <1>3
<1>5. \A x \in c : x.m = m => All(x) \in Nat /\ All(x) <= b
  BY <1>3, <1>4, RoundsAreNumbers
<1>6. \A i \in DOMAIN d : \A x \in d[i].open \cup d[i].matchups :
        x.m = m => All(x) \in Nat /\ All(x) <= b
  BY <1>1, <1>2, <1>3, RoundsAreNumbers
<1>7. /\ n \in Nat
      /\ \A x \in c : x.m = m => All(x) <= n
      /\ \A i \in DOMAIN d : \A x \in d[i].open \cup d[i].matchups : x.m = m => All(x) <= n
      /\ \/ n = 0
         \/ \E x \in c : x.m = m /\ All(x) = n
         \/ \E i \in DOMAIN d : \E x \in d[i].open \cup d[i].matchups :
              x.m = m /\ All(x) = n
  BY <1>5, <1>6, RoundsOnDisk
<1> HIDE DEF n
<1>8. paid'[m] \in Nat /\ paid'[m] >= paid[m] /\ paid'[m] >= n
      /\ (paid'[m] = paid[m] \/ (paid'[m] = n /\ n # 0))
  <2>1. n \in Nat /\ paid[m] \in Nat
    BY <1>1, <1>7
  <2>2. CASE n > paid[m]
    <3>1. paid'[m] = n
      BY <1>1, <2>2
    <3>2. QED
      BY <2>1, <2>2, <3>1
  <2>3. CASE ~(n > paid[m])
    <3>1. paid'[m] = paid[m]
      BY <1>1, <2>3
    <3>2. QED
      BY <2>1, <2>3, <3>1
  <2>4. QED
    BY <2>2, <2>3
<1>9. \A i \in Shelves' : \A x \in Shelf(i)' : x.m = m => All(x) <= paid'[m]
  <2>1. \A x \in c : x.m = m => All(x) <= paid'[m]
    BY <1>5, <1>7, <1>8
  <2>2. \A i \in DOMAIN d : \A x \in d[i].open : x.m = m => All(x) <= paid'[m]
    BY <1>6, <1>7, <1>8
  <2>3. QED
    BY <1>3, <2>1, <2>2
<1>10. \A i \in DOMAIN rows' : \A x \in rows'[i].matchups : x.m = m => All(x) <= paid'[m]
  BY <1>1, <1>6, <1>7, <1>8
<1>11. \/ paid'[m] = paid[m]
       \/ \E i \in Shelves' : \E x \in Shelf(i)' : x.m = m /\ All(x) = paid'[m]
       \/ \E i \in DOMAIN rows' : \E x \in rows'[i].matchups : x.m = m /\ All(x) = paid'[m]
  BY <1>1, <1>3, <1>4, <1>7, <1>8
<1>12. QED
  BY <1>8, <1>9, <1>10, <1>11

\* A step in memory whose copies are whole, and that loses no match that is missing on disk.
LEMMA MemoryStepKeepsPaid ==
  ASSUME PaidIsKept, NoWrite, UNCHANGED bout, ring'.matchups = ring.matchups,
         \A x \in Memory' : Accounted(x) /\ Whole(x),
         \A m : m \in Ids(Missing) => m \in Ids(Missing)'
  PROVE  PaidIsKept'
<1>1. /\ UNCHANGED <<rows, campaign, paid, unread, torn, bout>>
      /\ Shelves' = Shelves /\ \A i : Shelf(i)' = Shelf(i)
      /\ \A i \in DOMAIN rows : Ids(rows[i].matchups)' = Ids(rows[i].matchups)
  BY DEF NoWrite, struck, Shelves, Shelf, Last, Ids
<1>2. \A x : /\ Accounted(x)' <=> Accounted(x)
             /\ OnDisk(x)' <=> OnDisk(x)
             /\ Whole(x)' <=> Whole(x)
  BY <1>1 DEF Accounted, OnDisk, Whole, All
<1>3. ASSUME NEW m \in DOMAIN bout \ torn
      PROVE  \/ paid[m] = 0
             \/ \E i \in Shelves : \E x \in Shelf(i) : x.m = m /\ Whole(x)
             \/ \E i \in DOMAIN rows : m \in Ids(rows[i].matchups)
             \/ m \in Ids(Missing)'
  BY DEF PaidIsKept
<1>4. QED
  BY <1>1, <1>2, <1>3 DEF PaidIsKept

\* A step that moves no match and measures none.
LEMMA NoMatchMovesOnPaid ==
  ASSUME PaidIsKept, NoWrite, UNCHANGED bout,
         ring'.seated = ring.seated, ring'.carried = ring.carried,
         ring'.doomed = ring.doomed, ring'.matchups = ring.matchups,
         ring'.taken = ring.taken
  PROVE  PaidIsKept'
<1>1. Memory' = Memory /\ Missing' = Missing
  BY DEF Memory, Missing
<1>2. Ids(Missing)' = Ids(Missing)
  BY <1>1 DEF Ids
<1>3. \A x \in Memory' : Accounted(x) /\ Whole(x)
  BY <1>1 DEF PaidIsKept
<1>4. QED
  BY <1>2, <1>3, MemoryStepKeepsPaid

\* Copies of matches are typed, and are of matches that were seated.
LEMMA CopiesAreSeated ==
  ASSUME RingInv
  PROVE  /\ \A i \in Shelves : \A x \in Shelf(i) : x \in Snapshot /\ x.m \in DOMAIN bout
         /\ \A i \in DOMAIN rows : \A x \in rows[i].matchups : x \in Entry /\ x.m \in DOMAIN bout
         /\ \A x \in Memory : x \in Snapshot /\ x.m \in DOMAIN bout
         /\ \A x \in ring.matchups : x \in Entry /\ x.m \in DOMAIN bout
<1>1. /\ rows \in Seq(Row) /\ campaign \in SUBSET Snapshot /\ ring \in Session
      /\ DOMAIN rows = 1..Last /\ Last \in Nat
      /\ \A i \in DOMAIN rows : rows[i] \in Row
  BY LenProperties, ElementOfSeq DEF RingInv, RingTypes, Last
<1>2. /\ \A x \in campaign \cup Memory \cup ring.matchups : x.m \in DOMAIN bout
      /\ \A i \in DOMAIN rows : \A x \in rows[i].open \cup rows[i].matchups : x.m \in DOMAIN bout
  BY DEF RingInv, CopiesAreComparable, Comparable
<1>3. \A i \in DOMAIN rows : rows[i].open \in SUBSET Snapshot /\ rows[i].matchups \in SUBSET Entry
  BY <1>1 DEF Row
<1>4. Memory \subseteq Snapshot /\ ring.matchups \subseteq Entry
  BY <1>1 DEF Memory, Session
<1>5. \A i \in Shelves : \A x \in Shelf(i) : x \in Snapshot /\ x.m \in DOMAIN bout
  BY <1>1, <1>2, <1>3 DEF Shelves, Shelf
<1>6. QED
  BY <1>2, <1>3, <1>4, <1>5

\* The rounds remembered of a match are a number, as are those that could not be read.
LEMMA PaidAreNumbers ==
  ASSUME PaidInv, NEW m \in DOMAIN bout
  PROVE  paid[m] \in Nat /\ unread[m] \in Nat
<1>1. /\ m \in 1..Len(bout) /\ Len(paid) = Len(bout) /\ paid \in Seq(Nat)
      /\ Len(unread) = Len(bout) /\ unread \in Seq(Nat)
  BY LenProperties DEF PaidInv, OnceInv, RingInv, RingTypes, PaidIsKept
<1>2. QED
  BY <1>1, ElementOfSeq

\* A session that fails takes with it what was in memory only, which is written off.
LEMMA FailKeepsPaid ==
  ASSUME PaidInv, Fail
  PROVE  PaidIsKept'
<1> USE DEF PaidInv, OnceInv
<1>1. /\ UNCHANGED <<rows, campaign, bout, unread>> /\ torn \subseteq torn'
      /\ Shelves' = Shelves /\ \A i : Shelf(i)' = Shelf(i)
  BY DEF Fail, Shelves, Shelf, Last
<1>2. Memory' = {} /\ ring'.matchups = {}
  BY NothingIsASession DEF Fail, Goto, Memory
<1>3. /\ bout \in Seq([ref : Profiles, cha : Profiles])
      /\ Len(bout) \in Nat /\ DOMAIN bout = 1..Len(bout)
      /\ unread \in Seq(Nat) /\ Len(unread) = Len(bout)
  BY LenProperties DEF RingInv, RingTypes, PaidIsKept
<1>4. paid' = [m \in 1..Len(bout) |->
                 IF m \in Ids(Missing) THEN RoundsOn(rows, campaign, m) ELSE paid[m]]
  BY DEF Fail
<1>5. /\ Shelf(0) = campaign /\ 0 \in Shelves
      /\ \A i \in DOMAIN rows : i \in Shelves /\ Shelf(i) = rows[i].open
  BY LenProperties DEF Shelves, Shelf, Last, RingInv, RingTypes
<1>6. /\ \A i \in Shelves : \A x \in Shelf(i) :
           /\ x.m \in DOMAIN bout /\ OnDisk(x) /\ All(x) \in Nat /\ All(x) <= paid[x.m]
           /\ x.aside <= unread[x.m] /\ x.rounds + unread[x.m] >= All(x)
      /\ \A i \in DOMAIN rows : \A x \in rows[i].matchups :
           /\ x.m \in DOMAIN bout /\ OnDisk(x) /\ Whole(x) /\ All(x) \in Nat
           /\ All(x) <= paid[x.m] /\ x.aside <= unread[x.m]
           /\ x.rounds \in Nat /\ unread[x.m] \in Nat
  <2>1. ASSUME NEW i \in Shelves, NEW x \in Shelf(i)
        PROVE  /\ x.m \in DOMAIN bout /\ OnDisk(x) /\ All(x) \in Nat /\ All(x) <= paid[x.m]
               /\ x.aside <= unread[x.m] /\ x.rounds + unread[x.m] >= All(x)
    <3>1. x \in Snapshot /\ x.m \in DOMAIN bout /\ OnDisk(x)
      BY CopiesAreSeated DEF PaidIsKept
    <3>2. unread[x.m] \in Nat
      BY <3>1, PaidAreNumbers
    <3>3. x.aside <= unread[x.m] /\ All(x) <= paid[x.m]
      BY <3>1 DEF OnDisk, Accounted
    <3>4. QED
      BY <3>1, <3>2, <3>3, RoundsAreNumbers
  <2>2. ASSUME NEW i \in DOMAIN rows, NEW x \in rows[i].matchups
        PROVE  /\ x.m \in DOMAIN bout /\ OnDisk(x) /\ Whole(x) /\ All(x) \in Nat
               /\ All(x) <= paid[x.m] /\ x.aside <= unread[x.m]
               /\ x.rounds \in Nat /\ unread[x.m] \in Nat
    <3>1. x \in Entry /\ x.m \in DOMAIN bout /\ OnDisk(x) /\ Whole(x)
      BY CopiesAreSeated DEF PaidIsKept
    <3>2. unread[x.m] \in Nat
      BY <3>1, PaidAreNumbers
    <3>3. x.aside <= unread[x.m] /\ All(x) <= paid[x.m]
      BY <3>1 DEF OnDisk, Accounted
    <3>4. QED
      BY <3>1, <3>2, <3>3, RoundsAreNumbers
  <2>3. QED
    BY <2>1, <2>2
<1>7. ASSUME NEW m \in DOMAIN bout
      PROVE  /\ paid'[m] \in Nat /\ paid'[m] <= paid[m]
             /\ \A i \in Shelves : \A x \in Shelf(i) : x.m = m => All(x) <= paid'[m]
             /\ \A i \in DOMAIN rows : \A x \in rows[i].matchups : x.m = m => All(x) <= paid'[m]
             /\ \/ paid'[m] = 0
                \/ paid'[m] = paid[m] /\ m \notin Ids(Missing)
                \/ \E i \in Shelves : \E x \in Shelf(i) : x.m = m /\ All(x) = paid'[m]
                \/ \E i \in DOMAIN rows : m \in Ids(rows[i].matchups)
  <2>1. paid[m] \in Nat
    BY PaidAreNumbers
  <2>2. CASE m \notin Ids(Missing)
    <3>1. paid'[m] = paid[m]
      BY <1>3, <1>4, <2>2
    <3>2. QED
      BY <1>6, <2>1, <2>2, <3>1
  <2>3. CASE m \in Ids(Missing)
    <3>1. PICK n : n = RoundsOn(rows, campaign, m)
      OBVIOUS
    <3>2. \A x \in campaign : x.m = m => All(x) \in Nat /\ All(x) <= paid[m]
      BY <1>5, <1>6
    <3>3. \A i \in DOMAIN rows : \A x \in rows[i].open \cup rows[i].matchups :
            x.m = m => All(x) \in Nat /\ All(x) <= paid[m]
      BY <1>5, <1>6
    <3>4. /\ n \in Nat
          /\ \A x \in campaign : x.m = m => All(x) <= n
          /\ \A i \in DOMAIN rows : \A x \in rows[i].open \cup rows[i].matchups :
               x.m = m => All(x) <= n
          /\ \/ n = 0
             \/ \E x \in campaign : x.m = m /\ All(x) = n
             \/ \E i \in DOMAIN rows : \E x \in rows[i].open \cup rows[i].matchups :
                  x.m = m /\ All(x) = n
      BY <2>1, <3>1, <3>2, <3>3, RoundsOnDisk
    <3>5. paid'[m] = n
      BY <1>3, <1>4, <2>3, <3>1
    <3>6. n <= paid[m]
      BY <2>1, <3>2, <3>3, <3>4
    <3>7. /\ \A i \in Shelves : \A x \in Shelf(i) : x.m = m => All(x) <= n
          /\ \A i \in DOMAIN rows : \A x \in rows[i].matchups : x.m = m => All(x) <= n
      <4>1. \A i \in Shelves : i = 0 \/ i \in DOMAIN rows
        BY LenProperties DEF Shelves, Last, RingInv, RingTypes
      <4>2. QED
        BY <1>5, <3>4, <4>1
    <3>8. \/ n = 0
          \/ \E i \in Shelves : \E x \in Shelf(i) : x.m = m /\ All(x) = n
          \/ \E i \in DOMAIN rows : m \in Ids(rows[i].matchups)
      BY <1>5, <3>4 DEF Ids
    <3>9. QED
      BY <3>4, <3>5, <3>6, <3>7, <3>8
  <2>4. QED
    BY <2>2, <2>3
<1>8. paid' \in Seq(Nat) /\ Len(paid') = Len(bout')
  <2>1. paid' \in [1..Len(bout) -> Nat]
    BY <1>3, <1>4, <1>7
  <2>2. QED
    BY <1>1, <1>3, <2>1, IsASeq, LenProperties
<1>9. /\ \A i \in Shelves : \A x \in Shelf(i) : OnDisk(x)'
      /\ \A i \in DOMAIN rows : \A x \in rows[i].matchups : OnDisk(x)'
  BY <1>1, <1>6, <1>7 DEF OnDisk, Accounted, All
<1>10. ASSUME NEW i \in DOMAIN rows, NEW x \in rows[i].matchups PROVE Whole(x)'
  <2>1. /\ x.m \in DOMAIN bout /\ Whole(x) /\ x.rounds \in Nat /\ unread[x.m] \in Nat
        /\ paid[x.m] \in Nat
    BY <1>6, PaidAreNumbers
  <2>2. paid'[x.m] \in Nat /\ paid'[x.m] <= paid[x.m]
    BY <1>7, <2>1
  <2>3. QED
    BY <1>1, <2>1, <2>2 DEF Whole
<1>11. ASSUME NEW m \in DOMAIN bout \ torn'
       PROVE  \/ paid'[m] = 0
              \/ \E i \in Shelves : \E x \in Shelf(i) : x.m = m /\ Whole(x)'
              \/ \E i \in DOMAIN rows : m \in Ids(rows[i].matchups)
  <2>1. CASE \E i \in Shelves : \E x \in Shelf(i) : x.m = m /\ All(x) = paid'[m]
    <3>1. PICK i \in Shelves : \E x \in Shelf(i) : x.m = m /\ All(x) = paid'[m]
      BY <2>1
    <3>2. PICK x \in Shelf(i) : x.m = m /\ All(x) = paid'[m]
      BY <3>1
    <3>3. Whole(x)'
      BY <1>1, <1>6, <3>2 DEF Whole
    <3>4. QED
      BY <3>2, <3>3
  <2>2. CASE paid'[m] = paid[m] /\ m \notin Ids(Missing)
    <3>1. \A x : x.m = m => (Whole(x)' <=> Whole(x))
      BY <1>1, <2>2 DEF Whole
    <3>2. QED
      BY <1>1, <2>2, <3>1 DEF PaidIsKept
  <2>3. QED
    BY <1>7, <2>1, <2>2
<1>12. \A i \in DOMAIN rows : Ids(rows[i].matchups)' = Ids(rows[i].matchups)
  BY <1>1 DEF Ids
<1>13. QED
  BY <1>1, <1>2, <1>3, <1>8, <1>9, <1>10, <1>11, <1>12 DEF PaidIsKept

\* The look at the published methodology and the end of the seating measure nothing.
LEMMA QuietStepsKeepPaid ==
  ASSUME PaidInv, Notice \/ Seated
  PROVE  PaidIsKept'
BY NoMatchMovesOnPaid DEF PaidInv, Notice, Seated, NoCommit, Goto

\* Nor do the end of the window, a seam and an opening leg.
LEMMA SessionFlagsKeepPaid ==
  ASSUME PaidInv, WindowEnds \/ Yield \/ OpeningLeg
  PROVE  PaidIsKept'
<1>1. ring \in Session
  BY DEF PaidInv, OnceInv, RingInv, RingTypes
<1>2. \/ ring' = ring
      \/ ring' = [ring EXCEPT !.over = TRUE]
      \/ \E l : ring' = [ring EXCEPT !.lead = l]
  BY DEF WindowEnds, Yield, OpeningLeg, Goto
<1>3. /\ ring'.seated = ring.seated /\ ring'.carried = ring.carried
      /\ ring'.doomed = ring.doomed /\ ring'.matchups = ring.matchups
      /\ ring'.taken = ring.taken
  BY <1>1, <1>2 DEF Session
<1>4. NoWrite /\ UNCHANGED bout
  BY DEF WindowEnds, Yield, OpeningLeg, NoCommit
<1>5. QED
  BY <1>3, <1>4, NoMatchMovesOnPaid DEF PaidInv

\* A challenger's leg adds no round before the closing leg.
LEMMA ChallengerLegKeepsPaid ==
  ASSUME PaidInv, ChallengerLeg
  PROVE  PaidIsKept'
<1>1. PICK s, l : ring' = [ring EXCEPT !.pending = @ \cup {[s |-> s, leg |-> l]}]
  BY DEF ChallengerLeg, Goto
<1>2. ring \in Session
  BY DEF PaidInv, OnceInv, RingInv, RingTypes
<1>3. /\ ring'.seated = ring.seated /\ ring'.carried = ring.carried
      /\ ring'.doomed = ring.doomed /\ ring'.matchups = ring.matchups
      /\ ring'.taken = ring.taken
  BY <1>1, <1>2 DEF Session
<1>4. QED
  BY <1>3, NoMatchMovesOnPaid DEF PaidInv, ChallengerLeg

\* Without a defender a session fails, or goes on to its end.
LEMMA NoDefenderKeepsPaid ==
  ASSUME PaidInv, NoDefender
  PROVE  PaidIsKept'
<1>1. CASE Fail
  BY <1>1, FailKeepsPaid
<1>2. CASE Goto("ending", ring) /\ NoCommit /\ UNCHANGED <<current, bout, reading>>
  BY <1>2, NoMatchMovesOnPaid DEF Goto, NoCommit, PaidInv
<1>3. QED
  BY <1>1, <1>2 DEF NoDefender

\* A match as it is rebuilt is as whole as its snapshot.
LEMMA RebuiltIsWhole ==
  ASSUME PaidInv, NEW s \in Memory
  PROVE  /\ Rebuilt(s).m = s.m
         /\ Accounted(Rebuilt(s)) /\ Whole(Rebuilt(s))
<1>1. s \in Snapshot /\ s.m \in DOMAIN bout
  BY CopiesAreSeated DEF PaidInv, OnceInv
<1>2. Rebuilt(s).m = s.m /\ Rebuilt(s).rounds = s.rounds /\ Rebuilt(s).aside = 0
  BY <1>1, RebuiltSnapshot
<1>3. unread[s.m] \in Nat /\ Whole(s)
  BY <1>1, PaidAreNumbers DEF PaidInv, PaidIsKept
<1>4. QED
  BY <1>2, <1>3 DEF Accounted, Whole

\* A carried match that is out of the ring is missing until it is recorded.
LEMMA DefendKeepsPaid ==
  ASSUME PaidInv, NoWrite, UNCHANGED bout, NEW d, NEW resume, Defend(d, resume)
  PROVE  PaidIsKept'
<1>1. PICK out \in SUBSET ring.carried, again \in SUBSET Rematches(d) :
        Goto("seat",
             [ring EXCEPT !.ref = d, !.draining = FALSE, !.resuming = resume,
                          !.lead = IF ring.ref = d THEN @ ELSE NoLeg,
                          !.carried = @ \ out, !.doomed = @ \cup {Rebuilt(s) : s \in out},
                          !.fought = @ \ again, !.rematched = @ \cup again])
  BY Zenon DEF Defend
<1>2. ring \in Session
  BY DEF PaidInv, OnceInv, RingInv, RingTypes
<1> DEFINE gone == {Rebuilt(s) : s \in out}
<1>3. /\ ring'.seated = ring.seated /\ ring'.carried = ring.carried \ out
      /\ ring'.doomed = ring.doomed \cup gone /\ ring'.matchups = ring.matchups
      /\ ring'.taken = ring.taken
  BY <1>1, <1>2 DEF Session, Goto
<1>4. \A s \in out : s \in Memory
  BY DEF Memory
<1>5. \A x \in gone : Accounted(x) /\ Whole(x)
  BY <1>4, RebuiltIsWhole
<1>6. \A s \in out : \E x \in gone : x.m = s.m
  <2> SUFFICES ASSUME NEW s \in out PROVE \E x \in gone : x.m = s.m
    OBVIOUS
  <2>1. Rebuilt(s) \in gone /\ Rebuilt(s).m = s.m
    BY <1>4, RebuiltIsWhole
  <2>2. QED
    BY <2>1
<1> HIDE DEF gone
<1>7. \A x \in Memory' : x \in Memory \/ x \in gone
  BY <1>3 DEF Memory
<1>8. \A x \in Memory : \E y \in Memory' : y.m = x.m
  BY <1>3, <1>6 DEF Memory
<1>9. \A m : m \in Ids(Missing) => m \in Ids(Missing)'
  <2>1. \A x \in Missing : \E y \in Missing' : y.m = x.m
    BY <1>3, <1>8 DEF Missing
  <2>2. QED
    BY <2>1 DEF Ids
<1>10. \A x \in Memory' : Accounted(x) /\ Whole(x)
  BY <1>5, <1>7 DEF PaidInv, PaidIsKept
<1>11. QED
  BY <1>3, <1>9, <1>10, MemoryStepKeepsPaid DEF PaidInv

\* A new defender may have to wait.
LEMMA ChooseDefenderKeepsPaid ==
  ASSUME PaidInv, ChooseDefender
  PROVE  PaidIsKept'
<1>1. PICK resume \in BOOLEAN : \E d \in Defenders(resume) :
        IF ring.seated # {} /\ d # ring.ref
        THEN Goto("stale", [ring EXCEPT !.draining = TRUE])
        ELSE Defend(d, resume)
  BY DEF ChooseDefender
<1>2. CASE Goto("stale", [ring EXCEPT !.draining = TRUE])
  <2>1. ring' = [ring EXCEPT !.draining = TRUE] /\ ring \in Session
    BY <1>2 DEF Goto, PaidInv, OnceInv, RingInv, RingTypes
  <2>2. /\ ring'.seated = ring.seated /\ ring'.carried = ring.carried
        /\ ring'.doomed = ring.doomed /\ ring'.matchups = ring.matchups
        /\ ring'.taken = ring.taken
    BY <2>1 DEF Session
  <2>3. QED
    BY <2>2, NoMatchMovesOnPaid DEF PaidInv, ChooseDefender, NoCommit
<1>3. CASE \E d : Defend(d, resume)
  BY <1>3, DefendKeepsPaid DEF ChooseDefender, NoCommit
<1>4. QED
  BY <1>1, <1>2, <1>3

\* A carried match takes a seat with its rounds.
LEMMA SeatCarriedKeepsPaid ==
  ASSUME PaidInv, SeatCarried
  PROVE  PaidIsKept'
<1>1. PICK s \in ring.carried :
        Goto(pc, [ring EXCEPT !.carried = @ \ {s}, !.seated = @ \cup {Rebuilt(s)},
                              !.fought = @ \cup {Pair(s.m)}])
  BY DEF SeatCarried
<1>2. ring \in Session
  BY DEF PaidInv, OnceInv, RingInv, RingTypes
<1>3. PICK new : new = Rebuilt(s)
  OBVIOUS
<1>4. /\ ring'.seated = ring.seated \cup {new} /\ ring'.carried = ring.carried \ {s}
      /\ ring'.doomed = ring.doomed /\ ring'.matchups = ring.matchups
      /\ ring'.taken = ring.taken
  BY <1>1, <1>2, <1>3 DEF Session, Goto
<1>5. s \in Memory
  BY DEF Memory
<1>6. new.m = s.m /\ Accounted(new) /\ Whole(new)
  BY <1>3, <1>5, RebuiltIsWhole
<1>7. \A x \in Memory' : x \in Memory \/ x = new
  BY <1>4 DEF Memory
<1>8. \A x \in Memory : \E y \in Memory' : y.m = x.m
  BY <1>4, <1>6 DEF Memory
<1>9. \A m : m \in Ids(Missing) => m \in Ids(Missing)'
  <2>1. \A x \in Missing : \E y \in Missing' : y.m = x.m
    BY <1>4, <1>8 DEF Missing
  <2>2. QED
    BY <2>1 DEF Ids
<1>10. \A x \in Memory' : Accounted(x) /\ Whole(x)
  BY <1>6, <1>7 DEF PaidInv, PaidIsKept
<1>11. QED
  BY <1>4, <1>9, <1>10, MemoryStepKeepsPaid DEF PaidInv, SeatCarried, NoCommit

\* The process dies.
LEMMA DieKeepsPaid ==
  ASSUME PaidInv, Die
  PROVE  PaidIsKept'
BY FailKeepsPaid DEF Die

\* The cycle's legs add rounds in memory; a match that is over stays missing on disk until
\* it is recorded.
LEMMA ClosingLegKeepsPaid ==
  ASSUME PaidInv, ClosingLeg
  PROVE  PaidIsKept'
<1> USE DEF PaidInv, OnceInv
<1>1. /\ ring \in Session /\ pc = "slots" /\ ring.ref \in Profiles
      /\ ring.lead \in {NoLeg, Unusable, LegOf(ring.ref)} /\ ring.doomed = {}
  BY DEF ClosingLeg, RingInv, RingTypes, RingFollowsPc, CopiesAreComparable
<1>2. PICK trail \in IF ring.pending = {} \/ ring.over THEN {NoLeg} ELSE Legs(ring.ref) :
        LET after == {After(p, {ring.lead, trail}) : p \in ring.pending}
            aborted == {s \in after : s.bad >= MaxBad}
        IN  Goto("judge", [ring EXCEPT
              !.seated = ((@ \ Measured) \cup after) \ aborted,
              !.doomed = @ \cup aborted, !.pending = {}, !.lead = trail])
  BY DEF ClosingLeg
<1>3. trail \in {NoLeg, Unusable, LegOf(ring.ref)}
  BY <1>1, LegsAreRead
<1> DEFINE flanks == {ring.lead, trail}
           after == {After(p, flanks) : p \in ring.pending}
           aborted == {s \in after : s.bad >= MaxBad}
<1>4. /\ ring'.seated = ((ring.seated \ Measured) \cup after) \ aborted
      /\ ring'.carried = ring.carried /\ ring'.doomed = aborted
      /\ ring'.matchups = ring.matchups /\ ring'.taken = ring.taken
  BY <1>1, <1>2 DEF Session, Goto
<1>5. \A p \in ring.pending :
        /\ After(p, flanks).m = p.s.m /\ After(p, flanks).rounds >= p.s.rounds
        /\ After(p, flanks).aside = p.s.aside /\ After(p, flanks) \in Snapshot
  BY <1>1, <1>3, AfterALeg
<1>6. /\ Measured = {p.s : p \in ring.pending} /\ Measured \subseteq ring.seated
      /\ Memory \subseteq Snapshot
  BY <1>1 DEF Measured, Memory, Session, RingInv, RingFollowsPc
<1>7. \A x \in after : \E s \in Measured :
        /\ x.m = s.m /\ x.rounds >= s.rounds /\ x.aside = s.aside /\ x \in Snapshot
  BY <1>5, <1>6
<1>8. \A s \in Measured : \E x \in after : x.m = s.m
  <2> SUFFICES ASSUME NEW p \in ring.pending PROVE \E x \in after : x.m = p.s.m
    BY <1>6
  <2>1. After(p, flanks) \in after
    OBVIOUS
  <2>2. QED
    BY <1>5, <2>1
<1>9. aborted \subseteq after
  OBVIOUS
<1> HIDE DEF after, aborted, flanks
<1>10. Memory' = (ring.seated \ Measured) \cup after \cup ring.carried
  BY <1>4, <1>9 DEF Memory
<1>11. ASSUME NEW x \in after PROVE Accounted(x) /\ Whole(x)
  <2>1. PICK s \in Measured :
          /\ x.m = s.m /\ x.rounds >= s.rounds /\ x.aside = s.aside /\ x \in Snapshot
    BY <1>7
  <2>2. s \in Memory /\ s \in Snapshot
    BY <1>6, <2>1 DEF Memory
  <2>3. s.m \in DOMAIN bout /\ Accounted(s) /\ Whole(s)
    BY <2>2, CopiesAreSeated DEF PaidIsKept
  <2>4. /\ unread[s.m] \in Nat /\ paid[s.m] \in Nat /\ s.rounds \in Nat /\ x.rounds \in Nat
    BY <2>1, <2>2, <2>3, PaidAreNumbers, RoundsAreNumbers
  <2>5. Accounted(x)
    BY <2>1, <2>3 DEF Accounted
  <2>6. Whole(x)
    BY <2>1, <2>3, <2>4 DEF Whole
  <2>7. QED
    BY <2>5, <2>6
<1>12. \A x \in Memory' : Accounted(x) /\ Whole(x)
  BY <1>10, <1>11 DEF PaidIsKept, Memory
<1>13. \A m : m \in Ids(Missing) => m \in Ids(Missing)'
  <2>1. CASE ring.taken
    <3>1. Missing = Memory /\ Missing' = Memory'
      BY <1>4, <2>1 DEF Missing
    <3>2. \A s \in Memory : \E x \in Memory' : x.m = s.m
      BY <1>1, <1>8, <1>10 DEF Memory
    <3>3. QED
      BY <3>1, <3>2 DEF Ids
  <2>2. CASE ~ring.taken
    BY <1>1, <2>2 DEF Missing, Ids
  <2>3. QED
    BY <2>1, <2>2
<1>14. QED
  BY <1>4, <1>12, <1>13, MemoryStepKeepsPaid DEF ClosingLeg

\* What is remembered of a match after a write: no less than before, nor than any copy on
\* disk, and no more than what bounds these.
LEMMA PaidGrows ==
  ASSUME PaidInv, RingInv', \E d, c : Write(d, c), UNCHANGED bout,
         NEW m \in DOMAIN bout, NEW b \in Nat, paid[m] <= b,
         \A i \in Shelves' : \A x \in Shelf(i)' : x.m = m => All(x) <= b,
         \A i \in DOMAIN rows' : \A x \in rows'[i].matchups : x.m = m => All(x) <= b
  PROVE  /\ paid'[m] \in Nat /\ paid[m] <= paid'[m] /\ paid'[m] <= b
         /\ \A i \in Shelves' : \A x \in Shelf(i)' : x.m = m => All(x) <= paid'[m]
         /\ \A i \in DOMAIN rows' : \A x \in rows'[i].matchups : x.m = m => All(x) <= paid'[m]
<1>1. PICK d, c : Write(d, c)
  OBVIOUS
<1>2. d \in Seq(Row) /\ c \in SUBSET Snapshot
  BY <1>1 DEF Write, RingInv, RingTypes
<1>3. /\ paid \in Seq(Nat) /\ Len(paid) = Len(bout)
      /\ bout \in Seq([ref : Profiles, cha : Profiles]) /\ paid[m] \in Nat
  BY PaidAreNumbers DEF PaidInv, OnceInv, RingInv, RingTypes, PaidIsKept
<1>4. /\ paid'[m] \in Nat /\ paid'[m] >= paid[m]
      /\ \A i \in Shelves' : \A x \in Shelf(i)' : x.m = m => All(x) <= paid'[m]
      /\ \A i \in DOMAIN rows' : \A x \in rows'[i].matchups : x.m = m => All(x) <= paid'[m]
      /\ \/ paid'[m] = paid[m]
         \/ \E i \in Shelves' : \E x \in Shelf(i)' : x.m = m /\ All(x) = paid'[m]
         \/ \E i \in DOMAIN rows' : \E x \in rows'[i].matchups :
              x.m = m /\ All(x) = paid'[m]
  BY <1>1, <1>2, <1>3, Remembered
<1>5. paid'[m] <= b
  BY <1>3, <1>4
<1>6. paid[m] <= paid'[m]
  BY <1>3, <1>4
<1>7. QED
  BY <1>4, <1>5, <1>6

\* What is remembered after a write is a sequence as long as before.
LEMMA PaidStaysASequence ==
  ASSUME PaidInv, \E d, c : Write(d, c), UNCHANGED bout,
         \A m \in DOMAIN bout : paid'[m] \in Nat
  PROVE  paid' \in Seq(Nat) /\ Len(paid') = Len(bout')
<1>1. PICK d, c : Write(d, c)
  OBVIOUS
<1>2. Len(bout) \in Nat /\ DOMAIN bout = 1..Len(bout)
  BY LenProperties DEF PaidInv, OnceInv, RingInv, RingTypes
<1>3. paid' = [m \in 1..Len(bout) |-> paid'[m]]
  BY <1>1 DEF Write
<1>4. paid' \in [1..Len(bout) -> Nat]
  BY <1>2, <1>3
<1>5. QED
  BY <1>2, <1>4, IsASeq, LenProperties

\* A write that puts no more rounds on disk than were there once remembers nothing new.
LEMMA NothingNew ==
  ASSUME PaidInv, RingInv', \E d, c : Write(d, c), UNCHANGED bout,
         NEW m \in DOMAIN bout,
         \A i \in Shelves' : \A x \in Shelf(i)' : x.m = m => All(x) <= paid[m],
         \A i \in DOMAIN rows' : \A x \in rows'[i].matchups : x.m = m => All(x) <= paid[m]
  PROVE  paid'[m] = paid[m] /\ paid'[m] \in Nat
<1>1. paid[m] \in Nat /\ paid[m] <= paid[m]
  BY PaidAreNumbers
<1>2. paid'[m] \in Nat /\ paid[m] <= paid'[m] /\ paid'[m] <= paid[m]
  BY <1>1, PaidGrows
<1>3. QED
  BY <1>1, <1>2

\* Copies of the next state, too, are of matches that were seated.
LEMMA NextCopiesAreSeated ==
  ASSUME RingInv', UNCHANGED bout
  PROVE  /\ \A i \in Shelves' : \A x \in Shelf(i)' : x.m \in DOMAIN bout
         /\ \A i \in DOMAIN rows' : \A x \in rows'[i].matchups : x.m \in DOMAIN bout
         /\ \A x \in Memory' \cup ring'.matchups : x.m \in DOMAIN bout
<1>1. DOMAIN rows' = 1..Last'
  BY LenProperties DEF RingInv, RingTypes, Last
<1>2. \A i \in Shelves' : \A x \in Shelf(i)' :
        x \in campaign' \/ \E j \in DOMAIN rows' : x \in rows'[j].open
  BY <1>1 DEF Shelves, Shelf
<1>3. QED
  BY <1>2 DEF RingInv, CopiesAreComparable, Comparable

\* A write after which all that is on disk was on disk before.
LEMMA NothingNewKeepsPaid ==
  ASSUME PaidInv, RingInv', \E d, c : Write(d, c), UNCHANGED <<bout, unread, torn>>,
         \A i \in Shelves' : \A x \in Shelf(i)' : OnDisk(x),
         \A i \in DOMAIN rows' : \A x \in rows'[i].matchups : OnDisk(x) /\ Whole(x),
         \A x \in ring'.matchups : OnDisk(x) /\ Whole(x),
         \A x \in Memory' : Accounted(x) /\ Whole(x),
         \A m \in DOMAIN bout \ torn :
           \/ paid[m] = 0
           \/ \E i \in Shelves' : \E x \in Shelf(i)' : x.m = m /\ Whole(x)
           \/ \E i \in DOMAIN rows' : m \in Ids(rows'[i].matchups)
           \/ m \in Ids(Missing)'
  PROVE  PaidIsKept'
<1>1. \A m \in DOMAIN bout : paid'[m] = paid[m] /\ paid'[m] \in Nat
  BY NothingNew DEF OnDisk
<1>2. paid' \in Seq(Nat) /\ Len(paid') = Len(bout')
  BY <1>1, PaidStaysASequence
<1>3. /\ \A i \in Shelves' : \A x \in Shelf(i)' : x.m \in DOMAIN bout
      /\ \A i \in DOMAIN rows' : \A x \in rows'[i].matchups : x.m \in DOMAIN bout
      /\ \A x \in Memory' \cup ring'.matchups : x.m \in DOMAIN bout
  BY NextCopiesAreSeated
<1>4. ASSUME NEW x, x.m \in DOMAIN bout
      PROVE  /\ OnDisk(x) => OnDisk(x)'
             /\ Accounted(x) => Accounted(x)'
             /\ Whole(x) => Whole(x)'
  BY <1>1, <1>4 DEF OnDisk, Accounted, Whole, All
<1>5. unread \in Seq(Nat) /\ Len(unread) = Len(bout)
  BY DEF PaidInv, PaidIsKept
<1>6. /\ \A i \in Shelves' : \A x \in Shelf(i)' : OnDisk(x)'
      /\ \A i \in DOMAIN rows' : \A x \in rows'[i].matchups : OnDisk(x)' /\ Whole(x)'
      /\ \A x \in ring'.matchups : OnDisk(x)' /\ Whole(x)'
      /\ \A x \in Memory' : Accounted(x)' /\ Whole(x)'
  BY <1>3, <1>4
<1>7. \A m \in DOMAIN bout \ torn :
        \/ paid'[m] = 0
        \/ \E i \in Shelves' : \E x \in Shelf(i)' : x.m = m /\ Whole(x)'
        \/ \E i \in DOMAIN rows' : m \in Ids(rows'[i].matchups)
        \/ m \in Ids(Missing)'
  BY <1>1, <1>3, <1>4
<1>8. \A i \in DOMAIN rows' : Ids(rows[i].matchups)' = Ids(rows'[i].matchups)
  BY DEF Ids
<1>9. QED
  BY <1>2, <1>5, <1>6, <1>7, <1>8 DEF PaidIsKept

\* If nothing is missing on disk, and no match is being recorded, a snapshot on a shelf has
\* all the rounds remembered of its match that could be read.
LEMMA ShelvesAreUpToDate ==
  ASSUME PaidInv, ~ring.writing, Missing = {}, NEW i \in Shelves, NEW x \in Shelf(i)
  PROVE  Whole(x)
<1> SUFFICES ASSUME x.m \notin torn PROVE x.rounds + unread[x.m] >= paid[x.m]
  BY DEF Whole
<1>1. x \in Snapshot /\ x.m \in DOMAIN bout
  BY CopiesAreSeated DEF PaidInv, OnceInv
<1>2. x.rounds \in Nat /\ unread[x.m] \in Nat /\ paid[x.m] \in Nat
  BY <1>1, PaidAreNumbers, RoundsAreNumbers
<1>3. \A j \in DOMAIN rows : x.m \notin Ids(rows[j].matchups)
  BY DEF PaidInv, OnceInv, EachMatchOnce, OverOnTheLedger, Ids
<1>4. x.m \notin Ids(Missing)
  BY DEF Ids
<1>5. \/ paid[x.m] = 0
      \/ \E j \in Shelves : \E y \in Shelf(j) : y.m = x.m /\ Whole(y)
  BY <1>1, <1>3, <1>4 DEF PaidInv, PaidIsKept
<1>6. CASE paid[x.m] = 0
  BY <1>2, <1>6
<1>7. CASE \E j \in Shelves : \E y \in Shelf(j) : y.m = x.m /\ Whole(y)
  <2>1. PICK j \in Shelves : \E y \in Shelf(j) : y.m = x.m /\ Whole(y)
    BY <1>7
  <2>2. PICK y \in Shelf(j) : y.m = x.m /\ Whole(y)
    BY <2>1
  <2>3. j = i
    BY <2>2 DEF PaidInv, OnceInv, EachMatchOnce, ShelvesApart
  <2>4. Apart(Shelf(i))
    BY DEF PaidInv, OnceInv, EachMatchOnce, ShelvesApart
  <2>5. y = x
    BY <2>2, <2>3, <2>4 DEF Apart
  <2>6. QED
    BY <2>2, <2>5 DEF Whole
<1>8. QED
  BY <1>5, <1>6, <1>7

\* A new session is a new row, and nothing in memory.
LEMMA StartKeepsPaid ==
  ASSUME PaidInv, RingInv', NEW lever \in BOOLEAN, Start(lever)
  PROVE  PaidIsKept'
<1> USE DEF PaidInv, OnceInv
<1> DEFINE fresh == [open |-> {}, matchups |-> {}]
<1>1. fresh \in Row /\ fresh.open = {} /\ fresh.matchups = {}
  BY DEF Row
<1>2. /\ rows' = Append(rows, fresh) /\ campaign' = campaign /\ rows \in Seq(Row)
      /\ ring = Nothing /\ pc' = "start" /\ UNCHANGED <<bout, unread, torn>>
      /\ \E d, c : Write(d, c)
  BY DEF RingInv, RingTypes, RingFollowsPc, Start, Goto, Commit, Write, struck
<1>3. /\ DOMAIN rows = 1..Last /\ DOMAIN rows' = 1..Last' /\ Last' = Last + 1 /\ Last \in Nat
      /\ rows'[Last'] = fresh /\ \A i \in DOMAIN rows : rows'[i] = rows[i]
  <2>1. /\ rows' \in Seq(Row) /\ Len(rows') = Len(rows) + 1
        /\ \A i \in 1..Len(rows) : rows'[i] = rows[i]
        /\ rows'[Len(rows) + 1] = fresh
    BY <1>1, <1>2, AppendProperties
  <2>2. Len(rows) \in Nat /\ DOMAIN rows = 1..Len(rows) /\ DOMAIN rows' = 1..Len(rows')
    BY <1>2, <2>1, LenProperties
  <2>3. QED
    BY <2>1, <2>2 DEF Last
<1> HIDE DEF fresh
<1>4. Memory' = {} /\ ring'.matchups = {}
  BY <1>2 DEF RingInv, RingFollowsPc
<1>5. Missing = {}
  BY <1>2, NothingIsASession DEF Missing
<1>6. /\ \A i \in Shelves : i \in Shelves' /\ Shelf(i)' = Shelf(i)
      /\ \A i \in Shelves' : \A x \in Shelf(i)' : i \in Shelves /\ x \in Shelf(i)
  BY <1>1, <1>2, <1>3 DEF Shelves, Shelf
<1>7. /\ \A i \in DOMAIN rows : i \in DOMAIN rows' /\ rows'[i].matchups = rows[i].matchups
      /\ \A i \in DOMAIN rows' : \A x \in rows'[i].matchups :
           i \in DOMAIN rows /\ x \in rows[i].matchups
  BY <1>1, <1>3
<1>8. ASSUME NEW m \in DOMAIN bout \ torn
      PROVE  \/ paid[m] = 0
             \/ \E i \in Shelves' : \E x \in Shelf(i)' : x.m = m /\ Whole(x)
             \/ \E i \in DOMAIN rows' : m \in Ids(rows'[i].matchups)
  <2>1. \/ paid[m] = 0
        \/ \E i \in Shelves : \E x \in Shelf(i) : x.m = m /\ Whole(x)
        \/ \E i \in DOMAIN rows : m \in Ids(rows[i].matchups)
    BY <1>5 DEF PaidIsKept, Ids
  <2>2. QED
    BY <1>6, <1>7, <2>1
<1>9. /\ \A i \in Shelves' : \A x \in Shelf(i)' : OnDisk(x)
      /\ \A i \in DOMAIN rows' : \A x \in rows'[i].matchups : OnDisk(x) /\ Whole(x)
  BY <1>6, <1>7 DEF PaidIsKept
<1>10. QED
  BY <1>2, <1>4, <1>8, <1>9, NothingNewKeepsPaid

\* The open matches of a campaign, off its row, are in memory with all their rounds.
LEMMA TakeCampaignKeepsPaid ==
  ASSUME PaidInv, RingInv', TakeCampaign
  PROVE  PaidIsKept'
<1> USE DEF PaidInv, OnceInv
<1>1. /\ ring \in Session /\ pc = "start" /\ Memory = {} /\ ~ring.writing
      /\ rows' = rows /\ campaign' = {} /\ ring.matchups = {}
      /\ UNCHANGED <<bout, unread, torn>>
      /\ ring' = [ring EXCEPT !.carried = campaign, !.rubric = current,
                              !.taken = campaign # {}]
      /\ \E d, c : Write(d, c)
  BY DEF TakeCampaign, Goto, Commit, Write, RingInv, RingTypes, RingFollowsPc, struck
<1>2. /\ ring'.seated = {} /\ ring'.carried = campaign /\ ring'.doomed = {}
      /\ ring'.matchups = {} /\ ring'.taken = (campaign # {})
  BY <1>1 DEF Session, Memory
<1>3. /\ Memory' = campaign /\ Missing' = campaign /\ Missing = {}
      /\ Shelves' = Shelves /\ 0 \in Shelves
  <2>1. Memory' = campaign
    BY <1>2 DEF Memory
  <2>2. Missing' = campaign
    BY <1>2, <2>1 DEF Missing
  <2>3. Missing = {}
    BY <1>1 DEF Missing, Memory
  <2>4. Shelves' = Shelves /\ 0 \in Shelves
    <3>1. Last \in Nat
      BY LenProperties DEF Last, RingInv, RingTypes
    <3>2. QED
      BY <1>1, <3>1 DEF Last, Shelves
  <2>5. QED
    BY <2>1, <2>2, <2>3, <2>4
<1>4. /\ Shelf(0) = campaign /\ Shelf(0)' = {}
      /\ \A i \in Shelves : i # 0 => Shelf(i)' = Shelf(i)
  BY <1>1 DEF Shelf
<1>5. \A x \in Memory' : Accounted(x) /\ Whole(x)
  BY <1>1, <1>3, <1>4, ShelvesAreUpToDate DEF PaidIsKept, OnDisk
<1>6. ASSUME NEW m \in DOMAIN bout \ torn
      PROVE  \/ paid[m] = 0
             \/ \E i \in Shelves' : \E x \in Shelf(i)' : x.m = m /\ Whole(x)
             \/ \E i \in DOMAIN rows' : m \in Ids(rows'[i].matchups)
             \/ m \in Ids(Missing)'
  <2>1. \/ paid[m] = 0
        \/ \E i \in Shelves : \E x \in Shelf(i) : x.m = m /\ Whole(x)
        \/ \E i \in DOMAIN rows : m \in Ids(rows[i].matchups)
    BY <1>3 DEF PaidIsKept, Ids
  <2>2. CASE \E i \in Shelves : \E x \in Shelf(i) : x.m = m /\ Whole(x)
    <3>1. PICK i \in Shelves : \E x \in Shelf(i) : x.m = m /\ Whole(x)
      BY <2>2
    <3>2. CASE i = 0
      BY <1>3, <1>4, <3>1, <3>2 DEF Ids
    <3>3. CASE i # 0
      BY <1>3, <1>4, <3>1, <3>3
    <3>4. QED
      BY <3>2, <3>3
  <2>3. QED
    BY <1>1, <2>1, <2>2
<1>7. /\ \A i \in Shelves' : \A x \in Shelf(i)' : OnDisk(x)
      /\ \A i \in DOMAIN rows' : \A x \in rows'[i].matchups : OnDisk(x) /\ Whole(x)
  BY <1>1, <1>3, <1>4 DEF PaidIsKept
<1>8. QED
  BY <1>1, <1>2, <1>5, <1>6, <1>7, NothingNewKeepsPaid

\* The open matches of an earlier session are on this one's row and in memory, with all
\* their rounds.
LEMMA TakeKeepsPaid ==
  ASSUME PaidInv, RingInv', Take
  PROVE  PaidIsKept'
<1> USE DEF PaidInv, OnceInv
<1>1. /\ ring \in Session /\ pc = "start" /\ Memory = {} /\ ring.matchups = {}
      /\ rows \in Seq(Row) /\ rows # <<>> /\ ~ring.writing /\ rows[Last].open = {}
      /\ Last \in DOMAIN rows /\ DOMAIN rows = 1..Last /\ Last \in Nat /\ UNCHANGED bout
  BY LenProperties, EmptySeq
     DEF Take, RingInv, RingTypes, RingFollowsPc, RowInStep, Last, EachMatchOnce
<1>2. CASE Holder = {}
  <2>1. ring' = [ring EXCEPT !.rubric = current] /\ NoWrite
    BY <1>2 DEF Take, Goto, NoCommit
  <2>2. /\ ring'.seated = ring.seated /\ ring'.carried = ring.carried
        /\ ring'.doomed = ring.doomed /\ ring'.matchups = ring.matchups
        /\ ring'.taken = ring.taken
    BY <1>1, <2>1 DEF Session
  <2>3. QED
    BY <1>1, <2>1, <2>2, NoMatchMovesOnPaid
<1>3. CASE Holder # {}
  <2>1. PICK i \in DOMAIN rows \ {Last} :
          /\ rows' = [rows EXCEPT ![Last].open = rows[i].open, ![i].open = {}]
          /\ campaign' = campaign /\ UNCHANGED <<unread, torn>>
          /\ ring' = [ring EXCEPT !.carried = rows[i].open, !.rubric = current]
          /\ \E d, c : Write(d, c)
    <3>1. (CHOOSE i \in Holder : \A j \in Holder : j <= i) \in DOMAIN rows \ {Last}
      BY <1>3, NewestHolder DEF Holder
    <3>2. PICK i : /\ i = CHOOSE k \in Holder : \A j \in Holder : j <= k
                   /\ Commit([rows EXCEPT ![Last].open = rows[i].open, ![i].open = {}], campaign)
                   /\ ring' = [ring EXCEPT !.carried = rows[i].open, !.rubric = current]
      BY <1>3 DEF Take, Goto
    <3>3. QED
      BY <3>1, <3>2 DEF Commit, Write, struck
  <2>2. /\ DOMAIN rows' = DOMAIN rows /\ Last' = Last
        /\ rows'[Last].open = rows[i].open /\ rows'[i].open = {}
        /\ \A j \in DOMAIN rows : rows'[j].matchups = rows[j].matchups
        /\ \A j \in DOMAIN rows \ {Last, i} : rows'[j] = rows[j]
    BY <1>1, <2>1, TakenOver
  <2>3. /\ ring'.seated = {} /\ ring'.carried = rows[i].open /\ ring'.doomed = {}
        /\ ring'.matchups = {}
    BY <1>1, <2>1 DEF Session, Memory
  <2>4. PICK l : l = Last
    OBVIOUS
  <2>5. /\ Memory' = Shelf(i) /\ Shelves' = Shelves
        /\ i \in Shelves /\ l \in Shelves /\ i # l /\ Shelf(l) = {}
    BY <1>1, <2>1, <2>2, <2>3, <2>4 DEF Memory, Shelves, Shelf
  <2>6. /\ Shelf(l)' = Shelf(i) /\ Shelf(i)' = {}
        /\ \A j \in Shelves : j # i /\ j # l => Shelf(j)' = Shelf(j)
    BY <1>1, <2>1, <2>2, <2>4 DEF Shelf, Shelves
  <2>7. Missing = {}
    BY <1>1 DEF Missing, Memory
  <2>8. \A x \in Memory' : Accounted(x) /\ Whole(x)
    BY <1>1, <2>5, <2>7, ShelvesAreUpToDate DEF PaidIsKept, OnDisk
  <2>9. /\ \A j \in Shelves' : \A x \in Shelf(j)' : OnDisk(x)
        /\ \A j \in DOMAIN rows' : \A x \in rows'[j].matchups : OnDisk(x) /\ Whole(x)
    BY <2>2, <2>5, <2>6 DEF PaidIsKept
  <2>10. ASSUME NEW m \in DOMAIN bout \ torn
         PROVE  \/ paid[m] = 0
                \/ \E j \in Shelves' : \E x \in Shelf(j)' : x.m = m /\ Whole(x)
                \/ \E j \in DOMAIN rows' : m \in Ids(rows'[j].matchups)
    <3>1. \/ paid[m] = 0
          \/ \E j \in Shelves : \E x \in Shelf(j) : x.m = m /\ Whole(x)
          \/ \E j \in DOMAIN rows : m \in Ids(rows[j].matchups)
      BY <2>7 DEF PaidIsKept, Ids
    <3>2. CASE \E j \in Shelves : \E x \in Shelf(j) : x.m = m /\ Whole(x)
      BY <2>5, <2>6, <3>2
    <3>3. QED
      BY <2>2, <3>1, <3>2
  <2>11. QED
    BY <1>1, <2>1, <2>3, <2>8, <2>9, <2>10, NothingNewKeepsPaid
<1>4. QED
  BY <1>2, <1>3

\* The larger of two numbers bounds both.
LEMMA Larger ==
  ASSUME NEW a \in Nat, NEW b \in Nat
  PROVE  \E n \in Nat : a <= n /\ b <= n /\ n \in {a, b}
<1>1. CASE a <= b
  BY <1>1
<1>2. CASE b <= a
  BY <1>2
<1>3. QED
  BY <1>1, <1>2

\* A write of the open matches puts the rounds of what is seated or carried on disk; what is
\* out of the ring stays missing, or the session goes on to record it.
LEMMA PersistStepKeepsPaid ==
  ASSUME PaidInv, RingInv', pc \notin {"out", "start"}, NEW r \in Session, PersistOpen(r),
         UNCHANGED bout,
         r.seated = ring.seated, r.carried = ring.carried, r.lever = ring.lever,
         \/ Goto("out", Nothing) /\ ring.doomed = {}
         \/ /\ ring'.seated = ring.seated /\ ring'.carried = ring.carried
            /\ ring'.doomed = ring.doomed /\ ring'.matchups = ring.matchups
  PROVE  PaidIsKept'
<1> USE DEF PaidInv, OnceInv, EachMatchOnce
<1>0. PICK o : o = Own
  OBVIOUS
<1> DEFINE S == ring.seated \cup ring.carried
<1>1. /\ o \in Shelves /\ Shelves' = Shelves /\ Last' = Last
      /\ DOMAIN rows' = DOMAIN rows /\ Last \in DOMAIN rows
      /\ Shelf(o)' = S
      /\ \A i \in Shelves : i # o => Shelf(i)' = Shelf(i)
      /\ \A i \in DOMAIN rows : rows'[i].matchups = rows[i].matchups
      /\ UNCHANGED <<unread, torn>> /\ \E d, c : Write(d, c)
  <2>1. UNCHANGED <<unread, torn>> /\ \E d, c : Write(d, c)
    BY DEF PersistOpen, Commit, struck
  <2>2. QED
    BY <1>0, <2>1, OwnShelfPersisted
<1>2. S \subseteq Memory /\ \A x \in Memory : x \in S \/ x \in ring.doomed
  BY DEF Memory
<1> HIDE DEF S
<1>3. /\ \A i \in Shelves : i # o => \A x \in Shelf(i), y \in Memory :
           x.m = y.m => x.m \in torn
      /\ \A i \in DOMAIN rows : \A y \in rows[i].matchups : y.m \notin torn => y.m \notin Ids(S)
      /\ \A x, y \in Memory : x.m = y.m => x = y
      /\ \A y \in ring.matchups : y.m \notin torn => y.m \notin Ids(S)
      /\ Ids(Shelf(o)) \subseteq Ids(Memory \cup ring.matchups) \cup torn
  <2>1. /\ \A i \in Shelves : i # o => \A x \in Shelf(i), y \in Memory :
             x.m = y.m => x.m \in torn
        /\ \A x, y \in Memory : x.m = y.m => x = y
        /\ Ids(Shelf(o)) \subseteq Ids(Memory \cup ring.matchups) \cup torn
    BY <1>0 DEF OnOwnShelf, MemoryApart, Apart
  <2>2. \A i \in DOMAIN rows : \A y \in rows[i].matchups : y.m \notin torn => y.m \notin Ids(S)
    BY <1>2 DEF OverOnTheLedger, Ids
  <2>3. \A y \in ring.matchups : y.m \notin torn => y.m \in Ids(rows[Last].matchups)
    BY DEF RowInStep, Ids
  <2>4. \A y \in ring.matchups : y.m \notin torn => y.m \notin Ids(S)
    BY <1>1, <2>2, <2>3 DEF Ids
  <2>5. QED
    BY <2>1, <2>2, <2>4
<1>4. /\ \A x \in Memory' : x \in Memory
      /\ \A x \in ring'.matchups : x \in ring.matchups
      /\ ring.doomed \subseteq Missing'
  <2>1. CASE Goto("out", Nothing) /\ ring.doomed = {}
    BY <2>1, NothingIsASession DEF Goto, Memory, Missing
  <2>2. CASE /\ ring'.seated = ring.seated /\ ring'.carried = ring.carried
             /\ ring'.doomed = ring.doomed /\ ring'.matchups = ring.matchups
    BY <2>2 DEF Memory, Missing
  <2>3. QED
    BY <2>1, <2>2
<1>5. /\ \A x \in Memory : x.m \in DOMAIN bout /\ x \in Snapshot
      /\ \A x \in ring.matchups : x.m \in DOMAIN bout /\ x \in Entry
      /\ \A i \in Shelves : \A x \in Shelf(i) : x.m \in DOMAIN bout /\ x \in Snapshot
      /\ \A i \in DOMAIN rows : \A x \in rows[i].matchups : x.m \in DOMAIN bout /\ x \in Entry
  BY CopiesAreSeated
<1>6. \A m \in DOMAIN bout : paid[m] \in Nat /\ unread[m] \in Nat
  BY PaidAreNumbers
<1>7. \A i \in Shelves' : \A x \in Shelf(i)' : x \in S \/ (i # o /\ x \in Shelf(i))
  BY <1>1
<1>8. ASSUME NEW s \in S
      PROVE  /\ s.m \in DOMAIN bout /\ paid'[s.m] \in Nat /\ paid[s.m] <= paid'[s.m]
             /\ All(s) <= paid'[s.m]
             /\ s.m \notin torn => s.rounds + unread[s.m] >= paid'[s.m]
  <2>1. s \in Memory /\ s.m \in DOMAIN bout /\ s \in Snapshot /\ Accounted(s) /\ Whole(s)
    BY <1>2, <1>5 DEF PaidIsKept
  <2>2. /\ paid[s.m] \in Nat /\ unread[s.m] \in Nat /\ s.rounds \in Nat /\ s.aside \in Nat
        /\ All(s) \in Nat /\ All(s) = s.rounds + s.aside
    BY <1>6, <2>1, RoundsAreNumbers
  <2>3. PICK b \in Nat : paid[s.m] <= b /\ All(s) <= b /\ b \in {paid[s.m], All(s)}
    BY <2>2, Larger
  <2>4. \A x \in S : x.m = s.m => x = s
    BY <1>2, <1>3
  <2>5. ASSUME NEW i \in Shelves', NEW x \in Shelf(i)', x.m = s.m PROVE All(x) <= b
    <3>1. CASE x \in S
      BY <2>3, <2>4, <2>5, <3>1
    <3>2. CASE i # o /\ x \in Shelf(i)
      <4>1. x \in Snapshot /\ All(x) <= paid[s.m]
        BY <1>1, <1>5, <2>5, <3>2 DEF PaidIsKept, OnDisk
      <4>2. QED
        BY <2>2, <2>3, <4>1, RoundsAreNumbers
    <3>3. QED
      BY <1>7, <3>1, <3>2
  <2>6. ASSUME NEW i \in DOMAIN rows', NEW x \in rows'[i].matchups, x.m = s.m PROVE All(x) <= b
    <3>1. x \in Entry /\ All(x) <= paid[s.m]
      BY <1>1, <1>5, <2>6 DEF PaidIsKept, OnDisk
    <3>2. QED
      BY <2>2, <2>3, <3>1, RoundsAreNumbers
  <2>7. /\ paid'[s.m] \in Nat /\ paid[s.m] <= paid'[s.m] /\ paid'[s.m] <= b
        /\ \A i \in Shelves' : \A x \in Shelf(i)' : x.m = s.m => All(x) <= paid'[s.m]
    BY <1>1, <2>1, <2>3, <2>5, <2>6, PaidGrows
  <2>8. All(s) <= paid'[s.m]
    BY <1>1, <2>7
  <2>9. ASSUME s.m \notin torn PROVE s.rounds + unread[s.m] >= paid'[s.m]
    <3>1. s.rounds + unread[s.m] >= paid[s.m] /\ s.aside <= unread[s.m]
      BY <2>1, <2>9 DEF Accounted, Whole
    <3>2. s.rounds + unread[s.m] >= b
      BY <2>2, <2>3, <3>1
    <3>3. QED
      BY <2>2, <2>7, <3>2
  <2>10. QED
    BY <2>1, <2>7, <2>8, <2>9
<1>9. ASSUME NEW m \in DOMAIN bout, m \notin Ids(S)
      PROVE  paid'[m] = paid[m] /\ paid'[m] \in Nat
  <2>1. \A i \in Shelves' : \A x \in Shelf(i)' : x.m = m => All(x) <= paid[m]
    BY <1>1, <1>7, <1>9 DEF Ids, PaidIsKept, OnDisk
  <2>2. \A i \in DOMAIN rows' : \A x \in rows'[i].matchups : x.m = m => All(x) <= paid[m]
    BY <1>1 DEF PaidIsKept, OnDisk
  <2>3. QED
    BY <1>1, <2>1, <2>2, NothingNew
<1>10. \A m \in DOMAIN bout : paid'[m] \in Nat /\ paid[m] <= paid'[m]
  BY <1>6, <1>8, <1>9 DEF Ids
<1>11. paid' \in Seq(Nat) /\ Len(paid') = Len(bout')
  BY <1>1, <1>10, PaidStaysASequence
<1>12. ASSUME NEW x \in Snapshot \cup Entry, x.m \in DOMAIN bout, OnDisk(x) PROVE OnDisk(x)'
  <2>1. All(x) \in Nat /\ All(x) <= paid[x.m] /\ paid[x.m] \in Nat /\ x.aside <= unread[x.m]
    BY <1>6, <1>12, RoundsAreNumbers DEF OnDisk, Accounted
  <2>2. All(x) <= paid'[x.m]
    BY <1>10, <1>12, <2>1
  <2>3. QED
    BY <1>1, <2>1, <2>2 DEF OnDisk, Accounted, All
<1>13. ASSUME NEW x, x.m \in DOMAIN bout, x.m \notin torn => x.m \notin Ids(S), Whole(x)
       PROVE  Whole(x)'
  BY <1>1, <1>9, <1>13 DEF Whole
<1>14. ASSUME NEW s \in S PROVE OnDisk(s)' /\ Whole(s)'
  <2>1. s.aside <= unread[s.m]
    BY <1>2 DEF PaidIsKept, Accounted
  <2>2. QED
    BY <1>1, <1>8, <2>1 DEF OnDisk, Accounted, Whole, All
<1>15. \A i \in Shelves' : \A x \in Shelf(i)' : OnDisk(x)'
  BY <1>1, <1>5, <1>7, <1>12, <1>14 DEF PaidIsKept
<1>16. \A i \in DOMAIN rows' : \A x \in rows'[i].matchups : OnDisk(x)' /\ Whole(x)'
  BY <1>1, <1>3, <1>5, <1>12, <1>13 DEF PaidIsKept
<1>17. \A x \in ring'.matchups : OnDisk(x)' /\ Whole(x)'
  BY <1>3, <1>4, <1>5, <1>12, <1>13 DEF PaidIsKept
<1>18. ASSUME NEW x \in Memory' PROVE Accounted(x)' /\ Whole(x)'
  <2>1. x \in Memory /\ x.m \in DOMAIN bout /\ Accounted(x) /\ Whole(x)
    BY <1>4, <1>5 DEF PaidIsKept
  <2>2. Accounted(x)'
    BY <1>1, <2>1 DEF Accounted
  <2>3. CASE x.m \in Ids(S)
    <3>1. PICK s \in S : s.m = x.m
      BY <2>3 DEF Ids
    <3>2. x = s
      BY <1>2, <1>3, <2>1, <3>1
    <3>3. QED
      BY <1>14, <2>2, <3>2
  <2>4. CASE x.m \notin Ids(S)
    BY <1>13, <2>1, <2>2, <2>4
  <2>5. QED
    BY <2>3, <2>4
<1>19. ASSUME NEW m \in DOMAIN bout \ torn
       PROVE  \/ paid'[m] = 0
              \/ \E i \in Shelves' : \E x \in Shelf(i)' : x.m = m /\ Whole(x)'
              \/ \E i \in DOMAIN rows' : m \in Ids(rows'[i].matchups)
              \/ m \in Ids(Missing)'
  <2>1. CASE m \in Ids(S)
    BY <1>1, <1>14, <2>1 DEF Ids
  <2>2. CASE m \in Ids(Memory) /\ m \notin Ids(S)
    BY <1>2, <1>4, <2>2 DEF Ids
  <2>3. CASE m \notin Ids(S) /\ m \notin Ids(Memory)
    <3>1. paid'[m] = paid[m]
      BY <1>9, <2>3
    <3>2. m \notin Ids(Missing)
      BY <2>3 DEF Ids, Missing, Memory
    <3>3. \/ paid[m] = 0
          \/ \E i \in Shelves : \E x \in Shelf(i) : x.m = m /\ Whole(x)
          \/ \E i \in DOMAIN rows : m \in Ids(rows[i].matchups)
      BY <3>2 DEF PaidIsKept
    <3>4. ASSUME NEW x \in Shelf(o), x.m = m
          PROVE  \E i \in DOMAIN rows : m \in Ids(rows[i].matchups)
      <4>1. m \in Ids(ring.matchups)
        BY <1>3, <2>3, <3>4 DEF Ids
      <4>2. m \in Ids(rows[Last].matchups)
        BY <4>1 DEF RowInStep
      <4>3. QED
        BY <1>1, <4>2
    <3>5. \A x : x.m = m /\ Whole(x) => Whole(x)'
      BY <1>13, <2>3
    <3>6. QED
      BY <1>1, <3>1, <3>3, <3>4, <3>5
  <2>4. QED
    BY <2>1, <2>2, <2>3
<1>20. unread' \in Seq(Nat) /\ Len(unread') = Len(bout')
  BY <1>1 DEF PaidIsKept
<1>21. \A i \in DOMAIN rows' : Ids(rows[i].matchups)' = Ids(rows'[i].matchups)
  BY DEF Ids
<1>22. QED
  BY <1>1, <1>11, <1>15, <1>16, <1>17, <1>18, <1>19, <1>20, <1>21 DEF PaidIsKept

\* The second transaction of a close.
LEMMA SyncKeepsPaid ==
  ASSUME PaidInv, RingInv', Sync
  PROVE  PaidIsKept'
<1>1. /\ ring' = [ring EXCEPT !.writing = FALSE, !.taken = FALSE] /\ UNCHANGED bout
      /\ ring \in Session /\ pc \notin {"out", "start"} /\ PersistOpen(ring)
  BY NothingIsASession
     DEF Sync, Goto, PaidInv, OnceInv, RingInv, RingTypes, RingFollowsPc
<1>2. /\ ring'.seated = ring.seated /\ ring'.carried = ring.carried
      /\ ring'.doomed = ring.doomed /\ ring'.matchups = ring.matchups
  BY <1>1 DEF Session
<1>3. QED
  BY <1>1, <1>2, PersistStepKeepsPaid

\* The write at the end of a cycle.
LEMMA JudgedKeepsPaid ==
  ASSUME PaidInv, RingInv', Judged
  PROVE  PaidIsKept'
BY PersistStepKeepsPaid DEF Judged, Goto, PaidInv, OnceInv, RingInv, RingTypes

\* The write at the end of a session.
LEMMA CloseKeepsPaid ==
  ASSUME PaidInv, RingInv', Close
  PROVE  PaidIsKept'
<1>1. ring.doomed = {} /\ ring \in Session /\ pc \notin {"out", "start"}
  BY DEF Close, PaidInv, OnceInv, RingInv, RingTypes, RingFollowsPc
<1>2. QED
  BY <1>1, PersistStepKeepsPaid DEF Close

\* The write before the first leg.
LEMMA WriteOpenKeepsPaid ==
  ASSUME PaidInv, RingInv', WriteOpen
  PROVE  PaidIsKept'
<1>1. /\ pc = "stale" /\ ring \in Session /\ PersistOpen(ring) /\ ring.doomed = {}
      /\ UNCHANGED bout
      /\ Goto("out", Nothing) \/ ring' = [ring EXCEPT !.taken = FALSE]
  BY DEF WriteOpen, Goto, PaidInv, OnceInv, RingInv, RingTypes
<1>2. \/ Goto("out", Nothing)
      \/ /\ ring'.seated = ring.seated /\ ring'.carried = ring.carried
         /\ ring'.doomed = ring.doomed /\ ring'.matchups = ring.matchups
  BY <1>1 DEF Session
<1>3. QED
  BY <1>1, <1>2, PersistStepKeepsPaid

\* The write of a ring that starts afresh.
LEMMA ReseedKeepsPaid ==
  ASSUME PaidInv, RingInv', Reseed
  PROVE  PaidIsKept'
<1> DEFINE r == [ring EXCEPT !.rubric = current, !.fought = {}, !.rematched = {},
                             !.ref = NoProfile, !.draining = FALSE, !.lead = NoLeg]
<1>1. /\ pc = "reseed" /\ ring \in Session /\ current \in Versions /\ UNCHANGED bout
      /\ PersistOpen(r) /\ ring' = [r EXCEPT !.taken = FALSE]
  BY DEF Reseed, Goto, PaidInv, OnceInv, RingInv, RingTypes
<1>2. /\ r \in Session /\ r.seated = ring.seated /\ r.carried = ring.carried
      /\ r.doomed = ring.doomed /\ r.matchups = ring.matchups /\ r.lever = ring.lever
  BY <1>1 DEF Session
<1> HIDE DEF r
<1>3. /\ ring'.seated = ring.seated /\ ring'.carried = ring.carried
      /\ ring'.doomed = ring.doomed /\ ring'.matchups = ring.matchups
  BY <1>1, <1>2 DEF Session
<1>4. QED
  BY <1>1, <1>2, <1>3, PersistStepKeepsPaid

\* The record of a match puts its rounds on the ledger.
LEMMA RecordAsKeepsPaid ==
  ASSUME PaidInv, RingInv', NEW s \in ring.seated \cup ring.doomed, NEW won \in BOOLEAN,
         RecordAs(s, won)
  PROVE  PaidIsKept'
<1> USE DEF PaidInv, OnceInv, EachMatchOnce
<1>0. PICK rec : rec = [m |-> s.m, rubric |-> s.rubric, rounds |-> s.rounds, aside |-> 0,
                        won |-> won, read |-> s.read]
  OBVIOUS
<1>1. s \in Memory /\ s \notin ring.carried
  BY DEF Memory, MemoryApart
<1>2. PICK l : l = Last
  OBVIOUS
<1> DEFINE R == ring.matchups \cup {rec}
<1>3. /\ DOMAIN rows' = DOMAIN rows /\ l \in DOMAIN rows
      /\ rows'[l].matchups = R
      /\ \A i \in DOMAIN rows : i # l => rows'[i].matchups = rows[i].matchups
      /\ Shelves' = Shelves /\ \A i \in Shelves : Shelf(i)' = Shelf(i)
      /\ ring'.doomed = ring.doomed \ {s} /\ Memory' = Memory \ {s}
      /\ ring'.matchups = R /\ ~ring.writing /\ ring'.taken = ring.taken
      /\ rec.m = s.m /\ rec.rounds = s.rounds /\ rec.aside = 0
      /\ UNCHANGED <<torn, unread>>
  BY <1>0, <1>1, <1>2, MatchRecorded
<1>4. UNCHANGED bout /\ \E d, c : Write(d, c)
  BY DEF RecordAs, Commit
<1>5. (\A y \in R : y = rec \/ y \in ring.matchups) /\ rec \in R /\ ring.matchups \subseteq R
  OBVIOUS
<1> HIDE DEF R
<1>6. /\ \A x \in Memory : x.m \in DOMAIN bout /\ x \in Snapshot
      /\ \A x \in ring.matchups : x.m \in DOMAIN bout /\ x \in Entry
      /\ \A i \in Shelves : \A x \in Shelf(i) : x.m \in DOMAIN bout /\ x \in Snapshot
      /\ \A i \in DOMAIN rows : \A x \in rows[i].matchups : x.m \in DOMAIN bout /\ x \in Entry
  BY CopiesAreSeated
<1>7. \A m \in DOMAIN bout : paid[m] \in Nat /\ unread[m] \in Nat
  BY PaidAreNumbers
<1>8. /\ s.m \in DOMAIN bout /\ paid[s.m] \in Nat /\ unread[s.m] \in Nat
      /\ rec.rounds \in Nat /\ All(rec) = rec.rounds
      /\ s.m \notin torn => rec.rounds + unread[s.m] >= paid[s.m]
  <2>1. s.m \in DOMAIN bout /\ s \in Snapshot /\ Whole(s)
    BY <1>1, <1>6 DEF PaidIsKept
  <2>2. s.rounds \in Nat
    BY <2>1, RoundsAreNumbers
  <2>3. QED
    BY <1>3, <1>7, <2>1, <2>2 DEF Whole, All
<1>9. /\ \A i \in DOMAIN rows : \A y \in rows[i].matchups : y.m \notin torn => y.m # s.m
      /\ \A y \in ring.matchups : y.m \notin torn => y.m # s.m
      /\ \A m : m \notin torn /\ m \in Ids(rows[l].matchups) => m \in Ids(ring.matchups)
      /\ \A x \in Memory' : x.m # s.m
  <2>1. \A i \in DOMAIN rows : \A y \in rows[i].matchups : y.m \notin torn => y.m # s.m
    BY <1>1 DEF OverOnTheLedger, Ids
  <2>2. pc # "out"
    BY <1>1, NothingIsASession DEF RingInv, RingFollowsPc, Memory
  <2>3. Ids(ring.matchups) \ torn = Ids(rows[l].matchups) \ torn
    BY <1>2, <2>2 DEF RowInStep
  <2>4. \A y \in ring.matchups : y.m \notin torn => y.m \in Ids(rows[l].matchups)
    BY <2>3 DEF Ids
  <2>5. \A y \in ring.matchups : y.m \notin torn => y.m # s.m
    BY <1>3, <2>1, <2>4 DEF Ids
  <2>6. \A x \in Memory' : x.m # s.m
    BY <1>1, <1>3 DEF MemoryApart, Apart
  <2>7. QED
    BY <2>1, <2>3, <2>5, <2>6
<1>10. /\ \A i \in Shelves' : \A x \in Shelf(i)' : x \in Snapshot /\ OnDisk(x)
       /\ \A i \in DOMAIN rows' : \A x \in rows'[i].matchups :
            x = rec \/ (x \in Entry /\ OnDisk(x) /\ Whole(x))
       /\ \A x \in ring'.matchups : x = rec \/ (x \in Entry /\ OnDisk(x) /\ Whole(x))
  BY <1>3, <1>5, <1>6 DEF PaidIsKept
<1>11. /\ paid'[s.m] \in Nat /\ paid[s.m] <= paid'[s.m] /\ rec.rounds <= paid'[s.m]
       /\ s.m \notin torn => rec.rounds + unread[s.m] >= paid'[s.m]
  <2>1. PICK b \in Nat : paid[s.m] <= b /\ rec.rounds <= b /\ b \in {paid[s.m], rec.rounds}
    BY <1>8, Larger
  <2>2. ASSUME NEW i \in Shelves', NEW x \in Shelf(i)', x.m = s.m PROVE All(x) <= b
    <3>1. x \in Snapshot /\ All(x) <= paid[s.m]
      BY <1>10, <2>2 DEF OnDisk
    <3>2. QED
      BY <1>8, <2>1, <3>1, RoundsAreNumbers
  <2>3. ASSUME NEW i \in DOMAIN rows', NEW x \in rows'[i].matchups, x.m = s.m PROVE All(x) <= b
    <3>1. CASE x = rec
      BY <1>8, <2>1, <3>1
    <3>2. CASE x \in Entry /\ OnDisk(x)
      <4>1. x \in Entry /\ All(x) <= paid[s.m]
        BY <2>3, <3>2 DEF OnDisk
      <4>2. QED
        BY <1>8, <2>1, <4>1, RoundsAreNumbers
    <3>3. QED
      BY <1>10, <3>1, <3>2
  <2>4. /\ paid'[s.m] \in Nat /\ paid[s.m] <= paid'[s.m] /\ paid'[s.m] <= b
        /\ \A i \in DOMAIN rows' : \A x \in rows'[i].matchups : x.m = s.m => All(x) <= paid'[s.m]
    BY <1>4, <1>8, <2>1, <2>2, <2>3, PaidGrows
  <2>5. rec.rounds <= paid'[s.m]
    BY <1>3, <1>5, <1>8, <2>4
  <2>6. ASSUME s.m \notin torn PROVE rec.rounds + unread[s.m] >= paid'[s.m]
    <3>1. rec.rounds + unread[s.m] >= b
      BY <1>8, <2>1, <2>6
    <3>2. QED
      BY <1>8, <2>4, <3>1
  <2>7. QED
    BY <2>4, <2>5, <2>6
<1>12. ASSUME NEW m \in DOMAIN bout, m # s.m PROVE paid'[m] = paid[m] /\ paid'[m] \in Nat
  <2>1. /\ \A i \in Shelves' : \A x \in Shelf(i)' : x.m = m => All(x) <= paid[m]
        /\ \A i \in DOMAIN rows' : \A x \in rows'[i].matchups : x.m = m => All(x) <= paid[m]
    BY <1>3, <1>10, <1>12 DEF OnDisk
  <2>2. QED
    BY <1>4, <2>1, NothingNew
<1>13. paid' \in Seq(Nat) /\ Len(paid') = Len(bout')
  <2>1. \A m \in DOMAIN bout : paid'[m] \in Nat
    BY <1>11, <1>12
  <2>2. QED
    BY <1>4, <2>1, PaidStaysASequence
<1>14. ASSUME NEW x \in Snapshot \cup Entry, x.m \in DOMAIN bout, OnDisk(x) PROVE OnDisk(x)'
  <2>1. All(x) \in Nat /\ All(x) <= paid[x.m] /\ paid[x.m] \in Nat /\ x.aside <= unread[x.m]
    BY <1>7, <1>14, RoundsAreNumbers DEF OnDisk, Accounted
  <2>2. All(x) <= paid'[x.m]
    BY <1>11, <1>12, <1>14, <2>1
  <2>3. QED
    BY <1>3, <2>1, <2>2 DEF OnDisk, Accounted, All
<1>15. ASSUME NEW x, x.m \in DOMAIN bout, x.m \notin torn => x.m # s.m, Whole(x)
       PROVE  Whole(x)'
  BY <1>3, <1>12, <1>15 DEF Whole
<1>16. OnDisk(rec)' /\ Whole(rec)'
  BY <1>3, <1>8, <1>11 DEF OnDisk, Accounted, Whole, All
<1>17. /\ \A i \in Shelves' : \A x \in Shelf(i)' : OnDisk(x)'
  BY <1>3, <1>6, <1>10, <1>14
<1>18. \A i \in DOMAIN rows' : \A x \in rows'[i].matchups : OnDisk(x)' /\ Whole(x)'
  <2> SUFFICES ASSUME NEW i \in DOMAIN rows, NEW x \in rows'[i].matchups, x # rec
               PROVE  OnDisk(x)' /\ Whole(x)'
    BY <1>3, <1>16
  <2>1. x \in rows[i].matchups \/ x \in ring.matchups
    BY <1>3, <1>5
  <2>2. x \in Entry /\ x.m \in DOMAIN bout /\ OnDisk(x) /\ Whole(x)
    BY <1>6, <2>1 DEF PaidIsKept
  <2>3. x.m \notin torn => x.m # s.m
    BY <1>9, <2>1
  <2>4. QED
    BY <1>14, <1>15, <2>2, <2>3
<1>19. \A x \in ring'.matchups : OnDisk(x)' /\ Whole(x)'
  BY <1>3, <1>18
<1>20. ASSUME NEW x \in Memory' PROVE Accounted(x)' /\ Whole(x)'
  <2>1. x \in Memory /\ x.m # s.m /\ x.m \in DOMAIN bout /\ Accounted(x) /\ Whole(x)
    BY <1>3, <1>6, <1>9 DEF PaidIsKept
  <2>2. Accounted(x)'
    BY <1>3, <2>1 DEF Accounted
  <2>3. QED
    BY <1>15, <2>1, <2>2
<1>21. ASSUME NEW m \in DOMAIN bout \ torn
       PROVE  \/ paid'[m] = 0
              \/ \E i \in Shelves' : \E x \in Shelf(i)' : x.m = m /\ Whole(x)'
              \/ \E i \in DOMAIN rows' : m \in Ids(rows'[i].matchups)
              \/ m \in Ids(Missing)'
  <2>1. CASE m = s.m
    <3>1. s.m \in Ids(R)
      BY <1>3, <1>5 DEF Ids
    <3>2. QED
      BY <1>3, <2>1, <3>1
  <2>2. CASE m # s.m
    <3>1. paid'[m] = paid[m]
      BY <1>12, <2>2
    <3>2. \A x : x.m = m /\ Whole(x) => Whole(x)'
      BY <1>15, <2>2
    <3>3. ASSUME NEW i \in DOMAIN rows, m \in Ids(rows[i].matchups)
          PROVE  \E j \in DOMAIN rows' : m \in Ids(rows'[j].matchups)
      <4>1. CASE i = l
        <5>1. m \in Ids(ring.matchups)
          BY <1>9, <3>3, <4>1
        <5>2. m \in Ids(R)
          BY <1>5, <5>1 DEF Ids
        <5>3. QED
          BY <1>3, <5>2
      <4>2. CASE i # l
        BY <1>3, <3>3, <4>2
      <4>3. QED
        BY <4>1, <4>2
    <3>4. m \in Ids(Missing) => m \in Ids(Missing)'
      <4>1. \A x \in Missing : x # s => x \in Missing'
        BY <1>3 DEF Missing
      <4>2. QED
        BY <2>2, <4>1 DEF Ids
    <3>5. QED
      BY <1>3, <3>1, <3>2, <3>3, <3>4 DEF PaidIsKept
  <2>3. QED
    BY <2>1, <2>2
<1>22. unread' \in Seq(Nat) /\ Len(unread') = Len(bout')
  BY <1>3, <1>4 DEF PaidIsKept
<1>23. \A i \in DOMAIN rows' : Ids(rows[i].matchups)' = Ids(rows'[i].matchups)
  BY DEF Ids
<1>24. QED
  BY <1>3, <1>4, <1>13, <1>17, <1>18, <1>19, <1>20, <1>21, <1>22, <1>23 DEF PaidIsKept

\* Whichever way a match leaves the ring.
LEMMA RecordersKeepPaid ==
  ASSUME PaidInv, RingInv', Dismiss \/ CloseForReseed \/ Adjudicate
  PROVE  PaidIsKept'
BY RecordAsKeepsPaid DEF Dismiss, CloseForReseed, Adjudicate

\* What seating a new match changes: an identity of its own, of which nothing is remembered.
LEMMA Appended ==
  ASSUME NEW T, NEW U, NEW s \in Seq(T), NEW e \in T, NEW q \in Seq(U), NEW z \in U,
         Len(q) = Len(s)
  PROVE  /\ Append(q, z) \in Seq(U) /\ Len(Append(q, z)) = Len(Append(s, e))
         /\ DOMAIN Append(s, e) = DOMAIN s \cup {Len(s) + 1} /\ Len(s) + 1 \notin DOMAIN s
         /\ Len(Append(s, e)) = Len(s) + 1
         /\ Append(q, z)[Len(s) + 1] = z
         /\ \A m \in DOMAIN s : Append(q, z)[m] = q[m]
<1>1. /\ Append(s, e) \in Seq(T) /\ Len(Append(s, e)) = Len(s) + 1
  BY AppendProperties
<1>2. /\ Append(q, z) \in Seq(U) /\ Len(Append(q, z)) = Len(q) + 1
      /\ Append(q, z)[Len(q) + 1] = z
      /\ \A m \in 1..Len(q) : Append(q, z)[m] = q[m]
  BY AppendProperties
<1>3. /\ Len(s) \in Nat /\ DOMAIN s = 1..Len(s)
      /\ DOMAIN Append(s, e) = 1..Len(Append(s, e))
  BY <1>1, LenProperties
<1>4. QED
  BY <1>1, <1>2, <1>3

\* A match that was just seated has no rounds.
LEMMA SeatFreshKeepsPaid ==
  ASSUME PaidInv, SeatFresh
  PROVE  PaidIsKept'
<1> USE DEF PaidInv, OnceInv
<1>1. PICK c \in Profiles \ {ring.ref} : Seat(c)
  BY DEF SeatFresh
<1>2. /\ ring \in Session /\ bout \in Seq([ref : Profiles, cha : Profiles])
      /\ paid \in Seq(Nat) /\ Len(paid) = Len(bout) /\ ring.ref \in Profiles
      /\ unread \in Seq(Nat) /\ Len(unread) = Len(bout)
      /\ rows' = rows /\ campaign' = campaign /\ torn' = torn
  BY DEF RingInv, RingTypes, RingFollowsPc, SeatFresh, PaidIsKept
<1> DEFINE n == Len(bout) + 1
           bt == [ref |-> ring.ref, cha |-> c]
<1>3. bt \in [ref : Profiles, cha : Profiles] /\ 0 \in Nat
  BY <1>1, <1>2
<1>4. bout' = Append(bout, bt) /\ paid' = Append(paid, 0) /\ unread' = Append(unread, 0)
  BY <1>1 DEF Seat
<1>5. /\ Len(bout') = n /\ Len(paid') = Len(bout') /\ paid' \in Seq(Nat) /\ paid'[n] = 0
      /\ Len(unread') = Len(bout') /\ unread' \in Seq(Nat) /\ unread'[n] = 0
      /\ DOMAIN bout' = DOMAIN bout \cup {n} /\ n \notin DOMAIN bout
      /\ \A m \in DOMAIN bout : paid'[m] = paid[m] /\ unread'[m] = unread[m]
  BY <1>2, <1>3, <1>4, Appended
<1> HIDE DEF n, bt
<1>6. PICK new : /\ new.m = n /\ new.rounds = 0 /\ new.aside = 0
                 /\ Memory' = Memory \cup {new} /\ ring'.matchups = ring.matchups
                 /\ ring'.doomed = ring.doomed /\ ring'.taken = ring.taken
  <2>1. PICK new : new = [m |-> Len(bout'), rubric |-> ring.rubric, rounds |-> 0, aside |-> 0,
                          bad |-> 0, read |-> {}]
    OBVIOUS
  <2>2. ring' = [ring EXCEPT !.fought = @ \cup {{ring.ref, c}}, !.seated = @ \cup {new}]
    BY <1>1, <2>1 DEF Seat, Goto
  <2>3. /\ ring'.seated = ring.seated \cup {new} /\ ring'.carried = ring.carried
        /\ ring'.doomed = ring.doomed /\ ring'.matchups = ring.matchups
        /\ ring'.taken = ring.taken
    BY <1>2, <2>2 DEF Session
  <2>4. new.m = n /\ new.rounds = 0 /\ new.aside = 0
    BY <1>5, <2>1
  <2>5. QED
    BY <2>3, <2>4 DEF Memory
<1>7. /\ Shelves' = Shelves /\ \A i : Shelf(i)' = Shelf(i)
      /\ \A i \in DOMAIN rows : Ids(rows[i].matchups)' = Ids(rows[i].matchups)
  BY <1>2 DEF Shelves, Shelf, Last, Ids
<1>8. \A m : m \in Ids(Missing) => m \in Ids(Missing)'
  <2>1. Missing \subseteq Missing'
    BY <1>6 DEF Missing
  <2>2. QED
    BY <2>1 DEF Ids
<1>9. ASSUME NEW x, x.m \in DOMAIN bout
      PROVE  /\ OnDisk(x) <=> OnDisk(x)'
             /\ Accounted(x) <=> Accounted(x)'
             /\ Whole(x) <=> Whole(x)'
  BY <1>2, <1>5, <1>9 DEF OnDisk, Accounted, Whole, All
<1>10. /\ \A i \in Shelves' : \A x \in Shelf(i)' : OnDisk(x)'
       /\ \A i \in DOMAIN rows' : \A x \in rows'[i].matchups : OnDisk(x)' /\ Whole(x)'
       /\ \A x \in ring'.matchups : OnDisk(x)' /\ Whole(x)'
  BY <1>2, <1>6, <1>7, <1>9, CopiesAreSeated DEF PaidIsKept
<1>11. \A x \in Memory' : Accounted(x)' /\ Whole(x)'
  <2>1. Accounted(new)' /\ Whole(new)'
    BY <1>5, <1>6 DEF Accounted, Whole
  <2>2. \A x \in Memory : Accounted(x)' /\ Whole(x)'
    BY <1>9, CopiesAreSeated DEF PaidIsKept
  <2>3. QED
    BY <1>6, <2>1, <2>2
<1>12. ASSUME NEW m \in DOMAIN bout' \ torn'
       PROVE  \/ paid'[m] = 0
              \/ \E i \in Shelves' : \E x \in Shelf(i)' : x.m = m /\ Whole(x)'
              \/ \E i \in DOMAIN rows' : m \in Ids(rows'[i].matchups)
              \/ m \in Ids(Missing)'
  <2>1. CASE m = n
    BY <1>5, <2>1
  <2>2. CASE m \in DOMAIN bout
    <3>1. \A x : x.m = m /\ Whole(x) => Whole(x)'
      BY <1>9, <2>2
    <3>2. \/ paid[m] = 0
          \/ \E i \in Shelves : \E x \in Shelf(i) : x.m = m /\ Whole(x)
          \/ \E i \in DOMAIN rows : m \in Ids(rows[i].matchups)
          \/ m \in Ids(Missing)
      BY <1>2, <2>2 DEF PaidIsKept
    <3>3. QED
      BY <1>2, <1>5, <1>7, <1>8, <2>2, <3>1, <3>2
  <2>3. QED
    BY <1>5, <2>1, <2>2
<1>13. \A i \in DOMAIN rows' : Ids(rows[i].matchups)' = Ids(rows'[i].matchups)
  BY DEF Ids
<1>14. QED
  BY <1>5, <1>10, <1>11, <1>12, <1>13 DEF PaidIsKept

\* What a re-grade in progress has read of a match is bounded: it may be more than is
\* remembered, if a session that failed has written the match off meanwhile.
ReadingIsBounded ==
  \A m \in DOMAIN bout : \E b \in Nat : \A i \in DOMAIN reading :
    \A x \in reading[i].open \cup reading[i].matchups : x.m = m => All(x) <= b

\* The copies of the next state are typed.
LEMMA NextCopiesAreTyped ==
  ASSUME RingInv'
  PROVE  /\ \A i \in Shelves' : \A x \in Shelf(i)' : x \in Snapshot
         /\ \A i \in DOMAIN rows' : rows'[i].open \subseteq Snapshot
         /\ \A i \in DOMAIN rows' : rows'[i].matchups \subseteq Entry
<1>1. /\ rows' \in Seq(Row) /\ campaign' \in SUBSET Snapshot
      /\ DOMAIN rows' = 1..Last' /\ \A i \in DOMAIN rows' : rows'[i] \in Row
  BY LenProperties, ElementOfSeq DEF RingInv, RingTypes, Last
<1>2. \A i \in DOMAIN rows' : rows'[i].open \subseteq Snapshot /\ rows'[i].matchups \subseteq Entry
  BY <1>1 DEF Row
<1>3. QED
  BY <1>1, <1>2 DEF Shelves, Shelf

\* So is what a re-grade leaves on disk.
LEMMA RegradeIsBounded ==
  ASSUME PaidInv, ReadingIsBounded, RegradeWrites, NEW m \in DOMAIN bout
  PROVE  \E b \in Nat : /\ paid[m] <= b
                        /\ \A i \in DOMAIN rows' : \A y \in rows'[i].open \cup rows'[i].matchups :
                             y.m = m => All(y) <= b
<1> USE DEF PaidInv, OnceInv
<1>1. paid[m] \in Nat
  BY PaidAreNumbers
<1>2. PICK r \in Nat : \A i \in DOMAIN reading :
        \A x \in reading[i].open \cup reading[i].matchups : x.m = m => All(x) <= r
  BY DEF ReadingIsBounded
<1>3. PICK b \in Nat : paid[m] <= b /\ r <= b
  BY <1>1, Larger
<1>4. /\ rows \in Seq(Row) /\ DOMAIN rows = 1..Last /\ Last \in Nat
      /\ reading \in Seq(Row) /\ \A i \in DOMAIN reading : reading[i] \in Row
  BY LenProperties, ElementOfSeq DEF RingInv, RingTypes, Last
<1>5. ASSUME NEW i \in DOMAIN rows, NEW x \in rows[i].open \cup rows[i].matchups, x.m = m
      PROVE  All(x) <= b
  <2>1. i \in Shelves /\ Shelf(i) = rows[i].open
    BY <1>4 DEF Shelves, Shelf
  <2>2. x \in Snapshot \cup Entry /\ All(x) <= paid[m]
    BY <1>5, <2>1, CopiesAreSeated DEF PaidIsKept, OnDisk
  <2>3. QED
    BY <1>1, <1>3, <2>2, RoundsAreNumbers
<1>6. ASSUME NEW i \in DOMAIN reading, NEW x \in reading[i].open \cup reading[i].matchups, x.m = m
      PROVE  All(x) <= b
  <2>1. x \in Snapshot \cup Entry /\ All(x) <= r
    BY <1>2, <1>4, <1>6 DEF Row
  <2>2. QED
    BY <1>3, <2>1, RoundsAreNumbers
<1>7. PICK lost \in [DOMAIN bout -> Nat] :
        /\ DOMAIN rows' = DOMAIN rows
        /\ \A i \in DOMAIN rows :
              /\ \/ rows'[i].open = rows[i].open
                 \/ /\ i \in DOMAIN reading
                    /\ Again(reading[i].open, rows[i].open, rows'[i].open, lost, torn')
              /\ \/ rows'[i].matchups = rows[i].matchups
                 \/ /\ i \in DOMAIN reading
                    /\ Again(reading[i].matchups, rows[i].matchups, rows'[i].matchups, lost,
                             torn')
  BY RegradeWritesColumns, Zenon
<1>8. \A was, now, new, t : Again(was, now, new, lost, t) =>
        \A y \in new : \E x \in was : x.m = y.m /\ All(x) = All(y)
  <2>1. \A x, y, k : ReadAgain(x, y, k) => x.m = y.m /\ All(x) = All(y)
    BY DEF ReadAgain
  <2>2. QED
    BY <2>1 DEF Again
<1>9. ASSUME NEW i \in DOMAIN rows', NEW y \in rows'[i].open, y.m = m PROVE All(y) <= b
  <2>1. CASE rows'[i].open = rows[i].open
    BY <1>5, <1>7, <1>9, <2>1
  <2>2. CASE /\ i \in DOMAIN reading
             /\ Again(reading[i].open, rows[i].open, rows'[i].open, lost, torn')
    <3>1. PICK x \in reading[i].open : x.m = y.m /\ All(x) = All(y)
      BY <1>8, <1>9, <2>2
    <3>2. QED
      BY <1>6, <1>9, <2>2, <3>1
  <2>3. QED
    BY <1>7, <2>1, <2>2
<1>10. ASSUME NEW i \in DOMAIN rows', NEW y \in rows'[i].matchups, y.m = m PROVE All(y) <= b
  <2>1. CASE rows'[i].matchups = rows[i].matchups
    BY <1>5, <1>7, <1>10, <2>1
  <2>2. CASE /\ i \in DOMAIN reading
             /\ Again(reading[i].matchups, rows[i].matchups, rows'[i].matchups, lost, torn')
    <3>1. PICK x \in reading[i].matchups : x.m = y.m /\ All(x) = All(y)
      BY <1>8, <1>10, <2>2
    <3>2. QED
      BY <1>6, <1>10, <2>2, <3>1
  <2>3. QED
    BY <1>7, <2>1, <2>2
<1>11. QED
  BY <1>3, <1>9, <1>10

\* A re-grade changes no number of rounds, those set aside included, but for torn matches.
LEMMA RegradeWritesKeepsPaid ==
  ASSUME PaidInv, ReadingIsBounded, RingInv', RegradeWrites
  PROVE  PaidIsKept'
<1> USE DEF PaidInv, OnceInv
<1>1. PICK lost \in [DOMAIN bout -> Nat] :
        /\ DOMAIN rows' = DOMAIN rows /\ Shelves' = Shelves
        /\ UNCHANGED <<campaign, bout, ring>>
        /\ unread' = [m \in 1..Len(bout) |-> unread[m] + lost[m]] /\ torn \subseteq torn'
        /\ \A i \in Shelves : Kept(Shelf(i), Shelf(i)', lost, torn')
        /\ \A i \in DOMAIN rows : Kept(rows[i].matchups, rows'[i].matchups, lost, torn')
  BY RegradeMovesNoMatch, Zenon
<1>2. \E d, c : Write(d, c)
  BY Zenon DEF RegradeWrites
<1>3. Memory' = Memory /\ Missing' = Missing
  BY <1>1 DEF Memory, Missing
<1>4. /\ DOMAIN bout = 1..Len(bout) /\ Len(bout) \in Nat
      /\ \A m \in DOMAIN bout : /\ paid[m] \in Nat /\ unread[m] \in Nat /\ lost[m] \in Nat
                                /\ unread'[m] = unread[m] + lost[m]
  <2>1. DOMAIN bout = 1..Len(bout) /\ Len(bout) \in Nat
    BY LenProperties DEF RingInv, RingTypes
  <2>2. QED
    BY <1>1, <2>1, PaidAreNumbers
<1>5. /\ \A i \in Shelves : \A x \in Shelf(i) :
           x \in Snapshot /\ x.m \in DOMAIN bout /\ OnDisk(x)
      /\ \A i \in DOMAIN rows : \A x \in rows[i].matchups :
           x \in Entry /\ x.m \in DOMAIN bout /\ OnDisk(x) /\ Whole(x)
  BY CopiesAreSeated DEF PaidIsKept
<1>6. /\ \A i \in Shelves' : \A y \in Shelf(i)' : y \in Snapshot /\ y.m \in DOMAIN bout
      /\ \A i \in DOMAIN rows' : \A y \in rows'[i].matchups : y \in Entry /\ y.m \in DOMAIN bout
  BY <1>1, NextCopiesAreSeated, NextCopiesAreTyped
<1>7. \A x, y, k : Same(x, y, k) => x.m = y.m /\ All(x) = All(y)
  BY DEF Same, ReadAgain
<1>8. \A x, y, k : Same(x, y, k) => y = x \/ y.rounds + k >= All(x)
  BY DEF Same, ReadAgain
<1>9. ASSUME NEW m \in DOMAIN bout, m \notin torn'
      PROVE  paid'[m] = paid[m] /\ paid'[m] \in Nat
  <2>1. ASSUME NEW i \in Shelves', NEW y \in Shelf(i)', y.m = m PROVE All(y) <= paid[m]
    <3>1. PICK x \in Shelf(i) : x.m = y.m /\ Same(x, y, lost[x.m])
      BY <1>1, <1>9, <2>1 DEF Kept
    <3>2. QED
      BY <1>1, <1>5, <1>7, <2>1, <3>1 DEF OnDisk
  <2>2. ASSUME NEW i \in DOMAIN rows', NEW y \in rows'[i].matchups, y.m = m
        PROVE  All(y) <= paid[m]
    <3>1. PICK x \in rows[i].matchups : x.m = y.m /\ Same(x, y, lost[x.m])
      BY <1>1, <1>9, <2>2 DEF Kept
    <3>2. QED
      BY <1>1, <1>5, <1>7, <2>2, <3>1 DEF OnDisk
  <2>3. QED
    BY <1>1, <1>2, <2>1, <2>2, NothingNew
<1>10. ASSUME NEW m \in DOMAIN bout
       PROVE  /\ paid'[m] \in Nat /\ paid[m] <= paid'[m]
              /\ \A i \in Shelves' : \A y \in Shelf(i)' : y.m = m => All(y) <= paid'[m]
              /\ \A i \in DOMAIN rows' : \A y \in rows'[i].matchups :
                   y.m = m => All(y) <= paid'[m]
  <2>1. PICK b \in Nat : /\ paid[m] <= b
                         /\ \A i \in DOMAIN rows' :
                              \A y \in rows'[i].open \cup rows'[i].matchups :
                                y.m = m => All(y) <= b
    BY RegradeIsBounded
  <2>2. ASSUME NEW i \in Shelves', NEW y \in Shelf(i)', y.m = m PROVE All(y) <= b
    <3>1. CASE i = 0
      <4>1. y \in Shelf(i)
        BY <1>1, <2>2, <3>1 DEF Shelf
      <4>2. All(y) <= paid[m] /\ y \in Snapshot
        BY <1>1, <1>5, <2>2, <4>1 DEF OnDisk
      <4>3. QED
        BY <1>4, <2>1, <4>2, RoundsAreNumbers
    <3>2. CASE i # 0
      <4>1. DOMAIN rows' = 1..Last' /\ Last' \in Nat
        BY LenProperties DEF RingInv, RingTypes, Last
      <4>2. i \in DOMAIN rows' /\ y \in rows'[i].open
        BY <2>2, <3>2, <4>1 DEF Shelves, Shelf
      <4>3. QED
        BY <2>1, <2>2, <4>2
    <3>3. QED
      BY <3>1, <3>2
  <2>3. QED
    BY <1>1, <1>2, <2>1, <2>2, PaidGrows
<1>11. paid' \in Seq(Nat) /\ Len(paid') = Len(bout')
  BY <1>1, <1>2, <1>10, PaidStaysASequence
<1>12. unread' \in Seq(Nat) /\ Len(unread') = Len(bout')
  <2>1. unread' \in [1..Len(bout) -> Nat]
    BY <1>1, <1>4
  <2>2. QED
    BY <1>1, <1>4, <2>1, IsASeq, LenProperties
<1>13. ASSUME NEW x \in Snapshot \cup Entry, x.m \in DOMAIN bout, Accounted(x)
       PROVE  Accounted(x)'
  BY <1>4, <1>13, RoundsAreNumbers DEF Accounted
<1>14. ASSUME NEW x \in Snapshot \cup Entry, x.m \in DOMAIN bout, Whole(x)
       PROVE  Whole(x)'
  <2> SUFFICES ASSUME x.m \notin torn' PROVE x.rounds + unread'[x.m] >= paid'[x.m]
    BY DEF Whole
  <2>1. x.rounds + unread[x.m] >= paid[x.m]
    BY <1>1, <1>14 DEF Whole
  <2>2. x.rounds \in Nat
    BY RoundsAreNumbers
  <2>3. QED
    BY <1>4, <1>9, <1>14, <2>1, <2>2
<1>15. ASSUME NEW x \in Snapshot \cup Entry, NEW y \in Snapshot \cup Entry, x.m \in DOMAIN bout,
              Same(x, y, lost[x.m]), Whole(x)
       PROVE  Whole(y)'
  <2>1. CASE y = x
    BY <1>14, <1>15, <2>1
  <2>2. CASE y.rounds + lost[x.m] >= All(x)
    <3> SUFFICES ASSUME y.m \notin torn' PROVE y.rounds + unread'[y.m] >= paid'[y.m]
      BY DEF Whole
    <3>1. x.m = y.m
      BY <1>7, <1>15
    <3>2. x.rounds + unread[x.m] >= paid[x.m]
      BY <1>1, <1>15, <3>1 DEF Whole
    <3>3. x.rounds \in Nat /\ y.rounds \in Nat /\ All(x) \in Nat /\ All(x) >= x.rounds
      BY RoundsAreNumbers
    <3>4. /\ unread[x.m] \in Nat /\ lost[x.m] \in Nat /\ paid[x.m] \in Nat
          /\ unread'[x.m] = unread[x.m] + lost[x.m] /\ paid'[x.m] = paid[x.m]
      BY <1>4, <1>9, <1>15, <3>1
    <3>5. y.rounds + (unread[x.m] + lost[x.m]) >= paid[x.m]
      BY <2>2, <3>2, <3>3, <3>4
    <3>6. QED
      BY <3>1, <3>4, <3>5
  <2>3. QED
    BY <1>8, <1>15, <2>1, <2>2
<1>16. ASSUME NEW y \in Snapshot \cup Entry, y.m \in DOMAIN bout, y.aside <= lost[y.m]
       PROVE  Accounted(y)'
  <2>1. y.aside \in Nat
    BY RoundsAreNumbers
  <2>2. QED
    BY <1>4, <1>16, <2>1 DEF Accounted
<1>17. ASSUME NEW i \in Shelves', NEW y \in Shelf(i)' PROVE OnDisk(y)'
  <2>1. y \in Snapshot /\ y.m \in DOMAIN bout
    BY <1>6
  <2>2. y \in Shelf(i) \/ y.aside <= lost[y.m]
    BY <1>1 DEF Kept
  <2>3. Accounted(y)'
    BY <1>1, <1>5, <1>13, <1>16, <2>1, <2>2 DEF OnDisk
  <2>4. QED
    BY <1>10, <2>1, <2>3 DEF OnDisk, All
<1>18. ASSUME NEW i \in DOMAIN rows', NEW y \in rows'[i].matchups PROVE OnDisk(y)' /\ Whole(y)'
  <2>1. y \in Entry /\ y.m \in DOMAIN bout
    BY <1>6
  <2>2. y \in rows[i].matchups \/ y.aside <= lost[y.m]
    BY <1>1 DEF Kept
  <2>3. Accounted(y)'
    BY <1>1, <1>5, <1>13, <1>16, <2>1, <2>2 DEF OnDisk
  <2>4. OnDisk(y)'
    BY <1>10, <2>1, <2>3 DEF OnDisk, All
  <2>5. CASE y.m \in torn'
    BY <2>4, <2>5 DEF Whole
  <2>6. CASE y.m \notin torn'
    <3>1. PICK x \in rows[i].matchups : x.m = y.m /\ Same(x, y, lost[x.m])
      BY <1>1, <2>6 DEF Kept
    <3>2. QED
      BY <1>1, <1>5, <1>15, <2>1, <2>4, <3>1
  <2>7. QED
    BY <2>5, <2>6
<1>19. ASSUME NEW x \in ring'.matchups PROVE OnDisk(x)' /\ Whole(x)'
  <2>1. x \in Entry /\ x.m \in DOMAIN bout /\ OnDisk(x) /\ Whole(x)
    BY <1>1, CopiesAreSeated DEF PaidIsKept
  <2>2. All(x) \in Nat /\ All(x) <= paid[x.m] /\ Accounted(x)'
    BY <1>13, <2>1, RoundsAreNumbers DEF OnDisk
  <2>3. All(x) <= paid'[x.m]
    BY <1>4, <1>10, <2>1, <2>2
  <2>4. QED
    BY <1>14, <2>1, <2>2, <2>3 DEF OnDisk, All
<1>20. \A x \in Memory' : Accounted(x)' /\ Whole(x)'
  BY <1>3, <1>13, <1>14, CopiesAreSeated DEF PaidIsKept
<1>21. ASSUME NEW m \in DOMAIN bout \ torn'
       PROVE  \/ paid'[m] = 0
              \/ \E i \in Shelves' : \E x \in Shelf(i)' : x.m = m /\ Whole(x)'
              \/ \E i \in DOMAIN rows' : m \in Ids(rows'[i].matchups)
              \/ m \in Ids(Missing)'
  <2>1. \/ paid[m] = 0
        \/ \E i \in Shelves : \E x \in Shelf(i) : x.m = m /\ Whole(x)
        \/ \E i \in DOMAIN rows : m \in Ids(rows[i].matchups)
        \/ m \in Ids(Missing)
    BY <1>1 DEF PaidIsKept
  <2>2. CASE \E i \in Shelves : \E x \in Shelf(i) : x.m = m /\ Whole(x)
    <3>1. PICK i \in Shelves : \E x \in Shelf(i) : x.m = m /\ Whole(x)
      BY <2>2
    <3>2. PICK x \in Shelf(i) : x.m = m /\ Whole(x)
      BY <3>1
    <3>3. PICK y \in Shelf(i)' : y.m = x.m /\ Same(x, y, lost[x.m])
      BY <1>1, <3>2 DEF Kept
    <3>4. Whole(y)'
      BY <1>1, <1>5, <1>6, <1>15, <3>2, <3>3
    <3>5. QED
      BY <1>1, <3>2, <3>3, <3>4
  <2>3. CASE \E i \in DOMAIN rows : m \in Ids(rows[i].matchups)
    <3>1. PICK i \in DOMAIN rows : m \in Ids(rows[i].matchups)
      BY <2>3
    <3>2. PICK x \in rows[i].matchups : x.m = m
      BY <3>1 DEF Ids
    <3>3. PICK y \in rows'[i].matchups : y.m = x.m /\ Same(x, y, lost[x.m])
      BY <1>1, <3>2 DEF Kept
    <3>4. QED
      BY <1>1, <3>2, <3>3 DEF Ids
  <2>4. CASE m \in Ids(Missing)
    BY <1>3, <2>4 DEF Ids
  <2>5. CASE paid[m] = 0
    BY <1>9, <2>5
  <2>6. QED
    BY <2>1, <2>2, <2>3, <2>4, <2>5
<1>22. \A i \in DOMAIN rows' : Ids(rows[i].matchups)' = Ids(rows'[i].matchups)
  BY DEF Ids
<1>23. QED
  BY <1>1, <1>11, <1>12, <1>17, <1>18, <1>19, <1>20, <1>21, <1>22 DEF PaidIsKept

\* What a re-grade has read stays bounded.
LEMMA StepKeepsReadingBounded ==
  ASSUME PaidInv, ReadingIsBounded, [Next]_vars
  PROVE  ReadingIsBounded'
<1> USE DEF PaidInv, OnceInv
<1>1. CASE UNCHANGED <<bout, reading>>
  BY <1>1 DEF ReadingIsBounded
<1>2. CASE SeatFresh
  <2>1. PICK c \in Profiles : bout' = Append(bout, [ref |-> ring.ref, cha |-> c])
    BY <1>2 DEF SeatFresh, Seat
  <2>2. /\ bout \in Seq([ref : Profiles, cha : Profiles]) /\ reading' = reading
        /\ [ref |-> ring.ref, cha |-> c] \in [ref : Profiles, cha : Profiles]
    BY <1>2 DEF SeatFresh, RingInv, RingTypes, RingFollowsPc
  <2>3. DOMAIN bout' = DOMAIN bout \cup {Len(bout) + 1} /\ Len(bout) + 1 \notin DOMAIN bout
    BY <2>1, <2>2, Appended
  <2>4. \A i \in DOMAIN reading : \A x \in reading[i].open \cup reading[i].matchups :
          x.m \in DOMAIN bout
    BY DEF RingInv, CopiesAreComparable, Comparable
  <2>5. ASSUME NEW m \in DOMAIN bout'
        PROVE  \E b \in Nat : \A i \in DOMAIN reading :
                 \A x \in reading[i].open \cup reading[i].matchups : x.m = m => All(x) <= b
    <3>1. CASE m \in DOMAIN bout
      BY <3>1 DEF ReadingIsBounded
    <3>2. CASE m \notin DOMAIN bout
      <4>1. 0 \in Nat
        OBVIOUS
      <4>2. QED
        BY <2>4, <3>2, <4>1
    <3>3. QED
      BY <3>1, <3>2
  <2>6. QED
    BY <2>2, <2>5 DEF ReadingIsBounded, All
<1>3. CASE RegradeReads
  <2>1. reading' = rows /\ bout' = bout
    BY <1>3 DEF RegradeReads
  <2>2. ASSUME NEW m \in DOMAIN bout
        PROVE  /\ paid[m] \in Nat
               /\ \A i \in DOMAIN rows : \A x \in rows[i].open \cup rows[i].matchups :
                    x.m = m => All(x) <= paid[m]
    <3>1. \A i \in DOMAIN rows : i \in Shelves /\ Shelf(i) = rows[i].open
      BY LenProperties DEF Shelves, Shelf, Last, RingInv, RingTypes
    <3>2. QED
      BY <3>1, PaidAreNumbers DEF PaidIsKept, OnDisk
  <2>3. QED
    BY <2>1, <2>2 DEF ReadingIsBounded, All
<1>4. CASE RegradeWrites
  <2>1. reading' = <<>> /\ bout' = bout
    BY <1>4, Zenon DEF RegradeWrites
  <2>2. DOMAIN reading' = {}
    BY <2>1
  <2>3. 0 \in Nat
    OBVIOUS
  <2>4. QED
    BY <2>1, <2>2, <2>3 DEF ReadingIsBounded
<1>5. CASE \/ \E lever \in BOOLEAN : Start(lever)
           \/ Take \/ TakeCampaign \/ Sync \/ Reseed
  BY <1>1, <1>5 DEF Start, Take, TakeCampaign, Sync, Reseed
<1>6. CASE Dismiss \/ CloseForReseed \/ Adjudicate
  BY <1>1, <1>6 DEF Dismiss, CloseForReseed, Adjudicate, RecordAs
<1>7. CASE Notice \/ ChooseDefender \/ NoDefender \/ SeatCarried \/ Seated \/ WriteOpen
  BY <1>1, <1>7 DEF Notice, ChooseDefender, NoDefender, SeatCarried, Seated, WriteOpen, Fail
<1>8. CASE OpeningLeg \/ ChallengerLeg \/ ClosingLeg \/ Judged \/ Yield
  BY <1>1, <1>8 DEF OpeningLeg, ChallengerLeg, ClosingLeg, Judged, Yield
<1>9. CASE WindowEnds \/ Close \/ Die \/ Publish
  BY <1>1, <1>9 DEF WindowEnds, Close, Die, Fail, Publish
<1>10. CASE UNCHANGED vars
  BY <1>1, <1>10 DEF vars
<1>11. QED
  BY <1>2, <1>3, <1>4, <1>5, <1>6, <1>7, <1>8, <1>9, <1>10 DEF Next

\* Nothing on disk or in memory changes.
LEMMA NothingHappenedToPaid ==
  ASSUME PaidIsKept, UNCHANGED <<rows, campaign, bout, ring, paid, struck>>
  PROVE  PaidIsKept'
BY NoMatchMovesOnPaid DEF NoWrite

\* At first nothing was paid.
LEMMA InitEstablishesPaid ==
  ASSUME Init
  PROVE  PaidInv /\ ReadingIsBounded
<1>1. OnceInv
  BY InitEstablishesOnce
<1>2. /\ rows = <<>> /\ campaign = {} /\ Memory = {} /\ ring.matchups = {} /\ bout = <<>>
      /\ paid = <<>> /\ unread = <<>>
  BY NothingIsASession DEF Init, Memory
<1>3. /\ Last = 0 /\ Shelves = {0} /\ Shelf(0) = {} /\ DOMAIN rows = {} /\ DOMAIN bout = {}
      /\ paid \in Seq(Nat) /\ Len(paid) = Len(bout)
      /\ unread \in Seq(Nat) /\ Len(unread) = Len(bout)
  BY <1>2, EmptySeq DEF Last, Shelves, Shelf
<1>4. PaidIsKept
  BY <1>2, <1>3 DEF PaidIsKept
<1>5. QED
  BY <1>1, <1>3, <1>4 DEF PaidInv, ReadingIsBounded

\* The invariant behind PaidRoundsAreKept is inductive.
LEMMA StepKeepsPaid ==
  ASSUME PaidInv, ReadingIsBounded, [Next]_vars
  PROVE  PaidInv' /\ ReadingIsBounded'
<1>1. OnceInv' /\ RingInv' /\ ReadingIsBounded'
  BY StepKeepsOnce, StepKeepsReadingBounded DEF PaidInv, OnceInv
<1>2. ASSUME Next PROVE PaidIsKept'
  <2>1. CASE \E lever \in BOOLEAN : Start(lever)
    BY <1>1, <2>1, StartKeepsPaid
  <2>2. CASE Take \/ TakeCampaign
    BY <1>1, <2>2, TakeKeepsPaid, TakeCampaignKeepsPaid
  <2>3. CASE Dismiss \/ CloseForReseed \/ Adjudicate
    BY <1>1, <2>3, RecordersKeepPaid
  <2>4. CASE Sync \/ Reseed \/ WriteOpen \/ Judged \/ Close
    BY <1>1, <2>4, SyncKeepsPaid, ReseedKeepsPaid, WriteOpenKeepsPaid, JudgedKeepsPaid,
       CloseKeepsPaid
  <2>5. CASE Notice \/ ChooseDefender \/ NoDefender \/ SeatCarried \/ SeatFresh \/ Seated
    BY <2>5, QuietStepsKeepPaid, ChooseDefenderKeepsPaid, NoDefenderKeepsPaid,
       SeatCarriedKeepsPaid, SeatFreshKeepsPaid
  <2>6. CASE OpeningLeg \/ ChallengerLeg \/ ClosingLeg
    BY <2>6, SessionFlagsKeepPaid, ChallengerLegKeepsPaid, ClosingLegKeepsPaid
  <2>7. CASE Yield \/ WindowEnds \/ Die
    BY <2>7, SessionFlagsKeepPaid, DieKeepsPaid
  <2>8. CASE Publish \/ RegradeReads
    BY <2>8, NothingHappenedToPaid DEF PaidInv, Publish, RegradeReads
  <2>9. CASE RegradeWrites
    BY <1>1, <2>9, RegradeWritesKeepsPaid
  <2>10. QED
    BY <1>2, <2>1, <2>2, <2>3, <2>4, <2>5, <2>6, <2>7, <2>8, <2>9 DEF Next
<1>3. CASE UNCHANGED vars
  <2>1. UNCHANGED <<rows, campaign, bout, ring, paid, struck>> /\ PaidIsKept
    BY <1>3 DEF vars, PaidInv
  <2>2. PaidIsKept'
    BY <2>1, NothingHappenedToPaid
  <2>3. QED
    BY <1>1, <2>2 DEF PaidInv
<1>4. QED
  BY <1>1, <1>2, <1>3 DEF PaidInv

\* Between sessions nothing is in memory, so nothing is missing, and a copy of a match that
\* was paid for is on disk with all of its rounds that could be read.
LEMMA PaidRoundsAreOnDisk ==
  ASSUME PaidInv
  PROVE  PaidRoundsAreKept
<1> USE DEF PaidInv, OnceInv
<1> SUFFICES ASSUME pc = "out", NEW m \in DOMAIN bout \ torn, paid[m] > 0
             PROVE  \E x \in CopiesOn(rows, campaign, m) : x.rounds + unread[m] >= paid[m]
  BY DEF PaidRoundsAreKept
<1>1. Missing = {}
  BY NothingIsASession DEF RingInv, RingFollowsPc, Missing
<1>2. paid[m] # 0
  BY PaidAreNumbers
<1>3. DOMAIN rows = 1..Last /\ Last \in Nat
  BY LenProperties DEF RingInv, RingTypes, Last
<1>4. /\ 0 \in Shelves /\ Shelf(0) = campaign
      /\ \A i \in DOMAIN rows : i \in Shelves /\ Shelf(i) = rows[i].open
      /\ \A i \in Shelves : i = 0 \/ i \in DOMAIN rows
  BY <1>3 DEF Shelves, Shelf
<1>5. /\ \A i \in Shelves : \A x \in Shelf(i) : x.m = m => x \in CopiesOn(rows, campaign, m)
      /\ \A i \in DOMAIN rows : \A x \in rows[i].matchups :
           x.m = m => x \in CopiesOn(rows, campaign, m)
  BY <1>4 DEF CopiesOn
<1>6. \/ \E i \in Shelves : \E x \in Shelf(i) : x.m = m /\ Whole(x)
      \/ \E i \in DOMAIN rows : m \in Ids(rows[i].matchups)
  BY <1>1, <1>2 DEF PaidIsKept, Ids
<1>7. \/ \E i \in Shelves : \E x \in Shelf(i) : x.m = m /\ Whole(x)
      \/ \E i \in DOMAIN rows : \E x \in rows[i].matchups : x.m = m /\ Whole(x)
  BY <1>6 DEF PaidIsKept, Ids
<1>8. \A x : x.m = m /\ Whole(x) => x.rounds + unread[m] >= paid[m]
  BY DEF Whole
<1>9. QED
  BY <1>5, <1>7, <1>8

\* No round that was ever on disk is lost, whatever sessions, belts, methodologies, deaths and
\* re-grades come and go, but for what PaidRoundsAreKept says of those it leaves out: rounds
\* that could not be read, what only a session that failed knew of, and torn matches.
THEOREM NoPaidRoundIsLost == Spec => []PaidRoundsAreKept
<1>1. Init => PaidInv /\ ReadingIsBounded
  BY InitEstablishesPaid
<1>2. PaidInv /\ ReadingIsBounded /\ [Next]_vars => PaidInv' /\ ReadingIsBounded'
  BY StepKeepsPaid
<1>3. PaidInv => PaidRoundsAreKept
  BY PaidRoundsAreOnDisk
<1>4. QED
  BY <1>1, <1>2, <1>3, PTL DEF Spec
=============================================================================
