------------------------------ MODULE DuelRing ------------------------------
(***************************************************************************)
(* The ring of duel.py: how a session seats matches, measures their rounds *)
(* between reference legs, records the decided ones on its row of the      *)
(* ledger and carries the open ones to the next session.  A match is a     *)
(* pair (defender, challenger); its rounds are margins on the scale of one *)
(* methodology, against one reference.  A round costs minutes of the       *)
(* user's line, which is why open matches are on disk after every cycle.   *)
(*                                                                         *)
(* A match exists in copies: the snapshot of an open match on a duel row   *)
(* or on the campaign's row, the seat in memory, the record on the ledger. *)
(* What a round measured, whom the ranking puts in the ring, and whether a *)
(* rule calls a match decided are choices; that the session holds the      *)
(* pipeline meanwhile is the subject of Coordinator and Baselines.         *)
(*                                                                         *)
(* The process may die and the database may fail between any two           *)
(* transactions, a campaign's base may move, a session may write its row   *)
(* while a re-grade has the ledger in hand, and a re-grade may be unable   *)
(* to read some rounds.  Histories say which matches that has struck, for  *)
(* the properties to speak of.                                             *)
(***************************************************************************)
EXTENDS Integers, Sequences, FiniteSets

CONSTANTS
  Profiles,     \* the field
  Base,         \* the pinned base of the one lever campaign
  NoProfile,    \* nobody defends
  NoLeg,        \* no reference leg was run
  Unusable,     \* a leg that could not be applied, or not be read
  Alike,        \* pairs that cannot differ in what is measured
  Seats,        \* seats of the ring
  Slots,        \* challenger legs of a cycle: belt_every - 1
  MinPairs,     \* rounds before a match may be decided
  MaxPairs,     \* rounds at which it must be
  MaxBad,       \* MAX_CONSECUTIVE_BAD_PAIRS
  MaxMatches,   \* bound on the matches ever seated
  MaxSessions,  \* bound on the sessions
  Lookback,     \* rows searched for open matches, 25 in the code
  MaxPublishes, \* bound on methodology changes
  Hazards       \* bound on what happens of its own: a publish, a death, a base that moved,
                \* a transaction while a re-grade has read, a match it cannot read in full

ASSUME RingAssumption ==
  /\ Base \in Profiles /\ NoProfile \notin Profiles
  /\ {Seats, Slots, MinPairs, MaxPairs, MaxBad, Lookback} \subseteq Nat \ {0}
  /\ {MaxMatches, MaxSessions, MaxPublishes, Hazards} \subseteq Nat
  /\ MinPairs <= MaxPairs

VARIABLES
  rows,      \* the duel rows, oldest first: open matches and matchups
  campaign,  \* the open matches on the campaign's row
  current,   \* the published methodology
  bout,      \* who meets whom, for every match ever seated
  pc,        \* where the session is; "out" when there is none
  ring,      \* what the session has in memory
  reading,   \* the rows as a re-grade in progress read them
  used,      \* hazards that were spent
  paid,      \* history: the most rounds of each match ever on disk, less those written off
  unread,    \* history: the rounds of each match that re-grades could not read
  torn       \* history: matches left recorded and open, or written back by a re-grade

struck == <<unread, torn>>
vars == <<rows, campaign, current, bout, pc, ring, reading, used, paid, struck>>

Versions == 0..MaxPublishes

\* A leg that was read: whose, under which methodology it was scored, and whether no
\* other session ran since.  A round is read against such legs.
Reading == [fp : Profiles, version : Versions, alone : BOOLEAN]

\* The snapshot of an open match: its rounds, those a re-grade has set aside because it
\* could not read them, its unusable rounds in a row, and the methodology on its stamp.
\* `read` is history.
Rounds == 0..MaxPairs + MaxSessions
Open == [m : 1..MaxMatches, rubric : Versions, rounds : Rounds, aside : Rounds,
         bad : 0..MaxBad, read : SUBSET Reading]
Record == [m : 1..MaxMatches, rubric : Versions, rounds : Rounds, aside : Rounds,
           won : BOOLEAN, read : SUBSET Reading]

\* Between sessions there is nothing in memory.
Nothing ==
  [lever |-> FALSE,    \* a lever session, under the campaign
   over |-> FALSE,     \* its window has closed, or it was cancelled
   rubric |-> 0,       \* the methodology it reads legs under
   ref |-> NoProfile,  \* the defender, the reference of every seated match
   draining |-> FALSE, \* the belt moved: finish the seated matches first
   lead |-> NoLeg,     \* the reference leg that opens the cycle
   seated |-> {},      \* matches in progress
   carried |-> {},     \* open matches of earlier sessions, not seated yet
   resuming |-> FALSE, \* the defender stands in to finish its carried matches
   doomed |-> {},      \* out of the ring, and not on the ledger yet
   pending |-> {},     \* the cycle's challenger legs
   matchups |-> {},    \* the session's records
   fought |-> {},      \* pairs that met in this session
   rematched |-> {},   \* pairs that had their rematch
   writing |-> FALSE,  \* a match is recorded, and still open on disk
   taken |-> FALSE]    \* the campaign's matches are in memory only

Points == {"out", "start", "cycle", "reseed", "match", "seat", "stale", "lead",
           "slots", "judge", "seam", "ending"}

Copies == (UNION {rows[i].open : i \in DOMAIN rows}) \cup campaign
          \cup ring.seated \cup ring.carried \cup ring.doomed
Ledger == UNION {rows[i].matchups : i \in DOMAIN rows}

TypeOK ==
  /\ Copies \subseteq Open /\ Ledger \cup ring.matchups \subseteq Record
  /\ {current, ring.rubric} \subseteq Versions /\ pc \in Points
  /\ bout \in Seq([ref : Profiles, cha : Profiles]) /\ Len(bout) <= MaxMatches
  /\ ring.ref \in Profiles \cup {NoProfile} /\ ring.lead \in Reading \cup {NoLeg, Unusable}
  /\ Cardinality(ring.seated) <= Seats /\ Cardinality(ring.pending) <= Slots
  /\ Len(paid) = Len(bout) /\ Len(unread) = Len(bout) /\ torn \subseteq DOMAIN bout
  /\ used \in 0..Hazards

Init ==
  /\ rows = <<>> /\ campaign = {} /\ current = 0 /\ bout = <<>>
  /\ pc = "out" /\ ring = Nothing
  /\ reading = <<>> /\ used = 0 /\ paid = <<>> /\ unread = <<>> /\ torn = {}

Ids(S) == {x.m : x \in S}
Pair(m) == {bout[m].ref, bout[m].cha}
Last == Len(rows)

\* The rounds of match m that disk d holds, open or recorded, those set aside included.
All(x) == x.rounds + x.aside
CopiesOn(d, c, m) ==
  {x \in (UNION {d[i].open \cup d[i].matchups : i \in DOMAIN d}) \cup c : x.m = m}
RoundsOn(d, c, m) ==
  LET copies == CopiesOn(d, c, m)
  IN  IF copies = {} THEN 0
      ELSE CHOOSE n \in {All(x) : x \in copies} : \A x \in copies : All(x) <= n

Write(d, c) ==
  /\ rows' = d /\ campaign' = c
  /\ paid' = [m \in 1..Len(bout) |->
                LET n == RoundsOn(d, c, m) IN IF n > paid[m] THEN n ELSE paid[m]]

Spend == used < Hazards /\ used' = used + 1

\* A transaction of the session leaves the rows and the campaign so.
Commit(d, c) ==
  /\ Write(d, c) /\ UNCHANGED struck
  /\ IF reading = <<>> THEN UNCHANGED used ELSE Spend
NoWrite == UNCHANGED <<rows, campaign, paid, struck>>
NoCommit == NoWrite /\ UNCHANGED used

Goto(p, r) == pc' = p /\ ring' = r

\* The shelves open matches lie on: 0 is the campaign's row, i the row of session i.
Shelves == 0..Last
Shelf(i) == IF i = 0 THEN campaign ELSE rows[i].open

\* The shelf a session writes what it has in memory to.
Own == IF pc = "out" THEN Last + 1 ELSE IF ring.lever THEN 0 ELSE Last

Memory == ring.seated \cup ring.carried \cup ring.doomed

\* The matches in memory whose rounds may be on no disk: those a lever session has taken off
\* the campaign's row and not written yet, or those whose turn it is to be recorded.
Missing == IF ring.taken THEN Memory ELSE ring.doomed

\* The session is gone with what it had in memory: rounds that were there only are written
\* off.  A match between the two transactions of its close is left on the ledger, and open.
Fail ==
  /\ Spend /\ Goto("out", Nothing)
  /\ paid' = [m \in 1..Len(bout) |->
                IF m \in Ids(Missing) THEN RoundsOn(rows, campaign, m) ELSE paid[m]]
  /\ torn' = torn \cup (IF ring.writing THEN Ids(ring.matchups) \cap Ids(Shelf(Own)) ELSE {})
  /\ UNCHANGED <<rows, campaign, current, bout, reading, unread>>

-----------------------------------------------------------------------------
(* From start() to the ring. *)

\* The row of a ladder session, or of a lever session under the campaign.
Start(lever) ==
  /\ pc = "out" /\ Last < MaxSessions
  /\ Commit(Append(rows, [open |-> {}, matchups |-> {}]), campaign)
  /\ Goto("start", [Nothing EXCEPT !.lever = lever, !.rubric = current])
  /\ UNCHANGED <<current, bout, reading>>

\* The newest of the rows searched that holds open matches.
Holder == {i \in DOMAIN rows \ {Last} : rows[i].open # {} /\ Last - i <= Lookback}

\* The open matches of an earlier session move onto this session's row.
Take ==
  /\ pc = "start" /\ ~ring.lever
  /\ IF Holder = {}
     THEN NoCommit /\ Goto("cycle", [ring EXCEPT !.rubric = current])
     ELSE LET i == CHOOSE i \in Holder : \A j \in Holder : j <= i IN
            /\ Commit([rows EXCEPT ![Last].open = rows[i].open, ![i].open = {}], campaign)
            /\ Goto("cycle", [ring EXCEPT !.carried = rows[i].open, !.rubric = current])
  /\ UNCHANGED <<current, bout, reading>>

\* A campaign's are moved off its row, into memory.
TakeCampaign ==
  /\ pc = "start" /\ ring.lever
  /\ Commit(rows, {})
  /\ Goto("cycle", [ring EXCEPT !.carried = campaign, !.rubric = current,
                                !.taken = campaign # {}])
  /\ UNCHANGED <<current, bout, reading>>

-----------------------------------------------------------------------------
(* The two transactions of a close, and the write of the open matches. *)

PersistSeats(r) ==
  IF r.lever THEN Commit(rows, r.seated)
  ELSE Commit([rows EXCEPT ![Last].open = r.seated], campaign)

\* _persist_open: the undecided seats and what is still carried, on the row.
PersistOpen(r) ==
  LET open == r.seated \cup r.carried IN
  IF r.lever THEN Commit(rows, open)
  ELSE Commit([rows EXCEPT ![Last].open = open], campaign)

\* _close, up to _persist_matchups: match s leaves the ring for the ledger.
RecordAs(s, won) ==
  /\ ~ring.writing
  /\ LET matchups == ring.matchups \cup
           {[m |-> s.m, rubric |-> s.rubric, rounds |-> s.rounds, aside |-> 0, won |-> won,
             read |-> s.read]} IN
       /\ Goto(pc, [ring EXCEPT !.matchups = matchups, !.writing = TRUE,
                                !.seated = @ \ {s}, !.doomed = @ \ {s}])
       /\ Commit([rows EXCEPT ![Last].matchups = matchups], campaign)
  /\ UNCHANGED <<current, bout, reading>>

SyncLater ==
  /\ ring.writing
  /\ Goto(pc, [ring EXCEPT !.writing = FALSE])
  /\ NoCommit /\ UNCHANGED <<current, bout, reading>>

\* The rest of _close.
Sync ==
  /\ ring.writing
  /\ PersistOpen(ring)
  /\ Goto(pc, [ring EXCEPT !.writing = FALSE, !.taken = FALSE])
  /\ UNCHANGED <<current, bout, reading>>

\* A match that cannot go on: the side ahead takes it, if it has rounds on this scale.
Dismiss ==
  /\ pc \in {"stale", "judge"}
  /\ \E s \in ring.doomed, won \in BOOLEAN :
       /\ won => pc = "stale" /\ s.rounds > 0 /\ s.rubric = ring.rubric
       /\ RecordAs(s, won)

-----------------------------------------------------------------------------
(* The top of a cycle: methodology, defender, seats. *)

NoticeNothing ==
  /\ pc = "cycle" /\ ~ring.over
  /\ Goto("match", ring)
  /\ NoCommit /\ UNCHANGED <<current, bout, reading>>

\* Has the methodology changed under the session?
Notice ==
  /\ pc = "cycle" /\ ~ring.over
  /\ Goto(IF current # ring.rubric THEN "reseed" ELSE "match", ring)
  /\ NoCommit /\ UNCHANGED <<current, bout, reading>>

\* Then every seated match is closed, on the scale it was fought on ...
CloseForReseed ==
  /\ pc = "reseed" /\ \E s \in ring.seated : RecordAs(s, FALSE)

\* ... and the ring starts afresh under the new one.
Reseed ==
  /\ pc = "reseed" /\ ring.seated = {} /\ ~ring.writing
  /\ LET r == [ring EXCEPT !.rubric = current, !.fought = {}, !.rematched = {},
                           !.ref = NoProfile, !.draining = FALSE, !.lead = NoLeg] IN
       PersistOpen(r) /\ Goto("match", [r EXCEPT !.taken = FALSE])
  /\ UNCHANGED <<current, bout, reading>>

\* The defenders that carried matches could resume against.
CarriedReferences ==
  {bout[s.m].ref : s \in {x \in ring.carried : x.rubric = ring.rubric}}

\* The rematches open to the session if d defends: pairs whose challenger won
\* without taking the belt, once each.
Rematches(d) ==
  {Pair(x.m) : x \in {y \in ring.matchups : y.won /\ bout[y.m].ref = d}} \ ring.rematched

\* A match as it is rebuilt from its snapshot: the rounds set aside are not among the
\* fields it is rebuilt from.
Rebuilt(s) == [s EXCEPT !.aside = 0]

\* Defender d has the ring: carried matches that cannot resume against d are out, for
\* their methodology, for the belt, or because their challenger left the field, cannot
\* be reached or cannot differ from d.
Defend(d, resume) ==
  \E out \in SUBSET ring.carried, again \in SUBSET Rematches(d) :
    /\ {s \in ring.carried : s.rubric # ring.rubric \/ bout[s.m].ref # d} \subseteq out
    /\ Cardinality(again) <= 1
    /\ Goto("seat",
            [ring EXCEPT !.ref = d, !.draining = FALSE, !.resuming = resume,
                         !.lead = IF ring.ref = d THEN @ ELSE NoLeg,
                         !.carried = @ \ out, !.doomed = @ \cup {Rebuilt(s) : s \in out},
                         !.fought = @ \ again, !.rematched = @ \cup again])

\* Who may defend: the campaign's base; else the reference of carried matches, until
\* they are seated; else the ranking's choice.
Defenders(resume) ==
  IF ring.lever THEN IF resume THEN {} ELSE {Base}
  ELSE IF resume THEN IF ring.draining THEN {} ELSE CarriedReferences
  ELSE Profiles

SwitchDefender ==
  /\ pc = "match"
  /\ \E resume \in BOOLEAN : \E d \in Defenders(resume) : Defend(d, resume)
  /\ NoCommit /\ UNCHANGED <<current, bout, reading>>

\* A new defender waits until the matches seated against the old one are finished.
ChooseDefender ==
  /\ pc = "match"
  /\ \E resume \in BOOLEAN : \E d \in Defenders(resume) :
       IF ring.seated # {} /\ d # ring.ref
       THEN Goto("stale", [ring EXCEPT !.draining = TRUE])
       ELSE Defend(d, resume)
  /\ NoCommit /\ UNCHANGED <<current, bout, reading>>

\* Nobody can defend: the session fails, as it does when the base of the campaign moved, or
\* ends if it has something to show.
NoDefender ==
  /\ pc = "match"
  /\ IF ring.lever \/ (ring.matchups = {} /\ ring.seated = {})
     THEN Fail
     ELSE Goto("ending", ring) /\ NoCommit /\ UNCHANGED <<current, bout, reading>>

\* A free seat goes to a carried match first, with its rounds.
SeatCarried ==
  /\ pc = "seat" /\ Cardinality(ring.seated) < Seats
  /\ \E s \in ring.carried :
       Goto(pc, [ring EXCEPT !.carried = @ \ {s}, !.seated = @ \cup {Rebuilt(s)},
                             !.fought = @ \cup {Pair(s.m)}])
  /\ NoCommit /\ UNCHANGED <<current, bout, reading>>

\* Challenger c meets the defender from now on, in a match with no rounds yet.
Seat(c) ==
  /\ bout' = Append(bout, [ref |-> ring.ref, cha |-> c])
  /\ paid' = Append(paid, 0) /\ unread' = Append(unread, 0)
  /\ Goto(pc, [ring EXCEPT
       !.fought = @ \cup {{ring.ref, c}},
       !.seated = @ \cup {[m |-> Len(bout'), rubric |-> ring.rubric, rounds |-> 0,
                           aside |-> 0, bad |-> 0, read |-> {}]}])

\* Then to a challenger that has not met the defender in this session, unless the
\* defender only stands in; never to one that cannot differ from the defender.
SeatFresh ==
  /\ pc = "seat" /\ Cardinality(ring.seated) < Seats /\ Len(bout) < MaxMatches
  /\ ring.carried = {} /\ ~ring.resuming
  /\ \E c \in Profiles \ {ring.ref} :
       /\ {ring.ref, c} \notin ring.fought \cup Alike
       /\ Seat(c)
  /\ UNCHANGED <<rows, campaign, current, reading, used, torn>>

\* Seats stay empty when the matchmaking has nobody left to offer.
Seated ==
  /\ pc = "seat" /\ (ring.carried = {} \/ Cardinality(ring.seated) = Seats)
  /\ Goto("stale", ring)
  /\ NoCommit /\ UNCHANGED <<current, bout, reading>>

\* With the unresumable ones recorded (Dismiss), the open matches are written; a
\* ring that stays empty fails the session, or ends it.
WriteOpen ==
  /\ pc = "stale" /\ ring.doomed = {} /\ ~ring.writing
  /\ PersistOpen(ring)
  /\ LET r == [ring EXCEPT !.taken = FALSE] IN
     IF ring.seated # {} THEN Goto("lead", r)
     ELSE IF ring.matchups = {} THEN Goto("out", Nothing)
     ELSE Goto("ending", r)
  /\ UNCHANGED <<current, bout, reading>>

-----------------------------------------------------------------------------
(* Legs. *)

\* A leg that is of no use is a hazard that happened.
SpendIf(useless) == IF useless THEN Spend ELSE UNCHANGED used

\* A leg of fp: it can be read if it was scored under the session's methodology.
Legs(fp) ==
  {Unusable} \cup {l \in [fp : {fp}, version : {current}, alone : {TRUE}] :
                     l.version = ring.rubric}

\* The opening reference leg, unless the last closing one serves.
OpeningLeg ==
  /\ pc = "lead"
  /\ \/ ring.lead # NoLeg /\ Goto("slots", ring)
     \/ ring.lead = NoLeg /\ ring.over /\ Goto("ending", ring)
     \/ /\ ring.lead = NoLeg /\ ~ring.over
        /\ \E l \in Legs(ring.ref) : Goto("slots", [ring EXCEPT !.lead = l])
     \/ ring.lead = NoLeg /\ ~ring.over /\ Goto("cycle", ring)   \* it could not even be applied
  /\ SpendIf(pc' = "cycle" \/ ring'.lead = Unusable)
  /\ NoWrite /\ UNCHANGED <<current, bout, reading>>

Measured == {p.s : p \in ring.pending}

\* A challenger leg; no seat has two in a cycle.
ChallengerLeg ==
  /\ pc = "slots" /\ ~ring.over /\ Cardinality(ring.pending) < Slots
  /\ \E s \in ring.seated \ Measured : \E l \in Legs(bout[s.m].cha) :
       /\ Goto(pc, [ring EXCEPT !.pending = @ \cup {[s |-> s, leg |-> l]}])
       /\ SpendIf(l = Unusable)
  /\ NoWrite /\ UNCHANGED <<current, bout, reading>>

\* A match after its leg, read against the usable ones of the flanking legs.
After(p, flanks) ==
  LET usable == flanks \ {NoLeg, Unusable} IN
  IF p.leg = Unusable \/ usable = {} THEN [p.s EXCEPT !.bad = @ + 1]
  ELSE [p.s EXCEPT !.bad = 0, !.rounds = @ + 1,
                   !.read = @ \cup {[f EXCEPT !.version = l.version] :
                                      f \in usable, l \in usable \cup {p.leg}}]

\* The closing reference leg, which also opens the next cycle, and the rounds it
\* resolves; a window that closed meanwhile leaves the opening leg alone.
ClosingLeg ==
  /\ pc = "slots"
  /\ ring.over \/ Measured = ring.seated \/ Cardinality(ring.pending) = Slots
  /\ \E trail \in IF ring.pending = {} \/ ring.over THEN {NoLeg} ELSE Legs(ring.ref) :
       LET after == {After(p, {ring.lead, trail}) : p \in ring.pending}
           aborted == {s \in after : s.bad >= MaxBad}
       IN  Goto("judge", [ring EXCEPT
             !.seated = ((@ \ Measured) \cup after) \ aborted,
             !.doomed = @ \cup aborted, !.pending = {}, !.lead = trail])
  /\ SpendIf(ring'.lead = Unusable)
  /\ NoWrite /\ UNCHANGED <<current, bout, reading>>

-----------------------------------------------------------------------------
(* The end of a cycle. *)

\* _adjudicate: a match may be decided from MinPairs on, and must be at MaxPairs.
Adjudicate ==
  /\ pc = "judge"
  /\ \E s \in ring.seated, won \in BOOLEAN : s.rounds >= MinPairs /\ RecordAs(s, won)

Judged ==
  /\ pc = "judge" /\ ring.doomed = {} /\ ~ring.writing
  /\ \A s \in ring.seated : s.rounds < MaxPairs
  /\ PersistOpen(ring)
  /\ Goto(IF ring.over THEN "ending" ELSE "seam", ring)
  /\ UNCHANGED <<current, bout, reading>>

YieldKeepingTheLead ==
  /\ pc = "seam"
  /\ \/ Goto("cycle", ring)
     \/ Goto("cycle", [ring EXCEPT !.lead = IF @ \in Reading THEN [@ EXCEPT !.alone = FALSE] ELSE @])
  /\ NoCommit /\ UNCHANGED <<current, bout, reading>>

\* The seam: the session goes on, or lets a queued one through first, after which
\* the closing leg is no neighbour of the next cycle's legs any more.
Yield ==
  /\ pc = "seam"
  /\ \/ Goto("cycle", ring)
     \/ Goto("cycle", [ring EXCEPT !.lead = NoLeg])
  /\ NoCommit /\ UNCHANGED <<current, bout, reading>>

\* The window closes, or the session is cancelled: seen where the ring asks.
WindowEnds ==
  /\ pc \in {"cycle", "lead", "slots", "judge"} /\ ~ring.over /\ Goto(pc, [ring EXCEPT !.over = TRUE])
  /\ NoCommit /\ UNCHANGED <<current, bout, reading>>

\* Whatever is still seated or carried stays on the row.
Close ==
  /\ pc = "ending" \/ (pc = "cycle" /\ ring.over)
  /\ PersistOpen(ring)
  /\ Goto("out", Nothing)
  /\ UNCHANGED <<current, bout, reading>>

\* The process dies, or the session raises: SessionAbort after legs that could not be
\* applied, a revoked lease, a database that does not answer.
Die == pc # "out" /\ Fail

-----------------------------------------------------------------------------
(* Publishing a methodology, and the re-grade that follows it. *)

Publish ==
  /\ current < MaxPublishes /\ current' = current + 1
  /\ Spend /\ UNCHANGED <<rows, campaign, bout, pc, ring, reading, paid, struck>>

\* A copy re-read from its runs under the new methodology, under which `lost` of its rounds
\* cannot be read: they are set aside, to be read again by the next re-grade.  A copy with no
\* rounds keeps its stamp.
Regraded(x, lost) ==
  LET aside == IF lost < All(x) THEN lost ELSE All(x)
  IN  IF All(x) = 0 THEN x
      ELSE [x EXCEPT !.rubric = current, !.rounds = All(x) - aside, !.aside = aside,
                     !.read = {[r EXCEPT !.version = current] : r \in @}]

RegradedAll(S, lost) == {Regraded(x, lost[x.m]) : x \in S}

\* regrade_ledger reads every row ...
RegradeReads ==
  /\ reading = <<>> /\ reading' = rows
  /\ \E i \in DOMAIN rows : \E x \in rows[i].open \cup rows[i].matchups : Regraded(x, 0) # x
  /\ UNCHANGED <<rows, campaign, current, bout, pc, ring, used, paid, struck>>

\* ... and writes the columns it changed, as it read them, whatever a session has written
\* there meanwhile; a row inserted in between is left alone.
RegradeWrites ==
  /\ reading # <<>> /\ reading' = <<>>
  /\ \E lost \in [DOMAIN bout -> Rounds] :
       LET Changes(was) == RegradedAll(was, lost) # was
           Column(was, now) == IF Changes(was) THEN RegradedAll(was, lost) ELSE now
           Over(was, now) == IF Changes(was) /\ was # now THEN Ids(was \cup now) ELSE {}
       IN  /\ \A m \in DOMAIN bout : lost[m] <= RoundsOn(reading, {}, m)
           /\ used' = used + Cardinality({m \in DOMAIN bout : lost[m] > 0}) /\ used' <= Hazards
           /\ Write([i \in DOMAIN rows |->
                      IF i \notin DOMAIN reading THEN rows[i]
                      ELSE [open |-> Column(reading[i].open, rows[i].open),
                            matchups |-> Column(reading[i].matchups, rows[i].matchups)]],
                    campaign)
           /\ unread' = [m \in 1..Len(bout) |-> unread[m] + lost[m]]
           /\ torn' = torn \cup UNION {Over(reading[i].open, rows[i].open)
                                         \cup Over(reading[i].matchups, rows[i].matchups) :
                                       i \in DOMAIN reading}
  /\ UNCHANGED <<current, bout, pc, ring>>

-----------------------------------------------------------------------------

Next ==
  \/ \E lever \in BOOLEAN : Start(lever)
  \/ Take \/ TakeCampaign
  \/ Sync \/ Dismiss
  \/ Notice \/ CloseForReseed \/ Reseed
  \/ ChooseDefender \/ NoDefender \/ SeatCarried \/ SeatFresh \/ Seated \/ WriteOpen
  \/ OpeningLeg \/ ChallengerLeg \/ ClosingLeg
  \/ Adjudicate \/ Judged \/ Yield
  \/ WindowEnds \/ Close \/ Die
  \/ Publish \/ RegradeReads \/ RegradeWrites

Spec == Init /\ [][Next]_vars

-----------------------------------------------------------------------------
(* Properties. *)

\* Whatever copy of a match one looks at, every round in it was read against the
\* match's own reference, side by side with it, under the methodology on its stamp:
\* sessions, belts and methodologies come and go, and "a match is never switched to a
\* different opponent, in-session or across sessions" (duel.py:2790).
RoundsAreComparable ==
  \A x \in Copies \cup Ledger :
    x.read \subseteq {[fp |-> bout[x.m].ref, version |-> x.rubric, alone |-> TRUE]}

\* Between sessions, whichever way the last one ended, every round of a match that was ever on
\* disk is on disk, open or recorded, for an open match is "never silently dropped"
\* (duel.py:3603) and "the record never forgets a round" (2895): but for rounds that a re-grade
\* could not read, for what only a session that failed had in memory, and for matches that a
\* re-grade wrote back over a session's writing.
PaidRoundsAreKept ==
  pc = "out" => \A m \in DOMAIN bout \ torn :
    paid[m] > 0 => \E x \in CopiesOn(rows, campaign, m) : x.rounds + unread[m] >= paid[m]

\* A leg set aside "can be spliced back the moment a version can read it - the record never
\* forgets a round" (duel.py:2894): what was paid is on disk, rounds set aside included.
\* (stated, and refuted: a seat is rebuilt without the rounds set aside, and written back so)
NoRoundIsForgotten ==
  pc = "out" => \A m \in DOMAIN bout \ torn : RoundsOn(rows, campaign, m) >= paid[m]

\* A match is adjudicated once: no second record of it, in this session or in a later one, for
\* the ratings and the belt to count again, unless a session failed between the two
\* transactions of its close or a re-grade wrote it back over a session's writing.
RecordedOnce ==
  \A i, j \in DOMAIN rows : \A x \in rows[i].matchups, y \in rows[j].matchups :
    x.m = y.m /\ x.m \notin torn => i = j /\ x = y

-----------------------------------------------------------------------------
(* What carries the properties from one step to the next, for the proofs. *)

Snapshot ==
  [m : Nat, rubric : Versions, rounds : Nat, aside : Nat, bad : Nat, read : SUBSET Reading]
Entry ==
  [m : Nat, rubric : Versions, rounds : Nat, aside : Nat, won : BOOLEAN, read : SUBSET Reading]
Row == [open : SUBSET Snapshot, matchups : SUBSET Entry]
Session ==
  [lever : BOOLEAN, over : BOOLEAN, rubric : Versions, ref : Profiles \cup {NoProfile},
   draining : BOOLEAN, lead : Reading \cup {NoLeg, Unusable},
   seated : SUBSET Snapshot, carried : SUBSET Snapshot, resuming : BOOLEAN,
   doomed : SUBSET Snapshot, pending : SUBSET [s : Snapshot, leg : Reading \cup {Unusable}],
   matchups : SUBSET Entry, fought : SUBSET SUBSET Profiles,
   rematched : SUBSET SUBSET Profiles, writing : BOOLEAN, taken : BOOLEAN]

RingTypes ==
  /\ rows \in Seq(Row) /\ reading \in Seq(Row) /\ campaign \in SUBSET Snapshot
  /\ current \in Versions /\ bout \in Seq([ref : Profiles, cha : Profiles])
  /\ ring \in Session /\ pc \in Points

\* What is in memory at which point of a session.
RingFollowsPc ==
  /\ pc = "out" => ring = Nothing
  /\ pc # "out" => rows # <<>>
  /\ pc = "start" => Memory = {} /\ ring.matchups = {} /\ ring.lead = NoLeg /\ ~ring.taken
  /\ ring.pending # {} => pc = "slots"
  /\ ring.doomed # {} => pc \in {"seat", "stale", "judge"}
  /\ ring.writing => pc \in {"reseed", "stale", "judge"}
  /\ ring.taken => ring.lever
  /\ pc \in {"seat", "stale", "lead", "slots"} => ring.ref \in Profiles
  /\ \A p \in ring.pending : p.s \in ring.seated
  /\ \A p, q \in ring.pending : p.s = q.s => p = q

\* A leg of fp as the session reads it.
LegOf(fp) == [fp |-> fp, version |-> ring.rubric, alone |-> TRUE]

\* A match with its rounds read against its own reference.
Comparable(x) ==
  /\ x.m \in DOMAIN bout
  /\ x.read \subseteq {[fp |-> bout[x.m].ref, version |-> x.rubric, alone |-> TRUE]}

\* Every copy is comparable, also those a re-grade holds; whatever will be read next will be
\* read against the defender, under the session's methodology.
CopiesAreComparable ==
  /\ \A x \in campaign \cup Memory \cup ring.matchups : Comparable(x)
  /\ \A i \in DOMAIN rows : \A x \in rows[i].open \cup rows[i].matchups : Comparable(x)
  /\ \A i \in DOMAIN reading : \A x \in reading[i].open \cup reading[i].matchups : Comparable(x)
  /\ DOMAIN reading \subseteq DOMAIN rows
  /\ \A s \in ring.seated : bout[s.m].ref = ring.ref /\ s.rubric = ring.rubric
  /\ pc = "seat" => \A s \in ring.carried : bout[s.m].ref = ring.ref /\ s.rubric = ring.rubric
  /\ ring.lead \in {NoLeg, Unusable, LegOf(ring.ref)}
  /\ \A p \in ring.pending : p.leg \in {Unusable, LegOf(bout[p.s.m].cha)}

\* At most one copy of a match among those of S.
Apart(S) == \A x, y \in S : x.m = y.m => x = y

\* No shelf has two snapshots of a match, and no two shelves have one each, nor has memory
\* two.
ShelvesApart ==
  /\ \A i \in Shelves : Apart(Shelf(i))
  /\ \A i \in DOMAIN reading : Apart(reading[i].open)
  /\ \A i, j \in Shelves : \A x \in Shelf(i), y \in Shelf(j) :
       x.m = y.m /\ x.m \notin torn => i = j
MemoryApart ==
  /\ Apart(Memory)
  /\ ring.seated \cap ring.carried = {} /\ ring.doomed \cap (ring.seated \cup ring.carried) = {}
  /\ Apart({x \in ring.matchups : x.m \notin torn})

\* A match in memory is on no shelf but that of the session, which holds nothing else.
OnOwnShelf ==
  /\ \A i \in Shelves : \A x \in Shelf(i), y \in Memory :
       x.m = y.m /\ x.m \notin torn => i = Own
  /\ pc \notin {"out", "start"} => Ids(Shelf(Own)) \subseteq Ids(Memory \cup ring.matchups) \cup torn

\* A match on the ledger is there once, is over, and was taken off the open ones unless the
\* session is about to.
OverOnTheLedger ==
  /\ RecordedOnce
  /\ \A i \in DOMAIN rows : \A r \in rows[i].matchups : r.m \notin torn =>
       /\ r.m \notin Ids(Memory)
       /\ \A j \in Shelves : \A x \in Shelf(j) : x.m = r.m => ring.writing /\ j = Own

\* The session's row is its own, and has the records of the session.
RowInStep ==
  /\ pc # "out" => Ids(ring.matchups) \ torn = Ids(rows[Last].matchups) \ torn
  /\ pc = "start" => /\ rows[Last].open = {}
                     /\ Last \in DOMAIN reading => reading[Last].open = {}

EachMatchOnce == ShelvesApart /\ MemoryApart /\ OnOwnShelf /\ OverOnTheLedger /\ RowInStep

\* What a copy lacks of the rounds that were ever on disk, re-grades could not read.
Whole(x) == x.m \notin torn => x.rounds + unread[x.m] >= paid[x.m]

\* What was set aside in a copy is unread; and a copy on disk has no rounds but those paid.
Accounted(x) == x.aside <= unread[x.m]
OnDisk(x) == Accounted(x) /\ All(x) <= paid[x.m]

\* Rounds that were ever on disk are there still, or in memory until their session has
\* written them again; memory never knows less than the disk.
PaidIsKept ==
  /\ paid \in Seq(Nat) /\ Len(paid) = Len(bout)
  /\ unread \in Seq(Nat) /\ Len(unread) = Len(bout)
  /\ \A i \in Shelves : \A x \in Shelf(i) : OnDisk(x)
  /\ \A i \in DOMAIN rows : \A x \in rows[i].matchups : OnDisk(x) /\ Whole(x)
  /\ \A x \in ring.matchups : OnDisk(x) /\ Whole(x)
  /\ \A x \in Memory : Accounted(x) /\ Whole(x)
  /\ \A m \in DOMAIN bout \ torn :
       \/ paid[m] = 0
       \/ \E i \in Shelves : \E x \in Shelf(i) : x.m = m /\ Whole(x)
       \/ \E i \in DOMAIN rows : m \in Ids(rows[i].matchups)
       \/ m \in Ids(Missing)

\* The inductive invariants behind the three properties, each on top of the one before.
RingInv == RingTypes /\ RingFollowsPc /\ CopiesAreComparable
OnceInv == RingInv /\ EachMatchOnce
PaidInv == OnceInv /\ PaidIsKept
=============================================================================
