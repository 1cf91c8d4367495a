-------------------------------- MODULE Belt --------------------------------
(***************************************************************************)
(* What the ring of duel.py makes of the rounds it measured: the stopping  *)
(* rules that end a match (SprtState, PairedEvidence, _adjudicate), the    *)
(* record on the ledger, and the lineal belt that is replayed from the     *)
(* records of the last sessions.                                           *)
(*                                                                         *)
(* A margin is an integer, challenger minus reference, in hundredths of a  *)
(* point or any other unit.  The walk of the sequential test steps by      *)
(* rounded logarithms, and the significance that a match needs is given as *)
(* a share of the sign patterns and as the square of the normal quantile.  *)
(* Who meets whom is any pair: the holder defends, but a campaign's base,  *)
(* the defender of carried matches, and a stand-in for a holder that is    *)
(* out of reach do too (DuelRing has the ring itself, with its seats).     *)
(* Re-grades, which re-read the rounds of a record and leave its verdict,  *)
(* are left out.                                                           *)
(***************************************************************************)
EXTENDS Integers, Sequences, FiniteSets, FiniteSetsExt, SequencesExt

CONSTANTS
  Profiles, NoOne, NoMatch,
  Margins,      \* what a round may show
  Rules,        \* configurations: method, floor (min_margin) and streak
  MinPairs, MaxPairs,
  WinStep, LossStep, Boundary,  \* of the sequential test
  Alpha,        \* the peek-corrected significance, as <<numerator, denominator>>
  ZSquared,     \* the square of its normal quantile, likewise
  Window,       \* sessions the replay reads, 50 in the code
  MaxRounds,    \* bound on the rounds ever fought
  MaxRecords,   \* bound on the matches
  MaxSessions   \* bound on the sessions

ASSUME BeltAssumption ==
  /\ NoOne \notin Profiles /\ Margins \subseteq Int
  /\ Rules \subseteq [method : {"paired", "pair_wins"}, floor : Nat, streak : Nat]
  /\ {MinPairs, MaxPairs, WinStep, LossStep, Boundary, Window, MaxSessions} \subseteq Nat \ {0}
  /\ {MaxRounds, MaxRecords} \subseteq Nat
  /\ MinPairs <= MaxPairs /\ WinStep < LossStep
  /\ Alpha \in Nat \X (Nat \ {0}) /\ ZSquared \in Nat \X (Nat \ {0})

VARIABLES
  rules,    \* the configuration in force
  match,    \* the match in progress: who, since which session, and its margins
  session,  \* the newest row
  ledger,   \* the records, in the order they were appended
  rounds    \* rounds ever fought

vars == <<rules, match, session, ledger, rounds>>

Match == [ref : Profiles, cha : Profiles, since : 1..MaxSessions, margins : Seq(Margins)]
Verdicts == {"incumbent", "challenger", "draw", "aborted"}
Record == [session : 1..MaxSessions, incumbent : Profiles, challenger : Profiles,
           verdict : Verdicts, wins_incumbent : 0..MaxRounds, wins_challenger : 0..MaxRounds]

TypeOK ==
  /\ rules \in Rules /\ match \in Match \cup {NoMatch}
  /\ session \in 1..MaxSessions /\ ledger \in Seq(Record) /\ rounds \in 0..MaxRounds

-----------------------------------------------------------------------------
(* The evidence of a match. *)

Abs(x) == IF x < 0 THEN -x ELSE x
Times(s, k) == [i \in DOMAIN s |-> k * s[i]]

\* The k-th smallest, and twice the median, which is the sum of the two in the middle.
Below(s, v) == Cardinality({i \in DOMAIN s : s[i] < v})
UpTo(s, v) == Cardinality({i \in DOMAIN s : s[i] <= v})
Smallest(s, k) == CHOOSE v \in {s[i] : i \in DOMAIN s} : Below(s, v) < k /\ k <= UpTo(s, v)
Median2(s) == Smallest(s, (Len(s) + 1) \div 2) + Smallest(s, Len(s) \div 2 + 1)

\* The challenger takes a round by a positive margin; a zero is the belt's.
ChallengerWins(s) == Cardinality({i \in DOMAIN s : s[i] > 0})
IncumbentWins(s) == Len(s) - ChallengerWins(s)

\* How many of the sets of ranks 1..n have each rank sum.
RankSumCounts[n \in Nat] ==
  IF n = 0 THEN [w \in {0} |-> 1]
  ELSE LET counts == RankSumCounts[n - 1]
           Of(w) == IF w \in DOMAIN counts THEN counts[w] ELSE 0
       IN  [w \in 0..((n * (n + 1)) \div 2) |-> Of(w) + Of(w - n)]

\* The average rank of s[i] by magnitude, doubled.
Rank2(s, i) ==
  2 * Cardinality({j \in DOMAIN s : Abs(s[j]) < Abs(s[i])})
    + Cardinality({j \in DOMAIN s : Abs(s[j]) = Abs(s[i])}) + 1

\* A one-sided signed-rank test that the margins are positive: exact when no ranks are
\* tied, and by the normal approximation when some are.
SignedRank(margins) ==
  LET s == SelectSeq(margins, LAMBDA x : x # 0)
      n == Len(s)
      w == MapThenSumSet(LAMBDA i : Rank2(s, i), {i \in DOMAIN s : s[i] > 0})
      counts == RankSumCounts[n]
      excess == 2 * w - (n * (n + 1)) - 2
  IN  /\ n >= 4
      /\ IF n <= 25 /\ \A i \in DOMAIN s : Rank2(s, i) % 2 = 0
         THEN Alpha[2] * MapThenSumSet(LAMBDA v : counts[v],
                                       {v \in DOMAIN counts : 2 * v >= w}) <= Alpha[1] * 2^n
         ELSE /\ excess > 0
              /\ 3 * ZSquared[2] * excess * excess
                   >= 2 * ZSquared[1] * n * (n + 1) * (2 * n + 1)

\* wilcoxon_p(margins, direction) <= nominal_alpha.
Significant(margins, direction) == SignedRank(Times(margins, direction))

\* How many of the last rounds went to the side that took the last one.
StreakLength(s) ==
  Len(s) - Max({0} \cup {i \in DOMAIN s : (s[i] > 0) # (s[Len(s)] > 0)})

Side(isChallenger) == IF isChallenger THEN "challenger" ELSE "incumbent"
\* Mutant: the floor forgets abs().
FloorOfOneSide(s) == Median2(s) >= 2 * rules.floor

ClearsFloor(s) == Abs(Median2(s)) >= 2 * rules.floor

\* PairedEvidence.decide: a streak, if the user set one; else the signed-rank test.
Decide(s) ==
  LET ahead == IF Median2(s) > 0 THEN 1 ELSE -1 IN
  IF rules.streak > 0 /\ StreakLength(s) >= rules.streak /\ ClearsFloor(s)
  THEN Side(s[Len(s)] > 0)
  ELSE IF Len(s) >= MinPairs /\ ClearsFloor(s) /\ Significant(s, ahead)
  THEN Side(ahead = 1)
  ELSE "open"

\* SprtState.decision: a boundary, mutual futility, or the cap.
Walk(wins, losses) == wins * WinStep - losses * LossStep
Sprt(s) ==
  LET challenger == Walk(ChallengerWins(s), IncumbentWins(s))
      incumbent == Walk(IncumbentWins(s), ChallengerWins(s))
      futile == challenger <= -Boundary /\ incumbent <= -Boundary
  IN  IF Len(s) < MinPairs THEN "open"
      ELSE IF challenger >= Boundary THEN "challenger"
      ELSE IF incumbent >= Boundary THEN "incumbent"
      ELSE IF futile \/ Len(s) >= MaxPairs THEN "draw" ELSE "open"

\* "A tiny win is a win": the side ahead on the median, or else on rounds.
Narrow(s) ==
  LET m == Median2(s) IN
  IF m > 0 \/ (m = 0 /\ ChallengerWins(s) > IncumbentWins(s)) THEN "challenger"
  ELSE IF m < 0 \/ (m = 0 /\ IncumbentWins(s) > ChallengerWins(s)) THEN "incumbent"
  ELSE "draw"

Sided(v) == v \in {"challenger", "incumbent"}

\* Wins alone: a boundary that the floor does not let through is a draw.
PairWins(s) ==
  IF Sided(Sprt(s)) THEN IF ClearsFloor(s) THEN Sprt(s) ELSE "draw"
  ELSE IF Sprt(s) = "draw" THEN Narrow(s) ELSE "open"

\* Mutant: the cap inherited from the sign test, as the comment at duel.py:3312 warns.
CapLeftToTheSign(s) ==
  IF Sided(Decide(s)) THEN Decide(s)
  ELSE IF Sided(Sprt(s)) /\ ~ClearsFloor(s) THEN "draw"
  ELSE IF Sprt(s) = "draw" THEN Narrow(s) ELSE "open"

\* _adjudicate, and its cap.
Paired(s) ==
  IF Sided(Decide(s)) THEN Decide(s)
  ELSE IF Sided(Sprt(s)) /\ ~ClearsFloor(s) THEN "draw"
  ELSE IF Sprt(s) = "draw" \/ Len(s) >= MaxPairs THEN Narrow(s) ELSE "open"

Adjudicate(s) == IF rules.method = "pair_wins" THEN PairWins(s) ELSE Paired(s)

-----------------------------------------------------------------------------
(* The belt, replayed. *)

\* The records of the last Window rows, by their places on the ledger.
Replayed == {i \in DOMAIN ledger : ledger[i].session > session - Window}

Decided(r) == Sided(r.verdict)
Winner(r) == IF r.verdict = "challenger" THEN r.challenger ELSE r.incumbent
Loser(r) == IF r.verdict = "challenger" THEN r.incumbent ELSE r.challenger

Nobody == [holder |-> NoOne, matches |-> [p \in Profiles \X Profiles |-> 0],
           rounds |-> [p \in Profiles \X Profiles |-> 0]]

\* The counters of the replay after record r: rounds of every bout, matches of the
\* decided ones.
Counted(belt, r) ==
  LET i == r.incumbent  c == r.challenger IN
  [holder  |-> belt.holder,
   rounds  |-> [belt.rounds EXCEPT ![<<i, c>>] = @ + r.wins_incumbent,
                                   ![<<c, i>>] = @ + r.wins_challenger],
   matches |-> IF Decided(r) THEN [belt.matches EXCEPT ![<<Winner(r), Loser(r)>>] = @ + 1]
                             ELSE belt.matches]

Leads(counter, a, b) == counter[<<a, b>>] > counter[<<b, a>>]

\* Mutant: a lead on either count takes the belt.
TakesEither(belt, r) ==
  /\ Decided(r)
  /\ \/ belt.holder = NoOne
     \/ /\ Loser(r) = belt.holder
        /\ \/ Leads(belt.matches, Winner(r), Loser(r))
           \/ Leads(belt.rounds, Winner(r), Loser(r))

\* The belt goes to the first winner, and then to who beats its holder and leads it on
\* both counts.
Takes(belt, r) ==
  /\ Decided(r)
  /\ \/ belt.holder = NoOne
     \/ /\ Loser(r) = belt.holder
        /\ Leads(belt.matches, Winner(r), Loser(r))
        /\ Leads(belt.rounds, Winner(r), Loser(r))

After(belt, r) ==
  LET counted == Counted(belt, r) IN
  IF Takes(counted, r) THEN [counted EXCEPT !.holder = Winner(r)] ELSE counted

\* The belt as the first n records leave it: the replay reads them in order.
Belts[n \in 0..Len(ledger)] ==
  IF n = 0 THEN Nobody
  ELSE IF n \in Replayed THEN After(Belts[n - 1], ledger[n]) ELSE Belts[n - 1]

\* lineal_belt.
Holder == Belts[Len(ledger)].holder

-----------------------------------------------------------------------------

Init ==
  /\ rules \in Rules /\ match = NoMatch /\ session = 1 /\ ledger = <<>> /\ rounds = 0

\* start() adds a row, and an old one leaves the replay; a match goes on in it.
NewSession ==
  /\ session < MaxSessions /\ session' = session + 1
  /\ UNCHANGED <<rules, match, ledger, rounds>>

Seat(ref, cha) ==
  /\ match = NoMatch /\ ref # cha /\ Len(ledger) < MaxRecords
  /\ match' = [ref |-> ref, cha |-> cha, since |-> session, margins |-> <<>>]
  /\ UNCHANGED <<rules, session, ledger, rounds>>

\* _close: the match ends on the ledger.
Close(s, verdict) ==
  /\ match' = NoMatch
  /\ ledger' = Append(ledger, [session |-> session, incumbent |-> match.ref,
       challenger |-> match.cha, verdict |-> verdict,
       wins_incumbent |-> IncumbentWins(s), wins_challenger |-> ChallengerWins(s)])

\* A usable round, and the adjudication at the end of its cycle.
Round ==
  /\ match # NoMatch /\ rounds < MaxRounds /\ rounds' = rounds + 1
  /\ \E x \in Margins :
       LET s == Append(match.margins, x) IN
       IF Adjudicate(s) = "open"
       THEN match' = [match EXCEPT !.margins = s] /\ UNCHANGED ledger
       ELSE Close(s, Adjudicate(s))
  /\ UNCHANGED <<rules, session>>

\* A carried match that cannot resume: the side ahead takes it.
Dismiss ==
  /\ match # NoMatch /\ match.since < session /\ match.margins # <<>>
  /\ Close(match.margins, Narrow(match.margins))
  /\ UNCHANGED <<rules, session, rounds>>

\* Unusable rounds in a row, a methodology that changed, or nothing comparable carried:
\* no verdict, but what was counted stays on the record.  (One without a round counts nothing.)
Abort ==
  /\ match # NoMatch /\ match.margins # <<>> /\ Close(match.margins, "aborted")
  /\ UNCHANGED <<rules, session, rounds>>

Next ==
  \/ NewSession \/ Round \/ Dismiss \/ Abort
  \/ \E ref, cha \in Profiles : Seat(ref, cha)

Spec == Init /\ [][Next]_vars

-----------------------------------------------------------------------------
(* Properties. *)

\* Neither side is favoured: the same rounds with the sides exchanged give the exchanged
\* verdict, whichever of the rules ends the match.  What is level is the belt's: a round of
\* margin zero (duel.py:2977), and for the signed-rank test a median of zero, of which only the
\* belt's side is tested (duel.py:512), unless a floor rules it out.
LevelIsTheBelts(s) ==
  \/ \E i \in DOMAIN s : s[i] = 0
  \/ rules.method = "paired" /\ rules.floor = 0 /\ Median2(s) = 0
Exchanged(v) ==
  CASE v = "challenger" -> "incumbent" [] v = "incumbent" -> "challenger" [] OTHER -> v

SidesAreAlike ==
  match # NoMatch =>
    \A x \in Margins :
      LET s == Append(match.margins, x) IN
      LevelIsTheBelts(s) \/ Adjudicate(Times(s, -1)) = Exchanged(Adjudicate(s))

\* Every match is over at its cap, whatever the sign test, the signed-rank test and the floor
\* make of its rounds: one that no rule ended would keep its seat for good.
MatchesEnd == match # NoMatch => Len(match.margins) < MaxPairs

\* The title is lost in the ring: while no row leaves the replay, the belt changes hands only
\* by a bout its holder lost, to a profile that won more of their matches and more of their
\* rounds, counted over every bout of the two, drawn and aborted ones included.
Taken(r, a, b) ==
  CASE <<a, b>> = <<r.incumbent, r.challenger>> -> r.wins_incumbent
    [] <<a, b>> = <<r.challenger, r.incumbent>> -> r.wins_challenger
    [] OTHER -> 0
RoundsWon(a, b) ==
  Cardinality(UNION {{i} \X (1..Taken(ledger[i], a, b)) : i \in Replayed})
MatchesWon(a, b) ==
  Cardinality({i \in Replayed :
                 Decided(ledger[i]) /\ <<a, b>> = <<Winner(ledger[i]), Loser(ledger[i])>>})

BeatsTheHolder(a, b) ==
  /\ MatchesWon(a, b) > MatchesWon(b, a) /\ RoundsWon(a, b) > RoundsWon(b, a)
  /\ <<a, b>> = <<Winner(Last(ledger)), Loser(Last(ledger))>>

BeltIsLostInTheRing ==
  [][\A h \in Profiles :
       session' = session /\ Holder = h /\ Holder' # h => BeatsTheHolder(Holder, h)']_vars

\* "Bouts the holder is not in cannot move it" (duel.py:1342): also not by leaving the replay.
BeltIsNeverForgotten ==
  [][Holder # NoOne /\ session' # session => Holder' = Holder]_vars
=============================================================================
