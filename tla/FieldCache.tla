----------------------------- MODULE FieldCache -----------------------------
(***************************************************************************)
(* The two caches in front of the standings: the field memo of             *)
(* api/routes_settings.py, one computation per question however many       *)
(* callers ask, and the rollups of profile_aggregates.py, one row per      *)
(* profile that is verified on every read.                                 *)
(*                                                                         *)
(* What a field or a rollup says is represented by the rows it was read    *)
(* from: the run, the profile it is filed under, and the write that last   *)
(* touched its score.  The key of the memo (its display options) is one    *)
(* key: keys share nothing but the size of the memo.  A query is atomic,   *)
(* and a caller runs several.                                              *)
(*                                                                         *)
(* A pass takes tens of seconds, and nothing makes a rewrite wait for it:  *)
(* the drop may fall between what a pass reads and what it stores.         *)
(*                                                                         *)
(* Two abstractions: a run that is comparable under a methodology stays    *)
(* comparable under it; and the time of a scoring is that of its commit,   *)
(* where the code takes it shortly before.                                 *)
(***************************************************************************)
EXTENDS Integers, Sequences, FiniteSets

CONSTANTS
  Callers,       \* request threads, sessions, the crown follower
  Profile,       \* a profile under its canonical fingerprint
  Spelling,      \* the same profile under the fingerprint of an older scheme
  Asked,         \* the profiles whose rollup is asked for
  Unstamped,     \* the profile of a run whose settings were never captured
  NoField, NoRow, NoCaller,
  MaxRuns,       \* bound on the runs
  MaxWrites,     \* bound on the writes of scores
  MaxPublishes,  \* bound on methodology changes
  MaxRaises      \* bound on the passes that raise

ASSUME CacheAssumption ==
  /\ Profile # Spelling /\ Unstamped \notin {Profile, Spelling}
  /\ "field" \notin {Profile, Spelling} /\ Asked \subseteq {Profile, Spelling}
  /\ {MaxRuns, MaxWrites, MaxPublishes, MaxRaises} \subseteq Nat
  /\ MaxRuns >= 2 /\ MaxWrites >= 2

VARIABLES
  fp,       \* what each completed run is filed under, in the order of their ids
  scored,   \* the write that last touched its score under each methodology, or 0
  scores,   \* how many score rows there are, under any methodology
  clock,    \* the last write of a score
  version,  \* the current methodology
  rewrite,  \* how far each of the wholesale rewrites is
  under,    \* the methodology the re-grade grades under
  raises,   \* passes that raised
  memo,     \* _FIELD_CACHE
  flights,  \* _FIELD_INFLIGHT: a stamp, and the caller that computes for it
  rollups,  \* the stored rollup of each profile
  call,     \* what each caller is doing
  overtaken, \* history: the callers whose pass read before the last drop and has yet to store
  undone    \* history: the memo was stored by such a pass

db == <<fp, scored, scores, clock, version>>
rewrites == <<rewrite, under>>
drops == <<overtaken, undone>>
cacheVars == <<db, rewrites, memo, flights, rollups, call, raises, drops>>

Fingerprints == {Profile, Spelling}
Rewriters == {"refingerprint", "regrade"}
Runs == DOMAIN fp
Versions == 0..MaxPublishes

-----------------------------------------------------------------------------
(* What can be asked, and the cheap identities of the answers. *)

\* The runs with a score under v: completed, and comparable.
Scored(v) == {r \in Runs : scored[r][v] > 0}

\* compute_profiles, uncached: the stamped runs scored under the current methodology.
FieldNow == [version |-> version,
             rows |-> {<<r, fp[r], scored[r][version]>> :
                         r \in {x \in Scored(version) : fp[x] # Unstamped}}]

\* _field_stamp: counts and newest ids; no run and no score is ever deleted.
FieldStamp == <<Len(fp), scores, version>>

\* _recompute: what the rollup of p under v is aggregated from ...
RowsOf(v, p) == {<<r, scored[r][v]>> : r \in {x \in Scored(v) : fp[x] = p}}

\* ... and the identity of those rows: newest run, how many, newest scoring.
Newest(S) == IF S = {} THEN 0 ELSE CHOOSE n \in S : \A x \in S : x <= n
RowsStamp(rows) ==
  <<Newest({x[1] : x \in rows}), Cardinality(rows), Newest({x[2] : x \in rows})>>
RollupNow(v, p) ==
  [version |-> v, stamp |-> RowsStamp(RowsOf(v, p)), rows |-> RowsOf(v, p)]

Rewriting == \E w \in Rewriters : rewrite[w] # "idle"

\* The true answer to what a caller asks; a rollup is asked for under one methodology.
Now == [what \in {"field"} \cup Fingerprints |->
          [v \in Versions |-> IF what = "field" THEN FieldNow ELSE RollupNow(v, what)]]

Idle == [pc |-> "idle", what |-> "field", under |-> 0, stamp |-> <<0, 0, 0>>,
         got |-> NoField, leader |-> NoCaller, seen |-> {}, rewrote |-> FALSE]

Points == {"idle", "enter", "wait", "read", "store", "pop", "set", "rows", "recompute",
           "persist"}

Stamps == Nat \X Nat \X Nat
Fields == [version : Versions, rows : SUBSET (Nat \X Fingerprints \X Nat)]
Rollups == [version : Versions, stamp : Stamps, rows : SUBSET (Nat \X Nat)]

Call == [pc : Points, what : {"field"} \cup Fingerprints, under : Versions, stamp : Stamps,
         got : Fields \cup Rollups \cup {NoField}, leader : Callers \cup {NoCaller},
         seen : SUBSET (Fields \cup Rollups), rewrote : BOOLEAN]

DbTypes ==
  /\ Len(fp) \in 2..MaxRuns /\ fp \in Seq(Fingerprints \cup {Unstamped})
  /\ scored \in Seq([Versions -> 0..clock]) /\ Len(scored) = Len(fp)
  /\ clock \in 0..MaxWrites /\ version \in Versions /\ under \in Versions /\ scores \in Nat

CacheTypeOK ==
  /\ DbTypes
  /\ rewrite \in [Rewriters -> {"idle", "written", "cleared"}] /\ raises \in 0..MaxRaises
  /\ memo \in [stamp : Stamps, field : Fields] \cup {NoField}
  /\ flights \subseteq [stamp : Stamps, leader : Callers]
  /\ rollups \in [Fingerprints -> Rollups \cup {NoRow}]
  /\ call \in [Callers -> Call]
  /\ overtaken \subseteq Callers /\ undone \in BOOLEAN

FirstScore(n) == [v \in Versions |-> IF v = 0 THEN n ELSE 0]

CacheInit ==
  /\ fp = <<Spelling, Unstamped>> /\ scored = <<FirstScore(1), FirstScore(2)>>
  /\ scores = 2 /\ clock = 2 /\ version = 0 /\ under = 0 /\ raises = 0
  /\ rewrite = [w \in Rewriters |-> "idle"]
  /\ memo = NoField /\ flights = {} /\ rollups = [p \in Fingerprints |-> NoRow]
  /\ call = [c \in Callers |-> Idle] /\ overtaken = {} /\ undone = FALSE

-----------------------------------------------------------------------------
(* The database moves.  `seen` and `rewrote` are history: what was true at some *)
(* instant of a call, until the call goes to compute its own answer.             *)

\* Every call that may yet be given a stored answer lives through the step to the new
\* database.
Witnessed ==
  call' = [c \in Callers |->
             IF call[c].pc \notin {"enter", "wait", "rows"} THEN call[c]
             ELSE [call[c] EXCEPT
                     !.seen = @ \cup {Now'[call[c].what][call[c].under]},
                     !.rewrote = @ \/ Rewriting']]

cached == <<memo, flights, rollups, raises, drops>>

\* A run completes and is scored (CacheInit has the run whose settings were not captured).
RunLands ==
  /\ Len(fp) < MaxRuns /\ clock < MaxWrites
  /\ fp' = Append(fp, Profile)
  /\ scored' = Append(scored, [v \in Versions |-> IF v = version THEN clock + 1 ELSE 0])
  /\ clock' = clock + 1 /\ scores' = scores + 1
  /\ UNCHANGED <<version, rewrites, cached>> /\ Witnessed

\* A publish: nothing is scored under the new methodology yet.
Publish ==
  /\ version < MaxPublishes /\ version' = version + 1
  /\ UNCHANGED <<fp, scored, scores, clock, rewrites, cached>> /\ Witnessed

\* score_history_under_current commits a run's score under the methodology it began
\* with: a new row, or the row the run has.
RegradeRun ==
  /\ clock < MaxWrites /\ rewrite["regrade"] # "cleared"
  /\ under' = IF rewrite["regrade"] = "idle" THEN version ELSE under
  /\ \E r \in Runs :
       /\ scored' = [scored EXCEPT ![r][under'] = clock + 1]
       /\ scores' = IF scored[r][under'] = 0 THEN scores + 1 ELSE scores
  /\ clock' = clock + 1
  /\ rewrite' = [rewrite EXCEPT !["regrade"] = "written"]
  /\ UNCHANGED <<fp, version, cached>> /\ Witnessed

\* refingerprint_runs files every stamped run under the current scheme, in place.
Refingerprint ==
  /\ rewrite["refingerprint"] = "idle" /\ \E r \in Runs : fp[r] = Spelling
  /\ fp' = [r \in Runs |-> IF fp[r] = Spelling THEN Profile ELSE fp[r]]
  /\ rewrite' = [rewrite EXCEPT !["refingerprint"] = "written"]
  /\ UNCHANGED <<scored, scores, clock, version, under, cached>> /\ Witnessed

\* backfill_settings files the unstamped runs under the settings in force, in place.
Backfill ==
  /\ \E r \in Runs : fp[r] = Unstamped
  /\ fp' = [r \in Runs |-> IF fp[r] = Unstamped THEN Profile ELSE fp[r]]
  /\ UNCHANGED <<scored, scores, clock, version, rewrites, cached>> /\ Witnessed

\* The callers whose pass has read and has yet to store.
Passing == {c \in Callers : call[c].what = "field" /\ call[c].pc = "store"}

KeepMemo(w) ==
  /\ rewrite[w] = "written" /\ rewrite' = [rewrite EXCEPT ![w] = "cleared"]
  /\ overtaken' = Passing
  /\ UNCHANGED <<db, under, memo, flights, rollups, raises, call, undone>>

\* A re-grade and a re-key end in invalidate_profiles_cache: first the memo, at once,
\* whatever pass is under way ...
DropMemo(w) ==
  /\ rewrite[w] = "written" /\ rewrite' = [rewrite EXCEPT ![w] = "cleared"]
  /\ memo' = NoField
  /\ overtaken' = Passing /\ undone' = FALSE
  /\ UNCHANGED <<db, under, flights, rollups, raises, call>>

\* ... then the rollups, if it can.
DropRollups(w) ==
  /\ rewrite[w] = "cleared" /\ rewrite' = [rewrite EXCEPT ![w] = "idle"]
  /\ \/ rollups' = [p \in Fingerprints |-> NoRow]
     \/ UNCHANGED rollups
  /\ UNCHANGED <<db, under, memo, flights, raises, call, drops>>

-----------------------------------------------------------------------------
(* compute_profiles. *)

Become(c, r) == call' = [call EXCEPT ![c] = r]
To(c, p) == Become(c, [call[c] EXCEPT !.pc = p, !.got = NoField,
                                       !.seen = {}, !.rewrote = FALSE])
AsksField(c, p) == call[c].what = "field" /\ call[c].pc = p

Ask(c) ==
  /\ call[c].pc = "idle"
  /\ Become(c, [Idle EXCEPT !.pc = "enter", !.stamp = FieldStamp,
                            !.seen = {FieldNow}, !.rewrote = Rewriting])
  /\ UNCHANGED <<db, rewrites, cached>>

Hits(c) == memo # NoField /\ memo.stamp = call[c].stamp
Flight(c) == {f \in flights : f.stamp = call[c].stamp}

Hit(c) ==
  /\ AsksField(c, "enter") /\ Hits(c)
  /\ Become(c, Idle)
  /\ UNCHANGED <<db, rewrites, cached>>

\* Nobody computes this yet: this caller does.
Lead(c) ==
  /\ AsksField(c, "enter") /\ ~Hits(c) /\ Flight(c) = {}
  /\ flights' = flights \cup {[stamp |-> call[c].stamp, leader |-> c]}
  /\ To(c, "read") /\ UNCHANGED <<db, rewrites, memo, rollups, raises, drops>>

\* Somebody does: wait for the event of that flight, and look again.
Follow(c) ==
  /\ AsksField(c, "enter") /\ ~Hits(c)
  /\ \E f \in Flight(c) :
       Become(c, [call[c] EXCEPT !.pc = "wait", !.leader = f.leader])
  /\ UNCHANGED <<db, rewrites, cached>>

\* The pass reads the database, outside the lock.
Read(c) ==
  /\ AsksField(c, "read")
  /\ Become(c, [call[c] EXCEPT !.pc = "store", !.got = FieldNow])
  /\ UNCHANGED <<db, rewrites, cached>>

RaiseOutright(c) ==
  /\ AsksField(c, "read") /\ raises < MaxRaises /\ raises' = raises + 1
  /\ Become(c, Idle) /\ UNCHANGED <<db, rewrites, memo, flights, rollups, drops>>

\* It raises, and the caller gets the exception once it has cleared its slot.
Raise(c) ==
  /\ AsksField(c, "read") /\ raises < MaxRaises /\ raises' = raises + 1
  /\ To(c, "pop") /\ UNCHANGED <<db, rewrites, memo, flights, rollups, drops>>

Store(c) ==
  /\ AsksField(c, "store")
  /\ memo' = [stamp |-> call[c].stamp, field |-> call[c].got]
  /\ undone' = (c \in overtaken) /\ overtaken' = overtaken \ {c}
  /\ To(c, "pop") /\ UNCHANGED <<db, rewrites, flights, rollups, raises>>

\* The finally clause: the slot, then the event.
Pop(c) ==
  /\ AsksField(c, "pop") /\ flights' = flights \ Flight(c)
  /\ To(c, "set") /\ UNCHANGED <<db, rewrites, memo, rollups, raises, drops>>

Set(c) ==
  /\ AsksField(c, "set")
  /\ call' = [d \in Callers |->
                CASE d = c -> Idle
                  [] call[d].pc = "wait" /\ call[d].leader = c ->
                       [call[d] EXCEPT !.pc = "enter", !.leader = NoCaller]
                  [] OTHER -> call[d]]
  /\ UNCHANGED <<db, rewrites, cached>>

-----------------------------------------------------------------------------
(* aggregates, for one profile. *)

\* stamps: what the rollup should have been built from.
AskRollup(c) ==
  /\ call[c].pc = "idle"
  /\ \E p \in Asked :
       LET now == RollupNow(version, p) IN
         Become(c, [Idle EXCEPT !.pc = "rows", !.what = p, !.under = version,
                                !.stamp = now.stamp, !.seen = {now}])
  /\ UNCHANGED <<db, rewrites, cached>>

AsksRollup(c, p) == call[c].what \in Fingerprints /\ call[c].pc = p
NoRows == <<0, 0, 0>>
Verified(c) ==
  LET row == rollups[call[c].what]
  IN  row # NoRow /\ row.version = call[c].under /\ row.stamp = call[c].stamp

\* Nothing to read, and a leftover row is not served ...
NothingToRead(c) ==
  /\ AsksRollup(c, "rows") /\ call[c].stamp = NoRows
  /\ Become(c, Idle)
  /\ UNCHANGED <<db, rewrites, cached>>

\* ... the stored row is served if it was built from what was stamped ...
ServeStored(c) ==
  /\ AsksRollup(c, "rows") /\ call[c].stamp # NoRows /\ Verified(c)
  /\ Become(c, Idle)
  /\ UNCHANGED <<db, rewrites, cached>>

FindStale(c) ==
  /\ AsksRollup(c, "rows") /\ call[c].stamp # NoRows /\ ~Verified(c)
  /\ To(c, "recompute") /\ UNCHANGED <<db, rewrites, cached>>

RecomputeUnderTheOldStamp(c) ==
  /\ AsksRollup(c, "recompute")
  /\ Become(c, [call[c] EXCEPT !.pc = "persist",
                  !.got = [Now[call[c].what][call[c].under] EXCEPT !.stamp = call[c].stamp]])
  /\ UNCHANGED <<db, rewrites, cached>>

\* ... or it is computed again, and says what it was computed from.
Recompute(c) ==
  /\ AsksRollup(c, "recompute")
  /\ Become(c, [call[c] EXCEPT !.pc = "persist", !.got = Now[call[c].what][call[c].under]])
  /\ UNCHANGED <<db, rewrites, cached>>

\* Saving it is best effort.
Persist(c) ==
  /\ AsksRollup(c, "persist")
  /\ \/ rollups' = [rollups EXCEPT ![call[c].what] = call[c].got]
     \/ UNCHANGED rollups
  /\ Become(c, Idle) /\ UNCHANGED <<db, rewrites, memo, flights, raises, drops>>

-----------------------------------------------------------------------------

Step(c) ==
  \/ Hit(c) \/ Lead(c) \/ Follow(c) \/ Read(c) \/ Store(c) \/ Pop(c) \/ Set(c)
  \/ NothingToRead(c) \/ ServeStored(c) \/ FindStale(c) \/ Recompute(c) \/ Persist(c)

CacheNext ==
  \/ RunLands \/ Publish \/ RegradeRun \/ Refingerprint \/ Backfill
  \/ \E w \in Rewriters : DropMemo(w) \/ DropRollups(w)
  \/ \E c \in Callers : Ask(c) \/ AskRollup(c) \/ Raise(c) \/ Step(c)

CacheSpec == CacheInit /\ [][CacheNext]_cacheVars

-----------------------------------------------------------------------------
(* Properties. *)

\* Only the run that was unstamped at first can be.
BackFilled == fp[2] # Unstamped

\* The runs a field speaks of, under the methodology it speaks of.
Outline(f) == [version |-> f.version, runs |-> {x[1] : x \in f.rows}]

\* A field served from the memo misses no run and no publish, and it was the true one at some
\* instant of the call: unless a rewrite was under way during the call, or the field is of a
\* pass that read before a rewrite ended and stored after it had dropped the memo (the
\* backfill drops nothing at all).
FieldIsCurrent ==
  [][\A c \in Callers : Hit(c) /\ ~BackFilled =>
       \E f \in call[c].seen :
         /\ Outline(f) = Outline(memo.field)
         /\ ~call[c].rewrote /\ ~undone => f = memo.field]_cacheVars

\* What the code says of it: "The cache is therefore never stale by construction"
\* (routes_settings.py:2162), "every other path mints rows and is caught by the stamp"
\* (748-750).  TLC refutes it by a backfill, and without one by a pass that outlasts a drop.
NeverStale ==
  [][\A c \in Callers : Hit(c) /\ ~call[c].rewrote => memo.field \in call[c].seen]_cacheVars

\* A stored rollup that is served was the true one at some instant of the call, whatever
\* was rewritten or left undropped meanwhile: the stamp a row carries is of its own rows,
\* so a row can be verified by a count, a newest run and a newest scoring alone.
RollupIsCurrent ==
  [][\A c \in Callers :
       ServeStored(c) => rollups[call[c].what] \in call[c].seen]_cacheVars

\* Who waits, waits for a call that is on its way to set the event; and who would find a
\* flight, finds one whose leader has not cleared it.  With a leader that raised this is
\* what keeps the next page load from hanging.
NobodyWaitsForNothing ==
  /\ \A c \in Callers : call[c].pc = "wait" =>
       /\ call[call[c].leader].pc \in {"read", "store", "pop", "set"}
       /\ call[call[c].leader].stamp = call[c].stamp
  /\ \A f \in flights :
       call[f.leader].pc \in {"read", "store", "pop"} /\ call[f.leader].stamp = f.stamp

-----------------------------------------------------------------------------
(* What carries them from step to step. *)

\* The passes whose field is, or will be, in the memo, and those of them no drop overtook.
Stored(c) == [stamp |-> call[c].stamp, field |-> call[c].got]
Passes == ({memo} \ {NoField}) \cup {Stored(c) : c \in Passing}
Timely == (IF undone THEN {} ELSE {memo} \ {NoField})
            \cup {Stored(c) : c \in Passing \ overtaken}

NotAhead(s, t) == s[1] <= t[1] /\ s[2] <= t[2] /\ s[3] <= t[3]

\* No stamp is of the future.
StampsAreOld ==
  \A c \in Callers : call[c].what = "field" => NotAhead(call[c].stamp, FieldStamp)

\* A pass of the present stamp has the present runs, unless the backfill stamped some.  It has
\* the present field, unless rows were rewritten in place since: by a rewrite that has yet to
\* drop the memo, or that dropped it while the pass was under way.
PassesAreCurrent ==
  /\ \A x \in Passes :
       /\ NotAhead(x.stamp, FieldStamp)
       /\ x.stamp = FieldStamp /\ ~BackFilled => Outline(x.field) = Outline(FieldNow)
  /\ \A x \in Timely :
       x.stamp = FieldStamp /\ ~BackFilled /\ (\A w \in Rewriters : rewrite[w] # "written")
         => x.field = FieldNow

\* What a caller may be given from the memo, it has seen to be true.
AskersHaveSeen ==
  \A c \in Callers : call[c].pc \in {"enter", "wait"} =>
    /\ call[c].what = "field" /\ FieldNow \in call[c].seen
    /\ \A x \in Passes : x.stamp = call[c].stamp /\ ~BackFilled =>
         \E f \in call[c].seen : Outline(f) = Outline(x.field)
    /\ \A x \in Timely : x.stamp = call[c].stamp /\ ~call[c].rewrote /\ ~BackFilled
                           => x.field \in call[c].seen

\* The rollups of a profile that are, or may yet be, stored.
Built(p) ==
  ({rollups[p]} \ {NoRow})
    \cup {call[c].got : c \in {d \in Callers : call[d].pc = "persist" /\ call[d].what = p}}

\* A rollup was true once.
WasTrue(row) ==
  /\ row \in Rollups /\ IsFiniteSet(row.rows) /\ row.stamp = RowsStamp(row.rows)
  /\ \A x, y \in row.rows : x[1] = y[1] => x = y
  /\ \A x \in row.rows : x[2] <= clock

\* Since then its runs are where they were, and each has the score it had or a newer one than
\* any in the rollup; or else all the runs of its profile went to another.
IsBehind(row, p) ==
  \A x \in row.rows :
    /\ x[1] \in Runs /\ fp[x[1]] = p /\ scored[x[1]][row.version] > 0
    /\ \/ scored[x[1]][row.version] = x[2]
       \/ \A y \in row.rows : y[2] < scored[x[1]][row.version]

RollupsWereTrue ==
  \A p \in Fingerprints : \A row \in Built(p) :
    /\ WasTrue(row)
    /\ IsBehind(row, p) \/ (p = Spelling /\ \A r \in Runs : fp[r] # Spelling)

\* What a caller may be given from the stored rollups, it has seen to be true.
ReadersHaveSeen ==
  \A c \in Callers : call[c].pc = "rows" =>
    /\ call[c].what \in Fingerprints /\ RollupNow(call[c].under, call[c].what) \in call[c].seen
    /\ \A row \in Built(call[c].what) :
         row.version = call[c].under /\ row.stamp = call[c].stamp /\ call[c].stamp # NoRows
           => row \in call[c].seen

\* What a call holds when it is to be stored is an answer.
AnswersHeld ==
  \A c \in Callers :
    /\ AsksField(c, "store") => call[c].got \in Fields
    /\ AsksRollup(c, "persist") => call[c].got \in Rollups

\* Who waits, waits for another caller's event.
WaitersFollow == \A c \in Callers : call[c].pc = "wait" => call[c].leader \in Callers

\* The invariant of the flights and of the rollups ...
CacheInv ==
  /\ CacheTypeOK /\ AnswersHeld
  /\ WaitersFollow /\ NobodyWaitsForNothing
  /\ RollupsWereTrue /\ ReadersHaveSeen

\* ... and of the memo.
FieldInv == StampsAreOld /\ PassesAreCurrent /\ AskersHaveSeen
=============================================================================
