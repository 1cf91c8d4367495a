---------------------------- MODULE FirewallWrite ----------------------------
(***************************************************************************)
(* How a session switches the firewall to a profile and back: the planner  *)
(* (settings_profile.plan_apply), the guarded write of session_runtime.py  *)
(* (ResilientProvider, every write attempted once and, if it does not      *)
(* answer, verified by a re-read), and the calls of providers/opnsense.py  *)
(* (apply_many: one read, one save per pipe, one reload).                  *)
(*                                                                         *)
(* The firewall keeps two things apart: the stored configuration, which    *)
(* setPipe changes and getSettings reads, and the running shaper, which    *)
(* only a reload brings up to it.  The fields of a pipe are one value      *)
(* here; a profile gives each pipe its value.  The session around the      *)
(* writes is that of a profile test.                                       *)
(***************************************************************************)
EXTENDS Integers, FiniteSets

CONSTANTS
  Pipes,        \* shaper pipes
  Values,       \* settings of one pipe
  MaxSessions,  \* bound on sessions
  MaxLosses     \* bound on calls the firewall does not answer as asked

ASSUME WriteAssumption ==
  /\ Pipes # {} /\ IsFiniteSet(Pipes) /\ Values # {}
  /\ MaxSessions \in Nat /\ MaxLosses \in Nat

Profile == [Pipes -> Values]

VARIABLES
  stored,     \* the saved configuration
  running,    \* what the shaper runs on
  reloading,  \* a reload whose caller is gone is still in progress
  phase,      \* where the session is
  restoring,  \* the switch in progress is the restore
  target, baseline,
  batch,      \* the pipes of this write
  saved,      \* those already saved
  originals,  \* the configuration apply_many read
  outcome,    \* of the last write
  sessions, losses

plan == <<target, baseline, sessions>>
firewall == <<stored, running, reloading>>
vars == <<firewall, phase, restoring, plan, batch, saved, originals, outcome, losses>>

Phases == {"idle", "plan", "read", "save", "rejected", "reload", "verify", "check",
           "measuring"}

TypeOK ==
  /\ stored \in Profile /\ running \in Profile /\ originals \in Profile
  /\ target \in Profile /\ baseline \in Profile
  /\ reloading \in BOOLEAN /\ restoring \in BOOLEAN
  /\ phase \in Phases
  /\ batch \subseteq Pipes /\ saved \subseteq batch
  /\ outcome \in {"none", "nothing", "ok", "verified", "failed"}
  /\ sessions \in 0..MaxSessions /\ losses \in 0..MaxLosses

Init ==
  /\ stored \in Profile /\ running = stored /\ reloading = FALSE
  /\ phase = "idle" /\ restoring = FALSE
  /\ target = stored /\ baseline = stored /\ originals = stored
  /\ batch = {} /\ saved = {} /\ outcome = "none"
  /\ sessions = 0 /\ losses = 0

Aim == IF restoring THEN baseline ELSE target

Lose == losses < MaxLosses /\ losses' = losses + 1

\* apply_changes returned, or the plan was empty: a restore ends the session, an
\* apply is read back.
Return(o) ==
  /\ outcome' = o /\ phase' = IF restoring THEN "idle" ELSE "check"
  /\ UNCHANGED restoring

\* It raised: a restore that fails is logged, anything else leads to the restore.
Fail ==
  /\ outcome' = "failed" /\ restoring' = TRUE
  /\ phase' = IF restoring THEN "idle" ELSE "plan"

\* A call of apply_many is not answered as asked: one of transport (a timeout, or
\* 502/503/504) is verified, any other error is raised as it is.
Unanswered ==
  /\ Lose
  /\ \/ phase' = "verify" /\ UNCHANGED <<restoring, outcome>>
     \/ Fail

-----------------------------------------------------------------------------
(* The session. *)

\* The baseline is what the firewall says it is on.
Begin(p) ==
  /\ phase = "idle" /\ phase' = "plan"
  /\ sessions < MaxSessions /\ sessions' = sessions + 1
  /\ target' = p /\ baseline' = stored /\ restoring' = FALSE /\ outcome' = "none"
  /\ UNCHANGED <<firewall, batch, saved, originals, losses>>

\* discover() and plan_apply: a change for every pipe that differs.
Plan ==
  /\ phase = "plan" /\ batch' = {p \in Pipes : stored[p] # Aim[p]} /\ saved' = {}
  /\ \/ batch' = {} /\ Return("nothing")
     \/ batch' # {} /\ phase' = "read" /\ UNCHANGED <<outcome, restoring>>
  /\ UNCHANGED <<firewall, plan, originals, losses>>

\* A discover() that fails after its retries raises: the one of the read-back or the
\* one of the restore.  (Before the first one nothing has been done.)
ReadFails ==
  /\ phase = "check" \/ (phase = "plan" /\ restoring)
  /\ Lose /\ Fail
  /\ UNCHANGED <<firewall, plan, batch, saved, originals>>

\* The read-back: every field of the target is there, or the session raises.
Check ==
  /\ phase = "check"
  /\ \/ stored = target /\ phase' = "measuring" /\ UNCHANGED <<outcome, restoring>>
     \/ stored # target /\ Fail
  /\ UNCHANGED <<firewall, plan, batch, saved, originals, losses>>

\* The end of the benchmark, however it ended.
Measured ==
  /\ phase = "measuring" /\ phase' = "plan" /\ restoring' = TRUE
  /\ UNCHANGED <<firewall, plan, batch, saved, originals, outcome, losses>>

-----------------------------------------------------------------------------
(* apply_many. *)

\* getSettings: the pipes as they are, each to be sent back whole.
Read ==
  /\ phase = "read"
  /\ \/ /\ originals' = stored /\ phase' = "save"
        /\ UNCHANGED <<restoring, outcome, losses>>
     \/ Unanswered /\ UNCHANGED originals
  /\ UNCHANGED <<firewall, plan, batch, saved>>

\* setPipe of one pipe is answered: saved.
Save(p) ==
  /\ phase = "save" /\ p \in batch \ saved
  /\ stored' = [stored EXCEPT ![p] = Aim[p]] /\ saved' = saved \cup {p}
  /\ phase' = IF batch = saved' THEN "reload" ELSE "save"
  /\ UNCHANGED <<running, reloading, restoring, plan, batch, originals, outcome, losses>>

\* It is not: the pipe may have been saved all the same; nothing is put back.
SaveLost(p) ==
  /\ phase = "save" /\ p \in batch \ saved /\ Unanswered
  /\ stored' \in {stored, [stored EXCEPT ![p] = Aim[p]]}
  /\ UNCHANGED <<running, reloading, plan, batch, saved, originals>>

\* The firewall refuses the values ("result": "failed").
SaveRejected ==
  /\ phase = "save" /\ phase' = "rejected"
  /\ UNCHANGED <<firewall, restoring, plan, batch, saved, originals, outcome, losses>>

RaiseHalfSaved ==
  /\ phase = "rejected" /\ Fail
  /\ UNCHANGED <<firewall, plan, batch, saved, originals, losses>>

\* The pipes this call already saved are put back, best effort; no reload.
PutBack ==
  /\ phase = "rejected" /\ Fail
  /\ \E done \in SUBSET saved :
       /\ (done = saved /\ UNCHANGED losses) \/ (done # saved /\ Lose)
       /\ stored' = [p \in Pipes |-> IF p \in done THEN originals[p] ELSE stored[p]]
  /\ UNCHANGED <<running, reloading, plan, batch, saved, originals>>

SkipReload ==
  /\ phase = "reload" /\ Return("ok")
  /\ UNCHANGED <<firewall, plan, batch, saved, originals, losses>>

\* reconfigure is answered: the shaper runs on what is stored.
Reload ==
  /\ phase = "reload" /\ running' = stored /\ Return("ok")
  /\ UNCHANGED <<stored, reloading, plan, batch, saved, originals, losses>>

\* It is not: done, still in progress, or never begun.
ReloadLost ==
  /\ phase = "reload" /\ Unanswered
  /\ \/ running' = stored /\ UNCHANGED reloading
     \/ reloading' = TRUE /\ UNCHANGED running
     \/ UNCHANGED <<running, reloading>>
  /\ UNCHANGED <<stored, plan, batch, saved, originals>>

\* The firewall, in its own time.
ReloadEnds ==
  /\ reloading /\ reloading' = FALSE /\ running' = stored
  /\ UNCHANGED <<stored, phase, restoring, plan, batch, saved, originals, outcome, losses>>

VerifyUnread ==
  /\ phase = "verify" /\ Return("verified")
  /\ UNCHANGED <<firewall, plan, batch, saved, originals, losses>>

\* _verify_applied: never reissued; the changes are read back, or cannot be told.
Verify ==
  /\ phase = "verify"
  /\ \/ (\A p \in batch : stored[p] = Aim[p]) /\ Return("verified") /\ UNCHANGED losses
     \/ (\E p \in batch : stored[p] # Aim[p]) /\ Fail /\ UNCHANGED losses
     \/ Lose /\ Fail
  /\ UNCHANGED <<firewall, plan, batch, saved, originals>>

-----------------------------------------------------------------------------

Next ==
  \/ \E p \in Profile : Begin(p)
  \/ Plan \/ ReadFails \/ Check \/ Measured
  \/ Read \/ SaveRejected \/ PutBack
  \/ \E p \in Pipes : Save(p) \/ SaveLost(p)
  \/ Reload \/ ReloadLost \/ ReloadEnds \/ Verify

Spec == Init /\ [][Next]_vars

-----------------------------------------------------------------------------
(* Properties. *)

\* Where a switch that did not raise has led.
Switched == phase \in {"check", "measuring", "idle"}

\* Where apply_many or its verification is at work.
Writing == {"read", "save", "rejected", "reload", "verify"}

\* A switch that was answered is on the shaper, all of it, while the session
\* measures and after it restored: "every field on every pipe, then a single
\* shaper reload".  What an earlier, lost reload still does changes nothing.
OkIsOnTheShaper == Switched /\ outcome = "ok" => stored = Aim /\ running = Aim

\* A switch that did not raise is at least saved, also when an answer was lost
\* ("verified") and when there was nothing to change.
ReturnedIsStored ==
  Switched /\ outcome \in {"ok", "verified", "nothing"} => stored = Aim

\* While the firewall answers, rejections included, a switch is all or nothing: the
\* shaper is on one of the two profiles and never on a mix, and no half-saved
\* configuration is left "for the next reload to pick up".
AllOrNothing ==
  losses = 0 =>
    /\ running \in {baseline, target}
    /\ phase \notin {"save", "rejected"} => stored \in {baseline, target}

\* While a switch is being written, every pipe outside the batch and every pipe saved
\* is stored as aimed at.
SavedAsAimed ==
  /\ phase = "read" => saved = {}
  /\ phase = "reload" => saved = batch
  /\ phase \in Writing => \A p \in Pipes : p \in saved \/ p \notin batch => stored[p] = Aim[p]

\* While nothing has been lost, the shaper runs on what is stored, except between the
\* first save and the answer to the reload: until then it runs on what apply_many read,
\* and what is stored is that with the saved pipes replaced.
InStep ==
  losses = 0 =>
    /\ ~reloading /\ phase # "verify"
    /\ phase \notin {"save", "rejected", "reload"} => running = stored
    /\ phase \in {"save", "rejected"} =>
         running = originals /\ \A p \in Pipes \ saved : stored[p] = originals[p]

\* The invariant the proofs rest on.
WriteInv ==
  /\ TypeOK /\ OkIsOnTheShaper /\ ReturnedIsStored /\ AllOrNothing
  /\ SavedAsAimed /\ InStep

\* A write that did not answer is "either found to have taken (verified) or
\* reported gone".
VerifiedMeansTook == Switched /\ outcome = "verified" => running = Aim
=============================================================================
