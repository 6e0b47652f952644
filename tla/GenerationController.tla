-------------------------- MODULE GenerationController --------------------------
(***************************************************************************)
(* The lifecycle of generation attempts under one GenerationController.    *)
(*                                                                         *)
(* start_generation admits, supersedes the attempt before, and drives the  *)
(* new one in a loop until it is published, failed, waiting for a deferred *)
(* answer of the provider, or held for its caller.  on_completion resumes  *)
(* a waiting attempt; publish is the gate every publication goes through.  *)
(*                                                                         *)
(* A controller is entered by one thread at a time: every request of the   *)
(* service builds its own.  What interleaves with a run of the loop is the *)
(* clock, and between two runs the answers of the provider, which come in  *)
(* any order, late or never.  A run is therefore a sequence of steps, one  *)
(* for each look at the clock: a turn of the loop, the return of a         *)
(* provider call, the publication gate.                                    *)
(*                                                                         *)
(* The draft is abstracted to what the lifecycle decides on: whether there *)
(* is one, which stages are trusted, whether the last report is about it.  *)
(* The verdict of the deterministic validation is free, except that        *)
(* nothing validates without a draft.                                      *)
(***************************************************************************)
EXTENDS Naturals, FiniteSets

CONSTANTS
  MaxAttempts,      \* attempts that may be started (bound)
  Sessions,         \* anonymous quota sessions
  PendingIds,       \* ids a provider gives to the calls it defers (bound)
  Codes,            \* sets of validator codes a failed validation reports
  SessionLimit,     \* concurrent generations the admission grants a session
  DeadlineSeconds,  \* CASE_GENERATION_DEADLINE_SECONDS
  MaxCalls,         \* the lower of the global and the core ceiling of calls
  MaxRepairs,       \* MAX_REPAIR_PASSES
  MaxRegenerations, \* MAX_FULL_REGENERATIONS
  MaxRetained,      \* max_retained_attempts
  Drivers,          \* whether a stage driver produces the drafts: choices
  Holds,            \* hold_before_publish: choices
  MaxTime,          \* bound on the clock
  None

ASSUME ControllerParameters ==
  /\ MaxAttempts \in Nat
  /\ SessionLimit \in Nat \ {0}
  /\ DeadlineSeconds \in Nat \ {0}
  /\ MaxCalls \in Nat \ {0}
  /\ MaxRepairs \in Nat
  /\ MaxRegenerations \in Nat
  /\ MaxRetained \in Nat \ {0}
  /\ Drivers \subseteq BOOLEAN
  /\ Holds \subseteq BOOLEAN
  /\ MaxTime \in Nat

Attempts == 1 .. MaxAttempts
Time     == 0 .. MaxTime

(* STAGE_ORDER, and the call that repairs a whole draft. *)
CaseTruth  == 1
Evidence   == 3
WorldGraph == 4
Stages     == 1 .. 4
Repair     == 5

States   == {"DRAFT", "GENERATING", "VALIDATING", "REPAIRING", "PUBLISHED", "FAILED"}
Terminal == {"PUBLISHED", "FAILED"}
Failures == {"REPAIR", "REGENERATE", "TERMINAL"}
Outcomes == {"VALID"} \cup Failures
Plans    == {"full", "targeted"}

ASSUME ControllerNone ==
  /\ None \notin Attempts
  /\ None \notin PendingIds
  /\ None \notin Codes
  /\ None \notin Outcomes
  /\ None \notin Plans
  /\ None \notin Attempts \X (Stages \cup {Repair})

VARIABLES
  mode,      \* what this controller was constructed with
  now,       \* the clock
  started,   \* attempts started so far: ids are drawn in order
  retained,  \* keys of _attempts
  current,   \* _current_attempt_id
  att,       \* the AttemptRecord of each attempt
  routes,    \* _pending_map: pending id -> <<attempt, stage>>
  used,      \* _used_pending_ids
  slots,     \* reservations of this controller, per session
  run        \* the run of the loop in progress

vars == <<mode, now, started, retained, current, att, routes, used, slots, run>>

(* checked is a history field: last_validation is about the draft as it is. *)
Records ==
  [session : Sessions, state : States, deadline : 0 .. MaxTime + DeadlineSeconds,
   released : BOOLEAN, done : SUBSET Stages, drafted : BOOLEAN,
   report : Outcomes \cup {None}, checked : BOOLEAN, offered : BOOLEAN,
   pending : PendingIds \cup {None}, before : Codes \cup {None},
   plan : Plans \cup {None}, calls : 0 .. MaxCalls, repairs : 0 .. MaxRepairs,
   regenerations : 0 .. MaxRegenerations]

ASSUME NoneIsNoRecord == None \notin Records

(* A run was entered by start_generation or by on_completion, and is at the
   head of the loop, in a provider call, at the gate, or about to return. *)
NoRun == [at |-> "none"]
Runs ==
  {NoRun}
  \cup [at : {"head", "gate", "return"}, entered : {"start", "completion"}]
  \cup [at : {"call"}, entered : {"start", "completion"}, stage : Stages \cup {Repair}]

--------------------------------------------------------------------------------
(* Queries *)

Exists(n)  == att[n] # None
Live(n)    == Exists(n) /\ att[n].state \notin Terminal

(* Mutant: start_generation forgets that the attempt before may not have ended. *)
NeverNow == FALSE

LiveNow    == current # None /\ Live(current)
Expired(n) == now >= att[n].deadline

Fresh(s) ==
  [session |-> s, state |-> "DRAFT", deadline |-> now + DeadlineSeconds,
   released |-> FALSE, done |-> {}, drafted |-> FALSE, report |-> None,
   checked |-> FALSE, offered |-> FALSE, pending |-> None, before |-> None,
   plan |-> None, calls |-> 0, repairs |-> 0, regenerations |-> 0]

(* Stages that _next_stage still has to ask for, first one first. *)
Missing(a) == Stages \ a.done

NextStage(a) == CHOOSE s \in Missing(a) : \A t \in Missing(a) : s <= t

(* _fail on the record: terminal, reservation given back, nothing pending. *)
Failed(a) ==
  [a EXCEPT !.state = "FAILED", !.released = TRUE, !.pending = None]

(* AdmissionController.release_generation, never below zero. *)
GiveBack(held, s) == [held EXCEPT ![s] = IF @ > 0 THEN @ - 1 ELSE 0]

Put(a)  == att' = [att EXCEPT ![current] = a]
GoTo(p) == run' = [at |-> p, entered |-> run.entered]

(* Mutant: _fail keeps the reservation. *)
FailReserved(a) ==
  /\ Put(Failed(a))
  /\ UNCHANGED slots
  /\ routes' = IF a.pending = None THEN routes
               ELSE [routes EXCEPT ![a.pending] = None]

(* _fail: the record, the reservation and the route of a deferred answer. *)
Fail(a) ==
  /\ Put(Failed(a))
  /\ slots' = GiveBack(slots, a.session)
  /\ routes' = IF a.pending = None THEN routes
               ELSE [routes EXCEPT ![a.pending] = None]

FailRun(a) == Fail(a) /\ GoTo("return") /\ UNCHANGED used
Turn(a)    == Put(a) /\ GoTo("head") /\ UNCHANGED <<slots, routes, used>>

--------------------------------------------------------------------------------
Init ==
  /\ mode \in [driven : Drivers, hold : Holds]
  /\ now = 0
  /\ started = 0
  /\ retained = {}
  /\ current = None
  /\ att = [n \in Attempts |-> None]
  /\ routes = [p \in PendingIds |-> None]
  /\ used = {}
  /\ slots = [s \in Sessions |-> 0]
  /\ run = NoRun

--------------------------------------------------------------------------------
(* start_generation: admission comes before the attempt it supersedes gives
   its reservation back. *)
Begin(s) ==
  /\ run = NoRun
  /\ started < MaxAttempts
  /\ slots[s] < SessionLimit
  /\ LET n        == started + 1
         reserved == [slots EXCEPT ![s] = @ + 1]
     IN  /\ started' = n
         /\ retained' = retained \cup {n}
         /\ current' = n
         /\ run' = [at |-> "head", entered |-> "start"]
         /\ IF LiveNow
              THEN /\ att' = [att EXCEPT ![current] = Failed(@), ![n] = Fresh(s)]
                   /\ slots' = GiveBack(reserved, att[current].session)
                   /\ routes' = IF att[current].pending = None THEN routes
                                ELSE [routes EXCEPT ![att[current].pending] = None]
              ELSE /\ att' = [att EXCEPT ![n] = Fresh(s)]
                   /\ slots' = reserved
                   /\ UNCHANGED routes
  /\ UNCHANGED <<mode, now, used>>

--------------------------------------------------------------------------------
(* The turns of _advance *)

AtHead    == run.at = "head"
In(state) == AtHead /\ att[current].state = state

(* The deadline is looked at on every turn but the first. *)
InTime(state) == In(state) /\ ~ Expired(current)

Activate ==
  /\ In("DRAFT")
  /\ Turn([att[current] EXCEPT !.state = "GENERATING"])
  /\ UNCHANGED <<mode, now, started, retained, current>>

Expire ==
  /\ AtHead
  /\ att[current].state # "DRAFT"
  /\ Expired(current)
  /\ FailRun(att[current])
  /\ UNCHANGED <<mode, now, started, retained, current>>

(* run_into of the stage driver.  It spends calls of its own, none when every
   output is reused; it leaves whatever draft it could assemble, or raises. *)
DriveFrom(a) ==
  \E k \in 0 .. MaxCalls - a.calls :
    LET spent == [a EXCEPT !.calls = @ + k]
    IN  \/ FailRun(spent)
        \/ \E assembled \in BOOLEAN :
             Turn([spent EXCEPT !.state = "VALIDATING", !.checked = FALSE,
                                !.drafted = assembled])

Drive ==
  /\ InTime("GENERATING")
  /\ mode.driven
  /\ DriveFrom(att[current])
  /\ UNCHANGED <<mode, now, started, retained, current>>

StagesDone ==
  /\ InTime("GENERATING")
  /\ ~ mode.driven
  /\ Missing(att[current]) = {}
  /\ Turn([att[current] EXCEPT !.state = "VALIDATING"])
  /\ UNCHANGED <<mode, now, started, retained, current>>

(* Mutant: a call past the ceiling is made all the same. *)
Uncapped(a, stage) ==
  /\ Put([a EXCEPT !.calls = @ + 1])
  /\ run' = [at |-> "call", entered |-> run.entered, stage |-> stage]
  /\ UNCHANGED <<slots, routes, used>>

(* _invoke_provider up to the call itself. *)
Call(a, stage) ==
  \/ /\ a.calls >= MaxCalls
     /\ FailRun(a)
  \/ /\ a.calls < MaxCalls
     /\ Put([a EXCEPT !.calls = @ + 1])
     /\ run' = [at |-> "call", entered |-> run.entered, stage |-> stage]
     /\ UNCHANGED <<slots, routes, used>>

(* Records after complete_generic_evidence_if_underconstrained, which runs once
   between regenerations.  In time, it validates a draft that can be assembled, and
   again when it has supplied the evidence: last_validation is the later verdict. *)
Offered(a) ==
  IF a.offered THEN {a}
  ELSE {[a EXCEPT !.offered = TRUE]}
       \cup {[a EXCEPT !.offered = TRUE, !.report = outcome, !.checked = TRUE] :
               outcome \in {o \in Outcomes : a.drafted /\ ~ Expired(current)}}

(* The evidence completion is offered before the world is asked for. *)
CallStage ==
  /\ InTime("GENERATING")
  /\ ~ mode.driven
  /\ Missing(att[current]) # {}
  /\ LET stage == NextStage(att[current])
     IN  \E a \in IF stage = WorldGraph THEN Offered(att[current]) ELSE {att[current]} :
           Call(a, stage)
  /\ UNCHANGED <<mode, now, started, retained, current>>

--------------------------------------------------------------------------------
(* Provider results *)

Trusted(a, stage) ==
  [a EXCEPT !.done = @ \cup {stage}, !.checked = FALSE,
            !.drafted = @ \/ stage = CaseTruth]

(* An untrusted stage goes to the recovery of VALIDATING, unless it is the
   evidence and the completion, having validated the draft, supplies it. *)
Untrusted(a, stage) ==
  LET rejected == [a EXCEPT !.checked = FALSE]
      offers   == IF stage = Evidence THEN Offered(rejected) ELSE {rejected}
  IN  {[b EXCEPT !.state = "VALIDATING"] : b \in offers}
      \cup {[b EXCEPT !.done = @ \cup {Evidence}] :
              b \in {c \in offers : c.checked}}

(* apply_repair: the new draft replaces everything, or is refused. *)
Repaired(a) ==
  {[a EXCEPT !.done = {}, !.drafted = TRUE, !.checked = FALSE],
   [a EXCEPT !.checked = FALSE]}

(* Records an attempt may have after content for the stage was applied. *)
Applied(a, stage) ==
  IF stage = Repair THEN Repaired(a)
                    ELSE {Trusted(a, stage)} \cup Untrusted(a, stage)

InCall == run.at = "call"

(* Content; a repair in the loop goes straight on to VALIDATING. *)
ContentReturns ==
  /\ InCall
  /\ \E a \in Applied(att[current], run.stage) :
       Turn(IF run.stage = Repair THEN [a EXCEPT !.state = "VALIDATING"] ELSE a)
  /\ UNCHANGED <<mode, now, started, retained, current>>

(* A timeout, an error, or a pending result whose id was used before. *)
CallFails ==
  /\ InCall
  /\ FailRun(att[current])
  /\ UNCHANGED <<mode, now, started, retained, current>>

(* Any other exception fails the attempt and leaves start_generation or
   on_completion with it: nothing is pruned. *)
CallRaises ==
  /\ InCall
  /\ Fail(att[current])
  /\ run' = NoRun
  /\ UNCHANGED <<mode, now, started, retained, current, used>>

(* Mutant: a deferred call is noted on the attempt and never routed. *)
CallDeferredUnrouted ==
  /\ InCall
  /\ \E p \in PendingIds \ used :
       /\ used' = used \cup {p}
       /\ Put([att[current] EXCEPT !.pending = p])
  /\ GoTo("return")
  /\ UNCHANGED <<mode, now, started, retained, current, routes, slots>>

CallDeferred ==
  /\ InCall
  /\ \E p \in PendingIds \ used :
       /\ used' = used \cup {p}
       /\ Put([att[current] EXCEPT !.pending = p])
       /\ routes' = [routes EXCEPT ![p] = <<current, run.stage>>]
  /\ GoTo("return")
  /\ UNCHANGED <<mode, now, started, retained, current, slots>>

--------------------------------------------------------------------------------
(* Validation and recovery *)

(* Mutant: an incomplete draft is validated like any other. *)
VerdictsOnNothing(a) == Outcomes

(* A draft without a case truth is a structural issue and nothing else. *)
Verdicts(a) == IF a.drafted THEN Outcomes ELSE {"REPAIR"}

(* Mutant: a repair costs nothing. *)
RepairPassFree(a) == a

RepairPass(a) == [a EXCEPT !.repairs = @ + 1]

(* _reset_for_regeneration *)
Regenerated(a) ==
  [a EXCEPT !.state = "GENERATING", !.regenerations = @ + 1, !.done = {},
            !.drafted = FALSE, !.report = None, !.checked = FALSE,
            !.offered = FALSE, !.plan = None]

(* The driver repairs in VALIDATING, under a plan derived from the report. *)
DriveRepair(a) == \E plan \in Plans : DriveFrom([a EXCEPT !.plan = plan])

Recover(a, outcome, code) ==
  \/ /\ outcome = "VALID"
     /\ Put(a)
     /\ GoTo(IF mode.hold THEN "return" ELSE "gate")
     /\ UNCHANGED <<slots, routes, used>>
  \/ /\ outcome = "REPAIR"
     /\ a.repairs >= MaxRepairs
     /\ FailRun(a)
  \/ /\ outcome = "REPAIR"
     /\ a.repairs < MaxRepairs
     /\ LET b == [RepairPass(a) EXCEPT !.before = code]
        IN  IF mode.driven THEN DriveRepair(b)
                           ELSE Call([b EXCEPT !.state = "REPAIRING"], Repair)
  \/ /\ outcome = "REGENERATE"
     /\ IF a.regenerations < MaxRegenerations THEN Turn(Regenerated(a))
                                              ELSE FailRun(a)
  \/ /\ outcome = "TERMINAL"
     /\ FailRun(a)

(* A targeted repair that left the same codes fails the attempt early. *)
NoProgress(a, outcome, code) ==
  outcome = "REPAIR" /\ a.plan = "targeted" /\ a.before = code

Validate ==
  /\ InTime("VALIDATING")
  /\ \E outcome \in Verdicts(att[current]), code \in Codes :
       LET a == [att[current] EXCEPT !.report = outcome, !.checked = TRUE,
                                     !.before = None]
       IN  IF NoProgress(att[current], outcome, code)
             THEN FailRun(a)
             ELSE Recover(a, outcome, code)
  /\ UNCHANGED <<mode, now, started, retained, current>>

(* A repair that was deferred and has been applied. *)
Resume ==
  /\ InTime("REPAIRING")
  /\ Turn([att[current] EXCEPT !.state = "VALIDATING"])
  /\ UNCHANGED <<mode, now, started, retained, current>>

--------------------------------------------------------------------------------
(* The publication gate *)

Publishable == LiveNow /\ att[current].state = "VALIDATING" /\ att[current].report = "VALID"

Publish ==
  /\ Put([att[current] EXCEPT !.state = "PUBLISHED", !.released = TRUE])
  /\ slots' = GiveBack(slots, att[current].session)
  /\ UNCHANGED routes

(* Mutant: the gate trusts the deadline check at the head of the loop. *)
LateGate == Publish

(* The deadline may have passed since the report; a payload that validated
   always assembles. *)
Gate == IF Expired(current) THEN Fail(att[current]) ELSE Publish

PublishInRun ==
  /\ run.at = "gate"
  /\ Publishable
  /\ Gate
  /\ GoTo("return")
  /\ UNCHANGED <<mode, now, started, retained, current, used>>

(* The caller of a controller that holds publishes when it likes. *)
PublishHeld ==
  /\ run = NoRun
  /\ mode.hold
  /\ Publishable
  /\ Gate
  /\ UNCHANGED <<mode, now, started, retained, current, used, run>>

--------------------------------------------------------------------------------
(* The end of a run *)

Prunable == {n \in retained : n # current /\ ~ Live(n)}

(* _prune_retained_attempts: the oldest terminal records, down to the cap. *)
Pruned ==
  {n \in Prunable :
     Cardinality({m \in Prunable : m < n}) + MaxRetained < Cardinality(retained)}

Return ==
  /\ run.at = "return"
  /\ run' = NoRun
  /\ retained' = IF run.entered = "start" THEN retained \ Pruned ELSE retained
  /\ UNCHANGED <<mode, now, started, current, att, routes, used, slots>>

--------------------------------------------------------------------------------
(* on_completion: only the attempt that waits for this very id is resumed. *)
Accepts(p) ==
  LET n == routes[p][1]
  IN  /\ n \in retained
      /\ n = current
      /\ att[n].state \in {"GENERATING", "REPAIRING", "VALIDATING"}
      /\ att[n].pending = p

Deliver(p) ==
  /\ run = NoRun
  /\ routes[p] # None
  /\ LET a     == [att[current] EXCEPT !.pending = None]
         stage == routes[p][2]
     IN  IF ~ Accepts(p)
           THEN UNCHANGED <<att, slots, run>> /\ routes' = [routes EXCEPT ![p] = None]
           ELSE \/ /\ Fail(att[current])
                   /\ UNCHANGED run
                \/ /\ ~ Expired(current)
                   /\ \E b \in Applied(a, stage) : Put(b)
                   /\ routes' = [routes EXCEPT ![p] = None]
                   /\ run' = [at |-> "head", entered |-> "completion"]
                   /\ UNCHANGED slots
  /\ UNCHANGED <<mode, now, started, retained, current, used>>

--------------------------------------------------------------------------------
Tick ==
  /\ now < MaxTime
  /\ now' = now + 1
  /\ UNCHANGED <<mode, started, retained, current, att, routes, used, slots, run>>

RunStep ==
  \/ Activate \/ Expire \/ Drive \/ StagesDone \/ CallStage
  \/ ContentReturns \/ CallFails \/ CallRaises \/ CallDeferred
  \/ Validate \/ Resume \/ PublishInRun \/ Return

Next ==
  \/ \E s \in Sessions : Begin(s)
  \/ RunStep
  \/ PublishHeld
  \/ \E p \in PendingIds : Deliver(p)
  \/ Tick

Spec == Init /\ [][Next]_vars

(* The thread of a run is scheduled; nothing obliges a provider to answer a
   deferred call, a caller to publish what it holds, or anyone to start. *)
FairSpec == Spec /\ WF_vars(RunStep)

--------------------------------------------------------------------------------
(* Properties *)

(* Every variable of the controller keeps to its type; in particular no
   counter of the BudgetTracker exceeds its ceiling. *)
TypeOK ==
  /\ mode \in [driven : Drivers, hold : Holds]
  /\ now \in Time
  /\ started \in 0 .. MaxAttempts
  /\ retained \subseteq 1 .. started
  /\ current \in (1 .. started) \cup {None}
  /\ att \in [Attempts -> Records \cup {None}]
  /\ routes \in [PendingIds -> (Attempts \X (Stages \cup {Repair})) \cup {None}]
  /\ used \subseteq PendingIds
  /\ slots \in [Sessions -> 0 .. SessionLimit]
  /\ run \in Runs

(* A session holds one reservation for each of its attempts that has not ended:
   a reservation is given back exactly once, whichever of the ways an attempt
   can end it takes, and the attempt that holds one is still in _attempts. *)
ReservationsMatch ==
  \A s \in Sessions :
    slots[s] = Cardinality({n \in Attempts \cap retained : Live(n) /\ att[n].session = s})

(* A deferred answer can only reach the attempt that waits for it: superseding
   or failing an attempt takes its route away, so no completion is ever routed
   to an attempt that ended. *)
RoutesAreLive ==
  \A p \in PendingIds :
    routes[p] # None =>
      /\ routes[p][1] = current
      /\ LiveNow
      /\ att[current].pending = p

(* Whichever way an attempt ends, it leaves neither a reservation nor a route. *)
NothingLeaks == ReservationsMatch /\ RoutesAreLive

(* When no run is in progress the current attempt has ended, is held with a
   valid report, or waits for an answer that on_completion would accept: there
   is no attempt left behind that nothing could ever move. *)
NothingStranded ==
  run = NoRun /\ LiveNow =>
    \/ mode.hold /\ Publishable
    \/ \E p \in PendingIds : routes[p] # None /\ Accepts(p)

(* What is published is the draft that was validated, as a whole, and found
   VALID: no content came in between the report and the gate. *)
PublishedIsChecked ==
  \A n \in Attempts :
    Exists(n) /\ att[n].state = "PUBLISHED" =>
      att[n].report = "VALID" /\ att[n].checked /\ att[n].drafted

(* No attempt is published at or after its deadline, even when the deadline
   passes between its validation and the gate. *)
NoLatePublication ==
  [][\A n \in Attempts :
       Live(n) /\ att'[n].state = "PUBLISHED" => now < att[n].deadline]_vars

(* Every entry of the controller returns: the repairs, regenerations and calls
   an attempt may spend bound the loop even when the clock stands still. *)
RunsEnd == (run # NoRun) ~> (run = NoRun)

(* What the record of an attempt says of its state, and of who started it. *)
LifeNow   == [n \in Attempts |-> IF Exists(n) THEN att[n].state ELSE "ABSENT"]
HolderNow == [n \in Attempts |-> IF Exists(n) THEN att[n].session ELSE None]

(* The controller implements the lifecycle of its attempts. *)
Lifecycle ==
  INSTANCE AttemptLifecycle WITH
    life <- LifeNow, holder <- HolderNow, reserved <- slots

ImplementsLifecycle == Lifecycle!Spec
================================================================================
