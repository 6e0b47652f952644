------------------------------ MODULE StageDriver ------------------------------
(***************************************************************************)
(* The stage driver that produces the drafts of one generation attempt:    *)
(* OllamaStageDriver.run_into, and the repairs and the regeneration that   *)
(* the controller runs it again for.                                       *)
(*                                                                         *)
(* A pass runs the stages in order: case, evidence, activity logs, world,  *)
(* composition, assembly.  The driver keeps the validated output of every  *)
(* stage for the next pass of the attempt, and the plan that the routing   *)
(* derives from the report of the last draft says which of them to make    *)
(* again.  What can go wrong is a draft whose parts do not fit together:   *)
(* evidence about people who are no longer in the case, a world whose      *)
(* defects were reported in an earlier pass only, a truth that a repair    *)
(* replaced.  So every output carries what it was made from.               *)
(*                                                                         *)
(* A case is the truth of the crime and the public people around it.  For  *)
(* some pairs the candidate projection declines: the murderer has a public *)
(* role that cannot be accused.  A log is validated against the names of   *)
(* the people and around the time of the crime, which the truth fixes.     *)
(* What the validators find in a complete draft is free, but the routing   *)
(* and the defects that the driver itself defers are not.                  *)
(***************************************************************************)
EXTENDS Naturals, FiniteSets

CONSTANTS
  Truths,           \* crimes a case answer may carry
  People,           \* public outputs a case answer may carry
  Logs,             \* evidence items that need an activity log
  LogsOf,           \* people -> the log items of the canonical evidence
  Weapons,          \* evidence ids that may name the locked weapon
  WeaponOf,         \* people -> the one of the canonical evidence
  Unfit,            \* cases whose candidate projection declines
  LogRetries,       \* MAX_ACTIVITY_LOG_REPAIR_PASSES
  MaxRepairs,       \* MAX_REPAIR_PASSES
  MaxRegenerations, \* MAX_FULL_REGENERATIONS
  None

Cases == [truth : Truths, people : People]

ASSUME DriverParameters ==
  /\ IsFiniteSet(Logs)
  /\ LogsOf \in [People -> SUBSET Logs]
  /\ WeaponOf \in [People -> Weapons]
  /\ Unfit \subseteq Cases
  /\ LogRetries \in Nat
  /\ MaxRepairs \in Nat
  /\ MaxRegenerations \in Nat

ASSUME DriverNone == None \notin Cases \cup Truths \cup People \cup Weapons \cup {"budget"}

(* The owners a repair is routed to.  Which codes they stand for is left out. *)
Owners ==
  {"CASE_TRUTH", "CASE_PEOPLE", "EVIDENCE", "ACTIVITY_LOG", "WORLD_GRAPH",
   "ASSET_SPEC", "UNKNOWN"}

(* Labels of the defects the driver defers to the validation. *)
Deferrals == {"case_people", "world_requirements", "composition"}

(* What an activity log was validated against. *)
Entries == [people : People \cup {None}, time : Truths \cup {None}]

(* Evidence without a case is the answer of the model as it came. *)
Evidences == [case : Cases \cup {None}, items : SUBSET Logs, weapon : Weapons \cup {None}]

(* parsed: the answer was readable; whole: the composition has no issue. *)
Worlds == [parsed : BOOLEAN, whole : BOOLEAN, weapon : Weapons \cup {None}]

Outputs ==
  [case : Cases \cup {None}, evidence : Evidences \cup {None},
   logs : [Logs -> Entries \cup {None}], world : Worlds \cup {None}]

Plans == [owners : SUBSET Owners, candidate : BOOLEAN]

ASSUME NoneIsNoOutput == None \notin Evidences \cup Worlds \cup Entries \cup Outputs

Calling == {"case", "evidence", "logs", "world"}
Places  == Calling \cup {"compose", "assemble", "validate", "valid", "failed"}

VARIABLES
  at,            \* where the attempt is
  why,           \* why it failed: "budget" for the core ceiling, "other", None
  plan,          \* the repair plan of this pass
  tries,         \* answers of the current call that were not accepted
  todo,          \* log items of this pass that have no log yet
  calls,         \* core calls the attempt has made
  repairs,       \* repair passes it has consumed
  regenerations, \* regenerations it has consumed
  kept,          \* the caches of the driver: the last output of every stage
  work,          \* the outputs of this pass
  remade,        \* evidence_was_rerun
  deferred,      \* defects this pass has deferred
  redrawn        \* history: a candidate-only repair has asked for a new case

vars == <<at, why, plan, tries, todo, calls, repairs, regenerations, kept, work,
          remade, deferred, redrawn>>

--------------------------------------------------------------------------------
(* Repair plans *)

NoLogs  == [l \in Logs |-> None]
Nothing == [case |-> None, evidence |-> None, logs |-> NoLogs, world |-> None]

Full == [owners |-> {"UNKNOWN"}, candidate |-> FALSE]

IsFull(p) == "UNKNOWN" \in p.owners

(* Mutant: a new case does not invalidate the evidence. *)
RerunEvidenceAlone(p) == IsFull(p) \/ "EVIDENCE" \in p.owners

(* RepairPlan.from_report: the flags that the closure of the owners sets.  A full
   rerun keeps the case. *)
RerunCase(p)     == ~IsFull(p) /\ p.owners \cap {"CASE_PEOPLE", "CASE_TRUTH"} # {}
RerunEvidence(p) == IsFull(p) \/ RerunCase(p) \/ "EVIDENCE" \in p.owners
RerunLogs(p)     == RerunEvidence(p) \/ "ACTIVITY_LOG" \in p.owners
RerunWorld(p)    == \/ IsFull(p)
                    \/ ~p.candidate /\ (RerunCase(p) \/ "WORLD_GRAPH" \in p.owners)
Recompose(p)     == RerunWorld(p) \/ "ASSET_SPEC" \in p.owners

(* Mutant: the ceiling without the room for repeated calls. *)
CoreCeilingTight ==
  (1 + MaxRepairs + MaxRegenerations) * (3 + Cardinality(Logs) * (1 + LogRetries))

(* The core calls the bounded stages of one pass may take: one for each of three
   stages, one more each for the two that repeat a call whose answer cannot be
   parsed, and the logs. *)
PassCalls   == 3 + 2 + Cardinality(Logs) * (1 + LogRetries)
CoreCeiling == (1 + MaxRepairs + MaxRegenerations) * PassCalls

--------------------------------------------------------------------------------
(* A pass *)

Init ==
  /\ at = "case"
  /\ why = None
  /\ plan = Full
  /\ tries = 0
  /\ todo = {}
  /\ calls = 0
  /\ repairs = 0
  /\ regenerations = 0
  /\ kept = Nothing
  /\ work = Nothing
  /\ remade = FALSE
  /\ deferred = {}
  /\ redrawn = FALSE

(* run_into is entered with nothing but the caches. *)
StartPass(p) ==
  /\ at' = "case"
  /\ plan' = p
  /\ tries' = 0
  /\ todo' = {}
  /\ work' = Nothing
  /\ remade' = FALSE
  /\ deferred' = {}

(* project_candidate_integrity corrects the people of this case. *)
Projectable(c) == c \notin Unfit

(* The cached case serves unless the plan replaces it, and even then when the
   projection can correct it. *)
CaseKept ==
  /\ kept.case # None
  /\ RerunCase(plan) => plan.candidate /\ Projectable(kept.case)

CaseReused ==
  /\ at = "case"
  /\ CaseKept
  /\ at' = "evidence"
  /\ work' = [work EXCEPT !.case = kept.case]
  /\ UNCHANGED <<why, plan, tries, todo, calls, repairs, regenerations, kept,
                 remade, deferred, redrawn>>

(* consume_call of the core bucket, when the stage has something to ask. *)
MayCall == calls < CoreCeiling

(* Mutant: a repair takes the truth of the answer as well. *)
AdoptedWhole(answer) == answer

(* A repair replaces the people and keeps the truth. *)
Adopted(answer) ==
  IF kept.case # None
  THEN [truth |-> kept.case.truth, people |-> answer.people]
  ELSE answer

CaseAnswered ==
  /\ at = "case"
  /\ ~CaseKept
  /\ MayCall
  /\ calls' = calls + 1
  /\ \E answer \in Cases :
       /\ work' = [work EXCEPT !.case = Adopted(answer)]
       /\ kept' = [kept EXCEPT !.case = Adopted(answer)]
  /\ at' = "evidence"
  /\ tries' = 0
  /\ redrawn' = (redrawn \/ plan.candidate)
  /\ UNCHANGED <<why, plan, todo, repairs, regenerations, remade, deferred>>

(* An answer that cannot be parsed: asked again once, then deferred, and the
   cached case, if there is one, serves after all. *)
CaseRejected ==
  /\ at = "case"
  /\ ~CaseKept
  /\ MayCall
  /\ calls' = calls + 1
  /\ \/ /\ tries = 0
        /\ tries' = 1
        /\ UNCHANGED <<at, work, deferred>>
     \/ /\ tries = 1
        /\ tries' = 0
        /\ at' = "evidence"
        /\ work' = [work EXCEPT !.case = kept.case]
        /\ deferred' = deferred \cup {"case_people"}
  /\ UNCHANGED <<why, plan, todo, repairs, regenerations, kept, remade, redrawn>>

EvidenceKept == kept.evidence # None /\ ~RerunEvidence(plan)

(* The log stage follows the evidence when there is any. *)
EvidenceIs(e) ==
  /\ work' = [work EXCEPT !.evidence = e]
  /\ kept' = [kept EXCEPT !.evidence = IF e # None THEN e ELSE @]
  /\ todo' = IF e # None THEN e.items ELSE {}
  /\ at' = "logs"

EvidenceReused ==
  /\ at = "evidence"
  /\ EvidenceKept
  /\ EvidenceIs(kept.evidence)
  /\ UNCHANGED <<why, plan, tries, calls, repairs, regenerations, remade, deferred,
                 redrawn>>

(* canonical_evidence_algebra: with a case the answer of the model is replaced. *)
Algebra(c) == [case |-> c, items |-> LogsOf[c.people], weapon |-> WeaponOf[c.people]]

EvidenceAnswered ==
  /\ at = "evidence"
  /\ ~EvidenceKept
  /\ MayCall
  /\ calls' = calls + 1
  /\ remade' = TRUE
  /\ \/ /\ work.case # None
        /\ EvidenceIs(Algebra(work.case))
     \/ /\ work.case = None
        /\ \E e \in {f \in Evidences : f.case = None} \cup {None} : EvidenceIs(e)
  /\ UNCHANGED <<why, plan, tries, repairs, regenerations, deferred, redrawn>>

(* The time an item of this pass was observed at. *)
ObservedAt == IF work.evidence.case = None THEN None ELSE work.evidence.case.truth

(* The item whose log is next. *)
Item == CHOOSE l \in todo : TRUE

LogKept ==
  /\ plan.candidate \/ (~RerunLogs(plan) /\ ~remade)
  /\ kept.logs[Item] # None
  /\ kept.logs[Item].time = ObservedAt

LogReused ==
  /\ at = "logs"
  /\ todo # {}
  /\ LogKept
  /\ todo' = todo \ {Item}
  /\ work' = [work EXCEPT !.logs[Item] = kept.logs[Item]]
  /\ UNCHANGED <<at, why, plan, tries, calls, repairs, regenerations, kept, remade,
                 deferred, redrawn>>

(* What a log of this pass is validated against. *)
Entry ==
  [people |-> IF work.case = None THEN None ELSE work.case.people, time |-> ObservedAt]

(* A log that the validator accepts, as it came or with the canonical row of the
   first answer restored. *)
LogAccepted ==
  /\ at = "logs"
  /\ todo # {}
  /\ ~LogKept
  /\ MayCall
  /\ calls' = calls + 1
  /\ tries' = 0
  /\ todo' = todo \ {Item}
  /\ work' = [work EXCEPT !.logs[Item] = Entry]
  /\ kept' = [kept EXCEPT !.logs[Item] = Entry]
  /\ UNCHANGED <<at, why, plan, repairs, regenerations, remade, deferred, redrawn>>

(* Asked again a bounded number of times; then the attempt fails. *)
LogRejected ==
  /\ at = "logs"
  /\ todo # {}
  /\ ~LogKept
  /\ MayCall
  /\ calls' = calls + 1
  /\ \/ /\ tries < LogRetries
        /\ tries' = tries + 1
        /\ UNCHANGED <<at, why>>
     \/ /\ tries = LogRetries
        /\ at' = "failed"
        /\ why' = "other"
        /\ UNCHANGED tries
  /\ UNCHANGED <<plan, todo, repairs, regenerations, kept, work, remade, deferred, redrawn>>

LogsDone ==
  /\ at = "logs"
  /\ todo = {}
  /\ at' = "world"
  /\ UNCHANGED <<why, plan, tries, todo, calls, repairs, regenerations, kept, work,
                 remade, deferred, redrawn>>

--------------------------------------------------------------------------------
(* The world, its composition and the draft *)

(* The evidence item that names the locked weapon, None without evidence. *)
Weapon == IF work.evidence = None THEN None ELSE work.evidence.weapon

WorldKept ==
  /\ kept.world # None
  /\ ~RerunWorld(plan)
  /\ kept.world.weapon = Weapon

WorldReused ==
  /\ at = "world"
  /\ WorldKept
  /\ work' = [work EXCEPT !.world = kept.world]
  /\ at' = IF Recompose(plan) THEN "compose" ELSE "assemble"
  /\ UNCHANGED <<why, plan, tries, todo, calls, repairs, regenerations, kept, remade,
                 deferred, redrawn>>

(* A world that waits for its composition. *)
Requested(parsed) == [parsed |-> parsed, whole |-> FALSE, weapon |-> Weapon]

WorldAnswered ==
  /\ at = "world"
  /\ ~WorldKept
  /\ MayCall
  /\ calls' = calls + 1
  /\ tries' = 0
  /\ at' = "compose"
  /\ work' = [work EXCEPT !.world = Requested(TRUE)]
  /\ UNCHANGED <<why, plan, todo, repairs, regenerations, kept, remade, deferred, redrawn>>

(* An answer that cannot be parsed: asked again once, then the world is composed
   from no requirements and the defect is deferred. *)
WorldRejected ==
  /\ at = "world"
  /\ ~WorldKept
  /\ MayCall
  /\ calls' = calls + 1
  /\ \/ /\ tries = 0
        /\ tries' = 1
        /\ UNCHANGED <<at, work, deferred>>
     \/ /\ tries = 1
        /\ tries' = 0
        /\ at' = "compose"
        /\ work' = [work EXCEPT !.world = Requested(FALSE)]
        /\ deferred' = deferred \cup {"world_requirements"}
  /\ UNCHANGED <<why, plan, todo, repairs, regenerations, kept, remade, redrawn>>

(* The composition has no issue, or defers one: an environment that is not
   supported is a defect of the requirements, any other has no owner.  The cache
   takes the result with its issues. *)
Compose ==
  /\ at = "compose"
  /\ \E issues \in SUBSET {"world_requirements", "composition"} :
       LET world == [work.world EXCEPT !.whole = (issues = {})]
       IN /\ work' = [work EXCEPT !.world = world]
          /\ kept' = [kept EXCEPT !.world = world]
          /\ deferred' = deferred \cup issues
  /\ at' = "assemble"
  /\ UNCHANGED <<why, plan, tries, todo, calls, repairs, regenerations, remade, redrawn>>

(* The draft is what the pass has made; it has no truth when there is no case. *)
Assemble ==
  /\ at = "assemble"
  /\ at' = "validate"
  /\ UNCHANGED <<why, plan, tries, todo, calls, repairs, regenerations, kept, work,
                 remade, deferred, redrawn>>

(* A call that the budget refuses, or whose provider fails, and an asset ceiling or
   an object that cannot be resolved: the attempt fails. *)
PassFails ==
  /\ \/ at = "case" /\ ~CaseKept
     \/ at = "evidence" /\ ~EvidenceKept
     \/ at = "logs" /\ todo # {} /\ ~LogKept
     \/ at = "world" /\ ~WorldKept
     \/ at \in {"compose", "assemble"}
  /\ at' = "failed"
  /\ why' = IF at \in Calling /\ ~MayCall THEN "budget" ELSE "other"
  /\ UNCHANGED <<plan, tries, todo, calls, repairs, regenerations, kept, work, remade,
                 deferred, redrawn>>

--------------------------------------------------------------------------------
(* The verdict on the draft, and what the controller does about it *)

(* The owner of a deferred defect: a defect of the composition has none. *)
OwnerOf ==
  [case_people |-> "CASE_PEOPLE", world_requirements |-> "WORLD_GRAPH",
   composition |-> "UNKNOWN"]

(* What the validators of a complete draft may report besides. *)
Reportable == {"CASE_TRUTH", "CASE_PEOPLE", "EVIDENCE", "WORLD_GRAPH", "UNKNOWN"}

(* The owners of the report: those of the deferred defects, and any other.  A case
   that the projection could not correct is always reported. *)
Blamed ==
  {{OwnerOf[d] : d \in deferred} \cup found :
     found \in {f \in SUBSET Reportable : ~Projectable(work.case) => f # {}}}

(* RepairPlan.from_report: a report without an owner asks for everything.  Only the
   defects that the projection owns can make it candidate-only; it has corrected
   every case that is not unfit. *)
PlanFor(owners, candidate) ==
  IF "UNKNOWN" \in owners THEN Full ELSE [owners |-> owners, candidate |-> candidate]

PlansFor(owners) ==
  {PlanFor(owners, candidate) :
     candidate \in IF owners = {"CASE_PEOPLE"} /\ deferred = {} /\ ~Projectable(work.case)
                   THEN BOOLEAN ELSE {FALSE}}

(* Every plan that the report of this draft may lead to. *)
RepairPlans ==
  IF work.case = None
  THEN {Full}
  ELSE UNION {PlansFor(owners) : owners \in Blamed \ {{}}}

Judged == at = "validate"

Valid ==
  /\ Judged
  /\ work.case # None
  /\ {} \in Blamed
  /\ at' = "valid"
  /\ UNCHANGED <<why, plan, tries, todo, calls, repairs, regenerations, kept, work,
                 remade, deferred, redrawn>>

(* Mutant: a repair pass is granted when the last one is spent. *)
MayRepairOnceMore == repairs <= MaxRepairs

(* consume_repair_pass. *)
MayRepair == repairs < MaxRepairs

Repair ==
  /\ Judged
  /\ MayRepair
  /\ repairs' = repairs + 1
  /\ \E p \in RepairPlans : StartPass(p)
  /\ UNCHANGED <<why, calls, regenerations, kept, redrawn>>

(* reset_attempt_cache. *)
KeptForRegeneration == [Nothing EXCEPT !.case = kept.case]

(* Only a draft without structural defects can need a new start. *)
Regenerate ==
  /\ Judged
  /\ work.case # None
  /\ deferred = {}
  /\ regenerations < MaxRegenerations
  /\ regenerations' = regenerations + 1
  /\ kept' = KeptForRegeneration
  /\ redrawn' = FALSE
  /\ StartPass(Full)
  /\ UNCHANGED <<why, calls, repairs>>

(* No recovery left, a targeted repair that changed nothing, or a locked constraint
   that a coherent draft violates. *)
GiveUp ==
  /\ Judged
  /\ \/ ~MayRepair
     \/ ~IsFull(plan)
     \/ work.case # None /\ deferred = {}
  /\ at' = "failed"
  /\ why' = "other"
  /\ UNCHANGED <<plan, tries, todo, calls, repairs, regenerations, kept, work, remade,
                 deferred, redrawn>>

CaseStage     == CaseReused \/ CaseAnswered \/ CaseRejected
EvidenceStage == EvidenceReused \/ EvidenceAnswered
LogStage      == LogReused \/ LogAccepted \/ LogRejected \/ LogsDone
WorldStage    == WorldReused \/ WorldAnswered \/ WorldRejected \/ Compose \/ Assemble
Verdict       == Valid \/ Repair \/ Regenerate \/ GiveUp

(* The attempt has ended. *)
Ended == at \in {"valid", "failed"} /\ UNCHANGED vars

Next ==
  CaseStage \/ EvidenceStage \/ LogStage \/ WorldStage \/ PassFails \/ Verdict \/ Ended

Spec == Init /\ [][Next]_vars

--------------------------------------------------------------------------------
(* Properties *)

(* Every variable has its type: no pass, call or retry beyond its bound. *)
TypeOK ==
  /\ at \in Places
  /\ why \in {"budget", "other", None}
  /\ plan \in Plans
  /\ tries \in 0 .. LogRetries + 1
  /\ todo \subseteq Logs
  /\ calls \in 0 .. CoreCeiling
  /\ repairs \in 0 .. MaxRepairs
  /\ regenerations \in 0 .. MaxRegenerations
  /\ kept \in Outputs
  /\ work \in Outputs
  /\ remade \in BOOLEAN
  /\ deferred \subseteq Deferrals
  /\ redrawn \in BOOLEAN

(* The evidence of a complete draft was derived from the case of that draft, never
   from a case that a repair has replaced since (evidence cache of run_into). *)
EvidenceFromItsCase ==
  at \in {"validate", "valid"} /\ work.case # None =>
    work.evidence # None /\ work.evidence.case = work.case

(* Every log of a published draft was written for the time its evidence gives, and
   checked against the names of its people, unless a candidate-only repair has asked
   for a new case: that plan keeps the logs of the old one (run_into,
   _activity_log_stage). *)
LogsFollowThePeople ==
  at = "valid" =>
    \A l \in work.evidence.items :
      /\ work.logs[l] # None
      /\ work.logs[l].time = work.case.truth
      /\ work.logs[l].people = work.case.people \/ redrawn

(* A published world was read from a whole answer, composed without an issue in this
   pass or an earlier one, and bound to the evidence that names the weapon now: the
   issues of a composition are reported only by the pass that made it (world cache
   of run_into, routing of the deferred defects). *)
PublishedWorldIsWhole ==
  at = "valid" =>
    /\ work.world.parsed
    /\ work.world.whole
    /\ work.world.weapon = Weapon

(* The parts of a draft belong together. *)
DraftPartsFit == EvidenceFromItsCase /\ LogsFollowThePeople /\ PublishedWorldIsWhole

(* The default ceiling of the core calls never stops an attempt whose stages stay
   within their own bounds, whatever is rejected, repaired and regenerated
   (derive_core_call_budget_default). *)
NeverStarved == why # "budget"

(* Once a case has been accepted its truth is never replaced in the attempt, neither
   by a repair of the people nor by a regeneration (CASE/PEOPLE cache of run_into,
   reset_attempt_cache). *)
TruthIsKept ==
  [][kept.case # None =>
       kept'.case # None /\ kept'.case.truth = kept.case.truth]_vars
================================================================================
