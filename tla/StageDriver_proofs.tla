--------------------------- MODULE StageDriver_proofs ---------------------------
(***************************************************************************)
(* Proofs about StageDriver, for any crimes, people, logs and weapons, and *)
(* any number of retries, repairs and regenerations.                       *)
(*                                                                         *)
(* A cached output may be reused in a pass only if it fits what the pass   *)
(* has made so far, and the plan is what must ensure it.  PartsInv says    *)
(* which outputs the caches and the pass share, and what a plan that does  *)
(* not make an output again implies about the cached one.  CallsInv counts *)
(* the calls of each stage against the pass they belong to.                *)
(***************************************************************************)
EXTENDS StageDriver, FiniteSetTheorems, TLAPS

AfterEvidence == {"logs", "world", "compose", "assemble", "validate", "valid"}
AfterLogs     == {"world", "compose", "assemble", "validate", "valid"}
AfterWorld    == {"assemble", "validate", "valid"}

CaseInv ==
  /\ at \in AfterEvidence \cup {"evidence"} => work.case = kept.case
  /\ at = "case" => work = Nothing /\ deferred = {} /\ ~remade

(* Evidence that is kept by a plan belongs to the case that the plan keeps. *)
EvidenceInv ==
  /\ kept.evidence # None /\ kept.evidence.case # None =>
       kept.evidence = Algebra(kept.evidence.case)
  /\ work.evidence # None => kept.evidence = work.evidence
  /\ at \in {"case", "evidence"} /\ ~RerunEvidence(plan) /\ kept.evidence # None =>
       kept.case # None /\ kept.evidence.case = kept.case
  /\ at \in {"case", "evidence"} => work.logs = NoLogs /\ work.evidence = None
  /\ at \in AfterEvidence /\ work.case # None =>
       work.evidence # None /\ work.evidence.case = work.case

(* The plan lets cached logs serve. *)
Reusable == plan.candidate \/ ~RerunLogs(plan)

LogsInv ==
  /\ Reusable =>
       /\ kept.case # None
       /\ redrawn \/ \A l \in LogsOf[kept.case.people] :
                       kept.logs[l] # None => kept.logs[l].people = kept.case.people
  /\ \A l \in Logs : work.logs[l] # None => kept.logs[l] = work.logs[l]
  /\ at \in AfterEvidence /\ todo # {} => work.evidence # None /\ todo \subseteq work.evidence.items
  /\ at \in AfterEvidence /\ work.evidence # None =>
       \A l \in work.evidence.items :
         \/ l \in todo
         \/ /\ work.logs[l] # None
            /\ work.logs[l].time = ObservedAt
            /\ work.case # None => work.logs[l].people = work.case.people \/ redrawn
  /\ at \in AfterLogs => todo = {}

Reported == deferred \cap {"world_requirements", "composition"} # {}

Fine(w) == w.parsed /\ w.whole

(* A world with a defect is made again by the next pass, or its defect is reported. *)
WorldInv ==
  /\ at \in Calling /\ kept.world # None => Fine(kept.world) \/ RerunWorld(plan)
  /\ at = "compose" =>
       work.world # None /\ work.world.weapon = Weapon /\ (work.world.parsed \/ Reported)
  /\ at \in AfterWorld =>
       /\ work.world # None /\ work.world.weapon = Weapon /\ kept.world = work.world
       /\ Fine(work.world) \/ Reported

PartsInv == CaseInv /\ EvidenceInv /\ LogsInv /\ WorldInv

(* A published draft has nothing left to report. *)
ValidInv == at = "valid" => work.case # None /\ deferred = {}

DriverInv == TypeOK /\ PartsInv /\ ValidInv

--------------------------------------------------------------------------------
(* Types *)

LEMMA Counts ==
  /\ Cardinality(Logs) \in Nat
  /\ PassCalls \in Nat /\ PassCalls >= 5
  /\ CoreCeiling \in Nat
<1>1. Cardinality(Logs) \in Nat
  BY DriverParameters, FS_CardinalityType
<1>2. Cardinality(Logs) * (1 + LogRetries) \in Nat
  BY <1>1, DriverParameters
<1>3. PassCalls \in Nat /\ PassCalls >= 5
  BY <1>2 DEF PassCalls
<1>4. CoreCeiling \in Nat
  BY <1>3, DriverParameters DEF CoreCeiling
<1> QED
  BY <1>1, <1>3, <1>4

LEMMA NothingIsOutput == Nothing \in Outputs
BY DEF Nothing, NoLogs, Outputs

LEMMA FullIsPlan == Full \in Plans
BY DEF Full, Plans, Owners

LEMMA AlgebraIsEvidence ==
  ASSUME NEW c \in Cases PROVE Algebra(c) \in Evidences /\ Algebra(c).case = c
BY DriverParameters DEF Algebra, Evidences, Cases

(* An output with one part replaced. *)
LEMMA ReplacedPart ==
  ASSUME NEW o \in Outputs
  PROVE  /\ \A c \in Cases \cup {None} : [o EXCEPT !.case = c] \in Outputs
         /\ \A e \in Evidences \cup {None} : [o EXCEPT !.evidence = e] \in Outputs
         /\ \A w \in Worlds \cup {None} : [o EXCEPT !.world = w] \in Outputs
         /\ \A g \in [Logs -> Entries \cup {None}] : [o EXCEPT !.logs = g] \in Outputs
BY DEF Outputs

LEMMA ReplacedLog ==
  ASSUME NEW o \in Outputs, NEW i \in Logs, NEW e \in Entries \cup {None},
         NEW p, p = [o EXCEPT !.logs[i] = e]
  PROVE  /\ p \in Outputs /\ p.case = o.case /\ p.evidence = o.evidence /\ p.world = o.world
         /\ p.logs = [o.logs EXCEPT ![i] = e]
<1>1. p = [o EXCEPT !.logs = [o.logs EXCEPT ![i] = e]]
  OBVIOUS
<1>2. [o.logs EXCEPT ![i] = e] \in [Logs -> Entries \cup {None}]
  BY DEF Outputs
<1> QED
  BY <1>1, <1>2 DEF Outputs

LEMMA PlansAreTyped ==
  ASSUME TypeOK, NEW p \in RepairPlans
  PROVE  p \in Plans
<1>1. \A d \in deferred : OwnerOf[d] \in Owners
  BY DEF TypeOK, Deferrals, OwnerOf, Owners
<1>2. \A owners \in Blamed : owners \subseteq Owners
  BY <1>1 DEF Blamed, Reportable, Owners
<1>3. ASSUME NEW owners \in SUBSET Owners, NEW q \in PlansFor(owners) PROVE q \in Plans
  <2>1. PICK candidate \in BOOLEAN : q = PlanFor(owners, candidate)
    BY <1>3 DEF PlansFor
  <2> QED
    BY <2>1, FullIsPlan DEF PlanFor, Plans
<1> QED
  BY <1>2, <1>3, FullIsPlan DEF RepairPlans

(* The part of the variables that an ordinary step leaves alone. *)
LEMMA WorkChanges ==
  ASSUME TypeOK, work' \in Outputs, kept' \in Outputs, at' \in Places,
         tries' \in 0 .. LogRetries + 1, todo' \subseteq Logs, deferred' \subseteq Deferrals,
         calls' = calls \/ (MayCall /\ calls' = calls + 1),
         remade' \in BOOLEAN, redrawn' \in BOOLEAN,
         UNCHANGED <<why, plan, repairs, regenerations>>
  PROVE  TypeOK'
BY Counts DEF TypeOK, MayCall

LEMMA CaseTypes == TypeOK /\ CaseStage => TypeOK'
<1> SUFFICES ASSUME TypeOK, CaseStage PROVE TypeOK'
  OBVIOUS
<1>1. /\ kept \in Outputs /\ work \in Outputs /\ kept.case \in Cases \cup {None}
      /\ LogRetries \in Nat
  BY DriverParameters DEF TypeOK, Outputs
<1>2. [work EXCEPT !.case = kept.case] \in Outputs
  BY <1>1, ReplacedPart
<1>3. CASE CaseReused
  BY <1>1, <1>2, <1>3, WorkChanges DEF CaseReused, TypeOK, Places, Calling
<1>4. CASE CaseRejected
  BY <1>1, <1>2, <1>4, WorkChanges DEF CaseRejected, TypeOK, Places, Calling, Deferrals
<1>5. CASE CaseAnswered
  <2>1. PICK answer \in Cases : /\ work' = [work EXCEPT !.case = Adopted(answer)]
                               /\ kept' = [kept EXCEPT !.case = Adopted(answer)]
    BY <1>5 DEF CaseAnswered
  <2>2. Adopted(answer) \in Cases
    BY <1>1 DEF Adopted, Cases
  <2>3. work' \in Outputs /\ kept' \in Outputs
    BY <1>1, <2>1, <2>2, ReplacedPart
  <2>4. redrawn' \in BOOLEAN
    BY <1>5 DEF CaseAnswered, TypeOK, Plans
  <2> QED
    BY <1>1, <1>5, <2>3, <2>4, WorkChanges DEF CaseAnswered, TypeOK, Places, Calling
<1> QED
  BY <1>3, <1>4, <1>5 DEF CaseStage

LEMMA EvidenceTypes == TypeOK /\ EvidenceStage => TypeOK'
<1> SUFFICES ASSUME TypeOK, EvidenceStage PROVE TypeOK'
  OBVIOUS
<1>1. /\ kept \in Outputs /\ work \in Outputs /\ kept.evidence \in Evidences \cup {None}
      /\ work.case \in Cases \cup {None}
  BY DEF TypeOK, Outputs
<1>2. ASSUME NEW e \in Evidences \cup {None}, EvidenceIs(e)
      PROVE  /\ work' \in Outputs /\ kept' \in Outputs /\ at' \in Places
             /\ todo' \subseteq Logs
  <2>1. work' \in Outputs
    BY <1>1, <1>2, ReplacedPart DEF EvidenceIs
  <2>2. kept' \in Outputs
    BY <1>1, <1>2, ReplacedPart DEF EvidenceIs
  <2> QED
    BY <1>2, <2>1, <2>2 DEF EvidenceIs, Places, Calling, Evidences
<1>3. CASE EvidenceReused
  BY <1>1, <1>2, <1>3, WorkChanges DEF EvidenceReused, TypeOK
<1>4. CASE EvidenceAnswered
  <2>1. PICK e \in Evidences \cup {None} : EvidenceIs(e)
    BY <1>1, <1>4, AlgebraIsEvidence DEF EvidenceAnswered
  <2> QED
    BY <1>2, <1>4, <2>1, WorkChanges DEF EvidenceAnswered, TypeOK
<1> QED
  BY <1>3, <1>4 DEF EvidenceStage

LEMMA ItemIsLog == TypeOK /\ todo # {} => Item \in todo /\ Item \in Logs
BY DEF TypeOK, Item

LEMMA EntryIsTyped == TypeOK /\ work.evidence # None => Entry \in Entries
BY DEF TypeOK, Entry, Entries, Outputs, Evidences, Cases, ObservedAt

LEMMA LogTypes == TypeOK /\ LogsInv /\ LogStage => TypeOK'
<1> SUFFICES ASSUME TypeOK, LogsInv, LogStage PROVE TypeOK'
  OBVIOUS
<1>1. kept \in Outputs /\ work \in Outputs /\ LogRetries \in Nat
  BY DriverParameters DEF TypeOK
<1>2. CASE LogReused
  <2>1. Item \in Logs /\ kept.logs[Item] \in Entries \cup {None}
    BY <1>1, <1>2, ItemIsLog DEF LogReused, Outputs
  <2>2. work' \in Outputs
    BY <1>1, <1>2, <2>1, ReplacedLog DEF LogReused
  <2> QED
    BY <1>2, <2>2, WorkChanges DEF LogReused, TypeOK
<1>3. CASE LogAccepted
  <2>1. Item \in Logs /\ Entry \in Entries
    BY <1>3, ItemIsLog, EntryIsTyped DEF LogAccepted, LogsInv, AfterEvidence
  <2>2. work' \in Outputs /\ kept' \in Outputs
    BY <1>1, <1>3, <2>1, ReplacedLog DEF LogAccepted
  <2> QED
    BY <1>1, <1>3, <2>2, WorkChanges DEF LogAccepted, TypeOK
<1>4. CASE LogRejected
  BY <1>1, <1>4, Counts DEF LogRejected, TypeOK, MayCall, Places
<1>5. CASE LogsDone
  BY <1>5, WorkChanges DEF LogsDone, TypeOK, Places, Calling
<1> QED
  BY <1>2, <1>3, <1>4, <1>5 DEF LogStage

LEMMA WorldTypes == TypeOK /\ WorldInv /\ WorldStage => TypeOK'
<1> SUFFICES ASSUME TypeOK, WorldInv, WorldStage PROVE TypeOK'
  OBVIOUS
<1>1. /\ kept \in Outputs /\ work \in Outputs /\ kept.world \in Worlds \cup {None}
      /\ LogRetries \in Nat
  BY DriverParameters DEF TypeOK, Outputs
<1>2. Requested(TRUE) \in Worlds /\ Requested(FALSE) \in Worlds
  BY DEF Requested, Worlds, Weapon, TypeOK, Outputs, Evidences
<1>3. CASE WorldReused
  BY <1>1, <1>3, ReplacedPart, WorkChanges DEF WorldReused, TypeOK, Places, Calling
<1>4. CASE WorldAnswered
  <2>1. work' \in Outputs
    BY <1>1, <1>2, <1>4, ReplacedPart DEF WorldAnswered
  <2> QED
    BY <1>1, <1>4, <2>1, WorkChanges DEF WorldAnswered, TypeOK, Places
<1>5. CASE WorldRejected
  <2>1. work' \in Outputs
    <3>1. work' = work \/ work' = [work EXCEPT !.world = Requested(FALSE)]
      BY <1>5 DEF WorldRejected
    <3>2. [work EXCEPT !.world = Requested(FALSE)] \in Outputs
      BY <1>1, <1>2, ReplacedPart
    <3> QED
      BY <1>1, <3>1, <3>2
  <2> QED
    <3>1. tries' \in 0 .. LogRetries + 1 /\ at' \in Places /\ deferred' \subseteq Deferrals
      <4>1. \/ tries' = 1 /\ at' = at /\ deferred' = deferred
            \/ tries' = 0 /\ at' = "compose" /\ deferred' = deferred \cup {"world_requirements"}
        BY <1>5 DEF WorldRejected
      <4>2. tries' \in 0 .. LogRetries + 1
        BY <1>1, <4>1
      <4> QED
        BY <4>1, <4>2 DEF TypeOK, Places, Deferrals
    <3> QED
      BY <1>1, <1>5, <2>1, <3>1, WorkChanges DEF WorldRejected, TypeOK
<1>6. CASE Compose
  <2>1. PICK issues \in SUBSET {"world_requirements", "composition"} :
          /\ work' = [work EXCEPT !.world = [work.world EXCEPT !.whole = (issues = {})]]
          /\ kept' = [kept EXCEPT !.world = [work.world EXCEPT !.whole = (issues = {})]]
          /\ deferred' = deferred \cup issues
    BY <1>6 DEF Compose
  <2>2. [work.world EXCEPT !.whole = (issues = {})] \in Worlds
    BY <1>1, <1>6 DEF Compose, WorldInv, Outputs, Worlds
  <2>3. work' \in Outputs /\ kept' \in Outputs
    BY <1>1, <2>1, <2>2, ReplacedPart
  <2> QED
    BY <1>6, <2>1, <2>3, WorkChanges DEF Compose, TypeOK, Places, Deferrals
<1>7. CASE Assemble
  BY <1>7, WorkChanges DEF Assemble, TypeOK, Places
<1> QED
  BY <1>3, <1>4, <1>5, <1>6, <1>7 DEF WorldStage

LEMMA EndTypes == TypeOK /\ (PassFails \/ Valid \/ GiveUp) => TypeOK'
BY DEF TypeOK, PassFails, Valid, GiveUp, Places

LEMMA StartIsTyped ==
  ASSUME TypeOK, NEW p \in Plans, StartPass(p)
  PROVE  /\ at' \in Places /\ plan' \in Plans /\ tries' \in 0 .. LogRetries + 1
         /\ todo' \subseteq Logs /\ work' \in Outputs /\ remade' \in BOOLEAN
         /\ deferred' \subseteq Deferrals
<1>1. 0 \in 0 .. LogRetries + 1
  BY DriverParameters
<1>2. work' \in Outputs
  BY NothingIsOutput DEF StartPass
<1> QED
  BY <1>1, <1>2 DEF StartPass, Places, Calling

LEMMA StartTypes == TypeOK /\ (Repair \/ Regenerate) => TypeOK'
<1> SUFFICES ASSUME TypeOK, Repair \/ Regenerate PROVE TypeOK'
  OBVIOUS
<1>1. CASE Repair
  <2>1. PICK p \in RepairPlans : StartPass(p)
    BY <1>1 DEF Repair
  <2>2. p \in Plans
    BY PlansAreTyped
  <2>3. repairs' \in 0 .. MaxRepairs
    BY <1>1, DriverParameters DEF Repair, MayRepair, TypeOK
  <2> QED
    BY <1>1, <2>1, <2>2, <2>3, StartIsTyped DEF Repair, TypeOK
<1>2. CASE Regenerate
  <2>1. KeptForRegeneration \in Outputs
    BY NothingIsOutput, ReplacedPart DEF KeptForRegeneration, TypeOK, Outputs
  <2>2. regenerations' \in 0 .. MaxRegenerations
    BY <1>2, DriverParameters DEF Regenerate, TypeOK
  <2>3. StartPass(Full) /\ kept' = KeptForRegeneration /\ redrawn' = FALSE
        /\ UNCHANGED <<why, calls, repairs>>
    BY <1>2 DEF Regenerate
  <2> QED
    BY <2>1, <2>2, <2>3, FullIsPlan, StartIsTyped DEF TypeOK
<1> QED
  BY <1>1, <1>2

--------------------------------------------------------------------------------
(* The parts of a draft *)

(* What a record of outputs looks like after one part was replaced. *)
LEMMA OtherParts ==
  ASSUME NEW o \in Outputs, NEW x
  PROVE  /\ LET p == [o EXCEPT !.case = x]
            IN p.case = x /\ p.evidence = o.evidence /\ p.logs = o.logs /\ p.world = o.world
         /\ LET p == [o EXCEPT !.evidence = x]
            IN p.case = o.case /\ p.evidence = x /\ p.logs = o.logs /\ p.world = o.world
         /\ LET p == [o EXCEPT !.world = x]
            IN p.case = o.case /\ p.evidence = o.evidence /\ p.logs = o.logs /\ p.world = x
BY DEF Outputs

LEMMA PlanFacts ==
  /\ ~RerunEvidence(plan) => ~RerunCase(plan)
  /\ ~RerunLogs(plan) => ~RerunEvidence(plan)
BY DEF RerunEvidence, RerunLogs

LEMMA CaseParts == TypeOK /\ PartsInv /\ CaseStage => PartsInv'
<1> SUFFICES ASSUME TypeOK, PartsInv, CaseStage PROVE PartsInv'
  OBVIOUS
<1>1. /\ kept \in Outputs /\ work \in Outputs /\ at = "case" /\ plan' = plan /\ todo' = todo
      /\ work.evidence = None /\ work.logs = NoLogs /\ work.case = None
      /\ at' \in {"case", "evidence"}
  BY DEF TypeOK, CaseStage, CaseReused, CaseAnswered, CaseRejected, PartsInv, CaseInv, Nothing
<1>2. ASSUME kept' = kept, redrawn' = redrawn, remade' = remade,
             \/ work' = work /\ deferred' = deferred /\ at' = "case"
             \/ work' = [work EXCEPT !.case = kept.case] /\ at' = "evidence"
      PROVE  PartsInv'
  <2>1. /\ work'.evidence = None /\ work'.logs = NoLogs
        /\ at' = "evidence" => work'.case = kept.case
    <3>1. CASE work' = work /\ at' = "case"
      BY <1>1, <3>1
    <3>2. CASE work' = [work EXCEPT !.case = kept.case]
      BY <1>1, <3>2, OtherParts
    <3> QED
      BY <1>2, <3>1, <3>2
  <2>2. CaseInv'
    BY <1>1, <1>2, <2>1 DEF PartsInv, CaseInv, AfterEvidence
  <2>3. EvidenceInv'
    BY <1>1, <1>2, <2>1 DEF PartsInv, EvidenceInv, AfterEvidence, Algebra, RerunEvidence, RerunCase, IsFull
  <2>4. LogsInv'
    BY <1>1, <1>2, <2>1 DEF PartsInv, LogsInv, AfterEvidence, AfterLogs, Reusable, RerunLogs,
       RerunEvidence, RerunCase, IsFull, NoLogs
  <2>5. WorldInv'
    BY <1>1, <1>2 DEF PartsInv, WorldInv, AfterWorld, Calling, RerunWorld, RerunCase, IsFull
  <2> QED
    BY <2>2, <2>3, <2>4, <2>5 DEF PartsInv
<1>3. CASE CaseReused \/ CaseRejected
  BY <1>1, <1>2, <1>3 DEF CaseReused, CaseRejected
<1>4. CASE CaseAnswered
  <2>1. PICK answer \in Cases :
          work' = [work EXCEPT !.case = Adopted(answer)] /\ kept' = [kept EXCEPT !.case = Adopted(answer)]
    BY <1>4 DEF CaseAnswered
  <2>2. /\ work'.case = kept'.case /\ kept'.case = Adopted(answer)
        /\ work'.evidence = None /\ work'.logs = NoLogs
        /\ kept'.evidence = kept.evidence /\ kept'.logs = kept.logs /\ kept'.world = kept.world
    BY <1>1, <2>1, OtherParts
  <2>3. Adopted(answer) # None
    BY DriverNone DEF Adopted, Cases, TypeOK, Outputs
  <2>4. at' = "evidence" /\ redrawn' = (redrawn \/ plan.candidate) /\ ~CaseKept
    BY <1>4 DEF CaseAnswered
  <2>5. kept.case # None => RerunCase(plan)
    BY <2>4 DEF CaseKept
  <2>6. EvidenceInv'
    <3>1. ~(~RerunEvidence(plan) /\ kept.evidence # None)
      BY <1>1, <2>5, PlanFacts DEF PartsInv, EvidenceInv
    <3> QED
      BY <1>1, <2>2, <2>4, <3>1 DEF PartsInv, EvidenceInv, AfterEvidence, Algebra, RerunEvidence,
         RerunCase, IsFull
  <2>7. LogsInv'
    <3>1. Reusable => plan.candidate
      BY <2>5, PlanFacts DEF Reusable, PartsInv, LogsInv
    <3>2. Reusable' = Reusable
      BY <1>1 DEF Reusable, RerunLogs, RerunEvidence, RerunCase, IsFull
    <3> QED
      BY <1>1, <2>2, <2>3, <2>4, <3>1, <3>2 DEF LogsInv, AfterEvidence, AfterLogs, NoLogs
  <2>8. CaseInv' /\ WorldInv'
    BY <1>1, <2>2, <2>4 DEF PartsInv, CaseInv, WorldInv, AfterWorld, AfterEvidence, Calling, RerunWorld,
       RerunCase, IsFull
  <2> QED
    BY <2>6, <2>7, <2>8 DEF PartsInv
<1> QED
  BY <1>3, <1>4 DEF CaseStage

LEMMA EvidenceParts == TypeOK /\ PartsInv /\ EvidenceStage => PartsInv'
<1> SUFFICES ASSUME TypeOK, PartsInv, EvidenceStage PROVE PartsInv'
  OBVIOUS
<1>1. /\ kept \in Outputs /\ work \in Outputs /\ at = "evidence" /\ at' = "logs"
      /\ UNCHANGED <<plan, deferred, redrawn>>
      /\ work.evidence = None /\ work.logs = NoLogs /\ work.case = kept.case
      /\ work.case \in Cases \cup {None} /\ kept.evidence \in Evidences \cup {None}
  BY DEF TypeOK, Outputs, EvidenceStage, EvidenceReused, EvidenceAnswered, EvidenceIs, PartsInv,
         CaseInv, EvidenceInv
<1>2. ASSUME NEW e \in Evidences \cup {None}, EvidenceIs(e),
             e # None /\ e.case # None => e = Algebra(e.case),
             work.case # None => e # None /\ e.case = work.case
      PROVE  PartsInv'
  <2>1. /\ work'.case = work.case /\ work'.evidence = e /\ work'.logs = NoLogs /\ work'.world = work.world
        /\ kept'.case = kept.case /\ kept'.logs = kept.logs /\ kept'.world = kept.world
        /\ kept'.evidence = IF e # None THEN e ELSE kept.evidence
        /\ todo' = IF e # None THEN e.items ELSE {}
    <3>1. /\ work' = [work EXCEPT !.evidence = e]
          /\ kept' = [kept EXCEPT !.evidence = IF e # None THEN e ELSE kept.evidence]
          /\ todo' = IF e # None THEN e.items ELSE {}
      BY <1>2 DEF EvidenceIs
    <3> QED
      BY <1>1, <3>1, OtherParts
  <2>2. CaseInv'
    BY <1>1, <2>1 DEF CaseInv
  <2>3. EvidenceInv'
    BY <1>1, <1>2, <2>1 DEF PartsInv, EvidenceInv, Algebra
  <2>4. LogsInv'
    <3>1. Reusable' = Reusable
      BY <1>1 DEF Reusable, RerunLogs, RerunEvidence, RerunCase, IsFull
    <3> QED
      BY <1>1, <2>1, <3>1 DEF PartsInv, LogsInv, AfterLogs, NoLogs
  <2>5. WorldInv'
    BY <1>1, <2>1 DEF PartsInv, WorldInv, AfterWorld, Calling, RerunWorld, RerunCase, IsFull
  <2> QED
    BY <2>2, <2>3, <2>4, <2>5 DEF PartsInv
<1>3. CASE EvidenceReused
  BY <1>1, <1>2, <1>3 DEF EvidenceReused, EvidenceKept, PartsInv, EvidenceInv
<1>4. CASE EvidenceAnswered
  <2>1. CASE work.case # None /\ EvidenceIs(Algebra(work.case))
    <3>1. Algebra(work.case) \in Evidences /\ Algebra(work.case).case = work.case
      BY <1>1, <2>1, AlgebraIsEvidence
    <3>2. Algebra(work.case) # None
      BY <3>1, NoneIsNoOutput
    <3> QED
      BY <1>2, <2>1, <3>1, <3>2
  <2>2. CASE work.case = None
    BY <1>2, <1>4, <2>2 DEF EvidenceAnswered
  <2> QED
    BY <1>4, <2>1, <2>2 DEF EvidenceAnswered
<1> QED
  BY <1>3, <1>4 DEF EvidenceStage

LEMMA LogParts == TypeOK /\ PartsInv /\ LogStage => PartsInv'
<1> SUFFICES ASSUME TypeOK, PartsInv, LogStage PROVE PartsInv'
  OBVIOUS
<1>1. /\ kept \in Outputs /\ work \in Outputs /\ at = "logs"
      /\ UNCHANGED <<plan, deferred, redrawn>>
      /\ todo \subseteq Logs /\ work.case = kept.case
      /\ kept.logs \in [Logs -> Entries \cup {None}] /\ work.logs \in [Logs -> Entries \cup {None}]
  BY DEF TypeOK, Outputs, LogStage, LogReused, LogAccepted, LogRejected, LogsDone, PartsInv,
         CaseInv, AfterEvidence
<1>2. Reusable' = Reusable
  BY <1>1 DEF Reusable, RerunLogs, RerunEvidence, RerunCase, IsFull
<1>3. CASE LogRejected
  <2>1. kept' = kept /\ work' = work /\ todo' = todo /\ at' \in {"logs", "failed"}
    BY <1>1, <1>3 DEF LogRejected
  <2>2. CaseInv' /\ EvidenceInv'
    BY <1>1, <2>1 DEF PartsInv, CaseInv, EvidenceInv, Algebra, AfterEvidence
  <2>3. LogsInv'
    BY <1>1, <1>2, <2>1 DEF PartsInv, LogsInv, AfterLogs, AfterEvidence, ObservedAt
  <2>4. WorldInv'
    BY <1>1, <2>1 DEF PartsInv, WorldInv, AfterWorld, Calling, RerunWorld, RerunCase, IsFull
  <2> QED
    BY <2>2, <2>3, <2>4 DEF PartsInv
<1>4. CASE LogsDone
  <2>1. kept' = kept /\ work' = work /\ todo = {} /\ todo' = {} /\ at' = "world"
    BY <1>4 DEF LogsDone
  <2>2. CaseInv' /\ EvidenceInv'
    BY <1>1, <2>1 DEF PartsInv, CaseInv, EvidenceInv, Algebra, AfterEvidence
  <2>3. LogsInv'
    BY <1>1, <1>2, <2>1 DEF PartsInv, LogsInv, AfterLogs, AfterEvidence, ObservedAt
  <2>4. WorldInv'
    BY <1>1, <2>1 DEF PartsInv, WorldInv, AfterWorld, Calling, RerunWorld, RerunCase, IsFull
  <2> QED
    BY <2>2, <2>3, <2>4 DEF PartsInv
<1>5. ASSUME NEW e \in Entries, todo # {}, todo' = todo \ {Item}, at' = at,
             work' = [work EXCEPT !.logs[Item] = e],
             kept' = [kept EXCEPT !.logs[Item] = e],
             e.time = ObservedAt,
             work.case # None /\ ~redrawn /\ (Item \in LogsOf[work.case.people]) =>
               e.people = work.case.people
      PROVE  PartsInv'
  <2>1. Item \in Logs /\ Item \in todo
    BY <1>1, <1>5, ItemIsLog
  <2>2. /\ work'.case = work.case /\ work'.evidence = work.evidence /\ work'.world = work.world
        /\ work'.logs = [work.logs EXCEPT ![Item] = e]
        /\ kept'.case = kept.case /\ kept'.evidence = kept.evidence /\ kept'.world = kept.world
        /\ kept'.logs = [kept.logs EXCEPT ![Item] = e]
    BY <1>1, <1>5, <2>1, ReplacedLog
  <2>3. e # None
    BY NoneIsNoOutput
  <2>4. CaseInv' /\ EvidenceInv'
    BY <1>1, <1>5, <2>2 DEF PartsInv, CaseInv, EvidenceInv, Algebra, AfterEvidence
  <2>5. /\ \A l \in Logs : l # Item => kept'.logs[l] = kept.logs[l] /\ work'.logs[l] = work.logs[l]
        /\ kept'.logs[Item] = e /\ work'.logs[Item] = e
    BY <1>1, <2>1, <2>2
  <2>6. ObservedAt' = ObservedAt
    BY <2>2 DEF ObservedAt
  <2>7. LogsInv'
    <3>1. Reusable => kept.case # None /\
            (redrawn \/ \A l \in LogsOf[kept.case.people] :
                          kept'.logs[l] # None => kept'.logs[l].people = kept.case.people)
      <4>1. \A l \in Logs : kept'.logs[l] = kept.logs[l] \/ (l = Item /\ kept'.logs[l] = e)
        BY <2>5
      <4>2. ASSUME kept.case # None PROVE LogsOf[kept.case.people] \subseteq Logs
        BY <1>1, <4>2, DriverParameters DEF Outputs, Cases
      <4> QED
        BY <1>1, <1>5, <4>1, <4>2 DEF PartsInv, LogsInv
    <3>2. \A l \in Logs : work'.logs[l] # None => kept'.logs[l] = work'.logs[l]
      BY <2>5 DEF PartsInv, LogsInv
    <3>3. work.evidence # None /\ todo \subseteq work.evidence.items /\ work.evidence.items \subseteq Logs
      BY <1>1, <1>5 DEF PartsInv, LogsInv, AfterEvidence, Outputs, Evidences
    <3>4. work.case # None => work.evidence.items = LogsOf[work.case.people]
      BY <1>1, <3>3 DEF PartsInv, EvidenceInv, AfterEvidence, Algebra
    <3>5. ASSUME NEW l \in work.evidence.items, l \notin todo'
          PROVE  /\ work'.logs[l] # None /\ work'.logs[l].time = ObservedAt
                 /\ work.case # None => work'.logs[l].people = work.case.people \/ redrawn
      <4>1. CASE l = Item
        BY <4>1, <1>5, <2>1, <2>3, <2>5, <3>3, <3>4
      <4>2. CASE l # Item
        BY <4>2, <1>1, <1>5, <2>5, <3>3, <3>5 DEF PartsInv, LogsInv, AfterEvidence
      <4> QED
        BY <4>1, <4>2
    <3> QED
      BY <1>1, <1>2, <1>5, <2>2, <2>6, <3>1, <3>2, <3>3, <3>5 DEF LogsInv, AfterLogs, AfterEvidence
  <2>8. WorldInv'
    BY <1>1, <1>5, <2>2 DEF PartsInv, WorldInv, AfterWorld, Calling, RerunWorld, RerunCase, IsFull
  <2> QED
    BY <2>4, <2>7, <2>8 DEF PartsInv
<1>6. CASE LogAccepted
  <2>1. work.evidence # None
    BY <1>1, <1>6 DEF LogAccepted, PartsInv, LogsInv, AfterEvidence
  <2>2. Entry \in Entries /\ Entry.time = ObservedAt
    BY <2>1, EntryIsTyped DEF Entry
  <2>3. work.case # None => Entry.people = work.case.people
    BY DEF Entry
  <2> QED
    BY <1>1, <1>5, <1>6, <2>2, <2>3 DEF LogAccepted
<1>7. CASE LogReused
  <2> DEFINE e == kept.logs[Item]
  <2>1. Item \in Logs /\ Item \in todo /\ todo # {} /\ LogKept
    BY <1>1, <1>7, ItemIsLog DEF LogReused
  <2>2. e \in Entries /\ e.time = ObservedAt /\ Reusable
    BY <1>1, <2>1 DEF LogKept, Reusable
  <2>3. kept = [kept EXCEPT !.logs[Item] = e]
    <3>1. kept.logs = [kept.logs EXCEPT ![Item] = e]
      BY <1>1, <2>1
    <3>2. kept = [kept EXCEPT !.logs = [kept.logs EXCEPT ![Item] = e]]
      BY <1>1, <3>1 DEF Outputs
    <3> QED
      BY <3>2
  <2>4. work.case # None /\ ~redrawn /\ (Item \in LogsOf[work.case.people]) => e.people = work.case.people
    BY <1>1, <2>2, NoneIsNoOutput DEF PartsInv, LogsInv
  <2>5. /\ todo' = todo \ {Item} /\ at' = at /\ kept' = kept
        /\ work' = [work EXCEPT !.logs[Item] = e]
    BY <1>7 DEF LogReused
  <2> HIDE DEF e
  <2>6. kept' = [kept EXCEPT !.logs[Item] = e]
    BY <2>3, <2>5
  <2> QED
    BY <1>5, <2>1, <2>2, <2>4, <2>5, <2>6
<1> QED
  BY <1>3, <1>4, <1>6, <1>7 DEF LogStage

(* A step of the world stage keeps everything but the world. *)
LEMMA WorldLeavesRest ==
  ASSUME TypeOK, PartsInv, at \in AfterLogs, at' \in AfterLogs,
         work'.case = work.case, work'.evidence = work.evidence, work'.logs = work.logs,
         kept'.case = kept.case, kept'.evidence = kept.evidence, kept'.logs = kept.logs,
         UNCHANGED <<plan, todo, redrawn>>
  PROVE  CaseInv' /\ EvidenceInv' /\ LogsInv' /\ Weapon' = Weapon /\ RerunWorld(plan)' = RerunWorld(plan)
<1>1. CaseInv' /\ EvidenceInv'
  BY DEF PartsInv, CaseInv, EvidenceInv, Algebra, AfterEvidence, AfterLogs
<1>2. LogsInv'
  BY DEF PartsInv, LogsInv, AfterLogs, AfterEvidence, ObservedAt, Reusable, RerunLogs, RerunEvidence,
     RerunCase, IsFull
<1> QED
  BY <1>1, <1>2 DEF Weapon, RerunWorld, RerunCase, IsFull

LEMMA ComposedWorld ==
  ASSUME NEW w \in Worlds, NEW b \in BOOLEAN, NEW x, x = [w EXCEPT !.whole = b]
  PROVE  /\ x \in Worlds /\ x.weapon = w.weapon
         /\ x.parsed <=> w.parsed
         /\ x.whole <=> b
<1>1. [w EXCEPT !.whole = b] \in Worlds
  BY DEF Worlds
<1>2. [w EXCEPT !.whole = b].weapon = w.weapon
  BY DEF Worlds
<1>3. [w EXCEPT !.whole = b].parsed <=> w.parsed
  BY DEF Worlds
<1>4. [w EXCEPT !.whole = b].whole <=> b
  BY DEF Worlds
<1> QED
  BY <1>3, <1>4, <1>1, <1>2

LEMMA WorldParts == TypeOK /\ PartsInv /\ WorldStage => PartsInv'
<1> SUFFICES ASSUME TypeOK, PartsInv, WorldStage PROVE PartsInv'
  OBVIOUS
<1>1. /\ kept \in Outputs /\ work \in Outputs
      /\ kept.world \in Worlds \cup {None} /\ work.world \in Worlds \cup {None}
      /\ UNCHANGED <<plan, todo, redrawn>>
      /\ at \in AfterLogs /\ at' \in AfterLogs
  BY DEF TypeOK, Outputs, WorldStage, WorldReused, WorldAnswered, WorldRejected, Compose, Assemble,
         AfterLogs
<1>2. CASE WorldReused
  <2>1. /\ work'.case = work.case /\ work'.evidence = work.evidence /\ work'.logs = work.logs
        /\ work'.world = kept.world /\ kept' = kept /\ deferred' = deferred
    <3>1. work' = [work EXCEPT !.world = kept.world] /\ kept' = kept /\ deferred' = deferred
      BY <1>2 DEF WorldReused
    <3> QED
      BY <1>1, <3>1, OtherParts
  <2>2. /\ at = "world" /\ at' \in {"compose", "assemble"} /\ kept.world # None
        /\ kept.world.weapon = Weapon /\ kept.world.parsed /\ Fine(kept.world)
    BY <1>2 DEF WorldReused, WorldKept, PartsInv, WorldInv, Calling, Fine
  <2>3. CaseInv' /\ EvidenceInv' /\ LogsInv' /\ Weapon' = Weapon
    BY <1>1, <2>1, WorldLeavesRest
  <2>4. WorldInv'
    BY <2>1, <2>2, <2>3 DEF WorldInv, Calling, AfterWorld
  <2> QED
    BY <2>3, <2>4 DEF PartsInv
<1>3. ASSUME NEW parsed \in BOOLEAN, at' = "compose", work' = [work EXCEPT !.world = Requested(parsed)],
             kept' = kept, parsed \/ "world_requirements" \in deferred'
      PROVE  PartsInv'
  <2>1. /\ work'.case = work.case /\ work'.evidence = work.evidence /\ work'.logs = work.logs
        /\ work'.world = Requested(parsed)
    BY <1>1, <1>3, OtherParts
  <2>2. Requested(parsed) \in Worlds /\ Requested(parsed).weapon = Weapon /\ Requested(parsed).parsed = parsed
    BY DEF Requested, Worlds, Weapon, TypeOK, Outputs, Evidences
  <2>3. Requested(parsed) # None
    BY <2>2, NoneIsNoOutput
  <2>4. CaseInv' /\ EvidenceInv' /\ LogsInv' /\ Weapon' = Weapon
    BY <1>1, <1>3, <2>1, WorldLeavesRest
  <2>5. WorldInv'
    BY <1>3, <2>1, <2>2, <2>3, <2>4 DEF WorldInv, Calling, AfterWorld, Reported
  <2> QED
    BY <2>4, <2>5 DEF PartsInv
<1>4. CASE WorldAnswered
  BY <1>3, <1>4 DEF WorldAnswered
<1>5. CASE WorldRejected
  <2>1. CASE at' = "compose"
    BY <1>3, <1>5, <2>1 DEF WorldRejected
  <2>2. CASE at' # "compose"
    <3>1. at = "world" /\ at' = "world" /\ work' = work /\ kept' = kept /\ deferred' = deferred
      BY <1>5, <2>2 DEF WorldRejected
    <3>2. CaseInv' /\ EvidenceInv' /\ LogsInv' /\ Weapon' = Weapon /\ RerunWorld(plan)' = RerunWorld(plan)
      BY <1>1, <3>1, WorldLeavesRest
    <3>3. WorldInv'
      BY <3>1, <3>2 DEF PartsInv, WorldInv, Calling, AfterWorld
    <3> QED
      BY <3>2, <3>3 DEF PartsInv
  <2> QED
    BY <2>1, <2>2
<1>6. CASE Compose
  <2>1. PICK issues \in SUBSET {"world_requirements", "composition"} :
          /\ work' = [work EXCEPT !.world = [work.world EXCEPT !.whole = (issues = {})]]
          /\ kept' = [kept EXCEPT !.world = [work.world EXCEPT !.whole = (issues = {})]]
          /\ deferred' = deferred \cup issues
    BY <1>6 DEF Compose
  <2> DEFINE world == [work.world EXCEPT !.whole = (issues = {})]
  <2>2. /\ at = "compose" /\ at' = "assemble" /\ work.world \in Worlds /\ work.world.weapon = Weapon
        /\ work.world.parsed \/ Reported
    BY <1>1, <1>6 DEF Compose, PartsInv, WorldInv
  <2>3. /\ world \in Worlds /\ world.weapon = Weapon
        /\ world.parsed <=> work.world.parsed
        /\ world.whole <=> issues = {}
    <3>1. PICK b \in BOOLEAN : b <=> issues = {}
      OBVIOUS
    <3>2. world = [work.world EXCEPT !.whole = b]
      BY <3>1
    <3> QED
      BY <2>2, <3>1, <3>2, ComposedWorld
  <2> HIDE DEF world
  <2>4. /\ work'.case = work.case /\ work'.evidence = work.evidence /\ work'.logs = work.logs
        /\ work'.world = world
        /\ kept'.case = kept.case /\ kept'.evidence = kept.evidence /\ kept'.logs = kept.logs
        /\ kept'.world = world
    <3>1. work' = [work EXCEPT !.world = world] /\ kept' = [kept EXCEPT !.world = world]
      BY <2>1 DEF world
    <3> QED
      BY <1>1, <3>1, OtherParts
  <2>5. CaseInv' /\ EvidenceInv' /\ LogsInv' /\ Weapon' = Weapon
    BY <1>1, <2>4, WorldLeavesRest
  <2>6. world # None
    BY <2>3, NoneIsNoOutput
  <2>7. Reported' \/ Fine(world)
    BY <2>1, <2>2, <2>3 DEF Reported, Fine
  <2>8. WorldInv'
    <3>1. /\ work'.world # None /\ work'.world.weapon = Weapon' /\ kept'.world = work'.world
          /\ Reported' \/ Fine(work'.world)
      BY <2>3, <2>4, <2>5, <2>6, <2>7
    <3>2. at' \notin Calling /\ at' # "compose"
      BY <2>2 DEF Calling
    <3> QED
      BY <3>1, <3>2 DEF WorldInv
  <2> QED
    BY <2>5, <2>8 DEF PartsInv
<1>7. CASE Assemble
  <2>1. at = "assemble" /\ at' = "validate" /\ work' = work /\ kept' = kept /\ deferred' = deferred
    BY <1>7 DEF Assemble
  <2>2. CaseInv' /\ EvidenceInv' /\ LogsInv' /\ Weapon' = Weapon
    BY <1>1, <2>1, WorldLeavesRest
  <2>3. WorldInv'
    BY <2>1, <2>2 DEF PartsInv, WorldInv, Calling, AfterWorld, Reported
  <2> QED
    BY <2>2, <2>3 DEF PartsInv
<1> QED
  BY <1>2, <1>4, <1>5, <1>6, <1>7 DEF WorldStage

(* The parts of the outputs of a new pass, whatever its plan. *)
LEMMA FullReruns == ASSUME plan = Full
                    PROVE  RerunEvidence(plan) /\ RerunLogs(plan) /\ RerunWorld(plan) /\ ~plan.candidate
BY DEF Full, RerunEvidence, RerunLogs, RerunWorld, IsFull

(* What a plan of the report asks for.  A candidate plan is one for a draft without
   deferred defects. *)
LEMMA RoutedPlan ==
  ASSUME NEW p \in RepairPlans
  PROVE  \/ p = Full
         \/ /\ work.case # None
            /\ {OwnerOf[d] : d \in deferred} \subseteq p.owners
            /\ p.candidate => p.owners = {"CASE_PEOPLE"} /\ deferred = {}
<1>1. CASE work.case = None
  BY <1>1 DEF RepairPlans
<1>2. CASE work.case # None
  <2>1. PICK owners \in Blamed : p \in PlansFor(owners)
    BY <1>2 DEF RepairPlans
  <2>2. {OwnerOf[d] : d \in deferred} \subseteq owners
    BY DEF Blamed
  <2>3. PICK candidate \in BOOLEAN :
          /\ p = PlanFor(owners, candidate)
          /\ candidate => owners = {"CASE_PEOPLE"} /\ deferred = {}
    BY <2>1 DEF PlansFor
  <2> QED
    BY <1>2, <2>2, <2>3 DEF PlanFor
<1> QED
  BY <1>1, <1>2

LEMMA RepairParts == TypeOK /\ PartsInv /\ Repair => PartsInv'
<1> SUFFICES ASSUME TypeOK, PartsInv, Repair PROVE PartsInv'
  OBVIOUS
<1>1. PICK p \in RepairPlans : StartPass(p)
  BY DEF Repair
<1>2. /\ at = "validate" /\ at' = "case" /\ plan' = p /\ todo' = {} /\ work' = Nothing
      /\ deferred' = {} /\ ~remade' /\ UNCHANGED <<kept, redrawn>>
  BY <1>1 DEF Repair, StartPass, Judged
<1>3. work'.evidence = None /\ work'.logs = NoLogs /\ work'.case = None
  BY <1>2 DEF Nothing
<1>4. p \in Plans /\ work \in Outputs /\ kept \in Outputs
  BY PlansAreTyped DEF TypeOK
<1>5. CaseInv'
  BY <1>2 DEF CaseInv, AfterEvidence
<1>6. CASE p = Full
  <2>1. RerunEvidence(plan') /\ RerunLogs(plan') /\ RerunWorld(plan') /\ ~plan'.candidate
    BY <1>2, <1>6 DEF Full, RerunEvidence, RerunLogs, RerunWorld, IsFull
  <2>2. EvidenceInv'
    BY <1>2, <1>3, <2>1 DEF PartsInv, EvidenceInv, AfterEvidence, Algebra
  <2>3. LogsInv'
    BY <1>2, <1>3, <2>1 DEF LogsInv, Reusable, AfterEvidence, AfterLogs, NoLogs
  <2>4. WorldInv'
    BY <1>2, <2>1 DEF WorldInv, AfterWorld
  <2> QED
    BY <1>5, <2>2, <2>3, <2>4 DEF PartsInv
<1>7. CASE p # Full
  <2>1. /\ work.case # None
        /\ {OwnerOf[d] : d \in deferred} \subseteq p.owners
        /\ p.candidate => p.owners = {"CASE_PEOPLE"} /\ deferred = {}
    BY <1>7, RoutedPlan
  <2>2. /\ work.case = kept.case /\ work.case \in Cases
        /\ kept.evidence = work.evidence /\ work.evidence # None
        /\ work.evidence = Algebra(work.case) /\ work.evidence.case = work.case
    BY <1>2, <1>4, <2>1 DEF PartsInv, CaseInv, EvidenceInv, AfterEvidence, Outputs
  <2>3. work.evidence.items = LogsOf[work.case.people] /\ LogsOf[work.case.people] \subseteq Logs
    BY <2>2, DriverParameters DEF Algebra, Cases
  <2>4. EvidenceInv'
    BY <1>2, <1>3, <2>1, <2>2 DEF PartsInv, EvidenceInv, AfterEvidence, Algebra
  <2>5. redrawn \/ \A l \in LogsOf[kept.case.people] : kept.logs[l].people = kept.case.people
    <3> SUFFICES ASSUME ~redrawn, NEW l \in LogsOf[kept.case.people]
                 PROVE  kept.logs[l].people = kept.case.people
      OBVIOUS
    <3>1. l \in Logs /\ l \in work.evidence.items /\ todo = {}
      BY <1>2, <2>2, <2>3 DEF PartsInv, LogsInv, AfterLogs
    <3>2. work.logs[l] # None /\ work.logs[l].people = work.case.people
      BY <1>2, <2>1, <2>2, <3>1 DEF PartsInv, LogsInv, AfterEvidence
    <3> QED
      BY <2>2, <3>1, <3>2 DEF PartsInv, LogsInv
  <2>6. LogsInv'
    BY <1>2, <1>3, <2>1, <2>2, <2>5 DEF LogsInv, AfterEvidence, AfterLogs, NoLogs
  <2>7. kept.world # None /\ (Fine(kept.world) \/ Reported)
    BY <1>2 DEF PartsInv, WorldInv, AfterWorld
  <2>8. ASSUME Reported PROVE RerunWorld(p)
    <3>1. ~p.candidate
      BY <2>1, <2>8 DEF Reported
    <3>2. "WORLD_GRAPH" \in p.owners \/ "UNKNOWN" \in p.owners
      BY <2>1, <2>8 DEF Reported, OwnerOf
    <3> QED
      BY <3>1, <3>2 DEF RerunWorld, IsFull
  <2>9. WorldInv'
    BY <1>2, <2>7, <2>8 DEF WorldInv, AfterWorld
  <2> QED
    BY <1>5, <2>4, <2>6, <2>9 DEF PartsInv
<1> QED
  BY <1>6, <1>7

LEMMA RegenerateParts == TypeOK /\ PartsInv /\ Regenerate => PartsInv'
<1> SUFFICES ASSUME TypeOK, PartsInv, Regenerate PROVE PartsInv'
  OBVIOUS
<1>1. /\ at' = "case" /\ plan' = Full /\ todo' = {} /\ work' = Nothing
      /\ deferred' = {} /\ ~remade' /\ kept' = [Nothing EXCEPT !.case = kept.case]
  BY DEF Regenerate, StartPass, KeptForRegeneration
<1>2. work'.evidence = None /\ work'.logs = NoLogs /\ work'.case = None
  BY <1>1 DEF Nothing
<1>3. kept'.evidence = None /\ kept'.world = None /\ kept'.logs = NoLogs
  BY <1>1 DEF Nothing
<1>4. RerunLogs(plan') /\ ~plan'.candidate
  BY <1>1 DEF Full, RerunEvidence, RerunLogs, IsFull
<1>5. CaseInv' /\ EvidenceInv' /\ WorldInv'
  BY <1>1, <1>2, <1>3 DEF CaseInv, EvidenceInv, WorldInv, AfterEvidence, AfterWorld
<1>6. LogsInv'
  BY <1>1, <1>2, <1>4 DEF LogsInv, Reusable, AfterEvidence, AfterLogs, NoLogs
<1> QED
  BY <1>5, <1>6 DEF PartsInv

LEMMA EndParts == TypeOK /\ PartsInv /\ (PassFails \/ Valid \/ GiveUp) => PartsInv'
<1> SUFFICES ASSUME TypeOK, PartsInv, PassFails \/ Valid \/ GiveUp PROVE PartsInv'
  OBVIOUS
<1>1. /\ UNCHANGED <<plan, todo, kept, work, deferred, redrawn, remade>>
      /\ at' = "failed" \/ (at = "validate" /\ at' = "valid")
  BY DEF PassFails, Valid, GiveUp, Judged
<1>2. CaseInv' /\ EvidenceInv'
  BY <1>1 DEF PartsInv, CaseInv, EvidenceInv, AfterEvidence, Algebra
<1>3. LogsInv'
  BY <1>1 DEF PartsInv, LogsInv, AfterEvidence, AfterLogs, ObservedAt, Reusable, RerunLogs, RerunEvidence,
     RerunCase, IsFull
<1>4. WorldInv'
  BY <1>1 DEF PartsInv, WorldInv, AfterWorld, Calling, Weapon, Reported
<1> QED
  BY <1>2, <1>3, <1>4 DEF PartsInv

LEMMA ValidIsClean == ValidInv /\ Next => ValidInv'
<1> SUFFICES ASSUME ValidInv, Next, at' = "valid" PROVE work'.case # None /\ deferred' = {}
  BY DEF ValidInv
<1>1. CASE Valid
  <2>1. PICK found : {} = {OwnerOf[d] : d \in deferred} \cup found
    BY <1>1 DEF Valid, Blamed
  <2>2. deferred = {}
    BY <2>1
  <2> QED
    BY <1>1, <2>2 DEF Valid
<1>2. CASE Ended
  BY <1>2 DEF Ended, vars, ValidInv
<1>3. ~(CaseStage \/ EvidenceStage \/ LogStage \/ PassFails)
  BY DEF CaseStage, CaseReused, CaseAnswered, CaseRejected, EvidenceStage, EvidenceReused,
         EvidenceAnswered, EvidenceIs, LogStage, LogReused, LogAccepted, LogRejected, LogsDone, PassFails
<1>4. ~WorldStage
  BY DEF WorldStage, WorldReused, WorldAnswered, WorldRejected, Compose, Assemble
<1>5. ~(Repair \/ Regenerate \/ GiveUp)
  BY DEF Repair, Regenerate, GiveUp, StartPass
<1> QED
  BY <1>3, <1>4, <1>5, <1>1, <1>2 DEF Next, Verdict

(* What the caches and the pass share, and what a plan promises about the rest. *)
THEOREM DriverInvariant == Spec => []DriverInv
<1>1. Init => DriverInv
  <2> SUFFICES ASSUME Init PROVE DriverInv
    OBVIOUS
  <2>1. TypeOK
    <3>1. 0 \in 0 .. LogRetries + 1 /\ 0 \in 0 .. CoreCeiling /\ 0 \in 0 .. MaxRepairs
          /\ 0 \in 0 .. MaxRegenerations
      BY Counts, DriverParameters
    <3> QED
      BY <3>1, NothingIsOutput, FullIsPlan DEF Init, TypeOK, Places, Calling
  <2>2. plan = Full /\ RerunEvidence(plan) /\ RerunLogs(plan) /\ RerunWorld(plan) /\ ~plan.candidate
    BY FullReruns DEF Init
  <2>3. PartsInv
    BY <2>2 DEF Init, PartsInv, CaseInv, EvidenceInv, LogsInv, WorldInv, Nothing, NoLogs, AfterEvidence,
       AfterLogs, AfterWorld, Reusable
  <2> QED
    BY <2>1, <2>3 DEF Init, DriverInv, ValidInv
<1>2. DriverInv /\ [Next]_vars => DriverInv'
  <2> SUFFICES ASSUME TypeOK, PartsInv, ValidInv, [Next]_vars PROVE DriverInv'
    BY DEF DriverInv
  <2>1. CASE UNCHANGED vars
    <3>1. TypeOK' /\ ValidInv'
      BY <2>1 DEF vars, TypeOK, ValidInv
    <3>2. CaseInv' /\ EvidenceInv'
      BY <2>1 DEF vars, PartsInv, CaseInv, EvidenceInv, Algebra
    <3>3. LogsInv'
      BY <2>1 DEF vars, PartsInv, LogsInv, ObservedAt, Reusable, RerunLogs, RerunEvidence, RerunCase, IsFull
    <3>4. WorldInv'
      BY <2>1 DEF vars, PartsInv, WorldInv, Weapon, Reported, RerunWorld, RerunCase, IsFull
    <3> QED
      BY <3>3, <3>4, <3>1, <3>2 DEF DriverInv, PartsInv
  <2>2. CASE Next /\ ~UNCHANGED vars
    <3>1. ValidInv'
      BY <2>2, ValidIsClean
    <3>2. LogsInv /\ WorldInv
      BY DEF PartsInv
    <3>3. CASE CaseStage \/ EvidenceStage
      BY <3>1, <3>3, CaseTypes, EvidenceTypes, CaseParts, EvidenceParts DEF DriverInv
    <3>4. CASE LogStage \/ WorldStage
      BY <3>1, <3>2, <3>4, LogTypes, WorldTypes, LogParts, WorldParts DEF DriverInv
    <3>5. CASE PassFails \/ Valid \/ GiveUp
      BY <3>1, <3>5, EndTypes, EndParts DEF DriverInv
    <3>6. CASE Repair \/ Regenerate
      BY <3>1, <3>6, StartTypes, RepairParts, RegenerateParts DEF DriverInv
    <3> QED
      BY <2>2, <3>3, <3>4, <3>5, <3>6 DEF Next, Verdict, Ended
  <2> QED
    BY <2>1, <2>2
<1> QED
  BY <1>1, <1>2, PTL DEF Spec

(* Every variable has its type: no call, pass or retry beyond its bound. *)
THEOREM TypeCorrect == Spec => []TypeOK
<1>1. DriverInv => TypeOK
  BY DEF DriverInv
<1> QED
  BY <1>1, DriverInvariant, PTL

(* The evidence of a complete draft is that of its case, the logs of a published one were
   written for its time and its people, and its world was composed without an issue
   (caches and repair plans of run_into). *)
THEOREM PartsFit == Spec => []DraftPartsFit
<1>1. DriverInv => DraftPartsFit
  <2> SUFFICES ASSUME DriverInv PROVE DraftPartsFit
    OBVIOUS
  <2>1. EvidenceFromItsCase
    BY DEF DriverInv, PartsInv, EvidenceInv, EvidenceFromItsCase, AfterEvidence
  <2>2. LogsFollowThePeople
    <3> SUFFICES ASSUME at = "valid", NEW l \in work.evidence.items
                 PROVE  /\ work.logs[l] # None
                        /\ work.logs[l].time = work.case.truth
                        /\ work.logs[l].people = work.case.people \/ redrawn
      BY DEF LogsFollowThePeople
    <3>1. work.case # None /\ work.evidence # None /\ work.evidence.case = work.case /\ todo = {}
      BY DEF DriverInv, PartsInv, ValidInv, EvidenceInv, LogsInv, AfterEvidence, AfterLogs
    <3>2. ObservedAt = work.case.truth
      BY <3>1 DEF ObservedAt
    <3> QED
      BY <3>1, <3>2 DEF DriverInv, PartsInv, LogsInv, AfterEvidence
  <2>3. PublishedWorldIsWhole
    BY DEF DriverInv, PartsInv, ValidInv, WorldInv, AfterWorld, Reported, Fine, PublishedWorldIsWhole
  <2> QED
    BY <2>1, <2>2, <2>3 DEF DraftPartsFit
<1> QED
  BY <1>1, DriverInvariant, PTL

(* No pass replaces the truth of an accepted case. *)
THEOREM TruthStands == Spec => TruthIsKept
<1>1. DriverInv /\ [Next]_vars =>
        [kept.case # None => kept'.case # None /\ kept'.case.truth = kept.case.truth]_vars
  <2> SUFFICES ASSUME TypeOK, kept.case # None, Next
               PROVE  kept'.case # None /\ kept'.case.truth = kept.case.truth
    BY DEF DriverInv
  <2>1. kept \in Outputs
    BY DEF TypeOK
  <2>2. CASE CaseAnswered
    <3>1. PICK answer \in Cases : kept' = [kept EXCEPT !.case = Adopted(answer)]
      BY <2>2 DEF CaseAnswered
    <3>2. kept'.case = Adopted(answer)
      BY <2>1, <3>1, OtherParts
    <3>3. Adopted(answer) \in Cases /\ Adopted(answer).truth = kept.case.truth
      BY <2>1 DEF Adopted, Cases, Outputs
    <3> QED
      BY <3>2, <3>3, DriverNone
  <2>3. CASE LogAccepted
    <3>1. Item \in Logs
      BY <2>3, ItemIsLog DEF LogAccepted
    <3>2. kept' = [kept EXCEPT !.logs = [kept.logs EXCEPT ![Item] = Entry]]
      BY <2>3 DEF LogAccepted
    <3> QED
      BY <2>1, <3>2 DEF Outputs
  <2>4. CASE EvidenceStage
    <3>1. \E e : kept' = [kept EXCEPT !.evidence = e]
      BY <2>4 DEF EvidenceStage, EvidenceReused, EvidenceAnswered, EvidenceIs
    <3> QED
      BY <2>1, <3>1, OtherParts
  <2>5. CASE Compose
    <3>1. \E w : kept' = [kept EXCEPT !.world = w]
      BY <2>5 DEF Compose
    <3> QED
      BY <2>1, <3>1, OtherParts
  <2>6. CASE Regenerate
    BY <2>6 DEF Regenerate, KeptForRegeneration, Nothing
  <2>7. CASE kept' = kept
    BY <2>7
  <2>8. \/ CaseAnswered \/ LogAccepted \/ EvidenceStage \/ Compose \/ Regenerate
        \/ kept' = kept
    BY DEF Next, CaseStage, CaseReused, CaseRejected, LogStage, LogReused, LogRejected, LogsDone,
           WorldStage, WorldReused, WorldAnswered, WorldRejected, Assemble, PassFails, Verdict,
           Valid, Repair, GiveUp, Ended, vars
  <2> QED
    BY <2>2, <2>3, <2>4, <2>5, <2>6, <2>7, <2>8
<1> QED
  BY <1>1, DriverInvariant, PTL DEF Spec, TruthIsKept

--------------------------------------------------------------------------------
(* The calls of an attempt *)

(* What the log stage may still spend, or has been spent before this pass. *)
Owed(items) == Cardinality(items) * (1 + LogRetries)
Spent       == (repairs + regenerations) * PassCalls

(* A pass has made no more calls than the stages it is through with may take, and the
   repeated ones of the stage it is in. *)
CallsInv ==
  /\ why # "budget"
  /\ at = "case" => calls <= Spent + tries /\ tries <= 1 /\ (tries > 0 => ~CaseKept)
  /\ at = "evidence" => calls <= Spent + 2 /\ tries = 0
  /\ at = "logs" =>
       /\ calls + Owed(todo) <= Spent + 3 + Owed(Logs) + tries
       /\ tries <= LogRetries
       /\ tries > 0 => todo # {} /\ ~LogKept
  /\ at = "world" =>
       calls <= Spent + 3 + Owed(Logs) + tries /\ tries <= 1 /\ (tries > 0 => ~WorldKept)
  /\ at \in {"compose", "assemble", "validate"} => calls <= Spent + PassCalls

LEMMA Products ==
  ASSUME NEW a \in Nat, NEW b \in Nat, NEW k \in Nat
  PROVE  /\ a * k \in Nat
         /\ a <= b => a * k <= b * k
         /\ (a + 1) * k = a * k + k
<1>1. a * k \in Nat /\ (a + 1) * k = a * k + k
  OBVIOUS
<1>2. ASSUME a <= b PROVE a * k <= b * k
  <2>1. PICK d \in Nat : b = a + d
    <3>1. b - a \in Nat /\ b = a + (b - a)
      BY <1>2
    <3> QED
      BY <3>1
  <2>2. b * k = a * k + d * k /\ d * k \in Nat
    BY <2>1
  <2> QED
    BY <2>2, <1>1
<1> QED
  BY <1>1, <1>2

LEMMA OwedFacts ==
  ASSUME NEW items \in SUBSET Logs
  PROVE  /\ Owed(items) \in Nat /\ Owed(items) <= Owed(Logs) /\ Owed(Logs) \in Nat
         /\ items = {} => Owed(items) = 0
         /\ \A i \in items : Owed(items) = Owed(items \ {i}) + 1 + LogRetries
<1>1. IsFiniteSet(items) /\ Cardinality(items) \in Nat /\ Cardinality(items) <= Cardinality(Logs)
      /\ Cardinality(Logs) \in Nat /\ 1 + LogRetries \in Nat
  BY DriverParameters, FS_Subset, FS_CardinalityType
<1>2. Owed(items) \in Nat /\ Owed(items) <= Owed(Logs) /\ Owed(Logs) \in Nat
  BY <1>1, Products DEF Owed
<1>3. items = {} => Owed(items) = 0
  BY <1>1, FS_EmptySet DEF Owed
<1>4. ASSUME NEW i \in items PROVE Owed(items) = Owed(items \ {i}) + 1 + LogRetries
  <2>1. IsFiniteSet(items \ {i}) /\ Cardinality(items \ {i}) = Cardinality(items) - 1
    BY <1>1, FS_RemoveElement
  <2>2. Cardinality(items \ {i}) \in Nat /\ Cardinality(items) = Cardinality(items \ {i}) + 1
    BY <1>1, <2>1, FS_CardinalityType
  <2>3. Owed(items) = Cardinality(items \ {i}) * (1 + LogRetries) + (1 + LogRetries)
    BY <1>1, <2>2, Products DEF Owed
  <2>4. Cardinality(items \ {i}) * (1 + LogRetries) \in Nat /\ LogRetries \in Nat
    BY <1>1, <2>2, Products, DriverParameters
  <2>5. Owed(items \ {i}) = Cardinality(items \ {i}) * (1 + LogRetries)
    BY DEF Owed
  <2> QED
    BY <2>3, <2>4, <2>5
<1> QED
  BY <1>2, <1>3, <1>4

LEMMA SpentFacts ==
  ASSUME TypeOK
  PROVE  /\ Spent \in Nat /\ Spent + PassCalls <= CoreCeiling
         /\ PassCalls = 5 + Owed(Logs) /\ Owed(Logs) \in Nat /\ CoreCeiling \in Nat
         /\ calls \in Nat /\ tries \in Nat /\ LogRetries \in Nat
<1>1. /\ repairs + regenerations \in Nat /\ MaxRepairs + MaxRegenerations \in Nat
      /\ repairs + regenerations <= MaxRepairs + MaxRegenerations
      /\ calls \in Nat /\ tries \in Nat
  BY DriverParameters, Counts DEF TypeOK
<1>2. Spent \in Nat /\ Spent <= (MaxRepairs + MaxRegenerations) * PassCalls
  BY <1>1, Counts, Products DEF Spent
<1>3. /\ CoreCeiling = (MaxRepairs + MaxRegenerations) * PassCalls + PassCalls
      /\ (MaxRepairs + MaxRegenerations) * PassCalls \in Nat
  <2>1. 1 + MaxRepairs + MaxRegenerations = (MaxRepairs + MaxRegenerations) + 1
    BY DriverParameters
  <2> QED
    BY <1>1, <2>1, Counts, Products DEF CoreCeiling
<1>4. PassCalls = 5 + Owed(Logs) /\ Owed(Logs) \in Nat
  BY OwedFacts, DriverParameters, Counts DEF PassCalls, Owed
<1> QED
  BY <1>3, <1>4, <1>1, <1>2, Counts, DriverParameters

(* While a stage has a call to make, the ceiling has room for it. *)
LEMMA RoomForCalls ==
  ASSUME TypeOK, CallsInv,
         at \in {"case", "evidence", "world"} \/ (at = "logs" /\ todo # {})
  PROVE  MayCall
<1>1. CASE at \in {"case", "evidence", "world"}
  BY <1>1, SpentFacts DEF CallsInv, MayCall
<1>2. CASE at = "logs" /\ todo # {}
  <2>1. PICK i \in todo : TRUE
    BY <1>2
  <2>2. todo \in SUBSET Logs /\ todo \ {i} \in SUBSET Logs
    BY DEF TypeOK
  <2>3. Owed(todo) = Owed(todo \ {i}) + 1 + LogRetries /\ Owed(todo \ {i}) \in Nat
    BY <2>1, <2>2, OwedFacts
  <2> QED
    BY <1>2, <2>3, SpentFacts DEF CallsInv, MayCall
<1> QED
  BY <1>1, <1>2

LEMMA CallsCounted ==
  ASSUME TypeOK, CallsInv, Next
  PROVE  CallsInv'
<1>1. /\ Spent \in Nat /\ Spent + PassCalls <= CoreCeiling
      /\ PassCalls = 5 + Owed(Logs) /\ Owed(Logs) \in Nat
      /\ calls \in Nat /\ tries \in Nat /\ LogRetries \in Nat
  BY SpentFacts
<1>2. CASE CaseStage
  <2>1. CASE CaseReused
    BY <1>1, <2>1 DEF CaseReused, CallsInv, Spent
  <2>2. CASE CaseAnswered
    BY <1>1, <2>2 DEF CaseAnswered, CallsInv, Spent
  <2>3. CASE CaseRejected
    BY <1>1, <2>3 DEF CaseRejected, CallsInv, Spent, CaseKept, RerunCase, IsFull
  <2> QED
    BY <1>2, <2>1, <2>2, <2>3 DEF CaseStage
<1>3. CASE EvidenceStage
  <2>1. /\ at = "evidence" /\ at' = "logs" /\ calls' <= calls + 1 /\ calls' \in Nat
        /\ UNCHANGED <<why, tries, repairs, regenerations>>
    BY <1>1, <1>3 DEF EvidenceStage, EvidenceReused, EvidenceAnswered, EvidenceIs
  <2>2. todo' \in SUBSET Logs
    BY <1>3, EvidenceTypes DEF TypeOK
  <2>3. Owed(todo') \in Nat /\ Owed(todo') <= Owed(Logs)
    BY <2>2, OwedFacts
  <2>4. calls <= Spent + 2 /\ tries = 0 /\ why # "budget" /\ Spent' = Spent
    BY <2>1 DEF CallsInv, Spent
  <2> QED
    BY <1>1, <2>1, <2>3, <2>4 DEF CallsInv, Owed
<1>4. CASE LogStage
  <2>1. at = "logs" /\ Spent' = Spent /\ todo \in SUBSET Logs
    BY <1>4 DEF LogStage, LogReused, LogAccepted, LogRejected, LogsDone, Spent, TypeOK
  <2>2. calls + Owed(todo) <= Spent + 3 + Owed(Logs) + tries /\ tries <= LogRetries
        /\ (tries > 0 => todo # {} /\ ~LogKept) /\ why # "budget"
    BY <2>1 DEF CallsInv
  <2>3. CASE LogReused \/ LogAccepted
    <3>1. /\ todo # {} /\ todo' = todo \ {Item} /\ at' = "logs" /\ why' = why /\ tries' = 0
          /\ calls' = calls \/ calls' = calls + 1
      BY <1>1, <2>1, <2>2, <2>3 DEF LogReused, LogAccepted
    <3>2. Item \in todo /\ todo' \in SUBSET Logs
      BY <2>1, <3>1, ItemIsLog
    <3>3. Owed(todo) = Owed(todo') + 1 + LogRetries /\ Owed(todo') \in Nat
      BY <2>1, <3>1, <3>2, OwedFacts
    <3>4. calls' + Owed(todo') <= Spent + 3 + Owed(Logs)
      BY <1>1, <2>2, <3>1, <3>3
    <3> QED
      BY <1>1, <2>1, <2>2, <3>1, <3>4 DEF CallsInv, Owed
  <2>4. CASE LogRejected
    <3>1. LogKept' = LogKept \/ at' # "logs"
      BY <2>4 DEF LogRejected, LogKept, RerunLogs, RerunEvidence, RerunCase, IsFull, Item, ObservedAt
    <3>2. Owed(todo)' = Owed(todo) /\ Owed(Logs)' = Owed(Logs) /\ Owed(todo) \in Nat
      BY <2>1, <2>4, OwedFacts DEF LogRejected, Owed
    <3> QED
      BY <1>1, <2>1, <2>2, <2>4, <3>1, <3>2 DEF LogRejected, CallsInv
  <2>5. CASE LogsDone
    <3>1. todo = {} /\ tries = 0 /\ Owed(todo) = 0
      BY <1>1, <2>1, <2>2, <2>5, OwedFacts DEF LogsDone
    <3> QED
      BY <1>1, <2>1, <2>2, <2>5, <3>1 DEF LogsDone, CallsInv, Owed
  <2> QED
    BY <1>4, <2>3, <2>4, <2>5 DEF LogStage
<1>5. CASE WorldStage
  <2>1. Spent' = Spent /\ why' = why /\ why # "budget" /\ Owed(Logs)' = Owed(Logs)
    BY <1>5 DEF WorldStage, WorldReused, WorldAnswered, WorldRejected, Compose, Assemble, Spent, CallsInv,
       Owed
  <2>2. CASE WorldReused
    BY <1>1, <2>1, <2>2 DEF WorldReused, CallsInv
  <2>3. CASE WorldAnswered
    BY <1>1, <2>1, <2>3 DEF WorldAnswered, CallsInv
  <2>4. CASE WorldRejected
    <3>1. WorldKept' = WorldKept \/ at' # "world"
      BY <2>4 DEF WorldRejected, WorldKept, RerunWorld, RerunCase, IsFull, Weapon
    <3>2. at = "world" /\ ~WorldKept /\ calls' = calls + 1 /\ calls <= Spent + 3 + Owed(Logs) + tries
      BY <2>4 DEF WorldRejected, CallsInv
    <3>3. CASE tries = 0 /\ tries' = 1 /\ at' = at
      BY <1>1, <2>1, <3>1, <3>2, <3>3 DEF CallsInv
    <3>4. CASE tries = 1 /\ at' = "compose"
      BY <1>1, <2>1, <3>2, <3>4 DEF CallsInv
    <3> QED
      BY <2>4, <3>3, <3>4 DEF WorldRejected
  <2>5. CASE Compose \/ Assemble
    BY <1>1, <2>1, <2>5 DEF Compose, Assemble, CallsInv
  <2> QED
    BY <1>5, <2>2, <2>3, <2>4, <2>5 DEF WorldStage
<1>6. CASE PassFails
  <2>1. at \in Calling => at \in {"case", "evidence", "world"} \/ (at = "logs" /\ todo # {})
    BY <1>6 DEF PassFails, Calling
  <2>2. why' # "budget" /\ at' = "failed"
    BY <1>6, <2>1, RoomForCalls DEF PassFails
  <2> QED
    BY <2>2 DEF CallsInv
<1>7. CASE Valid \/ GiveUp
  BY <1>7 DEF Valid, GiveUp, CallsInv
<1>8. CASE Repair \/ Regenerate
  <2>1. /\ at = "validate" /\ at' = "case" /\ tries' = 0 /\ UNCHANGED <<calls, why>>
        /\ repairs' + regenerations' = repairs + regenerations + 1
        /\ repairs + regenerations \in Nat
    BY <1>8, DriverParameters DEF Repair, Regenerate, StartPass, Judged, TypeOK
  <2>2. Spent' = Spent + PassCalls
    BY <2>1, Counts, Products DEF Spent
  <2> QED
    BY <1>1, <2>1, <2>2 DEF CallsInv
<1>9. CASE Ended
  BY <1>9 DEF Ended, vars, CallsInv
<1> QED
  BY <1>2, <1>3, <1>4, <1>5, <1>6, <1>7, <1>8, <1>9 DEF Next, Verdict

(* The default ceiling of the core calls never stops an attempt (derive_core_call_budget_default). *)
THEOREM CeilingSuffices == Spec => []NeverStarved
<1>1. Init => CallsInv
  <2> SUFFICES ASSUME Init PROVE CallsInv
    OBVIOUS
  <2>1. Spent = 0
    BY Counts DEF Init, Spent
  <2>2. why # "budget"
    BY DriverNone DEF Init
  <2> QED
    BY <2>1, <2>2 DEF Init, CallsInv
<1>2. DriverInv /\ CallsInv /\ [Next]_vars => CallsInv'
  <2>1. ASSUME DriverInv, CallsInv, Next PROVE CallsInv'
    BY <2>1, CallsCounted DEF DriverInv
  <2>2. ASSUME CallsInv, UNCHANGED vars PROVE CallsInv'
    BY <2>2 DEF vars, CallsInv, Spent, Owed, CaseKept, LogKept, WorldKept, RerunCase, RerunLogs,
       RerunEvidence, RerunWorld, IsFull, Item, ObservedAt, Weapon
  <2> QED
    BY <2>1, <2>2
<1>3. CallsInv => NeverStarved
  BY DEF CallsInv, NeverStarved
<1> QED
  BY <1>1, <1>2, <1>3, DriverInvariant, PTL DEF Spec

================================================================================
