---------------------- MODULE GenerationController_proofs ----------------------
(***************************************************************************)
(* Proofs about GenerationController, for any number of attempts, sessions *)
(* and pending ids and any ceilings.                                       *)
(*                                                                         *)
(* Only the current attempt can be live, so a run of the loop disturbs one *)
(* record, and what that record may look like follows from where the run   *)
(* is (Posture).  The steps of the controller come in few shapes; each one *)
(* is shown to have its shape, and each invariant to survive every shape.  *)
(***************************************************************************)
EXTENDS GenerationController, FiniteSetTheorems, TLAPS

(* A state follows another one in the transition table, or is the same. *)
Follows(s, t) == t = s \/ t \in Lifecycle!Allowed[s]

(* The variables that only start_generation, Return and the clock touch. *)
Aside == <<mode, now, started, retained, current>>

(* The draft of a is the one that was validated, and found VALID. *)
Certified(a) ==
  /\ a.state = "VALIDATING" /\ a.report = "VALID"
  /\ a.checked /\ a.drafted
  /\ a.pending = None

(* Nothing is under way for a but the loop itself. *)
Bare(a) == a.pending = None

Waits(a) ==
  /\ a.pending # None /\ routes[a.pending] # None
  /\ a.state \in {"GENERATING", "REPAIRING"}

(* What the current record looks like, by the place of the run. *)
Posture ==
  /\ run.at \in {"head", "call"} => LiveNow /\ Bare(att[current])
  /\ run.at = "call" => att[current].state \in {"GENERATING", "REPAIRING"}
  /\ run.at = "gate" => LiveNow /\ Certified(att[current])
  /\ run.at \in {"none", "return"} /\ LiveNow =>
       \/ mode.hold /\ Certified(att[current])
       \/ Waits(att[current])

(* Ids are drawn in order, and only the last one may be live. *)
OneIsLive ==
  /\ \A n \in Attempts : Exists(n) <=> n <= started
  /\ \A n \in Attempts : Live(n) => n = current
  /\ current # None => current \in retained

(* A session holds a reservation while the current attempt is its own and live. *)
SlotsFollow ==
  \A s \in Sessions : slots[s] = IF LiveNow /\ att[current].session = s THEN 1 ELSE 0

ControllerInv ==
  /\ TypeOK
  /\ OneIsLive
  /\ Posture
  /\ SlotsFollow
  /\ RoutesAreLive
  /\ PublishedIsChecked

--------------------------------------------------------------------------------
(* Records *)

LEMMA NoneIsDistinct ==
  /\ None \notin Attempts /\ None \notin PendingIds /\ None \notin Codes
  /\ None \notin Outcomes /\ None \notin Records
  /\ None \notin Attempts \X (Stages \cup {Repair})
  BY ControllerNone, NoneIsNoRecord

LEMMA FailedRecord ==
  ASSUME NEW a \in Records
  PROVE  /\ Failed(a) \in Records
         /\ Failed(a).state = "FAILED" /\ Failed(a).pending = None
         /\ Failed(a).session = a.session /\ Failed(a).deadline = a.deadline
  BY DEF Failed, Records, States

LEMMA FreshRecord ==
  ASSUME TypeOK, NEW s \in Sessions
  PROVE  /\ Fresh(s) \in Records
         /\ Fresh(s).state = "DRAFT" /\ Fresh(s).pending = None
         /\ Fresh(s).session = s /\ Fresh(s).report = None
  BY ControllerParameters DEF Fresh, Records, States, TypeOK, Time

LEMMA RunPlaces ==
  /\ \A r \in Runs : r = NoRun <=> r.at = "none"
  /\ \A r \in Runs : r # NoRun =>
       /\ r.entered \in {"start", "completion"}
       /\ r.at \in {"head", "gate", "return", "call"}
  /\ \A r \in Runs : r.at = "call" => r.stage \in Stages \cup {Repair}
  /\ \A p \in {"head", "gate", "return"}, e \in {"start", "completion"} :
       [at |-> p, entered |-> e] \in Runs
  /\ \A e \in {"start", "completion"}, s \in Stages \cup {Repair} :
       [at |-> "call", entered |-> e, stage |-> s] \in Runs
  BY DEF Runs, NoRun

--------------------------------------------------------------------------------
(* The shapes of a step *)

(* The current record becomes b, which is the same attempt further on. *)
Becomes(b) ==
  /\ b \in Records
  /\ b.session = att[current].session
  /\ b.deadline = att[current].deadline
  /\ Follows(att[current].state, b.state)
  /\ att' = [att EXCEPT ![current] = b]

RouteGone ==
  routes' = IF att[current].pending = None THEN routes
            ELSE [routes EXCEPT ![att[current].pending] = None]

RunTo(places) == run' \in Runs /\ run'.at \in places

(* The loop goes on, with content for the stage or without. *)
Turns ==
  /\ \E b \in Records :
       /\ Becomes(b)
       /\ b.state \in States \ Terminal
       /\ Bare(b)
  /\ RouteGone
  /\ RunTo({"head"})
  /\ UNCHANGED <<Aside, slots>>

Calls ==
  /\ run.at = "head"
  /\ \E b \in Records :
       /\ Becomes(b)
       /\ b.state \in {"GENERATING", "REPAIRING"}
       /\ Bare(b)
  /\ RunTo({"call"})
  /\ UNCHANGED <<Aside, slots, routes>>

Defers ==
  /\ run.at = "call"
  /\ \E b \in Records, stage \in Stages \cup {Repair} :
       /\ Becomes(b)
       /\ b.state = att[current].state
       /\ b.pending \in PendingIds
       /\ routes' = [routes EXCEPT ![b.pending] = <<current, stage>>]
  /\ RunTo({"return"})
  /\ UNCHANGED <<Aside, slots>>

Certifies ==
  /\ run.at = "head"
  /\ \E b \in Records : Becomes(b) /\ Certified(b)
  /\ RunTo({"gate", "return"})
  /\ run'.at = "return" => mode.hold = TRUE
  /\ UNCHANGED <<Aside, slots, routes>>

(* The attempt ends, its reservation and its route go. *)
Ends(state) ==
  /\ \E b \in Records :
       /\ Becomes(b)
       /\ b.state = state
       /\ state = "PUBLISHED" => /\ ~ Expired(current)
                                /\ b.report = "VALID" /\ b.checked /\ b.drafted
  /\ slots' = GiveBack(slots, att[current].session)
  /\ RouteGone
  /\ RunTo({"none", "return"})
  /\ UNCHANGED Aside

Shaped == LiveNow /\ (Turns \/ Calls \/ Defers \/ Certifies \/ Ends("FAILED") \/ Ends("PUBLISHED"))

LEMMA CurrentRecord ==
  ASSUME TypeOK, LiveNow
  PROVE  /\ current \in Attempts /\ att[current] \in Records
         /\ att[current].state \in States \ Terminal
<1>1. current \in Attempts
  BY ControllerParameters DEF TypeOK, LiveNow, Attempts
<1>2. att[current] \in Records
  BY <1>1 DEF TypeOK, LiveNow, Live, Exists
<1> QED
  BY <1>1, <1>2 DEF LiveNow, Live, Records

LEMMA TableOfLife ==
  /\ \A t \in States \ {"DRAFT"} : t \in {"GENERATING"} => Follows("DRAFT", t)
  /\ Follows("GENERATING", "VALIDATING")
  /\ Follows("VALIDATING", "PUBLISHED")
  /\ Follows("VALIDATING", "REPAIRING")
  /\ Follows("VALIDATING", "GENERATING")
  /\ Follows("REPAIRING", "VALIDATING")
  /\ \A s \in {"GENERATING", "VALIDATING", "REPAIRING"} : Follows(s, "FAILED")
  /\ \A s \in States : Follows(s, s)
  BY DEF Follows, Lifecycle!Allowed

LEMMA RunGoes ==
  ASSUME TypeOK, run # NoRun, NEW p \in {"head", "gate", "return"}, GoTo(p)
  PROVE  RunTo({p})
  BY RunPlaces DEF TypeOK, GoTo, RunTo

LEMMA FailShape ==
  ASSUME TypeOK, LiveNow, NEW a \in Records,
         a.session = att[current].session, a.deadline = att[current].deadline,
         a.pending = att[current].pending,
         att[current].state \in {"GENERATING", "VALIDATING", "REPAIRING"},
         Fail(a), RunTo({"none", "return"}), UNCHANGED Aside
  PROVE  Ends("FAILED")
<1>1. Becomes(Failed(a)) /\ Failed(a).state = "FAILED" /\ Failed(a) \in Records
  BY FailedRecord, TableOfLife DEF Becomes, Fail, Put
<1> QED
  BY <1>1 DEF Ends, Fail, RouteGone

LEMMA FailRunShape ==
  ASSUME TypeOK, LiveNow, run # NoRun, NEW a \in Records,
         a.session = att[current].session, a.deadline = att[current].deadline,
         a.pending = att[current].pending,
         att[current].state \in {"GENERATING", "VALIDATING", "REPAIRING"},
         FailRun(a), UNCHANGED Aside
  PROVE  Ends("FAILED")
<1>1. RunTo({"return"})
  BY RunGoes DEF FailRun
<1> QED
  BY <1>1, FailShape DEF FailRun, RunTo

LEMMA TurnShape ==
  ASSUME TypeOK, LiveNow, run # NoRun, NEW a \in Records,
         a.session = att[current].session, a.deadline = att[current].deadline,
         Bare(a), att[current].pending = None, a.state \in States \ Terminal,
         Follows(att[current].state, a.state),
         Turn(a), UNCHANGED Aside
  PROVE  Turns
<1>1. RunTo({"head"})
  BY RunGoes DEF Turn
<1>2. Becomes(a)
  BY DEF Turn, Put, Becomes
<1> QED
  BY <1>1, <1>2 DEF Turns, Turn, RouteGone

(* The offer of a completion leaves its mark and perhaps a report, nothing else. *)
LEMMA OfferedRecord ==
  ASSUME NEW a \in Records, NEW b \in Offered(a)
  PROVE  /\ b \in Records
         /\ b.session = a.session /\ b.deadline = a.deadline
         /\ b.pending = a.pending /\ b.state = a.state
<1>1. CASE b = a
  BY <1>1
<1>2. CASE b = [a EXCEPT !.offered = TRUE]
  BY <1>2 DEF Records
<1>3. ASSUME NEW outcome \in Outcomes,
             b = [a EXCEPT !.offered = TRUE, !.report = outcome, !.checked = TRUE]
      PROVE  /\ b \in Records
             /\ b.session = a.session /\ b.deadline = a.deadline
             /\ b.pending = a.pending /\ b.state = a.state
  BY <1>3 DEF Records
<1> QED
  BY <1>1, <1>2, <1>3 DEF Offered

LEMMA AppliedRecord ==
  ASSUME NEW a \in Records, NEW stage \in Stages \cup {Repair}, NEW b \in Applied(a, stage)
  PROVE  /\ b \in Records
         /\ b.session = a.session /\ b.deadline = a.deadline
         /\ b.pending = a.pending
         /\ b.state \in {a.state, "VALIDATING"}
<1> DEFINE Good(r) == /\ r \in Records
                      /\ r.session = a.session /\ r.deadline = a.deadline
                      /\ r.pending = a.pending
                      /\ r.state \in {a.state, "VALIDATING"}
<1>1. Good([a EXCEPT !.done = {}, !.drafted = TRUE, !.checked = FALSE])
  BY DEF Records
<1>2. Good([a EXCEPT !.checked = FALSE])
  BY DEF Records
<1>3. ASSUME stage \in Stages PROVE Good(Trusted(a, stage))
  <2>1. (a.drafted \/ stage = CaseTruth) \in BOOLEAN /\ (a.done \cup {stage}) \in SUBSET Stages
    BY <1>3 DEF Records
  <2>2. PICK drafted \in BOOLEAN, done \in SUBSET Stages :
          Trusted(a, stage) = [a EXCEPT !.done = done, !.checked = FALSE, !.drafted = drafted]
    BY <2>1, Zenon DEF Trusted
  <2>3. Good([a EXCEPT !.done = done, !.checked = FALSE, !.drafted = drafted])
    <3> DEFINE trusted == [a EXCEPT !.done = done, !.checked = FALSE, !.drafted = drafted]
    <3>1. trusted \in Records
      BY DEF Records
    <3>2. /\ trusted.session = a.session /\ trusted.deadline = a.deadline
          /\ trusted.pending = a.pending /\ trusted.state = a.state
      BY DEF Records
    <3> HIDE DEF trusted
    <3>3. Good(trusted)
      BY <3>1, <3>2
    <3> QED
      BY <3>3 DEF trusted
  <2> QED
    BY <2>2, <2>3
<1>4. ASSUME stage \in Stages, NEW r \in Untrusted(a, stage) PROVE Good(r)
  <2>1. PICK rejected : rejected = [a EXCEPT !.checked = FALSE]
    OBVIOUS
  <2>2. /\ rejected \in Records /\ rejected.state = a.state
        /\ rejected.session = a.session /\ rejected.deadline = a.deadline
        /\ rejected.pending = a.pending
    BY <2>1 DEF Records
  <2>3. PICK c \in Offered(rejected) \cup {rejected} :
          \/ r = [c EXCEPT !.state = "VALIDATING"]
          \/ r = [c EXCEPT !.done = @ \cup {Evidence}]
    BY <1>4, <2>1 DEF Untrusted
  <2>4. Good(c) /\ c.state = a.state
    BY <2>2, <2>3, OfferedRecord
  <2>5. Good([c EXCEPT !.state = "VALIDATING"])
    BY <2>4 DEF Records, States
  <2>6. Good([c EXCEPT !.done = @ \cup {Evidence}])
    BY <2>4 DEF Records, Evidence, Stages
  <2> QED
    BY <2>3, <2>5, <2>6
<1> QED
  BY <1>3, <1>4, <1>1, <1>2 DEF Applied, Repaired

(* run_into of the driver ends the attempt or leaves something to validate. *)
LEMMA DriveShape ==
  ASSUME TypeOK, LiveNow, run # NoRun, NEW a \in Records,
         a.session = att[current].session, a.deadline = att[current].deadline,
         Bare(a), att[current].pending = None,
         att[current].state \in {"GENERATING", "VALIDATING"},
         DriveFrom(a), UNCHANGED Aside
  PROVE  Turns \/ Ends("FAILED")
<1>1. PICK k \in 0 .. MaxCalls - a.calls :
        LET spent == [a EXCEPT !.calls = @ + k]
        IN  \/ FailRun(spent)
            \/ \E assembled \in BOOLEAN :
                 Turn([spent EXCEPT !.state = "VALIDATING", !.checked = FALSE,
                                    !.drafted = assembled])
  BY DEF DriveFrom
<1>2. PICK spent : spent = [a EXCEPT !.calls = @ + k]
  OBVIOUS
<1>3. /\ spent \in Records /\ spent.session = a.session /\ spent.deadline = a.deadline
      /\ spent.pending = a.pending /\ spent.report = a.report
  <2>1. a.calls + k \in 0 .. MaxCalls
    <3>1. a.calls \in 0 .. MaxCalls /\ MaxCalls \in Nat
      BY ControllerParameters DEF Records
    <3> QED
      BY <3>1
  <2> QED
    BY <1>2, <2>1 DEF Records
<1>4. CASE FailRun(spent)
  BY <1>3, <1>4, FailRunShape DEF Bare
<1>5. ASSUME NEW assembled \in BOOLEAN,
             Turn([spent EXCEPT !.state = "VALIDATING", !.checked = FALSE, !.drafted = assembled])
      PROVE  Turns
  <2>1. PICK b : b = [spent EXCEPT !.state = "VALIDATING", !.checked = FALSE,
                                   !.drafted = assembled]
    OBVIOUS
  <2>2. /\ b \in Records /\ b.session = a.session /\ b.deadline = a.deadline
        /\ b.state = "VALIDATING" /\ Bare(b)
    BY <1>3, <2>1 DEF Records, States, Bare
  <2>3. Follows(att[current].state, b.state)
    BY <2>2, TableOfLife DEF States
  <2>4. b.state \in States \ Terminal
    BY <2>2 DEF States, Terminal
  <2> QED
    BY <1>5, <2>1, <2>2, <2>3, <2>4, TurnShape
<1> QED
  BY <1>1, <1>2, <1>4, <1>5

(* A provider call is begun, or the ceiling of calls ends the attempt. *)
LEMMA CallShape ==
  ASSUME TypeOK, LiveNow, run.at = "head", NEW a \in Records,
         NEW stage \in Stages \cup {Repair},
         a.session = att[current].session, a.deadline = att[current].deadline,
         Bare(a), att[current].pending = None,
         att[current].state \in {"GENERATING", "VALIDATING"},
         a.state \in {"GENERATING", "REPAIRING"}, Follows(att[current].state, a.state),
         Call(a, stage), UNCHANGED Aside
  PROVE  Calls \/ Ends("FAILED")
<1>1. run # NoRun /\ run.entered \in {"start", "completion"}
  BY RunPlaces DEF TypeOK, NoRun
<1>2. CASE FailRun(a)
  BY <1>1, <1>2, FailRunShape DEF Bare
<1>3. CASE ~ FailRun(a)
  <2>1. PICK b : b = [a EXCEPT !.calls = @ + 1]
    OBVIOUS
  <2>2. a.calls + 1 \in 0 .. MaxCalls
    <3>1. a.calls < MaxCalls /\ a.calls \in 0 .. MaxCalls /\ MaxCalls \in Nat
      BY <1>3, ControllerParameters DEF Call, Records
    <3> QED
      BY <3>1
  <2>3. /\ b \in Records /\ b.session = a.session /\ b.deadline = a.deadline
        /\ b.state = a.state /\ Bare(b)
    BY <2>1, <2>2 DEF Records, Bare
  <2>4. Becomes(b)
    BY <1>3, <2>1, <2>3 DEF Becomes, Put, Call
  <2>5. RunTo({"call"})
    BY <1>1, <1>3, RunPlaces DEF RunTo, Call
  <2> QED
    BY <1>3, <2>3, <2>4, <2>5 DEF Calls, Call
<1> QED
  BY <1>2, <1>3

LEMMA HeadFacts ==
  ASSUME TypeOK, Posture, run.at \in {"head", "call"}
  PROVE  /\ LiveNow /\ run # NoRun
         /\ att[current] \in Records /\ Bare(att[current])
         /\ att[current].pending = None
         /\ att[current].state \in States \ Terminal
  BY CurrentRecord DEF Posture, Bare, NoRun

(* The turns of the loop before validation. *)
LEMMA TurnShapes ==
  ASSUME TypeOK, Posture,
         Activate \/ Expire \/ Drive \/ StagesDone \/ CallStage \/ Resume
  PROVE  Turns \/ Calls \/ Ends("FAILED")
<1> DEFINE a == att[current]
<1>1. run.at = "head" /\ UNCHANGED Aside
  BY DEF Activate, Expire, Drive, StagesDone, CallStage, Resume, InTime, In, AtHead, Aside
<1>2. /\ LiveNow /\ run # NoRun /\ a \in Records /\ Bare(a) /\ a.pending = None
      /\ a.state \in States \ Terminal
  BY <1>1, HeadFacts
<1>3. CASE Activate \/ StagesDone \/ Resume
  <2>1. PICK t \in {"GENERATING", "VALIDATING"} :
          Follows(a.state, t) /\ Turn([a EXCEPT !.state = t])
    <3>1. CASE Activate
      <4>1. a.state = "DRAFT" /\ Turn([a EXCEPT !.state = "GENERATING"])
        BY <3>1 DEF Activate, In
      <4>2. Follows(a.state, "GENERATING")
        BY <4>1, TableOfLife DEF States
      <4> QED
        BY <4>1, <4>2
    <3>2. CASE StagesDone
      <4>1. a.state = "GENERATING" /\ Turn([a EXCEPT !.state = "VALIDATING"])
        BY <3>2 DEF StagesDone, InTime, In
      <4> QED
        BY <4>1, TableOfLife
    <3>3. CASE Resume
      <4>1. a.state = "REPAIRING" /\ Turn([a EXCEPT !.state = "VALIDATING"])
        BY <3>3 DEF Resume, InTime, In
      <4> QED
        BY <4>1, TableOfLife
    <3> QED
      BY <1>3, <3>1, <3>2, <3>3
  <2>2. PICK b : b = [a EXCEPT !.state = t]
    OBVIOUS
  <2>3. /\ b \in Records /\ b.session = a.session /\ b.deadline = a.deadline
        /\ b.state = t /\ Bare(b)
    BY <1>2, <2>2 DEF Records, States, Bare
  <2>4. t \in States \ Terminal
    BY DEF States, Terminal
  <2> QED
    BY <1>1, <1>2, <2>1, <2>2, <2>3, <2>4, TurnShape
<1>4. CASE Expire
  <2>1. a.state \in {"GENERATING", "VALIDATING", "REPAIRING"}
    BY <1>2, <1>4 DEF Expire, States, Terminal
  <2> QED
    BY <1>1, <1>2, <1>4, <2>1, FailRunShape DEF Expire
<1>5. CASE Drive
  BY <1>1, <1>2, <1>5, DriveShape DEF Drive, InTime, In
<1>6. CASE CallStage
  <2>1. /\ a.state = "GENERATING" /\ Missing(a) # {}
        /\ \E b \in Offered(a) \cup {a} : Call(b, NextStage(a))
    BY <1>6 DEF CallStage, InTime, In
  <2>2. PICK b \in Offered(a) \cup {a} : Call(b, NextStage(a))
    BY <2>1
  <2>3. /\ b \in Records /\ b.session = a.session /\ b.deadline = a.deadline
        /\ b.state = a.state /\ Bare(b)
    BY <1>2, <2>2, OfferedRecord DEF Bare
  <2>4. NextStage(a) \in Stages
    <3>1. Missing(a) \subseteq 1 .. 4 /\ Missing(a) # {}
      BY <2>1 DEF Missing, Stages
    <3>2. \E s \in Missing(a) : \A t \in Missing(a) : s <= t
      <4>1. CASE 1 \in Missing(a)
        BY <3>1, <4>1
      <4>2. CASE 1 \notin Missing(a) /\ 2 \in Missing(a)
        BY <3>1, <4>2
      <4>3. CASE 1 \notin Missing(a) /\ 2 \notin Missing(a) /\ 3 \in Missing(a)
        BY <3>1, <4>3
      <4>4. CASE Missing(a) = {4}
        BY <4>4
      <4> QED
        BY <3>1, <4>1, <4>2, <4>3, <4>4
    <3> QED
      BY <3>1, <3>2 DEF NextStage, Stages
  <2>5. Follows(att[current].state, b.state) /\ b.state \in {"GENERATING", "REPAIRING"}
    BY <2>1, <2>3, TableOfLife DEF States
  <2> QED
    BY <1>1, <1>2, <2>4, <2>5, <2>1, <2>2, <2>3, CallShape
<1> QED
  BY <1>3, <1>4, <1>5, <1>6

(* What a provider call comes back with. *)
LEMMA CallShapes ==
  ASSUME TypeOK, Posture, ContentReturns \/ CallFails \/ CallRaises \/ CallDeferred
  PROVE  Turns \/ Defers \/ Ends("FAILED")
<1> DEFINE a == att[current]
<1>1. run.at = "call" /\ UNCHANGED Aside
  BY DEF ContentReturns, CallFails, CallRaises, CallDeferred, InCall, Aside
<1>2. /\ LiveNow /\ run # NoRun /\ a \in Records /\ Bare(a) /\ a.pending = None
      /\ a.state \in {"GENERATING", "REPAIRING"}
  BY <1>1, HeadFacts DEF Posture
<1>3. run \in Runs /\ run.stage \in Stages \cup {Repair} /\ run.entered \in {"start", "completion"}
  BY <1>1, <1>2, RunPlaces DEF TypeOK
<1>4. CASE ContentReturns
  <2>1. PICK r \in Applied(a, run.stage) :
          Turn(IF run.stage = Repair THEN [r EXCEPT !.state = "VALIDATING"] ELSE r)
    BY <1>4 DEF ContentReturns
  <2>2. PICK b : b = IF run.stage = Repair THEN [r EXCEPT !.state = "VALIDATING"] ELSE r
    OBVIOUS
  <2>3. /\ r \in Records /\ r.session = a.session /\ r.deadline = a.deadline
        /\ r.pending = a.pending
        /\ r.state \in {a.state, "VALIDATING"}
    BY <1>2, <1>3, AppliedRecord
  <2>4. /\ b \in Records /\ b.session = a.session /\ b.deadline = a.deadline
        /\ b.state \in {a.state, "VALIDATING"} /\ Bare(b)
    BY <1>2, <2>2, <2>3 DEF Records, States, Bare
  <2>5. Follows(a.state, b.state) /\ b.state \in States \ Terminal
    BY <1>2, <2>4, TableOfLife DEF States, Terminal
  <2> QED
    BY <1>1, <1>2, <2>1, <2>2, <2>4, <2>5, TurnShape
<1>5. CASE CallFails
  BY <1>1, <1>2, <1>5, FailRunShape DEF CallFails
<1>6. CASE CallRaises
  <2>1. RunTo({"none", "return"})
    BY <1>6 DEF CallRaises, RunTo, Runs, NoRun
  <2> QED
    BY <1>1, <1>2, <1>6, <2>1, FailShape DEF CallRaises
<1>7. CASE CallDeferred
  <2>1. PICK p \in PendingIds \ used :
          /\ Put([a EXCEPT !.pending = p])
          /\ routes' = [routes EXCEPT ![p] = <<current, run.stage>>]
    BY <1>7 DEF CallDeferred
  <2>2. PICK b : b = [a EXCEPT !.pending = p]
    OBVIOUS
  <2>3. /\ b \in Records /\ b.session = a.session /\ b.deadline = a.deadline
        /\ b.state = a.state /\ b.report = a.report /\ b.pending = p
    BY <1>2, <2>2 DEF Records
  <2>4. Becomes(b)
    BY <2>1, <2>2, <2>3 DEF Becomes, Put, Follows
  <2>5. RunTo({"return"})
    BY <1>2, <1>7, RunGoes DEF CallDeferred
  <2>6. UNCHANGED slots
    BY <1>7 DEF CallDeferred
  <2> QED
    BY <1>1, <1>3, <2>1, <2>3, <2>4, <2>5, <2>6 DEF Defers
<1> QED
  BY <1>4, <1>5, <1>6, <1>7

LEMMA JudgedIsARecord ==
  ASSUME NEW r \in Records, NEW outcome \in Outcomes
  PROVE  [r EXCEPT !.report = outcome, !.checked = TRUE, !.before = None] \in Records
BY DEF Records

LEMMA RegeneratedIsARecord ==
  ASSUME NEW r \in Records, r.regenerations + 1 \in 0 .. MaxRegenerations
  PROVE  Regenerated(r) \in Records
<1>1. "GENERATING" \in States
  BY DEF States
<1> QED
  BY <1>1 DEF Regenerated, Records

(* The verdict on the draft, and the recovery it leads to. *)
LEMMA ValidateShape ==
  ASSUME TypeOK, Posture, Validate
  PROVE  Turns \/ Calls \/ Certifies \/ Ends("FAILED")
<1> DEFINE c == att[current]
<1>1. run.at = "head" /\ UNCHANGED Aside /\ c.state = "VALIDATING"
  BY DEF Validate, InTime, In, AtHead, Aside
<1>2. /\ LiveNow /\ run # NoRun /\ c \in Records /\ Bare(c) /\ c.pending = None
  BY <1>1, HeadFacts
<1>3. PICK outcome \in Verdicts(c), code \in Codes :
        LET a == [c EXCEPT !.report = outcome, !.checked = TRUE, !.before = None]
        IN  IF NoProgress(c, outcome, code) THEN FailRun(a) ELSE Recover(a, outcome, code)
  BY DEF Validate
<1>4. PICK a : a = [c EXCEPT !.report = outcome, !.checked = TRUE, !.before = None]
  OBVIOUS
<1>5. outcome \in Outcomes /\ (outcome = "VALID" => c.drafted)
  BY <1>3 DEF Verdicts, Outcomes, Failures
<1>6. /\ a \in Records /\ a.session = c.session /\ a.deadline = c.deadline
      /\ a.state = "VALIDATING" /\ a.report = outcome /\ a.checked /\ a.drafted = c.drafted
      /\ a.pending = None
  <2>1. a \in Records
    BY <1>2, <1>4, <1>5, JudgedIsARecord
  <2>2. /\ a.session = c.session /\ a.deadline = c.deadline /\ a.state = c.state
        /\ a.report = outcome /\ a.checked = TRUE /\ a.drafted = c.drafted
        /\ a.pending = c.pending
    BY <1>2, <1>4 DEF Records
  <2> QED
    BY <1>1, <1>2, <2>1, <2>2
<1>7. FailRun(a) => Ends("FAILED")
  BY <1>1, <1>2, <1>6, FailRunShape
<1>8. FailRun(a) \/ Recover(a, outcome, code)
  BY <1>3, <1>4
<1>9. CASE /\ outcome = "VALID"
           /\ Put(a)
           /\ GoTo(IF mode.hold THEN "return" ELSE "gate")
           /\ UNCHANGED <<slots, routes, used>>
  <2>1. Certified(a)
    BY <1>5, <1>6, <1>9 DEF Certified
  <2>2. Becomes(a)
    BY <1>1, <1>6, <1>9 DEF Becomes, Put, Follows
  <2>3. RunTo({"gate", "return"}) /\ (run'.at = "return" => mode.hold = TRUE)
    <3>1. mode.hold \in BOOLEAN
      BY ControllerParameters DEF TypeOK
    <3>2. CASE mode.hold = TRUE
      <4>1. GoTo("return")
        BY <1>9, <3>2
      <4>2. RunTo({"return"})
        BY <1>2, <4>1, RunGoes
      <4> QED
        BY <3>2, <4>2 DEF RunTo
    <3>3. CASE mode.hold = FALSE
      <4>1. GoTo("gate")
        BY <1>9, <3>3
      <4>2. RunTo({"gate"})
        BY <1>2, <4>1, RunGoes
      <4> QED
        BY <4>2 DEF RunTo
    <3> QED
      BY <3>1, <3>2, <3>3
  <2> QED
    BY <1>1, <1>6, <1>9, <2>1, <2>2, <2>3 DEF Certifies
<1>10. CASE /\ outcome = "REPAIR"
            /\ a.repairs < MaxRepairs
            /\ LET b == [RepairPass(a) EXCEPT !.before = code]
               IN  IF mode.driven THEN DriveRepair(b)
                                  ELSE Call([b EXCEPT !.state = "REPAIRING"], Repair)
  <2>1. PICK b : b = [RepairPass(a) EXCEPT !.before = code]
    OBVIOUS
  <2>2. a.repairs + 1 \in 0 .. MaxRepairs
    <3>1. a.repairs \in 0 .. MaxRepairs /\ MaxRepairs \in Nat /\ a.repairs < MaxRepairs
      BY <1>6, <1>10, ControllerParameters DEF Records
    <3> QED
      BY <3>1
  <2>3. PICK q : q = RepairPass(a)
    OBVIOUS
  <2>4. /\ q \in Records /\ q.session = a.session /\ q.deadline = a.deadline
        /\ q.state = a.state /\ q.report = a.report /\ q.pending = a.pending
    BY <1>6, <2>2, <2>3 DEF RepairPass, Records
  <2>5. /\ b \in Records /\ b.session = a.session /\ b.deadline = a.deadline
        /\ b.state = a.state /\ b.report = a.report /\ b.pending = a.pending
    BY <2>1, <2>3, <2>4 DEF Records
  <2>6. CASE mode.driven
    <3>1. PICK plan \in Plans : DriveFrom([b EXCEPT !.plan = plan])
      BY <1>10, <2>1, <2>6 DEF DriveRepair
    <3>2. PICK d : d = [b EXCEPT !.plan = plan]
      OBVIOUS
    <3>3. /\ d \in Records /\ d.session = a.session /\ d.deadline = a.deadline
          /\ d.report = a.report /\ d.pending = a.pending
      BY <2>5, <3>2 DEF Records
    <3>4. Bare(d)
      BY <1>6, <1>10, <3>3 DEF Bare
    <3> QED
      BY <1>1, <1>2, <1>6, <3>1, <3>2, <3>3, <3>4, DriveShape
  <2>7. CASE ~ mode.driven
    <3>1. Call([b EXCEPT !.state = "REPAIRING"], Repair)
      BY <1>10, <2>1, <2>7
    <3>2. PICK d : d = [b EXCEPT !.state = "REPAIRING"]
      OBVIOUS
    <3>3. /\ d \in Records /\ d.session = a.session /\ d.deadline = a.deadline
          /\ d.report = a.report /\ d.pending = a.pending /\ d.state = "REPAIRING"
      BY <2>5, <3>2 DEF Records, States
    <3>4. Bare(d)
      BY <1>6, <1>10, <3>3 DEF Bare
    <3>5. Follows(c.state, d.state)
      BY <1>1, <3>3, TableOfLife
    <3> QED
      BY <1>1, <1>2, <1>6, <3>1, <3>2, <3>3, <3>4, <3>5, CallShape
  <2> QED
    BY <2>6, <2>7
<1>11. CASE outcome = "REGENERATE" /\ a.regenerations < MaxRegenerations /\ Turn(Regenerated(a))
  <2>1. a.regenerations + 1 \in 0 .. MaxRegenerations
    <3>1. a.regenerations \in 0 .. MaxRegenerations /\ MaxRegenerations \in Nat
      BY <1>6, ControllerParameters DEF Records
    <3> QED
      BY <1>11, <3>1
  <2>2. PICK b : b = Regenerated(a)
    OBVIOUS
  <2>3. /\ b \in Records /\ b.session = a.session /\ b.deadline = a.deadline
        /\ b.state = "GENERATING" /\ b.report = None /\ b.pending = a.pending
    <3>1. b \in Records
      BY <1>6, <2>1, <2>2, RegeneratedIsARecord
    <3>2. /\ b.session = a.session /\ b.deadline = a.deadline
          /\ b.state = "GENERATING" /\ b.report = None /\ b.pending = a.pending
      BY <1>6, <2>2 DEF Regenerated, Records
    <3> QED
      BY <3>1, <3>2
  <2>4. Bare(b)
    BY <1>6, <2>3, NoneIsDistinct DEF Bare, Outcomes
  <2>5. Follows(c.state, b.state) /\ b.state \in States \ Terminal
    BY <1>1, <2>3, TableOfLife DEF States, Terminal
  <2> QED
    BY <1>1, <1>2, <1>6, <1>11, <2>2, <2>3, <2>4, <2>5, TurnShape
<1> QED
  BY <1>7, <1>8, <1>9, <1>10, <1>11 DEF Recover

(* A certified draft that passes the gate is published, unless it is too late. *)
LEMMA GateShape ==
  ASSUME TypeOK, Posture, RoutesAreLive, PublishInRun \/ PublishHeld
  PROVE  LiveNow /\ (Ends("FAILED") \/ Ends("PUBLISHED"))
<1> DEFINE c == att[current]
<1>1. UNCHANGED Aside /\ Publishable /\ Gate /\ LiveNow
  BY DEF PublishInRun, PublishHeld, Aside, Publishable
<1>2. c \in Records /\ c.state = "VALIDATING" /\ c.report = "VALID"
  BY <1>1, CurrentRecord DEF Publishable
<1>3. Certified(c)
  <2>1. run.at \in {"gate", "none"}
    BY DEF PublishInRun, PublishHeld, NoRun
  <2> QED
    BY <1>1, <1>2, <2>1 DEF Posture, Waits
<1>4. RunTo({"none", "return"})
  <2>1. CASE PublishInRun
    <3>1. run # NoRun
      BY <2>1 DEF PublishInRun, NoRun
    <3>2. RunTo({"return"})
      BY <2>1, <3>1, RunGoes DEF PublishInRun
    <3> QED
      BY <3>2 DEF RunTo
  <2>2. CASE PublishHeld
    BY <2>2 DEF PublishHeld, RunTo, NoRun, TypeOK
  <2> QED
    BY <2>1, <2>2
<1>5. CASE Expired(current)
  BY <1>1, <1>2, <1>4, <1>5, FailShape DEF Gate
<1>6. CASE ~ Expired(current)
  <2>1. PICK b : b = [c EXCEPT !.state = "PUBLISHED", !.released = TRUE]
    OBVIOUS
  <2>2. /\ b \in Records /\ b.session = c.session /\ b.deadline = c.deadline
        /\ b.state = "PUBLISHED" /\ b.report = "VALID" /\ b.checked /\ b.drafted
    <3>1. b \in Records
      BY <1>2, <2>1 DEF Records, States
    <3>2. /\ b.session = c.session /\ b.deadline = c.deadline /\ b.state = "PUBLISHED"
          /\ b.report = c.report /\ b.checked = c.checked /\ b.drafted = c.drafted
      BY <1>2, <2>1 DEF Records
    <3>3. c.checked /\ c.drafted
      BY <1>3 DEF Certified
    <3> QED
      BY <1>2, <3>1, <3>2, <3>3
  <2>3. Publish
    BY <1>1, <1>6 DEF Gate
  <2>4. Becomes(b)
    BY <1>2, <2>1, <2>2, <2>3, TableOfLife DEF Becomes, Publish, Put
  <2>5. slots' = GiveBack(slots, c.session) /\ RouteGone
    BY <1>3, <2>3 DEF Publish, Certified, RouteGone
  <2> QED
    BY <1>1, <1>4, <1>6, <2>2, <2>4, <2>5 DEF Ends
<1> QED
  BY <1>1, <1>5, <1>6

(* A deferred answer resumes the attempt that waits for it, or ends it. *)
LEMMA DeliverShape ==
  ASSUME TypeOK, OneIsLive, Posture, RoutesAreLive, NEW p \in PendingIds, Deliver(p)
  PROVE  LiveNow /\ (Turns \/ Ends("FAILED"))
<1> DEFINE c == att[current]
<1>1. /\ run = NoRun /\ run.at = "none" /\ routes[p] # None /\ UNCHANGED Aside
      /\ routes[p][1] = current /\ LiveNow /\ c.pending = p
  BY DEF Deliver, NoRun, RoutesAreLive, Aside
<1>2. /\ c \in Records /\ current \in Attempts /\ routes[p][2] \in Stages \cup {Repair}
  BY <1>1, CurrentRecord DEF TypeOK
<1>3. c.pending # None /\ Waits(c)
  BY <1>1, NoneIsDistinct DEF Posture, Certified
<1>4. Accepts(p)
  BY <1>1, <1>3 DEF Accepts, Waits, OneIsLive, LiveNow
<1>5. CASE Fail(c) /\ UNCHANGED run
  <2>1. RunTo({"none", "return"})
    BY <1>1, <1>5 DEF RunTo, TypeOK
  <2> QED
    BY <1>1, <1>2, <1>3, <1>5, <2>1, FailShape DEF Waits
<1>6. CASE ~ (Fail(c) /\ UNCHANGED run)
  <2>1. PICK b \in Applied([c EXCEPT !.pending = None], routes[p][2]) :
          /\ Put(b)
          /\ routes' = [routes EXCEPT ![p] = None]
          /\ run' = [at |-> "head", entered |-> "completion"]
          /\ UNCHANGED slots
    BY <1>4, <1>6 DEF Deliver
  <2>2. PICK a : a = [c EXCEPT !.pending = None]
    OBVIOUS
  <2>3. /\ a \in Records /\ a.session = c.session /\ a.deadline = c.deadline
        /\ a.pending = None /\ a.state = c.state
    BY <1>2, <2>2 DEF Records
  <2>4. /\ b \in Records /\ b.session = a.session /\ b.deadline = a.deadline
        /\ b.pending = a.pending
        /\ b.state \in {a.state, "VALIDATING"}
    BY <1>2, <2>1, <2>2, <2>3, AppliedRecord
  <2>5. Bare(b) /\ b.state \in States \ Terminal /\ Follows(c.state, b.state)
    BY <1>3, <2>3, <2>4, TableOfLife DEF Bare, Waits, States, Terminal
  <2>6. Becomes(b)
    BY <2>1, <2>3, <2>4, <2>5 DEF Becomes, Put
  <2>7. RunTo({"head"})
    BY <2>1, RunPlaces DEF RunTo
  <2>8. RouteGone
    BY <1>1, <1>3, <2>1 DEF RouteGone
  <2> QED
    BY <1>1, <2>1, <2>4, <2>5, <2>6, <2>7, <2>8 DEF Turns
<1> QED
  BY <1>5, <1>6

(* Whatever step of a run, of a completion or of a held publication it is. *)
LEMMA StepShape ==
  ASSUME TypeOK, OneIsLive, Posture, RoutesAreLive,
         (RunStep /\ ~ Return) \/ PublishHeld \/ (\E p \in PendingIds : Deliver(p))
  PROVE  Shaped
<1>1. CASE Activate \/ Expire \/ Drive \/ StagesDone \/ CallStage \/ Resume
  <2>1. run.at \in {"head", "call"}
    BY <1>1 DEF Activate, Expire, Drive, StagesDone, CallStage, Resume, InTime, In, AtHead
  <2> QED
    BY <1>1, <2>1, HeadFacts, TurnShapes DEF Shaped
<1>2. CASE ContentReturns \/ CallFails \/ CallRaises \/ CallDeferred
  <2>1. run.at \in {"head", "call"}
    BY <1>2 DEF ContentReturns, CallFails, CallRaises, CallDeferred, InCall
  <2> QED
    BY <1>2, <2>1, HeadFacts, CallShapes DEF Shaped
<1>3. CASE Validate
  <2>1. run.at \in {"head", "call"}
    BY <1>3 DEF Validate, InTime, In, AtHead
  <2> QED
    BY <1>3, <2>1, HeadFacts, ValidateShape DEF Shaped
<1>4. CASE PublishInRun \/ PublishHeld
  BY <1>4, GateShape DEF Shaped
<1>5. CASE \E p \in PendingIds : Deliver(p)
  BY <1>5, DeliverShape DEF Shaped
<1> QED
  BY <1>3, <1>4, <1>5, <1>1, <1>2 DEF RunStep

--------------------------------------------------------------------------------
(* The invariant, shape by shape *)

LEMMA BecomesFacts ==
  ASSUME TypeOK, OneIsLive, LiveNow, NEW b \in Records, Becomes(b), UNCHANGED Aside
  PROVE  /\ att' \in [Attempts -> Records \cup {None}]
         /\ att'[current'] = b /\ current' = current
         /\ \A n \in Attempts : n # current => att'[n] = att[n]
         /\ LiveNow' <=> b.state \notin Terminal
         /\ OneIsLive'
<1>1. current \in Attempts /\ att[current] \in Records /\ UNCHANGED <<started, retained, current>>
  BY CurrentRecord DEF Aside
<1>2. /\ att' \in [Attempts -> Records \cup {None}] /\ att'[current] = b
      /\ \A n \in Attempts : n # current => att'[n] = att[n]
  BY <1>1 DEF TypeOK, Becomes
<1>3. b # None /\ att[current] # None
  BY <1>1, NoneIsDistinct
<1>4. LiveNow' <=> b.state \notin Terminal
  BY <1>1, <1>2, <1>3 DEF LiveNow, Live, Exists
<1>5. OneIsLive'
  BY <1>1, <1>2, <1>3 DEF OneIsLive, Live, Exists
<1> QED
  BY <1>1, <1>2, <1>4, <1>5

LEMMA GiveBackFacts ==
  ASSUME TypeOK, SlotsFollow, LiveNow
  PROVE  /\ GiveBack(slots, att[current].session) \in [Sessions -> 0 .. SessionLimit]
         /\ \A s \in Sessions : GiveBack(slots, att[current].session)[s] = 0
<1>1. att[current].session \in Sessions
  BY CurrentRecord DEF Records
<1>2. slots \in [Sessions -> 0 .. SessionLimit] /\ 0 \in 0 .. SessionLimit
  BY ControllerParameters DEF TypeOK
<1>3. /\ slots[att[current].session] = 1
      /\ \A s \in Sessions : s # att[current].session => slots[s] = 0
  BY <1>1 DEF SlotsFollow
<1> QED
  BY <1>1, <1>2, <1>3 DEF GiveBack

LEMMA RoutesGo ==
  ASSUME TypeOK, RoutesAreLive, LiveNow, RouteGone
  PROVE  /\ routes' \in [PendingIds -> (Attempts \X (Stages \cup {Repair})) \cup {None}]
         /\ \A p \in PendingIds : routes'[p] = None
<1>1. att[current].pending \in PendingIds \cup {None}
  BY CurrentRecord DEF Records
<1>2. \A p \in PendingIds : routes[p] # None => att[current].pending = p
  BY DEF RoutesAreLive
<1> QED
  BY <1>1, <1>2, NoneIsDistinct DEF TypeOK, RouteGone

LEMMA UsedType ==
  ASSUME TypeOK, Next
  PROVE  used' \subseteq PendingIds
<1>1. UNCHANGED used \/ \E p \in PendingIds \ used : used' = used \cup {p}
  <2>1. CASE RunStep
    <3>1. CASE Validate
      <4>1. PICK outcome \in Verdicts(att[current]), code \in Codes :
              LET a == [att[current] EXCEPT !.report = outcome, !.checked = TRUE, !.before = None]
              IN  IF NoProgress(att[current], outcome, code) THEN FailRun(a)
                                                             ELSE Recover(a, outcome, code)
        BY <3>1 DEF Validate
      <4>2. \A a : FailRun(a) => UNCHANGED used
        BY DEF FailRun
      <4>3. \A a : Turn(a) => UNCHANGED used
        BY DEF Turn
      <4>4. \A a : DriveRepair(a) => UNCHANGED used
        BY <4>2, <4>3 DEF DriveRepair, DriveFrom
      <4>5. \A a, stage : Call(a, stage) => UNCHANGED used
        BY <4>2 DEF Call
      <4>6. \A a : Recover(a, outcome, code) => UNCHANGED used
        BY <4>2, <4>3, <4>4, <4>5 DEF Recover
      <4> QED
        BY <4>1, <4>2, <4>6
    <3>2. CASE Drive \/ CallStage
      BY <3>2 DEF Drive, CallStage, DriveFrom, Call, FailRun, Turn
    <3>3. CASE RunStep /\ ~ (Validate \/ Drive \/ CallStage)
      BY <3>3 DEF RunStep, Activate, Expire, StagesDone, ContentReturns, CallFails, CallRaises,
                  CallDeferred, Resume, PublishInRun, Return, FailRun, Turn
    <3> QED
      BY <2>1, <3>1, <3>2, <3>3
  <2> QED
    BY <2>1 DEF Next, Begin, PublishHeld, Deliver, Tick
<1> QED
  BY <1>1 DEF TypeOK

LEMMA TurnsInv ==
  ASSUME ControllerInv, LiveNow, Turns, used' \subseteq PendingIds
  PROVE  ControllerInv'
<1>1. PICK b \in Records : Becomes(b) /\ b.state \in States \ Terminal /\ Bare(b)
  BY DEF Turns
<1>2. /\ RouteGone /\ run' \in Runs /\ run'.at = "head"
      /\ UNCHANGED <<mode, now, started, retained, current, slots>> /\ UNCHANGED Aside
  BY DEF Turns, RunTo, Aside
<1>3. /\ att' \in [Attempts -> Records \cup {None}]
      /\ att'[current'] = b /\ current' = current
      /\ \A n \in Attempts : n # current => att'[n] = att[n]
      /\ LiveNow' /\ OneIsLive' /\ b.session = att[current].session
  BY <1>1, <1>2, BecomesFacts DEF ControllerInv, Becomes
<1>4. /\ routes' \in [PendingIds -> (Attempts \X (Stages \cup {Repair})) \cup {None}]
      /\ \A p \in PendingIds : routes'[p] = None
  BY <1>2, RoutesGo DEF ControllerInv
<1>5. TypeOK'
  BY <1>2, <1>3, <1>4 DEF ControllerInv, TypeOK
<1>6. Posture' /\ RoutesAreLive' /\ SlotsFollow'
  BY <1>3, <1>4, <1>1, <1>2 DEF ControllerInv, Posture, Bare, RoutesAreLive, SlotsFollow
<1>7. PublishedIsChecked'
  BY <1>1, <1>2, <1>3 DEF ControllerInv, PublishedIsChecked, Exists, Terminal
<1> QED
  BY <1>3, <1>5, <1>6, <1>7 DEF ControllerInv

LEMMA CallsInv ==
  ASSUME ControllerInv, LiveNow, Calls, used' \subseteq PendingIds
  PROVE  ControllerInv'
<1>1. PICK b \in Records : Becomes(b) /\ b.state \in {"GENERATING", "REPAIRING"} /\ Bare(b)
  BY DEF Calls
<1>2. /\ run' \in Runs /\ run'.at = "call" /\ run.at = "head" /\ UNCHANGED <<slots, routes>>
      /\ UNCHANGED <<mode, now, started, retained, current>> /\ UNCHANGED Aside
  BY DEF Calls, RunTo, Aside
<1>3. /\ att' \in [Attempts -> Records \cup {None}]
      /\ att'[current'] = b /\ current' = current /\ current \in Attempts
      /\ \A n \in Attempts : n # current => att'[n] = att[n]
      /\ (LiveNow' <=> b.state \notin Terminal) /\ OneIsLive' /\ b.session = att[current].session
  BY <1>1, <1>2, BecomesFacts, CurrentRecord DEF ControllerInv, Becomes
<1>4. TypeOK'
  BY <1>2, <1>3 DEF ControllerInv, TypeOK
<1>5. Posture' /\ RoutesAreLive' /\ SlotsFollow'
  BY <1>1, <1>2, <1>3 DEF ControllerInv, Posture, Bare, RoutesAreLive, SlotsFollow, Terminal
<1>6. PublishedIsChecked'
  BY <1>1, <1>2, <1>3 DEF ControllerInv, PublishedIsChecked, Exists
<1> QED
  BY <1>3, <1>4, <1>5, <1>6 DEF ControllerInv

LEMMA CertifiesInv ==
  ASSUME ControllerInv, LiveNow, Certifies, used' \subseteq PendingIds
  PROVE  ControllerInv'
<1>1. PICK b \in Records : Becomes(b) /\ Certified(b)
  BY DEF Certifies
<1>2. /\ run' \in Runs /\ run.at = "head" /\ UNCHANGED <<slots, routes>>
      /\ run'.at \in {"gate", "return"} /\ (run'.at = "return" => mode.hold = TRUE)
      /\ UNCHANGED <<mode, now, started, retained, current>> /\ UNCHANGED Aside
  BY DEF Certifies, RunTo, Aside
<1>3. /\ att' \in [Attempts -> Records \cup {None}]
      /\ att'[current'] = b /\ current' = current /\ current \in Attempts
      /\ \A n \in Attempts : n # current => att'[n] = att[n]
      /\ (LiveNow' <=> b.state \notin Terminal) /\ OneIsLive' /\ b.session = att[current].session
  BY <1>1, <1>2, BecomesFacts, CurrentRecord DEF ControllerInv, Becomes
<1>4. TypeOK'
  BY <1>2, <1>3 DEF ControllerInv, TypeOK
<1>5. Posture' /\ RoutesAreLive' /\ SlotsFollow'
  BY <1>1, <1>2, <1>3 DEF ControllerInv, Posture, Certified, Bare, RoutesAreLive, SlotsFollow, Terminal
<1>6. PublishedIsChecked'
  BY <1>1, <1>2, <1>3 DEF ControllerInv, PublishedIsChecked, Exists, Certified
<1> QED
  BY <1>3, <1>4, <1>5, <1>6 DEF ControllerInv

LEMMA DefersInv ==
  ASSUME ControllerInv, LiveNow, Defers, used' \subseteq PendingIds
  PROVE  ControllerInv'
<1>1. PICK b \in Records : 
        /\ Becomes(b) /\ b.state = att[current].state
        /\ b.pending \in PendingIds
        /\ \E stage \in Stages \cup {Repair} :
             routes' = [routes EXCEPT ![b.pending] = <<current, stage>>]
  BY DEF Defers
<1>2. /\ run' \in Runs /\ run'.at = "return" /\ run.at = "call" /\ UNCHANGED slots
      /\ UNCHANGED <<mode, now, started, retained, current>> /\ UNCHANGED Aside
  BY DEF Defers, RunTo, Aside
<1>3. /\ att' \in [Attempts -> Records \cup {None}]
      /\ att'[current'] = b /\ current' = current /\ current \in Attempts
      /\ \A n \in Attempts : n # current => att'[n] = att[n]
      /\ (LiveNow' <=> b.state \notin Terminal) /\ OneIsLive' /\ b.session = att[current].session
  BY <1>1, <1>2, BecomesFacts, CurrentRecord DEF ControllerInv, Becomes
<1>4. PICK stage \in Stages \cup {Repair} : routes' = [routes EXCEPT ![b.pending] = <<current, stage>>]
  BY <1>1
<1>5. LiveNow' /\ b.state \in {"GENERATING", "REPAIRING"}
  BY <1>1, <1>2, <1>3 DEF ControllerInv, Posture, Bare, Terminal
<1>6. \A p \in PendingIds : routes[p] = None
  BY <1>2, NoneIsDistinct DEF ControllerInv, RoutesAreLive, Posture, Bare
<1>7. /\ routes' \in [PendingIds -> (Attempts \X (Stages \cup {Repair})) \cup {None}]
      /\ routes'[b.pending] = <<current, stage>>
      /\ \A p \in PendingIds : p # b.pending => routes'[p] = None
  BY <1>1, <1>3, <1>4, <1>6 DEF ControllerInv, TypeOK
<1>8. TypeOK'
  BY <1>2, <1>3, <1>7 DEF ControllerInv, TypeOK
<1>9. RoutesAreLive'
  BY <1>2, <1>3, <1>5, <1>7 DEF RoutesAreLive
<1>10. Posture'
  <2>1. <<current, stage>> # None /\ b.pending # None
    BY <1>1, <1>3, NoneIsDistinct
  <2> QED
    BY <1>1, <1>2, <1>3, <1>5, <1>7, <2>1 DEF Posture, Waits
<1>11. SlotsFollow'
  BY <1>2, <1>3, <1>5 DEF ControllerInv, SlotsFollow
<1>12. PublishedIsChecked'
  BY <1>1, <1>2, <1>3, <1>5 DEF ControllerInv, PublishedIsChecked, Exists
<1> QED
  BY <1>3, <1>8, <1>9, <1>10, <1>11, <1>12 DEF ControllerInv

LEMMA EndsInv ==
  ASSUME ControllerInv, LiveNow, NEW state \in Terminal, Ends(state), used' \subseteq PendingIds
  PROVE  ControllerInv'
<1>1. PICK b \in Records : 
        /\ Becomes(b) /\ b.state = state
        /\ state = "PUBLISHED" => b.report = "VALID" /\ b.checked /\ b.drafted
  BY DEF Ends
<1>2. /\ run' \in Runs /\ run'.at \in {"none", "return"} /\ RouteGone
      /\ slots' = GiveBack(slots, att[current].session)
      /\ UNCHANGED <<mode, now, started, retained, current>> /\ UNCHANGED Aside
  BY DEF Ends, RunTo, Aside
<1>3. /\ att' \in [Attempts -> Records \cup {None}]
      /\ att'[current'] = b /\ current' = current /\ current \in Attempts
      /\ \A n \in Attempts : n # current => att'[n] = att[n]
      /\ (LiveNow' <=> b.state \notin Terminal) /\ OneIsLive' /\ b.session = att[current].session
  BY <1>1, <1>2, BecomesFacts, CurrentRecord DEF ControllerInv, Becomes
<1>4. /\ routes' \in [PendingIds -> (Attempts \X (Stages \cup {Repair})) \cup {None}]
      /\ \A p \in PendingIds : routes'[p] = None
  BY <1>2, RoutesGo DEF ControllerInv
<1>5. slots' \in [Sessions -> 0 .. SessionLimit] /\ \A s \in Sessions : slots'[s] = 0
  BY <1>2, GiveBackFacts DEF ControllerInv
<1>6. ~ LiveNow'
  BY <1>1, <1>3
<1>7. TypeOK'
  BY <1>2, <1>3, <1>4, <1>5 DEF ControllerInv, TypeOK
<1>8. Posture' /\ RoutesAreLive' /\ SlotsFollow'
  BY <1>2, <1>4, <1>5, <1>6 DEF Posture, RoutesAreLive, SlotsFollow
<1>9. PublishedIsChecked'
  BY <1>1, <1>2, <1>3 DEF ControllerInv, PublishedIsChecked, Exists
<1> QED
  BY <1>3, <1>7, <1>8, <1>9 DEF ControllerInv

LEMMA BeginFacts ==
  ASSUME ControllerInv, NEW s \in Sessions, Begin(s)
  PROVE  /\ started + 1 \in Attempts /\ started' = started + 1 /\ current' = started + 1
         /\ ~ Exists(started + 1) /\ current # started + 1
         /\ att' \in [Attempts -> Records \cup {None}]
         /\ att'[started + 1] = Fresh(s)
         /\ LiveNow => att'[current] = Failed(att[current])
         /\ \A n \in Attempts :
              n # started + 1 /\ (n = current => ~ LiveNow) => att'[n] = att[n]
         /\ slots' \in [Sessions -> 0 .. SessionLimit]
         /\ \A t \in Sessions : slots'[t] = IF t = s THEN 1 ELSE 0
         /\ routes' \in [PendingIds -> (Attempts \X (Stages \cup {Repair})) \cup {None}]
         /\ \A p \in PendingIds : routes'[p] = None
         /\ run' \in Runs /\ run'.at = "head"
         /\ retained' = retained \cup {started + 1}
         /\ UNCHANGED <<mode, now, used>>
<1> DEFINE n        == started + 1
           reserved == [slots EXCEPT ![s] = @ + 1]
<1>1. /\ started' = n /\ current' = n /\ started < MaxAttempts /\ slots[s] < SessionLimit
      /\ run = NoRun /\ run' = [at |-> "head", entered |-> "start"]
      /\ retained' = retained \cup {n}
      /\ UNCHANGED <<mode, now, used>>
  BY DEF Begin
<1>2. n \in Attempts /\ started \in Nat /\ current # n
  BY <1>1, ControllerParameters, NoneIsDistinct DEF ControllerInv, TypeOK, Attempts
<1>3. ~ Exists(n) /\ ~ (n <= started)
  BY <1>2 DEF ControllerInv, OneIsLive
<1>4. Fresh(s) \in Records
  BY FreshRecord DEF ControllerInv
<1>5. run' \in Runs /\ run'.at = "head"
  BY <1>1, RunPlaces
<1>6. slots \in [Sessions -> 0 .. SessionLimit] /\ SessionLimit \in Nat \ {0}
  BY ControllerParameters DEF ControllerInv, TypeOK
<1>7. reserved \in [Sessions -> 0 .. SessionLimit]
      /\ reserved[s] = slots[s] + 1 /\ \A t \in Sessions : t # s => reserved[t] = slots[t]
  BY <1>1, <1>6
<1>8. CASE LiveNow
  <2>1. /\ att' = [att EXCEPT ![current] = Failed(@), ![n] = Fresh(s)]
        /\ slots' = GiveBack(reserved, att[current].session)
        /\ RouteGone
    BY <1>8 DEF Begin, RouteGone
  <2>2. att[current] \in Records /\ current \in Attempts /\ att[current].session \in Sessions
    BY <1>8, CurrentRecord DEF ControllerInv, Records
  <2>3. Failed(att[current]) \in Records
    BY <2>2, FailedRecord
  <2>4. /\ att' \in [Attempts -> Records \cup {None}]
        /\ att'[n] = Fresh(s) /\ att'[current] = Failed(att[current])
        /\ \A m \in Attempts : m # n /\ m # current => att'[m] = att[m]
    BY <1>2, <1>4, <2>1, <2>2, <2>3 DEF ControllerInv, TypeOK
  <2>5. slots[att[current].session] = 1
        /\ \A t \in Sessions : t # att[current].session => slots[t] = 0
    BY <1>8, <2>2 DEF ControllerInv, SlotsFollow
  <2>6. /\ slots' \in [Sessions -> 0 .. SessionLimit]
        /\ \A t \in Sessions : slots'[t] = IF t = s THEN 1 ELSE 0
    <3>1. reserved[att[current].session] > 0
          /\ reserved[att[current].session] - 1 \in 0 .. SessionLimit
      BY <1>6, <1>7, <2>2, <2>5
    <3>2. slots' = [reserved EXCEPT ![att[current].session] = @ - 1]
      BY <1>7, <2>1, <2>2, <3>1 DEF GiveBack
    <3>3. slots' \in [Sessions -> 0 .. SessionLimit]
      BY <1>7, <2>2, <3>1, <3>2
    <3>4. CASE att[current].session = s
      BY <1>7, <2>2, <2>5, <3>2, <3>4
    <3>5. CASE att[current].session # s
      <4>1. PICK c \in Sessions : c = att[current].session
        BY <2>2
      <4>2. /\ reserved[s] = 1 /\ reserved[c] = 1
            /\ \A t \in Sessions : t # s /\ t # c => reserved[t] = 0
        BY <1>7, <2>5, <3>5, <4>1
      <4>3. /\ slots'[c] = 0 /\ slots'[s] = 1
            /\ \A t \in Sessions : t # s /\ t # c => slots'[t] = 0
        BY <1>7, <3>2, <3>5, <4>1, <4>2
      <4> QED
        BY <3>3, <3>5, <4>1, <4>3
    <3> QED
      BY <3>3, <3>4, <3>5
  <2>7. /\ routes' \in [PendingIds -> (Attempts \X (Stages \cup {Repair})) \cup {None}]
        /\ \A p \in PendingIds : routes'[p] = None
    BY <1>8, <2>1, RoutesGo DEF ControllerInv
  <2> QED
    BY <1>1, <1>2, <1>3, <1>5, <1>8, <2>4, <2>6, <2>7
<1>9. CASE ~ LiveNow
  <2>1. att' = [att EXCEPT ![n] = Fresh(s)] /\ slots' = reserved /\ routes' = routes
    BY <1>9 DEF Begin
  <2>2. /\ att' \in [Attempts -> Records \cup {None}]
        /\ att'[n] = Fresh(s)
        /\ \A m \in Attempts : m # n => att'[m] = att[m]
    BY <1>2, <1>4, <2>1 DEF ControllerInv, TypeOK
  <2>3. \A t \in Sessions : slots[t] = 0
    BY <1>9 DEF ControllerInv, SlotsFollow
  <2>4. \A t \in Sessions : slots'[t] = IF t = s THEN 1 ELSE 0
    BY <1>7, <2>1, <2>3
  <2>5. \A p \in PendingIds : routes'[p] = None
    BY <1>9, <2>1 DEF ControllerInv, RoutesAreLive
  <2>6. routes' \in [PendingIds -> (Attempts \X (Stages \cup {Repair})) \cup {None}]
    BY <2>1 DEF ControllerInv, TypeOK
  <2> QED
    BY <1>1, <1>2, <1>3, <1>5, <1>7, <1>9, <2>1, <2>2, <2>4, <2>5, <2>6
<1> QED
  BY <1>8, <1>9

LEMMA BeginInv ==
  ASSUME ControllerInv, NEW s \in Sessions, Begin(s)
  PROVE  ControllerInv'
<1>0. PICK n : n = started + 1
  OBVIOUS
<1>1. /\ n \in Attempts /\ started' = n /\ current' = n
      /\ ~ Exists(n) /\ current # n
      /\ att' \in [Attempts -> Records \cup {None}]
      /\ att'[n] = Fresh(s)
      /\ LiveNow => att'[current] = Failed(att[current])
      /\ \A m \in Attempts : m # n /\ (m = current => ~ LiveNow) => att'[m] = att[m]
      /\ slots' \in [Sessions -> 0 .. SessionLimit]
      /\ \A t \in Sessions : slots'[t] = IF t = s THEN 1 ELSE 0
      /\ routes' \in [PendingIds -> (Attempts \X (Stages \cup {Repair})) \cup {None}]
      /\ \A p \in PendingIds : routes'[p] = None
      /\ run' \in Runs /\ run'.at = "head"
      /\ retained' = retained \cup {n}
      /\ UNCHANGED <<mode, now, used>>
  BY <1>0, BeginFacts
<1>2. /\ Fresh(s) \in Records /\ Fresh(s).state = "DRAFT" /\ Fresh(s).pending = None
      /\ Fresh(s).session = s /\ Fresh(s).report = None
  BY FreshRecord DEF ControllerInv
<1>3. LiveNow => /\ current \in Attempts /\ att[current] \in Records
                 /\ Failed(att[current]) \in Records
                 /\ Failed(att[current]).state = "FAILED"
  BY CurrentRecord, FailedRecord DEF ControllerInv
<1>4. None \notin Records /\ None \notin Attempts /\ None \notin Outcomes
  BY NoneIsDistinct
<1>5. started \in Nat /\ MaxAttempts \in Nat /\ n = started + 1 /\ n <= MaxAttempts
  BY <1>0, <1>1, ControllerParameters DEF ControllerInv, TypeOK, Attempts
<1>6. TypeOK'
  <2>1. retained' \subseteq 1 .. started' /\ current' \in 1 .. started' /\ started' \in 0 .. MaxAttempts
    BY <1>1, <1>5 DEF ControllerInv, TypeOK
  <2> QED
    BY <1>1, <2>1 DEF ControllerInv, TypeOK
<1>7. \A m \in Attempts : Live(m)' <=> m = n
  <2>1. Live(n)'
    BY <1>1, <1>2, <1>4 DEF Live, Exists, Terminal
  <2>2. ASSUME NEW m \in Attempts, m # n PROVE ~ Live(m)'
    <3>1. CASE m = current /\ LiveNow
      BY <1>1, <1>3, <3>1 DEF Live, Terminal
    <3>2. CASE ~ (m = current /\ LiveNow)
      <4>1. att'[m] = att[m]
        BY <1>1, <2>2, <3>2
      <4>2. ~ Live(m)
        BY <1>4, <3>2 DEF ControllerInv, OneIsLive, LiveNow
      <4> QED
        BY <4>1, <4>2 DEF Live, Exists
    <3> QED
      BY <3>1, <3>2
  <2> QED
    BY <2>1, <2>2
<1>8. OneIsLive'
  <2>1. \A m \in Attempts : Exists(m)' <=> m <= started'
    <3>1. \A m \in Attempts : m # n => (Exists(m)' <=> Exists(m))
      BY <1>1, <1>3, <1>4 DEF Exists, LiveNow, Live
    <3>2. Exists(n)'
      BY <1>1, <1>2, <1>4 DEF Exists
    <3> QED
      BY <1>1, <1>5, <3>1, <3>2 DEF ControllerInv, OneIsLive, Attempts
  <2> QED
    BY <1>1, <1>7, <2>1 DEF OneIsLive
<1>9. LiveNow' /\ Bare(att[current])'
  BY <1>1, <1>2, <1>4, <1>7 DEF LiveNow, Bare, Outcomes
<1>10. Posture' /\ RoutesAreLive' /\ SlotsFollow'
  BY <1>1, <1>2, <1>9 DEF Posture, RoutesAreLive, SlotsFollow
<1>11. PublishedIsChecked'
  BY <1>1, <1>2, <1>3 DEF ControllerInv, PublishedIsChecked, Exists
<1> QED
  BY <1>6, <1>8, <1>10, <1>11 DEF ControllerInv

LEMMA ReturnInv ==
  ASSUME ControllerInv, Return
  PROVE  ControllerInv'
<1>1. /\ run.at = "return" /\ run' = NoRun
      /\ retained' = retained \/ retained' = retained \ Pruned
      /\ UNCHANGED <<mode, now, started, current, att, routes, used, slots>>
  BY DEF Return
<1>2. NoRun \in Runs /\ NoRun.at = "none"
  BY DEF Runs, NoRun
<1>3. current \notin Pruned
  BY DEF Pruned, Prunable
<1>4. LiveNow' = LiveNow
  BY <1>1 DEF LiveNow, Live, Exists
<1>5. TypeOK'
  BY <1>1, <1>2 DEF ControllerInv, TypeOK
<1>6. OneIsLive' /\ PublishedIsChecked'
  BY <1>1, <1>3 DEF ControllerInv, OneIsLive, PublishedIsChecked, Live, Exists
<1>7. Posture'
  BY <1>1, <1>2, <1>4 DEF ControllerInv, Posture, Waits
<1>8. SlotsFollow' /\ RoutesAreLive'
  BY <1>1, <1>4 DEF ControllerInv, SlotsFollow, RoutesAreLive
<1> QED
  BY <1>5, <1>6, <1>7, <1>8 DEF ControllerInv

LEMMA TickInv ==
  ASSUME ControllerInv, now' \in Time,
         UNCHANGED <<mode, started, retained, current, att, routes, used, slots, run>>
  PROVE  ControllerInv'
<1>1. LiveNow' = LiveNow
  BY DEF LiveNow, Live, Exists
<1>2. TypeOK'
  BY DEF ControllerInv, TypeOK
<1> QED
  BY <1>1, <1>2 DEF ControllerInv, OneIsLive, PublishedIsChecked, Live, Exists, Posture,
                    Waits, SlotsFollow, RoutesAreLive

--------------------------------------------------------------------------------
(* Theorems *)

(* What is true of the controller between any two steps: one live attempt, whose
   record fits the place of the run, with its reservation and its route. *)
THEOREM ControllerInvariant == Spec => []ControllerInv
<1>1. Init => ControllerInv
  <2> SUFFICES ASSUME Init PROVE ControllerInv
    OBVIOUS
  <2>1. TypeOK
    BY ControllerParameters, NoneIsDistinct
       DEF Init, TypeOK, Time, Runs, NoRun, Attempts
  <2>2. ~ LiveNow /\ run.at = "none"
    BY DEF Init, LiveNow, NoRun
  <2>3. OneIsLive /\ PublishedIsChecked
    BY ControllerParameters DEF Init, OneIsLive, PublishedIsChecked, Live, Exists, Attempts
  <2> QED
    BY <2>1, <2>2, <2>3
       DEF Init, ControllerInv, Posture, SlotsFollow, RoutesAreLive, NoRun
<1>2. ControllerInv /\ [Next]_vars => ControllerInv'
  <2> SUFFICES ASSUME ControllerInv, [Next]_vars PROVE ControllerInv'
    OBVIOUS
  <2>1. CASE UNCHANGED vars
    <3>1. now' \in Time
      BY <2>1 DEF vars, ControllerInv, TypeOK
    <3> QED
      BY <2>1, <3>1, TickInv DEF vars
  <2>2. CASE Next
    <3>1. used' \subseteq PendingIds
      BY <2>2, UsedType DEF ControllerInv
    <3>2. ASSUME NEW s \in Sessions, Begin(s) PROVE ControllerInv'
      BY <3>2, BeginInv
    <3>3. CASE Return
      BY <3>3, ReturnInv
    <3>4. CASE Tick
      <4>1. now' \in Time
        BY <3>4, ControllerParameters DEF Tick, ControllerInv, TypeOK, Time
      <4> QED
        BY <3>4, <4>1, TickInv DEF Tick
    <3>5. CASE (RunStep /\ ~ Return) \/ PublishHeld \/ (\E p \in PendingIds : Deliver(p))
      <4>1. Shaped
        BY <3>5, StepShape DEF ControllerInv
      <4>2. {"FAILED", "PUBLISHED"} = Terminal
        BY DEF Terminal
      <4> QED
        BY <3>1, <4>1, <4>2, TurnsInv, CallsInv, DefersInv, CertifiesInv, EndsInv DEF Shaped
    <3> QED
      BY <2>2, <3>2, <3>3, <3>4, <3>5 DEF Next
  <2> QED
    BY <2>1, <2>2
<1> QED
  BY <1>1, <1>2, PTL DEF Spec

(* Every variable has its type: no counter of an attempt and no number of
   reservations exceeds its ceiling. *)
THEOREM TypeCorrect == Spec => []TypeOK
<1>1. ControllerInv => TypeOK
  BY DEF ControllerInv
<1> QED
  BY <1>1, ControllerInvariant, PTL

(* A published draft was validated as it is. *)
THEOREM PublishedWasChecked == Spec => []PublishedIsChecked
<1>1. ControllerInv => PublishedIsChecked
  BY DEF ControllerInv
<1> QED
  BY <1>1, ControllerInvariant, PTL

(* An attempt that ended has left its reservation and its route behind. *)
THEOREM EndsLeakNothing == Spec => []NothingLeaks
<1>1. ControllerInv => NothingLeaks
  <2> SUFFICES ASSUME ControllerInv PROVE NothingLeaks
    OBVIOUS
  <2>1. ASSUME NEW s \in Sessions
        PROVE  slots[s] =
                 Cardinality({n \in Attempts \cap retained : Live(n) /\ att[n].session = s})
    <3> DEFINE holders == {n \in Attempts \cap retained : Live(n) /\ att[n].session = s}
    <3>1. CASE LiveNow /\ att[current].session = s
      <4>1. holders = {current}
        BY <3>1, CurrentRecord DEF ControllerInv, OneIsLive, LiveNow
      <4>2. Cardinality(holders) = 1
        BY <4>1, FS_Singleton
      <4> QED
        BY <3>1, <4>2 DEF ControllerInv, SlotsFollow
    <3>2. CASE ~ (LiveNow /\ att[current].session = s)
      <4>1. holders = {}
        BY <3>2, NoneIsDistinct DEF ControllerInv, OneIsLive, LiveNow
      <4>2. Cardinality(holders) = 0
        BY <4>1, FS_EmptySet
      <4> QED
        BY <3>2, <4>2 DEF ControllerInv, SlotsFollow
    <3> QED
      BY <3>1, <3>2
  <2> QED
    BY <2>1 DEF ControllerInv, NothingLeaks, ReservationsMatch
<1> QED
  BY <1>1, ControllerInvariant, PTL

(* Outside a run, a live attempt is held for its caller or waits for an answer
   that on_completion would accept. *)
THEOREM NobodyStranded == Spec => []NothingStranded
<1>1. ControllerInv => NothingStranded
  <2> SUFFICES ASSUME ControllerInv, run = NoRun, LiveNow
               PROVE  \/ mode.hold /\ Publishable
                      \/ \E p \in PendingIds : routes[p] # None /\ Accepts(p)
    BY DEF NothingStranded
  <2>1. \/ mode.hold /\ Certified(att[current])
        \/ Waits(att[current])
    BY DEF ControllerInv, Posture, NoRun
  <2>2. CASE mode.hold /\ Certified(att[current])
    BY <2>2 DEF Publishable, Certified
  <2>3. CASE Waits(att[current])
    <3>1. PICK p \in PendingIds : p = att[current].pending
      BY <2>3, CurrentRecord DEF ControllerInv, Waits, Records
    <3>2. routes[p] # None /\ routes[p][1] = current /\ current \in retained
      BY <2>3, <3>1 DEF ControllerInv, Waits, RoutesAreLive, OneIsLive, LiveNow
    <3> QED
      BY <2>3, <3>1, <3>2 DEF Accepts, Waits
  <2> QED
    BY <2>1, <2>2, <2>3
<1> QED
  BY <1>1, ControllerInvariant, PTL

(* The gate looks at the clock itself: nothing is published past its deadline. *)
THEOREM GateIsInTime == Spec => NoLatePublication
<1>1. ControllerInv /\ [Next]_vars =>
        [\A n \in Attempts :
           Live(n) /\ att'[n].state = "PUBLISHED" => now < att[n].deadline]_vars
  <2> SUFFICES ASSUME ControllerInv, Next, NEW n \in Attempts,
                      Live(n), att'[n].state = "PUBLISHED"
               PROVE  now < att[n].deadline
    BY DEF vars
  <2>1. n = current /\ LiveNow /\ att[current] \in Records /\ current \in Attempts
    <3>1. n = current
      BY DEF ControllerInv, OneIsLive
    <3>2. LiveNow
      BY <3>1, NoneIsDistinct DEF LiveNow
    <3> QED
      BY <3>1, <3>2, CurrentRecord DEF ControllerInv
  <2>2. att[n].state # "PUBLISHED"
    BY DEF Live, Terminal
  <2>3. ASSUME NEW s \in Sessions, Begin(s) PROVE FALSE
    <3>1. att'[current] = Failed(att[current])
      BY <2>1, <2>3, BeginFacts
    <3> QED
      BY <2>1, <3>1, FailedRecord
  <2>4. CASE Return \/ Tick
    BY <2>2, <2>4 DEF Return, Tick
  <2>5. CASE Shaped
    <3>1. \A b \in Records : Becomes(b) => att'[current] = b
      BY <2>1 DEF Becomes, ControllerInv, TypeOK
    <3>2. ~ (Turns \/ Calls \/ Defers \/ Certifies \/ Ends("FAILED"))
      BY <2>1, <2>2, <3>1 DEF Turns, Calls, Defers, Certifies, Ends, Certified, Terminal
    <3>3. ~ Expired(current)
      BY <2>5, <3>2 DEF Shaped, Ends
    <3>4. now \in Nat /\ att[current].deadline \in Nat
      BY <2>1, ControllerParameters DEF ControllerInv, TypeOK, Time, Records
    <3> QED
      BY <2>1, <3>3, <3>4 DEF Expired
  <2> QED
    BY <2>3, <2>4, <2>5, StepShape DEF ControllerInv, Next
<1> QED
  BY <1>1, ControllerInvariant, PTL DEF Spec, NoLatePublication

--------------------------------------------------------------------------------
(* Refinement *)

(* The record of the current attempt is all that changes, as the lifecycle sees it. *)
LEMMA LifeMoves ==
  ASSUME ControllerInv, LiveNow, NEW b \in Records, Becomes(b)
  PROVE  /\ LifeNow' = [LifeNow EXCEPT ![current] = b.state]
         /\ HolderNow' = HolderNow
         /\ LifeNow[current] = att[current].state
         /\ HolderNow[current] = att[current].session
<1>1. current \in Attempts /\ att[current] \in Records
  BY CurrentRecord DEF ControllerInv
<1>2. att'[current] = b /\ \A n \in Attempts : n # current => att'[n] = att[n]
  BY <1>1 DEF ControllerInv, TypeOK, Becomes
<1>3. att[current] # None /\ b # None /\ b.session = att[current].session
  BY <1>1, NoneIsDistinct DEF Becomes
<1>4. \A n \in Attempts : LifeNow'[n] = IF n = current THEN b.state ELSE LifeNow[n]
  BY <1>2, <1>3 DEF LifeNow, Exists
<1>5. \A n \in Attempts : HolderNow'[n] = HolderNow[n]
  BY <1>2, <1>3 DEF HolderNow, Exists
<1>6. LifeNow[current] = att[current].state /\ HolderNow[current] = att[current].session
  BY <1>1, <1>3 DEF LifeNow, HolderNow, Exists
<1>7. LifeNow' = [LifeNow EXCEPT ![current] = b.state]
  BY <1>1, <1>4 DEF LifeNow
<1>8. HolderNow' = HolderNow
  BY <1>5 DEF HolderNow
<1> QED
  BY <1>6, <1>7, <1>8

(* Every step of an attempt is a move of the transition table, in which the
   reservation goes with the end, or a step that nobody outside sees. *)
LEMMA ShapedMoves ==
  ASSUME ControllerInv, Shaped
  PROVE  Lifecycle!Next \/ UNCHANGED <<LifeNow, HolderNow, slots>>
<1>1. LiveNow /\ current \in Attempts /\ att[current] \in Records
      /\ att[current].state \in States \ Terminal
  BY CurrentRecord DEF Shaped, ControllerInv
<1>2. ASSUME NEW b \in Records, Becomes(b),
             slots' = IF b.state \in Terminal THEN GiveBack(slots, att[current].session)
                                              ELSE slots
      PROVE  Lifecycle!Next \/ UNCHANGED <<LifeNow, HolderNow, slots>>
  <2>1. /\ LifeNow' = [LifeNow EXCEPT ![current] = b.state]
        /\ HolderNow' = HolderNow
        /\ LifeNow[current] = att[current].state
        /\ HolderNow[current] = att[current].session
    BY <1>1, <1>2, LifeMoves
  <2>2. CASE b.state = att[current].state
    <3>1. LifeNow' = LifeNow
      BY <1>1, <2>1, <2>2 DEF LifeNow
    <3> QED
      BY <1>1, <1>2, <2>1, <2>2, <3>1
  <2>3. CASE b.state # att[current].state
    <3>1. b.state \in Lifecycle!Allowed[LifeNow[current]]
      BY <1>2, <2>1, <2>3 DEF Becomes, Follows
    <3>2. b.state \in States
      BY DEF Records
    <3>3. slots' = IF b.state \in Terminal
                     THEN [slots EXCEPT ![HolderNow[current]] = @ - 1] ELSE slots
      <4>1. slots[att[current].session] = 1 /\ att[current].session \in Sessions
        BY <1>1 DEF ControllerInv, SlotsFollow, Records
      <4> QED
        BY <1>2, <2>1, <4>1 DEF GiveBack
    <3>4. Lifecycle!Move(current, b.state)
      BY <2>1, <3>1, <3>3 DEF Lifecycle!Move, Lifecycle!Terminal, Terminal
    <3> QED
      BY <1>1, <3>2, <3>4 DEF Lifecycle!Next, Lifecycle!States, States
  <2> QED
    BY <2>2, <2>3
<1>3. \E b \in Records :
        /\ Becomes(b)
        /\ slots' = IF b.state \in Terminal THEN GiveBack(slots, att[current].session) ELSE slots
  <2>1. CASE Turns \/ Calls
    BY <2>1 DEF Turns, Calls, Terminal
  <2>2. CASE Defers
    BY <1>1, <2>2 DEF Defers
  <2>3. CASE Certifies
    BY <2>3 DEF Certifies, Certified, Terminal
  <2>4. CASE Ends("FAILED") \/ Ends("PUBLISHED")
    BY <2>4 DEF Ends, Terminal
  <2> QED
    BY <2>3, <2>4, <2>1, <2>2 DEF Shaped
<1> QED
  BY <1>2, <1>3

(* Starting an attempt ends the one before it and moves its reservation. *)
LEMMA BeginStarts ==
  ASSUME ControllerInv, NEW s \in Sessions, Begin(s)
  PROVE  Lifecycle!Next
<1>0. PICK n : n = started + 1
  OBVIOUS
<1>1. /\ n \in Attempts /\ ~ Exists(n) /\ current # n
      /\ att'[n] = Fresh(s)
      /\ LiveNow => att'[current] = Failed(att[current])
      /\ \A m \in Attempts : m # n /\ (m = current => ~ LiveNow) => att'[m] = att[m]
      /\ slots' \in [Sessions -> 0 .. SessionLimit]
      /\ \A t \in Sessions : slots'[t] = IF t = s THEN 1 ELSE 0
  BY <1>0, BeginFacts
<1>2. Fresh(s) \in Records /\ Fresh(s).state = "DRAFT" /\ Fresh(s).session = s
  BY FreshRecord DEF ControllerInv
<1>3. LiveNow => /\ current \in Attempts /\ att[current] \in Records
                 /\ Failed(att[current]) \in Records
                 /\ Failed(att[current]).state = "FAILED"
                 /\ Failed(att[current]).session = att[current].session
  BY CurrentRecord, FailedRecord DEF ControllerInv
<1>4. None \notin Records
  BY NoneIsDistinct
<1>5. \A m \in Attempts : Lifecycle!Open(m) <=> m = current /\ LiveNow
  <2>1. ASSUME NEW m \in Attempts PROVE Lifecycle!Open(m) <=> Live(m)
    <3>1. Exists(m) => att[m] \in Records
      BY DEF ControllerInv, TypeOK, Exists
    <3> QED
      BY <3>1 DEF Lifecycle!Open, Lifecycle!States, Lifecycle!Terminal, LifeNow, Live, Exists,
                  Records, States, Terminal
  <2> QED
    BY <2>1, NoneIsDistinct DEF ControllerInv, OneIsLive, LiveNow
<1>6. LifeNow[n] = "ABSENT"
  BY <1>1 DEF LifeNow
<1>7. LifeNow' = [m \in Attempts |-> IF m = n THEN "DRAFT"
                                     ELSE IF Lifecycle!Open(m) THEN "FAILED" ELSE LifeNow[m]]
  <2>1. ASSUME NEW m \in Attempts
        PROVE  LifeNow'[m] = IF m = n THEN "DRAFT"
                             ELSE IF m = current /\ LiveNow THEN "FAILED" ELSE LifeNow[m]
    <3>1. CASE m = n
      BY <1>1, <1>2, <1>4, <3>1 DEF LifeNow, Exists
    <3>2. CASE m # n /\ m = current /\ LiveNow
      BY <1>1, <1>3, <1>4, <3>2 DEF LifeNow, Exists
    <3>3. CASE m # n /\ ~ (m = current /\ LiveNow)
      <4>1. att'[m] = att[m]
        BY <1>1, <3>3
      <4> QED
        BY <3>3, <4>1 DEF LifeNow, Exists
    <3> QED
      BY <3>1, <3>2, <3>3
  <2> QED
    BY <1>5, <2>1 DEF LifeNow
<1>8. HolderNow' = [HolderNow EXCEPT ![n] = s]
  <2>1. ASSUME NEW m \in Attempts
        PROVE  HolderNow'[m] = IF m = n THEN s ELSE HolderNow[m]
    <3>1. CASE m = n
      BY <1>1, <1>2, <1>4, <3>1 DEF HolderNow, Exists
    <3>2. CASE m # n /\ m = current /\ LiveNow
      BY <1>1, <1>3, <1>4, <3>2 DEF HolderNow, Exists
    <3>3. CASE m # n /\ ~ (m = current /\ LiveNow)
      <4>1. att'[m] = att[m]
        BY <1>1, <3>3
      <4> QED
        BY <3>3, <4>1 DEF HolderNow, Exists
    <3> QED
      BY <3>1, <3>2, <3>3
  <2> QED
    BY <1>1, <2>1 DEF HolderNow
<1>9. /\ slots \in [Sessions -> 0 .. SessionLimit]
      /\ \A t \in Sessions : slots[t] = IF LiveNow /\ att[current].session = t THEN 1 ELSE 0
  BY DEF ControllerInv, TypeOK, SlotsFollow
<1>10. \/ /\ \A m \in Attempts : ~ Lifecycle!Open(m)
          /\ slots' = [slots EXCEPT ![s] = @ + 1]
       \/ \E m \in Attempts :
            /\ Lifecycle!Open(m)
            /\ slots' = [t \in Sessions |->
                           IF HolderNow[m] = s THEN slots[t]
                           ELSE IF t = s THEN slots[t] + 1
                           ELSE IF t = HolderNow[m] THEN slots[t] - 1
                           ELSE slots[t]]
  <2>1. CASE LiveNow
    <3>1. HolderNow[current] = att[current].session /\ current \in Attempts
      BY <1>3, <1>4, <2>1 DEF HolderNow, Exists
    <3>2. \A t \in Sessions :
            slots'[t] = IF HolderNow[current] = s THEN slots[t]
                        ELSE IF t = s THEN slots[t] + 1
                        ELSE IF t = HolderNow[current] THEN slots[t] - 1
                        ELSE slots[t]
      BY <1>1, <1>9, <2>1, <3>1
    <3>3. slots' = [t \in Sessions |->
                      IF HolderNow[current] = s THEN slots[t]
                      ELSE IF t = s THEN slots[t] + 1
                      ELSE IF t = HolderNow[current] THEN slots[t] - 1
                      ELSE slots[t]]
      BY <1>1, <3>2
    <3> QED
      BY <1>5, <2>1, <3>1, <3>3
  <2>2. CASE ~ LiveNow
    <3>1. slots' = [slots EXCEPT ![s] = @ + 1]
      BY <1>1, <1>9, <2>2
    <3> QED
      BY <1>5, <2>2, <3>1
  <2> QED
    BY <2>1, <2>2
<1>11. Lifecycle!Start(n, s)
  BY <1>6, <1>7, <1>8, <1>10 DEF Lifecycle!Start
<1> QED
  BY <1>1, <1>11 DEF Lifecycle!Next

(* The controller implements AttemptLifecycle: attempts follow the transition
   table, one starts by ending another, and reservations go with them. *)
THEOREM LifecycleImplemented == Spec => ImplementsLifecycle
<1>1. Init => Lifecycle!Init
  <2> SUFFICES ASSUME Init PROVE Lifecycle!Init
    OBVIOUS
  <2>1. \A n \in Attempts : ~ Exists(n)
    BY DEF Init, Exists
  <2> QED
    BY <2>1 DEF Init, Lifecycle!Init, LifeNow, HolderNow
<1>2. ControllerInv /\ [Next]_vars => [Lifecycle!Next]_<<LifeNow, HolderNow, slots>>
  <2> SUFFICES ASSUME ControllerInv, [Next]_vars
               PROVE  Lifecycle!Next \/ UNCHANGED <<LifeNow, HolderNow, slots>>
    OBVIOUS
  <2>1. CASE UNCHANGED <<att, slots>>
    BY <2>1 DEF LifeNow, HolderNow, Exists
  <2>2. CASE Return \/ Tick \/ UNCHANGED vars
    BY <2>1, <2>2 DEF Return, Tick, vars
  <2>3. ASSUME NEW s \in Sessions, Begin(s) PROVE Lifecycle!Next
    BY <2>3, BeginStarts
  <2> QED
    BY <2>2, <2>3, StepShape, ShapedMoves DEF ControllerInv, Next
<1> QED
  BY <1>1, <1>2, ControllerInvariant, PTL DEF Spec, ImplementsLifecycle, Lifecycle!Spec

================================================================================
