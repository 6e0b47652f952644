------------------------------- MODULE CaseProof -------------------------------
(* Why a generated case may be published: the solvers deduce time, person, motive and
   weapon from what a player can discover, and only then is the hidden truth compared.
   The generic pipeline may once replace evidence that leaves a question open by the
   canonical evidence of the crime, before the world graph is asked for.

   Time is a set of integer ticks held as a sorted sequence of half-open intervals.
   A fact is [id, discoverable, props]; a proposition is a record with its type and
   what that type speaks of.  The budgets of repairs and regenerations are those of
   GenerationController and are left out here. *)
EXTENDS Integers, Sequences, FiniteSets, SequencesExt, TimeIntervals

CONSTANTS
  Suspects, Witnesses,         \* persons with that public role
  Victim,
  Motives, Candidates,         \* public motives, those with MOTIVE_CANDIDATE
  Objects, Weapons, Sharp,     \* public objects, those that may be suspected, the kit's own
  Scene, PlaceOrder,           \* the other places a world may have, in the order of their ids
  Normal(_),                   \* normalize_identity: letters and digits of an id
  TimeMin, TimeMax,            \* SOLVER_TIME_MIN, SOLVER_TIME_MAX
  Timeline,                    \* offsets and uncertainties of the canonical evidence
  MinOpportunity, DefaultDistant,
  Answers, Repaired,           \* bound: the evidence a provider may write
  Crimes, Roads, Flaws         \* bound: the truths, worlds of places and other defects

NoRule == -1
Nobody == "nobody"

Places       == {PlaceOrder[k] : k \in DOMAIN PlaceOrder}
FinalTargets == Suspects \cup Witnesses

(* A public world has some of the places, and for each the seconds to the scene, if known. *)
TravelRules(roads) ==
  DOMAIN roads \subseteq Places /\ roads \in [DOMAIN roads -> Nat \cup {NoRule}]

ASSUME CaseAssumption ==
  /\ Candidates \subseteq Motives /\ Weapons \subseteq Objects
  /\ Repaired \subseteq Answers /\ "none" \in Flaws
  /\ TimeMin \in Int /\ TimeMax \in Int /\ TimeMin < TimeMax
  /\ PlaceOrder \in Seq(Places) /\ Scene \notin Places
  /\ \A set \in {FinalTargets, Motives, Weapons, Sharp} : IsFiniteSet(set)

(* What the parser lets through: the fields a proposition of its type needs, an uncertainty
   that is not negative, and no evidence id twice.  The canonical evidence is typed as well,
   but no parser has looked at its ids. *)
ParsedProp(p) ==
  /\ p.type \in {"lastSeen", "bodyFound"} => p.at \in Int
  /\ p.type \in {"noise", "sceneObserved", "timeExcluded", "observed"} =>
       p.at \in Int /\ p.spread \in Nat
  /\ p.type = "motiveContradicted" =>
       p = [type |-> "motiveContradicted", motive |-> p.motive]

Typed(facts) ==
  IsFiniteSet(facts) /\ \A f \in facts : IsFiniteSet(f.props) /\ \A p \in f.props : ParsedProp(p)

DistinctIds(facts) == \A f, g \in facts : f.id = g.id => f = g

Parsed(facts) == Typed(facts) /\ DistinctIds(facts)

ASSUME EvidenceAssumption == \A answer \in Answers : Parsed(answer)

(* The ids of a truth resolve in the public case (_crime_resolution_issues; one that does
   not is the flaw "structural") and its murderer is a final target (case_quality; one who
   is not is a flaw).  No gate asks that the motive be a candidate or the weapon one that
   may be suspected. *)
ASSUME TruthAssumption ==
  /\ \A roads \in Roads : TravelRules(roads)
  /\ \A truth \in Crimes :
       /\ truth.tick \in TimeMin .. TimeMax - 1 /\ truth.tolerance \in Nat
       /\ truth.motive \in Motives /\ truth.weapon \in Objects
       /\ truth.resolution = "HOMICIDE" => truth.murderer \in FinalTargets

(* The offsets of evidence_timeline: what the canonical evidence leaves open holds the tick
   of the crime, and a person seen elsewhere cannot be at the scene in any of it. *)
ASSUME TimelineAssumption ==
  /\ {Timeline.lastSeen, Timeline.bodyFound, Timeline.observed, Timeline.alternate,
      Timeline.presence} \subseteq Int
  /\ {Timeline.observedSpread, Timeline.alternateSpread, Timeline.presenceSpread,
      MinOpportunity, DefaultDistant} \subseteq Nat
  /\ MinOpportunity <= DefaultDistant
  /\ Timeline.lastSeen <= 0 /\ Timeline.bodyFound > 0
  /\ LET from  == Timeline.observed - Timeline.observedSpread
         until == Timeline.observed + Timeline.observedSpread
     IN /\ from <= 0 /\ 0 <= until
        /\ Timeline.alternate - Timeline.alternateSpread <= from
        /\ until < Timeline.alternate + Timeline.alternateSpread + MinOpportunity

VARIABLES
  crime,      \* CaseTruth: resolution, murderer, motive, weapon, tick, tolerance
  travel,     \* from each other place the world has: seconds to the scene, or NoRule
  evidence,   \* the facts of the draft
  malformed,  \* the EVIDENCE stage has a deferred parser failure
  flaw,       \* a defect that evidence does not own
  completed,  \* attempt._evidence_completed
  installed,  \* the evidence is that of the canonical algebra
  proof,      \* attempt.solver_proof of the validation of this draft; an older one is not read
  phase

vars == <<crime, travel, evidence, malformed, flaw, completed, installed, proof, phase>>

--------------------------------------------------------------------------------
(* Interval sets. *)

FullDomain  == <<Iv(TimeMin, TimeMax)>>

AcceptedTime(truth) ==
  Normalized({Iv(truth.tick - truth.tolerance, truth.tick + truth.tolerance + 1)})

--------------------------------------------------------------------------------
(* validate_evidence, which every solver call starts with: no id twice, sightings at places
   the world has, times in the domain of the solvers.  Other dangling references are the
   flaw "structural". *)

Coherent(roads, facts) ==
  /\ DistinctIds(facts)
  /\ \A f \in facts : \A p \in f.props :
       /\ p.type = "observed" => p.place \in DOMAIN roads \cup {Scene}
       /\ "at" \in DOMAIN p => p.at \in TimeMin .. TimeMax - 1

--------------------------------------------------------------------------------
(* What the solvers read: the discoverable facts only. *)

Discoverable(facts) == {f \in facts : f.discoverable}
Props(facts)        == UNION {f.props : f \in Discoverable(facts)}
CitedBy(facts, said) == {f.id : f \in {g \in Discoverable(facts) : g.props \cap said # {}}}

Around(p)   == Iv(p.at - p.spread, p.at + p.spread + 1)
Bounds(p)   == p.type \in {"lastSeen", "bodyFound", "noise", "sceneObserved"}
Excludes(p) == p.type = "timeExcluded"
Window(p) ==
  CASE p.type = "lastSeen"  -> Iv(p.at, TimeMax)
    [] p.type = "bodyFound" -> Iv(TimeMin, p.at)
    [] OTHER                -> Around(p)

SpeaksOfTimeOnce(p) == Bounds(p)     \* mutant: an excluded window is used and not cited
SpeaksOfTime(p) == Bounds(p) \/ Excludes(p)

(* All windows are intersected first, then the excluded ones are taken away. *)
Inside(set, props) ==
  LET Narrow(p, held) == Intersection(held, <<Window(p)>>) IN FoldSet(Narrow, set, props)

Outside(set, props) ==
  LET Without(p, held) == Difference(held, <<Around(p)>>) IN FoldSet(Without, set, props)

FeasibleTime(facts) ==
  Outside(Inside(FullDomain, {p \in Props(facts) : Bounds(p)}),
          {p \in Props(facts) : Excludes(p)})

When(facts) ==
  LET feasible == FeasibleTime(facts)
  IN [feasible        |-> feasible,
      cites           |-> CitedBy(facts, {p \in Props(facts) : SpeaksOfTime(p)}),
      overconstrained |-> feasible = <<>>,
      ambiguous       |-> Len(feasible) > 1]

--------------------------------------------------------------------------------
(* One dimension: which candidates of the universe are out or have nothing that speaks for
   them, and who is left. *)

Dimension(universe, out, supported, cites) ==
  LET viable  == universe \ out
      unknown == viable \ supported
      unique  == Cardinality(viable) = 1 /\ unknown = {}
  IN [excluded |-> out, unknown |-> unknown, unique |-> unique,
      winner |-> IF unique THEN CHOOSE c \in viable : TRUE ELSE Nobody,
      cites |-> cites]

Sighting(p, who) == p.type = "observed" /\ p.person = who
Block(roads, p)  == Iv(p.at - p.spread, p.at + p.spread + roads[p.place])
Constrains(roads, p, who) ==
  /\ Sighting(p, who) /\ p.place \in DOMAIN roads
  /\ roads[p.place] # NoRule
  /\ Block(roads, p).hi > Block(roads, p).lo

Presence(roads, facts, who) ==
  Difference(FullDomain,
             Normalized({Block(roads, p) : p \in {q \in Props(facts) : Constrains(roads, q, who)}}))

(* A claim about leaving is only weighed against sightings after it; a claim without a
   time is weighed against all. *)
AlibiCites(facts, who) ==
  LET claims == {p \in Props(facts) : p.type = "alibi" /\ p.person = who}
      departures == {p.at : p \in {q \in claims : "at" \in DOMAIN q}}
      seen == {p \in Props(facts) : Sighting(p, who)
                                    /\ (departures = {} \/ \E d \in departures : p.at >= d)}
      atScene == {p \in seen : p.place = Scene}
  IN IF claims = {} THEN {}
     ELSE CitedBy(facts, claims) \cup CitedBy(facts, IF atScene # {} THEN atScene ELSE seen)

Constraint(roads, facts, who) == CitedBy(facts, {p \in Props(facts) : Constrains(roads, p, who)})
AtScene(facts, who) == CitedBy(facts, {p \in Props(facts) : Sighting(p, who) /\ p.place = Scene})
Link(facts, who) == CitedBy(facts, {p \in Props(facts) : p.type = "motiveLink" /\ p.person = who})

Excluded(roads, facts, feasible, who) ==
  /\ feasible # <<>>
  /\ Intersection(Presence(roads, facts, who), feasible) = <<>>

Opportunity(roads, facts, feasible, who) ==
  IF feasible = <<>> THEN {}
  ELSE IF Excluded(roads, facts, feasible, who) THEN Constraint(roads, facts, who)
  ELSE Constraint(roads, facts, who) \cup AtScene(facts, who)

Universe == IF FinalTargets # {} THEN FinalTargets ELSE Suspects

Who(roads, facts, feasible) ==
  LET Chance(w) == Opportunity(roads, facts, feasible, w)
  IN Dimension(Universe,
               {w \in Universe : Excluded(roads, facts, feasible, w)},
               {w \in Universe : Chance(w) \cup Link(facts, w) # {}},
               UNION {Chance(w) \cup AlibiCites(facts, w) \cup Link(facts, w) : w \in Universe})

Ground(facts, type, m) == CitedBy(facts, {p \in Props(facts) : p.type = type /\ p.motive = m})

Why(facts) ==
  LET Contrary(m) == Ground(facts, "motiveContradicted", m)
      For(m)      == Ground(facts, "motiveLink", m)
  IN Dimension(Candidates,
               {m \in Candidates : Contrary(m) # {}}, {m \in Candidates : For(m) # {}},
               UNION {Contrary(m) \cup For(m) : m \in Candidates})

Match(facts, w, found) == CitedBy(facts, {[type |-> "match", object |-> w, found |-> found]})
Trace(facts, w)        == CitedBy(facts, {[type |-> "trace", object |-> w]})

(* A match found both ways decides nothing; a trace still supports the object. *)
Refuted(facts, w) == Match(facts, w, FALSE) # {} /\ Match(facts, w, TRUE) = {}
Borne(facts, w) ==
  (Match(facts, w, TRUE) # {} /\ Match(facts, w, FALSE) = {}) \/ Trace(facts, w) # {}

Weapon(facts) ==
  Dimension(Weapons, {w \in Weapons : Refuted(facts, w)}, {w \in Weapons : Borne(facts, w)},
            UNION {Match(facts, w, TRUE) \cup Match(facts, w, FALSE) \cup Trace(facts, w)
                   : w \in Weapons})

Solve(roads, facts) ==
  LET when   == When(facts)
      who    == Who(roads, facts, when.feasible)
      why    == Why(facts)
      weapon == Weapon(facts)
  IN [when |-> when, who |-> who, why |-> why, weapon |-> weapon,
      used |-> when.cites \cup who.cites \cup why.cites \cup weapon.cites]

NoProof == [when |-> Nobody]

--------------------------------------------------------------------------------
(* The comparison with the truth, and the verdict on a draft. *)

TimeAccepted(truth, when) ==
  /\ Len(when.feasible) = 1
  /\ Difference(when.feasible, AcceptedTime(truth)) = <<>>
  /\ HoldsTick(when.feasible, truth.tick)

AllTrueNearby(truth, solved) ==      \* mutant: the tick of the crime need not be feasible
  /\ truth.resolution = "HOMICIDE" => solved.who.winner = truth.murderer
  /\ solved.why.winner = truth.motive
  /\ solved.weapon.winner = truth.weapon
  /\ Len(solved.when.feasible) = 1
  /\ Difference(solved.when.feasible, AcceptedTime(truth)) = <<>>

AllTrue(truth, solved) ==
  /\ truth.resolution = "HOMICIDE" => solved.who.winner = truth.murderer
  /\ solved.why.winner = truth.motive
  /\ solved.weapon.winner = truth.weapon
  /\ TimeAccepted(truth, solved.when)

(* analyze_evidence_gaps: an empty time set is a contradiction, not a gap. *)
AmbiguousDimensions(truth, solved) ==
  {d \in {"who", "why", "weapon", "when"} :
     CASE d = "who"    -> truth.resolution = "HOMICIDE" /\ ~solved.who.unique
       [] d = "why"    -> ~solved.why.unique
       [] d = "weapon" -> ~solved.weapon.unique
       [] d = "when"   -> solved.when.ambiguous}

Closable(truth, solved) ==
  ~solved.when.overconstrained /\ AmbiguousDimensions(truth, solved) # {}

WitnessesSpeak(facts) ==
  \A w \in Witnesses : \E f \in facts : \E p \in f.props : p.type = "claims" /\ p.person = w

Structural == malformed \/ flaw = "structural" \/ ~Coherent(travel, evidence)

(* Locked constraints are compared after the solvers have run. *)
Solvable == ~Structural /\ flaw \in {"none", "locked"} /\ WitnessesSpeak(evidence)

Outcome(solved) ==
  IF Structural THEN "repair"
  ELSE IF flaw = "locked" THEN "failed"
  ELSE IF flaw = "universe" THEN "regenerate"
  ELSE IF ~Solvable THEN "repair"          \* the quality gate
  ELSE IF AmbiguousDimensions(crime, solved) # {} \/ solved.when.overconstrained THEN "regenerate"
  ELSE IF ~AllTrue(crime, solved) THEN "repair"
  ELSE "published"

--------------------------------------------------------------------------------
(* The canonical evidence of a crime. *)

Fact(id, props) == [id |-> id, discoverable |-> TRUE, props |-> props]

(* The name an id gives a fact: what is left of it, or a word for its kind. *)
Slug(id, kind) == IF Normal(id) = "" THEN kind ELSE Normal(id)

Open(roads) == {k \in DOMAIN PlaceOrder : PlaceOrder[k] \in DOMAIN roads}
Far(roads)  == {k \in Open(roads) : roads[PlaceOrder[k]] >= MinOpportunity}

FirstOf(ks) == PlaceOrder[CHOOSE k \in ks : \A l \in ks : k <= l]

DistantPlace(roads) == FirstOf(IF Far(roads) = {} THEN Open(roads) ELSE Far(roads))

OtherTargets(truth) == FinalTargets \ {truth.murderer}

(* Without a place other than the scene nobody can have been elsewhere. *)
Elsewhere(truth, roads) == {who \in OtherTargets(truth) : Open(roads) # {}}

CanonicalRoadsAsGiven(truth, roads) ==         \* mutant: a rule that exists is kept
  IF Elsewhere(truth, roads) # {} /\ roads[DistantPlace(roads)] = NoRule
  THEN [roads EXCEPT ![DistantPlace(roads)] = DefaultDistant]
  ELSE roads

CanonicalRoads(truth, roads) ==
  IF Elsewhere(truth, roads) # {} /\ roads[DistantPlace(roads)] < MinOpportunity
  THEN [roads EXCEPT ![DistantPlace(roads)] = DefaultDistant]
  ELSE roads

TimeFacts(truth) ==
  {Fact(<<"when", "lastSeen">>,
        {[type |-> "lastSeen", at |-> truth.tick + Timeline.lastSeen]}),
   Fact(<<"when", "bodyFound">>,
        {[type |-> "bodyFound", at |-> truth.tick + Timeline.bodyFound]}),
   Fact(<<"when", "sceneObserved">>,
        {[type |-> "sceneObserved", at |-> truth.tick + Timeline.observed,
          spread |-> Timeline.observedSpread]})}

SeenAway(truth, roads, who) ==
  Fact(<<"opp", Slug(who, "target")>>,
       {[type |-> "observed", person |-> who, place |-> DistantPlace(roads),
         at |-> truth.tick + Timeline.alternate, spread |-> Timeline.alternateSpread]})

OpportunityFacts(truth, roads) ==
  {SeenAway(truth, roads, who) : who \in Elsewhere(truth, roads)}

MurdererFacts(truth) ==
  {Fact(<<"murderer", "presence">>,
        {[type |-> "observed", person |-> truth.murderer, place |-> Scene,
          at |-> truth.tick + Timeline.presence, spread |-> Timeline.presenceSpread]}),
   Fact(<<"murderer", "alibi">>,
        {[type |-> "alibi", person |-> truth.murderer, at |-> truth.tick + Timeline.alibi]}),
   Fact(<<"murderer", "print">>, {[type |-> "trace", object |-> truth.weapon]})}

MotiveFacts(truth) ==
  {Fact(<<"motive", "link">>,
        {[type |-> "motiveLink", motive |-> truth.motive,
          person |-> IF truth.resolution = "SUICIDE" THEN Victim ELSE truth.murderer]})}
  \cup {Fact(<<"contradicted", Slug(m, "motive")>>,
             {[type |-> "motiveContradicted", motive |-> m]})
        : m \in Motives \ {truth.motive}}

(* An object whose id normalises as the weapon's does is not compared. *)
OtherObjects(truth) == {o \in Sharp \cup Weapons : Normal(o) # Normal(truth.weapon)}

MatchFacts(truth) ==
  {Fact(<<"weapon", "true">>,
        {[type |-> "match", object |-> truth.weapon, found |-> TRUE]})}
  \cup {Fact(<<"false", Slug(o, "weapon")>>,
             {[type |-> "match", object |-> o, found |-> FALSE]}) : o \in OtherObjects(truth)}

(* Of witnesses with the same name the first by id speaks. *)
Speakers ==
  {w \in Witnesses :
     w = CHOOSE v \in Witnesses : Slug(v, "witness") = Slug(w, "witness")}

WitnessFacts ==
  {Fact(<<"claims", Slug(w, "witness")>>, {[type |-> "claims", person |-> w]}) : w \in Speakers}

(* Facts that speak of an object the public case does not have are left out. *)
Resolves(f) == \A p \in f.props : p.type = "match" => p.object \in Objects

CanonicalFacts(truth, roads) ==
  {f \in TimeFacts(truth) \cup OpportunityFacts(truth, roads) \cup MotiveFacts(truth)
           \cup MatchFacts(truth) \cup WitnessFacts
           \cup (IF truth.resolution = "SUICIDE" THEN {} ELSE MurdererFacts(truth))
   : Resolves(f)}

--------------------------------------------------------------------------------
(* The generic pipeline from the answer of the EVIDENCE stage on. *)

Start ==
  /\ crime' \in Crimes /\ travel' \in Roads /\ flaw' \in Flaws

Init ==
  /\ crime \in Crimes /\ travel \in Roads /\ flaw \in Flaws
  /\ evidence = {} /\ malformed = FALSE
  /\ completed = FALSE /\ installed = FALSE
  /\ proof = NoProof /\ phase = "evidence"

(* Only defects that evidence owns may be left: a malformed answer and witnesses
   without a statement do not stand in the way. *)
MayComplete ==
  /\ flaw = "none" /\ Coherent(travel, evidence)
  /\ Closable(crime, Solve(travel, evidence))

Install ==
  /\ evidence'  = CanonicalFacts(crime, travel)
  /\ travel'    = CanonicalRoads(crime, travel)
  /\ malformed' = FALSE
  /\ installed' = TRUE

ReceiveEvidence ==
  /\ phase = "evidence"
  /\ \E answer \in Answers : evidence' = answer
  /\ phase' = "graph"
  /\ UNCHANGED <<crime, travel, malformed, flaw, completed, installed, proof>>

EvidenceMalformed ==
  /\ phase = "evidence"
  /\ completed' = TRUE
  /\ \/ MayComplete /\ Install /\ phase' = "graph"
     \/ /\ ~MayComplete /\ phase' = "validating" /\ malformed' = TRUE
        /\ UNCHANGED <<evidence, travel, installed>>
  /\ UNCHANGED <<crime, flaw, proof>>

OfferCompletionAgain ==              \* mutant: the attempt does not remember the offer
  /\ phase = "graph" /\ ~completed
  /\ \/ MayComplete /\ Install
     \/ ~MayComplete /\ UNCHANGED <<evidence, travel, malformed, installed>>
  /\ UNCHANGED <<crime, flaw, completed, proof, phase>>

OfferCompletion ==
  /\ phase = "graph" /\ ~completed
  /\ completed' = TRUE
  /\ \/ MayComplete /\ Install
     \/ ~MayComplete /\ UNCHANGED <<evidence, travel, malformed, installed>>
  /\ UNCHANGED <<crime, flaw, proof, phase>>

ReceiveGraph ==
  /\ phase = "graph" /\ completed
  /\ flaw' \in {flaw, "structural"}
  /\ phase' = "validating"
  /\ UNCHANGED <<crime, travel, evidence, malformed, completed, installed, proof>>

Validate ==
  /\ phase = "validating"
  /\ proof' = IF Solvable THEN Solve(travel, evidence) ELSE NoProof
  /\ phase' = Outcome(proof')
  /\ UNCHANGED <<crime, travel, evidence, malformed, flaw, completed, installed>>

(* A repaired draft replaces the whole draft, the truth and the travel rules included; only
   declared ids are protected, and the parser takes no evidence id twice.  It is not offered
   a completion. *)
Repair ==
  /\ phase = "repair"
  /\ crime' \in Crimes /\ travel' \in Roads \cup {travel}
  /\ evidence' \in Repaired \cup {facts \in {evidence} : DistinctIds(facts)}
  /\ flaw' \in {"none", IF flaw = "structural" THEN "none" ELSE flaw}
  /\ malformed' = FALSE
  /\ installed' = (installed /\ evidence' = evidence)
  /\ proof' = NoProof /\ phase' = "validating"
  /\ UNCHANGED completed

(* An answer that does not parse, or that renames what it may not, keeps the draft. *)
RepairRejected ==
  /\ phase = "repair"
  /\ flaw' = "structural"
  /\ proof' = NoProof /\ phase' = "validating"
  /\ UNCHANGED <<crime, travel, evidence, malformed, completed, installed>>

Regenerate ==
  /\ phase = "regenerate"
  /\ Start
  /\ evidence' = {} /\ malformed' = FALSE
  /\ completed' = FALSE /\ installed' = FALSE
  /\ proof' = NoProof /\ phase' = "evidence"

Next ==
  \/ ReceiveEvidence \/ EvidenceMalformed \/ OfferCompletion \/ ReceiveGraph
  \/ Validate \/ Repair \/ RepairRejected \/ Regenerate

Spec == Init /\ [][Next]_vars

--------------------------------------------------------------------------------
(* The same questions asked of the propositions tick by tick, with no interval. *)

Ticks == TimeMin .. TimeMax - 1

Allows(p, t) ==
  CASE p.type = "lastSeen"     -> t >= p.at
    [] p.type = "bodyFound"    -> t < p.at
    [] p.type = "timeExcluded" -> t < p.at - p.spread \/ t > p.at + p.spread
    [] OTHER                   -> p.at - p.spread <= t /\ t <= p.at + p.spread

PossibleTicks(facts) ==
  {t \in Ticks : \A p \in Props(facts) : Bounds(p) \/ Excludes(p) => Allows(p, t)}

Away(roads, facts, who, t) ==
  \E p \in Props(facts) :
     /\ Sighting(p, who) /\ p.place \in DOMAIN roads /\ roads[p.place] # NoRule
     /\ p.at - p.spread <= t /\ t < p.at + p.spread + roads[p.place]

Cleared(roads, facts, who) ==
  /\ PossibleTicks(facts) # {}
  /\ \A t \in PossibleTicks(facts) : Away(roads, facts, who, t)

Connected(ticks) == \A s, u \in ticks : \A t \in s .. u : t \in ticks

Says(facts, prop) == prop \in Props(facts)

--------------------------------------------------------------------------------
(* Properties. *)

(* The variables hold what their comments say; evidence and travel rules
   that no provider wrote are there only after a completion. *)
TypeOK ==
  /\ crime \in Crimes /\ flaw \in Flaws \cup {"structural"}
  /\ phase \in {"evidence", "graph", "validating", "repair", "regenerate", "failed", "published"}
  /\ {malformed, completed, installed} \subseteq BOOLEAN
  /\ evidence \in Answers \cup {{}} \/ installed
  /\ TravelRules(travel) /\ (travel \in Roads \/ completed)
  /\ phase = "published" => proof # NoProof

(* The stored proof is exact: a tick is feasible just when every discoverable statement
   about the time allows it, the intervals are the maximal runs of such ticks, the time is
   called ambiguous or contradictory just when it is, and a person is excluded just when
   sightings elsewhere rule out every feasible tick (time_interval.py, when_solver.py and
   who_solver.py against the propositions themselves). *)
SolverIsExact ==
  proof # NoProof =>
    LET possible == PossibleTicks(evidence)
        when     == proof.when
    IN /\ \A t \in Ticks : HoldsTick(when.feasible, t) <=> t \in possible
       /\ \A k \in 1 .. Len(when.feasible) - 1 : when.feasible[k].hi < when.feasible[k + 1].lo
       /\ when.overconstrained <=> possible = {}
       /\ when.ambiguous <=> ~Connected(possible)
       /\ \A w \in FinalTargets : w \in proof.who.excluded <=> Cleared(travel, evidence, w)

(* The ids the proof cites are enough: a player who holds just those facts, all of them
   discoverable, can draw every conclusion of the proof (REQUIREMENTS 31.17; build_proof
   and the proof board made from its ids). *)
CitedEvidenceSuffices ==
  proof # NoProof =>
    LET cited == {f \in evidence : f.id \in proof.used}
        again == Solve(travel, cited)
    IN /\ \A f \in cited : f.discoverable
       /\ again = proof

(* A published case is solvable by its discoverable evidence and by nothing else: the time
   is one run of ticks inside the accepted ones and holds the true tick, every other target
   is cleared and the murderer is not, the true motive and weapon can be accused, every
   other one is contradicted and they are not, and every witness has something to say. *)
ValidMeansSolved ==
  phase = "published" =>
    LET possible == PossibleTicks(evidence)
        Contradicted(o) == Says(evidence, [type |-> "match", object |-> o, found |-> FALSE])
        Matched(o)      == Says(evidence, [type |-> "match", object |-> o, found |-> TRUE])
    IN /\ crime.tick \in possible /\ Connected(possible)
       /\ possible \subseteq (crime.tick - crime.tolerance) .. (crime.tick + crime.tolerance)
       /\ crime.resolution = "HOMICIDE" =>
            \A w \in FinalTargets : Cleared(travel, evidence, w) <=> w # crime.murderer
       /\ crime.motive \in Candidates /\ crime.weapon \in Weapons
       /\ \A m \in Candidates :
            Says(evidence, [type |-> "motiveContradicted", motive |-> m]) <=> m # crime.motive
       /\ \A o \in Weapons : Contradicted(o) /\ ~Matched(o) <=> o # crime.weapon
       /\ WitnessesSpeak(evidence)

Answered(dimension, truth) == dimension.unique /\ dimension.winner = truth

(* What completion promises and where it cannot keep it.  Installed evidence is a fixed
   point of the algebra (complete_evidence_if_ambiguous), and unless validate_evidence
   refuses it (names that normalise alike, times out of the domain) the time it leaves is
   one run with the tick of the crime in it, and it answers truly
   - who, just when there is nobody else or a place other than the scene to see them at;
   - why, just when the true motive may be one (MOTIVE_CANDIDATE);
   - the weapon, just when that may be suspected and no other such object is named alike;
   a question it does not answer has no answer at all, never a wrong one. *)
CompletionCloses ==
  installed /\ phase = "graph" =>
    /\ CanonicalFacts(crime, travel) = evidence /\ CanonicalRoads(crime, travel) = travel
    /\ Coherent(travel, evidence) =>
         LET solved == Solve(travel, evidence)
             Alike(o) == Normal(o) = Normal(crime.weapon)
         IN /\ Len(solved.when.feasible) = 1 /\ HoldsTick(solved.when.feasible, crime.tick)
            /\ crime.resolution = "HOMICIDE" =>
                 IF OtherTargets(crime) = {} \/ DOMAIN travel # {}
                 THEN Answered(solved.who, crime.murderer) ELSE ~solved.who.unique
            /\ IF crime.motive \in Candidates
               THEN Answered(solved.why, crime.motive) ELSE ~solved.why.unique
            /\ IF {o \in Weapons : Alike(o)} = {crime.weapon}
               THEN Answered(solved.weapon, crime.weapon) ELSE ~solved.weapon.unique
================================================================================
