------------------------------ MODULE MCCaseProof ------------------------------
(* A small instance of CaseProof: two targets, two motives that may be suspected and one
   that may not, as many objects, sixteen ticks, worlds with and without another place,
   names that normalise alike or to nothing, and evidence put together from good, missing,
   conflicting and hidden facts of each kind. *)
EXTENDS CaseProof, TLC

CONSTANTS anna, boris, victor, greed, envy, spite, knife, rope, vase, hall, attic, scene

MCPlaceOrder == <<hall, attic>>
MCTimeMin == -8
MCTimeline ==
  [lastSeen |-> -3, bodyFound |-> 4, observed |-> 0, observedSpread |-> 2,
   alternate |-> -4, alternateSpread |-> 1, presence |-> -1, presenceSpread |-> 1,
   alibi |-> -7]

Truth(resolution, murderer, weapon, tolerance) ==
  [resolution |-> resolution, murderer |-> murderer, motive |-> greed, weapon |-> weapon,
   tick |-> 0, tolerance |-> tolerance]
For(motive, truth) == [truth EXCEPT !.motive = motive]

(* The body of a crime at 5 is found after the last tick. *)
MCCrimes ==
  {Truth("HOMICIDE", anna, knife, 3), Truth("HOMICIDE", boris, knife, 1),
   Truth("SUICIDE", Nobody, knife, 2), Truth("HOMICIDE", anna, vase, 3),
   For(spite, Truth("HOMICIDE", anna, knife, 3)), For(envy, Truth("SUICIDE", Nobody, rope, 2)),
   [Truth("HOMICIDE", anna, knife, 3) EXCEPT !.tick = 5]}

Rules(a, b) == hall :> a @@ attic :> b
MCRoads == {Rules(NoRule, NoRule), Rules(5, NoRule), Rules(3, 6), <<>>}

(* Spite normalises as greed does, and both are wrong when envy is the motive; the vase as
   the rope, and the knife to nothing. *)
MCNormal(id) ==
  CASE id = spite -> greed [] id = vase -> rope [] id = knife -> "" [] OTHER -> id

Seen(who, place, at, spread) ==
  [type |-> "observed", person |-> who, place |-> place, at |-> at, spread |-> spread]
Time(type, at, spread) == [type |-> type, at |-> at, spread |-> spread]
Matching(object, found) == [type |-> "match", object |-> object, found |-> found]
Linked(who) == [type |-> "motiveLink", motive |-> greed, person |-> who]
Against(m)  == [type |-> "motiveContradicted", motive |-> m]
Hidden(f)   == [f EXCEPT !.discoverable = FALSE]

OfTime ==
  LET bounds == Fact(<<"t", "bounds">>,
                     {[type |-> "lastSeen", at |-> -3], [type |-> "bodyFound", at |-> 4]})
      scene2 == Fact(<<"t", "scene">>, {Time("sceneObserved", 0, 2)})
      gap    == Fact(<<"t", "gap">>, {Time("timeExcluded", 1, 0)})
      start  == Fact(<<"t", "start">>, {Time("timeExcluded", -2, 2)})
      noise  == Fact(<<"t", "noise">>, {Time("noise", 1, 0)})
      late   == Fact(<<"t", "late">>, {Time("noise", 5, 1)})
  IN {{}, {bounds, scene2}, {bounds, scene2, gap}, {bounds, gap, start},
      {bounds, noise}, {scene2, late}, {bounds, Hidden(late)}}

OfPeople ==
  LET boris1 == Fact(<<"p", "boris">>, {Seen(boris, hall, -4, 1), Seen(boris, hall, 2, 1)})
      boris2 == Fact(<<"p", "borisAttic">>, {Seen(boris, attic, -3, 1)})
      anna1  == Fact(<<"p", "anna">>, {Seen(anna, attic, -3, 1)})
      there  == Fact(<<"p", "there">>, {Seen(anna, scene, 0, 1)})
      alibi  == Fact(<<"p", "alibi">>, {[type |-> "alibi", person |-> boris]})
  IN {{}, {boris1}, {boris2, there}, {anna1, Hidden(boris1), alibi}, {boris1, there, alibi}}

LinkedMotive == {Fact(<<"m", "link">>, {Linked(anna), Against(envy)})}
OfMotives ==
  LET boris1 == Fact(<<"m", "boris">>, {Linked(boris)})
      envy1  == Fact(<<"m", "envy">>, {Against(envy)})
      greed1 == Fact(<<"m", "greed">>, {Against(greed)})
  IN {{}, LinkedMotive, {boris1, envy1}, LinkedMotive \cup {Hidden(greed1)}}

RopeIsOut == Fact(<<"o", "rope">>, {Matching(rope, FALSE)})
MatchedKnife == {Fact(<<"o", "knife">>, {Matching(knife, TRUE)}), RopeIsOut}
OfObjects ==
  LET rope2  == Fact(<<"o", "rope2">>, {Matching(rope, TRUE)})
      trace  == Fact(<<"o", "trace">>, {[type |-> "trace", object |-> knife]})
  IN {{}, MatchedKnife, {RopeIsOut, rope2, trace}, {RopeIsOut, trace}}

(* No solver reads of both motives and objects: one of the two is always as it should be. *)
OfThings ==
  {m \cup MatchedKnife : m \in OfMotives} \cup {LinkedMotive \cup o : o \in OfObjects}

MCAnswers ==
  {t \cup p \cup things \cup WitnessFacts :
     t \in OfTime, p \in OfPeople, things \in OfThings}
  \cup {t \cup p : t \in OfTime, p \in OfPeople}

MCRepaired ==
  {e \in MCAnswers : WitnessesSpeak(e) /\ Cardinality(Props(e)) >= 12}
================================================================================
