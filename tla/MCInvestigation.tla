---------------------------- MODULE MCInvestigation ----------------------------
(* Instances of Investigation for TLC. *)
EXTENDS Investigation, TLC

CONSTANTS p1, w1, w2, guilty, knife, letter, study, garden

MCWorkers == {w1, w2}
OneStore  == w1 :> "app" @@ w2 :> "app"
OneCandidate == 1 :> {guilty}

(* The knife can be found at two places; the letter is what a witness tells of;
   the vase is a decoration. *)
MCEvidence    == {knife, letter}
MCLocations   == {study, garden}
MCObjects     == {"drawer", "bush", "vase"}
MCLinked      == "drawer" :> knife @@ "bush" :> knife @@ "vase" :> None
MCPlacedAt    == "drawer" :> study @@ "bush" :> garden @@ "vase" :> garden
MCLocationsOf == knife :> <<study, garden>> @@ letter :> <<>>
MCQuestions   == {"heard", "seen"}
MCGrounding   == "heard" :> <<letter>> @@ "seen" :> <<letter, knife>>

Interact(o, m) == [op |-> "interact", object |-> o, matches |-> m]
Read(e)        == [op |-> "read", evidence |-> e]
Interview(q)   == [op |-> "interview", question |-> q]
Bootstrap      == [op |-> "bootstrap"]

AllOperations == {Interact("drawer", TRUE), Interact("vase", TRUE),
                  Interact("bush", FALSE), Read(knife), Interview("seen"),
                  Bootstrap}

ThreadSymmetry == Permutations(MCWorkers)
================================================================================
