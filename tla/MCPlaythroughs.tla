---------------------------- MODULE MCPlaythroughs ----------------------------
(* Instances of Playthroughs for TLC. *)
EXTENDS Playthroughs, TLC

CONSTANTS p1, p2, p3, w1, w2, guilty, innocent

MCIds3 == {p1, p2, p3}
MCIds2 == {p1, p2}
MCWorkers == {w1, w2}
MCCharges == {guilty, innocent}

OneStore == w1 :> "app" @@ w2 :> "app"

(* The second version has one candidate less. *)
OneCandidate == 1 :> {guilty}
TwoVersionsCandidates == 1 :> MCCharges @@ 2 :> {guilty}

IdSymmetry   == Permutations(MCIds3) \cup Permutations(MCWorkers)
================================================================================
