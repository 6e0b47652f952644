--------------------------- MODULE MCCasePublication ---------------------------
(* Instances of CasePublication for TLC. *)
EXTENDS CasePublication, TLC

Symmetric == Permutations(Cases) \cup Permutations(Requests)
================================================================================
