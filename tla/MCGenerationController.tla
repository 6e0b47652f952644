------------------------- MODULE MCGenerationController -------------------------
(***************************************************************************)
(* Instances of GenerationController for TLC.                              *)
(***************************************************************************)
EXTENDS GenerationController, TLC

(* Sessions, pending ids and validator codes are interchangeable. *)
Symmetric ==
  Permutations(Sessions) \cup Permutations(PendingIds) \cup Permutations(Codes)
================================================================================
