---------------------------- MODULE MCBridgeRelay ----------------------------
(* A small instance of BridgeRelay: a creator session with two bridge sessions and
   the calls, and another creator session with one bridge session. *)
EXTENDS BridgeRelay, TLC

CONSTANTS s1, s2, s3, c1, c2, l1, l2, l3, p1, p2

MCScopeOf   == s1 :> p1 @@ s2 :> p1 @@ s3 :> p2
MCCallScope == [c \in Calls |-> p1]
Symmetry    == Permutations(Links) \cup Permutations(Calls) \cup Permutations({s1, s2})
================================================================================
