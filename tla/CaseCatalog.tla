------------------------------- MODULE CaseCatalog -------------------------------
(***************************************************************************)
(* What the persistence of generated cases promises its readers, players   *)
(* and creators alike.                                                     *)
(*                                                                         *)
(* A version of a case is open from the moment its generation is recorded, *)
(* and is decided at most once: it is published, which shows it to players *)
(* with everything it consists of, or it fails.  A decision is for good.   *)
(* Versions only ever disappear all together, with their case, and the     *)
(* case does not come back.                                                *)
(***************************************************************************)
CONSTANTS Cases, Versions

VARIABLES
  shown,  \* what a reader is told of each version
  gone    \* cases that were deleted

vars == <<shown, gone>>

Lives == {"none", "open", "failed", "published"}

Init ==
  /\ shown = [c \in Cases |-> [v \in Versions |-> "none"]]
  /\ gone = {}

(* A generation is recorded, open or failed already. *)
Record(c, v) ==
  /\ c \notin gone
  /\ shown[c][v] = "none"
  /\ \E life \in {"open", "failed"} : shown' = [shown EXCEPT ![c][v] = life]
  /\ UNCHANGED gone

Decide(c, v) ==
  /\ shown[c][v] = "open"
  /\ \E life \in {"failed", "published"} : shown' = [shown EXCEPT ![c][v] = life]
  /\ UNCHANGED gone

Delete(c) ==
  /\ shown' = [shown EXCEPT ![c] = [v \in Versions |-> "none"]]
  /\ gone' = gone \cup {c}

Next ==
  \/ \E c \in Cases, v \in Versions : Record(c, v) \/ Decide(c, v)
  \/ \E c \in Cases : Delete(c)

Spec == Init /\ [][Next]_vars
================================================================================
