---------------------------- MODULE AttemptLifecycle ----------------------------
(***************************************************************************)
(* What the generation lifecycle promises of its attempts: each one        *)
(* follows the transition table of the CaseVersion state machine, starting *)
(* an attempt ends the one before it, and a session holds one admission    *)
(* reservation for each of its attempts that has not ended, no more.       *)
(***************************************************************************)
EXTENDS Naturals

CONSTANTS Attempts, Sessions, None

VARIABLES
  life,      \* state of each attempt, "ABSENT" before it is started
  holder,    \* session that started it
  reserved   \* reservations each session holds

States == {"DRAFT", "GENERATING", "VALIDATING", "REPAIRING", "PUBLISHED", "FAILED"}
Terminal == {"PUBLISHED", "FAILED"}

Allowed ==
  [ABSENT     |-> {},
   DRAFT      |-> {"GENERATING"},
   GENERATING |-> {"VALIDATING", "FAILED"},
   VALIDATING |-> {"PUBLISHED", "REPAIRING", "GENERATING", "FAILED"},
   REPAIRING  |-> {"VALIDATING", "FAILED"},
   PUBLISHED  |-> {},
   FAILED     |-> {}]

Open(n) == life[n] \in States \ Terminal

Init ==
  /\ life = [n \in Attempts |-> "ABSENT"]
  /\ holder = [n \in Attempts |-> None]
  /\ reserved = [s \in Sessions |-> 0]

(* Starting n ends every attempt that is open, and a reservation moves with
   each of them. *)
Start(n, s) ==
  /\ life[n] = "ABSENT"
  /\ life' = [m \in Attempts |-> IF m = n THEN "DRAFT"
                                 ELSE IF Open(m) THEN "FAILED" ELSE life[m]]
  /\ holder' = [holder EXCEPT ![n] = s]
  /\ \/ /\ \A m \in Attempts : ~ Open(m)
        /\ reserved' = [reserved EXCEPT ![s] = @ + 1]
     \/ \E m \in Attempts :
          /\ Open(m)
          /\ reserved' = [t \in Sessions |->
                            IF holder[m] = s THEN reserved[t]
                            ELSE IF t = s THEN reserved[t] + 1
                            ELSE IF t = holder[m] THEN reserved[t] - 1
                            ELSE reserved[t]]

Move(n, target) ==
  /\ target \in Allowed[life[n]]
  /\ life' = [life EXCEPT ![n] = target]
  /\ reserved' = IF target \in Terminal
                   THEN [reserved EXCEPT ![holder[n]] = @ - 1]
                   ELSE reserved
  /\ UNCHANGED holder

Next ==
  \/ \E n \in Attempts, s \in Sessions : Start(n, s)
  \/ \E n \in Attempts, target \in States : Move(n, target)

Spec == Init /\ [][Next]_<<life, holder, reserved>>
================================================================================
