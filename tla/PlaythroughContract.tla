-------------------------- MODULE PlaythroughContract --------------------------
(***************************************************************************)
(* What the players and the creator of a case are promised, with every     *)
(* request served at a single instant: no threads, no lock, no copies of   *)
(* rows.  A player takes a seat at a published version if the version has  *)
(* room, is given one verdict for life, and learns the truth only then.    *)
(* Playthroughs implements this specification when its workers share one   *)
(* Store.                                                                  *)
(***************************************************************************)
EXTENDS Naturals, FiniteSets

CONSTANTS Ids, Versions, Charges, Candidates, MaxActive, MaxRetained, TokenTTL,
          MaxTime, None

VARIABLES
  clock,    \* the time
  open,     \* versions that can be played
  seat,     \* id -> None, or where and when the player sits
  verdict,  \* id -> None, or the accusation made; never withdrawn
  told      \* ids that were told the truth

vars == <<clock, open, seat, verdict, told>>

Seats == [version : Versions, since : 0 .. MaxTime,
          until : 0 .. MaxTime + TokenTTL, revealed : BOOLEAN]

Held(v) == {p \in Ids : seat[p] # None /\ seat[p].version = v}
Done(v) == {p \in Held(v) : verdict[p] # None}
Live(v, t) == {p \in Held(v) \ Done(v) : seat[p].until > t}

Init ==
  /\ clock = 0
  /\ open = {}
  /\ seat = [p \in Ids |-> None]
  /\ verdict = [p \in Ids |-> None]
  /\ told = {}

(* Leavers are the oldest players that are done, no more than needed for the
   new one to fit. *)
MakeRoom(v, leavers) ==
  /\ leavers \subseteq Done(v)
  /\ \A p \in leavers, q \in Done(v) \ leavers : seat[p].since <= seat[q].since
  /\ Cardinality(Held(v) \ leavers) < MaxRetained
  /\ leavers # {} => Cardinality(Held(v) \ leavers) = MaxRetained - 1

(* The instant of admission may have passed by the time the seat is taken. *)
Enter(p, v, t, leavers) ==
  /\ v \in open
  /\ seat[p] = None /\ verdict[p] = None
  /\ t <= clock
  /\ Cardinality(Live(v, t)) < MaxActive
  /\ MakeRoom(v, leavers)
  /\ seat' = [q \in Ids |->
       IF q = p THEN [version |-> v, since |-> t, until |-> t + TokenTTL,
                      revealed |-> FALSE]
       ELSE IF q \in leavers THEN None ELSE seat[q]]
  /\ UNCHANGED <<clock, open, verdict, told>>

Accuse(p, c) ==
  /\ seat[p] # None /\ verdict[p] = None
  /\ c \in Candidates[seat[p].version]
  /\ verdict' = [verdict EXCEPT ![p] = c]
  /\ UNCHANGED <<clock, open, seat, told>>

Reveal(p) ==
  /\ seat[p] # None /\ verdict[p] # None
  /\ seat' = [seat EXCEPT ![p].revealed = TRUE]
  /\ told' = told \cup {p}
  /\ UNCHANGED <<clock, open, verdict>>

(* The export serves the copy the player holds, even of a seat that is gone. *)
Export(p) ==
  /\ verdict[p] # None
  /\ told' = told \cup {p}
  /\ UNCHANGED <<clock, open, seat, verdict>>

Publish(v) ==
  /\ open' = open \cup {v}
  /\ UNCHANGED <<clock, seat, verdict, told>>

Close ==
  /\ open' = {}
  /\ seat' = [p \in Ids |-> None]
  /\ UNCHANGED <<clock, verdict, told>>

Pass ==
  /\ clock < MaxTime
  /\ clock' = clock + 1
  /\ UNCHANGED <<open, seat, verdict, told>>

Next ==
  \/ \E p \in Ids :
       \/ \E v \in Versions, t \in 0 .. MaxTime, leavers \in SUBSET Ids :
            Enter(p, v, t, leavers)
       \/ \E c \in Charges : Accuse(p, c)
       \/ Reveal(p)
       \/ Export(p)
  \/ \E v \in Versions : Publish(v)
  \/ Close
  \/ Pass

Spec == Init /\ [][Next]_vars
================================================================================
