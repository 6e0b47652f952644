----------------------------- MODULE CasePublication -----------------------------
(***************************************************************************)
(* The durable life of the versions of a case.                             *)
(*                                                                         *)
(* A request generates a draft in memory and then records it: the case (if *)
(* it is new), its version and its attempt in one transaction.  A draft    *)
(* that the controller published is recorded as VALIDATING; Gate 3 decides *)
(* about it once more, and one transaction stores the payload and flips    *)
(* version and attempt to PUBLISHED.  When the gate or the publication     *)
(* fails, version and attempt are marked FAILED in two transactions, whose *)
(* own failure is swallowed.                                               *)
(*                                                                         *)
(* Requests of one case interleave, any transaction may find the database  *)
(* locked and roll back, the operator's process deletes a case between two *)
(* steps of a request, and the process stops between any two.              *)
(*                                                                         *)
(* Admission is a module of its own (Admission): here a run may end        *)
(* without anything to record.                                             *)
(***************************************************************************)
EXTENDS Naturals, FiniteSets

CONSTANTS
  Cases,       \* ids of cases, never drawn twice
  Requests,    \* threads that serve requests (bound)
  MaxVersion,  \* bound on the versions of a case
  None

ASSUME MaxVersionIsPositive == MaxVersion \in Nat \ {0}

Versions == 1 .. MaxVersion
States   == {"VALIDATING", "PUBLISHED", "FAILED"}

VARIABLES
  next,      \* cases.next_version, or None without a row
  version,   \* case_versions.state, or None
  attempt,   \* generation_attempts.status, or None
  payload,   \* the rows of published_versions
  minted,    \* case ids that were drawn
  req,       \* the request each thread serves
  abandoned, \* history: versions whose request died or could not mark them
  deleted    \* history: cases the operator deleted

vars == <<next, version, attempt, payload, minted, req, abandoned, deleted>>

Tables == <<next, version, attempt, payload>>

ASSUME NoneIsNothing == None \notin Nat \cup States

Idle == [pc |-> "idle"]

At(w, pc) == req[w].pc = pc
Go(w, pc) == req' = [req EXCEPT ![w].pc = pc]
Done(w)   == req' = [req EXCEPT ![w] = Idle]

Exists(c)  == next[c] # None
Mine(w)    == <<req[w].case, req[w].version>>

(* The request gives up on a version it could not mark. *)
Abandon(w) == abandoned' = abandoned \cup {Mine(w)} /\ Done(w)

--------------------------------------------------------------------------------
Init ==
  /\ next = [c \in Cases |-> None]
  /\ version = [c \in Cases |-> [v \in Versions |-> None]]
  /\ attempt = [c \in Cases |-> [v \in Versions |-> None]]
  /\ payload = {}
  /\ minted = {}
  /\ req = [w \in Requests |-> Idle]
  /\ abandoned = {}
  /\ deleted = {}

--------------------------------------------------------------------------------
(* start_case_generation draws a new case, whose first version is 1. *)
StartCase(w, c) ==
  /\ At(w, "idle")
  /\ c \notin minted
  /\ minted' = minted \cup {c}
  /\ req' = [req EXCEPT ![w] = [pc |-> "run", case |-> c, version |-> 1, new |-> TRUE,
                                state |-> None]]
  /\ UNCHANGED <<Tables, abandoned, deleted>>

(* start_case_version looks the case up, then allocates a version of it. *)
CheckCase(w, c) ==
  /\ At(w, "idle")
  /\ Exists(c)
  /\ next[c] \in Versions
  /\ req' = [req EXCEPT ![w] = [pc |-> "allocate", case |-> c, version |-> next[c],
                                new |-> FALSE, state |-> None]]
  /\ UNCHANGED <<Tables, minted, abandoned, deleted>>

(* Mutant: the number the UPDATE returns. *)
ReturnedNumber(w) == next[req[w].case] + 1

Number(w) == next[req[w].case]

(* allocate_version: one UPDATE, before the admission; the number is used up
   whatever becomes of the request. *)
Allocate(w) ==
  LET c == req[w].case
  IN  /\ At(w, "allocate")
      /\ \/ /\ Exists(c)
            /\ next[c] \in Versions
            /\ next' = [next EXCEPT ![c] = @ + 1]
            /\ req' = [req EXCEPT ![w].pc = "run", ![w].version = Number(w)]
         \/ Done(w) /\ UNCHANGED next
      /\ UNCHANGED <<version, attempt, payload, minted, abandoned, deleted>>

(* _run_generation: refused, raised, or a terminal record to persist. *)
Run(w) ==
  /\ At(w, "run")
  /\ \/ Done(w)
     \/ \E state \in {"PUBLISHED", "FAILED"} :
          req' = [req EXCEPT ![w].pc = "persist", ![w].state = state]
  /\ UNCHANGED <<Tables, minted, abandoned, deleted>>

(* Mutant: the record's own state is stored. *)
OwnState(state) == state

(* _pre_publish_snapshot *)
StoredState(state) == IF state = "PUBLISHED" THEN "VALIDATING" ELSE state

(* Mutant: the foreign key is not enforced. *)
SameKey(w) == version[req[w].case][req[w].version] # None

(* The keys that make the INSERTs of _persist_creation fail. *)
Conflict(w) ==
  LET c == req[w].case
  IN  \/ req[w].new = Exists(c)
      \/ version[c][req[w].version] # None

(* _persist_creation, and the verdict of Gate 3 with its repair. *)
Persist(w) ==
  LET c == req[w].case
      v == req[w].version
  IN  /\ At(w, "persist")
      /\ \/ /\ ~ Conflict(w)
            /\ next' = IF req[w].new THEN [next EXCEPT ![c] = v + 1] ELSE next
            /\ version' = [version EXCEPT ![c][v] = StoredState(req[w].state)]
            /\ attempt' = [attempt EXCEPT ![c][v] = StoredState(req[w].state)]
            /\ IF req[w].state = "PUBLISHED"
                 THEN \E pc \in {"publish", "markVersion"} : Go(w, pc)
                 ELSE Done(w)
         \/ Done(w) /\ UNCHANGED <<next, version, attempt>>
      /\ UNCHANGED <<payload, minted, abandoned, deleted>>

(* What publish_transactionally requires. *)
Publishable(c, v) == attempt[c][v] = "VALIDATING" /\ <<c, v>> \notin payload

(* Mutant: a failed publication is not marked. *)
LeftAsItIs(w) == Done(w)

Committed(w)  == Done(w)
RolledBack(w) == Go(w, "markVersion")

(* publish_transactionally; a refusal, a payload that does not serialize and a
   locked database all roll back and leave the marking of the failure.  A
   duplicate would be raised without marking, but there is none: a version has
   no payload before the one request that works on it publishes it (TablesAgree). *)
Publish(w) ==
  LET c == req[w].case
      v == req[w].version
  IN  /\ At(w, "publish")
      /\ \/ /\ Publishable(c, v)
            /\ payload' = payload \cup {<<c, v>>}
            /\ version' = [version EXCEPT ![c][v] = IF @ = None THEN @ ELSE "PUBLISHED"]
            /\ attempt' = [attempt EXCEPT ![c][v] = "PUBLISHED"]
            /\ Committed(w)
         \/ RolledBack(w) /\ UNCHANGED <<version, attempt, payload>>
      /\ UNCHANGED <<next, minted, abandoned, deleted>>

(* The failure is marked on the version first; when that raises, the attempt is
   not marked either. *)
MarkVersion(w) ==
  LET c == req[w].case
      v == req[w].version
  IN  /\ At(w, "markVersion")
      /\ \/ /\ version' = [version EXCEPT ![c][v] = IF @ = None THEN @ ELSE "FAILED"]
            /\ Go(w, "markAttempt")
            /\ UNCHANGED abandoned
         \/ Abandon(w) /\ UNCHANGED version
      /\ UNCHANGED <<next, attempt, payload, minted, deleted>>

(* upsert_generation_attempt updates the row, or inserts it if the case is
   still there. *)
AttemptAccepted(c, v) == attempt[c][v] # None \/ Exists(c)

MarkAttempt(w) ==
  LET c == req[w].case
      v == req[w].version
  IN  /\ At(w, "markAttempt")
      /\ \/ /\ AttemptAccepted(c, v)
            /\ attempt' = [attempt EXCEPT ![c][v] = "FAILED"]
            /\ Done(w)
            /\ UNCHANGED abandoned
         \/ Abandon(w) /\ UNCHANGED attempt
      /\ UNCHANGED <<next, version, payload, minted, deleted>>

--------------------------------------------------------------------------------
(* delete_case_cascade, in the process of the operator. *)
DeleteCase(c) ==
  /\ Exists(c)
  /\ next' = [next EXCEPT ![c] = None]
  /\ version' = [version EXCEPT ![c] = [v \in Versions |-> None]]
  /\ attempt' = [attempt EXCEPT ![c] = [v \in Versions |-> None]]
  /\ payload' = {p \in payload : p[1] # c}
  /\ deleted' = deleted \cup {c}
  /\ UNCHANGED <<minted, req, abandoned>>

(* The process of the service stops and starts again. *)
Crash ==
  /\ req' = [w \in Requests |-> Idle]
  /\ abandoned' = abandoned \cup {Mine(w) : w \in {x \in Requests : ~ At(x, "idle")}}
  /\ UNCHANGED <<Tables, minted, deleted>>

Serve(w) ==
  \/ Allocate(w) \/ Run(w) \/ Persist(w) \/ Publish(w)
  \/ MarkVersion(w) \/ MarkAttempt(w)

Next ==
  \/ \E w \in Requests :
       \/ \E c \in Cases : StartCase(w, c) \/ CheckCase(w, c)
       \/ Serve(w)
  \/ \E c \in Cases : DeleteCase(c)
  \/ Crash

Spec == Init /\ [][Next]_vars

--------------------------------------------------------------------------------
(* Properties *)

InRequest ==
  {Idle}
  \cup [pc : {"allocate", "run", "persist", "publish", "markVersion", "markAttempt"},
        case : Cases, version : Versions, new : BOOLEAN,
        state : {"PUBLISHED", "FAILED", None}]

(* Every variable keeps to its type. *)
TypeOK ==
  /\ next \in [Cases -> (1 .. MaxVersion + 1) \cup {None}]
  /\ version \in [Cases -> [Versions -> States \cup {None}]]
  /\ attempt \in [Cases -> [Versions -> States \cup {None}]]
  /\ payload \subseteq Cases \X Versions
  /\ minted \subseteq Cases
  /\ req \in [Requests -> InRequest]
  /\ abandoned \subseteq Cases \X Versions
  /\ deleted \subseteq minted

(* A version is PUBLISHED exactly when its payload is stored and its attempt is
   PUBLISHED: no reader ever sees a published version without a payload, or a
   payload of a version that failed, whatever rolled back or was deleted. *)
PublishedTogether ==
  \A c \in Cases, v \in Versions :
    /\ (version[c][v] = "PUBLISHED") <=> (<<c, v>> \in payload)
    /\ (attempt[c][v] = "PUBLISHED") <=> (<<c, v>> \in payload)

(* No row outlives its case: a request that goes on after the operator deleted
   the case leaves nothing behind. *)
NoOrphans ==
  \A c \in Cases, v \in Versions :
    /\ version[c][v] # None => Exists(c) /\ v < next[c]
    /\ (attempt[c][v] # None) <=> (version[c][v] # None)

(* The three tables stay together. *)
TablesAgree == PublishedTogether /\ NoOrphans

(* Two requests never work on the same version of a case, and the version one
   works on is not recorded before the request records it. *)
VersionsAreUnique ==
  \A w \in Requests : req[w].pc \in {"run", "persist"} =>
    /\ version[req[w].case][req[w].version] = None
    /\ \A x \in Requests \ {w} :
         req[x].pc \notin {"idle", "allocate"} => Mine(x) # Mine(w)

(* Only a crash, or a database that stays locked, leaves a version undecided,
   or its attempt undecided when the version failed: otherwise a request is
   still at work on it. *)
UndecidedIsAttended ==
  \A c \in Cases, v \in Versions :
    "VALIDATING" \in {version[c][v], attempt[c][v]} =>
      \/ <<c, v>> \in abandoned
      \/ \E w \in Requests :
           /\ req[w].pc \in {"publish", "markVersion", "markAttempt"}
           /\ Mine(w) = <<c, v>>

(* A version that was decided stays as it is for as long as its case exists: a
   failed version is not published later, and a published one does not fail. *)
DecisionsStand ==
  [][\A c \in Cases, v \in Versions :
       version[c][v] \in {"PUBLISHED", "FAILED"} /\ next'[c] # None =>
         version'[c][v] = version[c][v]]_vars

(* What a reader is told: the state of the version. *)
Life(state) ==
  CASE state = None         -> "none"
    [] state = "VALIDATING" -> "open"
    [] state = "FAILED"     -> "failed"
    [] state = "PUBLISHED"  -> "published"

Catalog == INSTANCE CaseCatalog WITH
  shown <- [c \in Cases |-> [v \in Versions |-> Life(version[c][v])]],
  gone  <- deleted

(* The tables implement the catalog. *)
ImplementsCatalog == Catalog!Spec
================================================================================
