------------------------------ MODULE Playthroughs ------------------------------
(***************************************************************************)
(* The life of the playthroughs of one case.                               *)
(*                                                                         *)
(* A playthrough row is created against an exact published version under   *)
(* two durable caps, takes one accusation, is revealed, and may be pruned  *)
(* by a later creation or removed with its case by the operator.  Every    *)
(* request is served by a thread of the backend's pool.  It reads the      *)
(* playthrough row once, in the authorization dependency, and works from   *)
(* that copy: everything between that read and the transaction that ends   *)
(* the request may interleave with the other requests, with the operator   *)
(* and with a crash of the process.                                        *)
(*                                                                         *)
(* The Store serialises its write transactions with a lock of its own, one *)
(* per process.  A transaction that reads before it writes takes two       *)
(* steps, because SQLite opens the transaction at the first DML statement: *)
(* what the read saw is protected by the lock and by nothing else.         *)
(***************************************************************************)
EXTENDS Naturals, FiniteSets

CONSTANTS
  Ids,          \* playthrough ids that can be minted (bounds the creations)
  Versions,     \* version numbers of the case
  Charges,      \* bodies of an accusation that pass the schema
  Candidates,   \* charges inside the candidate universes of each version
  Workers,      \* threads that serve requests
  Stores,       \* Store instances, one per backend process
  StoreOf,      \* the Store of the process each worker belongs to
  MaxActive,    \* MAX_ACTIVE_PLAYTHROUGHS_PER_CASE
  MaxRetained,  \* MAX_RETAINED_PLAYTHROUGHS_PER_CASE
  TokenTTL,     \* PLAYTHROUGH_TOKEN_TTL_SECONDS
  MaxTime,      \* bound on the clock
  None          \* no row, no accusation, no owner of a lock

ASSUME ParameterTypes ==
  /\ Candidates \in [Versions -> SUBSET Charges]
  /\ StoreOf \in [Workers -> Stores]
  /\ MaxActive \in Nat \ {0}
  /\ MaxRetained \in Nat \ {0}
  /\ TokenTTL \in Nat \ {0}
  /\ MaxTime \in Nat
  /\ None \notin Charges
  /\ None \notin Workers

ASSUME FiniteIds == IsFiniteSet(Ids)

VARIABLES
  now,         \* the epoch clock
  caseExists,  \* the row of cases is there
  published,   \* versions that are PUBLISHED
  row,         \* table playthroughs: id -> row or None
  accusation,  \* table accusations: id -> charge or None
  lock,        \* Store._lock: store -> the worker inside a transaction
  req,         \* what each worker is doing
  minted,      \* ids already drawn (they are random and never drawn twice)
  verdicts,    \* history: the accusations ever committed for an id
  shown,       \* history: the accusations a reveal ever returned for an id
  truthShown   \* history: ids for which the canonical truth left the server

tables  == <<caseExists, published, row, accusation>>
history == <<verdicts, shown, truthShown>>
vars    == <<now, tables, lock, req, minted, history>>

PreAccusation  == {"CREATED", "PLAYING"}
RevealEligible == {"ACCUSED", "REVEALED"}
States         == PreAccusation \cup RevealEligible
Time           == 0 .. MaxTime
Rows == [version : Versions, state : States, created : Time,
         expires : 0 .. MaxTime + TokenTTL]

ASSUME NoneIsNoRow == None \notin Rows

(* A request carries the row as the authorization dependency read it. *)
Idle == [pc |-> "idle"]
Requests ==
  {Idle}
  \cup [pc : {"create"}, id : Ids, version : Versions, at : Time]
  \cup [pc : {"insert"}, id : Ids, version : Versions, at : Time,
        pruned : SUBSET Ids]
  \cup [pc : {"accuse", "submit"}, id : Ids, seen : Rows, charge : Charges]
  \cup [pc : {"reveal", "expose", "savegame", "export"}, id : Ids, seen : Rows]

--------------------------------------------------------------------------------
(* Queries on the tables *)

Present == {p \in Ids : row[p] # None}
OfVersion(v) == {p \in Present : row[p].version = v}

(* Rows that hold an active slot at instant t: not yet accused, token valid. *)
ActiveAt(v, t) ==
  {p \in OfVersion(v) : row[p].state \in PreAccusation /\ row[p].expires > t}

(* Mutant: retention forgets that only completed rows may go. *)
CompletedOrActive(v) == OfVersion(v)

Completed(v) == {p \in OfVersion(v) : row[p].state \in RevealEligible}

(* Mutant: the ORDER BY is missing. *)
AnyCompleted(v, n) == {V \in SUBSET Completed(v) : Cardinality(V) = n}

(* The n oldest completed rows; equal ages are ordered by the random id. *)
OldestCompleted(v, n) ==
  {V \in SUBSET Completed(v) :
     /\ Cardinality(V) = n
     /\ \A p \in V, q \in Completed(v) \ V : row[p].created <= row[q].created}

(* Rows to remove so that one more fits under the retained cap. *)
Excess(v) ==
  LET retained == Cardinality(OfVersion(v))
  IN  IF retained >= MaxRetained THEN retained - MaxRetained + 1 ELSE 0

(* Store.transaction holds the Store's lock from its first read to its
   commit.  Mutants: the lock is not taken; it is not given back. *)
AcquireNothing(w) == UNCHANGED lock
KeepLock(w)       == UNCHANGED lock

LockFree(w)   == lock[StoreOf[w]] = None
Acquire(w)    == lock' = [lock EXCEPT ![StoreOf[w]] = w]
Release(w)    == lock' = [lock EXCEPT ![StoreOf[w]] = None]
Finish(w)     == req' = [req EXCEPT ![w] = Idle]
Goto(w, step) == req' = [req EXCEPT ![w].pc = step]

--------------------------------------------------------------------------------
Init ==
  /\ now = 0
  /\ caseExists = TRUE
  /\ published = {}
  /\ row = [p \in Ids |-> None]
  /\ accusation = [p \in Ids |-> None]
  /\ lock = [s \in Stores |-> None]
  /\ req = [w \in Workers |-> Idle]
  /\ minted = {}
  /\ verdicts = [p \in Ids |-> {}]
  /\ shown = [p \in Ids |-> {}]
  /\ truthShown = {}

--------------------------------------------------------------------------------
(* POST /cases/{case}/versions/{version}/playthroughs *)

(* The creator is authorized, the instant is read and the id is minted before
   the Store is entered. *)
ReceiveCreate(w, p, v) ==
  /\ req[w] = Idle
  /\ caseExists
  /\ p \notin minted
  /\ minted' = minted \cup {p}
  /\ req' = [req EXCEPT ![w] =
               [pc |-> "create", id |-> p, version |-> v, at |-> now]]
  /\ UNCHANGED <<now, tables, lock, history>>

(* Mutants: one active row too many; a version is not looked up. *)
AdmissibleOffByOne(v, t) ==
  /\ v \in published
  /\ Cardinality(ActiveAt(v, t)) <= MaxActive
  /\ OldestCompleted(v, Excess(v)) # {}

Admissible(v, t) ==
  /\ v \in published
  /\ Cardinality(ActiveAt(v, t)) < MaxActive
  /\ OldestCompleted(v, Excess(v)) # {}

(* The SELECTs of create_playthrough_if_published, under the lock. *)
AdmitCreate(w) ==
  /\ req[w].pc = "create"
  /\ LockFree(w)
  /\ Admissible(req[w].version, req[w].at)
  /\ \E V \in OldestCompleted(req[w].version, Excess(req[w].version)) :
       req' = [req EXCEPT ![w] =
                 [pc |-> "insert", id |-> req[w].id, version |-> req[w].version,
                  at |-> req[w].at, pruned |-> V]]
  /\ Acquire(w)
  /\ UNCHANGED <<now, tables, minted, history>>

RefuseCreate(w) ==
  /\ req[w].pc = "create"
  /\ LockFree(w)
  /\ ~ Admissible(req[w].version, req[w].at)
  /\ Finish(w)
  /\ UNCHANGED <<now, tables, lock, minted, history>>

Expiry(t) == t + TokenTTL

(* The DML: prune, insert, commit.  The whole transaction rolls back when the
   database is locked, or when the insert violates the foreign key because its
   case is gone. *)
InsertRow(w) ==
  /\ req[w].pc = "insert"
  /\ \/ /\ caseExists
        /\ row' = [p \in Ids |->
             IF p = req[w].id
               THEN [version |-> req[w].version, state |-> "PLAYING",
                     created |-> req[w].at,
                     expires |-> Expiry(req[w].at)]
               ELSE IF p \in req[w].pruned THEN None ELSE row[p]]
        /\ accusation' = [p \in Ids |->
             IF p \in req[w].pruned THEN None ELSE accusation[p]]
     \/ UNCHANGED <<row, accusation>>
  /\ Release(w)
  /\ Finish(w)
  /\ UNCHANGED <<now, caseExists, published, minted, history>>

--------------------------------------------------------------------------------
(* require_playthrough: the row is read once and its token must be valid. *)

Authorized(p) == row[p] # None /\ now < row[p].expires

ReceiveAccusation(w, p, c) ==
  /\ req[w] = Idle
  /\ Authorized(p)
  /\ req' = [req EXCEPT ![w] =
               [pc |-> "accuse", id |-> p, seen |-> row[p], charge |-> c]]
  /\ UNCHANGED <<now, tables, lock, minted, history>>

ReceiveRead(w, p, op) ==
  /\ req[w] = Idle
  /\ Authorized(p)
  /\ req' = [req EXCEPT ![w] = [pc |-> op, id |-> p, seen |-> row[p]]]
  /\ UNCHANGED <<now, tables, lock, minted, history>>

(* POST /playthroughs/{id}/accusation: the pinned payload must exist, the
   state read at authorization must precede an accusation, and the charge must
   be made of candidates of the pinned version. *)
CheckAccusation(w) ==
  /\ req[w].pc = "accuse"
  /\ IF /\ req[w].seen.version \in published
        /\ req[w].seen.state \in PreAccusation
        /\ req[w].charge \in Candidates[req[w].seen.version]
       THEN Goto(w, "submit")
       ELSE Finish(w)
  /\ UNCHANGED <<now, tables, lock, minted, history>>

(* The guard of the compare-and-set.  Mutant: it is dropped. *)
StillThere(p) == row[p] # None

Accusable(p) == row[p] # None /\ row[p].state \in PreAccusation

(* insert_accusation_if_unaccused: the compare-and-set on the state and the
   insert of the immutable row, in one transaction, which may fail. *)
SubmitAccusation(w) ==
  LET p == req[w].id
      c == req[w].charge
  IN /\ req[w].pc = "submit"
     /\ LockFree(w)
     /\ \/ /\ Accusable(p)
           /\ row' = [row EXCEPT ![p].state = "ACCUSED"]
           /\ accusation' = [accusation EXCEPT ![p] = c]
           /\ verdicts' = [verdicts EXCEPT ![p] = @ \cup {c}]
        \/ UNCHANGED <<row, accusation, verdicts>>
     /\ Finish(w)
     /\ UNCHANGED <<now, caseExists, published, lock, minted, shown, truthShown>>

(* GET /playthroughs/{id}/reveal *)
CheckReveal(w) ==
  /\ req[w].pc = "reveal"
  /\ IF req[w].seen.version \in published THEN Goto(w, "expose") ELSE Finish(w)
  /\ UNCHANGED <<now, tables, lock, minted, history>>

Revealable(p) ==
  accusation[p] # None /\ row[p] # None /\ row[p].state \in RevealEligible

(* get_accusation_and_mark_revealed, a transaction that may fail, then the truth DTO. *)
ExposeTruth(w) ==
  LET p == req[w].id
  IN /\ req[w].pc = "expose"
     /\ LockFree(w)
     /\ \/ /\ Revealable(p)
           /\ row' = [row EXCEPT ![p].state = "REVEALED"]
           /\ shown' = [shown EXCEPT ![p] = @ \cup {accusation[p]}]
           /\ truthShown' = truthShown \cup {p}
        \/ UNCHANGED <<row, shown, truthShown>>
     /\ Finish(w)
     /\ UNCHANGED <<now, caseExists, published, accusation, lock, minted, verdicts>>

(* Mutant: the export is not gated. *)
ExportableInAnyState(seen) == seen.state \in States

Exportable(seen) == seen.state \in RevealEligible

(* GET /playthroughs/{id}/savegame: gated on the state read at authorization,
   reads only. *)
CheckSavegame(w) ==
  /\ req[w].pc = "savegame"
  /\ IF Exportable(req[w].seen) THEN Goto(w, "export") ELSE Finish(w)
  /\ UNCHANGED <<now, tables, lock, minted, history>>

ExportSavegame(w) ==
  /\ req[w].pc = "export"
  /\ truthShown' = IF req[w].seen.version \in published
                     THEN truthShown \cup {req[w].id} ELSE truthShown
  /\ Finish(w)
  /\ UNCHANGED <<now, tables, lock, minted, verdicts, shown>>

--------------------------------------------------------------------------------
(* The rest of the system *)

(* publish_transactionally: a version is published once and for good. *)
PublishVersion(v) ==
  /\ caseExists
  /\ v \notin published
  /\ published' = published \cup {v}
  /\ UNCHANGED <<now, caseExists, row, accusation, lock, req, minted, history>>

(* tools/delete_case, a process with a Store of its own: every row of the case
   goes in one transaction. *)
DeleteCase ==
  /\ caseExists
  /\ caseExists' = FALSE
  /\ published' = {}
  /\ row' = [p \in Ids |-> None]
  /\ accusation' = [p \in Ids |-> None]
  /\ UNCHANGED <<now, lock, req, minted, history>>

Tick ==
  /\ now < MaxTime
  /\ now' = now + 1
  /\ UNCHANGED <<tables, lock, req, minted, history>>

(* A backend process stops: its requests are dropped, an open transaction is
   rolled back, its lock goes with it. *)
Crash(s) ==
  /\ req' = [w \in Workers |-> IF StoreOf[w] = s THEN Idle ELSE req[w]]
  /\ lock' = [lock EXCEPT ![s] = None]
  /\ UNCHANGED <<now, tables, minted, history>>

--------------------------------------------------------------------------------
Receive(w) ==
  \E p \in Ids :
    \/ \E v \in Versions : ReceiveCreate(w, p, v)
    \/ \E c \in Charges : ReceiveAccusation(w, p, c)
    \/ \E op \in {"reveal", "savegame"} : ReceiveRead(w, p, op)

Serve(w) ==
  \/ AdmitCreate(w)
  \/ RefuseCreate(w)
  \/ InsertRow(w)
  \/ CheckAccusation(w)
  \/ SubmitAccusation(w)
  \/ CheckReveal(w)
  \/ ExposeTruth(w)
  \/ CheckSavegame(w)
  \/ ExportSavegame(w)

Next ==
  \/ \E w \in Workers : Receive(w) \/ Serve(w)
  \/ \E v \in Versions : PublishVersion(v)
  \/ \E s \in Stores : Crash(s)
  \/ DeleteCase
  \/ Tick

Spec == Init /\ [][Next]_vars

(* The pool runs the handlers it started; nobody has to send a request. *)
FairSpec == Spec /\ \A w \in Workers : WF_vars(Serve(w))

--------------------------------------------------------------------------------
(* Properties *)

TypeOK ==
  /\ now \in Time
  /\ caseExists \in BOOLEAN
  /\ published \in SUBSET Versions
  /\ row \in [Ids -> Rows \cup {None}]
  /\ accusation \in [Ids -> Charges \cup {None}]
  /\ lock \in [Stores -> Workers \cup {None}]
  /\ req \in [Workers -> Requests]
  /\ minted \in SUBSET Ids
  /\ verdicts \in [Ids -> SUBSET Charges]
  /\ shown \in [Ids -> SUBSET Charges]
  /\ truthShown \in SUBSET Ids

(* Concurrent creations never exceed the active cap of a pinned version: at
   most MaxActive of its rows are not accused and hold a token that is valid
   now, whatever instant each creation was admitted at
   (create_playthrough_if_published). *)
ActiveCap == \A v \in Versions : Cardinality(ActiveAt(v, now)) <= MaxActive

(* The rows kept for a pinned version never exceed the retained cap, pruning
   and insertion being one transaction. *)
RetainedCap == \A v \in Versions : Cardinality(OfVersion(v)) <= MaxRetained

(* Both caps hold at every instant, between the read and the write halves of
   concurrent creations too. *)
WithinBothCaps == ActiveCap /\ RetainedCap

(* The two tables agree: a playthrough has an accusation row exactly when its
   state says it was accused, and the accusation is made of candidates of the
   version the playthrough is pinned to. *)
VerdictMatchesState ==
  \A p \in Ids :
    /\ (accusation[p] # None) <=> (row[p] # None /\ row[p].state \in RevealEligible)
    /\ accusation[p] # None => accusation[p] \in Candidates[row[p].version]

(* The first accusation is the only one: no id ever has two accepted
   accusations, and every reveal returns the accepted one, however accusation,
   reveal, pruning and deletion interleave. *)
OneVerdict ==
  \A p \in Ids :
    /\ Cardinality(verdicts[p]) <= 1
    /\ accusation[p] # None => accusation[p] \in verdicts[p]
    /\ shown[p] \subseteq verdicts[p]

(* The tables agree on the one verdict that each playthrough has. *)
VerdictsAgree == VerdictMatchesState /\ OneVerdict

(* Neither the reveal nor the savegame export, which is gated on a stale copy
   of the row, lets the truth out before an accusation was committed. *)
TruthAfterVerdict == \A p \in truthShown : verdicts[p] # {}

(* A playthrough is pinned to a published version of a case that exists. *)
PinnedToPublished ==
  \A p \in Ids : row[p] # None => caseExists /\ row[p].version \in published

(* A row in the table keeps its pin and its dates, and its state only moves
   forward; an id that was removed never returns. *)
Rank(state) == CASE state = "CREATED"  -> 0
                 [] state = "PLAYING"  -> 1
                 [] state = "ACCUSED"  -> 2
                 [] state = "REVEALED" -> 3

PinNeverMoves ==
  [][\A p \in Ids :
       /\ (row[p] # None /\ row'[p] # None) =>
            /\ row'[p].version = row[p].version
            /\ row'[p].created = row[p].created
            /\ row'[p].expires = row[p].expires
            /\ Rank(row[p].state) <= Rank(row'[p].state)
       /\ (row[p] = None /\ row'[p] # None) => verdicts[p] = {}]_vars

(* Short of deleting the case, a row leaves the table only when it is
   completed and no older completed row of its version stays behind. *)
OnlyOldestCompletedPruned ==
  [][\A p \in Ids :
       (row[p] # None /\ row'[p] = None /\ caseExists') =>
          /\ row[p].state \in RevealEligible
          /\ \A q \in Completed(row[p].version) :
               row'[q] # None => row[p].created <= row[q].created]_vars

(* Every request that was received is answered: no thread waits for the lock
   of its Store for ever. *)
RequestsEnd == \A w \in Workers : req[w] # Idle ~> req[w] = Idle

(* The implementation of the contract.  A seat is a row of the table; the
   verdict is the accepted accusation, which outlives its row. *)
SeatOf(p) ==
  IF row[p] = None THEN None
  ELSE [version |-> row[p].version, since |-> row[p].created,
        until |-> row[p].expires, revealed |-> row[p].state = "REVEALED"]

VerdictOf(p) == IF verdicts[p] = {} THEN None ELSE CHOOSE c \in verdicts[p] : TRUE

SeatsNow    == [p \in Ids |-> SeatOf(p)]
VerdictsNow == [p \in Ids |-> VerdictOf(p)]

Contract == INSTANCE PlaythroughContract WITH
              clock <- now, open <- published, seat <- SeatsNow,
              verdict <- VerdictsNow, told <- truthShown

ASSUME NoneIsNoSeat == None \notin Contract!Seats

(* With one Store, the threads' interleavings of read, check and transaction
   amount to serving each request at one instant. *)
ImplementsContract == Contract!Spec
================================================================================
