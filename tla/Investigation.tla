----------------------------- MODULE Investigation -----------------------------
(***************************************************************************)
(* The investigation of a case: what one playthrough knows.                *)
(*                                                                         *)
(* The handlers of the investigation and of the witnesses work on the      *)
(* table player_knowledge next to those of Playthroughs, on the same rows, *)
(* with the same threads and the same lock of the Store.  A handler makes  *)
(* several transactions: it ensures the knowledge row, reads a snapshot,   *)
(* decides, and then marks one thing after the other.  Each mark reads the *)
(* JSON columns of the row, and writes back those it changed.              *)
(***************************************************************************)
EXTENDS Playthroughs, Sequences

CONSTANTS
  Subjects,     \* requests of a player: the bodies of the operations
  Evidence,     \* evidence records of the case
  Locations,    \* locations of its world graph
  Objects,      \* visible placements
  Linked,       \* the evidence an object is linked to, or None
  PlacedAt,     \* the location of an object
  LocationsOf,  \* the sorted locations of all placements of an evidence
  Questions,    \* pairs of a witness and a question
  Grounding     \* the sorted discoverable evidence that grounds an answer

(* An interaction matches when it is the one published for the object; a
   decorative object that links no evidence takes any. *)
AllSubjects ==
  [op : {"bootstrap"}]
  \cup [op : {"interact"}, object : Objects, matches : BOOLEAN]
  \cup [op : {"read"}, evidence : Evidence]
  \cup [op : {"interview"}, question : Questions]

ASSUME PayloadTypes ==
  /\ Subjects \subseteq AllSubjects
  /\ Linked \in [Objects -> Evidence \cup {None}]
  /\ PlacedAt \in [Objects -> Locations]
  /\ LocationsOf \in [Evidence -> Seq(Locations)]
  /\ Grounding \in [Questions -> Seq(Evidence)]
  /\ \A o \in Objects : Linked[o] # None =>
       \E i \in DOMAIN LocationsOf[Linked[o]] :
         LocationsOf[Linked[o]][i] = PlacedAt[o]

VARIABLES
  knowledge,    \* table player_knowledge: id -> row or None
  ask,          \* what each worker is doing for the investigation
  toldFound,    \* history: evidence an answer presented as found
  toldOpened    \* history: pairs (evidence, opening time) shown by an answer

answers    == <<toldFound, toldOpened>>
allVars    == <<vars, knowledge, ask, answers>>

Marks == [discovered : SUBSET Evidence, read : SUBSET Evidence,
          visited : SUBSET Locations]

KnowledgeRows ==
  [discovered : SUBSET Evidence, read : SUBSET Evidence,
   visited : SUBSET Locations, opened : [Evidence -> Time \cup {None}]]

ASSUME NoneIsNotKnown == None \notin Time /\ None \notin KnowledgeRows

NothingKnown ==
  [discovered |-> {}, read |-> {}, visited |-> {},
   opened |-> [e \in Evidence |-> None]]

(* What the marks of one transaction add. *)
Discovery(e, places) == [discovered |-> {e}, read |-> {}, visited |-> places]
Opening(e)           == [discovered |-> {}, read |-> {e}, visited |-> {}]
Visit(l)             == [discovered |-> {}, read |-> {}, visited |-> {l}]

InitInvestigation ==
  /\ Init
  /\ knowledge = [p \in Ids |-> None]
  /\ ask = [w \in Workers |-> Idle]
  /\ toldFound = [p \in Ids |-> {}]
  /\ toldOpened = [p \in Ids |-> {}]

Lifecycle == <<now, tables, req, minted, history>>

Answer(w)     == ask' = [ask EXCEPT ![w] = Idle]
Proceed(w, r) == ask' = [ask EXCEPT ![w] = r]

(* The fields a request carries from step to step. *)
At(w, step) == [pc |-> step, id |-> ask[w].id, seen |-> ask[w].seen,
                subject |-> ask[w].subject, at |-> ask[w].at]

--------------------------------------------------------------------------------
(* require_playthrough: the row is read once. *)
ReceiveQuestion(w, p, s) ==
  /\ ask[w] = Idle /\ req[w] = Idle
  /\ Authorized(p)
  /\ Proceed(w, [pc |-> "check", id |-> p, seen |-> row[p], subject |-> s])
  /\ UNCHANGED <<vars, knowledge, answers>>

(* The pinned payload must be there; only the bootstrap is served to a
   playthrough that is not PLAYING; an ungrounded answer of a witness changes
   nothing.  The clock is read here: it dates a first opening. *)
CheckQuestion(w) ==
  LET s == ask[w].subject
  IN /\ ask[w].pc = "check"
     /\ IF /\ ask[w].seen.version \in published
           /\ s.op = "bootstrap" \/ ask[w].seen.state = "PLAYING"
           /\ s.op = "interview" => Grounding[s.question] # <<>>
          THEN Proceed(w, [pc |-> "ensure", id |-> ask[w].id,
                           seen |-> ask[w].seen, subject |-> s, at |-> now])
          ELSE Answer(w)
     /\ UNCHANGED <<vars, knowledge, answers>>

(* get_or_create_player_knowledge: the SELECTs *)
EnsureRow(w) ==
  LET p == ask[w].id
  IN /\ ask[w].pc = "ensure"
     /\ LockFree(w)
     /\ \/ /\ knowledge[p] # None
           /\ Proceed(w, At(w, "look"))
           /\ UNCHANGED lock
        \/ /\ knowledge[p] = None /\ row[p] = None
           /\ Answer(w)
           /\ UNCHANGED lock
        \/ /\ knowledge[p] = None /\ row[p] # None
           /\ Proceed(w, At(w, "create"))
           /\ Acquire(w)
     /\ UNCHANGED <<Lifecycle, knowledge, answers>>

(* ... and the INSERT, refused by the primary key, by the foreign key, or
   because the database is locked. *)
CreateRow(w) ==
  LET p == ask[w].id
  IN /\ ask[w].pc = "create"
     /\ \/ /\ row[p] # None /\ knowledge[p] = None
           /\ knowledge' = [knowledge EXCEPT ![p] = NothingKnown]
           /\ Proceed(w, At(w, "look"))
        \/ Answer(w) /\ UNCHANGED knowledge
     /\ Release(w)
     /\ UNCHANGED <<Lifecycle, answers>>

--------------------------------------------------------------------------------
(* snapshot_player_knowledge, read outside the lock, and the decision taken
   on it.  A row that went away reads as an empty snapshot. *)

Snapshot(p) == IF knowledge[p] = None THEN NothingKnown ELSE knowledge[p]

Looking(w, op) == ask[w].pc = "look" /\ ask[w].subject.op = op

(* Run the marks in order, then answer. *)
Mark(w, marks) ==
  Proceed(w, [pc |-> "mark", id |-> ask[w].id, seen |-> ask[w].seen,
              subject |-> ask[w].subject, marks |-> marks, at |-> ask[w].at])

AnswerBootstrap(w) ==
  LET p == ask[w].id
  IN /\ Looking(w, "bootstrap")
     /\ toldFound' = [toldFound EXCEPT ![p] = @ \cup Snapshot(p).discovered]
     /\ Answer(w)
     /\ UNCHANGED <<vars, knowledge, toldOpened>>

(* interact_with_object: the interaction must be the published one. *)
RefuseInteraction(w) ==
  /\ Looking(w, "interact")
  /\ ~ ask[w].subject.matches
  /\ Answer(w)
  /\ UNCHANGED <<vars, knowledge, answers>>

(* A neutral inspection only marks the place. *)
InspectObject(w) ==
  LET o == ask[w].subject.object
  IN /\ Looking(w, "interact")
     /\ ask[w].subject.matches
     /\ Linked[o] = None
     /\ Mark(w, << Visit(PlacedAt[o]) >>)
     /\ UNCHANGED <<vars, knowledge, answers>>

(* discover_evidence: the payload is read again, and the marks are skipped
   when the snapshot already holds the evidence. *)
DiscoverEvidence(w) ==
  LET p == ask[w].id
      o == ask[w].subject.object
      e == Linked[o]
      places == LocationsOf[e]
  IN /\ Looking(w, "interact")
     /\ ask[w].subject.matches
     /\ e # None
     /\ \/ /\ ask[w].seen.version \notin published
           /\ Answer(w)
           /\ UNCHANGED answers
        \/ /\ ask[w].seen.version \in published
           /\ e \in Snapshot(p).discovered
           /\ toldFound' = [toldFound EXCEPT ![p] = @ \cup {e}]
           /\ Answer(w)
           /\ UNCHANGED toldOpened
        \/ /\ ask[w].seen.version \in published
           /\ e \notin Snapshot(p).discovered
           /\ Mark(w, << Discovery(e, {places[1]}) >> \o
                      [i \in 1 .. Len(places) - 1 |-> Visit(places[i + 1])])
           /\ UNCHANGED answers
     /\ UNCHANGED <<vars, knowledge>>

(* read_record: only what was discovered is opened. *)
OpenRecord(w) ==
  LET e == ask[w].subject.evidence
  IN /\ Looking(w, "read")
     /\ IF e \in Snapshot(ask[w].id).discovered
          THEN Mark(w, << Opening(e) >>)
          ELSE Answer(w)
     /\ UNCHANGED <<vars, knowledge, answers>>

(* Mutant: a record is read before it is discovered. *)
ReadThenDiscover(records) ==
  [i \in 1 .. 2 * Len(records) |->
     IF i % 2 = 1 THEN Opening(records[(i + 1) \div 2])
                  ELSE Discovery(records[i \div 2], {})]

DiscoverThenRead(records) ==
  [i \in 1 .. 2 * Len(records) |->
     IF i % 2 = 1 THEN Discovery(records[(i + 1) \div 2], {})
                  ELSE Opening(records[i \div 2])]

(* interview_witness: each record that grounds the answer is discovered, then
   read. *)
InterviewWitness(w) ==
  /\ Looking(w, "interview")
  /\ Mark(w, DiscoverThenRead(Grounding[ask[w].subject.question]))
  /\ UNCHANGED <<vars, knowledge, answers>>

--------------------------------------------------------------------------------
(* mark_discovered, mark_visited, mark_read *)

AddsTo(mark, k) == ~ /\ mark.discovered \subseteq k.discovered
                     /\ mark.read \subseteq k.read
                     /\ mark.visited \subseteq k.visited

(* Only the columns that gained something are written, with the value that was
   read plus the gain. *)
Written(mark, base, k, at) ==
  [discovered |-> IF mark.discovered \subseteq base.discovered THEN k.discovered
                  ELSE base.discovered \cup mark.discovered,
   visited    |-> IF mark.visited \subseteq base.visited THEN k.visited
                  ELSE base.visited \cup mark.visited,
   read       |-> IF mark.read \subseteq base.read THEN k.read
                  ELSE base.read \cup mark.read,
   opened     |-> IF mark.read \subseteq base.read THEN k.opened
                  ELSE [e \in Evidence |->
                          IF e \in mark.read /\ base.opened[e] = None THEN at
                          ELSE base.opened[e]]]

(* Mutant: the last mark is not seen to be the last. *)
NextMarkOffByOne(w) ==
  [ask[w] EXCEPT !.pc = "mark", !.marks = Tail(@)]

(* The request after its first mark: the remaining ones, or the answer. *)
NextMark(w) ==
  IF Len(ask[w].marks) > 1
    THEN [pc |-> "mark", id |-> ask[w].id, seen |-> ask[w].seen,
          subject |-> ask[w].subject, at |-> ask[w].at,
          marks |-> Tail(ask[w].marks)]
    ELSE At(w, "answer")

ReadRow(w) ==
  LET p == ask[w].id
  IN /\ ask[w].pc = "mark"
     /\ LockFree(w)
     /\ \/ /\ knowledge[p] = None
           /\ Answer(w)
           /\ UNCHANGED lock
        \/ /\ knowledge[p] # None
           /\ ~ AddsTo(Head(ask[w].marks), knowledge[p])
           /\ Proceed(w, NextMark(w))
           /\ UNCHANGED lock
        \/ /\ knowledge[p] # None
           /\ AddsTo(Head(ask[w].marks), knowledge[p])
           /\ Proceed(w, [pc |-> "write", id |-> p, seen |-> ask[w].seen,
                          subject |-> ask[w].subject, marks |-> ask[w].marks,
                          at |-> ask[w].at, base |-> knowledge[p]])
           /\ Acquire(w)
     /\ UNCHANGED <<Lifecycle, knowledge, answers>>

(* Mutant: an investigation renews the token it was authorized with. *)
WriteRowAndRenew(w) ==
  LET p == ask[w].id
  IN /\ ask[w].pc = "write"
     /\ knowledge[p] # None
     /\ knowledge' = [knowledge EXCEPT ![p] =
                        Written(Head(ask[w].marks), ask[w].base, @, ask[w].at)]
     /\ row' = [row EXCEPT ![p].expires = now + TokenTTL]
     /\ Proceed(w, NextMark(w))
     /\ Release(w)
     /\ UNCHANGED <<now, caseExists, published, accusation, req, minted, history,
                    answers>>

(* The handler fails when the UPDATE finds no row, the playthrough having gone
   away, or finds the database locked: the marks it already made stay. *)
WriteRow(w) ==
  LET p == ask[w].id
  IN /\ ask[w].pc = "write"
     /\ \/ /\ knowledge[p] # None
           /\ knowledge' = [knowledge EXCEPT ![p] =
                Written(Head(ask[w].marks), ask[w].base, @, ask[w].at)]
           /\ Proceed(w, NextMark(w))
        \/ Answer(w) /\ UNCHANGED knowledge
     /\ Release(w)
     /\ UNCHANGED <<Lifecycle, answers>>

(* The answer of an inspection, and of a record that was opened: its opening
   time comes from a fresh snapshot. *)
AnswerInspection(w) ==
  LET p == ask[w].id
      o == ask[w].subject.object
  IN /\ ask[w].pc = "answer" /\ ask[w].subject.op = "interact"
     /\ toldFound' = [toldFound EXCEPT ![p] = @ \cup ({Linked[o]} \ {None})]
     /\ Answer(w)
     /\ UNCHANGED <<vars, knowledge, toldOpened>>

RecordOf(s) == IF s.op = "read" THEN s.evidence ELSE Grounding[s.question][1]

AnswerRecord(w) ==
  LET p == ask[w].id
      e == RecordOf(ask[w].subject)
  IN /\ ask[w].pc = "answer" /\ ask[w].subject.op \in {"read", "interview"}
     /\ toldFound' = [toldFound EXCEPT ![p] = @ \cup {e}]
     /\ toldOpened' = [toldOpened EXCEPT ![p] =
                         @ \cup {<<e, Snapshot(p).opened[e]>>}]
     /\ Answer(w)
     /\ UNCHANGED <<vars, knowledge>>

--------------------------------------------------------------------------------
(* The steps of Playthroughs, with the foreign key: a knowledge row is deleted
   with its playthrough. *)
Cascade ==
  /\ knowledge' = [p \in Ids |-> IF row'[p] = None THEN None ELSE knowledge[p]]
  /\ UNCHANGED <<ask, answers>>

LifecycleStep ==
  /\ \/ \E w \in Workers : (ask[w] = Idle /\ Receive(w)) \/ Serve(w)
     \/ \E v \in Versions : PublishVersion(v)
     \/ DeleteCase
     \/ Tick
  /\ Cascade

CrashAll(s) ==
  /\ Crash(s)
  /\ ask' = [w \in Workers |-> IF StoreOf[w] = s THEN Idle ELSE ask[w]]
  /\ UNCHANGED <<knowledge, answers>>

Investigate(w) ==
  \/ CheckQuestion(w)
  \/ EnsureRow(w)
  \/ CreateRow(w)
  \/ AnswerBootstrap(w)
  \/ RefuseInteraction(w)
  \/ InspectObject(w)
  \/ DiscoverEvidence(w)
  \/ OpenRecord(w)
  \/ InterviewWitness(w)
  \/ ReadRow(w)
  \/ WriteRow(w)
  \/ AnswerInspection(w)
  \/ AnswerRecord(w)

NextInvestigation ==
  \/ LifecycleStep
  \/ \E s \in Stores : CrashAll(s)
  \/ \E w \in Workers :
       \/ \E p \in Ids, s \in Subjects : ReceiveQuestion(w, p, s)
       \/ Investigate(w)

SpecInvestigation == InitInvestigation /\ [][NextInvestigation]_allVars

--------------------------------------------------------------------------------
(* Properties *)

Asked == [id : Ids, seen : Rows, subject : Subjects]

TypeOKInvestigation ==
  /\ TypeOK
  /\ knowledge \in [Ids -> KnowledgeRows \cup {None}]
  /\ \A w \in Workers :
       \/ ask[w] = Idle
       \/ /\ ask[w].pc \in {"check", "ensure", "create", "look", "mark", "write",
                           "answer"}
          /\ [id |-> ask[w].id, seen |-> ask[w].seen,
              subject |-> ask[w].subject] \in Asked
          /\ ask[w].pc # "check" => ask[w].at \in Time
          /\ ask[w].pc \in {"mark", "write"} =>
               /\ ask[w].marks # <<>>
               /\ \A i \in DOMAIN ask[w].marks : ask[w].marks[i] \in Marks
          /\ ask[w].pc = "write" => ask[w].base \in KnowledgeRows
  /\ toldFound \in [Ids -> SUBSET Evidence]
  /\ toldOpened \in [Ids -> SUBSET (Evidence \X (Time \cup {None}))]

(* Nothing is known of a playthrough that does not exist, and only what was
   discovered was read: read_record and interview_witness keep the order even
   though each mark commits alone. *)
KnowledgeIsGrounded ==
  \A p \in Ids : knowledge[p] # None =>
    /\ row[p] # None
    /\ knowledge[p].read \subseteq knowledge[p].discovered
    /\ \A e \in Evidence : (knowledge[p].opened[e] # None) <=>
                           (e \in knowledge[p].read)

(* Evidence an answer presented as found is never lost while the playthrough
   lasts: no two marks overwrite each other, and no crash undoes one. *)
FoundIsKept ==
  \A p \in Ids : row[p] # None => toldFound[p] \subseteq Snapshot(p).discovered

(* Repeated and concurrent reads of a record show one opening time, the stored
   one. *)
OneOpeningTime ==
  \A p \in Ids : row[p] # None =>
    \A answer \in toldOpened[p] : answer[2] = Snapshot(p).opened[answer[1]]

(* What answers have told a player stays so. *)
AnswersStand == FoundIsKept /\ OneOpeningTime

(* With the investigation running beside it, the life of the playthroughs is
   still the one of Playthroughs: the lock is its own only during an insert. *)
InsertLock ==
  [s \in Stores |-> IF lock[s] # None /\ req[lock[s]].pc = "insert"
                      THEN lock[s] ELSE None]

Lifecycles == INSTANCE Playthroughs WITH lock <- InsertLock

KeepsLifecycle == Lifecycles!Spec
================================================================================
