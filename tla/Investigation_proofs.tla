-------------------------- MODULE Investigation_proofs --------------------------
(* Proofs about Playthroughs and about Investigation, which extends it, for every value of
   their constants.  The first part is about Playthroughs alone: types, the accounting of
   capacity, what is terminal and what was stored.  The second adds the knowledge of the
   player and the requests that ask for it. *)
EXTENDS Investigation, FiniteSetTheorems, TLAPS

--------------------------------------------------------------------------------
(* Every step preserves the types: in particular a request that reached a
   transaction carries a well-formed copy of the row it was authorized on. *)
LEMMA TypeStep == TypeOK /\ [Next]_vars => TypeOK'
<1> SUFFICES ASSUME TypeOK, [Next]_vars PROVE TypeOK'
  OBVIOUS
<1> USE ParameterTypes DEF TypeOK, tables, history
<1>1. ASSUME NEW w \in Workers, NEW p \in Ids, NEW v \in Versions,
             ReceiveCreate(w, p, v)
      PROVE  TypeOK'
  BY <1>1 DEF ReceiveCreate, Requests, Time
<1>2. ASSUME NEW w \in Workers, NEW p \in Ids, NEW c \in Charges,
             ReceiveAccusation(w, p, c)
      PROVE  TypeOK'
  BY <1>2 DEF ReceiveAccusation, Authorized, Requests
<1>3. ASSUME NEW w \in Workers, NEW p \in Ids, NEW op \in {"reveal", "savegame"},
             ReceiveRead(w, p, op)
      PROVE  TypeOK'
  BY <1>3 DEF ReceiveRead, Authorized, Requests
<1>4. ASSUME NEW w \in Workers, AdmitCreate(w) PROVE TypeOK'
  BY <1>4 DEF AdmitCreate, Acquire, OldestCompleted, Completed, OfVersion,
              Present, Requests, Idle
<1>5. ASSUME NEW w \in Workers, RefuseCreate(w) PROVE TypeOK'
  BY <1>5 DEF RefuseCreate, Finish, Requests
<1>6. ASSUME NEW w \in Workers, InsertRow(w) PROVE TypeOK'
  BY <1>6 DEF InsertRow, Finish, Release, Requests, Idle, Rows, States,
              PreAccusation, Time, Expiry
<1>7. ASSUME NEW w \in Workers, CheckAccusation(w) PROVE TypeOK'
  BY <1>7 DEF CheckAccusation, Finish, Goto, Requests, Idle
<1>8. ASSUME NEW w \in Workers, SubmitAccusation(w) PROVE TypeOK'
  <2>1. req[w].id \in Ids /\ req[w].charge \in Charges
    BY <1>8 DEF SubmitAccusation, Requests, Idle
  <2>2. row' \in [Ids -> Rows \cup {None}]
    BY <1>8, <2>1 DEF SubmitAccusation, Accusable, Rows, States, RevealEligible
  <2>3. /\ accusation' \in [Ids -> Charges \cup {None}]
        /\ verdicts' \in [Ids -> SUBSET Charges]
    BY <1>8, <2>1 DEF SubmitAccusation
  <2> QED
    BY <1>8, <2>2, <2>3 DEF SubmitAccusation, Finish, Requests
<1>9. ASSUME NEW w \in Workers, CheckReveal(w) PROVE TypeOK'
  BY <1>9 DEF CheckReveal, Finish, Goto, Requests, Idle
<1>10. ASSUME NEW w \in Workers, ExposeTruth(w) PROVE TypeOK'
  <2>1. req[w].id \in Ids
    BY <1>10 DEF ExposeTruth, Requests, Idle
  <2>2. row' \in [Ids -> Rows \cup {None}]
    BY <1>10, <2>1 DEF ExposeTruth, Revealable, Rows, States, RevealEligible
  <2>3. shown' \in [Ids -> SUBSET Charges] /\ truthShown' \in SUBSET Ids
    BY <1>10, <2>1 DEF ExposeTruth, Revealable
  <2> QED
    BY <1>10, <2>2, <2>3 DEF ExposeTruth, Finish, Requests
<1>11. ASSUME NEW w \in Workers, CheckSavegame(w) PROVE TypeOK'
  BY <1>11 DEF CheckSavegame, Finish, Goto, Requests, Idle
<1>12. ASSUME NEW w \in Workers, ExportSavegame(w) PROVE TypeOK'
  BY <1>12 DEF ExportSavegame, Finish, Requests, Idle
<1>13. ASSUME NEW v \in Versions, PublishVersion(v) PROVE TypeOK'
  BY <1>13 DEF PublishVersion
<1>14. ASSUME NEW s \in Stores, Crash(s) PROVE TypeOK'
  BY <1>14 DEF Crash, Requests
<1>15. CASE DeleteCase
  BY <1>15 DEF DeleteCase
<1>16. CASE Tick
  BY <1>16 DEF Tick, Time
<1>17. CASE UNCHANGED vars
  BY <1>17 DEF vars
<1> QED
  BY <1>9, <1>10, <1>11, <1>12, <1>13, <1>14, <1>15, <1>16, <1>17, <1>1, <1>2, <1>3,
     <1>4, <1>5, <1>6, <1>7, <1>8 DEF Next, Receive, Serve

(* Every variable has its type, in every state the threads of the pool, the
   operator and a crash can reach. *)
THEOREM TypeCorrect == Spec => []TypeOK
<1>1. Init => TypeOK
  BY ParameterTypes DEF Init, TypeOK, Time, Requests, Idle
<1> QED
  BY <1>1, TypeStep, PTL DEF Spec

--------------------------------------------------------------------------------
(* The inductive invariant behind the verdicts.  It names what the properties
   leave unsaid: an id belongs to one creation, and the copies of rows that
   requests carry are out of date in one direction only. *)

Asking == {"accuse", "submit", "reveal", "expose", "savegame", "export"}
Creating == {"create", "insert"}

FreshIds ==
  /\ \A p \in Ids : row[p] # None \/ verdicts[p] # {} => p \in minted
  /\ \A w \in Workers : req[w] # Idle => req[w].id \in minted
  /\ \A w \in Workers : req[w].pc \in Creating =>
       /\ row[req[w].id] = None /\ verdicts[req[w].id] = {}
       /\ \A u \in Workers \ {w} : req[u] # Idle => req[u].id # req[w].id

Verdicts ==
  \A p \in Ids :
    /\ row[p] = None => accusation[p] = None
    /\ row[p] # None =>
         /\ row[p].state \in PreAccusation =>
              verdicts[p] = {} /\ accusation[p] = None
         /\ row[p].state \in RevealEligible =>
              /\ accusation[p] \in Charges
              /\ verdicts[p] = {accusation[p]}
              /\ accusation[p] \in Candidates[row[p].version]
    /\ verdicts[p] = {} \/ \E c \in Charges : verdicts[p] = {c}
    /\ shown[p] \subseteq verdicts[p]
    /\ p \in truthShown => verdicts[p] # {}

Copies ==
  \A w \in Workers :
    /\ req[w].pc \in Asking =>
         /\ req[w].seen.state \in RevealEligible => verdicts[req[w].id] # {}
         /\ row[req[w].id] # None => row[req[w].id].version = req[w].seen.version
    /\ req[w].pc = "submit" => req[w].charge \in Candidates[req[w].seen.version]
    /\ req[w].pc = "export" => req[w].seen.state \in RevealEligible

Pins ==
  /\ PinnedToPublished
  /\ \A w \in Workers :
       req[w].pc = "insert" /\ caseExists => req[w].version \in published

VerdictInv == TypeOK /\ FreshIds /\ Verdicts /\ Copies /\ Pins

(* What the type of a request says of its parts. *)
LEMMA RequestParts ==
  ASSUME TypeOK, NEW w \in Workers
  PROVE  /\ req[w] # Idle => req[w].id \in Ids
         /\ req[w].pc \in Creating => /\ req[w] # Idle
                                      /\ req[w].version \in Versions
                                      /\ req[w].at \in Time
         /\ req[w].pc \in Asking => req[w] # Idle /\ req[w].seen \in Rows
         /\ req[w].pc = "insert" => req[w].pruned \in SUBSET Ids
         /\ req[w].pc \in {"accuse", "submit"} => req[w].charge \in Charges
BY DEF TypeOK, Requests, Idle, Creating, Asking

(* Goto changes where a request is and nothing of what it carries. *)
LEMMA GotoParts ==
  ASSUME TypeOK, NEW w \in Workers, req[w].pc \in Asking, NEW step, Goto(w, step)
  PROVE  /\ \A u \in Workers \ {w} : req'[u] = req[u]
         /\ req'[w].pc = step
         /\ req'[w].id = req[w].id
         /\ req'[w].seen = req[w].seen
         /\ req[w].pc = "accuse" => req'[w].charge = req[w].charge
BY DEF TypeOK, Requests, Idle, Asking, Goto

(* What an update of the state of a row keeps. *)
LEMMA StateUpdate ==
  ASSUME TypeOK, NEW p \in Ids, row[p] # None, NEW state \in States,
         row' = [row EXCEPT ![p].state = state]
  PROVE  /\ \A q \in Ids \ {p} : row'[q] = row[q]
         /\ row[p] \in Rows
         /\ row'[p] # None
         /\ row'[p].state = state
         /\ row'[p].version = row[p].version
         /\ row'[p].created = row[p].created
         /\ row'[p].expires = row[p].expires
<1>1. row[p] \in Rows
  BY DEF TypeOK
<1>2. row'[p] = [row[p] EXCEPT !.state = state]
  BY DEF TypeOK
<1>3. row'[p] \in Rows
  BY <1>1, <1>2 DEF Rows
<1> QED
  BY <1>1, <1>2, <1>3, NoneIsNoRow DEF Rows, TypeOK

(* A request about a playthrough arrives with a copy of its row. *)
Arrives(w, p, op) ==
  /\ row[p] # None
  /\ req'[w].pc = op /\ req'[w].id = p /\ req'[w].seen = row[p]
  /\ \A u \in Workers \ {w} : req'[u] = req[u]
  /\ UNCHANGED <<row, accusation, caseExists, published, verdicts, shown, truthShown>>

LEMMA ArrivalKeeps ==
  ASSUME VerdictInv, NEW w \in Workers, NEW p \in Ids,
         NEW op \in {"accuse", "reveal", "savegame"}, Arrives(w, p, op)
  PROVE  Verdicts' /\ Copies' /\ Pins'
<1>1. Verdicts /\ Copies /\ Pins
  BY DEF VerdictInv
<1>2. Verdicts'
  BY <1>1 DEF Arrives, Verdicts
<1>3. row[p].state \in RevealEligible => verdicts[p] # {}
  BY <1>1 DEF Arrives, Verdicts
<1>4. Copies'
  <2>1. ASSUME NEW u \in Workers \ {w}
        PROVE  /\ req'[u].pc \in Asking =>
                    /\ req'[u].seen.state \in RevealEligible => verdicts'[req'[u].id] # {}
                    /\ row'[req'[u].id] # None =>
                         row'[req'[u].id].version = req'[u].seen.version
               /\ req'[u].pc = "submit" => req'[u].charge \in Candidates[req'[u].seen.version]
               /\ req'[u].pc = "export" => req'[u].seen.state \in RevealEligible
    BY <1>1 DEF Arrives, Copies
  <2>2. /\ req'[w].seen.state \in RevealEligible => verdicts'[req'[w].id] # {}
        /\ row'[req'[w].id].version = req'[w].seen.version
        /\ req'[w].pc # "submit" /\ req'[w].pc # "export"
    BY <1>3 DEF Arrives
  <2> QED
    BY <2>1, <2>2 DEF Copies
<1>5. Pins'
  BY <1>1 DEF Arrives, Pins, PinnedToPublished
<1> QED
  BY <1>2, <1>4, <1>5

LEMMA VerdictStep == VerdictInv /\ [Next]_vars => VerdictInv'
<1> SUFFICES ASSUME VerdictInv, [Next]_vars PROVE VerdictInv'
  OBVIOUS
<1> USE ParameterTypes DEF tables, history
<1>0. TypeOK /\ TypeOK'
  BY TypeStep DEF VerdictInv
<1>1. ASSUME NEW w \in Workers, NEW p \in Ids, NEW v \in Versions,
             ReceiveCreate(w, p, v)
      PROVE  VerdictInv'
  <2>1. FreshIds'
    BY <1>0, <1>1 DEF VerdictInv, ReceiveCreate, FreshIds, Creating, TypeOK, Idle
  <2>2. Verdicts' /\ Copies' /\ Pins'
    BY <1>0, <1>1 DEF VerdictInv, ReceiveCreate, Verdicts, Copies, Asking, Pins,
                      PinnedToPublished, TypeOK
  <2> QED
    BY <1>0, <2>1, <2>2 DEF VerdictInv
<1>2. ASSUME NEW w \in Workers, NEW p \in Ids, NEW c \in Charges,
             ReceiveAccusation(w, p, c)
      PROVE  VerdictInv'
  <2>1. FreshIds'
    BY <1>0, <1>2 DEF VerdictInv, ReceiveAccusation, Authorized, FreshIds,
                      Creating, TypeOK, Idle
  <2>2. Arrives(w, p, "accuse")
    BY <1>0, <1>2 DEF ReceiveAccusation, Authorized, Arrives, TypeOK
  <2> QED
    BY <1>0, <2>1, <2>2, ArrivalKeeps DEF VerdictInv
<1>3. ASSUME NEW w \in Workers, NEW p \in Ids, NEW op \in {"reveal", "savegame"},
             ReceiveRead(w, p, op)
      PROVE  VerdictInv'
  <2>1. FreshIds'
    BY <1>0, <1>3 DEF VerdictInv, ReceiveRead, Authorized, FreshIds,
                      Creating, TypeOK, Idle
  <2>2. Arrives(w, p, op)
    BY <1>0, <1>3 DEF ReceiveRead, Authorized, Arrives, TypeOK
  <2> QED
    BY <1>0, <1>3, <2>1, <2>2, ArrivalKeeps DEF VerdictInv
<1>4. ASSUME NEW w \in Workers, AdmitCreate(w) PROVE VerdictInv'
  <2>1. FreshIds'
    BY <1>0, <1>4 DEF VerdictInv, AdmitCreate, FreshIds, Creating, TypeOK, Idle
  <2>2. Verdicts' /\ Copies' /\ Pins'
    BY <1>0, <1>4 DEF VerdictInv, AdmitCreate, Admissible, Verdicts, Copies,
                      Asking, Pins, PinnedToPublished, TypeOK
  <2> QED
    BY <1>0, <2>1, <2>2 DEF VerdictInv
<1>5. ASSUME NEW w \in Workers, RefuseCreate(w) PROVE VerdictInv'
  BY <1>0, <1>5 DEF VerdictInv, RefuseCreate, Finish, FreshIds, Creating, Idle,
                    Verdicts, Copies, Asking, Pins, PinnedToPublished, TypeOK
<1>6. ASSUME NEW w \in Workers, InsertRow(w) PROVE VerdictInv'
  <2>0. req[w].id \in Ids
    BY <1>0, <1>6 DEF InsertRow, TypeOK, Requests, Idle
  <2>1. FreshIds'
    BY <1>0, <1>6, <2>0 DEF VerdictInv, InsertRow, Finish, FreshIds, Creating,
                            TypeOK, Idle
  <2>2. Verdicts'
    BY <1>0, <1>6, <2>0 DEF VerdictInv, InsertRow, FreshIds, Creating, Verdicts,
                            TypeOK, PreAccusation, RevealEligible
  <2>3. Copies'
    BY <1>0, <1>6, <2>0 DEF VerdictInv, InsertRow, Finish, FreshIds, Creating,
                            Copies, Asking, TypeOK, Idle
  <2>4. Pins'
    BY <1>0, <1>6, <2>0 DEF VerdictInv, InsertRow, Finish, Pins,
                            PinnedToPublished, TypeOK, Idle
  <2> QED
    BY <1>0, <2>1, <2>2, <2>3, <2>4 DEF VerdictInv
<1>7. ASSUME NEW w \in Workers, NEW step \in Asking,
             req[w].pc \in Asking, Goto(w, step) \/ Finish(w),
             UNCHANGED <<tables, minted, history>>,
             Goto(w, step) /\ step = "submit" =>
               /\ req[w].pc = "accuse"
               /\ req[w].charge \in Candidates[req[w].seen.version],
             Goto(w, step) /\ step = "export" =>
               req[w].seen.state \in RevealEligible
      PROVE  VerdictInv'
  <2>1. CASE Finish(w)
    BY <1>0, <1>7, <2>1 DEF VerdictInv, Finish, FreshIds, Creating, Verdicts,
       Copies, Asking, Pins, PinnedToPublished, TypeOK, Idle
  <2>2. CASE Goto(w, step)
    <3>1. /\ \A u \in Workers \ {w} : req'[u] = req[u]
          /\ req'[w].pc = step
          /\ req'[w].id = req[w].id
          /\ req'[w].seen = req[w].seen
          /\ req[w].pc = "accuse" => req'[w].charge = req[w].charge
      BY <1>0, <1>7, <2>2, GotoParts
    <3>2. FreshIds'
      <4>1. req'[w].pc \notin Creating
        BY <3>1 DEF Creating, Asking
      <4>2. \A u \in Workers \ {w} : req'[u] = req[u]
        BY <3>1
      <4>3. UNCHANGED <<row, accusation, minted, verdicts, shown, truthShown>>
        BY <1>7
      <4> QED
        BY <1>0, <1>7, <3>1, <4>1, <4>2, <4>3, RequestParts DEF VerdictInv, FreshIds
    <3>3. Copies'
      BY <1>0, <1>7, <2>2, <3>1 DEF VerdictInv, Copies, Asking
    <3>4. Verdicts' /\ Pins'
      BY <1>0, <1>7, <3>1 DEF VerdictInv, Verdicts, Pins, PinnedToPublished, Asking
    <3> QED
      BY <1>0, <3>2, <3>3, <3>4 DEF VerdictInv
  <2> QED
    BY <1>7, <2>1, <2>2
<1>8. ASSUME NEW w \in Workers, SubmitAccusation(w) PROVE VerdictInv'
  <2> DEFINE p == req[w].id
  <2>0. p \in Ids /\ req[w].charge \in Charges /\ req[w].pc \in Asking
    BY <1>0, <1>8, RequestParts DEF SubmitAccusation, Asking
  <2>1. CASE UNCHANGED <<row, accusation, verdicts>>
    BY <1>0, <1>8, <2>1 DEF VerdictInv, SubmitAccusation, Finish, FreshIds, Creating,
       Verdicts, Copies, Asking, Pins, PinnedToPublished, TypeOK, Idle
  <2>2. CASE ~ UNCHANGED <<row, accusation, verdicts>>
    <3>1. /\ \A q \in Ids \ {p} : /\ row'[q] = row[q]
                                  /\ accusation'[q] = accusation[q]
                                  /\ verdicts'[q] = verdicts[q]
          /\ row[p] # None /\ row'[p] # None
          /\ row[p].state \in PreAccusation
          /\ row'[p].state = "ACCUSED" /\ row'[p].version = row[p].version
          /\ accusation'[p] = req[w].charge
          /\ verdicts'[p] = verdicts[p] \cup {req[w].charge}
      <4>1. /\ row[p] # None /\ row[p].state \in PreAccusation
            /\ row' = [row EXCEPT ![p].state = "ACCUSED"]
            /\ accusation' = [accusation EXCEPT ![p] = req[w].charge]
            /\ verdicts' = [verdicts EXCEPT ![p] = @ \cup {req[w].charge}]
        BY <1>8, <2>2 DEF SubmitAccusation, Accusable
      <4>2. "ACCUSED" \in States
        BY DEF States, RevealEligible
      <4>3. /\ \A q \in Ids \ {p} : row'[q] = row[q]
            /\ row'[p] # None /\ row'[p].state = "ACCUSED"
            /\ row'[p].version = row[p].version
        <5>1. row[p] # None /\ row' = [row EXCEPT ![p].state = "ACCUSED"]
          BY <4>1
        <5>2. \A q \in Ids : row[q] # None /\ row' = [row EXCEPT ![q].state = "ACCUSED"] =>
                /\ \A r \in Ids \ {q} : row'[r] = row[r]
                /\ row'[q] # None /\ row'[q].state = "ACCUSED"
                /\ row'[q].version = row[q].version
          BY <1>0, <4>2, StateUpdate
        <5> HIDE DEF p
        <5> QED
          BY <2>0, <5>1, <5>2
      <4> QED
        BY <1>0, <2>0, <4>1, <4>3 DEF TypeOK
    <3>2. FreshIds'
      BY <1>0, <1>8, <2>0, <3>1, RequestParts DEF VerdictInv, SubmitAccusation,
         Finish, FreshIds, Creating, TypeOK, Idle
    <3>3. Verdicts'
      BY <1>0, <1>8, <2>0, <3>1 DEF VerdictInv, SubmitAccusation, Verdicts, Copies,
         Asking, TypeOK, PreAccusation, RevealEligible
    <3>4. Copies'
      BY <1>0, <1>8, <2>0, <3>1, RequestParts DEF VerdictInv, SubmitAccusation,
         Finish, Copies, Asking, TypeOK, Idle
    <3>5. Pins'
      BY <1>0, <1>8, <2>0, <3>1 DEF VerdictInv, SubmitAccusation, Finish, Pins,
         PinnedToPublished, TypeOK, Idle
    <3> QED
      BY <1>0, <3>2, <3>3, <3>4, <3>5 DEF VerdictInv
  <2> QED
    BY <2>1, <2>2
<1>9. ASSUME NEW w \in Workers, ExposeTruth(w) PROVE VerdictInv'
  <2> DEFINE p == req[w].id
  <2>0. p \in Ids
    BY <1>0, <1>9, RequestParts DEF ExposeTruth, Asking
  <2>1. CASE UNCHANGED <<row, shown, truthShown>>
    BY <1>0, <1>9, <2>1 DEF VerdictInv, ExposeTruth, Finish, FreshIds, Creating,
       Verdicts, Copies, Asking, Pins, PinnedToPublished, TypeOK, Idle
  <2>2. CASE ~ UNCHANGED <<row, shown, truthShown>>
    <3>1. /\ \A q \in Ids \ {p} : row'[q] = row[q] /\ shown'[q] = shown[q]
          /\ row[p] # None /\ row'[p] # None
          /\ row[p].state \in RevealEligible
          /\ row'[p].state = "REVEALED" /\ row'[p].version = row[p].version
          /\ shown'[p] = shown[p] \cup {accusation[p]}
          /\ truthShown' = truthShown \cup {p}
          /\ accusation' = accusation /\ verdicts' = verdicts
      <4>1. /\ row[p] # None /\ row[p].state \in RevealEligible
            /\ row' = [row EXCEPT ![p].state = "REVEALED"]
            /\ shown' = [shown EXCEPT ![p] = @ \cup {accusation[p]}]
            /\ truthShown' = truthShown \cup {p}
            /\ UNCHANGED <<accusation, verdicts>>
        BY <1>9, <2>2 DEF ExposeTruth, Revealable
      <4>2. "REVEALED" \in States
        BY DEF States, RevealEligible
      <4>3. /\ \A q \in Ids \ {p} : row'[q] = row[q]
            /\ row'[p] # None /\ row'[p].state = "REVEALED"
            /\ row'[p].version = row[p].version
        <5>1. row[p] # None /\ row' = [row EXCEPT ![p].state = "REVEALED"]
          BY <4>1
        <5>2. \A q \in Ids : row[q] # None /\ row' = [row EXCEPT ![q].state = "REVEALED"] =>
                /\ \A r \in Ids \ {q} : row'[r] = row[r]
                /\ row'[q] # None /\ row'[q].state = "REVEALED"
                /\ row'[q].version = row[q].version
          BY <1>0, <4>2, StateUpdate
        <5> HIDE DEF p
        <5> QED
          BY <2>0, <5>1, <5>2
      <4> QED
        BY <1>0, <2>0, <4>1, <4>3 DEF TypeOK
    <3>2. FreshIds'
      BY <1>0, <1>9, <2>0, <3>1, RequestParts DEF VerdictInv, ExposeTruth,
         Finish, FreshIds, Creating, TypeOK, Idle
    <3>3. Verdicts'
      <4>1. Verdicts /\ truthShown \in SUBSET Ids
        BY <1>0 DEF VerdictInv, TypeOK
      <4>2. /\ accusation[p] \in Charges /\ verdicts[p] = {accusation[p]}
            /\ accusation[p] \in Candidates[row[p].version]
            /\ shown[p] \subseteq verdicts[p]
        BY <2>0, <3>1, <4>1 DEF Verdicts
      <4> QED
        <5>1. verdicts'[p] = verdicts[p] /\ accusation'[p] = accusation[p]
          BY <3>1
        <5>2. shown'[p] \subseteq verdicts'[p] /\ verdicts'[p] # {}
          BY <3>1, <4>2, <5>1
        <5>3. "REVEALED" \notin PreAccusation /\ "REVEALED" \in RevealEligible
          BY DEF PreAccusation, RevealEligible
        <5>4. ASSUME NEW q \in Ids \ {p}
              PROVE  /\ row'[q] = row[q] /\ shown'[q] = shown[q]
                     /\ accusation'[q] = accusation[q] /\ verdicts'[q] = verdicts[q]
                     /\ q \in truthShown' <=> q \in truthShown
          BY <3>1
        <5> QED
          BY <2>0, <3>1, <4>1, <4>2, <5>1, <5>2, <5>3, <5>4 DEF Verdicts
    <3>4. Copies'
      BY <1>0, <1>9, <2>0, <3>1, RequestParts DEF VerdictInv, ExposeTruth,
         Finish, Copies, Asking, TypeOK, Idle
    <3>5. Pins'
      BY <1>0, <1>9, <2>0, <3>1 DEF VerdictInv, ExposeTruth, Finish, Pins,
         PinnedToPublished, TypeOK, Idle
    <3> QED
      BY <1>0, <3>2, <3>3, <3>4, <3>5 DEF VerdictInv
  <2> QED
    BY <2>1, <2>2
<1>10. ASSUME NEW w \in Workers, ExportSavegame(w) PROVE VerdictInv'
  <2>0. req[w].id \in Ids
    BY <1>0, <1>10 DEF ExportSavegame, TypeOK, Requests, Idle
  <2>1. FreshIds' /\ Copies' /\ Pins'
    BY <1>0, <1>10 DEF VerdictInv, ExportSavegame, Finish, FreshIds, Creating,
                       Copies, Asking, Pins, PinnedToPublished, TypeOK, Idle
  <2>2. Verdicts'
    BY <1>0, <1>10, <2>0 DEF VerdictInv, ExportSavegame, Copies, Asking, Verdicts,
                             TypeOK
  <2> QED
    BY <1>0, <2>1, <2>2 DEF VerdictInv
<1>11. ASSUME NEW v \in Versions, PublishVersion(v) PROVE VerdictInv'
  BY <1>0, <1>11 DEF VerdictInv, PublishVersion, FreshIds, Verdicts, Copies, Pins,
                     PinnedToPublished, TypeOK
<1>12. ASSUME NEW s \in Stores, Crash(s) PROVE VerdictInv'
  BY <1>0, <1>12 DEF VerdictInv, Crash, FreshIds, Creating, Verdicts, Copies,
                     Asking, Pins, PinnedToPublished, TypeOK, Idle
<1>13. CASE DeleteCase
  <2>1. /\ \A p \in Ids : row'[p] = None /\ accusation'[p] = None
        /\ ~ caseExists'
        /\ UNCHANGED <<req, minted, verdicts, shown, truthShown>>
    BY <1>13 DEF DeleteCase
  <2>2. FreshIds' /\ Copies'
    BY <1>0, <2>1, RequestParts DEF VerdictInv, FreshIds, Copies
  <2>3. Verdicts' /\ Pins'
    BY <1>0, <2>1, NoneIsNoRow DEF VerdictInv, Verdicts, Pins, PinnedToPublished
  <2> QED
    BY <1>0, <2>2, <2>3 DEF VerdictInv
<1>14. CASE Tick \/ UNCHANGED vars
  <2>1. UNCHANGED <<caseExists, published, row, accusation, req, minted, verdicts,
                    shown, truthShown>>
    BY <1>14 DEF Tick, vars
  <2> QED
    BY <1>0, <2>1 DEF VerdictInv, FreshIds, Verdicts, Copies, Pins, PinnedToPublished
<1>15. ASSUME NEW w \in Workers,
              CheckAccusation(w) \/ CheckReveal(w) \/ CheckSavegame(w)
       PROVE  VerdictInv'
  <2>1. CASE CheckAccusation(w)
    BY <2>1, <1>7 DEF CheckAccusation, Asking
  <2>2. CASE CheckReveal(w)
    BY <2>2, <1>7 DEF CheckReveal, Asking
  <2>3. CASE CheckSavegame(w)
    BY <2>3, <1>7 DEF CheckSavegame, Exportable, Asking
  <2> QED
    BY <1>15, <2>1, <2>2, <2>3
<1> QED
  BY <1>8, <1>9, <1>10, <1>11, <1>12, <1>13, <1>14, <1>15, <1>1, <1>2, <1>3, <1>4,
     <1>5, <1>6, <1>7 DEF Next, Receive, Serve

LEMMA VerdictInit == Init => VerdictInv
<1>1. Init => TypeOK
  BY ParameterTypes DEF Init, TypeOK, Time, Requests, Idle
<1> QED
  BY <1>1 DEF Init, VerdictInv, FreshIds, Creating, Verdicts, Copies, Asking,
     Pins, PinnedToPublished, Idle

(* In every reachable state each id belongs to one creation, its rows agree, and
   the copies of rows that requests carry through accuse, reveal and savegame are
   out of date in one direction only. *)
THEOREM VerdictInvariant == Spec => []VerdictInv
BY VerdictInit, VerdictStep, PTL DEF Spec

(* The tables agree: an accusation row exists exactly for the rows whose state
   says so, and names candidates of the pinned version. *)
THEOREM TablesAgree == Spec => []VerdictMatchesState
<1>1. VerdictInv => VerdictMatchesState
  BY ParameterTypes DEF VerdictInv, TypeOK, Verdicts, VerdictMatchesState, Rows, States
<1> QED
  BY <1>1, VerdictInvariant, PTL

(* The first accusation is the only one, and what a reveal shows is it:
   insert_accusation_if_unaccused and get_accusation_and_mark_revealed under
   every interleaving of any number of threads and Stores. *)
THEOREM FirstVerdictStands == Spec => []OneVerdict
<1>1. VerdictInv => OneVerdict
  <2> SUFFICES ASSUME VerdictInv, NEW p \in Ids
               PROVE  /\ Cardinality(verdicts[p]) <= 1
                      /\ accusation[p] # None => accusation[p] \in verdicts[p]
                      /\ shown[p] \subseteq verdicts[p]
    BY DEF OneVerdict
  <2>1. Cardinality(verdicts[p]) <= 1
    <3>1. CASE verdicts[p] = {}
      BY <3>1, FS_EmptySet
    <3>2. CASE \E c \in Charges : verdicts[p] = {c}
      <4>1. PICK c \in Charges : verdicts[p] = {c}
        BY <3>2
      <4>2. Cardinality({c}) = 1
        BY FS_Singleton
      <4> QED
        BY <4>1, <4>2
    <3> QED
      BY <3>1, <3>2 DEF VerdictInv, Verdicts
  <2>2. accusation[p] # None => accusation[p] \in verdicts[p]
    BY DEF VerdictInv, TypeOK, Verdicts, Rows, States
  <2> QED
    BY <2>1, <2>2 DEF VerdictInv, Verdicts
<1> QED
  BY <1>1, VerdictInvariant, PTL

(* Both at once: the tables agree on the one verdict of every playthrough. *)
THEOREM VerdictsStand == Spec => []VerdictsAgree
<1>1. VerdictMatchesState /\ OneVerdict => VerdictsAgree
  BY DEF VerdictsAgree
<1> QED
  BY <1>1, TablesAgree, FirstVerdictStands, PTL

(* Nothing tells the truth about a playthrough before its accusation is
   committed, although the savegame export decides on a stale copy. *)
THEOREM NoTruthBeforeVerdict == Spec => []TruthAfterVerdict
<1>1. VerdictInv => TruthAfterVerdict
  BY DEF VerdictInv, TypeOK, Verdicts, TruthAfterVerdict
<1> QED
  BY <1>1, VerdictInvariant, PTL

(* A row is pinned to a published version of a case that exists. *)
THEOREM PinsArePublished == Spec => []PinnedToPublished
<1>1. VerdictInv => PinnedToPublished
  BY DEF VerdictInv, Pins
<1> QED
  BY <1>1, VerdictInvariant, PTL

--------------------------------------------------------------------------------
(* The caps.  The queries of create_playthrough_if_published as functions of
   the table they read. *)

RowsIn(r, v) == {p \in Ids : r[p] # None /\ r[p].version = v}
ActiveIn(r, v, t) ==
  {p \in RowsIn(r, v) : r[p].state \in PreAccusation /\ r[p].expires > t}

WithinCaps(r, t) ==
  \A v \in Versions : /\ Cardinality(ActiveIn(r, v, t)) <= MaxActive
                      /\ Cardinality(RowsIn(r, v)) <= MaxRetained

(* The inductive invariant, for workers that share one Store: while a creation
   holds the lock, what it counted still bounds what is there. *)
OneStorePerSystem == \A u, w \in Workers : StoreOf[u] = StoreOf[w]

HoldsLock ==
  \A w \in Workers : req[w].pc = "insert" => lock[StoreOf[w]] = w

Room ==
  \A w \in Workers : req[w].pc \in Creating =>
    /\ req[w].at <= now
    /\ (req[w].pc = "insert" /\ caseExists) =>
         /\ Cardinality(ActiveIn(row, req[w].version, req[w].at)) < MaxActive
         /\ Cardinality(RowsIn(row, req[w].version) \ req[w].pruned) < MaxRetained

CapInv == TypeOK /\ HoldsLock /\ Room /\ WithinCaps(row, now)

(* A set of ids is finite, and so is the count of a subset of it bounded. *)
LEMMA SmallerSet ==
  ASSUME NEW A \in SUBSET Ids, NEW B \in SUBSET A
  PROVE  /\ IsFiniteSet(A) /\ IsFiniteSet(B)
         /\ Cardinality(A) \in Nat /\ Cardinality(B) \in Nat
         /\ Cardinality(B) <= Cardinality(A)
<1>1. IsFiniteSet(A)
  BY FiniteIds, FS_Subset
<1>2. IsFiniteSet(B) /\ Cardinality(B) <= Cardinality(A)
  BY <1>1, FS_Subset
<1> QED
  BY <1>1, <1>2, FS_CardinalityType

(* A table whose rows of each version, and active rows, are among those of
   another table at an earlier instant is within the caps when that one is. *)
LEMMA FewerRows ==
  ASSUME NEW r, NEW t, NEW r2, NEW t2, WithinCaps(r, t),
         \A v \in Versions : /\ RowsIn(r2, v) \subseteq RowsIn(r, v)
                             /\ ActiveIn(r2, v, t2) \subseteq ActiveIn(r, v, t)
  PROVE  WithinCaps(r2, t2)
<1> SUFFICES ASSUME NEW v \in Versions
             PROVE  /\ Cardinality(ActiveIn(r2, v, t2)) <= MaxActive
                    /\ Cardinality(RowsIn(r2, v)) <= MaxRetained
  BY DEF WithinCaps
<1>1. RowsIn(r, v) \in SUBSET Ids /\ ActiveIn(r, v, t) \in SUBSET Ids
  BY DEF RowsIn, ActiveIn
<1>2. /\ Cardinality(ActiveIn(r2, v, t2)) <= Cardinality(ActiveIn(r, v, t))
      /\ Cardinality(ActiveIn(r2, v, t2)) \in Nat
      /\ Cardinality(ActiveIn(r, v, t)) \in Nat
  BY <1>1, SmallerSet
<1>3. /\ Cardinality(RowsIn(r2, v)) <= Cardinality(RowsIn(r, v))
      /\ Cardinality(RowsIn(r2, v)) \in Nat
      /\ Cardinality(RowsIn(r, v)) \in Nat
  BY <1>1, SmallerSet
<1> QED
  BY <1>2, <1>3, ParameterTypes DEF WithinCaps

(* One more row than a set with room for it stays within the bound. *)
LEMMA OneMore ==
  ASSUME NEW A \in SUBSET Ids, NEW p \in Ids, NEW B, B \subseteq A \cup {p},
         NEW bound \in Nat, Cardinality(A) < bound
  PROVE  Cardinality(B) <= bound
<1>1. IsFiniteSet(A) /\ Cardinality(A) \in Nat
  BY SmallerSet
<1>2. Cardinality(A \cup {p}) <= Cardinality(A) + 1
  <2>1. Cardinality(A \cup {p}) = IF p \in A THEN Cardinality(A)
                                  ELSE Cardinality(A) + 1
    BY <1>1, FS_AddElement
  <2> QED
    BY <1>1, <2>1
<1>3. A \cup {p} \in SUBSET Ids
  OBVIOUS
<1>4. /\ Cardinality(B) <= Cardinality(A \cup {p})
      /\ Cardinality(B) \in Nat /\ Cardinality(A \cup {p}) \in Nat
  BY <1>3, SmallerSet
<1> QED
  BY <1>1, <1>2, <1>4

(* What the prune-and-insert leaves of each version. *)
LEMMA Inserted ==
  ASSUME NEW r \in [Ids -> Rows \cup {None}], NEW p \in Ids, NEW n \in Rows,
         NEW V \in SUBSET Ids, NEW t \in Time, NEW at \in Time, at <= t,
         WithinCaps(r, t),
         Cardinality(ActiveIn(r, n.version, at)) < MaxActive,
         Cardinality(RowsIn(r, n.version) \ V) < MaxRetained
  PROVE  WithinCaps([q \in Ids |-> IF q = p THEN n
                                   ELSE IF q \in V THEN None ELSE r[q]], t)
<1> DEFINE r2 == [q \in Ids |-> IF q = p THEN n
                                ELSE IF q \in V THEN None ELSE r[q]]
<1>1. n # None /\ n.version \in Versions
  BY NoneIsNoRow DEF Rows
<1> SUFFICES ASSUME NEW v \in Versions
             PROVE  /\ Cardinality(ActiveIn(r2, v, t)) <= MaxActive
                    /\ Cardinality(RowsIn(r2, v)) <= MaxRetained
  BY DEF WithinCaps
<1>2. CASE v = n.version
  <2>1. RowsIn(r2, v) \subseteq (RowsIn(r, v) \ V) \cup {p}
    BY DEF RowsIn
  <2>2. ActiveIn(r2, v, t) \subseteq ActiveIn(r, v, at) \cup {p}
    <3> SUFFICES ASSUME NEW q \in ActiveIn(r2, v, t), q # p
                 PROVE  q \in ActiveIn(r, v, at)
      OBVIOUS
    <3>1. /\ q \in Ids /\ r2[q] = r[q] /\ r[q] # None /\ r[q].version = v
          /\ r[q].state \in PreAccusation /\ r[q].expires > t
      BY DEF ActiveIn, RowsIn
    <3>2. r[q].expires \in Nat
      BY <3>1, ParameterTypes DEF Rows, Time
    <3> QED
      BY <3>1, <3>2, ParameterTypes DEF ActiveIn, RowsIn, Time
  <2>3. RowsIn(r, v) \ V \in SUBSET Ids /\ ActiveIn(r, v, at) \in SUBSET Ids
    BY DEF ActiveIn, RowsIn
  <2>4. MaxActive \in Nat /\ MaxRetained \in Nat
    BY ParameterTypes
  <2> HIDE DEF r2
  <2>5. Cardinality(ActiveIn(r2, v, t)) <= MaxActive
    BY <1>2, <2>2, <2>3, <2>4, OneMore
  <2>6. Cardinality(RowsIn(r2, v)) <= MaxRetained
    BY <1>2, <2>1, <2>3, <2>4, OneMore
  <2> QED
    BY <2>5, <2>6
<1>3. CASE v # n.version
  <2>1. /\ RowsIn(r2, v) \subseteq RowsIn(r, v)
        /\ ActiveIn(r2, v, t) \subseteq ActiveIn(r, v, t)
    BY <1>3 DEF RowsIn, ActiveIn
  <2> HIDE DEF r2
  <2>2. RowsIn(r, v) \in SUBSET Ids /\ ActiveIn(r, v, t) \in SUBSET Ids
    BY DEF RowsIn, ActiveIn
  <2>3. /\ Cardinality(ActiveIn(r2, v, t)) <= Cardinality(ActiveIn(r, v, t))
        /\ Cardinality(ActiveIn(r2, v, t)) \in Nat
        /\ Cardinality(ActiveIn(r, v, t)) \in Nat
        /\ Cardinality(RowsIn(r2, v)) <= Cardinality(RowsIn(r, v))
        /\ Cardinality(RowsIn(r2, v)) \in Nat
        /\ Cardinality(RowsIn(r, v)) \in Nat
    BY <2>1, <2>2, SmallerSet
  <2> QED
    BY <2>3, ParameterTypes DEF WithinCaps
<1> QED
  BY <1>2, <1>3

(* The rows the admission prunes leave a place under the retained cap, and no more
   than one. *)
LEMMA PruneMakesRoom ==
  ASSUME TypeOK, NEW v \in Versions, NEW V \in OldestCompleted(v, Excess(v)),
         WithinCaps(row, now)
  PROVE  /\ Cardinality(RowsIn(row, v) \ V) < MaxRetained
         /\ V # {} => Cardinality(RowsIn(row, v) \ V) = MaxRetained - 1
<1> DEFINE A == RowsIn(row, v)
<1>1. A \in SUBSET Ids /\ OfVersion(v) = A /\ V \in SUBSET A
  BY DEF RowsIn, OfVersion, Present, OldestCompleted, Completed
<1>2. Cardinality(V) = Excess(v)
  BY DEF OldestCompleted
<1>3. IsFiniteSet(A) /\ Cardinality(A) \in Nat /\ Cardinality(V) \in Nat
  BY <1>1, SmallerSet
<1>4. Cardinality(A \ V) = Cardinality(A) - Cardinality(V)
  <2>1. A \cap V = V
    BY <1>1
  <2> QED
    BY <1>3, <2>1, FS_Difference
<1>5. Cardinality(A) <= MaxRetained
  BY DEF WithinCaps
<1>6. Excess(v) = IF Cardinality(A) >= MaxRetained
                    THEN Cardinality(A) - MaxRetained + 1 ELSE 0
  BY <1>1 DEF Excess
<1> HIDE DEF A
<1>7. Cardinality(A \ V) < MaxRetained
  BY <1>2, <1>3, <1>4, <1>5, <1>6, ParameterTypes
<1>8. V # {} => Cardinality(V) # 0
  BY <1>1, SmallerSet, FS_EmptySet
<1>9. V # {} => Cardinality(A \ V) = MaxRetained - 1
  BY <1>2, <1>3, <1>4, <1>5, <1>6, <1>8, ParameterTypes
<1> QED
  BY <1>7, <1>9 DEF A

(* An update of the state of a row to a completed one takes no place. *)
LEMMA CompletedTakesNoPlace ==
  ASSUME TypeOK, NEW p \in Ids, row[p] # None, NEW state \in RevealEligible,
         row' = [row EXCEPT ![p].state = state], WithinCaps(row, now)
  PROVE  WithinCaps(row', now)
<1>1. state \in States /\ state \notin PreAccusation
  BY DEF States, RevealEligible, PreAccusation
<1>2. /\ \A q \in Ids \ {p} : row'[q] = row[q]
      /\ row'[p] # None /\ row'[p].state = state
      /\ row'[p].version = row[p].version
  BY <1>1, StateUpdate
<1>3. \A v \in Versions : /\ RowsIn(row', v) \subseteq RowsIn(row, v)
                          /\ ActiveIn(row', v, now) \subseteq ActiveIn(row, v, now)
  BY <1>1, <1>2 DEF RowsIn, ActiveIn
<1> QED
  BY <1>3, FewerRows

LEMMA CapStep ==
  ASSUME OneStorePerSystem, CapInv, [Next]_vars
  PROVE  CapInv'
<1> USE ParameterTypes DEF tables, history
<1>0. TypeOK /\ TypeOK' /\ HoldsLock /\ Room /\ WithinCaps(row, now)
  BY TypeStep DEF CapInv
(* Steps of a worker that leave the tables and the locks alone and do not
   bring it to the insert. *)
<1>1. ASSUME NEW w \in Workers, \A u \in Workers \ {w} : req'[u] = req[u],
             UNCHANGED <<now, caseExists, row, lock>>, req'[w].pc # "insert",
             req'[w].pc = "create" => req'[w].at <= now
      PROVE  CapInv'
  BY <1>0, <1>1 DEF CapInv, HoldsLock, Room, Creating
<1>2. ASSUME NEW w \in Workers, Receive(w) PROVE CapInv'
  <2>1. ASSUME NEW p \in Ids, NEW v \in Versions, ReceiveCreate(w, p, v)
        PROVE  CapInv'
    BY <1>0, <1>1, <2>1 DEF ReceiveCreate, TypeOK, Time
  <2>2. ASSUME NEW p \in Ids, NEW c \in Charges, ReceiveAccusation(w, p, c)
        PROVE  CapInv'
    BY <1>0, <1>1, <2>2 DEF ReceiveAccusation, TypeOK
  <2>3. ASSUME NEW p \in Ids, NEW op \in {"reveal", "savegame"}, ReceiveRead(w, p, op)
        PROVE  CapInv'
    BY <1>0, <1>1, <2>3 DEF ReceiveRead, TypeOK
  <2> QED
    BY <1>2, <2>1, <2>2, <2>3 DEF Receive
<1>3. ASSUME NEW w \in Workers, AdmitCreate(w) PROVE CapInv'
  <2>1. PICK V \in OldestCompleted(req[w].version, Excess(req[w].version)) :
          req' = [req EXCEPT ![w] =
                    [pc |-> "insert", id |-> req[w].id, version |-> req[w].version,
                     at |-> req[w].at, pruned |-> V]]
    BY <1>3 DEF AdmitCreate
  <2>2. /\ lock[StoreOf[w]] = None /\ lock' = [lock EXCEPT ![StoreOf[w]] = w]
        /\ UNCHANGED <<now, caseExists, row>>
        /\ Cardinality(ActiveAt(req[w].version, req[w].at)) < MaxActive
        /\ req[w].pc \in Creating
    BY <1>3 DEF AdmitCreate, LockFree, Acquire, Admissible, Creating
  <2>3. req[w].version \in Versions /\ req[w].at <= now
    BY <1>0, <2>2, RequestParts DEF Room
  <2>4. /\ Cardinality(RowsIn(row, req[w].version) \ V) < MaxRetained
        /\ Cardinality(ActiveIn(row, req[w].version, req[w].at)) < MaxActive
    <3>1. ActiveAt(req[w].version, req[w].at) = ActiveIn(row, req[w].version, req[w].at)
      BY DEF ActiveAt, ActiveIn, OfVersion, Present, RowsIn
    <3> QED
      BY <1>0, <2>2, <2>3, <3>1, PruneMakesRoom
  <2>5. /\ \A u \in Workers \ {w} : req'[u] = req[u]
        /\ req'[w].version = req[w].version /\ req'[w].at = req[w].at
        /\ req'[w].pruned = V
    BY <1>0, <2>1 DEF TypeOK
  <2>6. HoldsLock'
    BY <1>0, <2>2, <2>5 DEF HoldsLock, TypeOK, OneStorePerSystem
  <2>7. Room'
    BY <1>0, <2>2, <2>3, <2>4, <2>5 DEF Room, Creating
  <2> QED
    BY <1>0, <2>2, <2>6, <2>7 DEF CapInv
<1>4. ASSUME NEW w \in Workers, InsertRow(w) PROVE CapInv'
  <2>1. /\ req[w].pc = "insert" /\ req[w].pc \in Creating
        /\ req[w].id \in Ids /\ req[w].version \in Versions
        /\ req[w].at \in Time /\ req[w].pruned \in SUBSET Ids
        /\ \A u \in Workers \ {w} : req'[u] = req[u]
        /\ req'[w] = Idle
        /\ lock' = [lock EXCEPT ![StoreOf[w]] = None]
        /\ UNCHANGED <<now, caseExists>>
    BY <1>0, <1>4, RequestParts DEF InsertRow, Creating, Finish, Release, TypeOK
  <2>2. \A u \in Workers \ {w} : req[u].pc # "insert"
    BY <1>0, <2>1 DEF HoldsLock, OneStorePerSystem
  <2>3. HoldsLock' /\ Room'
    <3>1. \A u \in Workers : /\ req'[u].pc # "insert"
                             /\ req'[u].pc = "create" => req'[u] = req[u]
      BY <2>1, <2>2 DEF Idle
    <3> QED
      BY <1>0, <2>1, <3>1 DEF HoldsLock, Room, Creating
  <2>4. WithinCaps(row', now)
    <3>1. CASE ~ UNCHANGED <<row, accusation>>
      <4> DEFINE n == [version |-> req[w].version, state |-> "PLAYING",
                       created |-> req[w].at, expires |-> Expiry(req[w].at)]
      <4>1. /\ caseExists
            /\ row' = [q \in Ids |-> IF q = req[w].id THEN n
                                     ELSE IF q \in req[w].pruned THEN None ELSE row[q]]
        BY <1>4, <3>1 DEF InsertRow
      <4>2. n \in Rows /\ n.version = req[w].version
        BY <2>1 DEF Rows, States, PreAccusation, Time, Expiry
      <4>3. /\ Cardinality(ActiveIn(row, n.version, req[w].at)) < MaxActive
            /\ Cardinality(RowsIn(row, n.version) \ req[w].pruned) < MaxRetained
            /\ req[w].at <= now
        BY <1>0, <2>1, <4>1, <4>2 DEF Room
      <4>4. row \in [Ids -> Rows \cup {None}] /\ now \in Time
        BY <1>0 DEF TypeOK
      <4> HIDE DEF n
      <4> QED
        BY <1>0, <2>1, <4>1, <4>2, <4>3, <4>4, Inserted
    <3>2. CASE UNCHANGED <<row, accusation>>
      BY <1>0, <1>4, <3>2 DEF InsertRow
    <3> QED
      BY <3>1, <3>2
  <2> QED
    BY <1>0, <2>1, <2>3, <2>4 DEF CapInv
<1>5. ASSUME NEW w \in Workers, SubmitAccusation(w) \/ ExposeTruth(w)
      PROVE  CapInv'
  <2>1. /\ lock[StoreOf[w]] = None /\ req[w].id \in Ids
        /\ \A u \in Workers \ {w} : req'[u] = req[u]
        /\ req'[w] = Idle
        /\ UNCHANGED <<now, caseExists, lock>>
    BY <1>0, <1>5, RequestParts
    DEF SubmitAccusation, ExposeTruth, LockFree, Finish, Asking, TypeOK
  <2>2. \A u \in Workers : req[u].pc # "insert"
    BY <1>0, <2>1 DEF HoldsLock, OneStorePerSystem
  <2>3. HoldsLock' /\ Room'
    <3>1. \A u \in Workers : /\ req'[u].pc # "insert"
                             /\ req'[u].pc = "create" => req'[u] = req[u]
      BY <2>1, <2>2 DEF Idle
    <3> QED
      BY <1>0, <2>1, <3>1 DEF HoldsLock, Room, Creating
  <2>4. WithinCaps(row', now)
    <3>1. ASSUME NEW state \in RevealEligible, row[req[w].id] # None,
                 row' = [row EXCEPT ![req[w].id].state = state]
          PROVE  WithinCaps(row', now)
      BY <1>0, <2>1, <3>1, CompletedTakesNoPlace
    <3>2. CASE SubmitAccusation(w)
      BY <1>0, <3>1, <3>2 DEF SubmitAccusation, Accusable, RevealEligible
    <3>3. CASE ExposeTruth(w)
      BY <1>0, <3>1, <3>3 DEF ExposeTruth, Revealable, RevealEligible
    <3> QED
      BY <1>5, <3>2, <3>3
  <2> QED
    BY <1>0, <2>1, <2>3, <2>4 DEF CapInv
<1>6. ASSUME NEW w \in Workers,
             RefuseCreate(w) \/ ExportSavegame(w) PROVE CapInv'
  <2>1. /\ \A u \in Workers \ {w} : req'[u] = req[u]
        /\ req'[w].pc = "idle"
        /\ UNCHANGED <<now, caseExists, row, lock>>
    BY <1>0, <1>6 DEF RefuseCreate, ExportSavegame, Finish, Idle, TypeOK
  <2> QED
    BY <1>1, <2>1
<1>7. ASSUME NEW w \in Workers,
             CheckAccusation(w) \/ CheckReveal(w) \/ CheckSavegame(w)
      PROVE  CapInv'
  <2>1. ASSUME NEW step \in Asking, req[w].pc \in Asking,
               Goto(w, step) \/ Finish(w), UNCHANGED <<now, caseExists, row, lock>>
        PROVE  CapInv'
    <3>1. CASE Goto(w, step)
      BY <1>0, <1>1, <2>1, <3>1, GotoParts DEF Asking
    <3>2. CASE Finish(w)
      BY <1>0, <1>1, <2>1, <3>2 DEF Finish, Idle, TypeOK
    <3> QED
      BY <2>1, <3>1, <3>2
  <2>2. CASE CheckAccusation(w)
    BY <2>1, <2>2 DEF CheckAccusation, Asking
  <2>3. CASE CheckReveal(w)
    BY <2>1, <2>3 DEF CheckReveal, Asking
  <2>4. CASE CheckSavegame(w)
    BY <2>1, <2>4 DEF CheckSavegame, Asking
  <2> QED
    BY <1>7, <2>2, <2>3, <2>4
<1>8. ASSUME NEW v \in Versions, PublishVersion(v) PROVE CapInv'
  BY <1>0, <1>8 DEF CapInv, PublishVersion, HoldsLock, Room
<1>9. ASSUME NEW s \in Stores, Crash(s) PROVE CapInv'
  <2>1. /\ \A u \in Workers : \/ req'[u] = Idle
                              \/ /\ StoreOf[u] # s /\ req'[u] = req[u]
                                 /\ lock'[StoreOf[u]] = lock[StoreOf[u]]
        /\ UNCHANGED <<now, caseExists, row>>
    BY <1>0, <1>9 DEF Crash, TypeOK
  <2>2. HoldsLock'
    BY <1>0, <2>1 DEF HoldsLock, Idle
  <2>3. Room'
    BY <1>0, <2>1 DEF Room, Creating, Idle
  <2> QED
    BY <1>0, <2>1, <2>2, <2>3 DEF CapInv
<1>10. CASE DeleteCase
  <2>1. /\ row' = [p \in Ids |-> None] /\ ~ caseExists'
        /\ UNCHANGED <<now, lock, req>>
    BY <1>10 DEF DeleteCase
  <2>2. WithinCaps(row', now)
    <3>1. \A v \in Versions : /\ RowsIn(row', v) \subseteq RowsIn(row, v)
                              /\ ActiveIn(row', v, now) \subseteq ActiveIn(row, v, now)
      BY <2>1 DEF RowsIn, ActiveIn
    <3> QED
      BY <1>0, <3>1, FewerRows
  <2>3. HoldsLock' /\ Room'
    BY <1>0, <2>1 DEF HoldsLock, Room
  <2> QED
    BY <1>0, <2>1, <2>2, <2>3 DEF CapInv
<1>11. CASE Tick
  <2>1. now \in Nat /\ now' = now + 1 /\ UNCHANGED <<caseExists, row, lock, req>>
    BY <1>0, <1>11 DEF Tick, TypeOK, Time
  <2>2. WithinCaps(row, now')
    <3>1. \A v \in Versions : ActiveIn(row, v, now') \subseteq ActiveIn(row, v, now)
      BY <1>0, <2>1 DEF ActiveIn, RowsIn, TypeOK, Rows, Time
    <3> QED
      BY <1>0, <3>1, FewerRows
  <2>3. HoldsLock' /\ Room'
    <3>1. \A w \in Workers : req[w].pc \in Creating => req[w].at \in Nat
      BY <1>0, RequestParts DEF Time
    <3> QED
      BY <1>0, <2>1, <3>1 DEF HoldsLock, Room
  <2> QED
    BY <1>0, <2>1, <2>2, <2>3 DEF CapInv
<1>12. CASE UNCHANGED vars
  BY <1>0, <1>12 DEF CapInv, vars, HoldsLock, Room
<1> QED
  BY <1>2, <1>3, <1>4, <1>5, <1>6, <1>7, <1>8, <1>9, <1>10, <1>11, <1>12
  DEF Next, Serve

LEMMA CapInit == Init => CapInv
<1> SUFFICES ASSUME Init PROVE CapInv
  OBVIOUS
<1>1. TypeOK
  BY ParameterTypes DEF Init, TypeOK, Time, Requests, Idle
<1>2. \A v \in Versions : RowsIn(row, v) = {} /\ ActiveIn(row, v, now) = {}
  BY DEF Init, RowsIn, ActiveIn
<1>3. WithinCaps(row, now)
  BY <1>2, FS_EmptySet, ParameterTypes DEF WithinCaps
<1> QED
  BY <1>1, <1>3 DEF Init, CapInv, HoldsLock, Room, Creating, Idle

(* With one Store, that is one backend process, no interleaving of creations,
   accusations, reveals, deletions, crashes and expiries exceeds either cap. *)
THEOREM CapsHold ==
  ASSUME OneStorePerSystem
  PROVE  Spec => []WithinBothCaps
<1>1. Init => CapInv
  BY CapInit
<1>2. CapInv /\ [Next]_vars => CapInv'
  BY CapStep
<1>3. CapInv => WithinBothCaps
  <2>1. \A v \in Versions : /\ ActiveAt(v, now) = ActiveIn(row, v, now)
                            /\ OfVersion(v) = RowsIn(row, v)
    BY DEF ActiveAt, ActiveIn, OfVersion, Present, RowsIn
  <2> QED
    BY <2>1 DEF CapInv, WithinCaps, WithinBothCaps, ActiveCap, RetainedCap
<1> QED
  BY <1>1, <1>2, <1>3, PTL DEF Spec

(* A row keeps its pin and its dates for life, its state only moves forward,
   and the id of a removed row never returns. *)
THEOREM PinsStay == Spec => PinNeverMoves
<1> DEFINE Kept(p) ==
      /\ (row[p] # None /\ row'[p] # None) =>
           /\ row'[p].version = row[p].version
           /\ row'[p].created = row[p].created
           /\ row'[p].expires = row[p].expires
           /\ Rank(row[p].state) <= Rank(row'[p].state)
      /\ (row[p] = None /\ row'[p] # None) => verdicts[p] = {}
<1>1. VerdictInv /\ [Next]_vars => [\A p \in Ids : Kept(p)]_vars
  <2> SUFFICES ASSUME VerdictInv, [Next]_vars, NEW p \in Ids PROVE Kept(p)
    OBVIOUS
  <2>0. TypeOK
    BY DEF VerdictInv
  <2>1. \A state \in States : Rank(state) \in Nat
    BY DEF States, PreAccusation, RevealEligible, Rank
  <2>2. CASE row'[p] = row[p]
    BY <2>0, <2>1, <2>2 DEF TypeOK, Rows
  <2>3. ASSUME NEW state \in RevealEligible, NEW q \in Ids, row[q] # None,
               state = "ACCUSED" => row[q].state \in PreAccusation,
               row' = [row EXCEPT ![q].state = state]
        PROVE  Kept(p)
    <3>1. state \in States /\ row[q].state \in States
      BY <2>0, <2>3 DEF States, TypeOK, Rows
    <3>2. p # q => row'[p] = row[p]
      BY <2>0, <2>3 DEF TypeOK
    <3>3. /\ row'[q].state = state
          /\ row'[q].version = row[q].version
          /\ row'[q].created = row[q].created
          /\ row'[q].expires = row[q].expires
      BY <2>0, <2>3, <3>1, StateUpdate
    <3>4. Rank(row[q].state) <= Rank(state)
      BY <2>3, <3>1 DEF Rank, States, PreAccusation, RevealEligible
    <3> QED
      BY <2>2, <2>3, <3>2, <3>3, <3>4
  <2>4. ASSUME NEW w \in Workers, InsertRow(w) PROVE Kept(p)
    <3>1. row[req[w].id] = None /\ verdicts[req[w].id] = {}
      BY <2>4 DEF InsertRow, VerdictInv, FreshIds, Creating
    <3>2. \/ row' = row
          \/ p = req[w].id
          \/ row'[p] \in {row[p], None}
      BY <2>4 DEF InsertRow
    <3> QED
      BY <2>2, <3>1, <3>2
  <2>5. ASSUME NEW w \in Workers, SubmitAccusation(w) PROVE Kept(p)
    <3>1. req[w].id \in Ids
      BY <2>0, <2>5, RequestParts DEF SubmitAccusation, Asking
    <3> QED
      BY <2>2, <2>3, <2>5, <3>1 DEF SubmitAccusation, Accusable, RevealEligible
  <2>6. ASSUME NEW w \in Workers, ExposeTruth(w) PROVE Kept(p)
    <3>1. req[w].id \in Ids
      BY <2>0, <2>6, RequestParts DEF ExposeTruth, Asking
    <3> QED
      BY <2>2, <2>3, <2>6, <3>1 DEF ExposeTruth, Revealable, RevealEligible
  <2>7. CASE DeleteCase
    BY <2>7 DEF DeleteCase
  <2>8. ASSUME NEW w \in Workers,
               \/ Receive(w) \/ AdmitCreate(w) \/ RefuseCreate(w)
               \/ CheckAccusation(w) \/ CheckReveal(w) \/ CheckSavegame(w)
               \/ ExportSavegame(w)
        PROVE  row' = row
    BY <2>8 DEF Receive, ReceiveCreate, ReceiveAccusation, ReceiveRead, AdmitCreate,
       RefuseCreate, CheckAccusation, CheckReveal, CheckSavegame, ExportSavegame, tables
  <2>9. ASSUME \/ \E v \in Versions : PublishVersion(v)
               \/ \E s \in Stores : Crash(s)
               \/ Tick \/ UNCHANGED vars
        PROVE  row' = row
    BY <2>9 DEF PublishVersion, Crash, Tick, vars, tables
  <2> QED
    BY <2>2, <2>4, <2>5, <2>6, <2>7, <2>8, <2>9 DEF Next, Serve
<1> QED
  BY <1>1, VerdictInvariant, PTL DEF Spec, PinNeverMoves
--------------------------------------------------------------------------------
(* Retention.  Between the choice of the rows to prune and the insert nothing but the
   deletion of the case touches the table. *)

ChosenBy(w) ==
  req[w].pc = "insert" /\ caseExists =>
    /\ req[w].pruned \subseteq Completed(req[w].version)
    /\ \A p \in req[w].pruned : \A q \in Completed(req[w].version) \ req[w].pruned :
         row[p].created <= row[q].created
    /\ req[w].pruned # {} =>
         Cardinality(RowsIn(row, req[w].version) \ req[w].pruned) = MaxRetained - 1

Chosen == \A w \in Workers : ChosenBy(w)

ChoiceInv == VerdictInv /\ CapInv /\ Chosen

LEMMA ChosenStep ==
  ASSUME OneStorePerSystem, CapInv, Chosen, [Next]_vars
  PROVE  Chosen'
<1> USE ParameterTypes DEF tables, history
<1>0. TypeOK /\ HoldsLock /\ WithinCaps(row, now)
  BY DEF CapInv
<1>1. ASSUME UNCHANGED row, caseExists' => caseExists,
             \A u \in Workers : req'[u].pc = "insert" => req'[u] = req[u]
      PROVE  Chosen'
  <2>1. \A v : UNCHANGED Completed(v)
    BY <1>1 DEF Completed, OfVersion, Present
  <2> QED
    BY <1>1, <2>1 DEF Chosen, ChosenBy
<1>2. ASSUME NEW w \in Workers, Receive(w) PROVE Chosen'
  <2>1. /\ UNCHANGED <<row, caseExists>>
        /\ \A u \in Workers \ {w} : req'[u] = req[u]
        /\ req'[w].pc # "insert"
    BY <1>0, <1>2 DEF Receive, ReceiveCreate, ReceiveAccusation, ReceiveRead, TypeOK
  <2> QED
    BY <1>1, <2>1
<1>3. ASSUME NEW w \in Workers, AdmitCreate(w) PROVE Chosen'
  <2>1. PICK V \in OldestCompleted(req[w].version, Excess(req[w].version)) :
          req' = [req EXCEPT ![w] =
                    [pc |-> "insert", id |-> req[w].id, version |-> req[w].version,
                     at |-> req[w].at, pruned |-> V]]
    BY <1>3 DEF AdmitCreate
  <2>2. UNCHANGED <<caseExists, row>> /\ req[w].version \in Versions
    BY <1>0, <1>3, RequestParts DEF AdmitCreate, Creating
  <2>3. /\ \A u \in Workers \ {w} : req'[u] = req[u]
        /\ req'[w].version = req[w].version /\ req'[w].pruned = V
    BY <1>0, <2>1 DEF TypeOK
  <2>4. /\ V \subseteq Completed(req[w].version)
        /\ \A p \in V : \A q \in Completed(req[w].version) \ V :
             row[p].created <= row[q].created
    BY DEF OldestCompleted
  <2>5. V # {} => Cardinality(RowsIn(row, req[w].version) \ V) = MaxRetained - 1
    BY <1>0, <2>2, PruneMakesRoom
  <2>6. \A v : UNCHANGED Completed(v)
    BY <2>2 DEF Completed, OfVersion, Present
  <2> QED
    <3>1. ASSUME NEW u \in Workers \ {w} PROVE ChosenBy(u)'
      <4>1. ChosenBy(u) /\ req'[u] = req[u]
        BY <2>3 DEF Chosen
      <4> QED
        BY <2>2, <2>6, <4>1 DEF ChosenBy
    <3>2. ChosenBy(w)'
      BY <2>2, <2>3, <2>4, <2>5, <2>6 DEF ChosenBy
    <3> QED
      BY <3>1, <3>2 DEF Chosen
<1>4. ASSUME NEW w \in Workers, InsertRow(w) \/ SubmitAccusation(w) \/ ExposeTruth(w)
      PROVE  Chosen'
  <2>1. /\ req[w].pc = "insert" \/ lock[StoreOf[w]] = None
        /\ req' = [req EXCEPT ![w] = Idle]
    BY <1>4 DEF InsertRow, SubmitAccusation, ExposeTruth, Finish, LockFree
  <2>2. \A u \in Workers \ {w} : req[u].pc # "insert"
    BY <1>0, <2>1 DEF HoldsLock, OneStorePerSystem
  <2> QED
    BY <1>0, <2>1, <2>2 DEF Chosen, ChosenBy, Idle, TypeOK
<1>5. ASSUME NEW w \in Workers, RefuseCreate(w) \/ ExportSavegame(w) PROVE Chosen'
  <2>1. /\ UNCHANGED <<row, caseExists>>
        /\ req' = [req EXCEPT ![w] = Idle]
    BY <1>5 DEF RefuseCreate, ExportSavegame, Finish
  <2> QED
    BY <1>0, <1>1, <2>1 DEF Idle, TypeOK
<1>6. ASSUME NEW w \in Workers,
             CheckAccusation(w) \/ CheckReveal(w) \/ CheckSavegame(w)
      PROVE  Chosen'
  <2>1. /\ UNCHANGED <<row, caseExists>> /\ req[w].pc \in Asking
        /\ \/ req' = [req EXCEPT ![w] = Idle]
           \/ Goto(w, "submit") \/ Goto(w, "expose") \/ Goto(w, "export")
    BY <1>6 DEF CheckAccusation, CheckReveal, CheckSavegame, Finish, Asking
  <2>2. \A u \in Workers : req'[u].pc = "insert" => req'[u] = req[u]
    BY <1>0, <2>1, GotoParts DEF Idle, TypeOK
  <2> QED
    BY <1>1, <2>1, <2>2
<1>7. ASSUME NEW s \in Stores, Crash(s) PROVE Chosen'
  <2>1. /\ UNCHANGED <<row, caseExists>>
        /\ \A u \in Workers : req'[u].pc = "insert" => req'[u] = req[u]
    BY <1>0, <1>7 DEF Crash, Idle, TypeOK
  <2> QED
    BY <1>1, <2>1
<1>8. CASE (\E v \in Versions : PublishVersion(v)) \/ Tick \/ UNCHANGED vars
  <2>1. UNCHANGED <<row, caseExists, req>>
    BY <1>8 DEF PublishVersion, Tick, vars
  <2> QED
    BY <1>1, <2>1
<1>9. CASE DeleteCase
  BY <1>9 DEF DeleteCase, Chosen, ChosenBy
<1> QED
  BY <1>2, <1>3, <1>4, <1>5, <1>6, <1>7, <1>8, <1>9 DEF Next, Serve

(* With one Store, what an admitted creation will prune stays what its query chose. *)
THEOREM ChoiceInvariant ==
  ASSUME OneStorePerSystem
  PROVE  Spec => []ChoiceInv
<1>1. Init => VerdictInv /\ CapInv /\ Chosen
  <2> SUFFICES ASSUME Init PROVE VerdictInv /\ CapInv /\ Chosen
    OBVIOUS
  <2>1. VerdictInv
    BY VerdictInit
  <2>2. CapInv
    BY CapInit
  <2> QED
    BY <2>1, <2>2 DEF Init, Chosen, ChosenBy, Idle
<1>2. VerdictInv /\ CapInv /\ Chosen /\ [Next]_vars => (VerdictInv /\ CapInv /\ Chosen)'
  BY VerdictStep, CapStep, ChosenStep
<1>3. ChoiceInv <=> VerdictInv /\ CapInv /\ Chosen
  BY DEF ChoiceInv
<1> QED
  BY <1>1, <1>2, <1>3, PTL DEF Spec

(* With one Store, retention removes completed rows only, and none while an older one
   of its version stays, although the choice is made a step before the delete. *)
THEOREM OldestGoFirst ==
  ASSUME OneStorePerSystem
  PROVE  Spec => OnlyOldestCompletedPruned
<1> DEFINE Fair(p) ==
      (row[p] # None /\ row'[p] = None /\ caseExists') =>
         /\ row[p].state \in RevealEligible
         /\ \A q \in Completed(row[p].version) :
              row'[q] # None => row[p].created <= row[q].created
<1>1. ChoiceInv /\ [Next]_vars => [\A p \in Ids : Fair(p)]_vars
  <2> SUFFICES ASSUME ChoiceInv, [Next]_vars, NEW p \in Ids,
                      row[p] # None, row'[p] = None, caseExists'
               PROVE  /\ row[p].state \in RevealEligible
                      /\ \A q \in Completed(row[p].version) :
                           row'[q] # None => row[p].created <= row[q].created
    OBVIOUS
  <2>0. TypeOK /\ FreshIds /\ Chosen
    BY DEF ChoiceInv, VerdictInv
  <2>1. PICK w \in Workers : InsertRow(w)
    <3>1. \A w \in Workers : ~ SubmitAccusation(w) /\ ~ ExposeTruth(w)
      <4> SUFFICES ASSUME NEW w \in Workers, SubmitAccusation(w) \/ ExposeTruth(w)
                   PROVE  row'[p] # None
        OBVIOUS
      <4>1. req[w].id \in Ids
        BY <2>0, RequestParts DEF SubmitAccusation, ExposeTruth, Asking
      <4>2. ASSUME NEW state \in States, row[req[w].id] # None,
                   row' = [row EXCEPT ![req[w].id].state = state]
            PROVE  row'[p] # None
        BY <2>0, <4>1, <4>2, StateUpdate
      <4> QED
        BY <4>1, <4>2
        DEF SubmitAccusation, ExposeTruth, Accusable, Revealable, States, RevealEligible
    <3> QED
      BY <3>1 DEF Next, Receive, ReceiveCreate, ReceiveAccusation, ReceiveRead, Serve,
         AdmitCreate, RefuseCreate, CheckAccusation, CheckReveal, CheckSavegame,
         ExportSavegame, PublishVersion, Crash, DeleteCase, Tick, vars, tables
  <2> DEFINE v == req[w].version
             V == req[w].pruned
             n == [version |-> v, state |-> "PLAYING", created |-> req[w].at,
                   expires |-> Expiry(req[w].at)]
  <2>2. /\ req[w].pc = "insert" /\ caseExists /\ req[w].pc \in Creating
        /\ row' = [q \in Ids |-> IF q = req[w].id THEN n
                                 ELSE IF q \in V THEN None ELSE row[q]]
    BY <2>1 DEF InsertRow, Creating
  <2>3. n # None /\ row[req[w].id] = None
    <3>1. n \in Rows
      BY <2>0, <2>2, RequestParts, ParameterTypes
      DEF Rows, States, PreAccusation, Time, Expiry
    <3> QED
      BY <2>0, <2>2, <3>1, NoneIsNoRow DEF FreshIds
  <2> HIDE DEF n
  <2>4. p \in V /\ \A q \in Ids : row[q] # None /\ row'[q] # None => q \notin V
    BY <2>2, <2>3
  <2>5. /\ V \subseteq Completed(v)
        /\ \A q \in Completed(v) \ V : row[p].created <= row[q].created
    BY <2>0, <2>2, <2>4 DEF Chosen, ChosenBy
  <2>6. row[p].version = v /\ row[p].state \in RevealEligible
    BY <2>4, <2>5 DEF Completed, OfVersion
  <2> QED
    BY <2>4, <2>5, <2>6 DEF Completed, OfVersion, Present
<1> QED
  BY <1>1, ChoiceInvariant, PTL DEF Spec, OnlyOldestCompletedPruned

--------------------------------------------------------------------------------
(* The implementation of the contract *)

LEMMA SeatFacts ==
  ASSUME TypeOK
  PROVE  /\ \A p \in Ids : SeatsNow[p] # None <=> row[p] # None
         /\ \A p \in Ids : row[p] # None =>
              SeatsNow[p] = [version |-> row[p].version, since |-> row[p].created,
                             until |-> row[p].expires,
                             revealed |-> row[p].state = "REVEALED"]
         /\ \A p \in Ids : row[p] # None =>
              /\ SeatsNow[p].version = row[p].version
              /\ SeatsNow[p].since = row[p].created
              /\ SeatsNow[p].until = row[p].expires
<1>1. ASSUME NEW p \in Ids, row[p] # None
      PROVE  [version |-> row[p].version, since |-> row[p].created,
              until |-> row[p].expires, revealed |-> row[p].state = "REVEALED"] # None
  <2>1. row[p] \in Rows
    BY <1>1 DEF TypeOK
  <2>2. [version |-> row[p].version, since |-> row[p].created,
         until |-> row[p].expires, revealed |-> row[p].state = "REVEALED"]
          \in Contract!Seats
    BY <2>1 DEF Rows, Contract!Seats, Time
  <2> QED
    BY <2>2, NoneIsNoSeat
<1>2. /\ \A p \in Ids : SeatsNow[p] # None <=> row[p] # None
      /\ \A p \in Ids : row[p] # None =>
           SeatsNow[p] = [version |-> row[p].version, since |-> row[p].created,
                          until |-> row[p].expires,
                          revealed |-> row[p].state = "REVEALED"]
  BY <1>1 DEF SeatsNow, SeatOf
<1>3. ASSUME NEW p \in Ids, row[p] # None
      PROVE  /\ SeatsNow[p].version = row[p].version
             /\ SeatsNow[p].since = row[p].created
             /\ SeatsNow[p].until = row[p].expires
  <2> DEFINE done == row[p].state = "REVEALED"
  <2>1. SeatsNow[p] = [version |-> row[p].version, since |-> row[p].created,
                       until |-> row[p].expires, revealed |-> done]
    BY <1>2, <1>3
  <2> HIDE DEF done
  <2> QED
    BY <2>1
<1> QED
  BY <1>2, <1>3

LEMMA VerdictFacts ==
  ASSUME Verdicts, NEW p \in Ids
  PROVE  /\ VerdictsNow[p] = None <=> verdicts[p] = {}
         /\ \A c \in Charges : verdicts[p] = {c} => VerdictsNow[p] = c
<1>1. None \notin Charges
  BY ParameterTypes
<1>2. verdicts[p] = {} \/ \E c \in Charges : verdicts[p] = {c}
  BY DEF Verdicts
<1>3. \A c : verdicts[p] = {c} => VerdictsNow[p] = c
  BY DEF VerdictsNow, VerdictOf
<1>4. verdicts[p] = {} => VerdictsNow[p] = None
  BY DEF VerdictsNow, VerdictOf
<1> QED
  BY <1>3, <1>4, <1>1, <1>2

(* The queries of the contract are those of the code. *)
LEMMA ContractQueries ==
  ASSUME VerdictInv, NEW v
  PROVE  /\ Contract!Held(v) = RowsIn(row, v)
         /\ Contract!Done(v) = Completed(v)
         /\ \A t : Contract!Live(v, t) = ActiveIn(row, v, t)
         /\ \A S : Contract!Cardinality(S) = Cardinality(S)
<1>0. TypeOK /\ Verdicts
  BY DEF VerdictInv
<1>1. \A S : Contract!Cardinality(S) = Cardinality(S)
  BY DEF Cardinality, Contract!Cardinality
<1>2. Contract!Held(v) = RowsIn(row, v)
  <2>1. \A p \in Ids : row[p] # None => SeatsNow[p].version = row[p].version
    BY <1>0, SeatFacts
  <2>2. \A p \in Ids : SeatsNow[p] # None <=> row[p] # None
    BY <1>0, SeatFacts
  <2> QED
    BY <2>1, <2>2 DEF Contract!Held, RowsIn
<1>3. \A p \in RowsIn(row, v) : /\ VerdictsNow[p] # None <=> row[p].state \in RevealEligible
                                /\ row[p].state \in PreAccusation \cup RevealEligible
                                /\ PreAccusation \cap RevealEligible = {}
  <2> SUFFICES ASSUME NEW p \in RowsIn(row, v)
               PROVE  /\ VerdictsNow[p] # None <=> row[p].state \in RevealEligible
                      /\ row[p].state \in PreAccusation \cup RevealEligible
                      /\ PreAccusation \cap RevealEligible = {}
    OBVIOUS
  <2>1. p \in Ids /\ row[p] # None /\ row[p] \in Rows
    BY <1>0 DEF RowsIn, TypeOK
  <2>2. /\ row[p].state \in PreAccusation \cup RevealEligible
        /\ PreAccusation \cap RevealEligible = {}
    BY <2>1 DEF Rows, States, PreAccusation, RevealEligible
  <2>3. verdicts[p] # {} <=> row[p].state \in RevealEligible
    BY <1>0, <2>1, <2>2 DEF Verdicts
  <2> QED
    BY <1>0, <2>1, <2>2, <2>3, VerdictFacts
<1>4. Completed(v) = {p \in RowsIn(row, v) : row[p].state \in RevealEligible}
  BY DEF Completed, OfVersion, Present, RowsIn
<1>5. Contract!Done(v) = Completed(v)
  BY <1>2, <1>3, <1>4 DEF Contract!Done
<1>6. ASSUME NEW t PROVE Contract!Live(v, t) = ActiveIn(row, v, t)
  <2>1. \A p \in Ids : row[p] # None => SeatsNow[p].until = row[p].expires
    BY <1>0, SeatFacts
  <2> QED
    BY <1>2, <1>3, <1>4, <1>5, <2>1 DEF Contract!Live, ActiveIn, RowsIn
<1> QED
  BY <1>1, <1>2, <1>5, <1>6

(* The insert is the instant at which a seat is taken. *)
LEMMA InsertEnters ==
  ASSUME ChoiceInv, NEW w \in Workers, InsertRow(w), ~ UNCHANGED <<row, accusation>>
  PROVE  Contract!Enter(req[w].id, req[w].version, req[w].at, req[w].pruned)
<1> DEFINE p == req[w].id
           v == req[w].version
           t == req[w].at
           V == req[w].pruned
           n == [version |-> v, state |-> "PLAYING", created |-> t, expires |-> Expiry(t)]
<1>0. TypeOK /\ VerdictInv /\ FreshIds /\ Verdicts /\ Pins /\ Room /\ Chosen
  BY DEF ChoiceInv, VerdictInv, CapInv
<1>1. /\ req[w].pc = "insert" /\ req[w].pc \in Creating
      /\ p \in Ids /\ v \in Versions /\ t \in Time /\ V \in SUBSET Ids
      /\ caseExists
      /\ row' = [q \in Ids |-> IF q = p THEN n ELSE IF q \in V THEN None ELSE row[q]]
      /\ UNCHANGED <<now, published, verdicts, truthShown>>
  BY <1>0, RequestParts DEF InsertRow, Creating, history
<1>2. v \in published /\ row[p] = None /\ verdicts[p] = {}
  BY <1>0, <1>1 DEF Pins, FreshIds
<1>3. SeatsNow[p] = None /\ VerdictsNow[p] = None
  BY <1>0, <1>1, <1>2, SeatFacts, VerdictFacts
<1>4. t <= now /\ Contract!Cardinality(Contract!Live(v, t)) < MaxActive
  BY <1>0, <1>1, ContractQueries DEF Room
<1>5. Contract!MakeRoom(v, V)
  <2>1. /\ V \subseteq Completed(v)
        /\ \A q \in V, u \in Completed(v) \ V : row[q].created <= row[u].created
        /\ Cardinality(RowsIn(row, v) \ V) < MaxRetained
        /\ V # {} => Cardinality(RowsIn(row, v) \ V) = MaxRetained - 1
    BY <1>0, <1>1 DEF Room, Chosen, ChosenBy
  <2>2. \A q \in Ids : row[q] # None => SeatsNow[q].since = row[q].created
    BY <1>0, SeatFacts
  <2>3. \A q \in Completed(v) : q \in Ids /\ row[q] # None
    BY DEF Completed, OfVersion, Present
  <2> QED
    BY <1>0, <2>1, <2>2, <2>3, ContractQueries DEF Contract!MakeRoom
<1>6. SeatsNow' = [q \in Ids |->
        IF q = p THEN [version |-> v, since |-> t, until |-> t + TokenTTL,
                       revealed |-> FALSE]
        ELSE IF q \in V THEN None ELSE SeatsNow[q]]
  <2>1. n # None /\ n.state # "REVEALED"
    <3>1. n \in Rows
      BY <1>1, ParameterTypes DEF Rows, States, PreAccusation, Time, Expiry
    <3> QED
      BY <3>1, NoneIsNoRow
  <2> SUFFICES ASSUME NEW q \in Ids
               PROVE  SeatOf(q)' =
                        IF q = p THEN [version |-> v, since |-> t, until |-> t + TokenTTL,
                                       revealed |-> FALSE]
                        ELSE IF q \in V THEN None ELSE SeatOf(q)
    BY DEF SeatsNow
  <2>2. CASE q = p
    <3>1. row'[q] = n /\ n.version = v /\ n.created = t /\ n.expires = t + TokenTTL
          /\ (n.state = "REVEALED") = FALSE
      BY <1>1, <2>1, <2>2 DEF Expiry
    <3> HIDE DEF n
    <3> QED
      BY <2>1, <2>2, <3>1 DEF SeatOf
  <2>3. CASE q # p /\ q \in V
    BY <1>1, <2>3 DEF SeatOf
  <2>4. CASE q # p /\ q \notin V
    BY <1>1, <2>4 DEF SeatOf
  <2> QED
    BY <2>2, <2>3, <2>4
<1>7. UNCHANGED VerdictsNow
  BY <1>1 DEF VerdictsNow, VerdictOf
<1> QED
  BY <1>4, <1>5, <1>6, <1>7, <1>1, <1>2, <1>3 DEF Contract!Enter

(* The compare-and-set is the instant of an accusation. *)
LEMMA SubmitAccuses ==
  ASSUME VerdictInv, NEW w \in Workers, SubmitAccusation(w),
         ~ UNCHANGED <<row, accusation, verdicts>>
  PROVE  Contract!Accuse(req[w].id, req[w].charge)
<1> DEFINE p == req[w].id
           c == req[w].charge
<1>0. TypeOK /\ Verdicts /\ Copies
  BY DEF VerdictInv
<1>1. /\ p \in Ids /\ c \in Charges /\ row[p] # None /\ row[p].state \in PreAccusation
      /\ c \in Candidates[req[w].seen.version] /\ row[p].version = req[w].seen.version
      /\ row' = [row EXCEPT ![p].state = "ACCUSED"]
      /\ verdicts' = [verdicts EXCEPT ![p] = @ \cup {c}]
      /\ UNCHANGED <<now, published, truthShown>>
  BY <1>0, RequestParts DEF SubmitAccusation, Accusable, Copies, Asking
<1>2. SeatsNow[p] # None /\ SeatsNow[p].version = row[p].version
  BY <1>0, <1>1, SeatFacts
<1>3. verdicts[p] = {} /\ VerdictsNow[p] = None
  BY <1>0, <1>1, VerdictFacts DEF Verdicts
<1>4. VerdictsNow' = [VerdictsNow EXCEPT ![p] = c]
  <2> SUFFICES ASSUME NEW q \in Ids
               PROVE  VerdictOf(q)' = IF q = p THEN c ELSE VerdictOf(q)
    BY DEF VerdictsNow
  <2>1. verdicts'[q] = IF q = p THEN {c} ELSE verdicts[q]
    BY <1>0, <1>1, <1>3 DEF TypeOK
  <2>2. CASE q = p
    <3>1. verdicts'[q] = {c} /\ {c} # {} /\ (CHOOSE d \in {c} : TRUE) = c
      BY <2>1, <2>2
    <3> QED
      BY <2>2, <3>1 DEF VerdictOf
  <2>3. CASE q # p
    BY <2>1, <2>3 DEF VerdictOf
  <2> QED
    BY <2>2, <2>3
<1>5. UNCHANGED SeatsNow
  <2> SUFFICES ASSUME NEW q \in Ids PROVE SeatOf(q)' = SeatOf(q)
    BY DEF SeatsNow
  <2>1. /\ \A u \in Ids \ {p} : row'[u] = row[u]
        /\ row'[p] # None /\ row'[p].state = "ACCUSED"
        /\ row'[p].version = row[p].version
        /\ row'[p].created = row[p].created /\ row'[p].expires = row[p].expires
    BY <1>0, <1>1, StateUpdate DEF States, RevealEligible
  <2>2. /\ (row'[p].state = "REVEALED") = FALSE
        /\ (row[p].state = "REVEALED") = FALSE
    BY <1>1, <2>1 DEF PreAccusation
  <2>3. CASE q = p
    BY <1>1, <2>1, <2>2, <2>3 DEF SeatOf
  <2>4. CASE q # p
    BY <2>1, <2>4 DEF SeatOf
  <2> QED
    BY <2>3, <2>4
<1> QED
  BY <1>3, <1>4, <1>5, <1>1, <1>2 DEF Contract!Accuse

LEMMA SeatRevealed ==
  ASSUME NEW v, NEW a, NEW b, NEW d, NEW e, NEW r,
         r = [version |-> v, since |-> a, until |-> b, revealed |-> d]
  PROVE  [r EXCEPT !.revealed = e] =
           [version |-> v, since |-> a, until |-> b, revealed |-> e]
OBVIOUS

(* The transaction of a reveal is the instant the truth is told. *)
LEMMA ExposeReveals ==
  ASSUME VerdictInv, NEW w \in Workers, ExposeTruth(w),
         ~ UNCHANGED <<row, shown, truthShown>>
  PROVE  Contract!Reveal(req[w].id)
<1> DEFINE p == req[w].id
<1>0. TypeOK /\ Verdicts
  BY DEF VerdictInv
<1>1. /\ p \in Ids /\ row[p] # None /\ row[p].state \in RevealEligible
      /\ row' = [row EXCEPT ![p].state = "REVEALED"]
      /\ truthShown' = truthShown \cup {p}
      /\ UNCHANGED <<now, published, verdicts>>
  BY <1>0, RequestParts DEF ExposeTruth, Revealable, Asking
<1>2. SeatsNow[p] # None
  BY <1>0, <1>1, SeatFacts
<1>3. VerdictsNow[p] # None
  BY <1>0, <1>1, VerdictFacts DEF Verdicts
<1>4. UNCHANGED VerdictsNow
  BY <1>1 DEF VerdictsNow, VerdictOf
<1>5. SeatsNow' = [SeatsNow EXCEPT ![p].revealed = TRUE]
  <2>1. /\ \A u \in Ids \ {p} : row'[u] = row[u]
        /\ row'[p] # None /\ row'[p].state = "REVEALED"
        /\ row'[p].version = row[p].version
        /\ row'[p].created = row[p].created /\ row'[p].expires = row[p].expires
    BY <1>0, <1>1, StateUpdate DEF States, RevealEligible
  <2>2. (row'[p].state = "REVEALED") = TRUE
    BY <2>1
  <2> SUFFICES ASSUME NEW q \in Ids
               PROVE  SeatOf(q)' = IF q = p THEN [SeatOf(q) EXCEPT !.revealed = TRUE]
                                   ELSE SeatOf(q)
    BY DEF SeatsNow
  <2>3. CASE q = p
    <3> DEFINE is  == row'[q].state = "REVEALED"
               was == row[q].state = "REVEALED"
               yes == TRUE
    <3>1. SeatOf(q)' = [version |-> row'[q].version, since |-> row'[q].created,
                        until |-> row'[q].expires, revealed |-> is]
      BY <2>1, <2>3 DEF SeatOf
    <3>2. SeatOf(q) = [version |-> row[q].version, since |-> row[q].created,
                       until |-> row[q].expires, revealed |-> was]
      BY <1>1, <2>3 DEF SeatOf
    <3>3. is = yes
      BY <2>2, <2>3
    <3> HIDE DEF is, was, yes
    <3>4. SeatOf(q)' = [version |-> row[q].version, since |-> row[q].created,
                        until |-> row[q].expires, revealed |-> yes]
      BY <2>1, <2>3, <3>1, <3>3
    <3>5. [SeatOf(q) EXCEPT !.revealed = yes] =
            [version |-> row[q].version, since |-> row[q].created,
             until |-> row[q].expires, revealed |-> yes]
      BY <3>2, SeatRevealed
    <3> QED
      BY <2>3, <3>4, <3>5, Zenon DEF yes
  <2>4. CASE q # p
    BY <2>1, <2>4 DEF SeatOf
  <2> QED
    BY <2>3, <2>4
<1> QED
  BY <1>3, <1>4, <1>5, <1>1, <1>2 DEF Contract!Reveal

(* Whatever does not change the tables, the clock or the history shows nothing. *)
LEMMA ContractUnchanged ==
  ASSUME UNCHANGED <<now, published, row, verdicts, truthShown>>
  PROVE  UNCHANGED <<now, published, SeatsNow, VerdictsNow, truthShown>>
BY DEF SeatsNow, SeatOf, VerdictsNow, VerdictOf

LEMMA ContractStep ==
  ASSUME ChoiceInv, [Next]_vars
  PROVE  Contract!Next \/ UNCHANGED <<now, published, SeatsNow, VerdictsNow, truthShown>>
<1> DEFINE Shown == <<now, published, SeatsNow, VerdictsNow, truthShown>>
           Goal == Contract!Next \/ UNCHANGED Shown
<1>0. VerdictInv /\ TypeOK /\ Verdicts /\ Copies
  BY DEF ChoiceInv, VerdictInv
<1>1. CASE UNCHANGED <<now, published, row, verdicts, truthShown>>
  BY <1>1, ContractUnchanged
<1>2. ASSUME NEW w \in Workers, InsertRow(w) PROVE Goal
  <2>1. CASE ~ UNCHANGED <<row, accusation>>
    <3>1. /\ req[w].id \in Ids /\ req[w].version \in Versions
          /\ req[w].at \in 0 .. MaxTime /\ req[w].pruned \in SUBSET Ids
      BY <1>0, <1>2, RequestParts DEF InsertRow, Creating, Time
    <3> QED
      BY <1>2, <2>1, <3>1, InsertEnters DEF Contract!Next
  <2>2. CASE UNCHANGED <<row, accusation>>
    BY <1>1, <1>2, <2>2 DEF InsertRow, history
  <2> QED
    BY <2>1, <2>2
<1>3. ASSUME NEW w \in Workers, SubmitAccusation(w) PROVE Goal
  <2>1. req[w].id \in Ids /\ req[w].charge \in Charges
    BY <1>0, <1>3, RequestParts DEF SubmitAccusation, Asking
  <2>2. CASE ~ UNCHANGED <<row, accusation, verdicts>>
    BY <1>0, <1>3, <2>1, <2>2, SubmitAccuses DEF Contract!Next
  <2>3. CASE UNCHANGED <<row, accusation, verdicts>>
    BY <1>1, <1>3, <2>3 DEF SubmitAccusation
  <2> QED
    BY <2>2, <2>3
<1>4. ASSUME NEW w \in Workers, ExposeTruth(w) PROVE Goal
  <2>1. req[w].id \in Ids
    BY <1>0, <1>4, RequestParts DEF ExposeTruth, Asking
  <2>2. CASE ~ UNCHANGED <<row, shown, truthShown>>
    BY <1>0, <1>4, <2>1, <2>2, ExposeReveals DEF Contract!Next
  <2>3. CASE UNCHANGED <<row, shown, truthShown>>
    BY <1>1, <1>4, <2>3 DEF ExposeTruth
  <2> QED
    BY <2>2, <2>3
<1>5. ASSUME NEW w \in Workers, ExportSavegame(w) PROVE Goal
  <2>1. req[w].id \in Ids /\ verdicts[req[w].id] # {}
    BY <1>0, <1>5, RequestParts DEF ExportSavegame, Asking, Copies
  <2>2. VerdictsNow[req[w].id] # None
    BY <1>0, <2>1, VerdictFacts
  <2>3. UNCHANGED <<now, published, row, verdicts>>
    BY <1>5 DEF ExportSavegame, tables
  <2>4. UNCHANGED <<SeatsNow, VerdictsNow>>
    BY <2>3 DEF SeatsNow, SeatOf, VerdictsNow, VerdictOf
  <2>5. CASE truthShown' = truthShown \cup {req[w].id}
    BY <2>3, <2>4, <2>5, <2>1, <2>2 DEF Contract!Next, Contract!Export
  <2>6. CASE truthShown' = truthShown
    BY <2>3, <2>4, <2>6
  <2> QED
    BY <1>5, <2>5, <2>6 DEF ExportSavegame
<1>6. ASSUME NEW v \in Versions, PublishVersion(v) PROVE Goal
  <2>1. UNCHANGED <<now, SeatsNow, VerdictsNow, truthShown>>
    BY <1>6 DEF PublishVersion, history, SeatsNow, SeatOf, VerdictsNow, VerdictOf
  <2> QED
    BY <1>6, <2>1 DEF PublishVersion, Contract!Publish, Contract!Next
<1>7. CASE DeleteCase
  <2>1. SeatsNow' = [p \in Ids |-> None]
    BY <1>7 DEF DeleteCase, SeatsNow, SeatOf
  <2>2. UNCHANGED <<now, VerdictsNow, truthShown>>
    BY <1>7 DEF DeleteCase, history, VerdictsNow, VerdictOf
  <2> QED
    BY <1>7, <2>1, <2>2 DEF DeleteCase, Contract!Close, Contract!Next
<1>8. CASE Tick
  <2>1. UNCHANGED <<published, SeatsNow, VerdictsNow, truthShown>>
    BY <1>8 DEF Tick, tables, history, SeatsNow, SeatOf, VerdictsNow, VerdictOf
  <2> QED
    BY <1>8, <2>1 DEF Tick, Contract!Pass, Contract!Next
<1>9. ASSUME NEW w \in Workers,
             \/ Receive(w) \/ AdmitCreate(w) \/ RefuseCreate(w)
             \/ CheckAccusation(w) \/ CheckReveal(w) \/ CheckSavegame(w)
      PROVE  UNCHANGED <<now, published, row, verdicts, truthShown>>
  BY <1>9 DEF Receive, ReceiveCreate, ReceiveAccusation, ReceiveRead, AdmitCreate,
     RefuseCreate, CheckAccusation, CheckReveal, CheckSavegame, tables, history
<1>10. ASSUME (\E s \in Stores : Crash(s)) \/ UNCHANGED vars
       PROVE  UNCHANGED <<now, published, row, verdicts, truthShown>>
  BY <1>10 DEF Crash, vars, tables, history
<1> QED
  BY <1>6, <1>7, <1>8, <1>9, <1>10, <1>1, <1>2, <1>3, <1>4, <1>5 DEF Next, Serve

(* With one Store the playthroughs keep the contract: each request, although served in
   several steps among those of others, takes effect at one instant. *)
THEOREM ContractKept ==
  ASSUME OneStorePerSystem
  PROVE  Spec => ImplementsContract
<1>1. Init => Contract!Init
  BY DEF Init, Contract!Init, SeatsNow, SeatOf, VerdictsNow, VerdictOf
<1>2. ChoiceInv /\ [Next]_vars => [Contract!Next]_(Contract!vars)
  BY ContractStep DEF Contract!vars
<1> QED
  BY <1>1, <1>2, ChoiceInvariant, PTL DEF Spec, ImplementsContract, Contract!Spec

--------------------------------------------------------------------------------
(* Investigation: the types.  What a request carries depends on where it is. *)

Inquiries ==
  {Idle}
  \cup [pc : {"check"}, id : Ids, seen : Rows, subject : Subjects]
  \cup [pc : {"ensure", "create", "look", "answer"}, id : Ids, seen : Rows,
        subject : Subjects, at : Time]
  \cup [pc : {"mark"}, id : Ids, seen : Rows, subject : Subjects, marks : Seq(Marks),
        at : Time]
  \cup [pc : {"write"}, id : Ids, seen : Rows, subject : Subjects, marks : Seq(Marks),
        at : Time, base : KnowledgeRows]

Marking  == {"mark", "write"}
Accepted == {"ensure", "create", "look", "answer"} \cup Marking

(* A request that marks has something to mark, and an interview that passed the
   check has an answer with grounds. *)
Prompted(r) ==
  /\ r.pc \in Marking => r.marks # <<>>
  /\ r.pc \in Accepted /\ r.subject.op = "interview" => Grounding[r.subject.question] # <<>>

Told ==
  /\ toldFound \in [Ids -> SUBSET Evidence]
  /\ toldOpened \in [Ids -> SUBSET (Evidence \X (Time \cup {None}))]

InquiryTypes ==
  /\ TypeOK
  /\ knowledge \in [Ids -> KnowledgeRows \cup {None}]
  /\ ask \in [Workers -> Inquiries]
  /\ \A w \in Workers : Prompted(ask[w])
  /\ Told

(* What the type of a request says of its parts. *)
LEMMA AskParts ==
  ASSUME NEW r \in Inquiries
  PROVE  /\ r.pc \in {"check"} \cup Accepted =>
              /\ r # Idle /\ r.id \in Ids /\ r.seen \in Rows /\ r.subject \in Subjects
         /\ r.pc \in Accepted => r.at \in Time
         /\ r.pc \in Marking => r.marks \in Seq(Marks)
         /\ r.pc = "write" => r.base \in KnowledgeRows
         /\ r.pc \in {"idle", "check"} \cup Accepted
         /\ r # Idle <=> r.pc # "idle"
BY DEF Inquiries, Idle, Accepted, Marking

(* What a subject speaks of. *)
LEMMA SubjectParts ==
  ASSUME NEW s \in Subjects
  PROVE  /\ s.op \in {"bootstrap", "interact", "read", "interview"}
         /\ s.op = "interact" =>
              /\ s.object \in Objects
              /\ Linked[s.object] \in Evidence \cup {None}
              /\ PlacedAt[s.object] \in Locations
         /\ s.op = "read" => s.evidence \in Evidence
         /\ s.op = "interview" => /\ s.question \in Questions
                                  /\ Grounding[s.question] \in Seq(Evidence)
BY PayloadTypes DEF AllSubjects

(* Places of evidence that an object is linked to. *)
LEMMA LinkedPlaces ==
  ASSUME NEW o \in Objects, Linked[o] # None
  PROVE  /\ Linked[o] \in Evidence
         /\ LocationsOf[Linked[o]] \in Seq(Locations)
         /\ Len(LocationsOf[Linked[o]]) \in Nat \ {0}
         /\ LocationsOf[Linked[o]][1] \in Locations
<1>1. Linked[o] \in Evidence /\ LocationsOf[Linked[o]] \in Seq(Locations)
  BY PayloadTypes
<1>2. DOMAIN LocationsOf[Linked[o]] # {}
  BY PayloadTypes
<1>3. Len(LocationsOf[Linked[o]]) \in Nat \ {0}
  BY <1>1, <1>2
<1> QED
  BY <1>1, <1>3

(* The marks of an operation are well formed. *)
LEMMA MarkTypes ==
  /\ \A l \in Locations : Visit(l) \in Marks
  /\ \A e \in Evidence : Opening(e) \in Marks /\ Discovery(e, {}) \in Marks
  /\ \A e \in Evidence, l \in Locations : Discovery(e, {l}) \in Marks
BY DEF Visit, Opening, Discovery, Marks

FirstMarks(e, places) ==
  << Discovery(e, {places[1]}) >> \o [i \in 1 .. Len(places) - 1 |-> Visit(places[i + 1])]

LEMMA Prepended ==
  ASSUME NEW S, NEW a \in S, NEW t \in Seq(S)
  PROVE  /\ <<a>> \o t \in Seq(S)
         /\ DOMAIN (<<a>> \o t) = 1 .. 1 + Len(t)
         /\ (<<a>> \o t)[1] = a
         /\ \A i \in 2 .. 1 + Len(t) : i - 1 \in DOMAIN t /\ (<<a>> \o t)[i] = t[i - 1]
OBVIOUS

LEMMA DiscoveryMarks ==
  ASSUME NEW e \in Evidence, NEW places \in Seq(Locations), Len(places) # 0
  PROVE  /\ FirstMarks(e, places) \in Seq(Marks) /\ FirstMarks(e, places) # <<>>
         /\ FirstMarks(e, places)[1] = Discovery(e, {places[1]})
         /\ \A i \in DOMAIN FirstMarks(e, places) : FirstMarks(e, places)[i].read = {}
<1> DEFINE rest  == [i \in 1 .. Len(places) - 1 |-> Visit(places[i + 1])]
           first == Discovery(e, {places[1]})
           marks == FirstMarks(e, places)
<1>1. Len(places) \in Nat /\ \A i \in 1 .. Len(places) : places[i] \in Locations
  OBVIOUS
<1>2. first \in Marks /\ first.read = {}
  BY <1>1, MarkTypes DEF Discovery
<1>3. rest \in Seq(Marks)
  <2>1. \A i \in 1 .. Len(places) - 1 : Visit(places[i + 1]) \in Marks
    BY <1>1, MarkTypes
  <2>2. Len(places) - 1 \in Nat
    BY <1>1
  <2> QED
    BY <2>1, <2>2
<1>4. \A i \in DOMAIN rest : rest[i].read = {}
  BY DEF Visit
<1>5. marks = << first >> \o rest
  BY DEF FirstMarks
<1> HIDE DEF first, rest, marks
<1>6. /\ marks \in Seq(Marks)
      /\ DOMAIN marks = 1 .. 1 + Len(rest)
      /\ marks[1] = first
      /\ \A i \in 2 .. 1 + Len(rest) : i - 1 \in DOMAIN rest /\ marks[i] = rest[i - 1]
  BY <1>2, <1>3, <1>5, Prepended
<1>7. Len(rest) \in Nat
  BY <1>3
<1>8. marks # <<>> /\ \A i \in DOMAIN marks : marks[i].read = {}
  <2>1. \A i \in DOMAIN marks : i = 1 \/ i \in 2 .. 1 + Len(rest)
    BY <1>6, <1>7
  <2>2. 1 \in DOMAIN marks
    BY <1>6, <1>7
  <2> QED
    BY <1>2, <1>4, <1>6, <2>1, <2>2
<1> QED
  BY <1>6, <1>8 DEF first, marks

LEMMA InterviewMarks ==
  ASSUME NEW records \in Seq(Evidence), records # <<>>
  PROVE  /\ DiscoverThenRead(records) \in Seq(Marks)
         /\ Len(DiscoverThenRead(records)) \in Nat /\ Len(DiscoverThenRead(records)) >= 2
         /\ DiscoverThenRead(records)[1] = Discovery(records[1], {})
         /\ DiscoverThenRead(records)[2] = Opening(records[1])
         /\ \A i \in DOMAIN DiscoverThenRead(records) :
              \A e \in DiscoverThenRead(records)[i].read :
                 \E j \in 1 .. i : e \in DiscoverThenRead(records)[j].discovered
<1> DEFINE n == Len(records)
           marks == DiscoverThenRead(records)
<1>1. n \in Nat /\ n >= 1 /\ \A i \in 1 .. n : records[i] \in Evidence
  OBVIOUS
<1>2. marks = [i \in 1 .. 2 * n |-> IF i % 2 = 1 THEN Discovery(records[(i + 1) \div 2], {})
                                    ELSE Opening(records[i \div 2])]
  BY DEF DiscoverThenRead
<1>3. ASSUME NEW i \in 1 .. 2 * n
      PROVE  /\ i % 2 = 1 => /\ (i + 1) \div 2 \in 1 .. n
                             /\ marks[i] = Discovery(records[(i + 1) \div 2], {})
             /\ i % 2 # 1 => /\ i \div 2 \in 1 .. n /\ i - 1 \in 1 .. i
                             /\ (i - 1) % 2 = 1 /\ ((i - 1) + 1) \div 2 = i \div 2
                             /\ marks[i] = Opening(records[i \div 2])
  <2>1. n \in Nat /\ i \in Nat /\ i >= 1 /\ i <= 2 * n
    BY <1>1
  <2>2. i % 2 = 1 => (i + 1) \div 2 \in 1 .. n
    BY <2>1
  <2>3. i % 2 # 1 => /\ i \div 2 \in 1 .. n /\ i - 1 \in 1 .. i
                     /\ (i - 1) % 2 = 1 /\ ((i - 1) + 1) \div 2 = i \div 2
    BY <2>1
  <2> QED
    BY <1>2, <2>2, <2>3
<1>4. \A i \in 1 .. 2 * n : marks[i] \in Marks
  BY <1>1, <1>3, MarkTypes
<1>5. marks \in Seq(Marks) /\ Len(marks) = 2 * n /\ DOMAIN marks = 1 .. 2 * n
  BY <1>1, <1>2, <1>4
<1>6. marks[1] = Discovery(records[1], {}) /\ marks[2] = Opening(records[1])
  BY <1>1, <1>2
<1>7. ASSUME NEW i \in 1 .. 2 * n, NEW e \in marks[i].read
      PROVE  \E j \in 1 .. i : e \in marks[j].discovered
  <2>1. CASE i % 2 = 1
    <3>1. marks[i] = Discovery(records[(i + 1) \div 2], {})
      BY <1>3, <2>1
    <3>2. marks[i].read = {}
      BY <3>1 DEF Discovery
    <3> QED
      BY <1>7, <3>2
  <2>2. CASE i % 2 # 1
    <3>1. /\ i - 1 \in 1 .. i /\ i - 1 \in 1 .. 2 * n
          /\ marks[i] = Opening(records[i \div 2])
          /\ marks[i - 1] = Discovery(records[((i - 1) + 1) \div 2], {})
          /\ ((i - 1) + 1) \div 2 = i \div 2
      BY <1>1, <1>3, <2>2
    <3>2. e = records[i \div 2] /\ marks[i - 1].discovered = {records[i \div 2]}
      BY <1>7, <3>1 DEF Opening, Discovery
    <3> QED
      BY <3>1, <3>2
  <2> QED
    BY <2>1, <2>2
<1> QED
  BY <1>1, <1>5, <1>6, <1>7

--------------------------------------------------------------------------------
(* Shapes of steps.  A step of the lifecycle or a crash is a step of Playthroughs;
   every other step is a step of one request, which moves on to r. *)

BaseStep == LifecycleStep \/ \E s \in Stores : CrashAll(s)

LEMMA BaseIsNext ==
  ASSUME BaseStep
  PROVE  Next
<1>1. CASE LifecycleStep
  BY <1>1 DEF LifecycleStep, Next
<1>2. CASE \E s \in Stores : CrashAll(s)
  BY <1>2 DEF CrashAll, Next
<1> QED
  BY <1>1, <1>2 DEF BaseStep

MovesTo(w, r) == ask' = [ask EXCEPT ![w] = r]

LEMMA OwnTypes ==
  ASSUME InquiryTypes, NEW w \in Workers, NEW r \in Inquiries, Prompted(r), MovesTo(w, r),
         UNCHANGED Lifecycle, lock' \in [Stores -> Workers \cup {None}],
         knowledge' \in [Ids -> KnowledgeRows \cup {None}], Told'
  PROVE  InquiryTypes'
<1>1. TypeOK'
  BY DEF InquiryTypes, TypeOK, Lifecycle, tables, history
<1>2. ask' \in [Workers -> Inquiries] /\ \A u \in Workers : Prompted(ask'[u])
  BY DEF InquiryTypes, MovesTo
<1> QED
  BY <1>1, <1>2 DEF InquiryTypes, Prompted

LEMMA LockTypes ==
  ASSUME InquiryTypes, NEW w \in Workers, UNCHANGED lock \/ Acquire(w) \/ Release(w)
  PROVE  lock' \in [Stores -> Workers \cup {None}]
BY ParameterTypes DEF InquiryTypes, TypeOK, Acquire, Release

(* A request that is over. *)
LEMMA IdleFits == Idle \in Inquiries /\ Prompted(Idle)
BY DEF Inquiries, Idle, Prompted, Marking, Accepted

(* A request that goes on with what it carries. *)
LEMMA AtFits ==
  ASSUME InquiryTypes, NEW w \in Workers, ask[w].pc \in Accepted,
         NEW step \in {"ensure", "create", "look", "answer"}
  PROVE  At(w, step) \in Inquiries /\ Prompted(At(w, step))
<1>1. ask[w] \in Inquiries /\ Prompted(ask[w])
  BY DEF InquiryTypes
<1>2. /\ ask[w].id \in Ids /\ ask[w].seen \in Rows
      /\ ask[w].subject \in Subjects /\ ask[w].at \in Time
  BY <1>1, AskParts
<1>3. At(w, step) \in Inquiries
  BY <1>2 DEF At, Inquiries
<1> QED
  BY <1>1, <1>3 DEF At, Prompted, Marking, Accepted

MarkAt(w, marks) == [pc |-> "mark", id |-> ask[w].id, seen |-> ask[w].seen,
                     subject |-> ask[w].subject, marks |-> marks, at |-> ask[w].at]

LEMMA MarkFits ==
  ASSUME InquiryTypes, NEW w \in Workers, ask[w].pc \in Accepted,
         NEW marks \in Seq(Marks), marks # <<>>
  PROVE  MarkAt(w, marks) \in Inquiries /\ Prompted(MarkAt(w, marks))
<1>1. ask[w] \in Inquiries /\ Prompted(ask[w])
  BY DEF InquiryTypes
<1>2. /\ ask[w].id \in Ids /\ ask[w].seen \in Rows
      /\ ask[w].subject \in Subjects /\ ask[w].at \in Time
  BY <1>1, AskParts
<1>3. MarkAt(w, marks) \in Inquiries
  BY <1>2 DEF MarkAt, Inquiries
<1> QED
  BY <1>1, <1>3 DEF MarkAt, Prompted, Marking, Accepted

LEMMA TailParts ==
  ASSUME NEW S, NEW s \in Seq(S), s # <<>>
  PROVE  /\ Len(s) \in Nat /\ Len(s) >= 1
         /\ Head(s) = s[1] /\ Head(s) \in S /\ 1 \in DOMAIN s
         /\ Tail(s) \in Seq(S)
         /\ DOMAIN Tail(s) = 1 .. Len(s) - 1 /\ Len(Tail(s)) = Len(s) - 1
         /\ \A i \in 1 .. Len(s) - 1 : i + 1 \in DOMAIN s /\ Tail(s)[i] = s[i + 1]
         /\ Len(s) > 1 => Tail(s) # <<>>
<1>1. Len(s) \in Nat /\ Len(s) >= 1 /\ DOMAIN s = 1 .. Len(s)
  OBVIOUS
<1>2. /\ Tail(s) \in Seq(S) /\ DOMAIN Tail(s) = 1 .. Len(s) - 1
      /\ \A i \in 1 .. Len(s) - 1 : i + 1 \in DOMAIN s /\ Tail(s)[i] = s[i + 1]
      /\ Len(Tail(s)) = Len(s) - 1
  OBVIOUS
<1>3. Len(s) > 1 => 1 \in DOMAIN Tail(s)
  BY <1>1, <1>2
<1>4. Len(s) > 1 => Tail(s) # <<>>
  <2> SUFFICES ASSUME Len(s) > 1, Tail(s) = <<>> PROVE FALSE
    OBVIOUS
  <2>1. 1 \in DOMAIN <<>>
    BY <1>3, Zenon
  <2> QED
    BY <2>1
<1>5. Head(s) = s[1] /\ Head(s) \in S
  OBVIOUS
<1> QED
  BY <1>1, <1>2, <1>4, <1>5

LEMMA NextFits ==
  ASSUME InquiryTypes, NEW w \in Workers, ask[w].pc \in Marking
  PROVE  NextMark(w) \in Inquiries /\ Prompted(NextMark(w))
<1>1. ask[w].marks \in Seq(Marks) /\ ask[w].pc \in Accepted
  BY AskParts DEF InquiryTypes, Accepted
<1>2. CASE Len(ask[w].marks) > 1
  <2>1. Tail(ask[w].marks) \in Seq(Marks) /\ Tail(ask[w].marks) # <<>>
    <3>1. ask[w].marks # <<>>
      BY <1>2
    <3> QED
      BY <1>1, <1>2, <3>1, TailParts
  <2>2. NextMark(w) = MarkAt(w, Tail(ask[w].marks))
    BY <1>2 DEF NextMark, MarkAt
  <2> QED
    BY <1>1, <2>1, <2>2, MarkFits
<1>3. CASE ~ (Len(ask[w].marks) > 1)
  BY <1>1, <1>3, AtFits DEF NextMark
<1> QED
  BY <1>2, <1>3

WriteAt(w) == [pc |-> "write", id |-> ask[w].id, seen |-> ask[w].seen,
               subject |-> ask[w].subject, marks |-> ask[w].marks, at |-> ask[w].at,
               base |-> knowledge[ask[w].id]]

LEMMA WriteFits ==
  ASSUME InquiryTypes, NEW w \in Workers, ask[w].pc = "mark", knowledge[ask[w].id] # None
  PROVE  WriteAt(w) \in Inquiries /\ Prompted(WriteAt(w))
<1>1. ask[w] \in Inquiries /\ Prompted(ask[w])
  BY DEF InquiryTypes
<1>2. /\ ask[w].id \in Ids /\ ask[w].seen \in Rows /\ ask[w].marks \in Seq(Marks)
      /\ ask[w].subject \in Subjects /\ ask[w].at \in Time
  BY <1>1, AskParts DEF Accepted, Marking
<1>3. knowledge[ask[w].id] \in KnowledgeRows
  BY <1>2 DEF InquiryTypes
<1>4. WriteAt(w) \in Inquiries
  BY <1>2, <1>3 DEF WriteAt, Inquiries
<1> QED
  BY <1>1, <1>4 DEF WriteAt, Prompted, Marking, Accepted

LEMMA SnapshotTypes ==
  ASSUME InquiryTypes, NEW p \in Ids
  PROVE  Snapshot(p) \in KnowledgeRows
<1>1. NothingKnown \in KnowledgeRows
  BY DEF NothingKnown, KnowledgeRows
<1> QED
  BY <1>1 DEF Snapshot, InquiryTypes

LEMMA WrittenTypes ==
  ASSUME NEW mark \in Marks, NEW base \in KnowledgeRows, NEW k \in KnowledgeRows,
         NEW at \in Time
  PROVE  Written(mark, base, k, at) \in KnowledgeRows
<1>1. [e \in Evidence |-> IF e \in mark.read /\ base.opened[e] = None THEN at
                          ELSE base.opened[e]] \in [Evidence -> Time \cup {None}]
  BY DEF KnowledgeRows
<1> QED
  BY <1>1 DEF Written, KnowledgeRows, Marks

(* What an answer presents is evidence of the case. *)
LEMMA RecordTypes ==
  ASSUME InquiryTypes, NEW w \in Workers, ask[w].pc \in Accepted,
         ask[w].subject.op \in {"read", "interview"}
  PROVE  RecordOf(ask[w].subject) \in Evidence
<1>1. ask[w].subject \in Subjects /\ Prompted(ask[w])
  BY AskParts DEF InquiryTypes
<1>2. CASE ask[w].subject.op = "read"
  BY <1>1, <1>2, SubjectParts DEF RecordOf
<1>3. CASE ask[w].subject.op = "interview"
  <2>1. /\ Grounding[ask[w].subject.question] \in Seq(Evidence)
        /\ Grounding[ask[w].subject.question] # <<>>
    BY <1>1, <1>3, SubjectParts DEF Prompted
  <2> QED
    BY <1>3, <2>1 DEF RecordOf
<1> QED
  BY <1>2, <1>3

LEMMA InquiryTypesStep ==
  ASSUME InquiryTypes, [NextInvestigation]_allVars
  PROVE  InquiryTypes'
<1>0. TypeOK /\ knowledge \in [Ids -> KnowledgeRows \cup {None}]
      /\ ask \in [Workers -> Inquiries] /\ (\A w \in Workers : Prompted(ask[w])) /\ Told
  BY DEF InquiryTypes
<1>1. CASE BaseStep
  <2>1. TypeOK'
    BY <1>0, <1>1, BaseIsNext, TypeStep
  <2>2. /\ knowledge' \in [Ids -> KnowledgeRows \cup {None}]
        /\ UNCHANGED <<toldFound, toldOpened>>
    BY <1>0, <1>1 DEF BaseStep, LifecycleStep, Cascade, CrashAll, answers
  <2>3. \A w \in Workers : ask'[w] \in {ask[w], Idle}
    BY <1>1 DEF BaseStep, LifecycleStep, Cascade, CrashAll
  <2>4. ask' \in [Workers -> Inquiries]
    BY <1>0, <1>1, IdleFits DEF BaseStep, LifecycleStep, Cascade, CrashAll
  <2>5. \A w \in Workers : Prompted(ask'[w])
    BY <1>0, <2>3, IdleFits
  <2> QED
    BY <1>0, <2>1, <2>2, <2>4, <2>5 DEF InquiryTypes, Prompted, Told
<1>2. ASSUME NEW w \in Workers, NEW p \in Ids, NEW s \in Subjects, ReceiveQuestion(w, p, s)
      PROVE  InquiryTypes'
  <2> DEFINE r == [pc |-> "check", id |-> p, seen |-> row[p], subject |-> s]
  <2>1. row[p] \in Rows
    BY <1>0, <1>2 DEF ReceiveQuestion, Authorized, TypeOK
  <2>2. r \in Inquiries /\ Prompted(r)
    BY <2>1 DEF Inquiries, Prompted, Marking, Accepted
  <2> QED
    BY <1>0, <1>2, <2>2, OwnTypes
    DEF ReceiveQuestion, Proceed, MovesTo, vars, Lifecycle, answers, Told, TypeOK
<1>3. ASSUME NEW w \in Workers, CheckQuestion(w) PROVE InquiryTypes'
  <2> DEFINE r == [pc |-> "ensure", id |-> ask[w].id, seen |-> ask[w].seen,
                   subject |-> ask[w].subject, at |-> now]
  <2>1. /\ ask[w].id \in Ids /\ ask[w].seen \in Rows /\ ask[w].subject \in Subjects
        /\ now \in Time
    BY <1>0, <1>3, AskParts DEF CheckQuestion, TypeOK
  <2>2. r \in Inquiries
    BY <2>1 DEF Inquiries
  <2>3. ask[w].subject.op = "interview" =>
          Grounding[ask[w].subject.question] # <<>> \/ Answer(w)
    BY <1>3 DEF CheckQuestion
  <2>4. MovesTo(w, Idle) \/ (MovesTo(w, r) /\ Prompted(r))
    BY <1>3 DEF CheckQuestion, Answer, Proceed, MovesTo, Prompted, Marking, Accepted
  <2> HIDE DEF r
  <2>5. UNCHANGED <<Lifecycle, lock, knowledge, toldFound, toldOpened>>
    BY <1>3 DEF CheckQuestion, vars, Lifecycle, answers
  <2> QED
    BY <1>0, <2>2, <2>4, <2>5, OwnTypes, IdleFits DEF Told, TypeOK
<1>4. ASSUME NEW w \in Workers, EnsureRow(w) \/ CreateRow(w) PROVE InquiryTypes'
  <2>1. ask[w].pc \in Accepted /\ ask[w].id \in Ids
    BY <1>0, <1>4, AskParts DEF EnsureRow, CreateRow, Accepted
  <2>2. \/ MovesTo(w, Idle) \/ MovesTo(w, At(w, "look")) \/ MovesTo(w, At(w, "create"))
    BY <1>4 DEF EnsureRow, CreateRow, Answer, Proceed, MovesTo
  <2>3. UNCHANGED <<Lifecycle, toldFound, toldOpened>>
        /\ (UNCHANGED lock \/ Acquire(w) \/ Release(w))
    BY <1>4 DEF EnsureRow, CreateRow, answers
  <2>4. knowledge' \in [Ids -> KnowledgeRows \cup {None}]
    <3>1. NothingKnown \in KnowledgeRows
      BY DEF NothingKnown, KnowledgeRows
    <3> QED
      BY <1>0, <1>4, <2>1, <3>1 DEF EnsureRow, CreateRow
  <2> QED
    BY <1>0, <2>1, <2>2, <2>3, <2>4, OwnTypes, LockTypes, IdleFits, AtFits DEF Told
<1>5. ASSUME NEW w \in Workers,
             \/ AnswerBootstrap(w) \/ AnswerInspection(w) \/ AnswerRecord(w)
             \/ RefuseInteraction(w)
      PROVE  InquiryTypes'
  <2>1. ask[w].pc \in Accepted /\ ask[w].id \in Ids /\ ask[w].subject \in Subjects
    BY <1>0, <1>5, AskParts
    DEF AnswerBootstrap, AnswerInspection, AnswerRecord, RefuseInteraction, Looking, Accepted
  <2>2. MovesTo(w, Idle) /\ UNCHANGED <<Lifecycle, lock, knowledge>>
    BY <1>5 DEF AnswerBootstrap, AnswerInspection, AnswerRecord, RefuseInteraction,
                Answer, MovesTo, Lifecycle, vars
  <2>3. Told'
    <3>1. Snapshot(ask[w].id) \in KnowledgeRows
      BY <2>1, SnapshotTypes
    <3>2. CASE AnswerBootstrap(w)
      BY <1>0, <2>1, <3>1, <3>2 DEF AnswerBootstrap, Told, KnowledgeRows
    <3>3. CASE AnswerInspection(w)
      BY <1>0, <2>1, <3>3, SubjectParts DEF AnswerInspection, Told
    <3>4. CASE AnswerRecord(w)
      <4>1. RecordOf(ask[w].subject) \in Evidence
        BY <2>1, <3>4, RecordTypes DEF AnswerRecord
      <4>2. Snapshot(ask[w].id).opened[RecordOf(ask[w].subject)] \in Time \cup {None}
        BY <3>1, <4>1 DEF KnowledgeRows
      <4> QED
        BY <1>0, <2>1, <3>4, <4>1, <4>2 DEF AnswerRecord, Told
    <3>5. CASE RefuseInteraction(w)
      BY <1>0, <3>5 DEF RefuseInteraction, Told, answers
    <3> QED
      BY <1>5, <3>2, <3>3, <3>4, <3>5
  <2> QED
    BY <1>0, <2>2, <2>3, OwnTypes, IdleFits DEF TypeOK
<1>6. ASSUME NEW w \in Workers,
             InspectObject(w) \/ OpenRecord(w) \/ InterviewWitness(w) \/ DiscoverEvidence(w)
      PROVE  InquiryTypes'
  <2>1. ask[w].pc \in Accepted /\ ask[w].id \in Ids /\ ask[w].subject \in Subjects
    BY <1>0, <1>6, AskParts
    DEF InspectObject, OpenRecord, InterviewWitness, DiscoverEvidence, Looking, Accepted
  <2>2. UNCHANGED <<Lifecycle, lock, knowledge, toldOpened>>
    BY <1>6 DEF InspectObject, OpenRecord, InterviewWitness, DiscoverEvidence,
                Lifecycle, vars, answers
  <2>3. \/ MovesTo(w, Idle)
        \/ \E marks \in Seq(Marks) : marks # <<>> /\ MovesTo(w, MarkAt(w, marks))
    <3>1. CASE InspectObject(w)
      <4>1. << Visit(PlacedAt[ask[w].subject.object]) >> \in Seq(Marks)
        BY <2>1, <3>1, SubjectParts, MarkTypes DEF InspectObject, Looking
      <4> QED
        BY <3>1, <4>1 DEF InspectObject, Mark, MarkAt, Proceed, MovesTo
    <3>2. CASE OpenRecord(w)
      <4>1. << Opening(ask[w].subject.evidence) >> \in Seq(Marks)
        BY <2>1, <3>2, SubjectParts, MarkTypes DEF OpenRecord, Looking
      <4> QED
        BY <3>2, <4>1 DEF OpenRecord, Mark, MarkAt, Answer, Proceed, MovesTo
    <3>3. CASE InterviewWitness(w)
      <4> DEFINE records == Grounding[ask[w].subject.question]
      <4>1. records \in Seq(Evidence) /\ records # <<>>
        BY <1>0, <2>1, <3>3, SubjectParts DEF InterviewWitness, Looking, Prompted
      <4>2. /\ DiscoverThenRead(records) \in Seq(Marks)
            /\ DiscoverThenRead(records) # <<>>
        <5> HIDE DEF records
        <5> QED
          BY <4>1, InterviewMarks
      <4> QED
        BY <3>3, <4>2 DEF InterviewWitness, Mark, MarkAt, Proceed, MovesTo
    <3>4. CASE DiscoverEvidence(w)
      <4> DEFINE e == Linked[ask[w].subject.object]
      <4>1. e # None /\ ask[w].subject.object \in Objects
        BY <2>1, <3>4, SubjectParts DEF DiscoverEvidence, Looking
      <4>2. /\ e \in Evidence /\ LocationsOf[e] \in Seq(Locations)
            /\ Len(LocationsOf[e]) # 0
        BY <4>1, LinkedPlaces
      <4>3. FirstMarks(e, LocationsOf[e]) \in Seq(Marks) /\ FirstMarks(e, LocationsOf[e]) # <<>>
        <5> HIDE DEF e
        <5> QED
          BY <4>2, DiscoveryMarks
      <4>4. MovesTo(w, Idle) \/ MovesTo(w, MarkAt(w, FirstMarks(e, LocationsOf[e])))
        BY <3>4 DEF DiscoverEvidence, Mark, MarkAt, FirstMarks, Answer, Proceed, MovesTo
      <4> QED
        BY <4>3, <4>4
    <3> QED
      BY <1>6, <3>1, <3>2, <3>3, <3>4
  <2>4. Told'
    <3>1. toldFound' = toldFound \/ \E e \in Evidence :
              toldFound' = [toldFound EXCEPT ![ask[w].id] = @ \cup {e}]
      <4>1. ASSUME DiscoverEvidence(w) PROVE Linked[ask[w].subject.object] \in Evidence
        BY <2>1, <4>1, SubjectParts DEF DiscoverEvidence, Looking
      <4> QED
        BY <1>6, <4>1 DEF InspectObject, OpenRecord, InterviewWitness, DiscoverEvidence, answers
    <3> QED
      BY <1>0, <2>1, <2>2, <3>1 DEF Told
  <2> QED
    BY <1>0, <2>1, <2>2, <2>3, <2>4, OwnTypes, IdleFits, MarkFits DEF TypeOK
<1>7. ASSUME NEW w \in Workers, ReadRow(w) PROVE InquiryTypes'
  <2>1. ask[w].pc = "mark"
    BY <1>7 DEF ReadRow
  <2>2. \/ MovesTo(w, Idle) \/ MovesTo(w, NextMark(w))
        \/ knowledge[ask[w].id] # None /\ MovesTo(w, WriteAt(w))
    BY <1>7 DEF ReadRow, Answer, Proceed, MovesTo, WriteAt
  <2>3. UNCHANGED <<Lifecycle, knowledge, toldFound, toldOpened>>
        /\ (UNCHANGED lock \/ Acquire(w) \/ Release(w))
    BY <1>7 DEF ReadRow, answers
  <2> QED
    BY <1>0, <2>1, <2>2, <2>3, OwnTypes, LockTypes, IdleFits, NextFits, WriteFits
    DEF Told, Marking
<1>8. ASSUME NEW w \in Workers, WriteRow(w) PROVE InquiryTypes'
  <2>1. /\ ask[w].pc = "write" /\ ask[w].id \in Ids /\ ask[w].marks \in Seq(Marks)
        /\ ask[w].marks # <<>> /\ ask[w].at \in Time /\ ask[w].base \in KnowledgeRows
    BY <1>0, <1>8, AskParts DEF WriteRow, Accepted, Marking, Prompted
  <2>2. MovesTo(w, Idle) \/ MovesTo(w, NextMark(w))
    BY <1>8 DEF WriteRow, Answer, Proceed, MovesTo
  <2>3. UNCHANGED <<Lifecycle, toldFound, toldOpened>> /\ Release(w)
    BY <1>8 DEF WriteRow, answers
  <2>4. knowledge' \in [Ids -> KnowledgeRows \cup {None}]
    <3>1. CASE knowledge' = knowledge
      BY <1>0, <3>1
    <3>2. CASE knowledge' # knowledge
      <4>0. knowledge[ask[w].id] # None
        BY <1>8, <3>2 DEF WriteRow
      <4> DEFINE k == Written(Head(ask[w].marks), ask[w].base, knowledge[ask[w].id], ask[w].at)
      <4>1. knowledge[ask[w].id] \in KnowledgeRows /\ Head(ask[w].marks) \in Marks
        BY <1>0, <2>1, <4>0
      <4>2. k \in KnowledgeRows
        BY <2>1, <4>1, WrittenTypes
      <4>3. knowledge' = [knowledge EXCEPT ![ask[w].id] = k]
        BY <1>8, <3>2 DEF WriteRow
      <4> QED
        BY <1>0, <2>1, <4>2, <4>3
    <3> QED
      BY <3>1, <3>2
  <2> QED
    BY <1>0, <2>1, <2>2, <2>3, <2>4, OwnTypes, LockTypes, IdleFits, NextFits
    DEF Told, Marking
<1>9. CASE UNCHANGED allVars
  BY <1>0, <1>9
  DEF allVars, vars, tables, history, answers, InquiryTypes, TypeOK, Told, Prompted
<1> QED
  BY <1>5, <1>6, <1>7, <1>8, <1>9, <1>1, <1>2, <1>3, <1>4
  DEF NextInvestigation, Investigate, BaseStep

(* The types hold from the start. *)
LEMMA InquiryTypesInit == InitInvestigation => InquiryTypes
<1> SUFFICES ASSUME InitInvestigation PROVE InquiryTypes
  OBVIOUS
<1>1. TypeOK
  BY ParameterTypes DEF InitInvestigation, Init, TypeOK, Time, Requests, Idle
<1> QED
  BY <1>1, IdleFits DEF InitInvestigation, InquiryTypes, Told

(* Every variable of the investigation has its type, whatever interleaves: a request
   reaches a mark with something to mark, and a write with the row it read. *)
THEOREM InvestigationTypes == SpecInvestigation => []TypeOKInvestigation
<1>1. InquiryTypes => TypeOKInvestigation
  <2> SUFFICES ASSUME InquiryTypes, NEW w \in Workers, ask[w] # Idle
               PROVE  /\ ask[w].pc \in {"check", "ensure", "create", "look", "mark", "write",
                                        "answer"}
                      /\ [id |-> ask[w].id, seen |-> ask[w].seen,
                          subject |-> ask[w].subject] \in Asked
                      /\ ask[w].pc # "check" => ask[w].at \in Time
                      /\ ask[w].pc \in {"mark", "write"} =>
                           /\ ask[w].marks # <<>>
                           /\ \A i \in DOMAIN ask[w].marks : ask[w].marks[i] \in Marks
                      /\ ask[w].pc = "write" => ask[w].base \in KnowledgeRows
    BY DEF InquiryTypes, TypeOKInvestigation, Told
  <2>1. ask[w] \in Inquiries /\ Prompted(ask[w])
    BY DEF InquiryTypes
  <2>2. ask[w].pc \in {"check"} \cup Accepted
    BY <2>1, AskParts
  <2>3. /\ ask[w].id \in Ids /\ ask[w].seen \in Rows /\ ask[w].subject \in Subjects
        /\ ask[w].pc # "check" => ask[w].at \in Time
        /\ ask[w].pc \in Marking => ask[w].marks \in Seq(Marks) /\ ask[w].marks # <<>>
        /\ ask[w].pc = "write" => ask[w].base \in KnowledgeRows
    BY <2>1, <2>2, AskParts DEF Prompted
  <2> QED
    BY <2>2, <2>3 DEF Asked, Accepted, Marking
<1> QED
  BY <1>1, InquiryTypesInit, InquiryTypesStep, PTL DEF SpecInvestigation

--------------------------------------------------------------------------------
(* The inductive invariant.  A request acts on what it read several transactions ago;
   that is safe because knowledge only grows while the playthrough lasts, because the
   lock covers each mark from its read to its write, and because what a request still
   has to mark, with what is known already, covers all that its answer will say. *)

Grows(k, l) ==
  /\ k.discovered \subseteq l.discovered
  /\ k.read \subseteq l.read
  /\ \A e \in k.read : l.opened[e] = k.opened[e]

WellGrounded(k) ==
  /\ k.read \subseteq k.discovered
  /\ \A e \in Evidence : (k.opened[e] # None) <=> (e \in k.read)

(* What the answer of an operation presents as opened, and as found. *)
OpenedBy(s) == IF s.op \in {"read", "interview"} THEN {RecordOf(s)} ELSE {}
FoundBy(s)  == IF s.op = "interact" THEN {Linked[s.object]} \ {None} ELSE OpenedBy(s)

(* The marks still to be made cover the answer, and ground every opening. *)
Covers(k, marks, s) ==
  /\ \A i \in DOMAIN marks : \A e \in marks[i].read :
       e \in k.discovered \/ \E j \in 1 .. i : e \in marks[j].discovered
  /\ \A e \in FoundBy(s) :
       e \in k.discovered \/ \E j \in DOMAIN marks : e \in marks[j].discovered
  /\ \A e \in OpenedBy(s) :
       e \in k.read \/ \E j \in DOMAIN marks : e \in marks[j].read

Remaining(r) == IF r.pc \in Marking THEN r.marks ELSE <<>>

Informed == {"look", "answer"} \cup Marking

(* A request r of worker w fits the tables. *)
Sound(w, r) ==
  r # Idle =>
    /\ req[w] = Idle
    /\ r.id \in minted
    /\ \A u \in Workers : req[u].pc \in Creating => req[u].id # r.id
    /\ row[r.id] # None =>
         /\ r.pc \in Informed => knowledge[r.id] # None
         /\ r.pc = "write" => r.base = knowledge[r.id]
         /\ r.pc \in {"answer"} \cup Marking =>
              Covers(knowledge[r.id], Remaining(r), r.subject)

(* What is known of a playthrough, and what was told of it. *)
Stands(p) ==
  /\ knowledge[p] # None => row[p] # None /\ WellGrounded(knowledge[p])
  /\ row[p] # None =>
       /\ toldFound[p] \subseteq Snapshot(p).discovered
       /\ \A a \in toldOpened[p] : /\ a[1] \in Snapshot(p).read
                                   /\ a[2] = Snapshot(p).opened[a[1]]
  /\ p \notin minted => toldFound[p] = {} /\ toldOpened[p] = {}
  /\ \A u \in Workers : req[u].pc \in Creating /\ req[u].id = p =>
       toldFound[p] = {} /\ toldOpened[p] = {}

(* Whoever is between the read and the write of a transaction holds the lock. *)
Holding ==
  \A w \in Workers :
    req[w].pc = "insert" \/ ask[w].pc \in {"create", "write"} => lock[StoreOf[w]] = w

InquiryInv ==
  /\ VerdictInv
  /\ InquiryTypes
  /\ Holding
  /\ \A w \in Workers : Sound(w, ask[w])
  /\ \A p \in Ids : Stands(p)

--------------------------------------------------------------------------------
(* Marks and rows *)

LEMMA GrowsIsOrder ==
  ASSUME NEW k PROVE Grows(k, k)
BY DEF Grows

LEMMA WrittenGrows ==
  ASSUME NEW mark \in Marks, NEW k \in KnowledgeRows, NEW at \in Time, WellGrounded(k),
         \A e \in mark.read : e \in k.discovered \/ e \in mark.discovered
  PROVE  /\ Grows(k, Written(mark, k, k, at))
         /\ WellGrounded(Written(mark, k, k, at))
         /\ mark.discovered \subseteq Written(mark, k, k, at).discovered
         /\ mark.read \subseteq Written(mark, k, k, at).read
<1> DEFINE l == Written(mark, k, k, at)
<1>1. /\ l.discovered = k.discovered \cup mark.discovered
      /\ l.read = k.read \cup mark.read
  BY DEF Written
<1>2. /\ mark.read \in SUBSET Evidence /\ k.read \in SUBSET Evidence
      /\ k.opened \in [Evidence -> Time \cup {None}] /\ at # None
  BY NoneIsNotKnown DEF Marks, KnowledgeRows
<1>3. \A e \in Evidence : l.opened[e] = IF e \in mark.read /\ k.opened[e] = None THEN at
                                        ELSE k.opened[e]
  <2>1. CASE mark.read \subseteq k.read
    <3>1. l.opened = k.opened
      BY <2>1 DEF Written
    <3> QED
      BY <2>1, <3>1 DEF WellGrounded
  <2>2. CASE ~ (mark.read \subseteq k.read)
    BY <2>2 DEF Written
  <2> QED
    BY <2>1, <2>2
<1> HIDE DEF l
<1>4. Grows(k, l)
  BY <1>1, <1>2, <1>3 DEF Grows, WellGrounded
<1>5. WellGrounded(l)
  BY <1>1, <1>2, <1>3 DEF WellGrounded
<1> QED
  BY <1>1, <1>4, <1>5 DEF l

LEMMA CoversMore ==
  ASSUME NEW k, NEW l, NEW marks, NEW s, Covers(k, marks, s), Grows(k, l)
  PROVE  Covers(l, marks, s)
BY DEF Covers, Grows

(* After its first mark a request still covers its answer. *)
LEMMA CoversRest ==
  ASSUME NEW k, NEW l, NEW marks \in Seq(Marks), marks # <<>>, NEW s,
         Covers(k, marks, s), Grows(k, l),
         Head(marks).discovered \subseteq l.discovered, Head(marks).read \subseteq l.read
  PROVE  /\ Covers(l, Tail(marks), s)
         /\ Len(marks) <= 1 => Covers(l, <<>>, s)
<1>1. /\ Len(marks) \in Nat /\ Len(marks) >= 1 /\ DOMAIN marks = 1 .. Len(marks)
      /\ Head(marks) = marks[1]
      /\ DOMAIN Tail(marks) = 1 .. Len(marks) - 1
      /\ \A i \in 1 .. Len(marks) - 1 : i + 1 \in DOMAIN marks /\ Tail(marks)[i] = marks[i + 1]
  BY TailParts
<1> DEFINE rest == Tail(marks)
           n == Len(marks)
<1> HIDE DEF rest, n
<1>2. /\ n \in Nat /\ n >= 1 /\ DOMAIN marks = 1 .. n /\ DOMAIN rest = 1 .. n - 1
      /\ \A i \in 1 .. n - 1 : i + 1 \in 1 .. n /\ rest[i] = marks[i + 1]
      /\ marks[1].discovered \subseteq l.discovered /\ marks[1].read \subseteq l.read
  BY <1>1 DEF rest, n
<1>3. \A j \in 1 .. n : j = 1 \/ (j - 1 \in 1 .. n - 1 /\ rest[j - 1] = marks[j])
  <2> SUFFICES ASSUME NEW j \in 1 .. n, j # 1
               PROVE  j - 1 \in 1 .. n - 1 /\ rest[j - 1] = marks[j]
    OBVIOUS
  <2>1. j - 1 \in 1 .. n - 1 /\ (j - 1) + 1 = j
    BY <1>2
  <2> QED
    BY <1>2, <2>1
<1>4. ASSUME NEW i \in 1 .. n - 1, NEW e \in rest[i].read
      PROVE  e \in l.discovered \/ \E j \in 1 .. i : e \in rest[j].discovered
  <2>1. i + 1 \in 1 .. n /\ e \in marks[i + 1].read
    BY <1>2, <1>4
  <2>2. e \in k.discovered \/ \E j \in 1 .. i + 1 : e \in marks[j].discovered
    BY <1>2, <2>1 DEF Covers
  <2>3. ASSUME NEW j \in 1 .. i + 1, e \in marks[j].discovered
        PROVE  e \in l.discovered \/ \E m \in 1 .. i : e \in rest[m].discovered
    <3>1. j \in 1 .. n /\ (j # 1 => j - 1 \in 1 .. i)
      BY <1>2, <2>1
    <3> QED
      BY <1>2, <1>3, <2>3, <3>1
  <2> QED
    BY <2>2, <2>3 DEF Grows
<1>5. ASSUME NEW e \in FoundBy(s)
      PROVE  e \in l.discovered \/ \E j \in 1 .. n - 1 : e \in rest[j].discovered
  BY <1>2, <1>3 DEF Covers, Grows
<1>6. ASSUME NEW e \in OpenedBy(s)
      PROVE  e \in l.read \/ \E j \in 1 .. n - 1 : e \in rest[j].read
  BY <1>2, <1>3 DEF Covers, Grows
<1>7. Covers(l, rest, s)
  BY <1>2, <1>4, <1>5, <1>6 DEF Covers
<1>8. ASSUME n <= 1 PROVE Covers(l, <<>>, s)
  <2>1. 1 .. n - 1 = {} /\ DOMAIN <<>> = {}
    BY <1>2, <1>8
  <2> QED
    BY <1>5, <1>6, <2>1 DEF Covers
<1> QED
  BY <1>7, <1>8 DEF rest, n

(* What the operations set out to mark covers their answers. *)
LEMMA NeutralCovers ==
  ASSUME NEW k, NEW s, s.op = "interact", Linked[s.object] = None, NEW l
  PROVE  Covers(k, << Visit(l) >>, s)
BY DEF Covers, FoundBy, OpenedBy, Visit

LEMMA OpeningCovers ==
  ASSUME NEW k, NEW s, s.op = "read", s.evidence \in k.discovered
  PROVE  Covers(k, << Opening(s.evidence) >>, s)
<1>1. /\ DOMAIN << Opening(s.evidence) >> = {1}
      /\ << Opening(s.evidence) >>[1].read = {s.evidence}
  BY DEF Opening
<1> QED
  BY <1>1 DEF Covers, FoundBy, OpenedBy, RecordOf

LEMMA DiscoveryCovers ==
  ASSUME NEW k, NEW s \in Subjects, s.op = "interact", Linked[s.object] # None
  PROVE  Covers(k, FirstMarks(Linked[s.object], LocationsOf[Linked[s.object]]), s)
<1> DEFINE e == Linked[s.object]
           marks == FirstMarks(e, LocationsOf[e])
<1>1. e \in Evidence /\ LocationsOf[e] \in Seq(Locations) /\ Len(LocationsOf[e]) # 0
  BY SubjectParts, LinkedPlaces
<1> HIDE DEF e
<1>2. /\ marks \in Seq(Marks) /\ marks # <<>>
      /\ marks[1] = Discovery(e, {LocationsOf[e][1]})
      /\ \A i \in DOMAIN marks : marks[i].read = {}
  BY <1>1, DiscoveryMarks
<1> HIDE DEF marks
<1>3. 1 \in DOMAIN marks /\ marks[1].discovered = {e}
  BY <1>2, TailParts DEF Discovery
<1>4. FoundBy(s) = {e} /\ OpenedBy(s) = {}
  BY DEF FoundBy, OpenedBy, e
<1>5. Covers(k, marks, s)
  BY <1>2, <1>3, <1>4 DEF Covers
<1> QED
  BY <1>5 DEF marks, e

LEMMA InterviewCovers ==
  ASSUME NEW k, NEW s \in Subjects, s.op = "interview", Grounding[s.question] # <<>>
  PROVE  Covers(k, DiscoverThenRead(Grounding[s.question]), s)
<1> DEFINE records == Grounding[s.question]
           marks == DiscoverThenRead(records)
<1>1. records \in Seq(Evidence) /\ records # <<>>
  BY SubjectParts
<1>2. OpenedBy(s) = {records[1]} /\ FoundBy(s) = {records[1]}
  BY DEF OpenedBy, FoundBy, RecordOf
<1> HIDE DEF records
<1>3. /\ marks \in Seq(Marks) /\ Len(marks) \in Nat /\ Len(marks) >= 2
      /\ marks[1] = Discovery(records[1], {}) /\ marks[2] = Opening(records[1])
      /\ \A i \in DOMAIN marks : \A e \in marks[i].read :
           \E j \in 1 .. i : e \in marks[j].discovered
  BY <1>1, InterviewMarks
<1> HIDE DEF marks
<1>4. /\ 1 \in DOMAIN marks /\ marks[1].discovered = {records[1]}
      /\ 2 \in DOMAIN marks /\ marks[2].read = {records[1]}
  BY <1>3 DEF Discovery, Opening
<1>5. Covers(k, marks, s)
  BY <1>2, <1>3, <1>4 DEF Covers
<1> QED
  BY <1>5 DEF marks, records

--------------------------------------------------------------------------------
(* Steps of the lifecycle, and crashes *)

(* A row appears only for an id that a creation holds, and such ids are new. *)
LEMMA NextIds ==
  ASSUME TypeOK, Next
  PROVE  /\ \A p \in Ids : row[p] = None /\ row'[p] # None =>
              \E u \in Workers : req[u].pc \in Creating /\ req[u].id = p
         /\ minted \subseteq minted'
         /\ \A u \in Workers : req'[u].pc \in Creating =>
              \/ req[u].pc \in Creating /\ req'[u].id = req[u].id
              \/ req'[u].id \notin minted
<1> DEFINE Goal ==
         /\ \A p \in Ids : row[p] = None /\ row'[p] # None =>
              \E u \in Workers : req[u].pc \in Creating /\ req[u].id = p
         /\ minted \subseteq minted'
         /\ \A u \in Workers : req'[u].pc \in Creating =>
              \/ req[u].pc \in Creating /\ req'[u].id = req[u].id
              \/ req'[u].id \notin minted
<1> USE DEF tables, history
<1>1. ASSUME NEW w \in Workers, Receive(w) PROVE Goal
  <2>1. ASSUME NEW p \in Ids, NEW v \in Versions, ReceiveCreate(w, p, v) PROVE Goal
    BY <2>1 DEF ReceiveCreate, TypeOK
  <2>2. ASSUME NEW p \in Ids, NEW c \in Charges, ReceiveAccusation(w, p, c) PROVE Goal
    BY <2>2 DEF ReceiveAccusation, TypeOK, Creating
  <2>3. ASSUME NEW p \in Ids, NEW op \in {"reveal", "savegame"}, ReceiveRead(w, p, op)
        PROVE  Goal
    BY <2>3 DEF ReceiveRead, TypeOK, Creating
  <2> QED
    BY <1>1, <2>1, <2>2, <2>3 DEF Receive
<1>2. ASSUME NEW w \in Workers, AdmitCreate(w) PROVE Goal
  BY <1>2 DEF AdmitCreate, TypeOK, Creating
<1>3. ASSUME NEW w \in Workers, InsertRow(w) PROVE Goal
  <2>1. \A p \in Ids : row[p] = None /\ row'[p] # None => p = req[w].id
    BY <1>3 DEF InsertRow
  <2>2. req[w].pc \in Creating /\ minted' = minted
        /\ req' = [req EXCEPT ![w] = Idle]
    BY <1>3 DEF InsertRow, Finish, Creating
  <2> QED
    BY <2>1, <2>2 DEF TypeOK, Idle, Creating
<1>4. ASSUME NEW w \in Workers, SubmitAccusation(w) PROVE Goal
  <2>1. /\ req' = [req EXCEPT ![w] = Idle] /\ minted' = minted
        /\ row' = row \/ (row[req[w].id] # None
                          /\ row' = [row EXCEPT ![req[w].id].state = "ACCUSED"])
    BY <1>4 DEF SubmitAccusation, Finish, Accusable
  <2> QED
    BY <2>1 DEF TypeOK, Idle, Creating
<1>5. ASSUME NEW w \in Workers, ExposeTruth(w) PROVE Goal
  <2>1. /\ req' = [req EXCEPT ![w] = Idle] /\ minted' = minted
        /\ row' = row \/ (row[req[w].id] # None
                          /\ row' = [row EXCEPT ![req[w].id].state = "REVEALED"])
    BY <1>5 DEF ExposeTruth, Finish, Revealable
  <2> QED
    BY <2>1 DEF TypeOK, Idle, Creating
<1>6. ASSUME NEW w \in Workers, RefuseCreate(w) \/ ExportSavegame(w) PROVE Goal
  BY <1>6 DEF RefuseCreate, ExportSavegame, Finish, TypeOK, Idle, Creating
<1>7. ASSUME NEW w \in Workers, CheckAccusation(w) \/ CheckReveal(w) \/ CheckSavegame(w)
      PROVE  Goal
  <2>1. /\ UNCHANGED <<row, minted>> /\ req[w].pc \in Asking
        /\ \/ req' = [req EXCEPT ![w] = Idle]
           \/ Goto(w, "submit") \/ Goto(w, "expose") \/ Goto(w, "export")
    BY <1>7 DEF CheckAccusation, CheckReveal, CheckSavegame, Finish, Asking
  <2>2. \A u \in Workers \ {w} : req'[u] = req[u]
    BY <2>1, GotoParts DEF TypeOK
  <2>3. req'[w].pc \notin Creating
    BY <2>1, GotoParts DEF TypeOK, Idle, Creating
  <2> QED
    BY <2>1, <2>2, <2>3
<1>8. ASSUME NEW v \in Versions, PublishVersion(v) PROVE Goal
  BY <1>8 DEF PublishVersion
<1>9. ASSUME NEW s \in Stores, Crash(s) PROVE Goal
  BY <1>9 DEF Crash, TypeOK, Idle, Creating
<1>10. CASE DeleteCase \/ Tick
  BY <1>10 DEF DeleteCase, Tick, TypeOK
<1> QED
  BY <1>6, <1>7, <1>8, <1>9, <1>10, <1>1, <1>2, <1>3, <1>4, <1>5 DEF Next, Serve

(* A base step does to the investigation no more than a cascade or a crash does. *)
LEMMA BaseParts ==
  ASSUME InquiryInv, BaseStep
  PROVE  /\ \A w \in Workers : ask'[w] # Idle => ask'[w] = ask[w] /\ req'[w] = Idle
         /\ \A p \in Ids : knowledge'[p] = IF row'[p] = None THEN None ELSE knowledge[p]
         /\ UNCHANGED <<toldFound, toldOpened>>
<1>0. /\ ask \in [Workers -> Inquiries] /\ knowledge \in [Ids -> KnowledgeRows \cup {None}]
      /\ req \in [Workers -> Requests]
      /\ \A w \in Workers : ask[w] # Idle => req[w] = Idle
      /\ \A p \in Ids : knowledge[p] # None => row[p] # None
  BY DEF InquiryInv, InquiryTypes, TypeOK, Sound, Stands
<1>1. ASSUME NEW w \in Workers, Serve(w) PROVE req[w] # Idle
  BY <1>1 DEF Serve, Idle, AdmitCreate, RefuseCreate, InsertRow, CheckAccusation,
     SubmitAccusation, CheckReveal, ExposeTruth, CheckSavegame, ExportSavegame
<1>2. ASSUME NEW w \in Workers, Receive(w) \/ Serve(w)
      PROVE  \A u \in Workers \ {w} : req'[u] = req[u]
  BY <1>0, <1>2 DEF Receive, ReceiveCreate, ReceiveAccusation, ReceiveRead, Serve, Finish,
     Goto, AdmitCreate, RefuseCreate, InsertRow, CheckAccusation, SubmitAccusation,
     CheckReveal, ExposeTruth, CheckSavegame, ExportSavegame
<1>3. CASE LifecycleStep
  <2>1. /\ UNCHANGED <<ask, toldFound, toldOpened>>
        /\ knowledge' = [p \in Ids |-> IF row'[p] = None THEN None ELSE knowledge[p]]
    BY <1>3 DEF LifecycleStep, Cascade, answers
  <2>2. \A w \in Workers : ask[w] # Idle => req'[w] = req[w]
    <3>1. CASE \E w \in Workers : (ask[w] = Idle /\ Receive(w)) \/ Serve(w)
      BY <1>0, <1>1, <1>2, <3>1
    <3>2. CASE \/ \E v \in Versions : PublishVersion(v)
               \/ DeleteCase \/ Tick
      BY <3>2 DEF PublishVersion, DeleteCase, Tick
    <3> QED
      BY <1>3, <3>1, <3>2 DEF LifecycleStep
  <2> QED
    BY <1>0, <2>1, <2>2
<1>4. ASSUME NEW s \in Stores, CrashAll(s)
      PROVE  /\ \A w \in Workers : ask'[w] # Idle => ask'[w] = ask[w] /\ req'[w] = Idle
             /\ UNCHANGED <<knowledge, row, toldFound, toldOpened>>
  BY <1>0, <1>4 DEF CrashAll, Crash, tables, answers
<1> QED
  BY <1>0, <1>3, <1>4 DEF BaseStep

LEMMA BaseHolding ==
  ASSUME OneStorePerSystem, InquiryInv, BaseStep
  PROVE  Holding'
<1>0. /\ Holding /\ lock \in [Stores -> Workers \cup {None}] /\ None \notin Workers
      /\ req \in [Workers -> Requests] /\ ask \in [Workers -> Inquiries]
      /\ StoreOf \in [Workers -> Stores] /\ TypeOK
      /\ \A w \in Workers : ask[w] # Idle => req[w] = Idle
  BY ParameterTypes DEF InquiryInv, InquiryTypes, TypeOK, Sound
<1>1. ASSUME UNCHANGED <<lock, ask>>,
             \A w \in Workers : req'[w] = req[w] \/ req'[w].pc # "insert"
      PROVE  Holding'
  BY <1>0, <1>1 DEF Holding
<1>2. ASSUME NEW w \in Workers, UNCHANGED ask, AdmitCreate(w) PROVE Holding'
  <2>1. /\ lock[StoreOf[w]] = None /\ lock' = [lock EXCEPT ![StoreOf[w]] = w]
        /\ \A u \in Workers \ {w} : req'[u] = req[u]
    BY <1>0, <1>2 DEF AdmitCreate, LockFree, Acquire
  <2>2. \A u \in Workers : req[u].pc # "insert" /\ ask[u].pc \notin {"create", "write"}
    BY <1>0, <2>1 DEF Holding, OneStorePerSystem
  <2> QED
    BY <1>0, <1>2, <2>1, <2>2 DEF Holding
<1>3. ASSUME NEW w \in Workers, UNCHANGED ask, InsertRow(w) PROVE Holding'
  <2>1. /\ req[w].pc = "insert" /\ req' = [req EXCEPT ![w] = Idle]
    BY <1>3 DEF InsertRow, Finish
  <2>2. \A u \in Workers \ {w} : req[u].pc # "insert" /\ ask[u].pc \notin {"create", "write"}
    BY <1>0, <2>1 DEF Holding, OneStorePerSystem
  <2>3. ask[w].pc \notin {"create", "write"}
    BY <1>0, <2>1 DEF Idle
  <2>4. \A u \in Workers : req'[u].pc # "insert"
    BY <1>0, <2>1, <2>2 DEF Idle
  <2> QED
    BY <1>3, <2>2, <2>3, <2>4 DEF Holding
<1>4. ASSUME NEW w \in Workers, UNCHANGED ask,
             Receive(w) \/ (Serve(w) /\ ~ AdmitCreate(w) /\ ~ InsertRow(w))
      PROVE  Holding'
  <2>1. CASE Receive(w)
    <3>1. /\ UNCHANGED lock
          /\ \A u \in Workers \ {w} : req'[u] = req[u]
          /\ req'[w].pc # "insert"
      BY <1>0, <2>1 DEF Receive, ReceiveCreate, ReceiveAccusation, ReceiveRead
    <3> QED
      BY <1>1, <1>4, <3>1
  <2>2. CASE \/ RefuseCreate(w) \/ SubmitAccusation(w) \/ ExposeTruth(w) \/ ExportSavegame(w)
    <3>1. /\ UNCHANGED lock
          /\ req' = [req EXCEPT ![w] = Idle]
      BY <2>2 DEF RefuseCreate, SubmitAccusation, ExposeTruth, ExportSavegame, Finish
    <3> QED
      BY <1>0, <1>1, <1>4, <3>1 DEF Idle
  <2>3. CASE CheckAccusation(w) \/ CheckReveal(w) \/ CheckSavegame(w)
    <3>1. /\ UNCHANGED lock /\ req[w].pc \in Asking
          /\ \/ req' = [req EXCEPT ![w] = Idle]
             \/ Goto(w, "submit") \/ Goto(w, "expose") \/ Goto(w, "export")
      BY <2>3 DEF CheckAccusation, CheckReveal, CheckSavegame, Finish, Asking
    <3>2. /\ \A u \in Workers \ {w} : req'[u] = req[u]
          /\ req'[w].pc # "insert"
      BY <1>0, <3>1, GotoParts DEF Idle
    <3> QED
      BY <1>1, <1>4, <3>1, <3>2
  <2> QED
    BY <1>4, <2>1, <2>2, <2>3 DEF Serve
<1>5. CASE LifecycleStep
  <2>1. UNCHANGED ask
    BY <1>5 DEF LifecycleStep, Cascade
  <2>2. CASE \/ \E v \in Versions : PublishVersion(v)
             \/ DeleteCase \/ Tick
    BY <1>0, <2>1, <2>2 DEF PublishVersion, DeleteCase, Tick, Holding
  <2>3. CASE \E w \in Workers : Receive(w) \/ Serve(w)
    BY <1>2, <1>3, <1>4, <2>1, <2>3
  <2> QED
    BY <1>5, <2>2, <2>3 DEF LifecycleStep
<1>6. ASSUME NEW s \in Stores, CrashAll(s) PROVE Holding'
  BY <1>0, <1>6 DEF CrashAll, Crash, Holding, Idle
<1> QED
  BY <1>5, <1>6 DEF BaseStep

LEMMA BaseKeeps ==
  ASSUME OneStorePerSystem, InquiryInv, BaseStep
  PROVE  InquiryInv'
<1>0. VerdictInv /\ FreshIds /\ TypeOK /\ InquiryTypes /\ InquiryTypes'
  <2>1. [NextInvestigation]_allVars
    BY DEF BaseStep, NextInvestigation
  <2> QED
    BY <2>1, InquiryTypesStep DEF InquiryInv, VerdictInv
<1>1. VerdictInv'
  BY <1>0, BaseIsNext, VerdictStep
<1>2. Holding'
  BY BaseHolding
<1>3. /\ \A p \in Ids : row[p] = None /\ row'[p] # None =>
           \E u \in Workers : req[u].pc \in Creating /\ req[u].id = p
      /\ minted \subseteq minted'
      /\ \A u \in Workers : req'[u].pc \in Creating =>
           \/ req[u].pc \in Creating /\ req'[u].id = req[u].id
           \/ req'[u].id \notin minted
  BY <1>0, BaseIsNext, NextIds
<1>4. /\ \A w \in Workers : ask'[w] # Idle => ask'[w] = ask[w] /\ req'[w] = Idle
      /\ \A p \in Ids : knowledge'[p] = IF row'[p] = None THEN None ELSE knowledge[p]
      /\ UNCHANGED <<toldFound, toldOpened>>
  BY BaseParts
<1>5. ASSUME NEW w \in Workers PROVE Sound(w, ask[w])'
  <2> SUFFICES ASSUME ask'[w] # Idle PROVE Sound(w, ask[w])'
    BY DEF Sound
  <2> DEFINE p == ask[w].id
  <2>1. ask'[w] = ask[w] /\ req'[w] = Idle /\ ask[w] # Idle /\ p \in Ids
    BY <1>0, <1>4, AskParts DEF InquiryTypes
  <2>2. Sound(w, ask[w])
    BY DEF InquiryInv
  <2>3. p \in minted' /\ \A u \in Workers : req'[u].pc \in Creating => req'[u].id # p
    BY <1>3, <2>1, <2>2 DEF Sound
  <2>4. row'[p] # None => row[p] # None /\ knowledge'[p] = knowledge[p]
    BY <1>3, <1>4, <2>1, <2>2 DEF Sound
  <2> QED
    BY <2>3, <2>4, <2>1, <2>2 DEF Sound
<1>6. ASSUME NEW p \in Ids PROVE Stands(p)'
  <2>1. Stands(p)
    BY DEF InquiryInv
  <2>2. (row[p] = None /\ row'[p] # None) =>
          toldFound[p] = {} /\ toldOpened[p] = {}
    BY <1>3, <2>1 DEF Stands
  <2>3. row'[p] # None /\ row[p] # None => Snapshot(p)' = Snapshot(p)
    BY <1>4 DEF Snapshot
  <2>4. knowledge'[p] # None => row'[p] # None /\ knowledge'[p] = knowledge[p]
    BY <1>4
  <2>5. \A u \in Workers : req'[u].pc \in Creating /\ req'[u].id = p =>
          toldFound[p] = {} /\ toldOpened[p] = {}
    BY <1>3, <2>1 DEF Stands
  <2>6. p \notin minted' => toldFound[p] = {} /\ toldOpened[p] = {}
    BY <1>3, <2>1 DEF Stands
  <2>7. knowledge'[p] # None => WellGrounded(knowledge[p])'
    BY <2>1, <2>4 DEF Stands, WellGrounded
  <2>8. ASSUME row'[p] # None
        PROVE  /\ toldFound'[p] \subseteq Snapshot(p)'.discovered
               /\ \A a \in toldOpened'[p] : /\ a[1] \in Snapshot(p)'.read
                                            /\ a[2] = Snapshot(p)'.opened[a[1]]
    BY <1>4, <2>1, <2>2, <2>3, <2>8 DEF Stands
  <2> QED
    BY <1>4, <2>4, <2>5, <2>6, <2>7, <2>8 DEF Stands
<1> QED
  BY <1>0, <1>1, <1>2, <1>5, <1>6 DEF InquiryInv

--------------------------------------------------------------------------------
(* Steps of one request *)

(* What is known of the playthrough a request is about. *)
LEMMA SoundParts ==
  ASSUME InquiryInv, NEW w \in Workers, ask[w] # Idle
  PROVE  /\ ask[w].id \in Ids /\ req[w] = Idle /\ ask[w].id \in minted
         /\ \A u \in Workers : req[u].pc \in Creating => req[u].id # ask[w].id
         /\ row[ask[w].id] # None =>
              /\ ask[w].pc \in Informed => knowledge[ask[w].id] # None
              /\ ask[w].pc = "write" => ask[w].base = knowledge[ask[w].id]
              /\ ask[w].pc \in {"answer"} \cup Marking =>
                   Covers(knowledge[ask[w].id], Remaining(ask[w]), ask[w].subject)
         /\ knowledge[ask[w].id] # None =>
              /\ row[ask[w].id] # None
              /\ knowledge[ask[w].id] \in KnowledgeRows
              /\ WellGrounded(knowledge[ask[w].id])
         /\ ask[w].subject \in Subjects /\ Prompted(ask[w])
<1>1. ask[w] \in Inquiries /\ Sound(w, ask[w]) /\ Prompted(ask[w])
  BY DEF InquiryInv, InquiryTypes
<1>2. ask[w].id \in Ids /\ ask[w].subject \in Subjects
  BY <1>1, AskParts
<1>3. knowledge[ask[w].id] \in KnowledgeRows \cup {None} /\ Stands(ask[w].id)
  BY <1>2 DEF InquiryInv, InquiryTypes
<1> QED
  BY <1>1, <1>2, <1>3 DEF Sound, Stands

(* The same playthrough serves as well at the next step of the request. *)
LEMMA SoundNext ==
  ASSUME InquiryInv, NEW w \in Workers, ask[w] # Idle, NEW r, r.id = ask[w].id,
         row[r.id] # None =>
           /\ r.pc \in Informed => knowledge[r.id] # None
           /\ r.pc = "write" => r.base = knowledge[r.id]
           /\ r.pc \in {"answer"} \cup Marking =>
                Covers(knowledge[r.id], Remaining(r), r.subject)
  PROVE  Sound(w, r)
BY SoundParts DEF Sound

LEMMA IdleSound == \A w \in Workers : Sound(w, Idle)
BY DEF Sound

(* A step that changes no table. *)
LEMMA QuietSound ==
  ASSUME InquiryInv, NEW w \in Workers, NEW r, Sound(w, r), MovesTo(w, r),
         UNCHANGED <<Lifecycle, knowledge>>
  PROVE  \A u \in Workers : Sound(u, ask[u])'
<1>1. /\ ask \in [Workers -> Inquiries] /\ \A u \in Workers : Sound(u, ask[u])
      /\ UNCHANGED <<row, req, minted, knowledge>>
  BY DEF InquiryInv, InquiryTypes, Lifecycle, tables
<1>2. ASSUME NEW u \in Workers PROVE Sound(u, ask[u])'
  <2>1. ask'[u] = IF u = w THEN r ELSE ask[u]
    BY <1>1 DEF MovesTo
  <2>2. Sound(u, ask'[u])
    BY <1>1, <2>1
  <2> QED
    BY <1>1, <2>2 DEF Sound
<1> QED
  BY <1>2

LEMMA QuietStands ==
  ASSUME InquiryInv, UNCHANGED <<Lifecycle, knowledge, toldFound, toldOpened>>
  PROVE  \A p \in Ids : Stands(p)'
<1>1. UNCHANGED <<row, req, minted>> /\ \A p \in Ids : Stands(p)
  BY DEF InquiryInv, Lifecycle, tables
<1> QED
  BY <1>1 DEF Stands, Snapshot

(* An answer tells what is known. *)
LEMMA ToldStands ==
  ASSUME InquiryInv, NEW w \in Workers, ask[w] # Idle, NEW p \in Ids, p = ask[w].id,
         NEW found, NEW opened,
         UNCHANGED <<Lifecycle, knowledge>>,
         toldFound' = [toldFound EXCEPT ![p] = @ \cup found],
         toldOpened' = [toldOpened EXCEPT ![p] = @ \cup opened],
         row[p] # None =>
           /\ found \subseteq Snapshot(p).discovered
           /\ \A a \in opened : /\ a[1] \in Snapshot(p).read
                                /\ a[2] = Snapshot(p).opened[a[1]]
  PROVE  \A q \in Ids : Stands(q)'
<1>1. /\ p \in Ids /\ p \in minted
      /\ \A u \in Workers : req[u].pc \in Creating => req[u].id # p
  BY SoundParts
<1>2. /\ UNCHANGED <<row, req, minted, knowledge>>
      /\ \A q \in Ids : Stands(q)
      /\ toldFound \in [Ids -> SUBSET Evidence]
      /\ toldOpened \in [Ids -> SUBSET (Evidence \X (Time \cup {None}))]
  BY DEF InquiryInv, InquiryTypes, Told, Lifecycle, tables
<1>3. /\ toldFound'[p] = toldFound[p] \cup found
      /\ toldOpened'[p] = toldOpened[p] \cup opened
      /\ \A q \in Ids \ {p} : toldFound'[q] = toldFound[q] /\ toldOpened'[q] = toldOpened[q]
  BY <1>1, <1>2
<1>4. \A q \in Ids : Snapshot(q)' = Snapshot(q)
  BY <1>2 DEF Snapshot
<1>5. Stands(p)'
  BY <1>3, <1>4, <1>1, <1>2 DEF Stands, WellGrounded
<1>6. \A q \in Ids \ {p} : Stands(q)'
  BY <1>2, <1>3, <1>4 DEF Stands, WellGrounded
<1> QED
  BY <1>5, <1>6

(* With one Store only one request is between a read and its write. *)
LEMMA OneHolder ==
  ASSUME OneStorePerSystem, InquiryInv, NEW w \in Workers, ask[w].pc \in {"create", "write"},
         NEW u \in Workers, u # w
  PROVE  ask[u].pc \notin {"create", "write"} /\ req[u].pc # "insert"
BY DEF InquiryInv, Holding, OneStorePerSystem

LEMMA HoldingKept ==
  ASSUME InquiryInv, NEW w \in Workers, NEW r, MovesTo(w, r), r.pc \notin {"create", "write"},
         UNCHANGED <<Lifecycle, lock>>
  PROVE  Holding'
<1>1. ask \in [Workers -> Inquiries] /\ UNCHANGED req /\ Holding
  BY DEF InquiryInv, InquiryTypes, Lifecycle
<1> QED
  BY <1>1 DEF MovesTo, Holding

LEMMA HoldingTaken ==
  ASSUME OneStorePerSystem, InquiryInv, NEW w \in Workers, NEW r, MovesTo(w, r),
         LockFree(w), Acquire(w), UNCHANGED Lifecycle
  PROVE  Holding'
<1>1. /\ ask \in [Workers -> Inquiries] /\ UNCHANGED req /\ Holding /\ None \notin Workers
      /\ lock \in [Stores -> Workers \cup {None}] /\ StoreOf \in [Workers -> Stores]
  BY ParameterTypes DEF InquiryInv, InquiryTypes, TypeOK, Lifecycle
<1>2. \A u \in Workers : req[u].pc # "insert" /\ ask[u].pc \notin {"create", "write"}
  BY <1>1 DEF LockFree, Holding, OneStorePerSystem
<1> QED
  BY <1>1, <1>2 DEF MovesTo, Holding, Acquire

LEMMA HoldingGiven ==
  ASSUME OneStorePerSystem, InquiryInv, NEW w \in Workers, NEW r, MovesTo(w, r),
         ask[w].pc \in {"create", "write"}, r.pc \notin {"create", "write"},
         UNCHANGED Lifecycle
  PROVE  Holding'
<1>1. ask \in [Workers -> Inquiries] /\ UNCHANGED req
  BY DEF InquiryInv, InquiryTypes, Lifecycle
<1>2. \A u \in Workers \ {w} : ask[u].pc \notin {"create", "write"} /\ req[u].pc # "insert"
  BY OneHolder
<1>3. req[w].pc # "insert"
  BY SoundParts DEF Idle
<1> QED
  BY <1>1, <1>2, <1>3 DEF MovesTo, Holding

(* The holder of the lock writes a knowledge row l that grew, and moves on to r. *)
LEMMA RowSound ==
  ASSUME OneStorePerSystem, InquiryInv, NEW w \in Workers, ask[w].pc \in {"create", "write"},
         NEW l \in KnowledgeRows, NEW r, MovesTo(w, r), UNCHANGED Lifecycle,
         knowledge' = [knowledge EXCEPT ![ask[w].id] = l],
         knowledge[ask[w].id] = None \/ Grows(knowledge[ask[w].id], l),
         r # Idle => /\ r.id = ask[w].id /\ r.pc # "write"
                     /\ r.pc \in {"answer"} \cup Marking => Covers(l, Remaining(r), r.subject)
  PROVE  \A u \in Workers : Sound(u, ask[u])'
<1> DEFINE p == ask[w].id
<1>1. /\ ask \in [Workers -> Inquiries] /\ \A u \in Workers : Sound(u, ask[u])
      /\ UNCHANGED <<row, req, minted>>
      /\ knowledge \in [Ids -> KnowledgeRows \cup {None}]
  BY DEF InquiryInv, InquiryTypes, Lifecycle, tables
<1>2. /\ p \in Ids /\ req[w] = Idle /\ p \in minted
      /\ \A u \in Workers : req[u].pc \in Creating => req[u].id # p
  BY SoundParts DEF Idle
<1>3. /\ knowledge'[p] = l /\ l # None
      /\ \A q \in Ids \ {p} : knowledge'[q] = knowledge[q]
  BY <1>1, <1>2, NoneIsNotKnown
<1>4. Sound(w, ask[w])'
  <2>1. ask'[w] = r
    BY <1>1 DEF MovesTo
  <2> QED
    BY <1>1, <1>2, <1>3, <2>1 DEF Sound
<1>5. ASSUME NEW u \in Workers, u # w PROVE Sound(u, ask[u])'
  <2>1. ask'[u] = ask[u] /\ ask[u].pc # "write" /\ Sound(u, ask[u])
    BY <1>1, <1>5, OneHolder DEF MovesTo
  <2> SUFFICES ASSUME ask[u] # Idle PROVE Sound(u, ask[u])'
    BY <2>1 DEF Sound
  <2>2. CASE ask[u].id # p
    <3>1. ask[u].id \in Ids
      BY SoundParts
    <3> QED
      BY <1>1, <1>3, <2>1, <2>2, <3>1 DEF Sound
  <2>3. CASE ask[u].id = p
    <3>1. ASSUME row[p] # None, ask[u].pc \in {"answer"} \cup Marking
          PROVE  Covers(l, Remaining(ask[u]), ask[u].subject)
      <4>1. /\ Covers(knowledge[p], Remaining(ask[u]), ask[u].subject)
            /\ knowledge[p] # None
        BY <2>1, <2>3, <3>1 DEF Sound, Informed
      <4> QED
        BY <4>1, CoversMore
    <3> QED
      BY <1>1, <1>3, <2>1, <2>3, <3>1 DEF Sound
  <2> QED
    BY <2>2, <2>3
<1> QED
  BY <1>4, <1>5

LEMMA RowStands ==
  ASSUME InquiryInv, NEW w \in Workers, ask[w] # Idle, NEW p \in Ids, p = ask[w].id,
         row[p] # None,
         NEW l \in KnowledgeRows, WellGrounded(l), Grows(Snapshot(p), l),
         UNCHANGED <<Lifecycle, toldFound, toldOpened>>,
         knowledge' = [knowledge EXCEPT ![p] = l]
  PROVE  \A q \in Ids : Stands(q)'
<1>1. /\ UNCHANGED <<row, req, minted>> /\ p \in Ids
      /\ \A q \in Ids : Stands(q)
      /\ knowledge \in [Ids -> KnowledgeRows \cup {None}]
  BY SoundParts DEF InquiryInv, InquiryTypes, Lifecycle, tables
<1>2. /\ knowledge'[p] = l /\ l # None
      /\ \A q \in Ids \ {p} : knowledge'[q] = knowledge[q]
  BY <1>1, NoneIsNotKnown
<1>3. Snapshot(p)' = l /\ \A q \in Ids \ {p} : Snapshot(q)' = Snapshot(q)
  BY <1>2 DEF Snapshot
<1>4. Stands(p)'
  BY <1>1, <1>2, <1>3 DEF Stands, Grows, WellGrounded
<1>5. \A q \in Ids \ {p} : Stands(q)'
  BY <1>1, <1>2, <1>3 DEF Stands, WellGrounded
<1> QED
  BY <1>4, <1>5

--------------------------------------------------------------------------------
(* The actions of one request preserve the invariant. *)

(* What any such step leaves to show. *)
LEMMA OwnKeeps ==
  ASSUME InquiryInv, [NextInvestigation]_allVars, UNCHANGED Lifecycle,
         Holding', \A u \in Workers : Sound(u, ask[u])', \A p \in Ids : Stands(p)'
  PROVE  InquiryInv'
<1>1. InquiryTypes'
  BY InquiryTypesStep DEF InquiryInv
<1>2. VerdictInv'
  <2>1. TypeOK' /\ VerdictInv
    BY <1>1 DEF InquiryTypes, InquiryInv
  <2>2. UNCHANGED <<caseExists, published, row, accusation, req, minted, verdicts, shown,
                    truthShown>>
    BY DEF Lifecycle, tables, history
  <2> QED
    BY <2>1, <2>2 DEF VerdictInv, FreshIds, Verdicts, Copies, Pins, PinnedToPublished
<1> QED
  BY <1>1, <1>2 DEF InquiryInv

(* A request moves on and changes nothing else. *)
LEMMA QuietKeeps ==
  ASSUME InquiryInv, [NextInvestigation]_allVars, NEW w \in Workers, NEW r, MovesTo(w, r),
         Sound(w, r), UNCHANGED <<Lifecycle, knowledge, toldFound, toldOpened>>, Holding'
  PROVE  InquiryInv'
BY QuietSound, QuietStands, OwnKeeps

(* A request answers with what is known. *)
LEMMA AnswerKeeps ==
  ASSUME InquiryInv, [NextInvestigation]_allVars, NEW w \in Workers, ask[w] # Idle,
         Answer(w), UNCHANGED <<Lifecycle, lock, knowledge>>, NEW found, NEW opened,
         toldFound' = [toldFound EXCEPT ![ask[w].id] = @ \cup found],
         toldOpened' = [toldOpened EXCEPT ![ask[w].id] = @ \cup opened],
         row[ask[w].id] # None =>
           /\ found \subseteq Snapshot(ask[w].id).discovered
           /\ \A a \in opened : /\ a[1] \in Snapshot(ask[w].id).read
                                /\ a[2] = Snapshot(ask[w].id).opened[a[1]]
  PROVE  InquiryInv'
<1>1. PICK p \in Ids : p = ask[w].id
  BY SoundParts
<1>2. \A q \in Ids : Stands(q)'
  BY <1>1, ToldStands
<1>3. MovesTo(w, Idle) /\ Idle.pc \notin {"create", "write"}
  BY DEF Answer, MovesTo, Idle
<1>4. Holding' /\ \A u \in Workers : Sound(u, ask[u])'
  BY <1>3, QuietSound, IdleSound, HoldingKept
<1> QED
  BY <1>2, <1>4, OwnKeeps

LEMMA ReceiveKeeps ==
  ASSUME InquiryInv, [NextInvestigation]_allVars, NEW w \in Workers, NEW p \in Ids,
         NEW s \in Subjects, ReceiveQuestion(w, p, s)
  PROVE  InquiryInv'
<1> DEFINE r == [pc |-> "check", id |-> p, seen |-> row[p], subject |-> s]
<1>1. /\ MovesTo(w, r) /\ req[w] = Idle /\ row[p] # None
      /\ UNCHANGED <<Lifecycle, lock, knowledge, toldFound, toldOpened>>
  BY DEF ReceiveQuestion, Authorized, Proceed, MovesTo, vars, Lifecycle, answers
<1>2. p \in minted /\ \A u \in Workers : req[u].pc \in Creating => req[u].id # p
  BY <1>1 DEF InquiryInv, VerdictInv, FreshIds
<1>3. Sound(w, r) /\ r.pc \notin {"create", "write"}
  BY <1>1, <1>2 DEF Sound, Informed, Marking
<1> HIDE DEF r
<1> QED
  BY <1>1, <1>3, HoldingKept, QuietKeeps

LEMMA CheckKeeps ==
  ASSUME InquiryInv, [NextInvestigation]_allVars, NEW w \in Workers, CheckQuestion(w)
  PROVE  InquiryInv'
<1> DEFINE r == [pc |-> "ensure", id |-> ask[w].id, seen |-> ask[w].seen,
                 subject |-> ask[w].subject, at |-> now]
<1>1. /\ MovesTo(w, Idle) \/ MovesTo(w, r)
      /\ UNCHANGED <<Lifecycle, lock, knowledge, toldFound, toldOpened>>
      /\ ask[w] # Idle
  BY DEF CheckQuestion, Answer, Proceed, MovesTo, vars, Lifecycle, answers, Idle
<1>2. Sound(w, r) /\ r.pc \notin {"create", "write"}
  BY <1>1, SoundNext DEF Informed, Marking
<1>3. Sound(w, Idle) /\ Idle.pc \notin {"create", "write"}
  BY IdleSound DEF Idle
<1> HIDE DEF r
<1> QED
  BY <1>1, <1>2, <1>3, HoldingKept, QuietKeeps

LEMMA EnsureKeeps ==
  ASSUME OneStorePerSystem, InquiryInv, [NextInvestigation]_allVars, NEW w \in Workers,
         EnsureRow(w)
  PROVE  InquiryInv'
<1>1. /\ UNCHANGED <<Lifecycle, knowledge, toldFound, toldOpened>> /\ ask[w] # Idle
      /\ LockFree(w)
      /\ \/ knowledge[ask[w].id] # None /\ MovesTo(w, At(w, "look")) /\ UNCHANGED lock
         \/ MovesTo(w, Idle) /\ UNCHANGED lock
         \/ MovesTo(w, At(w, "create")) /\ Acquire(w)
  BY DEF EnsureRow, Answer, Proceed, MovesTo, answers, Idle
<1>2. Sound(w, Idle) /\ Idle.pc \notin {"create", "write"}
  BY IdleSound DEF Idle
<1>3. At(w, "look").pc \notin {"create", "write"}
      /\ (knowledge[ask[w].id] # None => Sound(w, At(w, "look")))
  BY <1>1, SoundNext DEF At, Informed, Marking
<1>4. Sound(w, At(w, "create"))
  BY <1>1, SoundNext DEF At, Informed, Marking
<1> QED
  BY <1>3, <1>4, <1>1, <1>2, HoldingKept, HoldingTaken, QuietKeeps

LEMMA CreateKeeps ==
  ASSUME OneStorePerSystem, InquiryInv, [NextInvestigation]_allVars, NEW w \in Workers,
         CreateRow(w)
  PROVE  InquiryInv'
<1>1. /\ ask[w].pc = "create" /\ ask[w] # Idle
      /\ UNCHANGED <<Lifecycle, toldFound, toldOpened>>
  BY DEF CreateRow, answers, Idle
<1>2. PICK p \in Ids : p = ask[w].id
  BY <1>1, SoundParts
<1>3. CASE /\ row[p] # None /\ knowledge[p] = None
           /\ MovesTo(w, At(w, "look"))
           /\ knowledge' = [knowledge EXCEPT ![p] = NothingKnown]
  <2>1. /\ MovesTo(w, At(w, "look"))
        /\ knowledge' = [knowledge EXCEPT ![ask[w].id] = NothingKnown]
    BY <1>2, <1>3
  <2>2. NothingKnown \in KnowledgeRows /\ WellGrounded(NothingKnown)
    BY DEF NothingKnown, KnowledgeRows, WellGrounded
  <2>3. Snapshot(p) = NothingKnown
    BY <1>3 DEF Snapshot
  <2>4. Grows(Snapshot(p), NothingKnown)
    BY <2>3, GrowsIsOrder
  <2>5. /\ At(w, "look").id = ask[w].id
        /\ At(w, "look").pc \notin {"create", "write", "answer"} \cup Marking
    BY DEF At, Marking
  <2>6. Holding'
    BY <1>1, <2>1, <2>5, HoldingGiven
  <2>7. \A u \in Workers : Sound(u, ask[u])'
    BY <1>1, <1>2, <1>3, <2>1, <2>2, <2>5, RowSound
  <2>8. \A q \in Ids : Stands(q)'
    BY <1>1, <1>2, <1>3, <2>1, <2>2, <2>4, RowStands
  <2> QED
    BY <1>1, <2>6, <2>7, <2>8, OwnKeeps
<1>4. CASE MovesTo(w, Idle) /\ knowledge' = knowledge
  <2>1. Sound(w, Idle) /\ Idle.pc \notin {"create", "write"}
    BY IdleSound DEF Idle
  <2> QED
    BY <1>1, <1>4, <2>1, HoldingGiven, QuietKeeps
<1> QED
  BY <1>2, <1>3, <1>4 DEF CreateRow, Answer, Proceed, MovesTo

(* From the snapshot to the marks: what they cover. *)
LEMMA MarkKeeps ==
  ASSUME InquiryInv, [NextInvestigation]_allVars, NEW w \in Workers, ask[w] # Idle,
         ask[w].pc = "look", NEW marks, Mark(w, marks),
         UNCHANGED <<Lifecycle, lock, knowledge, toldFound, toldOpened>>,
         Covers(Snapshot(ask[w].id), marks, ask[w].subject)
  PROVE  InquiryInv'
<1>1. MovesTo(w, MarkAt(w, marks)) /\ MarkAt(w, marks).pc \notin {"create", "write"}
  BY DEF Mark, Proceed, MovesTo, MarkAt
<1>2. Sound(w, MarkAt(w, marks))
  <2>1. row[ask[w].id] # None =>
          knowledge[ask[w].id] # None /\ Snapshot(ask[w].id) = knowledge[ask[w].id]
    BY SoundParts DEF Informed, Snapshot
  <2> QED
    BY <2>1, SoundNext DEF MarkAt, Remaining, Marking
<1> QED
  BY <1>1, <1>2, HoldingKept, QuietKeeps

LEMMA LookKeeps ==
  ASSUME InquiryInv, [NextInvestigation]_allVars, NEW w \in Workers,
         \/ RefuseInteraction(w) \/ InspectObject(w) \/ DiscoverEvidence(w)
         \/ OpenRecord(w) \/ InterviewWitness(w)
  PROVE  InquiryInv'
<1> DEFINE s == ask[w].subject
           p == ask[w].id
<1>1. ask[w].pc = "look" /\ ask[w] # Idle
  <2>1. \E op \in {"interact", "read", "interview"} : Looking(w, op)
    BY DEF RefuseInteraction, InspectObject, DiscoverEvidence, OpenRecord,
           InterviewWitness
  <2> QED
    BY <2>1 DEF Looking, Idle
<1>2. UNCHANGED <<Lifecycle, lock, knowledge, toldOpened>>
  BY DEF RefuseInteraction, InspectObject, DiscoverEvidence, OpenRecord, InterviewWitness,
         Lifecycle, vars, answers
<1>3. s \in Subjects /\ Prompted(ask[w]) /\ p \in Ids
  BY <1>1, SoundParts
<1>4. ASSUME Answer(w), UNCHANGED toldFound PROVE InquiryInv'
  <2>1. MovesTo(w, Idle) /\ Sound(w, Idle) /\ Idle.pc \notin {"create", "write"}
    BY <1>4, IdleSound DEF Answer, MovesTo, Idle
  <2> QED
    BY <1>2, <1>4, <2>1, HoldingKept, QuietKeeps
<1>5. CASE RefuseInteraction(w)
  BY <1>4, <1>5 DEF RefuseInteraction, answers
<1>6. CASE InspectObject(w)
  BY <1>1, <1>2, <1>6, NeutralCovers, MarkKeeps DEF InspectObject, Looking, answers
<1>7. CASE DiscoverEvidence(w)
  <2> DEFINE e == Linked[s.object]
  <2>1. s.op = "interact" /\ e # None
    BY <1>7 DEF DiscoverEvidence, Looking
  <2>2. CASE Answer(w) /\ UNCHANGED toldFound
    BY <1>4, <2>2
  <2>3. CASE Answer(w) /\ e \in Snapshot(p).discovered
             /\ toldFound' = [toldFound EXCEPT ![p] = @ \cup {e}]
    <3>1. toldOpened' = [toldOpened EXCEPT ![p] = @ \cup {}]
      BY <1>2, <1>3 DEF InquiryInv, InquiryTypes, Told
    <3> QED
      BY <1>1, <1>2, <2>3, <3>1, AnswerKeeps
  <2>4. CASE Mark(w, FirstMarks(e, LocationsOf[e])) /\ UNCHANGED toldFound
    <3>1. Covers(Snapshot(p), FirstMarks(e, LocationsOf[e]), s)
      BY <1>3, <2>1, DiscoveryCovers
    <3> QED
      BY <1>1, <1>2, <2>4, <3>1, MarkKeeps
  <2> QED
    BY <1>7, <2>2, <2>3, <2>4 DEF DiscoverEvidence, FirstMarks, answers
<1>8. CASE OpenRecord(w)
  <2>1. CASE s.evidence \in Snapshot(p).discovered
    <3>1. Covers(Snapshot(p), << Opening(s.evidence) >>, s)
      BY <1>8, <2>1, OpeningCovers DEF OpenRecord, Looking
    <3> QED
      BY <1>1, <1>2, <1>8, <2>1, <3>1, MarkKeeps DEF OpenRecord, answers
  <2>2. CASE s.evidence \notin Snapshot(p).discovered
    BY <1>4, <1>8, <2>2 DEF OpenRecord, answers
  <2> QED
    BY <2>1, <2>2
<1>9. CASE InterviewWitness(w)
  <2>1. s.op = "interview" /\ Grounding[s.question] # <<>>
    BY <1>1, <1>3, <1>9 DEF InterviewWitness, Looking, Prompted, Accepted
  <2>2. Covers(Snapshot(p), DiscoverThenRead(Grounding[s.question]), s)
    BY <1>3, <2>1, InterviewCovers
  <2> QED
    BY <1>1, <1>2, <1>9, <2>2, MarkKeeps DEF InterviewWitness, answers
<1> QED
  BY <1>5, <1>6, <1>7, <1>8, <1>9

(* The request after its first mark, when the row is l. *)
LEMMA NextCovers ==
  ASSUME InquiryInv, NEW w \in Workers, ask[w].pc \in Marking, row[ask[w].id] # None,
         NEW l, Grows(knowledge[ask[w].id], l),
         Head(ask[w].marks).discovered \subseteq l.discovered,
         Head(ask[w].marks).read \subseteq l.read
  PROVE  /\ NextMark(w).id = ask[w].id /\ NextMark(w).subject = ask[w].subject
         /\ NextMark(w).pc \in {"mark", "answer"}
         /\ Covers(l, Remaining(NextMark(w)), ask[w].subject)
<1>1. ask[w] # Idle /\ ask[w] \in Inquiries /\ Prompted(ask[w])
  BY DEF InquiryInv, InquiryTypes, Idle, Marking
<1>2. ask[w].marks \in Seq(Marks) /\ ask[w].marks # <<>>
  BY <1>1, AskParts DEF Prompted
<1>3. Covers(knowledge[ask[w].id], ask[w].marks, ask[w].subject)
  BY <1>1, SoundParts DEF Remaining
<1>4. /\ Covers(l, Tail(ask[w].marks), ask[w].subject)
      /\ Len(ask[w].marks) <= 1 => Covers(l, <<>>, ask[w].subject)
  BY <1>2, <1>3, CoversRest
<1>5. Len(ask[w].marks) \in Nat
  BY <1>2
<1>6. CASE Len(ask[w].marks) > 1
  BY <1>4, <1>6 DEF NextMark, Remaining, Marking
<1>7. CASE ~ (Len(ask[w].marks) > 1)
  BY <1>4, <1>5, <1>7 DEF NextMark, At, Remaining, Marking
<1> QED
  BY <1>6, <1>7

LEMMA ReadKeeps ==
  ASSUME OneStorePerSystem, InquiryInv, [NextInvestigation]_allVars, NEW w \in Workers,
         ReadRow(w)
  PROVE  InquiryInv'
<1> DEFINE p == ask[w].id
<1>1. /\ ask[w].pc = "mark" /\ ask[w] # Idle /\ ask[w].pc \in Marking /\ LockFree(w)
      /\ UNCHANGED <<Lifecycle, knowledge, toldFound, toldOpened>>
  BY DEF ReadRow, answers, Idle, Marking
<1>2. CASE MovesTo(w, Idle) /\ UNCHANGED lock
  <2>1. Sound(w, Idle) /\ Idle.pc \notin {"create", "write"}
    BY IdleSound DEF Idle
  <2> QED
    BY <1>1, <1>2, <2>1, HoldingKept, QuietKeeps
<1>3. CASE /\ knowledge[p] # None /\ ~ AddsTo(Head(ask[w].marks), knowledge[p])
           /\ MovesTo(w, NextMark(w)) /\ UNCHANGED lock
  <2>1. /\ Head(ask[w].marks).discovered \subseteq knowledge[p].discovered
        /\ Head(ask[w].marks).read \subseteq knowledge[p].read
        /\ row[p] # None /\ Grows(knowledge[p], knowledge[p])
    BY <1>1, <1>3, SoundParts, GrowsIsOrder DEF AddsTo
  <2>2. /\ NextMark(w).id = p /\ NextMark(w).subject = ask[w].subject
        /\ NextMark(w).pc \in {"mark", "answer"}
        /\ Covers(knowledge[p], Remaining(NextMark(w)), ask[w].subject)
    BY <1>1, <2>1, NextCovers
  <2>3. Sound(w, NextMark(w))
    BY <1>1, <1>3, <2>2, SoundNext
  <2> QED
    BY <1>1, <1>3, <2>2, <2>3, HoldingKept, QuietKeeps
<1>4. CASE knowledge[p] # None /\ MovesTo(w, WriteAt(w)) /\ Acquire(w)
  <2>1. row[p] # None /\ Covers(knowledge[p], ask[w].marks, ask[w].subject)
    BY <1>1, <1>4, SoundParts DEF Remaining, Marking
  <2>2. Sound(w, WriteAt(w))
    BY <1>1, <1>4, <2>1, SoundNext DEF WriteAt, Remaining, Marking
  <2> QED
    BY <1>1, <1>4, <2>2, HoldingTaken, QuietKeeps
<1> QED
  BY <1>2, <1>3, <1>4 DEF ReadRow, Answer, Proceed, MovesTo, WriteAt

LEMMA WriteKeeps ==
  ASSUME OneStorePerSystem, InquiryInv, [NextInvestigation]_allVars, NEW w \in Workers,
         WriteRow(w)
  PROVE  InquiryInv'
<1>1. /\ ask[w].pc = "write" /\ ask[w] # Idle /\ ask[w].pc \in Marking
      /\ UNCHANGED <<Lifecycle, toldFound, toldOpened>>
  BY DEF WriteRow, answers, Idle, Marking
<1>2. PICK p \in Ids : p = ask[w].id
  BY <1>1, SoundParts
<1>3. CASE MovesTo(w, Idle) /\ knowledge' = knowledge
  <2>1. Sound(w, Idle) /\ Idle.pc \notin {"create", "write"}
    BY IdleSound DEF Idle
  <2> QED
    BY <1>1, <1>3, <2>1, HoldingGiven, QuietKeeps
<1>4. CASE /\ knowledge[p] # None
           /\ MovesTo(w, NextMark(w))
           /\ knowledge' = [knowledge EXCEPT ![p] = Written(Head(ask[w].marks),
                               ask[w].base, knowledge[p], ask[w].at)]
  <2> DEFINE k == knowledge[p]
             mark == Head(ask[w].marks)
             l == Written(mark, k, k, ask[w].at)
  <2>1. /\ row[p] # None /\ k \in KnowledgeRows /\ WellGrounded(k) /\ ask[w].base = k
        /\ Covers(k, ask[w].marks, ask[w].subject)
    BY <1>1, <1>2, <1>4, SoundParts DEF Remaining
  <2>2. ask[w].marks \in Seq(Marks) /\ ask[w].marks # <<>> /\ ask[w].at \in Time
    BY <1>1, AskParts DEF InquiryInv, InquiryTypes, Prompted, Accepted
  <2>3. mark \in Marks /\ mark = ask[w].marks[1] /\ 1 \in DOMAIN ask[w].marks
    BY <2>2, TailParts
  <2>4. \A e \in mark.read : e \in k.discovered \/ e \in mark.discovered
    BY <2>1, <2>3 DEF Covers
  <2>5. /\ Grows(k, l) /\ WellGrounded(l)
        /\ mark.discovered \subseteq l.discovered /\ mark.read \subseteq l.read
    <3> HIDE DEF k, mark
    <3> QED
      BY <2>3, <2>4, <2>1, <2>2, WrittenGrows
  <2>6. l \in KnowledgeRows
    <3> HIDE DEF k, mark
    <3> QED
      BY <2>1, <2>2, <2>3, WrittenTypes
  <2>7. /\ MovesTo(w, NextMark(w))
        /\ knowledge' = [knowledge EXCEPT ![ask[w].id] = l]
        /\ knowledge' = [knowledge EXCEPT ![p] = l]
    BY <1>2, <1>4, <2>1
  <2> HIDE DEF l
  <2>8. /\ NextMark(w).id = ask[w].id /\ NextMark(w).subject = ask[w].subject
        /\ NextMark(w).pc \in {"mark", "answer"}
        /\ Covers(l, Remaining(NextMark(w)), ask[w].subject)
    BY <1>1, <1>2, <2>1, <2>5, NextCovers
  <2>9. Snapshot(p) = k
    BY <1>4 DEF Snapshot
  <2>10. Holding'
    BY <1>1, <2>7, <2>8, HoldingGiven
  <2>11. \A u \in Workers : Sound(u, ask[u])'
    <3>1. knowledge[ask[w].id] = None \/ Grows(knowledge[ask[w].id], l)
      BY <1>2, <2>5
    <3>2. NextMark(w).pc # "write"
      BY <2>8
    <3> QED
      BY <1>1, <2>6, <2>7, <2>8, <3>1, <3>2, RowSound
  <2>12. \A q \in Ids : Stands(q)'
    <3>1. Grows(Snapshot(p), l)
      BY <2>5, <2>9
    <3> QED
      BY <1>1, <1>2, <2>1, <2>5, <2>6, <2>7, <3>1, RowStands
  <2> QED
    BY <1>1, <2>10, <2>11, <2>12, OwnKeeps
<1> QED
  BY <1>2, <1>3, <1>4 DEF WriteRow, Answer, Proceed, MovesTo

LEMMA AnswersKeep ==
  ASSUME InquiryInv, [NextInvestigation]_allVars, NEW w \in Workers,
         AnswerBootstrap(w) \/ AnswerInspection(w) \/ AnswerRecord(w)
  PROVE  InquiryInv'
<1> DEFINE s == ask[w].subject
           p == ask[w].id
<1>1. /\ ask[w] # Idle /\ Answer(w) /\ UNCHANGED <<Lifecycle, lock, knowledge>>
  BY DEF AnswerBootstrap, AnswerInspection, AnswerRecord, Looking, Idle, Lifecycle, vars
<1>2. toldOpened \in [Ids -> SUBSET (Evidence \X (Time \cup {None}))] /\ p \in Ids
  BY <1>1, SoundParts DEF InquiryInv, InquiryTypes, Told
<1>3. [toldOpened EXCEPT ![p] = @ \cup {}] = toldOpened
  BY <1>2
<1>4. ASSUME ask[w].pc = "answer", row[p] # None
      PROVE  /\ FoundBy(s) \subseteq Snapshot(p).discovered
             /\ OpenedBy(s) \subseteq Snapshot(p).read
  <2>1. knowledge[p] # None /\ Covers(knowledge[p], Remaining(ask[w]), s)
    BY <1>1, <1>4, SoundParts DEF Informed
  <2>2. Remaining(ask[w]) = <<>> /\ DOMAIN <<>> = {}
    BY <1>4 DEF Remaining, Marking
  <2> QED
    BY <2>1, <2>2 DEF Covers, Snapshot
<1>5. CASE AnswerBootstrap(w)
  <2>1. /\ toldFound' = [toldFound EXCEPT ![p] = @ \cup Snapshot(p).discovered]
        /\ toldOpened' = [toldOpened EXCEPT ![p] = @ \cup {}]
    BY <1>3, <1>5 DEF AnswerBootstrap
  <2> QED
    BY <1>1, <2>1, AnswerKeeps
<1>6. CASE AnswerInspection(w)
  <2>1. /\ toldFound' = [toldFound EXCEPT ![p] = @ \cup FoundBy(s)]
        /\ toldOpened' = [toldOpened EXCEPT ![p] = @ \cup {}]
        /\ ask[w].pc = "answer"
    BY <1>3, <1>6 DEF AnswerInspection, FoundBy
  <2> QED
    BY <1>1, <1>4, <2>1, AnswerKeeps
<1>7. CASE AnswerRecord(w)
  <2> DEFINE e == RecordOf(s)
             opened == {<<e, Snapshot(p).opened[e]>>}
  <2>1. /\ toldFound' = [toldFound EXCEPT ![p] = @ \cup {e}]
        /\ toldOpened' = [toldOpened EXCEPT ![p] = @ \cup opened]
        /\ ask[w].pc = "answer" /\ FoundBy(s) = {e} /\ OpenedBy(s) = {e}
    BY <1>7 DEF AnswerRecord, FoundBy, OpenedBy
  <2>2. row[p] # None =>
          /\ {e} \subseteq Snapshot(p).discovered
          /\ \A a \in opened : a[1] \in Snapshot(p).read /\ a[2] = Snapshot(p).opened[a[1]]
    BY <1>4, <2>1
  <2> HIDE DEF e, opened
  <2> QED
    BY <1>1, <2>1, <2>2, AnswerKeeps
<1> QED
  BY <1>5, <1>6, <1>7

LEMMA InquiryStep ==
  ASSUME OneStorePerSystem, InquiryInv, [NextInvestigation]_allVars
  PROVE  InquiryInv'
<1>1. CASE BaseStep
  BY <1>1, BaseKeeps
<1>2. CASE \E w \in Workers, p \in Ids, s \in Subjects : ReceiveQuestion(w, p, s)
  BY <1>2, ReceiveKeeps
<1>3. CASE \E w \in Workers : Investigate(w)
  BY <1>3, CheckKeeps, EnsureKeeps, CreateKeeps, LookKeeps, ReadKeeps, WriteKeeps, AnswersKeep
  DEF Investigate
<1>4. CASE UNCHANGED allVars
  <2>1. UNCHANGED <<Lifecycle, lock, knowledge, ask, toldFound, toldOpened>>
    BY <1>4 DEF allVars, vars, Lifecycle, answers
  <2>2. Holding' /\ \A u \in Workers : Sound(u, ask[u])'
    BY <2>1 DEF InquiryInv, Holding, Sound, Lifecycle, tables
  <2> QED
    BY <2>1, <2>2, QuietStands, OwnKeeps
<1> QED
  BY <1>3, <1>4, <1>1, <1>2 DEF NextInvestigation, BaseStep

(* With one Store, in every reachable state a request that investigates holds the lock
   from the read of a mark to its write, and what it still has to mark covers what it
   will answer. *)
THEOREM InquiryInvariant ==
  ASSUME OneStorePerSystem
  PROVE  SpecInvestigation => []InquiryInv
<1>1. InitInvestigation => InquiryInv
  <2> SUFFICES ASSUME InitInvestigation PROVE InquiryInv
    OBVIOUS
  <2>1. InquiryTypes /\ TypeOK
    BY InquiryTypesInit DEF InquiryTypes
  <2>2. VerdictInv
    BY <2>1 DEF InitInvestigation, Init, VerdictInv, FreshIds, Creating, Verdicts, Copies,
       Asking, Pins, PinnedToPublished, Idle
  <2>3. Holding /\ \A w \in Workers : Sound(w, ask[w])
    BY DEF InitInvestigation, Init, Holding, Sound, Idle
  <2>4. \A p \in Ids : Stands(p)
    BY DEF InitInvestigation, Init, Stands
  <2> QED
    BY <2>3, <2>4, <2>1, <2>2 DEF InquiryInv
<1> QED
  BY <1>1, InquiryStep, PTL DEF SpecInvestigation

(* Knowledge belongs to a playthrough that exists, and only what was discovered was
   read and has an opening time, whatever order the marks of concurrent requests
   commit in. *)
THEOREM KnowledgeGrounded ==
  ASSUME OneStorePerSystem
  PROVE  SpecInvestigation => []KnowledgeIsGrounded
<1>1. InquiryInv => KnowledgeIsGrounded
  BY DEF InquiryInv, Stands, WellGrounded, KnowledgeIsGrounded
<1> QED
  BY <1>1, InquiryInvariant, PTL

(* What answers told a player was found, and when it was opened, stays so as long as
   the playthrough lasts: no mark overwrites another. *)
THEOREM AnswersHold ==
  ASSUME OneStorePerSystem
  PROVE  SpecInvestigation => []AnswersStand
<1>1. InquiryInv => AnswersStand
  BY DEF InquiryInv, Stands, AnswersStand, FoundIsKept, OneOpeningTime
<1> QED
  BY <1>1, InquiryInvariant, PTL
--------------------------------------------------------------------------------
(* The composition implements Playthroughs *)

(* Whoever holds the lock of a Store works in that Store. *)
Owned == \A s \in Stores : lock[s] # None => StoreOf[lock[s]] = s

LEMMA OwnedStep ==
  ASSUME TypeOK, Owned, [NextInvestigation]_allVars
  PROVE  Owned'
<1>0. /\ lock \in [Stores -> Workers \cup {None}] /\ StoreOf \in [Workers -> Stores]
      /\ None \notin Workers
  BY ParameterTypes DEF TypeOK
<1>1. CASE UNCHANGED lock
  BY <1>1 DEF Owned
<1>2. ASSUME NEW w \in Workers, Acquire(w) \/ Release(w) PROVE Owned'
  BY <1>0, <1>2 DEF Owned, Acquire, Release
<1>3. ASSUME NEW s \in Stores, CrashAll(s) PROVE Owned'
  BY <1>0, <1>3 DEF Owned, CrashAll, Crash
<1>4. CASE LifecycleStep
  <2>1. \/ UNCHANGED lock
        \/ \E w \in Workers : Acquire(w) \/ Release(w)
    BY <1>4 DEF LifecycleStep, Receive, ReceiveCreate, ReceiveAccusation, ReceiveRead, Serve,
       AdmitCreate, RefuseCreate, InsertRow, CheckAccusation, SubmitAccusation, CheckReveal,
       ExposeTruth, CheckSavegame, ExportSavegame, PublishVersion, DeleteCase, Tick
  <2> QED
    BY <1>1, <1>2, <2>1
<1>5. ASSUME NEW w \in Workers,
             Investigate(w) \/ \E p \in Ids, s \in Subjects : ReceiveQuestion(w, p, s)
      PROVE  Owned'
  <2>1. UNCHANGED lock \/ Acquire(w) \/ Release(w)
    BY <1>5 DEF Investigate, ReceiveQuestion, CheckQuestion, EnsureRow, CreateRow,
       AnswerBootstrap, RefuseInteraction, InspectObject, DiscoverEvidence, OpenRecord,
       InterviewWitness, ReadRow, WriteRow, AnswerInspection, AnswerRecord, vars
  <2> QED
    BY <1>1, <1>2, <2>1
<1> QED
  BY <1>1, <1>3, <1>4, <1>5 DEF NextInvestigation, allVars, vars

(* The lock of the inserts, as the steps of either module change it. *)
LEMMA InsertLockKept ==
  ASSUME TypeOK, UNCHANGED lock,
         \A w \in Workers : req'[w].pc = "insert" <=> req[w].pc = "insert"
  PROVE  UNCHANGED InsertLock
<1>1. lock \in [Stores -> Workers \cup {None}]
  BY DEF TypeOK
<1>2. ASSUME NEW s \in Stores PROVE InsertLock'[s] = InsertLock[s]
  BY <1>1, <1>2 DEF InsertLock
<1> QED
  BY <1>2 DEF InsertLock

LEMMA InsertLockTaken ==
  ASSUME TypeOK, NEW w \in Workers, LockFree(w), Acquire(w),
         \A u \in Workers \ {w} : req'[u] = req[u], req[w].pc # "insert", Owned
  PROVE  /\ InsertLock[StoreOf[w]] = None
         /\ InsertLock' = [InsertLock EXCEPT ![StoreOf[w]] =
                             IF req'[w].pc = "insert" THEN w ELSE None]
<1>1. /\ lock \in [Stores -> Workers \cup {None}] /\ StoreOf[w] \in Stores
      /\ None \notin Workers /\ lock[StoreOf[w]] = None
      /\ lock' = [lock EXCEPT ![StoreOf[w]] = w]
  BY ParameterTypes DEF TypeOK, LockFree, Acquire
<1>2. ASSUME NEW s \in Stores
      PROVE  InsertLock'[s] = IF s = StoreOf[w]
                                THEN IF req'[w].pc = "insert" THEN w ELSE None
                                ELSE InsertLock[s]
  <2>1. CASE s = StoreOf[w]
    BY <1>1, <2>1 DEF InsertLock
  <2>2. CASE s # StoreOf[w]
    <3>1. lock'[s] = lock[s] /\ lock[s] # w
      BY <1>1, <2>2 DEF Owned
    <3> QED
      BY <1>1, <2>2, <3>1 DEF InsertLock
  <2> QED
    BY <2>1, <2>2
<1> QED
  BY <1>1, <1>2 DEF InsertLock

LEMMA InsertLockGiven ==
  ASSUME TypeOK, NEW w \in Workers, Release(w),
         \A u \in Workers \ {w} : req'[u] = req[u], Owned
  PROVE  InsertLock' = [InsertLock EXCEPT ![StoreOf[w]] = None]
<1>1. /\ lock \in [Stores -> Workers \cup {None}] /\ StoreOf[w] \in Stores
      /\ None \notin Workers /\ lock' = [lock EXCEPT ![StoreOf[w]] = None]
  BY ParameterTypes DEF TypeOK, Release
<1>2. ASSUME NEW s \in Stores
      PROVE  InsertLock'[s] = IF s = StoreOf[w] THEN None ELSE InsertLock[s]
  <2>1. CASE s = StoreOf[w]
    BY <1>1, <2>1 DEF InsertLock
  <2>2. CASE s # StoreOf[w]
    <3>1. lock'[s] = lock[s] /\ lock[s] # w
      BY <1>1, <2>2 DEF Owned
    <3> QED
      BY <1>1, <2>2, <3>1 DEF InsertLock
  <2> QED
    BY <2>1, <2>2
<1> QED
  BY <1>1, <1>2 DEF InsertLock
(* The queries read the tables alone. *)
LEMMA SameQueries ==
  ASSUME NEW v, NEW t
  PROVE  /\ Lifecycles!Admissible(v, t) = Admissible(v, t)
         /\ Lifecycles!Excess(v) = Excess(v)
         /\ \A n : Lifecycles!OldestCompleted(v, n) = OldestCompleted(v, n)
<1>1. \A S : Lifecycles!Cardinality(S) = Cardinality(S)
  BY DEF Cardinality, Lifecycles!Cardinality
<1>2. Lifecycles!OfVersion(v) = OfVersion(v)
  BY DEF OfVersion, Lifecycles!OfVersion, Present, Lifecycles!Present
<1>3. Lifecycles!ActiveAt(v, t) = ActiveAt(v, t)
  BY <1>2 DEF ActiveAt, Lifecycles!ActiveAt, PreAccusation, Lifecycles!PreAccusation
<1>4. Lifecycles!Completed(v) = Completed(v)
  BY <1>2 DEF Completed, Lifecycles!Completed, RevealEligible, Lifecycles!RevealEligible
<1>5. Lifecycles!Excess(v) = Excess(v)
  BY <1>1, <1>2 DEF Excess, Lifecycles!Excess
<1>6. \A n : Lifecycles!OldestCompleted(v, n) = OldestCompleted(v, n)
  BY <1>1, <1>4 DEF OldestCompleted, Lifecycles!OldestCompleted
<1>7. Lifecycles!Admissible(v, t) = Admissible(v, t)
  BY <1>1, <1>3, <1>5, <1>6 DEF Admissible, Lifecycles!Admissible
<1> QED
  BY <1>5, <1>6, <1>7

LEMMA LifecycleMaps ==
  ASSUME OneStorePerSystem, InquiryInv, Owned, LifecycleStep
  PROVE  Lifecycles!Next
<1> USE DEF tables, history, Lifecycles!tables, Lifecycles!history, Idle, Lifecycles!Idle
<1>0. /\ TypeOK /\ req \in [Workers -> Requests] /\ Owned
      /\ \A w \in Workers : ask[w].pc \in {"create", "write"} => lock[StoreOf[w]] = w
  BY DEF InquiryInv, InquiryTypes, TypeOK, Holding
<1>1. ASSUME NEW w \in Workers, UNCHANGED lock,
             \A u \in Workers \ {w} : req'[u] = req[u],
             req[w].pc # "insert", req'[w].pc # "insert"
      PROVE  UNCHANGED InsertLock
  BY <1>0, <1>1, InsertLockKept
<1>2. ASSUME NEW w \in Workers, LockFree(w) PROVE Lifecycles!LockFree(w)
  BY <1>0, <1>2, ParameterTypes DEF LockFree, Lifecycles!LockFree, InsertLock
<1>3. ASSUME NEW w \in Workers, Receive(w) PROVE Lifecycles!Receive(w)
  <2>1. ASSUME NEW p \in Ids, NEW v \in Versions, ReceiveCreate(w, p, v)
        PROVE  Lifecycles!ReceiveCreate(w, p, v)
    <3>1. UNCHANGED InsertLock
      BY <1>0, <1>1, <2>1 DEF ReceiveCreate
    <3> QED
      BY <2>1, <3>1 DEF ReceiveCreate, Lifecycles!ReceiveCreate
  <2>2. ASSUME NEW p \in Ids, NEW c \in Charges, ReceiveAccusation(w, p, c)
        PROVE  Lifecycles!ReceiveAccusation(w, p, c)
    <3>1. UNCHANGED InsertLock
      BY <1>0, <1>1, <2>2 DEF ReceiveAccusation
    <3> QED
      BY <2>2, <3>1 DEF ReceiveAccusation, Lifecycles!ReceiveAccusation, Authorized,
         Lifecycles!Authorized
  <2>3. ASSUME NEW p \in Ids, NEW op \in {"reveal", "savegame"}, ReceiveRead(w, p, op)
        PROVE  Lifecycles!ReceiveRead(w, p, op)
    <3>1. UNCHANGED InsertLock
      BY <1>0, <1>1, <2>3 DEF ReceiveRead
    <3> QED
      BY <2>3, <3>1 DEF ReceiveRead, Lifecycles!ReceiveRead, Authorized,
         Lifecycles!Authorized
  <2> QED
    BY <1>3, <2>1, <2>2, <2>3 DEF Receive, Lifecycles!Receive
<1>4. ASSUME NEW w \in Workers, AdmitCreate(w) PROVE Lifecycles!AdmitCreate(w)
  <2>1. /\ req[w].pc = "create" /\ LockFree(w) /\ Acquire(w)
        /\ \A u \in Workers \ {w} : req'[u] = req[u]
        /\ req'[w].pc = "insert"
    BY <1>0, <1>4 DEF AdmitCreate
  <2>2. InsertLock' = [InsertLock EXCEPT ![StoreOf[w]] = w]
    BY <1>0, <2>1, InsertLockTaken
  <2> DEFINE v == req[w].version
             oldest == OldestCompleted(v, Excess(v))
  <2>3. /\ Lifecycles!Admissible(v, req[w].at)
        /\ Lifecycles!OldestCompleted(v, Lifecycles!Excess(v)) = oldest
    BY <1>4, SameQueries DEF AdmitCreate
  <2>4. PICK V \in oldest :
          req' = [req EXCEPT ![w] = [pc |-> "insert", id |-> req[w].id,
                    version |-> v, at |-> req[w].at, pruned |-> V]]
    BY <1>4 DEF AdmitCreate
  <2>5. UNCHANGED <<now, tables, minted, history>>
    BY <1>4 DEF AdmitCreate
  <2> QED
    BY <1>2, <2>4, <2>5, <2>1, <2>2, <2>3 DEF Lifecycles!AdmitCreate, Lifecycles!Acquire
<1>5. ASSUME NEW w \in Workers, RefuseCreate(w) PROVE Lifecycles!RefuseCreate(w)
  <2>1. UNCHANGED InsertLock
    BY <1>0, <1>1, <1>5 DEF RefuseCreate, Finish
  <2> QED
    BY <1>2, <1>5, <2>1, SameQueries DEF RefuseCreate, Lifecycles!RefuseCreate, Finish,
       Lifecycles!Finish
<1>6. ASSUME NEW w \in Workers, InsertRow(w) PROVE Lifecycles!InsertRow(w)
  <2>1. Release(w) /\ \A u \in Workers \ {w} : req'[u] = req[u]
    BY <1>0, <1>6 DEF InsertRow, Finish
  <2>2. InsertLock' = [InsertLock EXCEPT ![StoreOf[w]] = None]
    BY <1>0, <2>1, InsertLockGiven
  <2> QED
    BY <1>6, <2>2 DEF InsertRow, Lifecycles!InsertRow, Lifecycles!Release, Finish,
       Lifecycles!Finish, Expiry, Lifecycles!Expiry
<1>7. ASSUME NEW w \in Workers,
             CheckAccusation(w) \/ CheckReveal(w) \/ CheckSavegame(w)
      PROVE  Lifecycles!CheckAccusation(w) \/ Lifecycles!CheckReveal(w)
               \/ Lifecycles!CheckSavegame(w)
  <2>1. /\ UNCHANGED lock /\ req[w].pc \in Asking /\ req[w].pc # "insert"
        /\ \/ req' = [req EXCEPT ![w] = Idle]
           \/ Goto(w, "submit") \/ Goto(w, "expose") \/ Goto(w, "export")
    BY <1>7 DEF CheckAccusation, CheckReveal, CheckSavegame, Finish, Asking
  <2>2. /\ \A u \in Workers \ {w} : req'[u] = req[u]
        /\ req'[w].pc # "insert"
    BY <1>0, <2>1, GotoParts
  <2>3. UNCHANGED InsertLock
    BY <1>1, <2>1, <2>2
  <2> QED
    BY <1>7, <2>3 DEF CheckAccusation, CheckReveal, CheckSavegame,
       Lifecycles!CheckAccusation, Lifecycles!CheckReveal, Lifecycles!CheckSavegame,
       Goto, Finish, Lifecycles!Goto, Lifecycles!Finish, PreAccusation,
       Lifecycles!PreAccusation, Exportable, Lifecycles!Exportable, RevealEligible,
       Lifecycles!RevealEligible
<1>8. ASSUME NEW w \in Workers,
             SubmitAccusation(w) \/ ExposeTruth(w) \/ ExportSavegame(w)
      PROVE  Lifecycles!SubmitAccusation(w) \/ Lifecycles!ExposeTruth(w)
               \/ Lifecycles!ExportSavegame(w)
  <2>1. /\ UNCHANGED lock /\ req[w].pc # "insert"
        /\ req' = [req EXCEPT ![w] = Idle]
    BY <1>8 DEF SubmitAccusation, ExposeTruth, ExportSavegame, Finish
  <2>2. UNCHANGED InsertLock
    BY <1>0, <1>1, <2>1
  <2>3. CASE SubmitAccusation(w)
    BY <1>2, <2>2, <2>3 DEF SubmitAccusation, Lifecycles!SubmitAccusation, Accusable,
       Lifecycles!Accusable, PreAccusation, Lifecycles!PreAccusation, Finish,
       Lifecycles!Finish
  <2>4. CASE ExposeTruth(w)
    BY <1>2, <2>2, <2>4 DEF ExposeTruth, Lifecycles!ExposeTruth, Revealable,
       Lifecycles!Revealable, RevealEligible, Lifecycles!RevealEligible, Finish,
       Lifecycles!Finish
  <2>5. CASE ExportSavegame(w)
    BY <2>2, <2>5 DEF ExportSavegame, Lifecycles!ExportSavegame, Finish,
       Lifecycles!Finish
  <2> QED
    BY <1>8, <2>3, <2>4, <2>5
<1>9. CASE (\E v \in Versions : PublishVersion(v)) \/ DeleteCase \/ Tick
  <2>1. UNCHANGED InsertLock
    BY <1>0, <1>9, InsertLockKept DEF PublishVersion, DeleteCase, Tick
  <2> QED
    BY <1>9, <2>1 DEF PublishVersion, DeleteCase, Tick, Lifecycles!PublishVersion,
       Lifecycles!DeleteCase, Lifecycles!Tick, Lifecycles!Next
<1> QED
  BY <1>3, <1>4, <1>5, <1>6, <1>7, <1>8, <1>9
  DEF LifecycleStep, Serve, Lifecycles!Serve, Lifecycles!Next

LEMMA CrashMaps ==
  ASSUME TypeOK, Owned, NEW s \in Stores, CrashAll(s)
  PROVE  Lifecycles!Crash(s)
<1>1. /\ lock \in [Stores -> Workers \cup {None}] /\ None \notin Workers
      /\ lock' = [lock EXCEPT ![s] = None]
      /\ req' = [w \in Workers |-> IF StoreOf[w] = s THEN Idle ELSE req[w]]
  BY ParameterTypes DEF TypeOK, CrashAll, Crash
<1>2. ASSUME NEW t \in Stores
      PROVE  InsertLock'[t] = IF t = s THEN None ELSE InsertLock[t]
  BY <1>1, <1>2 DEF InsertLock, Owned
<1>3. InsertLock' = [InsertLock EXCEPT ![s] = None]
  BY <1>1, <1>2 DEF InsertLock
<1> QED
  BY <1>3 DEF CrashAll, Crash, Lifecycles!Crash, tables, history, Lifecycles!tables,
     Lifecycles!history, Idle, Lifecycles!Idle

(* A step of an inquiry is none of the lifecycle. *)
LEMMA InquiryHides ==
  ASSUME OneStorePerSystem, InquiryInv, Owned, NEW w \in Workers,
         Investigate(w) \/ \E p \in Ids, s \in Subjects : ReceiveQuestion(w, p, s)
  PROVE  UNCHANGED <<Lifecycle, InsertLock>>
<1>0. /\ TypeOK /\ lock \in [Stores -> Workers \cup {None}] /\ StoreOf \in [Workers -> Stores]
      /\ None \notin Workers
  BY ParameterTypes DEF InquiryInv, InquiryTypes, TypeOK
<1>1. UNCHANGED Lifecycle
  BY DEF Investigate, ReceiveQuestion, CheckQuestion, EnsureRow, CreateRow,
     AnswerBootstrap, RefuseInteraction, InspectObject, DiscoverEvidence, OpenRecord,
     InterviewWitness, ReadRow, WriteRow, AnswerInspection, AnswerRecord, vars, Lifecycle
<1>2. UNCHANGED req
  BY <1>1 DEF Lifecycle
<1>3. CASE UNCHANGED lock
  BY <1>0, <1>1, <1>2, <1>3, InsertLockKept
<1>4. CASE ask[w] # Idle /\ LockFree(w) /\ Acquire(w)
  <2>1. req[w].pc # "insert"
    BY <1>4, SoundParts DEF Idle
  <2>2. /\ InsertLock[StoreOf[w]] = None
        /\ InsertLock' = [InsertLock EXCEPT ![StoreOf[w]] = None]
    BY <1>0, <1>2, <1>4, <2>1, InsertLockTaken
  <2> QED
    BY <1>0, <1>1, <2>2 DEF InsertLock
<1>5. CASE ask[w].pc \in {"create", "write"} /\ Release(w)
  <2>1. req[w].pc # "insert" /\ lock[StoreOf[w]] = w
    BY <1>5, SoundParts DEF Idle, InquiryInv, Holding
  <2>2. /\ InsertLock[StoreOf[w]] = None
        /\ InsertLock' = [InsertLock EXCEPT ![StoreOf[w]] = None]
    BY <1>0, <1>2, <1>5, <2>1, InsertLockGiven DEF InsertLock
  <2> QED
    BY <1>0, <1>1, <2>2 DEF InsertLock
<1>6. CASE EnsureRow(w) \/ ReadRow(w)
  <2>1. ask[w] # Idle /\ LockFree(w) /\ (UNCHANGED lock \/ Acquire(w))
    BY <1>6 DEF EnsureRow, ReadRow, Idle
  <2> QED
    BY <1>3, <1>4, <2>1
<1>7. CASE CreateRow(w) \/ WriteRow(w)
  <2>1. ask[w].pc \in {"create", "write"} /\ Release(w)
    BY <1>7 DEF CreateRow, WriteRow
  <2> QED
    BY <1>5, <2>1
<1>8. ASSUME ~ EnsureRow(w), ~ ReadRow(w), ~ CreateRow(w), ~ WriteRow(w)
      PROVE  UNCHANGED lock
  BY <1>8 DEF Investigate, ReceiveQuestion, CheckQuestion, AnswerBootstrap,
     RefuseInteraction, InspectObject, DiscoverEvidence, OpenRecord,
     InterviewWitness, AnswerInspection, AnswerRecord, vars
<1> QED
  BY <1>3, <1>6, <1>7, <1>8

(* The composition implements Playthroughs: hiding what is known and what is asked, and
   the lock except during an insert, the steps of the investigation are stutters and
   the others are steps of the lifecycle alone. *)
THEOREM LifecycleKept ==
  ASSUME OneStorePerSystem
  PROVE  SpecInvestigation => KeepsLifecycle
<1>1. InitInvestigation => Lifecycles!Init /\ Owned
  BY DEF InitInvestigation, Init, Lifecycles!Init, InsertLock, Owned, Idle, Lifecycles!Idle
<1>2. InquiryInv /\ Owned /\ [NextInvestigation]_allVars => Owned'
  BY OwnedStep DEF InquiryInv, InquiryTypes
<1>3. InquiryInv /\ Owned /\ [NextInvestigation]_allVars => [Lifecycles!Next]_(Lifecycles!vars)
  <2> SUFFICES ASSUME InquiryInv, Owned, [NextInvestigation]_allVars
               PROVE  Lifecycles!Next \/ UNCHANGED <<Lifecycle, InsertLock>>
    BY DEF Lifecycles!vars, Lifecycles!tables, Lifecycles!history, Lifecycle, tables, history
  <2>1. CASE LifecycleStep
    BY <2>1, LifecycleMaps
  <2>2. ASSUME NEW s \in Stores, CrashAll(s) PROVE Lifecycles!Next
    BY <2>2, CrashMaps DEF InquiryInv, InquiryTypes, Lifecycles!Next
  <2>3. ASSUME NEW w \in Workers,
               Investigate(w) \/ \E p \in Ids, s \in Subjects : ReceiveQuestion(w, p, s)
        PROVE  UNCHANGED <<Lifecycle, InsertLock>>
    BY <2>3, InquiryHides
  <2>4. CASE UNCHANGED allVars
    BY <2>4 DEF allVars, vars, Lifecycle, InsertLock
  <2> QED
    BY <2>3, <2>4, <2>1, <2>2 DEF NextInvestigation
<1> QED
  BY <1>1, <1>2, <1>3, InquiryInvariant, PTL
  DEF SpecInvestigation, KeepsLifecycle, Lifecycles!Spec
================================================================================
