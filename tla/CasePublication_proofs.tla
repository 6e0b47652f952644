------------------------- MODULE CasePublication_proofs -------------------------
(***************************************************************************)
(* Proofs about CasePublication, for any set of cases and requests and any *)
(* number of versions.                                                     *)
(*                                                                         *)
(* The tables are consistent because a request knows, without reading,     *)
(* what the rows of its version say: nobody else works on that version,    *)
(* and only a deletion, which removes everything of the case at once,      *)
(* changes a row behind its back.  VersionInv says just that.              *)
(***************************************************************************)
EXTENDS CasePublication, TLAPS

Busy == {"allocate", "run", "persist", "publish", "markVersion", "markAttempt"}

(* Requests that have a version of their own. *)
Working(w) == req[w].pc \in Busy \ {"allocate"}

(* Cases that exist were drawn, and have not been deleted. *)
CasesInv == \A c \in Cases : Exists(c) => c \in minted /\ c \notin deleted

RequestsInv ==
  \A w \in Requests :
    /\ req[w].pc \in Busy => req[w].case \in minted
    /\ req[w].pc = "allocate" => ~ req[w].new
    /\ req[w].pc = "persist" => req[w].state # None

(* Before it is recorded, a version has no row.  Only its own request knows the
   case of a first version; any other version was allocated. *)
PendingInv ==
  \A w \in Requests : req[w].pc \in {"run", "persist"} =>
    /\ version[req[w].case][req[w].version] = None
    /\ req[w].new =>
         /\ ~ Exists(req[w].case)
         /\ req[w].case \notin deleted
         /\ \A x \in Requests \ {w} : req[x].pc \in Busy => req[x].case # req[w].case
    /\ ~ req[w].new /\ Exists(req[w].case) => req[w].version < next[req[w].case]

(* Afterwards its rows say what its request left in them, or the case is gone. *)
MarkInv ==
  \A w \in Requests :
    req[w].pc \in {"publish", "markVersion", "markAttempt"} /\ Exists(req[w].case) =>
      /\ version[req[w].case][req[w].version] =
           IF req[w].pc = "markAttempt" THEN "FAILED" ELSE "VALIDATING"
      /\ attempt[req[w].case][req[w].version] = "VALIDATING"

UniqueInv ==
  \A w, x \in Requests :
    w # x /\ Working(w) /\ Working(x) /\ req[w].case = req[x].case =>
      req[w].version # req[x].version

VersionInv ==
  /\ TypeOK
  /\ PublishedTogether
  /\ NoOrphans
  /\ CasesInv
  /\ RequestsInv
  /\ PendingInv
  /\ MarkInv
  /\ UniqueInv

--------------------------------------------------------------------------------
(* What an entry of a table is after one was set. *)
LEMMA SetEntry ==
  ASSUME NEW T, NEW f \in [Cases -> [Versions -> T]],
         NEW c \in Cases, NEW v \in Versions, NEW x \in T,
         NEW g, g = [f EXCEPT ![c][v] = x]
  PROVE  /\ g \in [Cases -> [Versions -> T]]
         /\ \A d \in Cases, u \in Versions :
              g[d][u] = IF d = c /\ u = v THEN x ELSE f[d][u]
<1>1. f[c] \in [Versions -> T]
  OBVIOUS
<1> DEFINE h == [f[c] EXCEPT ![v] = x]
<1>3. h \in [Versions -> T] /\ \A u \in Versions : h[u] = IF u = v THEN x ELSE f[c][u]
  BY <1>1
<1>4. g = [f EXCEPT ![c] = h]
  OBVIOUS
<1> HIDE DEF h
<1> QED
  BY <1>3, <1>4

(* What the type of the requests says of one of them. *)
LEMMA RequestParts ==
  ASSUME TypeOK, NEW w \in Requests
  PROVE  /\ req[w].pc \in Busy \cup {"idle"}
         /\ req[w].pc \in Busy =>
              /\ req[w].case \in Cases
              /\ req[w].version \in Versions
              /\ req[w].new \in BOOLEAN
              /\ req[w].state \in {"PUBLISHED", "FAILED", None}
  BY DEF TypeOK, InRequest, Idle, Busy

(* A request ends, or takes a step and keeps its version. *)
LEMMA Retires ==
  ASSUME TypeOK, NEW w \in Requests, Done(w)
  PROVE  /\ req' \in [Requests -> InRequest]
         /\ req'[w].pc = "idle"
         /\ \A x \in Requests \ {w} : req'[x] = req[x]
  BY DEF TypeOK, Done, InRequest, Idle

LEMMA Advances ==
  ASSUME TypeOK, NEW w \in Requests, req[w].pc \in Busy, NEW pc \in Busy, Go(w, pc)
  PROVE  /\ req' \in [Requests -> InRequest]
         /\ req'[w].pc = pc
         /\ req'[w].case = req[w].case
         /\ req'[w].version = req[w].version
         /\ req'[w].new = req[w].new
         /\ \A x \in Requests \ {w} : req'[x] = req[x]
<1>1. req[w] \in [pc : Busy, case : Cases, version : Versions, new : BOOLEAN,
                  state : {"PUBLISHED", "FAILED", None}]
  BY DEF TypeOK, InRequest, Busy, Idle
<1>2. req' = [req EXCEPT ![w] = [req[w] EXCEPT !.pc = pc]]
  BY DEF Go
<1>3. [req[w] EXCEPT !.pc = pc] \in
        [pc : Busy, case : Cases, version : Versions, new : BOOLEAN,
         state : {"PUBLISHED", "FAILED", None}]
  BY <1>1
<1> QED
  BY <1>1, <1>2, <1>3 DEF TypeOK, InRequest, Busy

--------------------------------------------------------------------------------
(* A request that ends without touching a table takes nothing from the others. *)
LEMMA RetireStep ==
  ASSUME VersionInv, NEW w \in Requests, Done(w), UNCHANGED <<Tables, minted, deleted>>,
         abandoned' \subseteq Cases \X Versions
  PROVE  VersionInv'
<1> USE DEF Tables
<1>1. /\ req' \in [Requests -> InRequest]
      /\ req'[w].pc = "idle"
      /\ \A x \in Requests \ {w} : req'[x] = req[x]
  BY Retires DEF VersionInv
<1>2. TypeOK'
  BY <1>1 DEF VersionInv, TypeOK
<1>3. PublishedTogether' /\ NoOrphans' /\ CasesInv'
  BY DEF VersionInv, PublishedTogether, NoOrphans, CasesInv, Exists
<1>4. RequestsInv' /\ PendingInv' /\ MarkInv' /\ UniqueInv'
  BY <1>1 DEF VersionInv, RequestsInv, PendingInv, MarkInv, UniqueInv, Working, Exists, Busy
<1> QED
  BY <1>2, <1>3, <1>4 DEF VersionInv

(* A new case is known to its request only. *)
LEMMA StartCaseStep ==
  ASSUME VersionInv, NEW w \in Requests, NEW c \in Cases, StartCase(w, c)
  PROVE  VersionInv'
<1> USE DEF Tables
<1>1. /\ req[w].pc = "idle"
      /\ c \notin minted
      /\ ~ Exists(c)
      /\ minted' = minted \cup {c}
      /\ req'[w] = [pc |-> "run", case |-> c, version |-> 1, new |-> TRUE, state |-> None]
      /\ \A x \in Requests \ {w} : req'[x] = req[x]
  BY DEF StartCase, At, VersionInv, CasesInv, TypeOK
<1>2. /\ 1 \in Versions
      /\ version[c][1] = None
      /\ c \notin deleted
  <2>1. 1 \in Versions
    BY MaxVersionIsPositive DEF Versions
  <2>2. version[c][1] = None
    BY <1>1, <2>1 DEF VersionInv, NoOrphans
  <2>3. c \notin deleted
    BY <1>1 DEF VersionInv, TypeOK
  <2> QED
    BY <2>1, <2>2, <2>3
<1>3. TypeOK'
  <2>1. [pc |-> "run", case |-> c, version |-> 1, new |-> TRUE, state |-> None] \in InRequest
    BY <1>2 DEF InRequest
  <2>2. req' \in [Requests -> InRequest]
    BY <2>1 DEF StartCase, VersionInv, TypeOK
  <2> QED
    BY <1>1, <2>2 DEF StartCase, VersionInv, TypeOK
<1>4. PublishedTogether' /\ NoOrphans' /\ CasesInv'
  BY <1>1 DEF StartCase, VersionInv, PublishedTogether, NoOrphans, CasesInv, Exists
<1>5. \A x \in Requests \ {w} : req[x].pc \in Busy => req[x].case # c
  BY <1>1 DEF VersionInv, RequestsInv
<1>6. RequestsInv'
  BY <1>1 DEF VersionInv, RequestsInv
<1>7. PendingInv'
  BY <1>1, <1>2, <1>5 DEF StartCase, VersionInv, PendingInv, Exists, Busy
<1>8. MarkInv'
  BY <1>1 DEF StartCase, VersionInv, MarkInv, Exists
<1>9. UniqueInv'
  BY <1>1, <1>5 DEF VersionInv, UniqueInv, Working
<1> QED
  BY <1>3, <1>4, <1>6, <1>7, <1>8, <1>9 DEF VersionInv

(* A request that has no version yet claims nothing. *)
LEMMA CheckCaseStep ==
  ASSUME VersionInv, NEW w \in Requests, NEW c \in Cases, CheckCase(w, c)
  PROVE  VersionInv'
<1> USE DEF Tables
<1>1. /\ req[w].pc = "idle"
      /\ c \in minted
      /\ next[c] \in Versions
      /\ req'[w] = [pc |-> "allocate", case |-> c, version |-> next[c], new |-> FALSE,
                    state |-> None]
      /\ \A x \in Requests \ {w} : req'[x] = req[x]
  BY DEF CheckCase, At, VersionInv, CasesInv, TypeOK
<1>2. TypeOK'
  BY <1>1 DEF CheckCase, VersionInv, TypeOK, InRequest
<1>3. PublishedTogether' /\ NoOrphans' /\ CasesInv'
  BY DEF CheckCase, VersionInv, PublishedTogether, NoOrphans, CasesInv, Exists
<1>4. RequestsInv'
  BY <1>1 DEF CheckCase, VersionInv, RequestsInv
<1>5. PendingInv'
  <2>1. \A x \in Requests \ {w} : req[x].pc \in {"run", "persist"} /\ req[x].new =>
          req[x].case # c
    BY DEF CheckCase, VersionInv, PendingInv
  <2> QED
    BY <1>1, <2>1 DEF CheckCase, VersionInv, PendingInv, Exists, Busy
<1>6. MarkInv' /\ UniqueInv'
  BY <1>1 DEF CheckCase, VersionInv, MarkInv, UniqueInv, Working, Exists
<1> QED
  BY <1>2, <1>3, <1>4, <1>5, <1>6 DEF VersionInv

(* The allocated number is past every row of the case, and past every version that
   a request works on. *)
LEMMA AllocateStep ==
  ASSUME VersionInv, NEW w \in Requests, Allocate(w)
  PROVE  VersionInv'
<1> USE DEF Tables
<1> DEFINE c == req[w].case
<1>1. CASE Done(w) /\ UNCHANGED next
  BY <1>1, RetireStep DEF Allocate, VersionInv, TypeOK
<1>2. CASE /\ Exists(c)
           /\ next[c] \in Versions
           /\ next' = [next EXCEPT ![c] = @ + 1]
           /\ req' = [req EXCEPT ![w].pc = "run", ![w].version = Number(w)]
  <2>1. /\ req[w].pc = "allocate" /\ c \in Cases /\ c \in minted /\ ~ req[w].new
        /\ req[w] \in [pc : Busy, case : Cases, version : Versions, new : BOOLEAN,
                       state : {"PUBLISHED", "FAILED", None}]
    BY DEF Allocate, At, VersionInv, TypeOK, InRequest, Idle, Busy, RequestsInv
  <2>2. /\ req'[w] \in [pc : Busy, case : Cases, version : Versions, new : BOOLEAN,
                        state : {"PUBLISHED", "FAILED", None}]
        /\ req'[w].pc = "run" /\ req'[w].case = c /\ req'[w].version = next[c]
        /\ ~ req'[w].new
        /\ \A x \in Requests \ {w} : req'[x] = req[x]
    BY <1>2, <2>1 DEF VersionInv, TypeOK, Number, Busy
  <2>3. next[c] \in Nat /\ next'[c] = next[c] + 1 /\ next'[c] # None
    BY <1>2, <2>1, NoneIsNothing, MaxVersionIsPositive DEF VersionInv, TypeOK, Versions, Exists
  <2>4. \A d \in Cases : /\ (next'[d] = None) <=> (next[d] = None)
                         /\ \A u \in Versions : u < next[d] => u < next'[d]
    <3>1. \A d \in Cases \ {c} : next'[d] = next[d]
      BY <1>2, <2>1 DEF VersionInv, TypeOK
    <3>2. \A u \in Versions : u < next[c] => u < next'[c]
      BY <2>3 DEF Versions
    <3>3. next[c] # None /\ next'[c] # None
      BY <1>2, <2>3 DEF Exists
    <3> QED
      BY <3>1, <3>2, <3>3
  <2>5. TypeOK'
    <3>1. next' \in [Cases -> (1 .. MaxVersion + 1) \cup {None}]
      BY <1>2, <2>1, MaxVersionIsPositive DEF VersionInv, TypeOK, Versions
    <3>2. req' \in [Requests -> InRequest]
      BY <1>2, <2>2 DEF VersionInv, TypeOK, InRequest, Busy
    <3> QED
      BY <3>1, <3>2 DEF Allocate, VersionInv, TypeOK
  <2>6. PublishedTogether'
    BY DEF Allocate, VersionInv, PublishedTogether
  <2>7. NoOrphans'
    BY <2>4 DEF Allocate, VersionInv, NoOrphans, Exists
  <2>8. CasesInv' /\ RequestsInv'
    <3>1. CasesInv'
      BY <2>4 DEF Allocate, VersionInv, CasesInv, Exists
    <3>2. RequestsInv'
      BY <2>1, <2>2 DEF Allocate, VersionInv, RequestsInv
    <3> QED
      BY <3>1, <3>2
  <2>9. version[c][next[c]] = None
    BY <1>2, <2>1, <2>3 DEF VersionInv, NoOrphans
  <2>10. PendingInv'
    <3>1. ASSUME NEW x \in Requests \ {w}, req[x].pc \in {"run", "persist"}
          PROVE  /\ version'[req[x].case][req[x].version] = None
                 /\ req[x].new =>
                      /\ req[x].case # c /\ next'[req[x].case] = None
                      /\ req[x].case \notin deleted'
                      /\ \A y \in Requests \ {x} :
                           req'[y].pc \in Busy => req'[y].case # req[x].case
                 /\ ~ req[x].new /\ next'[req[x].case] # None =>
                      req[x].version < next'[req[x].case]
      <4>1. req[x].case \in Cases /\ req[x].version \in Versions
        BY <3>1, RequestParts DEF VersionInv, Busy
      <4>2. /\ version'[req[x].case][req[x].version] = None
            /\ ~ req[x].new /\ next'[req[x].case] # None =>
                 req[x].version < next'[req[x].case]
        BY <2>4, <3>1, <4>1 DEF Allocate, VersionInv, PendingInv, Exists
      <4>3. ASSUME req[x].new
            PROVE  /\ req[x].case # c /\ next'[req[x].case] = None
                   /\ req[x].case \notin deleted'
        BY <1>2, <2>4, <3>1, <4>1, <4>3 DEF Allocate, VersionInv, PendingInv, Exists
      <4>4. ASSUME req[x].new, NEW y \in Requests \ {x}, req'[y].pc \in Busy
            PROVE  req'[y].case # req[x].case
        BY <2>2, <3>1, <4>3, <4>4 DEF VersionInv, PendingInv
      <4> QED
        BY <4>2, <4>3, <4>4
    <3> QED
      BY <2>2, <2>3, <2>9, <3>1 DEF Allocate, PendingInv, Exists
  <2>11. MarkInv'
    <3>1. \A x \in Requests : req[x].pc \in Busy => req[x].case \in Cases
      BY RequestParts DEF VersionInv
    <3> QED
      BY <2>2, <2>4, <3>1 DEF Allocate, VersionInv, MarkInv, Exists, Busy
  <2>12. UniqueInv'
    <3>1. ASSUME NEW x \in Requests \ {w}, Working(x), req[x].case = c
          PROVE  req[x].version # next[c]
      <4>1. CASE req[x].pc \in {"run", "persist"}
        BY <1>2, <2>3, <3>1, <4>1, RequestParts, MaxVersionIsPositive
           DEF VersionInv, PendingInv, Busy, Versions
      <4>2. CASE req[x].pc \in {"publish", "markVersion", "markAttempt"}
        <5>1. version[c][req[x].version] # None
          BY <1>2, <3>1, <4>2, NoneIsNothing DEF VersionInv, MarkInv, States
        <5> QED
          BY <2>9, <5>1
      <4> QED
        BY <3>1, <4>1, <4>2 DEF Working, Busy
    <3> QED
      BY <2>2, <3>1 DEF VersionInv, UniqueInv, Working
  <2> QED
    BY <2>5, <2>6, <2>7, <2>8, <2>10, <2>11, <2>12 DEF VersionInv
<1> QED
  BY <1>1, <1>2 DEF Allocate

(* A draft that was generated is still in memory only. *)
LEMMA RunStep ==
  ASSUME VersionInv, NEW w \in Requests, Run(w)
  PROVE  VersionInv'
<1> USE DEF Tables
<1>1. CASE Done(w)
  BY <1>1, RetireStep DEF Run, VersionInv, TypeOK
<1>2. ASSUME NEW state \in {"PUBLISHED", "FAILED"},
             req' = [req EXCEPT ![w].pc = "persist", ![w].state = state]
      PROVE  VersionInv'
  <2>1. /\ req[w].pc = "run"
        /\ req[w] \in [pc : Busy, case : Cases, version : Versions, new : BOOLEAN,
                       state : {"PUBLISHED", "FAILED", None}]
    BY DEF Run, At, VersionInv, TypeOK, InRequest, Idle, Busy
  <2>2. /\ req'[w] \in [pc : Busy, case : Cases, version : Versions, new : BOOLEAN,
                        state : {"PUBLISHED", "FAILED", None}]
        /\ req'[w].pc = "persist" /\ req'[w].state = state
        /\ req'[w].case = req[w].case /\ req'[w].version = req[w].version
        /\ req'[w].new = req[w].new
        /\ \A x \in Requests \ {w} : req'[x] = req[x]
    BY <1>2, <2>1 DEF VersionInv, TypeOK, Busy
  <2>3. TypeOK'
    <3>1. req' \in [Requests -> InRequest]
      BY <1>2, <2>2 DEF VersionInv, TypeOK, InRequest, Busy
    <3> QED
      BY <3>1 DEF Run, VersionInv, TypeOK
  <2>4. PublishedTogether' /\ NoOrphans' /\ CasesInv'
    BY DEF Run, VersionInv, PublishedTogether, NoOrphans, CasesInv, Exists
  <2>5. RequestsInv'
    BY <2>1, <2>2, NoneIsNothing DEF Run, VersionInv, RequestsInv, States, Busy
  <2>6. PendingInv' /\ MarkInv' /\ UniqueInv'
    BY <2>1, <2>2
       DEF Run, VersionInv, PendingInv, MarkInv, UniqueInv, Working, Exists, Busy
  <2> QED
    BY <2>3, <2>4, <2>5, <2>6 DEF VersionInv
<1> QED
  BY <1>1, <1>2 DEF Run

(* The rows that are recorded are new, and belong to a case that exists. *)
LEMMA PersistStep ==
  ASSUME VersionInv, NEW w \in Requests, Persist(w)
  PROVE  VersionInv'
<1> USE DEF Tables
<1> DEFINE c == req[w].case
           v == req[w].version
           s == StoredState(req[w].state)
<1>1. CASE Done(w) /\ UNCHANGED <<next, version, attempt>>
  BY <1>1, RetireStep DEF Persist, VersionInv, TypeOK
<1>2. CASE /\ ~ Conflict(w)
           /\ next' = IF req[w].new THEN [next EXCEPT ![c] = v + 1] ELSE next
           /\ version' = [version EXCEPT ![c][v] = s]
           /\ attempt' = [attempt EXCEPT ![c][v] = s]
           /\ IF req[w].state = "PUBLISHED"
                THEN \E pc \in {"publish", "markVersion"} : Go(w, pc)
                ELSE Done(w)
  <2>1. /\ req[w].pc = "persist" /\ c \in Cases /\ v \in Versions /\ v \in Nat /\ c \in minted
        /\ req[w].new => ~ Exists(c)
        /\ ~ req[w].new => Exists(c)
        /\ s \in {"VALIDATING", "FAILED"} /\ s \in States
        /\ req[w].state = "PUBLISHED" => s = "VALIDATING"
    BY <1>2, RequestParts, MaxVersionIsPositive
       DEF Persist, At, VersionInv, RequestsInv, Conflict, StoredState, States, Exists,
           Busy, Versions
  <2>2. /\ version[c][v] = None /\ attempt[c][v] = None /\ <<c, v>> \notin payload
        /\ c \notin deleted
        /\ Exists(c) => v < next[c]
        /\ ~ Exists(c) => \A x \in Requests \ {w} : req[x].pc \in Busy => req[x].case # c
    <3>1. version[c][v] = None /\ attempt[c][v] = None
      BY <2>1 DEF VersionInv, PendingInv, NoOrphans
    <3>2. <<c, v>> \notin payload
      BY <2>1, <3>1, NoneIsNothing DEF VersionInv, PublishedTogether, States
    <3>3. c \notin deleted
      BY <2>1 DEF VersionInv, PendingInv, CasesInv
    <3>4. /\ Exists(c) => v < next[c]
          /\ ~ Exists(c) => \A x \in Requests \ {w} : req[x].pc \in Busy => req[x].case # c
      BY <2>1 DEF VersionInv, PendingInv
    <3> QED
      BY <3>3, <3>4, <3>1, <3>2
  <2>3. /\ req' \in [Requests -> InRequest]
        /\ \A x \in Requests \ {w} : req'[x] = req[x]
        /\ \/ req'[w].pc = "idle"
           \/ /\ req'[w].pc \in {"publish", "markVersion"}
              /\ req'[w].case = c /\ req'[w].version = v /\ req'[w].new = req[w].new
              /\ s = "VALIDATING"
    <3>1. CASE Done(w)
      BY <3>1, Retires DEF VersionInv
    <3>2. ASSUME NEW pc \in {"publish", "markVersion"}, Go(w, pc), req[w].state = "PUBLISHED"
          PROVE  <2>3
      BY <2>1, <3>2, Advances DEF VersionInv, Busy
    <3> QED
      BY <1>2, <3>1, <3>2
  <2>4. /\ version' \in [Cases -> [Versions -> States \cup {None}]]
        /\ \A d \in Cases, u \in Versions :
             version'[d][u] = IF d = c /\ u = v THEN s ELSE version[d][u]
    BY <1>2, <2>1, SetEntry DEF VersionInv, TypeOK
  <2>5. /\ attempt' \in [Cases -> [Versions -> States \cup {None}]]
        /\ \A d \in Cases, u \in Versions :
             attempt'[d][u] = IF d = c /\ u = v THEN s ELSE attempt[d][u]
    BY <1>2, <2>1, SetEntry DEF VersionInv, TypeOK
  <2>6. /\ next' \in [Cases -> (1 .. MaxVersion + 1) \cup {None}]
        /\ next'[c] # None /\ v < next'[c]
        /\ \A d \in Cases \ {c} : next'[d] = next[d]
        /\ Exists(c) => next'[c] = next[c]
    <3>1. CASE Exists(c)
      BY <1>2, <2>1, <2>2, <3>1 DEF VersionInv, TypeOK, Exists
    <3>2. CASE ~ Exists(c)
      <4>1. next' = [next EXCEPT ![c] = v + 1]
        BY <1>2, <2>1, <3>2
      <4>3. v + 1 \in 1 .. MaxVersion + 1
        BY <2>1, MaxVersionIsPositive DEF Versions
      <4>2. v + 1 # None
        BY <2>1, NoneIsNothing
      <4> QED
        BY <2>1, <3>2, <4>1, <4>3, <4>2 DEF VersionInv, TypeOK
    <3> QED
      BY <3>1, <3>2
  <2>. HIDE DEF c, v, s
  <2>7. TypeOK'
    BY <2>3, <2>4, <2>5, <2>6 DEF Persist, VersionInv, TypeOK
  <2>8. PublishedTogether'
    <3>1. payload' = payload
      BY DEF Persist
    <3>2. ASSUME NEW d \in Cases, NEW u \in Versions
          PROVE  /\ (version'[d][u] = "PUBLISHED") <=> (<<d, u>> \in payload)
                 /\ (attempt'[d][u] = "PUBLISHED") <=> (<<d, u>> \in payload)
      <4>1. CASE d = c /\ u = v
        BY <2>1, <2>2, <2>4, <2>5, <4>1
      <4>2. CASE ~ (d = c /\ u = v)
        BY <2>4, <2>5, <4>2 DEF VersionInv, PublishedTogether
      <4> QED
        BY <4>1, <4>2
    <3> QED
      BY <3>1, <3>2 DEF PublishedTogether
  <2>9. NoOrphans'
    <3>1. s # None
      BY <2>1, NoneIsNothing
    <3>2. \A d \in Cases, u \in Versions :
            version[d][u] # None => next'[d] # None /\ u < next'[d]
      BY <2>2, <2>6 DEF VersionInv, NoOrphans, Exists
    <3>3. ASSUME NEW d \in Cases, NEW u \in Versions
          PROVE  /\ version'[d][u] # None => next'[d] # None /\ u < next'[d]
                 /\ (attempt'[d][u] # None) <=> (version'[d][u] # None)
      <4>1. CASE d = c /\ u = v
        BY <2>4, <2>5, <2>6, <3>1, <4>1
      <4>2. CASE ~ (d = c /\ u = v)
        BY <2>4, <2>5, <3>2, <4>2 DEF VersionInv, NoOrphans
      <4> QED
        BY <4>1, <4>2
    <3> QED
      BY <3>3 DEF NoOrphans, Exists
  <2>10. CasesInv'
    BY <2>1, <2>2, <2>6 DEF Persist, VersionInv, CasesInv, Exists
  <2>11. RequestsInv'
    <3>1. minted' = minted
      BY DEF Persist
    <3> QED
      BY <2>1, <2>3, <3>1 DEF VersionInv, RequestsInv, Busy
  <2>12. ASSUME NEW x \in Requests \ {w}, Working(x)
         PROVE  /\ req[x].case \in Cases /\ req[x].version \in Versions
                /\ ~ (req[x].case = c /\ req[x].version = v)
                /\ next'[req[x].case] = next[req[x].case]
    BY <2>1, <2>2, <2>6, <2>12, RequestParts DEF VersionInv, UniqueInv, Working, Busy, c, v
  <2>13. PendingInv'
    <3>1. ASSUME NEW x \in Requests \ {w}, req[x].pc \in {"run", "persist"}
          PROVE  /\ version'[req[x].case][req[x].version] = None
                 /\ req[x].new =>
                      /\ next'[req[x].case] = None
                      /\ req[x].case \notin deleted'
                 /\ ~ req[x].new /\ next'[req[x].case] # None =>
                      req[x].version < next'[req[x].case]
      BY <2>4, <2>12, <3>1 DEF Persist, VersionInv, PendingInv, Exists, Working, Busy
    <3>2. ASSUME NEW x \in Requests \ {w}, req[x].pc \in {"run", "persist"}, req[x].new,
                 NEW y \in Requests \ {x}, req'[y].pc \in Busy
          PROVE  req'[y].case # req[x].case
      BY <2>1, <2>3, <3>2 DEF VersionInv, PendingInv, Busy, c
    <3> QED
      BY <2>3, <3>1, <3>2 DEF PendingInv, Exists
  <2>14. MarkInv'
    <3>1. ASSUME NEW x \in Requests \ {w},
                 req[x].pc \in {"publish", "markVersion", "markAttempt"}
          PROVE  /\ version'[req[x].case][req[x].version] = version[req[x].case][req[x].version]
                 /\ attempt'[req[x].case][req[x].version] = attempt[req[x].case][req[x].version]
                 /\ next'[req[x].case] = next[req[x].case]
      BY <2>4, <2>5, <2>12, <3>1 DEF Working, Busy
    <3> QED
      BY <2>1, <2>3, <2>4, <2>5, <3>1 DEF VersionInv, MarkInv, Exists
  <2>15. UniqueInv'
    BY <2>1, <2>3 DEF VersionInv, UniqueInv, Working, Busy, c, v
  <2> QED
    BY <2>7, <2>8, <2>9, <2>10, <2>11, <2>13, <2>14, <2>15 DEF VersionInv
<1> QED
  BY <1>1, <1>2 DEF Persist

--------------------------------------------------------------------------------
(* A request past the recording of its version changes the rows of that version
   only: what is left to show of such a step is its own rows. *)
LEMMA OwnRowsStep ==
  ASSUME VersionInv, TypeOK', PublishedTogether',
         NEW w \in Requests, NEW c \in Cases, NEW v \in Versions,
         req[w].pc \in {"publish", "markVersion", "markAttempt"},
         c = req[w].case, v = req[w].version,
         req'[w].pc \in {"idle", "markVersion", "markAttempt"},
         req'[w].pc # "idle" => req'[w].case = c /\ req'[w].version = v,
         \A x \in Requests \ {w} : req'[x] = req[x],
         UNCHANGED <<next, minted, deleted>>,
         \A d \in Cases, u \in Versions : ~ (d = c /\ u = v) =>
           version'[d][u] = version[d][u] /\ attempt'[d][u] = attempt[d][u],
         (version'[c][v] = None) <=> (version[c][v] = None),
         (attempt'[c][v] = None) <=> (attempt[c][v] = None),
         req'[w].pc # "idle" /\ Exists(c) =>
           /\ version'[c][v] = IF req'[w].pc = "markAttempt" THEN "FAILED" ELSE "VALIDATING"
           /\ attempt'[c][v] = "VALIDATING"
  PROVE  VersionInv'
<1>1. NoOrphans'
  <2>1. ASSUME NEW d \in Cases, NEW u \in Versions
        PROVE  /\ (version'[d][u] = None) <=> (version[d][u] = None)
               /\ (attempt'[d][u] = None) <=> (attempt[d][u] = None)
    OBVIOUS
  <2> QED
    BY <2>1 DEF VersionInv, NoOrphans, Exists
<1>2. CasesInv' /\ RequestsInv'
  BY DEF VersionInv, CasesInv, RequestsInv, Exists, Busy
<1>3. ASSUME NEW x \in Requests \ {w}, Working(x)
      PROVE  /\ req[x].case \in Cases /\ req[x].version \in Versions
             /\ ~ (req[x].case = c /\ req[x].version = v)
  BY <1>3, RequestParts DEF VersionInv, UniqueInv, Working, Busy
<1>4. PendingInv'
  <2>1. \A x \in Requests : req'[x].pc \in {"run", "persist"} =>
          /\ x # w /\ req'[x] = req[x] /\ Working(x)
    BY DEF Working, Busy
  <2>2. \A y \in Requests : req'[y].pc \in Busy =>
          req[y].pc \in Busy /\ req'[y].case = req[y].case
    BY DEF Busy
  <2> QED
    BY <1>3, <2>1, <2>2 DEF VersionInv, PendingInv, Exists
<1>5. MarkInv'
  <2>1. ASSUME NEW x \in Requests \ {w},
               req[x].pc \in {"publish", "markVersion", "markAttempt"}
        PROVE  /\ version'[req[x].case][req[x].version] = version[req[x].case][req[x].version]
               /\ attempt'[req[x].case][req[x].version] = attempt[req[x].case][req[x].version]
    BY <1>3, <2>1 DEF Working, Busy
  <2> QED
    BY <2>1 DEF VersionInv, MarkInv, Exists
<1>6. UniqueInv'
  BY DEF VersionInv, UniqueInv, Working, Busy
<1> QED
  BY <1>1, <1>2, <1>4, <1>5, <1>6 DEF VersionInv

(* What a request finds in the rows of its version. *)
LEMMA OwnRows ==
  ASSUME VersionInv, NEW w \in Requests,
         req[w].pc \in {"publish", "markVersion", "markAttempt"}
  PROVE  /\ req[w].case \in Cases
         /\ req[w].version \in Versions
         /\ ~ Exists(req[w].case) =>
              /\ version[req[w].case][req[w].version] = None
              /\ attempt[req[w].case][req[w].version] = None
         /\ Exists(req[w].case) =>
              /\ version[req[w].case][req[w].version] =
                   IF req[w].pc = "markAttempt" THEN "FAILED" ELSE "VALIDATING"
              /\ attempt[req[w].case][req[w].version] = "VALIDATING"
         /\ <<req[w].case, req[w].version>> \notin payload
<1>1. req[w].case \in Cases /\ req[w].version \in Versions
  BY RequestParts DEF VersionInv, Busy
<1> QED
  BY <1>1, NoneIsNothing DEF VersionInv, NoOrphans, MarkInv, PublishedTogether, States

(* A publication finds the rows undecided, or the case gone. *)
LEMMA PublishStep ==
  ASSUME VersionInv, NEW w \in Requests, Publish(w)
  PROVE  VersionInv'
<1> DEFINE c == req[w].case
           v == req[w].version
<1>1. /\ req[w].pc = "publish" /\ c \in Cases /\ v \in Versions
      /\ <<c, v>> \notin payload
      /\ UNCHANGED <<next, minted, abandoned, deleted>>
  BY OwnRows DEF Publish, At
<1>2. CASE /\ Publishable(c, v)
           /\ payload' = payload \cup {<<c, v>>}
           /\ version' = [version EXCEPT ![c][v] = IF @ = None THEN @ ELSE "PUBLISHED"]
           /\ attempt' = [attempt EXCEPT ![c][v] = "PUBLISHED"]
           /\ Done(w)
  <2>1. version[c][v] = "VALIDATING" /\ attempt[c][v] = "VALIDATING"
    BY <1>1, <1>2, OwnRows, NoneIsNothing DEF Publishable, States
  <2>2. /\ "PUBLISHED" \in States \cup {None} /\ None # "PUBLISHED" /\ None # "VALIDATING"
        /\ (IF version[c][v] = None THEN version[c][v] ELSE "PUBLISHED") = "PUBLISHED"
    BY <2>1, NoneIsNothing DEF States
  <2>3. version' = [version EXCEPT ![c][v] = "PUBLISHED"]
    BY <1>2, <2>2
  <2>4. /\ version' \in [Cases -> [Versions -> States \cup {None}]]
        /\ \A d \in Cases, u \in Versions :
             version'[d][u] = IF d = c /\ u = v THEN "PUBLISHED" ELSE version[d][u]
    BY <1>1, <2>2, <2>3, SetEntry DEF VersionInv, TypeOK
  <2>5. /\ attempt' \in [Cases -> [Versions -> States \cup {None}]]
        /\ \A d \in Cases, u \in Versions :
             attempt'[d][u] = IF d = c /\ u = v THEN "PUBLISHED" ELSE attempt[d][u]
    BY <1>1, <1>2, <2>2, SetEntry DEF VersionInv, TypeOK
  <2>6. /\ req' \in [Requests -> InRequest] /\ req'[w].pc = "idle"
        /\ \A x \in Requests \ {w} : req'[x] = req[x]
    BY <1>2, Retires DEF VersionInv
  <2>7. TypeOK'
    BY <1>1, <1>2, <2>4, <2>5, <2>6 DEF VersionInv, TypeOK
  <2>8. PublishedTogether'
    <3>1. ASSUME NEW d \in Cases, NEW u \in Versions
          PROVE  (<<d, u>> \in payload') <=> (<<d, u>> \in payload) \/ (d = c /\ u = v)
      BY <1>2
    <3>2. ASSUME NEW d \in Cases, NEW u \in Versions
          PROVE  /\ (version'[d][u] = "PUBLISHED") <=> (<<d, u>> \in payload')
                 /\ (attempt'[d][u] = "PUBLISHED") <=> (<<d, u>> \in payload')
      <4>1. CASE d = c /\ u = v
        BY <2>4, <2>5, <3>1, <4>1
      <4>2. CASE ~ (d = c /\ u = v)
        BY <2>4, <2>5, <3>1, <4>2 DEF VersionInv, PublishedTogether
      <4> QED
        BY <4>1, <4>2
    <3> QED
      BY <3>2 DEF PublishedTogether
  <2> QED
    BY <1>1, <2>1, <2>2, <2>4, <2>5, <2>6, <2>7, <2>8, OwnRowsStep
<1>3. CASE RolledBack(w) /\ UNCHANGED <<version, attempt, payload>>
  <2>1. /\ req' \in [Requests -> InRequest] /\ req'[w].pc = "markVersion"
        /\ req'[w].case = c /\ req'[w].version = v
        /\ \A x \in Requests \ {w} : req'[x] = req[x]
    BY <1>1, <1>3, Advances DEF VersionInv, RolledBack, Busy
  <2>2. TypeOK' /\ PublishedTogether'
    BY <1>1, <1>3, <2>1 DEF VersionInv, TypeOK, PublishedTogether
  <2> QED
    BY <1>1, <1>3, <2>1, <2>2, OwnRows, OwnRowsStep
<1> QED
  BY <1>2, <1>3 DEF Publish, Committed

(* A failure is marked on a version that is undecided, or on nothing. *)
LEMMA MarkVersionStep ==
  ASSUME VersionInv, NEW w \in Requests, MarkVersion(w)
  PROVE  VersionInv'
<1> DEFINE c == req[w].case
           v == req[w].version
           s == IF version[c][v] = None THEN version[c][v] ELSE "FAILED"
<1>1. /\ req[w].pc = "markVersion" /\ c \in Cases /\ v \in Versions
      /\ <<c, v>> \notin payload
      /\ UNCHANGED <<next, attempt, payload, minted, deleted>>
  BY OwnRows DEF MarkVersion, At
<1>2. CASE /\ version' = [version EXCEPT ![c][v] = IF @ = None THEN @ ELSE "FAILED"]
           /\ Go(w, "markAttempt")
           /\ UNCHANGED abandoned
  <2>1. /\ s \in States \cup {None} /\ s # "PUBLISHED"
        /\ (s = None) <=> (version[c][v] = None)
        /\ Exists(c) => s = "FAILED"
    BY <1>1, OwnRows, NoneIsNothing DEF States
  <2>2. version' = [version EXCEPT ![c][v] = s]
    BY <1>2
  <2> HIDE DEF s
  <2>3. /\ version' \in [Cases -> [Versions -> States \cup {None}]]
        /\ \A d \in Cases, u \in Versions :
             version'[d][u] = IF d = c /\ u = v THEN s ELSE version[d][u]
    BY <1>1, <2>1, <2>2, SetEntry DEF VersionInv, TypeOK
  <2>4. /\ req' \in [Requests -> InRequest] /\ req'[w].pc = "markAttempt"
        /\ req'[w].case = c /\ req'[w].version = v
        /\ \A x \in Requests \ {w} : req'[x] = req[x]
    BY <1>1, <1>2, Advances DEF VersionInv, Busy
  <2>5. TypeOK'
    BY <1>1, <1>2, <2>3, <2>4 DEF VersionInv, TypeOK
  <2>6. PublishedTogether'
    <3>1. ASSUME NEW d \in Cases, NEW u \in Versions
          PROVE  (version'[d][u] = "PUBLISHED") <=> (<<d, u>> \in payload)
      <4>1. CASE d = c /\ u = v
        BY <1>1, <2>1, <2>3, <4>1
      <4>2. CASE ~ (d = c /\ u = v)
        BY <2>3, <4>2 DEF VersionInv, PublishedTogether
      <4> QED
        BY <4>1, <4>2
    <3> QED
      BY <1>1, <3>1 DEF VersionInv, PublishedTogether
  <2>7. /\ (version'[c][v] = None) <=> (version[c][v] = None)
        /\ \A d \in Cases, u \in Versions : ~ (d = c /\ u = v) =>
             version'[d][u] = version[d][u]
    BY <1>1, <2>1, <2>3
  <2>8. Exists(c) => version'[c][v] = "FAILED" /\ attempt'[c][v] = "VALIDATING"
    BY <1>1, <2>1, <2>3, OwnRows
  <2> QED
    BY <1>1, <2>4, <2>5, <2>6, <2>7, <2>8, OwnRowsStep
<1>3. CASE Abandon(w) /\ UNCHANGED version
  BY <1>1, <1>3, RetireStep DEF Abandon, Mine, Tables, VersionInv, TypeOK
<1> QED
  BY <1>2, <1>3 DEF MarkVersion

(* The attempt follows its version; none is inserted for a case that is gone. *)
LEMMA MarkAttemptStep ==
  ASSUME VersionInv, NEW w \in Requests, MarkAttempt(w)
  PROVE  VersionInv'
<1> DEFINE c == req[w].case
           v == req[w].version
<1>1. /\ req[w].pc = "markAttempt" /\ c \in Cases /\ v \in Versions
      /\ <<c, v>> \notin payload
      /\ UNCHANGED <<next, version, payload, minted, deleted>>
  BY OwnRows DEF MarkAttempt, At
<1>2. CASE /\ AttemptAccepted(c, v)
           /\ attempt' = [attempt EXCEPT ![c][v] = "FAILED"]
           /\ Done(w)
           /\ UNCHANGED abandoned
  <2>1. /\ "FAILED" \in States \cup {None} /\ None # "FAILED" /\ None # "VALIDATING"
        /\ attempt[c][v] = "VALIDATING"
    BY <1>1, <1>2, OwnRows, NoneIsNothing DEF AttemptAccepted, States
  <2>2. /\ attempt' \in [Cases -> [Versions -> States \cup {None}]]
        /\ \A d \in Cases, u \in Versions :
             attempt'[d][u] = IF d = c /\ u = v THEN "FAILED" ELSE attempt[d][u]
    BY <1>1, <1>2, <2>1, SetEntry DEF VersionInv, TypeOK
  <2>3. /\ req' \in [Requests -> InRequest] /\ req'[w].pc = "idle"
        /\ \A x \in Requests \ {w} : req'[x] = req[x]
    BY <1>2, Retires DEF VersionInv
  <2>4. TypeOK'
    BY <1>1, <1>2, <2>2, <2>3 DEF VersionInv, TypeOK
  <2>5. PublishedTogether'
    <3>1. ASSUME NEW d \in Cases, NEW u \in Versions
          PROVE  (attempt'[d][u] = "PUBLISHED") <=> (<<d, u>> \in payload)
      <4>1. CASE d = c /\ u = v
        BY <1>1, <2>2, <4>1
      <4>2. CASE ~ (d = c /\ u = v)
        BY <2>2, <4>2 DEF VersionInv, PublishedTogether
      <4> QED
        BY <4>1, <4>2
    <3> QED
      BY <1>1, <3>1 DEF VersionInv, PublishedTogether
  <2> QED
    BY <1>1, <2>4, <2>5, <2>1, <2>2, <2>3, OwnRowsStep
<1>3. CASE Abandon(w) /\ UNCHANGED attempt
  BY <1>1, <1>3, RetireStep DEF Abandon, Mine, Tables, VersionInv, TypeOK
<1> QED
  BY <1>2, <1>3 DEF MarkAttempt

--------------------------------------------------------------------------------
(* A deletion removes all rows of the case, and nobody can record it anew. *)
LEMMA DeleteCaseStep ==
  ASSUME VersionInv, NEW c \in Cases, DeleteCase(c)
  PROVE  VersionInv'
<1>1. /\ Exists(c) /\ c \in minted
      /\ next'[c] = None /\ \A d \in Cases \ {c} : next'[d] = next[d]
      /\ \A u \in Versions : version'[c][u] = None /\ attempt'[c][u] = None
      /\ \A d \in Cases \ {c} : version'[d] = version[d] /\ attempt'[d] = attempt[d]
      /\ deleted' = deleted \cup {c}
      /\ UNCHANGED <<minted, req, abandoned>>
  BY DEF DeleteCase, VersionInv, TypeOK, CasesInv
<1>2. \A x \in Requests : req[x].pc \in Busy =>
        req[x].case \in Cases /\ req[x].version \in Versions
  BY RequestParts DEF VersionInv
<1>3. TypeOK'
  BY <1>1 DEF DeleteCase, VersionInv, TypeOK
<1>4. PublishedTogether'
  <2>1. ASSUME NEW d \in Cases, NEW u \in Versions
        PROVE  (<<d, u>> \in payload') <=> (<<d, u>> \in payload /\ d # c)
    BY DEF DeleteCase
  <2>2. None # "PUBLISHED"
    BY NoneIsNothing DEF States
  <2>3. ASSUME NEW d \in Cases, NEW u \in Versions
        PROVE  /\ (version'[d][u] = "PUBLISHED") <=> (<<d, u>> \in payload')
               /\ (attempt'[d][u] = "PUBLISHED") <=> (<<d, u>> \in payload')
    <3>1. CASE d = c
      BY <1>1, <2>1, <2>2, <3>1
    <3>2. CASE d # c
      BY <1>1, <2>1, <3>2 DEF VersionInv, PublishedTogether
    <3> QED
      BY <3>1, <3>2
  <2> QED
    BY <2>3 DEF PublishedTogether
<1>5. NoOrphans' /\ CasesInv'
  BY <1>1 DEF VersionInv, NoOrphans, CasesInv, Exists
<1>6. RequestsInv' /\ UniqueInv'
  BY <1>1 DEF VersionInv, RequestsInv, UniqueInv, Working
<1>7. PendingInv'
  BY <1>1, <1>2 DEF VersionInv, PendingInv, Exists, Busy
<1>8. MarkInv'
  BY <1>1, <1>2 DEF VersionInv, MarkInv, Exists, Busy
<1> QED
  BY <1>3, <1>4, <1>5, <1>6, <1>7, <1>8 DEF VersionInv

(* A crash changes no table. *)
LEMMA CrashStep ==
  ASSUME VersionInv, Crash
  PROVE  VersionInv'
<1>1. /\ \A w \in Requests : req'[w].pc = "idle"
      /\ req' \in [Requests -> InRequest]
      /\ UNCHANGED <<Tables, minted, deleted>>
  BY DEF Crash, Idle, InRequest
<1>2. abandoned' \subseteq Cases \X Versions
  BY RequestParts DEF Crash, At, Mine, VersionInv, TypeOK
<1>3. TypeOK'
  BY <1>1, <1>2 DEF VersionInv, TypeOK, Tables
<1>4. PublishedTogether' /\ NoOrphans' /\ CasesInv'
  BY <1>1 DEF VersionInv, PublishedTogether, NoOrphans, CasesInv, Exists, Tables
<1>5. RequestsInv' /\ PendingInv' /\ MarkInv' /\ UniqueInv'
  BY <1>1 DEF RequestsInv, PendingInv, MarkInv, UniqueInv, Working, Busy
<1> QED
  BY <1>3, <1>4, <1>5 DEF VersionInv

(* VersionInv is inductive. *)
LEMMA VersionStep == VersionInv /\ [Next]_vars => VersionInv'
<1> SUFFICES ASSUME VersionInv, [Next]_vars PROVE VersionInv'
  OBVIOUS
<1>1. CASE \E w \in Requests, c \in Cases : StartCase(w, c) \/ CheckCase(w, c)
  BY <1>1, StartCaseStep, CheckCaseStep
<1>2. CASE \E w \in Requests : Serve(w)
  BY <1>2, AllocateStep, RunStep, PersistStep, PublishStep, MarkVersionStep,
     MarkAttemptStep DEF Serve
<1>3. CASE \E c \in Cases : DeleteCase(c)
  BY <1>3, DeleteCaseStep
<1>4. CASE Crash
  BY <1>4, CrashStep
<1>5. CASE UNCHANGED vars
  BY <1>5 DEF vars, VersionInv, TypeOK, PublishedTogether, NoOrphans, CasesInv,
       RequestsInv, PendingInv, MarkInv, UniqueInv, Working, Exists
<1> QED
  BY <1>3, <1>4, <1>5, <1>1, <1>2 DEF Next

(* In every reachable state, whatever rolls back, is deleted or crashes, the
   tables agree with what the requests at work on them believe. *)
THEOREM VersionInvariant == Spec => []VersionInv
<1>1. Init => VersionInv
  <2> SUFFICES ASSUME Init PROVE VersionInv
    OBVIOUS
  <2>1. TypeOK
    BY DEF Init, TypeOK, InRequest
  <2>2. PublishedTogether /\ NoOrphans /\ CasesInv
    BY NoneIsNothing DEF Init, PublishedTogether, NoOrphans, CasesInv, Exists, States
  <2>3. RequestsInv /\ PendingInv /\ MarkInv /\ UniqueInv
    BY DEF Init, Idle, Busy, RequestsInv, PendingInv, MarkInv, UniqueInv, Working
  <2> QED
    BY <2>1, <2>2, <2>3 DEF VersionInv
<1> QED
  BY <1>1, VersionStep, PTL DEF Spec

(* Every variable keeps to its type, for any number of cases, versions and
   requests. *)
THEOREM TypeCorrect == Spec => []TypeOK
<1>1. VersionInv => TypeOK
  BY DEF VersionInv
<1> QED
  BY <1>1, VersionInvariant, PTL

(* A version is PUBLISHED exactly when its payload is stored and its attempt is
   PUBLISHED, and no row outlives its case: publish_transactionally, the two-step
   marking of a failure, which inserts a row that it does not find, the operator's
   deletion and a crash never leave one without the others. *)
THEOREM PublicationIsAtomic == Spec => []TablesAgree
<1>1. VersionInv => TablesAgree
  BY DEF VersionInv, TablesAgree
<1> QED
  BY <1>1, VersionInvariant, PTL

(* Two requests never work on the same version of a case: allocate_version gives
   a number once, and never one that a row has. *)
THEOREM VersionsUnique == Spec => []VersionsAreUnique
<1>1. VersionInv => VersionsAreUnique
  <2> SUFFICES ASSUME VersionInv, NEW w \in Requests, req[w].pc \in {"run", "persist"}
               PROVE  /\ version[req[w].case][req[w].version] = None
                      /\ \A x \in Requests \ {w} :
                           req[x].pc \notin {"idle", "allocate"} => Mine(x) # Mine(w)
    BY DEF VersionsAreUnique
  <2>1. version[req[w].case][req[w].version] = None
    BY DEF VersionInv, PendingInv
  <2>2. ASSUME NEW x \in Requests \ {w}, req[x].pc \notin {"idle", "allocate"}
        PROVE  Mine(x) # Mine(w)
    <3>1. Working(x) /\ Working(w)
      BY <2>2, RequestParts DEF VersionInv, Working, Busy
    <3> QED
      BY <3>1 DEF VersionInv, UniqueInv, Mine
  <2> QED
    BY <2>1, <2>2
<1> QED
  BY <1>1, VersionInvariant, PTL

--------------------------------------------------------------------------------
(* All that a step can do to the state of versions: record one, decide one that
   is undecided, or delete a case. *)
LEMMA VersionChanges ==
  ASSUME VersionInv, [Next]_vars
  PROVE  \/ UNCHANGED <<version, deleted>>
         \/ \E c \in Cases, v \in Versions, s \in States :
              /\ version' = [version EXCEPT ![c][v] = s]
              /\ UNCHANGED deleted
              /\ c \notin deleted
              /\ \/ version[c][v] = None /\ s \in {"VALIDATING", "FAILED"}
                 \/ version[c][v] = "VALIDATING" /\ s \in {"PUBLISHED", "FAILED"}
         \/ \E c \in Cases : DeleteCase(c)
<1> DEFINE Change == \E c \in Cases, v \in Versions, s \in States :
              /\ version' = [version EXCEPT ![c][v] = s]
              /\ UNCHANGED deleted
              /\ c \notin deleted
              /\ \/ version[c][v] = None /\ s \in {"VALIDATING", "FAILED"}
                 \/ version[c][v] = "VALIDATING" /\ s \in {"PUBLISHED", "FAILED"}
<1>1. ASSUME NEW w \in Requests, Persist(w), ~ UNCHANGED <<version, deleted>>
      PROVE  Change
  <2> DEFINE c == req[w].case
             v == req[w].version
             s == StoredState(req[w].state)
  <2>1. /\ version' = [version EXCEPT ![c][v] = s]
        /\ req[w].pc = "persist" /\ ~ Conflict(w) /\ UNCHANGED deleted
    BY <1>1 DEF Persist, At
  <2>2. c \in Cases /\ v \in Versions /\ s \in {"VALIDATING", "FAILED"}
    BY <2>1, RequestParts DEF VersionInv, RequestsInv, StoredState, Busy
  <2>3. version[c][v] = None /\ c \notin deleted
    <3>1. req[w].new = FALSE => Exists(c)
      BY <2>1 DEF Conflict, Exists
    <3>2. req[w].new \in BOOLEAN
      BY <2>1, RequestParts DEF VersionInv, Busy
    <3> QED
      BY <2>1, <2>2, <3>1, <3>2 DEF VersionInv, PendingInv, CasesInv
  <2>4. s \in States
    BY <2>2 DEF States
  <2> HIDE DEF c, v, s
  <2> QED
    BY <2>3, <2>4, <2>1, <2>2
<1>2. ASSUME NEW w \in Requests, Publish(w) \/ MarkVersion(w),
             ~ UNCHANGED <<version, deleted>>
      PROVE  Change
  <2> DEFINE c == req[w].case
             v == req[w].version
  <2>1. PICK s \in {"PUBLISHED", "FAILED"} :
          /\ req[w].pc \in {"publish", "markVersion"}
          /\ version' = [version EXCEPT ![c][v] = IF @ = None THEN @ ELSE s]
          /\ UNCHANGED deleted
    BY <1>2 DEF Publish, MarkVersion, At, RolledBack, Abandon
  <2>2. c \in Cases /\ v \in Versions /\ s \in States
    BY <2>1, OwnRows DEF States
  <2>3. CASE Exists(c)
    <3>1. /\ version[c][v] = "VALIDATING" /\ "VALIDATING" # None
          /\ c \notin deleted
      BY <2>1, <2>2, <2>3, OwnRows, NoneIsNothing DEF VersionInv, CasesInv, States
    <3>2. version' = [version EXCEPT ![c][v] = s]
      BY <2>1, <3>1
    <3> QED
      BY <2>1, <2>2, <3>1, <3>2
  <2>4. CASE ~ Exists(c)
    <3>1. version[c][v] = None
      BY <2>1, <2>4, OwnRows
    <3>2. version' = version
      BY <2>1, <3>1 DEF VersionInv, TypeOK
    <3> QED
      BY <1>2, <2>1, <3>2
  <2> QED
    BY <2>3, <2>4
<1>3. ASSUME NEW w \in Requests, NEW c \in Cases, StartCase(w, c) \/ CheckCase(w, c)
      PROVE  UNCHANGED <<version, deleted>>
  BY <1>3 DEF StartCase, CheckCase, Tables
<1>4. ASSUME NEW w \in Requests, Allocate(w) \/ Run(w) \/ MarkAttempt(w)
      PROVE  UNCHANGED <<version, deleted>>
  BY <1>4 DEF Allocate, Run, MarkAttempt, Tables
<1>5. ASSUME Crash \/ UNCHANGED vars PROVE UNCHANGED <<version, deleted>>
  BY <1>5 DEF Crash, vars, Tables
<1> QED
  BY <1>3, <1>4, <1>5, <1>1, <1>2 DEF Next, Serve

(* A version that was decided stays as it is for as long as its case exists:
   neither a late publication nor a late failure changes it. *)
THEOREM DecisionsAreFinal == Spec => DecisionsStand
<1> DEFINE Stands == \A c \in Cases, v \in Versions :
       version[c][v] \in {"PUBLISHED", "FAILED"} /\ next'[c] # None =>
         version'[c][v] = version[c][v]
<1>1. VersionInv /\ [Next]_vars => Stands
  <2> SUFFICES ASSUME VersionInv, [Next]_vars PROVE Stands
    OBVIOUS
  <2>1. ASSUME NEW c \in Cases, NEW v \in Versions, NEW s \in States,
               version' = [version EXCEPT ![c][v] = s],
               version[c][v] \in {None, "VALIDATING"}
        PROVE  Stands
    <3>1. \A d \in Cases, u \in Versions :
            version'[d][u] = IF d = c /\ u = v THEN s ELSE version[d][u]
      BY <2>1, SetEntry DEF VersionInv, TypeOK
    <3> QED
      BY <2>1, <3>1, NoneIsNothing DEF States
  <2>2. ASSUME NEW c \in Cases, DeleteCase(c) PROVE Stands
    BY <2>2 DEF DeleteCase, VersionInv, TypeOK
  <2> QED
    BY <2>1, <2>2, VersionChanges
<1> QED
  BY <1>1, VersionInvariant, PTL DEF Spec, DecisionsStand

--------------------------------------------------------------------------------
(* The tables implement the catalog. *)

ShownNow == [c \in Cases |-> [v \in Versions |-> Life(version[c][v])]]

(* What each state of a version is shown as. *)
LEMMA Lives ==
  /\ Life(None) = "none"
  /\ Life("VALIDATING") = "open"
  /\ Life("FAILED") = "failed"
  /\ Life("PUBLISHED") = "published"
<1>1. None # "VALIDATING" /\ None # "FAILED" /\ None # "PUBLISHED"
  BY NoneIsNothing DEF States
<1> QED
  BY <1>1 DEF Life

(* A row that is recorded or decided changes what is shown of that version. *)
LEMMA ShownChange ==
  ASSUME VersionInv, NEW c \in Cases, NEW v \in Versions, NEW s \in States,
         version' = [version EXCEPT ![c][v] = s]
  PROVE  ShownNow' = [ShownNow EXCEPT ![c][v] = Life(s)]
<1>1. \A d \in Cases, u \in Versions :
        version'[d][u] = IF d = c /\ u = v THEN s ELSE version[d][u]
  BY SetEntry DEF VersionInv, TypeOK
<1>2. ShownNow' = [d \in Cases |-> [u \in Versions |-> Life(version'[d][u])]]
  BY DEF ShownNow, Life
<1>3. [ShownNow EXCEPT ![c][v] = Life(s)] =
        [d \in Cases |-> [u \in Versions |->
          IF d = c /\ u = v THEN Life(s) ELSE Life(version[d][u])]]
  BY DEF ShownNow
<1>4. \A d \in Cases, u \in Versions :
        Life(version'[d][u]) = IF d = c /\ u = v THEN Life(s) ELSE Life(version[d][u])
  BY <1>1
<1> QED
  BY <1>2, <1>3, <1>4

(* Every step of the tables is a step of the catalog, or changes nothing a reader
   is told: a version is opened or failed once, decided once, and disappears
   with its case. *)
THEOREM CatalogImplemented == Spec => ImplementsCatalog
<1>1. Init => Catalog!Init
  BY Lives DEF Init, Catalog!Init
<1>2. VersionInv /\ [Next]_vars => [Catalog!Next]_(Catalog!vars)
  <2> SUFFICES ASSUME VersionInv, [Next]_vars PROVE [Catalog!Next]_(Catalog!vars)
    OBVIOUS
  <2>1. CASE UNCHANGED <<version, deleted>>
    BY <2>1 DEF Catalog!vars
  <2>2. ASSUME NEW c \in Cases, NEW v \in Versions, NEW s \in States,
               version' = [version EXCEPT ![c][v] = s],
               UNCHANGED deleted, c \notin deleted,
               \/ version[c][v] = None /\ s \in {"VALIDATING", "FAILED"}
               \/ version[c][v] = "VALIDATING" /\ s \in {"PUBLISHED", "FAILED"}
        PROVE  Catalog!Next
    <3>1. ShownNow[c][v] = Life(version[c][v])
      BY DEF ShownNow
    <3>2. ShownNow' = [ShownNow EXCEPT ![c][v] = Life(s)]
      BY <2>2, ShownChange
    <3>3. CASE version[c][v] = None /\ s \in {"VALIDATING", "FAILED"}
      <4>1. \E life \in {"open", "failed"} : ShownNow' = [ShownNow EXCEPT ![c][v] = life]
        BY <3>2, <3>3, Lives
      <4>2. ShownNow[c][v] = "none"
        BY <3>1, <3>3, Lives
      <4> QED
        BY <2>2, <4>1, <4>2 DEF ShownNow, Catalog!Next, Catalog!Record
    <3>4. CASE version[c][v] = "VALIDATING" /\ s \in {"PUBLISHED", "FAILED"}
      <4>1. \E life \in {"failed", "published"} :
              ShownNow' = [ShownNow EXCEPT ![c][v] = life]
        BY <3>2, <3>4, Lives
      <4>2. ShownNow[c][v] = "open"
        BY <3>1, <3>4, Lives
      <4> QED
        BY <2>2, <4>1, <4>2 DEF ShownNow, Catalog!Next, Catalog!Decide
    <3> QED
      BY <2>2, <3>3, <3>4
  <2>3. ASSUME NEW c \in Cases, DeleteCase(c) PROVE Catalog!Next
    <3>1. version' = [version EXCEPT ![c] = [u \in Versions |-> None]]
      BY <2>3 DEF DeleteCase
    <3>2. \A d \in Cases, u \in Versions :
            Life(version'[d][u]) = IF d = c THEN "none" ELSE Life(version[d][u])
      <4>1. \A d \in Cases, u \in Versions :
              version'[d][u] = IF d = c THEN None ELSE version[d][u]
        BY <3>1 DEF VersionInv, TypeOK
      <4> QED
        BY <4>1, Lives
    <3>3. ShownNow' = [d \in Cases |-> [u \in Versions |-> Life(version'[d][u])]]
      BY DEF ShownNow, Life
    <3>4. [ShownNow EXCEPT ![c] = [u \in Versions |-> "none"]] =
            [d \in Cases |-> [u \in Versions |-> IF d = c THEN "none" ELSE Life(version[d][u])]]
      BY DEF ShownNow
    <3>5. ShownNow' = [ShownNow EXCEPT ![c] = [u \in Versions |-> "none"]]
      BY <3>2, <3>3, <3>4
    <3> QED
      BY <2>3, <3>5 DEF DeleteCase, ShownNow, Catalog!Next, Catalog!Delete
  <2> QED
    BY <2>1, <2>2, <2>3, VersionChanges
<1> QED
  BY <1>1, <1>2, VersionInvariant, PTL DEF Spec, ImplementsCatalog, Catalog!Spec

--------------------------------------------------------------------------------
(* Undecided versions *)

Deciding == {"publish", "markVersion", "markAttempt"}

(* A step of a request touches its own rows only, and stays with them, gives them
   up or leaves them decided. *)
LEMMA AttendedByItsOwn ==
  ASSUME VersionInv, UndecidedIsAttended,
         NEW w \in Requests, NEW c \in Cases, NEW v \in Versions,
         req[w].pc \in Deciding => Mine(w) = <<c, v>>,
         \A x \in Requests \ {w} : req'[x] = req[x],
         abandoned \subseteq abandoned',
         \A d \in Cases, u \in Versions : ~ (d = c /\ u = v) =>
           version'[d][u] = version[d][u] /\ attempt'[d][u] = attempt[d][u],
         "VALIDATING" \in {version'[c][v], attempt'[c][v]} =>
           \/ <<c, v>> \in abandoned'
           \/ req'[w].pc \in Deciding /\ req'[w].case = c /\ req'[w].version = v
  PROVE  UndecidedIsAttended'
<1> SUFFICES ASSUME NEW d \in Cases, NEW u \in Versions,
                    "VALIDATING" \in {version'[d][u], attempt'[d][u]}
             PROVE  \/ <<d, u>> \in abandoned'
                    \/ \E x \in Requests :
                         /\ req'[x].pc \in Deciding
                         /\ req'[x].case = d /\ req'[x].version = u
  BY DEF UndecidedIsAttended, Deciding, Mine
<1>1. CASE d = c /\ u = v
  BY <1>1
<1>2. CASE ~ (d = c /\ u = v) /\ <<d, u>> \notin abandoned
  <2>1. "VALIDATING" \in {version[d][u], attempt[d][u]}
    BY <1>2
  <2>2. PICK x \in Requests : req[x].pc \in Deciding /\ Mine(x) = <<d, u>>
    BY <1>2, <2>1 DEF UndecidedIsAttended, Deciding
  <2>3. x # w
    BY <1>2, <2>2
  <2> QED
    BY <2>2, <2>3 DEF Mine
<1> QED
  BY <1>1, <1>2

LEMMA AttendedStep ==
  ASSUME VersionInv, UndecidedIsAttended, [Next]_vars
  PROVE  UndecidedIsAttended'
<1>1. CASE UNCHANGED vars
  BY <1>1 DEF vars, Tables, UndecidedIsAttended, Mine
<1>2. ASSUME NEW w \in Requests, req[w].pc \notin Deciding,
             UNCHANGED <<version, attempt, abandoned>>,
             \A x \in Requests \ {w} : req'[x] = req[x]
      PROVE  UndecidedIsAttended'
  BY <1>2 DEF UndecidedIsAttended, Deciding, Mine
<1>3. ASSUME NEW w \in Requests, NEW c \in Cases, StartCase(w, c) \/ CheckCase(w, c)
      PROVE  UndecidedIsAttended'
  <2>1. /\ req[w].pc \notin Deciding /\ UNCHANGED <<version, attempt, abandoned>>
        /\ \A x \in Requests \ {w} : req'[x] = req[x]
    BY <1>3 DEF StartCase, CheckCase, At, Tables, Deciding, VersionInv, TypeOK
  <2> QED
    BY <1>2, <2>1
<1>4. ASSUME NEW w \in Requests, Allocate(w) \/ Run(w) PROVE UndecidedIsAttended'
  <2>1. /\ req[w].pc \notin Deciding /\ UNCHANGED <<version, attempt, abandoned>>
        /\ \A x \in Requests \ {w} : req'[x] = req[x]
    BY <1>4 DEF Allocate, Run, At, Done, Tables, Deciding, VersionInv, TypeOK
  <2> QED
    BY <1>2, <2>1
<1>5. ASSUME NEW w \in Requests, Persist(w) PROVE UndecidedIsAttended'
  <2>1. PICK c, v, s : c = req[w].case /\ v = req[w].version /\ s = StoredState(req[w].state)
    OBVIOUS
  <2>2. /\ c \in Cases /\ v \in Versions /\ req[w].pc = "persist" /\ UNCHANGED abandoned
        /\ Mine(w) = <<c, v>>
        /\ req[w].state \in {"PUBLISHED", "FAILED"} /\ s \in States \cup {None}
    <3>1. c \in Cases /\ v \in Versions /\ req[w].pc = "persist" /\ UNCHANGED abandoned
      BY <1>5, <2>1, RequestParts DEF Persist, At, VersionInv, Busy
    <3>2. req[w].state \in {"PUBLISHED", "FAILED"}
      BY <3>1, RequestParts DEF VersionInv, RequestsInv, Busy
    <3> QED
      BY <2>1, <3>1, <3>2 DEF StoredState, States, Mine
  <2>3. CASE Done(w) /\ UNCHANGED <<version, attempt>>
    <3>1. \A x \in Requests \ {w} : req'[x] = req[x]
      BY <2>3, Retires DEF VersionInv
    <3> QED
      BY <1>2, <2>2, <2>3, <3>1 DEF Deciding
  <2>4. CASE /\ version' = [version EXCEPT ![c][v] = s]
             /\ attempt' = [attempt EXCEPT ![c][v] = s]
             /\ IF req[w].state = "PUBLISHED"
                  THEN \E pc \in {"publish", "markVersion"} : Go(w, pc)
                  ELSE Done(w)
    <3>1. /\ \A d \in Cases, u \in Versions :
               version'[d][u] = IF d = c /\ u = v THEN s ELSE version[d][u]
          /\ \A d \in Cases, u \in Versions :
               attempt'[d][u] = IF d = c /\ u = v THEN s ELSE attempt[d][u]
      BY <2>2, <2>4, SetEntry DEF VersionInv, TypeOK
    <3>2. CASE req[w].state = "PUBLISHED"
      <4>1. PICK pc \in {"publish", "markVersion"} : Go(w, pc)
        BY <2>4, <3>2
      <4>2. /\ req'[w].pc = pc /\ req'[w].case = c /\ req'[w].version = v
            /\ \A x \in Requests \ {w} : req'[x] = req[x]
        BY <2>1, <2>2, <4>1, Advances DEF VersionInv, Busy
      <4>3. req'[w].pc \in Deciding
        BY <4>1, <4>2 DEF Deciding
      <4> QED
        BY <2>2, <3>1, <4>2, <4>3, AttendedByItsOwn
    <3>3. CASE req[w].state = "FAILED"
      <4>1. s = "FAILED"
        BY <2>1, <3>3 DEF StoredState
      <4>2. \A x \in Requests \ {w} : req'[x] = req[x]
        BY <2>4, <3>3, Retires DEF VersionInv
      <4> QED
        BY <2>2, <3>1, <4>1, <4>2, AttendedByItsOwn
    <3> QED
      BY <2>2, <3>2, <3>3
  <2> QED
    BY <1>5, <2>1, <2>3, <2>4 DEF Persist
<1>6. ASSUME NEW w \in Requests, Publish(w) \/ MarkVersion(w) \/ MarkAttempt(w)
      PROVE  UndecidedIsAttended'
  <2>1. PICK c, v : c = req[w].case /\ v = req[w].version
    OBVIOUS
  <2>2. /\ req[w].pc \in Deciding /\ req[w].pc \in Busy /\ Mine(w) = <<c, v>>
        /\ c \in Cases /\ v \in Versions
    BY <1>6, <2>1, RequestParts
       DEF Publish, MarkVersion, MarkAttempt, At, VersionInv, Deciding, Busy, Mine
  <2>3. /\ version[c][v] \in States \cup {None} /\ attempt[c][v] \in States \cup {None}
        /\ None \notin States
    BY <2>2, NoneIsNothing DEF VersionInv, TypeOK
  <2>4. ASSUME Abandon(w), UNCHANGED <<version, attempt>> PROVE UndecidedIsAttended'
    <3>1. \A x \in Requests \ {w} : req'[x] = req[x]
      BY <2>4, Retires DEF Abandon, VersionInv
    <3> QED
      BY <2>2, <2>4, <3>1, AttendedByItsOwn DEF Abandon
  <2>5. CASE Publish(w)
    <3>1. CASE RolledBack(w) /\ UNCHANGED <<version, attempt>>
      <4>1. /\ req'[w].pc = "markVersion" /\ req'[w].case = c /\ req'[w].version = v
            /\ \A x \in Requests \ {w} : req'[x] = req[x]
        BY <2>1, <2>2, <3>1, Advances DEF RolledBack, VersionInv, Busy
      <4>2. abandoned' = abandoned
        BY <2>5 DEF Publish
      <4> QED
        BY <2>2, <3>1, <4>1, <4>2, AttendedByItsOwn DEF Deciding
    <3>2. CASE ~ (RolledBack(w) /\ UNCHANGED <<version, attempt>>)
      <4>1. /\ version' = [version EXCEPT ![c][v] = IF @ = None THEN @ ELSE "PUBLISHED"]
            /\ attempt' = [attempt EXCEPT ![c][v] = "PUBLISHED"]
            /\ Done(w) /\ UNCHANGED abandoned
        BY <2>1, <2>5, <3>2 DEF Publish, Committed
      <4>2. PICK s \in {"PUBLISHED", None} :
              s = IF version[c][v] = None THEN version[c][v] ELSE "PUBLISHED"
        OBVIOUS
      <4>3. /\ \A d \in Cases, u \in Versions :
                 version'[d][u] = IF d = c /\ u = v THEN s ELSE version[d][u]
            /\ \A d \in Cases, u \in Versions :
                 attempt'[d][u] = IF d = c /\ u = v THEN "PUBLISHED" ELSE attempt[d][u]
        <5>1. version' = [version EXCEPT ![c][v] = s]
          BY <4>1, <4>2
        <5>2. s \in States \cup {None} /\ "PUBLISHED" \in States \cup {None}
          BY DEF States
        <5> QED
          BY <2>2, <4>1, <5>1, <5>2, SetEntry DEF VersionInv, TypeOK
      <4>4. \A x \in Requests \ {w} : req'[x] = req[x]
        BY <4>1, Retires DEF VersionInv
      <4>5. s # "VALIDATING"
        BY <2>3, <4>2 DEF States
      <4> QED
        BY <2>2, <4>1, <4>3, <4>4, <4>5, AttendedByItsOwn
    <3> QED
      BY <3>1, <3>2
  <2>6. CASE MarkVersion(w)
    <3>1. CASE Go(w, "markAttempt") /\ UNCHANGED abandoned
               /\ version' = [version EXCEPT ![c][v] = IF @ = None THEN @ ELSE "FAILED"]
      <4>1. /\ req'[w].pc = "markAttempt" /\ req'[w].case = c /\ req'[w].version = v
            /\ \A x \in Requests \ {w} : req'[x] = req[x]
        BY <2>1, <2>2, <3>1, Advances DEF VersionInv, Busy
      <4>2. PICK s : s = IF version[c][v] = None THEN version[c][v] ELSE "FAILED"
        OBVIOUS
      <4>3. \A d \in Cases, u \in Versions :
              version'[d][u] = IF d = c /\ u = v THEN s ELSE version[d][u]
        <5>1. version' = [version EXCEPT ![c][v] = s] /\ s \in States \cup {None}
          BY <3>1, <4>2 DEF States
        <5> QED
          BY <2>2, <5>1, SetEntry DEF VersionInv, TypeOK
      <4>4. attempt' = attempt
        BY <2>6 DEF MarkVersion
      <4> QED
        BY <2>2, <3>1, <4>1, <4>3, <4>4, AttendedByItsOwn DEF Deciding
    <3>2. CASE Abandon(w) /\ UNCHANGED version
      BY <2>4, <2>6, <3>2 DEF MarkVersion
    <3> QED
      BY <2>1, <2>6, <3>1, <3>2 DEF MarkVersion
  <2>7. CASE MarkAttempt(w)
    <3>1. CASE Done(w) /\ attempt' = [attempt EXCEPT ![c][v] = "FAILED"] /\ UNCHANGED abandoned
      <4>1. \A x \in Requests \ {w} : req'[x] = req[x]
        BY <3>1, Retires DEF VersionInv
      <4>2. \A d \in Cases, u \in Versions :
              attempt'[d][u] = IF d = c /\ u = v THEN "FAILED" ELSE attempt[d][u]
        <5>1. "FAILED" \in States \cup {None}
          BY DEF States
        <5> QED
          BY <2>2, <3>1, <5>1, SetEntry DEF VersionInv, TypeOK
      <4>3. version' = version /\ version[c][v] # "VALIDATING"
        <5>1. req[w].pc = "markAttempt" /\ version' = version
          BY <2>7 DEF MarkAttempt, At
        <5> QED
          BY <2>1, <2>3, <5>1, OwnRows DEF States
      <4> QED
        BY <2>2, <3>1, <4>1, <4>2, <4>3, AttendedByItsOwn
    <3>2. CASE Abandon(w) /\ UNCHANGED attempt
      BY <2>4, <2>7, <3>2 DEF MarkAttempt
    <3> QED
      BY <2>1, <2>7, <3>1, <3>2 DEF MarkAttempt
  <2> QED
    BY <1>6, <2>5, <2>6, <2>7
<1>7. ASSUME NEW c \in Cases, DeleteCase(c) PROVE UndecidedIsAttended'
  <2>1. /\ version' = [version EXCEPT ![c] = [u \in Versions |-> None]]
        /\ attempt' = [attempt EXCEPT ![c] = [u \in Versions |-> None]]
        /\ UNCHANGED <<req, abandoned>>
    BY <1>7 DEF DeleteCase
  <2>2. \A d \in Cases, u \in Versions :
          /\ version'[d][u] = IF d = c THEN None ELSE version[d][u]
          /\ attempt'[d][u] = IF d = c THEN None ELSE attempt[d][u]
    BY <2>1 DEF VersionInv, TypeOK
  <2>3. None # "VALIDATING"
    BY NoneIsNothing DEF States
  <2> QED
    BY <2>1, <2>2, <2>3 DEF UndecidedIsAttended, Mine
<1>8. CASE Crash
  <2>1. /\ UNCHANGED <<version, attempt>>
        /\ abandoned' = abandoned \cup {Mine(w) : w \in {x \in Requests : ~ At(x, "idle")}}
    BY <1>8 DEF Crash, Tables
  <2>2. ASSUME NEW d \in Cases, NEW u \in Versions,
               "VALIDATING" \in {version[d][u], attempt[d][u]}, <<d, u>> \notin abandoned
        PROVE  <<d, u>> \in abandoned'
    <3>1. PICK x \in Requests : req[x].pc \in Deciding /\ Mine(x) = <<d, u>>
      BY <2>2 DEF UndecidedIsAttended, Deciding
    <3>2. ~ At(x, "idle")
      BY <3>1 DEF At, Deciding
    <3> QED
      BY <2>1, <3>1, <3>2
  <2> QED
    BY <2>1, <2>2 DEF UndecidedIsAttended
<1> QED
  BY <1>1, <1>3, <1>4, <1>5, <1>6, <1>7, <1>8 DEF Next, Serve

(* A version is left undecided by a crash or a locked database only: otherwise the
   request that recorded it is still there to decide it. *)
THEOREM UndecidedAreAttended == Spec => []UndecidedIsAttended
<1>1. Init => UndecidedIsAttended
  BY NoneIsNothing DEF Init, UndecidedIsAttended, States
<1>2. VersionInv /\ UndecidedIsAttended /\ [Next]_vars => UndecidedIsAttended'
  BY AttendedStep
<1> QED
  BY <1>1, <1>2, VersionInvariant, PTL DEF Spec

================================================================================
