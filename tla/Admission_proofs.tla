---------------------------- MODULE Admission_proofs ----------------------------
(***************************************************************************)
(* Proofs about Admission, for any sessions, any finite set of threads and *)
(* any ceilings.                                                           *)
(*                                                                         *)
(* The counters in memory and the row of a session disagree most of the    *)
(* time, and requests carry copies of rows.  What keeps them together is   *)
(* that all copies agree on the end of the session's window, and that a    *)
(* session leaves the memory only a whole TTL after it: inside the window  *)
(* the memory knows every admission, and once a session may have been      *)
(* forgotten it can be admitted no more.  WindowInv says this.             *)
(***************************************************************************)
EXTENDS Admission, FiniteSetTheorems, SequenceTheorems, TLAPS

States == [ends : Ends, count : 0 .. MaxPerSession, active : 0 .. SessionLimit]

(* The session has a row, and its window has not ended. *)
Open(s) == rows[s] # None /\ now < rows[s].ends

Serving == {"ensure", "admit", "run", "sync", "write"}

(* The queue holds each session in memory once. *)
Queue(q, known) ==
  /\ q \in Seq(Sessions)
  /\ \A i \in 1 .. Len(q) : q[i] \in known
  /\ \A s \in known : \E i \in 1 .. Len(q) : q[i] = s
  /\ \A i, j \in 1 .. Len(q) : q[i] = q[j] => i = j

(* What the memory knows of a session agrees with its row as long as it matters. *)
SessionInv(s) ==
  /\ granted[s] > 0 => rows[s] # None
  /\ s \in Known /\ rows[s] # None => memory[s].ends = rows[s].ends
  /\ Open(s) /\ s \in Known => granted[s] <= memory[s].count /\ rows[s].count <= memory[s].count
  /\ Open(s) /\ s \notin Known => granted[s] = 0

(* What a request carries, and what it can rely on. *)
SaveInv(w) ==
  At(w, "save") =>
    LET s == req[w].session
    IN /\ rows[s] = None
       /\ s \in Known => memory[s].ends = req[w].ends
       /\ now < req[w].ends => s \in Known
       /\ \A x \in Requests : At(x, "save") /\ req[x].session = s => x = w

RequestInv(w) ==
  /\ SaveInv(w)
  /\ req[w].pc \in Serving =>
       LET s == req[w].session
       IN /\ rows[s] # None
          /\ At(w, "ensure") =>
               /\ req[w].seen.ends = rows[s].ends
               /\ Open(s) => req[w].seen.count <= IF s \in Known THEN memory[s].count
                                                                 ELSE MaxPerSession
               /\ Open(s) /\ s \notin Known => req[w].seen.count = rows[s].count
          /\ ~ At(w, "ensure") /\ Open(s) => s \in Known
          /\ At(w, "write") /\ Open(s) => req[w].count <= memory[s].count

WindowInv ==
  /\ \A s \in Sessions : SessionInv(s)
  /\ \A w \in Requests : RequestInv(w)

AdmissionInv ==
  /\ TypeOK
  /\ SlotsAccounted
  /\ Queue(order, Known)
  /\ WindowInv

--------------------------------------------------------------------------------
(* A nonempty set of naturals has a least element, and Min is it. *)
LEMMA LeastNatural ==
  ASSUME NEW S \in SUBSET Nat, S # {}
  PROVE  /\ Min(S) \in S
         /\ \A y \in S : Min(S) <= y
<1> DEFINE Below == {0 .. x : x \in S}
           R == StrictSubsetOrdering(Nat)
<1>1. Below \subseteq FiniteSubsetsOf(Nat)
  <2>1. ASSUME NEW x \in S PROVE 0 .. x \in FiniteSubsetsOf(Nat)
    <3>1. IsFiniteSet(0 .. x)
      BY FS_Interval
    <3> QED
      BY <3>1 DEF FiniteSubsetsOf
  <2> QED
    BY <2>1
<1>2. Below # {}
  OBVIOUS
<1>3. IsWellFoundedOn(R, FiniteSubsetsOf(Nat))
  BY FS_StrictSubsetOrderingWellFounded
<1>4. \E T \in Below : \A U \in Below : ~ (<<U, T>> \in R)
  <2> HIDE DEF Below, R
  <2> QED
    BY <1>1, <1>2, <1>3, WFMin
<1>5. PICK x \in S : \A y \in S : ~ (<<0 .. y, 0 .. x>> \in R)
  BY <1>4
<1>6. ASSUME NEW y \in S, y < x PROVE FALSE
  <2>1. 0 .. y \subseteq 0 .. x /\ 0 .. y # 0 .. x /\ 0 .. x \subseteq Nat
    <3>1. x \in 0 .. x /\ x \notin 0 .. y
      BY <1>6
    <3> QED
      BY <1>6, <3>1
  <2> QED
    BY <1>5, <2>1 DEF StrictSubsetOrdering
<1>7. \A y \in S : x <= y
  BY <1>6
<1> QED
  BY <1>7 DEF Min

(* The entries that leave are a prefix of the queue, and each may leave. *)
LEMMA Leaving ==
  ASSUME order \in Seq(Sessions)
  PROVE  /\ Evicted \in 0 .. Len(order)
         /\ \A i \in 1 .. Evicted : Evictable(order[i])
<1> DEFINE Stay == {j \in DOMAIN order : ~ Evictable(order[j])}
           S == {Len(order)} \cup {i - 1 : i \in Stay}
<1>1. S \in SUBSET Nat /\ S # {}
  OBVIOUS
<1>2. Evicted \in S /\ \A y \in S : Evicted <= y
  BY <1>1, LeastNatural DEF Evicted
<1>3. Len(order) \in S
  OBVIOUS
<1>4. Evicted \in 0 .. Len(order)
  <2> HIDE DEF S
  <2> QED
    BY <1>1, <1>2, <1>3
<1>5. ASSUME NEW i \in 1 .. Evicted, ~ Evictable(order[i]) PROVE FALSE
  <2>1. i \in Stay
    BY <1>4, <1>5
  <2>2. i - 1 \in S
    BY <2>1
  <2> HIDE DEF S
  <2> QED
    BY <1>2, <1>4, <2>2
<1> QED
  BY <1>4, <1>5

(* What an eviction leaves: the sessions that stay are as they were, those that go
   are out of their window and serve nobody, and the queue is theirs. *)
KeptSound ==
  /\ Kept \in [Sessions -> States \cup {None}]
  /\ \A s \in Sessions : Kept[s] # None => s \in Known /\ Kept[s] = memory[s]
  /\ \A s \in Known : Kept[s] = None => memory[s].ends + TTL < now /\ memory[s].active = 0
  /\ Queue(KeptOrder, {s \in Sessions : Kept[s] # None})

LEMMA Eviction ==
  ASSUME TypeOK, Queue(order, Known)
  PROVE  KeptSound
<1> DEFINE n == Evicted
           q == KeptOrder
<1>1. /\ order \in Seq(Sessions)
      /\ n \in 0 .. Len(order)
      /\ \A i \in 1 .. n : Evictable(order[i])
  BY Leaving DEF Queue
<1>2. \A s \in Sessions : Kept[s] = IF s \in Forgotten THEN None ELSE memory[s]
  BY DEF Kept
<1>3. \A s \in Sessions : s \in Forgotten <=> \E i \in 1 .. n : order[i] = s
  BY DEF Forgotten
<1>4. Kept \in [Sessions -> States \cup {None}]
  BY DEF Kept, TypeOK, States
<1>5. \A s \in Sessions : Kept[s] # None => s \in Known /\ Kept[s] = memory[s]
  BY <1>2 DEF Known
<1>6. \A s \in Known : Kept[s] = None => memory[s].ends + TTL < now /\ memory[s].active = 0
  BY <1>1, <1>2, <1>3 DEF Known, Evictable
<1>7. /\ q \in Seq(Sessions)
      /\ Len(q) = Len(order) - n
      /\ \A i \in 1 .. Len(q) : q[i] = order[n + i]
  <2>1. \A i \in n + 1 .. Len(order) : order[i] \in Sessions
    BY <1>1
  <2>2. /\ q \in Seq(Sessions)
        /\ Len(q) = IF n + 1 <= Len(order) THEN Len(order) - (n + 1) + 1 ELSE 0
        /\ \A i \in 1 .. Len(order) - (n + 1) + 1 : q[i] = order[n + 1 + i - 1]
    BY <1>1, <2>1, SubSeqProperties DEF KeptOrder
  <2> HIDE DEF n, q
  <2>3. Len(order) \in Nat
    BY <1>1
  <2>4. Len(q) = Len(order) - n
    BY <1>1, <2>2, <2>3
  <2>5. \A i \in 1 .. Len(q) : n + 1 + i - 1 = n + i /\ i \in 1 .. Len(order) - (n + 1) + 1
    BY <1>1, <2>3, <2>4
  <2> QED
    BY <2>2, <2>4, <2>5
<1> HIDE DEF n, q
<1>8. Len(order) \in Nat /\ n \in Nat /\ n <= Len(order)
  BY <1>1
<1>9. \A i \in 1 .. Len(q) : n + i \in 1 .. Len(order) /\ n + i \notin 1 .. n
  BY <1>7, <1>8
<1>10. ASSUME NEW i \in 1 .. Len(q) PROVE q[i] \in Sessions /\ Kept[q[i]] # None
  <2>1. q[i] = order[n + i] /\ n + i \in 1 .. Len(order) /\ n + i \notin 1 .. n
    BY <1>7, <1>9
  <2>2. q[i] \in Known
    BY <2>1 DEF Queue
  <2>3. \A j \in 1 .. n : order[j] # q[i]
    BY <1>8, <2>1 DEF Queue
  <2> QED
    BY <1>2, <1>3, <2>2, <2>3 DEF Known
<1>11. ASSUME NEW s \in Sessions, Kept[s] # None PROVE \E i \in 1 .. Len(q) : q[i] = s
  <2>1. PICK j \in 1 .. Len(order) : order[j] = s
    BY <1>5, <1>11 DEF Queue
  <2>2. j \notin 1 .. n
    BY <1>2, <1>3, <1>11, <2>1
  <2>3. j - n \in 1 .. Len(q) /\ n + (j - n) = j
    BY <1>7, <1>8, <2>1, <2>2
  <2> QED
    BY <1>7, <2>1, <2>3
<1>12. ASSUME NEW i \in 1 .. Len(q), NEW j \in 1 .. Len(q), q[i] = q[j] PROVE i = j
  <2>1. n + i = n + j
    BY <1>7, <1>9, <1>12 DEF Queue
  <2> QED
    BY <1>8, <2>1
<1>13. Queue(q, {s \in Sessions : Kept[s] # None})
  BY <1>7, <1>10, <1>11, <1>12 DEF Queue
<1> QED
  BY <1>4, <1>5, <1>6, <1>13 DEF KeptSound, q

--------------------------------------------------------------------------------
(* What the type of the requests says of one of them. *)
LEMMA RequestParts ==
  ASSUME TypeOK, NEW w \in Requests
  PROVE  /\ req[w].pc \in Serving \cup {"idle", "save"}
         /\ ~ At(w, "idle") => req[w].session \in Sessions
         /\ At(w, "save") => req[w].ends \in Ends
         /\ At(w, "ensure") => req[w].seen \in Rows
         /\ At(w, "write") => req[w].count \in 0 .. MaxPerSession
  BY DEF TypeOK, InRequest, Idle, Serving, At

(* One request takes a step. *)
LEMMA Moves ==
  ASSUME TypeOK, NEW w \in Requests, NEW r \in InRequest, Go(w, r)
  PROVE  /\ req' \in [Requests -> InRequest]
         /\ req'[w] = r
         /\ \A x \in Requests \ {w} : req'[x] = req[x]
  BY DEF TypeOK, Go

(* A request that neither begins nor ends to run leaves the slots as they are. *)
LEMMA SlotsKept ==
  ASSUME SlotsAccounted, NEW w \in Requests, ~ At(w, "run"), req'[w].pc # "run",
         \A x \in Requests \ {w} : req'[x] = req[x],
         running' = running,
         \A s \in Sessions : s \in Known' \/ s \in Known =>
           IF s \in Known THEN s \in Known' /\ memory'[s].active = memory[s].active
                          ELSE memory'[s].active = 0
  PROVE  SlotsAccounted'
<1>1. {x \in Requests : At(x, "run")}' = {x \in Requests : At(x, "run")}
  BY DEF At
<1>2. \A s \in Sessions : InRun(s)' = InRun(s)
  BY DEF At, InRun
<1>3. running' = Cardinality({x \in Requests : At(x, "run")}')
  BY <1>1 DEF SlotsAccounted
<1>4. ASSUME NEW s \in Sessions
      PROVE  IF s \in Known' THEN memory'[s].active = Cardinality(InRun(s)') ELSE InRun(s)' = {}
  BY <1>2, <1>4, FS_EmptySet DEF SlotsAccounted
<1> QED
  BY <1>3, <1>4 DEF SlotsAccounted

LEMMA ParametersAreNumbers ==
  /\ MaxSessions \in Nat /\ MaxPerSession \in Nat /\ SessionLimit \in Nat /\ GlobalLimit \in Nat
  /\ MaxPerWindow \in Nat /\ Window \in Nat /\ TTL \in Nat /\ MaxTime \in Nat /\ MaxRestarts \in Nat
  /\ MaxPerSession > 0 /\ TTL > 0
  BY AdmissionParameters

LEMMA NoneIsNoRecord ==
  None \notin States /\ None \notin Rows
<1>1. Ends \subseteq Nat /\ 0 .. MaxPerSession \subseteq Nat /\ 0 .. SessionLimit \subseteq Nat
  BY ParametersAreNumbers DEF Ends
<1>2. States \subseteq [ends : Nat, count : Nat, active : Nat]
  BY <1>1 DEF States
<1>3. Rows \subseteq [ends : Nat, count : Nat]
  BY <1>1 DEF Rows
<1> QED
  BY <1>2, <1>3, NoneIsNoState

LEMMA InitSound == Init => AdmissionInv
<1> SUFFICES ASSUME Init PROVE AdmissionInv
  OBVIOUS
<1> USE ParametersAreNumbers DEF Init
<1>1. TypeOK
  BY DEF TypeOK, InRequest, Idle, Ends, Time, Rows
<1>2. Known = {}
  BY DEF Known
<1>3. SlotsAccounted
  <2>1. {w \in Requests : At(w, "run")} = {} /\ \A s \in Sessions : InRun(s) = {}
    BY DEF At, Idle, InRun
  <2> QED
    BY <1>2, <2>1, FS_EmptySet DEF SlotsAccounted
<1>4. Queue(order, Known)
  BY <1>2 DEF Queue
<1>5. WindowInv
  BY <1>2 DEF WindowInv, SessionInv, RequestInv, SaveInv, At, Idle, Serving, Open
<1> QED
  BY <1>1, <1>3, <1>4, <1>5 DEF AdmissionInv

--------------------------------------------------------------------------------
(* Steps that leave the counters alone. *)

LEMMA Quiet ==
  ASSUME AdmissionInv, NEW w \in Requests, NEW r \in InRequest, Go(w, r),
         UNCHANGED <<now, restarts, memory, order, window, running, rows, granted>>,
         ~ At(w, "run"), r.pc \notin {"run", "save"},
         RequestInv(w)'
  PROVE  AdmissionInv'
<1> USE DEF AdmissionInv
<1>1. /\ req' \in [Requests -> InRequest]
      /\ req'[w] = r
      /\ \A x \in Requests \ {w} : req'[x] = req[x]
  BY Moves
<1>2. TypeOK'
  BY <1>1 DEF TypeOK
<1>3. Known' = Known
  BY DEF Known
<1>4. SlotsAccounted'
  BY <1>1, <1>3, SlotsKept
<1>5. Queue(order, Known)'
  BY <1>3 DEF Queue
<1>6. \A t \in Sessions : SessionInv(t)'
  BY <1>3 DEF WindowInv, SessionInv, Open
<1>7. ASSUME NEW x \in Requests, x # w PROVE RequestInv(x)'
  <2>1. RequestInv(x)
    BY DEF WindowInv
  <2> QED
    BY <1>1, <1>3, <1>7, <2>1 DEF RequestInv, SaveInv, At, Open, Serving
<1> QED
  BY <1>2, <1>4, <1>5, <1>6, <1>7 DEF WindowInv

LEMMA IdleIsSound ==
  ASSUME NEW w \in Requests, req'[w] = Idle
  PROVE  RequestInv(w)'
  BY DEF RequestInv, SaveInv, At, Idle, Serving

LEMMA LookupSound ==
  ASSUME AdmissionInv, NEW w \in Requests, NEW s \in Sessions, Lookup(w, s)
  PROVE  AdmissionInv'
<1> DEFINE r == [pc |-> "ensure", session |-> s, seen |-> rows[s]]
<1> USE DEF AdmissionInv, Lookup
<1>1. rows[s] \in Rows /\ rows[s].count \in 0 .. MaxPerSession
  BY DEF TypeOK, Rows
<1>2. r \in InRequest
  BY <1>1 DEF InRequest
<1>3. req'[w] = r
  BY <1>2, Moves
<1>4. Known' = Known
  BY DEF Known
<1>5. SessionInv(s)
  BY DEF WindowInv
<1>6. RequestInv(w)'
  BY <1>1, <1>3, <1>4, <1>5, ParametersAreNumbers
     DEF RequestInv, SaveInv, SessionInv, At, Open, Serving
<1> QED
  BY <1>2, <1>6, Quiet DEF At

LEMMA FailRequestSound ==
  ASSUME AdmissionInv, NEW w \in Requests, FailRequest(w)
  PROVE  AdmissionInv'
<1> USE DEF AdmissionInv, FailRequest, Done
<1>1. Idle \in InRequest
  BY DEF InRequest
<1>2. req'[w] = Idle
  BY <1>1, Moves
<1> QED
  BY <1>1, <1>2, IdleIsSound, Quiet DEF At, Idle

LEMMA SyncReadSound ==
  ASSUME AdmissionInv, NEW w \in Requests, SyncRead(w)
  PROVE  AdmissionInv'
<1> DEFINE s == req[w].session
           n == IF s \in Known THEN memory[s].count ELSE 0
           r == [pc |-> "write", session |-> s, count |-> n]
<1> USE DEF AdmissionInv
<1>1. s \in Sessions /\ At(w, "sync")
  BY RequestParts DEF SyncRead, At
<1>2. n \in 0 .. MaxPerSession
  BY <1>1, ParametersAreNumbers DEF TypeOK, Known
<1>3. r \in InRequest /\ Go(w, r)
  BY <1>1, <1>2 DEF InRequest, SyncRead
<1>4. req'[w] = r
  BY <1>3, Moves
<1>5. Known' = Known
  BY DEF Known, SyncRead
<1>6. RequestInv(w)
  BY DEF WindowInv
<1>7. RequestInv(w)'
  BY <1>1, <1>2, <1>4, <1>5, <1>6 DEF RequestInv, SaveInv, At, Open, Serving, SyncRead
<1> QED
  BY <1>1, <1>3, <1>7, Quiet DEF At, SyncRead

LEMMA SaveRowSound ==
  ASSUME AdmissionInv, NEW w \in Requests, SaveRow(w)
  PROVE  AdmissionInv'
<1> USE DEF AdmissionInv
<1>0. PICK s \in Sessions : s = req[w].session
  BY RequestParts DEF SaveRow, At
<1>1. Idle \in InRequest
  BY DEF InRequest
<1>2. /\ req' \in [Requests -> InRequest]
      /\ req'[w] = Idle
      /\ \A x \in Requests \ {w} : req'[x] = req[x]
  BY <1>1, Moves DEF SaveRow, Done
<1>3. At(w, "save") /\ s \in Sessions /\ req[w].ends \in Ends
  BY <1>0, RequestParts DEF SaveRow, At
<1>4. CASE rows' = rows
  <2>1. UNCHANGED <<now, restarts, memory, order, window, running, rows, granted>>
    BY <1>4 DEF SaveRow
  <2> QED
    BY <1>1, <1>2, <1>3, <2>1, IdleIsSound, Quiet DEF SaveRow, Done, At, Idle
<1>5. CASE rows' = [rows EXCEPT ![s] = [ends |-> req[w].ends, count |-> 0]]
  <2> DEFINE row == [ends |-> req[w].ends, count |-> 0]
  <2> USE DEF SaveRow
  <2>1. row \in Rows
    BY <1>3, ParametersAreNumbers DEF Rows
  <2>2. /\ rows' \in [Sessions -> Rows \cup {None}]
        /\ rows'[s] = row /\ row # None
        /\ \A t \in Sessions \ {s} : rows'[t] = rows[t]
    BY <1>3, <1>5, <2>1, NoneIsNoRecord DEF TypeOK
  <2>3. TypeOK'
    BY <1>2, <2>2 DEF TypeOK
  <2>4. Known' = Known
    BY DEF Known
  <2>5. SlotsAccounted'
    BY <1>2, <1>3, <2>4, SlotsKept DEF At, Idle
  <2>6. Queue(order, Known)'
    BY <2>4 DEF Queue
  <2>7. RequestInv(w) /\ SessionInv(s)
    BY <1>3 DEF WindowInv
  <2>8. granted[s] \in 0 .. MaxPerSession /\ (s \in Known => memory[s].count \in 0 .. MaxPerSession)
    BY <1>3 DEF TypeOK, Known
  <2>9. SessionInv(s)'
    BY <1>0, <1>3, <2>2, <2>4, <2>7, <2>8, ParametersAreNumbers
       DEF SessionInv, RequestInv, SaveInv, Open, At
  <2>10. ASSUME NEW t \in Sessions, t # s PROVE SessionInv(t)'
    <3>1. SessionInv(t)
      BY DEF WindowInv
    <3> QED
      BY <2>2, <2>4, <2>10, <3>1 DEF SessionInv, Open
  <2>11. RequestInv(w)'
    BY <1>2, IdleIsSound
  <2>12. ASSUME NEW x \in Requests, x # w PROVE RequestInv(x)'
    <3>1. RequestInv(x) /\ req'[x] = req[x]
      BY <1>2, <2>12 DEF WindowInv
    <3>2. CASE At(x, "save")
      <4>1. req[x].session \in Sessions /\ req[x].session # s
        BY <1>0, <1>3, <2>7, <2>12, <3>1, <3>2, RequestParts DEF RequestInv, SaveInv, At
      <4> QED
        BY <1>2, <2>2, <2>4, <3>1, <3>2, <4>1 DEF RequestInv, SaveInv, At, Idle, Serving
    <3>3. CASE req[x].pc \in Serving
      <4>1. req[x].session \in Sessions /\ req[x].session # s
        BY <1>0, <1>3, <2>7, <3>1, <3>3, RequestParts DEF RequestInv, SaveInv, At, Serving
      <4> QED
        BY <2>2, <2>4, <3>1, <3>3, <4>1 DEF RequestInv, SaveInv, At, Open, Serving
    <3>4. CASE req[x].pc \notin Serving /\ ~ At(x, "save")
      BY <3>1, <3>4 DEF RequestInv, SaveInv, At
    <3> QED
      BY <3>2, <3>3, <3>4
  <2> QED
    BY <2>3, <2>5, <2>6, <2>9, <2>10, <2>11, <2>12 DEF WindowInv
<1> QED
  BY <1>0, <1>4, <1>5 DEF SaveRow

LEMMA SyncWriteSound ==
  ASSUME AdmissionInv, NEW w \in Requests, SyncWrite(w)
  PROVE  AdmissionInv'
<1> USE DEF AdmissionInv, SyncWrite
<1>0. PICK s \in Sessions : s = req[w].session
  BY RequestParts DEF At
<1>1. Idle \in InRequest
  BY DEF InRequest
<1>2. /\ req' \in [Requests -> InRequest]
      /\ req'[w] = Idle
      /\ \A x \in Requests \ {w} : req'[x] = req[x]
  BY <1>1, Moves DEF Done
<1>3. At(w, "write") /\ s \in Sessions /\ req[w].count \in 0 .. MaxPerSession
  BY <1>0, RequestParts DEF At
<1>4. RequestInv(w) /\ SessionInv(s)
  BY <1>0, <1>3 DEF WindowInv
<1>5. rows[s] # None /\ rows[s] \in Rows
  BY <1>0, <1>3, <1>4 DEF RequestInv, Serving, At, TypeOK
<1>6. /\ rows' \in [Sessions -> Rows \cup {None}]
      /\ rows'[s] \in Rows /\ rows'[s].ends = rows[s].ends /\ rows'[s].count = req[w].count
      /\ rows'[s] # None
      /\ \A t \in Sessions \ {s} : rows'[t] = rows[t]
  <2>1. rows' = [rows EXCEPT ![s] = [ends |-> rows[s].ends, count |-> req[w].count]]
    <3>1. rows' = [rows EXCEPT ![s] = [rows[s] EXCEPT !.count = req[w].count]]
      BY <1>0
    <3>2. [rows[s] EXCEPT !.count = req[w].count] = [ends |-> rows[s].ends, count |-> req[w].count]
      BY <1>5 DEF Rows
    <3> QED
      BY <3>1, <3>2
  <2>2. [ends |-> rows[s].ends, count |-> req[w].count] \in Rows
    BY <1>3, <1>5 DEF Rows
  <2> QED
    <3> DEFINE new == [ends |-> rows[s].ends, count |-> req[w].count]
    <3>1. rows \in [Sessions -> Rows \cup {None}]
      BY <1>0 DEF TypeOK
    <3>2. new.ends = rows[s].ends /\ new.count = req[w].count
      OBVIOUS
    <3>3. rows' = [rows EXCEPT ![s] = new] /\ new \in Rows
      BY <2>1, <2>2
    <3> HIDE DEF new
    <3> QED
      BY <1>3, <3>1, <3>2, <3>3, NoneIsNoRecord
<1>7. TypeOK'
  BY <1>2, <1>6 DEF TypeOK
<1>8. Known' = Known
  BY DEF Known
<1>9. SlotsAccounted'
  BY <1>2, <1>3, <1>8, SlotsKept DEF At, Idle
<1>10. Queue(order, Known)'
  BY <1>8 DEF Queue
<1>11. SessionInv(s)'
  BY <1>0, <1>3, <1>4, <1>5, <1>6, <1>8 DEF SessionInv, RequestInv, Open, At, Serving
<1>12. ASSUME NEW t \in Sessions, t # s PROVE SessionInv(t)'
  <2>1. SessionInv(t)
    BY DEF WindowInv
  <2> QED
    BY <1>6, <1>8, <1>12, <2>1 DEF SessionInv, Open
<1>13. ASSUME NEW x \in Requests, x # w PROVE RequestInv(x)'
  <2>1. RequestInv(x) /\ req'[x] = req[x]
    BY <1>2, <1>13 DEF WindowInv
  <2>2. SaveInv(x)'
    <3>1. ASSUME At(x, "save") PROVE req[x].session \in Sessions /\ req[x].session # s
      BY <1>0, <1>5, <2>1, <3>1, RequestParts DEF RequestInv, SaveInv, At
    <3> QED
      BY <1>2, <1>6, <1>8, <2>1, <3>1 DEF RequestInv, SaveInv, At, Idle
  <2>3. CASE req[x].pc \in Serving /\ req[x].session = s
    <3>1. /\ rows'[s] # None /\ rows[s] # None /\ rows'[s].ends = rows[s].ends
          /\ rows'[s].count = req[w].count /\ memory' = memory /\ now' = now
      BY <1>5, <1>6
    <3>2. Open(s)' = Open(s) /\ (Open(s) => s \in Known)
      BY <1>0, <1>3, <1>4, <3>1 DEF RequestInv, Open, Serving, At
    <3> QED
      BY <1>8, <2>1, <2>2, <2>3, <3>1, <3>2 DEF RequestInv, At
  <2>4. CASE req[x].pc \in Serving /\ req[x].session # s
    <3>1. req[x].session \in Sessions
      BY <2>4, RequestParts DEF At, Serving
    <3> QED
      <4> DEFINE t == req[x].session
      <4>1. /\ rows'[t] = rows[t] /\ memory' = memory /\ Known' = Known
            /\ Open(t)' = Open(t)
        <5>1. rows'[t] = rows[t]
          BY <1>6, <2>4, <3>1
        <5>2. memory' = memory /\ now' = now
          OBVIOUS
        <5> QED
          BY <1>8, <2>1, <5>1, <5>2 DEF Open
      <4>2. /\ req'[x] = req[x] /\ At(x, "ensure")' = At(x, "ensure")
            /\ At(x, "write")' = At(x, "write")
        BY <2>1 DEF At
      <4> QED
        BY <2>1, <2>2, <4>1, <4>2 DEF RequestInv
  <2>5. CASE req[x].pc \notin Serving
    BY <2>1, <2>2, <2>5 DEF RequestInv
  <2> QED
    BY <2>3, <2>4, <2>5
<1>14. RequestInv(w)'
  BY <1>2, IdleIsSound
<1> QED
  BY <1>7, <1>9, <1>10, <1>11, <1>12, <1>13, <1>14 DEF WindowInv

--------------------------------------------------------------------------------
(* Steps that change the counters. *)

(* An entry for a session that is not in the queue keeps it a queue. *)
LEMMA Enqueued ==
  ASSUME NEW q, NEW known, known \subseteq Sessions, Queue(q, known), NEW s \in Sessions \ known
  PROVE  Queue(Append(q, s), known \cup {s})
<1> DEFINE p == Append(q, s)
<1>1. q \in Seq(Sessions) /\ Len(q) \in Nat
  BY DEF Queue
<1>2. /\ p \in Seq(Sessions) /\ Len(p) = Len(q) + 1
      /\ \A i \in 1 .. Len(q) : p[i] = q[i]
      /\ p[Len(q) + 1] = s
  BY <1>1
<1> HIDE DEF p
<1>3. \A i \in 1 .. Len(p) : i \in 1 .. Len(q) \/ i = Len(q) + 1
  BY <1>1, <1>2
<1>4. \A i \in 1 .. Len(q) : i \in 1 .. Len(p) /\ q[i] \in known /\ q[i] # s
  BY <1>1, <1>2 DEF Queue
<1>5. Len(q) + 1 \in 1 .. Len(p)
  BY <1>1, <1>2
<1>6. \A i \in 1 .. Len(p) : p[i] \in known \cup {s}
  BY <1>2, <1>3, <1>4
<1>7. \A t \in known \cup {s} : \E i \in 1 .. Len(p) : p[i] = t
  BY <1>2, <1>4, <1>5 DEF Queue
<1>8. \A i, j \in 1 .. Len(p) : p[i] = p[j] => i = j
  BY <1>2, <1>3, <1>4 DEF Queue
<1> QED
  BY <1>2, <1>6, <1>7, <1>8 DEF Queue, p

(* Sessions that stay keep their window and lose no count, and those that go are a TTL
   past it: then nothing another session or request relies on changes, unless a session
   it uses is new to the memory. *)
Steady ==
  /\ UNCHANGED <<now, rows>>
  /\ memory' \in [Sessions -> States \cup {None}]
  /\ \A t \in Known : IF t \in Known'
                       THEN memory'[t].ends = memory[t].ends /\ memory[t].count <= memory'[t].count
                       ELSE memory[t].ends + TTL < now

LEMMA SteadySession ==
  ASSUME AdmissionInv, Steady, NEW t \in Sessions, granted'[t] = granted[t],
         t \in Known \/ t \notin Known'
  PROVE  SessionInv(t)'
<1>1. SessionInv(t)
  BY DEF AdmissionInv, WindowInv
<1>2. /\ t \in Known => memory[t].ends \in Nat /\ memory[t].count \in Nat
      /\ t \in Known' => memory'[t].count \in Nat
      /\ rows[t] # None => rows[t].ends \in Nat /\ rows[t].count \in Nat
      /\ granted[t] \in Nat /\ now \in Nat /\ TTL \in Nat
  BY ParametersAreNumbers DEF AdmissionInv, TypeOK, Known, States, Rows, Ends, Time, Steady
<1> QED
  BY <1>1, <1>2 DEF SessionInv, Steady, Open

LEMMA SteadyRequest ==
  ASSUME AdmissionInv, Steady, NEW x \in Requests, req'[x] = req[x],
         ~ At(x, "idle") => req[x].session \in Known \/ req[x].session \notin Known',
         \A y \in Requests : req'[y] = req[y] \/ req'[y].pc # "save" \/ req'[y].session # req[x].session
  PROVE  RequestInv(x)'
<1>1. RequestInv(x)
  BY DEF AdmissionInv, WindowInv
<1>2. CASE At(x, "idle")
  BY <1>2 DEF RequestInv, SaveInv, At, Serving
<1>3. CASE ~ At(x, "idle")
  <2> DEFINE Holds(t) == req[x].session = t
  <2>1. PICK t \in Sessions : Holds(t)
    BY <1>3, RequestParts DEF AdmissionInv
  <2>2. SessionInv(t)
    BY DEF AdmissionInv, WindowInv
  <2>3. /\ t \in Known => memory[t].ends \in Nat /\ memory[t].count \in 0 .. MaxPerSession
        /\ t \in Known' => memory'[t].count \in 0 .. MaxPerSession
        /\ rows[t] # None => rows[t].ends \in Nat /\ rows[t].count \in 0 .. MaxPerSession
        /\ now \in Nat /\ TTL \in Nat /\ MaxPerSession \in Nat
    BY ParametersAreNumbers DEF AdmissionInv, TypeOK, Known, States, Rows, Ends, Time, Steady
  <2>4. /\ At(x, "save") => req[x].ends \in Nat
        /\ At(x, "ensure") => req[x].seen.ends \in Nat /\ req[x].seen.count \in 0 .. MaxPerSession
        /\ At(x, "write") => req[x].count \in 0 .. MaxPerSession
    BY <2>3, RequestParts, ParametersAreNumbers DEF AdmissionInv, Rows, Ends
  <2>5. SaveInv(x)'
    BY <1>1, <2>1, <2>3, <2>4 DEF RequestInv, SaveInv, At, Steady
  <2>6. CASE req[x].pc \in Serving
    BY <1>1, <1>3, <2>4, <2>5, <2>1, <2>2, <2>3, <2>6
       DEF RequestInv, SessionInv, At, Open, Serving, Steady
  <2>7. CASE req[x].pc \notin Serving
    BY <2>5, <2>7 DEF RequestInv
  <2> QED
    BY <2>6, <2>7
<1> QED
  BY <1>2, <1>3

(* An eviction is steady. *)
LEMMA EvictionIsSteady ==
  ASSUME AdmissionInv, UNCHANGED <<now, rows>>, memory' \in [Sessions -> States \cup {None}],
         \A t \in Known :
           IF Kept[t] # None
             THEN /\ memory'[t] # None
                  /\ memory'[t].ends = memory[t].ends
                  /\ memory[t].count <= memory'[t].count
             ELSE memory'[t] = None
  PROVE  Steady
<1>1. KeptSound
  BY Eviction DEF AdmissionInv
<1> QED
  BY <1>1 DEF KeptSound, Steady, Known

LEMMA TickSound ==
  ASSUME AdmissionInv, Tick
  PROVE  AdmissionInv'
<1> USE DEF AdmissionInv, Tick
<1>1. TypeOK'
  BY ParametersAreNumbers DEF TypeOK, Time
<1>2. Known' = Known
  BY DEF Known
<1>3. SlotsAccounted'
  BY <1>2 DEF SlotsAccounted, At, InRun
<1>4. Queue(order, Known)'
  BY <1>2 DEF Queue
<1>5. now \in Nat /\ now' = now + 1
  BY ParametersAreNumbers DEF TypeOK, Time
<1>6. \A t \in Sessions : Open(t)' => Open(t)
  <2>1. \A t \in Sessions : rows[t] # None => rows[t].ends \in Nat
    BY ParametersAreNumbers DEF TypeOK, Rows, Ends
  <2> QED
    BY <1>5, <2>1 DEF Open
<1>7. \A t \in Sessions : SessionInv(t)'
  BY <1>2, <1>6 DEF WindowInv, SessionInv
<1>8. ASSUME NEW x \in Requests PROVE RequestInv(x)'
  <2>1. RequestInv(x)
    BY DEF WindowInv
  <2>2. SaveInv(x)'
    <3>1. At(x, "save") => req[x].ends \in Nat
      BY RequestParts, ParametersAreNumbers DEF Ends
    <3> QED
      BY <1>2, <1>5, <2>1, <3>1 DEF RequestInv, SaveInv, At
  <2>3. req[x].pc \in Serving => req[x].session \in Sessions
    BY RequestParts DEF At, Serving
  <2>4. req[x].pc \in Serving => (Open(req[x].session)' => Open(req[x].session))
    BY <1>6, <2>3 DEF Open
  <2> QED
    BY <1>2, <2>1, <2>2, <2>4 DEF RequestInv, At
<1> QED
  BY <1>1, <1>3, <1>4, <1>7, <1>8 DEF WindowInv

LEMMA RestartSound ==
  ASSUME AdmissionInv, Restart
  PROVE  AdmissionInv'
<1> USE ParametersAreNumbers DEF AdmissionInv, Restart
<1>1. TypeOK'
  BY DEF TypeOK, InRequest, Idle, Time, FreshWindow
<1>2. Known' = {}
  BY DEF Known
<1>3. SlotsAccounted'
  <2>1. {w \in Requests : At(w, "run")}' = {} /\ \A s \in Sessions : InRun(s)' = {}
    BY DEF At, Idle, InRun
  <2> QED
    BY <1>2, <2>1, FS_EmptySet DEF SlotsAccounted
<1>4. Queue(order, Known)'
  BY <1>2 DEF Queue
<1>5. WindowInv'
  BY <1>2 DEF WindowInv, SessionInv, RequestInv, SaveInv, At, Idle, Serving, Open
<1> QED
  BY <1>1, <1>3, <1>4, <1>5

LEMMA EnsureSound ==
  ASSUME AdmissionInv, NEW w \in Requests, Ensure(w)
  PROVE  AdmissionInv'
<1> USE DEF AdmissionInv
<1>1. PICK s \in Sessions : s = req[w].session
  BY RequestParts DEF Ensure, At
<1> DEFINE r == [pc |-> "admit", session |-> s]
<1>2. r \in InRequest /\ Go(w, r)
  BY <1>1 DEF InRequest, Ensure
<1>3. /\ req' \in [Requests -> InRequest]
      /\ req'[w] = r
      /\ \A x \in Requests \ {w} : req'[x] = req[x]
  BY <1>2, Moves
<1>4. At(w, "ensure") /\ req[w].seen \in Rows
  BY RequestParts DEF Ensure, At
<1>5. RequestInv(w) /\ SessionInv(s)
  BY DEF WindowInv
<1>6. CASE s \in Known
  <2>1. UNCHANGED <<now, restarts, memory, order, window, running, rows, granted>>
    BY <1>1, <1>6 DEF Ensure, Rehydrated
  <2>2. Known' = Known
    BY <2>1 DEF Known
  <2>3. RequestInv(w)'
    BY <1>1, <1>3, <1>4, <1>5, <1>6, <2>1, <2>2 DEF RequestInv, SaveInv, At, Open, Serving
  <2> QED
    BY <1>2, <1>4, <2>1, <2>3, Quiet DEF At
<1>7. CASE s \notin Known
  <2> DEFINE new == NewState(req[w].seen.ends, req[w].seen.count)
  <2>1. /\ memory' = [memory EXCEPT ![s] = new]
        /\ order' = Append(order, s)
        /\ UNCHANGED <<now, restarts, window, running, rows, granted>>
    BY <1>1, <1>7 DEF Ensure, Rehydrated
  <2>2. /\ new \in States /\ new # None
        /\ new.ends = req[w].seen.ends /\ new.count = req[w].seen.count /\ new.active = 0
    BY <1>4, NoneIsNoRecord, ParametersAreNumbers DEF NewState, States, Rows
  <2> HIDE DEF new
  <2>3. /\ memory' \in [Sessions -> States \cup {None}]
        /\ memory'[s] = new
        /\ \A t \in Sessions \ {s} : memory'[t] = memory[t]
    BY <2>1, <2>2 DEF TypeOK, States
  <2>4. Known' = Known \cup {s}
    BY <2>2, <2>3 DEF Known
  <2>5. Queue(order, Known)'
    BY <1>7, <2>1, <2>4, Enqueued DEF Known
  <2>6. TypeOK'
    BY <1>3, <2>1, <2>3, <2>5 DEF TypeOK, States, Queue
  <2>7. SlotsAccounted'
    BY <1>3, <1>4, <1>7, <2>1, <2>2, <2>3, <2>4, SlotsKept DEF At
  <2>8. Steady
    <3>1. \A t \in Known : t # s /\ t \in Sessions /\ memory'[t] = memory[t] /\ memory[t].count \in Nat
      BY <1>7, <2>3, ParametersAreNumbers DEF Known, TypeOK
    <3> QED
      BY <2>1, <2>3, <2>4, <3>1 DEF Steady
  <2>9. rows[s] # None /\ rows[s] \in Rows /\ rows[s].count \in Nat /\ rows[s].ends = new.ends
    BY <1>1, <1>4, <1>5, <2>2, ParametersAreNumbers DEF RequestInv, Serving, At, TypeOK, Rows
  <2>10. SessionInv(s)'
    BY <1>1, <1>4, <1>5, <1>7, <2>1, <2>2, <2>3, <2>4, <2>9, ParametersAreNumbers
       DEF SessionInv, RequestInv, Open, Serving, At, Rows
  <2>11. ASSUME NEW t \in Sessions, t # s PROVE SessionInv(t)'
    BY <2>1, <2>4, <2>8, <2>11, SteadySession
  <2>12. RequestInv(w)'
    BY <1>1, <1>3, <2>1, <2>4, <2>9 DEF RequestInv, SaveInv, At, Open, Serving
  <2>13. ASSUME NEW x \in Requests, x # w PROVE RequestInv(x)'
    <3>1. req'[x] = req[x] /\ RequestInv(x)
      BY <1>3, <2>13 DEF WindowInv
    <3>2. CASE ~ At(x, "idle") /\ req[x].session = s
      <4>1. ~ At(x, "save")
        BY <2>9, <3>1, <3>2 DEF RequestInv, SaveInv
      <4>2. At(x, "ensure") => req[x].seen \in Rows
        BY RequestParts
      <4>3. RequestInv(x)'
        BY <1>1, <1>4, <1>5, <1>7, <2>1, <2>2, <2>3, <2>4, <2>9, <3>1, <3>2, <4>1, <4>2
           DEF RequestInv, SaveInv, At, Open, Serving, Rows
      <4> QED
        BY <4>3
    <3>3. CASE At(x, "idle") \/ req[x].session # s
      BY <1>3, <2>4, <2>8, <3>1, <3>3, SteadyRequest DEF At
    <3> QED
      BY <3>2, <3>3
  <2> QED
    BY <2>5, <2>6, <2>7, <2>10, <2>11, <2>12, <2>13 DEF WindowInv
<1> QED
  BY <1>6, <1>7

LEMMA ReleaseSound ==
  ASSUME AdmissionInv, NEW w \in Requests, Release(w)
  PROVE  AdmissionInv'
<1> USE DEF AdmissionInv
<1>1. PICK s \in Sessions : s = req[w].session
  BY RequestParts DEF Release, At
<1> DEFINE r == [pc |-> "sync", session |-> s]
<1>2. r \in InRequest /\ Go(w, r) /\ At(w, "run")
  BY <1>1 DEF InRequest, Release
<1>3. /\ req' \in [Requests -> InRequest]
      /\ req'[w] = r
      /\ \A x \in Requests \ {w} : req'[x] = req[x]
  BY <1>2, Moves
<1> DEFINE Runners == {x \in Requests : At(x, "run")}
<1>4. w \in Runners /\ w \in InRun(s)
  BY <1>1, <1>2 DEF InRun
<1>5. IsFiniteSet(Runners) /\ \A t \in Sessions : IsFiniteSet(InRun(t))
  BY FiniteRequests, FS_Subset DEF InRun
<1>6. s \in Known
  BY <1>4 DEF SlotsAccounted
<1>7. /\ running = Cardinality(Runners) /\ memory[s].active = Cardinality(InRun(s))
      /\ Cardinality(Runners) \in Nat /\ Cardinality(InRun(s)) \in Nat
      /\ Cardinality(Runners) # 0 /\ Cardinality(InRun(s)) # 0
  BY <1>4, <1>5, <1>6, FS_EmptySet, FS_CardinalityType DEF SlotsAccounted
<1>8. /\ memory[s] \in States
      /\ memory' = [memory EXCEPT ![s] = [memory[s] EXCEPT !.active = @ - 1]]
      /\ running' = running - 1
  <2>1. memory[s] \in States
    BY <1>6 DEF TypeOK, States, Known
  <2>2. running \in Nat \ {0} /\ memory[s].active \in Nat \ {0}
    BY <1>7
  <2>3. ReleasedState(memory[s]) = [memory[s] EXCEPT !.active = @ - 1]
    BY <2>1, <2>2 DEF ReleasedState, States
  <2>4. memory' = [memory EXCEPT ![s] = ReleasedState(memory[s])]
    BY <1>1, <1>6 DEF Release
  <2>5. running' = running - 1
    BY <1>1, <1>6, <2>2 DEF Release
  <2> QED
    BY <2>1, <2>3, <2>4, <2>5
<1>9. /\ memory' \in [Sessions -> States \cup {None}]
      /\ memory'[s] \in States /\ memory'[s] # None
      /\ memory'[s].ends = memory[s].ends /\ memory'[s].count = memory[s].count
      /\ memory'[s].active = memory[s].active - 1
      /\ \A t \in Sessions \ {s} : memory'[t] = memory[t]
  <2>1. /\ [memory[s] EXCEPT !.active = @ - 1] \in States
        /\ [memory[s] EXCEPT !.active = @ - 1].active = memory[s].active - 1
    BY <1>7, <1>8, ParametersAreNumbers DEF States
  <2> QED
    BY <1>8, <2>1, NoneIsNoRecord DEF TypeOK, States
<1>10. /\ Known' = Known
       /\ UNCHANGED <<now, restarts, order, window, rows, granted>>
  BY <1>6, <1>9 DEF Known, Release
<1>11. TypeOK'
  <2>1. running' \in 0 .. GlobalLimit
    <3>1. running \in 0 .. GlobalLimit
      BY DEF TypeOK
    <3>2. running \in Nat /\ running # 0 /\ running' = running - 1
      BY <1>7, <1>8
    <3> QED
      BY <3>1, <3>2, ParametersAreNumbers
  <2> QED
    BY <1>3, <1>9, <1>10, <2>1 DEF TypeOK, States
<1>12. Queue(order, Known)'
  BY <1>10 DEF Queue
<1>13. SlotsAccounted'
  <2>1. Runners' = Runners \ {w}
    BY <1>2, <1>3 DEF At
  <2>2. InRun(s)' = InRun(s) \ {w}
    BY <1>2, <1>3 DEF At, InRun
  <2>3. \A t \in Sessions \ {s} : InRun(t)' = InRun(t)
    BY <1>1, <1>2, <1>3 DEF At, InRun
  <2>4. running' = Cardinality(Runners')
    <3> HIDE DEF Runners
    <3>1. Cardinality(Runners \ {w}) = Cardinality(Runners) - 1
      BY <1>4, <1>5, FS_RemoveElement
    <3> QED
      BY <1>7, <1>8, <2>1, <3>1
  <2>5. memory'[s].active = Cardinality(InRun(s)')
    <3>1. Cardinality(InRun(s) \ {w}) = Cardinality(InRun(s)) - 1
      BY <1>4, <1>5, FS_RemoveElement
    <3> QED
      BY <1>7, <1>9, <2>2, <3>1
  <2>6. \A t \in Sessions : IF t \in Known' THEN memory'[t].active = Cardinality(InRun(t)')
                                             ELSE InRun(t)' = {}
    BY <1>6, <1>9, <1>10, <2>3, <2>5 DEF SlotsAccounted
  <2> QED
    BY <2>4, <2>6 DEF SlotsAccounted
<1>14. Steady
  <2>1. \A t \in Known : t \in Sessions /\ memory[t].count \in Nat
    BY ParametersAreNumbers DEF Known, TypeOK
  <2>2. \A t \in Known : memory'[t].ends = memory[t].ends /\ memory'[t].count = memory[t].count
    BY <1>9, <2>1
  <2> QED
    BY <1>9, <1>10, <2>1, <2>2 DEF Steady
<1>15. \A t \in Sessions : SessionInv(t)'
  BY <1>10, <1>14, SteadySession
<1>16. \A x \in Requests \ {w} : RequestInv(x)'
  BY <1>3, <1>10, <1>14, SteadyRequest
<1>17. RequestInv(w)'
  <2>1. RequestInv(w)
    BY DEF WindowInv
  <2> QED
    BY <1>1, <1>2, <1>3, <1>6, <1>10, <2>1 DEF RequestInv, SaveInv, At, Open, Serving
<1> QED
  BY <1>11, <1>12, <1>13, <1>15, <1>16, <1>17 DEF WindowInv

LEMMA AdmitSound ==
  ASSUME AdmissionInv, NEW w \in Requests, Admit(w)
  PROVE  AdmissionInv'
<1> USE DEF AdmissionInv
<1>1. PICK s \in Sessions : s = req[w].session
  BY RequestParts DEF Admit, At
<1>2. At(w, "admit") /\ order' = KeptOrder /\ UNCHANGED <<now, restarts, rows>>
  BY DEF Admit
<1>3. KeptSound
  BY Eviction
<1>4. RequestInv(w) /\ SessionInv(s)
  BY DEF WindowInv
<1> DEFINE Stay == {t \in Sessions : Kept[t] # None}
<1>5. Stay \subseteq Known /\ \A t \in Stay : Kept[t] = memory[t]
  BY <1>3 DEF KeptSound
<1>6. ASSUME NEW t \in Sessions, t \notin Stay PROVE InRun(t) = {}
  <2>1. t \in Known => memory[t].active = 0
    BY <1>3, <1>6 DEF KeptSound
  <2>2. IsFiniteSet(InRun(t))
    BY FiniteRequests, FS_Subset DEF InRun
  <2> QED
    BY <2>1, <2>2, FS_EmptySet DEF SlotsAccounted
<1>7. \A t \in Known : memory[t] # None /\ memory[t] \in States /\ memory[t].count \in Nat
  BY ParametersAreNumbers DEF Known, TypeOK, States
<1>8. CASE ~ Admits(s)
  <2>1. memory' = Kept /\ Done(w) /\ UNCHANGED <<window, running, granted>>
    BY <1>1, <1>8 DEF Admit
  <2>2. Idle \in InRequest
    BY DEF InRequest
  <2>3. /\ req' \in [Requests -> InRequest]
        /\ req'[w] = Idle
        /\ \A x \in Requests \ {w} : req'[x] = req[x]
    BY <2>1, <2>2, Moves DEF Done
  <2>4. Known' = Stay
    BY <2>1 DEF Known
  <2>5. Queue(order, Known)'
    BY <1>2, <1>3, <2>4 DEF KeptSound
  <2>6. TypeOK'
    BY <1>2, <1>3, <2>1, <2>3, <2>5 DEF TypeOK, KeptSound, States, Queue
  <2>7. SlotsAccounted'
    <3>1. {x \in Requests : At(x, "run")}' = {x \in Requests : At(x, "run")}
      BY <1>2, <2>3 DEF At, Idle
    <3>2. \A t \in Sessions : InRun(t)' = InRun(t)
      BY <1>2, <2>3 DEF At, Idle, InRun
    <3>3. \A t \in Sessions : IF t \in Known' THEN memory'[t].active = Cardinality(InRun(t)')
                                              ELSE InRun(t)' = {}
      BY <1>5, <1>6, <2>1, <2>4, <3>2 DEF SlotsAccounted
    <3> QED
      BY <2>1, <3>1, <3>3 DEF SlotsAccounted
  <2>8. Steady
    <3>1. memory' \in [Sessions -> States \cup {None}]
      BY <1>3, <2>1 DEF KeptSound
    <3>2. \A t \in Known : IF Kept[t] # None
            THEN /\ memory'[t] # None
                 /\ memory'[t].ends = memory[t].ends
                 /\ memory[t].count <= memory'[t].count
            ELSE memory'[t] = None
      BY <1>3, <1>7, <2>1 DEF KeptSound, Known
    <3> QED
      BY <1>2, <3>1, <3>2, EvictionIsSteady
  <2>9. \A t \in Sessions : SessionInv(t)'
    BY <1>5, <2>1, <2>4, <2>8, SteadySession
  <2>10. \A x \in Requests \ {w} : RequestInv(x)'
    BY <1>5, <2>3, <2>4, <2>8, SteadyRequest DEF Idle
  <2>11. RequestInv(w)'
    BY <2>3, IdleIsSound
  <2> QED
    BY <2>5, <2>6, <2>7, <2>9, <2>10, <2>11 DEF WindowInv
<1>9. CASE Admits(s)
  <2> DEFINE r == [pc |-> "run", session |-> s]
             new == [memory[s] EXCEPT !.count = @ + 1, !.active = @ + 1]
  <2>1. /\ s \in Stay /\ s \in Known /\ now < memory[s].ends
        /\ memory[s].count < MaxPerSession /\ memory[s].active < SessionLimit
        /\ running < GlobalLimit /\ Rolled.count < MaxPerWindow
    BY <1>5, <1>9 DEF Admits
  <2>2. /\ memory' = [Kept EXCEPT ![s] = [Kept[s] EXCEPT !.count = @ + 1, !.active = @ + 1]]
        /\ window' = [Rolled EXCEPT !.count = @ + 1]
        /\ running' = running + 1
        /\ granted' = [granted EXCEPT ![s] = @ + 1]
        /\ Go(w, r)
    BY <1>1, <1>9 DEF Admit
  <2>3. r \in InRequest
    BY DEF InRequest
  <2>4. /\ req' \in [Requests -> InRequest]
        /\ req'[w] = r
        /\ \A x \in Requests \ {w} : req'[x] = req[x]
    BY <2>2, <2>3, Moves
  <2>5. /\ new \in States /\ new # None
        /\ new.ends = memory[s].ends /\ new.count = memory[s].count + 1
        /\ new.active = memory[s].active + 1
    <3>1. memory[s] \in States
      BY <1>7, <2>1
    <3>2. PICK e \in Ends, c \in 0 .. MaxPerSession, a \in 0 .. SessionLimit :
            memory[s] = [ends |-> e, count |-> c, active |-> a]
      BY <3>1 DEF States
    <3>3. new = [ends |-> e, count |-> c + 1, active |-> a + 1]
      <4>1. new = [[ends |-> e, count |-> c, active |-> a] EXCEPT
                    !.count = c + 1, !.active = a + 1]
        BY <3>2
      <4>2. new = [[[ends |-> e, count |-> c, active |-> a] EXCEPT !.count = c + 1]
                    EXCEPT !.active = a + 1]
        BY <4>1
      <4>3. [[ends |-> e, count |-> c, active |-> a] EXCEPT !.count = c + 1] =
              [ends |-> e, count |-> c + 1, active |-> a]
        OBVIOUS
      <4>4. [[ends |-> e, count |-> c + 1, active |-> a] EXCEPT !.active = a + 1] =
              [ends |-> e, count |-> c + 1, active |-> a + 1]
        OBVIOUS
      <4> HIDE DEF new
      <4> QED
        BY <4>2, <4>3, <4>4
    <3>4. c + 1 \in 0 .. MaxPerSession /\ a + 1 \in 0 .. SessionLimit
      BY <2>1, <3>2, ParametersAreNumbers
    <3>5. new \in States
      BY <3>3, <3>4 DEF States
    <3> QED
      BY <3>2, <3>3, <3>5, NoneIsNoRecord
  <2>6. /\ memory' \in [Sessions -> States \cup {None}]
        /\ memory'[s] = new
        /\ \A t \in Sessions \ {s} : memory'[t] = Kept[t]
    <3>1. memory' = [Kept EXCEPT ![s] = new]
      BY <1>5, <2>1, <2>2
    <3> HIDE DEF new
    <3> QED
      BY <1>3, <2>5, <3>1 DEF KeptSound
  <2> HIDE DEF new
  <2>7. Known' = Stay
    BY <2>1, <2>5, <2>6 DEF Known
  <2>8. Queue(order, Known)'
    BY <1>2, <1>3, <2>7 DEF KeptSound
  <2>9. SessionInv(s)'
    <3>1. rows[s] # None /\ rows[s] \in Rows
      BY <1>1, <1>2, <1>4 DEF RequestInv, Serving, At, TypeOK
    <3>2. /\ granted[s] \in Nat /\ granted'[s] = granted[s] + 1 /\ rows[s].count \in Nat
          /\ memory[s].count \in Nat
      BY <1>7, <2>1, <2>2, <3>1, ParametersAreNumbers DEF TypeOK, Rows
    <3>3. s \in Known' /\ s \in Known
      BY <2>1, <2>7
    <3> QED
      BY <1>2, <1>4, <2>5, <2>6, <3>1, <3>2, <3>3 DEF SessionInv, Open
  <2>10. granted' \in [Sessions -> 0 .. MaxPerSession]
    <3>1. Open(s)
      BY <1>1, <1>2, <1>4, <2>1 DEF RequestInv, SessionInv, Open, Serving, At
    <3>2. granted[s] <= memory[s].count /\ granted[s] \in Nat /\ memory[s].count \in Nat
      BY <1>4, <1>7, <2>1, <3>1, ParametersAreNumbers DEF SessionInv, TypeOK
    <3>3. granted[s] + 1 \in 0 .. MaxPerSession
      BY <2>1, <3>2, ParametersAreNumbers
    <3> QED
      BY <2>2, <3>3 DEF TypeOK
  <2>11. window' \in [ends : 0 .. MaxTime + Window, count : 0 .. MaxPerWindow]
    <3>1. Rolled \in [ends : 0 .. MaxTime + Window, count : 0 .. MaxPerWindow]
      BY ParametersAreNumbers DEF Rolled, FreshWindow, TypeOK, Time
    <3> QED
      BY <2>1, <2>2, <3>1, ParametersAreNumbers
  <2>12. TypeOK'
    <3>1. running' \in 0 .. GlobalLimit
      <4>1. running \in 0 .. GlobalLimit
        BY DEF TypeOK
      <4>2. running < GlobalLimit /\ running' = running + 1
        BY <2>1, <2>2
      <4> QED
        BY <4>1, <4>2, ParametersAreNumbers
    <3> QED
      BY <1>2, <2>4, <2>6, <2>8, <2>10, <2>11, <3>1 DEF TypeOK, States, Queue
  <2>13. SlotsAccounted'
    <3> DEFINE Runners == {x \in Requests : At(x, "run")}
    <3>1. Runners' = Runners \cup {w} /\ w \notin Runners
      BY <1>2, <2>4 DEF At
    <3>2. InRun(s)' = InRun(s) \cup {w} /\ w \notin InRun(s)
      BY <1>2, <2>4 DEF At, InRun
    <3>3. \A t \in Sessions \ {s} : InRun(t)' = InRun(t)
      BY <1>2, <2>4 DEF At, InRun
    <3>4. IsFiniteSet(Runners) /\ IsFiniteSet(InRun(s))
      BY FiniteRequests, FS_Subset DEF InRun
    <3>5. running' = Cardinality(Runners')
      <4>1. running = Cardinality(Runners)
        BY DEF SlotsAccounted
      <4> HIDE DEF Runners
      <4>2. Cardinality(Runners \cup {w}) = Cardinality(Runners) + 1
        BY <3>1, <3>4, FS_AddElement
      <4> QED
        BY <2>2, <3>1, <4>1, <4>2
    <3>6. memory'[s].active = Cardinality(InRun(s)')
      <4>1. memory[s].active = Cardinality(InRun(s))
        BY <2>1 DEF SlotsAccounted
      <4>2. Cardinality(InRun(s) \cup {w}) = Cardinality(InRun(s)) + 1
        BY <3>2, <3>4, FS_AddElement
      <4> QED
        BY <2>5, <2>6, <3>2, <4>1, <4>2
    <3>7. \A t \in Sessions : IF t \in Known' THEN memory'[t].active = Cardinality(InRun(t)')
                                              ELSE InRun(t)' = {}
      <4>1. ASSUME NEW t \in Sessions, t # s
            PROVE  IF t \in Known' THEN memory'[t].active = Cardinality(InRun(t)')
                                    ELSE InRun(t)' = {}
        BY <1>5, <1>6, <2>6, <2>7, <3>3, <4>1 DEF SlotsAccounted
      <4> QED
        BY <2>1, <2>7, <3>6, <4>1
    <3> QED
      BY <3>5, <3>7 DEF SlotsAccounted
  <2>14. Steady
    <3>1. \A t \in Known : IF Kept[t] # None
            THEN /\ memory'[t] # None
                 /\ memory'[t].ends = memory[t].ends
                 /\ memory[t].count <= memory'[t].count
            ELSE memory'[t] = None
      <4>1. ASSUME NEW t \in Known, t # s
            PROVE  IF Kept[t] # None
                   THEN /\ memory'[t] # None
                        /\ memory'[t].ends = memory[t].ends
                        /\ memory[t].count <= memory'[t].count
                   ELSE memory'[t] = None
        <5>1. t \in Sessions /\ memory'[t] = Kept[t]
          BY <2>6, <4>1 DEF Known
        <5> QED
          BY <1>5, <1>7, <5>1
      <4>2. memory'[s] # None /\ memory'[s].ends = memory[s].ends
            /\ memory[s].count <= memory'[s].count
        BY <1>7, <2>1, <2>5, <2>6
      <4> QED
        BY <2>1, <4>1, <4>2
    <3> QED
      BY <1>2, <2>6, <3>1, EvictionIsSteady
  <2>15. ASSUME NEW t \in Sessions, t # s PROVE SessionInv(t)'
    <3>1. granted'[t] = granted[t]
      BY <2>2, <2>15 DEF TypeOK
    <3> QED
      BY <1>5, <2>7, <2>14, <3>1, SteadySession
  <2>16. \A x \in Requests \ {w} : RequestInv(x)'
    BY <1>5, <2>4, <2>7, <2>14, SteadyRequest
  <2>17. RequestInv(w)'
    BY <1>1, <1>2, <1>4, <2>1, <2>4, <2>7 DEF RequestInv, SaveInv, At, Open, Serving
  <2> QED
    BY <2>8, <2>9, <2>12, <2>13, <2>15, <2>16, <2>17 DEF WindowInv
<1> QED
  BY <1>8, <1>9

LEMMA RegisterSound ==
  ASSUME AdmissionInv, NEW w \in Requests, NEW s \in Sessions, Register(w, s)
  PROVE  AdmissionInv'
<1> USE DEF AdmissionInv
<1> DEFINE Stay == {t \in Sessions : Kept[t] # None}
           Enters == Cardinality(Known \ Forgotten) < MaxSessions
<1>1. At(w, "idle") /\ Unused(s) /\ UNCHANGED <<now, restarts, window, running, rows, granted>>
  BY DEF Register
<1>2. KeptSound
  BY Eviction
<1>3. Stay \subseteq Known /\ \A t \in Stay : Kept[t] = memory[t]
  BY <1>2 DEF KeptSound
<1>4. s \notin Known /\ s \notin Stay /\ rows[s] = None
  BY <1>1, <1>3 DEF Unused, Known
<1>5. ASSUME NEW t \in Sessions, t \notin Stay PROVE InRun(t) = {}
  <2>1. t \in Known => memory[t].active = 0
    BY <1>2, <1>5 DEF KeptSound
  <2>2. IsFiniteSet(InRun(t))
    BY FiniteRequests, FS_Subset DEF InRun
  <2> QED
    BY <2>1, <2>2, FS_EmptySet DEF SlotsAccounted
<1>6. \A t \in Known : memory[t] # None /\ memory[t] \in States /\ memory[t].count \in Nat
  BY ParametersAreNumbers DEF Known, TypeOK, States
<1>7. ASSUME memory' \in [Sessions -> States \cup {None}],
             \A t \in Sessions \ {s} : memory'[t] = Kept[t],
             req' \in [Requests -> InRequest],
             \A x \in Requests \ {w} : req'[x] = req[x],
             req'[w].pc # "run",
             memory'[s] = None \/ memory'[s].active = 0,
             Queue(order, Known)',
             req'[w].pc # "save" \/ req'[w].session = s,
             SessionInv(s)', RequestInv(w)'
      PROVE  AdmissionInv'
  <2>1. \A t \in Sessions : t # s => (t \in Known' <=> t \in Stay)
    BY <1>7 DEF Known
  <2>2. TypeOK'
    BY <1>1, <1>7 DEF TypeOK, States, Queue
  <2>3. SlotsAccounted'
    <3>1. {x \in Requests : At(x, "run")}' = {x \in Requests : At(x, "run")}
      BY <1>1, <1>7 DEF At
    <3>2. \A t \in Sessions : InRun(t)' = InRun(t)
      BY <1>1, <1>7 DEF At, InRun
    <3>3. InRun(s) = {} /\ Cardinality(InRun(s)) = 0
      BY <1>4, <1>5, FS_EmptySet
    <3>4. \A t \in Sessions : IF t \in Known' THEN memory'[t].active = Cardinality(InRun(t)')
                                              ELSE InRun(t)' = {}
      <4>1. ASSUME NEW t \in Sessions, t # s
            PROVE  IF t \in Known' THEN memory'[t].active = Cardinality(InRun(t)')
                                    ELSE InRun(t)' = {}
        BY <1>3, <1>5, <1>7, <2>1, <3>2, <4>1 DEF SlotsAccounted
      <4>2. IF s \in Known' THEN memory'[s].active = Cardinality(InRun(s)') ELSE InRun(s)' = {}
        BY <1>7, <3>2, <3>3 DEF Known
      <4> QED
        BY <4>1, <4>2
    <3> QED
      BY <1>1, <3>1, <3>4 DEF SlotsAccounted
  <2>4. Steady
    <3>1. \A t \in Known : IF Kept[t] # None
            THEN /\ memory'[t] # None
                 /\ memory'[t].ends = memory[t].ends
                 /\ memory[t].count <= memory'[t].count
            ELSE memory'[t] = None
      <4>1. ASSUME NEW t \in Known
            PROVE  IF Kept[t] # None
                   THEN /\ memory'[t] # None
                        /\ memory'[t].ends = memory[t].ends
                        /\ memory[t].count <= memory'[t].count
                   ELSE memory'[t] = None
        <5>1. t \in Sessions /\ t # s
          BY <1>4 DEF Known
        <5>2. memory'[t] = Kept[t]
          BY <1>7, <5>1
        <5> QED
          BY <1>3, <1>6, <5>1, <5>2
      <4> QED
        BY <4>1
    <3> QED
      BY <1>1, <1>7, <3>1, EvictionIsSteady
  <2>5. ASSUME NEW t \in Sessions, t # s PROVE SessionInv(t)'
    BY <1>1, <1>3, <2>1, <2>4, <2>5, SteadySession
  <2>6. ASSUME NEW x \in Requests, x # w PROVE RequestInv(x)'
    <3>1. RequestInv(x)
      BY DEF WindowInv
    <3>2. ~ At(x, "idle") => req[x].session \in Sessions /\ req[x].session # s
      <4>1. ~ At(x, "idle") => req[x].session \in Sessions /\ req[x].pc \in Serving \cup {"save"}
        BY RequestParts DEF At
      <4>2. req[x].pc \in Serving => rows[req[x].session] # None
        BY <3>1 DEF RequestInv
      <4>3. At(x, "save") => req[x].session # s
        BY <1>1 DEF Unused
      <4> QED
        BY <1>4, <4>1, <4>2, <4>3 DEF At
    <3>3. ~ At(x, "idle") => req[x].session \in Known \/ req[x].session \notin Known'
      BY <1>3, <2>1, <3>2
    <3>4. CASE At(x, "idle")
      BY <1>7, <2>6, <3>4 DEF RequestInv, SaveInv, At, Serving
    <3>5. CASE ~ At(x, "idle")
      <4>1. \A y \in Requests : req'[y] = req[y] \/ req'[y].pc # "save"
                                \/ req'[y].session # req[x].session
        BY <1>7, <3>2, <3>5
      <4> QED
        BY <1>7, <2>4, <2>6, <3>3, <4>1, SteadyRequest
    <3> QED
      BY <3>4, <3>5
  <2> QED
    BY <1>7, <2>2, <2>3, <2>5, <2>6 DEF WindowInv
<1>8. Queue(KeptOrder, Stay)
  BY <1>2 DEF KeptSound
<1>9. SessionInv(s)
  BY DEF WindowInv
<1>10. granted[s] = 0
  <2>1. granted[s] \in Nat
    BY ParametersAreNumbers DEF TypeOK
  <2> QED
    BY <1>4, <1>9, <2>1 DEF SessionInv
<1>11. SessionInv(s)'
  BY <1>1, <1>4, <1>10 DEF SessionInv, Open
<1>12. CASE Enters
  <2> DEFINE r == [pc |-> "save", session |-> s, ends |-> now + TTL]
             new == NewState(now + TTL, 0)
  <2>1. /\ memory' = [Kept EXCEPT ![s] = new]
        /\ order' = Append(KeptOrder, s)
        /\ Go(w, r)
    BY <1>12 DEF Register
  <2>2. now + TTL \in Ends
    BY ParametersAreNumbers DEF Ends, TypeOK, Time
  <2>3. r \in InRequest
    BY <2>2 DEF InRequest
  <2>4. /\ req' \in [Requests -> InRequest]
        /\ req'[w] = r
        /\ \A x \in Requests \ {w} : req'[x] = req[x]
    BY <2>1, <2>3, Moves
  <2>5. new \in States /\ new # None /\ new.ends = now + TTL /\ new.active = 0
    BY <2>2, NoneIsNoRecord, ParametersAreNumbers DEF NewState, States
  <2> HIDE DEF new
  <2>6. /\ memory' \in [Sessions -> States \cup {None}]
        /\ memory'[s] = new
        /\ \A t \in Sessions \ {s} : memory'[t] = Kept[t]
    BY <1>2, <2>1, <2>5 DEF KeptSound
  <2>7. Known' = Stay \cup {s}
    BY <2>5, <2>6 DEF Known
  <2>8. Queue(order, Known)'
    <3>1. Stay \subseteq Sessions
      OBVIOUS
    <3> HIDE DEF Stay
    <3> QED
      BY <1>4, <1>8, <2>1, <2>7, <3>1, Enqueued
  <2>9. RequestInv(w)'
    <3>1. \A x \in Requests : At(x, "save")' /\ req'[x].session = s => x = w
      BY <1>1, <2>4 DEF Unused, At
    <3> QED
      BY <1>1, <1>4, <2>4, <2>5, <2>6, <2>7, <3>1 DEF RequestInv, SaveInv, At, Serving
  <2> QED
    BY <1>7, <1>11, <2>4, <2>5, <2>6, <2>8, <2>9
<1>13. CASE ~ Enters
  <2>1. memory' = Kept /\ order' = KeptOrder /\ req' = req
    BY <1>13 DEF Register
  <2>2. Known' = Stay
    BY <2>1 DEF Known
  <2>3. Queue(order, Known)'
    BY <1>8, <2>1, <2>2
  <2>4. RequestInv(w)'
    BY <1>1, <2>1 DEF RequestInv, SaveInv, At, Serving
  <2>5. memory'[s] = None
    BY <1>4, <2>1
  <2> QED
    BY <1>1, <1>2, <1>7, <1>11, <2>1, <2>3, <2>4, <2>5 DEF KeptSound, TypeOK, At
<1> QED
  BY <1>12, <1>13

--------------------------------------------------------------------------------
(* The invariant holds throughout: every operation, the clock and a restart keep it. *)
THEOREM AdmissionInvariant == Spec => []AdmissionInv
<1>1. AdmissionInv /\ [Next]_vars => AdmissionInv'
  <2> SUFFICES ASSUME AdmissionInv, [Next]_vars PROVE AdmissionInv'
    OBVIOUS
  <2>1. CASE Tick
    BY <2>1, TickSound
  <2>2. CASE Restart
    BY <2>2, RestartSound
  <2>3. ASSUME NEW w \in Requests, NEW s \in Sessions, Register(w, s) \/ Lookup(w, s)
        PROVE  AdmissionInv'
    BY <2>3, RegisterSound, LookupSound
  <2>4. ASSUME NEW w \in Requests, Serve(w) PROVE AdmissionInv'
    BY <2>4, SaveRowSound, EnsureSound, AdmitSound, ReleaseSound, FailRequestSound,
       SyncReadSound, SyncWriteSound DEF Serve
  <2>5. CASE UNCHANGED vars
    <3> USE <2>5 DEF vars, AdmissionInv
    <3>1. TypeOK' /\ Known' = Known
      BY DEF TypeOK, Known
    <3>2. SlotsAccounted'
      BY <3>1 DEF SlotsAccounted, At, InRun
    <3>3. Queue(order, Known)'
      BY <3>1 DEF Queue
    <3>4. WindowInv'
      BY <3>1 DEF WindowInv, SessionInv, RequestInv, SaveInv, At, Open
    <3> QED
      BY <3>3, <3>4, <3>1, <3>2
  <2> QED
    BY <2>3, <2>4, <2>5, <2>1, <2>2 DEF Next
<1> QED
  BY InitSound, <1>1, PTL DEF Spec

(* Every variable keeps to its type, and no counter of the admission exceeds its ceiling:
   concurrency of a session and of the process, quota, and window. *)
THEOREM TypeCorrect == Spec => []TypeOK
<1>1. AdmissionInv => TypeOK
  BY DEF AdmissionInv
<1> QED
  BY <1>1, AdmissionInvariant, PTL

(* The counters are the generations in flight, and the eviction queue is the memory. *)
THEOREM MemoryAddsUp == Spec => []MemoryAccounted
<1>1. AdmissionInv => MemoryAccounted
  <2> SUFFICES ASSUME AdmissionInv PROVE QueuedForEviction
    BY DEF AdmissionInv, MemoryAccounted
  <2>1. Queue(order, Known) /\ order \in Seq(Sessions) /\ Len(order) \in Nat
    BY DEF AdmissionInv, Queue
  <2>2. {order[i] : i \in DOMAIN order} = Known
    BY <2>1 DEF Queue
  <2>3. order \in Bijection(1 .. Len(order), Known)
    <3>1. order \in [1 .. Len(order) -> Known]
      BY <2>1 DEF Queue
    <3>2. order \in Injection(1 .. Len(order), Known)
      BY <2>1, <3>1 DEF Queue, Injection, IsInjective
    <3>3. order \in Surjection(1 .. Len(order), Known)
      BY <2>1, <3>1 DEF Queue, Surjection
    <3> QED
      BY <3>2, <3>3 DEF Bijection
  <2>4. IsFiniteSet(1 .. Len(order)) /\ Cardinality(1 .. Len(order)) = Len(order)
    BY <2>1, FS_Interval
  <2>5. Cardinality(Known) = Len(order)
    BY <2>3, <2>4, FS_Bijection DEF ExistsBijection
  <2> QED
    BY <2>2, <2>5 DEF QueuedForEviction
<1> QED
  BY <1>1, AdmissionInvariant, PTL

(* No session is granted more than its quota while the process lives, and its row is never
   ahead of the memory inside its window. *)
THEOREM QuotaStands == Spec => []QuotaIsKept
<1>1. AdmissionInv => QuotaIsKept
  <2> SUFFICES ASSUME AdmissionInv PROVE QuotaHolds /\ RowNeverAhead
    BY DEF QuotaIsKept
  <2>1. QuotaHolds
    BY ParametersAreNumbers DEF AdmissionInv, TypeOK, QuotaHolds
  <2>2. RowNeverAhead
    BY DEF AdmissionInv, WindowInv, SessionInv, Open, RowNeverAhead, Known
  <2> QED
    BY <2>1, <2>2
<1> QED
  BY <1>1, AdmissionInvariant, PTL

(* A request with a window left finds its session in memory when it asks to be admitted. *)
THEOREM NeverForgotten == Spec => []KnownUntilAdmitted
<1>1. AdmissionInv => KnownUntilAdmitted
  BY DEF AdmissionInv, WindowInv, RequestInv, KnownUntilAdmitted, Open, At, Serving
<1> QED
  BY <1>1, AdmissionInvariant, PTL

================================================================================
