-------------------------------- MODULE Admission --------------------------------
(***************************************************************************)
(* Admission of generations under anonymous quota sessions.                *)
(*                                                                         *)
(* One DurableAdmissionController serves every thread of the process.  Its *)
(* counters live in memory and each operation on them runs under one lock, *)
(* so it is one step here.  A durable row of each session remembers the    *)
(* end of its window and a copy of its counter: a process that has not     *)
(* seen the session takes both from the row, and a generation that went    *)
(* through writes the counter back.  Reading the row, registering the      *)
(* session, admission, release, and the two halves of writing back are     *)
(* separate steps of a request; requests interleave between them, and a    *)
(* restart of the process loses the memory and the requests and keeps the  *)
(* rows.                                                                   *)
(*                                                                         *)
(* The generation between admission and release, and the publication after *)
(* it, are other modules' matter: here a request runs, and then either     *)
(* gets as far as writing back or has failed before.                       *)
(***************************************************************************)
EXTENDS Naturals, FiniteSets, FiniteSetsExt, Sequences

CONSTANTS
  Sessions,         \* ids of anonymous quota sessions
  Requests,         \* threads that serve requests (bound)
  MaxSessions,      \* max_sessions
  MaxPerSession,    \* max_generations_per_session_per_window
  SessionLimit,     \* max_concurrent_generations
  GlobalLimit,      \* max_concurrent_generations_global
  MaxPerWindow,     \* max_generations_global_per_window
  Window,           \* global_window_seconds
  TTL,              \* anonymous_quota_session_ttl_seconds, and the grace
  MaxTime,          \* bound on the clock
  MaxRestarts,      \* bound on the restarts
  None

ASSUME AdmissionParameters ==
  /\ {MaxSessions, MaxPerSession, SessionLimit, GlobalLimit, MaxPerWindow,
      Window, TTL} \subseteq Nat \ {0}
  /\ MaxTime \in Nat
  /\ MaxRestarts \in Nat

ASSUME FiniteRequests == IsFiniteSet(Requests)

ASSUME NoneIsNoState ==
  None \notin [ends : Nat, count : Nat] \cup [ends : Nat, count : Nat, active : Nat]

Time == 0 .. MaxTime

VARIABLES
  now,        \* the clock
  restarts,   \* restarts so far
  memory,     \* _sessions: the session's state, or None
  order,      \* _session_order
  window,     \* _global_window_end and _global_generations_in_window
  running,    \* _global_active
  rows,       \* the anonymous_quota_sessions table
  req,        \* the request each thread serves
  granted     \* history: admissions of a session since the process started

vars == <<now, restarts, memory, order, window, running, rows, req, granted>>

Counters == <<memory, order, window, running>>

Idle == [pc |-> "idle"]

Known == {s \in Sessions : memory[s] # None}

At(w, pc)   == req[w].pc = pc
Go(w, r)    == req' = [req EXCEPT ![w] = r]
Done(w)     == Go(w, Idle)
InRun(s)    == {w \in Requests : At(w, "run") /\ req[w].session = s}

--------------------------------------------------------------------------------
(* The operations of the controller, on its state as it is. *)

FreshWindow == [ends |-> now + Window, count |-> 0]
NewState(ends, count) == [ends |-> ends, count |-> count, active |-> 0]

(* Mutant: a session goes although a generation of it is in flight. *)
PastGrace(s) == memory[s].ends + TTL < now

(* A session may be evicted one TTL after its window, unless it is in use. *)
Evictable(s) == memory[s].ends + TTL < now /\ memory[s].active = 0

(* Mutant: the first entry decides for the whole queue. *)
AllEvicted ==
  IF order # <<>> /\ Evictable(order[1]) THEN Len(order) ELSE 0

(* _evict_expired: entries leave at the front, up to the first that stays. *)
Evicted ==
  Min({Len(order)} \cup {i - 1 : i \in {j \in DOMAIN order : ~ Evictable(order[j])}})

Forgotten == {order[i] : i \in 1 .. Evicted}
Kept      == [s \in Sessions |-> IF s \in Forgotten THEN None ELSE memory[s]]
KeptOrder == SubSeq(order, Evicted + 1, Len(order))

Rolled == IF now >= window.ends THEN FreshWindow ELSE window

(* Mutant: the ceiling of the process is not looked at. *)
AdmitsPerSession(s) ==
  /\ Kept[s] # None
  /\ now < Kept[s].ends
  /\ Kept[s].count < MaxPerSession
  /\ Kept[s].active < SessionLimit
  /\ Rolled.count < MaxPerWindow

(* The checks of admit_generation, on the state the eviction leaves. *)
Admits(s) ==
  /\ Kept[s] # None
  /\ now < Kept[s].ends
  /\ Kept[s].count < MaxPerSession
  /\ Kept[s].active < SessionLimit
  /\ running < GlobalLimit
  /\ Rolled.count < MaxPerWindow

ReleasedState(state) == [state EXCEPT !.active = IF @ > 0 THEN @ - 1 ELSE 0]

--------------------------------------------------------------------------------
Init ==
  /\ now = 0
  /\ restarts = 0
  /\ memory = [s \in Sessions |-> None]
  /\ order = <<>>
  /\ window = [ends |-> Window, count |-> 0]
  /\ running = 0
  /\ rows = [s \in Sessions |-> None]
  /\ req = [w \in Requests |-> Idle]
  /\ granted = [s \in Sessions |-> 0]

--------------------------------------------------------------------------------
(* create_anonymous_quota_session of the service: the controller first, then
   the row.  The token is returned with the row, so a session whose row could
   not be written is in memory and unknown to everyone. *)
Unused(s) ==
  /\ memory[s] = None
  /\ rows[s] = None
  /\ \A w \in Requests : ~ (At(w, "save") /\ req[w].session = s)

Register(w, s) ==
  /\ At(w, "idle")
  /\ Unused(s)
  /\ IF Cardinality(Known \ Forgotten) < MaxSessions
       THEN /\ memory' = [Kept EXCEPT ![s] = NewState(now + TTL, 0)]
            /\ order' = Append(KeptOrder, s)
            /\ Go(w, [pc |-> "save", session |-> s, ends |-> now + TTL])
       ELSE memory' = Kept /\ order' = KeptOrder /\ UNCHANGED req
  /\ UNCHANGED <<now, restarts, window, running, rows, granted>>

SaveRow(w) ==
  /\ At(w, "save")
  /\ \/ rows' = [rows EXCEPT ![req[w].session] = [ends |-> req[w].ends, count |-> 0]]
     \/ UNCHANGED rows
  /\ Done(w)
  /\ UNCHANGED <<now, restarts, memory, order, window, running, granted>>

--------------------------------------------------------------------------------
(* A generation: start_case_generation and start_case_version. *)

(* get_session; a session without a row is refused. *)
Lookup(w, s) ==
  /\ At(w, "idle")
  /\ rows[s] # None
  /\ Go(w, [pc |-> "ensure", session |-> s, seen |-> rows[s]])
  /\ UNCHANGED <<now, restarts, memory, order, window, running, rows, granted>>

(* Mutants of rehydrate_session: the counters in memory are overwritten; the
   session is not queued for eviction. *)
RehydratedOver(s, seen) ==
  /\ memory' = [memory EXCEPT ![s] = NewState(seen.ends, seen.count)]
  /\ order' = IF s \in Known THEN order ELSE Append(order, s)

(* rehydrate_session: what the process knows already is authoritative. *)
Rehydrated(s, seen) ==
  IF s \in Known
    THEN UNCHANGED <<memory, order>>
    ELSE /\ memory' = [memory EXCEPT ![s] = NewState(seen.ends, seen.count)]
         /\ order' = Append(order, s)

(* _ensure_admission_ready, with the row as it was read. *)
Ensure(w) ==
  /\ At(w, "ensure")
  /\ Rehydrated(req[w].session, req[w].seen)
  /\ Go(w, [pc |-> "admit", session |-> req[w].session])
  /\ UNCHANGED <<now, restarts, window, running, rows, granted>>

(* admit_generation: the eviction is done whatever the answer is. *)
Admit(w) ==
  LET s == req[w].session
  IN  /\ At(w, "admit")
      /\ order' = KeptOrder
      /\ IF Admits(s)
           THEN /\ memory' = [Kept EXCEPT ![s].count = @ + 1, ![s].active = @ + 1]
                /\ window' = [Rolled EXCEPT !.count = @ + 1]
                /\ running' = running + 1
                /\ granted' = [granted EXCEPT ![s] = @ + 1]
                /\ Go(w, [pc |-> "run", session |-> s])
           ELSE /\ memory' = Kept
                /\ Done(w)
                /\ UNCHANGED <<window, running, granted>>
      /\ UNCHANGED <<now, restarts, rows>>

(* release_generation when the attempt ended. *)
Release(w) ==
  LET s == req[w].session
  IN  /\ At(w, "run")
      /\ IF s \in Known
           THEN /\ memory' = [memory EXCEPT ![s] = ReleasedState(@)]
                /\ running' = IF running > 0 THEN running - 1 ELSE 0
           ELSE UNCHANGED <<memory, running>>
      /\ Go(w, [pc |-> "sync", session |-> s])
      /\ UNCHANGED <<now, restarts, order, window, rows, granted>>

(* The run raised, or its rows or its payload could not be written: the request
   fails and nothing is written back. *)
FailRequest(w) ==
  /\ At(w, "sync")
  /\ Done(w)
  /\ UNCHANGED <<now, restarts, memory, order, window, running, rows, granted>>

(* _sync_generations reads the counter and then writes it, in a transaction of
   its own. *)
SyncRead(w) ==
  LET s == req[w].session
  IN  /\ At(w, "sync")
      /\ Go(w, [pc |-> "write", session |-> s,
                count |-> IF s \in Known THEN memory[s].count ELSE 0])
      /\ UNCHANGED <<now, restarts, memory, order, window, running, rows, granted>>

SyncWrite(w) ==
  /\ At(w, "write")
  /\ rows' = [rows EXCEPT ![req[w].session].count = req[w].count]
  /\ Done(w)
  /\ UNCHANGED <<now, restarts, memory, order, window, running, granted>>

--------------------------------------------------------------------------------
Restart ==
  /\ restarts < MaxRestarts
  /\ restarts' = restarts + 1
  /\ memory' = [s \in Sessions |-> None]
  /\ order' = <<>>
  /\ window' = FreshWindow
  /\ running' = 0
  /\ req' = [w \in Requests |-> Idle]
  /\ granted' = [s \in Sessions |-> 0]
  /\ UNCHANGED <<now, rows>>

Tick ==
  /\ now < MaxTime
  /\ now' = now + 1
  /\ UNCHANGED <<restarts, memory, order, window, running, rows, req, granted>>

Serve(w) ==
  \/ SaveRow(w) \/ Ensure(w) \/ Admit(w) \/ Release(w)
  \/ FailRequest(w) \/ SyncRead(w) \/ SyncWrite(w)

Next ==
  \/ \E w \in Requests :
       \/ \E s \in Sessions : Register(w, s) \/ Lookup(w, s)
       \/ Serve(w)
  \/ Restart
  \/ Tick

Spec == Init /\ [][Next]_vars

--------------------------------------------------------------------------------
(* Properties *)

Ends == 0 .. MaxTime + TTL
Rows == [ends : Ends, count : 0 .. MaxPerSession]
InRequest ==
  {Idle}
  \cup [pc : {"save"}, session : Sessions, ends : Ends]
  \cup [pc : {"ensure"}, session : Sessions, seen : Rows]
  \cup [pc : {"admit", "run", "sync"}, session : Sessions]
  \cup [pc : {"write"}, session : Sessions, count : 0 .. MaxPerSession]

(* Every variable keeps to its type; no counter exceeds its ceiling. *)
TypeOK ==
  /\ now \in Time
  /\ restarts \in 0 .. MaxRestarts
  /\ memory \in [Sessions -> [ends : Ends, count : 0 .. MaxPerSession,
                              active : 0 .. SessionLimit] \cup {None}]
  /\ order \in Seq(Sessions)
  /\ window \in [ends : 0 .. MaxTime + Window, count : 0 .. MaxPerWindow]
  /\ running \in 0 .. GlobalLimit
  /\ rows \in [Sessions -> Rows \cup {None}]
  /\ req \in [Requests -> InRequest]
  /\ granted \in [Sessions -> 0 .. MaxPerSession]

(* The counters of concurrency are exactly the generations in flight, of each
   session and of the process, and the session of a generation in flight is
   never evicted: a slot can neither leak nor be given out twice, however
   releases, evictions and rehydrations interleave. *)
SlotsAccounted ==
  /\ running = Cardinality({w \in Requests : At(w, "run")})
  /\ \A s \in Sessions :
       IF s \in Known THEN memory[s].active = Cardinality(InRun(s))
                      ELSE InRun(s) = {}

(* Every session in memory is queued for eviction exactly once, a rehydrated one
   too: none can stay in memory for ever, and none is evicted twice. *)
QueuedForEviction ==
  /\ {order[i] : i \in DOMAIN order} = Known
  /\ Len(order) = Cardinality(Known)

(* The memory of the admission adds up. *)
MemoryAccounted == SlotsAccounted /\ QueuedForEviction

(* While the process lives, no session is granted more generations than its
   quota, even when several requests register it from rows they read before
   others were admitted. *)
QuotaHolds == \A s \in Sessions : granted[s] <= MaxPerSession

(* In a session's window its row is never ahead of the counter in memory,
   whatever the order requests write it back in: a restart cannot take away
   quota that was not used. *)
RowNeverAhead ==
  \A s \in Known :
    now < memory[s].ends /\ rows[s] # None => rows[s].count <= memory[s].count

(* The quota is kept in memory and in the row. *)
QuotaIsKept == QuotaHolds /\ RowNeverAhead

(* A request whose session is still in its window reaches the admission with
   the session in memory: no eviction, by whichever request, makes it unknown
   in between. *)
KnownUntilAdmitted ==
  \A w \in Requests :
    At(w, "admit") /\ now < rows[req[w].session].ends => req[w].session \in Known
================================================================================
