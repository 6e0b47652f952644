------------------------------ MODULE BridgeRelay ------------------------------
(***************************************************************************)
(* The relay between generation workers and the bridges of the players:    *)
(* the registry of connections with its single job slot, the WebSocket     *)
(* handler of every link, the rows of the bridge sessions, and the         *)
(* provider that a worker calls.                                           *)
(*                                                                         *)
(* Two kinds of threads meet here.  The handlers of all links run on one   *)
(* event loop, so each runs alone from one await to the next; workers and  *)
(* status requests run in threads of their own.  The lock of the registry  *)
(* and the lock of a connection's slot are different locks, and a worker   *)
(* looks up, begins and sends in three steps.                              *)
(*                                                                         *)
(* A link is one physical connection and the BridgeConnection made for it. *)
(* The check of the epoch is a check that the registry holds this link.    *)
(* Settling a waiter is one step with clearing its slot: nothing else can  *)
(* settle it, and a worker that stops waiting in between does what it does *)
(* when it stops before.  Frames of the peer that carry no result are      *)
(* Touch; the rate limits before a handshake are left out, for they only   *)
(* end a link.                                                             *)
(***************************************************************************)
EXTENDS Naturals, FiniteSets

CONSTANTS
  Links,        \* physical connections
  Sessions,     \* bridge sessions
  Calls,        \* calls of RemoteClientProvider.generate; a call's job id is the call
  Scopes,       \* creator sessions
  ScopeOf,      \* bridge session -> creator session
  CallScope,    \* call -> creator session
  Grace,        \* bridge_reconnect_grace_seconds
  Ttl,          \* bridge_session_ttl_seconds
  MaxRegistry,  \* bridge_max_registry_sessions
  MaxTime,      \* bound of the clock
  None

ASSUME RelayParameters ==
  /\ ScopeOf \in [Sessions -> Scopes]
  /\ CallScope \in [Calls -> Scopes]
  /\ {Grace, Ttl, MaxTime} \subseteq Nat
  /\ MaxRegistry \in Nat \ {0}
  /\ IsFiniteSet(Sessions) /\ IsFiniteSet(Links)
  /\ None \notin Links \cup Sessions \cup Calls \cup {"error"}
  /\ "error" \notin Calls

ASSUME NoneIsNoBinding == None \notin [link : Links, prior : SUBSET Links]

Times == 0 .. MaxTime

(* A result is the answer to the job of a call, or an error, whatever its code. *)
Results == Calls \cup {"error"}

Phases == {"new", "accepted", "open", "ended"}
Steps  == {"idle", "looked", "begun", "sending", "waiting", "giving up", "done"}

VARIABLES
  now,       \* the clock
  phase,     \* link -> where its handler is
  session,   \* link -> the bridge session it asks for
  at,        \* link -> the time its handler took when it accepted it, until it is bound
  epoch,     \* link -> connection_epoch, 0 before it is bound
  live,      \* link -> connected, with its socket
  dropped,   \* link -> disconnected_at, for a link that the registry may still hold
  job,       \* link -> current_job_id
  atPeer,    \* link -> jobs that the peer has received
  registry,  \* session -> the link that _by_id holds for it
  binding,   \* bind between its two steps: the new link and the one it supersedes
  row,       \* session -> its row
  sweep,     \* session -> how far a cleanup has come with it
  step,      \* call -> where its worker is
  link,      \* call -> the link it was given
  waiter,    \* call -> what its waiter was resolved with
  outcome    \* call -> how it ended

conns == <<phase, session, at, epoch, live, dropped, atPeer>>
slots == <<job, waiter>>
calls == <<step, link, outcome>>
vars  == <<now, conns, slots, registry, binding, row, sweep, calls>>

Init ==
  /\ now = 0
  /\ phase = [l \in Links |-> "new"]
  /\ session = [l \in Links |-> None]
  /\ at = [l \in Links |-> 0]
  /\ epoch = [l \in Links |-> 0]
  /\ live = [l \in Links |-> FALSE]
  /\ dropped = [l \in Links |-> None]
  /\ job = [l \in Links |-> None]
  /\ atPeer = [l \in Links |-> {}]
  /\ registry = [s \in Sessions |-> None]
  /\ binding = None
  /\ row = [s \in Sessions |-> [paired |-> FALSE, revoked |-> FALSE, seen |-> 0,
                                expires |-> 0]]
  /\ sweep = [s \in Sessions |-> "no"]
  /\ step = [c \in Calls |-> "idle"]
  /\ link = [c \in Calls |-> None]
  /\ waiter = [c \in Calls |-> None]
  /\ outcome = [c \in Calls |-> None]

--------------------------------------------------------------------------------
(* The registry *)

(* bind runs on the loop and holds the lock of the registry. *)
LoopFree == binding = None
Unlocked == binding = None

Registered(reg) == {s \in Sessions : reg[s] # None}

InScope(scope) == {registry[s] : s \in {t \in Registered(registry) : ScopeOf[t] = scope}}

(* The jobs in the slots of ls fail; the slots are free. *)
FailInflight(ls) ==
  /\ job' = [l \in Links |-> IF l \in ls THEN None ELSE job[l]]
  /\ waiter' = [c \in Calls |-> IF \E l \in ls : job[l] = c THEN "error"
                                ELSE waiter[c]]

(* A cleanup fails the job of an entry and marks the entry after.  The slot has a lock
   of its own: a call that begins, or hands its frame over, in between keeps it. *)
FailSwept(ls) ==
  \E missed \in SUBSET {l \in ls : job[l] # None /\ step[job[l]] \in {"begun", "sending"}} :
    FailInflight(ls \ missed)

(* The links that bind supersedes: that of the same session, or else that of another
   session of the same scope. *)
Prior(l) ==
  IF registry[session[l]] # None THEN {registry[session[l]]}
  ELSE InScope(ScopeOf[session[l]])

(* Sessions that a cleanup at time t drops. *)
Stale(reg, rows, t) ==
  {s \in Registered(reg) :
     \/ t >= rows[s].expires
     \/ dropped[reg[s]] # None /\ t > dropped[reg[s]] + Grace}

(* Entries that the bound of the registry drops: dead or expired ones, as many as it
   takes.  The oldest go first; which are the oldest is left open. *)
Evictions(reg, alive, rows, t) ==
  LET dead == {s \in Registered(reg) : ~alive[reg[s]] \/ t >= rows[s].expires}
      size == Cardinality(Registered(reg))
  IN {e \in SUBSET dead :
        \/ size <= MaxRegistry /\ e = {}
        \/ size > MaxRegistry /\ (e = dead \/ Cardinality(e) = size - MaxRegistry)
             /\ size - Cardinality(e) >= MaxRegistry}

Without(reg, gone) == [s \in Sessions |-> IF s \in gone THEN None ELSE reg[s]]

Revoked(rows, gone) == [s \in Sessions |-> [rows[s] EXCEPT !.revoked = @ \/ s \in gone]]

(* The new link takes its place and the links ps give way; the bound is enforced; a
   cleanup runs inside the lock, with the time that the handler took when it accepted
   the link.  rows are the rows as the handshake leaves them. *)
Register(l, ps, rows) ==
  LET t     == at[l]
      freed == Without(registry, {s \in Sessions : registry[s] \in ps})
      reg   == [freed EXCEPT ![session[l]] = l]
      alive == [k \in Links |-> k = l \/ (live[k] /\ k \notin ps)]
  IN \E e \in Evictions(reg, alive, rows, t) :
       LET kept  == Without(reg, e)
           stale == Stale(kept, rows, t)
           ends  == {kept[s] : s \in stale}
       IN /\ registry' = Without(kept, stale)
          /\ live' = [k \in Links |-> alive[k] /\ k \notin ends]
          /\ at' = [at EXCEPT ![l] = 0]
          /\ FailSwept({k \in ends : alive[k]})
          /\ row' = Revoked(rows, stale)
          /\ phase' = [phase EXCEPT ![l] = "open"]
          /\ epoch' = [epoch EXCEPT ![l] = 1 + Cardinality({k \in Links : epoch[k] > 0})]
          /\ binding' = None

(* bind.  Without a prior connection it is one step.  Otherwise the job of the prior
   fails first and its state changes after, and a worker may act in between: the slot
   has a lock of its own. *)
Bind(l, rows) ==
  \/ /\ Prior(l) = {}
     /\ Register(l, {}, rows)
  \/ /\ Prior(l) # {}
     /\ FailInflight(Prior(l))
     /\ binding' = [link |-> l, prior |-> Prior(l)]
     /\ row' = rows
     /\ UNCHANGED <<registry, live, at, phase, epoch>>

FinishBind ==
  /\ binding # None
  /\ Register(binding.link, binding.prior, row)
  /\ UNCHANGED <<now, session, dropped, atPeer, sweep, calls>>

--------------------------------------------------------------------------------
(* The handler of a link *)

(* A peer connects; the handler takes the time before it waits for the first frame. *)
Accept(l, s) ==
  /\ LoopFree
  /\ phase[l] = "new"
  /\ phase' = [phase EXCEPT ![l] = "accepted"]
  /\ session' = [session EXCEPT ![l] = s]
  /\ at' = [at EXCEPT ![l] = now]
  /\ UNCHANGED <<now, epoch, live, dropped, atPeer, slots, registry, binding, row, sweep,
                 calls>>

(* pairing_hello: the code is consumed once and the session is created. *)
Pair(l) ==
  /\ LoopFree
  /\ phase[l] = "accepted"
  /\ ~row[session[l]].paired
  /\ Bind(l, [row EXCEPT ![session[l]] =
                [paired |-> TRUE, revoked |-> FALSE, seen |-> at[l],
                 expires |-> at[l] + Ttl]])
  /\ UNCHANGED <<now, session, dropped, atPeer, sweep, calls>>

(* bridge_hello: the token is checked against the row as it is, with the time that was
   taken before the frame arrived. *)
Authentic(r, t) ==
  /\ r.paired
  /\ ~r.revoked
  /\ t < r.expires
  /\ t <= r.seen + Grace

Reconnect(l) ==
  /\ LoopFree
  /\ phase[l] = "accepted"
  /\ Authentic(row[session[l]], at[l])
  /\ Bind(l, row)
  /\ UNCHANGED <<now, session, dropped, atPeer, sweep, calls>>

(* The handshake is refused, or no first frame comes. *)
Refuse(l) ==
  /\ LoopFree
  /\ phase[l] = "accepted"
  /\ phase' = [phase EXCEPT ![l] = "ended"]
  /\ session' = [session EXCEPT ![l] = None]
  /\ at' = [at EXCEPT ![l] = 0]
  /\ UNCHANGED <<now, epoch, live, dropped, atPeer, slots, registry, binding, row, sweep,
                 calls>>

(* mark_seen and its touch of the row, which is made for some of the frames only. *)
Touch(l) ==
  /\ LoopFree
  /\ phase[l] = "open"
  /\ row' = [row EXCEPT ![session[l]].seen = now]
  /\ UNCHANGED <<now, conns, slots, registry, binding, sweep, calls>>

(* Mutant: any result is taken for the job in the slot. *)
MatchesAny(l, c) == job[l] # None

Matches(l, c) == job[l] = c

(* A job_result.  One that is not for the job in the slot of this link is discarded, and
   so is one that comes again. *)
Result(l, c, v) ==
  /\ LoopFree
  /\ phase[l] = "open"
  /\ c \in atPeer[l]
  /\ v \in {c, "error"}
  /\ IF Matches(l, c)
     THEN /\ waiter' = [waiter EXCEPT ![job[l]] = v]
          /\ job' = [job EXCEPT ![l] = None]
     ELSE UNCHANGED slots
  /\ UNCHANGED <<now, conns, registry, binding, row, sweep, calls>>

(* Mutant: whatever is registered for the session is detached. *)
DetachedAlways(l) == {registry[session[l]]} \ {None}

(* A handler detaches its own connection only. *)
Detached(l) == {registry[session[l]]} \cap {l}

(* The receive loop ends, whatever the reason: detach, then the disconnect is written
   if the store takes it. *)
Leave(l) ==
  /\ LoopFree
  /\ phase[l] = "open"
  /\ phase' = [phase EXCEPT ![l] = "ended"]
  /\ live' = [k \in Links |-> live[k] /\ k \notin Detached(l)]
  /\ dropped' = [k \in Links |-> IF k \in Detached(l) THEN now ELSE dropped[k]]
  /\ FailInflight(Detached(l))
  /\ \/ row' = row
     \/ Detached(l) # {} /\ row' = [row EXCEPT ![session[l]].seen = now]
  /\ atPeer' = [atPeer EXCEPT ![l] = {}]
  /\ UNCHANGED <<now, session, at, epoch, registry, binding, sweep, calls>>

--------------------------------------------------------------------------------
(* expiry_cleanup from a worker or a status request *)

(* Under the lock the dropped entries are marked; they are removed after. *)
Collect ==
  LET stale == Stale(registry, row, now)
      ends  == {registry[s] : s \in stale}
  IN /\ Unlocked
     /\ stale # {}
     /\ \A s \in Sessions : sweep[s] = "no"
     /\ sweep' = [s \in Sessions |-> IF s \in stale THEN "collected" ELSE "no"]
     /\ live' = [l \in Links |-> live[l] /\ l \notin ends]
     /\ FailSwept({l \in ends : live[l]})
     /\ UNCHANGED <<now, phase, session, at, epoch, dropped, atPeer, registry, binding,
                    row, calls>>

(* Without the lock: whatever is registered for the session goes. *)
Discard(s) ==
  /\ sweep[s] = "collected"
  /\ registry' = [registry EXCEPT ![s] = None]
  /\ sweep' = [sweep EXCEPT ![s] = "discarded"]
  /\ UNCHANGED <<now, conns, slots, binding, row, calls>>

(* The row is revoked, if the store takes it. *)
Revoke(s) ==
  /\ sweep[s] = "discarded"
  /\ sweep' = [sweep EXCEPT ![s] = "no"]
  /\ row' \in {row, Revoked(row, {s})}
  /\ UNCHANGED <<now, conns, slots, registry, binding, calls>>

--------------------------------------------------------------------------------
(* The worker of a call: RemoteClientProvider.generate *)

(* The worker is done with its connection and its waiter. *)
End(c, result) ==
  /\ step' = [step EXCEPT ![c] = "done"]
  /\ outcome' = [outcome EXCEPT ![c] = result]
  /\ link' = [link EXCEPT ![c] = None]
  /\ waiter' = [waiter EXCEPT ![c] = None]

Go(c, to) ==
  /\ step' = [step EXCEPT ![c] = to]
  /\ UNCHANGED <<outcome, waiter>>

(* lookup_for_scope *)
Usable(l) == live[l] /\ now < row[session[l]].expires

Lookup(c) ==
  /\ Unlocked
  /\ step[c] = "idle"
  /\ \/ \E l \in InScope(CallScope[c]) :
          /\ Usable(l)
          /\ link' = [link EXCEPT ![c] = l]
          /\ Go(c, "looked")
     \/ /\ \A l \in InScope(CallScope[c]) : ~Usable(l)
        /\ End(c, "error")
  /\ UNCHANGED <<now, conns, job, registry, binding, row, sweep>>

(* begin_job.  A connection that has gone since the lookup counts as busy. *)
Begin(c) ==
  /\ step[c] = "looked"
  /\ IF job[link[c]] = None /\ live[link[c]]
     THEN /\ job' = [job EXCEPT ![link[c]] = c]
          /\ Go(c, "begun")
          /\ UNCHANGED link
     ELSE /\ End(c, "error")
          /\ UNCHANGED job
  /\ UNCHANGED <<now, conns, registry, binding, row, sweep>>

(* The frame is handed to the loop if the connection still has its socket. *)
HandOver(c) ==
  /\ step[c] = "begun"
  /\ IF live[link[c]] THEN Go(c, "sending") ELSE Go(c, "giving up")
  /\ UNCHANGED <<now, conns, job, registry, binding, row, sweep, link>>

(* The loop sends it; the worker may have stopped waiting for that. *)
Send(c) ==
  /\ LoopFree
  /\ step[c] = "sending"
  /\ phase[link[c]] = "open"
  /\ atPeer' = [atPeer EXCEPT ![link[c]] = @ \cup {c}]
  /\ Go(c, "waiting") \/ Go(c, "giving up")
  /\ UNCHANGED <<now, phase, session, at, epoch, live, dropped, job, registry, binding,
                 row, sweep, link>>

SendFails(c) ==
  /\ step[c] = "sending"
  /\ Go(c, "giving up")
  /\ UNCHANGED <<now, conns, job, registry, binding, row, sweep, link>>

(* Mutant: the slot is left as it is. *)
SlotKept(c) == job

(* cancel_job clears the slot if it still holds the job. *)
SlotFreed(c) == [job EXCEPT ![link[c]] = IF @ = c THEN None ELSE @]

Cancel(c) ==
  /\ step[c] = "giving up"
  /\ job' = SlotFreed(c)
  /\ End(c, "error")
  /\ UNCHANGED <<now, conns, registry, binding, row, sweep>>

Answered(c) ==
  /\ step[c] = "waiting"
  /\ waiter[c] # None
  /\ End(c, waiter[c])
  /\ UNCHANGED <<now, conns, job, registry, binding, row, sweep>>

(* The wait times out; a result that comes before the job is cancelled is lost. *)
Expire(c) ==
  /\ step[c] = "waiting"
  /\ waiter[c] = None
  /\ Go(c, "giving up")
  /\ UNCHANGED <<now, conns, job, registry, binding, row, sweep, link>>

--------------------------------------------------------------------------------

Tick ==
  /\ now < MaxTime
  /\ now' = now + 1
  /\ UNCHANGED <<conns, slots, registry, binding, row, sweep, calls>>

Handler(l) ==
  \/ \E s \in Sessions : Accept(l, s)
  \/ Pair(l) \/ Reconnect(l) \/ Refuse(l) \/ Touch(l) \/ Leave(l)
  \/ \E c \in Calls, v \in Results : Result(l, c, v)

Worker(c) ==
  \/ Lookup(c) \/ Begin(c) \/ HandOver(c) \/ Send(c) \/ SendFails(c)
  \/ Cancel(c) \/ Answered(c) \/ Expire(c)

Cleanup == Collect \/ \E s \in Sessions : Discard(s) \/ Revoke(s)

Next ==
  \/ Tick
  \/ FinishBind
  \/ \E l \in Links : Handler(l)
  \/ Cleanup
  \/ \E c \in Calls : Worker(c)

Spec == Init /\ [][Next]_vars

--------------------------------------------------------------------------------
(* Properties *)

Rows == [paired : BOOLEAN, revoked : BOOLEAN, seen : Times, expires : 0 .. MaxTime + Ttl]

(* Every variable has its type. *)
TypeOK ==
  /\ now \in Times
  /\ phase \in [Links -> Phases]
  /\ session \in [Links -> Sessions \cup {None}]
  /\ at \in [Links -> Times]
  /\ epoch \in [Links -> 0 .. Cardinality(Links)]
  /\ live \in [Links -> BOOLEAN]
  /\ dropped \in [Links -> Times \cup {None}]
  /\ job \in [Links -> Calls \cup {None}]
  /\ atPeer \in [Links -> SUBSET Calls]
  /\ registry \in [Sessions -> Links \cup {None}]
  /\ binding \in [link : Links, prior : SUBSET Links] \cup {None}
  /\ row \in [Sessions -> Rows]
  /\ sweep \in [Sessions -> {"no", "collected", "discarded"}]
  /\ step \in [Calls -> Steps]
  /\ link \in [Calls -> Links \cup {None}]
  /\ waiter \in [Calls -> Results \cup {None}]
  /\ outcome \in [Calls -> Results \cup {None}]

(* What a call returns as content is the answer to its own job, however late, lost or
   crossed the results of other jobs on its link are (resolve_job, cancel_job). *)
AnswerIsItsOwn ==
  \A c \in Calls : outcome[c] \in Calls => outcome[c] = c

InFlight == {"begun", "sending", "waiting", "giving up"}

(* The slot of a link and the calls agree: a job in a slot belongs to a call that is
   under way on that link, so no link stays busy for ever, and a call whose waiter is
   not resolved still has its slot, so its answer can find it. *)
SlotsMatchCalls ==
  /\ \A l \in Links : job[l] # None =>
       link[job[l]] = l /\ step[job[l]] \in InFlight /\ waiter[job[l]] = None
  /\ \A c \in Calls : step[c] \in InFlight /\ waiter[c] = None => job[link[c]] = c

(* A scope has at most one bridge in the registry: lookup_for_scope has no choice. *)
OneBridgePerScope ==
  \A scope \in Scopes : Cardinality(InScope(scope)) <= 1

(* Links of the same scope that were bound later. *)
Newer(l) ==
  {k \in Links : epoch[k] > epoch[l] /\ ScopeOf[session[k]] = ScopeOf[session[l]]}

(* The newest link of a scope keeps its socket while its handler runs and its session
   lasts: no late teardown of an older link, and no cleanup, takes it away (ADV-248). *)
NewestLinkServes ==
  \A l \in Links :
    phase[l] = "open" /\ Newer(l) = {} /\ now < row[session[l]].expires =>
      live[l] \/ (binding # None /\ l \in binding.prior)

(* A scope is served by one bridge, the newest. *)
ScopeIsServed == OneBridgePerScope /\ NewestLinkServes

(* What bridge_ws says: whatever ends the handler of a link, a worker that waits for an
   answer from it is unblocked. *)
DisconnectUnblocks ==
  \A c \in Calls :
    step[c] = "waiting" /\ phase[link[c]] = "ended" => waiter[c] # None
================================================================================
