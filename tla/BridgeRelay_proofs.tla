--------------------------- MODULE BridgeRelay_proofs ---------------------------
(***************************************************************************)
(* Proofs about BridgeRelay, for any number of links, sessions and calls,  *)
(* any lifetimes and any bound of the registry.                            *)
(*                                                                         *)
(* CallInv says that slots and calls know of each other, LinkInv that the  *)
(* registry, the handlers and the rows do: a registered link has been      *)
(* bound and belongs to the session it is registered for, a scope has one  *)
(* entry, and a bind between its two steps holds the links that still      *)
(* stand where the new one will.  Epochs order the links because each one  *)
(* counts those bound before it.                                           *)
(***************************************************************************)
EXTENDS BridgeRelay, FiniteSetTheorems, TLAPS

(* What the worker of a call relies on. *)
CallFacts(c) ==
  /\ step[c] \in {"idle", "looked", "done"} => waiter[c] = None
  /\ step[c] \in InFlight \cup {"looked"} => link[c] \in Links
  /\ waiter[c] \in {None, c, "error"}
  /\ outcome[c] \in {None, c, "error"}

CallInv == SlotsMatchCalls /\ \A c \in Calls : CallFacts(c)

Bound == {k \in Links : epoch[k] > 0}

(* What is so of a link wherever its handler is. *)
LinkFacts(l) ==
  /\ phase[l] \in {"accepted", "open"} \/ epoch[l] > 0 => session[l] \in Sessions
  /\ phase[l] \in {"new", "accepted"} => epoch[l] = 0
  /\ at[l] <= now
  /\ epoch[l] <= Cardinality(Bound)
  /\ phase[l] = "open" => row[session[l]].paired
  /\ dropped[l] # None => phase[l] = "ended"

RegistryFacts ==
  /\ \A s \in Registered(registry) :
       session[registry[s]] = s /\ phase[registry[s]] \in {"open", "ended"}
  /\ \A s, u \in Registered(registry) : ScopeOf[s] = ScopeOf[u] => s = u

(* The link l may be bound in the place of the links ps. *)
MayReplace(l, ps) ==
  /\ phase[l] = "accepted"
  /\ ps \subseteq Links
  /\ \A k \in ps : /\ phase[k] \in {"open", "ended"}
                   /\ session[k] \in Sessions
                   /\ ScopeOf[session[k]] = ScopeOf[session[l]]
  /\ \A s \in Registered(registry) : ScopeOf[s] = ScopeOf[session[l]] => registry[s] \in ps

BindingFacts ==
  binding # None =>
    MayReplace(binding.link, binding.prior) /\ row[session[binding.link]].paired

LinkInv ==
  /\ \A l \in Links : LinkFacts(l)
  /\ RegistryFacts
  /\ BindingFacts

RelayInv == TypeOK /\ LinkInv /\ NewestLinkServes /\ CallInv

--------------------------------------------------------------------------------
(* Steps that leave one side alone *)

linkVars == <<now, phase, session, at, epoch, live, dropped, registry, binding, row>>

LEMMA LinksUntouched ==
  ASSUME LinkInv, NewestLinkServes, UNCHANGED linkVars
  PROVE  LinkInv' /\ NewestLinkServes'
BY DEF LinkInv, LinkFacts, RegistryFacts, BindingFacts, MayReplace, NewestLinkServes,
       Newer, Registered, Bound, linkVars

LEMMA CallsUntouched ==
  ASSUME CallInv, UNCHANGED <<slots, calls>>
  PROVE  CallInv'
BY DEF CallInv, CallFacts, SlotsMatchCalls, slots, calls

(* Failing the jobs in some slots keeps slots and calls together. *)
LEMMA FailingKeepsCalls ==
  ASSUME TypeOK, CallInv, NEW ls \in SUBSET Links, FailInflight(ls), UNCHANGED calls
  PROVE  /\ CallInv'
         /\ job' \in [Links -> Calls \cup {None}]
         /\ waiter' \in [Calls -> Results \cup {None}]
<1>1. /\ job' \in [Links -> Calls \cup {None}]
      /\ waiter' \in [Calls -> Results \cup {None}]
  BY DEF TypeOK, FailInflight, Results
<1>2. ASSUME NEW c \in Calls PROVE CallFacts(c)'
  <2>1. CallFacts(c) /\ waiter'[c] \in {waiter[c], "error"}
    BY DEF CallInv, FailInflight
  <2>2. CASE \E l \in ls : job[l] = c
    <3>1. step[c] \in InFlight
      BY <2>2, RelayParameters DEF CallInv, SlotsMatchCalls
    <3> QED
      BY <2>1, <3>1 DEF CallFacts, calls, InFlight
  <2>3. CASE ~(\E l \in ls : job[l] = c)
    BY <2>1, <2>3 DEF CallFacts, calls, FailInflight
  <2> QED
    BY <2>2, <2>3
<1>3. ASSUME NEW l \in Links, job'[l] # None
      PROVE  link'[job'[l]] = l /\ step'[job'[l]] \in InFlight /\ waiter'[job'[l]] = None
  <2>1. l \notin ls /\ job'[l] = job[l] /\ job[l] \in Calls
    BY <1>3 DEF FailInflight, TypeOK
  <2>2. link[job[l]] = l /\ step[job[l]] \in InFlight /\ waiter[job[l]] = None
    BY <2>1, <1>3 DEF CallInv, SlotsMatchCalls
  <2>3. \A k \in ls : job[k] # job[l]
    BY <2>1, <2>2, <1>3 DEF CallInv, SlotsMatchCalls
  <2>4. waiter'[job[l]] = waiter[job[l]]
    BY <2>1, <2>3 DEF FailInflight
  <2> QED
    BY <2>1, <2>2, <2>4 DEF calls
<1>4. ASSUME NEW c \in Calls, step'[c] \in InFlight, waiter'[c] = None
      PROVE  job'[link'[c]] = c
  <2>1. step[c] \in InFlight /\ link'[c] = link[c] /\ link[c] \in Links
    BY <1>4 DEF calls, CallInv, CallFacts
  <2>2. ~(\E l \in ls : job[l] = c) /\ waiter[c] = None
    BY <1>4, RelayParameters DEF FailInflight, TypeOK
  <2>3. job[link[c]] = c
    BY <2>1, <2>2 DEF CallInv, SlotsMatchCalls
  <2> QED
    BY <2>1, <2>2, <2>3 DEF FailInflight
<1> QED
  BY <1>3, <1>4, <1>1, <1>2 DEF CallInv, SlotsMatchCalls, InFlight

LEMMA InitSound == Init => RelayInv
<1> SUFFICES ASSUME Init PROVE RelayInv
  OBVIOUS
<1>1. TypeOK
  BY RelayParameters, FS_CardinalityType DEF Init, TypeOK, Times, Phases, Rows, Results, Steps
<1>2. LinkInv
  <2>1. Cardinality(Bound) \in Nat
    <3>1. IsFiniteSet(Bound)
      BY RelayParameters, FS_Subset DEF Bound
    <3> QED
      BY <3>1, FS_CardinalityType
  <2> QED
    BY <2>1 DEF Init, LinkInv, LinkFacts, RegistryFacts, BindingFacts, Registered
<1>3. NewestLinkServes /\ CallInv
  BY DEF Init, NewestLinkServes, CallInv, CallFacts, SlotsMatchCalls, InFlight
<1> QED
  BY <1>1, <1>2, <1>3 DEF RelayInv

--------------------------------------------------------------------------------
(* The worker of a call *)

restVars == <<now, conns, registry, binding, row, sweep>>

LEMMA TypesOfCalls ==
  ASSUME TypeOK, UNCHANGED restVars,
         job' \in [Links -> Calls \cup {None}],
         step' \in [Calls -> Steps],
         link' \in [Calls -> Links \cup {None}],
         waiter' \in [Calls -> Results \cup {None}],
         outcome' \in [Calls -> Results \cup {None}]
  PROVE  TypeOK'
BY DEF TypeOK, restVars, conns

LEMMA InScopeLinks ==
  ASSUME TypeOK, NEW scope PROVE InScope(scope) \subseteq Links
BY DEF TypeOK, InScope, Registered

(* A worker that ends, or never began, has no slot. *)
LEMMA EndKeepsCalls ==
  ASSUME TypeOK, CallInv, NEW c \in Calls, NEW v \in {None, c, "error"}, End(c, v),
         \A l \in Links : job'[l] # c /\ job'[l] \in {job[l], None},
         \A l \in Links : job'[l] = job[l] \/ job[l] = c,
         job' \in [Links -> Calls \cup {None}],
         UNCHANGED restVars
  PROVE  TypeOK' /\ CallInv'
<1>1. /\ step' = [step EXCEPT ![c] = "done"] /\ outcome' = [outcome EXCEPT ![c] = v]
      /\ link' = [link EXCEPT ![c] = None] /\ waiter' = [waiter EXCEPT ![c] = None]
  BY DEF End
<1>2. TypeOK'
  <2>1. step' \in [Calls -> Steps]
    BY <1>1 DEF TypeOK, Steps
  <2>2. link' \in [Calls -> Links \cup {None}]
    BY <1>1 DEF TypeOK
  <2>3. waiter' \in [Calls -> Results \cup {None}] /\ outcome' \in [Calls -> Results \cup {None}]
    BY <1>1 DEF TypeOK, Results
  <2> QED
    BY <2>1, <2>2, <2>3, TypesOfCalls
<1>3. ASSUME NEW d \in Calls PROVE CallFacts(d)'
  <2>1. CallFacts(d)
    BY DEF CallInv
  <2>2. CASE d = c
    BY <2>2, <1>1 DEF TypeOK, CallFacts, InFlight
  <2>3. CASE d # c
    BY <2>1, <2>3, <1>1 DEF TypeOK, CallFacts, InFlight
  <2> QED
    BY <2>2, <2>3
<1>4. ASSUME NEW l \in Links, job'[l] # None
      PROVE  link'[job'[l]] = l /\ step'[job'[l]] \in InFlight /\ waiter'[job'[l]] = None
  <2>1. job'[l] = job[l] /\ job[l] \in Calls /\ job[l] # c
    BY <1>4 DEF TypeOK
  <2>2. link[job[l]] = l /\ step[job[l]] \in InFlight /\ waiter[job[l]] = None
    BY <2>1, <1>4 DEF CallInv, SlotsMatchCalls
  <2> QED
    BY <2>1, <2>2, <1>1 DEF TypeOK
<1>5. ASSUME NEW d \in Calls, step'[d] \in InFlight, waiter'[d] = None
      PROVE  job'[link'[d]] = d
  <2>1. d # c
    BY <1>5, <1>1 DEF TypeOK, InFlight
  <2>2. step[d] \in InFlight /\ waiter[d] = None /\ link'[d] = link[d]
    BY <2>1, <1>5, <1>1 DEF TypeOK
  <2>3. job[link[d]] = d /\ link[d] \in Links
    BY <2>2 DEF CallInv, SlotsMatchCalls, CallFacts
  <2> QED
    BY <2>1, <2>2, <2>3
<1> QED
  BY <1>2, <1>3, <1>4, <1>5 DEF CallInv, SlotsMatchCalls, InFlight

(* A worker that goes on with its slot as it is. *)
LEMMA MoveKeepsCalls ==
  ASSUME TypeOK, CallInv, NEW c \in Calls, NEW to \in InFlight, step[c] \in InFlight,
         step' = [step EXCEPT ![c] = to], UNCHANGED <<link, slots, outcome>>
  PROVE  CallInv' /\ step' \in [Calls -> Steps]
<1>1. step' \in [Calls -> Steps]
  BY DEF TypeOK, InFlight, Steps
<1>2. ASSUME NEW d \in Calls
      PROVE  /\ step'[d] \in InFlight <=> step[d] \in InFlight
             /\ step'[d] # step[d] => step'[d] \in InFlight
  BY DEF TypeOK
<1>3. ASSUME NEW d \in Calls PROVE CallFacts(d)'
  <2>1. CallFacts(d) /\ waiter' = waiter /\ link' = link /\ outcome' = outcome
    BY DEF CallInv, slots
  <2> QED
    BY <2>1, <1>2 DEF CallFacts, InFlight
<1>4. SlotsMatchCalls'
  BY <1>2 DEF TypeOK, CallInv, SlotsMatchCalls, slots
<1> QED
  BY <1>1, <1>3, <1>4 DEF CallInv

LEMMA LookupSound ==
  ASSUME RelayInv, NEW c \in Calls, Lookup(c)
  PROVE  RelayInv'
<1>1. LinkInv' /\ NewestLinkServes'
  BY LinksUntouched DEF RelayInv, Lookup, linkVars, conns
<1>2. step[c] = "idle" /\ job' = job /\ UNCHANGED restVars /\ TypeOK /\ CallInv
  BY DEF Lookup, restVars, RelayInv
<1>3. ASSUME NEW l \in Links PROVE job[l] # c
  BY <1>2, RelayParameters DEF CallInv, SlotsMatchCalls, InFlight
<1>4. CASE End(c, "error")
  <2>1. job' \in [Links -> Calls \cup {None}]
    BY <1>2 DEF TypeOK
  <2> QED
    BY <1>1, <1>2, <1>3, <1>4, <2>1, EndKeepsCalls DEF RelayInv
<1>5. ASSUME NEW l \in InScope(CallScope[c]), link' = [link EXCEPT ![c] = l], Go(c, "looked")
      PROVE  RelayInv'
  <2>1. l \in Links
    BY <1>2, InScopeLinks
  <2>2. step' = [step EXCEPT ![c] = "looked"] /\ outcome' = outcome /\ waiter' = waiter
    BY <1>5 DEF Go
  <2>3. TypeOK'
    <3>1. step' \in [Calls -> Steps]
      BY <1>2, <2>2 DEF TypeOK, Steps
    <3>2. link' \in [Calls -> Links \cup {None}]
      BY <1>2, <1>5, <2>1 DEF TypeOK
    <3> QED
      BY <1>2, <2>2, <3>1, <3>2, TypesOfCalls DEF TypeOK
  <2>4. ASSUME NEW d \in Calls PROVE CallFacts(d)'
    <3>1. CallFacts(d)
      BY <1>2 DEF CallInv
    <3> QED
      BY <3>1, <2>1, <2>2, <1>2, <1>5 DEF TypeOK, CallFacts, InFlight
  <2>5. SlotsMatchCalls'
    <3>1. \A d \in Calls : d # c => step'[d] = step[d] /\ link'[d] = link[d]
      BY <1>2, <1>5, <2>2 DEF TypeOK
    <3>2. step'[c] = "looked"
      BY <1>2, <2>2 DEF TypeOK
    <3>3. ASSUME NEW k \in Links, job[k] # None
          PROVE  link'[job[k]] = k /\ step'[job[k]] \in InFlight /\ waiter[job[k]] = None
      <4>1. job[k] \in Calls /\ job[k] # c
        BY <3>3, <1>2, <1>3 DEF TypeOK
      <4> QED
        BY <4>1, <3>1, <3>3, <1>2 DEF CallInv, SlotsMatchCalls
    <3>4. ASSUME NEW d \in Calls, step'[d] \in InFlight, waiter[d] = None
          PROVE  job[link'[d]] = d
      <4>1. d # c
        BY <3>4, <3>2 DEF InFlight
      <4> QED
        BY <4>1, <3>1, <3>4, <1>2 DEF CallInv, SlotsMatchCalls
    <3> QED
      BY <1>2, <2>2, <3>3, <3>4 DEF SlotsMatchCalls, InFlight
  <2> QED
    BY <1>1, <2>3, <2>4, <2>5 DEF RelayInv, CallInv
<1> QED
  BY <1>4, <1>5 DEF Lookup

LEMMA BeginSound ==
  ASSUME RelayInv, NEW c \in Calls, Begin(c)
  PROVE  RelayInv'
<1>1. LinkInv' /\ NewestLinkServes'
  BY LinksUntouched DEF RelayInv, Begin, linkVars, conns
<1>2. step[c] = "looked" /\ UNCHANGED restVars /\ TypeOK /\ CallInv
  BY DEF Begin, restVars, RelayInv
<1>3. ASSUME NEW l \in Links PROVE job[l] # c
  BY <1>2, RelayParameters DEF CallInv, SlotsMatchCalls, InFlight
<1>4. CASE ~(job[link[c]] = None /\ live[link[c]])
  <2>1. End(c, "error") /\ job' = job
    BY <1>4 DEF Begin
  <2>2. job' \in [Links -> Calls \cup {None}]
    BY <1>2, <2>1 DEF TypeOK
  <2> QED
    BY <1>1, <1>2, <1>3, <2>1, <2>2, EndKeepsCalls DEF RelayInv
<1>5. CASE job[link[c]] = None /\ live[link[c]]
  <2>1. /\ job' = [job EXCEPT ![link[c]] = c] /\ link' = link /\ outcome' = outcome
        /\ waiter' = waiter /\ step' = [step EXCEPT ![c] = "begun"]
    BY <1>5 DEF Begin, Go
  <2>2. link[c] \in Links /\ waiter[c] = None
    BY <1>2 DEF CallInv, CallFacts
  <2>3. TypeOK'
    <3>1. step' \in [Calls -> Steps]
      BY <1>2, <2>1 DEF TypeOK, Steps
    <3>2. job' \in [Links -> Calls \cup {None}]
      BY <1>2, <2>1 DEF TypeOK
    <3> QED
      BY <1>2, <2>1, <3>1, <3>2, TypesOfCalls DEF TypeOK
  <2>4. ASSUME NEW d \in Calls PROVE CallFacts(d)'
    <3>1. CallFacts(d)
      BY <1>2 DEF CallInv
    <3> QED
      BY <3>1, <2>1, <2>2, <1>2 DEF TypeOK, CallFacts, InFlight
  <2>5. /\ \A d \in Calls : d # c => step'[d] = step[d]
        /\ step'[c] = "begun"
        /\ \A l \in Links : l # link[c] => job'[l] = job[l]
        /\ job'[link[c]] = c
    BY <1>2, <2>1, <2>2 DEF TypeOK
  <2>6. ASSUME NEW l \in Links, job'[l] # None
        PROVE  link'[job'[l]] = l /\ step'[job'[l]] \in InFlight /\ waiter'[job'[l]] = None
    <3>1. CASE l = link[c]
      BY <3>1, <2>1, <2>2, <2>5 DEF InFlight
    <3>2. CASE l # link[c]
      <4>1. job'[l] = job[l] /\ job[l] \in Calls /\ job[l] # c
        BY <3>2, <2>5, <2>6, <1>2, <1>3 DEF TypeOK
      <4>2. link[job[l]] = l /\ step[job[l]] \in InFlight /\ waiter[job[l]] = None
        BY <4>1, <1>2, <2>6 DEF CallInv, SlotsMatchCalls
      <4> QED
        BY <4>1, <4>2, <2>1, <2>5
    <3> QED
      BY <3>1, <3>2
  <2>7. ASSUME NEW d \in Calls, step'[d] \in InFlight, waiter'[d] = None
        PROVE  job'[link'[d]] = d
    <3>1. CASE d = c
      BY <3>1, <2>1, <2>5
    <3>2. CASE d # c
      <4>1. job[link[d]] = d /\ link[d] \in Links
        BY <3>2, <2>1, <2>5, <2>7, <1>2 DEF CallInv, SlotsMatchCalls, CallFacts
      <4>2. link[d] # link[c]
        BY <4>1, <1>5, RelayParameters
      <4> QED
        BY <4>1, <4>2, <2>1, <2>5
    <3> QED
      BY <3>1, <3>2
  <2> QED
    BY <1>1, <2>3, <2>4, <2>6, <2>7 DEF RelayInv, CallInv, SlotsMatchCalls, InFlight
<1> QED
  BY <1>4, <1>5

(* The steps of a worker that only change where it is. *)
LEMMA MovingSound ==
  ASSUME RelayInv, NEW c \in Calls, HandOver(c) \/ Send(c) \/ SendFails(c) \/ Expire(c)
  PROVE  RelayInv'
<1> USE DEF HandOver, Send, SendFails, Expire, Go
<1>1. LinkInv' /\ NewestLinkServes'
  BY LinksUntouched DEF RelayInv, linkVars, conns
<1>2. /\ TypeOK /\ CallInv
      /\ step[c] \in InFlight
      /\ \E to \in InFlight : step' = [step EXCEPT ![c] = to]
      /\ UNCHANGED <<link, slots, outcome>>
  BY DEF RelayInv, InFlight, slots
<1>3. CallInv' /\ step' \in [Calls -> Steps]
  BY <1>2, MoveKeepsCalls
<1>4. /\ UNCHANGED <<now, phase, session, at, epoch, live, dropped, registry, binding, row,
                     sweep>>
      /\ atPeer' = atPeer \/ atPeer' = [atPeer EXCEPT ![link[c]] = atPeer[link[c]] \cup {c}]
  BY DEF conns
<1>5. atPeer' \in [Links -> SUBSET Calls]
  <2>1. link[c] \in Links /\ atPeer \in [Links -> SUBSET Calls]
    BY <1>2 DEF TypeOK, CallInv, CallFacts
  <2>2. atPeer[link[c]] \cup {c} \in SUBSET Calls
    BY <2>1
  <2> QED
    BY <1>4, <2>1, <2>2
<1>6. TypeOK'
  BY <1>2, <1>3, <1>4, <1>5 DEF TypeOK, slots
<1> QED
  BY <1>1, <1>3, <1>6 DEF RelayInv

(* The worker ends, and its job is in no slot. *)
LEMMA EndingSound ==
  ASSUME RelayInv, NEW c \in Calls, Cancel(c) \/ Answered(c)
  PROVE  RelayInv'
<1>1. LinkInv' /\ NewestLinkServes'
  BY LinksUntouched DEF RelayInv, Cancel, Answered, linkVars, conns
<1>2. UNCHANGED restVars /\ TypeOK /\ CallInv
  BY DEF Cancel, Answered, restVars, RelayInv
<1>3. link[c] \in Links /\ CallFacts(c)
  BY <1>2 DEF CallInv, CallFacts, InFlight, Cancel, Answered
<1>4. ASSUME NEW l \in Links, job[l] = c PROVE l = link[c] /\ waiter[c] = None
  BY <1>2, <1>4, RelayParameters DEF CallInv, SlotsMatchCalls
<1>5. CASE Cancel(c)
  <2>1. job' = [job EXCEPT ![link[c]] = IF job[link[c]] = c THEN None ELSE job[link[c]]]
    BY <1>5 DEF Cancel, SlotFreed
  <2>2. job' \in [Links -> Calls \cup {None}]
    BY <2>1, <1>2 DEF TypeOK
  <2>3. \A l \in Links : /\ job'[l] # c /\ job'[l] \in {job[l], None}
                         /\ job'[l] = job[l] \/ job[l] = c
    BY <2>1, <1>2, <1>4, RelayParameters DEF TypeOK
  <2>4. End(c, "error")
    BY <1>5 DEF Cancel
  <2> QED
    BY <1>1, <1>2, <2>2, <2>3, <2>4, EndKeepsCalls DEF RelayInv
<1>6. CASE Answered(c)
  <2>1. job' = job /\ waiter[c] # None /\ End(c, waiter[c])
    BY <1>6 DEF Answered
  <2>2. \A l \in Links : job'[l] # c
    BY <2>1, <1>4
  <2>3. waiter[c] \in {None, c, "error"} /\ job' \in [Links -> Calls \cup {None}]
    BY <1>2, <1>3, <2>1 DEF CallFacts, TypeOK
  <2> QED
    BY <1>1, <1>2, <2>1, <2>2, <2>3, EndKeepsCalls DEF RelayInv
<1> QED
  BY <1>5, <1>6

--------------------------------------------------------------------------------
(* bind *)

LEMMA CountIsNatural ==
  ASSUME TypeOK PROVE IsFiniteSet(Bound) /\ Cardinality(Bound) \in Nat
<1>1. IsFiniteSet(Bound)
  BY RelayParameters, FS_Subset DEF Bound
<1> QED
  BY <1>1, FS_CardinalityType

(* The epoch of a new link is the number of links bound so far, itself included. *)
LEMMA NewEpoch ==
  ASSUME TypeOK, NEW l \in Links, epoch[l] = 0,
         epoch' = [epoch EXCEPT ![l] = 1 + Cardinality({k \in Links : epoch[k] > 0})]
  PROVE  /\ epoch' = [epoch EXCEPT ![l] = 1 + Cardinality(Bound)]
         /\ Cardinality(Bound') = 1 + Cardinality(Bound)
         /\ Cardinality(Bound) \in Nat
         /\ epoch' \in [Links -> 0 .. Cardinality(Links)]
<1>1. IsFiniteSet(Bound) /\ Cardinality(Bound) \in Nat
  BY CountIsNatural
<1>2. epoch' = [epoch EXCEPT ![l] = 1 + Cardinality(Bound)]
  BY DEF Bound
<1>3. l \notin Bound /\ Bound' = Bound \cup {l}
  <2>1. epoch'[l] > 0 /\ \A k \in Links : k # l => epoch'[k] = epoch[k]
    BY <1>1, <1>2 DEF TypeOK
  <2>2. l \notin Bound
    BY DEF Bound
  <2>3. \A k \in Links : k \in Bound' <=> k = l \/ k \in Bound
    BY <2>1 DEF Bound
  <2> QED
    BY <2>2, <2>3 DEF Bound
<1>4. Cardinality(Bound') = 1 + Cardinality(Bound)
  BY <1>1, <1>3, FS_AddElement
<1>5. Cardinality(Bound') <= Cardinality(Links) /\ Cardinality(Links) \in Nat
  BY <1>3, RelayParameters, FS_Subset, FS_CardinalityType DEF Bound
<1>6. epoch' \in [Links -> 0 .. Cardinality(Links)]
  BY <1>1, <1>2, <1>4, <1>5 DEF TypeOK
<1> QED
  BY <1>1, <1>2, <1>4, <1>6

(* The links that bind takes for superseded are all that stand where the new one will. *)
LEMMA PriorCovers ==
  ASSUME TypeOK, LinkInv, NEW l \in Links, phase[l] = "accepted"
  PROVE  MayReplace(l, Prior(l))
<1>1. session[l] \in Sessions
  BY DEF LinkInv, LinkFacts
<1>2. ASSUME NEW k \in Prior(l)
      PROVE  \E s \in Registered(registry) : k = registry[s] /\ ScopeOf[s] = ScopeOf[session[l]]
  BY <1>1, <1>2 DEF Prior, InScope, Registered
<1>3. ASSUME NEW s \in Registered(registry), ScopeOf[s] = ScopeOf[session[l]]
      PROVE  registry[s] \in Prior(l)
  <2>1. CASE registry[session[l]] # None
    BY <2>1, <1>1, <1>3 DEF Prior, LinkInv, RegistryFacts, Registered
  <2>2. CASE registry[session[l]] = None
    BY <2>2, <1>3 DEF Prior, InScope
  <2> QED
    BY <2>1, <2>2
<1>4. ASSUME NEW s \in Registered(registry)
      PROVE  /\ s \in Sessions /\ registry[s] \in Links
             /\ session[registry[s]] = s /\ phase[registry[s]] \in {"open", "ended"}
  BY DEF Registered, TypeOK, LinkInv, RegistryFacts
<1> QED
  BY <1>2, <1>3, <1>4 DEF MayReplace

(* Failing what a cleanup finds in the slots of ended links. *)
LEMMA SweepingKeepsCalls ==
  ASSUME TypeOK, CallInv, NEW ls \in SUBSET Links, FailSwept(ls), UNCHANGED calls
  PROVE  /\ CallInv'
         /\ job' \in [Links -> Calls \cup {None}]
         /\ waiter' \in [Calls -> Results \cup {None}]
<1>1. PICK missed : FailInflight(ls \ missed)
  BY DEF FailSwept
<1> QED
  BY <1>1, FailingKeepsCalls

LEMMA RevokedRows ==
  ASSUME NEW rows \in [Sessions -> Rows], NEW gone
  PROVE  /\ Revoked(rows, gone) \in [Sessions -> Rows]
         /\ \A s \in Sessions : /\ Revoked(rows, gone)[s].paired = rows[s].paired
                                /\ Revoked(rows, gone)[s].expires = rows[s].expires
BY DEF Revoked, Rows

(* What the new registry holds: the new link, and of the others those that do not give way. *)
LEMMA RegisterSound ==
  ASSUME RelayInv, NEW l \in Links, NEW ps, NEW rows \in [Sessions -> Rows],
         MayReplace(l, ps), rows[session[l]].paired,
         \A k \in Links : phase[k] = "open" => rows[session[k]] = row[session[k]],
         binding # None => binding.prior = ps,
         Register(l, ps, rows),
         UNCHANGED <<now, session, dropped, atPeer, sweep, calls>>
  PROVE  RelayInv'
<1> DEFINE alive == [k \in Links |-> k = l \/ (live[k] /\ k \notin ps)]
<1> DEFINE freed == Without(registry, {s \in Sessions : registry[s] \in ps})
<1> DEFINE reg == [freed EXCEPT ![session[l]] = l]
<1>1. TypeOK /\ LinkInv /\ NewestLinkServes /\ CallInv
  BY DEF RelayInv
<1>2. phase[l] = "accepted" /\ session[l] \in Sessions /\ epoch[l] = 0 /\ dropped[l] = None
  BY <1>1 DEF MayReplace, LinkInv, LinkFacts
<1>3. PICK e \in Evictions(reg, alive, rows, at[l]) :
        /\ registry' = Without(Without(reg, e), Stale(Without(reg, e), rows, at[l]))
        /\ live' = [k \in Links |-> alive[k] /\ k \notin
                      {Without(reg, e)[s] : s \in Stale(Without(reg, e), rows, at[l])}]
        /\ FailSwept({k \in {Without(reg, e)[s] : s \in Stale(Without(reg, e), rows, at[l])} :
                        alive[k]})
        /\ row' = Revoked(rows, Stale(Without(reg, e), rows, at[l]))
        /\ at' = [at EXCEPT ![l] = 0]
        /\ phase' = [phase EXCEPT ![l] = "open"]
        /\ epoch' = [epoch EXCEPT ![l] = 1 + Cardinality({k \in Links : epoch[k] > 0})]
        /\ binding' = None
  BY DEF Register
<1> DEFINE kept == Without(reg, e)
<1> DEFINE stale == Stale(kept, rows, at[l])
<1> DEFINE ends == {kept[s] : s \in stale}
<1> HIDE DEF alive
<1>4. ASSUME NEW s \in Sessions, kept[s] # None
      PROVE  \/ s = session[l] /\ kept[s] = l
             \/ s # session[l] /\ kept[s] = registry[s] /\ registry[s] \in Links \ ps
  BY <1>1, <1>2, <1>4 DEF Without, TypeOK
<1>5. ASSUME NEW s \in stale
      PROVE  /\ s \in Sessions /\ kept[s] # None
             /\ at[l] >= rows[s].expires \/ dropped[kept[s]] # None
  BY DEF Stale, Registered
<1>6. ends \subseteq Links
  <2> SUFFICES ASSUME NEW s \in stale PROVE kept[s] \in Links
    OBVIOUS
  <2>1. s \in Sessions /\ kept[s] # None
    BY <1>5
  <2> HIDE DEF kept
  <2> QED
    BY <1>4, <2>1
<1>7. CallInv' /\ job' \in [Links -> Calls \cup {None}] /\ waiter' \in [Calls -> Results \cup {None}]
  <2>1. {k \in ends : alive[k]} \in SUBSET Links
    BY <1>6
  <2> QED
    BY <2>1, <1>1, <1>3, SweepingKeepsCalls
<1>8. /\ row' \in [Sessions -> Rows]
      /\ \A s \in Sessions : row'[s].paired = rows[s].paired /\ row'[s].expires = rows[s].expires
  BY <1>3, RevokedRows
<1>9. /\ epoch' = [epoch EXCEPT ![l] = 1 + Cardinality(Bound)]
      /\ Cardinality(Bound') = 1 + Cardinality(Bound)
      /\ Cardinality(Bound) \in Nat
      /\ epoch' \in [Links -> 0 .. Cardinality(Links)]
  BY <1>1, <1>2, <1>3, NewEpoch
<1>10. ASSUME NEW s \in Sessions, registry'[s] # None
       PROVE  registry'[s] = kept[s]
  BY <1>3, <1>10 DEF Without
<1>11. TypeOK'
  <2>1. registry' \in [Sessions -> Links \cup {None}]
    <3>1. ASSUME NEW s \in Sessions PROVE registry'[s] \in Links \cup {None}
      <4> HIDE DEF kept
      <4> QED
        BY <1>4, <1>10
    <3>2. registry' = [s \in Sessions |-> registry'[s]]
      BY <1>3 DEF Without
    <3> QED
      BY <3>1, <3>2
  <2>2. live' \in [Links -> BOOLEAN]
    <3>1. \A k \in Links : alive[k] \in BOOLEAN
      BY <1>1 DEF alive, TypeOK
    <3> QED
      BY <3>1, <1>3
  <2>3. at' \in [Links -> Times] /\ phase' \in [Links -> Phases] /\ binding' = None
    BY <1>1, <1>3, RelayParameters DEF TypeOK, Phases, Times
  <2> QED
    BY <1>1, <1>7, <1>8, <1>9, <2>1, <2>2, <2>3 DEF TypeOK, calls
<1>12. ASSUME NEW k \in Links PROVE LinkFacts(k)'
  <2>1. LinkFacts(k)
    BY <1>1 DEF LinkInv
  <2>2. CASE k = l
    <3>1. now \in Nat
      BY <1>1, RelayParameters DEF TypeOK, Times
    <3>2. /\ phase'[l] = "open" /\ at'[l] = 0 /\ dropped'[l] = dropped[l]
          /\ session' = session /\ now' = now
      BY <1>1, <1>3 DEF TypeOK
    <3>3. epoch'[l] <= Cardinality(Bound')
      BY <1>1, <1>9 DEF TypeOK
    <3>4. row'[session'[l]].paired
      BY <1>2, <1>8, <3>2
    <3> QED
      BY <1>2, <2>2, <3>1, <3>2, <3>3, <3>4 DEF LinkFacts
  <2>3. CASE k # l
    <3>1. epoch'[k] = epoch[k] /\ at'[k] = at[k] /\ phase'[k] = phase[k] /\ epoch[k] \in Nat
      BY <2>3, <1>1, <1>3, <1>9 DEF TypeOK
    <3>2. epoch'[k] <= Cardinality(Bound')
      BY <2>1, <3>1, <1>9 DEF LinkFacts
    <3>3. phase[k] = "open" => row'[session[k]].paired
      BY <2>1, <1>8 DEF LinkFacts
    <3> QED
      BY <2>1, <3>1, <3>2, <3>3 DEF LinkFacts
  <2> QED
    BY <2>2, <2>3
<1>13. RegistryFacts'
  <2>1. ASSUME NEW s \in Sessions, registry'[s] # None
        PROVE  \/ s = session[l] /\ registry'[s] = l
               \/ s # session[l] /\ registry'[s] = registry[s] /\ registry[s] \in Links \ ps
    BY <2>1, <1>4, <1>10
  <2>2. ASSUME NEW s \in Sessions, registry'[s] # None
        PROVE  session'[registry'[s]] = s /\ phase'[registry'[s]] \in {"open", "ended"}
    <3>1. CASE s = session[l] /\ registry'[s] = l
      BY <3>1, <1>1, <1>3 DEF TypeOK
    <3>2. CASE registry'[s] = registry[s] /\ registry[s] \in Links
      <4>1. s \in Registered(registry)
        BY <3>2, RelayParameters DEF Registered
      <4>2. session[registry[s]] = s /\ phase[registry[s]] \in {"open", "ended"}
        BY <4>1, <1>1 DEF LinkInv, RegistryFacts
      <4> QED
        BY <4>2, <3>2, <1>1, <1>3 DEF TypeOK
    <3> QED
      BY <2>1, <2>2, <3>1, <3>2
  <2>3. ASSUME NEW s \in Sessions, NEW u \in Sessions, registry'[s] # None, registry'[u] # None,
               ScopeOf[s] = ScopeOf[u]
        PROVE  s = u
    <3>1. CASE s # session[l] /\ u # session[l]
      <4>1. s \in Registered(registry) /\ u \in Registered(registry)
        BY <3>1, <2>1, <2>3, RelayParameters DEF Registered
      <4> QED
        BY <4>1, <2>3, <1>1 DEF LinkInv, RegistryFacts
    <3>2. ASSUME NEW x \in {s, u}, x # session[l], ScopeOf[x] = ScopeOf[session[l]] PROVE FALSE
      <4>1. x \in Registered(registry) /\ registry[x] \notin ps
        BY <3>2, <2>1, <2>3, RelayParameters DEF Registered
      <4> QED
        BY <4>1, <3>2 DEF MayReplace
    <3> QED
      BY <3>1, <3>2, <2>3
  <2> QED
    BY <2>2, <2>3 DEF RegistryFacts, Registered
<1>14. LinkInv'
  BY <1>3, <1>12, <1>13 DEF LinkInv, BindingFacts
<1>15. ASSUME NEW k \in Links, phase'[k] = "open", Newer(k)' = {}, now' < row'[session'[k]].expires
       PROVE  live'[k]
  <2>1. at[l] <= now /\ at[l] \in Nat /\ now \in Nat
    BY <1>1 DEF LinkInv, LinkFacts, TypeOK, Times
  <2>2. session[k] \in Sessions /\ now < rows[session[k]].expires
    BY <1>8, <1>12, <1>15 DEF LinkFacts
  <2>3. dropped[k] = None
    BY <1>12, <1>15 DEF LinkFacts
  <2>4. k \notin ends
    <3> SUFFICES ASSUME k \in ends PROVE FALSE
      OBVIOUS
    <3>1. PICK s \in stale : k = kept[s]
      OBVIOUS
    <3>2. session[k] = s
      <4>1. CASE s = session[l] /\ kept[s] = l
        BY <4>1, <3>1
      <4>2. CASE s # session[l] /\ kept[s] = registry[s] /\ registry[s] \in Links
        BY <4>2, <3>1, <1>1, <1>5, RelayParameters DEF LinkInv, RegistryFacts, Registered
      <4> QED
        BY <4>1, <4>2, <3>1, <1>4, <1>5
    <3>3. at[l] >= rows[s].expires /\ rows[s].expires \in Nat
      <4>1. at[l] >= rows[s].expires
        BY <3>1, <2>3, <1>5
      <4>2. rows[s] \in Rows
        BY <1>3, <1>5
      <4> QED
        BY <4>1, <4>2 DEF Rows
    <3> QED
      BY <3>2, <3>3, <2>1, <2>2
  <2>5. alive[k]
    <3>1. CASE k = l
      BY <3>1 DEF alive
    <3>2. CASE k # l
      <4>1. phase[k] = "open" /\ epoch'[k] = epoch[k] /\ epoch[k] \in Nat
        BY <3>2, <1>1, <1>3, <1>9, <1>15 DEF TypeOK
      <4>2. k \notin ps
        <5> SUFFICES ASSUME k \in ps PROVE FALSE
          OBVIOUS
        <5>1. ScopeOf[session[l]] = ScopeOf[session[k]]
          BY DEF MayReplace
        <5>2. epoch'[l] > epoch'[k]
          BY <4>1, <1>1, <1>9 DEF LinkInv, LinkFacts, TypeOK
        <5>3. l \in Newer(k)'
          BY <5>1, <5>2 DEF Newer
        <5> QED
          BY <5>3, <1>15
      <4>3. Newer(k) = {}
        <5> SUFFICES ASSUME NEW j \in Newer(k) PROVE FALSE
          OBVIOUS
        <5>1. j \in Links /\ epoch[j] > epoch[k] /\ ScopeOf[session[j]] = ScopeOf[session[k]]
          BY DEF Newer
        <5>2. j # l /\ epoch[j] \in Nat
          BY <5>1, <4>1, <1>1, <1>2 DEF TypeOK
        <5>3. j \in Newer(k)'
          BY <5>1, <5>2, <4>1, <1>1, <1>9 DEF Newer, TypeOK
        <5> QED
          BY <5>3, <1>15
      <4>4. now < row[session[k]].expires
        BY <2>2, <4>1
      <4>5. live[k]
        BY <1>1, <4>1, <4>2, <4>3, <4>4 DEF NewestLinkServes
      <4> QED
        BY <4>2, <4>5 DEF alive
    <3> QED
      BY <3>1, <3>2
  <2> QED
    BY <2>4, <2>5, <1>3
<1>16. NewestLinkServes'
  BY <1>15 DEF NewestLinkServes
<1> QED
  BY <1>7, <1>11, <1>14, <1>16 DEF RelayInv

LEMMA BindSound ==
  ASSUME RelayInv, NEW l \in Links, NEW rows \in [Sessions -> Rows],
         LoopFree, phase[l] = "accepted", rows[session[l]].paired,
         \A k \in Links : phase[k] = "open" => rows[session[k]] = row[session[k]],
         Bind(l, rows),
         UNCHANGED <<now, session, dropped, atPeer, sweep, calls>>
  PROVE  RelayInv'
<1>1. TypeOK /\ LinkInv /\ NewestLinkServes /\ CallInv /\ binding = None
  BY DEF RelayInv, LoopFree
<1>2. MayReplace(l, Prior(l))
  BY <1>1, PriorCovers
<1>3. CASE Prior(l) = {} /\ Register(l, {}, rows)
  BY <1>1, <1>2, <1>3, RegisterSound
<1>4. CASE /\ FailInflight(Prior(l))
           /\ binding' = [link |-> l, prior |-> Prior(l)]
           /\ row' = rows
           /\ UNCHANGED <<registry, live, at, phase, epoch>>
  <2>1. Prior(l) \in SUBSET Links
    BY <1>2 DEF MayReplace
  <2>2. CallInv' /\ job' \in [Links -> Calls \cup {None}] /\ waiter' \in [Calls -> Results \cup {None}]
    BY <2>1, <1>1, <1>4, FailingKeepsCalls
  <2>3. binding' \in [link : Links, prior : SUBSET Links]
    BY <2>1, <1>4
  <2>4. TypeOK'
    BY <1>1, <1>4, <2>2, <2>3 DEF TypeOK, calls
  <2>5. ASSUME NEW k \in Links PROVE LinkFacts(k)'
    <3>1. LinkFacts(k)
      BY <1>1 DEF LinkInv
    <3>2. Bound' = Bound
      BY <1>4 DEF Bound
    <3> QED
      BY <1>4, <3>1, <3>2 DEF LinkFacts
  <2>6. RegistryFacts'
    BY <1>1, <1>4 DEF LinkInv, RegistryFacts, Registered
  <2>7. BindingFacts'
    BY <1>2, <1>4 DEF BindingFacts, MayReplace, Registered
  <2>8. NewestLinkServes'
    BY <1>1, <1>4 DEF NewestLinkServes, Newer
  <2> QED
    BY <2>2, <2>4, <2>5, <2>6, <2>7, <2>8 DEF RelayInv, LinkInv
<1> QED
  BY <1>3, <1>4 DEF Bind

LEMMA PairSound ==
  ASSUME RelayInv, NEW l \in Links, Pair(l)
  PROVE  RelayInv'
<1>1. TypeOK /\ LinkFacts(l) /\ \A k \in Links : LinkFacts(k)
  BY DEF RelayInv, LinkInv
<1>2. session[l] \in Sessions /\ phase[l] = "accepted" /\ LoopFree /\ ~row[session[l]].paired
  BY <1>1 DEF Pair, LinkFacts
<1> DEFINE new  == [paired |-> TRUE, revoked |-> FALSE, seen |-> at[l], expires |-> at[l] + Ttl]
<1> DEFINE rows == [row EXCEPT ![session[l]] = new]
<1>3. new \in Rows
  BY <1>1, RelayParameters DEF TypeOK, Rows, Times
<1>4. rows \in [Sessions -> Rows] /\ rows[session[l]].paired
  BY <1>1, <1>2, <1>3 DEF TypeOK
<1>5. ASSUME NEW k \in Links, phase[k] = "open" PROVE rows[session[k]] = row[session[k]]
  <2>1. session[k] # session[l] /\ session[k] \in Sessions
    BY <1>1, <1>2, <1>5 DEF LinkFacts
  <2> QED
    BY <2>1, <1>1 DEF TypeOK
<1>6. Bind(l, rows) /\ UNCHANGED <<now, session, dropped, atPeer, sweep, calls>>
  BY DEF Pair
<1> HIDE DEF rows
<1> QED
  BY <1>2, <1>4, <1>5, <1>6, BindSound

LEMMA ReconnectSound ==
  ASSUME RelayInv, NEW l \in Links, Reconnect(l)
  PROVE  RelayInv'
<1>1. /\ LoopFree /\ phase[l] = "accepted" /\ row[session[l]].paired /\ Bind(l, row)
      /\ UNCHANGED <<now, session, dropped, atPeer, sweep, calls>>
      /\ row \in [Sessions -> Rows]
  BY DEF Reconnect, Authentic, RelayInv, TypeOK
<1> QED
  BY <1>1, BindSound

LEMMA FinishBindSound ==
  ASSUME RelayInv, FinishBind
  PROVE  RelayInv'
<1>1. /\ Register(binding.link, binding.prior, row)
      /\ UNCHANGED <<now, session, dropped, atPeer, sweep, calls>>
      /\ row \in [Sessions -> Rows] /\ binding.link \in Links
      /\ MayReplace(binding.link, binding.prior)
      /\ row[session[binding.link]].paired
  BY DEF FinishBind, RelayInv, TypeOK, LinkInv, BindingFacts
<1> QED
  BY <1>1, RegisterSound

--------------------------------------------------------------------------------
(* The other steps of a handler *)

LEMMA AcceptSound ==
  ASSUME RelayInv, NEW l \in Links, NEW s \in Sessions, Accept(l, s)
  PROVE  RelayInv'
<1>1. /\ TypeOK /\ LinkInv /\ NewestLinkServes /\ CallInv /\ binding = None /\ phase[l] = "new"
      /\ phase' = [phase EXCEPT ![l] = "accepted"]
      /\ session' = [session EXCEPT ![l] = s]
      /\ at' = [at EXCEPT ![l] = now]
      /\ UNCHANGED <<now, epoch, live, dropped, atPeer, slots, registry, binding, row, sweep, calls>>
  BY DEF Accept, RelayInv, LoopFree
<1>2. TypeOK'
  BY <1>1 DEF TypeOK, slots, calls, Phases
<1>3. CallInv'
  BY <1>1, CallsUntouched
<1>4. ASSUME NEW k \in Links PROVE LinkFacts(k)'
  <2>1. LinkFacts(k) /\ Bound' = Bound
    BY <1>1 DEF LinkInv, Bound
  <2>2. CASE k = l
    BY <2>1, <2>2, <1>1 DEF TypeOK, LinkFacts, Times
  <2>3. CASE k # l
    BY <2>1, <2>3, <1>1 DEF TypeOK, LinkFacts
  <2> QED
    BY <2>2, <2>3
<1>5. RegistryFacts'
  BY <1>1 DEF TypeOK, LinkInv, RegistryFacts, Registered
<1>6. ASSUME NEW k \in Links, phase'[k] = "open", Newer(k)' = {}, now' < row'[session'[k]].expires
      PROVE  live'[k]
  <2>1. k # l /\ phase[k] = "open" /\ session'[k] = session[k]
    BY <1>1, <1>6 DEF TypeOK
  <2>2. Newer(k) = {}
    <3> SUFFICES ASSUME NEW j \in Newer(k) PROVE FALSE
      OBVIOUS
    <3>1. j # l /\ session'[j] = session[j]
      BY <1>1 DEF LinkInv, LinkFacts, Newer, TypeOK
    <3>2. j \in Newer(k)'
      BY <1>1, <2>1, <3>1 DEF Newer
    <3> QED
      BY <3>2, <1>6
  <2> QED
    BY <1>1, <1>6, <2>1, <2>2 DEF NewestLinkServes
<1> QED
  BY <1>4, <1>5, <1>6, <1>1, <1>2, <1>3 DEF RelayInv, LinkInv, BindingFacts, NewestLinkServes

LEMMA RefuseSound ==
  ASSUME RelayInv, NEW l \in Links, Refuse(l)
  PROVE  RelayInv'
<1>1. /\ TypeOK /\ LinkInv /\ NewestLinkServes /\ CallInv /\ binding = None /\ phase[l] = "accepted"
      /\ phase' = [phase EXCEPT ![l] = "ended"]
      /\ session' = [session EXCEPT ![l] = None]
      /\ at' = [at EXCEPT ![l] = 0]
      /\ UNCHANGED <<now, epoch, live, dropped, atPeer, slots, registry, binding, row, sweep, calls>>
  BY DEF Refuse, RelayInv, LoopFree
<1>2. TypeOK'
  BY <1>1, RelayParameters DEF TypeOK, slots, calls, Phases, Times
<1>3. CallInv'
  BY <1>1, CallsUntouched
<1>4. ASSUME NEW k \in Links PROVE LinkFacts(k)'
  <2>1. LinkFacts(k) /\ Bound' = Bound
    BY <1>1 DEF LinkInv, Bound
  <2>2. CASE k = l
    BY <2>1, <2>2, <1>1 DEF TypeOK, LinkFacts, Times
  <2>3. CASE k # l
    BY <2>1, <2>3, <1>1 DEF TypeOK, LinkFacts
  <2> QED
    BY <2>2, <2>3
<1>5. RegistryFacts'
  BY <1>1 DEF TypeOK, LinkInv, RegistryFacts, Registered
<1>6. ASSUME NEW k \in Links, phase'[k] = "open", Newer(k)' = {}, now' < row'[session'[k]].expires
      PROVE  live'[k]
  <2>1. k # l /\ phase[k] = "open" /\ session'[k] = session[k]
    BY <1>1, <1>6 DEF TypeOK
  <2>2. Newer(k) = {}
    <3> SUFFICES ASSUME NEW j \in Newer(k) PROVE FALSE
      OBVIOUS
    <3>1. j # l /\ session'[j] = session[j]
      BY <1>1 DEF LinkInv, LinkFacts, Newer, TypeOK
    <3>2. j \in Newer(k)'
      BY <1>1, <2>1, <3>1 DEF Newer
    <3> QED
      BY <3>2, <1>6
  <2> QED
    BY <1>1, <1>6, <2>1, <2>2 DEF NewestLinkServes
<1> QED
  BY <1>4, <1>5, <1>6, <1>1, <1>2, <1>3 DEF RelayInv, LinkInv, BindingFacts, NewestLinkServes

(* Rows that only lose or gain what no property of a link looks at. *)
LEMMA RowsOfSameLifeSound ==
  ASSUME RelayInv, row' \in [Sessions -> Rows], sweep' \in [Sessions -> {"no", "collected", "discarded"}],
         \A s \in Sessions : row'[s].paired = row[s].paired /\ row'[s].expires = row[s].expires,
         UNCHANGED <<now, conns, slots, registry, binding, calls>>
  PROVE  RelayInv'
<1>1. TypeOK /\ LinkInv /\ NewestLinkServes /\ CallInv
  BY DEF RelayInv
<1>2. TypeOK'
  BY <1>1 DEF TypeOK, slots, calls, conns
<1>3. CallInv'
  BY <1>1, CallsUntouched
<1>4. ASSUME NEW k \in Links PROVE LinkFacts(k)'
  <2>1. LinkFacts(k) /\ Bound' = Bound
    BY <1>1 DEF LinkInv, Bound, conns
  <2> QED
    BY <2>1 DEF LinkFacts, conns
<1>5. RegistryFacts'
  BY <1>1 DEF LinkInv, RegistryFacts, Registered, conns
<1>6. BindingFacts'
  <2> SUFFICES ASSUME binding # None PROVE BindingFacts'
    BY DEF BindingFacts
  <2>1. binding.link \in Links /\ MayReplace(binding.link, binding.prior)
        /\ row[session[binding.link]].paired
    BY <1>1 DEF LinkInv, BindingFacts, TypeOK
  <2>2. session[binding.link] \in Sessions
    BY <1>1, <2>1 DEF LinkInv, LinkFacts, MayReplace
  <2> QED
    BY <2>1, <2>2 DEF BindingFacts, MayReplace, Registered, conns
<1>7. NewestLinkServes'
  <2>1. \A k \in Links : phase[k] = "open" => session[k] \in Sessions
    BY <1>1 DEF LinkInv, LinkFacts
  <2> QED
    BY <1>1, <2>1 DEF NewestLinkServes, Newer, conns
<1> QED
  BY <1>2, <1>3, <1>4, <1>5, <1>6, <1>7 DEF RelayInv, LinkInv

LEMMA TouchSound ==
  ASSUME RelayInv, NEW l \in Links, Touch(l)
  PROVE  RelayInv'
<1>1. row \in [Sessions -> Rows] /\ now \in Times /\ session[l] \in Sessions
  BY DEF RelayInv, TypeOK, LinkInv, LinkFacts, Touch
<1>2. row' = [row EXCEPT ![session[l]] = [row[session[l]] EXCEPT !.seen = now]]
  BY DEF Touch
<1>3. [row[session[l]] EXCEPT !.seen = now] \in Rows
  BY <1>1 DEF Rows
<1>4. row' \in [Sessions -> Rows]
  BY <1>1, <1>2, <1>3
<1>5. \A s \in Sessions : row'[s].paired = row[s].paired /\ row'[s].expires = row[s].expires
  BY <1>1, <1>2 DEF Rows
<1> QED
  BY <1>4, <1>5, RowsOfSameLifeSound DEF Touch, RelayInv, TypeOK

LEMMA RevokeSound ==
  ASSUME RelayInv, NEW s \in Sessions, Revoke(s)
  PROVE  RelayInv'
<1>1. row \in [Sessions -> Rows] /\ sweep \in [Sessions -> {"no", "collected", "discarded"}]
  BY DEF RelayInv, TypeOK
<1>2. row' = row \/ row' = Revoked(row, {s})
  BY DEF Revoke
<1>3. /\ row' \in [Sessions -> Rows]
      /\ \A u \in Sessions : row'[u].paired = row[u].paired /\ row'[u].expires = row[u].expires
  BY <1>1, <1>2, RevokedRows
<1>4. sweep' \in [Sessions -> {"no", "collected", "discarded"}]
  BY <1>1 DEF Revoke
<1> QED
  BY <1>3, <1>4, RowsOfSameLifeSound DEF Revoke

LEMMA LeaveSound ==
  ASSUME RelayInv, NEW l \in Links, Leave(l)
  PROVE  RelayInv'
<1>1. TypeOK /\ LinkInv /\ NewestLinkServes /\ CallInv /\ binding = None /\ phase[l] = "open"
  BY DEF Leave, RelayInv, LoopFree
<1>2. /\ phase' = [phase EXCEPT ![l] = "ended"]
      /\ live' = [k \in Links |-> live[k] /\ k \notin Detached(l)]
      /\ dropped' = [k \in Links |-> IF k \in Detached(l) THEN now ELSE dropped[k]]
      /\ FailInflight(Detached(l))
      /\ atPeer' = [atPeer EXCEPT ![l] = {}]
      /\ UNCHANGED <<now, session, at, epoch, registry, binding, sweep, calls>>
  BY DEF Leave
<1>3. Detached(l) \subseteq {l}
  BY DEF Detached
<1>4. CallInv' /\ job' \in [Links -> Calls \cup {None}] /\ waiter' \in [Calls -> Results \cup {None}]
  BY <1>1, <1>2, <1>3, FailingKeepsCalls
<1>5. session[l] \in Sessions
  BY <1>1 DEF LinkInv, LinkFacts
<1>6. /\ row' \in [Sessions -> Rows]
      /\ \A s \in Sessions : row'[s].paired = row[s].paired /\ row'[s].expires = row[s].expires
  <2>1. row' = row \/ row' = [row EXCEPT ![session[l]] = [row[session[l]] EXCEPT !.seen = now]]
    BY DEF Leave
  <2>2. row \in [Sessions -> Rows] /\ now \in Times
    BY <1>1 DEF TypeOK
  <2>3. [row[session[l]] EXCEPT !.seen = now] \in Rows
    BY <1>5, <2>2 DEF Rows
  <2>4. row' \in [Sessions -> Rows]
    BY <1>5, <2>1, <2>2, <2>3
  <2> QED
    BY <2>1, <2>2, <2>4, <1>5 DEF Rows
<1>7. TypeOK'
  <2>1. live' \in [Links -> BOOLEAN] /\ dropped' \in [Links -> Times \cup {None}]
    BY <1>1, <1>2 DEF TypeOK
  <2>2. phase' \in [Links -> Phases] /\ atPeer' \in [Links -> SUBSET Calls]
    BY <1>1, <1>2 DEF TypeOK, Phases
  <2> QED
    BY <1>1, <1>2, <1>4, <1>6, <2>1, <2>2 DEF TypeOK, calls
<1>8. ASSUME NEW k \in Links PROVE LinkFacts(k)'
  <2>1. LinkFacts(k) /\ Bound' = Bound
    BY <1>1, <1>2 DEF LinkInv, Bound
  <2>2. CASE k = l
    BY <2>1, <2>2, <1>1, <1>2 DEF TypeOK, LinkFacts
  <2>3. CASE k # l
    <3>1. phase'[k] = phase[k] /\ dropped'[k] = dropped[k]
      BY <2>3, <1>1, <1>2, <1>3 DEF TypeOK
    <3> QED
      BY <2>1, <3>1, <1>2, <1>6 DEF LinkFacts
  <2> QED
    BY <2>2, <2>3
<1>9. RegistryFacts'
  BY <1>1, <1>2 DEF TypeOK, LinkInv, RegistryFacts, Registered
<1>10. NewestLinkServes'
  <2> SUFFICES ASSUME NEW k \in Links, phase'[k] = "open", Newer(k)' = {},
                      now' < row'[session'[k]].expires
               PROVE  live'[k]
    BY DEF NewestLinkServes
  <2>1. k # l /\ phase[k] = "open" /\ live'[k] = live[k]
    BY <1>1, <1>2, <1>3 DEF TypeOK
  <2>2. Newer(k) = {} /\ now < row[session[k]].expires
    BY <2>1, <1>1, <1>2, <1>6 DEF Newer, LinkInv, LinkFacts
  <2> QED
    BY <1>1, <2>1, <2>2 DEF NewestLinkServes
<1> QED
  BY <1>1, <1>2, <1>4, <1>7, <1>8, <1>9, <1>10 DEF RelayInv, LinkInv, BindingFacts

LEMMA ResultSound ==
  ASSUME RelayInv, NEW l \in Links, NEW c \in Calls, NEW v \in Results, Result(l, c, v)
  PROVE  RelayInv'
<1>1. TypeOK /\ CallInv /\ v \in {c, "error"}
  BY DEF RelayInv, Result
<1>2. LinkInv' /\ NewestLinkServes'
  BY LinksUntouched DEF RelayInv, Result, linkVars, conns
<1>3. UNCHANGED <<atPeer, sweep>> /\ UNCHANGED calls /\ UNCHANGED linkVars
  BY DEF Result, linkVars, conns
<1>4. atPeer' \in [Links -> SUBSET Calls]
  BY <1>1, <1>3 DEF TypeOK
<1>5. CASE job[l] = c /\ waiter' = [waiter EXCEPT ![c] = v] /\ job' = [job EXCEPT ![l] = None]
  <2>1. c # None /\ v # None /\ link[c] = l /\ step[c] \in InFlight
    BY <1>1, <1>5, RelayParameters DEF CallInv, SlotsMatchCalls
  <2>2. job' \in [Links -> Calls \cup {None}] /\ waiter' \in [Calls -> Results \cup {None}]
    BY <1>1, <1>5 DEF TypeOK
  <2>3. TypeOK'
    BY <1>1, <1>3, <1>4, <2>2 DEF TypeOK, calls, linkVars
  <2>4. ASSUME NEW d \in Calls PROVE CallFacts(d)'
    <3>1. CallFacts(d)
      BY <1>1 DEF CallInv
    <3>2. d = c \/ waiter'[d] = waiter[d]
      BY <1>1, <1>5 DEF TypeOK
    <3> QED
      BY <3>1, <3>2, <2>1, <1>1, <1>3, <1>5 DEF TypeOK, CallFacts, calls, InFlight
  <2>5. ASSUME NEW k \in Links, job'[k] # None
        PROVE  link'[job'[k]] = k /\ step'[job'[k]] \in InFlight /\ waiter'[job'[k]] = None
    <3>1. k # l /\ job'[k] = job[k] /\ job[k] \in Calls
      BY <2>5, <1>1, <1>5 DEF TypeOK
    <3>2. link[job[k]] = k /\ step[job[k]] \in InFlight /\ waiter[job[k]] = None
      BY <3>1, <2>5, <1>1 DEF CallInv, SlotsMatchCalls
    <3>3. job[k] # c
      BY <3>1, <3>2, <2>1
    <3> QED
      BY <3>1, <3>2, <3>3, <1>1, <1>3, <1>5 DEF TypeOK, calls
  <2>6. ASSUME NEW d \in Calls, step'[d] \in InFlight, waiter'[d] = None
        PROVE  job'[link'[d]] = d
    <3>1. d # c /\ waiter[d] = None /\ step[d] \in InFlight /\ link'[d] = link[d]
      BY <2>1, <2>6, <1>1, <1>3, <1>5 DEF TypeOK, calls
    <3>2. job[link[d]] = d /\ link[d] \in Links
      BY <3>1, <1>1 DEF CallInv, SlotsMatchCalls, CallFacts
    <3> QED
      BY <3>1, <3>2, <1>1, <1>5 DEF TypeOK
  <2> QED
    BY <1>2, <2>3, <2>4, <2>5, <2>6 DEF RelayInv, CallInv, SlotsMatchCalls, InFlight
<1>6. CASE UNCHANGED slots
  <2>1. CallInv'
    BY <1>1, <1>3, <1>6, CallsUntouched
  <2>2. TypeOK'
    BY <1>1, <1>3, <1>4, <1>6 DEF TypeOK, calls, linkVars, slots
  <2> QED
    BY <1>2, <2>1, <2>2 DEF RelayInv
<1> QED
  BY <1>5, <1>6 DEF Result, Matches

--------------------------------------------------------------------------------
(* The cleanup and the clock *)

LEMMA CollectSound ==
  ASSUME RelayInv, Collect
  PROVE  RelayInv'
<1> DEFINE stale == Stale(registry, row, now)
<1> DEFINE ends == {registry[s] : s \in stale}
<1>1. TypeOK /\ LinkInv /\ NewestLinkServes /\ CallInv /\ binding = None
  BY DEF Collect, RelayInv, Unlocked
<1>2. /\ sweep' = [s \in Sessions |-> IF s \in stale THEN "collected" ELSE "no"]
      /\ live' = [l \in Links |-> live[l] /\ l \notin ends]
      /\ FailSwept({l \in ends : live[l]})
      /\ UNCHANGED <<now, phase, session, at, epoch, dropped, atPeer, registry, binding, row, calls>>
  BY DEF Collect
<1>3. ASSUME NEW s \in stale
      PROVE  /\ s \in Registered(registry) /\ registry[s] \in Links /\ session[registry[s]] = s
             /\ now >= row[s].expires \/ dropped[registry[s]] # None
  BY <1>1 DEF Stale, Registered, TypeOK, LinkInv, RegistryFacts
<1>4. {l \in ends : live[l]} \in SUBSET Links
  BY <1>3
<1>5. CallInv' /\ job' \in [Links -> Calls \cup {None}] /\ waiter' \in [Calls -> Results \cup {None}]
  BY <1>1, <1>2, <1>4, SweepingKeepsCalls
<1>6. TypeOK'
  <2>1. live' \in [Links -> BOOLEAN] /\ sweep' \in [Sessions -> {"no", "collected", "discarded"}]
    BY <1>1, <1>2 DEF TypeOK
  <2> QED
    BY <1>1, <1>2, <1>5, <2>1 DEF TypeOK, calls
<1>7. LinkInv'
  <2>1. \A k \in Links : LinkFacts(k)'
    BY <1>1, <1>2 DEF LinkInv, LinkFacts, Bound
  <2> QED
    BY <2>1, <1>1, <1>2 DEF LinkInv, RegistryFacts, BindingFacts, Registered
<1>8. NewestLinkServes'
  <2> SUFFICES ASSUME NEW k \in Links, phase[k] = "open", Newer(k) = {},
                      now < row[session[k]].expires
               PROVE  live'[k]
    BY <1>2 DEF NewestLinkServes, Newer
  <2>1. live[k] /\ dropped[k] = None /\ session[k] \in Sessions
    BY <1>1 DEF NewestLinkServes, LinkInv, LinkFacts
  <2>2. ~(now >= row[session[k]].expires)
    BY <1>1, <2>1 DEF TypeOK, Rows, Times
  <2>3. k \notin ends
    BY <2>1, <2>2, <1>3
  <2> QED
    BY <2>1, <2>3, <1>2
<1> QED
  BY <1>5, <1>6, <1>7, <1>8 DEF RelayInv

LEMMA DiscardSound ==
  ASSUME RelayInv, NEW s \in Sessions, Discard(s)
  PROVE  RelayInv'
<1>1. TypeOK /\ LinkInv /\ NewestLinkServes /\ CallInv
  BY DEF RelayInv
<1>2. /\ registry' = [registry EXCEPT ![s] = None]
      /\ sweep' = [sweep EXCEPT ![s] = "discarded"]
      /\ UNCHANGED <<now, conns, slots, binding, row, calls>>
  BY DEF Discard
<1>3. TypeOK'
  BY <1>1, <1>2 DEF TypeOK, conns, slots, calls
<1>4. CallInv'
  BY <1>1, <1>2, CallsUntouched
<1>5. \A u \in Registered(registry') : u \in Registered(registry) /\ registry'[u] = registry[u]
  BY <1>1, <1>2 DEF TypeOK, Registered
<1>6. \A k \in Links : LinkFacts(k)'
  BY <1>1, <1>2 DEF LinkInv, LinkFacts, Bound, conns
<1>7. RegistryFacts'
  BY <1>1, <1>2, <1>5 DEF LinkInv, RegistryFacts, conns
<1>8. BindingFacts'
  BY <1>1, <1>2, <1>5 DEF LinkInv, BindingFacts, MayReplace, conns
<1>9. NewestLinkServes'
  BY <1>1, <1>2 DEF NewestLinkServes, Newer, conns
<1> QED
  BY <1>3, <1>4, <1>6, <1>7, <1>8, <1>9 DEF RelayInv, LinkInv

LEMMA TickSound ==
  ASSUME RelayInv, Tick
  PROVE  RelayInv'
<1>1. TypeOK /\ LinkInv /\ NewestLinkServes /\ CallInv
  BY DEF RelayInv
<1>2. /\ now \in Nat /\ now' = now + 1 /\ now < MaxTime
      /\ UNCHANGED <<conns, slots, registry, binding, row, sweep, calls>>
  BY <1>1 DEF Tick, TypeOK, Times
<1>3. TypeOK'
  BY <1>1, <1>2, RelayParameters DEF TypeOK, Times, conns, slots, calls
<1>4. CallInv'
  BY <1>1, <1>2, CallsUntouched
<1>5. ASSUME NEW k \in Links PROVE LinkFacts(k)'
  <2>1. LinkFacts(k) /\ Bound' = Bound /\ at[k] \in Nat
    BY <1>1, <1>2 DEF LinkInv, Bound, conns, TypeOK, Times
  <2> QED
    BY <2>1, <1>2 DEF LinkFacts, conns
<1>6. RegistryFacts' /\ BindingFacts'
  BY <1>1, <1>2 DEF LinkInv, RegistryFacts, BindingFacts, MayReplace, Registered, conns
<1>7. NewestLinkServes'
  <2>1. \A k \in Links : phase[k] = "open" => row[session[k]].expires \in Nat
    BY <1>1, RelayParameters DEF LinkInv, LinkFacts, TypeOK, Rows
  <2> QED
    BY <1>1, <1>2, <2>1 DEF NewestLinkServes, Newer, conns
<1> QED
  BY <1>3, <1>4, <1>5, <1>6, <1>7 DEF RelayInv, LinkInv

--------------------------------------------------------------------------------
(* The theorems *)

(* Registry, handlers, rows, slots and workers agree on who serves whom. *)
THEOREM RelayInvariant == Spec => []RelayInv
<1>1. RelayInv /\ [Next]_vars => RelayInv'
  <2> SUFFICES ASSUME RelayInv, [Next]_vars PROVE RelayInv'
    OBVIOUS
  <2>1. CASE Tick
    BY <2>1, TickSound
  <2>2. CASE FinishBind
    BY <2>2, FinishBindSound
  <2>3. ASSUME NEW l \in Links, Handler(l) PROVE RelayInv'
    BY <2>3, AcceptSound, PairSound, ReconnectSound, RefuseSound, TouchSound, LeaveSound,
       ResultSound DEF Handler
  <2>4. CASE Cleanup
    BY <2>4, CollectSound, DiscardSound, RevokeSound DEF Cleanup
  <2>5. ASSUME NEW c \in Calls, Worker(c) PROVE RelayInv'
    BY <2>5, LookupSound, BeginSound, MovingSound, EndingSound DEF Worker
  <2>6. CASE UNCHANGED vars
    <3>1. TypeOK'
      BY <2>6 DEF RelayInv, TypeOK, vars, conns, slots, calls
    <3>2. LinkInv' /\ NewestLinkServes'
      BY <2>6, LinksUntouched DEF RelayInv, vars, conns, linkVars
    <3>3. CallInv'
      BY <2>6, CallsUntouched DEF RelayInv, vars
    <3> QED
      BY <3>1, <3>2, <3>3 DEF RelayInv
  <2> QED
    BY <2>4, <2>5, <2>6, <2>1, <2>2, <2>3 DEF Next
<1> QED
  BY InitSound, <1>1, PTL DEF Spec

(* Every variable has its type. *)
THEOREM TypeCorrect == Spec => []TypeOK
<1>1. RelayInv => TypeOK
  BY DEF RelayInv
<1> QED
  BY <1>1, RelayInvariant, PTL

(* Content that a call returns is the answer to its own job (resolve_job, cancel_job). *)
THEOREM AnswersAreNotCrossed == Spec => []AnswerIsItsOwn
<1>1. RelayInv => AnswerIsItsOwn
  BY RelayParameters DEF RelayInv, CallInv, CallFacts, AnswerIsItsOwn
<1> QED
  BY <1>1, RelayInvariant, PTL

(* A job in a slot belongs to a call under way there, and a call that is not resolved
   still has its slot (begin_job, resolve_job, cancel_job, fail_inflight). *)
THEOREM SlotsAreTrue == Spec => []SlotsMatchCalls
<1>1. RelayInv => SlotsMatchCalls
  BY DEF RelayInv, CallInv
<1> QED
  BY <1>1, RelayInvariant, PTL

(* A scope has at most one bridge, and its newest link keeps its socket (bind, detach,
   expiry_cleanup). *)
THEOREM NewestBridgeServes == Spec => []ScopeIsServed
<1>1. RelayInv => OneBridgePerScope
  <2> SUFFICES ASSUME RelayInv, NEW scope \in Scopes PROVE Cardinality(InScope(scope)) <= 1
    BY DEF OneBridgePerScope
  <2>1. CASE InScope(scope) = {}
    BY <2>1, FS_EmptySet
  <2>2. CASE InScope(scope) # {}
    <3>1. PICK s \in Registered(registry) : ScopeOf[s] = scope
      BY <2>2 DEF InScope
    <3>2. InScope(scope) = {registry[s]}
      BY <3>1 DEF RelayInv, LinkInv, RegistryFacts, InScope
    <3> QED
      BY <3>2, FS_Singleton
  <2> QED
    BY <2>1, <2>2
<1>2. RelayInv => ScopeIsServed
  BY <1>1 DEF RelayInv, ScopeIsServed
<1> QED
  BY <1>2, RelayInvariant, PTL

================================================================================
