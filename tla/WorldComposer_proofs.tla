-------------------------- MODULE WorldComposer_proofs --------------------------
(* Proofs about WorldComposer, for every value of the constants: what generation may
   spend, that what it failed to make is counted, and that decoration displaces an
   essential object by taking its name only. *)
EXTENDS WorldComposer, FiniteSetTheorems, SequenceTheorems, WellFoundedInduction,
        TLAPS

--------------------------------------------------------------------------------
(* The inductive invariant *)

Types ==
  /\ at \in Places
  /\ reqs \in Seq(Requests)
  /\ next \in 1 .. Len(reqs) + 1
  /\ record \in [DOMAIN reqs -> Assets \cup Procedural \cup {None}]
  /\ asked \subseteq DOMAIN reqs
  /\ entered \subseteq Names
  /\ failed \subseteq Names
  /\ core \in Nat
  /\ calls \in Nat
  /\ assetCalls \in [Names -> 0 .. MaxAssetCalls]
  /\ ceilingHit \in BOOLEAN
  /\ failedHit \in BOOLEAN
  /\ at = "asking" => next \in DOMAIN reqs /\ Current.name \in entered

(* A call for an object, by its number: calls are counted as pairs. *)
CallsFor(counts) ==
  {c \in Names \X (1 .. MaxAssetCalls) : c[2] <= counts[c[1]]}

Spending ==
  /\ calls = core + Cardinality(CallsFor(assetCalls))
  /\ \A n \in Names : assetCalls[n] # 0 => n \in entered
  /\ Cardinality(entered) <= MaxProcedural
  /\ AssetsHaveTheirShare

(* The request that the provider is being asked for. *)
Pending(i) == at = "asking" /\ i = next

(* What the i-th request was asked for was made, or has failed, or hit a ceiling. *)
Settled(i) ==
  record[i] \in Procedural \/ reqs[i].name \in failed \/ failedHit \/ ceilingHit

(* What was asked for lies behind the current request, and was made or has failed. *)
Accounting ==
  /\ at \in {"resolving", "asking", "drafted"} =>
       \A i \in asked : Pending(i) \/ (i < next /\ Settled(i))
  /\ at = "drafted" => ~ failedHit /\ ~ ceilingHit

BudgetInv == Types /\ Spending /\ Accounting

--------------------------------------------------------------------------------
(* Counting *)

LEMMA CallsAreFinite ==
  ASSUME NEW counts \in [Names -> 0 .. MaxAssetCalls]
  PROVE  /\ IsFiniteSet(CallsFor(counts))
         /\ Cardinality(CallsFor(counts)) \in Nat
<1>1. IsFiniteSet(1 .. MaxAssetCalls)
  BY FS_Interval, ComposerParameters
<1>2. IsFiniteSet(Names \X (1 .. MaxAssetCalls))
  BY <1>1, FS_Product, ComposerParameters
<1>3. IsFiniteSet(CallsFor(counts))
  BY <1>2, FS_Subset DEF CallsFor
<1> QED
  BY <1>3, FS_CardinalityType

(* One call more for an object is one call more. *)
LEMMA OneMoreCall ==
  ASSUME NEW counts \in [Names -> 0 .. MaxAssetCalls], NEW n \in Names,
         counts[n] < MaxAssetCalls
  PROVE  LET more == [counts EXCEPT ![n] = @ + 1]
         IN  /\ more \in [Names -> 0 .. MaxAssetCalls]
             /\ Cardinality(CallsFor(more)) = Cardinality(CallsFor(counts)) + 1
<1> DEFINE more == [counts EXCEPT ![n] = @ + 1]
           new == <<n, counts[n] + 1>>
<1>1. MaxAssetCalls \in Nat /\ counts[n] \in Nat
  BY ComposerParameters
<1>2. more \in [Names -> 0 .. MaxAssetCalls]
  BY <1>1
<1>3. CallsFor(more) = CallsFor(counts) \cup {new}
  <2>1. new \in CallsFor(more)
    BY <1>1 DEF CallsFor
  <2>2. ASSUME NEW c \in Names \X (1 .. MaxAssetCalls)
        PROVE  c \in CallsFor(more) <=> c \in CallsFor(counts) \/ c = new
    <3>1. CASE c[1] = n
      BY <1>1, <3>1 DEF CallsFor
    <3>2. CASE c[1] # n
      BY <1>1, <3>2 DEF CallsFor
    <3> QED
      BY <3>1, <3>2
  <2> QED
    BY <2>1, <2>2 DEF CallsFor
<1>4. new \notin CallsFor(counts)
  BY <1>1 DEF CallsFor
<1> QED
  BY <1>2, <1>3, <1>4, CallsAreFinite, FS_AddElement

LEMMA MoreIsMore ==
  ASSUME NEW a \in Nat, NEW b \in Nat, NEW m \in Nat, a <= b
  PROVE  a * m <= b * m
<1>1. PICK d \in Nat : b = a + d
  BY b - a \in Nat, b = a + (b - a)
<1>2. b * m = a * m + d * m /\ d * m \in Nat /\ a * m \in Nat
  BY <1>1
<1> QED
  BY <1>2

(* All the calls for objects are within the share of the objects that were counted. *)
LEMMA ShareOfObjects ==
  ASSUME NEW counts \in [Names -> 0 .. MaxAssetCalls], NEW S \in SUBSET Names,
         \A n \in Names : counts[n] # 0 => n \in S, Cardinality(S) <= MaxProcedural
  PROVE  Cardinality(CallsFor(counts)) <= MaxProcedural * MaxAssetCalls
<1>1. /\ MaxAssetCalls \in Nat /\ MaxProcedural \in Nat
      /\ IsFiniteSet(S) /\ Cardinality(S) \in Nat
  BY ComposerParameters, FS_Subset, FS_CardinalityType
<1>2. /\ IsFiniteSet(1 .. MaxAssetCalls)
      /\ Cardinality(1 .. MaxAssetCalls) = MaxAssetCalls
  BY <1>1, FS_Interval, ComposerParameters
<1>3. /\ IsFiniteSet(S \X (1 .. MaxAssetCalls))
      /\ Cardinality(S \X (1 .. MaxAssetCalls)) = Cardinality(S) * MaxAssetCalls
  BY <1>1, <1>2, FS_Product
<1>4. CallsFor(counts) \subseteq S \X (1 .. MaxAssetCalls)
  BY <1>1 DEF CallsFor
<1>5. Cardinality(CallsFor(counts)) <= Cardinality(S) * MaxAssetCalls
  BY <1>3, <1>4, FS_Subset
<1>6. Cardinality(S) * MaxAssetCalls <= MaxProcedural * MaxAssetCalls
  BY <1>1, MoreIsMore
<1> QED
  BY <1>1, <1>5, <1>6, CallsAreFinite

--------------------------------------------------------------------------------
(* The steps *)

LEMMA BudgetInit == Init => BudgetInv
<1> SUFFICES ASSUME Init PROVE BudgetInv
  OBVIOUS
<1>a. MaxAssetCalls \in Nat /\ MaxProcedural \in Nat
  BY ComposerParameters
<1>1. Types
  <2>1. reqs \in Seq(Requests) /\ next \in 1 .. Len(reqs) + 1
    BY DEF Init
  <2>2. assetCalls \in [Names -> 0 .. MaxAssetCalls]
    BY <1>a DEF Init
  <2>3. record \in [DOMAIN reqs -> Assets \cup Procedural \cup {None}]
    BY DEF Init
  <2> QED
    BY <2>1, <2>2, <2>3 DEF Init, Types, Places
<1>2. Spending
  <2>1. CallsFor(assetCalls) = {}
    BY <1>a DEF Init, CallsFor
  <2>2. Cardinality({}) = 0
    BY FS_EmptySet
  <2>3. why # "global"
    BY ComposerNone DEF Init, Codes
  <2> QED
    <3>1. calls = core + Cardinality(CallsFor(assetCalls))
      <4>1. Cardinality(CallsFor(assetCalls)) = 0
        BY <2>1, <2>2
      <4>2. calls = 0 /\ core = 0
        BY DEF Init
      <4> QED
        BY <4>1, <4>2
    <3>2. \A n \in Names : assetCalls[n] # 0 => n \in entered
      BY DEF Init
    <3>3. Cardinality(entered) <= MaxProcedural
      BY <1>a, <2>2 DEF Init
    <3> QED
      BY <2>3, <3>1, <3>2, <3>3 DEF Spending, AssetsHaveTheirShare
<1>3. Accounting
  BY DEF Init, Accounting
<1> QED
  BY <1>1, <1>2, <1>3 DEF BudgetInv

LEMMA RequestsHaveNames ==
  ASSUME NEW w \in Seq(Requests), NEW i \in DOMAIN w
  PROVE  w[i].name \in Names
<1>1. w[i] \in Requests
  OBVIOUS
<1>2. ASSUME NEW r \in Requests PROVE r.name \in Names
  BY DEF Requests
<1> QED
  BY <1>1, <1>2

(* The requests are numbered from one, and the next one is one of them or follows. *)
LEMMA RequestNumbers ==
  ASSUME BudgetInv
  PROVE  /\ reqs \in Seq(Requests)
         /\ Len(reqs) \in Nat /\ DOMAIN reqs = 1 .. Len(reqs)
         /\ DOMAIN reqs \subseteq Nat \ {0}
         /\ next \in Nat \ {0} /\ next <= Len(reqs) + 1
<1>1. reqs \in Seq(Requests)
  BY DEF BudgetInv, Types
<1>2. Len(reqs) \in Nat /\ DOMAIN reqs = 1 .. Len(reqs)
  BY <1>1, LenProperties
<1>3. next \in 1 .. Len(reqs) + 1
  BY DEF BudgetInv, Types
<1> QED
  BY <1>1, <1>2, <1>3

(* A resolved request lies behind, and changes nothing of those behind it. *)
LEMMA Resolution ==
  ASSUME BudgetInv, next \in DOMAIN reqs, UNCHANGED reqs,
         NEW asset \in Assets \cup Procedural \cup {None},
         next' = next + 1, record' = [record EXCEPT ![next] = asset]
  PROVE  /\ next' \in 1 .. Len(reqs') + 1
         /\ record' \in [DOMAIN reqs' -> Assets \cup Procedural \cup {None}]
         /\ record'[next] = asset
         /\ \A i \in DOMAIN reqs : i # next => record'[i] = record[i]
<1>1. record \in [DOMAIN reqs -> Assets \cup Procedural \cup {None}]
  BY DEF BudgetInv, Types
<1>2. next' \in 1 .. Len(reqs') + 1
  BY RequestNumbers
<1> QED
  BY <1>1, <1>2

LEMMA NoSpecResolves ==
  ASSUME BudgetInv, next \in DOMAIN reqs, NoSpec \/ Unresolved
  PROVE  /\ next' = next + 1
         /\ \E asset \in Assets \cup Procedural \cup {None} :
              record' = [record EXCEPT ![next] = asset]
<1>1. Current.name \in Names
  BY RequestsHaveNames DEF BudgetInv, Types, Current
<1>2. CatalogAsset[Current.name] \in Assets \cup Procedural \cup {None}
  BY <1>1, ComposerParameters
<1> QED
  BY <1>2 DEF NoSpec, Unresolved, ResolvedTo

LEMMA ComposeKeeps ==
  ASSUME NEW w \in Seq(Requests), BudgetInv, Compose(w),
         NEW used \in Nat, core' = core + used, calls' = calls + used
  PROVE  BudgetInv'
<1>0. core' \in Nat /\ calls' \in Nat
  BY DEF BudgetInv, Types
<1>1. Types'
  <2>1. [i \in DOMAIN w |-> None] \in [DOMAIN w -> Assets \cup Procedural \cup {None}]
    OBVIOUS
  <2>2. reqs' = w
    BY DEF Compose
  <2>3. next' \in 1 .. Len(reqs') + 1
    BY DEF Compose
  <2>4. /\ at' = "resolving"
        /\ record' \in [DOMAIN reqs' -> Assets \cup Procedural \cup {None}]
        /\ asked' = {} /\ ceilingHit' = FALSE /\ failedHit' = FALSE
        /\ UNCHANGED <<assetCalls, entered, failed>>
    BY <2>1, <2>2 DEF Compose
  <2>5. /\ entered \subseteq Names /\ failed \subseteq Names
        /\ assetCalls \in [Names -> 0 .. MaxAssetCalls]
    BY DEF BudgetInv, Types
  <2> QED
    BY <1>0, <2>2, <2>3, <2>4, <2>5 DEF Types, Places
<1>2. Spending'
  <2>1. /\ UNCHANGED <<assetCalls, entered, why>>
    BY DEF Compose
  <2>2. /\ core \in Nat /\ calls \in Nat
        /\ assetCalls \in [Names -> 0 .. MaxAssetCalls]
        /\ calls = core + Cardinality(CallsFor(assetCalls))
        /\ \A n \in Names : assetCalls[n] # 0 => n \in entered
        /\ Cardinality(entered) <= MaxProcedural
        /\ why = "global" => core + MaxProcedural * MaxAssetCalls >= MaxCalls
    BY DEF BudgetInv, Types, Spending, AssetsHaveTheirShare
  <2>3. Cardinality(CallsFor(assetCalls)) \in Nat
    BY <2>2, CallsAreFinite
  <2>4. MaxProcedural * MaxAssetCalls \in Nat /\ MaxCalls \in Nat
    BY ComposerParameters
  <2>5. (calls = core + Cardinality(CallsFor(assetCalls)))'
    BY <2>1, <2>2, <2>3
  <2>6. why' = "global" => core' + MaxProcedural * MaxAssetCalls >= MaxCalls
    BY <2>1, <2>2, <2>4
  <2> QED
    BY <2>1, <2>2, <2>5, <2>6 DEF Spending, AssetsHaveTheirShare
<1>3. Accounting'
  <2>1. at' = "resolving" /\ asked' = {}
    BY DEF Compose
  <2> QED
    BY <2>1 DEF Accounting
<1> QED
  BY <1>1, <1>2, <1>3 DEF BudgetInv

(* What is being resolved has not been asked for in this pass. *)
LEMMA NotYetAsked ==
  ASSUME BudgetInv, at = "resolving"
  PROVE  next \notin asked
<1>1. next \in Nat
  BY DEF BudgetInv, Types
<1>2. \A i \in asked : i < next
  BY DEF BudgetInv, Accounting, Pending
<1> QED
  BY <1>1, <1>2

(* A request that is left behind is accounted for when what it was asked for is. *)
LEMMA LeftBehind ==
  ASSUME BudgetInv, at \in {"resolving", "asking"}, next \in DOMAIN reqs,
         UNCHANGED reqs, NEW asset \in Assets \cup Procedural \cup {None},
         next' = next + 1, record' = [record EXCEPT ![next] = asset],
         asked' \subseteq asked \cup {next},
         at' \in {"resolving", "failed"},
         failed \subseteq failed', failedHit => failedHit', ceilingHit => ceilingHit',
         next \in asked' =>
           \/ asset \in Procedural \/ Current.name \in failed'
           \/ failedHit' \/ ceilingHit'
  PROVE  Accounting'
<1>1. /\ next \in Nat /\ next' = next + 1 /\ asked \subseteq DOMAIN reqs
      /\ DOMAIN reqs \subseteq Nat
  BY RequestNumbers DEF BudgetInv, Types
<1>2. ASSUME NEW i \in asked'
      PROVE  i < next' /\ Settled(i)'
  <2>1. CASE i = next
    <3>1. record'[i] = asset
      BY <2>1, Resolution
    <3> QED
      BY <1>1, <1>2, <2>1, <3>1 DEF Settled, Current
  <2>2. CASE i # next
    <3>1. i \in asked /\ ~ Pending(i)
      BY <2>2 DEF Pending
    <3>2. i < next /\ Settled(i)
      BY <3>1 DEF BudgetInv, Accounting
    <3>3. record'[i] = record[i] /\ i \in Nat
      BY <1>1, <2>2, <3>1, Resolution
    <3> QED
      BY <1>1, <3>2, <3>3 DEF Settled
  <2> QED
    BY <2>1, <2>2
<1> QED
  BY <1>2 DEF Accounting

(* One call for an object that has been counted. *)
LEMMA CountKeeps ==
  ASSUME BudgetInv, NEW n \in entered, MayCallFor(n), Count(n),
         UNCHANGED <<core, entered>>, why' \in {why, "provider"}
  PROVE  /\ Spending'
         /\ calls' \in Nat
         /\ assetCalls' \in [Names -> 0 .. MaxAssetCalls]
<1>1. /\ n \in Names /\ core \in Nat /\ calls \in Nat
      /\ assetCalls \in [Names -> 0 .. MaxAssetCalls]
      /\ calls = core + Cardinality(CallsFor(assetCalls))
      /\ \A m \in Names : assetCalls[m] # 0 => m \in entered
      /\ Cardinality(entered) <= MaxProcedural
      /\ AssetsHaveTheirShare
  BY DEF BudgetInv, Types, Spending
<1>2. /\ assetCalls[n] < MaxAssetCalls
      /\ calls' = calls + 1
      /\ assetCalls' = [assetCalls EXCEPT ![n] = @ + 1]
  BY DEF MayCallFor, Count
<1>3. /\ assetCalls' \in [Names -> 0 .. MaxAssetCalls]
      /\ Cardinality(CallsFor(assetCalls')) = Cardinality(CallsFor(assetCalls)) + 1
      /\ Cardinality(CallsFor(assetCalls)) \in Nat
  BY <1>1, <1>2, OneMoreCall, CallsAreFinite
<1>4. \A m \in Names : assetCalls'[m] # 0 => m \in entered'
  BY <1>1, <1>2
<1>5. AssetsHaveTheirShare'
  BY <1>1 DEF AssetsHaveTheirShare
<1> QED
  BY <1>3, <1>4, <1>5, <1>1, <1>2 DEF Spending

(* Nothing is spent. *)
LEMMA BudgetsKept ==
  ASSUME BudgetInv, UNCHANGED <<core, calls, assetCalls, entered>>,
         why' = why \/ why' # "global"
  PROVE  Spending'
BY DEF BudgetInv, Spending, AssetsHaveTheirShare

LEMMA PassBegins == BudgetInv /\ BeginPass => BudgetInv'
<1> SUFFICES ASSUME BudgetInv, BeginPass PROVE BudgetInv'
  OBVIOUS
<1>1. PICK w \in Answers : Compose(Injected(Parsed(w)))
  BY DEF BeginPass
<1>2. PICK n \in 1 .. CoreStep : core' = core + n /\ calls' = calls + n
  BY DEF BeginPass
<1>3. n \in Nat
  OBVIOUS
<1>4. Injected(Parsed(w)) \in Seq(Requests)
  BY AnswersAreRequests
<1> QED
  BY <1>3, <1>4, <1>1, <1>2, ComposeKeeps

LEMMA ComposedAgain == BudgetInv /\ Recompose => BudgetInv'
<1> SUFFICES ASSUME BudgetInv, Recompose PROVE BudgetInv'
  OBVIOUS
<1>1. reqs \in Seq(Requests) /\ core \in Nat /\ calls \in Nat
  BY DEF BudgetInv, Types
<1>2. Compose(reqs) /\ core' = core + 0 /\ calls' = calls + 0 /\ 0 \in Nat
  BY <1>1 DEF Recompose
<1> QED
  BY <1>1, <1>2, ComposeKeeps

(* The requests that are settled without the provider. *)
LEMMA SettledAtOnce ==
  BudgetInv /\ (LeaveOut \/ FromCatalog \/ AskingDeclined) => BudgetInv'
<1> SUFFICES ASSUME BudgetInv, LeaveOut \/ FromCatalog \/ AskingDeclined
             PROVE  BudgetInv'
  OBVIOUS
<1>1. /\ at = "resolving" /\ next \in DOMAIN reqs
      /\ UNCHANGED <<at, why, reqs, ceilingHit, failedHit, asked, core, calls,
                     assetCalls, entered, failed>>
  BY DEF LeaveOut, FromCatalog, AskingDeclined, Asking, Resolving, budgets
<1>2. Current.name \in Names /\ next \notin asked
  BY <1>1, RequestsHaveNames, NotYetAsked DEF BudgetInv, Types, Current
<1>3. PICK asset \in Assets \cup Procedural \cup {None} :
        next' = next + 1 /\ record' = [record EXCEPT ![next] = asset]
  <2>1. CASE FromCatalog
    <3>1. CatalogAsset[Current.name] \in Assets \cup Procedural \cup {None}
      BY <1>2, ComposerParameters
    <3> QED
      BY <2>1, <3>1 DEF FromCatalog, ResolvedTo
  <2>2. CASE LeaveOut \/ AskingDeclined
    BY <1>1, <2>2, NoSpecResolves DEF LeaveOut, AskingDeclined
  <2> QED
    BY <2>1, <2>2
<1>4. Accounting'
  BY <1>1, <1>2, <1>3, LeftBehind
<1>5. /\ next' \in 1 .. Len(reqs') + 1
      /\ record' \in [DOMAIN reqs' -> Assets \cup Procedural \cup {None}]
  BY <1>1, <1>3, Resolution
<1>6. Types'
  BY <1>1, <1>5 DEF BudgetInv, Types
<1>7. Spending'
  BY <1>1, BudgetsKept
<1> QED
  BY <1>4, <1>6, <1>7 DEF BudgetInv

LEMMA AskKeeps == BudgetInv /\ Ask => BudgetInv'
<1> SUFFICES ASSUME BudgetInv, Ask PROVE BudgetInv'
  OBVIOUS
<1>1. /\ at = "resolving" /\ next \in DOMAIN reqs
      /\ asked' = asked \cup {next}
      /\ UNCHANGED <<why, reqs, failedHit, core, calls, assetCalls, failed>>
  BY DEF Ask, Asking, Resolving
<1>2. /\ Current.name \in Names
      /\ next \in Nat /\ next \in 1 .. Len(reqs) + 1
      /\ record \in [DOMAIN reqs -> Assets \cup Procedural \cup {None}]
      /\ asked' \subseteq DOMAIN reqs' /\ entered \subseteq Names
  BY <1>1, RequestsHaveNames DEF BudgetInv, Types, Current
<1>3. CASE /\ MayEnter(Current.name)
           /\ entered' = entered \cup {Current.name}
           /\ at' = "asking"
           /\ UNCHANGED <<next, ceilingHit, record>>
  <2>1. Types'
    <3>1. Current' = Current
      BY <1>1, <1>3 DEF Current
    <3>2. Current.name \in entered' /\ entered' \subseteq Names
      BY <1>1, <1>2, <1>3
    <3> QED
      BY <1>1, <1>2, <1>3, <3>1, <3>2 DEF BudgetInv, Types, Places
  <2>2. Cardinality(entered') <= MaxProcedural
    <3>1. /\ IsFiniteSet(entered) /\ Cardinality(entered) \in Nat
          /\ MaxProcedural \in Nat /\ Cardinality(entered) <= MaxProcedural
      BY <1>2, ComposerParameters, FS_Subset, FS_CardinalityType
      DEF BudgetInv, Spending
    <3>2. CASE Current.name \in entered
      BY <1>3, <3>1, <3>2, entered' = entered
    <3>3. CASE Current.name \notin entered
      <4>1. Cardinality(entered) < MaxProcedural
        BY <1>3, <3>3 DEF MayEnter
      <4>2. Cardinality(entered \cup {Current.name}) = Cardinality(entered) + 1
        BY <3>1, <3>3, FS_AddElement
      <4> QED
        BY <1>3, <3>1, <4>1, <4>2
    <3> QED
      BY <3>2, <3>3
  <2>3. Spending'
    <3>1. \A n \in Names : assetCalls'[n] # 0 => n \in entered'
      BY <1>1, <1>3 DEF BudgetInv, Spending
    <3> QED
      BY <1>1, <2>2, <3>1 DEF BudgetInv, Spending, AssetsHaveTheirShare
  <2>4. Accounting'
    <3>1. ASSUME NEW i \in asked' PROVE Pending(i)' \/ (i < next' /\ Settled(i)')
      <4>1. CASE i = next
        BY <1>3, <4>1 DEF Pending
      <4>2. CASE i # next
        <5>1. i \in asked /\ ~ Pending(i)
          BY <1>1, <4>2 DEF Pending
        <5> QED
          BY <1>1, <1>3, <5>1 DEF BudgetInv, Accounting, Settled
      <4> QED
        BY <4>1, <4>2
    <3> QED
      BY <1>3, <3>1 DEF Accounting
  <2> QED
    BY <2>1, <2>3, <2>4 DEF BudgetInv
<1>4. CASE /\ ceilingHit' = TRUE
           /\ NoSpec
           /\ UNCHANGED <<at, tries, entered>>
  <2>1. PICK asset \in Assets \cup Procedural \cup {None} :
          next' = next + 1 /\ record' = [record EXCEPT ![next] = asset]
    BY <1>1, <1>4, NoSpecResolves
  <2>2. Accounting'
    BY <1>1, <1>4, <2>1, LeftBehind
  <2>3. /\ next' \in 1 .. Len(reqs') + 1
        /\ record' \in [DOMAIN reqs' -> Assets \cup Procedural \cup {None}]
    BY <1>1, <2>1, Resolution
  <2>5. Types'
    BY <1>1, <1>2, <1>4, <2>3 DEF BudgetInv, Types
  <2>6. Spending'
    BY <1>1, <1>4, BudgetsKept
  <2> QED
    BY <2>2, <2>5, <2>6 DEF BudgetInv
<1> QED
  BY <1>3, <1>4 DEF Ask

LEMMA AcceptedKeeps == BudgetInv /\ SpecAccepted => BudgetInv'
<1> SUFFICES ASSUME BudgetInv, SpecAccepted PROVE BudgetInv'
  OBVIOUS
<1>1. /\ at = "asking" /\ at' = "resolving"
      /\ MayCallFor(Current.name) /\ Count(Current.name)
      /\ UNCHANGED <<why, reqs, ceilingHit, failedHit, asked, core, entered, failed>>
  BY DEF SpecAccepted
<1>2. next \in DOMAIN reqs /\ Current.name \in entered
  BY <1>1 DEF BudgetInv, Types
<1>3. PICK asset \in Procedural :
        next' = next + 1 /\ record' = [record EXCEPT ![next] = asset]
  BY DEF SpecAccepted, ResolvedTo
<1>4. Accounting'
  BY <1>1, <1>2, <1>3, LeftBehind
<1>5. /\ next' \in 1 .. Len(reqs') + 1
      /\ record' \in [DOMAIN reqs' -> Assets \cup Procedural \cup {None}]
  BY <1>1, <1>2, <1>3, Resolution
<1>6. /\ Spending' /\ calls' \in Nat
      /\ assetCalls' \in [Names -> 0 .. MaxAssetCalls]
  BY <1>1, <1>2, CountKeeps
<1>7. Types'
  BY <1>1, <1>5, <1>6 DEF BudgetInv, Types, Places
<1> QED
  BY <1>4, <1>6, <1>7 DEF BudgetInv

(* An object that fails is among the failed, or the ceiling has been hit. *)
LEMMA MarkingCounts ==
  ASSUME BudgetInv, NEW n \in Names, failed' = Marked(n),
         failedHit' = (failedHit \/ ~ MayMark(n))
  PROVE  /\ failed \subseteq failed' /\ failed' \subseteq Names
         /\ failedHit => failedHit'
         /\ failedHit' \in BOOLEAN
         /\ n \in failed' \/ failedHit'
<1>1. failed \subseteq Names /\ failedHit \in BOOLEAN
  BY DEF BudgetInv, Types
<1>2. CASE MayMark(n)
  BY <1>1, <1>2, Zenon DEF Marked
<1>3. CASE ~ MayMark(n)
  BY <1>1, <1>3, Zenon DEF Marked
<1> QED
  BY <1>2, <1>3

LEMMA RejectedKeeps == BudgetInv /\ SpecRejected => BudgetInv'
<1> SUFFICES ASSUME BudgetInv, SpecRejected PROVE BudgetInv'
  OBVIOUS
<1>1. /\ at = "asking"
      /\ MayCallFor(Current.name) /\ Count(Current.name)
      /\ UNCHANGED <<why, reqs, ceilingHit, asked, core, entered>>
  BY DEF SpecRejected
<1>2. next \in DOMAIN reqs /\ Current.name \in entered /\ Current.name \in Names
  BY <1>1 DEF BudgetInv, Types
<1>3. /\ Spending' /\ calls' \in Nat
      /\ assetCalls' \in [Names -> 0 .. MaxAssetCalls]
  BY <1>1, <1>2, CountKeeps
<1>4. CASE UNCHANGED <<at, next, record, failedHit, failed>>
  <2>1. Types'
    BY <1>1, <1>3, <1>4 DEF BudgetInv, Types, Current
  <2>2. Accounting'
    BY <1>1, <1>4 DEF BudgetInv, Accounting, Pending, Settled
  <2> QED
    BY <1>3, <2>1, <2>2 DEF BudgetInv
<1>5. CASE /\ at' = "resolving" /\ NoSpec
           /\ failed' = Marked(Current.name)
           /\ failedHit' = (failedHit \/ ~ MayMark(Current.name))
  <2>1. PICK asset \in Assets \cup Procedural \cup {None} :
          next' = next + 1 /\ record' = [record EXCEPT ![next] = asset]
    BY <1>2, <1>5, NoSpecResolves
  <2>2. /\ failed \subseteq failed' /\ failed' \subseteq Names
        /\ failedHit => failedHit'
        /\ failedHit' \in BOOLEAN
        /\ Current.name \in failed' \/ failedHit'
    BY <1>2, <1>5, MarkingCounts, Zenon
  <2>3. Accounting'
    <3> HIDE <1>5
    <3>1. at' = "resolving"
      BY <1>5
    <3> QED
      BY <1>1, <1>2, <2>1, <2>2, <3>1, LeftBehind
  <2>4. /\ next' \in 1 .. Len(reqs') + 1
        /\ record' \in [DOMAIN reqs' -> Assets \cup Procedural \cup {None}]
    BY <1>1, <1>2, <2>1, Resolution
  <2>5. at' = "resolving"
    BY <1>5
  <2>6. Types'
    BY <1>1, <1>3, <2>2, <2>4, <2>5 DEF BudgetInv, Types, Places
  <2> QED
    BY <1>3, <2>3, <2>6 DEF BudgetInv
<1> QED
  BY <1>4, <1>5 DEF SpecRejected

LEMMA ExhaustedKeeps == BudgetInv /\ AssetExhausted => BudgetInv'
<1> SUFFICES ASSUME BudgetInv, AssetExhausted PROVE BudgetInv'
  OBVIOUS
<1>1. /\ at = "asking"
      /\ UNCHANGED <<reqs, ceilingHit, asked, core, calls, assetCalls, entered>>
  BY DEF AssetExhausted
<1>2. next \in DOMAIN reqs /\ Current.name \in Names
  BY <1>1 DEF BudgetInv, Types
<1>3. /\ failed \subseteq failed' /\ failed' \subseteq Names
      /\ failedHit => failedHit'
      /\ failedHit' \in BOOLEAN
      /\ Current.name \in failed' \/ failedHit'
  <2>1. /\ failed' = Marked(Current.name)
        /\ failedHit' = (failedHit \/ ~ MayMark(Current.name))
    BY DEF AssetExhausted
  <2> QED
    BY <1>2, <2>1, MarkingCounts, Zenon
<1>4. CASE Fail("asset") /\ UNCHANGED <<next, record>>
  <2>1. at' = "failed" /\ why' = "asset"
    BY <1>4 DEF Fail
  <2>2. Types'
    BY <1>1, <1>3, <1>4, <2>1 DEF BudgetInv, Types, Places
  <2>3. Spending'
    BY <1>1, <2>1, BudgetsKept
  <2>4. Accounting'
    BY <2>1 DEF Accounting
  <2> QED
    BY <2>2, <2>3, <2>4 DEF BudgetInv
<1>5. CASE /\ Unresolved
           /\ Fail("failed-assets") \/ (at' = "resolving" /\ UNCHANGED why)
  <2>1. PICK asset \in Assets \cup Procedural \cup {None} :
          next' = next + 1 /\ record' = [record EXCEPT ![next] = asset]
    BY <1>2, <1>5, NoSpecResolves
  <2>2. /\ at' \in {"resolving", "failed"}
        /\ why' = why \/ why' # "global"
    BY <1>5 DEF Fail
  <2>3. Accounting'
    BY <1>1, <1>2, <1>3, <2>1, <2>2, LeftBehind
  <2>4. /\ next' \in 1 .. Len(reqs') + 1
        /\ record' \in [DOMAIN reqs' -> Assets \cup Procedural \cup {None}]
    BY <1>1, <1>2, <2>1, Resolution
  <2>5. Types'
    BY <1>1, <1>3, <2>2, <2>4 DEF BudgetInv, Types, Places
  <2>6. Spending'
    BY <1>1, <2>2, BudgetsKept
  <2> QED
    BY <2>3, <2>5, <2>6 DEF BudgetInv
<1> QED
  BY <1>4, <1>5, Zenon DEF AssetExhausted

(* The calls of the attempt are spent only when the stages have had their share. *)
LEMMA FailingKeeps == BudgetInv /\ AskingFails => BudgetInv'
<1> SUFFICES ASSUME BudgetInv, AskingFails PROVE BudgetInv'
  OBVIOUS
<1>1. /\ at = "asking" /\ at' = "failed"
      /\ UNCHANGED <<reqs, next, ceilingHit, failedHit, record, asked, core, entered,
                     failed>>
  BY DEF AskingFails, Fail, pass
<1>2. Current.name \in entered
  BY <1>1 DEF BudgetInv, Types
<1>3. /\ Spending' /\ calls' \in Nat
      /\ assetCalls' \in [Names -> 0 .. MaxAssetCalls]
  <2>0. calls \in Nat /\ assetCalls \in [Names -> 0 .. MaxAssetCalls]
    BY DEF BudgetInv, Types
  <2>1. CASE ~ MayCall /\ Fail("global") /\ UNCHANGED <<calls, assetCalls>>
    <3>1. /\ core \in Nat
          /\ calls = core + Cardinality(CallsFor(assetCalls))
          /\ entered \subseteq Names
          /\ \A n \in Names : assetCalls[n] # 0 => n \in entered
          /\ Cardinality(entered) <= MaxProcedural
      BY DEF BudgetInv, Types, Spending
    <3>2. /\ Cardinality(CallsFor(assetCalls)) <= MaxProcedural * MaxAssetCalls
          /\ Cardinality(CallsFor(assetCalls)) \in Nat
      BY <2>0, <3>1, ShareOfObjects, CallsAreFinite
    <3>3. MaxCalls \in Nat /\ MaxProcedural * MaxAssetCalls \in Nat
      BY ComposerParameters
    <3>4. core + MaxProcedural * MaxAssetCalls >= MaxCalls
      BY <2>0, <2>1, <3>1, <3>2, <3>3 DEF MayCall
    <3> QED
      BY <1>1, <2>0, <2>1, <3>1, <3>4 DEF Spending, AssetsHaveTheirShare
  <2>2. CASE Fail("provider") /\ UNCHANGED <<calls, assetCalls>>
    BY <1>1, <2>0, <2>2, BudgetsKept DEF Fail
  <2>3. CASE MayCallFor(Current.name) /\ Fail("provider") /\ Count(Current.name)
    BY <1>1, <1>2, <2>3, CountKeeps DEF Fail
  <2> QED
    BY <2>1, <2>2, <2>3 DEF AskingFails
<1>4. Types'
  BY <1>1, <1>3 DEF BudgetInv, Types, Places
<1>5. Accounting'
  BY <1>1 DEF Accounting
<1> QED
  BY <1>3, <1>4, <1>5 DEF BudgetInv

LEMMA DraftKeeps == BudgetInv /\ Draft => BudgetInv'
<1> SUFFICES ASSUME BudgetInv, Draft PROVE BudgetInv'
  OBVIOUS
<1>1. /\ at = "resolving"
      /\ UNCHANGED <<reqs, next, ceilingHit, failedHit, record, asked, core, calls,
                     assetCalls, entered, failed>>
  BY DEF Draft, budgets
<1>2. /\ why' = Verdict(plans')
      /\ at' = IF why' = None THEN "drafted" ELSE "failed"
  BY DEF Draft
<1>3. /\ why' # "global"
      /\ why' = None => ~ ceilingHit /\ ~ failedHit
  <2>1. CASE ceilingHit
    BY <1>2, <2>1, ComposerNone DEF Verdict, Codes
  <2>2. CASE ~ ceilingHit /\ failedHit
    BY <1>2, <2>2, ComposerNone DEF Verdict, Codes
  <2>3. CASE ~ ceilingHit /\ ~ failedHit
    BY <1>2, <2>3, ComposerNone DEF Verdict, Codes
  <2> QED
    BY <2>1, <2>2, <2>3
<1>4. /\ at' \in {"drafted", "failed"}
      /\ at' = "drafted" => ~ ceilingHit' /\ ~ failedHit'
  BY <1>1, <1>2, <1>3
<1>5. Types'
  BY <1>1, <1>4 DEF BudgetInv, Types, Places
<1>6. Spending'
  BY <1>1, <1>3, BudgetsKept
<1>7. Accounting'
  BY <1>1, <1>4 DEF BudgetInv, Accounting, Pending, Settled
<1> QED
  BY <1>5, <1>6, <1>7 DEF BudgetInv

LEMMA BudgetNext == BudgetInv /\ [Next]_vars => BudgetInv'
<1> SUFFICES ASSUME BudgetInv, [Next]_vars PROVE BudgetInv'
  OBVIOUS
<1>1. CASE UNCHANGED vars
  <2>1. UNCHANGED <<at, why, reqs, next, ceilingHit, failedHit, record, asked, core,
                    calls, assetCalls, entered, failed>>
    BY <1>1 DEF vars, pass, budgets
  <2>2. Types'
    BY <2>1 DEF BudgetInv, Types, Current
  <2>3. Accounting'
    BY <2>1 DEF BudgetInv, Accounting, Pending, Settled
  <2>4. Spending'
    BY <2>1, BudgetsKept
  <2> QED
    BY <2>2, <2>3, <2>4 DEF BudgetInv
<1>2. CASE BeginPass \/ Recompose
  BY <1>2, PassBegins, ComposedAgain
<1>3. CASE Resolve
  BY <1>3, SettledAtOnce, AskKeeps DEF Resolve
<1>4. CASE Answer
  BY <1>4, AcceptedKeeps, RejectedKeeps, ExhaustedKeeps, FailingKeeps DEF Answer
<1>5. CASE Draft
  BY <1>5, DraftKeeps
<1> QED
  BY <1>3, <1>4, <1>5, <1>1, <1>2 DEF Next, Ended

(* The budgets of an attempt add up: every call is a call of the stages or a call for
   an object that was counted, no object has more calls than it may have, and what was
   asked for in a pass was made, has failed, or has hit a ceiling (consume_call,
   consume_procedural_asset, mark_failed_asset; compose_world). *)
THEOREM BudgetInvariant == Spec => []BudgetInv
<1>1. Init => BudgetInv
  BY BudgetInit
<1>2. BudgetInv /\ [Next]_vars => BudgetInv'
  BY BudgetNext
<1> QED
  BY <1>1, <1>2, PTL DEF Spec

(* However the passes, the requests and the answers fall: a draft shows as a generated
   asset, or counts among the failed, every object that it asked for, and the attempt
   runs out of calls only when its stages have had their whole share. *)
THEOREM GenerationStaysBounded == Spec => []GenerationIsBounded
<1>1. BudgetInv => GenerationIsBounded
  <2> SUFFICES ASSUME BudgetInv PROVE GenerationIsBounded
    OBVIOUS
  <2>1. FailuresAreCounted
    BY DEF BudgetInv, Accounting, FailuresAreCounted, Pending, Settled
  <2>2. AssetsHaveTheirShare
    BY DEF BudgetInv, Spending
  <2> QED
    BY <2>1, <2>2 DEF GenerationIsBounded
<1>2. Spec => []BudgetInv
  BY BudgetInvariant
<1> QED
  BY <1>1, <1>2, PTL

--------------------------------------------------------------------------------
(* What the plans show *)

(* The i-th request, an essential one, is an object of the kit, or an essential plan
   shows it, or its name went to a decoration. *)
Stands(i) ==
  \/ reqs[i].name \in Base
  \/ \E k \in DOMAIN plans :
       plans[k].required /\ (plans[k].name = reqs[i].name \/ plans[k].asset = record[i])
  \/ NameTaken(i)

(* A plan takes its number when a request is resolved. *)
PlansInOrder ==
  /\ plans \in [DOMAIN plans -> Plans]
  /\ DOMAIN plans \subseteq 1 .. next - 1
  /\ at \in {"resolving", "asking"} => plans \in Seq(Plans)

(* The i-th request is decoration of the name n, and has an object. *)
Decorates(i, n) == reqs[i].name = n /\ ~reqs[i].required /\ record[i] # None

(* A plan that is not essential is that of a decoration behind. *)
PlansOfRequests ==
  \A k \in DOMAIN plans :
    plans[k].required \/ \E i \in 1 .. next - 1 : Decorates(i, plans[k].name)

(* While nothing blocks the pass, what is essential among the requests behind stands. *)
EssentialStand ==
  at \in {"resolving", "asking", "drafted"} /\ issues = {} =>
    \A i \in DOMAIN reqs : i < next /\ reqs[i].required => Stands(i)

AllSettled == at = "drafted" => next > Len(reqs)

PlanInv == PlansInOrder /\ PlansOfRequests /\ EssentialStand /\ AllSettled

(* Dropping decoration keeps every essential plan where it is. *)
LEMMA DroppingDecoration ==
  ASSUME NEW s, NEW n
  PROVE  LET t == WithoutDecorations(s, n)
         IN  /\ t = [k \in DOMAIN t |-> t[k]]
             /\ DOMAIN t \subseteq DOMAIN s
             /\ \A k \in DOMAIN t : t[k] = s[k]
             /\ \A k \in DOMAIN s : s[k].required => k \in DOMAIN t
BY DEF WithoutDecorations, Droppable, Essential

LEMMA Placing ==
  ASSUME NEW t \in Placements
  PROVE  /\ t = [k \in DOMAIN t |-> t[k]]
         /\ DOMAIN t \subseteq DOMAIN plans
         /\ \A k \in DOMAIN t : t[k] = plans[k]
         /\ \A k \in DOMAIN plans : plans[k].required => k \in DOMAIN t
<1>1. /\ DOMAIN Shown \subseteq DOMAIN plans
      /\ \A k \in DOMAIN Shown : Shown[k] = plans[k]
      /\ \A k \in DOMAIN plans : plans[k].required => k \in DOMAIN Shown
  BY DroppingDecoration DEF Shown
<1>2. PICK n : t = WithoutDecorations(Shown, n)
  BY DEF Placements
<1>3. /\ t = [k \in DOMAIN t |-> t[k]]
      /\ DOMAIN t \subseteq DOMAIN Shown
      /\ \A k \in DOMAIN t : t[k] = Shown[k]
      /\ \A k \in DOMAIN Shown : Shown[k].required => k \in DOMAIN t
  BY <1>2, DroppingDecoration
<1>4. ASSUME NEW k \in DOMAIN plans, plans[k].required
      PROVE  k \in DOMAIN t
  <2>1. k \in DOMAIN Shown /\ Shown[k] = plans[k]
    BY <1>1, <1>4
  <2> QED
    BY <1>3, <1>4, <2>1
<1> QED
  BY <1>1, <1>3, <1>4

(* A set of numbers has a least one. *)
LEMMA LeastOf ==
  ASSUME NEW S \in SUBSET Nat, S # {}
  PROVE  \E i \in S : \A j \in S : i <= j
<1>1. IsWellFoundedOn(OpToRel(<, Nat), Nat)
  BY NatLessThanWellFounded
<1>2. PICK i \in S : \A j \in S : ~ (<<j, i>> \in OpToRel(<, Nat))
  BY <1>1, WFMin
<1>3. \A j \in S : ~ (j < i)
  BY <1>2 DEF OpToRel
<1> QED
  BY <1>3

PlanOf(r, asset) ==
  [name |-> r.name, asset |-> asset, required |-> r.required, linked |-> r.linked]

(* The plans before and after a request is resolved to an asset: no essential plan
   moves, what is new is a plan of the request, and if the request is essential it has
   one, or a decoration has its name. *)
Joined(t, r, asset) ==
  /\ t \in Seq(Plans)
  /\ Len(t) \in Len(plans) .. Len(plans) + 1
  /\ \A k \in DOMAIN plans : plans[k].required => t[k] = plans[k]
  /\ \A k \in DOMAIN t :
       \/ t[k].required
       \/ t[k].name = r.name /\ ~r.required
       \/ k \in DOMAIN plans /\ t[k] = plans[k]
  /\ r.required =>
       \/ r.name \in Base
       \/ \E k \in DOMAIN t : t[k].required /\ (t[k].name = r.name \/ t[k].asset = asset)
       \/ \E k \in DOMAIN plans : plans[k].name = r.name /\ ~plans[k].required

LEMMA PlanOfRequest ==
  ASSUME NEW r \in Requests, NEW asset \in Assets \cup Procedural
  PROVE  /\ PlanOf(r, asset) \in Plans
         /\ PlanOf(r, asset).name = r.name
         /\ PlanOf(r, asset).asset = asset
         /\ r.required => PlanOf(r, asset).required
<1>1. PlanOf(r, asset) \in Plans
  BY DEF PlanOf, Plans, Requests
<1>2. PlanOf(r, asset).name = r.name /\ PlanOf(r, asset).asset = asset
  BY DEF PlanOf
<1>3. r.required => PlanOf(r, asset).required
  BY Zenon DEF PlanOf
<1> QED
  BY <1>1, <1>2, <1>3

LEMMA Planning ==
  ASSUME plans \in Seq(Plans), NEW r \in Requests, NEW asset \in Assets \cup Procedural
  PROVE  Joined(Planned(r, asset), r, asset)
<1> DEFINE plan == PlanOf(r, asset)
<1>0. /\ plan \in Plans /\ plan.name = r.name /\ plan.asset = asset
      /\ r.required => plan.required
  BY PlanOfRequest
<1>1. CASE r.name \in Materialized
  <2>1. Planned(r, asset) = plans
    BY <1>1 DEF Planned
  <2>2. r.name \in Base \/ \E k \in DOMAIN plans : plans[k].name = r.name
    BY <1>1 DEF Materialized, SeqSet
  <2>3. Len(plans) \in Len(plans) .. Len(plans) + 1
    OBVIOUS
  <2> QED
    BY <2>1, <2>2, <2>3 DEF Joined
<1>3. CASE r.name \notin Materialized /\ \A p \in SeqSet(plans) : p.asset # asset
  <2>1. Planned(r, asset) = Append(plans, plan)
    BY <1>3 DEF Planned, PlanOf
  <2> HIDE DEF plan
  <2>2. /\ Append(plans, plan) \in Seq(Plans)
        /\ Len(Append(plans, plan)) = Len(plans) + 1
        /\ \A k \in DOMAIN plans : Append(plans, plan)[k] = plans[k]
        /\ Append(plans, plan)[Len(plans) + 1] = plan
        /\ DOMAIN Append(plans, plan) = 1 .. Len(plans) + 1
    BY <1>0, AppendProperties
  <2> DEFINE t == Append(plans, plan)
  <2> HIDE DEF t
  <2>3. \A k \in DOMAIN t :
          \/ t[k].required
          \/ t[k].name = r.name /\ ~r.required
          \/ k \in DOMAIN plans /\ t[k] = plans[k]
    <3>1. \A k \in DOMAIN t : t[k] = plan \/ (k \in DOMAIN plans /\ t[k] = plans[k])
      BY <2>2 DEF t
    <3> QED
      BY <1>0, <3>1
  <2>4. r.required => \E k \in DOMAIN t : t[k].required /\ t[k].name = r.name
    <3>1. Len(plans) + 1 \in DOMAIN t /\ t[Len(plans) + 1] = plan
      BY <2>2 DEF t
    <3> QED
      BY <1>0, <3>1
  <2>5. Len(t) \in Len(plans) .. Len(plans) + 1
    BY <2>2 DEF t
  <2>6. t \in Seq(Plans) /\ \A k \in DOMAIN plans : t[k] = plans[k]
    BY <2>2 DEF t
  <2>7. Joined(t, r, asset)
    BY <2>3, <2>4, <2>5, <2>6 DEF Joined
  <2> QED
    BY <2>1, <2>7 DEF t
<1>4. CASE r.name \notin Materialized /\ \E p \in SeqSet(plans) : p.asset = asset
  <2>1. CASE r.required /\ Claimants(asset) # {}
    <3> DEFINE first == CHOOSE i \in Claimants(asset) : \A j \in Claimants(asset) : i <= j
               t == [plans EXCEPT ![first] = plan]
    <3>1. first \in Claimants(asset)
      <4>1. Claimants(asset) \in SUBSET Nat
        BY DEF Claimants
      <4>2. \E i \in Claimants(asset) : \A j \in Claimants(asset) : i <= j
        BY <2>1, <4>1, LeastOf
      <4> QED
        BY <4>2
    <3>2. Planned(r, asset) = t
      <4>1. Planned(r, asset) =
              IF r.required /\ Claimants(asset) # {} THEN t ELSE plans
        BY <1>4 DEF Planned, PlanOf
      <4> HIDE DEF t
      <4> QED
        BY <2>1, <4>1
    <3>3. first \in DOMAIN plans /\ ~ plans[first].required
      BY <3>1 DEF Claimants
    <3> HIDE DEF first, plan
    <3>4. /\ t \in Seq(Plans) /\ Len(t) = Len(plans)
          /\ DOMAIN t = DOMAIN plans
          /\ t[first] = plan
          /\ \A k \in DOMAIN plans : k # first => t[k] = plans[k]
      BY <1>0, <3>3, ExceptSeq
    <3> HIDE DEF t
    <3>5. \A k \in DOMAIN plans : plans[k].required => t[k] = plans[k]
      BY <3>3, <3>4
    <3>6. \A k \in DOMAIN t :
            \/ t[k].required
            \/ t[k].name = r.name /\ ~r.required
            \/ k \in DOMAIN plans /\ t[k] = plans[k]
      BY <1>0, <3>4
    <3>7. \E k \in DOMAIN t : t[k].required /\ t[k].name = r.name
      BY <1>0, <2>1, <3>3, <3>4
    <3>8. Len(t) \in Len(plans) .. Len(plans) + 1
      BY <3>4
    <3> QED
      BY <3>2, <3>4, <3>5, <3>6, <3>7, <3>8 DEF Joined
  <2>2. CASE ~ (r.required /\ Claimants(asset) # {})
    <3>1. Planned(r, asset) = plans
      <4> DEFINE first == CHOOSE i \in Claimants(asset) : \A j \in Claimants(asset) : i <= j
                 t == [plans EXCEPT ![first] = plan]
      <4>1. Planned(r, asset) =
              IF r.required /\ Claimants(asset) # {} THEN t ELSE plans
        BY <1>4 DEF Planned, PlanOf
      <4> HIDE DEF t
      <4> QED
        BY <2>2, <4>1
    <3>2. r.required =>
            \E k \in DOMAIN plans : plans[k].required /\ plans[k].asset = asset
      BY <1>4, <2>2 DEF Claimants, SeqSet
    <3>3. Len(plans) \in Len(plans) .. Len(plans) + 1
      OBVIOUS
    <3> QED
      BY <3>1, <3>2, <3>3 DEF Joined
  <2> QED
    BY <2>1, <2>2
<1> QED
  BY <1>1, <1>3, <1>4

(* What a step does to the plans: it resolves the current request, leaves them alone,
   begins a pass, or ends one. *)
Settles ==
  /\ next \in DOMAIN reqs /\ UNCHANGED reqs
  /\ at \in {"resolving", "asking"} /\ at' \in {"resolving", "failed"}
  /\ Unresolved \/ \E asset \in Assets \cup Procedural : ResolvedTo(asset)

Stays ==
  /\ UNCHANGED <<reqs, next, record, plans, issues>>
  /\ \/ at' = at
     \/ at \in {"resolving", "asking"} /\ at' \in {"resolving", "asking", "failed"}

LEMMA NoSpecSettles ==
  ASSUME BudgetInv, next \in DOMAIN reqs, NoSpec
  PROVE  Unresolved \/ \E asset \in Assets \cup Procedural : ResolvedTo(asset)
<1>1. Current.name \in Names
  BY RequestsHaveNames DEF BudgetInv, Types, Current
<1>2. Match[Current.name] = "trusted" => CatalogAsset[Current.name] \in Assets
  BY <1>1, ComposerParameters
<1> QED
  BY <1>2 DEF NoSpec

LEMMA StepsOfPlans ==
  ASSUME BudgetInv, [Next]_vars
  PROVE  \/ \E w \in Seq(Requests) : Compose(w)
         \/ Settles
         \/ Stays
         \/ Draft
<1>1. CASE UNCHANGED vars
  BY <1>1 DEF vars, pass, Stays
<1>2. CASE BeginPass
  BY <1>2, AnswersAreRequests DEF BeginPass
<1>3. CASE Recompose
  BY <1>3 DEF Recompose, BudgetInv, Types
<1>4. CASE LeaveOut
  BY <1>4 DEF LeaveOut, Resolving, Settles
<1>5. CASE FromCatalog
  <2>1. next \in DOMAIN reqs /\ at = "resolving" /\ UNCHANGED <<at, reqs>>
    BY <1>5 DEF FromCatalog, Resolving
  <2>2. Current.name \in Names
    BY <2>1, RequestsHaveNames DEF BudgetInv, Types, Current
  <2>3. Match[Current.name] \in {"sure", "weak"}
    BY <1>5, <2>2, ComposerParameters DEF FromCatalog, Needs, Matches
  <2>4. CatalogAsset[Current.name] \in Assets
    BY <2>2, <2>3, ComposerParameters
  <2> QED
    BY <1>5, <2>1, <2>4 DEF FromCatalog, Settles
<1>6. CASE AskingDeclined
  BY <1>6, NoSpecSettles DEF AskingDeclined, Asking, Resolving, Settles
<1>7. CASE Ask
  <2>1. next \in DOMAIN reqs /\ at = "resolving" /\ UNCHANGED reqs
    BY <1>7 DEF Ask, Asking, Resolving
  <2>2. CASE at' = "asking" /\ UNCHANGED <<next, ceilingHit, record, plans, issues>>
    BY <2>1, <2>2 DEF Stays
  <2>3. CASE NoSpec /\ UNCHANGED <<at, tries, entered>>
    BY <2>1, <2>3, NoSpecSettles DEF Settles
  <2> QED
    BY <1>7, <2>2, <2>3 DEF Ask
<1>8. CASE SpecAccepted
  BY <1>8 DEF SpecAccepted, Settles, BudgetInv, Types
<1>9. CASE SpecRejected
  <2>1. next \in DOMAIN reqs /\ at = "asking" /\ UNCHANGED reqs
    BY <1>9 DEF SpecRejected, BudgetInv, Types
  <2>2. CASE UNCHANGED <<at, next, record, plans, issues>>
    BY <2>1, <2>2 DEF Stays
  <2>3. CASE at' = "resolving" /\ NoSpec
    BY <2>1, <2>3, NoSpecSettles DEF Settles
  <2> QED
    BY <1>9, <2>2, <2>3 DEF SpecRejected
<1>10. CASE AssetExhausted
  <2>1. next \in DOMAIN reqs /\ at = "asking" /\ UNCHANGED reqs
    BY <1>10 DEF AssetExhausted, BudgetInv, Types
  <2>2. CASE Fail("asset") /\ UNCHANGED <<next, record, plans, issues>>
    BY <2>1, <2>2 DEF Stays, Fail
  <2>3. CASE Unresolved /\ (Fail("failed-assets") \/ at' = "resolving")
    BY <2>1, <2>3 DEF Settles, Fail
  <2> QED
    BY <1>10, <2>2, <2>3, Zenon DEF AssetExhausted
<1>11. CASE AskingFails
  BY <1>11 DEF AskingFails, Fail, Stays, pass
<1> QED
  BY <1>6, <1>7, <1>8, <1>9, <1>10, <1>11, <1>1, <1>2, <1>3, <1>4, <1>5
  DEF Next, Resolve, Answer, Ended

LEMMA PlansInit == Init => PlanInv
BY DEF Init, PlanInv, PlansInOrder, PlansOfRequests, EssentialStand, AllSettled

LEMMA ComposingStartsOver ==
  ASSUME NEW w \in Seq(Requests), Compose(w)
  PROVE  PlanInv'
<1>1. next' = 1 /\ plans' = << >> /\ at' = "resolving" /\ Len(w) \in Nat
  BY DEF Compose
<1>2. \A i \in DOMAIN reqs' : ~ (i < next')
  BY <1>1 DEF Compose
<1> QED
  BY <1>1, <1>2 DEF PlanInv, PlansInOrder, PlansOfRequests, EssentialStand, AllSettled

LEMMA StayingKeepsPlans ==
  ASSUME PlanInv, Stays
  PROVE  PlanInv'
<1>1. PlansInOrder'
  BY DEF PlanInv, PlansInOrder, Stays
<1>2. PlansOfRequests'
  BY DEF PlanInv, PlansOfRequests, Decorates, Stays
<1>3. EssentialStand'
  BY DEF PlanInv, EssentialStand, Stands, NameTaken, Stays
<1>4. AllSettled'
  BY DEF PlanInv, AllSettled, Stays
<1> QED
  BY <1>3, <1>4, <1>1, <1>2 DEF PlanInv

(* The request that is being settled, and what is known of those before it. *)
LEMMA BehindTheCurrent ==
  ASSUME BudgetInv, next \in DOMAIN reqs, UNCHANGED reqs, next' = next + 1,
         NEW asset \in Assets \cup Procedural \cup {None},
         record' = [record EXCEPT ![next] = asset]
  PROVE  /\ Current \in Requests /\ Current = reqs[next] /\ record'[next] = asset
         /\ next \in Nat \ {0} /\ DOMAIN reqs \subseteq Nat \ {0}
         /\ \A i \in 1 .. next - 1 : i \in 1 .. next' - 1 /\ record'[i] = record[i]
         /\ \A i \in DOMAIN reqs :
              i < next' => i = next \/ (i < next /\ record'[i] = record[i])
         /\ \A i \in DOMAIN reqs : i < next /\ NameTaken(i) => NameTaken(i)'
<1>1. /\ Len(reqs) \in Nat /\ next \in 1 .. Len(reqs)
      /\ DOMAIN reqs = 1 .. Len(reqs)
  BY RequestNumbers
<1>2. Current \in Requests /\ Current = reqs[next]
  BY RequestNumbers DEF Current
<1>3. record'[next] = asset /\ \A i \in DOMAIN reqs : i # next => record'[i] = record[i]
  BY Resolution
<1>4. \A i \in 1 .. next - 1 : i \in 1 .. next' - 1 /\ record'[i] = record[i]
  BY <1>1, <1>3
<1>5. \A i \in DOMAIN reqs : i < next' => i = next \/ (i < next /\ record'[i] = record[i])
  BY <1>1, <1>3
<1>7. \A i \in DOMAIN reqs : i < next /\ NameTaken(i) => NameTaken(i)'
  <2> SUFFICES ASSUME NEW i \in DOMAIN reqs, i < next, NameTaken(i) PROVE NameTaken(i)'
    OBVIOUS
  <2>1. \A j \in 1 .. i - 1 : j \in 1 .. next - 1
    BY <1>1
  <2> QED
    BY <1>4, <2>1 DEF NameTaken
<1>8. next \in Nat \ {0} /\ DOMAIN reqs \subseteq Nat \ {0}
  BY <1>1
<1> QED
  BY <1>5, <1>7, <1>8, <1>2, <1>3, <1>4

(* A request without an object blocks the pass if it is essential. *)
LEMMA UnresolvedKeepsPlans ==
  ASSUME BudgetInv, PlanInv, Settles, Unresolved
  PROVE  PlanInv'
<1>1. /\ next \in DOMAIN reqs /\ UNCHANGED <<reqs, plans>>
      /\ at \in {"resolving", "asking"} /\ at' \in {"resolving", "failed"}
      /\ next' = next + 1
      /\ issues' = IF Current.required THEN issues \cup {"unresolved-object"} ELSE issues
      /\ record' = [record EXCEPT ![next] = None]
  BY DEF Settles, Unresolved
<1>2. /\ Current = reqs[next] /\ next \in Nat \ {0}
      /\ \A i \in 1 .. next - 1 : i \in 1 .. next' - 1 /\ record'[i] = record[i]
      /\ \A i \in DOMAIN reqs : i < next /\ NameTaken(i) => NameTaken(i)'
      /\ \A i \in DOMAIN reqs :
           i < next' => i = next \/ (i < next /\ record'[i] = record[i])
  BY <1>1, BehindTheCurrent
<1>3. PlansInOrder'
  BY <1>1, <1>2 DEF PlanInv, PlansInOrder
<1>4. PlansOfRequests'
  BY <1>1, <1>2 DEF PlanInv, PlansOfRequests, Decorates
<1>5. EssentialStand'
  <2> SUFFICES ASSUME issues' = {}, NEW i \in DOMAIN reqs, i < next', reqs[i].required
               PROVE  Stands(i)'
    BY <1>1 DEF EssentialStand
  <2>1. issues = {} /\ ~ Current.required
    BY <1>1
  <2>2. i < next /\ record'[i] = record[i]
    BY <1>2, <2>1
  <2>3. Stands(i)
    BY <1>1, <2>1, <2>2 DEF PlanInv, EssentialStand
  <2> QED
    BY <1>1, <1>2, <2>2, <2>3 DEF Stands
<1>6. AllSettled'
  BY <1>1 DEF AllSettled
<1> QED
  BY <1>3, <1>4, <1>5, <1>6 DEF PlanInv

(* A request with an object has a plan, or another essential plan has its asset. *)
LEMMA ResolvedKeepsPlans ==
  ASSUME BudgetInv, PlanInv, Settles,
         NEW asset \in Assets \cup Procedural, ResolvedTo(asset)
  PROVE  PlanInv'
<1>1. /\ next \in DOMAIN reqs /\ UNCHANGED <<reqs, issues>>
      /\ at \in {"resolving", "asking"} /\ at' \in {"resolving", "failed"}
      /\ next' = next + 1
      /\ plans' = Planned(Current, asset)
      /\ record' = [record EXCEPT ![next] = asset]
  BY DEF Settles, ResolvedTo
<1>2. /\ Current \in Requests /\ Current = reqs[next] /\ record'[next] = asset
      /\ next \in Nat \ {0}
      /\ \A i \in 1 .. next - 1 : i \in 1 .. next' - 1 /\ record'[i] = record[i]
      /\ \A i \in DOMAIN reqs : i < next /\ NameTaken(i) => NameTaken(i)'
      /\ \A i \in DOMAIN reqs :
           i < next' => i = next \/ (i < next /\ record'[i] = record[i])
  BY <1>1, BehindTheCurrent
<1>3. plans \in Seq(Plans)
  BY <1>1 DEF PlanInv, PlansInOrder
<1>4. asset # None
  BY ComposerParameters
<1>5. Joined(plans', Current, asset)
  BY <1>3, <1>1, <1>2, Planning
<1>6. /\ plans' \in Seq(Plans)
      /\ Len(plans') \in Len(plans) .. Len(plans) + 1
      /\ \A k \in DOMAIN plans : plans[k].required => plans'[k] = plans[k]
      /\ \A k \in DOMAIN plans' :
           \/ plans'[k].required
           \/ plans'[k].name = Current.name /\ ~Current.required
           \/ k \in DOMAIN plans /\ plans'[k] = plans[k]
  BY <1>5 DEF Joined
<1>7. PlansInOrder'
  <2>1. DOMAIN plans = 1 .. Len(plans) /\ DOMAIN plans \subseteq 1 .. next - 1
    BY <1>3 DEF PlanInv, PlansInOrder
  <2>2. Len(plans) \in Nat /\ Len(plans') \in Nat /\ DOMAIN plans' = 1 .. Len(plans')
    BY <1>3, <1>6
  <2>3. Len(plans) <= next - 1
    <3>1. next \in Nat /\ next >= 1
      BY <1>2
    <3>2. CASE Len(plans) = 0
      BY <3>1, <3>2
    <3>3. CASE Len(plans) # 0
      <4>1. Len(plans) \in 1 .. next - 1
        BY <2>1, <2>2, <3>3
      <4> QED
        BY <3>1, <4>1
    <3> QED
      BY <3>2, <3>3
  <2>4. DOMAIN plans' \subseteq 1 .. next' - 1
    BY <1>1, <1>2, <1>6, <2>2, <2>3
  <2>5. plans' \in [DOMAIN plans' -> Plans]
    BY <1>6, <2>2
  <2> QED
    BY <1>6, <2>4, <2>5 DEF PlansInOrder
<1>8. PlansOfRequests'
  <2> SUFFICES ASSUME NEW k \in DOMAIN plans', ~ plans'[k].required
               PROVE  \E i \in 1 .. next' - 1 :
                        /\ reqs'[i].name = plans'[k].name /\ ~ reqs'[i].required
                        /\ record'[i] # None
    BY DEF PlansOfRequests, Decorates
  <2>1. CASE plans'[k].name = Current.name /\ ~ Current.required
    <3>1. next \in 1 .. next' - 1
      BY <1>1, <1>2
    <3> QED
      BY <1>1, <1>2, <1>4, <2>1, <3>1
  <2>2. CASE k \in DOMAIN plans /\ plans'[k] = plans[k]
    <3>1. PICK i \in 1 .. next - 1 : Decorates(i, plans[k].name)
      BY <2>2 DEF PlanInv, PlansOfRequests
    <3>2. i \in 1 .. next' - 1 /\ record'[i] = record[i]
      BY <1>2
    <3> QED
      BY <1>1, <2>2, <3>1, <3>2 DEF Decorates
  <2> QED
    BY <1>6, <2>1, <2>2
<1>9. EssentialStand'
  <2> SUFFICES ASSUME issues' = {}, NEW i \in DOMAIN reqs, i < next', reqs[i].required
               PROVE  Stands(i)'
    BY <1>1 DEF EssentialStand
  <2>1. CASE i = next
    <3>1. \/ Current.name \in Base
          \/ \E k \in DOMAIN plans' :
               /\ plans'[k].required
               /\ plans'[k].name = Current.name \/ plans'[k].asset = asset
          \/ \E k \in DOMAIN plans : plans[k].name = Current.name /\ ~plans[k].required
      BY <1>2, <1>5, <2>1 DEF Joined
    <3>2. ASSUME NEW k \in DOMAIN plans,
                 plans[k].name = Current.name, ~ plans[k].required
          PROVE  NameTaken(i)'
      <4>1. PICK j \in 1 .. next - 1 : Decorates(j, plans[k].name)
        BY <3>2 DEF PlanInv, PlansOfRequests
      <4>2. /\ reqs'[j].name = reqs'[i].name /\ ~ reqs'[j].required
            /\ record'[j] # None
        BY <1>1, <1>2, <2>1, <3>2, <4>1 DEF Decorates
      <4> QED
        BY <2>1, <4>1, <4>2 DEF NameTaken
    <3> QED
      BY <1>1, <1>2, <2>1, <3>1, <3>2 DEF Stands
  <2>2. CASE i < next /\ record'[i] = record[i]
    <3>1. Stands(i)
      BY <1>1, <2>2 DEF PlanInv, EssentialStand
    <3>2. \A k \in DOMAIN plans : k \in DOMAIN plans'
      BY <1>3, <1>6
    <3>3. CASE reqs[i].name \in Base
      BY <1>1, <3>3 DEF Stands
    <3>4. CASE NameTaken(i)
      BY <1>2, <2>2, <3>4 DEF Stands
    <3>5. ASSUME NEW k \in DOMAIN plans, plans[k].required,
                 plans[k].name = reqs[i].name \/ plans[k].asset = record[i]
          PROVE  Stands(i)'
      <4>1. k \in DOMAIN plans' /\ plans'[k] = plans[k]
        BY <1>6, <3>2, <3>5
      <4> QED
        BY <1>1, <2>2, <3>5, <4>1 DEF Stands
    <3> QED
      BY <3>1, <3>3, <3>4, <3>5 DEF Stands
  <2> QED
    BY <1>2, <2>1, <2>2
<1>10. AllSettled'
  BY <1>1 DEF AllSettled
<1> QED
  BY <1>7, <1>8, <1>9, <1>10 DEF PlanInv

(* The visible bound and the kit give up decoration only, or they say so. *)
LEMMA DraftKeepsPlans ==
  ASSUME BudgetInv, PlanInv, Draft
  PROVE  PlanInv'
<1>1. /\ at = "resolving" /\ next > Len(reqs)
      /\ UNCHANGED <<reqs, next, record>>
      /\ at' \in {"drafted", "failed"}
  BY DEF Draft
<1>2. issues' = {} => issues = {} /\ plans' \in Placements
  BY DEF Draft, Bounded
<1>3. plans' = << >> \/ plans' \in Placements
  BY DEF Draft
<1>4. /\ plans' \in [DOMAIN plans' -> Plans]
      /\ DOMAIN plans' \subseteq DOMAIN plans
      /\ \A k \in DOMAIN plans' : plans'[k] = plans[k]
  <2>0. plans \in [DOMAIN plans -> Plans]
    BY DEF PlanInv, PlansInOrder
  <2>1. CASE plans' = << >>
    BY <2>1
  <2>2. CASE plans' \in Placements
    <3>1. /\ plans' = [k \in DOMAIN plans' |-> plans'[k]]
          /\ DOMAIN plans' \subseteq DOMAIN plans
          /\ \A k \in DOMAIN plans' : plans'[k] = plans[k]
      BY <2>2, Placing
    <3> QED
      BY <2>0, <3>1
  <2> QED
    BY <1>3, <2>1, <2>2
<1>5. PlansInOrder'
  BY <1>1, <1>4 DEF PlanInv, PlansInOrder
<1>6. PlansOfRequests'
  BY <1>1, <1>4 DEF PlanInv, PlansOfRequests, Decorates
<1>7. EssentialStand'
  <2> SUFFICES ASSUME issues' = {}, NEW i \in DOMAIN reqs, i < next, reqs[i].required
               PROVE  Stands(i)'
    BY <1>1 DEF EssentialStand
  <2>1. Stands(i)
    BY <1>1, <1>2 DEF PlanInv, EssentialStand
  <2>2. \A k \in DOMAIN plans : plans[k].required => k \in DOMAIN plans' /\ plans'[k] = plans[k]
    BY <1>2, <1>4, Placing
  <2> QED
    BY <1>1, <2>1, <2>2 DEF Stands, NameTaken
<1>8. AllSettled'
  BY <1>1 DEF AllSettled
<1> QED
  BY <1>5, <1>6, <1>7, <1>8 DEF PlanInv

LEMMA PlansNext == BudgetInv /\ PlanInv /\ [Next]_vars => PlanInv'
<1> SUFFICES ASSUME BudgetInv, PlanInv, [Next]_vars PROVE PlanInv'
  OBVIOUS
<1>1. CASE Settles
  BY <1>1, UnresolvedKeepsPlans, ResolvedKeepsPlans DEF Settles
<1> QED
  BY <1>1, StepsOfPlans, ComposingStartsOver, StayingKeepsPlans, DraftKeepsPlans

THEOREM PlansInvariant == Spec => []PlanInv
<1>1. Init => PlanInv
  BY PlansInit
<1>2. BudgetInv /\ PlanInv /\ [Next]_vars => PlanInv'
  BY PlansNext
<1>3. Spec => []BudgetInv
  BY BudgetInvariant
<1> QED
  BY <1>1, <1>2, <1>3, PTL DEF Spec

(* However the provider answers and whatever the kit has room for: a draft without a
   blocking issue shows every essential request, as itself, as an object of the kit or
   with the asset of another essential object.  Decoration never displaces it, neither
   by its asset, nor by the visible bound, nor by its place; the one exception is a
   decoration of its own name that came first and got an object (compose_world). *)
THEOREM EssentialObjectsStand == Spec => []RequiredAccounted
<1>1. BudgetInv /\ PlanInv => RequiredAccounted
  <2> SUFFICES ASSUME BudgetInv, PlanInv, at = "drafted", issues = {},
                      NEW i \in DOMAIN reqs, reqs[i].required
               PROVE  \/ reqs[i].name \in Base
                      \/ \E p \in SeqSet(plans) :
                           /\ p.required
                           /\ p.name = reqs[i].name \/ p.asset = record[i]
                      \/ NameTaken(i)
    BY DEF RequiredAccounted
  <2>1. i < next
    BY DEF BudgetInv, Types, PlanInv, AllSettled
  <2>2. Stands(i)
    BY <2>1 DEF PlanInv, EssentialStand
  <2> QED
    BY <2>2 DEF Stands, SeqSet
<1>2. Spec => []BudgetInv
  BY BudgetInvariant
<1>3. Spec => []PlanInv
  BY PlansInvariant
<1> QED
  BY <1>1, <1>2, <1>3, PTL

--------------------------------------------------------------------------------
(* Type correctness *)

(* What the two invariants leave of the types: the counters of a pass and of an attempt
   stay within their ceilings, and what failed or is cached was counted. *)
Bounds ==
  /\ why \in Codes \cup {None}
  /\ passes \in 0 .. MaxPasses
  /\ tries \in 0 .. MaxSpecRepairs
  /\ asks \in 0 .. CallLimit
  /\ issues \subseteq Issues
  /\ calls <= MaxCalls
  /\ failed \subseteq entered
  /\ Cardinality(failed) <= MaxFailed
  /\ cached \subseteq entered

LEMMA Ceilings ==
  /\ MaxPasses \in Nat /\ MaxSpecRepairs \in Nat /\ CallLimit \in Nat
  /\ MaxCalls \in Nat /\ MaxFailed \in Nat
BY ComposerParameters

LEMMA BoundsInit == Init => Bounds
BY Ceilings, FS_EmptySet DEF Init, Bounds

(* A failure is marked below the ceiling only. *)
LEMMA MarkingStaysBelow ==
  ASSUME BudgetInv, Bounds, NEW n \in entered
  PROVE  /\ Marked(n) \subseteq entered
         /\ Cardinality(Marked(n)) <= MaxFailed
<1>1. IsFiniteSet(failed) /\ Cardinality(failed) \in Nat
  BY ComposerParameters, FS_Subset, FS_CardinalityType DEF BudgetInv, Types
<1>2. CASE n \in failed \/ ~ MayMark(n)
  <2>1. Marked(n) = failed
    BY <1>2 DEF Marked
  <2> QED
    BY <2>1 DEF Bounds
<1>3. CASE n \notin failed /\ MayMark(n)
  <2>1. Marked(n) = failed \cup {n}
    BY <1>3 DEF Marked
  <2>2. Cardinality(failed) < MaxFailed
    BY <1>3 DEF MayMark
  <2>3. Cardinality(failed \cup {n}) = Cardinality(failed) + 1
    BY <1>1, <1>3, FS_AddElement
  <2> QED
    BY <1>1, <2>1, <2>2, <2>3, Ceilings DEF Bounds
<1> QED
  BY <1>2, <1>3

(* The settled request may have left an issue. *)
LEMMA SettlingIssues ==
  ASSUME issues \subseteq Issues, Unresolved \/ NoSpec \/ \E asset : ResolvedTo(asset)
  PROVE  issues' \subseteq Issues
BY DEF Unresolved, NoSpec, ResolvedTo, Issues

LEMMA BoundsNext == BudgetInv /\ Bounds /\ [Next]_vars => Bounds'
<1> SUFFICES ASSUME BudgetInv, Bounds, [Next]_vars PROVE Bounds'
  OBVIOUS
<1>0. calls \in Nat /\ core \in Nat
  BY DEF BudgetInv, Types
<1>a. at = "asking" => Current.name \in entered
  BY DEF BudgetInv, Types
<1>1. CASE UNCHANGED vars \/ Ended
  BY <1>1 DEF Ended, vars, pass, budgets, Bounds
<1>2. CASE BeginPass \/ Recompose
  <2>1. PICK w : Compose(w)
    BY <1>2 DEF BeginPass, Recompose
  <2>2. calls' <= MaxCalls
    BY <1>2 DEF BeginPass, Recompose, Bounds
  <2> QED
    BY <2>1, <2>2, Ceilings DEF Compose, Bounds
<1>3. CASE LeaveOut \/ FromCatalog \/ AskingDeclined
  <2>1. issues' \subseteq Issues
    BY <1>3, SettlingIssues DEF LeaveOut, FromCatalog, AskingDeclined, Bounds
  <2>2. UNCHANGED <<why, passes, tries, asks, calls, entered, failed, cached>>
    BY <1>3 DEF LeaveOut, FromCatalog, AskingDeclined, budgets
  <2> QED
    BY <2>1, <2>2 DEF Bounds
<1>4. CASE Ask
  <2>1. asks' \in 0 .. CallLimit
    BY <1>4, Ceilings DEF Ask, Bounds
  <2>2. UNCHANGED <<why, passes, calls, failed, cached>> /\ entered \subseteq entered'
    BY <1>4 DEF Ask
  <2>3. issues' \subseteq Issues
    BY <1>4, SettlingIssues DEF Ask, Bounds
  <2>4. tries' \in 0 .. MaxSpecRepairs
    BY <1>4, Ceilings DEF Ask, Bounds
  <2> QED
    BY <2>3, <2>4, <2>1, <2>2 DEF Bounds
<1>5. CASE SpecAccepted
  <2>1. calls' <= MaxCalls
    BY <1>0, <1>5, Ceilings DEF SpecAccepted, MayCallFor, MayCall, Count
  <2>2. issues' \subseteq Issues
    BY <1>5, SettlingIssues DEF SpecAccepted, Bounds
  <2>3. UNCHANGED <<why, passes, asks, entered, failed>> /\ tries' = 0
    BY <1>5 DEF SpecAccepted
  <2>4. cached' \subseteq entered
    BY <1>a, <1>5 DEF SpecAccepted, Bounds
  <2> QED
    BY <2>3, <2>4, <2>1, <2>2, Ceilings DEF Bounds
<1>6. CASE SpecRejected
  <2>1. calls' <= MaxCalls
    BY <1>0, <1>6, Ceilings DEF SpecRejected, MayCallFor, MayCall, Count
  <2>2. issues' \subseteq Issues
    BY <1>6, SettlingIssues DEF SpecRejected, Bounds
  <2>3. UNCHANGED <<why, passes, asks, entered, cached>>
    BY <1>6 DEF SpecRejected
  <2>4. tries' \in 0 .. MaxSpecRepairs
    BY <1>6, Ceilings DEF SpecRejected, Bounds
  <2>5. failed' \subseteq entered /\ Cardinality(failed') <= MaxFailed
    <3>1. failed' = failed \/ failed' = Marked(Current.name)
      BY <1>6 DEF SpecRejected
    <3>2. Current.name \in entered
      BY <1>a, <1>6 DEF SpecRejected
    <3> QED
      BY <3>1, <3>2, MarkingStaysBelow DEF Bounds
  <2> QED
    BY <2>3, <2>4, <2>5, <2>1, <2>2 DEF Bounds
<1>7. CASE AssetExhausted
  <2>1. UNCHANGED <<passes, asks, calls, entered, cached>> /\ tries' = 0
    BY <1>7 DEF AssetExhausted
  <2>2. issues' \subseteq Issues
    BY <1>7, SettlingIssues DEF AssetExhausted, Bounds
  <2>3. why' \in Codes \cup {None}
    BY <1>7 DEF AssetExhausted, Fail, Bounds, Codes
  <2>4. failed' \subseteq entered /\ Cardinality(failed') <= MaxFailed
    <3>1. failed' = Marked(Current.name) /\ Current.name \in entered
      BY <1>a, <1>7 DEF AssetExhausted
    <3> QED
      BY <3>1, MarkingStaysBelow
  <2> QED
    BY <2>3, <2>4, <2>1, <2>2, Ceilings DEF Bounds
<1>8. CASE AskingFails
  <2>1. UNCHANGED <<passes, tries, asks, issues, entered, failed, cached>>
    BY <1>8 DEF AskingFails, pass
  <2>2. why' \in Codes \cup {None}
    BY <1>8 DEF AskingFails, Fail, Codes
  <2>3. calls' <= MaxCalls
    BY <1>0, <1>8, Ceilings DEF AskingFails, MayCallFor, MayCall, Count, Bounds
  <2> QED
    BY <2>1, <2>2, <2>3 DEF Bounds
<1>9. CASE Draft
  <2>1. UNCHANGED <<passes, tries, asks, calls, entered, failed, cached>>
    BY <1>9 DEF Draft, budgets
  <2>2. why' \in Codes \cup {None}
    <3>1. why' = Verdict(plans')
      BY <1>9 DEF Draft
    <3> QED
      BY <3>1 DEF Verdict, Codes
  <2>3. issues' \subseteq Issues
    BY <1>9 DEF Draft, Bounded, Bounds, Issues
  <2> QED
    BY <2>1, <2>2, <2>3 DEF Bounds
<1> QED
  BY <1>5, <1>6, <1>7, <1>8, <1>9, <1>1, <1>2, <1>3, <1>4 DEF Next, Resolve, Answer

(* Every variable has its type, and no counter passes its ceiling: compositions, repairs
   of a spec, the limit on asking, the calls of the attempt and of one object, the
   objects counted and the objects failed; a plan is numbered by a request behind. *)
THEOREM TypeCorrect == Spec => []TypeOK
<1>1. Init => Bounds
  BY BoundsInit
<1>2. BudgetInv /\ Bounds /\ [Next]_vars => Bounds'
  BY BoundsNext
<1>3. BudgetInv /\ PlanInv /\ Bounds => TypeOK
  <2> SUFFICES ASSUME BudgetInv, PlanInv, Bounds PROVE TypeOK
    OBVIOUS
  <2>1. /\ calls \in Nat /\ core \in Nat
        /\ calls = core + Cardinality(CallsFor(assetCalls))
        /\ Cardinality(CallsFor(assetCalls)) \in Nat
    BY CallsAreFinite DEF BudgetInv, Types, Spending
  <2>2. calls \in core .. MaxCalls /\ core \in 0 .. MaxCalls
    BY <2>1, Ceilings DEF Bounds
  <2>3. reqs \in Seq(Requests)
    BY DEF BudgetInv, Types
  <2> QED
    BY <2>2, <2>3 DEF BudgetInv, Types, PlanInv, PlansInOrder, Bounds, TypeOK
<1>4. Spec => []BudgetInv
  BY BudgetInvariant
<1>5. Spec => []PlanInv
  BY PlansInvariant
<1> QED
  BY <1>3, <1>4, <1>5, <1>1, <1>2, PTL DEF Spec
================================================================================
