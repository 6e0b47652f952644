----------------------------- MODULE WorldComposer -----------------------------
(***************************************************************************)
(* The composition of the world of one generation attempt, pass by pass:   *)
(* compose_world with the Asset Oracle, the driver's AssetSpec provider    *)
(* and the budgets that they share.                                        *)
(*                                                                         *)
(* A pass takes the object requests of the world stage in order.  The      *)
(* catalog answers some; for the others the provider is asked for a spec,  *)
(* at most CallLimit times in a pass, each time with up to MaxSpecRepairs  *)
(* repairs.  The counters of calls, of objects that were asked for and of  *)
(* objects that failed belong to the attempt, the limit on asking to the   *)
(* pass.  Then the resolved objects claim their render assets, decoration  *)
(* gives way until the kit can show the rest, and the driver decides       *)
(* whether the world may become a draft.                                   *)
(*                                                                         *)
(* An essential request may be blocked by decoration in several places:    *)
(* in the limit on asking, in the ceiling of failed objects, by the asset  *)
(* it is drawn with, by its name and by the size of the kit.               *)
(*                                                                         *)
(* A name stands for the name of a request and for the semantic id derived *)
(* from it.  Where an object stands is left out: which plans the kit can   *)
(* place is free.  The notes for the player are left out.                  *)
(***************************************************************************)
EXTENDS Naturals, FiniteSets, Sequences

CONSTANTS
  Names,           \* requested names
  Assets,          \* catalog assets
  Procedural,      \* asset ids a compiled spec may have
  Match,           \* name -> what the catalog resolver says of it
  CatalogAsset,    \* name -> the asset it finds, or None
  Base,            \* names of the objects of the kit
  Weapon,          \* the locked weapon of the case
  Unsafe,          \* names that are never composed
  Answers,         \* request lists the world stage may answer
  MaxRequests,     \* MAX_OBJECT_REQUESTS
  CallLimit,       \* SPEC_PROVIDER_CALL_LIMIT
  MaxSpecRepairs,  \* MAX_SPEC_REPAIR_PASSES
  MaxCalls,        \* MAX_LLM_CALLS_PER_GENERATION
  MaxAssetCalls,   \* MAX_LLM_CALLS_PER_PROCEDURAL_ASSET
  MaxProcedural,   \* MAX_PROCEDURAL_ASSETS_PER_GENERATION
  MaxFailed,       \* MAX_FAILED_ASSETS_PER_GENERATION
  MaxVisible,      \* max_world_objects_per_kit
  MaxPasses,       \* first pass, repairs and regenerations
  CoreStep,        \* most calls of the other stages before a composition
  None

(* Provenances, by what the composer does with them: a sure match; a semantic match
   of low confidence; a trusted fallback, which is asked for all the same; FALLBACK;
   UNRESOLVED. *)
Matches == {"sure", "weak", "trusted", "unknown", "refused"}

Requests == [name : Names, required : BOOLEAN, linked : BOOLEAN]

ASSUME ComposerParameters ==
  /\ Match \in [Names -> Matches]
  /\ CatalogAsset \in [Names -> Assets \cup {None}]
  /\ \A n \in Names : Match[n] \in {"sure", "weak", "trusted"} => CatalogAsset[n] # None
  /\ Assets \cap Procedural = {}
  /\ None \notin Assets \cup Procedural \cup Names
  /\ Base \subseteq Names
  /\ IsFiniteSet(Base)
  /\ IsFiniteSet(Names)
  /\ Weapon \in Names
  /\ Unsafe \subseteq Names
  /\ Answers \subseteq Seq(Requests)
  /\ {MaxRequests, CallLimit, MaxAssetCalls, MaxProcedural, MaxPasses, CoreStep} \subseteq
       Nat \ {0}
  /\ {MaxSpecRepairs, MaxCalls, MaxFailed, MaxVisible} \subseteq Nat

(* A plan is a request that an asset has been found for. *)
Plans == [name : Names, asset : Assets \cup Procedural, required : BOOLEAN, linked : BOOLEAN]

Issues == {"unresolved-object", "object-count-bound", "invalid-placement"}
Codes  == {"global", "asset", "failed-assets", "procedural-assets", "provider",
           "unresolved-weapon"}
Places == {"world", "resolving", "asking", "drafted", "failed"}

ASSUME ComposerNone == None \notin Codes

VARIABLES
  at,         \* where the attempt is
  why,        \* the code it failed with, or None
  passes,     \* compositions begun
  reqs,       \* the requests of this pass
  next,       \* the request being resolved
  tries,      \* answers for it that were not valid
  asks,       \* BoundedSpecProvider.calls
  ceilingHit, \* procedural_asset_ceiling_hit of the adapter of this pass
  failedHit,  \* failed_asset_threshold_hit of the adapter of this pass
  record,     \* resolution_record: the asset each request of this pass has resolved to
  plans,      \* new_plans, then those of them that are placed, by their numbers
  issues,     \* blocking issues of this pass
  core,       \* core_calls
  calls,      \* all calls of the attempt
  assetCalls, \* asset_calls_by_object
  entered,    \* procedural_assets
  failed,     \* failed_assets
  cached,     \* names with a definition in the generated-asset cache
  asked       \* history: requests of this pass that the provider was asked for

budgets == <<core, calls, assetCalls, entered, failed>>
pass    == <<passes, reqs, next, tries, asks, ceilingHit, failedHit, record, plans,
             issues, asked>>
vars    == <<at, why, pass, budgets, cached>>

SeqSet(s) == {s[i] : i \in DOMAIN s}

--------------------------------------------------------------------------------
(* The requests of a pass *)

WeaponRequest == [name |-> Weapon, required |-> TRUE, linked |-> FALSE]

Decorations(w) == {i \in DOMAIN w : ~w[i].required}

WithoutLastDecoration(w) ==
  LET last == CHOOSE i \in Decorations(w) : \A j \in Decorations(w) : j <= i
  IN SubSeq(w, 1, last - 1) \o SubSeq(w, last + 1, Len(w))

(* inject_locked_weapon_request: the weapon is always asked for as essential.  A full
   list gives up its last decoration for it; an unsafe weapon is taken out. *)
Injected(w) ==
  CASE Weapon \in Unsafe -> SelectSeq(w, LAMBDA r : r.name # Weapon)
    [] Weapon \notin Unsafe /\ \E r \in SeqSet(w) : r.name = Weapon ->
         [i \in DOMAIN w |-> IF w[i].name = Weapon
                             THEN [w[i] EXCEPT !.required = TRUE] ELSE w[i]]
    [] OTHER ->
         IF Len(w) < MaxRequests THEN Append(w, WeaponRequest)
         ELSE IF Decorations(w) = {} THEN w
         ELSE Append(WithoutLastDecoration(w), WeaponRequest)

(* parse_world_requirements leaves unsafe names out of the answer. *)
Parsed(w) == SelectSeq(w, LAMBDA r : r.name \notin Unsafe)

(* What becomes of an answer is a list of requests.  It says nothing of the code: a
   selection of a list is a list, which the proofs would need an induction for. *)
ASSUME AnswersAreRequests == \A w \in Answers : Injected(Parsed(w)) \in Seq(Requests)

(* The provider is asked when the catalog has no sure answer.  A weak match is good
   enough for decoration. *)
Needs(r) == Match[r.name] \in {"trusted", "unknown"} \/ (Match[r.name] = "weak" /\ r.required)

(* Requests before the i-th that hold a permit to ask. *)
Permits(w, i) == {j \in 1 .. i - 1 : Needs(w[j]) /\ ~w[j].required}

(* generation_denied_names. *)
DeniedNames(w) ==
  {w[i].name : i \in {k \in DOMAIN w : /\ Needs(w[k])
                                       /\ ~w[k].required
                                       /\ Cardinality(Permits(w, k)) >= CallLimit}}

--------------------------------------------------------------------------------
(* The plans *)

Materialized == Base \cup {p.name : p \in SeqSet(plans)}

Claimants(asset) == {i \in DOMAIN plans : plans[i].asset = asset /\ ~plans[i].required}

(* Mutant: an essential object does not displace the decoration drawn like it. *)
PlannedInOrder(r, asset) ==
  IF r.name \in Materialized \/ \E p \in SeqSet(plans) : p.asset = asset
  THEN plans
  ELSE Append(plans, [name |-> r.name, asset |-> asset, required |-> r.required,
                      linked |-> r.linked])

(* One plan for a name and one for an asset: the first come, save that an essential
   object takes the place of a decoration drawn with its asset. *)
Planned(r, asset) ==
  LET plan  == [name |-> r.name, asset |-> asset, required |-> r.required,
                linked |-> r.linked]
      first == CHOOSE i \in Claimants(asset) : \A j \in Claimants(asset) : i <= j
  IN IF r.name \in Materialized THEN plans
     ELSE IF \A p \in SeqSet(plans) : p.asset # asset THEN Append(plans, plan)
     ELSE IF r.required /\ Claimants(asset) # {} THEN [plans EXCEPT ![first] = plan]
     ELSE plans

Essential(p) == p.required \/ p.linked

Droppable(s) == {i \in DOMAIN s : ~Essential(s[i])}

(* The plans without the last n decorations.  Those that stay keep their numbers, and
   with them their order. *)
WithoutDecorations(s, n) ==
  LET dropped == {i \in Droppable(s) : Cardinality({j \in Droppable(s) : j >= i}) <= n}
  IN [i \in DOMAIN s \ dropped |-> s[i]]

Overflow == IF Cardinality(Base) + Len(plans) > MaxVisible
            THEN Cardinality(Base) + Len(plans) - MaxVisible ELSE 0

(* The visible bound drops decoration only when that is enough. *)
OverBound == Overflow > Cardinality(Droppable(plans))
Shown     == IF OverBound THEN plans ELSE WithoutDecorations(plans, Overflow)

--------------------------------------------------------------------------------
(* Actions *)

Init ==
  /\ at = "world"
  /\ why = None
  /\ passes = 0
  /\ reqs = << >>
  /\ next = 1
  /\ tries = 0
  /\ asks = 0
  /\ ceilingHit = FALSE
  /\ failedHit = FALSE
  /\ record = << >>
  /\ plans = << >>
  /\ issues = {}
  /\ core = 0
  /\ calls = 0
  /\ assetCalls = [n \in Names |-> 0]
  /\ entered = {}
  /\ failed = {}
  /\ cached = {}
  /\ asked = {}

(* A composition starts with nothing but the budgets of the attempt and the cache of
   the driver: the adapter and the limit on asking are new. *)
Compose(w) ==
  /\ passes < MaxPasses
  /\ passes' = passes + 1
  /\ reqs' = w
  /\ next' = 1
  /\ tries' = 0
  /\ asks' = 0
  /\ ceilingHit' = FALSE
  /\ failedHit' = FALSE
  /\ record' = [i \in DOMAIN w |-> None]
  /\ plans' = << >>
  /\ issues' = {}
  /\ asked' = {}
  /\ at' = "resolving"
  /\ UNCHANGED <<why, assetCalls, entered, failed, cached>>

(* The other stages of the pass have used the core bucket, and the world stage has
   answered. *)
BeginPass ==
  /\ at \in {"world", "drafted"}
  /\ \E w \in Answers : Compose(Injected(Parsed(w)))
  /\ \E n \in 1 .. CoreStep :
       /\ calls + n <= MaxCalls
       /\ core' = core + n
       /\ calls' = calls + n

(* A repair of the assets only composes the same requirements again. *)
Recompose ==
  /\ at = "drafted"
  /\ Compose(reqs)
  /\ UNCHANGED <<core, calls>>

Current == reqs[next]

Resolving == at = "resolving" /\ next \in DOMAIN reqs

Fail(code) ==
  /\ at' = "failed"
  /\ why' = code

(* The request is left without an object: an issue if it is essential. *)
Unresolved ==
  /\ next' = next + 1
  /\ issues' = IF Current.required THEN issues \cup {"unresolved-object"} ELSE issues
  /\ record' = [record EXCEPT ![next] = None]
  /\ UNCHANGED plans

ResolvedTo(asset) ==
  /\ next' = next + 1
  /\ record' = [record EXCEPT ![next] = asset]
  /\ plans' = Planned(Current, asset)
  /\ UNCHANGED issues

(* The provider has no spec for it: a trusted fallback stands. *)
NoSpec ==
  IF Match[Current.name] = "trusted" THEN ResolvedTo(CatalogAsset[Current.name])
  ELSE Unresolved

Denied == ~Current.required /\ Current.name \in DeniedNames(reqs)

(* Decoration without a permit is not asked for, and a trusted fallback does not save
   it; a name the catalog refuses is never asked for. *)
LeaveOut ==
  /\ Resolving
  /\ Denied \/ Match[Current.name] = "refused"
  /\ Unresolved
  /\ UNCHANGED <<at, why, passes, reqs, tries, asks, ceilingHit, failedHit, asked,
                 budgets, cached>>

FromCatalog ==
  /\ Resolving
  /\ ~Needs(Current)
  /\ Match[Current.name] # "refused"
  /\ ResolvedTo(CatalogAsset[Current.name])
  /\ UNCHANGED <<at, why, passes, reqs, tries, asks, ceilingHit, failedHit, asked,
                 budgets, cached>>

Asking == Resolving /\ Needs(Current) /\ ~Denied

(* BoundedSpecProvider answers with an error once the limit is reached. *)
AskingDeclined ==
  /\ Asking
  /\ asks >= CallLimit
  /\ NoSpec
  /\ UNCHANGED <<at, why, passes, reqs, tries, asks, ceilingHit, failedHit, asked,
                 budgets, cached>>

(* consume_procedural_asset: an object that has been counted may always return. *)
MayEnter(n) == n \in entered \/ Cardinality(entered) < MaxProcedural

(* The oracle that serves one request is new, and so is its index of names: it never
   finds what the cache already holds, and asks. *)
Ask ==
  /\ Asking
  /\ asks < CallLimit
  /\ asks' = asks + 1
  /\ asked' = asked \cup {next}
  /\ \/ /\ MayEnter(Current.name)
        /\ entered' = entered \cup {Current.name}
        /\ at' = "asking"
        /\ tries' = 0
        /\ UNCHANGED <<next, ceilingHit, record, plans, issues>>
     \/ /\ ~MayEnter(Current.name)
        /\ ceilingHit' = TRUE
        /\ NoSpec
        /\ UNCHANGED <<at, tries, entered>>
  /\ UNCHANGED <<why, passes, reqs, failedHit, core, calls, assetCalls, failed, cached>>

MayCall == calls < MaxCalls
MayCallFor(n) == MayCall /\ assetCalls[n] < MaxAssetCalls

Count(n) ==
  /\ calls' = calls + 1
  /\ assetCalls' = [assetCalls EXCEPT ![n] = @ + 1]

(* Mutant: one failure more than the ceiling. *)
MayMarkOnceMore(n) == n \in failed \/ Cardinality(failed) <= MaxFailed

(* mark_failed_asset: a failure beyond the ceiling is not recorded. *)
MayMark(n) == n \in failed \/ Cardinality(failed) < MaxFailed
Marked(n)  == IF MayMark(n) THEN failed \cup {n} ELSE failed

(* A spec that is valid: compiled, put in the cache (which has room), and shown. *)
SpecAccepted ==
  /\ at = "asking"
  /\ MayCallFor(Current.name)
  /\ Count(Current.name)
  /\ cached' = cached \cup {Current.name}
  /\ \E asset \in Procedural : ResolvedTo(asset)
  /\ at' = "resolving"
  /\ tries' = 0
  /\ UNCHANGED <<why, passes, reqs, asks, ceilingHit, failedHit, asked, core, entered,
                 failed>>

(* A spec that is not: repaired a bounded number of times, then the object has failed. *)
SpecRejected ==
  /\ at = "asking"
  /\ MayCallFor(Current.name)
  /\ Count(Current.name)
  /\ \/ /\ tries < MaxSpecRepairs
        /\ tries' = tries + 1
        /\ UNCHANGED <<at, next, record, plans, issues, failedHit, failed>>
     \/ /\ tries = MaxSpecRepairs
        /\ tries' = 0
        /\ at' = "resolving"
        /\ failed' = Marked(Current.name)
        /\ failedHit' = (failedHit \/ ~MayMark(Current.name))
        /\ NoSpec
  /\ UNCHANGED <<why, passes, reqs, asks, ceilingHit, asked, core, entered, cached>>

(* The calls for this object are spent: decoration is left out, even with a trusted
   fallback, until too many objects have failed; an essential object ends the attempt. *)
AssetExhausted ==
  /\ at = "asking"
  /\ MayCall
  /\ ~MayCallFor(Current.name)
  /\ failed' = Marked(Current.name)
  /\ failedHit' = (failedHit \/ ~MayMark(Current.name))
  /\ tries' = 0
  /\ IF Current.required
     THEN /\ Fail("asset")
          /\ UNCHANGED <<next, record, plans, issues>>
     ELSE /\ Unresolved
          /\ IF failedHit' THEN Fail("failed-assets")
             ELSE at' = "resolving" /\ UNCHANGED why
  /\ UNCHANGED <<passes, reqs, asks, ceilingHit, asked, core, calls, assetCalls, entered,
                 cached>>

(* The attempt has no call left, its deadline has passed, or the provider does not
   answer: never the fault of one object. *)
AskingFails ==
  /\ at = "asking"
  /\ \/ ~MayCall /\ Fail("global") /\ UNCHANGED <<calls, assetCalls>>
     \/ Fail("provider") /\ UNCHANGED <<calls, assetCalls>>
     \/ MayCallFor(Current.name) /\ Fail("provider") /\ Count(Current.name)
  /\ UNCHANGED <<pass, core, entered, failed, cached>>

--------------------------------------------------------------------------------
(* The end of a composition *)

(* The kit takes the essential plans and as many of the first decorations as it can,
   or it cannot take the essential ones. *)
Placements ==
  {WithoutDecorations(Shown, n) : n \in 0 .. Cardinality(Droppable(Shown))}

(* A ceiling that the adapter reports ends the attempt before the draft; so does a
   weapon that is no object of the world. *)
Represented(ps) == Weapon \in Base \cup {p.name : p \in SeqSet(ps)}

(* Mutant: the flag of the failed objects is not read. *)
VerdictOnCeiling(ps) ==
  CASE ceilingHit       -> "procedural-assets"
    [] ~Represented(ps) -> "unresolved-weapon"
    [] OTHER            -> None

Verdict(ps) ==
  CASE ceilingHit                     -> "procedural-assets"
    [] ~ceilingHit /\ failedHit       -> "failed-assets"
    [] OTHER -> IF Represented(ps) THEN None ELSE "unresolved-weapon"

Bounded == IF OverBound THEN issues \cup {"object-count-bound"} ELSE issues

Draft ==
  /\ at = "resolving"
  /\ next > Len(reqs)
  /\ \/ /\ plans' \in Placements
        /\ issues' = Bounded
     \/ /\ plans' = << >>
        /\ issues' = Bounded \cup {"invalid-placement"}
  /\ why' = Verdict(plans')
  /\ at' = IF why' = None THEN "drafted" ELSE "failed"
  /\ UNCHANGED <<passes, reqs, next, tries, asks, ceilingHit, failedHit, record, asked,
                 budgets, cached>>

(* The attempt has failed, or nothing composes again. *)
Ended == at \in {"drafted", "failed"} /\ UNCHANGED vars

Resolve == LeaveOut \/ FromCatalog \/ AskingDeclined \/ Ask
Answer  == SpecAccepted \/ SpecRejected \/ AssetExhausted \/ AskingFails

Next == BeginPass \/ Recompose \/ Resolve \/ Answer \/ Draft \/ Ended

Spec == Init /\ [][Next]_vars

--------------------------------------------------------------------------------
(* Properties *)

(* Every variable has its type: no counter beyond its ceiling. *)
TypeOK ==
  /\ at \in Places
  /\ why \in Codes \cup {None}
  /\ passes \in 0 .. MaxPasses
  /\ reqs \in Seq(Requests)
  /\ next \in 1 .. Len(reqs) + 1
  /\ tries \in 0 .. MaxSpecRepairs
  /\ asks \in 0 .. CallLimit
  /\ ceilingHit \in BOOLEAN
  /\ failedHit \in BOOLEAN
  /\ record \in [DOMAIN reqs -> Assets \cup Procedural \cup {None}]
  /\ plans \in [DOMAIN plans -> Plans]
  /\ DOMAIN plans \subseteq 1 .. next - 1
  /\ at \in {"resolving", "asking"} => plans \in Seq(Plans)
  /\ issues \subseteq Issues
  /\ core \in 0 .. MaxCalls
  /\ calls \in core .. MaxCalls
  /\ assetCalls \in [Names -> 0 .. MaxAssetCalls]
  /\ entered \subseteq Names
  /\ failed \subseteq entered
  /\ Cardinality(failed) <= MaxFailed
  /\ cached \subseteq entered
  /\ asked \subseteq DOMAIN reqs

(* A decoration of the same name came before the i-th request and got an object: the
   name is taken, and the code neither replaces it nor reports the request. *)
NameTaken(i) ==
  \E j \in 1 .. i - 1 : reqs[j].name = reqs[i].name /\ ~reqs[j].required /\ record[j] # None

(* A draft whose world has no blocking issue shows every essential request: as itself,
   as an object of the kit, or with the asset that another essential object is drawn
   with.  Neither the order of the requests, nor the visible bound, nor the kit can
   trade it for decoration; only a decoration of its own name can (compose_world). *)
RequiredAccounted ==
  at = "drafted" /\ issues = {} =>
    \A i \in DOMAIN reqs : reqs[i].required =>
      \/ reqs[i].name \in Base
      \/ \E p \in SeqSet(plans) :
           p.required /\ (p.name = reqs[i].name \/ p.asset = record[i])
      \/ NameTaken(i)

(* A request that the provider was asked for, and that a draft does not show as a
   generated asset, is among the failed assets: no draft has more failures than the
   ceiling allows, however the passes of the attempt divide them (mark_failed_asset,
   _fail_asset, _record_budget_failure). *)
FailuresAreCounted ==
  at = "drafted" =>
    \A i \in asked : record[i] \in Procedural \/ reqs[i].name \in failed

(* Calls for objects never eat into the calls of the stages: an attempt runs out of
   calls only when the core bucket has had its whole share of the global ceiling
   (derive_global_call_budget_default, consume_call). *)
AssetsHaveTheirShare ==
  why = "global" => core + MaxProcedural * MaxAssetCalls >= MaxCalls

(* What is asked for is counted, and is bounded. *)
GenerationIsBounded == FailuresAreCounted /\ AssetsHaveTheirShare
================================================================================
