# Procedural Detective: a TLA+ development

Procedural Detective generates murder mysteries with a language model, validates
them with deterministic solvers, publishes them as immutable versions of a case,
and lets players investigate and accuse. The backend is a FastAPI process that
serves requests from a pool of threads over one SQLite file; a few tools of the
operator open the same file from processes of their own.

The modules here model the parts of the backend whose correctness depends on the
order of events: who reads what before whom, what a lock covers, what a crash
leaves, what an old copy of a row may still do, and what one pass of the
generation leaves for the next. Paths are relative to the
root of the repository; `app/` stands for `backend/app/`.

To check a module: `tlc -config X.cfg MCModule`. To check proofs:
`tlapm Module_proofs.tla`.

## 1. Inventory

### Parts that keep state

| Part | State | Operations | Why it is hard |
|---|---|---|---|
| **Store** `app/persistence/store.py` | one SQLite file, one `RLock` per process | a public read or one write transaction per call | SQLite opens a transaction at the first DML statement, so the reads of a read-then-write are covered by the `RLock` only; another process has another lock; any transaction may find the database locked and fail whole |
| **Playthroughs** `api/v1/cases.py`, `api/v1/playthroughs.py`, `services/accusation.py`, `reveal.py`, `savegame.py`, `auth/` | tables `playthroughs`, `accusations` | create, accuse, reveal, export, expire, prune; the operator's deletion | two durable caps counted before the insert; handlers work from a copy of the row read at authorization; retention removes rows of other players |
| **Investigation** `services/investigation.py`, `witnesses.py` | table `player_knowledge`, three JSON columns and opening times | bootstrap, interact, read a record, interview | several transactions per request, each a read-modify-write of whole columns; the PLAYING gate is evaluated once |
| **Generation controller** `app/generation/controller.py`, `state_machine.py`, `budgets.py`, `clock.py` | attempts, pending routes, budgets, deadline | `start_generation`, `on_completion`, `publish`, pruning | superseding, late and repeated answers, deadline against gate, four budgets that bound one loop, six ways to end that must each give the reservation back once |
| **Admission** `app/generation/admission.py`, `services/admission.py` | counters and windows in memory, table `anonymous_quota_sessions` | create, rehydrate, admit, release, evict, write back | the memory is authoritative while the process lives and the row after a restart; requests carry copies of rows |
| **Versions and publication** `services/generation.py`, `services/publication.py` | tables `cases`, `case_versions`, `generation_attempts`, `published_versions` | allocate, record, publish, mark as failed; the operator's deletion | a request makes three to five transactions; failures of the marking are swallowed; the case may be deleted between any two |
| **Bridge relay** `services/bridge.py`, `bridge_session.py`, `api/v1/bridge_ws.py`, `generation/remote_client_provider.py` | rows of bridge sessions, a registry of connections, on each one job slot and its waiter | pair, reconnect, supersede, begin, send, answer, time out, detach, clean up | reconnecting peers, a waiter on another thread, two locks and three steps from lookup to send, late frames of a superseded link |
| **Stage driver** `services/ollama_driver.py`, `generation/pipeline.py` | caches of validated outputs per attempt, the core call counter | a staged pass, a repair pass under a plan, a regeneration | which outputs are reused decides whether the parts of a draft fit together |
| **World composition** `world/composer.py`, `assets/oracle.py`, `assets/spec_provider.py`, `generation/budgets.py` | counters of generated objects, call budgets, the cache of compiled specs | compose a world answer pass by pass, ask for specs, repair them, draft or report | limits of four kinds that REQUIRED objects and decoration share |
| **Proof of a case** `generation/pipeline.py`, `evidence_algebra.py`, `domain/solver.py`, `domain/solvers/` | the evidence of the attempt, whether it was completed, the proof | validate, offer a completion, repair, regenerate | interval arithmetic at its boundaries; canonical evidence that must close every question it was offered for |
| **Capability probes** `services/generation_capabilities.py` | a cache with expiry | probe, read | single flight, negative results |
| **Rate limits** `core/ratelimit.py` | sliding windows per address | one operation under one lock | a bounded key map |

### Parts that compute

The prompts and parsers, the gates on quality other than the proof, geometry and
placement (`environments/`), the compilation of meshes, and the projections for
players. They take a draft and return a verdict or another value; nothing is
shared between two calls. The models take their verdicts as choices. The solvers
compute too, but what they compute is why a case may be published, so they are
modelled by what they return.

### How they interact

```
 player --HTTP--> handler thread --Store call--> SQLite <--Store call-- operator's tools
                       |
 creator --HTTP--> generation request
                       | rehydrate / admit / release / write back
                       +--------> DurableAdmissionController (one per process)
                       | start_generation, publish
                       +--------> GenerationController (one per request)
                       |             | run_into
                       |             +--> stage driver --call--> provider (local or remote)
                       |             |      | compose              |
                       |             |      +--> world composer    +--> bridge registry <--WebSocket--
                       |             | validate                                          bridge client
                       |             +--> solvers, completion of the evidence
                       | allocate, record, publish, mark
                       +--------> Store
```

Handlers share the rows of the database, the Store's lock, the admission
controller and the registry of bridges, and nothing else: a
`GenerationController` with its driver and budgets is built for one request.
A version published by the generation is what a playthrough is pinned to, and a
playthrough is what an investigation works under.

### What makes each part correct

- Playthroughs: the caps hold at every instant; a playthrough has one verdict for
  life; no truth leaves the server before it; the pin and the dates never move;
  only the oldest completed rows are pruned; every request is answered.
- Investigation: knowledge belongs to a playthrough that exists; only discovered
  records are opened; nothing that was shown as found or as opened is lost or
  changes, whatever interleaves or crashes.
- Controller: what is published is the whole draft that validated, in time; every
  reservation is given back once; a late answer reaches nobody; an attempt that
  ended is final; every entry returns.
- Admission: the counters are the generations in flight; the quota of a session
  holds while the process lives; a restart never takes unused quota away; no
  usable session is forgotten.
- Publication: version, attempt and payload are decided together; no row outlives
  its case; numbers are unique; a decision is for good.
- Stage driver: the parts of a published draft were made from one another; the
  truth of a case survives repair and regeneration; the reserve of core calls is
  enough for every pass that the controller may ask for.
- World composition: every REQUIRED object is in the draft or reported; the
  limits on generated objects count what they claim to count.
- Bridge relay: a call gets the answer to its own job; a slot is taken exactly
  while a call uses it; a creator has one bridge, the newest.
- Proof: the solvers exclude nothing that the evidence allows and nothing is
  published that they do not deduce; the evidence a proof cites is enough for it;
  a completion closes the questions it was offered for.

`PROJECT.json` lists the hazards behind these, each at the line where it bites,
with the properties that would catch it.

## 2. Modules

| Module | Models | Role |
|---|---|---|
| `Playthroughs` | creation, accusation, reveal, savegame, expiry, deletion, crashes | component |
| `PlaythroughContract` | the same with every request served at one instant | abstract specification, implemented by `Playthroughs` |
| `Investigation` | investigation and witnesses | EXTENDS and composes with `Playthroughs`: same rows, threads and lock |
| `GenerationController` | the controller with its providers and clock | component |
| `AttemptLifecycle` | the transition table and one reservation per open attempt | abstract specification, implemented by `GenerationController` |
| `Admission` | the admission controller, its rows, and the requests around it | component |
| `CasePublication` | the persistence of versions | component |
| `CaseCatalog` | a version is recorded, decided once, and goes with its case | abstract specification, implemented by `CasePublication` |
| `StageDriver` | the passes of the stage driver over one attempt, with the repair plans | component, the inside of `Drive` of `GenerationController` |
| `WorldComposer` | the composition of a world, with oracle, spec provider and budgets | component, the inside of `Compose` of `StageDriver` |
| `BridgeRelay` | registry, links, sessions and the workers that call through them | component |
| `TimeIntervals` | the interval algebra of the solvers | operators, used by `CaseProof` |
| `CaseProof` | the four solvers, validation, repair, canonical evidence | component, with the solvers as operators |
| `*_proofs` | theorems about `Investigation` (with `Playthroughs`), `CasePublication`, `Admission`, `BridgeRelay`, `StageDriver`, `GenerationController`, `WorldComposer`, `CaseProof` (with `TimeIntervals`) | proofs |
| `MC*` | constants and symmetry for TLC | instances |

Definitions whose comment starts with "Mutant" are plausible mistakes in the
definition below them. The specifications do not use them; putting one in the
place of the definition makes the property named in `PROJECT.json` fail.

### Playthroughs

A step is what other threads can observe as one: a read of the Store, a
transaction, or, for the one transaction that counts before it writes
(`create_playthrough_if_published`), its SELECTs under the lock (`AdmitCreate`,
`RefuseCreate`) and its DML with the commit (`InsertRow`). A request is a record
that says where it is (`pc`) and what it carries; the row it read in
`require_playthrough` is `seen`, and may be stale from then on.

| Code | Actions |
|---|---|
| `create_playthrough` (`api/v1/cases.py`), `create_playthrough_if_published` | `ReceiveCreate`, `AdmitCreate`, `RefuseCreate`, `InsertRow` |
| `submit_accusation`, `insert_accusation_if_unaccused` | `ReceiveAccusation`, `CheckAccusation`, `SubmitAccusation` |
| reveal, `get_accusation_and_mark_revealed` | `ReceiveRead`, `CheckReveal`, `ExposeTruth` |
| savegame export | `ReceiveRead`, `CheckSavegame`, `ExportSavegame` |
| `publish_transactionally`, `delete_case_cascade`, a crash, the clock | `PublishVersion`, `DeleteCase`, `Crash`, `Tick` |

`InsertRow`, `SubmitAccusation` and `ExposeTruth` may also fail as a whole, on a locked
database. `verdicts`, `shown` and `truthShown` are history: what was ever committed or
left the server for an id, also after its row is gone. Ids are random tokens
and never drawn twice (`minted`).

### Investigation

`ask` holds what a thread does for the investigation, beside `req` of
`Playthroughs`; a thread does one or the other. A request ensures the knowledge
row, reads a snapshot without the lock, decides, and then performs a sequence of
marks. Each mark is a read of the row under the lock (`ReadRow`) and a write
(`WriteRow`) of the columns that gained something, with the value read before; a write
may find the database locked, which ends the request and leaves its earlier marks.
`DiscoverEvidence` marks the evidence with its first place and the other places
one by one, as the code does. The case is a constant: which object hides which
evidence, where evidence can be found, and which records ground an answer.
Deletion and pruning take the knowledge row along (`Cascade`). `matches` is the verdict
on the interaction that a request names: a decorative object without evidence takes any.

### GenerationController

One thread is in a controller at a time, so a run of the loop is a sequence of
steps that only the clock interleaves with: a turn of `_advance`, the return of a
provider call, the gate. Between two runs, `Deliver` brings deferred answers in
any order, late or never, and `PublishHeld` is the caller of a controller that
was told to hold. The draft is reduced to what the lifecycle looks at: whether
there is one, which stages are trusted, what the last report said, and (as
history) whether that report is about the draft as it is. The verdict of the
validation is free, except that a draft without a case truth never validates;
what a verdict rests on is `CaseProof`.
With a stage driver (`mode.driven`), `Drive` stands for one call of `run_into`,
which spends calls of its own; its steps are `StageDriver`.

An offered completion of the evidence validates the draft itself, before the stages are
done (`Offered`), so that a report may stand that is about no whole draft;
`PublishedIsChecked` covers it.

Two simplifications, both of paths that do not occur: `publish()` has a branch
for a payload that cannot be assembled, which a report of VALID rules out, and an
exception of the deterministic validation, which catches what it expects. At this
commit only the test double of the provider defers calls; the controller supports
it and the module models it.

### Admission

Each operation of `DurableAdmissionController` runs under its lock and is one
action. Around them are the steps of a request: it reads the row of its session
(`Lookup`), registers the session from that copy if the process does not know it
(`Ensure`), is admitted (`Admit`, which evicts first), releases, and writes the
counter back in two steps (`SyncRead`, `SyncWrite`). `Restart` loses the memory
and the requests. `granted` is history: admissions of a session since the process
started.

### CasePublication

One action for each transaction of a request: `Allocate`, `Persist` (which also
takes the verdict of Gate 3), `Publish`, `MarkVersion`, `MarkAttempt`. Each can
also fail as a whole: a constraint, a payload that does not serialize, or a
database that stays locked. A duplicate publication would be raised without a mark; there
is none, since a version has no payload before its one request publishes it. `abandoned` is history: versions whose request
crashed or could not mark them.

### StageDriver

`StartPass` is a call of `run_into` with its plan; then one stage after the other
runs, each of which reuses what was kept (`CaseReused`, `EvidenceReused`,
`LogReused`, `WorldReused`), accepts an answer or rejects it; `Compose` and
`Assemble` end the pass, `PassFails` ends it early. `Repair`, `Regenerate` and
`GiveUp` are the controller between two passes. Every output carries what it was
made from: evidence its case, a log the people and the truth it was validated
against, a world the weapon it was asked for. The
findings of the validation are free; their routing to owners (`PlanFor`) and the
defects that the driver itself defers are not. `CoreCeiling` is the derivation of
`MAX_CORE_CALLS` in `budgets.py`.

What the code does and the comments leave open, as modelled: a repair of the
candidates that the projection declines asks for new people but keeps logs that
were validated against the old ones (the docstring of `run_into`: "never reusing
an output whose inputs changed"), and `LogsFollowThePeople` says exactly that
exception. The path of a candidate repair that costs no call cannot be reached.
`repair_routing.py` says that only a fresh CASE_TRUTH regeneration can change the
truth; a regeneration asks for a case again, but the driver keeps the crime of the
first (`Adopted`, `TruthIsKept`). Composition issues are reported only by the pass
that composed. The restoration of the canonical rows of a log is part of
`LogAccepted`.

### WorldComposer

A pass takes the requests in order: `LeaveOut`, `FromCatalog`, `AskingDeclined`,
or `Ask` with its answers (`SpecAccepted`, `SpecRejected`, `AssetExhausted`,
`AskingFails`). `Draft` claims the render assets, drops decoration until the kit
can show the rest, and reports. Counters of the attempt outlive a pass, the limit
on asking does not. Where objects stand is free, and so is which plans the kit can
place.

`RequiredAccounted` says that a draft without a blocking issue shows every REQUIRED
object. Two things it must allow for, both in the code: of two REQUIRED requests
drawn with the same asset the second gets no object and no issue, and of a
decorative request that got an object and a REQUIRED one of the same name the second is
swallowed (`NameTaken`; the parser lets a name occur twice). If that decoration is then
dropped for the visible bound, nothing of the name is left; see the disagreements. The module keeps `record` by request, the code its
`resolution_record` by name, where a later request overwrites an earlier one; nothing
inside a composition reads it. An exception that the provider path does not expect
(`composer.py:838`) counts as degraded there, a spec that was accepted and then does not
compile as an error; both are left out: they would leave an object that was asked for
neither made nor counted as failed. Decoration
that a trusted asset could have shown is dropped when it is denied a call or has
used up its own, although comments call that "never a failure", and decoration
linked to evidence gives way to a REQUIRED object drawn with its asset. At the
exact end of the legal envelope the exhaustion of one asset is reported as global,
hence the `>=` of `AssetsHaveTheirShare`. The bound of the cache and its refusals
are left out.

### BridgeRelay

All handlers of links run on one event loop, so what lies between two awaits is
one step; workers and status requests have threads of their own. A worker looks
up its bridge (`Lookup`), takes the slot (`Begin`), hands the frame to the loop
(`HandOver`, `Send`), and waits until `Answered`, `Expire` or `Cancel`. A link
pairs or reconnects (`Pair`, `Reconnect`, `FinishBind`), is touched, delivers
results (`Result`) for any job it ever saw and any number of times, and leaves in
any state (`Leave`). The cleanup is three kinds of step: `Collect` under the lock, `Discard`
and `Revoke` after it. `begin_job` on a connection that is gone is reported as
BRIDGE_BUSY, so `Begin` has that outcome.

Not in the module: rate gates and the cap on pairings, which only end a link (the gate on
admissions detaches with the time of the handshake, `bridge_ws.py:228-233`, where `Leave`
takes the clock); a
restart of the server, which empties the registry and the workers together; and
two sweepers at a time. Described here instead: `_supersede_locked` runs on the
loop and may wait five seconds for a `close()` of that same loop; counting
pairings and inserting one are not one transaction, and a failed count is read as
zero; the row of a superseded session stays usable, so that the old bridge may
come back and supersede the new one; a crash between `consume_bridge_pairing` and
`create_bridge_session` leaves a used code without a session; a link with an
expired entry keeps its socket. `expiry_cleanup` removes entries after it released
the lock, and a handshake may carry a `now` that is minutes old; together they
leave a live link without an entry in the registry and with a revoked row, where
`bridge.py:17-22` promises "no zombie bridge". `ScopeIsServed` does not exclude
that: it says that the registry has at most one entry for a scope, and that no
teardown or cleanup closes the newest link before its session expires.

### CaseProof

Time is a range of ticks. `TimeIntervals` is `time_interval.py`: half-open intervals,
`Normalized` (merge from the earliest on), `Intersection` (the walk with two indices)
and `Difference` (cut after cut). `Solve` is the four solvers: when, who, why, weapon. `ReceiveEvidence`, `OfferCompletion`,
`ReceiveGraph`, `Validate`, `Repair` and `Regenerate` are the path of one attempt, and
`Install` is the canonical evidence of `evidence_algebra.py`. The properties compare
the algebra with sets of ticks: `PossibleTicks` and `Cleared` are the reference,
written without intervals. A repair may replace crime and travel rules, since only the
declared ids are protected; it is not offered a completion, which an attempt gets once
between regenerations. A truth may name any motive and any object, and a world may have
no place but the scene: no gate asks for more. `Normal` is `normalize_identity`, any
function of ids, so that names may collide. What the solvers may rely on is in the
assumptions: `Parsed` is what `parser.py` lets through (typed fields, no id twice),
`TruthAssumption` what resolves against the public case, and `TimelineAssumption` what the offsets of `evidence_timeline` satisfy (for the code's:
the window that the scene leaves, -100 to +80 seconds, holds the crime, and 180 seconds
of way keep a person seen elsewhere from -150 to -90 away during all of it). `Coherent` is the `validate_evidence` that every solver call starts
with: ids that collide in canonical evidence, a sighting at a place the world does not
have, and times out of the domain go to structural repair. Budgets are left to `GenerationController`. The other gates are
one flaw of the draft at a time.

Where the code and its documents part, as modelled:

- The WHO solver blocks a person seen at a place at t, give or take u, until
  t + u + T, T being the way to the scene. A person who left at t - u is there at
  t - u + T, which the docstring of `who_solver.py` says as well, and REQUIREMENTS
  31.6 keeps a suspect viable if any assignment permits participation. The canonical evidence
  uses rules of 180 to 230 seconds, where the difference decides nothing;
  `SolverIsExact` states the block as the code computes it.
- The docstring of `evidence_timeline` says that the comparison with the truth
  stays true; with a tolerance of the accusation below 100 seconds it does not.
- A completion is offered when a question is open, not when all have one answer
  but the time is too wide or wrong; that is repaired. A completion that is
  refused uses up the attempt's only one. It may also be installed where it
  cannot close the case: there are other targets and no place other than the scene; the
  true motive carries no MOTIVE_CANDIDATE, so that every candidate is contradicted; the
  weapon may not be suspected, or another that may normalises to the same name and is
  not compared. `CompletionCloses` says for each question that it is answered just when
  none of this is the case, and otherwise stays open, never with a wrong answer.
- Suspects, motives or objects whose ids normalise alike get evidence of one id, and the
  canonical set is refused as a structural defect; of witnesses alike the first speaks and
  the others stay silent, which is a defect of quality. In both cases the draft is
  repaired.
- VALID says that the murderer can have been there at some feasible tick, not at
  the tick of the crime.

## 3. Runs

Modules with a clock bound it by `MaxTime`, and every set is finite. Deadlock is not
checked where the ids, versions, links or the time of an instance run out, nor in
`CaseProof`, where a published or failed attempt stops; `StageDriver` and
`WorldComposer` stutter in their end states, and there it is checked.

| Run | Instance | Distinct states | Properties |
|---|---|---|---|
| `playthrough_caps` | 3 ids, 1 version, 2 threads, caps 1 active and 2 retained, tokens that live 1 of 3 instants | 200,585 | `WithinBothCaps`, `OnlyOldestCompletedPruned`, `ImplementsContract` |
| `playthrough_verdict` | 2 ids, 2 versions, 2 charges, of which the second version knows one; fairness | 706,894 | `VerdictsAgree`, `TruthAfterVerdict`, `RequestsEnd` |
| `investigation_all` | 1 playthrough, 2 threads, 2 evidence, 2 places, every operation | 1,608,111 | `TypeOKInvestigation`, `KnowledgeIsGrounded`, `AnswersStand`, `KeepsLifecycle` |
| `lifecycle_run` | 1 attempt, 7 calls, 2 repairs, 1 regeneration, with and without driver and holding; fairness | 110,214 | `TypeOK`, `PublishedIsChecked`, `NoLatePublication`, `RunsEnd` |
| `lifecycle_supersede` | 3 attempts of 2 sessions, 2 deferred answers, 1 record retained | 2,046,682 | `NothingLeaks`, `NothingStranded`, `ImplementsLifecycle` |
| `admission_all` | 3 requests of 2 sessions, 1 restart, a clock of 4 instants | 723,190 | `TypeOK`, `MemoryAccounted`, `QuotaIsKept`, `KnownUntilAdmitted` |
| `publication_all` | 3 requests, 4 versions of one case, deletion, crashes | 84,100 | `TypeOK`, `TablesAgree`, `UndecidedIsAttended`, `ImplementsCatalog` |
| `driver_passes` | 2 truths, 2 people, 2 logs, 2 weapons, 1 unfit case, 1 log retry, 2 repairs, 1 regeneration | 764,385 | `TypeOK`, `DraftPartsFit`, `NeverStarved`, `TruthIsKept` |
| `composer_passes` | 8 names, 2 + 2 assets, up to 4 requests, also two of one name, and 4 passes, 10 calls | 27,531 | `TypeOK`, `RequiredAccounted`, `GenerationIsBounded` |
| `bridge_relay` | 2 links, 2 calls, 3 sessions of 2 creators, 3 instants | 1,108,964 | `AnswerIsItsOwn`, `SlotsMatchCalls`, `ScopeIsServed` |
| `proof_all` | 7 crimes, 4 worlds of places, 280 answers of evidence, 16 ticks, names that collide | 107,705 | `TypeOK`, `SolverIsExact`, `CitedEvidenceSuffices`, `ValidMeansSolved`, `CompletionCloses` |
| `worker_stranded` | the instance of `bridge_relay` | counterexample of 12 steps | `DisconnectUnblocks` is violated |

What each asks:

- `playthrough_caps`: is a cap ever exceeded, is anything pruned but the oldest
  completed rows, and can a client tell that requests overlap?
- `playthrough_verdict`: has a playthrough one verdict, told the same to everybody,
  is no truth told before it, and is every request answered?
- `investigation_all`: can knowledge without ground, a lost mark or a second
  opening time be reached, and does the composition leave the lifecycle of
  playthroughs as it was?
- `lifecycle_run`, `lifecycle_supersede`: can anything be published that was not
  validated as it is, or too late; can reservations or routes leak, or an attempt
  wait for what never comes; is an end final?
- `admission_all`: do counters and windows say what happened, with evictions,
  restarts and old copies of rows?
- `publication_all`: do the tables say the same of a version, whatever fails
  between two transactions?
- `driver_passes`: is a draft ever assembled from outputs that do not belong
  together, after any sequence of repairs, regeneration and rejected answers?
- `composer_passes`: can decoration take the place of what a case needs, and are
  the budgets of generated objects what they claim to be over several passes?
- `bridge_relay`: does a call ever get the answer of another, a link stay busy for
  nobody, or a late teardown take the newest bridge away?
- `proof_all`: do the solvers agree with a definition by enumeration of ticks, do the
  cited facts suffice, is nothing valid that was not solved, and which questions does
  installed evidence close, when places are missing, a motive or weapon is no candidate,
  and names collide?
- `worker_stranded`: is what a comment says of the callers of the bridge what the code
  does? The answer is under "Disagreements found".

Several properties are conjunctions of parts with names of their own: `WithinBothCaps`
(`ActiveCap`, `RetainedCap`), `VerdictsAgree` (`VerdictMatchesState`, `OneVerdict`),
`AnswersStand` (`FoundIsKept`, `OneOpeningTime`), `NothingLeaks` (`ReservationsMatch`,
`RoutesAreLive`), `MemoryAccounted` (`SlotsAccounted`, `QueuedForEviction`),
`QuotaIsKept` (`QuotaHolds`, `RowNeverAhead`), `TablesAgree` (`PublishedTogether`,
`NoOrphans`), `DraftPartsFit` (`EvidenceFromItsCase`, `LogsFollowThePeople`,
`PublishedWorldIsWhole`), `GenerationIsBounded` (`FailuresAreCounted`,
`AssetsHaveTheirShare`), `ScopeIsServed` (`OneBridgePerScope`, `NewestLinkServes`).

Why the bounds are enough:

- Playthroughs. A cap is exceeded by a creation that slips between the count and
  the insert of another: two threads and one id more than the cap. With three
  ids and a retained cap of two, a creation prunes, and there is a choice of
  whom; a token of one instant expires while a request waits. Two rival charges,
  of which one is not a candidate of one of the versions, are all the verdicts
  that can differ.
- Investigation. A lost mark or a second opening time takes two threads on one
  row; playthroughs do not share knowledge rows, so one is enough. The evidence
  has two places, so its marks span several transactions, and the interview marks
  two records in a row, one of which the other thread can be opening.
- Controller. Seven calls are the four stages, a repair, and a regeneration that
  gets under way again; the budgets of one and two let each of them run out
  before the others. Attempts interact only with the one they supersede; the
  third attempt shows that nothing survives two takeovers and lets the pruning
  of records happen.
- Admission. The ceiling of the window is above the quota of one session, so
  that it is the quota that binds, and at most the sum of the quotas, so that the
  ceiling binds as well. One instant of grace and four on the clock are enough
  for a window to end and for its session to be evicted while another lives.
- Stage driver. A part that does not belong takes an output, one change of what it
  was made from, and one more pass that keeps it; two repairs and a regeneration
  give every order of those. Two values of each output are enough to differ, and
  one log item can be finished while the other is being asked for.
- Composition. Four requests with a limit on asking of two, one failure and two
  visible objects make every limit bind before the others, for REQUIRED objects and
  decoration; the names cover an exact match, a fuzzy one, a trusted fallback, none,
  and a refusal, and some answers name an object twice, as decoration and as essential.
  Four passes let a failure of one pass meet a success of a later one.
- Bridge. A crossing takes two calls, a superseding two links, and a confusion of
  creators two of them. The grace is zero and the sessions live two of three
  instants, so that they expire in use; one retained entry lets the cleanup choose.
- Proof. The ticks scale the canonical timeline so that its gaps keep their order,
  with one murder by a suspect, one by a witness, suicides, and crimes whose weapon or
  motive cannot be closed; a motive and an object normalise as another of theirs, an
  object to nothing (persons alike take three targets and are left to the theorem); roads
  are absent, short or long, and one world has the scene alone. The answers combine
  sightings, alibis and time constraints with motives or weapon facts, at the boundaries
  where an interval is empty by one tick.
- Publication. Requests of different cases touch no common row, so one case is
  enough; with four numbers, one is allocated while others are recorded, decided
  and lost.

Symmetry is used for threads, ids, links, calls, sessions of one creator, answers
and codes, which nothing orders, and in no run with a liveness property.

Fairness. `Playthroughs!FairSpec` assumes that a thread of the pool goes on with
the handler it started (`WF` of `Serve(w)`), and `GenerationController!FairSpec`
that the thread of a run does (`WF` of `RunStep`, which includes that the call of
a provider returns or times out, as the transport's timeout makes it). Nobody is
obliged to send a request, to answer a deferred call, to publish what is held, to
delete a case, or to crash. `RequestsEnd` needs weak fairness only: a lock is
never taken away again from a thread that could have it for ever, because the
clock, the ids and the verdicts of an instance are finite; it says that no handler
leaves the lock behind, and nothing about how fair SQLite or the lock is under an
unbounded stream of requests.

### Disagreements found

One run states what a comment of the repository says and ends in a counterexample.

- `worker_stranded`. `bridge_ws.py:25-26` says of the end of a handler that a waiting
  worker is unblocked. When a link is superseded, the registry fails its job first and
  marks it as gone after (`bridge.py:576-577`); a worker that looked the link up before
  and begins its job in between is accepted, nothing will resolve the waiter, and the
  worker waits until its timeout.

Others were met while modelling and are described here; the models do what the
code does.

- `services/investigation.py` says that once a playthrough is ACCUSED the gameplay
  is over. The state is compared once, on the copy read at authorization; a
  discovery that passed is committed after the accusation of another thread.
- The place of an inspection is marked by the request that discovers the evidence
  only (`investigation.py:277`): a second place of evidence that was found before
  stays unmarked.
- REQUIREMENTS.md 32.2 says that a recoverable failure does not fail an attempt
  while repair budget and time remain. A targeted repair that left the same codes
  fails it at once.
- A deferred call that outlives the deadline leaves its attempt open until somebody
  delivers an answer or supersedes it (`controller.py`, about line 1165). Only a
  test double defers calls at this commit.
- The number of sessions in memory is documented as bounded by `max_sessions`.
  Creating a session respects the bound, rehydrating one does not look at it.
- The quota row is documented to mirror the counter in memory. Of two requests that
  write back, the one that read first may write last, and the row stays behind;
  after a restart the session has quota it had used. (The reverse, a row ahead of
  the memory, does not happen: `RowNeverAhead`.)
- The header of `store.py` says that its semantics never depend on the lock of a
  Store instance. The active cap does: with two instances on one file two creations
  count before either inserts. The comment of `create_playthrough_if_published`
  limits the caps to one instance, which is how the backend is deployed, and the
  theorem about the caps has that as its assumption.
- `composer.py:1151-1154` says of REQUIRED requests whose asset or name is taken that the
  presence guard reports any that stays unrepresented. The guard
  (`ollama_driver.py:4049-4081`) asks for the weapon of the crime and what evidence refers
  to, and for nothing else. A decorative lamp, then a REQUIRED lamp: the second is skipped
  because the name is taken, the first is dropped for the visible bound, and the draft is
  accepted without a lamp and without an issue. This is the case that `RequiredAccounted`
  excepts by name (`NameTaken`), and `composer_passes` reaches it.
- `composer.py:1045-1047` says that required requests "are NEVER capped (they cannot
  lose a generation attempt to optional decoration)". The limit on asking is shared
  in the order of the requests, so a REQUIRED object behind decorations may never
  be asked for; the pass then reports it, and the attempt may end there.
- `composer.py:671` and `oracle.py:242` speak of a cache of compiled specs across
  requests. A new oracle is built for every request (`oracle.py:447`), so its index
  of hashes is empty and the cache is not hit.
- The retry of `Store.transaction()`, which `store.py:22-25` describes, never runs
  the body of a caller again: the loop is inside a generator of `contextmanager`,
  and a second `yield` raises `RuntimeError`. What a caller sees is a transaction that
  fails as a whole. `CasePublication`, `Playthroughs` and `Investigation` let those that
  write fail so; the writes of `Admission` and `BridgeRelay` that the code treats as best
  effort may be missing.
- `services/admission.py:16-17` speaks of rehydration at startup; the code
  rehydrates a session when a request names it, and that is what `Ensure` models.

The sections on `StageDriver`, `BridgeRelay`, `WorldComposer` and `CaseProof` above
have more.

## 4. Proofs

`Investigation_proofs` has two parts. The first is about `Playthroughs`, for any sets of
ids, versions, charges, threads and Stores, and any caps, under `ParameterTypes`, `FiniteIds`, `NoneIsNoRow` and `NoneIsNoSeat`:

- `TypeCorrect`.
- `VerdictInvariant`: the inductive invariant `VerdictInv`. The properties of
  verdicts are not inductive by themselves, because a request acts on an old copy
  of a row. `Copies` says in which way such a copy can be wrong: it may show a
  playthrough as not yet accused when it is, never the reverse, and its version is
  always right. `FreshIds` says that an id on its way to the insert has no past,
  and `Pins` that the version of an admitted creation is still published unless
  the case is gone.
- `TablesAgree`, `FirstVerdictStands`, `NoTruthBeforeVerdict`, `PinsArePublished`
  and `PinsStay` follow from it. None of them needs the Store's lock: the
  compare-and-set of each transaction is enough, with any number of processes.
- `CapsHold`: both caps, if all threads share one Store. The inductive invariant
  `CapInv` adds that a creation between its count and its insert holds the lock
  (`HoldsLock`), and that what it counted at its instant of admission still bounds
  what is there (`Room`): others can only accuse, reveal, delete or let time pass
  meanwhile, none of which takes a place. The assumption is needed, see the
  disagreement about `store.py`.
- `VerdictsStand` states all of `VerdictsAgree`.
- `OldestGoFirst`, with one Store: between the query that chooses the rows to prune
  and the insert nothing but the deletion of the case touches the table, so the
  choice is still right when it is carried out (`Chosen`, `ChoiceInvariant`).
- `ContractKept`, with one Store: the refinement of `PlaythroughContract`. The insert,
  the compare-and-set, the reveal and the export are the instants at which a request
  takes effect; every other step of a request shows nothing.

`CasePublication_proofs`, for any sets of cases and requests and any number of
versions, under `MaxVersionIsPositive` and `NoneIsNothing`:

- `TypeCorrect`, and `VersionInvariant`: the inductive invariant `VersionInv`. A
  request writes rows without reading them first, so consistency rests on what it
  knows of them: before recording there is no row (`PendingInv`), afterwards they
  say what the request left there, or the case is gone (`MarkInv`), and nobody
  else works on the version (`UniqueInv`). Allocation makes numbers unique; a
  first version is safe because only its own request knows the new case.
- `PublicationIsAtomic`, `VersionsUnique`.
- `DecisionsAreFinal`: an action property. A version row changes in one of four
  ways (lemma `VersionChanges`), and only two of them touch a decided one, both
  with its case.
- `CatalogImplemented`: the tables implement `CaseCatalog`. Each action maps to
  recording, deciding or deleting, or leaves what a reader is told unchanged.

- `UndecidedAreAttended`: inductive together with `VersionInv`. A step touches the
  rows of its own request only, and stays with them, abandons them, or leaves them
  decided.

`Admission_proofs`, for any sets of sessions and requests and any ceilings, under
`AdmissionParameters`, `FiniteRequests` and `NoneIsNoState`: `TypeCorrect`,
`MemoryAddsUp`, `QuotaStands` and `NeverForgotten`, all from `AdmissionInv`. The
copies of rows that requests carry are old, but they all agree on when the window
of a session ends (`SessionInv`, `RequestInv`, `SaveInv`); what eviction removes is
a session that has been over for the retention time (`KeptSound`), so it cannot be
one that a request may still register with quota it has used.

`BridgeRelay_proofs`, for any sets of links, sessions, calls and creators and any
times, under `RelayParameters` and `NoneIsNoBinding`:

- `AnswersAreNotCrossed` and `SlotsAreTrue`, from `CallInv`: a job in a slot and the
  worker that waits for it know each other, at every step between lookup and
  answer.
- `NewestBridgeServes`, from `LinkInv`: an entry of the registry belongs to a link
  of its session (`RegistryFacts`), a bind in progress may replace only what it saw
  (`BindingFacts`, `MayReplace`), and epochs count the links bound before
  (`LinkFacts`). That the newest link serves is inductive together with these.

`StageDriver_proofs`, for any sets of outputs and any numbers of retries, repairs and
regenerations, under `DriverParameters`, `DriverNone` and `NoneIsNoOutput`:

- `PartsFit`, from `PartsInv`. The evidence that a plan keeps belongs to the case it
  keeps (`CaseInv`, `EvidenceInv`); a log that is kept is one that could be reused
  (`LogsInv`); a world with a defect is made again or reported (`WorldInv`), and so
  nothing is valid that has one (`ValidInv`).
- `TruthStands`: an action property, from the same invariant.
- `CeilingSuffices`: `CallsInv` counts the calls stage by stage, what the finished
  passes spent and what this one still owes, and shows that the derived ceiling is
  never in the way.

`GenerationController_proofs`, for any sets of attempts, sessions and answers and
any budgets, under `ControllerParameters`, `ControllerNone` and `NoneIsNoRecord`:

- `ControllerInvariant`. Only the current attempt can be live (`OneIsLive`), its
  record fits the place of the run (`Posture`), a session has its reservation
  exactly while the current attempt is live and its own (`SlotsFollow`), and every
  route leads to a live attempt (`RoutesAreLive`). A step has one of few shapes: it
  turns, calls, defers, certifies or ends. Each part of the invariant survives each
  shape, and each action is shown to have one.
- `TypeCorrect`, `PublishedWasChecked`, `EndsLeakNothing`, `NobodyStranded`, and
  `GateIsInTime`, an action property.
- `LifecycleImplemented`: the controller implements `AttemptLifecycle`. A shape is a
  move of the transition table or leaves life and reservations as they are;
  beginning an attempt is a start, with the end of the one it supersedes.

The second part of `Investigation_proofs`, for any sets of ids, evidence, places, objects
and questions, under `ParameterTypes`, `PayloadTypes`, `NoneIsNoRow` and `NoneIsNotKnown`, and with
one Store for all but the types:

- `InvestigationTypes`.
- `InquiryInvariant`. A request acts on what it read several transactions ago.
  `Holding` says that the lock covers each mark from its read to its write, so that
  the row a mark starts from is still the one it updates. `Sound` says that the
  marks a request still has to make, with what is known already, cover all that it
  will answer and ground every opening (`Covers`); that survives the steps of others
  because knowledge only grows while its playthrough lasts (`Grows`). `Stands`
  relates what was told to what is known.
- `KnowledgeGrounded` and `AnswersHold` follow.
- `LifecycleKept`: hiding the inquiries, and the lock except during an insert, the
  composition implements `Playthroughs`. It rests on `Owned`, whoever holds the lock
  of a Store works in that Store, and on a thread having one request at a time.

`WorldComposer_proofs`, for any sets of names, assets and answers and any budgets,
under `ComposerParameters`, `ComposerNone` and `AnswersAreRequests`. The last says that what
the parser and the injection of the weapon make of an answer is a list of requests: it
is a selection from a list, which cannot be proved here without an induction. Names may
occur twice.

- `GenerationStaysBounded`, from `BudgetInv`. `Spending` counts the calls for objects
  as pairs of an object and the number of the call (`CallsFor`); no object has more
  than its own, and only counted objects have any, so all of them fit into the share
  of the objects (`ShareOfObjects`), and a global ceiling that is reached has been
  reached by the stages. `Accounting` says that what a pass asked for lies behind the
  current request, and was made, has failed, or has raised a flag that the driver
  reads before the draft. Requests are told apart by their place in the list, so that two
  of one name do not get into each other's way.

- `EssentialObjectsStand`, from `PlanInv`. While nothing blocks the pass, every essential
  request behind the current one stands: as an object of the kit, in a plan of its own,
  or in an essential plan with its asset (`EssentialStand`), unless a decoration of its name
  that got an object came before it (`NameTaken`). The visible bound and the
  room of the kit only take decoration away: a placement keeps the essential plans
  (`DroppingDecoration`, `Placing`), or the pass is blocked.
- `TypeCorrect`.

`CaseProof_proofs`, for any persons, motives, objects and places, any evidence that
parses, any domain of ticks, travel rules and offsets, under `CaseAssumption`,
`EvidenceAssumption`, `TruthAssumption` and `TimelineAssumption`:

- The interval algebra is exact (`NormalizedIsExact`, `IntersectionIsExact`,
  `DifferenceIsExact`): the result holds just the ticks it should, as sorted intervals
  of which none is empty and none touches the next. A walk has seen all pairs of which
  it has passed one interval (`Seen`); a cut leaves to the left what is done, and to
  the right what is still to be cut (`CutUpTo`). The library defines a fold as a
  `CHOOSE` of a function over all subsets, so each proof first shows that there is such
  a function (`FoldExists`, `IterationExists`). Induction is by a least counterexample
  (`LeastOf`, `EveryNumber`, `EverySubset`), since the induction theorems of the
  library cannot be instantiated here.
- `SolverExact`: from these, `FeasibleIsExact` and `ExcludedIsExact`, in whatever order
  statements are taken.
- `CitedEnough`: when all the facts that say a thing are cited, the cited facts say it
  as all do (`KeptSays`); each solver reads the evidence only through such questions,
  so asking them of the cited facts gives the same answers. That ids occur once keeps
  hidden facts out (`CitedIsDiscoverable`).
- `PublishedIsSolved`: what a verdict without objection means (`VerdictMeans`), carried
  to the published state by `ProofInv`: a proof is the one of the evidence and the
  travel rules stored with it. It is not inductive without `Stored`, which keeps
  evidence parsed through repair, completion and regeneration.
- `CompletionClosesAll`: canonical evidence is typed (`CanonicalTyped`) and says of a motive,
  an object or a person just what its facts of that kind say (`CanonicalByType`,
  `MatchesDiffer`); the time it leaves is one run that holds the crime (`CanonicalTime`), it
  clears every target but the murderer, or none when there is no place to see them at
  (`CanonicalClears`), and the travel rule it writes does not change which place is distant
  (`RoadsFixed`), so that it is a fixed point. A question is answered when one candidate
  is left (`OneIsLeft`), and open when the one left is not supported, two are left or none
  (`NotSupported`, `TwoAreLeft`, `NoneIsLeft`). `Normal` is any operator: that its names do
  not collide is a condition of the answers, through `Coherent`, and no assumption.
- `TypeCorrect`.

Every invariant and every action property that a passing run checks is proved. Checked by
TLC and not proved: the liveness properties (`RequestsEnd`, `RunsEnd`) and whatever else
needs fairness or ENABLED, which are out of this prover's reach.

## 5. Not modelled

- The retry protocol inside `Store.transaction()`, migrations, and the triggers
  that make published rows immutable.
- Capability probes and rate limits: small, each operation under one lock.
- Prompts, parsers and schemas: text in, typed drafts out. The gates on quality
  other than the proof, the geometry of a world, the compilation of meshes and the
  projections are functions of their input.
- Which report codes lead to which repair plan: `StageDriver` takes any set of
  owners that a report can have.
- What keeps VALIDATING rows after a crash: nothing in the code sweeps them, and
  `UndecidedIsAttended` names a crash as one way to get one.
- Several backend processes on one file. `Stores` is a parameter, the theorems
  about verdicts and pins hold for any number, the passing runs use one, as the
  deployment does; the caps need one.
- The frontend: requests come in any order and number in every module. Wiring,
  settings, logging, benchmarks, release checks and recorded evidence of earlier
  test campaigns have no state that the system depends on. They are most of the
  lines of the repository.

## 6. Plan

Done, in this order: playthroughs with their contract and the investigation; the
controller and its lifecycle; admission and publication; the stage driver; world
composition; the bridge relay; the proof of a case. The proofs cover all of these.

Left, the most important first:

1. `StageDriver` as a refinement of `Drive` of `GenerationController`, and
   `WorldComposer` of `Compose` of `StageDriver`: the calls of a pass are within what
   the step of the controller takes.
2. The transactions of the Store: the protocol between the generator, the body and
   the retry, against what the comment promises.
3. Capability probes with their single flight, and rate limits.
