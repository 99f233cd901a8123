# Verification of okie

okie turns source repositories into architecture atlases. This directory holds TLA+ models of the
parts of it that keep state and run concurrently, the TLC configurations that check them, and TLAPS
proofs about them. Paths are relative to the repository root; `server/` is `apps/server/src/`,
`edge/` is `apps/edge/src/`, `web/` is `apps/web/src/`, `engine/` is `crates/atlas-engine/src/`.

    tlc -workers 2 -config MCPublication.cfg MCPublication   # one run
    tlapm OperatorRunsProofs.tla                             # one proof module

## 1. Inventory

| Part | State | Operations | Talks to | What is hard |
|---|---|---|---|---|
| Store lock, `server/operatorStore.ts` 68-90 | a lock file with a pid, a depth and a retry counter per call | `OwnerLock.with` | every store operation, in the server and in command-line tools | eviction of a dead owner races other callers; crashes |
| Operator store, `server/operatorStore.ts` | `state.json`: runs, drafts, attempts, explanations, publications, events | synchronous read-modify-write under the lock | all of the following | restart in the middle of anything; lock-free readers |
| Publication, `server/operatorPublication.ts` | a pointer file per repository and the publication rows | `publishDraft`, `currentPublication`, `currentForSlug`, `createDraftRevision` | store; read by the read-only server and the publishing tool | two durable writes per publication; readers without the lock; pointers of two namings |
| Operator API and queue, `server/operatorApi.ts`, `main.ts` | the run states in the store | create, cancel, retry, refresh, claim checks, publish, incremental | runner | requests in any order while passes are alive |
| Runner, `server/operatorRunner.ts`, `operatorIncremental.ts`, `claimChecks.ts` | local to a pass: the draft it derives from, its stage | `enqueue` for five kinds of job | scan worker, enrichment, publication, store | long awaits; cancellation; compare-and-swap of drafts; nested passes |
| Judgments, section profiles, `server/operatorJudgments.ts`, `sectionProfiles.ts` | as a claim check | `judge`, `profile` | store, ledgers | the same comparison; no route or command calls them |
| Enrichment pool, `server/operatorEnrichment.ts` 600-743 | which scopes wait, run, have ended; request counter; halting | `runOperatorEnrichment` | ledgers, provider, store | scopes interleave at every await; limits; partial failure |
| Impact and changelog, `server/incrementalImpact.ts`, `operatorIncremental.ts` | the sidecar and the changelog of a draft | seed and carried pass, carry, drop, gate | pool, publication | what several runs in a row leave behind |
| Incremental triggers, `server/operatorIncrementalTriggers.ts` | pending pushes, timers, deliveries seen | webhook, cron | runner | late, lost and repeated deliveries; overlapping starts |
| Budget ledgers, `server/operatorBudget.ts` | events in the store | reserve, settle, release | pool, judgments, claim checks | two ledgers per request; crash in between |
| Rate limiter, `server/llmRateLimiter.ts` | in-flight count, pause, waiters | `run`, `configure` | provider | wake-ups against pauses |
| Scan jobs, `server/jobs.ts`, `scanService.ts` | queue, running job; atlas and sidecar on disk | submit, pump, run | scan server | partial failure of the enrichment; crash between two writes |
| Scan worker, `server/scanWorker.ts` | slots, child processes, scratch directories | runLimitedWorker, runInWorker | runner | slot passing, abort, time limit and exit in any order |
| Ask worker, `server/askWorker.ts` | tickets, warm, failed and building keys, job queue | admit, run, release, deadline, exit | Ask routes, worker thread | a mirror of another thread's cache; admission against crash and deadline |
| Publish tools, `server/publishAtlas.ts` | the published store: manifests, `latest.json`, `index.json` | publish, `--set-latest`, three backfills | read-only servers, edge | no locks, no conditional writes; commands overlap and stop |
| Published mirror, `server/publishedMirror.ts` | installed versions, their artifacts, fetches in flight | refresh pass, fetch on demand | published store, read-only routes | shared fetches; late replies; shared artifacts |
| Edge budget, `edge/budget.ts`, `guards.ts`, `api.ts` | a durable object: counts, dollars, reservations per day | admit, settle | isolates, container | lost answers, dying isolates, midnight |
| Edge worker, the rest of `edge/` | caches | routes | container | |
| Viewer history, `web/navigation/` | history entries, a deferred URL, restores | commit, traverse, refuse | browser | refused and deferred writes, overtaken restores |
| Semantic lens, `web/semantic/`, `App.tsx` | a path of settled owners, one in transition, a transfer | gestures, pan, drill, cancel, reload | camera, scene, address | a long mixture of gestures |
| Protocol engine, `engine/protocol_runtime.rs` | a scene, an animated patch, filter, override, timeline, camera | patch, tick, the facade's setters | viewer | patches interrupt animations; resolved indices outlive scenes |
| Level of detail, the same file | activity and handoff per object | zoom, patch, frame | engine | a handoff outlives patches |
| Scanner, architecture, scene compiler in `packages/`; drawing in `crates/` and `web/` | none that outlives a call | pure transformations | | |

What makes them correct, in the order of the plan:

* lock: two processes are never inside the store at once; a dead owner does not block it;
* publication: the published history is one chain, a half-done publication can be retried and never
  makes a second version, readers see a version that was current while they read;
* runs: nobody works on a run that is offered for review, no installed draft is lost, a cancellation
  stays, an active run always has somebody working on it and becomes inactive again;
* pool: no more requests than allowed, children before parents, nothing left running at the end, what
  is out of date is marked so;
* incremental runs: what is not marked stale is current, what was given up stays given up, no push is
  forgotten;
* ledgers and edge budget: caps hold whatever interleaves and crashes, what was consumed stays counted,
  no slot is lost, and a refused request costs nothing;
* workers and queues: limits hold, no slot or wake-up is lost or given twice, everything asked for ends;
* published store and mirror: readers find whole versions, no row is lost, nothing goes back;
* viewer: the address, the lens, the scene and the camera show what was asked for, whatever overtakes
  what.

`PROJECT.json` lists the hazards with the line at which each one bites.

## 2. Modules

| Module | What it is |
|---|---|
| `OwnerLock` | the lock file protocol, one action per file-system call |
| `PublicationRegister` | abstract: what readers of one repository are promised |
| `OperatorPublication` | publication in its two durable writes, and the lock-free readers; implements `PublicationRegister` |
| `OperatorRuns` | runs, drafts and versions of a repository, the API, the passes, restarts |
| `EnrichmentPool` | one enrichment pass over a forest of scopes |
| `OperatorBudget` | the budget ledgers and the admission chains that reserve in them |
| `IncrementalImpact` | operators: what a commit makes dirty and stale |
| `IncrementalChain` | incremental runs one after another; extends `IncrementalImpact` |
| `IncrementalTriggers` | pushes, cron, the debounce and the starts of runs |
| `LlmRateLimiter` | one provider's admission gate |
| `ScanJobs`, `ScanWorkers` | the queue of scan jobs; the scans in child processes |
| `AskWorker` | the request thread and the retrieval worker, with the messages between them |
| `PublishedLayout` | slugs and versions, and what the two below share |
| `PublishedObjects` | abstract: what the published store promises to readers |
| `PublishedStore` | the publish tools; implements `PublishedObjects` |
| `PublishedMirror` | the mirror that reads a store moved by `PublishedObjects` |
| `EdgeBudget` | the daily budget of the paid routes and the requests that use it |
| `ViewerHistory` | the address bar and the browser's history |
| `SemanticLens` | the path of owners that zooming opens |
| `ProtocolEngine`, `LodHandoff` | the renderer's engine; the level of detail of one object |
| `Renderer` | the two side by side, as the engine runs them |
| `MC*` | instances of these for TLC |
| `*Proofs` | theorems about the modules they extend |

The modules meet at their boundaries. `OperatorPublication` takes the lock as ideal; `OwnerLock` shows
when it is. `OperatorRuns` takes a publication as one step, which `PublicationRegister` justifies, and
an enrichment pass as one await with any result; `EnrichmentPool` is that await. `EnrichmentPool` takes an
admission as granted, refused or thrown; `OperatorBudget` says when it is which. `IncrementalChain` takes a
pass as one step with the outcomes of the pool, `IncrementalTriggers` a run as far as its commit goes.
`PublishedMirror` extends `PublishedObjects`, so the store may move under it in any way that
`PublishedStore` is shown to move it.

An MC module may hold several components that share no state: a variable `focus` picks one of them in the
initial state and never changes, the others stay in their initial states. The behaviours checked are
exactly those of each component; one state space per component, next to one another. Its modules extend
every component they hold, so that a property has the same name in the run and in the theorem about it; where several meet,
each names its variables and its `Init`, `Next` and `Spec` after itself (`LimiterInit`, `JobsInit`, `EdgeInit`, `LensInit`,
`ChainInit`). Fairness is stated
with one conjunct per slot, each a disjunction over the components of "`focus` is mine and my action": as
`focus` is constant, that is the fairness of the one component in focus.

### OwnerLock

`pc[p]` is where process `p` is in `OwnerLock.with`: about to create the file (line 76), to write its
pid (77), at work (79), to read the pid of the file it found (83), to remove it (84). `file` is the
creator of the file at the path, `written` whether its pid has been written. `retry` is the loop
counter: one eviction per call is followed by another attempt. A pid is a process: reuse of the pid of
a dead process by a new one is left out (the new one would be taken for the owner). Within a process
the store is synchronous, so one `pc` is enough; the nested calls that `depth` counts run inside.
`usurped` is an observer: some removal hit the file of another, live process.

### OperatorPublication

`rows` are the publication rows of `state.json` and a version is the position of its row; `digest`
is the pointer file of the current naming and `legacy[s]` the pointer file of spelling `s` in the old
naming. `Current` is what the private `pointer` method returns. `Publish` is the locked part up to and
including the saved row and the frozen draft (`freezeForPublication`), `Install` the rename of the
pointer, `Abandon` a crash or an exception in between. `ReadDigest`, `ReadLegacy`, `Resolve` are the
three reads of `currentPublication` without the lock, `ReadState` and `ResolveSlug` the two of
`currentForSlug`. The legacy scan of `pointer`, one pointer file per row, is one read: nothing writes
those files any more. `Init` allows every legacy state the old code could leave, rows without pointer
included. `window` and `retired` are observers.

Left out: validation and coverage checks that refuse a publication before anything is written.

### OperatorRuns

A run's `state` and `draft` are those of the store; `baseline`, `version` and `auto` are its
`incremental` record. `pass[j]` is one call of `OperatorRunner.enqueue`: its kind, its run, the draft
it derives from (`base`) and the await it is at (`stage`). Between two awaits the code is synchronous,
so it is one action here. `start` lies between `operatorEnqueue`, which marks the run queued, and
the runner, which runs in a microtask; a request may be handled in between. `PassFails` is any
exception. `RetryOutcomes` collects the ends of a retry: the enrichment threw (released),
cancelled (nothing), nothing changed (released), superseded (nothing), installed. An incremental pass
runs its nested retries inside (`NextRetry`). A refresh is a retry of the stale scopes. `Restart` is
the end of the process and the opening of the store by the next one. Publications are atomic.

`stopped` (cancelled while a pass was alive) and `revoked` (the pass was alive when its run was
cancelled) are observers.

Left out: which scopes are enriched; idempotent re-creation of a run (it changes nothing); an exception
between the installation of a draft and the end of the same step (the store lock being held by another
process); a second server process; judgments and section profiles (no route calls them).

### EnrichmentPool

`stage[s]` is the await scope `s` is at, in the order of `execute`: the cancellation check, the reading
of its children, admission, the attempt row, the call, the pause before a retry, its admission, its
call, the second cancellation check; then its outcome. `pending` are scopes whose promise has been
settled and whose continuation in the pool (`Resume`) has not run. `waitingOn`, `halted`, `stopped`,
`requests`, `dirty`, `changedBelow`, `accepted` are the variables of the same names, `failed` is
`failure`, `ticket` the reservations that are not settled. `mode` says how the runner calls the pass:
`full` for kind "run", `single` for a retry of one scope, `batch` for retries that reduce ancestors
again. A provider may answer in any way, the ledgers may grant, refuse or throw, token and dollar
limits may be reached at any check after the first grant, and attempt rows may fail to be written.

`behind[s]` and `missed[s]` are observers: the scopes below `s` that were accepted after `s` was last
explained, and after its children were last read.

Left out: what an explanation says; the refusal of malformed scope lists; a pass without a gateway;
exceptions of `ticket.settle` and of the update of a row that is *not* failing (so a put whose update
fails is listed as a hazard without a property).

### OperatorBudget

`rows[id]` is what the `budget.*` events of one request id amount to (`read`, lines 47-63): reserved,
settled with a usage, or released and so unused again; `attempt` is the state of the attempt it names.
Enrichment rows name none. A ledger is not state of its own: `Seen` is its view of the rows, by scope and
kind, as `events` filters them. `Admits` has the five conditions of `reserve` one by one. Input and output
tokens are one number; that one of the two is missing is `complete = FALSE`, and then the known part is
charged on top of the reservation, as `read` does.

`call[c]` is one admission: `ledgerAdmission` of the runner, or `evaluateJudgmentBatch` for judgments and
claim checks. Each ledger call holds the store lock, so it is one action; whatever lies between two of them
may be interleaved with every other caller, also where one process would run on without a pause (a
second process may be at work in the store). Any store call may throw (`Throw`: the lock is busy,
the write fails) with nothing written. `NotSent` is a request that is given up between admission and
sending. `Settlements` is what a reply lets the caller settle: for enrichment through `persistedUsage`, with the
estimate for a dropped reply; for judgments through `ledgerUsage`. `Finish` is the caller of an answered
judgment, who closes its attempt; a claim-check pass closes all of its attempts at its end, which no
ledger can tell, as their rows are settled by then. `Restart` is `recoverInterrupted`.

`bills` is an observer: what the provider really consumed, which is no more tokens than the request
reserved. Judgments cost at most what they reserve
(`BudgetAssumption`; the code has a fixed price per request); enrichment has no such bound.

Left out: the planner's in-memory ledgers (`blockPlans.ts`, `publicReadonly.ts`), cached answers (they
reserve nothing), the wall clock of time limits.

### IncrementalImpact and IncrementalChain

An architecture is its entities, who contains whom, what is exported and who depends on whom; a commit is
the next architecture and, for each entity that stays, whether its text changed, in its signature,
elsewhere or only in its lines. `IncrementalImpact` is `computeIncrementalImpact` with its reasons.

The walks up and down the containment tree are closures, the smallest sets with what is walked from and the
next step of each member, so they can be reasoned about without induction.

In `IncrementalChain`, `explained`, `staleScopes`, `staleReason` and `scopeState` are the sidecar of the newest draft, and
`carriedOrDirty`, `dropped`, `attempted`, `failedBefore` its changelog. `StartRun` is an incremental run up to
its draft; `SeedsPass` and `CarriedPass` follow, each as one step with the outcomes that the pool allows
(a scope is accepted, fails, is not run). `OperatorRetry` is a retry or a refresh, `Publish` ends the chain. `outdated` is an observer: explanations whose input has
changed since they were written.

Left out: runs that fail or are cancelled (they are no baseline), texts and counts of the changelog.

### IncrementalTriggers

A commit is its position on the default branch; a delivery names one, arrives late, twice, out of order or
never. `seen` is the list of remembered deliveries; `waitingPush`, `timer` and `pushes` are the debounce (the pending
push, its timer, the generations given so far), `fires` the starts under way, with the generation each was made for;
`activeRun` is the active run with the ref it was started for. `wanted` and `excused` are observers: the newest commit pushed, and that a start or run failed, was cut
off, or was made for an older commit by name, so nothing is promised for the pushes before it.

### LlmRateLimiter

`phase[c]` is where a call of `run` is: in the loop of `acquire` (`awake`), asleep for a pause, in the
queue of waiters, admitted, at work. `Acquire` is one pass of the loop, `Leave` is `release`, which wakes
the first waiter to look again. A tick is a unit of time; `pause` and `timer` are what is left of them.
`debt` is an observer: what is left of a caller's own back-off.

### ScanJobs and ScanWorkers

`jobs` are the rows of one process, `pumps` the microtasks of `pump` that have not run. A job publishes the
plain atlas, then asks for the enriched one and puts it over the first, with the sidecar that says what
became of it; every write may fail and the process may die before it (`torn` is a directory half written).

A scan of `ScanWorkers` queues for a slot, is promised one (`granted`), starts its child, and settles on the
first of reply, time limit, abort, spawn or send error and exit. The child lives on until it is killed and
its exit is seen, and its scratch directory as long.

### AskWorker

The request thread's `ticket`, `askJobs`, `blamable`, `warm` and `failed` mirror what it knows of the worker;
`inbox` and `outbox` are the message queues between the two threads; `cache`, `broken`, `at`, `failures` and
`inBuild` are the worker's own. `Fail` is a deadline or a crash: the worker and its messages are
gone, the build in progress as far as the messages tell is blamed, and all that wait on the worker are answered so.

### PublishedObjects, PublishedStore, PublishedMirror

The store holds, per slug and version, the manifest that completes it (`complete`), per slug `latest.json`,
and `index.json`. `PublishedObjects` allows only puts that name complete versions. In `PublishedStore` each
command is a sequence of calls: `tool[t]` is the next of them, with what it has read; it may stop at any.
`puts` and `alone` are observers.

A fetch of the mirror has the part of the store it read when it was made; its reply arrives at any later
time or never. `passes` are refresh passes, which may overlap, `asking` requests that wait for a fetch.
Fetches of the same key are shared. `versions` is the map of installed versions and `older` the order of its
keys, as pairs. `adopted` and `moves` are observers: how new what is served is.

Left out: a mirror that restarts. The forced pass (`sync()`, which the server makes once, at its start) is not an
action of its own: it ignores the remembered index, and at the start none is remembered.

### EdgeBudget

A request fixes its day, is admitted by the guards, asks the budget, calls the backend, settles. Its isolate
may die anywhere, the answer of the budget or of the backend may be lost, and midnight may pass in
between. `counts`, `users`, `spent` and `reserved` are the tables of the durable object; an admission deletes
the rows of days past the kept ones. `cost` is an observer.

### ViewerHistory

`urlEntries` and `urlPos` are the browser's; `urlState` is the view in memory, `urlPending` the view whose URL a timer
is to write, `urlRestores` the traversals that have decoded a view and not yet shown it. The browser may
refuse a write.

### SemanticLens

`opened` and `owner` are the session: a path of owners that are open and at most one that opens or
closes with the zoom; `transfer` is the path a pan or a drill beside it came from, while it fades. `Sample`
is `reduceSemanticLensSession` for one sample of a gesture: a direction, the zoom it leads to, the owner
under the pointer, whether the lens was armed for its dwell time, whether the gesture has gone quiet. `Pan`
is the focus a drag rests on, `Open` a drill, `Reload` a page load from the address. Zooms are small
integers, and a blend is a share of `Whole`.

Left out: where things are on the screen (any eligible owner may be under the pointer), time, and fallback
runways of scenes without authored ones.

### ProtocolEngine and LodHandoff

A scene is a function from identities to places. `ApplyPatch` is at once or animated; `EngineTick`
advances the transition and the timeline; how far an animation is at each time, in hundredths, is a function of `Easings`,
as each patch brings its own. `filter`, `override`, `selected` and `timeline` are what callers set, `visible` and the
indices in them what they were resolved to. `canonical`, `torn`, `stale` and `held` are observers: the scene the accepted patches
describe, and the excuses the properties name.

`LodHandoff` is one object with its list of representations: `active` has its hysteresis, `handoff` the two
indices and the time passed of the change under way, `shown` the weights of the last frame. A handoff is drawn with the
cubic easing of the code (`Eased`), which is exact in shares of the cube of its duration (`Opaque`): a linear one would
allow a bound on what a frame takes away (half and the time passed) that the code does not keep. `since`, `settled` and
`flipped` are observers.

Left out: geometry, paths, text, meshes, the GPU.

## 3. Runs

| Run | Components | Shows | Bounds |
|---|---|---|---|
| `MCServerProgress.cfg` | `OwnerLock`, `LlmRateLimiter`, `ScanWorkers`, `ScanJobs`, `AskWorker` | two live processes are inside the store only after a usurpation, which takes a crash, and a dead owner's lock is removed; the limiter's and the workers' places are neither lost nor given twice; one job per repository and ref, with an honest sidecar; the Ask mirror is exact and its caps hold; calls, scans, jobs and tickets end | lock: 3 processes, 2 crashes (a dead owner, an evictor that may die too, one that gets in between); limiter: 3 callers, limits of one and two, one retry; workers: 3 scans, 1 slot; jobs: 3 of one slug and two refs, 1 fault; Ask: 2 tickets, 3 keys, 1 cold build and 1 index, so that a build evicts |
| `MCOperatorRunsSafety.cfg` | `OperatorRuns` | active runs have a pass, one pass per run unless cancelled under it, cancelled runs keep their draft, no draft is lost, automatic publication replaces its baseline and descends from it | 2 runs with 2 passes alive and 3 drafts asked for (a pass, one that overtakes it and one nested retry), or 3 runs with one pass alive (a chain of two and a publication in its middle); 2 versions by hand |
| `MCPublication.cfg` | `OperatorPublication`, `PublishedStore`, `PublishedMirror`, `EdgeBudget` | one row per draft, interrupted publications stay retryable or are overtaken, linear history, no blind replacement, current reads, the register is implemented; the store's rows are kept and its objects whole; the mirror's disk matches, its caps hold, it never goes back; the edge spends no more than its day allows | publication: 3 drafts, 2 clients, 2 spellings, 2 clock readings, 2 legacy rows; store: 1 slug, 2 versions, 2 commands at a time, 3 in all; mirror: 1 slug, 2 versions with one artifact, 1 pass, 2 moves, 1 request; edge: 3 requests, 2 accounts, 3 days of which 1 is kept |
| `MCOperatorBudget.cfg` | `OperatorBudget` | limits on requests, tokens, dollars and concurrency; dollars pass the limit by at most one request per caller; no slot is lost; what judgments and claim checks consumed stays counted; undisturbed admissions close both ledgers | 1 run, 2 callers, 4 ids, enrichment with judgments, or enrichment with claim checks through the global ledger; 1 throw, 1 crash |
| `MCPassProgress.cfg` | `OperatorRuns`, `EnrichmentPool`, `IncrementalTriggers`, `ViewerHistory` | an active run settles, a pass ends, a push is neither forgotten nor drafted backwards and is drafted in the end, the address bar never shows or overwrites what it should not and catches up | runs: 2 runs, 2 passes; pool: a root with two leaves, one at a time; triggers: 3 commits, 3 deliveries, 1 remembered, 1 fault; history: 2 places, 2 cameras, 3 entries, 3 commits, 2 refusals |
| `MCEnrichment.cfg` | `EnrichmentPool`, `IncrementalChain` | children first, the request cap, nothing left running, "complete" means all, honest staleness; over a chain, what is not stale is current, a draft that may publish itself is complete, what was given up is left alone | pool: 4 scopes in 3 levels, one below the cap, 2 at a time, 3 requests; chain: a system, two containers and a file, 4 runs, or 2 and a retry |
| `MCViewer.cfg` | `SemanticLens`, `ProtocolEngine`, `LodHandoff` | the path of the lens is one that exists, the blend is that of the zoom, a reload shows the same, what can be picked opens; patches compose, indices still mean their objects, nothing jumps, the camera has one owner; no pop, no flicker, rest on one representation | lens: two systems, two containers, two components and one code entity, 20 zooms, steps of 5; engine: 2 objects, 2 places, 2 patches (1 where the camera moves) of which 1 may be refused, animations of 2 frames that ease out; level of detail: 3 representations that overlap, 3 lists, 6 zooms, handoffs of 4 frames (of 2 the easing could not be told from a linear one) |
| `MCOwnerLockEviction.cfg` | `OwnerLock` | **violated**: a live owner is evicted | 3 processes, 1 crash |
| `MCOperatorRunsCancel.cfg` | `OperatorRuns` | **violated**: a pass that ends leaves a cancelled run cancelled | 2 runs, 2 passes |
| `MCOperatorRunsRevoked.cfg` | `OperatorRuns` | **violated**: a pass whose run was cancelled installs no draft | 2 runs, 2 passes |
| `MCPublishedMirrorStale.cfg` | `PublishedMirror` | **violated**: the remembered index is one that every slug synced from | as above |
| `MCViewerPanic.cfg` | `LodHandoff` | **violated**: no frame reads past the end of a list | as above |

Each bound is the smallest at which the case its property is about happens; in every run the caps are
reached. In the engine's "scene" instance timelines stand still, in its "camera" instance nothing is
filtered or overridden: the halves share the scene and the timeline only.

`ReloadShowsTheSame` is about lenses whose runways are apart (`RunwaysApart`): a wheel or pinch event zooms no further than
what lies between the runway of an owner and that of its parent. The code bounds the factor of a pinch event by 1.65
(`web/renderer/wheelIntent.ts` 225-231), a notch of a wheel is one of 1.13, and runways that begin where the bands of their levels do are
factors of 2.9 and 2.1 apart (`packages/scene-compiler/src/compile-c4.ts` 57-60). Nothing in the code keeps the others apart: in scanned
scenes a runway begins where its owner covers half the screen (`coverageRevealZoomWindow`, lines 226-241), so an owner that
nearly fills its parent opens soon after it, and the wheel's factor has no bound for many notches in one event. There the
property fails: one outward step pops one owner of the path, and the rest stays open below the zoom its runway begins at,
where a reload drops it. The other properties of the lens hold for any runways and steps.

Deadlock is checked in `MCOperatorRunsSafety` and the runs that violate `OperatorRuns`; elsewhere a component
comes to its end (a pass ends, ids and requests are used up, bounds are reached).
`MaxCrashes`, `MaxThrows`, `MaxFaults`, `MaxLegacy`, `MaxRuns`, `MaxDrafts`, `MaxVersions`, `MaxStarts`, `MaxMoves`,
`MaxAsking`, `MaxJobs`, `MaxHead`, `MaxDeliveries`, `MaxEntries`, `MaxCommits`, `MaxRefusals`, `MaxPatches`, `MaxSteps`,
`MaxRetries` and `Days` are bounds; they stand in guards of the environment (crashes, requests, gestures) and
never stop a pass or a process that is under way. Symmetry is used for clients, requests and jobs in runs without liveness properties.

Five runs show a disagreement between the code and what it says of itself; `findings` in
`PROJECT.json` quotes the lines.

1. Eviction: two callers read the same dead pid. One removes the file and creates its own; the other
   then removes that one. The comment at `server/operatorStore.ts:67` excludes it.
2. A cancelled run whose scan fails, for instance because it was aborted, ends as failed.
3. A cancelled run may be retried while the cancelled pass still awaits its requests; that pass then
   installs its draft.
4. A refresh pass of the mirror joins a fetch of `latest.json` made before the pointer moved, and
   remembers the new index as synced; the slug stays on the old version until a request names the new one.
5. A handoff between two representations is two indices; a patch that keeps the object with fewer
   representations leaves one past the end, and the next frame panics.

Others that the models show, or that reading the code for them did, are not runs. They are allowed by every
property, which says so where it matters.

* A scope that was launched before the first refusal still asks for admission, and is given it when its
  request is smaller than the refused one (`server/operatorEnrichment.ts:637`, `659`).
* An enrichment reply that tells its cost and no token counts is settled with zero tokens (`persistedUsage`),
  where the ledger alone would keep the reservation (`server/operatorBudget.ts:28`, `71`).
* The Ask cap on cold builds is looked at before all cold keys of a request are added
  (`server/askWorker.ts:337`; the comment at line 32 says the keys "never exceed the cap"), so one request overruns it;
  `ColdBuildsBounded` has the bound that holds. At a deadline the worker may be past the
  build it is blamed for (line 283, against line 37).
* One scope fails in the seed pass, another succeeds in the carried pass and makes their ancestor fresh. The next run
  carries the first scope alone; when it succeeds the ancestor is marked stale, reported as "inherited" ("left
  unfinished before this chain", `server/incrementalChangelog.ts` 175-176) and carried by no later run.
* A publish that lands between a backfill's second reading of `index.json` and its put is lost:
  `NoRowDropped` is about puts that nothing has overtaken since the reading.
* The visibility filter, the selection and the timeline's emphasis are not resolved again when an animated
  patch ends (`engine/protocol_runtime.rs:1002` says "Isolate removes hidden objects"): the observer `stale`. A patch
  that is refused during an animation drops the transition, against `docs/architecture/renderer.md:46`: the
  observer `torn`.
* The guarded retargeting of the lens (`web/semantic/semanticLens.ts:113`) never happens: its remembered
  candidate is lost on the way back, and the page always supplies the target that is active. A wheel step during
  a transfer of the focus draws the old branch in full.

## 4. Fairness

Invariants and action properties assume none. The liveness properties assume that what is ready runs, and
no more: weak fairness of single steps of the program, never of its environment (crashes, refusals,
requests, gestures, deliveries, what operators do).

* `OwnerLock`: a process that has called `with` goes on, as the code there is synchronous, and the store is
  called again and again (each request of the operator's page reads or writes it).
* `OperatorRuns`: every await of a pass ends, because scans run in a child process with a time limit
  (`server/scanWorker.ts` 83-133) and provider calls have a request time limit. `EnrichmentPool`: the same,
  per scope, and the first and last step of the pass.
* `LlmRateLimiter`: time passes, each caller's ready step is taken. `ScanWorkers`: events of the parent's loop arrive,
  the time limit of a child among them. `ScanJobs`: the pump and the job's awaits end. `AskWorker`: messages are delivered, the
  worker steps, and the head's deadline (`server/askWorker.ts`) fires if it does not; an admitted ticket is run or
  released, as its route does in a `finally`.
* `IncrementalTriggers`: the debounce timer fires, a start ends, a run goes on. `ViewerHistory`: the timer
  of the deferred URL fires and a restore ends.

## 5. Proofs

Every invariant and action property of the passing runs is stated by a theorem; the theorems are listed in `PROJECT.json`.
They hold for all values of the constants, under the named assumptions of the modules. Most of these are types, or say that a
value that stands for "none" is no other value. The rest say what the code does with the constants:

* `PoolAssumption`, `ContainmentAssumption`: the scopes of a pass are a finite forest without a cycle, ordered by one injective
  rank, and what is below a scope under the cap is under it too;
* `BudgetAssumption`: a judgment costs what its fixed price says at most, and enrichment reserves no dollars, its price being
  known only afterwards;
* the edge keeps the rows of at least the day before (the code: 14);
* `ChainAssumption`: in each architecture of a chain, whatever is there is in something that is there and is not a code
  symbol, or at the top (`packages/architecture/src/extraction.ts` 165-171, 405-425);
* `LensAssumption`: an entity is at least one level below its parent and a runway has a width;
* `EngineAssumption`: there are finitely many objects; `LodAssumption`: a range of zooms is at least as wide as its hysteresis
  (`compile-c4.ts` 57-60) and an object has at least one representation.

`ServerProofs`, the lock. `LockExcludes`: two live processes are inside only after a usurpation, and a usurpation
takes a crash. The invariant adds to both facts: a process inside owns the file unless there was a
usurpation, and only files of dead owners are about to be evicted when nobody has died.

`OperatorPublicationProofs`. The inductive invariant relates rows, drafts and pointers: `previous` is
below its row, a publication in progress is based on `Current` (the lock is held, so nobody moves it),
`retired` holds what is below in the chain, and a client's snapshot is no longer than the rows. From it:
`InterruptedPublication`, `HistoryIsLinear`, `PublishersReplaceWhatTheyRead`,
`ReadersSeeACurrentVersion`, and the refinement `PublicationIsARegister` step by step.

`OperatorRunsProofs`. `Invariant` is inductive: types, the range of every reference between runs, drafts,
versions and passes, active runs have a pass, exclusiveness, and what each kind of pass knows of its run
at each stage (a retry is based on a draft of its run; a full pass at work on a run not stopped has
the draft it installed; an incremental run's version is at most the current one). The listed theorems
follow from it, the action properties by cases on the action. `AutoPublicationDescends` needs a second invariant on top of
it, `Lineage`: the baseline and the draft of each incremental run descend from the version the run is chained to
(`RunsAreChained`), a pass that derives drafts from its run's draft finds one (`PassesFit`), and what was published
automatically was made from the version before it. Drafts are never rewritten, so a new one lengthens a chain and disturbs
none. `Descends` is stated as a closure (a draft is in every set of drafts that has the ancestor and whatever was made from a member), which
makes it provable without induction over the drafts: a draft made from a member joins at once, and more drafts only
make the sets larger.

`OperatorBudgetProofs`. The invariant has three layers, each preserved with the help of the ones before
it. `Ledgers`: every caller's rows are its own, held and unsettled until their turn, so a step of one
caller leaves the rows of the others alone. `Billing`: the rows of a bill reserve at least what it says, and carry
no usage or one its reply allows. `Undisturbed`: who has not been disturbed has settled what he leaves.
`CountedAlways` needs the first two and the price assumption, `SlotsReturn` and `AdmissionsClosed` the third;
`RequestsBounded` is a count over the view a fresh row joins. They hold for any number of callers, runs, ids,
throws and crashes and any limits. `ConsumptionIsBounded` rests on a fourth
layer, `Accounts`: the rows of a run, each at what it still stands for (its reservation until the provider is asked, from
then on what the request really consumed), are within the limits together; so are the rows that hold a slot; and the dollars
of enrichment leave room, below the limit and one dearest request per caller, for the requests whose price the
ledger has yet to learn (`Standing`). It is inductive because a row stands for no more than what the ledger counts it at,
which is what an admission looks at. A sum over a view (`Total`) is the size of a disjoint union with one element per unit, so a sum of smaller
values is smaller because a set is, and no induction over the view is needed.

`ServerProofs`, the limiter. `LimiterAlwaysSafe`, for any finite set of callers and any limits. `QueueWaits` says that the queue holds
callers that wait, each once, so that the one a release wakes is one caller more who looks while there is one place less:
that carries `NoLostWakeup`. `DebtCovered` says what covers a caller's back-off in each phase (the pause, his own
timer, or nothing is left of it), which is why he cannot be at work with some of it left. That a power of two is a
natural number is a hypothesis of the theorem (`PowersAreNatural`): no installed backend knows exponentiation.

`OperatorRunsProofs`, the triggers. `TriggersAlwaysSafe`: a push that has not been drafted is always seen to by somebody, and no
draft is behind the one before it. `RunFollows` says that the active run is based on the newest draft and, when it takes the HEAD of the branch, takes no
older commit; `PushesCovered` that the debounce forgets a push, or a start reports one as started, only when the
newest commit wanted is drafted or the active run takes the HEAD and has not yet resolved it to an older one. The
generations matter: a start that comes back for an older generation leaves the waiting push alone.

`EnrichmentPoolProofs`. `PoolIsSafe`, over any finite forest. `ControlOK` has the order: `waitingOn[s]` is the number of
children of the pass that are not through (`WaitingOK`), and nothing below a scope that has started is under way
(`DescendantsFirst`). `AdmissionOK` counts a request before the ledgers are asked for it, and gives a reservation to a
scope that has a request to make or one under way; `HaltOK` says that whatever stops the pool shows in the result. `MarksOK` carries
`HonestlyStale`: who is about to write has missed nothing, what this pass accepted is current, and an older explanation with
changes below it is known to the pass as such, in the way its mode has. `CompleteMeansAll` needs that containment has no
cycle: were the pool over with scopes still idle, one of them would hold none of the others, and so be ready. That a pump launches as many scopes as fit picks
a least number with the library's `WFMin`.

`EnrichmentPoolProofs`, the chain. `ChainAlwaysSafe`, over any architectures and edits and any number of runs and retries.
`FreshIsCurrent` (what is not marked stale was explained from its present input) rests on `InputIsSeen`: no change of
the input of an explanation escapes `computeIncrementalImpact`: for each thing an input is made of (the scope's own text and
export, its relations, the surface of what it uses, its children, the text of the symbols in it) the scope is dirty or gets
a reason. `StatesTold` says that an accepted scope has an explanation, which with `FreshIsCurrent` makes the
automatic gate sound; `GivenUp` says that nothing carried waits for what was dropped.

`ServerProofs`, the scan jobs. `JobsAlwaysSafe`, for any number of jobs and faults. The queue is reasoned about as three values (the
rows, the waiting rows, the running row), since one step of the code may end a job and start the next. The invariant
says what each stage tells of a row, that the atlas being enriched is the plain one, and that every other sidecar
tells the truth unless a fault disturbed its slug; failed rows with a live atlas are counted by the faults.

`ServerProofs`, the edge. `EdgeBudgetAlwaysSafe`, for any finite set of requests and any caps. `InTime` carries it: a request is
admitted to its own day, which is today or yesterday (a bound of the model: requests do not wait for their admission
over two midnights), and an admission prunes only days before the one before its own, so the counters of a day that may still admit are those of all
its requests (`Counted`), while an older day admits nobody. `OnlyOpen` says that a reservation is of an Ask that is under
way or lost. The excess of a day is the number of units beyond the estimates of its settled Asks, so settling one
adds at least what it cost beyond its own.

`WorkerThreadsProofs`. `ScansAlwaysKept`, for any finite set of scans: `SlotsCounted` is a count like the limiter's, and holds
because the queue has each waiting scan once (`ScansQueued`), so the one that a slot is passed to is one holder more. Only the
child of a scan that has not settled is spared (`SparedRuns`). `AskAlwaysSafe`, for any tickets, keys and candidate lists: the
exactness of the mirror is a statement about the messages under way. `InOrder` assigns each message to the job it is for, in the
order of the queue, and the requests the worker has not answered to the jobs after them; `CacheTold` says that an
idle worker's last message, or the mirror when none is under way, is what its cache holds; `BuildInHand` that the key being
built was admitted for the request in work, so builds are no more than admissions allow.

`OperatorPublicationProofs`, the store. `RowsAlwaysKept` and `ToolsImplementObjects`. What a command has found in the store and
acts on later still holds when it does: what it has read, or is about to make a pointer or a row, names complete versions
(`FoundWhole`); an index that nobody has put since it was read is the one read (`Fresh`); a command that has never met another
leaves a slug apart from its pointer only while it is about to list it (`Solo`). From it, every step of a command is a put
that names a complete version, or a stutter.

`OperatorPublicationProofs`, the mirror. `MirrorAlwaysSafe`, for any slugs, versions, caps and overlapping passes: `Disk` says
that what is on disk is what the installed versions refer to, who are strictly ordered by their last use (what an eviction
takes is the least of them); `Counting` that the count of on-demand fetches is the number of keys in flight on behalf of
requests; `InOrder` that a pointer being fetched was read no earlier than the one adopted, as only one is in flight at a
time, so a late reply cannot take a slug back.

`ViewerProofs`, the lens. `LensAlwaysSafe`, for any tree of up to four levels and any runways. `LensInv` says of the path
with the owner in transition that each entry is a level below the one before and inside it (`Proper`), and that the owner in
transition is on its runway (`OnRunway`). Where runways are apart, the zoom is on every runway but the last by a whole step,
and on the last too unless a pan put it there (`Lit`): so the one owner that an outward step pops is enough. `UrlAlwaysSafe`:
`Restoring` says that the restore nobody has overtaken found no write deferred and decoded the entry that is shown.

`RendererProofs`. `RendererAlwaysSafe`, for any finite set of objects, any patches and representations. The engine: while an
animation runs the scene drawn has the objects of both of its ends (`Spread`), so indices resolved against it hold until it
ends; `PatchesCompose` and `ResolutionsFit` are inductive with it. `HandsOff`: no timeline plays while the user's hand is on
the camera. The level of detail, as long as no frame has read past the end of a list (`MCViewerPanic`): `Fading`, what was
drawn last of a representation is no more than the handoff drew of it at an age that lies no further back than the last
frame, gives `NoPop`: `Easing` says of the cubic that it grows and is half way at half time, so before half time less than
half can go, and after it no more than was left as long before half time as the last frame is back; `Settling`, after the
first frame of a zoom the handoff leads to a representation that may stay and is as old as the zoom, gives `RestsOnStrongest`
(recording an activity twice is recording it once, so the weights stand still); `Turns`, an activity changed last where its
range begins or ends, gives `NoFlicker`, as entering and leaving are two hystereses apart.

## 6. Only model-checked

Liveness: `DeadLockRecovered`, `LimiterDrains`, `ScansSettle`, `QueueDrains`, `TicketsSettle`, `ActiveRunSettles`,
`PassEnds`, `UrlLands`, `DraftCatchesUp`. The prover does not handle fairness.
The five properties that are violated are, of course, not theorems; the theorems next to them say what holds instead
(`LockExcludes`, `CancelledRunsKeepTheirDraft`, `NoRevisionIsLost`, `MirrorAlwaysSafe`, `RendererAlwaysSafe`).

## 7. Plan

Done, in this order: the lock, publication, runs, pool and ledgers; the rate limiter and scan jobs, the workers, the Ask
worker; the edge budget; the published store and its mirror; impact, chain and triggers; the viewer's history, engine, level of
detail and lens; and the proofs of everything about them but liveness. What is left, by worth:

1. A mirror that restarts; the index cache of the edge worker.
2. Camera flights, story playback and handoffs between compiled scenes of the viewer.
3. The store failing between the two writes of an attempt (`server/operatorEnrichment.ts:697`).
4. The scene compiler and the derivation of the architecture, as operators against reference definitions.

## 8. Not modelled

* Judgments and section profiles: they install a draft through the comparison that `ClaimsChecked` has, and no
  route or command calls them; their ledger rows are in `OperatorBudget`.
* A second server process on one operator store: opening it marks the first one's runs interrupted
  (`server/operatorStore.ts:101`). The deployment has one.
* A store that fails between the put of an explanation and the update of its attempt
  (`server/operatorEnrichment.ts:697`, a hazard without a property): `EnrichmentPool` has the two as one step.
* Prompt and answer text, evidence validation, retrieval ranking, HTTP routing, login, read views over the
  store, evaluation tools, React components, drawing, geometry and the GPU, the scanner, the derivation of the
  architecture and the scene compiler: they keep no shared state, or are functions of their arguments that tests
  reach. They are most of the repository's lines.
