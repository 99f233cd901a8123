------------------------------ MODULE ScanJobs ------------------------------
(***************************************************************************)
(* The in-process queue of scan jobs (createScanJobQueue,                  *)
(* apps/server/src/jobs.ts) with the job runner it drives                  *)
(* (createScanJobRunner, apps/server/src/scanService.ts).  One job runs at *)
(* a time.  It publishes the deterministic atlas first and an enriched one *)
(* over it later, and leaves a sidecar that tells what enrichment did.     *)
(* Rows are in memory, the atlas and the sidecar on disk; what runs        *)
(* between two awaits is one action.                                       *)
(***************************************************************************)
EXTENDS Naturals, Sequences, FiniteSets

CONSTANTS
  Slugs,     \* directories of the scan root
  Refs,      \* refs that are asked for
  MaxJobs,   \* bound on the jobs submitted, for model checking
  MaxFaults  \* bound on crashes and failed writes, for model checking

VARIABLES
  jobs,      \* rows of this process, in order of submission
  pending,   \* indices of the rows that wait
  running,   \* index of the row that runs, 0 for none
  pumps,     \* queueMicrotask(pump) calls that have not run yet
  atlas,     \* [Slugs -> Atlas] on disk
  sidecar,   \* [Slugs -> State \cup {"none"}]: enrichment-status.json
  faults,    \* crashes and failed writes so far
  disturbed  \* observer: slugs whose last publication met a crash or a failed write

jobsVars == <<jobs, pending, running, pumps, atlas, sidecar, faults, disturbed>>

Atlas == {"none", "plain", "enriched", "torn"}
State == {"pending", "running", "complete", "skipped", "failed"}
Job == [slug : Slugs, ref : Refs,
        stage : {"queued", "scanning", "enriching", "complete", "failed"},
        ready : BOOLEAN, enrichment : State]

JobsInit ==
  /\ jobs = <<>>
  /\ pending = <<>>
  /\ running = 0
  /\ pumps = 0
  /\ atlas = [s \in Slugs |-> "none"]
  /\ sidecar = [s \in Slugs |-> "none"]
  /\ faults = 0
  /\ disturbed = {}

InQueue == {i \in 1..Len(jobs) : i = running \/ \E k \in 1..Len(pending) : pending[k] = i}

\* activeByKey: the job that runs or waits for this slug and ref.
ActiveByKey(slug, ref) == {i \in InQueue : jobs[i].slug = slug /\ jobs[i].ref = ref}

\* submit: a job that is active for this key is returned, otherwise a row is queued.
Submit(slug, ref) ==
  /\ Len(jobs) < MaxJobs
  /\ ActiveByKey(slug, ref) = {}
  /\ jobs' = Append(jobs, [slug |-> slug, ref |-> ref, stage |-> "queued", ready |-> FALSE,
                           enrichment |-> "pending"])
  /\ pending' = Append(pending, Len(jobs) + 1)
  /\ pumps' = pumps + 1
  /\ UNCHANGED <<running, atlas, sidecar, faults, disturbed>>

\* pump: the next job starts, on the rows `rows`, unless one runs.
PumpOn(rows) ==
  IF pending = <<>>
  THEN running' = 0 /\ jobs' = rows /\ UNCHANGED pending
  ELSE /\ running' = pending[1]
       /\ pending' = Tail(pending)
       /\ jobs' = [rows EXCEPT ![pending[1]].stage = "scanning"]

Pump ==
  /\ pumps > 0
  /\ pumps' = pumps - 1
  /\ IF running = 0 THEN PumpOn(jobs) ELSE UNCHANGED <<jobs, pending, running>>
  /\ UNCHANGED <<atlas, sidecar, faults, disturbed>>

Run(stage) == running # 0 /\ jobs[running].stage = stage

Slug == jobs[running].slug

Patch(stage, ready, enrichment) ==
  [jobs EXCEPT ![running] = [@ EXCEPT !.stage = stage, !.ready = ready, !.enrichment = enrichment]]

\* Mutant of Ends: the queue waits for the next submission.
EndsIdle(stage, ready, enrichment) ==
  /\ jobs' = Patch(stage, ready, enrichment)
  /\ running' = 0
  /\ UNCHANGED <<pending, pumps>>

\* The promise of the runner settles: the row gets its last stage and the queue moves on.
Ends(stage, ready, enrichment) ==
  /\ PumpOn(Patch(stage, ready, enrichment))
  /\ UNCHANGED pumps

\* The tree is private, cannot be fetched, or the scan fails.
ScanFails ==
  /\ Run("scanning")
  /\ Ends("failed", FALSE, "pending")
  /\ UNCHANGED <<atlas, sidecar, faults, disturbed>>

Fault == faults < MaxFaults /\ faults' = faults + 1

\* Mutant of PublishPlain: a job that is not enriched says nothing.
PublishPlainSilently ==
  /\ Run("scanning")
  /\ atlas' = [atlas EXCEPT ![Slug] = "plain"]
  /\ disturbed' = disturbed \ {Slug}
  /\ UNCHANGED <<faults, sidecar>>
  /\ \/ \E state \in {"skipped", "failed"} : Ends("complete", TRUE, state)
     \/ jobs' = Patch("enriching", TRUE, "running") /\ UNCHANGED <<pending, running, pumps>>

\* The deterministic atlas is published.  Without an enricher (disabled, no key, budget
\* exhausted, no model) the sidecar says so and the job is complete; otherwise the
\* enrichment begins, and the sidecar still tells of the atlas before.
PublishPlain ==
  /\ Run("scanning")
  /\ atlas' = [atlas EXCEPT ![Slug] = "plain"]
  /\ disturbed' = disturbed \ {Slug}
  /\ UNCHANGED faults
  /\ \/ \E state \in {"skipped", "failed"} :
          sidecar' = [sidecar EXCEPT ![Slug] = state] /\ Ends("complete", TRUE, state)
     \/ /\ jobs' = Patch("enriching", TRUE, "running")
        /\ UNCHANGED <<pending, running, pumps, sidecar>>

\* A write of the deterministic publication fails and the job with it.
PublishFails ==
  /\ Run("scanning") /\ Fault
  /\ atlas' = [atlas EXCEPT ![Slug] = "torn"]
  /\ disturbed' = disturbed \cup {Slug}
  /\ Ends("failed", FALSE, "pending")
  /\ UNCHANGED sidecar

\* The enriched atlas of the same commit replaces the deterministic one.
PublishEnriched ==
  /\ Run("enriching")
  /\ atlas' = [atlas EXCEPT ![Slug] = "enriched"]
  /\ sidecar' = [sidecar EXCEPT ![Slug] = "complete"]
  /\ Ends("complete", TRUE, "complete")
  /\ UNCHANGED <<faults, disturbed>>

\* The enrichment fails: the job completes with the deterministic atlas.
EnrichFails ==
  /\ Run("enriching")
  /\ sidecar' = [sidecar EXCEPT ![Slug] = "failed"]
  /\ Ends("complete", TRUE, "failed")
  /\ UNCHANGED <<atlas, faults, disturbed>>

\* A write of the second publication fails: caught like a failed enrichment, with files
\* of both publications on disk.
PublishEnrichedFails ==
  /\ Run("enriching") /\ Fault
  /\ atlas' = [atlas EXCEPT ![Slug] = "torn"]
  /\ disturbed' = disturbed \cup {Slug}
  /\ sidecar' = [sidecar EXCEPT ![Slug] = "failed"]
  /\ Ends("complete", TRUE, "failed")

\* A write of the sidecar fails.  After the first publication the job fails with its
\* atlas live; after the second the failure is caught, and "failed" is written over an
\* enriched atlas, or cannot be written either and the job fails.
SidecarFails ==
  /\ running # 0 /\ Fault
  /\ disturbed' = disturbed \cup {Slug}
  /\ \/ /\ Run("scanning")
        /\ atlas' = [atlas EXCEPT ![Slug] = "plain"]
        /\ \E state \in {"skipped", "failed"} : Ends("failed", TRUE, state)
        /\ UNCHANGED sidecar
     \/ /\ Run("enriching")
        /\ atlas' = [atlas EXCEPT ![Slug] = "enriched"]
        /\ \/ sidecar' = [sidecar EXCEPT ![Slug] = "failed"] /\ Ends("complete", TRUE, "failed")
           \/ Ends("failed", TRUE, "failed") /\ UNCHANGED sidecar

\* The process dies and starts again: the rows are gone, the disk is as it was, or
\* torn when the process died while it wrote.
Restart ==
  /\ Fault
  /\ jobs' = <<>> /\ pending' = <<>> /\ running' = 0 /\ pumps' = 0
  /\ UNCHANGED sidecar
  /\ IF running = 0
     THEN UNCHANGED <<atlas, disturbed>>
     ELSE /\ disturbed' = disturbed \cup {Slug}
          /\ \E a \in {atlas[Slug], "torn"} : atlas' = [atlas EXCEPT ![Slug] = a]

Advance ==
  \/ Pump \/ ScanFails \/ PublishPlain \/ PublishFails
  \/ PublishEnriched \/ EnrichFails \/ PublishEnrichedFails \/ SidecarFails

JobsNext == (\E slug \in Slugs, ref \in Refs : Submit(slug, ref)) \/ Advance \/ Restart

JobsSpec == JobsInit /\ [][JobsNext]_jobsVars

\* The microtasks run, and scans and enrichments end: they are bounded by time limits.
JobsFairSpec == JobsSpec /\ WF_jobsVars(Advance)

-----------------------------------------------------------------------------
JobsTypeOK ==
  /\ jobs \in Seq(Job)
  /\ pending \in Seq(1..Len(jobs))
  /\ running \in 0..Len(jobs)
  /\ pumps \in Nat
  /\ atlas \in [Slugs -> Atlas]
  /\ sidecar \in [Slugs -> State \cup {"none"}]
  /\ faults \in Nat
  /\ disturbed \subseteq Slugs

\* The same repository and ref is never scanned by two active jobs, whichever of them
\* runs or waits, and no row is queued twice.
OneActiveJobPerKey ==
  /\ Cardinality(InQueue) = Len(pending) + (IF running = 0 THEN 0 ELSE 1)
  /\ \A i, j \in InQueue : jobs[i].slug = jobs[j].slug /\ jobs[i].ref = jobs[j].ref => i = j

\* Between jobs the sidecar of a slug tells the truth about its atlas: it says
\* "complete" exactly when the atlas is the enriched one, whatever jobs for other refs
\* have published into the slug since.  Crashes and failed writes excepted.
SidecarHonest ==
  \A s \in Slugs : (s \notin disturbed /\ (running = 0 \/ Slug # s))
                     => (atlas[s] = "enriched" <=> sidecar[s] = "complete")

\* An enrichment that fails takes nothing back: a job with a live atlas fails only when
\* a write failed, and the atlas of a complete job is live.
FailureTakesNothingBack ==
  /\ Cardinality({i \in 1..Len(jobs) : jobs[i].stage = "failed" /\ jobs[i].ready}) <= faults
  /\ \A i \in 1..Len(jobs) : jobs[i].stage = "complete" => jobs[i].ready

JobsSafe == JobsTypeOK /\ OneActiveJobPerKey /\ SidecarHonest /\ FailureTakesNothingBack

\* Every job that is queued gets its turn and ends: once nothing more is submitted the
\* queue drains.
QueueDrains == InQueue # {} ~> InQueue = {}

=============================================================================
