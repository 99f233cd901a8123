---------------------------- MODULE OperatorRuns ----------------------------
(***************************************************************************)
(* The life of operator runs on one repository: what the operator API and  *)
(* the incremental triggers ask for (operatorApi.ts, operatorIncremental.ts*)
(* startIncrementalRun), what the passes they start do at each point where *)
(* they give up control (operatorRunner.ts enqueue, claimChecks.ts,        *)
(* operatorIncremental.ts runIncremental), and a server restart.           *)
(*                                                                         *)
(* A pass is one call of OperatorRunner.enqueue.  Its code between two     *)
(* awaits is one action; the scan and the enrichment it awaits may end at  *)
(* any time, in any way.  Which scopes are enriched is left out: a pass    *)
(* decides freely whether it changed anything.  A publication is one step  *)
(* here (module OperatorPublication has the two writes it consists of).    *)
(* Drafts and versions are positions in `drafts` and `published`.          *)
(***************************************************************************)
EXTENDS Naturals, Sequences

CONSTANTS
  Jobs,       \* passes that may be alive at once
  MaxRuns,    \* bound on the runs created
  MaxDrafts,  \* bound on the drafts beyond which nobody asks for another pass
  MaxVersions \* bound on the versions beyond which nobody publishes by hand

ASSUME RunsAssumption ==
  /\ MaxRuns \in Nat
  /\ MaxDrafts \in Nat
  /\ MaxVersions \in Nat

None == 0

VARIABLES
  runs,        \* the runs, in order of creation
  drafts,      \* the draft revisions: [run, parent (the draft it was made from), by]
  published,   \* the versions of the repository: [draft, by (an incremental run, or None)]
  pass         \* [Jobs -> a live pass, or Idle]

vars == <<runs, drafts, published, pass>>

RunState == {"queued", "running", "awaiting_review", "complete", "failed",
             "cancelled", "interrupted", "removed"}

JobKind == {"run", "retry", "claims", "incremental"}

\* Where a pass waits: to be started, for the commit, for the scan, for the (first)
\* enrichment or claim check, for the enrichment of what the chain carried over.
Stage == {"start", "resolve", "scan", "enrich", "carried"}

\* revoked: the run was cancelled while this pass was alive (an observer).
PassType == [kind : JobKind, run : Nat, base : Nat, stage : Stage, revoked : BOOLEAN]

Idle == [kind |-> "idle"]

\* baseline and version: what an incremental run starts from and publishes over.
\* stopped: the run was cancelled with a pass alive (an observer).
RunType == [kind : {"full", "incremental"}, state : RunState, draft : Nat,
            baseline : Nat, version : Nat, auto : BOOLEAN, stopped : BOOLEAN]

Init ==
  /\ runs = <<>>
  /\ drafts = <<>>
  /\ published = <<>>
  /\ pass = [j \in Jobs |-> Idle]

-----------------------------------------------------------------------------
Active(r) == runs[r].state \in {"queued", "running"}

Reviewable(r) == runs[r].state \in {"awaiting_review", "complete"}

Cancelled(r) == runs[r].state = "cancelled"

Live(j) == pass[j] # Idle

PassOf(j, r) == Live(j) /\ pass[j].run = r

Enqueue(kind, r, base) ==
  \E j \in Jobs :
    /\ ~Live(j)
    /\ pass' = [pass EXCEPT ![j] =
         [kind |-> kind, run |-> r, base |-> base, stage |-> "start", revoked |-> FALSE]]

Finish(j) == pass' = [pass EXCEPT ![j] = Idle]

Await(j, stage) == pass' = [pass EXCEPT ![j].stage = stage]

SetState(r, state) == runs' = [runs EXCEPT ![r].state = state]

-----------------------------------------------------------------------------
(* The operator API and the triggers.                                      *)

NewRun(kind, baseline, version, auto) ==
  [kind |-> kind, state |-> "queued", draft |-> None, baseline |-> baseline,
   version |-> version, auto |-> auto, stopped |-> FALSE]

\* POST runs with a new idempotency key.
CreateRun ==
  /\ Len(runs) < MaxRuns
  /\ runs' = Append(runs, NewRun("full", None, None, FALSE))
  /\ Enqueue("run", Len(runs) + 1, None)
  /\ UNCHANGED <<drafts, published>>

\* The newest reviewable run among candidates, as its current draft.
NewestDraft(candidates) ==
  {runs[r].draft : r \in {s \in candidates : \A t \in candidates : t <= s}}

ReviewableRuns == {r \in DOMAIN runs : Reviewable(r) /\ runs[r].draft # None}

\* Mutant of Chained: the chain survives a publication.
ChainedAnywhere == {r \in ReviewableRuns : runs[r].kind = "incremental"}

\* The incremental runs whose work starts at the current publication.
Chained ==
  {r \in ReviewableRuns : runs[r].kind = "incremental" /\ runs[r].version = Len(published)}

\* incrementalBaseline: with a publication, the newest reviewable incremental draft
\* chained on it, else the published draft; without one, the newest reviewable draft.
Baselines ==
  IF published = <<>> THEN NewestDraft(ReviewableRuns)
  ELSE IF Chained # {} THEN NewestDraft(Chained)
  ELSE {published[Len(published)].draft}

\* startIncrementalRun, by an operator, a cron tick or a webhook.
StartIncremental ==
  /\ Len(runs) < MaxRuns
  /\ \A r \in DOMAIN runs : ~Active(r)
  /\ \E baseline \in Baselines, auto \in BOOLEAN :
       runs' = Append(runs, NewRun("incremental", baseline, Len(published), auto))
  /\ Enqueue("incremental", Len(runs) + 1, None)
  /\ UNCHANGED <<drafts, published>>

\* POST cancel: in whatever state the run is.
Cancel(r) ==
  /\ runs[r].state # "removed"
  /\ runs' = [runs EXCEPT ![r].state = "cancelled",
                          ![r].stopped = @ \/ \E j \in Jobs : PassOf(j, r)]
  /\ pass' = [j \in Jobs |->
       IF PassOf(j, r) THEN [pass[j] EXCEPT !.revoked = TRUE] ELSE pass[j]]
  /\ UNCHANGED <<drafts, published>>

\* Mutant of Retry: the API forgets its 409.
RetryWhileActive(r) ==
  /\ Len(drafts) < MaxDrafts
  /\ runs[r].draft # None
  /\ SetState(r, "queued")
  /\ Enqueue("retry", r, runs[r].draft)
  /\ UNCHANGED <<drafts, published>>

\* POST retry and refresh: only of the current draft, and of no active run.
Retry(r) ==
  /\ Len(drafts) < MaxDrafts
  /\ ~Active(r)
  /\ runs[r].draft # None
  /\ SetState(r, "queued")
  /\ Enqueue("retry", r, runs[r].draft)
  /\ UNCHANGED <<drafts, published>>

\* POST claim-checks: of a reviewable run only.
ClaimChecks(r) ==
  /\ Len(drafts) < MaxDrafts
  /\ Reviewable(r)
  /\ runs[r].draft # None
  /\ SetState(r, "queued")
  /\ Enqueue("claims", r, runs[r].draft)
  /\ UNCHANGED <<drafts, published>>

IsPublished(d) == \E v \in DOMAIN published : published[v].draft = d

\* POST publish, by somebody who has seen the current version.
Publish(d) ==
  /\ Len(published) < MaxVersions
  /\ ~IsPublished(d)
  /\ published' = Append(published, [draft |-> d, by |-> None])
  /\ UNCHANGED <<runs, drafts, pass>>

-----------------------------------------------------------------------------
(* What a pass does to the store, as values: [runs, drafts].               *)

Now == [runs |-> runs, drafts |-> drafts]

\* createDraftRevision makes the new draft the run's current one.
Installed(r, parent, by, state) ==
  [runs |-> [runs EXCEPT ![r].draft = Len(drafts) + 1, ![r].state = state],
   drafts |-> Append(drafts, [run |-> r, parent |-> parent, by |-> by])]

Released(r, state) ==
  [runs |-> [runs EXCEPT ![r].state = state], drafts |-> drafts]

Becomes(store) == runs' = store.runs /\ drafts' = store.drafts

-----------------------------------------------------------------------------
(* kind "run": scan, a first draft, enrichment, an enriched draft.         *)

RunStart(j) ==
  LET r == pass[j].run IN
  /\ pass[j].kind = "run" /\ pass[j].stage = "start"
  /\ \/ Cancelled(r) /\ Finish(j) /\ UNCHANGED runs
     \/ ~Cancelled(r) /\ SetState(r, "running") /\ Await(j, "scan")
  /\ UNCHANGED <<drafts, published>>

\* Mutant of RunScanned: no look at the cancellation after the scan.
RunScannedBlindly(j) ==
  LET r == pass[j].run IN
  /\ pass[j].kind = "run" /\ pass[j].stage = "scan"
  /\ Becomes(Installed(r, None, "run", runs[r].state))
  /\ pass' = [pass EXCEPT ![j].stage = "enrich", ![j].base = Len(drafts) + 1]
  /\ UNCHANGED published

RunScanned(j) ==
  LET r == pass[j].run IN
  /\ pass[j].kind = "run" /\ pass[j].stage = "scan"
  /\ \/ Cancelled(r) /\ Finish(j) /\ UNCHANGED <<runs, drafts>>
     \/ /\ ~Cancelled(r)
        /\ Becomes(Installed(r, None, "run", runs[r].state))
        /\ pass' = [pass EXCEPT ![j].stage = "enrich", ![j].base = Len(drafts) + 1]
  /\ UNCHANGED published

RunEnriched(j) ==
  LET r == pass[j].run IN
  /\ pass[j].kind = "run" /\ pass[j].stage = "enrich"
  /\ \/ Cancelled(r) /\ UNCHANGED <<runs, drafts>>
     \/ ~Cancelled(r) /\ Becomes(Installed(r, pass[j].base, "run", "awaiting_review"))
  /\ Finish(j)
  /\ UNCHANGED published

\* Whatever a pass throws, an aborted scan included, ends in "failed": the catch
\* clause of kinds "run" and "incremental", and that of the server's enqueue for the
\* others.
PassFails(j) ==
  /\ pass[j].kind \in JobKind /\ pass[j].stage # "start"
  /\ SetState(pass[j].run, "failed")
  /\ Finish(j)
  /\ UNCHANGED <<drafts, published>>

-----------------------------------------------------------------------------
(* kinds "retry" (a refresh is a retry of the stale scopes) and "claims".  *)

\* markRunning overwrites no cancellation, and the pass goes on under either state.
MarkedRunning(r) == IF Cancelled(r) THEN "cancelled" ELSE "running"

RetryStart(j) ==
  LET r == pass[j].run IN
  /\ pass[j].kind \in {"retry", "claims"} /\ pass[j].stage = "start"
  /\ \/ /\ runs[r].draft # pass[j].base
        /\ SetState(r, IF runs[r].state = "queued" THEN "awaiting_review" ELSE runs[r].state)
        /\ Finish(j)
     \/ /\ runs[r].draft = pass[j].base /\ pass[j].kind = "retry"
        /\ SetState(r, IF Cancelled(r) THEN "cancelled" ELSE "awaiting_review")
        /\ Finish(j)
     \/ /\ runs[r].draft = pass[j].base
        /\ SetState(r, MarkedRunning(r))
        /\ Await(j, "enrich")
  /\ UNCHANGED <<drafts, published>>

\* Mutant of RetryOutcomes: no compare-and-swap under the lock.
RetryOutcomesUnchecked(r, base, by) ==
  {Released(r, "awaiting_review")} \cup
  IF Cancelled(r) THEN {Now} ELSE {Installed(r, base, by, "awaiting_review")}

\* The enrichment threw, or it was cancelled, or it changed nothing, or its draft is
\* installed if the run still is on the draft it derived from.
RetryOutcomes(r, base, by) ==
  {Released(r, "awaiting_review")} \cup
  IF Cancelled(r) \/ runs[r].draft # base THEN {Now}
  ELSE {Installed(r, base, by, "awaiting_review")}

RetryEnriched(j) ==
  /\ pass[j].kind = "retry" /\ pass[j].stage = "enrich"
  /\ \E outcome \in RetryOutcomes(pass[j].run, pass[j].base, "retry") : Becomes(outcome)
  /\ Finish(j)
  /\ UNCHANGED published

\* Cancelled: nothing.  Conflict, failure, nothing changed: released.  Else installed
\* under the lock, which looks once more at the cancellation, the draft and the state.
ClaimsChecked(j) ==
  LET r == pass[j].run IN
  /\ pass[j].kind = "claims" /\ pass[j].stage = "enrich"
  /\ \/ Cancelled(r) /\ UNCHANGED <<runs, drafts>>
     \/ ~Cancelled(r) /\ Becomes(Released(r, "awaiting_review"))
     \/ /\ Reviewable(r) \/ runs[r].state = "running"
        /\ runs[r].draft = pass[j].base
        /\ Becomes(Installed(r, pass[j].base, "claims", "awaiting_review"))
  /\ Finish(j)
  /\ UNCHANGED published

-----------------------------------------------------------------------------
(* kind "incremental": resolve the commit, scan it, draft it on the        *)
(* baseline, retry what it changed and what the chain carried, publish.    *)

IncrementalStart(j) ==
  LET r == pass[j].run IN
  /\ pass[j].kind = "incremental" /\ pass[j].stage = "start"
  /\ \/ Cancelled(r) /\ Finish(j) /\ UNCHANGED runs
     \/ ~Cancelled(r) /\ SetState(r, "running") /\ Await(j, "resolve")
  /\ UNCHANGED <<drafts, published>>

\* pruneUpToDateRuns removes the repository's earlier runs that found nothing to do.
Pruned(r) ==
  [s \in DOMAIN runs |->
     IF s = r THEN [runs[s] EXCEPT !.state = "complete"]
     ELSE IF runs[s].state = "complete" /\ runs[s].draft = None
       THEN [runs[s] EXCEPT !.state = "removed"]
     ELSE runs[s]]

IncrementalResolved(j) ==
  LET r == pass[j].run IN
  /\ pass[j].kind = "incremental" /\ pass[j].stage = "resolve"
  /\ \/ Cancelled(r) /\ Finish(j) /\ UNCHANGED runs
     \/ ~Cancelled(r) /\ runs' = Pruned(r) /\ Finish(j)
     \/ ~Cancelled(r) /\ Await(j, "scan") /\ UNCHANGED runs
  /\ UNCHANGED <<drafts, published>>

\* The next nested retry, marked running again, from the run's current draft.
NextRetry(j, r, store, stage) ==
  /\ runs' = [store.runs EXCEPT ![r].state = "running"]
  /\ pass' = [pass EXCEPT ![j].stage = stage, ![j].base = store.runs[r].draft]
  /\ UNCHANGED published

\* Mutant of MayReplace: publishes over whatever is current.
MayReplaceAnything(r) == runs[r].auto

\* Asked for, and the version the run started from is still current.
MayReplace(r) == runs[r].auto /\ runs[r].version = Len(published)

\* Mutant of Settled: a pass that installed nothing leaves its run "running".
SettledOnlyQueued(state) == IF state = "queued" THEN "awaiting_review" ELSE state

Settled(state) == IF state \in {"queued", "running"} THEN "awaiting_review" ELSE state

\* The end of the pass: the run is released, and its current draft published if it
\* was asked for, is complete, and the version the run started from is still current.
Release(j, r, store) ==
  LET d == store.runs[r].draft IN
  /\ runs' = [store.runs EXCEPT ![r].state = Settled(@)]
  /\ Finish(j)
  /\ \/ UNCHANGED published
     \/ /\ MayReplace(r)
        /\ ~IsPublished(d)
        /\ published' = Append(published, [draft |-> d, by |-> r])

IncrementalScanned(j) ==
  LET r == pass[j].run
      store == Installed(r, runs[r].baseline, "incremental", runs[r].state) IN
  /\ pass[j].kind = "incremental" /\ pass[j].stage = "scan"
  /\ \/ Cancelled(r) /\ Finish(j) /\ UNCHANGED <<runs, drafts, published>>
     \/ /\ ~Cancelled(r)
        /\ drafts' = store.drafts
        /\ \/ NextRetry(j, r, store, "enrich")
           \/ NextRetry(j, r, store, "carried")
           \/ Release(j, r, store)

IncrementalEnriched(j) ==
  LET r == pass[j].run IN
  /\ pass[j].kind = "incremental" /\ pass[j].stage \in {"enrich", "carried"}
  /\ \E store \in RetryOutcomes(r, pass[j].base, "incremental") :
       /\ drafts' = store.drafts
       /\ \/ /\ store.runs[r].state = "cancelled"
             /\ runs' = store.runs
             /\ Finish(j)
             /\ UNCHANGED published
          \/ /\ store.runs[r].state # "cancelled" /\ pass[j].stage = "enrich"
             /\ NextRetry(j, r, store, "carried")
          \/ store.runs[r].state # "cancelled" /\ Release(j, r, store)

-----------------------------------------------------------------------------
\* Mutant of Restart: the store is opened without recoverInterrupted.
RestartWithoutRecovery ==
  /\ runs' = [r \in DOMAIN runs |-> [runs[r] EXCEPT !.stopped = FALSE]]
  /\ pass' = [j \in Jobs |-> Idle]
  /\ UNCHANGED <<drafts, published>>

\* recoverInterrupted when the store is opened again; no pass outlives the process.
Restart ==
  /\ runs' = [r \in DOMAIN runs |->
       [runs[r] EXCEPT !.state = IF Active(r) THEN "interrupted" ELSE @,
                       !.stopped = FALSE]]
  /\ pass' = [j \in Jobs |-> Idle]
  /\ UNCHANGED <<drafts, published>>

Advance(j) ==
  /\ Live(j)
  /\ \/ RunStart(j) \/ RunScanned(j) \/ RunEnriched(j)
     \/ RetryStart(j) \/ RetryEnriched(j) \/ ClaimsChecked(j)
     \/ IncrementalStart(j) \/ IncrementalResolved(j)
     \/ IncrementalScanned(j) \/ IncrementalEnriched(j)
     \/ PassFails(j)

Request ==
  \/ CreateRun \/ StartIncremental
  \/ \E r \in DOMAIN runs : Cancel(r) \/ Retry(r) \/ ClaimChecks(r)
  \/ \E d \in DOMAIN drafts : Publish(d)

Next == Request \/ Restart \/ \E j \in Jobs : Advance(j)

Spec == Init /\ [][Next]_vars

\* Every await of a pass ends: scans and provider calls have time limits.
FairSpec == Spec /\ \A j \in Jobs : WF_vars(Advance(j))

-----------------------------------------------------------------------------
TypeOK ==
  /\ runs \in Seq(RunType)
  /\ drafts \in Seq([run : Nat, parent : Nat, by : JobKind])
  /\ published \in Seq([draft : Nat, by : Nat])
  /\ pass \in [Jobs -> PassType \cup {Idle}]

\* A queued or running run has a pass at work on it, through every failure, conflict
\* and restart: the API, which refuses to act on an active run, never waits for a
\* pass that is gone.
ActiveHasPass ==
  \A r \in DOMAIN runs : Active(r) => \E j \in Jobs : PassOf(j, r)

RunsSafe == TypeOK /\ ActiveHasPass

\* Unless the run was cancelled under a pass, one pass at a time works on a run and
\* none does while the run is offered for review: what the 409 "operator action
\* already running" is for.
ExclusiveUnlessStopped ==
  \A r \in DOMAIN runs : ~runs[r].stopped =>
    /\ \A i, j \in Jobs : PassOf(i, r) /\ PassOf(j, r) => i = j
    /\ ~Active(r) => \A j \in Jobs : ~PassOf(j, r)

\* A run that stays cancelled stays on its draft, whichever passes come back.
CancelledKeepsDraft ==
  [][\A r \in DOMAIN runs :
       Cancelled(r) /\ runs'[r].state = "cancelled" => runs'[r].draft = runs[r].draft]_vars

\* A draft replaces the one it was made from, so no pass throws away what another
\* pass installed meanwhile; the exception is a full pass, whose run was cancelled
\* under it and put to work again.
NoLostRevision ==
  [][\A r \in DOMAIN runs :
       runs'[r].draft # runs[r].draft /\ runs[r].draft # None =>
         \/ drafts'[runs'[r].draft].parent = runs[r].draft
         \/ runs[r].stopped /\ drafts'[runs'[r].draft].by = "run"]_vars

\* An automatic publication replaces the version its run started from and nothing
\* newer: a manual publication made meanwhile wins.
AutoReplacesBaseline ==
  \A v \in DOMAIN published :
    published[v].by # None => runs[published[v].by].version = v - 1

\* d was made from the ancestor, revision by revision: it is in every set of drafts that
\* has the ancestor and whatever was made from a member.
Descends(history, d, ancestor) ==
  /\ ancestor \in DOMAIN history
  /\ \A S \in SUBSET DOMAIN history :
       ancestor \in S /\ (\A e \in DOMAIN history : history[e].parent \in S => e \in S)
         => d \in S

\* What is published automatically was made, revision by revision, from what it
\* replaces: the chain of incremental runs restarts at every publication.
AutoPublishDescends ==
  \A v \in DOMAIN published : published[v].by # None /\ v > 1 =>
    Descends(drafts, published[v].draft, published[v - 1].draft)

\* Work on a run comes to an end.
ActiveRunSettles == \A r \in 1..MaxRuns :
  (r \in DOMAIN runs /\ Active(r)) ~> (r \in DOMAIN runs /\ ~Active(r))

\* What the tests say: "runner leaves cancelled scans and late gateway replies
\* cancelled".  A pass that ends leaves a cancelled run cancelled.
CancellationKept ==
  [][\A j \in Jobs : Live(j) /\ Advance(j) /\ Cancelled(pass[j].run) =>
       runs'[pass[j].run].state = "cancelled"]_vars

\* What the runner says: "Cancellation installs no draft".  A pass whose run was
\* cancelled under it adds none, whatever happens to the run afterwards.
RevokedInstallsNothing ==
  [][\A j \in Jobs : Live(j) /\ pass[j].revoked /\ Advance(j) => drafts' = drafts]_vars

=============================================================================
