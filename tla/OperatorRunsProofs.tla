------------------------- MODULE OperatorRunsProofs -------------------------
(***************************************************************************)
(* Proofs about OperatorRuns, for any number of passes, runs and drafts.   *)
(*                                                                         *)
(* Each step of a pass is first summarised by what it does to its run and  *)
(* to itself (Effect); the invariants are then proved from the summaries.  *)
(***************************************************************************)
EXTENDS OperatorRuns, IncrementalTriggers, SequenceTheorems, TLAPS

\* What no step of a pass changes in a run.
SameOrigin(row, old) ==
  /\ row.version = old.version /\ row.stopped = old.stopped
  /\ row.kind = old.kind /\ row.baseline = old.baseline

RunsBecome(r, d, st) ==
  /\ runs' \in Seq(RunType)
  /\ DOMAIN runs' = DOMAIN runs
  /\ \A t \in DOMAIN runs : SameOrigin(runs'[t], runs[t])
  /\ \A t \in DOMAIN runs : t # r =>
       /\ runs'[t].draft = runs[t].draft
       /\ \/ runs'[t].state = runs[t].state
          \/ runs[t].state = "complete" /\ runs'[t].state = "removed"
  /\ runs'[r].draft = d
  /\ runs'[r].state = st

LEMMA RunFields ==
  ASSUME NEW row \in RunType
  PROVE  /\ row.state \in RunState /\ row.draft \in Nat /\ row.version \in Nat
         /\ row.baseline \in Nat /\ row.stopped \in BOOLEAN /\ row.auto \in BOOLEAN
BY DEF RunType

LEMMA RunAt ==
  ASSUME runs \in Seq(RunType), NEW r \in DOMAIN runs
  PROVE  runs[r] \in RunType
<1>1. r \in 1..Len(runs)
  BY LenProperties
<1> QED
  BY <1>1, ElementOfSeq

LEMMA WithRow ==
  ASSUME runs \in Seq(RunType), NEW r \in DOMAIN runs, NEW row \in RunType,
         SameOrigin(row, runs[r]),
         runs' = [runs EXCEPT ![r] = row]
  PROVE  RunsBecome(r, row.draft, row.state)
<1>1. r \in 1..Len(runs)
  BY LenProperties
<1>2. runs' \in Seq(RunType)
  BY <1>1, ExceptSeq
<1> QED
  BY <1>2 DEF RunsBecome, SameOrigin

LEMMA WithState ==
  ASSUME runs \in Seq(RunType), NEW r \in DOMAIN runs, NEW st \in RunState,
         runs' = [runs EXCEPT ![r].state = st]
  PROVE  RunsBecome(r, runs[r].draft, st)
<1> DEFINE row == [runs[r] EXCEPT !.state = st]
<1>1. runs[r] \in RunType
  BY RunAt
<1>2. row \in RunType /\ SameOrigin(row, runs[r])
      /\ row.draft = runs[r].draft /\ row.state = st
  BY <1>1 DEF RunType, SameOrigin
<1>3. runs' = [runs EXCEPT ![r] = row]
  OBVIOUS
<1> HIDE DEF row
<1> QED
  BY <1>2, <1>3, WithRow

LEMMA WithDraft ==
  ASSUME runs \in Seq(RunType), NEW r \in DOMAIN runs, NEW d \in Nat, NEW st \in RunState,
         runs' = [runs EXCEPT ![r].draft = d, ![r].state = st]
  PROVE  RunsBecome(r, d, st)
<1> DEFINE row == [runs[r] EXCEPT !.draft = d, !.state = st]
<1>1. runs[r] \in RunType
  BY RunAt
<1>2. row \in RunType /\ SameOrigin(row, runs[r])
      /\ row.draft = d /\ row.state = st
  BY <1>1 DEF RunType, SameOrigin
<1>3. runs' = [runs EXCEPT ![r] = row]
  OBVIOUS
<1> HIDE DEF row
<1> QED
  BY <1>2, <1>3, WithRow

LEMMA Unchanged ==
  ASSUME runs \in Seq(RunType), NEW r \in DOMAIN runs, runs' = runs
  PROVE  RunsBecome(r, runs[r].draft, runs[r].state)
BY DEF RunsBecome, SameOrigin

-----------------------------------------------------------------------------
(* What one step of pass j does: its run gets draft d and state st, the    *)
(* pass becomes p.                                                         *)

AtRest == {"awaiting_review", "complete", "failed", "interrupted", "removed"}

\* The run was cancelled: the pass ends and leaves it so.
Abandons(r, d, st, p) ==
  p = Idle /\ d = runs[r].draft /\ Cancelled(r) /\ st = "cancelled"

\* The pass ends and the run is at rest.
Settles(r, d, st, p) ==
  p = Idle /\ d = runs[r].draft /\ st \in AtRest

\* The pass ends because the run left the draft it was for.
GivesWay(j, r, d, st, p) ==
  /\ p = Idle /\ d = runs[r].draft /\ st = runs[r].state
  /\ runs[r].draft # pass[j].base
  /\ \/ pass[j].stage = "start" /\ st # "queued"
     \/ pass[j].stage # "start" /\ pass[j].kind = "retry"

Starts(j, r, d, st, p) ==
  /\ pass[j].stage = "start" /\ d = runs[r].draft
  /\ \/ st = "running"
     \/ Cancelled(r) /\ st = "cancelled" /\ pass[j].kind \in {"retry", "claims"}
  /\ \/ pass[j].kind = "run" /\ p = [pass[j] EXCEPT !.stage = "scan"]
     \/ pass[j].kind = "incremental" /\ p = [pass[j] EXCEPT !.stage = "resolve"]
     \/ /\ pass[j].kind \in {"retry", "claims"} /\ runs[r].draft = pass[j].base
        /\ p = [pass[j] EXCEPT !.stage = "enrich"]

Resolves(j, r, d, st, p) ==
  /\ pass[j].kind = "incremental" /\ pass[j].stage = "resolve" /\ ~Cancelled(r)
  /\ p = [pass[j] EXCEPT !.stage = "scan"] /\ d = runs[r].draft /\ st = runs[r].state

Scans(j, r, d, st, p) ==
  /\ pass[j].kind = "run" /\ pass[j].stage = "scan" /\ ~Cancelled(r)
  /\ p = [pass[j] EXCEPT !.stage = "enrich", !.base = d]
  /\ d = Len(drafts) + 1 /\ st = runs[r].state

Installs(j, r, d, st, p) ==
  /\ pass[j].stage # "start" /\ ~Cancelled(r)
  /\ p = Idle /\ d = Len(drafts) + 1 /\ st \in AtRest

GoesOn(j, r, d, st, p) ==
  /\ pass[j].kind = "incremental" /\ pass[j].stage # "start"
  /\ \/ d = runs[r].draft /\ pass[j].stage \in {"enrich", "carried"}
     \/ d = Len(drafts) + 1 /\ ~Cancelled(r)
  /\ \E stage \in {"enrich", "carried"} :
       p = [pass[j] EXCEPT !.stage = stage, !.base = d]
  /\ st = "running"

Effect(j, r, d, st, p) ==
  \/ Abandons(r, d, st, p) \/ Settles(r, d, st, p) \/ GivesWay(j, r, d, st, p)
  \/ Starts(j, r, d, st, p) \/ Resolves(j, r, d, st, p) \/ Scans(j, r, d, st, p)
  \/ Installs(j, r, d, st, p) \/ GoesOn(j, r, d, st, p)

\* What a new draft of r may be made from.
Origin(j, r, parent) ==
  \/ /\ parent = runs[r].draft
     /\ pass[j].kind = "incremental" => pass[j].stage \in {"enrich", "carried"}
  \/ pass[j].kind = "run" /\ pass[j].stage = "scan"
  \/ pass[j].kind = "run" /\ pass[j].stage = "enrich" /\ parent = pass[j].base
  \/ pass[j].kind = "incremental" /\ pass[j].stage = "scan" /\ parent = runs[r].baseline

DraftsBecome(j, r, d) ==
  \/ drafts' = drafts /\ d = runs[r].draft
  \/ /\ d = Len(drafts) + 1
     /\ \E parent \in Nat : Origin(j, r, parent) /\
          drafts' = Append(drafts, [run |-> r, parent |-> parent, by |-> pass[j].kind])

PublishedBecomes(j, r, d) ==
  \/ published' = published
  \/ /\ pass[j].kind = "incremental"
     /\ pass[j].stage \in {"enrich", "carried"} \/ d = Len(drafts) + 1
     /\ runs[r].version = Len(published)
     /\ published' = Append(published, [draft |-> d, by |-> r])

Outcome(j, d, st, p) ==
  LET r == pass[j].run IN
  /\ d \in Nat /\ st \in RunState /\ p \in PassType \cup {Idle}
  /\ RunsBecome(r, d, st)
  /\ pass' = [pass EXCEPT ![j] = p]
  /\ Effect(j, r, d, st, p)
  /\ DraftsBecome(j, r, d)
  /\ PublishedBecomes(j, r, d)

Summary(j) == \E d, st, p : Outcome(j, d, st, p)

PassesOfRuns == \A j \in Jobs : Live(j) => pass[j].run \in DOMAIN runs

\* What every lemma about a step starts from.
Ready(j) == j \in Jobs /\ Live(j) /\ TypeOK /\ PassesOfRuns

LEMMA ReadyFacts ==
  ASSUME NEW j, Ready(j)
  PROVE  /\ runs \in Seq(RunType) /\ pass \in [Jobs -> PassType \cup {Idle}]
         /\ pass[j] \in PassType
         /\ pass[j].run \in DOMAIN runs /\ runs[pass[j].run] \in RunType
         /\ Len(drafts) \in Nat
<1>1. pass[j] \in PassType
  BY DEF Ready, TypeOK, Live
<1>2. pass[j].run \in DOMAIN runs
  BY DEF Ready, PassesOfRuns
<1>3. Len(drafts) \in Nat
  BY DEF Ready, TypeOK
<1> QED
  BY <1>1, <1>2, <1>3, RunAt DEF Ready, TypeOK

LEMMA PassFields ==
  ASSUME NEW q \in PassType
  PROVE  /\ q.kind \in JobKind /\ q.run \in Nat /\ q.base \in Nat
         /\ q.stage \in Stage /\ q # Idle
         /\ \A s \in Stage : [q EXCEPT !.stage = s] \in PassType
         /\ \A s \in Stage, b \in Nat : [q EXCEPT !.stage = s, !.base = b] \in PassType
<1>1. /\ q.kind \in JobKind /\ q.run \in Nat /\ q.base \in Nat /\ q.stage \in Stage
  BY DEF PassType
<1>2. q # Idle
  BY <1>1 DEF Idle, JobKind
<1>3. \A s \in Stage : [q EXCEPT !.stage = s] \in PassType
  BY DEF PassType
<1>4. \A s \in Stage, b \in Nat : [q EXCEPT !.stage = s, !.base = b] \in PassType
  BY DEF PassType
<1> QED
  BY <1>1, <1>2, <1>3, <1>4

\* A step that leaves the runs alone, changes the run's state, or installs a draft.
LEMMA SameStep ==
  ASSUME NEW j, Ready(j), NEW p \in PassType \cup {Idle},
         runs' = runs, drafts' = drafts, published' = published,
         pass' = [pass EXCEPT ![j] = p],
         Effect(j, pass[j].run, runs[pass[j].run].draft, runs[pass[j].run].state, p)
  PROVE  Summary(j)
<1> DEFINE r == pass[j].run
<1>1. RunsBecome(r, runs[r].draft, runs[r].state)
  BY ReadyFacts, Unchanged
<1>2. runs[r].draft \in Nat /\ runs[r].state \in RunState
  BY ReadyFacts, RunFields
<1>3. Outcome(j, runs[r].draft, runs[r].state, p)
  BY <1>1, <1>2 DEF Outcome, DraftsBecome, PublishedBecomes
<1> QED
  BY <1>3 DEF Summary

LEMMA StateStep ==
  ASSUME NEW j, Ready(j), NEW st \in RunState, NEW p \in PassType \cup {Idle},
         runs' = [runs EXCEPT ![pass[j].run].state = st], drafts' = drafts,
         pass' = [pass EXCEPT ![j] = p],
         PublishedBecomes(j, pass[j].run, runs[pass[j].run].draft),
         Effect(j, pass[j].run, runs[pass[j].run].draft, st, p)
  PROVE  Summary(j)
<1> DEFINE r == pass[j].run
<1>1. RunsBecome(r, runs[r].draft, st)
  BY ReadyFacts, WithState
<1>2. runs[r].draft \in Nat
  BY ReadyFacts, RunFields
<1>3. Outcome(j, runs[r].draft, st, p)
  BY <1>1, <1>2 DEF Outcome, DraftsBecome
<1> QED
  BY <1>3 DEF Summary

LEMMA DraftStep ==
  ASSUME NEW j, Ready(j), NEW st \in RunState, NEW p \in PassType \cup {Idle},
         NEW parent \in Nat, Origin(j, pass[j].run, parent),
         runs' = [runs EXCEPT ![pass[j].run].draft = Len(drafts) + 1,
                              ![pass[j].run].state = st],
         drafts' = Append(drafts, [run |-> pass[j].run, parent |-> parent, by |-> pass[j].kind]),
         pass' = [pass EXCEPT ![j] = p],
         PublishedBecomes(j, pass[j].run, Len(drafts) + 1),
         Effect(j, pass[j].run, Len(drafts) + 1, st, p)
  PROVE  Summary(j)
<1> DEFINE r == pass[j].run
<1>1. Len(drafts) + 1 \in Nat
  BY ReadyFacts
<1>2. RunsBecome(r, Len(drafts) + 1, st)
  BY <1>1, ReadyFacts, WithDraft
<1>3. DraftsBecome(j, r, Len(drafts) + 1)
  BY DEF DraftsBecome
<1>4. Outcome(j, Len(drafts) + 1, st, p)
  BY <1>1, <1>2, <1>3 DEF Outcome
<1> QED
  BY <1>4 DEF Summary

LEMMA RunStartSummary ==
  ASSUME NEW j, Ready(j), RunStart(j)
  PROVE  Summary(j)
<1> DEFINE r == pass[j].run
<1>0. pass[j] \in PassType
  BY ReadyFacts
<1>1. CASE Cancelled(r)
  <2>1. Abandons(r, runs[r].draft, runs[r].state, Idle)
    BY <1>1 DEF Abandons, Cancelled
  <2>2. Effect(j, r, runs[r].draft, runs[r].state, Idle)
    BY <2>1 DEF Effect
  <2> QED
    BY <1>1, <2>2, SameStep DEF RunStart, Finish
<1>2. CASE ~Cancelled(r)
  <2> DEFINE p == [pass[j] EXCEPT !.stage = "scan"]
  <2>1. p \in PassType
    BY <1>0, PassFields DEF Stage
  <2>2. Starts(j, r, runs[r].draft, "running", p)
    BY DEF RunStart, Starts
  <2>3. Effect(j, r, runs[r].draft, "running", p)
    BY <2>2 DEF Effect
  <2>4. runs' = [runs EXCEPT ![r].state = "running"] /\ pass' = [pass EXCEPT ![j] = p]
    BY <1>2 DEF RunStart, SetState, Await
  <2> HIDE DEF p
  <2> QED
    BY <2>1, <2>3, <2>4, StateStep DEF RunStart, PublishedBecomes, RunState
<1> QED
  BY <1>1, <1>2

LEMMA IncrementalStartSummary ==
  ASSUME NEW j, Ready(j), IncrementalStart(j)
  PROVE  Summary(j)
<1> DEFINE r == pass[j].run
<1>0. pass[j] \in PassType
  BY ReadyFacts
<1>1. CASE Cancelled(r)
  <2>1. Abandons(r, runs[r].draft, runs[r].state, Idle)
    BY <1>1 DEF Abandons, Cancelled
  <2>2. Effect(j, r, runs[r].draft, runs[r].state, Idle)
    BY <2>1 DEF Effect
  <2> QED
    BY <1>1, <2>2, SameStep DEF IncrementalStart, Finish
<1>2. CASE ~Cancelled(r)
  <2> DEFINE p == [pass[j] EXCEPT !.stage = "resolve"]
  <2>1. p \in PassType
    BY <1>0, PassFields DEF Stage
  <2>2. Starts(j, r, runs[r].draft, "running", p)
    BY DEF IncrementalStart, Starts
  <2>3. Effect(j, r, runs[r].draft, "running", p)
    BY <2>2 DEF Effect
  <2>4. runs' = [runs EXCEPT ![r].state = "running"] /\ pass' = [pass EXCEPT ![j] = p]
    BY <1>2 DEF IncrementalStart, SetState, Await
  <2> HIDE DEF p
  <2> QED
    BY <2>1, <2>3, <2>4, StateStep DEF IncrementalStart, PublishedBecomes, RunState
<1> QED
  BY <1>1, <1>2

LEMMA RunScannedSummary ==
  ASSUME NEW j, Ready(j), RunScanned(j)
  PROVE  Summary(j)
<1> DEFINE r == pass[j].run
<1>0. pass[j] \in PassType /\ Len(drafts) + 1 \in Nat /\ runs[r].state \in RunState
  BY ReadyFacts, RunFields
<1>1. CASE Cancelled(r)
  <2>1. Abandons(r, runs[r].draft, runs[r].state, Idle)
    BY <1>1 DEF Abandons, Cancelled
  <2>2. Effect(j, r, runs[r].draft, runs[r].state, Idle)
    BY <2>1 DEF Effect
  <2> QED
    BY <1>1, <2>2, SameStep DEF RunScanned, Finish
<1>2. CASE ~Cancelled(r)
  <2> DEFINE p == [pass[j] EXCEPT !.stage = "enrich", !.base = Len(drafts) + 1]
  <2>1. p \in PassType
    BY <1>0, PassFields DEF Stage
  <2>2. Scans(j, r, Len(drafts) + 1, runs[r].state, p)
    BY <1>2 DEF RunScanned, Scans
  <2>3. Effect(j, r, Len(drafts) + 1, runs[r].state, p)
    BY <2>2 DEF Effect
  <2>4. pass' = [pass EXCEPT ![j] = p]
    BY <1>2 DEF RunScanned
  <2>5. /\ runs' = [runs EXCEPT ![r].draft = Len(drafts) + 1, ![r].state = runs[r].state]
        /\ drafts' = Append(drafts, [run |-> r, parent |-> None, by |-> pass[j].kind])
        /\ Origin(j, r, None) /\ None \in Nat
    BY <1>2 DEF RunScanned, Becomes, Installed, Origin, None
  <2> HIDE DEF p
  <2> QED
    BY <1>0, <2>1, <2>3, <2>4, <2>5, DraftStep DEF RunScanned, PublishedBecomes
<1> QED
  BY <1>1, <1>2

LEMMA RunEnrichedSummary ==
  ASSUME NEW j, Ready(j), RunEnriched(j)
  PROVE  Summary(j)
<1> DEFINE r == pass[j].run
<1>0. pass[j].base \in Nat /\ runs[r].state \in RunState
  BY ReadyFacts, RunFields, PassFields
<1>1. CASE Cancelled(r)
  <2>1. Abandons(r, runs[r].draft, runs[r].state, Idle)
    BY <1>1 DEF Abandons, Cancelled
  <2>2. Effect(j, r, runs[r].draft, runs[r].state, Idle)
    BY <2>1 DEF Effect
  <2> QED
    BY <1>1, <2>2, SameStep DEF RunEnriched, Finish
<1>2. CASE ~Cancelled(r)
  <2>1. Installs(j, r, Len(drafts) + 1, "awaiting_review", Idle)
    BY <1>2 DEF RunEnriched, Installs, AtRest
  <2>2. Effect(j, r, Len(drafts) + 1, "awaiting_review", Idle)
    BY <2>1 DEF Effect
  <2>3. /\ runs' = [runs EXCEPT ![r].draft = Len(drafts) + 1, ![r].state = "awaiting_review"]
        /\ drafts' = Append(drafts, [run |-> r, parent |-> pass[j].base, by |-> pass[j].kind])
        /\ Origin(j, r, pass[j].base)
    BY <1>2 DEF RunEnriched, Becomes, Installed, Origin
  <2> QED
    BY <1>0, <2>2, <2>3, DraftStep DEF RunEnriched, Finish, PublishedBecomes, RunState
<1> QED
  BY <1>1, <1>2

LEMMA PassFailsSummary ==
  ASSUME NEW j, Ready(j), PassFails(j)
  PROVE  Summary(j)
<1> DEFINE r == pass[j].run
<1>1. Effect(j, r, runs[r].draft, "failed", Idle)
  BY DEF Effect, Settles, AtRest
<1> QED
  BY <1>1, StateStep DEF PassFails, SetState, Finish, PublishedBecomes, RunState

LEMMA RetryStartSummary ==
  ASSUME NEW j, Ready(j), RetryStart(j)
  PROVE  Summary(j)
<1> DEFINE r == pass[j].run
<1>0. pass[j] \in PassType /\ runs[r].state \in RunState
  BY ReadyFacts, RunFields
<1>1. CASE /\ runs[r].draft # pass[j].base
           /\ SetState(r, IF runs[r].state = "queued" THEN "awaiting_review" ELSE runs[r].state)
           /\ Finish(j)
  <2>1. CASE runs[r].state = "queued"
    <3>1. Effect(j, r, runs[r].draft, "awaiting_review", Idle)
      BY DEF Effect, Settles, AtRest
    <3> QED
      BY <1>1, <2>1, <3>1, StateStep DEF RetryStart, SetState, Finish, PublishedBecomes, RunState
  <2>2. CASE runs[r].state # "queued"
    <3>1. Effect(j, r, runs[r].draft, runs[r].state, Idle)
      BY <1>1, <2>2 DEF Effect, GivesWay, RetryStart
    <3> QED
      BY <1>0, <1>1, <2>2, <3>1, StateStep DEF RetryStart, SetState, Finish, PublishedBecomes
  <2> QED
    BY <2>1, <2>2
<1>2. CASE /\ SetState(r, IF Cancelled(r) THEN "cancelled" ELSE "awaiting_review")
           /\ Finish(j)
  <2>1. CASE Cancelled(r)
    <3>1. Effect(j, r, runs[r].draft, "cancelled", Idle)
      BY <2>1 DEF Effect, Abandons
    <3> QED
      BY <1>2, <2>1, <3>1, StateStep DEF RetryStart, SetState, Finish, PublishedBecomes, RunState
  <2>2. CASE ~Cancelled(r)
    <3>1. Effect(j, r, runs[r].draft, "awaiting_review", Idle)
      BY DEF Effect, Settles, AtRest
    <3> QED
      BY <1>2, <2>2, <3>1, StateStep DEF RetryStart, SetState, Finish, PublishedBecomes, RunState
  <2> QED
    BY <2>1, <2>2
<1>3. CASE /\ runs[r].draft = pass[j].base
           /\ SetState(r, MarkedRunning(r))
           /\ Await(j, "enrich")
  <2> DEFINE p == [pass[j] EXCEPT !.stage = "enrich"]
  <2>1. p \in PassType
    BY <1>0, PassFields DEF Stage
  <2>2. MarkedRunning(r) \in RunState
    BY DEF MarkedRunning, RunState
  <2>3. Starts(j, r, runs[r].draft, MarkedRunning(r), p)
    BY <1>3 DEF RetryStart, Starts, MarkedRunning
  <2>4. Effect(j, r, runs[r].draft, MarkedRunning(r), p)
    BY <2>3 DEF Effect
  <2>5. runs' = [runs EXCEPT ![r].state = MarkedRunning(r)] /\ pass' = [pass EXCEPT ![j] = p]
    BY <1>3 DEF SetState, Await
  <2> HIDE DEF p
  <2> QED
    BY <2>1, <2>2, <2>4, <2>5, StateStep DEF RetryStart, PublishedBecomes
<1> QED
  BY <1>1, <1>2, <1>3 DEF RetryStart

LEMMA RetryEnrichedSummary ==
  ASSUME NEW j, Ready(j), RetryEnriched(j)
  PROVE  Summary(j)
<1> DEFINE r == pass[j].run
           base == pass[j].base
<1>0. base \in Nat /\ runs[r].state \in RunState
  BY ReadyFacts, RunFields, PassFields
<1>1. CASE Becomes(Released(r, "awaiting_review"))
  <2>1. Effect(j, r, runs[r].draft, "awaiting_review", Idle)
    BY DEF Effect, Settles, AtRest
  <2>2. runs' = [runs EXCEPT ![r].state = "awaiting_review"] /\ drafts' = drafts
    BY <1>1 DEF Becomes, Released
  <2> QED
    BY <2>1, <2>2, StateStep DEF RetryEnriched, Finish, PublishedBecomes, RunState
<1>2. CASE Becomes(Now) /\ Cancelled(r)
  <2>1. Effect(j, r, runs[r].draft, runs[r].state, Idle)
    BY <1>2 DEF Effect, Abandons, Cancelled
  <2> QED
    BY <1>2, <2>1, SameStep DEF RetryEnriched, Finish, Becomes, Now
<1>3. CASE Becomes(Now) /\ runs[r].draft # base
  <2>1. Effect(j, r, runs[r].draft, runs[r].state, Idle)
    BY <1>3 DEF Effect, GivesWay, RetryEnriched
  <2> QED
    BY <1>3, <2>1, SameStep DEF RetryEnriched, Finish, Becomes, Now
<1>4. CASE /\ Becomes(Installed(r, base, "retry", "awaiting_review"))
           /\ ~Cancelled(r) /\ runs[r].draft = base
  <2>1. Effect(j, r, Len(drafts) + 1, "awaiting_review", Idle)
    BY <1>4 DEF Effect, Installs, AtRest, RetryEnriched
  <2>2. /\ runs' = [runs EXCEPT ![r].draft = Len(drafts) + 1, ![r].state = "awaiting_review"]
        /\ drafts' = Append(drafts, [run |-> r, parent |-> base, by |-> pass[j].kind])
        /\ Origin(j, r, base)
    BY <1>4 DEF RetryEnriched, Becomes, Installed, Origin
  <2> QED
    BY <1>0, <2>1, <2>2, DraftStep DEF RetryEnriched, Finish, PublishedBecomes, RunState
<1> QED
  BY <1>1, <1>2, <1>3, <1>4 DEF RetryEnriched, RetryOutcomes

LEMMA ClaimsCheckedSummary ==
  ASSUME NEW j, Ready(j), ClaimsChecked(j)
  PROVE  Summary(j)
<1> DEFINE r == pass[j].run
           base == pass[j].base
<1>0. base \in Nat /\ runs[r].state \in RunState
  BY ReadyFacts, RunFields, PassFields
<1>1. CASE Becomes(Released(r, "awaiting_review"))
  <2>1. Effect(j, r, runs[r].draft, "awaiting_review", Idle)
    BY DEF Effect, Settles, AtRest
  <2>2. runs' = [runs EXCEPT ![r].state = "awaiting_review"] /\ drafts' = drafts
    BY <1>1 DEF Becomes, Released
  <2> QED
    BY <2>1, <2>2, StateStep DEF ClaimsChecked, Finish, PublishedBecomes, RunState
<1>2. CASE Cancelled(r) /\ UNCHANGED <<runs, drafts>>
  <2>1. Effect(j, r, runs[r].draft, runs[r].state, Idle)
    BY <1>2 DEF Effect, Abandons, Cancelled
  <2> QED
    BY <1>2, <2>1, SameStep DEF ClaimsChecked, Finish
<1>3. CASE /\ Reviewable(r) \/ runs[r].state = "running"
           /\ runs[r].draft = base
           /\ Becomes(Installed(r, base, "claims", "awaiting_review"))
  <2>1. Effect(j, r, Len(drafts) + 1, "awaiting_review", Idle)
    BY <1>3 DEF Effect, Installs, AtRest, ClaimsChecked, Reviewable, Cancelled
  <2>2. /\ runs' = [runs EXCEPT ![r].draft = Len(drafts) + 1, ![r].state = "awaiting_review"]
        /\ drafts' = Append(drafts, [run |-> r, parent |-> base, by |-> pass[j].kind])
        /\ Origin(j, r, base)
    BY <1>3 DEF ClaimsChecked, Becomes, Installed, Origin
  <2> QED
    BY <1>0, <2>1, <2>2, DraftStep DEF ClaimsChecked, Finish, PublishedBecomes, RunState
<1> QED
  BY <1>1, <1>2, <1>3 DEF ClaimsChecked

LEMMA PrunedFacts ==
  ASSUME NEW j, Ready(j), runs' = Pruned(pass[j].run)
  PROVE  RunsBecome(pass[j].run, runs[pass[j].run].draft, "complete")
<1> DEFINE r == pass[j].run
           row(s) == IF s = r THEN [runs[s] EXCEPT !.state = "complete"]
                     ELSE IF runs[s].state = "complete" /\ runs[s].draft = None
                       THEN [runs[s] EXCEPT !.state = "removed"]
                     ELSE runs[s]
<1>0. runs \in Seq(RunType) /\ r \in DOMAIN runs
  BY ReadyFacts
<1>1. PICK n \in Nat : n = Len(runs) /\ DOMAIN runs = 1..n
  BY <1>0, LenProperties
<1>2. \A s \in DOMAIN runs :
        /\ row(s) \in RunType
        /\ SameOrigin(row(s), runs[s])
        /\ row(s).draft = runs[s].draft
        /\ s # r => \/ row(s).state = runs[s].state
                    \/ runs[s].state = "complete" /\ row(s).state = "removed"
        /\ s = r => row(s).state = "complete"
  <2> SUFFICES ASSUME NEW s \in DOMAIN runs
               PROVE  /\ row(s) \in RunType
                      /\ SameOrigin(row(s), runs[s])
                      /\ row(s).draft = runs[s].draft
                      /\ s # r => \/ row(s).state = runs[s].state
                                  \/ runs[s].state = "complete" /\ row(s).state = "removed"
                      /\ s = r => row(s).state = "complete"
    OBVIOUS
  <2>1. runs[s] \in RunType
    BY <1>0, RunAt
  <2>2. CASE s = r
    BY <2>1, <2>2 DEF RunType, RunState, SameOrigin
  <2>3. CASE s # r
    BY <2>1, <2>3 DEF RunType, RunState, SameOrigin
  <2> QED
    BY <2>2, <2>3
<1>3. runs' = [s \in 1..n |-> row(s)]
  BY <1>1 DEF Pruned
<1> HIDE DEF row
<1>4. runs' \in Seq(RunType) /\ DOMAIN runs' = DOMAIN runs
  BY <1>1, <1>2, <1>3
<1> QED
  BY <1>0, <1>1, <1>2, <1>3, <1>4 DEF RunsBecome

LEMMA IncrementalResolvedSummary ==
  ASSUME NEW j, Ready(j), IncrementalResolved(j)
  PROVE  Summary(j)
<1> DEFINE r == pass[j].run
<1>0. pass[j] \in PassType /\ runs[r].draft \in Nat
  BY ReadyFacts, RunFields
<1>1. CASE Cancelled(r) /\ Finish(j) /\ UNCHANGED runs
  <2>1. Effect(j, r, runs[r].draft, runs[r].state, Idle)
    BY <1>1 DEF Effect, Abandons, Cancelled
  <2> QED
    BY <1>1, <2>1, SameStep DEF IncrementalResolved, Finish
<1>2. CASE runs' = Pruned(r) /\ Finish(j)
  <2>1. Effect(j, r, runs[r].draft, "complete", Idle)
    BY DEF Effect, Settles, AtRest
  <2>2. RunsBecome(r, runs[r].draft, "complete")
    BY <1>2, PrunedFacts
  <2>3. Outcome(j, runs[r].draft, "complete", Idle)
    BY <1>0, <1>2, <2>1, <2>2
    DEF Outcome, Finish, IncrementalResolved, DraftsBecome, PublishedBecomes, RunState
  <2> QED
    BY <2>3 DEF Summary
<1>3. CASE ~Cancelled(r) /\ Await(j, "scan") /\ UNCHANGED runs
  <2> DEFINE p == [pass[j] EXCEPT !.stage = "scan"]
  <2>1. p \in PassType
    BY <1>0, PassFields DEF Stage
  <2>2. Resolves(j, r, runs[r].draft, runs[r].state, p)
    BY <1>3 DEF IncrementalResolved, Resolves
  <2>3. Effect(j, r, runs[r].draft, runs[r].state, p)
    BY <2>2 DEF Effect
  <2>4. pass' = [pass EXCEPT ![j] = p]
    BY <1>3 DEF Await
  <2> HIDE DEF p
  <2> QED
    BY <1>3, <2>1, <2>3, <2>4, SameStep DEF IncrementalResolved
<1> QED
  BY <1>1, <1>2, <1>3 DEF IncrementalResolved

\* The two updates of the store, as operators the provers can match.
PutState(f, r, st) == [f EXCEPT ![r].state = st]

PutDraft(f, r, d, st) == [f EXCEPT ![r].draft = d, ![r].state = st]

LEMMA RowOverwritten ==
  ASSUME NEW row \in RunType, NEW a, NEW b, NEW c
  PROVE  /\ [[row EXCEPT !.draft = a, !.state = b] EXCEPT !.state = c]
              = [row EXCEPT !.draft = a, !.state = c]
         /\ [[row EXCEPT !.state = b] EXCEPT !.state = c] = [row EXCEPT !.state = c]
         /\ [row EXCEPT !.draft = a, !.state = b].draft = a
         /\ [row EXCEPT !.draft = a, !.state = b].state = b
         /\ [row EXCEPT !.state = b].draft = row.draft
         /\ [row EXCEPT !.state = b].state = b
BY DEF RunType

LEMMA InstalledRuns ==
  ASSUME runs \in Seq(RunType), NEW r \in DOMAIN runs, NEW parent, NEW by, NEW st,
         NEW store, store = Installed(r, parent, by, st)
  PROVE  /\ store.runs[r].draft = Len(drafts) + 1 /\ store.runs[r].state = st
         /\ r \in DOMAIN store.runs
         /\ \A t : PutState(store.runs, r, t) = PutDraft(runs, r, Len(drafts) + 1, t)
<1>1. PICK n : n = Len(drafts) + 1
  OBVIOUS
<1>2. runs[r] \in RunType
  BY RunAt
<1> DEFINE now == [runs EXCEPT ![r] = [runs[r] EXCEPT !.draft = n, !.state = st]]
<1>3. store.runs = now
  BY <1>1 DEF Installed
<1>4. now[r] = [runs[r] EXCEPT !.draft = n, !.state = st] /\ r \in DOMAIN now
  OBVIOUS
<1>5. now[r].draft = n /\ now[r].state = st
  BY <1>2, <1>4 DEF RunType
<1>6. ASSUME NEW t
      PROVE  PutState(now, r, t) = PutDraft(runs, r, n, t)
  <2>1. [now[r] EXCEPT !.state = t] = [runs[r] EXCEPT !.draft = n, !.state = t]
    BY <1>2, <1>4, RowOverwritten
  <2>2. PutState(now, r, t) = [now EXCEPT ![r] = [now[r] EXCEPT !.state = t]]
    BY DEF PutState
  <2>3. PutDraft(runs, r, n, t)
          = [runs EXCEPT ![r] = [runs[r] EXCEPT !.draft = n, !.state = t]]
    BY DEF PutDraft
  <2> QED
    BY <2>1, <2>2, <2>3
<1> HIDE DEF now
<1> QED
  BY <1>1, <1>3, <1>4, <1>5, <1>6

LEMMA ReleasedRuns ==
  ASSUME runs \in Seq(RunType), NEW r \in DOMAIN runs,
         NEW store \in {Now, Released(r, "awaiting_review")}
  PROVE  /\ store.drafts = drafts /\ r \in DOMAIN store.runs
         /\ store.runs[r].draft = runs[r].draft
         /\ store.runs[r].state \in {runs[r].state, "awaiting_review"}
         /\ store.runs[r].state = "cancelled" => store = Now
         /\ \A t : PutState(store.runs, r, t) = PutState(runs, r, t)
<1>1. runs[r] \in RunType
  BY RunAt
<1>2. CASE store = Now
  BY <1>2 DEF Now
<1>3. CASE store = Released(r, "awaiting_review")
  <2> DEFINE now == [runs EXCEPT ![r] = [runs[r] EXCEPT !.state = "awaiting_review"]]
  <2>1. store.runs = now /\ store.drafts = drafts
    BY <1>3 DEF Released
  <2>2. now[r] = [runs[r] EXCEPT !.state = "awaiting_review"] /\ r \in DOMAIN now
    OBVIOUS
  <2>3. now[r].draft = runs[r].draft /\ now[r].state = "awaiting_review"
    BY <1>1, <2>2, RowOverwritten
  <2>4. ASSUME NEW t
        PROVE  PutState(now, r, t) = PutState(runs, r, t)
    <3>1. [now[r] EXCEPT !.state = t] = [runs[r] EXCEPT !.state = t]
      BY <1>1, <2>2, RowOverwritten
    <3>2. PutState(now, r, t) = [now EXCEPT ![r] = [now[r] EXCEPT !.state = t]]
      BY DEF PutState
    <3>3. PutState(runs, r, t) = [runs EXCEPT ![r] = [runs[r] EXCEPT !.state = t]]
      BY DEF PutState
    <3> QED
      BY <3>1, <3>2, <3>3
  <2> HIDE DEF now
  <2> QED
    BY <2>1, <2>2, <2>3, <2>4
<1> QED
  BY <1>2, <1>3

\* How an incremental pass goes on, or ends, from a store it has just written.
LEMMA GoesOnAfterInstall ==
  ASSUME NEW j, Ready(j), pass[j].kind = "incremental", pass[j].stage # "start",
         NEW parent \in Nat, NEW st \in RunState, NEW stage \in {"enrich", "carried"},
         Origin(j, pass[j].run, parent), ~Cancelled(pass[j].run),
         drafts' = Installed(pass[j].run, parent, "incremental", st).drafts,
         NextRetry(j, pass[j].run, Installed(pass[j].run, parent, "incremental", st), stage)
  PROVE  Summary(j)
<1> DEFINE r == pass[j].run
           p == [pass[j] EXCEPT !.stage = stage, !.base = Len(drafts) + 1]
           store == Installed(r, parent, "incremental", st)
<1>0. /\ pass[j] \in PassType /\ Len(drafts) + 1 \in Nat /\ r \in DOMAIN runs
      /\ runs \in Seq(RunType)
  BY ReadyFacts
<1>1. p \in PassType
  BY <1>0, PassFields DEF Stage
<1>2. runs' = PutState(store.runs, r, "running")
      /\ pass' = [pass EXCEPT ![j].stage = stage, ![j].base = store.runs[r].draft]
  BY DEF NextRetry, PutState
<1>3. store.runs[r].draft = Len(drafts) + 1
      /\ PutState(store.runs, r, "running") = PutDraft(runs, r, Len(drafts) + 1, "running")
  BY <1>0, InstalledRuns
<1> HIDE DEF store
<1>4. runs' = [runs EXCEPT ![r].draft = Len(drafts) + 1, ![r].state = "running"]
  BY <1>2, <1>3 DEF PutDraft
<1>5. pass' = [pass EXCEPT ![j] = p]
  BY <1>2, <1>3
<1>6. GoesOn(j, r, Len(drafts) + 1, "running", p)
  BY DEF GoesOn
<1>7. Effect(j, r, Len(drafts) + 1, "running", p)
  BY <1>6 DEF Effect
<1>8. drafts' = Append(drafts, [run |-> r, parent |-> parent, by |-> pass[j].kind])
  BY DEF Installed
<1>9. PublishedBecomes(j, r, Len(drafts) + 1)
  BY DEF NextRetry, PublishedBecomes
<1> HIDE DEF p
<1> QED
  BY <1>1, <1>4, <1>5, <1>7, <1>8, <1>9, DraftStep DEF RunState

LEMMA ReleasedAfterInstall ==
  ASSUME NEW j, Ready(j), pass[j].kind = "incremental", pass[j].stage # "start",
         NEW parent \in Nat, NEW st \in RunState, st # "cancelled",
         Origin(j, pass[j].run, parent), ~Cancelled(pass[j].run),
         drafts' = Installed(pass[j].run, parent, "incremental", st).drafts,
         Release(j, pass[j].run, Installed(pass[j].run, parent, "incremental", st))
  PROVE  Summary(j)
<1> DEFINE r == pass[j].run
           store == Installed(r, parent, "incremental", st)
<1>0. /\ Len(drafts) + 1 \in Nat /\ r \in DOMAIN runs /\ runs \in Seq(RunType)
  BY ReadyFacts
<1>1. store.runs[r].draft = Len(drafts) + 1 /\ store.runs[r].state = st
      /\ r \in DOMAIN store.runs
      /\ PutState(store.runs, r, Settled(st))
           = PutDraft(runs, r, Len(drafts) + 1, Settled(st))
  BY <1>0, InstalledRuns
<1> HIDE DEF store
<1>2. runs' = PutState(store.runs, r, Settled(store.runs[r].state))
  BY <1>1 DEF Release, store, PutState
<1>3. PublishedBecomes(j, r, Len(drafts) + 1)
  BY <1>0, <1>1 DEF Release, PublishedBecomes, MayReplace, store
<1>4. runs' = [runs EXCEPT ![r].draft = Len(drafts) + 1, ![r].state = Settled(st)]
  BY <1>1, <1>2 DEF PutDraft
<1>5. Settled(st) \in AtRest /\ Settled(st) \in RunState
  BY DEF Settled, AtRest, RunState
<1>6. Effect(j, r, Len(drafts) + 1, Settled(st), Idle)
  BY <1>5 DEF Effect, Installs
<1>7. drafts' = Append(drafts, [run |-> r, parent |-> parent, by |-> pass[j].kind])
  BY DEF Installed
<1> QED
  BY <1>3, <1>4, <1>5, <1>6, <1>7, DraftStep DEF Release, Finish

LEMMA GoesOnAfterState ==
  ASSUME NEW j, Ready(j), pass[j].kind = "incremental",
         pass[j].stage \in {"enrich", "carried"},
         NEW stage \in {"enrich", "carried"}, NEW store,
         store \in {Now, Released(pass[j].run, "awaiting_review")},
         drafts' = store.drafts, NextRetry(j, pass[j].run, store, stage)
  PROVE  Summary(j)
<1> DEFINE r == pass[j].run
           d == runs[r].draft
           p == [pass[j] EXCEPT !.stage = stage, !.base = d]
<1>0. /\ pass[j] \in PassType /\ r \in DOMAIN runs
      /\ runs \in Seq(RunType) /\ d \in Nat
  BY ReadyFacts, RunFields
<1>1. p \in PassType
  BY <1>0, PassFields DEF Stage
<1>2. store.runs[r].draft = d /\ drafts' = drafts
      /\ PutState(store.runs, r, "running") = PutState(runs, r, "running")
  BY <1>0, ReleasedRuns
<1>3. runs' = [runs EXCEPT ![r].state = "running"] /\ pass' = [pass EXCEPT ![j] = p]
  BY <1>2 DEF NextRetry, PutState
<1>4. GoesOn(j, r, d, "running", p)
  BY DEF GoesOn
<1>5. Effect(j, r, d, "running", p)
  BY <1>4 DEF Effect
<1>6. PublishedBecomes(j, r, d)
  BY DEF NextRetry, PublishedBecomes
<1> HIDE DEF p
<1> QED
  BY <1>1, <1>2, <1>3, <1>5, <1>6, StateStep DEF RunState

LEMMA ReleasedAfterState ==
  ASSUME NEW j, Ready(j), pass[j].kind = "incremental",
         pass[j].stage \in {"enrich", "carried"}, NEW store,
         store \in {Now, Released(pass[j].run, "awaiting_review")},
         store.runs[pass[j].run].state # "cancelled",
         drafts' = store.drafts, Release(j, pass[j].run, store)
  PROVE  Summary(j)
<1> DEFINE r == pass[j].run
<1>0. /\ r \in DOMAIN runs /\ runs \in Seq(RunType) /\ runs[r].draft \in Nat
      /\ runs[r].state \in RunState
  BY ReadyFacts, RunFields
<1> DEFINE st == Settled(store.runs[r].state)
<1>1. st \in AtRest /\ st \in RunState
  <2>1. store.runs[r].state \in {runs[r].state, "awaiting_review"}
    BY <1>0, ReleasedRuns
  <2> QED
    BY <1>0, <2>1 DEF Settled, AtRest, RunState
<1>2. PutState(store.runs, r, st) = PutState(runs, r, st) /\ drafts' = drafts
      /\ store.runs[r].draft = runs[r].draft /\ r \in DOMAIN store.runs
  BY <1>0, ReleasedRuns
<1>3. runs' = [runs EXCEPT ![r].state = st]
  BY <1>2 DEF Release, PutState
<1>4. Effect(j, r, runs[r].draft, st, Idle)
  BY <1>1 DEF Effect, Settles
<1>5. PublishedBecomes(j, r, runs[r].draft)
  BY <1>0, <1>2 DEF Release, PublishedBecomes, MayReplace
<1> HIDE DEF st
<1> QED
  BY <1>1, <1>2, <1>3, <1>4, <1>5, StateStep DEF Release, Finish

LEMMA IncrementalScannedSummary ==
  ASSUME NEW j, Ready(j), IncrementalScanned(j)
  PROVE  Summary(j)
<1> DEFINE r == pass[j].run
           baseline == runs[r].baseline
           store == Installed(r, baseline, "incremental", runs[r].state)
<1>0. baseline \in Nat /\ runs[r].state \in RunState
  BY ReadyFacts, RunFields
<1>1. CASE Cancelled(r) /\ Finish(j) /\ UNCHANGED <<runs, drafts, published>>
  <2>1. Effect(j, r, runs[r].draft, runs[r].state, Idle)
    BY <1>1 DEF Effect, Abandons, Cancelled
  <2> QED
    BY <1>1, <2>1, SameStep DEF Finish
<1>2. CASE ~Cancelled(r) /\ drafts' = store.drafts
  <2>1. Origin(j, r, baseline)
    BY DEF IncrementalScanned, Origin
  <2>2. pass[j].kind = "incremental" /\ pass[j].stage # "start" /\ runs[r].state # "cancelled"
    BY <1>2 DEF IncrementalScanned, Cancelled
  <2>3. CASE NextRetry(j, r, store, "enrich")
    BY <1>0, <1>2, <2>1, <2>2, <2>3, GoesOnAfterInstall
  <2>4. CASE NextRetry(j, r, store, "carried")
    BY <1>0, <1>2, <2>1, <2>2, <2>4, GoesOnAfterInstall
  <2>5. CASE Release(j, r, store)
    BY <1>0, <1>2, <2>1, <2>2, <2>5, ReleasedAfterInstall
  <2> QED
    BY <1>2, <2>2, <2>3, <2>4, <2>5 DEF IncrementalScanned
<1> QED
  BY <1>1, <1>2 DEF IncrementalScanned

LEMMA IncrementalEnrichedSummary ==
  ASSUME NEW j, Ready(j), IncrementalEnriched(j)
  PROVE  Summary(j)
<1> DEFINE r == pass[j].run
           base == pass[j].base
<1>0. base \in Nat /\ runs[r].state \in RunState /\ runs[r] \in RunType /\ r \in DOMAIN runs
  BY ReadyFacts, RunFields, PassFields
<1>1. /\ pass[j].kind = "incremental" /\ pass[j].stage # "start"
      /\ pass[j].stage \in {"enrich", "carried"}
  BY DEF IncrementalEnriched
<1>2. PICK store \in RetryOutcomes(r, base, "incremental") :
        /\ drafts' = store.drafts
        /\ \/ /\ store.runs[r].state = "cancelled"
              /\ runs' = store.runs
              /\ Finish(j)
              /\ UNCHANGED published
           \/ /\ store.runs[r].state # "cancelled"
              /\ NextRetry(j, r, store, "carried") \/ Release(j, r, store)
  BY DEF IncrementalEnriched
<1>3. CASE store \in {Now, Released(r, "awaiting_review")}
  <2>1. CASE NextRetry(j, r, store, "carried")
    BY <1>1, <1>2, <1>3, <2>1, GoesOnAfterState
  <2>2. CASE store.runs[r].state # "cancelled" /\ Release(j, r, store)
    BY <1>1, <1>2, <1>3, <2>2, ReleasedAfterState
  <2>3. CASE store.runs[r].state = "cancelled" /\ runs' = store.runs /\ Finish(j)
              /\ UNCHANGED published
    <3>1. store = Now
      BY <1>0, <1>3, <2>3, ReadyFacts, ReleasedRuns
    <3>2. runs' = runs /\ drafts' = drafts /\ Cancelled(r)
      BY <1>2, <2>3, <3>1 DEF Now, Cancelled
    <3>3. Effect(j, r, runs[r].draft, runs[r].state, Idle)
      BY <3>2 DEF Effect, Abandons, Cancelled
    <3> QED
      BY <2>3, <3>2, <3>3, SameStep DEF Finish
  <2> QED
    BY <1>2, <2>1, <2>2, <2>3
<1>4. CASE /\ store = Installed(r, base, "incremental", "awaiting_review")
           /\ ~Cancelled(r) /\ runs[r].draft = base
  <2>1. Origin(j, r, base)
    BY <1>1, <1>4 DEF Origin
  <2>2. "awaiting_review" \in RunState
    BY DEF RunState
  <2>3. store.runs[r].state = "awaiting_review"
    BY <1>0, <1>4 DEF Installed, RunType
  <2>4. CASE NextRetry(j, r, store, "carried")
    BY <1>0, <1>1, <1>2, <1>4, <2>1, <2>2, <2>4, GoesOnAfterInstall
  <2>5. CASE Release(j, r, store)
    BY <1>0, <1>1, <1>2, <1>4, <2>1, <2>2, <2>5, ReleasedAfterInstall
  <2> QED
    BY <1>2, <2>3, <2>4, <2>5
<1> QED
  BY <1>2, <1>3, <1>4 DEF RetryOutcomes

LEMMA AdvanceSummary ==
  ASSUME NEW j, Ready(j), Advance(j)
  PROVE  Summary(j)
BY RunStartSummary, RunScannedSummary, RunEnrichedSummary, RetryStartSummary,
   RetryEnrichedSummary, ClaimsCheckedSummary, IncrementalStartSummary,
   IncrementalResolvedSummary, IncrementalScannedSummary, IncrementalEnrichedSummary,
   PassFailsSummary DEF Advance

-----------------------------------------------------------------------------
(* The inductive invariant.                                                *)

\* A queued run has a pass that still has to start.
QueuedHasStarter ==
  \A r \in DOMAIN runs : runs[r].state = "queued" =>
    \E j \in Jobs : PassOf(j, r) /\ pass[j].stage = "start"

\* The pass has started and does not leave r as it is when it ends.
Settler(j, r) ==
  /\ PassOf(j, r) /\ pass[j].stage # "start"
  /\ pass[j].kind = "retry" => pass[j].base = runs[r].draft

\* A running run has a pass that will settle it.
RunningHasSettler ==
  \A r \in DOMAIN runs : runs[r].state = "running" => \E j \in Jobs : Settler(j, r)

\* Before its first draft a run can be cancelled but not put to work again.
DraftlessHasOnePass ==
  \A i, j \in Jobs : Live(i) /\ Live(j) /\ pass[i].run = pass[j].run /\ i # j =>
    runs[pass[i].run].draft # None

\* Nobody installs a draft under a full pass whose run was not cancelled under it.
FullPassIsCurrent ==
  \A j \in Jobs : pass[j].kind = "run" /\ ~runs[pass[j].run].stopped =>
    runs[pass[j].run].draft = IF pass[j].stage = "enrich" THEN pass[j].base ELSE None

UnscannedIsDraftless ==
  \A j \in Jobs :
    pass[j].kind = "incremental" /\ pass[j].stage \in {"start", "resolve", "scan"} =>
      runs[pass[j].run].draft = None

PublishersExist ==
  \A v \in DOMAIN published : published[v].by # None => published[v].by \in DOMAIN runs

IInv ==
  /\ TypeOK /\ PassesOfRuns
  /\ QueuedHasStarter /\ RunningHasSettler
  /\ ExclusiveUnlessStopped /\ DraftlessHasOnePass
  /\ FullPassIsCurrent /\ UnscannedIsDraftless
  /\ PublishersExist /\ AutoReplacesBaseline

LEMMA InitInv ==
  ASSUME Init
  PROVE  IInv
<1>1. runs = <<>> /\ drafts = <<>> /\ published = <<>> /\ DOMAIN runs = {} /\ DOMAIN published = {}
  BY DEF Init
<1>2. pass = [j \in Jobs |-> Idle]
  BY DEF Init
<1>3. TypeOK
  BY <1>1, <1>2 DEF TypeOK
<1>4. \A j \in Jobs : ~Live(j) /\ pass[j].kind = "idle"
  BY <1>2 DEF Live, Idle
<1> QED
  BY <1>1, <1>3, <1>4
  DEF IInv, PassesOfRuns, QueuedHasStarter, RunningHasSettler, ExclusiveUnlessStopped,
      DraftlessHasOnePass, FullPassIsCurrent, UnscannedIsDraftless, PublishersExist,
      AutoReplacesBaseline

LEMMA PassAt ==
  ASSUME pass \in [Jobs -> PassType \cup {Idle}], NEW i \in Jobs
  PROVE  /\ Live(i) => /\ pass[i] \in PassType /\ pass[i].kind \in JobKind
                       /\ pass[i].stage \in Stage
         /\ pass[i].kind \in JobKind => Live(i)
<1>1. ASSUME Live(i)
      PROVE  pass[i] \in PassType /\ pass[i].kind \in JobKind /\ pass[i].stage \in Stage
  BY <1>1, PassFields DEF Live
<1>2. ASSUME pass[i].kind \in JobKind
      PROVE  Live(i)
  BY <1>2 DEF Live, Idle, JobKind
<1> QED
  BY <1>1, <1>2

-----------------------------------------------------------------------------
(* A step of a pass keeps the invariant.                                   *)

\* A pass that goes on: it has a later stage, and the base its kind goes by.
NextPass(j, r, d, p) ==
  /\ p # Idle /\ p.run = r /\ p.kind = pass[j].kind
  /\ p.stage \in Stage /\ p.stage # "start"
  /\ p.kind = "retry" => p.base = d
  /\ p.kind = "run" =>
       IF p.stage = "enrich" THEN p.base = d
       ELSE pass[j].stage = "start" /\ d = runs[r].draft
  /\ p.kind = "incremental" /\ p.stage \in {"resolve", "scan"} =>
       pass[j].stage \in {"start", "resolve"} /\ d = runs[r].draft
  /\ p.kind = "incremental" /\ p.stage \in {"enrich", "carried"} =>
       pass[j].stage \in {"enrich", "carried"} \/ d = Len(drafts) + 1

LEMMA NextPassFacts ==
  ASSUME NEW j, pass[j] \in PassType, NEW d \in Nat, NEW st, NEW p,
         \/ Starts(j, pass[j].run, d, st, p) \/ Resolves(j, pass[j].run, d, st, p)
         \/ Scans(j, pass[j].run, d, st, p) \/ GoesOn(j, pass[j].run, d, st, p)
  PROVE  NextPass(j, pass[j].run, d, p)
<1> DEFINE r == pass[j].run
<1>1. ASSUME NEW s \in Stage, p = [pass[j] EXCEPT !.stage = s]
      PROVE  p # Idle /\ p.run = r /\ p.kind = pass[j].kind /\ p.base = pass[j].base /\ p.stage = s
  <2>1. p \in PassType
    BY <1>1, PassFields
  <2>2. p # Idle
    BY <2>1, PassFields
  <2> QED
    BY <1>1, <2>2 DEF PassType
<1>2. ASSUME NEW s \in Stage, p = [pass[j] EXCEPT !.stage = s, !.base = d]
      PROVE  p # Idle /\ p.run = r /\ p.kind = pass[j].kind /\ p.base = d /\ p.stage = s
  <2>1. p \in PassType
    BY <1>2, PassFields
  <2>2. p # Idle
    BY <2>1, PassFields
  <2> QED
    BY <1>2, <2>2 DEF PassType
<1>3. CASE Starts(j, r, d, st, p)
  BY <1>1, <1>3 DEF Starts, Stage, NextPass
<1>4. CASE Resolves(j, r, d, st, p)
  BY <1>1, <1>4 DEF Resolves, Stage, NextPass
<1>5. CASE Scans(j, r, d, st, p)
  BY <1>2, <1>5 DEF Scans, Stage, NextPass
<1>6. CASE GoesOn(j, r, d, st, p)
  BY <1>2, <1>6 DEF GoesOn, Stage, NextPass
<1> QED
  BY <1>3, <1>4, <1>5, <1>6

\* What every step of a pass does to the passes and the runs.
StepFacts(j, r, d, st, p) ==
  /\ j \in Jobs /\ r = pass[j].run /\ r \in DOMAIN runs /\ DOMAIN runs' = DOMAIN runs
  /\ PassOf(j, r) /\ pass[j].stage \in Stage /\ pass[j].kind \in JobKind
  /\ \A i \in Jobs : i # j => pass'[i] = pass[i]
  /\ pass'[j] = p
  /\ \/ p = Idle
     \/ NextPass(j, r, d, p)
  /\ \A t \in DOMAIN runs :
       /\ runs'[t].version = runs[t].version /\ runs'[t].stopped = runs[t].stopped
       /\ t # r => /\ runs'[t].draft = runs[t].draft
                   /\ runs'[t].state \in {"queued", "running"} => runs'[t].state = runs[t].state
                   /\ runs[t].state \in {"queued", "running"} => runs'[t].state = runs[t].state
  /\ runs'[r].draft = d /\ runs'[r].state = st
  /\ Effect(j, r, d, st, p)
  /\ p = Idle => \/ Abandons(r, d, st, p) \/ Settles(r, d, st, p)
                 \/ GivesWay(j, r, d, st, p) \/ Installs(j, r, d, st, p)
  /\ d = runs[r].draft \/ d # None

LEMMA OutcomeFacts ==
  ASSUME NEW j, Ready(j), NEW d, NEW st, NEW p, Outcome(j, d, st, p)
  PROVE  StepFacts(j, pass[j].run, d, st, p)
<1> DEFINE r == pass[j].run
<1>1. /\ pass \in [Jobs -> PassType \cup {Idle}] /\ pass[j] \in PassType
      /\ r \in DOMAIN runs /\ Len(drafts) \in Nat /\ j \in Jobs /\ Live(j)
  BY ReadyFacts DEF Ready
<1>2. PassOf(j, r) /\ pass[j].stage \in Stage /\ pass[j].kind \in JobKind
  BY <1>1, PassFields DEF PassOf
<1>3. pass'[j] = p /\ \A i \in Jobs : i # j => pass'[i] = pass[i]
  BY <1>1 DEF Outcome
<1>4. \/ NextPass(j, r, d, p)
      \/ Abandons(r, d, st, p) \/ Settles(r, d, st, p)
      \/ GivesWay(j, r, d, st, p) \/ Installs(j, r, d, st, p)
  BY <1>1, NextPassFacts DEF Outcome, Effect
<1>5. /\ p = Idle \/ NextPass(j, r, d, p)
      /\ p = Idle => \/ Abandons(r, d, st, p) \/ Settles(r, d, st, p)
                     \/ GivesWay(j, r, d, st, p) \/ Installs(j, r, d, st, p)
  <2>1. NextPass(j, r, d, p) => p # Idle
    BY DEF NextPass
  <2>2. Abandons(r, d, st, p) \/ Settles(r, d, st, p) \/ GivesWay(j, r, d, st, p)
          \/ Installs(j, r, d, st, p) => p = Idle
    BY DEF Abandons, Settles, GivesWay, Installs
  <2> QED
    BY <1>4, <2>1, <2>2
<1>6. d = runs[r].draft \/ d # None
  BY <1>1 DEF Outcome, DraftsBecome, None
<1>7. RunsBecome(r, d, st) /\ Effect(j, r, d, st, p)
  BY DEF Outcome
<1> QED
  BY <1>1, <1>2, <1>3, <1>5, <1>6, <1>7 DEF StepFacts, RunsBecome, SameOrigin

LEMMA StepKeepsQueued ==
  ASSUME IInv, NEW j, NEW r, NEW d, NEW st, NEW p, StepFacts(j, r, d, st, p)
  PROVE  QueuedHasStarter'
<1> SUFFICES ASSUME NEW t \in DOMAIN runs', runs'[t].state = "queued"
             PROVE  \E i \in Jobs : PassOf(i, t)' /\ pass'[i].stage = "start"
  BY DEF QueuedHasStarter
<1>1. runs[t].state = "queued"
  BY DEF StepFacts, Effect, Abandons, Settles, AtRest, GivesWay, Starts, Resolves, Scans,
         Installs, GoesOn
<1>2. PICK i \in Jobs : PassOf(i, t) /\ pass[i].stage = "start"
  BY <1>1 DEF IInv, QueuedHasStarter, StepFacts
<1>3. i # j
  BY <1>1, <1>2 DEF StepFacts, PassOf, Effect, Abandons, Settles, AtRest, GivesWay, Starts,
         Resolves, Scans, Installs, GoesOn, Cancelled
<1> QED
  BY <1>2, <1>3 DEF StepFacts, PassOf, Live

LEMMA StepKeepsRunning ==
  ASSUME IInv, NEW j, NEW r, NEW d, NEW st, NEW p, StepFacts(j, r, d, st, p)
  PROVE  RunningHasSettler'
<1> SUFFICES ASSUME NEW t \in DOMAIN runs', runs'[t].state = "running"
             PROVE  \E i \in Jobs : Settler(i, t)'
  BY DEF RunningHasSettler
<1>1. t \in DOMAIN runs /\ j \in Jobs
  BY DEF StepFacts
<1>2. CASE t = r /\ p # Idle
  BY <1>1, <1>2 DEF StepFacts, NextPass, Settler, PassOf, Live
<1>3. CASE t = r /\ p = Idle
  <2>1. GivesWay(j, r, d, st, p) /\ runs[r].state = "running"
    BY <1>3 DEF StepFacts, Abandons, Settles, AtRest, GivesWay, Installs
  <2>2. PICK i \in Jobs : Settler(i, r)
    BY <1>1, <1>3, <2>1 DEF IInv, RunningHasSettler
  <2>3. i # j
    BY <2>1, <2>2 DEF GivesWay, Settler
  <2> QED
    BY <1>3, <2>1, <2>2, <2>3 DEF StepFacts, Settler, PassOf, Live, GivesWay
<1>4. CASE t # r
  <2>1. PICK i \in Jobs : Settler(i, t)
    BY <1>1, <1>4 DEF StepFacts, IInv, RunningHasSettler
  <2>2. i # j
    BY <1>4, <2>1 DEF StepFacts, Settler, PassOf
  <2> QED
    BY <1>1, <1>4, <2>1, <2>2 DEF StepFacts, Settler, PassOf, Live
<1> QED
  BY <1>2, <1>3, <1>4

LEMMA StepKeepsExclusive ==
  ASSUME IInv, NEW j, NEW r, NEW d, NEW st, NEW p, StepFacts(j, r, d, st, p)
  PROVE  ExclusiveUnlessStopped'
<1> SUFFICES ASSUME NEW t \in DOMAIN runs', ~runs'[t].stopped
             PROVE  /\ \A i, k \in Jobs : PassOf(i, t)' /\ PassOf(k, t)' => i = k
                    /\ ~Active(t)' => \A i \in Jobs : ~PassOf(i, t)'
  BY DEF ExclusiveUnlessStopped
<1>1. t \in DOMAIN runs /\ ~runs[t].stopped
  BY DEF StepFacts
<1>2. /\ \A i, k \in Jobs : PassOf(i, t) /\ PassOf(k, t) => i = k
      /\ ~Active(t) => \A i \in Jobs : ~PassOf(i, t)
  BY <1>1 DEF IInv, ExclusiveUnlessStopped
<1>3. \A i \in Jobs : PassOf(i, t)' => PassOf(i, t)
  BY DEF StepFacts, PassOf, Live, NextPass
<1>4. ASSUME ~Active(t)', NEW i \in Jobs, PassOf(i, t)'
      PROVE  FALSE
  <2>1. PassOf(i, t) /\ Active(t)
    BY <1>2, <1>3, <1>4
  <2>2. t = r
    BY <1>1, <1>4, <2>1 DEF StepFacts, Active
  <2>3. i = j /\ p # Idle
    BY <1>2, <1>4, <2>1, <2>2 DEF StepFacts, PassOf, Live
  <2>4. runs'[r].state \in {"queued", "running"}
    BY <2>1, <2>2, <2>3 DEF StepFacts, Effect, Abandons, Settles, GivesWay, Starts, Resolves,
           Scans, Installs, GoesOn, Active, Cancelled
  <2> QED
    BY <1>4, <2>2, <2>4 DEF Active
<1> QED
  BY <1>2, <1>3, <1>4

LEMMA StepKeepsBases ==
  ASSUME IInv, NEW j, NEW r, NEW d, NEW st, NEW p, StepFacts(j, r, d, st, p)
  PROVE  DraftlessHasOnePass' /\ FullPassIsCurrent' /\ UnscannedIsDraftless'
<1>1. \A i \in Jobs : pass[i].kind \in JobKind => Live(i) /\ pass[i].run \in DOMAIN runs
  BY PassAt DEF IInv, TypeOK, PassesOfRuns
<1>2. \A i \in Jobs : pass'[i] # Idle => pass[i] # Idle /\ pass'[i].run = pass[i].run
  BY DEF StepFacts, NextPass, PassOf, Live
<1>3. \A i \in Jobs : pass'[i].kind \in JobKind => pass'[i] # Idle
  BY DEF Idle, JobKind
<1>4. DraftlessHasOnePass'
  <2> SUFFICES ASSUME NEW i \in Jobs, NEW k \in Jobs, Live(i)', Live(k)',
                      pass'[i].run = pass'[k].run, i # k
               PROVE  runs'[pass'[i].run].draft # None
    BY DEF DraftlessHasOnePass
  <2>1. Live(i) /\ Live(k) /\ pass[i].run = pass[k].run /\ pass'[i].run = pass[i].run
    BY <1>2 DEF Live
  <2>2. runs[pass[i].run].draft # None /\ pass[i].run \in DOMAIN runs
    BY <2>1 DEF IInv, DraftlessHasOnePass, PassesOfRuns
  <2> QED
    BY <2>1, <2>2 DEF StepFacts
<1>5. FullPassIsCurrent'
  <2> SUFFICES ASSUME NEW i \in Jobs, pass'[i].kind = "run", ~runs'[pass'[i].run].stopped
               PROVE  runs'[pass'[i].run].draft
                        = IF pass'[i].stage = "enrich" THEN pass'[i].base ELSE None
    BY DEF FullPassIsCurrent
  <2>1. pass'[i] # Idle
    BY <1>3 DEF JobKind
  <2>2. pass[i] # Idle /\ pass'[i].run = pass[i].run /\ pass[i].run \in DOMAIN runs
    BY <1>2, <2>1 DEF IInv, PassesOfRuns, Live
  <2>3. CASE i = j
    BY <2>1, <2>3 DEF StepFacts, NextPass, IInv, FullPassIsCurrent
  <2>4. CASE i # j
    <3>1. pass[i].run # r
      BY <2>2, <2>4 DEF StepFacts, PassOf, Live, IInv, ExclusiveUnlessStopped
    <3> QED
      BY <2>2, <2>4, <3>1 DEF StepFacts, IInv, FullPassIsCurrent
  <2> QED
    BY <2>3, <2>4
<1>6. UnscannedIsDraftless'
  <2> SUFFICES ASSUME NEW i \in Jobs, pass'[i].kind = "incremental",
                      pass'[i].stage \in {"start", "resolve", "scan"}
               PROVE  runs'[pass'[i].run].draft = None
    BY DEF UnscannedIsDraftless
  <2>1. pass'[i] # Idle
    BY <1>3 DEF JobKind
  <2>2. pass[i] # Idle /\ pass'[i].run = pass[i].run /\ pass[i].run \in DOMAIN runs
    BY <1>2, <2>1 DEF IInv, PassesOfRuns, Live
  <2>3. CASE i = j
    BY <2>1, <2>3 DEF StepFacts, NextPass, IInv, UnscannedIsDraftless
  <2>4. CASE i # j
    <3>1. runs[pass[i].run].draft = None
      BY <2>4 DEF StepFacts, IInv, UnscannedIsDraftless
    <3>2. pass[i].run # r
      BY <2>2, <2>4, <3>1 DEF StepFacts, PassOf, Live, IInv, DraftlessHasOnePass
    <3> QED
      BY <2>2, <3>1, <3>2 DEF StepFacts
  <2> QED
    BY <2>3, <2>4
<1> QED
  BY <1>4, <1>5, <1>6

DraftType == [run : Nat, parent : Nat, by : JobKind]

VersionType == [draft : Nat, by : Nat]

LEMMA StepKeepsTypes ==
  ASSUME IInv, NEW j, Ready(j), NEW d, NEW st, NEW p, Outcome(j, d, st, p)
  PROVE  TypeOK' /\ PassesOfRuns'
<1> DEFINE r == pass[j].run
<1>0. /\ pass \in [Jobs -> PassType \cup {Idle}] /\ pass[j] \in PassType
      /\ r \in DOMAIN runs /\ runs \in Seq(RunType) /\ pass[j].kind \in JobKind
  BY ReadyFacts, PassFields
<1>1. runs' \in Seq(RunType) /\ DOMAIN runs' = DOMAIN runs
  BY DEF Outcome, RunsBecome
<1>2. pass' \in [Jobs -> PassType \cup {Idle}]
  BY <1>0 DEF Outcome
<1>3. r \in Nat
  BY <1>0, LenProperties
<1>4. drafts' \in Seq(DraftType)
  <2>1. drafts \in Seq(DraftType)
    BY DEF IInv, TypeOK, DraftType
  <2> DEFINE row(parent) == [run |-> r, parent |-> parent, by |-> pass[j].kind]
  <2>2. \A parent \in Nat : row(parent) \in DraftType
    BY <1>0, <1>3 DEF DraftType
  <2> HIDE DEF row
  <2> QED
    <3>1. CASE drafts' = drafts
      BY <2>1, <3>1
    <3>2. ASSUME NEW parent \in Nat, drafts' = Append(drafts, row(parent))
          PROVE  drafts' \in Seq(DraftType)
      BY <2>1, <2>2, <3>2, AppendProperties
    <3>3. drafts' = drafts \/ \E parent \in Nat : drafts' = Append(drafts, row(parent))
      BY DEF Outcome, DraftsBecome, row
    <3> QED
      BY <3>1, <3>2, <3>3
<1>5. published' \in Seq(VersionType)
  <2>1. published \in Seq(VersionType)
    BY DEF IInv, TypeOK, VersionType
  <2> DEFINE row(v) == [draft |-> v, by |-> r]
  <2>2. \A v \in Nat : row(v) \in VersionType
    BY <1>3 DEF VersionType
  <2> HIDE DEF row
  <2> QED
    <3>1. CASE published' = published
      BY <2>1, <3>1
    <3>2. CASE published' = Append(published, row(d))
      <4>1. d \in Nat
        BY DEF Outcome
      <4> QED
        BY <2>1, <2>2, <3>2, <4>1, AppendProperties
    <3>3. published' = published \/ published' = Append(published, row(d))
      BY DEF Outcome, PublishedBecomes, row
    <3> QED
      BY <3>1, <3>2, <3>3
<1>6. PassesOfRuns'
  <2>1. StepFacts(j, r, d, st, p)
    BY OutcomeFacts
  <2>2. \A i \in Jobs : pass[i] # Idle => pass[i].run \in DOMAIN runs
    BY DEF IInv, PassesOfRuns, Live
  <2> QED
    BY <2>1, <2>2 DEF StepFacts, NextPass, PassesOfRuns, Live
<1> QED
  BY <1>1, <1>2, <1>4, <1>5, <1>6 DEF TypeOK, DraftType, VersionType

\* A publication by run r extends the history; the runs keep their versions.
LEMMA PublishedKeeps ==
  ASSUME IInv, NEW by \in Nat, NEW d \in Nat,
         by # None => by \in DOMAIN runs /\ runs[by].version = Len(published),
         published' = Append(published, [draft |-> d, by |-> by]),
         \A t \in DOMAIN runs : t \in DOMAIN runs' /\ runs'[t].version = runs[t].version
  PROVE  PublishersExist' /\ AutoReplacesBaseline'
<1> DEFINE row == [draft |-> d, by |-> by]
<1>1. published \in Seq(VersionType) /\ row \in VersionType /\ row.by = by
  BY DEF IInv, TypeOK, VersionType
<1>2. PICK n \in Nat : n = Len(published) /\ DOMAIN published = 1..n
  BY <1>1, LenProperties
<1> HIDE DEF row
<1>3. published' = Append(published, row)
  BY DEF row
<1>4. DOMAIN published' = 1..(n + 1) /\ published'[n + 1] = row
      /\ \A v \in 1..n : published'[v] = published[v]
  BY <1>1, <1>2, <1>3, AppendProperties
<1>5. \A v \in 1..(n + 1) : v \in 1..n \/ v = n + 1
  OBVIOUS
<1>6. \A v \in 1..n : published[v].by # None =>
        published[v].by \in DOMAIN runs /\ runs[published[v].by].version = v - 1
  BY <1>2 DEF IInv, PublishersExist, AutoReplacesBaseline
<1>7. by # None => by \in DOMAIN runs /\ runs[by].version = (n + 1) - 1
  BY <1>2
<1>8. \A v \in 1..(n + 1) : published'[v].by # None =>
        published'[v].by \in DOMAIN runs' /\ runs'[published'[v].by].version = v - 1
  <2> SUFFICES ASSUME NEW v \in 1..(n + 1), published'[v].by # None
               PROVE  published'[v].by \in DOMAIN runs'
                      /\ runs'[published'[v].by].version = v - 1
    OBVIOUS
  <2>1. CASE v \in 1..n
    BY <1>4, <1>6, <2>1
  <2>2. CASE v = n + 1
    BY <1>1, <1>4, <1>7, <2>2
  <2> QED
    BY <1>5, <2>1, <2>2
<1> QED
  BY <1>4, <1>8 DEF PublishersExist, AutoReplacesBaseline

LEMMA PublishedStays ==
  ASSUME IInv, published' = published,
         \A t \in DOMAIN runs : t \in DOMAIN runs' /\ runs'[t].version = runs[t].version
  PROVE  PublishersExist' /\ AutoReplacesBaseline'
BY DEF IInv, PublishersExist, AutoReplacesBaseline

LEMMA StepKeepsPublished ==
  ASSUME IInv, NEW j, Ready(j), NEW d, NEW st, NEW p, Outcome(j, d, st, p)
  PROVE  PublishersExist' /\ AutoReplacesBaseline'
<1> DEFINE r == pass[j].run
<1>0. r \in DOMAIN runs /\ runs \in Seq(RunType)
  BY ReadyFacts
<1>1. r \in Nat
  BY <1>0, LenProperties
<1>2. \A t \in DOMAIN runs : t \in DOMAIN runs' /\ runs'[t].version = runs[t].version
  BY DEF Outcome, RunsBecome, SameOrigin
<1>3. CASE published' = published
  BY <1>2, <1>3, PublishedStays
<1>4. CASE /\ runs[r].version = Len(published)
           /\ published' = Append(published, [draft |-> d, by |-> r])
  <2>1. d \in Nat
    BY DEF Outcome
  <2> QED
    BY <1>0, <1>1, <1>2, <1>4, <2>1, PublishedKeeps
<1> QED
  BY <1>3, <1>4 DEF Outcome, PublishedBecomes

LEMMA StepKeepsInv ==
  ASSUME IInv, NEW j \in Jobs, Advance(j)
  PROVE  IInv'
<1>1. Ready(j)
  BY DEF Ready, Advance, IInv
<1>2. PICK d, st, p : Outcome(j, d, st, p)
  BY <1>1, AdvanceSummary DEF Summary
<1>3. StepFacts(j, pass[j].run, d, st, p)
  BY <1>1, <1>2, OutcomeFacts
<1> QED
  BY <1>1, <1>2, <1>3, StepKeepsTypes, StepKeepsPublished, StepKeepsQueued,
     StepKeepsRunning, StepKeepsExclusive, StepKeepsBases DEF IInv

-----------------------------------------------------------------------------
(* What a step of a pass may never do.                                     *)

KeepsDraftOfCancelled ==
  \A r \in DOMAIN runs :
    Cancelled(r) /\ runs'[r].state = "cancelled" => runs'[r].draft = runs[r].draft

LosesNoRevision ==
  \A r \in DOMAIN runs :
    runs'[r].draft # runs[r].draft /\ runs[r].draft # None =>
      \/ drafts'[runs'[r].draft].parent = runs[r].draft
      \/ runs[r].stopped /\ drafts'[runs'[r].draft].by = "run"

LEMMA StepKeepsDrafts ==
  ASSUME IInv, NEW j \in Jobs, Advance(j)
  PROVE  KeepsDraftOfCancelled /\ LosesNoRevision
<1> DEFINE r == pass[j].run
<1>1. Ready(j)
  BY DEF Ready, Advance, IInv
<1>2. PICK d, st, p : Outcome(j, d, st, p)
  BY <1>1, AdvanceSummary DEF Summary
<1>3. StepFacts(j, r, d, st, p)
  BY <1>1, <1>2, OutcomeFacts
<1>4. KeepsDraftOfCancelled
  BY <1>3 DEF KeepsDraftOfCancelled, StepFacts, Effect, Abandons, Settles, AtRest, GivesWay,
              Starts, Resolves, Scans, Installs, GoesOn, Cancelled
<1>5. LosesNoRevision
  <2> SUFFICES ASSUME runs'[r].draft # runs[r].draft, runs[r].draft # None
               PROVE  \/ drafts'[runs'[r].draft].parent = runs[r].draft
                      \/ runs[r].stopped /\ drafts'[runs'[r].draft].by = "run"
    BY <1>3 DEF LosesNoRevision, StepFacts
  <2>1. d = Len(drafts) + 1 /\ runs'[r].draft = d
    BY <1>2, <1>3 DEF StepFacts, Outcome, DraftsBecome
  <2>2. PICK parent \in Nat : Origin(j, r, parent) /\
               drafts' = Append(drafts, [run |-> r, parent |-> parent, by |-> pass[j].kind])
    BY <1>2, <1>3 DEF StepFacts, Outcome, DraftsBecome
  <2>3. drafts'[d].parent = parent /\ drafts'[d].by = pass[j].kind
    <3> DEFINE row == [run |-> r, parent |-> parent, by |-> pass[j].kind]
    <3>1. row.parent = parent /\ row.by = pass[j].kind
      OBVIOUS
    <3> HIDE DEF row
    <3>2. drafts \in Seq(DraftType)
      BY DEF IInv, TypeOK, DraftType
    <3>3. drafts' = Append(drafts, row)
      BY <2>2 DEF row
    <3>4. drafts'[Len(drafts) + 1] = row
      BY <3>2, <3>3
    <3> QED
      BY <2>1, <3>1, <3>4
  <2>4. pass[j].kind = "incremental" => pass[j].stage # "scan"
    BY <1>3 DEF StepFacts, IInv, UnscannedIsDraftless
  <2>5. pass[j].kind = "run" /\ ~runs[r].stopped =>
          runs[r].draft = IF pass[j].stage = "enrich" THEN pass[j].base ELSE None
    BY DEF IInv, FullPassIsCurrent
  <2>6. parent = runs[r].draft \/ (runs[r].stopped /\ pass[j].kind = "run")
    <3>1. CASE parent = runs[r].draft
      BY <3>1
    <3>2. CASE pass[j].kind = "run" /\ pass[j].stage = "scan"
      <4>1. runs[r].stopped
        BY <2>5, <3>2
      <4> QED
        BY <3>2, <4>1
    <3>3. CASE pass[j].kind = "run" /\ pass[j].stage = "enrich" /\ parent = pass[j].base
      <4>1. runs[r].stopped \/ parent = runs[r].draft
        BY <2>5, <3>3
      <4> QED
        BY <3>3, <4>1
    <3>4. \/ parent = runs[r].draft
          \/ pass[j].kind = "run" /\ pass[j].stage = "scan"
          \/ pass[j].kind = "run" /\ pass[j].stage = "enrich" /\ parent = pass[j].base
      BY <2>2, <2>4 DEF Origin
    <3> QED
      BY <3>1, <3>2, <3>3, <3>4
  <2> QED
    BY <2>1, <2>3, <2>6
<1> QED
  BY <1>4, <1>5

-----------------------------------------------------------------------------
(* Requests, a restart and stuttering keep the invariant.                  *)

\* A pass added on a free slot, at its start.
Added(j, kind, r, base) ==
  /\ j \in Jobs /\ ~Live(j) /\ pass'[j] # Idle
  /\ pass'[j].kind = kind /\ pass'[j].run = r /\ pass'[j].base = base
  /\ pass'[j].stage = "start"
  /\ \A i \in Jobs : i # j => pass'[i] = pass[i]

LEMMA EnqueueFacts ==
  ASSUME pass \in [Jobs -> PassType \cup {Idle}], NEW kind \in JobKind, NEW r \in Nat,
         NEW base \in Nat, Enqueue(kind, r, base)
  PROVE  /\ pass' \in [Jobs -> PassType \cup {Idle}]
         /\ \E j \in Jobs : Added(j, kind, r, base)
<1> DEFINE q == [kind |-> kind, run |-> r, base |-> base, stage |-> "start", revoked |-> FALSE]
<1>1. PICK j \in Jobs : ~Live(j) /\ pass' = [pass EXCEPT ![j] = q]
  BY DEF Enqueue
<1>2. /\ q \in PassType /\ q.kind = kind /\ q.run = r /\ q.base = base
      /\ q.stage = "start"
  BY DEF PassType, Stage
<1>3. q # Idle
  BY <1>2, PassFields
<1> HIDE DEF q
<1>4. Added(j, kind, r, base)
  BY <1>1, <1>2, <1>3 DEF Added
<1> QED
  BY <1>1, <1>2, <1>4

LEMMA NewRunKeepsInv ==
  ASSUME IInv, NEW row \in RunType, row.state = "queued", row.draft = None, ~row.stopped,
         NEW kind \in {"run", "incremental"},
         runs' = Append(runs, row), Enqueue(kind, Len(runs) + 1, None),
         UNCHANGED <<drafts, published>>
  PROVE  IInv' /\ \A t \in DOMAIN runs : runs'[t] = runs[t]
<1>1. runs \in Seq(RunType) /\ pass \in [Jobs -> PassType \cup {Idle}]
  BY DEF IInv, TypeOK
<1>2. PICK n \in Nat : n = Len(runs) /\ DOMAIN runs = 1..n
  BY <1>1, LenProperties
<1>3. /\ runs' \in Seq(RunType) /\ DOMAIN runs' = 1..(n + 1) /\ runs'[n + 1] = row
      /\ \A t \in 1..n : runs'[t] = runs[t]
  BY <1>1, <1>2, AppendProperties
<1>4. /\ \A t \in 1..(n + 1) : t \in 1..n \/ t = n + 1
      /\ n + 1 \notin 1..n /\ n + 1 \in Nat /\ n + 1 \in 1..(n + 1) /\ None \in Nat
      /\ \A t \in 1..n : t \in 1..(n + 1)
  BY DEF None
<1>5. /\ pass' \in [Jobs -> PassType \cup {Idle}]
      /\ \E j \in Jobs : Added(j, kind, n + 1, None)
  BY <1>1, <1>2, <1>4, EnqueueFacts DEF JobKind
<1>6. PICK j \in Jobs : Added(j, kind, n + 1, None)
  BY <1>5
<1>7. \A i \in Jobs : pass[i] # Idle => pass[i].run \in 1..n
  BY <1>2 DEF IInv, PassesOfRuns, Live
<1>8. \A i \in Jobs : i # j => pass'[i] = pass[i]
  BY <1>6 DEF Added
<1>9. TypeOK' /\ PassesOfRuns'
  BY <1>3, <1>4, <1>5, <1>6, <1>7 DEF IInv, TypeOK, PassesOfRuns, Live, Added
<1>10. QueuedHasStarter'
  <2> SUFFICES ASSUME NEW t \in 1..(n + 1), runs'[t].state = "queued"
               PROVE  \E i \in Jobs : PassOf(i, t)' /\ pass'[i].stage = "start"
    BY <1>3 DEF QueuedHasStarter
  <2>1. CASE t = n + 1
    BY <1>6, <2>1 DEF Added, PassOf, Live
  <2>2. CASE t \in 1..n
    <3>1. PICK i \in Jobs : PassOf(i, t) /\ pass[i].stage = "start"
      BY <1>2, <1>3, <2>2 DEF IInv, QueuedHasStarter
    <3> QED
      BY <1>6, <3>1 DEF Added, PassOf, Live
  <2> QED
    BY <1>4, <2>1, <2>2
<1>11. RunningHasSettler'
  <2> SUFFICES ASSUME NEW t \in 1..(n + 1), runs'[t].state = "running"
               PROVE  \E i \in Jobs : Settler(i, t)'
    BY <1>3 DEF RunningHasSettler
  <2>1. t \in 1..n
    BY <1>3, <1>4
  <2>2. PICK i \in Jobs : Settler(i, t)
    BY <1>2, <1>3, <2>1 DEF IInv, RunningHasSettler
  <2> QED
    BY <1>3, <1>6, <2>1, <2>2 DEF Added, Settler, PassOf, Live
<1>12. ExclusiveUnlessStopped'
  <2> SUFFICES ASSUME NEW t \in 1..(n + 1), ~runs'[t].stopped
               PROVE  /\ \A i, k \in Jobs : PassOf(i, t)' /\ PassOf(k, t)' => i = k
                      /\ ~Active(t)' => \A i \in Jobs : ~PassOf(i, t)'
    BY <1>3 DEF ExclusiveUnlessStopped
  <2>1. CASE t = n + 1
    <3>1. \A i \in Jobs : PassOf(i, t)' => i = j
      BY <1>4, <1>7, <1>8, <2>1 DEF PassOf, Live
    <3>2. Active(t)'
      BY <1>3, <2>1 DEF Active
    <3> QED
      BY <3>1, <3>2
  <2>2. CASE t \in 1..n
    <3>1. \A i \in Jobs : PassOf(i, t)' => PassOf(i, t)
      BY <1>4, <1>6, <1>8, <2>2 DEF PassOf, Live, Added
    <3>2. Active(t) => Active(t)'
      BY <1>3, <2>2 DEF Active
    <3>3. /\ \A i, k \in Jobs : PassOf(i, t) /\ PassOf(k, t) => i = k
          /\ ~Active(t) => \A i \in Jobs : ~PassOf(i, t)
      BY <1>2, <1>3, <2>2 DEF IInv, ExclusiveUnlessStopped
    <3> QED
      BY <3>1, <3>2, <3>3
  <2> QED
    BY <1>4, <2>1, <2>2
<1>13. DraftlessHasOnePass'
  BY <1>3, <1>4, <1>6, <1>7, <1>8 DEF IInv, DraftlessHasOnePass, Live, Added
<1>14. \A i \in Jobs : i # j /\ pass'[i].kind \in JobKind =>
         pass[i].run \in 1..n /\ pass'[i] = pass[i]
  BY <1>1, <1>7, <1>8, PassAt DEF Live
<1>15. FullPassIsCurrent' /\ UnscannedIsDraftless'
  BY <1>3, <1>6, <1>14 DEF IInv, FullPassIsCurrent, UnscannedIsDraftless, Added, JobKind
<1>16. PublishersExist' /\ AutoReplacesBaseline'
  BY <1>2, <1>3, <1>4, PublishedStays
<1> QED
  BY <1>2, <1>3, <1>9, <1>10, <1>11, <1>12, <1>13, <1>15, <1>16 DEF IInv

LEMMA RequeueKeepsInv ==
  ASSUME IInv, NEW r \in DOMAIN runs, ~Active(r), runs[r].draft # None,
         NEW kind \in {"retry", "claims"},
         SetState(r, "queued"), Enqueue(kind, r, runs[r].draft),
         UNCHANGED <<drafts, published>>
  PROVE  IInv' /\ \A t \in DOMAIN runs : runs'[t].draft = runs[t].draft
<1>1. runs \in Seq(RunType) /\ pass \in [Jobs -> PassType \cup {Idle}]
  BY DEF IInv, TypeOK
<1>2. RunsBecome(r, runs[r].draft, "queued")
  BY <1>1, WithState DEF SetState, RunState
<1>3. r \in Nat /\ runs[r].draft \in Nat
  BY <1>1, LenProperties, RunAt, RunFields
<1>4. /\ pass' \in [Jobs -> PassType \cup {Idle}]
      /\ \E j \in Jobs : Added(j, kind, r, runs[r].draft)
  BY <1>1, <1>3, EnqueueFacts DEF JobKind
<1>5. PICK j \in Jobs : Added(j, kind, r, runs[r].draft)
  BY <1>4
<1>6. \A i \in Jobs : i # j => pass'[i] = pass[i]
  BY <1>5 DEF Added
<1>7. /\ DOMAIN runs' = DOMAIN runs /\ runs'[r].state = "queued"
      /\ \A t \in DOMAIN runs :
           /\ runs'[t].draft = runs[t].draft /\ runs'[t].stopped = runs[t].stopped
           /\ runs'[t].version = runs[t].version
           /\ t # r => runs'[t].state = runs[t].state
  BY <1>1, <1>2 DEF RunsBecome, SetState
<1>8. TypeOK' /\ PassesOfRuns'
  <2>1. TypeOK'
    BY <1>2, <1>4 DEF IInv, TypeOK, RunsBecome
  <2>2. PassesOfRuns'
    BY <1>5, <1>7 DEF IInv, PassesOfRuns, Live, Added
  <2> QED
    BY <2>1, <2>2
<1>9. QueuedHasStarter'
  <2> SUFFICES ASSUME NEW t \in DOMAIN runs, runs'[t].state = "queued"
               PROVE  \E i \in Jobs : PassOf(i, t)' /\ pass'[i].stage = "start"
    BY <1>7 DEF QueuedHasStarter
  <2>1. CASE t = r
    BY <1>5, <2>1 DEF Added, PassOf, Live
  <2>2. CASE t # r
    <3>1. PICK i \in Jobs : PassOf(i, t) /\ pass[i].stage = "start"
      BY <1>7, <2>2 DEF IInv, QueuedHasStarter
    <3> QED
      BY <1>5, <3>1 DEF Added, PassOf, Live
  <2> QED
    BY <2>1, <2>2
<1>10. RunningHasSettler'
  <2> SUFFICES ASSUME NEW t \in DOMAIN runs, runs'[t].state = "running"
               PROVE  \E i \in Jobs : Settler(i, t)'
    BY <1>7 DEF RunningHasSettler
  <2>1. PICK i \in Jobs : Settler(i, t)
    BY <1>7 DEF IInv, RunningHasSettler
  <2> QED
    BY <1>5, <1>7, <2>1 DEF Added, Settler, PassOf, Live
<1>11. ExclusiveUnlessStopped'
  <2> SUFFICES ASSUME NEW t \in DOMAIN runs, ~runs[t].stopped
               PROVE  /\ \A i, k \in Jobs : PassOf(i, t)' /\ PassOf(k, t)' => i = k
                      /\ ~Active(t)' => \A i \in Jobs : ~PassOf(i, t)'
    BY <1>7 DEF ExclusiveUnlessStopped
  <2>1. /\ \A i, k \in Jobs : PassOf(i, t) /\ PassOf(k, t) => i = k
        /\ ~Active(t) => \A i \in Jobs : ~PassOf(i, t)
    BY DEF IInv, ExclusiveUnlessStopped
  <2>2. CASE t = r
    <3>1. \A i \in Jobs : PassOf(i, t)' => i = j
      BY <1>6, <2>1, <2>2 DEF PassOf, Live
    <3>2. Active(t)'
      BY <1>7, <2>2 DEF Active
    <3> QED
      BY <3>1, <3>2
  <2>3. CASE t # r
    <3>1. \A i \in Jobs : PassOf(i, t)' => PassOf(i, t)
      BY <1>5, <1>6, <2>3 DEF PassOf, Live, Added
    <3>2. Active(t) => Active(t)'
      BY <1>7, <2>3 DEF Active
    <3> QED
      BY <2>1, <3>1, <3>2
  <2> QED
    BY <2>2, <2>3
<1>12. \A i \in Jobs : pass[i] # Idle => pass[i].run \in DOMAIN runs
  BY DEF IInv, PassesOfRuns, Live
<1>13. DraftlessHasOnePass'
  BY <1>5, <1>6, <1>7, <1>12 DEF IInv, DraftlessHasOnePass, Live, Added
<1>14. \A i \in Jobs : i # j /\ pass'[i].kind \in JobKind =>
         pass[i].run \in DOMAIN runs /\ pass'[i] = pass[i]
  BY <1>1, <1>6, <1>12, PassAt DEF Live
<1>15. FullPassIsCurrent' /\ UnscannedIsDraftless'
  BY <1>5, <1>7, <1>14 DEF IInv, FullPassIsCurrent, UnscannedIsDraftless, Added, JobKind
<1>16. PublishersExist' /\ AutoReplacesBaseline'
  BY <1>7, PublishedStays
<1> QED
  BY <1>7, <1>8, <1>9, <1>10, <1>11, <1>13, <1>15, <1>16 DEF IInv

LEMMA RevokedPass ==
  ASSUME NEW q \in PassType, NEW new, new = [q EXCEPT !.revoked = TRUE]
  PROVE  /\ new \in PassType /\ new.kind = q.kind /\ new.run = q.run
         /\ new.base = q.base /\ new.stage = q.stage /\ new # Idle
<1>1. /\ new \in PassType /\ new.kind = q.kind /\ new.run = q.run
      /\ new.base = q.base /\ new.stage = q.stage
  BY DEF PassType
<1> QED
  BY <1>1, PassFields

LEMMA CancelKeepsInv ==
  ASSUME IInv, NEW r \in DOMAIN runs, Cancel(r)
  PROVE  IInv' /\ \A t \in DOMAIN runs : runs'[t].draft = runs[t].draft
<1>1. runs \in Seq(RunType) /\ pass \in [Jobs -> PassType \cup {Idle}]
  BY DEF IInv, TypeOK
<1> DEFINE now == runs[r].stopped \/ \E j \in Jobs : PassOf(j, r)
           row == [runs[r] EXCEPT !.state = "cancelled", !.stopped = now]
<1>2. runs' = [runs EXCEPT ![r] = row]
  BY DEF Cancel
<1>3. runs[r] \in RunType /\ now \in BOOLEAN
  BY <1>1, RunAt, RunFields
<1>4. /\ row \in RunType /\ row.state = "cancelled" /\ row.stopped = now
      /\ row.draft = runs[r].draft /\ row.version = runs[r].version
  <2>1. row = [runs[r] EXCEPT !.state = "cancelled", !.stopped = now]
    OBVIOUS
  <2> HIDE DEF now, row
  <2>2. PICK old, b : old = runs[r] /\ b = now /\ old \in RunType /\ b \in BOOLEAN
    BY <1>3
  <2>3. row = [old EXCEPT !.state = "cancelled", !.stopped = b]
    BY <2>1, <2>2
  <2>4. /\ row \in RunType /\ row.state = "cancelled" /\ row.stopped = b
        /\ row.draft = old.draft /\ row.version = old.version
    BY <2>2, <2>3 DEF RunType, RunState
  <2> QED
    BY <2>2, <2>4
<1>5. now = FALSE => ~runs[r].stopped /\ \A j \in Jobs : ~PassOf(j, r)
  BY <1>3, RunFields
<1> HIDE DEF now, row
<1>6. runs' \in Seq(RunType) /\ DOMAIN runs' = DOMAIN runs
  <2>1. r \in 1..Len(runs)
    BY <1>1, LenProperties
  <2> QED
    BY <1>1, <1>2, <1>4, <2>1, ExceptSeq
<1>7. /\ runs'[r].state = "cancelled"
      /\ \A t \in DOMAIN runs :
           /\ runs'[t].draft = runs[t].draft /\ runs'[t].version = runs[t].version
           /\ t # r => runs'[t] = runs[t]
  BY <1>1, <1>2, <1>4
<1>8. ~runs'[r].stopped => ~runs[r].stopped /\ \A j \in Jobs : ~PassOf(j, r)
  BY <1>1, <1>2, <1>3, <1>4, <1>5
<1>9. \A i \in Jobs :
        /\ pass'[i] \in PassType \cup {Idle} /\ (pass'[i] = Idle) = (pass[i] = Idle)
        /\ pass'[i].run = pass[i].run /\ pass'[i].kind = pass[i].kind
        /\ pass'[i].base = pass[i].base /\ pass'[i].stage = pass[i].stage
  <2> SUFFICES ASSUME NEW i \in Jobs
               PROVE  /\ pass'[i] \in PassType \cup {Idle} /\ (pass'[i] = Idle) = (pass[i] = Idle)
                      /\ pass'[i].run = pass[i].run /\ pass'[i].kind = pass[i].kind
                      /\ pass'[i].base = pass[i].base /\ pass'[i].stage = pass[i].stage
    OBVIOUS
  <2>1. CASE PassOf(i, r)
    <3>1. pass[i] \in PassType /\ pass[i] # Idle
      BY <1>1, <2>1 DEF PassOf, Live
    <3>2. pass'[i] = [pass[i] EXCEPT !.revoked = TRUE]
      BY <2>1 DEF Cancel
    <3> QED
      BY <3>1, <3>2, RevokedPass
  <2>2. CASE ~PassOf(i, r)
    BY <1>1, <2>2 DEF Cancel
  <2> QED
    BY <2>1, <2>2
<1>10. pass' \in [Jobs -> PassType \cup {Idle}]
  <2>1. pass' = [i \in Jobs |-> pass'[i]]
    BY DEF Cancel
  <2> QED
    BY <1>9, <2>1
<1>11. \A i \in Jobs : \A t : PassOf(i, t)' = PassOf(i, t)
  BY <1>9 DEF PassOf, Live
<1>12. drafts' = drafts /\ published' = published
  BY DEF Cancel
<1>13. TypeOK' /\ PassesOfRuns'
  BY <1>6, <1>9, <1>10, <1>12 DEF IInv, TypeOK, PassesOfRuns, Live
<1>14. QueuedHasStarter'
  BY <1>6, <1>7, <1>9, <1>11 DEF IInv, QueuedHasStarter
<1>15. RunningHasSettler'
  BY <1>6, <1>7, <1>9, <1>11 DEF IInv, RunningHasSettler, Settler
<1>16. ExclusiveUnlessStopped'
  <2> SUFFICES ASSUME NEW t \in DOMAIN runs, ~runs'[t].stopped
               PROVE  /\ \A i, k \in Jobs : PassOf(i, t) /\ PassOf(k, t) => i = k
                      /\ ~Active(t)' => \A i \in Jobs : ~PassOf(i, t)
    BY <1>6, <1>11 DEF ExclusiveUnlessStopped
  <2>1. CASE t = r
    BY <1>8, <2>1
  <2>2. CASE t # r
    BY <1>7, <2>2 DEF IInv, ExclusiveUnlessStopped, Active
  <2> QED
    BY <2>1, <2>2
<1>17. \A i \in Jobs : pass[i].kind \in JobKind => pass[i].run \in DOMAIN runs
  BY <1>1, PassAt DEF IInv, PassesOfRuns
<1>18. DraftlessHasOnePass' /\ UnscannedIsDraftless'
  BY <1>7, <1>9, <1>17 DEF IInv, PassesOfRuns, DraftlessHasOnePass, UnscannedIsDraftless, Live,
     JobKind
<1>19. FullPassIsCurrent'
  <2> SUFFICES ASSUME NEW i \in Jobs, pass'[i].kind = "run", ~runs'[pass'[i].run].stopped
               PROVE  runs'[pass'[i].run].draft
                        = IF pass'[i].stage = "enrich" THEN pass'[i].base ELSE None
    BY DEF FullPassIsCurrent
  <2>1. pass[i].kind = "run" /\ pass[i].run \in DOMAIN runs /\ pass'[i].run = pass[i].run
    BY <1>9, <1>17 DEF JobKind
  <2>2. ~runs[pass[i].run].stopped
    BY <1>7, <1>8, <2>1
  <2> QED
    BY <1>7, <1>9, <2>1, <2>2 DEF IInv, FullPassIsCurrent
<1>20. PublishersExist' /\ AutoReplacesBaseline'
  BY <1>6, <1>7, <1>12, PublishedStays
<1> QED
  BY <1>7, <1>13, <1>14, <1>15, <1>16, <1>18, <1>19, <1>20 DEF IInv

LEMMA RestartKeepsInv ==
  ASSUME IInv, Restart
  PROVE  IInv' /\ \A t \in DOMAIN runs : runs'[t].draft = runs[t].draft
<1>1. runs \in Seq(RunType)
  BY DEF IInv, TypeOK
<1> DEFINE st(t) == IF Active(t) THEN "interrupted" ELSE runs[t].state
<1>2. \A t \in DOMAIN runs : runs'[t] = [runs[t] EXCEPT !.state = st(t), !.stopped = FALSE]
  BY DEF Restart
<1>3. \A t \in DOMAIN runs :
        runs[t] \in RunType /\ st(t) \in RunState /\ st(t) \notin {"queued", "running"}
  BY <1>1, RunAt, RunFields DEF RunState, Active
<1> HIDE DEF st
<1>4. \A t \in DOMAIN runs :
        /\ runs'[t] \in RunType /\ runs'[t].state \notin {"queued", "running"}
        /\ runs'[t].draft = runs[t].draft /\ runs'[t].version = runs[t].version
  <2> SUFFICES ASSUME NEW t \in DOMAIN runs
               PROVE  /\ runs'[t] \in RunType /\ runs'[t].state \notin {"queued", "running"}
                      /\ runs'[t].draft = runs[t].draft /\ runs'[t].version = runs[t].version
    OBVIOUS
  <2>1. PICK old, new, s : /\ old = runs[t] /\ new = runs'[t] /\ s = st(t)
                           /\ old \in RunType /\ s \in RunState
    BY <1>3
  <2>2. new = [old EXCEPT !.state = s, !.stopped = FALSE]
    BY <1>2, <2>1
  <2>3. new \in RunType /\ new.state = s /\ new.draft = old.draft
        /\ new.version = old.version
    BY <2>1, <2>2 DEF RunType
  <2> QED
    BY <1>3, <2>1, <2>3
<1>5. DOMAIN runs' = DOMAIN runs /\ runs' \in Seq(RunType)
  <2>1. PICK n \in Nat : DOMAIN runs = 1..n
    BY <1>1, LenProperties
  <2>2. runs' = [t \in 1..n |-> runs'[t]]
    BY <2>1 DEF Restart
  <2>3. runs' \in [1..n -> RunType]
    BY <1>4, <2>1, <2>2
  <2> QED
    BY <2>1, <2>2, <2>3, SeqDef
<1>6. \A i \in Jobs : pass'[i] = Idle
  BY DEF Restart
<1>7. pass' \in [Jobs -> PassType \cup {Idle}] /\ drafts' = drafts /\ published' = published
  BY DEF Restart
<1>8. \A i \in Jobs : pass'[i].kind \notin JobKind
  BY <1>6 DEF Idle, JobKind
<1>9. PublishersExist' /\ AutoReplacesBaseline'
  BY <1>4, <1>5, <1>7, PublishedStays
<1>10. TypeOK'
  BY <1>5, <1>7 DEF IInv, TypeOK
<1>11. PassesOfRuns' /\ ExclusiveUnlessStopped' /\ DraftlessHasOnePass'
  BY <1>6 DEF PassesOfRuns, ExclusiveUnlessStopped, DraftlessHasOnePass, PassOf, Live
<1>12. QueuedHasStarter' /\ RunningHasSettler'
  BY <1>4, <1>5 DEF QueuedHasStarter, RunningHasSettler
<1>13. FullPassIsCurrent' /\ UnscannedIsDraftless'
  BY <1>8 DEF FullPassIsCurrent, UnscannedIsDraftless, JobKind
<1> QED
  BY <1>4, <1>9, <1>10, <1>11, <1>12, <1>13 DEF IInv

\* What a request, a restart or a stuttering step guarantees.
Harmless == IInv' /\ \A t \in DOMAIN runs : runs'[t].draft = runs[t].draft

LEMMA NewRunRow ==
  ASSUME NEW kind \in {"full", "incremental"}, NEW baseline \in Nat, NEW version \in Nat,
         NEW auto \in BOOLEAN, NEW row, row = NewRun(kind, baseline, version, auto)
  PROVE  /\ row \in RunType /\ row.state = "queued" /\ row.draft = None /\ ~row.stopped
BY DEF NewRun, RunType, RunState, None

LEMMA CreateRunHarmless ==
  ASSUME IInv, CreateRun
  PROVE  Harmless
<1>1. None \in Nat
  BY DEF None
<1>2. PICK row : /\ row = NewRun("full", None, None, FALSE)
                 /\ runs' = Append(runs, row)
  BY DEF CreateRun
<1>3. row \in RunType /\ row.state = "queued" /\ row.draft = None /\ ~row.stopped
  BY <1>1, <1>2, NewRunRow
<1> QED
  BY <1>2, <1>3, NewRunKeepsInv DEF CreateRun, Harmless

LEMMA BaselinesAreNat ==
  ASSUME IInv
  PROVE  Baselines \subseteq Nat
<1>1. runs \in Seq(RunType) /\ published \in Seq(VersionType)
  BY DEF IInv, TypeOK, VersionType
<1>2. ASSUME NEW C \in SUBSET (DOMAIN runs)
      PROVE  NewestDraft(C) \subseteq Nat
  BY <1>1, RunAt, RunFields DEF NewestDraft
<1>3. ReviewableRuns \in SUBSET (DOMAIN runs) /\ Chained \in SUBSET (DOMAIN runs)
  BY DEF ReviewableRuns, Chained
<1>4. published # <<>> => published[Len(published)].draft \in Nat
  <2>1. ASSUME published # <<>>
        PROVE  published[Len(published)] \in VersionType
    BY <1>1, <2>1, EmptySeq, LenProperties, ElementOfSeq
  <2> QED
    BY <2>1 DEF VersionType
<1> QED
  BY <1>2, <1>3, <1>4 DEF Baselines

LEMMA StartIncrementalHarmless ==
  ASSUME IInv, StartIncremental
  PROVE  Harmless
<1>1. Len(published) \in Nat
  BY DEF IInv, TypeOK
<1>2. PICK baseline \in Baselines, auto \in BOOLEAN :
        runs' = Append(runs, NewRun("incremental", baseline, Len(published), auto))
  BY DEF StartIncremental
<1>3. PICK row : /\ row = NewRun("incremental", baseline, Len(published), auto)
                 /\ runs' = Append(runs, row)
  BY <1>2
<1>4. row \in RunType /\ row.state = "queued" /\ row.draft = None /\ ~row.stopped
  BY <1>1, <1>3, NewRunRow, BaselinesAreNat
<1> QED
  BY <1>3, <1>4, NewRunKeepsInv DEF StartIncremental, Harmless

LEMMA PublishHarmless ==
  ASSUME IInv, NEW d \in DOMAIN drafts, Publish(d)
  PROVE  Harmless
<1>1. drafts \in Seq(DraftType) /\ published \in Seq(VersionType)
  BY DEF IInv, TypeOK, DraftType, VersionType
<1>2. d \in Nat /\ None \in Nat
  BY <1>1, LenProperties DEF None
<1>3. UNCHANGED <<runs, drafts, pass>>
  BY DEF Publish
<1>4. PublishersExist' /\ AutoReplacesBaseline'
  BY <1>2, <1>3, PublishedKeeps DEF Publish
<1>5. published' \in Seq(VersionType)
  <2>1. PICK row : row = [draft |-> d, by |-> None] /\ published' = Append(published, row)
    BY DEF Publish
  <2>2. row \in VersionType
    BY <1>2, <2>1 DEF VersionType
  <2> QED
    BY <1>1, <2>1, <2>2, AppendProperties
<1>6. TypeOK'
  BY <1>3, <1>5 DEF IInv, TypeOK, VersionType
<1>7. /\ PassesOfRuns' /\ QueuedHasStarter' /\ RunningHasSettler' /\ ExclusiveUnlessStopped'
      /\ DraftlessHasOnePass' /\ FullPassIsCurrent' /\ UnscannedIsDraftless'
  BY <1>3 DEF IInv, PassesOfRuns, QueuedHasStarter, RunningHasSettler, ExclusiveUnlessStopped,
     DraftlessHasOnePass, FullPassIsCurrent, UnscannedIsDraftless, Settler, PassOf, Live, Active
<1> QED
  BY <1>3, <1>4, <1>6, <1>7 DEF Harmless, IInv

LEMMA RetryHarmless ==
  ASSUME IInv, NEW r \in DOMAIN runs, Retry(r) \/ ClaimChecks(r)
  PROVE  Harmless
<1>1. CASE Retry(r)
  BY <1>1, RequeueKeepsInv DEF Retry, Harmless
<1>2. CASE ClaimChecks(r)
  BY <1>2, RequeueKeepsInv DEF ClaimChecks, Reviewable, Active, Harmless
<1> QED
  BY <1>1, <1>2

LEMMA StutterHarmless ==
  ASSUME IInv, UNCHANGED vars
  PROVE  Harmless
BY DEF vars, IInv, TypeOK, PassesOfRuns, QueuedHasStarter, RunningHasSettler,
   ExclusiveUnlessStopped, DraftlessHasOnePass, FullPassIsCurrent, UnscannedIsDraftless,
   PublishersExist, AutoReplacesBaseline, Settler, PassOf, Live, Active, Harmless

LEMMA NextSplit ==
  ASSUME IInv, [Next]_vars
  PROVE  Harmless \/ \E j \in Jobs : Advance(j)
<1>1. CASE CreateRun
  BY <1>1, CreateRunHarmless
<1>2. CASE StartIncremental
  BY <1>2, StartIncrementalHarmless
<1>3. ASSUME NEW r \in DOMAIN runs, Cancel(r) \/ Retry(r) \/ ClaimChecks(r)
      PROVE  Harmless
  BY <1>3, CancelKeepsInv, RetryHarmless DEF Harmless
<1>4. ASSUME NEW d \in DOMAIN drafts, Publish(d)
      PROVE  Harmless
  BY <1>4, PublishHarmless
<1>5. CASE Restart
  BY <1>5, RestartKeepsInv DEF Harmless
<1>6. CASE UNCHANGED vars
  BY <1>6, StutterHarmless
<1> QED
  BY <1>1, <1>2, <1>3, <1>4, <1>5, <1>6 DEF Next, Request

-----------------------------------------------------------------------------
(* The theorems.                                                           *)

LEMMA NextKeepsInv ==
  ASSUME IInv, [Next]_vars
  PROVE  IInv'
BY NextSplit, StepKeepsInv DEF Harmless

\* The invariant behind the others holds in every reachable state.
THEOREM Invariant == Spec => []IInv
<1> QED
  BY InitInv, NextKeepsInv, PTL DEF Spec

\* The store and the passes keep their shape, and a queued or running run has a pass at
\* work on it, whichever passes failed, gave way or were cut off by a restart: nobody waits
\* for a run that nothing will ever settle.
THEOREM ActiveRunsHaveAPass == Spec => []RunsSafe
<1>1. IInv => RunsSafe
  BY DEF IInv, QueuedHasStarter, RunningHasSettler, Settler, RunsSafe, ActiveHasPass, Active
<1> QED
  BY <1>1, Invariant, PTL

\* Unless the run was cancelled under a pass, one pass at a time works on it and none
\* does while it is offered for review.
THEOREM RunsAreExclusive == Spec => []ExclusiveUnlessStopped
<1>1. IInv => ExclusiveUnlessStopped
  BY DEF IInv
<1> QED
  BY <1>1, Invariant, PTL

\* An automatic publication replaces the version its run started from, never a newer one.
THEOREM AutoPublicationIsFresh == Spec => []AutoReplacesBaseline
<1>1. IInv => AutoReplacesBaseline
  BY DEF IInv
<1> QED
  BY <1>1, Invariant, PTL

\* A run that stays cancelled stays on its draft, whichever of its passes come back.
THEOREM CancelledRunsKeepTheirDraft == Spec => CancelledKeepsDraft
<1>1. ASSUME IInv, [Next]_vars
      PROVE  [KeepsDraftOfCancelled]_vars
  BY <1>1, NextSplit, StepKeepsDrafts DEF Harmless, KeepsDraftOfCancelled
<1>2. IInv /\ [Next]_vars => [KeepsDraftOfCancelled]_vars
  BY <1>1
<1>3. Spec => [][KeepsDraftOfCancelled]_vars
  BY <1>2, Invariant, PTL DEF Spec
<1> QED
  BY <1>3 DEF KeepsDraftOfCancelled, CancelledKeepsDraft

\* A draft replaces the one it was made from: no pass throws away what another pass
\* installed meanwhile, but for a full pass whose run was cancelled under it.
THEOREM NoRevisionIsLost == Spec => NoLostRevision
<1>1. ASSUME IInv, [Next]_vars
      PROVE  [LosesNoRevision]_vars
  BY <1>1, NextSplit, StepKeepsDrafts DEF Harmless, LosesNoRevision
<1>2. IInv /\ [Next]_vars => [LosesNoRevision]_vars
  BY <1>1
<1>3. Spec => [][LosesNoRevision]_vars
  BY <1>2, Invariant, PTL DEF Spec
<1> QED
  BY <1>3 DEF LosesNoRevision, NoLostRevision

-----------------------------------------------------------------------------
(* The lineage of what is published.  It is a second invariant, on top of  *)
(* IInv: what an incremental run starts from, and every draft it is on,    *)
(* descends from the version the run would replace.                        *)

\* One history continues another: drafts and versions are never changed.
Continues(E, D) == \A e \in DOMAIN D : e \in DOMAIN E /\ E[e] = D[e]

LEMMA ContinuesSelf ==
  ASSUME NEW D
  PROVE  Continues(D, D)
BY DEF Continues

LEMMA AppendContinues ==
  ASSUME NEW T, NEW D \in Seq(T), NEW row \in T, NEW E, E = Append(D, row)
  PROVE  /\ Continues(E, D) /\ Len(D) \in Nat /\ DOMAIN D = 1 .. Len(D)
         /\ Len(E) = Len(D) + 1 /\ DOMAIN E = 1 .. (Len(D) + 1) /\ E[Len(D) + 1] = row
BY DEF Continues

LEMMA DescendsFromItself ==
  ASSUME NEW D, NEW a \in DOMAIN D
  PROVE  Descends(D, a, a)
BY DEF Descends

LEMMA DescendantExists ==
  ASSUME NEW D, NEW d, NEW a, Descends(D, d, a)
  PROVE  d \in DOMAIN D /\ a \in DOMAIN D
BY DEF Descends

LEMMA DescendsKept ==
  ASSUME NEW D, NEW E, Continues(E, D), NEW d, NEW a, Descends(D, d, a)
  PROVE  Descends(E, d, a)
<1>1. a \in DOMAIN D /\ a \in DOMAIN E
  BY DEF Descends, Continues
<1>2. SUFFICES ASSUME NEW S \in SUBSET DOMAIN E, a \in S,
                      \A e \in DOMAIN E : E[e].parent \in S => e \in S
               PROVE  d \in S
  BY <1>1 DEF Descends
<1> DEFINE T == S \cap DOMAIN D
<1>3. T \in SUBSET DOMAIN D /\ a \in T
  BY <1>1, <1>2
<1>4. \A e \in DOMAIN D : D[e].parent \in T => e \in T
  BY <1>2 DEF Continues
<1>5. d \in T
  BY <1>3, <1>4 DEF Descends
<1> QED
  BY <1>5

LEMMA DescendsNext ==
  ASSUME NEW D, NEW d \in DOMAIN D, NEW a, Descends(D, D[d].parent, a)
  PROVE  Descends(D, d, a)
BY DEF Descends

-----------------------------------------------------------------------------
\* What an incremental run starts from and the draft it is on were made from the version
\* it publishes over; every draft a run is on exists.
ChainOf(row, D, P) ==
  /\ row.draft # None => row.draft \in DOMAIN D
  /\ row.kind = "incremental" => row.version \in 0 .. Len(P)
  /\ row.kind = "incremental" /\ row.version > 0 =>
       /\ Descends(D, row.baseline, P[row.version].draft)
       /\ row.draft # None => Descends(D, row.draft, P[row.version].draft)

\* What is published exists, and what was published automatically was made from the
\* version before it.
LineageOf(P, D) ==
  \A v \in DOMAIN P :
    /\ P[v].draft \in DOMAIN D
    /\ P[v].by # None /\ v > 1 => Descends(D, P[v].draft, P[v - 1].draft)

\* A pass that derives drafts from its run's draft finds one; the passes that start a
\* run have runs of their kind.
FitsItsRun(q, row) ==
  /\ q.kind = "run" => row.kind = "full"
  /\ q.kind = "incremental" => row.kind = "incremental"
  /\ \/ q.kind \in {"retry", "claims"}
     \/ q.kind = "incremental" /\ q.stage \in {"enrich", "carried"}
     => row.draft # None

RunsAreChained == \A r \in DOMAIN runs : ChainOf(runs[r], drafts, published)

PassesFit == \A j \in Jobs : Live(j) => FitsItsRun(pass[j], runs[pass[j].run])

Lineage == RunsAreChained /\ PassesFit /\ LineageOf(published, drafts)

LEMMA LineageInit ==
  ASSUME Init
  PROVE  Lineage
BY DEF Init, Lineage, RunsAreChained, PassesFit, LineageOf, Live

\* A run that keeps its draft keeps its chain while the histories grow.
LEMMA ChainKept ==
  ASSUME NEW D, NEW E, NEW P \in Seq(VersionType), NEW Q \in Seq(VersionType),
         Continues(E, D), Continues(Q, P),
         NEW row \in RunType, NEW new, new.kind = row.kind, new.baseline = row.baseline,
         new.version = row.version, new.draft = row.draft, ChainOf(row, D, P)
  PROVE  ChainOf(new, E, Q)
<1>1. PICK n \in Nat, m \in Nat : /\ n = Len(P) /\ DOMAIN P = 1 .. n
                                  /\ m = Len(Q) /\ DOMAIN Q = 1 .. m
  BY LenProperties
<1>2. n <= m
  <2>1. CASE n = 0
    BY <1>1, <2>1
  <2>2. CASE n > 0
    <3>1. n \in DOMAIN Q
      BY <1>1, <2>2 DEF Continues
    <3> QED
      BY <1>1, <3>1
  <2> QED
    BY <1>1, <2>1, <2>2
<1>3. row.draft # None => row.draft \in DOMAIN E
  BY DEF ChainOf, Continues
<1>4. row.kind = "incremental" => row.version \in 0 .. m
  BY <1>1, <1>2 DEF ChainOf
<1>5. ASSUME row.kind = "incremental", row.version > 0
      PROVE  /\ Descends(E, row.baseline, Q[row.version].draft)
             /\ row.draft # None => Descends(E, row.draft, Q[row.version].draft)
  <2>1. row.version \in DOMAIN P
    BY <1>1, <1>5 DEF ChainOf
  <2>2. Q[row.version] = P[row.version]
    BY <2>1 DEF Continues
  <2> QED
    BY <1>5, <2>2, DescendsKept DEF ChainOf
<1> QED
  BY <1>1, <1>3, <1>4, <1>5 DEF ChainOf

\* A run whose new draft was made from its baseline or from its draft keeps its chain.
LEMMA ChainExtended ==
  ASSUME NEW D, NEW P, NEW row, NEW new,
         new.kind = row.kind, new.baseline = row.baseline, new.version = row.version,
         ChainOf(row, D, P), new.draft \in DOMAIN D,
         row.kind = "incremental" =>
           \/ D[new.draft].parent = row.baseline
           \/ row.draft # None /\ D[new.draft].parent = row.draft
  PROVE  ChainOf(new, D, P)
<1>1. ASSUME row.kind = "incremental", row.version > 0
      PROVE  Descends(D, new.draft, P[row.version].draft)
  <2>1. Descends(D, D[new.draft].parent, P[row.version].draft)
    BY <1>1 DEF ChainOf
  <2> QED
    BY <2>1, DescendsNext
<1> QED
  BY <1>1 DEF ChainOf

LEMMA LineageKept ==
  ASSUME NEW D, NEW E, Continues(E, D), NEW P, LineageOf(P, D)
  PROVE  LineageOf(P, E)
BY DescendsKept DEF LineageOf, Continues

LEMMA LineageExtended ==
  ASSUME NEW D, NEW P \in Seq(VersionType), LineageOf(P, D), NEW d \in DOMAIN D, d \in Nat,
         NEW by \in Nat, NEW Q, Q = Append(P, [draft |-> d, by |-> by]),
         by # None /\ Len(P) > 0 => Descends(D, d, P[Len(P)].draft)
  PROVE  LineageOf(Q, D) /\ Continues(Q, P) /\ Q \in Seq(VersionType)
<1> DEFINE version == [draft |-> d, by |-> by]
<1>1. version \in VersionType /\ version.draft = d /\ version.by = by
  BY DEF VersionType
<1>2. Q = Append(P, version)
  OBVIOUS
<1> HIDE DEF version
<1>3. PICK n \in Nat : n = Len(P) /\ DOMAIN P = 1 .. n /\ DOMAIN Q = 1 .. (n + 1)
                       /\ Q[n + 1] = version /\ Continues(Q, P) /\ Q \in Seq(VersionType)
  <2>1. /\ Continues(Q, P) /\ Len(P) \in Nat /\ DOMAIN P = 1 .. Len(P)
        /\ DOMAIN Q = 1 .. (Len(P) + 1) /\ Q[Len(P) + 1] = version
    BY <1>1, <1>2 DEF Continues
  <2>2. Q \in Seq(VersionType)
    BY <1>1, <1>2, AppendProperties
  <2> QED
    BY <2>1, <2>2
<1>4. SUFFICES ASSUME NEW v \in 1 .. (n + 1)
               PROVE  /\ Q[v].draft \in DOMAIN D
                      /\ Q[v].by # None /\ v > 1 => Descends(D, Q[v].draft, Q[v - 1].draft)
  BY <1>3 DEF LineageOf
<1>5. CASE v = n + 1
  <2>1. n > 0 => Q[n] = P[n]
    BY <1>3 DEF Continues
  <2> QED
    BY <1>1, <1>3, <1>5, <2>1
<1>6. CASE v \in 1 .. n
  <2>1. Q[v] = P[v] /\ (v > 1 => Q[v - 1] = P[v - 1])
    BY <1>3, <1>6 DEF Continues
  <2> QED
    BY <1>3, <1>6, <2>1 DEF LineageOf
<1> QED
  BY <1>3, <1>5, <1>6

LEMMA StepKeepsLineage ==
  ASSUME IInv, Lineage, NEW j \in Jobs, Advance(j)
  PROVE  Lineage'
<1> DEFINE r == pass[j].run
<1>1. Ready(j)
  BY DEF Ready, Advance, IInv
<1>2. PICK d, st, p : Outcome(j, d, st, p)
  BY <1>1, AdvanceSummary DEF Summary
<1>3. StepFacts(j, r, d, st, p) /\ TypeOK'
  BY <1>1, <1>2, OutcomeFacts, StepKeepsTypes
<1>4. /\ runs \in Seq(RunType) /\ r \in DOMAIN runs /\ r \in Nat /\ d \in Nat
      /\ DOMAIN runs' = DOMAIN runs
      /\ drafts \in Seq(DraftType) /\ published \in Seq(VersionType)
      /\ published' \in Seq(VersionType) /\ drafts' \in Seq(DraftType)
      /\ pass[j].kind \in JobKind /\ pass[j].stage \in Stage
  <2>1. r \in DOMAIN runs /\ runs \in Seq(RunType)
    BY <1>1, ReadyFacts
  <2> QED
    BY <1>2, <1>3, <2>1, LenProperties
    DEF IInv, TypeOK, DraftType, VersionType, Outcome, StepFacts
<1>5. FitsItsRun(pass[j], runs[r])
  BY <1>1 DEF Lineage, PassesFit, Ready
<1>6. \A t \in DOMAIN runs :
        /\ runs'[t].kind = runs[t].kind /\ runs'[t].baseline = runs[t].baseline
        /\ runs'[t].version = runs[t].version
        /\ t # r => runs'[t].draft = runs[t].draft
  BY <1>2 DEF Outcome, RunsBecome, SameOrigin
<1>7. runs'[r].draft = d
  BY <1>2 DEF Outcome, RunsBecome
<1>8. Continues(drafts', drafts)
      /\ \/ d = runs[r].draft
         \/ /\ d = Len(drafts) + 1 /\ d \in DOMAIN drafts' /\ d # None
            /\ Origin(j, r, drafts'[d].parent)
  <2>1. CASE drafts' = drafts /\ d = runs[r].draft
    BY <2>1, ContinuesSelf
  <2>2. ASSUME d = Len(drafts) + 1, NEW parent \in Nat, Origin(j, r, parent),
               drafts' = Append(drafts, [run |-> r, parent |-> parent, by |-> pass[j].kind])
        PROVE  Continues(drafts', drafts) /\ d \in DOMAIN drafts' /\ d # None
               /\ Origin(j, r, drafts'[d].parent)
    <3>1. PICK row : /\ row = [run |-> r, parent |-> parent, by |-> pass[j].kind]
                     /\ drafts' = Append(drafts, row)
      BY <2>2
    <3>2. row \in DraftType /\ row.parent = parent
      BY <1>4, <3>1 DEF DraftType
    <3>3. /\ Continues(drafts', drafts) /\ Len(drafts) \in Nat
          /\ DOMAIN drafts' = 1 .. (Len(drafts) + 1) /\ drafts'[Len(drafts) + 1] = row
      <4>1. PICK D, E : D = drafts /\ E = drafts'
        OBVIOUS
      <4>2. D \in Seq(DraftType) /\ E = Append(D, row)
        BY <1>4, <3>1, <4>1
      <4>3. /\ Continues(E, D) /\ Len(D) \in Nat
            /\ DOMAIN E = 1 .. (Len(D) + 1) /\ E[Len(D) + 1] = row
        BY <3>2, <4>2, AppendContinues
      <4> QED
        BY <4>1, <4>3
    <3>4. d \in DOMAIN drafts' /\ d # None
      BY <2>2, <3>3 DEF None
    <3> QED
      BY <2>2, <3>2, <3>3, <3>4
  <2> QED
    BY <1>2, <2>1, <2>2 DEF Outcome, DraftsBecome
<1>9. runs[r].kind = "incremental" /\ d # runs[r].draft =>
        \/ drafts'[d].parent = runs[r].baseline
        \/ runs[r].draft # None /\ drafts'[d].parent = runs[r].draft
  BY <1>4, <1>5, <1>8 DEF Origin, FitsItsRun, JobKind
<1>10. \A t \in DOMAIN runs : ChainOf(runs'[t], drafts', published)
  <2> SUFFICES ASSUME NEW t \in DOMAIN runs
               PROVE  ChainOf(runs'[t], drafts', published)
    OBVIOUS
  <2>0. /\ runs[t] \in RunType /\ ChainOf(runs[t], drafts, published)
        /\ Continues(published, published)
    BY <1>4, RunAt, ContinuesSelf DEF Lineage, RunsAreChained
  <2>1. CASE runs'[t].draft = runs[t].draft
    BY <1>4, <1>6, <1>8, <2>0, <2>1, ChainKept
  <2>2. CASE runs'[t].draft # runs[t].draft
    <3>1. t = r /\ d # runs[r].draft /\ d \in DOMAIN drafts'
      BY <1>6, <1>7, <1>8, <2>2
    <3>2. ChainOf(runs[t], drafts', published)
      BY <1>4, <1>8, <2>0, ChainKept
    <3> QED
      BY <1>6, <1>7, <1>9, <3>1, <3>2, ChainExtended
  <2> QED
    BY <2>1, <2>2
<1>11. LineageOf(published, drafts')
  BY <1>8, LineageKept DEF Lineage
<1>12. LineageOf(published', drafts') /\ Continues(published', published)
  <2>1. CASE published' = published
    BY <1>11, <2>1, ContinuesSelf
  <2>2. CASE /\ pass[j].kind = "incremental"
             /\ pass[j].stage \in {"enrich", "carried"} \/ d = Len(drafts) + 1
             /\ runs[r].version = Len(published)
             /\ published' = Append(published, [draft |-> d, by |-> r])
    <3>1. d # None
      BY <1>4, <1>5, <1>8, <2>2, ReadyFacts DEF FitsItsRun, None, IInv, TypeOK
    <3>2. d \in DOMAIN drafts' /\ runs[r].kind = "incremental"
      BY <1>4, <1>5, <1>7, <1>10, <2>2, <3>1 DEF ChainOf, FitsItsRun
    <3>3. Len(published) > 0 => Descends(drafts', d, published[Len(published)].draft)
      BY <1>4, <1>6, <1>7, <1>10, <2>2, <3>1, <3>2 DEF ChainOf
    <3> QED
      BY <1>4, <1>11, <2>2, <3>2, <3>3, LineageExtended
  <2> QED
    BY <1>2, <2>1, <2>2 DEF Outcome, PublishedBecomes
<1>13. RunsAreChained'
  <2> SUFFICES ASSUME NEW t \in DOMAIN runs
               PROVE  ChainOf(runs'[t], drafts', published')
    BY <1>4 DEF RunsAreChained
  <2>1. runs'[t] \in RunType
    BY <1>3, <1>4, LenProperties, ElementOfSeq DEF TypeOK
  <2> QED
    BY <1>4, <1>10, <1>12, <2>1, ContinuesSelf, ChainKept
<1>14. PassesFit'
  <2> SUFFICES ASSUME NEW i \in Jobs, pass'[i] # Idle
               PROVE  FitsItsRun(pass'[i], runs'[pass'[i].run])
    BY DEF PassesFit, Live
  <2>1. CASE i = j
    <3>1. pass'[i] = p /\ NextPass(j, r, d, p)
      BY <1>3, <2>1 DEF StepFacts
    <3>2. p.stage \in {"enrich", "carried"} /\ p.kind = "incremental" => d # None
      BY <1>4, <1>5, <1>8, <3>1, ReadyFacts DEF FitsItsRun, NextPass, None, IInv, TypeOK
    <3> QED
      BY <1>3, <1>4, <1>5, <1>6, <1>7, <3>1, <3>2 DEF FitsItsRun, NextPass, StepFacts
  <2>2. CASE i # j
    <3>1. pass'[i] = pass[i] /\ Live(i)
      BY <1>3, <2>2 DEF StepFacts, Live
    <3>2. FitsItsRun(pass[i], runs[pass[i].run]) /\ pass[i].run \in DOMAIN runs
      BY <3>1 DEF Lineage, PassesFit, IInv, PassesOfRuns
    <3> QED
      BY <1>3, <1>6, <3>1, <3>2 DEF FitsItsRun, StepFacts
  <2> QED
    BY <2>1, <2>2
<1> QED
  BY <1>12, <1>13, <1>14 DEF Lineage

-----------------------------------------------------------------------------
(* Requests, a restart and stuttering keep the lineage.                    *)

\* A step that changes neither drafts nor versions, nor what the runs come from.
LEMMA QuietKeepsLineage ==
  ASSUME IInv, Lineage, IInv', UNCHANGED <<drafts, published>>,
         \A t \in DOMAIN runs : t \in DOMAIN runs' /\ runs'[t].draft = runs[t].draft
           /\ runs'[t].kind = runs[t].kind /\ runs'[t].baseline = runs[t].baseline
           /\ runs'[t].version = runs[t].version,
         \A t \in DOMAIN runs' : t \notin DOMAIN runs => ChainOf(runs'[t], drafts, published),
         \A i \in Jobs : pass'[i] # Idle =>
           \/ /\ pass[i] # Idle /\ pass'[i].kind = pass[i].kind
              /\ pass'[i].run = pass[i].run /\ pass'[i].stage = pass[i].stage
           \/ FitsItsRun(pass'[i], runs'[pass'[i].run])
  PROVE  Lineage'
<1>1. /\ runs \in Seq(RunType) /\ published \in Seq(VersionType)
      /\ drafts' = drafts /\ published' = published
  BY DEF IInv, TypeOK, VersionType
<1>2. RunsAreChained'
  <2> SUFFICES ASSUME NEW t \in DOMAIN runs'
               PROVE  ChainOf(runs'[t], drafts, published)
    BY <1>1 DEF RunsAreChained
  <2>1. CASE t \in DOMAIN runs
    <3>1. runs[t] \in RunType /\ ChainOf(runs[t], drafts, published)
      BY <1>1, <2>1, RunAt DEF Lineage, RunsAreChained
    <3> QED
      BY <1>1, <2>1, <3>1, ContinuesSelf, ChainKept
  <2> QED
    BY <2>1
<1>3. PassesFit'
  <2> SUFFICES ASSUME NEW i \in Jobs, pass'[i] # Idle
               PROVE  FitsItsRun(pass'[i], runs'[pass'[i].run])
    BY DEF PassesFit, Live
  <2>1. CASE /\ pass[i] # Idle /\ pass'[i].kind = pass[i].kind
             /\ pass'[i].run = pass[i].run /\ pass'[i].stage = pass[i].stage
    <3>1. pass[i].run \in DOMAIN runs /\ FitsItsRun(pass[i], runs[pass[i].run])
      BY <2>1 DEF IInv, PassesOfRuns, Lineage, PassesFit, Live
    <3> QED
      BY <2>1, <3>1 DEF FitsItsRun
  <2> QED
    BY <2>1
<1> QED
  BY <1>1, <1>2, <1>3 DEF Lineage

\* A row for a new run, which has no draft yet.
LEMMA NewRunLineage ==
  ASSUME IInv, Lineage, IInv', NEW kind \in {"full", "incremental"}, NEW baseline,
         NEW version, NEW auto, NEW job,
         runs' = Append(runs, NewRun(kind, baseline, version, auto)),
         Enqueue(job, Len(runs) + 1, None),
         \/ job = "run" /\ kind = "full"
         \/ /\ job = "incremental" /\ kind = "incremental"
            /\ version \in 0 .. Len(published)
            /\ version > 0 => Descends(drafts, baseline, published[version].draft),
         UNCHANGED <<drafts, published>>
  PROVE  Lineage'
<1> DEFINE n == Len(runs) + 1
<1>1. runs \in Seq(RunType) /\ pass \in [Jobs -> PassType \cup {Idle}]
      /\ pass' \in [Jobs -> PassType \cup {Idle}] /\ runs' \in Seq(RunType)
  BY DEF IInv, TypeOK
<1>2. PICK row : row = NewRun(kind, baseline, version, auto) /\ runs' = Append(runs, row)
  OBVIOUS
<1>3. row.kind = kind /\ row.baseline = baseline /\ row.version = version /\ row.draft = None
  BY <1>2 DEF NewRun
<1>4. /\ DOMAIN runs = 1 .. Len(runs) /\ Len(runs) \in Nat
      /\ DOMAIN runs' = 1 .. (Len(runs) + 1)
      /\ runs'[Len(runs) + 1] = row /\ \A t \in DOMAIN runs : runs'[t] = runs[t]
  BY <1>1, <1>2, AppendProperties, LenProperties
<1>5. ChainOf(row, drafts, published)
  BY <1>3 DEF ChainOf
<1>6. PICK j \in Jobs : pass' = [pass EXCEPT ![j] =
         [kind |-> job, run |-> n, base |-> None, stage |-> "start", revoked |-> FALSE]]
  BY DEF Enqueue
<1>7. pass'[j].kind = job /\ pass'[j].run = n /\ pass'[j].stage = "start"
  BY <1>1, <1>6
<1>8. FitsItsRun(pass'[j], runs'[pass'[j].run])
  BY <1>3, <1>4, <1>7 DEF FitsItsRun
<1>9. \A i \in Jobs : i # j => pass'[i] = pass[i]
  BY <1>1, <1>6
<1>10. \A t \in DOMAIN runs' : t \notin DOMAIN runs => t = Len(runs) + 1
  BY <1>4
<1> HIDE DEF n
<1>11. \A t \in DOMAIN runs : t \in DOMAIN runs' /\ runs'[t].draft = runs[t].draft
         /\ runs'[t].kind = runs[t].kind /\ runs'[t].baseline = runs[t].baseline
         /\ runs'[t].version = runs[t].version
  BY <1>4
<1>12. \A t \in DOMAIN runs' : t \notin DOMAIN runs => ChainOf(runs'[t], drafts, published)
  BY <1>4, <1>5, <1>10
<1>13. \A i \in Jobs : pass'[i] # Idle =>
         \/ /\ pass[i] # Idle /\ pass'[i].kind = pass[i].kind
            /\ pass'[i].run = pass[i].run /\ pass'[i].stage = pass[i].stage
         \/ FitsItsRun(pass'[i], runs'[pass'[i].run])
  BY <1>8, <1>9
<1> QED
  BY <1>11, <1>12, <1>13, QuietKeepsLineage

LEMMA CreateRunLineage ==
  ASSUME IInv, Lineage, IInv', CreateRun
  PROVE  Lineage'
BY NewRunLineage DEF CreateRun

\* An incremental run starts from a draft made from the version it will publish over.
LEMMA BaselineDescends ==
  ASSUME IInv, Lineage, NEW baseline \in Baselines
  PROVE  /\ Len(published) \in Nat
         /\ Len(published) > 0 =>
              Descends(drafts, baseline, published[Len(published)].draft)
<1>1. PICK n \in Nat : n = Len(published) /\ DOMAIN published = 1 .. n
  BY LenProperties DEF IInv, TypeOK
<1>2. published = <<>> => n = 0
  BY <1>1
<1>3. CASE published # <<>> /\ n > 0 /\ Chained # {}
  <2>1. PICK r \in Chained : baseline = runs[r].draft
    BY <1>3 DEF Baselines, NewestDraft
  <2>2. r \in DOMAIN runs /\ runs[r].draft # None /\ runs[r].kind = "incremental"
        /\ runs[r].version = n
    BY <1>1, <2>1 DEF Chained, ReviewableRuns
  <2>3. ChainOf(runs[r], drafts, published)
    BY <2>2 DEF Lineage, RunsAreChained
  <2> QED
    BY <1>1, <1>3, <2>1, <2>2, <2>3 DEF ChainOf
<1>4. CASE published # <<>> /\ n > 0 /\ Chained = {}
  <2>1. baseline = published[n].draft
    BY <1>1, <1>4 DEF Baselines
  <2>2. published[n].draft \in DOMAIN drafts
    BY <1>1, <1>4 DEF Lineage, LineageOf
  <2> QED
    BY <1>1, <2>1, <2>2, DescendsFromItself
<1> QED
  BY <1>1, <1>2, <1>3, <1>4

LEMMA StartIncrementalLineage ==
  ASSUME IInv, Lineage, IInv', StartIncremental
  PROVE  Lineage'
<1>1. PICK baseline \in Baselines, auto \in BOOLEAN :
        runs' = Append(runs, NewRun("incremental", baseline, Len(published), auto))
  BY DEF StartIncremental
<1>2. /\ Len(published) \in 0 .. Len(published)
      /\ Len(published) > 0 => Descends(drafts, baseline, published[Len(published)].draft)
  BY BaselineDescends
<1>3. Enqueue("incremental", Len(runs) + 1, None) /\ UNCHANGED <<drafts, published>>
  BY DEF StartIncremental
<1> QED
  BY <1>1, <1>2, <1>3, NewRunLineage

LEMMA PublishLineage ==
  ASSUME IInv, Lineage, NEW d \in DOMAIN drafts, Publish(d)
  PROVE  Lineage'
<1>1. /\ runs \in Seq(RunType) /\ published \in Seq(VersionType) /\ d \in Nat /\ None \in Nat
  BY LenProperties DEF IInv, TypeOK, VersionType, None
<1>2. LineageOf(published', drafts) /\ Continues(published', published)
      /\ published' \in Seq(VersionType)
  <2>1. PICK Q : Q = published' /\ Q = Append(published, [draft |-> d, by |-> None])
    BY DEF Publish
  <2> QED
    BY <1>1, <2>1, LineageExtended DEF Lineage
<1>3. UNCHANGED <<runs, drafts, pass>>
  BY DEF Publish
<1>4. \A t \in DOMAIN runs : ChainOf(runs[t], drafts, published')
  <2> SUFFICES ASSUME NEW t \in DOMAIN runs
               PROVE  ChainOf(runs[t], drafts, published')
    OBVIOUS
  <2>1. runs[t] \in RunType /\ ChainOf(runs[t], drafts, published)
    BY <1>1, RunAt DEF Lineage, RunsAreChained
  <2> QED
    BY <1>1, <1>2, <2>1, ContinuesSelf, ChainKept
<1> QED
  BY <1>2, <1>3, <1>4 DEF Lineage, RunsAreChained, PassesFit, Live

LEMMA RequeueLineage ==
  ASSUME IInv, Lineage, IInv', NEW r \in DOMAIN runs, Retry(r) \/ ClaimChecks(r)
  PROVE  Lineage'
<1>1. /\ runs \in Seq(RunType) /\ pass \in [Jobs -> PassType \cup {Idle}]
  BY DEF IInv, TypeOK
<1>2. /\ runs[r].draft # None /\ runs' = [runs EXCEPT ![r].state = "queued"]
      /\ UNCHANGED <<drafts, published>>
      /\ \E kind \in {"retry", "claims"} : Enqueue(kind, r, runs[r].draft)
  BY DEF Retry, ClaimChecks, SetState
<1>3. PICK kind \in {"retry", "claims"}, j \in Jobs : pass' = [pass EXCEPT ![j] =
         [kind |-> kind, run |-> r, base |-> runs[r].draft, stage |-> "start", revoked |-> FALSE]]
  BY <1>2 DEF Enqueue
<1>4. RunsBecome(r, runs[r].draft, "queued")
  BY <1>1, <1>2, WithState DEF RunState
<1>5. \A t \in DOMAIN runs : t \in DOMAIN runs' /\ runs'[t].draft = runs[t].draft
         /\ runs'[t].kind = runs[t].kind /\ runs'[t].baseline = runs[t].baseline
         /\ runs'[t].version = runs[t].version
  BY <1>4 DEF RunsBecome, SameOrigin
<1>6. DOMAIN runs' = DOMAIN runs
  BY <1>4 DEF RunsBecome
<1>7. pass'[j].kind = kind /\ pass'[j].run = r /\ \A i \in Jobs : i # j => pass'[i] = pass[i]
  BY <1>1, <1>3
<1>8. FitsItsRun(pass'[j], runs'[pass'[j].run])
  BY <1>2, <1>5, <1>7 DEF FitsItsRun
<1>9. \A i \in Jobs : pass'[i] # Idle =>
         \/ /\ pass[i] # Idle /\ pass'[i].kind = pass[i].kind
            /\ pass'[i].run = pass[i].run /\ pass'[i].stage = pass[i].stage
         \/ FitsItsRun(pass'[i], runs'[pass'[i].run])
  BY <1>7, <1>8
<1> QED
  BY <1>2, <1>5, <1>6, <1>9, QuietKeepsLineage

LEMMA CancelLineage ==
  ASSUME IInv, Lineage, IInv', NEW r \in DOMAIN runs, Cancel(r)
  PROVE  Lineage'
<1>1. /\ runs \in Seq(RunType) /\ pass \in [Jobs -> PassType \cup {Idle}]
  BY DEF IInv, TypeOK
<1>2. PICK stopped : runs' = [runs EXCEPT ![r].state = "cancelled", ![r].stopped = stopped]
  BY DEF Cancel
<1>3. DOMAIN runs' = DOMAIN runs
  BY <1>2
<1>4. \A t \in DOMAIN runs : t \in DOMAIN runs' /\ runs'[t].draft = runs[t].draft
         /\ runs'[t].kind = runs[t].kind /\ runs'[t].baseline = runs[t].baseline
         /\ runs'[t].version = runs[t].version
  <2> SUFFICES ASSUME NEW t \in DOMAIN runs
               PROVE  /\ runs'[t].draft = runs[t].draft /\ runs'[t].kind = runs[t].kind
                      /\ runs'[t].baseline = runs[t].baseline
                      /\ runs'[t].version = runs[t].version
    BY <1>3
  <2>1. PICK old, new : old = runs[t] /\ new = runs'[t] /\ old \in RunType
    BY <1>1, RunAt
  <2>2. new = old \/ new = [old EXCEPT !.state = "cancelled", !.stopped = stopped]
    BY <1>2, <2>1
  <2>3. new.draft = old.draft /\ new.kind = old.kind /\ new.baseline = old.baseline
        /\ new.version = old.version
    BY <2>1, <2>2 DEF RunType
  <2> QED
    BY <2>1, <2>3
<1>5. \A i \in Jobs : pass'[i] # Idle =>
           /\ pass[i] # Idle /\ pass'[i].kind = pass[i].kind
           /\ pass'[i].run = pass[i].run /\ pass'[i].stage = pass[i].stage
  <2> SUFFICES ASSUME NEW i \in Jobs, pass'[i] # Idle
               PROVE  /\ pass[i] # Idle /\ pass'[i].kind = pass[i].kind
                      /\ pass'[i].run = pass[i].run /\ pass'[i].stage = pass[i].stage
    OBVIOUS
  <2>1. CASE PassOf(i, r)
    <3>1. pass[i] \in PassType /\ pass[i] # Idle
      BY <1>1, <2>1 DEF PassOf, Live
    <3>2. pass'[i] = [pass[i] EXCEPT !.revoked = TRUE]
      BY <2>1 DEF Cancel
    <3> QED
      BY <3>1, <3>2, RevokedPass
  <2>2. CASE ~PassOf(i, r)
    BY <2>2 DEF Cancel
  <2> QED
    BY <2>1, <2>2
<1>6. UNCHANGED <<drafts, published>>
  BY DEF Cancel
<1> QED
  BY <1>3, <1>4, <1>5, <1>6, QuietKeepsLineage

LEMMA RestartLineage ==
  ASSUME IInv, Lineage, IInv', Restart
  PROVE  Lineage'
<1>1. runs \in Seq(RunType) /\ DOMAIN runs' = DOMAIN runs
  BY DEF IInv, TypeOK, Restart
<1>2. \A t \in DOMAIN runs : t \in DOMAIN runs' /\ runs'[t].draft = runs[t].draft
         /\ runs'[t].kind = runs[t].kind /\ runs'[t].baseline = runs[t].baseline
         /\ runs'[t].version = runs[t].version
  <2> SUFFICES ASSUME NEW t \in DOMAIN runs
               PROVE  /\ runs'[t].draft = runs[t].draft /\ runs'[t].kind = runs[t].kind
                      /\ runs'[t].baseline = runs[t].baseline
                      /\ runs'[t].version = runs[t].version
    BY <1>1
  <2>1. PICK old, new : old = runs[t] /\ new = runs'[t] /\ old \in RunType
    BY <1>1, RunAt
  <2>2. PICK st : new = [old EXCEPT !.state = st, !.stopped = FALSE]
    BY <2>1 DEF Restart
  <2>3. new.draft = old.draft /\ new.kind = old.kind /\ new.baseline = old.baseline
        /\ new.version = old.version
    BY <2>1, <2>2 DEF RunType
  <2> QED
    BY <2>1, <2>3
<1>3. (\A i \in Jobs : pass'[i] = Idle) /\ UNCHANGED <<drafts, published>>
  BY DEF Restart
<1> QED
  BY <1>1, <1>2, <1>3, QuietKeepsLineage

LEMMA NextKeepsLineage ==
  ASSUME IInv, Lineage, [Next]_vars
  PROVE  Lineage'
<1>1. IInv'
  BY NextKeepsInv
<1>2. CASE CreateRun
  BY <1>1, <1>2, CreateRunLineage
<1>3. CASE StartIncremental
  BY <1>1, <1>3, StartIncrementalLineage
<1>4. ASSUME NEW r \in DOMAIN runs, Cancel(r) \/ Retry(r) \/ ClaimChecks(r)
      PROVE  Lineage'
  BY <1>1, <1>4, CancelLineage, RequeueLineage
<1>5. ASSUME NEW d \in DOMAIN drafts, Publish(d)
      PROVE  Lineage'
  BY <1>5, PublishLineage
<1>6. CASE Restart
  BY <1>1, <1>6, RestartLineage
<1>7. ASSUME NEW j \in Jobs, Advance(j)
      PROVE  Lineage'
  BY <1>7, StepKeepsLineage
<1>8. CASE UNCHANGED vars
  BY <1>8 DEF vars, Lineage, RunsAreChained, PassesFit, Live
<1> QED
  BY <1>2, <1>3, <1>4, <1>5, <1>6, <1>7, <1>8 DEF Next, Request

\* What is published automatically was made, revision by revision, from the version it
\* replaces, whatever was published, retried or restarted while the chain was at work.
THEOREM AutoPublicationDescends == Spec => []AutoPublishDescends
<1>1. Lineage => AutoPublishDescends
  BY DEF Lineage, LineageOf, AutoPublishDescends
<1> QED
  BY <1>1, LineageInit, NextKeepsLineage, Invariant, PTL DEF Spec

-----------------------------------------------------------------------------
(* What starts incremental runs.                                           *)

TriggerRuns == [ref : Nat \cup {NoRef}, base : Nat, commit : Nat]

TriggerTypes ==
  /\ head \in Nat /\ pushes \in Nat /\ newestDraft \in 0 .. head /\ wanted \in 0 .. head
  /\ waitingPush \in 0 .. pushes /\ timer \in BOOLEAN /\ excused \in BOOLEAN
  /\ fires \subseteq [of : Nat, result : {"active", "started", "failed"}]
  /\ activeRun \in TriggerRuns \cup {NoRun}

\* The active run is based on the newest draft, and one that takes the HEAD of the branch
\* never takes a commit before it.
RunFollows ==
  activeRun # NoRun =>
    /\ activeRun.base = newestDraft /\ activeRun.commit \in 0 .. head
    /\ activeRun.ref # NoRef => activeRun.ref \in 0 .. head
    /\ activeRun.ref = NoRef /\ activeRun.commit # 0 => activeRun.commit >= newestDraft

\* What was asked for is drafted, or will be when the active run ends.
Covered ==
  \/ newestDraft >= wanted
  \/ activeRun # NoRun /\ activeRun.ref = NoRef
     /\ (activeRun.commit = 0 \/ activeRun.commit >= wanted)

\* A push is done with, or about to be, only once it is covered or excused.
PushesCovered ==
  /\ waitingPush = 0 => excused \/ Covered
  /\ \A f \in fires :
       /\ f.of \in 1 .. pushes
       /\ f.of = waitingPush /\ f.result = "started" => excused \/ Covered
       /\ f.of = waitingPush /\ f.result = "failed" => excused

TriggersInv == TriggerTypes /\ RunFollows /\ PushesCovered /\ PendingSeenTo

LEMMA NoTriggerRun == NoRun \notin TriggerRuns /\ NoRef \notin Nat
  BY TriggersAssumption DEF TriggerRuns

LEMMA FreshRun ==
  ASSUME NEW ref \in Nat \cup {NoRef}, newestDraft \in Nat, activeRun = NoRun
  PROVE  /\ ref # newestDraft =>
              /\ Start(ref).run = [ref |-> ref, base |-> newestDraft, commit |-> 0]
              /\ Start(ref).result = "started"
         /\ ref = newestDraft => Start(ref).run = NoRun
         /\ [ref |-> ref, base |-> newestDraft, commit |-> 0] \in TriggerRuns
  BY NoTriggerRun DEF Start, TriggerRuns

\* The pushes that were taken stay covered if the starts under way and the push that waits
\* stay, or become fewer, and what covers them does.
LEMMA StayCovered ==
  ASSUME PushesCovered, pushes' = pushes, waitingPush' = waitingPush, fires' \subseteq fires,
         (excused \/ Covered) => (excused \/ Covered)', excused => excused'
  PROVE  PushesCovered'
<1>1. waitingPush' = 0 => (excused \/ Covered)'
  BY DEF PushesCovered
<1>2. ASSUME NEW f \in fires'
      PROVE  /\ f.of \in 1 .. pushes'
             /\ f.of = waitingPush' /\ f.result = "started" => (excused \/ Covered)'
             /\ f.of = waitingPush' /\ f.result = "failed" => excused'
  BY <1>2 DEF PushesCovered
<1> QED
  BY <1>1, <1>2 DEF PushesCovered

LEMMA InitTriggersInv ==
  ASSUME TriggersInit PROVE TriggersInv
<1>1. TriggerTypes
  <2>1. /\ head = 0 /\ pushes = 0 /\ newestDraft = 0 /\ wanted = 0 /\ waitingPush = 0
        /\ timer = FALSE /\ excused = FALSE /\ fires = {} /\ activeRun = NoRun
    BY DEF TriggersInit
  <2>2. newestDraft \in 0 .. head /\ wanted \in 0 .. head /\ waitingPush \in 0 .. pushes
    BY <2>1
  <2>3. fires \subseteq [of : Nat, result : {"active", "started", "failed"}]
    BY <2>1
  <2> QED
    BY <2>1, <2>2, <2>3 DEF TriggerTypes
<1>2. RunFollows /\ PushesCovered /\ PendingSeenTo
  BY DEF TriggersInit, RunFollows, PushesCovered, PendingSeenTo, Covered
<1> QED
  BY <1>1, <1>2 DEF TriggersInv

LEMMA HeadMovesTriggers ==
  ASSUME TriggersInv, HeadMoves PROVE TriggersInv' /\ NeverBackwards
<1>1. /\ head' = head + 1
      /\ UNCHANGED <<waitingPush, timer, pushes, fires, activeRun, newestDraft, wanted, excused>>
  BY DEF HeadMoves, triggers, ghosts
<1>2. TriggerTypes /\ RunFollows /\ PushesCovered /\ PendingSeenTo
  BY DEF TriggersInv
<1>3. TriggerTypes'
  BY <1>1, <1>2 DEF TriggerTypes
<1>4. RunFollows'
  BY <1>1, <1>2 DEF RunFollows, TriggerTypes
<1>5. PushesCovered' /\ PendingSeenTo'
  BY <1>1, <1>2 DEF PushesCovered, PendingSeenTo, Covered
<1>6. NeverBackwards
  BY <1>1, <1>2 DEF NeverBackwards, TriggerTypes
<1> QED
  BY <1>3, <1>4, <1>5, <1>6 DEF TriggersInv

LEMMA DeliverTriggers ==
  ASSUME TriggersInv, NEW commit \in 1 .. head, Deliver(commit) PROVE TriggersInv' /\ NeverBackwards
<1>1. UNCHANGED <<head, fires, activeRun, newestDraft>>
  BY DEF Deliver
<1>2. TriggerTypes /\ RunFollows /\ PushesCovered /\ PendingSeenTo
  BY DEF TriggersInv
<1>3. RunFollows'
  BY <1>1, <1>2 DEF RunFollows
<1>4. NeverBackwards
  BY <1>1, <1>2 DEF NeverBackwards, TriggerTypes
<1>5. CASE UNCHANGED <<waitingPush, timer, pushes, ghosts>>
  <2>1. UNCHANGED <<waitingPush, timer, pushes, wanted, excused>>
    BY <1>5 DEF ghosts
  <2>2. TriggerTypes'
    BY <1>1, <1>2, <2>1 DEF TriggerTypes
  <2>3. PushesCovered' /\ PendingSeenTo'
    BY <1>1, <1>2, <2>1 DEF PushesCovered, PendingSeenTo, Covered
  <2> QED
    BY <1>3, <1>4, <2>2, <2>3 DEF TriggersInv
<1>6. CASE /\ pushes' = pushes + 1 /\ waitingPush' = pushes + 1 /\ timer' = TRUE
           /\ wanted' = (IF commit > wanted THEN commit ELSE wanted)
           /\ excused' = FALSE
  <2>1. TriggerTypes'
    <3>1. wanted' \in 0 .. head
      BY <1>2, <1>6 DEF TriggerTypes
    <3>2. pushes' \in Nat /\ waitingPush' \in 0 .. pushes'
      <4>1. pushes \in Nat
        BY <1>2 DEF TriggerTypes
      <4> QED
        BY <1>6, <4>1
    <3>3. timer' \in BOOLEAN /\ excused' \in BOOLEAN
      BY <1>6
    <3> QED
      BY <1>1, <1>2, <3>1, <3>2, <3>3 DEF TriggerTypes
  <2>2. waitingPush' # 0 /\ pushes \in Nat
    BY <1>2, <1>6 DEF TriggerTypes
  <2>3. \A f \in fires' : f.of \in 1 .. pushes' /\ f.of # waitingPush'
    BY <1>1, <1>2, <1>6, <2>2 DEF PushesCovered
  <2>4. PushesCovered'
    BY <2>2, <2>3 DEF PushesCovered
  <2>5. PendingSeenTo'
    BY <1>6 DEF PendingSeenTo
  <2> QED
    BY <1>3, <1>4, <2>1, <2>4, <2>5 DEF TriggersInv
<1> QED
  BY <1>5, <1>6 DEF Deliver

LEMMA FireTriggers ==
  ASSUME TriggersInv, Fire PROVE TriggersInv' /\ NeverBackwards
<1>1. timer' = FALSE /\ UNCHANGED <<head, waitingPush, pushes, newestDraft, wanted, excused>>
  BY DEF Fire, ghosts
<1>2. TriggerTypes /\ RunFollows /\ PushesCovered /\ PendingSeenTo
  BY DEF TriggersInv
<1>3. NeverBackwards
  BY <1>1, <1>2 DEF NeverBackwards, TriggerTypes
<1>4. CASE waitingPush = 0 /\ UNCHANGED <<fires, activeRun>>
  <2>1. TriggerTypes'
    BY <1>1, <1>2, <1>4 DEF TriggerTypes
  <2>2. RunFollows'
    BY <1>1, <1>2, <1>4 DEF RunFollows
  <2>3. PushesCovered'
    BY <1>1, <1>2, <1>4 DEF PushesCovered, Covered
  <2>4. PendingSeenTo'
    BY <1>1, <1>4 DEF PendingSeenTo
  <2> QED
    BY <1>3, <2>1, <2>2, <2>3, <2>4 DEF TriggersInv
<1>5. CASE waitingPush # 0
  <2> DEFINE new == [of |-> waitingPush, result |-> Start(NoRef).result]
  <2>1. activeRun' = Start(NoRef).run /\ fires' = fires \cup {new}
    BY <1>5 DEF Fire
  <2>2. /\ activeRun # NoRun => activeRun' = activeRun /\ Start(NoRef).result = "active"
        /\ activeRun = NoRun => /\ activeRun' = [ref |-> NoRef, base |-> newestDraft, commit |-> 0]
                                /\ activeRun' \in TriggerRuns /\ Start(NoRef).result = "started"
    <3>1. CASE activeRun # NoRun
      BY <2>1, <3>1 DEF Start
    <3>2. CASE activeRun = NoRun
      <4>1. newestDraft \in Nat /\ NoRef # newestDraft
        BY <1>2, NoTriggerRun DEF TriggerTypes
      <4> QED
        BY <2>1, <3>2, <4>1, FreshRun
    <3> QED
      BY <3>1, <3>2
  <2>3. new.of = waitingPush /\ new.result \in {"active", "started"}
        /\ new \in [of : Nat, result : {"active", "started", "failed"}]
    BY <1>2, <2>2 DEF TriggerTypes
  <2>4. new.result = "started" => Covered'
    BY <2>2, NoTriggerRun DEF Covered
  <2> HIDE DEF new
  <2>5. TriggerTypes'
    <3>1. activeRun' \in TriggerRuns \cup {NoRun}
      BY <1>2, <2>2 DEF TriggerTypes
    <3>2. fires' \subseteq [of : Nat, result : {"active", "started", "failed"}]
      BY <1>2, <2>1, <2>3 DEF TriggerTypes
    <3> QED
      BY <1>1, <1>2, <3>1, <3>2 DEF TriggerTypes
  <2>6. RunFollows'
    BY <1>1, <1>2, <2>2 DEF RunFollows, TriggerTypes
  <2>7. (excused \/ Covered) => (excused \/ Covered)'
    BY <1>1, <2>2, NoTriggerRun DEF Covered
  <2>8. ASSUME NEW f \in fires'
        PROVE  /\ f.of \in 1 .. pushes'
               /\ f.of = waitingPush' /\ f.result = "started" => (excused \/ Covered)'
               /\ f.of = waitingPush' /\ f.result = "failed" => excused'
    <3>1. CASE f \in fires
      BY <1>1, <1>2, <2>7, <3>1 DEF PushesCovered
    <3>2. CASE f = new
      BY <1>1, <1>2, <1>5, <2>3, <2>4, <3>2 DEF TriggerTypes
    <3> QED
      BY <2>1, <3>1, <3>2
  <2>9. PushesCovered'
    BY <1>1, <1>5, <2>8 DEF PushesCovered
  <2>10. PendingSeenTo'
    BY <1>1, <2>1, <2>3 DEF PendingSeenTo
  <2> QED
    BY <1>3, <2>5, <2>6, <2>9, <2>10 DEF TriggersInv
<1> QED
  BY <1>4, <1>5 DEF Fire

LEMMA FireFailsTriggers ==
  ASSUME TriggersInv, FireFails PROVE TriggersInv' /\ NeverBackwards
<1> DEFINE new == [of |-> waitingPush, result |-> "failed"]
<1>1. /\ timer' = FALSE /\ excused' = TRUE /\ waitingPush # 0 /\ fires' = fires \cup {new}
      /\ UNCHANGED <<head, waitingPush, pushes, activeRun, newestDraft, wanted>>
  BY DEF FireFails
<1>2. TriggerTypes /\ RunFollows /\ PushesCovered
  BY DEF TriggersInv
<1>3. new.of = waitingPush /\ new \in [of : Nat, result : {"active", "started", "failed"}]
  BY <1>2 DEF TriggerTypes
<1> HIDE DEF new
<1>4. TriggerTypes'
  BY <1>1, <1>2, <1>3 DEF TriggerTypes
<1>5. RunFollows'
  BY <1>1, <1>2 DEF RunFollows
<1>6. \A f \in fires' : f.of \in 1 .. pushes'
  BY <1>1, <1>2, <1>3 DEF PushesCovered, TriggerTypes
<1>7. PushesCovered' /\ PendingSeenTo'
  BY <1>1, <1>3, <1>6 DEF PushesCovered, PendingSeenTo
<1>8. NeverBackwards
  BY <1>1, <1>2 DEF NeverBackwards, TriggerTypes
<1> QED
  BY <1>4, <1>5, <1>7, <1>8 DEF TriggersInv

LEMMA FireEndsTriggers ==
  ASSUME TriggersInv, NEW f \in fires, FireEnds(f) PROVE TriggersInv' /\ NeverBackwards
<1>1. /\ fires' = fires \ {f}
      /\ UNCHANGED <<head, pushes, activeRun, newestDraft, wanted, excused>>
  BY DEF FireEnds, ghosts
<1>2. TriggerTypes /\ RunFollows /\ PushesCovered /\ PendingSeenTo
  BY DEF TriggersInv
<1>3. RunFollows' /\ NeverBackwards
  BY <1>1, <1>2 DEF RunFollows, NeverBackwards, TriggerTypes
<1>4. \A g \in fires' : g.of \in 1 .. pushes'
  BY <1>1, <1>2 DEF PushesCovered
<1>5. (excused \/ Covered)' = (excused \/ Covered)
  BY <1>1 DEF Covered
<1>6. CASE waitingPush # f.of /\ UNCHANGED <<waitingPush, timer>>
  <2>1. TriggerTypes'
    BY <1>1, <1>2, <1>6 DEF TriggerTypes
  <2>2. PushesCovered'
    BY <1>1, <1>2, <1>5, <1>6, StayCovered
  <2>3. PendingSeenTo'
    BY <1>1, <1>2, <1>6 DEF PendingSeenTo
  <2> QED
    BY <1>3, <2>1, <2>2, <2>3 DEF TriggersInv
<1>7. CASE waitingPush = f.of /\ f.result = "active" /\ timer' = TRUE /\ UNCHANGED waitingPush
  <2>1. TriggerTypes'
    BY <1>1, <1>2, <1>7 DEF TriggerTypes
  <2>2. PushesCovered'
    BY <1>1, <1>2, <1>5, <1>7, StayCovered
  <2>3. PendingSeenTo'
    BY <1>7 DEF PendingSeenTo
  <2> QED
    BY <1>3, <2>1, <2>2, <2>3 DEF TriggersInv
<1>8. CASE waitingPush = f.of /\ f.result # "active" /\ waitingPush' = 0 /\ UNCHANGED timer
  <2>1. TriggerTypes'
    BY <1>1, <1>2, <1>8 DEF TriggerTypes
  <2>2. f.result \in {"started", "failed"}
    BY <1>2, <1>8 DEF TriggerTypes
  <2>3. excused \/ Covered
    BY <1>2, <1>8, <2>2 DEF PushesCovered
  <2>4. \A g \in fires' : g.of # 0
    BY <1>2, <1>4 DEF TriggerTypes
  <2>5. PushesCovered'
    BY <1>4, <1>5, <1>8, <2>3, <2>4 DEF PushesCovered
  <2>6. PendingSeenTo'
    BY <1>8 DEF PendingSeenTo
  <2> QED
    BY <1>3, <2>1, <2>5, <2>6 DEF TriggersInv
<1> QED
  BY <1>6, <1>7, <1>8 DEF FireEnds

\* A step of the run, or of who starts it, that leaves the triggers alone.
LEMMA RunTriggers ==
  ASSUME TriggersInv, TriggerTypes', RunFollows',
         UNCHANGED <<waitingPush, timer, pushes, fires>>,
         (excused \/ Covered) => (excused \/ Covered)', excused => excused'
  PROVE  TriggersInv'
<1>1. PushesCovered'
  BY StayCovered DEF TriggersInv
<1>2. PendingSeenTo'
  BY DEF TriggersInv, PendingSeenTo
<1> QED
  BY <1>1, <1>2 DEF TriggersInv

LEMMA StartTriggers ==
  ASSUME TriggersInv, NEW ref \in (0 .. head) \cup {NoRef},
         activeRun = NoRun, activeRun' = Start(ref).run,
         UNCHANGED <<head, triggers, newestDraft, ghosts>>
  PROVE  TriggersInv' /\ NeverBackwards
<1>1. UNCHANGED <<waitingPush, timer, pushes, fires, wanted, excused>>
  BY DEF triggers, ghosts
<1>2. TriggerTypes /\ newestDraft \in Nat /\ ref \in Nat \cup {NoRef}
  BY DEF TriggersInv, TriggerTypes
<1>3. \/ activeRun' = NoRun
      \/ /\ activeRun' = [ref |-> ref, base |-> newestDraft, commit |-> 0]
         /\ activeRun' \in TriggerRuns
  BY <1>2, FreshRun
<1>4. TriggerTypes'
  BY <1>1, <1>2, <1>3 DEF TriggerTypes
<1>5. RunFollows'
  BY <1>1, <1>2, <1>3 DEF RunFollows, TriggerTypes
<1>6. Covered => Covered'
  BY <1>1 DEF Covered
<1>7. TriggersInv'
  BY <1>1, <1>4, <1>5, <1>6, RunTriggers
<1>8. NeverBackwards
  BY <1>2 DEF NeverBackwards
<1> QED
  BY <1>7, <1>8

LEMMA RunResolvesTriggers ==
  ASSUME TriggersInv, RunResolves PROVE TriggersInv' /\ NeverBackwards
<1> DEFINE c == Resolved(activeRun.ref)
<1>1. /\ activeRun # NoRun /\ activeRun.commit = 0
      /\ UNCHANGED <<head, waitingPush, timer, pushes, fires, newestDraft, wanted, excused>>
  BY DEF RunResolves, triggers, ghosts
<1>2. TriggerTypes /\ RunFollows
  BY DEF TriggersInv
<1>3. activeRun \in TriggerRuns
  BY <1>1, <1>2 DEF TriggerTypes
<1>4. c \in 0 .. head /\ (activeRun.ref = NoRef => c = head)
  BY <1>1, <1>2, <1>3 DEF Resolved, RunFollows, TriggerTypes
<1>5. activeRun.base = newestDraft
  BY <1>1, <1>2 DEF RunFollows
<1>6. \/ c = newestDraft /\ activeRun' = NoRun
      \/ c # newestDraft /\ activeRun' = [activeRun EXCEPT !.commit = c]
  BY <1>5 DEF RunResolves
<1> HIDE DEF c
<1>7. CASE c = newestDraft /\ activeRun' = NoRun
  <2>1. TriggerTypes' /\ RunFollows'
    BY <1>1, <1>2, <1>7 DEF TriggerTypes, RunFollows
  <2>2. Covered => Covered'
    BY <1>1, <1>2, <1>4, <1>7 DEF Covered, TriggerTypes
  <2>3. TriggersInv'
    BY <1>1, <2>1, <2>2, RunTriggers
  <2> QED
    BY <1>1, <1>2, <2>3 DEF NeverBackwards, TriggerTypes
<1>8. CASE c # newestDraft /\ activeRun' = [activeRun EXCEPT !.commit = c]
  <2>1. /\ activeRun' \in TriggerRuns /\ activeRun'.commit = c
        /\ activeRun'.ref = activeRun.ref /\ activeRun'.base = activeRun.base
    BY <1>3, <1>4, <1>8, <1>2 DEF TriggerRuns, TriggerTypes
  <2>2. TriggerTypes'
    BY <1>1, <1>2, <2>1 DEF TriggerTypes
  <2>3. RunFollows'
    BY <1>1, <1>2, <1>4, <2>1 DEF RunFollows, TriggerTypes
  <2>4. activeRun' # NoRun
    BY <2>1, NoTriggerRun
  <2>5. Covered => Covered'
    BY <1>1, <1>2, <1>4, <2>1, <2>4 DEF Covered, TriggerTypes
  <2>6. TriggersInv'
    BY <1>1, <2>2, <2>3, <2>5, RunTriggers
  <2> QED
    BY <1>1, <1>2, <2>6 DEF NeverBackwards, TriggerTypes
<1> QED
  BY <1>6, <1>7, <1>8

LEMMA RunEndsTriggers ==
  ASSUME TriggersInv, RunEnds PROVE TriggersInv' /\ NeverBackwards
<1>1. /\ activeRun # NoRun /\ activeRun.commit # 0
      /\ newestDraft' = activeRun.commit /\ activeRun' = NoRun
      /\ excused' = (excused \/ (activeRun.ref # NoRef /\ activeRun.commit < wanted))
      /\ UNCHANGED <<head, waitingPush, timer, pushes, fires, wanted>>
  BY DEF RunEnds, triggers
<1>2. TriggerTypes /\ RunFollows
  BY DEF TriggersInv
<1>3. activeRun.commit \in 0 .. head
      /\ (activeRun.ref = NoRef => activeRun.commit >= newestDraft)
  BY <1>1, <1>2 DEF RunFollows
<1>4. TriggerTypes'
  BY <1>1, <1>2, <1>3 DEF TriggerTypes
<1>5. RunFollows'
  BY <1>1 DEF RunFollows
<1>6. (excused \/ Covered) => (excused \/ Covered)'
  <2>1. /\ wanted' = wanted /\ wanted \in Nat /\ newestDraft \in Nat
        /\ newestDraft' = activeRun.commit /\ activeRun.commit \in Nat
    BY <1>1, <1>2, <1>3 DEF TriggerTypes
  <2>2. CASE activeRun.ref # NoRef
    <3>1. CASE activeRun.commit < wanted
      BY <1>1, <2>2, <3>1
    <3>2. CASE ~(activeRun.commit < wanted)
      <4>1. newestDraft' >= wanted'
        BY <2>1, <3>2
      <4> QED
        BY <4>1 DEF Covered
    <3> QED
      BY <3>1, <3>2
  <2>3. CASE activeRun.ref = NoRef
    <3>1. Covered => activeRun.commit >= wanted
      BY <1>1, <1>3, <2>1, <2>3 DEF Covered
    <3> QED
      BY <1>1, <2>1, <3>1 DEF Covered
  <2> QED
    BY <2>2, <2>3
<1>7. TriggersInv'
  BY <1>1, <1>4, <1>5, <1>6, RunTriggers
<1>8. NeverBackwards
  BY <1>1, <1>2, <1>3 DEF NeverBackwards, TriggerTypes
<1> QED
  BY <1>7, <1>8

LEMMA RunFailsTriggers ==
  ASSUME TriggersInv, RunFails PROVE TriggersInv' /\ NeverBackwards
<1>1. /\ activeRun' = NoRun /\ excused' = TRUE
      /\ UNCHANGED <<head, waitingPush, timer, pushes, fires, newestDraft, wanted>>
  BY DEF RunFails, triggers
<1>2. TriggerTypes' /\ RunFollows'
  BY <1>1 DEF TriggersInv, TriggerTypes, RunFollows
<1>3. TriggersInv'
  BY <1>1, <1>2, RunTriggers
<1> QED
  BY <1>1, <1>3 DEF TriggersInv, TriggerTypes, NeverBackwards

LEMMA RestartTriggersInv ==
  ASSUME TriggersInv, RestartTriggers PROVE TriggersInv' /\ NeverBackwards
<1>1. /\ waitingPush' = 0 /\ timer' = FALSE /\ pushes' = 0 /\ fires' = {}
      /\ activeRun' = NoRun /\ excused' = TRUE
      /\ UNCHANGED <<head, newestDraft, wanted>>
  BY DEF RestartTriggers
<1>2. TriggerTypes
  BY DEF TriggersInv
<1>3. TriggerTypes'
  <2>1. waitingPush' \in 0 .. pushes' /\ pushes' \in Nat
    BY <1>1
  <2>2. fires' \subseteq [of : Nat, result : {"active", "started", "failed"}]
    BY <1>1
  <2>3. activeRun' \in TriggerRuns \cup {NoRun} /\ timer' \in BOOLEAN /\ excused' \in BOOLEAN
    BY <1>1
  <2> QED
    BY <1>1, <1>2, <2>1, <2>2, <2>3 DEF TriggerTypes
<1>4. RunFollows' /\ PushesCovered' /\ PendingSeenTo'
  BY <1>1 DEF RunFollows, PushesCovered, PendingSeenTo
<1>5. NeverBackwards
  BY <1>1, <1>2 DEF NeverBackwards, TriggerTypes
<1> QED
  BY <1>3, <1>4, <1>5 DEF TriggersInv

LEMMA NextTriggersInv ==
  ASSUME TriggersInv, [TriggersNext]_triggerVars PROVE TriggersInv' /\ NeverBackwards
<1>1. CASE HeadMoves
  BY <1>1, HeadMovesTriggers
<1>2. CASE \E commit \in 1 .. head : Deliver(commit)
  BY <1>2, DeliverTriggers
<1>3. ASSUME NEW commit \in 1 .. head, StartNamed(commit) PROVE TriggersInv' /\ NeverBackwards
  <2>1. commit \in (0 .. head) \cup {NoRef}
    BY DEF TriggersInv, TriggerTypes
  <2> QED
    BY <1>3, <2>1, StartTriggers DEF StartNamed
<1>4. CASE StartDirectly
  BY <1>4, StartTriggers DEF StartDirectly
<1>5. CASE Fire
  BY <1>5, FireTriggers
<1>6. CASE FireFails
  BY <1>6, FireFailsTriggers
<1>7. CASE \E f \in fires : FireEnds(f)
  BY <1>7, FireEndsTriggers
<1>8. CASE RunResolves
  BY <1>8, RunResolvesTriggers
<1>9. CASE RunEnds
  BY <1>9, RunEndsTriggers
<1>10. CASE RunFails
  BY <1>10, RunFailsTriggers
<1>11. CASE RestartTriggers
  BY <1>11, RestartTriggersInv
<1>12. CASE UNCHANGED triggerVars
  <2>1. UNCHANGED <<head, waitingPush, timer, pushes, fires, activeRun, newestDraft, wanted, excused>>
    BY <1>12 DEF triggerVars, triggers, ghosts
  <2>2. TriggerTypes' /\ RunFollows'
    BY <2>1 DEF TriggersInv, TriggerTypes, RunFollows
  <2>3. Covered' = Covered
    BY <2>1 DEF Covered
  <2>4. TriggersInv'
    BY <2>1, <2>2, <2>3, RunTriggers
  <2> QED
    BY <2>1, <2>4 DEF TriggersInv, TriggerTypes, NeverBackwards
<1> QED
  BY <1>1, <1>2, <1>3, <1>4, <1>5, <1>6, <1>7, <1>8, <1>9, <1>10, <1>11, <1>12
  DEF TriggersNext

\* In every behaviour of the triggers, with any number of pushes, deliveries, restarts and
\* failures, a push that waits is seen to, every push is drafted or excused once nothing is
\* under way, and only a commit that was named takes the draft backwards
\* (IncrementalTriggers!TriggersSafe).
THEOREM TriggersAlwaysSafe == TriggersSpec => TriggersSafe
<1>1. TriggersInit => TriggersInv
  BY InitTriggersInv
<1>2. TriggersInv /\ [TriggersNext]_triggerVars => TriggersInv'
  BY NextTriggersInv
<1>3. TriggersInv /\ TriggersInv' /\ [TriggersNext]_triggerVars => [TriggersStep]_triggerVars
  <2> SUFFICES ASSUME TriggersInv, TriggersInv', [TriggersNext]_triggerVars PROVE TriggersStep
    OBVIOUS
  <2>1. NeverBackwards
    BY NextTriggersInv
  <2>2. PendingSeenTo'
    BY DEF TriggersInv
  <2>3. PushesDrafted'
    BY DEF TriggersInv, PushesCovered, Covered, PushesDrafted
  <2> QED
    BY <2>1, <2>2, <2>3 DEF TriggersStep
<1> QED
  BY <1>1, <1>2, <1>3, PTL DEF TriggersSpec, TriggersSafe

=============================================================================
