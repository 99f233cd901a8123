------------------------- MODULE IncrementalTriggers -------------------------
(***************************************************************************)
(* What starts incremental runs of one repository without a browser        *)
(* (operatorIncrementalTriggers.ts, operatorIncremental.ts): GitHub's      *)
(* pushes, which are debounced, and cron; and the operator's own starts.   *)
(* Commits are the positions of the default branch's history, and the      *)
(* draft is the commit of the newest one.  Signatures and payloads are     *)
(* left out: every delivery is a push that the route takes.  Publications  *)
(* and what a run does meanwhile are in module OperatorRuns.               *)
(***************************************************************************)
EXTENDS Naturals, Sequences, SequencesExt

CONSTANTS MaxHead,        \* commits pushed
          MaxDeliveries,  \* deliveries that arrive, redelivered ones included
          LruSize,        \* deliveries remembered
          MaxFaults,      \* restarts, failures, cancellations and starts at a named commit
          NoRun, NoRef    \* no run; the ref of a run that takes the HEAD of the branch

ASSUME TriggersAssumption ==
  NoRef \notin Nat /\ NoRun \notin [ref : Nat \cup {NoRef}, base : Nat, commit : Nat]

VARIABLES
  head,        \* the newest commit of the default branch
  seen,        \* ids of the deliveries remembered, the latest last
  waitingPush, \* the generation of the push that waits for its start; 0 if none does
  timer,       \* is the debounce timer set
  pushes,      \* pushes scheduled by this process
  fires,       \* starts awaited by the scheduler: [of : a generation, result]
  activeRun,   \* NoRun, or the active run: its ref, baseline and commit (0 until resolved)
  newestDraft, \* the commit of the newest draft
  deliveries, faults,
  wanted,      \* ghost: the newest commit whose push was scheduled
  excused      \* ghost: since then a start or a run has failed, was cut off, or took an older commit

triggers == <<seen, waitingPush, timer, pushes, fires>>
bounds == <<deliveries, faults>>
ghosts == <<wanted, excused>>
triggerVars == <<head, triggers, activeRun, newestDraft, bounds, ghosts>>

TriggersInit ==
  /\ head = 0 /\ seen = <<>> /\ waitingPush = 0 /\ timer = FALSE /\ pushes = 0 /\ fires = {}
  /\ activeRun = NoRun /\ newestDraft = 0
  /\ deliveries = 0 /\ faults = 0 /\ wanted = 0 /\ excused = FALSE

-----------------------------------------------------------------------------
HeadMoves ==
  /\ head < MaxHead /\ head' = head + 1
  /\ UNCHANGED <<triggers, activeRun, newestDraft, bounds, ghosts>>

\* createDeliveryLru: the id becomes the latest, and the oldest is forgotten.
Remembered(id) ==
  LET kept == Append(SelectSeq(seen, LAMBDA s : s # id), id)
  IN  IF Len(kept) > LruSize THEN Tail(kept) ELSE kept

\* handleIncrementalAutomation, as GitHub delivers the push of a commit: in any order, late,
\* again, or never.
Deliver(commit) ==
  /\ deliveries < MaxDeliveries /\ deliveries' = deliveries + 1
  /\ seen' = Remembered(commit)
  /\ \/ /\ Contains(seen, commit)
        /\ UNCHANGED <<waitingPush, timer, pushes, ghosts>>
     \/ /\ ~Contains(seen, commit)
        /\ pushes' = pushes + 1 /\ waitingPush' = pushes + 1 /\ timer' = TRUE
        /\ wanted' = IF commit > wanted THEN commit ELSE wanted
        /\ excused' = FALSE
  /\ UNCHANGED <<head, fires, activeRun, newestDraft, faults>>

\* startIncrementalRun, up to the await of its enqueue: the state of the start it leaves.
Start(ref) ==
  IF activeRun # NoRun THEN [run |-> activeRun, result |-> "active"]
  ELSE IF ref # NoRef /\ ref = newestDraft THEN [run |-> activeRun, result |-> "up_to_date"]
  ELSE [run |-> [ref |-> ref, base |-> newestDraft, commit |-> 0], result |-> "started"]

\* The debounce timer is over.
Fire ==
  /\ timer /\ timer' = FALSE
  /\ \/ waitingPush = 0 /\ UNCHANGED <<fires, activeRun>>
     \/ /\ waitingPush # 0
        /\ activeRun' = Start(NoRef).run
        /\ fires' = fires \cup {[of |-> waitingPush, result |-> Start(NoRef).result]}
  /\ UNCHANGED <<head, seen, waitingPush, pushes, newestDraft, bounds, ghosts>>

\* ... and the start throws, before or after it has made a run, which is then failed.
FireFails ==
  /\ faults < MaxFaults /\ faults' = faults + 1
  /\ timer /\ timer' = FALSE /\ waitingPush # 0 /\ activeRun = NoRun
  /\ fires' = fires \cup {[of |-> waitingPush, result |-> "failed"]}
  /\ excused' = TRUE
  /\ UNCHANGED <<head, seen, waitingPush, pushes, activeRun, newestDraft, deliveries, wanted>>

\* Mutant of FireEnds: a start forgets the push that came while it was awaited.
FireEndsUnasked(f) ==
  /\ fires' = fires \ {f}
  /\ timer' = (timer \/ f.result = "active")
  /\ waitingPush' = IF f.result = "active" THEN waitingPush ELSE 0
  /\ UNCHANGED <<head, seen, pushes, activeRun, newestDraft, bounds, ghosts>>

\* Mutant of FireEnds: a push that found a run active is dropped.
FireEndsForgetful(f) ==
  /\ fires' = fires \ {f}
  /\ waitingPush' = IF waitingPush = f.of THEN 0 ELSE waitingPush
  /\ UNCHANGED <<head, seen, timer, pushes, activeRun, newestDraft, bounds, ghosts>>

\* The start has been awaited: the push it was for is done with, unless a later one has
\* taken its place, or waits on, if a run was active.
FireEnds(f) ==
  /\ fires' = fires \ {f}
  /\ \/ waitingPush # f.of /\ UNCHANGED <<waitingPush, timer>>
     \/ waitingPush = f.of /\ f.result = "active" /\ timer' = TRUE /\ UNCHANGED waitingPush
     \/ waitingPush = f.of /\ f.result # "active" /\ waitingPush' = 0 /\ UNCHANGED timer
  /\ UNCHANGED <<head, seen, pushes, activeRun, newestDraft, bounds, ghosts>>

\* Cron and the operator start at once, at HEAD or at the commit they name.
StartDirectly ==
  /\ activeRun = NoRun /\ activeRun' = Start(NoRef).run
  /\ UNCHANGED <<head, triggers, newestDraft, bounds, ghosts>>

StartNamed(commit) ==
  /\ faults < MaxFaults /\ faults' = faults + 1
  /\ activeRun = NoRun /\ activeRun' = Start(commit).run
  /\ UNCHANGED <<head, triggers, newestDraft, deliveries, ghosts>>

-----------------------------------------------------------------------------
(* The run.                                                                *)

\* It resolves its ref, and has nothing to do if that is its baseline.
Resolved(ref) == IF ref = NoRef THEN head ELSE ref

RunResolves ==
  /\ activeRun # NoRun /\ activeRun.commit = 0
  /\ \/ Resolved(activeRun.ref) = activeRun.base /\ activeRun' = NoRun
     \/ /\ Resolved(activeRun.ref) # activeRun.base
        /\ activeRun' = [activeRun EXCEPT !.commit = Resolved(activeRun.ref)]
  /\ UNCHANGED <<head, triggers, newestDraft, bounds, ghosts>>

RunEnds ==
  /\ activeRun # NoRun /\ activeRun.commit # 0
  /\ newestDraft' = activeRun.commit /\ activeRun' = NoRun
  /\ excused' = (excused \/ (activeRun.ref # NoRef /\ activeRun.commit < wanted))
  /\ UNCHANGED <<head, triggers, bounds, wanted>>

\* It fails, or is cancelled.
RunFails ==
  /\ faults < MaxFaults /\ faults' = faults + 1
  /\ activeRun # NoRun /\ activeRun' = NoRun
  /\ excused' = TRUE
  /\ UNCHANGED <<head, triggers, newestDraft, deliveries, wanted>>

\* A restart forgets the triggers and interrupts the run.
RestartTriggers ==
  /\ faults < MaxFaults /\ faults' = faults + 1
  /\ seen' = <<>> /\ waitingPush' = 0 /\ timer' = FALSE /\ pushes' = 0 /\ fires' = {}
  /\ activeRun' = NoRun
  /\ excused' = TRUE
  /\ UNCHANGED <<head, newestDraft, deliveries, wanted>>

TriggersNext ==
  \/ HeadMoves
  \/ \E commit \in 1 .. head : Deliver(commit) \/ StartNamed(commit)
  \/ StartDirectly
  \/ Fire \/ FireFails
  \/ \E f \in fires : FireEnds(f)
  \/ RunResolves \/ RunEnds \/ RunFails
  \/ RestartTriggers

TriggersSpec == TriggersInit /\ [][TriggersNext]_triggerVars

\* Timers fire, starts are not awaited for ever, and runs end (module OperatorRuns).
RunGoesOn == RunResolves \/ RunEnds
TriggersFairSpec ==
  /\ TriggersSpec
  /\ WF_triggerVars(Fire) /\ WF_triggerVars(\E f \in fires : FireEnds(f)) /\ WF_triggerVars(RunGoesOn)

-----------------------------------------------------------------------------
(* Properties.                                                             *)

\* A push that waits has a timer or a start under way that will see to it, however starts
\* overlap.
PendingSeenTo ==
  waitingPush # 0 => timer \/ \E f \in fires : f.of = waitingPush

\* When nothing waits or runs any more, every push that was scheduled is drafted, unless a
\* start or a run has failed since or has taken an older commit by name.
PushesDrafted ==
  (waitingPush = 0 /\ activeRun = NoRun /\ ~excused) => newestDraft >= wanted

\* No push moves the draft backwards, out of order or redelivered though it be; only a
\* commit that was named does.
NeverBackwards == newestDraft' < newestDraft => activeRun.ref # NoRef

\* All of it, as what every step keeps.
TriggersStep == PendingSeenTo' /\ PushesDrafted' /\ NeverBackwards

\* No push is forgotten or drafted backwards.
TriggersSafe == [][TriggersStep]_triggerVars

\* A push that was scheduled is drafted in the end.
DraftCatchesUp == (wanted > newestDraft /\ ~excused) ~> (newestDraft >= wanted \/ excused)

=============================================================================
