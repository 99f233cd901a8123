---------------------------- MODULE ScanWorkers -----------------------------
(***************************************************************************)
(* Scans in child processes under a process-wide limit (runLimitedWorker   *)
(* and runInWorker, apps/server/src/scanWorker.ts).  A scan takes a slot   *)
(* or waits for one, starts a child with a private scratch directory, and  *)
(* settles once: on the first reply, on a timeout, on an abort, on a send  *)
(* or spawn error, or on the exit of the child, whichever event comes      *)
(* first.  Each event of the parent's loop is one action.                  *)
(***************************************************************************)
EXTENDS Naturals, Sequences, FiniteSets

CONSTANTS
  Scans,   \* scans that are asked for
  Limit    \* OKIE_SCAN_WORKER_CONCURRENCY

ASSUME ScansAssumption == IsFiniteSet(Scans) /\ Limit \in Nat \ {0}

VARIABLES
  scanPhase, \* [Scans -> ScanPhase]
  active,    \* slots that are taken or promised
  waiting,   \* scans that wait for a slot, in order
  child,     \* [Scans -> Child]: the child process
  scratch,   \* scans whose scratch directory exists
  aborted,   \* scans whose signal is aborted
  down       \* the server process has exited

scanVars == <<scanPhase, active, waiting, child, scratch, aborted, down>>

ScanPhase == {"idle", "waiting", "granted", "running", "settled", "returned"}
Child == {"none", "unborn", "alive", "killed", "gone"}

ScansInit ==
  /\ scanPhase = [s \in Scans |-> "idle"]
  /\ active = 0
  /\ waiting = <<>>
  /\ child = [s \in Scans |-> "none"]
  /\ scratch = {}
  /\ aborted = {}
  /\ down = FALSE

Turn(s, p) == scanPhase' = [scanPhase EXCEPT ![s] = p]

\* acquire: a free slot is taken at once, otherwise the scan queues for one.
TakeSlot(s) ==
  /\ scanPhase[s] = "idle"
  /\ \/ /\ active < Limit
        /\ active' = active + 1
        /\ Turn(s, "granted")
        /\ UNCHANGED waiting
     \/ /\ active >= Limit
        /\ waiting' = Append(waiting, s)
        /\ Turn(s, "waiting")
        /\ UNCHANGED active
  /\ UNCHANGED <<child, scratch, aborted, down>>

\* runInWorker begins when the await of acquire resumes: a signal that is aborted by
\* then or a scratch directory that cannot be made settles the scan, otherwise the
\* child is spawned (with no pid when the spawn fails).
StartScan(s) ==
  /\ scanPhase[s] = "granted"
  /\ \/ Turn(s, "settled") /\ UNCHANGED <<child, scratch>>
     \/ /\ s \notin aborted
        /\ Turn(s, "running")
        /\ scratch' = scratch \cup {s}
        /\ \E born \in {"unborn", "alive"} : child' = [child EXCEPT ![s] = born]
  /\ UNCHANGED <<active, waiting, aborted, down>>

\* settle(): the first event decides the outcome and kills the child's group.
SettleScan(s) ==
  /\ Turn(s, IF scanPhase[s] = "running" THEN "settled" ELSE scanPhase[s])
  /\ child' = IF scanPhase[s] = "running" /\ child[s] = "alive"
              THEN [child EXCEPT ![s] = "killed"] ELSE child

\* The child replies, or the parent cannot send it the input.
Message(s) ==
  /\ scanPhase[s] = "running" /\ child[s] = "alive"
  /\ SettleScan(s)
  /\ UNCHANGED <<active, waiting, scratch, aborted, down>>

Timeout(s) ==
  /\ scanPhase[s] = "running"
  /\ SettleScan(s)
  /\ UNCHANGED <<active, waiting, scratch, aborted, down>>

\* The run is cancelled: at any time, also while its scan waits or when it is over.
Abort(s) ==
  /\ s \notin aborted /\ ~down
  /\ aborted' = aborted \cup {s}
  /\ SettleScan(s)
  /\ UNCHANGED <<active, waiting, scratch, down>>

\* The "error" event of a child that was never born: its scratch goes here.
SpawnError(s) ==
  /\ child[s] = "unborn" /\ s \in scratch
  /\ scratch' = scratch \ {s}
  /\ SettleScan(s)
  /\ UNCHANGED <<active, waiting, aborted, down>>

\* Mutant of ChildExit: the scratch of a scan that had settled is kept.
ChildExitSettled(s) ==
  /\ child[s] \in {"alive", "killed"}
  /\ child' = [child EXCEPT ![s] = "gone"]
  /\ scratch' = IF scanPhase[s] = "running" THEN scratch \ {s} ELSE scratch
  /\ Turn(s, IF scanPhase[s] = "running" THEN "settled" ELSE scanPhase[s])
  /\ UNCHANGED <<active, waiting, aborted, down>>

\* The child exits, by itself or because it was killed.
ChildExit(s) ==
  /\ child[s] \in {"alive", "killed"}
  /\ child' = [child EXCEPT ![s] = "gone"]
  /\ scratch' = scratch \ {s}
  /\ Turn(s, IF scanPhase[s] = "running" THEN "settled" ELSE scanPhase[s])
  /\ UNCHANGED <<active, waiting, aborted, down>>

\* Mutant of ReleaseSlot: the slot is freed and nobody is told.
ReleaseSlotUntold(s) ==
  /\ scanPhase[s] = "settled"
  /\ active' = active - 1
  /\ Turn(s, "returned")
  /\ UNCHANGED <<waiting, child, scratch, aborted, down>>

\* The finally clause of runLimitedWorker: the slot passes to the first scan that
\* waits, or is free again.
ReleaseSlot(s) ==
  /\ scanPhase[s] = "settled"
  /\ IF waiting = <<>>
     THEN active' = active - 1 /\ Turn(s, "returned") /\ UNCHANGED waiting
     ELSE /\ waiting' = Tail(waiting)
          /\ scanPhase' = [scanPhase EXCEPT ![s] = "returned", ![waiting[1]] = "granted"]
          /\ UNCHANGED active
  /\ UNCHANGED <<child, scratch, aborted, down>>

LiveChildren == {s \in Scans : child[s] \in {"alive", "killed"}}

\* The server process exits: killScanChildren.  Nothing of the parent runs any more.
ServerExit ==
  /\ ~down
  /\ down' = TRUE
  /\ child' = [s \in Scans |-> IF s \in LiveChildren THEN "gone" ELSE child[s]]
  /\ scratch' = scratch \ LiveChildren
  /\ UNCHANGED <<scanPhase, active, waiting, aborted>>

ScanEvent(s) ==
  /\ ~down
  /\ TakeSlot(s) \/ StartScan(s) \/ Message(s) \/ Timeout(s) \/ SpawnError(s) \/ ChildExit(s) \/ ReleaseSlot(s)

ScansNext == (\E s \in Scans : ScanEvent(s) \/ Abort(s)) \/ ServerExit

ScansSpec == ScansInit /\ [][ScansNext]_scanVars

\* The loop runs what is ready, timeouts fire and a killed child exits.
ScansFairSpec == ScansSpec /\ \A s \in Scans : WF_scanVars(ScanEvent(s))

-----------------------------------------------------------------------------
ScansTypeOK ==
  /\ scanPhase \in [Scans -> ScanPhase]
  /\ active \in Nat
  /\ waiting \in Seq(Scans)
  /\ child \in [Scans -> Child]
  /\ scratch \subseteq Scans
  /\ aborted \subseteq Scans
  /\ down \in BOOLEAN

Holding == {s \in Scans : scanPhase[s] \in {"granted", "running", "settled"}}

\* A slot that passes to a waiter is neither lost nor given twice, also when the waiter
\* is cancelled before it resumes: the count is that of the scans that hold a slot, it
\* stays within the limit, and nobody waits beside a free slot.
SlotsCounted ==
  /\ active = Cardinality(Holding)
  /\ active <= Limit
  /\ waiting # <<>> => active = Limit

\* "At most OKIE_SCAN_WORKER_CONCURRENCY scans run at once": the children that have not
\* been killed stay within the limit, although a slot is free again before the child
\* of the scan that held it is gone.
ChildrenWithinLimit == Cardinality({s \in Scans : child[s] = "alive"}) <= Limit

\* A scan whose run was cancelled while it waited starts no child any more.
CancelledNeverStarts ==
  \A s \in Scans : s \in aborted /\ child[s] = "none" => child'[s] = "none"

\* "The PARENT removes it when the child exits, however it ended": a scratch directory
\* lasts no longer than its child, and the server leaves none of a live child behind.
ScratchWithChild == \A s \in scratch : child[s] \in {"unborn", "alive", "killed"}

ScansSafe == ScansTypeOK /\ SlotsCounted /\ ChildrenWithinLimit /\ ScratchWithChild

ScanStep == ScansSafe' /\ CancelledNeverStarts

\* No step of the scan workers loses a slot or gives it twice, starts a cancelled scan, or
\* leaves a scratch directory behind.
ScansKept == [][ScanStep]_scanVars

\* Every scan that is asked for gets its slot and settles, unless the server exits.
ScansEnd == <>(down \/ \A s \in Scans : scanPhase[s] = "returned")

=============================================================================
