-------------------------- MODULE MCServerProgress --------------------------
(***************************************************************************)
(* The queues of the server, which promise to come to an end, in one run   *)
(* of liveness.  They share no state: `focus` picks the component that     *)
(* runs, and the others stay in their initial states, so the behaviours    *)
(* checked are exactly those of each component.                            *)
(***************************************************************************)
EXTENDS OwnerLock, LlmRateLimiter, ScanJobs, ScanWorkers, AskWorker

CONSTANTS p1, p2, p3

VARIABLE focus

MCProcs == {p1, p2, p3}

MCConfigs == {[maxConcurrent |-> 1, retries |-> 1, backoff |-> 1],
              [maxConcurrent |-> 2, retries |-> 1, backoff |-> 2]}
MCSlugs == {p1}
MCRefs == {p1, p2}

MCTickets == {p1, p2}
MCCandidateLists == {<<p1>>, <<p2>>, <<p3, p1>>}

MCInit ==
  /\ focus \in {"lock", "limiter", "workers", "jobs", "ask"}
  /\ Init /\ LimiterInit /\ ScansInit /\ JobsInit /\ AskInit
  /\ focus # "limiter" => options.maxConcurrent = 1

\* One component at a time.
On(part) == focus = part /\ UNCHANGED focus

NotLock == UNCHANGED <<limiterVars, scanVars, jobsVars, askVars>>
NotLimiter == UNCHANGED <<vars, scanVars, jobsVars, askVars>>
NotWorkers == UNCHANGED <<vars, limiterVars, jobsVars, askVars>>
NotJobs == UNCHANGED <<vars, limiterVars, scanVars, askVars>>
NotAsk == UNCHANGED <<vars, limiterVars, scanVars, jobsVars>>

MCNext ==
  \/ On("lock") /\ Next /\ NotLock
  \/ On("limiter") /\ LimiterNext /\ NotLimiter
  \/ On("workers") /\ ScansNext /\ NotWorkers
  \/ On("jobs") /\ JobsNext /\ NotJobs
  \/ On("ask") /\ AskNext /\ NotAsk

allVars == <<focus, vars, limiterVars, scanVars, jobsVars, askVars>>

\* The fairness each component assumes, as in its own FairSpec: focus never changes, so
\* one action that stands for the component in focus is as fair as each of them.
Fair(p) ==
  /\ WF_allVars(\/ On("lock") /\ Enter(p) /\ NotLock
                \/ On("ask") /\ p \in MCTickets /\ SettleTicket(p) /\ NotAsk
                \/ On("ask") /\ p = p3 /\ Deadline /\ NotAsk)
  /\ WF_allVars(\/ On("lock") /\ Step(p) /\ NotLock
                \/ On("limiter") /\ CallStep(p) /\ NotLimiter
                \/ On("workers") /\ ScanEvent(p) /\ NotWorkers
                \/ On("ask") /\ p \in MCTickets /\ (RunTicket(p) \/ ReleaseTicket(p)) /\ NotAsk
                \/ On("ask") /\ p = p3 /\ Deliver /\ NotAsk)

MCSpec ==
  /\ MCInit /\ [][MCNext]_allVars
  /\ \A p \in MCProcs : Fair(p)
  /\ WF_allVars(\/ On("limiter") /\ Tick /\ NotLimiter
                \/ On("jobs") /\ Advance /\ NotJobs
                \/ On("ask") /\ WorkerStep /\ NotAsk)

\* Every call of the limiter ends.
LimiterDrains == focus = "limiter" => CallsEnd

\* Every scan settles, unless the server exits.
ScansSettle == focus = "workers" => ScansEnd

=============================================================================
