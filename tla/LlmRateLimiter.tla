--------------------------- MODULE LlmRateLimiter ---------------------------
(***************************************************************************)
(* One provider's admission gate (class LlmRateLimiter,                    *)
(* apps/server/src/llmRateLimiter.ts).  Callers share a count of calls in  *)
(* flight, a pause that a 429 extends and a queue of wake-ups.  What runs  *)
(* between two awaits is one action: the pass through the loop of acquire, *)
(* the start of the work, and the continuation of the work with release    *)
(* in it.  Time is relative: `pause` and the timers count ticks that are   *)
(* left.                                                                   *)
(***************************************************************************)
EXTENDS Naturals, Sequences, FiniteSets

CONSTANTS
  Callers,   \* calls of run(work) that are made
  Configs    \* limits the provider may be configured with

ASSUME LimiterAssumption ==
  /\ IsFiniteSet(Callers)
  /\ Configs \subseteq [maxConcurrent : Nat, retries : Nat, backoff : Nat]

VARIABLES
  phase,     \* [Callers -> Phase]
  attempt,   \* [Callers -> Nat]: the loop counter of run
  timer,     \* [Callers -> Nat]: ticks before the sleep of a caller is over
  waiters,   \* callers whose wake-up is queued, in order
  inFlight,
  pause,     \* ticks until pausedUntil
  options,
  debt       \* observer: ticks a caller still has to wait because of its own 429

limiterVars == <<phase, attempt, timer, waiters, inFlight, pause, options, debt>>

Phase == {"idle", "awake", "sleeping", "waiting", "admitted", "calling", "returned", "failed"}

Most(a, b) == IF a < b THEN b ELSE a

LimiterInit ==
  /\ phase = [c \in Callers |-> "idle"]
  /\ attempt = [c \in Callers |-> 0]
  /\ timer = [c \in Callers |-> 0]
  /\ waiters = <<>>
  /\ inFlight = 0
  /\ pause = 0
  /\ options \in Configs
  /\ debt = [c \in Callers |-> 0]

Cap == Most(1, options.maxConcurrent)

Become(c, p) == phase' = [phase EXCEPT ![c] = p]

\* run(work) is called, or the loop of acquire is entered again.
Start(c) ==
  /\ phase[c] = "idle"
  /\ Become(c, "awake")
  /\ UNCHANGED <<attempt, timer, waiters, inFlight, pause, options, debt>>

\* Mutant of Acquire: the queue is looked at before the count.
AcquireQueued(c) ==
  /\ phase[c] = "awake"
  /\ \/ /\ pause > 0
        /\ Become(c, "sleeping")
        /\ timer' = [timer EXCEPT ![c] = pause]
        /\ UNCHANGED <<waiters, inFlight>>
     \/ /\ pause = 0 /\ inFlight < Cap /\ waiters = <<>>
        /\ Become(c, "admitted")
        /\ inFlight' = inFlight + 1
        /\ UNCHANGED <<timer, waiters>>
     \/ /\ pause = 0 /\ (inFlight >= Cap \/ waiters # <<>>)
        /\ Become(c, "waiting")
        /\ waiters' = Append(waiters, c)
        /\ UNCHANGED <<timer, inFlight>>
  /\ UNCHANGED <<attempt, pause, options, debt>>

\* One pass of the loop of acquire: sleep out a pause, take a free place, or wait.
Acquire(c) ==
  /\ phase[c] = "awake"
  /\ \/ /\ pause > 0
        /\ Become(c, "sleeping")
        /\ timer' = [timer EXCEPT ![c] = pause]
        /\ UNCHANGED <<waiters, inFlight>>
     \/ /\ pause = 0 /\ inFlight < Cap
        /\ Become(c, "admitted")
        /\ inFlight' = inFlight + 1
        /\ UNCHANGED <<timer, waiters>>
     \/ /\ pause = 0 /\ inFlight >= Cap
        /\ Become(c, "waiting")
        /\ waiters' = Append(waiters, c)
        /\ UNCHANGED <<timer, inFlight>>
  /\ UNCHANGED <<attempt, pause, options, debt>>

\* The timer of a sleep fires, on time or late.
WakeUp(c) ==
  /\ phase[c] = "sleeping" /\ timer[c] = 0
  /\ Become(c, "awake")
  /\ UNCHANGED <<attempt, timer, waiters, inFlight, pause, options, debt>>

\* `await this.acquire()` resumes and the work is called.
Call(c) ==
  /\ phase[c] = "admitted"
  /\ Become(c, "calling")
  /\ UNCHANGED <<attempt, timer, waiters, inFlight, pause, options, debt>>

\* release(): a place is free and the longest waiter is woken to look again.
Leave(c, p) ==
  /\ inFlight' = inFlight - 1
  /\ waiters' = IF waiters = <<>> THEN waiters ELSE Tail(waiters)
  /\ phase' = [d \in Callers |-> CASE d = c -> p
                                   [] d # c /\ waiters # <<>> /\ d = waiters[1] -> "awake"
                                   [] OTHER -> phase[d]]

\* The work returned, or failed with anything but a rate limit.
Return(c) ==
  /\ phase[c] = "calling"
  /\ \E p \in {"returned", "failed"} : Leave(c, p)
  /\ UNCHANGED <<attempt, timer, pause, options, debt>>

Backoff(c) == options.backoff * 2 ^ attempt[c]

\* The work was rate limited: with no retry left it fails, otherwise the provider is
\* paused for everybody, the place is released and the caller tries again.
RateLimited(c) ==
  /\ phase[c] = "calling"
  /\ \/ /\ attempt[c] >= options.retries
        /\ Leave(c, "failed")
        /\ UNCHANGED <<attempt, pause, debt>>
     \/ /\ attempt[c] < options.retries
        /\ pause' = Most(pause, Backoff(c))
        /\ debt' = [debt EXCEPT ![c] = Backoff(c)]
        /\ attempt' = [attempt EXCEPT ![c] = @ + 1]
        /\ Leave(c, "awake")
  /\ UNCHANGED <<timer, options>>

\* Mutant of Configure: new caps, the waiters are left to the next release.
ConfigureQuietly(o) ==
  /\ options # o
  /\ options' = o
  /\ UNCHANGED <<phase, attempt, timer, waiters, inFlight, pause, debt>>

\* configure: new caps, and everybody who waits looks again.
Configure(o) ==
  /\ options # o
  /\ options' = o
  /\ waiters' = <<>>
  /\ phase' = [c \in Callers |-> IF phase[c] = "waiting" THEN "awake" ELSE phase[c]]
  /\ UNCHANGED <<attempt, timer, inFlight, pause, debt>>

Less(n) == IF n = 0 THEN 0 ELSE n - 1

Tick ==
  /\ pause > 0 \/ \E c \in Callers : timer[c] > 0
  /\ pause' = Less(pause)
  /\ timer' = [c \in Callers |-> Less(timer[c])]
  /\ debt' = [c \in Callers |-> Less(debt[c])]
  /\ UNCHANGED <<phase, attempt, waiters, inFlight, options>>

CallStep(c) == Start(c) \/ Acquire(c) \/ WakeUp(c) \/ Call(c) \/ Return(c) \/ RateLimited(c)

LimiterNext == (\E c \in Callers : CallStep(c)) \/ (\E o \in Configs : Configure(o)) \/ Tick

LimiterSpec == LimiterInit /\ [][LimiterNext]_limiterVars

\* The event loop runs what is ready, timers fire, the gateway answers or times out.
LimiterFairSpec == LimiterSpec /\ WF_limiterVars(Tick) /\ \A c \in Callers : WF_limiterVars(CallStep(c))

-----------------------------------------------------------------------------
LimiterTypeOK ==
  /\ phase \in [Callers -> Phase]
  /\ attempt \in [Callers -> Nat]
  /\ timer \in [Callers -> Nat]
  /\ debt \in [Callers -> Nat]
  /\ waiters \in Seq(Callers)
  /\ inFlight \in Nat
  /\ pause \in Nat
  /\ options \in Configs

In(set) == {c \in Callers : phase[c] \in set}

\* A release wakes one waiter, which may find a pause or a place taken by a newcomer:
\* as long as somebody waits, the places and the callers about to look for one make
\* up the whole limit, so a free place is never left beside a queue that nothing wakes.
NoLostWakeup == waiters # <<>> => inFlight + Cardinality(In({"awake", "sleeping"})) >= Cap

\* The places that are counted are those of the callers that hold one, through every
\* retry and failure.
InFlightCounted == inFlight = Cardinality(In({"admitted", "calling"}))

\* A caller that was rate limited does not call again before its own backoff is over,
\* whatever pauses and caps the others have set since.
BackedOff == \A c \in Callers : phase[c] = "calling" => debt[c] = 0

LimiterSafe == LimiterTypeOK /\ NoLostWakeup /\ InFlightCounted /\ BackedOff

\* Every call ends, however its wake-ups, pauses, retries and new caps interleave.
CallsEnd == <>(\A c \in Callers : phase[c] \in {"returned", "failed"})

=============================================================================
