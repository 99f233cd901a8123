---------------------------- MODULE ServerProofs ----------------------------
(***************************************************************************)
(* Proofs about the server's components that let callers in: the store     *)
(* lock, the rate limiter and the queue of scan jobs, and the budget of    *)
(* the edge worker in front of it.  They share no state; each has an       *)
(* inductive invariant of its own, and the parts follow one another.       *)
(***************************************************************************)
EXTENDS OwnerLock, LlmRateLimiter, ScanJobs, EdgeBudget, FiniteSetTheorems, SequenceTheorems, TLAPS

-----------------------------------------------------------------------------
(* The store lock: mutual exclusion for every set of processes and every   *)
(* number of crashes, up to the eviction race that `usurped` observes.     *)

\* Unless a removal has hit a live owner, whoever is inside owns the file.
OwnerHoldsFile == usurped \/ \A p \in Procs : Inside(p) => file = p

\* Only the lock of a dead process is ever up for eviction.
EvictionFollowsCrash == \A p \in Procs : pc[p] = "evict" => dead # {}

LockInv ==
  /\ TypeOK
  /\ OwnerHoldsFile
  /\ EvictionFollowsCrash
  /\ UsurpedOnlyAfterCrash

\* The lock starts free, so the strengthened invariant holds at the start.
LEMMA InitLockInv == Init => LockInv
<1> SUFFICES ASSUME Init PROVE LockInv
  OBVIOUS
<1>1. TypeOK
  BY DEF Init, TypeOK, Control
<1>2. \A p \in Procs : ~Inside(p) /\ pc[p] # "evict"
  BY DEF Init, Inside
<1> QED
  BY <1>1, <1>2 DEF Init, LockInv, OwnerHoldsFile, EvictionFollowsCrash, UsurpedOnlyAfterCrash

\* Entering OwnerLock.with touches neither the file nor anyone else.
LEMMA EnterLockInv == ASSUME LockInv, NEW p \in Procs, Enter(p) PROVE LockInv'
BY DEF Enter, At, Goto, Live, LockInv, TypeOK, Control, OwnerHoldsFile, Inside,
   EvictionFollowsCrash, UsurpedOnlyAfterCrash

\* openSync "wx" succeeds only when nobody is inside.
LEMMA CreateLockInv == ASSUME LockInv, NEW p \in Procs, Create(p) PROVE LockInv'
<1> USE DEF LockInv
<1>1. TypeOK'
  BY DEF Create, At, Goto, Live, TypeOK, Control
<1>2. OwnerHoldsFile'
  <2> SUFFICES ASSUME ~usurped, NEW q \in Procs, Inside(q)'
               PROVE  file' = q
    BY DEF OwnerHoldsFile, Create
  <2>1. CASE q = p
    BY <2>1 DEF Create, At, Goto, Live, Inside, TypeOK
  <2>2. CASE q # p
    <3>1. Inside(q)
      BY <2>2 DEF Create, At, Goto, Live, Inside, TypeOK
    <3>2. file = q
      BY <3>1 DEF OwnerHoldsFile
    <3>3. file # NoFile
      BY <3>2, LockAssumption
    <3> QED  BY <3>2, <3>3 DEF Create
  <2> QED  BY <2>1, <2>2
<1>3. EvictionFollowsCrash' /\ UsurpedOnlyAfterCrash'
  BY DEF Create, At, Goto, Live, TypeOK, EvictionFollowsCrash, UsurpedOnlyAfterCrash
<1> QED  BY <1>1, <1>2, <1>3

\* Writing the pid moves the creator from one inside point to the other.
LEMMA WriteOwnerLockInv == ASSUME LockInv, NEW p \in Procs, WriteOwner(p) PROVE LockInv'
<1>1. TypeOK'
  BY DEF LockInv, WriteOwner, At, Goto, Live, TypeOK, Control
<1>2. \A q \in Procs : Inside(q)' => Inside(q)
  BY DEF LockInv, WriteOwner, At, Goto, Live, TypeOK, Inside
<1>3. OwnerHoldsFile'
  BY <1>2 DEF LockInv, OwnerHoldsFile, WriteOwner
<1>4. EvictionFollowsCrash' /\ UsurpedOnlyAfterCrash'
  BY DEF LockInv, WriteOwner, At, Goto, Live, TypeOK, EvictionFollowsCrash, UsurpedOnlyAfterCrash
<1> QED  BY <1>1, <1>3, <1>4 DEF LockInv

\* Reading the owner sends a caller to evict only when some process is dead.
LEMMA InspectLockInv == ASSUME LockInv, NEW p \in Procs, Inspect(p) PROVE LockInv'
<1>1. TypeOK'
  BY DEF LockInv, Inspect, At, Goto, Live, TypeOK, Control
<1>2. \A q \in Procs : Inside(q)' => Inside(q)
  BY DEF LockInv, Inspect, At, Goto, Live, TypeOK, Inside
<1>3. OwnerHoldsFile'
  BY <1>2 DEF LockInv, OwnerHoldsFile, Inspect
<1>4. EvictionFollowsCrash' /\ UsurpedOnlyAfterCrash'
  BY DEF LockInv, Inspect, At, Goto, Live, TypeOK, EvictionFollowsCrash, UsurpedOnlyAfterCrash
<1> QED  BY <1>1, <1>3, <1>4 DEF LockInv

\* A removal keeps the invariant when the remover is not left inside: either nobody
\* else owned the file, or the removal is recorded in `usurped`, which takes a crash.
LEMMA RemoveOwnership ==
  ASSUME LockInv, NEW p \in Procs, RemoveFile(p), dead' = dead,
         \A q \in Procs : Inside(q)' => q # p /\ Inside(q)
  PROVE  OwnerHoldsFile'
<1> SUFFICES ASSUME ~usurped', NEW q \in Procs, Inside(q)'
             PROVE  FALSE
  BY DEF OwnerHoldsFile
<1>1. ~usurped /\ file \notin Live \ {p}
  BY DEF RemoveFile
<1>2. q # p /\ Inside(q)
  OBVIOUS
<1>3. file = q
  BY <1>1, <1>2 DEF LockInv, OwnerHoldsFile
<1> QED  BY <1>1, <1>2, <1>3 DEF Inside

\* Eviction: a process is on its way to evict only after a crash.
LEMMA EvictLockInv == ASSUME LockInv, NEW p \in Procs, Evict(p) PROVE LockInv'
<1>1. TypeOK'
  <2>1. pc' \in [Procs -> Control]
    BY DEF LockInv, Evict, Goto, TypeOK, Control
  <2>2. retry' \in [Procs -> {0, 1}]
    BY DEF LockInv, Evict, TypeOK
  <2>3. file' \in Procs \cup {NoFile} /\ written' \in BOOLEAN /\ dead' \subseteq Procs
        /\ usurped' \in BOOLEAN
    BY DEF LockInv, Evict, RemoveFile, TypeOK
  <2> QED  BY <2>1, <2>2, <2>3 DEF TypeOK
<1>2. OwnerHoldsFile'
  <2>1. \A q \in Procs : Inside(q)' => q # p /\ Inside(q)
    BY DEF LockInv, Evict, At, Goto, Live, TypeOK, Inside
  <2> QED  BY <2>1, RemoveOwnership DEF Evict
<1>3. dead # {}
  BY DEF LockInv, Evict, At, EvictionFollowsCrash
<1>4. EvictionFollowsCrash' /\ UsurpedOnlyAfterCrash'
  BY <1>3 DEF Evict, EvictionFollowsCrash, UsurpedOnlyAfterCrash
<1> QED  BY <1>1, <1>2, <1>4 DEF LockInv

\* Leaving: while nobody has crashed the file removed is the leaver's own.
LEMMA ExitLockInv == ASSUME LockInv, NEW p \in Procs, Exit(p) PROVE LockInv'
<1>1. TypeOK'
  BY DEF LockInv, Exit, RemoveFile, Goto, TypeOK, Control
<1>2. OwnerHoldsFile'
  <2>1. \A q \in Procs : Inside(q)' => q # p /\ Inside(q)
    BY DEF LockInv, Exit, At, Goto, Live, TypeOK, Inside
  <2> QED  BY <2>1, RemoveOwnership DEF Exit
<1>3. EvictionFollowsCrash'
  BY DEF LockInv, Exit, At, Goto, TypeOK, EvictionFollowsCrash
<1>4. UsurpedOnlyAfterCrash'
  <2> SUFFICES ASSUME usurped', dead = {}
               PROVE  FALSE
    BY DEF UsurpedOnlyAfterCrash, Exit
  <2>1. ~usurped
    BY DEF LockInv, UsurpedOnlyAfterCrash
  <2>2. file = p
    BY <2>1 DEF LockInv, OwnerHoldsFile, Exit, At, Inside
  <2> QED  BY <2>1, <2>2 DEF Exit, RemoveFile
<1> QED  BY <1>1, <1>2, <1>3, <1>4 DEF LockInv

\* A crash leaves the file where it is and takes the process out of the store.
LEMMA CrashLockInv == ASSUME LockInv, NEW p \in Procs, Crash(p) PROVE LockInv'
<1>1. TypeOK'
  BY DEF LockInv, Crash, Live, TypeOK
<1>2. \A q \in Procs : Inside(q)' => Inside(q)
  BY DEF Crash, Live, Inside
<1>3. OwnerHoldsFile'
  BY <1>2 DEF LockInv, OwnerHoldsFile, Crash
<1>4. EvictionFollowsCrash' /\ UsurpedOnlyAfterCrash'
  BY DEF LockInv, Crash, EvictionFollowsCrash, UsurpedOnlyAfterCrash
<1> QED  BY <1>1, <1>3, <1>4 DEF LockInv

\* Every step of the protocol preserves the strengthened invariant.
LEMMA NextLockInv == LockInv /\ [Next]_vars => LockInv'
<1> SUFFICES ASSUME LockInv, [Next]_vars PROVE LockInv'
  OBVIOUS
<1>1. CASE UNCHANGED vars
  BY <1>1 DEF vars, LockInv, TypeOK, OwnerHoldsFile, Inside, Live, EvictionFollowsCrash,
     UsurpedOnlyAfterCrash
<1>2. CASE Next
  BY <1>2, EnterLockInv, CreateLockInv, WriteOwnerLockInv, InspectLockInv, EvictLockInv, ExitLockInv,
     CrashLockInv DEF Next, Step
<1> QED  BY <1>1, <1>2

\* The lock of OwnerLock.with excludes: two live processes are never inside together
\* unless a removal has hit a live owner's file, and that never happens before a crash.
THEOREM LockExcludes == Spec => []LockSafe
<1>1. LockInv => LockSafe
  BY DEF LockInv, OwnerHoldsFile, LockSafe, ExclusiveUnlessUsurped, MutualExclusion
<1> QED  BY <1>1, InitLockInv, NextLockInv, PTL DEF Spec

-----------------------------------------------------------------------------
(* The rate limiter, for any finite set of callers and any limits: the     *)
(* places are counted, no wake-up is lost and nobody calls before his own  *)
(* backoff is over.                                                        *)

\* Arithmetic that the provers do not know.
PowersAreNatural == \A n \in Nat : 2 ^ n \in Nat

\* The queue holds callers that wait, each once: the one a release wakes is not yet awake.
QueueWaits ==
  /\ \A n \in 1 .. Len(waiters) : phase[waiters[n]] = "waiting"
  /\ \A m, n \in 1 .. Len(waiters) : waiters[m] = waiters[n] => m = n

\* What a caller owes, the pause or his own timer covers until he may be admitted.
Covered(c) ==
  CASE phase[c] = "awake" -> debt[c] <= pause
    [] phase[c] = "sleeping" -> debt[c] <= timer[c]
    [] OTHER -> debt[c] = 0
DebtCovered == \A c \in Callers : Covered(c)

LimiterInv == LimiterTypeOK /\ QueueWaits /\ NoLostWakeup /\ InFlightCounted /\ DebtCovered

Busy == In({"admitted", "calling"})
Looking == In({"awake", "sleeping"})

-----------------------------------------------------------------------------
(* Arithmetic of the pieces.                                               *)

\* A backoff is a number of ticks.
LEMMA BackoffNat ==
  ASSUME PowersAreNatural, LimiterTypeOK, NEW c \in Callers
  PROVE  Backoff(c) \in Nat
<1>1. options.backoff \in Nat /\ attempt[c] \in Nat
  BY LimiterAssumption DEF LimiterTypeOK
<1>2. 2 ^ attempt[c] \in Nat
  BY <1>1 DEF PowersAreNatural
<1>3. \A m, n \in Nat : m * n \in Nat
  OBVIOUS
<1> QED  BY <1>1, <1>2, <1>3 DEF Backoff

\* The limit is a number.
LEMMA CapNat == ASSUME LimiterTypeOK PROVE Cap \in Nat
BY LimiterAssumption DEF LimiterTypeOK, Cap, Most

\* Sets of callers are finite, and grow and shrink by one.
LEMMA CallersFinite ==
  ASSUME NEW A \in SUBSET Callers
  PROVE  IsFiniteSet(A) /\ Cardinality(A) \in Nat
BY FS_Subset, FS_CardinalityType, LimiterAssumption

LEMMA CallersGrow ==
  ASSUME NEW A \in SUBSET Callers, NEW c \in Callers, c \notin A
  PROVE  Cardinality(A \cup {c}) = Cardinality(A) + 1
BY CallersFinite, FS_AddElement

LEMMA CallersShrink ==
  ASSUME NEW A \in SUBSET Callers, NEW c \in A
  PROVE  Cardinality(A \ {c}) = Cardinality(A) - 1
BY CallersFinite, FS_RemoveElement

\* The queue as it was still waits when none of its callers has moved.
LEMMA QueueKept ==
  ASSUME LimiterTypeOK, QueueWaits, NEW c \in Callers, phase[c] # "waiting", waiters' = waiters,
         \A d \in Callers \ {c} : phase'[d] = phase[d]
  PROVE  QueueWaits'
<1>1. Len(waiters) \in Nat /\ \A n \in 1 .. Len(waiters) : waiters[n] \in Callers
  BY DEF LimiterTypeOK
<1>2. \A n \in 1 .. Len(waiters) : phase[waiters[n]] = "waiting"
  BY DEF QueueWaits
<1>3. ASSUME NEW n \in 1 .. Len(waiters) PROVE phase'[waiters[n]] = "waiting"
  <2>1. waiters[n] \in Callers /\ phase[waiters[n]] = "waiting"
    BY <1>1, <1>2
  <2>2. waiters[n] # c
    BY <2>1
  <2> QED  BY <2>1, <2>2
<1>4. \A m, n \in 1 .. Len(waiters) : waiters[m] = waiters[n] => m = n
  BY DEF QueueWaits
<1> QED  BY <1>3, <1>4 DEF QueueWaits

-----------------------------------------------------------------------------
(* Each action preserves the invariant.                                    *)

\* Nobody is there at the start.
LEMMA InitLimiterInv == ASSUME LimiterInit PROVE LimiterInv
<1>1. LimiterTypeOK
  BY DEF LimiterInit, LimiterTypeOK, Phase
<1>2. Busy = {}
  BY DEF LimiterInit, Busy, In
<1>3. InFlightCounted
  BY <1>2, FS_EmptySet DEF LimiterInit, InFlightCounted, Busy
<1>4. QueueWaits /\ NoLostWakeup /\ DebtCovered
  BY DEF LimiterInit, QueueWaits, NoLostWakeup, DebtCovered, Covered
<1> QED  BY <1>1, <1>3, <1>4 DEF LimiterInv

\* A caller who comes is one more who looks.
LEMMA StartLimiterInv == ASSUME LimiterInv, NEW c \in Callers, Start(c) PROVE LimiterInv'
<1>0. /\ phase' = [phase EXCEPT ![c] = "awake"] /\ phase[c] = "idle"
      /\ UNCHANGED <<attempt, timer, waiters, inFlight, pause, options, debt>>
  BY DEF Start, Become
<1>1. LimiterTypeOK'
  BY <1>0 DEF LimiterInv, LimiterTypeOK, Phase
<1>2. Busy' = Busy /\ Looking' = Looking \cup {c} /\ c \notin Looking /\ Looking \in SUBSET Callers
  BY <1>0 DEF LimiterInv, LimiterTypeOK, Busy, Looking, In
<1>3. InFlightCounted'
  BY <1>0, <1>2 DEF LimiterInv, InFlightCounted, Busy
<1>4. Cardinality(Looking') = Cardinality(Looking) + 1 /\ Cardinality(Looking) \in Nat
  BY <1>2, CallersGrow, CallersFinite
<1>5. NoLostWakeup'
  <2>1. /\ Cap' = Cap /\ Cap \in Nat /\ inFlight \in Nat
        /\ inFlight' = inFlight /\ waiters' = waiters
    BY <1>0, CapNat DEF Cap, LimiterInv, LimiterTypeOK
  <2>2. waiters # <<>> => inFlight + Cardinality(Looking) >= Cap
    BY DEF LimiterInv, NoLostWakeup, Looking
  <2>3. waiters' # <<>> => inFlight' + Cardinality(Looking') >= Cap'
    BY <1>4, <2>1, <2>2
  <2> QED  BY <2>3 DEF NoLostWakeup, Looking
<1>6. QueueWaits'
  <2>1. LimiterTypeOK /\ QueueWaits
    BY DEF LimiterInv
  <2>2. /\ phase[c] # "waiting" /\ waiters' = waiters
        /\ \A d \in Callers \ {c} : phase'[d] = phase[d]
    BY <1>0, <2>1 DEF LimiterTypeOK
  <2> QED  BY <2>1, <2>2, QueueKept
<1>7. DebtCovered'
  BY <1>0 DEF LimiterInv, DebtCovered, Covered, LimiterTypeOK
<1> QED  BY <1>1, <1>3, <1>5, <1>6, <1>7 DEF LimiterInv

\* He sleeps out a pause.
LEMMA SleepLimiterInv ==
  ASSUME LimiterInv, NEW c \in Callers, phase[c] = "awake",
         phase' = [phase EXCEPT ![c] = "sleeping"], timer' = [timer EXCEPT ![c] = pause],
         UNCHANGED <<attempt, waiters, inFlight, pause, options, debt>>
  PROVE  LimiterInv'
<1>1. LimiterTypeOK'
  BY DEF LimiterInv, LimiterTypeOK, Phase
<1>2. Busy' = Busy /\ Looking' = Looking
  BY DEF LimiterInv, LimiterTypeOK, Busy, Looking, In
<1>3. InFlightCounted' /\ NoLostWakeup'
  BY <1>2 DEF LimiterInv, InFlightCounted, NoLostWakeup, Busy, Looking, Cap
<1>4. QueueWaits'
  <2>1. LimiterTypeOK /\ QueueWaits
    BY DEF LimiterInv
  <2>2. /\ phase[c] # "waiting" /\ waiters' = waiters
        /\ \A d \in Callers \ {c} : phase'[d] = phase[d]
    BY <2>1 DEF LimiterTypeOK
  <2> QED  BY <2>1, <2>2, QueueKept
<1>5. DebtCovered'
  BY DEF LimiterInv, DebtCovered, Covered, LimiterTypeOK
<1> QED  BY <1>1, <1>3, <1>4, <1>5 DEF LimiterInv

\* He takes a free place.
LEMMA TakeLimiterInv ==
  ASSUME LimiterInv, NEW c \in Callers, phase[c] = "awake", pause = 0,
         phase' = [phase EXCEPT ![c] = "admitted"], inFlight' = inFlight + 1,
         UNCHANGED <<attempt, timer, waiters, pause, options, debt>>
  PROVE  LimiterInv'
<1>1. LimiterTypeOK'
  BY DEF LimiterInv, LimiterTypeOK, Phase
<1>2. /\ Busy' = Busy \cup {c} /\ c \notin Busy /\ Busy \in SUBSET Callers
      /\ Looking' = Looking \ {c} /\ c \in Looking /\ Looking \in SUBSET Callers
  BY DEF LimiterInv, LimiterTypeOK, Busy, Looking, In
<1>3. InFlightCounted'
  BY <1>2, CallersGrow DEF LimiterInv, InFlightCounted, Busy
<1>4. Cardinality(Looking') = Cardinality(Looking) - 1 /\ Cardinality(Looking) \in Nat
  BY <1>2, CallersShrink, CallersFinite
<1>5. NoLostWakeup'
  <2>1. Cap' = Cap /\ Cap \in Nat /\ inFlight \in Nat
    BY CapNat DEF Cap, LimiterInv, LimiterTypeOK
  <2>2. waiters # <<>> => inFlight + Cardinality(Looking) >= Cap
    BY DEF LimiterInv, NoLostWakeup, Looking
  <2>3. waiters' # <<>> => inFlight' + Cardinality(Looking') >= Cap'
    BY <1>4, <2>1, <2>2
  <2> QED  BY <2>3 DEF NoLostWakeup, Looking
<1>6. QueueWaits'
  <2>1. LimiterTypeOK /\ QueueWaits
    BY DEF LimiterInv
  <2>2. /\ phase[c] # "waiting" /\ waiters' = waiters
        /\ \A d \in Callers \ {c} : phase'[d] = phase[d]
    BY <2>1 DEF LimiterTypeOK
  <2> QED  BY <2>1, <2>2, QueueKept
<1>7. DebtCovered'
  BY DEF LimiterInv, DebtCovered, Covered, LimiterTypeOK
<1> QED  BY <1>1, <1>3, <1>5, <1>6, <1>7 DEF LimiterInv

\* He queues, which he does only when the places are all taken.
LEMMA WaitLimiterInv ==
  ASSUME LimiterInv, NEW c \in Callers, phase[c] = "awake", pause = 0, inFlight >= Cap,
         phase' = [phase EXCEPT ![c] = "waiting"], waiters' = Append(waiters, c),
         UNCHANGED <<attempt, timer, inFlight, pause, options, debt>>
  PROVE  LimiterInv'
<1>1. LimiterTypeOK'
  BY DEF LimiterInv, LimiterTypeOK, Phase
<1>2. Busy' = Busy
  BY DEF LimiterInv, LimiterTypeOK, Busy, In
<1>3. InFlightCounted'
  BY <1>2 DEF LimiterInv, InFlightCounted, Busy
<1>4. Looking' \in SUBSET Callers
  BY DEF Looking, In
<1>5. Cardinality(Looking') \in Nat
  BY <1>4, CallersFinite
<1>6. NoLostWakeup'
  <2>1. Cap \in Nat /\ inFlight \in Nat
    BY CapNat DEF LimiterInv, LimiterTypeOK
  <2>2. Cap' = Cap /\ inFlight' = inFlight
    BY DEF Cap
  <2>3. inFlight' + Cardinality(Looking') >= Cap'
    BY <1>5, <2>1, <2>2
  <2> QED  BY <2>3 DEF NoLostWakeup, Looking
<1>7. QueueWaits'
  <2>1. /\ waiters \in Seq(Callers) /\ Len(waiters') = Len(waiters) + 1 /\ Len(waiters) \in Nat
        /\ waiters'[Len(waiters) + 1] = c
        /\ \A n \in 1 .. Len(waiters) : waiters'[n] = waiters[n] /\ waiters[n] \in Callers
    BY DEF LimiterInv, LimiterTypeOK
  <2>2. \A n \in 1 .. Len(waiters) : phase[waiters[n]] = "waiting" /\ waiters[n] # c
    BY DEF LimiterInv, QueueWaits
  <2>3. \A n \in 1 .. Len(waiters) : phase'[waiters[n]] = "waiting"
    BY <2>1, <2>2 DEF LimiterInv, LimiterTypeOK
  <2>4. phase'[c] = "waiting"
    BY DEF LimiterInv, LimiterTypeOK
  <2>5. ASSUME NEW n \in 1 .. Len(waiters'), n \notin 1 .. Len(waiters) PROVE n = Len(waiters) + 1
    BY <2>1, <2>5
  <2>6. \A n \in 1 .. Len(waiters') : phase'[waiters'[n]] = "waiting"
    BY <2>1, <2>3, <2>4, <2>5
  <2>7. ASSUME NEW m \in 1 .. Len(waiters'), NEW n \in 1 .. Len(waiters'), waiters'[m] = waiters'[n]
        PROVE  m = n
    <3>1. CASE m \in 1 .. Len(waiters) /\ n \in 1 .. Len(waiters)
      BY <2>1, <2>7, <3>1 DEF LimiterInv, QueueWaits
    <3>2. CASE m \notin 1 .. Len(waiters)
      BY <2>1, <2>2, <2>5, <2>7, <3>2
    <3>3. CASE n \notin 1 .. Len(waiters)
      BY <2>1, <2>2, <2>5, <2>7, <3>3
    <3> QED  BY <3>1, <3>2, <3>3
  <2> QED  BY <2>6, <2>7 DEF QueueWaits
<1>8. DebtCovered'
  BY DEF LimiterInv, DebtCovered, Covered, LimiterTypeOK
<1> QED  BY <1>1, <1>3, <1>6, <1>7, <1>8 DEF LimiterInv

\* A pass through the loop of acquire does one of the three.
LEMMA AcquireLimiterInv == ASSUME LimiterInv, NEW c \in Callers, Acquire(c) PROVE LimiterInv'
BY SleepLimiterInv, TakeLimiterInv, WaitLimiterInv DEF Acquire, Become

\* A timer has run down with what its caller owed.
LEMMA WakeUpLimiterInv == ASSUME LimiterInv, NEW c \in Callers, WakeUp(c) PROVE LimiterInv'
<1>0. /\ phase' = [phase EXCEPT ![c] = "awake"] /\ phase[c] = "sleeping" /\ timer[c] = 0
      /\ UNCHANGED <<attempt, timer, waiters, inFlight, pause, options, debt>>
  BY DEF WakeUp, Become
<1>1. LimiterTypeOK'
  BY <1>0 DEF LimiterInv, LimiterTypeOK, Phase
<1>2. Busy' = Busy /\ Looking' = Looking
  BY <1>0 DEF LimiterInv, LimiterTypeOK, Busy, Looking, In
<1>3. InFlightCounted' /\ NoLostWakeup'
  BY <1>0, <1>2 DEF LimiterInv, InFlightCounted, NoLostWakeup, Busy, Looking, Cap
<1>4. QueueWaits'
  <2>1. LimiterTypeOK /\ QueueWaits
    BY DEF LimiterInv
  <2>2. /\ phase[c] # "waiting" /\ waiters' = waiters
        /\ \A d \in Callers \ {c} : phase'[d] = phase[d]
    BY <1>0, <2>1 DEF LimiterTypeOK
  <2> QED  BY <2>1, <2>2, QueueKept
<1>5. DebtCovered'
  BY <1>0 DEF LimiterInv, DebtCovered, Covered, LimiterTypeOK
<1> QED  BY <1>1, <1>3, <1>4, <1>5 DEF LimiterInv

\* The work is called.
LEMMA CallLimiterInv == ASSUME LimiterInv, NEW c \in Callers, Call(c) PROVE LimiterInv'
<1>0. /\ phase' = [phase EXCEPT ![c] = "calling"] /\ phase[c] = "admitted"
      /\ UNCHANGED <<attempt, timer, waiters, inFlight, pause, options, debt>>
  BY DEF Call, Become
<1>1. LimiterTypeOK'
  BY <1>0 DEF LimiterInv, LimiterTypeOK, Phase
<1>2. Busy' = Busy /\ Looking' = Looking
  BY <1>0 DEF LimiterInv, LimiterTypeOK, Busy, Looking, In
<1>3. InFlightCounted' /\ NoLostWakeup'
  BY <1>0, <1>2 DEF LimiterInv, InFlightCounted, NoLostWakeup, Busy, Looking, Cap
<1>4. QueueWaits'
  <2>1. LimiterTypeOK /\ QueueWaits
    BY DEF LimiterInv
  <2>2. /\ phase[c] # "waiting" /\ waiters' = waiters
        /\ \A d \in Callers \ {c} : phase'[d] = phase[d]
    BY <1>0, <2>1 DEF LimiterTypeOK
  <2> QED  BY <2>1, <2>2, QueueKept
<1>5. DebtCovered'
  BY <1>0 DEF LimiterInv, DebtCovered, Covered, LimiterTypeOK
<1> QED  BY <1>1, <1>3, <1>4, <1>5 DEF LimiterInv

\* What a step of another caller does to one: at most it wakes him.
KeptOrWoken(d) == phase'[d] = phase[d] \/ (phase[d] = "waiting" /\ phase'[d] = "awake")

\* A release frees a place and wakes the longest waiter: one place less, at least one
\* caller more who looks.
LEMMA LeavePieces ==
  ASSUME LimiterInv, NEW c \in Callers, phase[c] = "calling",
         NEW p \in {"returned", "failed", "awake"}, Leave(c, p), options' = options
  PROVE  /\ phase' \in [Callers -> Phase] /\ waiters' \in Seq(Callers) /\ inFlight' \in Nat
         /\ phase'[c] = p
         /\ \A d \in Callers \ {c} : KeptOrWoken(d)
         /\ QueueWaits' /\ NoLostWakeup' /\ InFlightCounted'
<1> DEFINE h == waiters[1]
<1>1. /\ phase \in [Callers -> Phase] /\ waiters \in Seq(Callers) /\ inFlight \in Nat
      /\ Len(waiters) \in Nat
  BY DEF LimiterInv, LimiterTypeOK
<1>2. phase' = [d \in Callers |-> CASE d = c -> p
                                   [] d # c /\ waiters # <<>> /\ d = h -> "awake"
                                   [] OTHER -> phase[d]]
  BY DEF Leave
<1>3. inFlight' = inFlight - 1
  BY DEF Leave
<1>4. ASSUME waiters # <<>>
      PROVE  /\ h \in Callers /\ phase[h] = "waiting" /\ h # c /\ Len(waiters) > 0
             /\ waiters' = Tail(waiters) /\ Len(waiters') = Len(waiters) - 1
             /\ \A n \in 1 .. Len(waiters') : waiters'[n] = waiters[n + 1]
  <2>1. Len(waiters) > 0 /\ 1 \in 1 .. Len(waiters)
    BY <1>1, <1>4
  <2>2. waiters' = Tail(waiters)
    BY <1>4 DEF Leave
  <2>3. Len(waiters') = Len(waiters) - 1 /\ \A n \in 1 .. Len(waiters') : waiters'[n] = waiters[n + 1]
    BY <1>1, <1>4, <2>1, <2>2
  <2>4. h \in Callers /\ phase[h] = "waiting"
    BY <1>1, <2>1 DEF LimiterInv, QueueWaits
  <2> QED  BY <2>1, <2>2, <2>3, <2>4
<1>5. phase' \in [Callers -> Phase] /\ phase'[c] = p
  BY <1>1, <1>2 DEF Phase
<1>6. ASSUME NEW d \in Callers \ {c}
      PROVE  KeptOrWoken(d)
  BY <1>2, <1>4 DEF KeptOrWoken
<1>7. waiters' \in Seq(Callers)
  BY <1>1, <1>4 DEF Leave
<1>8. /\ Busy' = Busy \ {c} /\ c \in Busy /\ Busy \in SUBSET Callers
  BY <1>1, <1>5, <1>6 DEF Busy, In, Phase, KeptOrWoken
<1>9. inFlight' = Cardinality(Busy') /\ inFlight' \in Nat
  <2>1. Cardinality(Busy') = Cardinality(Busy) - 1
    BY <1>8, CallersShrink
  <2>2. Busy' \in SUBSET Callers
    BY <1>8
  <2> QED  BY <2>1, <2>2, <1>3, CallersFinite DEF LimiterInv, InFlightCounted, Busy
<1>10. InFlightCounted'
  BY <1>9 DEF InFlightCounted, Busy
<1>11. NoLostWakeup'
  <2>1. SUFFICES ASSUME waiters' # <<>> PROVE inFlight' + Cardinality(Looking') >= Cap'
    BY DEF NoLostWakeup, Looking
  <2>2. waiters # <<>>
    BY <2>1 DEF Leave
  <2>3. inFlight + Cardinality(Looking) >= Cap
    BY <2>2 DEF LimiterInv, NoLostWakeup, Looking
  <2>4. Looking \in SUBSET Callers /\ Looking' \in SUBSET Callers /\ h \notin Looking
    BY <1>4, <2>2 DEF Looking, In
  <2>5. phase'[h] = "awake"
    BY <1>2, <1>4, <2>2
  <2>6. Looking \cup {h} \subseteq Looking'
    <3>1. ASSUME NEW d \in Looking PROVE d \in Looking'
      BY <1>5, <1>6, <3>1 DEF Looking, In, KeptOrWoken
    <3> QED  BY <1>4, <2>2, <2>5, <3>1 DEF Looking, In
  <2>7. Cardinality(Looking \cup {h}) <= Cardinality(Looking')
    BY <2>4, <2>6, CallersFinite, FS_Subset
  <2>8. Cardinality(Looking \cup {h}) = Cardinality(Looking) + 1
    BY <1>4, <2>2, <2>4, CallersGrow
  <2>9. Cardinality(Looking) \in Nat /\ Cardinality(Looking') \in Nat
    BY <2>4, CallersFinite
  <2>10. Cap' = Cap /\ Cap \in Nat
    BY CapNat DEF Cap, LimiterInv
  <2>11. inFlight' + Cardinality(Looking') >= inFlight + Cardinality(Looking)
    BY <1>1, <1>3, <2>7, <2>8, <2>9
  <2> QED  BY <1>1, <1>9, <2>3, <2>9, <2>10, <2>11
<1>12. QueueWaits'
  <2>1. CASE waiters = <<>>
    <3>1. waiters' = <<>>
      BY <2>1 DEF Leave
    <3> QED  BY <3>1 DEF QueueWaits
  <2>2. CASE waiters # <<>>
    <3>1. \A n \in 1 .. Len(waiters') : n + 1 \in 1 .. Len(waiters) /\ n + 1 # 1
      BY <1>1, <1>4, <2>2
    <3>2. ASSUME NEW n \in 1 .. Len(waiters') PROVE phase'[waiters'[n]] = "waiting"
      <4>1. waiters'[n] = waiters[n + 1] /\ n + 1 \in 1 .. Len(waiters) /\ n + 1 # 1
        BY <1>4, <2>2, <3>1
      <4>2. waiters[n + 1] \in Callers /\ phase[waiters[n + 1]] = "waiting"
        BY <1>1, <4>1 DEF LimiterInv, QueueWaits
      <4>3. 1 \in 1 .. Len(waiters)
        BY <1>1, <1>4, <2>2
      <4>4. waiters[n + 1] # h
        BY <4>1, <4>3 DEF LimiterInv, QueueWaits
      <4>5. waiters[n + 1] # c
        BY <4>2
      <4> QED  BY <1>2, <4>1, <4>2, <4>4, <4>5
    <3>3. ASSUME NEW m \in 1 .. Len(waiters'), NEW n \in 1 .. Len(waiters'), waiters'[m] = waiters'[n]
          PROVE  m = n
      <4>1. waiters[m + 1] = waiters[n + 1]
        BY <1>4, <2>2, <3>3
      <4>2. m + 1 = n + 1
        BY <3>1, <4>1 DEF LimiterInv, QueueWaits
      <4> QED  BY <4>2
    <3> QED  BY <3>2, <3>3 DEF QueueWaits
  <2> QED  BY <2>1, <2>2
<1> QED  BY <1>5, <1>6, <1>7, <1>9, <1>10, <1>11, <1>12

\* The work ends, one way or the other, owing nothing.
LEMMA ReturnLimiterInv == ASSUME LimiterInv, NEW c \in Callers, Return(c) PROVE LimiterInv'
<1>0. PICK p \in {"returned", "failed"} : Leave(c, p)
  BY DEF Return
<1>1. phase[c] = "calling" /\ UNCHANGED <<attempt, timer, pause, options, debt>>
  BY DEF Return
<1>2. /\ phase' \in [Callers -> Phase] /\ waiters' \in Seq(Callers) /\ inFlight' \in Nat
      /\ phase'[c] = p
      /\ \A d \in Callers \ {c} : KeptOrWoken(d)
      /\ QueueWaits' /\ NoLostWakeup' /\ InFlightCounted'
  BY <1>0, <1>1, LeavePieces
<1>3. LimiterTypeOK'
  BY <1>1, <1>2 DEF LimiterInv, LimiterTypeOK
<1>4. ASSUME NEW d \in Callers PROVE Covered(d)'
  <2>0. Covered(d) /\ debt[d] \in Nat /\ pause \in Nat
    BY DEF LimiterInv, DebtCovered, LimiterTypeOK
  <2>1. CASE d = c
    BY <1>1, <1>2, <2>0, <2>1 DEF Covered
  <2>2. CASE d # c
    BY <1>1, <1>2, <2>0, <2>2 DEF Covered, KeptOrWoken
  <2> QED  BY <2>1, <2>2
<1> QED  BY <1>2, <1>3, <1>4 DEF LimiterInv, DebtCovered

\* A rate limit that is the last one ends the call, any other pauses everybody for at
\* least the caller's own backoff.
LEMMA RateLimitedLimiterInv == ASSUME PowersAreNatural, LimiterInv, NEW c \in Callers, RateLimited(c) PROVE LimiterInv'
<1>1. phase[c] = "calling" /\ UNCHANGED <<timer, options>>
  BY DEF RateLimited
<1>2. CASE Leave(c, "failed") /\ UNCHANGED <<attempt, pause, debt>>
  <2>1. Return(c)
    BY <1>1, <1>2 DEF Return
  <2> QED  BY <2>1, ReturnLimiterInv
<1>3. CASE /\ pause' = Most(pause, Backoff(c)) /\ debt' = [debt EXCEPT ![c] = Backoff(c)]
           /\ attempt' = [attempt EXCEPT ![c] = @ + 1] /\ Leave(c, "awake")
  <2>1. /\ phase' \in [Callers -> Phase] /\ waiters' \in Seq(Callers) /\ inFlight' \in Nat
        /\ phase'[c] = "awake"
        /\ \A d \in Callers \ {c} : KeptOrWoken(d)
        /\ QueueWaits' /\ NoLostWakeup' /\ InFlightCounted'
    BY <1>1, <1>3, LeavePieces
  <2>2. Backoff(c) \in Nat
    BY BackoffNat DEF LimiterInv
  <2>3. LimiterTypeOK
    BY DEF LimiterInv
  <2>4. pause' \in Nat /\ pause' >= pause /\ pause' >= Backoff(c)
    BY <1>3, <2>2, <2>3 DEF Most, LimiterTypeOK
  <2>5. /\ debt' \in [Callers -> Nat] /\ attempt' \in [Callers -> Nat]
        /\ debt'[c] = Backoff(c) /\ \A d \in Callers \ {c} : debt'[d] = debt[d]
    BY <1>3, <2>2, <2>3 DEF LimiterTypeOK
  <2>6. LimiterTypeOK'
    BY <1>1, <2>1, <2>3, <2>4, <2>5 DEF LimiterTypeOK
  <2>7. ASSUME NEW d \in Callers PROVE Covered(d)'
    <3>0. Covered(d) /\ debt[d] \in Nat /\ pause \in Nat
      BY <2>3 DEF LimiterInv, DebtCovered, LimiterTypeOK
    <3>1. CASE d = c
      BY <2>1, <2>4, <2>5, <3>1 DEF Covered
    <3>2. CASE d # c
      <4>1. debt'[d] = debt[d] /\ timer'[d] = timer[d]
        BY <1>1, <2>5, <3>2
      <4>2. CASE phase'[d] = phase[d]
        BY <4>1, <4>2, <2>4, <3>0 DEF Covered
      <4>3. CASE phase[d] = "waiting" /\ phase'[d] = "awake"
        BY <4>1, <4>3, <2>4, <3>0 DEF Covered
      <4> QED  BY <2>1, <3>2, <4>2, <4>3 DEF KeptOrWoken
    <3> QED  BY <3>1, <3>2
  <2> QED  BY <2>1, <2>6, <2>7 DEF LimiterInv, DebtCovered
<1> QED  BY <1>2, <1>3 DEF RateLimited

\* New limits empty the queue.
LEMMA ConfigureLimiterInv == ASSUME LimiterInv, NEW o \in Configs, Configure(o) PROVE LimiterInv'
<1>1. /\ options' = o /\ waiters' = <<>>
      /\ phase' = [c \in Callers |-> IF phase[c] = "waiting" THEN "awake" ELSE phase[c]]
      /\ UNCHANGED <<attempt, timer, inFlight, pause, debt>>
  BY DEF Configure
<1>2. LimiterTypeOK'
  BY <1>1 DEF LimiterInv, LimiterTypeOK, Phase
<1>3. Busy' = Busy
  BY <1>1 DEF LimiterInv, LimiterTypeOK, Busy, In
<1>4. InFlightCounted'
  BY <1>1, <1>3 DEF LimiterInv, InFlightCounted, Busy
<1>5. QueueWaits' /\ NoLostWakeup'
  BY <1>1 DEF QueueWaits, NoLostWakeup
<1>6. DebtCovered'
  BY <1>1 DEF LimiterInv, DebtCovered, Covered, LimiterTypeOK
<1> QED  BY <1>2, <1>4, <1>5, <1>6 DEF LimiterInv

\* A tick takes from the debts what it takes from the pause and the timers.
LEMMA TickLimiterInv == ASSUME LimiterInv, Tick PROVE LimiterInv'
<1>1. /\ pause' = Less(pause) /\ timer' = [c \in Callers |-> Less(timer[c])]
      /\ debt' = [c \in Callers |-> Less(debt[c])]
      /\ UNCHANGED <<phase, attempt, waiters, inFlight, options>>
  BY DEF Tick
<1>2. LimiterTypeOK'
  BY <1>1 DEF LimiterInv, LimiterTypeOK, Less
<1>3. InFlightCounted' /\ NoLostWakeup' /\ QueueWaits'
  BY <1>1 DEF LimiterInv, InFlightCounted, NoLostWakeup, QueueWaits, In, Cap
<1>4. ASSUME NEW c \in Callers PROVE Covered(c)'
  <2>1. Covered(c) /\ debt[c] \in Nat /\ pause \in Nat /\ timer[c] \in Nat
    BY DEF LimiterInv, DebtCovered, LimiterTypeOK
  <2>2. debt'[c] = Less(debt[c]) /\ timer'[c] = Less(timer[c])
    BY <1>1
  <2> QED  BY <1>1, <2>1, <2>2 DEF Covered, Less
<1> QED  BY <1>2, <1>3, <1>4 DEF LimiterInv, DebtCovered

\* Every step keeps the invariant.
LEMMA NextLimiterInv == ASSUME PowersAreNatural, LimiterInv, [LimiterNext]_limiterVars PROVE LimiterInv'
<1>1. CASE UNCHANGED limiterVars
  <2>1. UNCHANGED <<phase, attempt, timer, waiters, inFlight, pause, options, debt>>
    BY <1>1 DEF limiterVars
  <2> QED  BY <2>1 DEF LimiterInv, LimiterTypeOK, QueueWaits, NoLostWakeup, InFlightCounted, DebtCovered,
                       Covered, In, Cap
<1>2. CASE \E c \in Callers : CallStep(c)
  BY <1>2, StartLimiterInv, AcquireLimiterInv, WakeUpLimiterInv, CallLimiterInv, ReturnLimiterInv, RateLimitedLimiterInv DEF CallStep
<1>3. CASE \E o \in Configs : Configure(o)
  BY <1>3, ConfigureLimiterInv
<1>4. CASE Tick
  BY <1>4, TickLimiterInv
<1> QED  BY <1>1, <1>2, <1>3, <1>4 DEF LimiterNext

\* For any finite set of callers and any limits: the places counted are the places
\* held, a free place is never left beside a queue that nothing wakes, and a caller
\* that was rate limited does not call before his own backoff is over
\* (LlmRateLimiter.acquire, release, configure, run).
THEOREM LimiterAlwaysSafe ==
  ASSUME PowersAreNatural
  PROVE  LimiterSpec => []LimiterSafe
<1>1. LimiterInit => LimiterInv
  BY InitLimiterInv
<1>2. LimiterInv /\ [LimiterNext]_limiterVars => LimiterInv'
  BY NextLimiterInv
<1>3. LimiterInv => LimiterSafe
  BY DEF LimiterInv, LimiterSafe, DebtCovered, Covered, BackedOff
<1> QED  BY <1>1, <1>2, <1>3, PTL DEF LimiterSpec

-----------------------------------------------------------------------------
(* The scan jobs, for any slugs and refs and any number of jobs and of     *)
(* faults.  The queue (rows, waiting rows, running row) is reasoned about  *)
(* as three values.                                                        *)

Waiting(P) == {P[k] : k \in DOMAIN P}

SameKey(x, y) == x.slug = y.slug /\ x.ref = y.ref

\* The rows J, the waiting rows P and the running row R (0 for none) fit together.
QueueTyped(J, P, R) ==
  /\ J \in Seq(Job) /\ P \in Seq(1 .. Len(J)) /\ R \in 0 .. Len(J)

Distinct(J, P, R) ==
  /\ \A i, k \in DOMAIN P : P[i] = P[k] => i = k
  /\ R \notin Waiting(P)
  /\ \A i, k \in Waiting(P) \cup ({R} \ {0}) : SameKey(J[i], J[k]) => i = k

\* What stages tell: a waiting row has not begun, the running one is at work, and its
\* atlas is live exactly when it enriches it.
Staged(J, P, R) ==
  /\ \A i \in Waiting(P) : J[i].stage = "queued" /\ ~J[i].ready
  /\ R # 0 => \/ J[R].stage = "scanning" /\ ~J[R].ready
              \/ J[R].stage = "enriching" /\ J[R].ready
  /\ \A i \in DOMAIN J : J[i].stage = "complete" => J[i].ready

QueueOK(J, P, R) == QueueTyped(J, P, R) /\ Distinct(J, P, R) /\ Staged(J, P, R)

\* Rows that failed with a live atlas.
Spoilt(J) == {i \in DOMAIN J : J[i].stage = "failed" /\ J[i].ready}

\* The job at work enriches the atlas of s.
Enriches(s) == running # 0 /\ jobs[running].stage = "enriching" /\ jobs[running].slug = s

Tells(s) == atlas[s] = "enriched" <=> sidecar[s] = "complete"

DiskTyped ==
  /\ pumps \in Nat /\ faults \in Nat /\ disturbed \subseteq Slugs
  /\ atlas \in [Slugs -> Atlas] /\ sidecar \in [Slugs -> State \cup {"none"}]

\* While an atlas is being enriched its sidecar is that of the atlas before; every other
\* sidecar tells the truth.
DiskOK ==
  \A s \in Slugs :
    IF Enriches(s) THEN atlas[s] = "plain" ELSE s \in disturbed \/ Tells(s)

JobsInv ==
  /\ QueueOK(jobs, pending, running)
  /\ DiskTyped /\ DiskOK
  /\ IsFiniteSet(Spoilt(jobs)) /\ Cardinality(Spoilt(jobs)) <= faults

LEMMA RowFields ==
  ASSUME NEW row \in Job
  PROVE  /\ row.slug \in Slugs /\ row.ref \in Refs /\ row.enrichment \in State
         /\ row.stage \in {"queued", "scanning", "enriching", "complete", "failed"}
         /\ row.ready \in BOOLEAN
BY DEF Job

\* The rows, and what of them may change: the stage, the atlas and the enrichment.
Rewrites(K, J, i, row) ==
  /\ K \in Seq(Job) /\ DOMAIN K = DOMAIN J /\ Len(K) = Len(J)
  /\ K[i] = row /\ \A t \in DOMAIN J : t # i => K[t] = J[t]
  /\ \A t \in DOMAIN J : SameKey(K[t], J[t])

LEMMA Rewritten ==
  ASSUME NEW J \in Seq(Job), NEW i \in DOMAIN J, NEW row \in Job, SameKey(row, J[i]),
         NEW K, K = [J EXCEPT ![i] = row]
  PROVE  Rewrites(K, J, i, row)
<1>1. i \in 1 .. Len(J)
  BY LenProperties
<1>2. K \in Seq(Job) /\ Len(K) = Len(J)
  BY <1>1, ExceptSeq
<1> QED
  BY <1>2 DEF Rewrites, SameKey

LEMMA WaitingRows ==
  ASSUME NEW J, NEW P, NEW R, QueueTyped(J, P, R)
  PROVE  /\ DOMAIN J = 1 .. Len(J) /\ Len(J) \in Nat
         /\ DOMAIN P = 1 .. Len(P) /\ Len(P) \in Nat
         /\ Waiting(P) \subseteq DOMAIN J
         /\ R # 0 => R \in DOMAIN J
         /\ \A i \in DOMAIN J : J[i] \in Job
<1>1. DOMAIN J = 1 .. Len(J) /\ Len(J) \in Nat /\ DOMAIN P = 1 .. Len(P) /\ Len(P) \in Nat
  BY LenProperties DEF QueueTyped
<1>2. Waiting(P) \subseteq DOMAIN J
  BY <1>1, ElementOfSeq DEF QueueTyped, Waiting
<1>3. R # 0 => R \in DOMAIN J
  BY <1>1 DEF QueueTyped
<1>4. \A i \in DOMAIN J : J[i] \in Job
  BY <1>1, ElementOfSeq DEF QueueTyped
<1> QED
  BY <1>1, <1>2, <1>3, <1>4

\* A row that is neither waiting nor running afterwards, or one that goes on.
LEMMA QueueRewritten ==
  ASSUME NEW J, NEW P, NEW R, QueueOK(J, P, R), R # 0,
         NEW row \in Job, SameKey(row, J[R]), NEW K, K = [J EXCEPT ![R] = row],
         row.stage = "complete" => row.ready, NEW S \in {0, R},
         S # 0 => row.stage = "enriching" /\ row.ready
  PROVE  /\ QueueOK(K, P, S) /\ Rewrites(K, J, R, row)
<1>1. QueueTyped(J, P, R) /\ Distinct(J, P, R) /\ Staged(J, P, R)
  BY DEF QueueOK
<1>2. R \in DOMAIN J /\ J \in Seq(Job) /\ Waiting(P) \subseteq DOMAIN J
  BY <1>1, WaitingRows DEF QueueTyped
<1>3. Rewrites(K, J, R, row)
  BY <1>2, Rewritten
<1>4. QueueTyped(K, P, S)
  BY <1>1, <1>3 DEF QueueTyped, Rewrites
<1>5. \A i \in Waiting(P) : i \in DOMAIN J /\ i # R /\ K[i] = J[i]
  BY <1>1, <1>2, <1>3 DEF Distinct, Rewrites
<1>6. Distinct(K, P, S)
  <2>1. S \notin Waiting(P)
    <3>1. 0 \notin DOMAIN J
      BY <1>1, WaitingRows
    <3> QED
      BY <1>1, <1>2, <3>1 DEF Distinct
  <2>2. ASSUME NEW i \in Waiting(P) \cup ({S} \ {0}), NEW k \in Waiting(P) \cup ({S} \ {0}),
               SameKey(K[i], K[k])
        PROVE  i = k
    <3>1. i \in Waiting(P) \cup ({R} \ {0}) /\ k \in Waiting(P) \cup ({R} \ {0})
      OBVIOUS
    <3>2. i \in DOMAIN J /\ k \in DOMAIN J
      BY <1>2, <3>1
    <3>3. SameKey(J[i], J[k])
      BY <1>3, <2>2, <3>2 DEF Rewrites, SameKey
    <3> QED
      BY <1>1, <3>1, <3>3 DEF Distinct
  <2> QED
    BY <1>1, <2>1, <2>2 DEF Distinct
<1>7. Staged(K, P, S)
  BY <1>1, <1>3, <1>5 DEF Staged, Rewrites
<1> QED
  BY <1>3, <1>4, <1>6, <1>7 DEF QueueOK

\* The next waiting row starts, when none runs.
Starts(K, Q, S, J, P) ==
  IF P = <<>>
  THEN S = 0 /\ K = J /\ Q = P
  ELSE S = P[1] /\ Q = Tail(P) /\ K = [J EXCEPT ![P[1]].stage = "scanning"]

LEMMA QueueStarts ==
  ASSUME NEW J, NEW P, QueueOK(J, P, 0), NEW K, NEW Q, NEW S, Starts(K, Q, S, J, P)
  PROVE  /\ QueueOK(K, Q, S) /\ Spoilt(K) = Spoilt(J)
         /\ S # 0 => K[S].stage = "scanning"
<1>1. QueueTyped(J, P, 0) /\ Distinct(J, P, 0) /\ Staged(J, P, 0)
  BY DEF QueueOK
<1>2. CASE P = <<>>
  BY <1>1, <1>2 DEF Starts, QueueOK, Staged
<1>3. CASE P # <<>>
  <2>1. S = P[1] /\ Q = Tail(P) /\ K = [J EXCEPT ![S].stage = "scanning"]
    BY <1>3 DEF Starts
  <2>2. PICK m \in Nat, n \in Nat : /\ m = Len(P) /\ DOMAIN P = 1 .. m /\ m > 0
                                    /\ n = Len(J) /\ DOMAIN J = 1 .. n
    BY <1>1, <1>3, WaitingRows, EmptySeq DEF QueueTyped
  <2>3. /\ Q \in Seq(1 .. Len(J)) /\ DOMAIN Q = 1 .. (m - 1)
        /\ \A i \in 1 .. (m - 1) : Q[i] = P[i + 1]
    BY <1>1, <1>3, <2>1, <2>2, HeadTailProperties, LenProperties DEF QueueTyped
  <2>4. Waiting(Q) \subseteq Waiting(P) /\ S \in Waiting(P) /\ S \notin Waiting(Q)
    <3>1. S \in Waiting(P)
      BY <2>1, <2>2 DEF Waiting
    <3>2. \A i \in 1 .. (m - 1) : i + 1 \in DOMAIN P /\ i + 1 # 1 /\ 1 \in DOMAIN P
      BY <2>2
    <3>3. \A i \in 1 .. (m - 1) : Q[i] \in Waiting(P) /\ Q[i] # S
      BY <1>1, <2>1, <2>3, <3>2 DEF Waiting, Distinct
    <3> QED
      BY <2>3, <3>1, <3>3 DEF Waiting
  <2>5. S \in DOMAIN J /\ S # 0 /\ J \in Seq(Job) /\ J[S] \in Job
        /\ Waiting(P) \subseteq DOMAIN J
    BY <1>1, <2>2, <2>4, WaitingRows DEF QueueTyped
  <2>6. J[S].stage = "queued" /\ ~J[S].ready
    BY <1>1, <2>4 DEF Staged
  <2>7. PICK row : /\ row \in Job /\ SameKey(row, J[S]) /\ row.stage = "scanning"
                   /\ ~row.ready /\ K = [J EXCEPT ![S] = row]
    <3>1. PICK old : old = J[S] /\ old \in Job
      BY <2>5
    <3> DEFINE row == [old EXCEPT !.stage = "scanning"]
    <3>2. row \in Job /\ SameKey(row, old) /\ row.stage = "scanning" /\ row.ready = old.ready
      BY <3>1 DEF Job, SameKey
    <3>3. K = [J EXCEPT ![S] = row]
      BY <2>1, <3>1
    <3> HIDE DEF row
    <3> QED
      BY <2>6, <3>1, <3>2, <3>3
  <2>8. Rewrites(K, J, S, row)
    BY <2>5, <2>7, Rewritten
  <2>9. QueueTyped(K, Q, S)
    BY <1>1, <2>2, <2>3, <2>5, <2>8 DEF QueueTyped, Rewrites
  <2>10. Distinct(K, Q, S)
    <3>1. ASSUME NEW i \in DOMAIN Q, NEW k \in DOMAIN Q, Q[i] = Q[k]
          PROVE  i = k
      <4>1. i \in 1 .. (m - 1) /\ k \in 1 .. (m - 1)
        BY <2>3
      <4>2. P[i + 1] = P[k + 1] /\ i + 1 \in DOMAIN P /\ k + 1 \in DOMAIN P
        BY <2>2, <2>3, <3>1, <4>1
      <4>3. i + 1 = k + 1
        BY <1>1, <4>2 DEF Distinct
      <4> QED
        BY <4>1, <4>3
    <3>2. ASSUME NEW i \in Waiting(Q) \cup ({S} \ {0}), NEW k \in Waiting(Q) \cup ({S} \ {0}),
                 SameKey(K[i], K[k])
          PROVE  i = k
      <4>1. i \in Waiting(P) /\ k \in Waiting(P)
        BY <2>4
      <4>2. SameKey(J[i], J[k])
        BY <2>5, <2>8, <3>2, <4>1 DEF Rewrites, SameKey
      <4> QED
        BY <1>1, <4>1, <4>2 DEF Distinct
    <3> QED
      BY <2>4, <3>1, <3>2 DEF Distinct
  <2>11. Staged(K, Q, S)
    BY <1>1, <2>4, <2>5, <2>7, <2>8 DEF Staged, Rewrites
  <2>12. Spoilt(K) = Spoilt(J)
    BY <2>5, <2>6, <2>7, <2>8 DEF Spoilt, Rewrites
  <2> QED
    BY <2>5, <2>7, <2>8, <2>9, <2>10, <2>11, <2>12 DEF QueueOK, Rewrites
<1> QED
  BY <1>2, <1>3

-----------------------------------------------------------------------------
(* The steps of a job.                                                     *)

LEMMA PatchedRow ==
  ASSUME JobsInv, running # 0, NEW stage \in {"complete", "failed", "enriching"},
         NEW ready \in BOOLEAN, NEW enrichment \in State
  PROVE  \E row \in Job :
           /\ SameKey(row, jobs[running]) /\ row.stage = stage /\ row.ready = ready
           /\ Patch(stage, ready, enrichment) = [jobs EXCEPT ![running] = row]
<1>1. running \in DOMAIN jobs /\ jobs[running] \in Job
  BY WaitingRows DEF JobsInv, QueueOK
<1>2. PICK old : old = jobs[running] /\ old \in Job
  BY <1>1
<1> DEFINE row == [old EXCEPT !.stage = stage, !.ready = ready, !.enrichment = enrichment]
<1>3. row \in Job /\ SameKey(row, old) /\ row.stage = stage /\ row.ready = ready
  BY <1>2 DEF Job, SameKey
<1>4. Patch(stage, ready, enrichment) = [jobs EXCEPT ![running] = row]
  BY <1>2 DEF Patch
<1> HIDE DEF row
<1> QED
  BY <1>2, <1>3, <1>4

\* What every step that ends a job leaves: a queue in order with nothing enriching, and
\* one more spoilt row only if the job failed with a live atlas.
Ended(spoils) ==
  /\ QueueOK(jobs', pending', running')
  /\ running' # 0 => jobs'[running'].stage = "scanning"
  /\ IsFiniteSet(Spoilt(jobs'))
  /\ Cardinality(Spoilt(jobs')) <= faults + (IF spoils THEN 1 ELSE 0)

LEMMA EndsFacts ==
  ASSUME JobsInv, running # 0, NEW stage \in {"complete", "failed"}, NEW ready \in BOOLEAN,
         stage = "complete" => ready, NEW enrichment \in State,
         Ends(stage, ready, enrichment)
  PROVE  Ended(stage = "failed" /\ ready)
<1>1. PICK row, J :
        /\ row \in Job /\ SameKey(row, jobs[running]) /\ row.stage = stage /\ row.ready = ready
        /\ J = [jobs EXCEPT ![running] = row] /\ J = Patch(stage, ready, enrichment)
  BY PatchedRow
<1>2. QueueOK(jobs, pending, running)
  BY DEF JobsInv
<1>3. QueueOK(J, pending, 0) /\ Rewrites(J, jobs, running, row)
  BY <1>1, <1>2, QueueRewritten
<1>4. PICK K, Q, S : K = jobs' /\ Q = pending' /\ S = running'
  OBVIOUS
<1>5. Starts(K, Q, S, J, pending)
  BY <1>1, <1>4 DEF Ends, PumpOn, Starts
<1>6. QueueOK(K, Q, S) /\ Spoilt(K) = Spoilt(J) /\ (S # 0 => K[S].stage = "scanning")
  BY <1>3, <1>5, QueueStarts
<1>7. running \in DOMAIN jobs /\ (stage = "complete" => row.stage # "failed")
  BY <1>1, <1>2, WaitingRows DEF QueueOK
<1>8. Spoilt(J) \subseteq Spoilt(jobs) \cup {running}
  BY <1>3 DEF Spoilt, Rewrites
<1>9. ~(stage = "failed" /\ ready) => Spoilt(J) \subseteq Spoilt(jobs)
  BY <1>1, <1>3 DEF Spoilt, Rewrites
<1>10. PICK F, G : F = Spoilt(jobs) /\ G = Spoilt(J)
  OBVIOUS
<1>11. IsFiniteSet(F) /\ Cardinality(F) <= faults /\ faults \in Nat /\ Cardinality(F) \in Nat
  BY <1>10, FS_CardinalityType DEF JobsInv, DiskTyped
<1>12. /\ IsFiniteSet(F \cup {running}) /\ Cardinality(F \cup {running}) \in Nat
       /\ Cardinality(F \cup {running}) <= Cardinality(F) + 1
  <2>1. IsFiniteSet(F \cup {running})
        /\ Cardinality(F \cup {running})
             = IF running \in F THEN Cardinality(F) ELSE Cardinality(F) + 1
    BY <1>11, FS_AddElement
  <2> QED
    BY <1>11, <2>1
<1>13. IsFiniteSet(G) /\ Cardinality(G) \in Nat /\ Cardinality(G) <= Cardinality(F) + 1
  <2>1. IsFiniteSet(G) /\ Cardinality(G) <= Cardinality(F \cup {running})
    BY <1>8, <1>10, <1>12, FS_Subset
  <2> QED
    BY <1>11, <1>12, <2>1, FS_CardinalityType
<1>14. ~(stage = "failed" /\ ready) => Cardinality(G) <= Cardinality(F)
  BY <1>9, <1>10, <1>11, FS_Subset
<1>15. Cardinality(G) <= faults + (IF stage = "failed" /\ ready THEN 1 ELSE 0)
  BY <1>11, <1>13, <1>14
<1> QED
  BY <1>4, <1>6, <1>10, <1>13, <1>15 DEF Ended

\* After a job ended every sidecar has to tell the truth, but for the disturbed slugs.
LEMMA EndedKeepsInv ==
  ASSUME JobsInv, NEW spoils \in BOOLEAN, Ended(spoils), spoils => faults' = faults + 1,
         faults' \in {faults, faults + 1},
         DiskTyped', \A s \in Slugs : s \in disturbed' \/ Tells(s)'
  PROVE  JobsInv'
<1>1. DiskOK'
  BY DEF Ended, DiskOK, Enriches
<1>2. PICK c, d, e : c = Cardinality(Spoilt(jobs')) /\ d = faults /\ e = faults'
  OBVIOUS
<1>3. c \in Nat /\ d \in Nat
  BY <1>2, FS_CardinalityType DEF Ended, JobsInv, DiskTyped
<1>4. c <= e
  BY <1>2, <1>3 DEF Ended
<1> QED
  BY <1>1, <1>2, <1>4 DEF JobsInv, Ended

LEMMA RunFacts ==
  ASSUME JobsInv, running # 0
  PROVE  /\ Slug \in Slugs /\ DiskTyped
         /\ \A s \in Slugs : s # Slug => s \in disturbed \/ Tells(s)
         /\ Run("scanning") => Slug \in disturbed \/ Tells(Slug)
         /\ Run("enriching") => atlas[Slug] = "plain"
<1>1. jobs[running] \in Job
  BY WaitingRows DEF JobsInv, QueueOK
<1>2. Slug \in Slugs
  BY <1>1, RowFields DEF Slug
<1> QED
  BY <1>2 DEF JobsInv, DiskOK, Enriches, Slug, Run

LEMMA Words ==
  /\ {"skipped", "failed", "complete", "pending", "running"} \subseteq State
  /\ {"plain", "enriched", "torn"} \subseteq Atlas
BY DEF State, Atlas

LEMMA ScanFailsKeeps ==
  ASSUME JobsInv, ScanFails
  PROVE  JobsInv'
<1>1. running # 0 /\ Run("scanning") /\ Ends("failed", FALSE, "pending")
      /\ UNCHANGED <<atlas, sidecar, faults, disturbed, pumps>>
  BY DEF ScanFails, Run, Ends
<1>2. Ended(FALSE)
  BY <1>1, EndsFacts, Words
<1>3. DiskTyped' /\ \A s \in Slugs : s \in disturbed' \/ Tells(s)'
  BY <1>1, RunFacts DEF DiskTyped, Tells
<1> QED
  BY <1>1, <1>2, <1>3, EndedKeepsInv

\* What a write changes of the disk.
LEMMA Written ==
  ASSUME NEW T, NEW f \in [Slugs -> T], NEW s \in Slugs, NEW x \in T,
         NEW g, g = [f EXCEPT ![s] = x]
  PROVE  /\ g \in [Slugs -> T] /\ g[s] = x
         /\ \A t \in Slugs : t # s => g[t] = f[t]
OBVIOUS

\* A job ends and what is on disk for its slug has become (a, b); a fault disturbs it.
LEMMA EndWritten ==
  ASSUME JobsInv, running # 0, NEW slug, slug = Slug,
         NEW stage \in {"complete", "failed"}, NEW ready \in BOOLEAN,
         stage = "complete" => ready, NEW enrichment \in State,
         Ends(stage, ready, enrichment),
         atlas' \in [Slugs -> Atlas], sidecar' \in [Slugs -> State \cup {"none"}],
         \A s \in Slugs : s # slug => atlas'[s] = atlas[s] /\ sidecar'[s] = sidecar[s],
         \/ Fault /\ disturbed' = disturbed \cup {slug}
         \/ /\ faults' = faults /\ ~(stage = "failed" /\ ready)
            /\ disturbed' \in {disturbed, disturbed \ {slug}}
            /\ atlas'[slug] = "enriched" <=> sidecar'[slug] = "complete"
  PROVE  JobsInv'
<1>1. Ended(stage = "failed" /\ ready)
  BY EndsFacts
<1>2. pumps' = pumps
  BY DEF Ends
<1>3. DiskTyped'
  BY <1>2, RunFacts DEF DiskTyped, Fault
<1>4. \A s \in Slugs : s # slug => s \in disturbed' \/ Tells(s)'
  BY RunFacts DEF Tells, Fault
<1>5. slug \in disturbed' \/ Tells(slug)'
  BY DEF Tells
<1>6. \A s \in Slugs : s \in disturbed' \/ Tells(s)'
  BY <1>4, <1>5
<1>7. /\ (stage = "failed" /\ ready) => faults' = faults + 1
      /\ faults' \in {faults, faults + 1}
      /\ (stage = "failed" /\ ready) \in BOOLEAN
  BY DEF Fault
<1> QED
  BY <1>1, <1>3, <1>6, <1>7, EndedKeepsInv

LEMMA PublishPlainKeeps ==
  ASSUME JobsInv, PublishPlain
  PROVE  JobsInv'
<1>1. running # 0 /\ Run("scanning") /\ faults' = faults
      /\ disturbed' = disturbed \ {Slug} /\ atlas' = [atlas EXCEPT ![Slug] = "plain"]
  BY DEF PublishPlain, Run
<1>2. PICK slug \in Slugs : slug = Slug
  BY <1>1, RunFacts
<1>3. DiskTyped
  BY DEF JobsInv
<1>4. /\ atlas' \in [Slugs -> Atlas] /\ atlas'[slug] = "plain"
      /\ \A s \in Slugs : s # slug => atlas'[s] = atlas[s]
  BY <1>1, <1>2, <1>3, Words, Written DEF DiskTyped
<1>5. ASSUME NEW state \in {"skipped", "failed"},
             sidecar' = [sidecar EXCEPT ![Slug] = state], Ends("complete", TRUE, state)
      PROVE  JobsInv'
  <2>1. state \in State \cup {"none"} /\ state \in State /\ state # "complete"
    BY Words
  <2>2. /\ sidecar' \in [Slugs -> State \cup {"none"}] /\ sidecar'[slug] = state
        /\ \A s \in Slugs : s # slug => sidecar'[s] = sidecar[s]
    BY <1>2, <1>3, <1>5, <2>1, Written DEF DiskTyped
  <2>3. atlas'[slug] = "enriched" <=> sidecar'[slug] = "complete"
    BY <1>4, <2>1, <2>2
  <2>4. "complete" \in {"complete", "failed"} /\ TRUE \in BOOLEAN
    OBVIOUS
  <2> QED
    BY <1>1, <1>2, <1>4, <1>5, <2>1, <2>2, <2>3, <2>4, EndWritten
<1>6. CASE /\ jobs' = Patch("enriching", TRUE, "running")
           /\ UNCHANGED <<pending, running, pumps, sidecar>>
  <2>1. "running" \in State /\ TRUE \in BOOLEAN
    BY Words
  <2>2. PICK row, J : /\ row \in Job /\ SameKey(row, jobs[running])
                      /\ row.stage = "enriching" /\ row.ready
                      /\ J = [jobs EXCEPT ![running] = row] /\ J = jobs'
    BY <1>1, <1>6, <2>1, PatchedRow
  <2>3. QueueOK(J, pending, running) /\ Rewrites(J, jobs, running, row)
    BY <1>1, <2>2, QueueRewritten DEF JobsInv
  <2>4. Spoilt(J) = Spoilt(jobs)
    <3>1. running \in DOMAIN jobs /\ jobs[running].stage = "scanning"
      BY <1>1, WaitingRows DEF JobsInv, QueueOK, Run
    <3> QED
      BY <2>2, <2>3, <3>1 DEF Spoilt, Rewrites
  <2>5. J[running].slug = slug /\ J[running].stage = "enriching"
    BY <1>2, <2>2, <2>3 DEF Rewrites, SameKey, Slug
  <2>6. DiskTyped'
    BY <1>1, <1>3, <1>4, <1>6 DEF DiskTyped
  <2>7. DiskOK'
    <3> SUFFICES ASSUME NEW s \in Slugs
                 PROVE  IF Enriches(s)' THEN atlas'[s] = "plain"
                        ELSE s \in disturbed' \/ Tells(s)'
      BY DEF DiskOK
    <3>1. CASE s = slug
      BY <1>1, <1>4, <1>6, <2>2, <2>5, <3>1 DEF Enriches
    <3>2. CASE s # slug
      <4>1. ~Enriches(s)'
        BY <1>6, <2>2, <2>5, <3>2 DEF Enriches
      <4>2. s \in disturbed \/ Tells(s)
        BY <1>1, <1>2, <3>2, RunFacts
      <4> QED
        BY <1>1, <1>2, <1>4, <1>6, <3>2, <4>1, <4>2 DEF Tells
    <3> QED
      BY <3>1, <3>2
  <2> QED
    BY <1>1, <1>6, <2>2, <2>3, <2>4, <2>6, <2>7 DEF JobsInv
<1> QED
  BY <1>5, <1>6 DEF PublishPlain

\* Both files of the slug are written, one of them, or none, and the job ends.
LEMMA PublishFailsKeeps ==
  ASSUME JobsInv, PublishFails
  PROVE  JobsInv'
<1>1. running # 0 /\ Fault /\ disturbed' = disturbed \cup {Slug}
      /\ atlas' = [atlas EXCEPT ![Slug] = "torn"] /\ sidecar' = sidecar
      /\ Ends("failed", FALSE, "pending")
  BY DEF PublishFails, Run
<1>2. PICK slug \in Slugs : slug = Slug
  BY <1>1, RunFacts
<1>3. /\ atlas' \in [Slugs -> Atlas] /\ sidecar' \in [Slugs -> State \cup {"none"}]
      /\ \A s \in Slugs : s # slug => atlas'[s] = atlas[s] /\ sidecar'[s] = sidecar[s]
  BY <1>1, <1>2, Words, Written DEF JobsInv, DiskTyped
<1>4. /\ "failed" \in {"complete", "failed"} /\ FALSE \in BOOLEAN /\ "pending" \in State
      /\ "failed" # "complete"
  BY Words
<1> QED
  BY <1>1, <1>2, <1>3, <1>4, EndWritten

LEMMA PublishEnrichedKeeps ==
  ASSUME JobsInv, PublishEnriched
  PROVE  JobsInv'
<1>1. running # 0 /\ UNCHANGED <<faults, disturbed>>
      /\ atlas' = [atlas EXCEPT ![Slug] = "enriched"]
      /\ sidecar' = [sidecar EXCEPT ![Slug] = "complete"]
      /\ Ends("complete", TRUE, "complete")
  BY DEF PublishEnriched, Run
<1>2. PICK slug \in Slugs : slug = Slug
  BY <1>1, RunFacts
<1>3. /\ atlas' \in [Slugs -> Atlas] /\ atlas'[slug] = "enriched"
      /\ \A s \in Slugs : s # slug => atlas'[s] = atlas[s]
  BY <1>1, <1>2, Words, Written DEF JobsInv, DiskTyped
<1>4. /\ sidecar' \in [Slugs -> State \cup {"none"}] /\ sidecar'[slug] = "complete"
      /\ \A s \in Slugs : s # slug => sidecar'[s] = sidecar[s]
  BY <1>1, <1>2, Words, Written DEF JobsInv, DiskTyped
<1>5. /\ "complete" \in {"complete", "failed"} /\ TRUE \in BOOLEAN /\ "complete" \in State
      /\ "complete" # "failed"
  BY Words
<1> QED
  BY <1>1, <1>2, <1>3, <1>4, <1>5, EndWritten

LEMMA EnrichFailsKeeps ==
  ASSUME JobsInv, EnrichFails
  PROVE  JobsInv'
<1>1. running # 0 /\ Run("enriching") /\ UNCHANGED <<atlas, faults, disturbed>>
      /\ sidecar' = [sidecar EXCEPT ![Slug] = "failed"]
      /\ Ends("complete", TRUE, "failed")
  BY DEF EnrichFails, Run
<1>2. PICK slug \in Slugs : slug = Slug
  BY <1>1, RunFacts
<1>3. /\ atlas' \in [Slugs -> Atlas] /\ atlas'[slug] = "plain"
      /\ \A s \in Slugs : atlas'[s] = atlas[s]
  BY <1>1, <1>2, RunFacts DEF JobsInv, DiskTyped
<1>4. /\ sidecar' \in [Slugs -> State \cup {"none"}] /\ sidecar'[slug] = "failed"
      /\ \A s \in Slugs : s # slug => sidecar'[s] = sidecar[s]
  BY <1>1, <1>2, Words, Written DEF JobsInv, DiskTyped
<1>5. /\ "complete" \in {"complete", "failed"} /\ TRUE \in BOOLEAN /\ "failed" \in State
      /\ "complete" # "failed" /\ "plain" # "enriched"
  BY Words
<1> QED
  BY <1>1, <1>2, <1>3, <1>4, <1>5, EndWritten

LEMMA PublishEnrichedFailsKeeps ==
  ASSUME JobsInv, PublishEnrichedFails
  PROVE  JobsInv'
<1>1. running # 0 /\ Fault /\ disturbed' = disturbed \cup {Slug}
      /\ atlas' = [atlas EXCEPT ![Slug] = "torn"]
      /\ sidecar' = [sidecar EXCEPT ![Slug] = "failed"]
      /\ Ends("complete", TRUE, "failed")
  BY DEF PublishEnrichedFails, Run
<1>2. PICK slug \in Slugs : slug = Slug
  BY <1>1, RunFacts
<1>3. /\ atlas' \in [Slugs -> Atlas]
      /\ \A s \in Slugs : s # slug => atlas'[s] = atlas[s]
  BY <1>1, <1>2, Words, Written DEF JobsInv, DiskTyped
<1>4. /\ sidecar' \in [Slugs -> State \cup {"none"}]
      /\ \A s \in Slugs : s # slug => sidecar'[s] = sidecar[s]
  BY <1>1, <1>2, Words, Written DEF JobsInv, DiskTyped
<1>5. /\ "complete" \in {"complete", "failed"} /\ TRUE \in BOOLEAN /\ "failed" \in State
  BY Words
<1> QED
  BY <1>1, <1>2, <1>3, <1>4, <1>5, EndWritten

LEMMA SidecarFailsKeeps ==
  ASSUME JobsInv, SidecarFails
  PROVE  JobsInv'
<1>1. running # 0 /\ Fault /\ disturbed' = disturbed \cup {Slug}
      /\ \E a \in {"plain", "enriched"} : atlas' = [atlas EXCEPT ![Slug] = a]
      /\ sidecar' \in {sidecar, [sidecar EXCEPT ![Slug] = "failed"]}
      /\ \/ \E state \in {"skipped", "failed"} : Ends("failed", TRUE, state)
         \/ Ends("complete", TRUE, "failed")
  BY DEF SidecarFails, Run
<1>2. PICK slug \in Slugs : slug = Slug
  BY <1>1, RunFacts
<1>3. /\ atlas' \in [Slugs -> Atlas]
      /\ \A s \in Slugs : s # slug => atlas'[s] = atlas[s]
  <2>1. PICK a \in {"plain", "enriched"} : atlas' = [atlas EXCEPT ![slug] = a]
    BY <1>1, <1>2
  <2> QED
    BY <1>2, <2>1, Words, Written DEF JobsInv, DiskTyped
<1>4. /\ sidecar' \in [Slugs -> State \cup {"none"}]
      /\ \A s \in Slugs : s # slug => sidecar'[s] = sidecar[s]
  <2>1. CASE sidecar' = [sidecar EXCEPT ![slug] = "failed"]
    BY <1>2, <2>1, Words, Written DEF JobsInv, DiskTyped
  <2>2. CASE sidecar' = sidecar
    BY <2>2 DEF JobsInv, DiskTyped
  <2> QED
    BY <1>1, <1>2, <2>1, <2>2
<1>5. /\ "complete" \in {"complete", "failed"} /\ "failed" \in {"complete", "failed"}
      /\ TRUE \in BOOLEAN /\ \A state \in {"skipped", "failed"} : state \in State
  BY Words
<1>6. ASSUME NEW state \in {"skipped", "failed"}, Ends("failed", TRUE, state)
      PROVE  JobsInv'
  BY <1>1, <1>2, <1>3, <1>4, <1>5, <1>6, EndWritten
<1>7. CASE Ends("complete", TRUE, "failed")
  BY <1>1, <1>2, <1>3, <1>4, <1>5, <1>7, EndWritten
<1> QED
  BY <1>1, <1>6, <1>7

-----------------------------------------------------------------------------
(* The steps of the queue.                                                 *)

LEMMA PumpKeeps ==
  ASSUME JobsInv, Pump
  PROVE  JobsInv'
<1>1. pumps' \in Nat /\ UNCHANGED <<atlas, sidecar, faults, disturbed>>
  BY DEF Pump, JobsInv, DiskTyped
<1>2. CASE running # 0
  <2>1. UNCHANGED <<jobs, pending, running>>
    BY <1>2 DEF Pump
  <2> QED
    BY <1>1, <2>1 DEF JobsInv, DiskTyped, DiskOK, Enriches, Tells
<1>3. CASE running = 0
  <2>1. PICK K, Q, S : K = jobs' /\ Q = pending' /\ S = running'
    OBVIOUS
  <2>2. Starts(K, Q, S, jobs, pending) /\ QueueOK(jobs, pending, 0)
    BY <1>3, <2>1 DEF Pump, PumpOn, Starts, JobsInv
  <2>3. QueueOK(K, Q, S) /\ Spoilt(K) = Spoilt(jobs) /\ (S # 0 => K[S].stage = "scanning")
    BY <2>2, QueueStarts
  <2>4. DiskOK'
    BY <1>1, <1>3, <2>1, <2>3 DEF JobsInv, DiskOK, Enriches, Tells
  <2> QED
    BY <1>1, <2>1, <2>3, <2>4 DEF JobsInv, DiskTyped
<1> QED
  BY <1>2, <1>3

LEMMA QueueJoined ==
  ASSUME NEW J, NEW P, NEW R, QueueOK(J, P, R), NEW row \in Job,
         row.stage = "queued", ~row.ready,
         \A i \in Waiting(P) \cup ({R} \ {0}) : ~SameKey(J[i], row)
  PROVE  /\ QueueOK(Append(J, row), Append(P, Len(J) + 1), R)
         /\ Spoilt(Append(J, row)) = Spoilt(J)
         /\ R # 0 => Append(J, row)[R] = J[R]
<1>1. QueueTyped(J, P, R) /\ Distinct(J, P, R) /\ Staged(J, P, R)
  BY DEF QueueOK
<1>2. PICK n \in Nat, m \in Nat : /\ n = Len(J) /\ DOMAIN J = 1 .. n
                                  /\ m = Len(P) /\ DOMAIN P = 1 .. m
                                  /\ Waiting(P) \subseteq 1 .. n
                                  /\ R \in 0 .. n /\ (R # 0 => R \in DOMAIN J)
  BY <1>1, WaitingRows DEF QueueTyped
<1>3. PICK K, Q : K = Append(J, row) /\ Q = Append(P, n + 1)
  OBVIOUS
<1>4. /\ K \in Seq(Job) /\ DOMAIN K = 1 .. (n + 1) /\ Len(K) = n + 1 /\ K[n + 1] = row
      /\ \A i \in 1 .. n : K[i] = J[i]
  BY <1>1, <1>2, <1>3, AppendProperties DEF QueueTyped
<1>5. /\ Q \in Seq(1 .. (n + 1)) /\ DOMAIN Q = 1 .. (m + 1) /\ Q[m + 1] = n + 1
      /\ \A i \in 1 .. m : Q[i] = P[i]
  <2>1. P \in Seq(1 .. (n + 1)) /\ n + 1 \in 1 .. (n + 1)
    BY <1>1, <1>2, SeqMonotonic DEF QueueTyped
  <2> QED
    BY <1>2, <1>3, <2>1, AppendProperties
<1>6. Waiting(Q) = Waiting(P) \cup {n + 1}
  <2>1. \A i \in 1 .. (m + 1) : i \in 1 .. m \/ i = m + 1
    OBVIOUS
  <2>2. \A i \in 1 .. m : i \in 1 .. (m + 1)
    OBVIOUS
  <2> QED
    BY <1>2, <1>5, <2>1, <2>2 DEF Waiting
<1>7. n + 1 \notin 1 .. n /\ R # n + 1
  BY <1>2
<1>8. QueueTyped(K, Q, R)
  BY <1>2, <1>4, <1>5 DEF QueueTyped
<1>9. Distinct(K, Q, R)
  <2>1. ASSUME NEW i \in DOMAIN Q, NEW k \in DOMAIN Q, Q[i] = Q[k]
        PROVE  i = k
    <3>1. \A x \in 1 .. m : Q[x] \in 1 .. n /\ Q[x] = P[x]
      BY <1>2, <1>5 DEF Waiting
    <3>2. \A x \in 1 .. (m + 1) : x \in 1 .. m \/ x = m + 1
      OBVIOUS
    <3> QED
      BY <1>1, <1>2, <1>5, <1>7, <2>1, <3>1, <3>2 DEF Distinct
  <2>2. ASSUME NEW i \in Waiting(Q) \cup ({R} \ {0}), NEW k \in Waiting(Q) \cup ({R} \ {0}),
               SameKey(K[i], K[k])
        PROVE  i = k
    <3>1. \A x \in Waiting(P) \cup ({R} \ {0}) : x \in 1 .. n /\ K[x] = J[x]
      BY <1>2, <1>4
    <3>2. CASE i = n + 1 \/ k = n + 1
      BY <1>4, <1>6, <1>7, <2>2, <3>1, <3>2 DEF SameKey
    <3>3. CASE i # n + 1 /\ k # n + 1
      BY <1>1, <1>6, <2>2, <3>1, <3>3 DEF Distinct
    <3> QED
      BY <3>2, <3>3
  <2>3. R \notin Waiting(Q)
    BY <1>1, <1>6, <1>7 DEF Distinct
  <2> QED
    BY <2>1, <2>2, <2>3 DEF Distinct
<1>10. \A i \in 1 .. (n + 1) : i \in 1 .. n \/ i = n + 1
  OBVIOUS
<1>11. Staged(K, Q, R)
  BY <1>1, <1>2, <1>4, <1>6, <1>10 DEF Staged
<1>12. Spoilt(K) = Spoilt(J)
  <2>1. \A i \in 1 .. n : i \in 1 .. (n + 1)
    OBVIOUS
  <2> QED
    BY <1>2, <1>4, <1>10, <2>1 DEF Spoilt
<1> QED
  BY <1>2, <1>3, <1>4, <1>8, <1>9, <1>11, <1>12 DEF QueueOK

LEMMA InQueueIs ==
  ASSUME JobsInv
  PROVE  InQueue = Waiting(pending) \cup ({running} \ {0})
<1>1. /\ DOMAIN jobs = 1 .. Len(jobs) /\ DOMAIN pending = 1 .. Len(pending)
      /\ Waiting(pending) \subseteq DOMAIN jobs /\ (running # 0 => running \in DOMAIN jobs)
      /\ 0 \notin DOMAIN jobs
  BY WaitingRows DEF JobsInv, QueueOK
<1>2. \A i : i \in Waiting(pending) <=> \E k \in 1 .. Len(pending) : pending[k] = i
  BY <1>1 DEF Waiting
<1>3. \A i : i \in InQueue <=> i \in Waiting(pending) \cup ({running} \ {0})
  BY <1>1, <1>2 DEF InQueue
<1> QED
  BY <1>3

LEMMA SubmitKeeps ==
  ASSUME JobsInv, NEW slug \in Slugs, NEW ref \in Refs, Submit(slug, ref)
  PROVE  JobsInv'
<1>1. PICK row : /\ row = [slug |-> slug, ref |-> ref, stage |-> "queued", ready |-> FALSE,
                           enrichment |-> "pending"]
                 /\ jobs' = Append(jobs, row)
  BY DEF Submit
<1>2. /\ row \in Job /\ row.stage = "queued" /\ ~row.ready
      /\ row.slug = slug /\ row.ref = ref
  BY <1>1, Words DEF Job
<1>3. \A i \in Waiting(pending) \cup ({running} \ {0}) : ~SameKey(jobs[i], row)
  BY <1>2, InQueueIs DEF Submit, ActiveByKey, SameKey
<1>4. QueueOK(jobs, pending, running)
  BY DEF JobsInv
<1>5. /\ QueueOK(Append(jobs, row), Append(pending, Len(jobs) + 1), running)
      /\ Spoilt(Append(jobs, row)) = Spoilt(jobs)
      /\ running # 0 => Append(jobs, row)[running] = jobs[running]
  BY <1>2, <1>3, <1>4, QueueJoined
<1>6. /\ pending' = Append(pending, Len(jobs) + 1) /\ pumps' = pumps + 1
      /\ UNCHANGED <<running, atlas, sidecar, faults, disturbed>>
  BY DEF Submit
<1>7. DiskOK'
  BY <1>1, <1>5, <1>6 DEF JobsInv, DiskOK, Enriches, Tells
<1>8. DiskTyped'
  BY <1>6 DEF JobsInv, DiskTyped
<1> QED
  BY <1>1, <1>5, <1>6, <1>7, <1>8 DEF JobsInv

LEMMA EmptyQueue ==
  /\ QueueOK(<<>>, <<>>, 0) /\ Spoilt(<<>>) = {} /\ IsFiniteSet({}) /\ Cardinality({}) = 0
BY FS_EmptySet DEF QueueOK, QueueTyped, Distinct, Staged, Waiting, Spoilt

LEMMA RestartKeeps ==
  ASSUME JobsInv, Restart
  PROVE  JobsInv'
<1>1. /\ jobs' = <<>> /\ pending' = <<>> /\ running' = 0 /\ pumps' = 0
      /\ sidecar' = sidecar /\ faults' = faults + 1
  BY DEF Restart, Fault
<1>2. DiskTyped
  BY DEF JobsInv
<1>3. DiskTyped' /\ \A s \in Slugs : s \in disturbed' \/ Tells(s)'
  <2>1. CASE running = 0
    <3>1. UNCHANGED <<atlas, disturbed>>
      BY <2>1 DEF Restart
    <3> QED
      BY <1>1, <1>2, <2>1, <3>1 DEF JobsInv, DiskTyped, DiskOK, Enriches, Tells
  <2>2. CASE running # 0
    <3>1. PICK slug \in Slugs : slug = Slug
      BY <2>2, RunFacts
    <3>2. PICK a \in {atlas[slug], "torn"} : atlas' = [atlas EXCEPT ![slug] = a]
      BY <2>2, <3>1 DEF Restart
    <3>3. a \in Atlas
      BY <1>2, <3>1, <3>2, Words DEF DiskTyped
    <3>4. /\ atlas' \in [Slugs -> Atlas]
          /\ \A s \in Slugs : s # slug => atlas'[s] = atlas[s]
      BY <1>2, <3>2, <3>3, Written DEF DiskTyped
    <3>5. disturbed' = disturbed \cup {slug}
      BY <2>2, <3>1 DEF Restart
    <3> QED
      BY <1>1, <1>2, <2>2, <3>1, <3>4, <3>5, RunFacts DEF DiskTyped, Tells
  <2> QED
    BY <2>1, <2>2
<1>4. DiskOK'
  BY <1>1, <1>3 DEF DiskOK, Enriches
<1>5. QueueOK(jobs', pending', running') /\ Spoilt(jobs') = {}
  BY <1>1, EmptyQueue
<1>6. 0 <= faults'
  BY <1>1, <1>2 DEF DiskTyped
<1> QED
  BY <1>3, <1>4, <1>5, <1>6, EmptyQueue DEF JobsInv

LEMMA InitKeeps ==
  ASSUME JobsInit
  PROVE  JobsInv
<1>1. DiskTyped /\ DiskOK
  BY DEF JobsInit, DiskTyped, DiskOK, Enriches, Tells, Atlas
<1>2. QueueOK(jobs, pending, running) /\ Spoilt(jobs) = {}
  BY EmptyQueue DEF JobsInit
<1>3. 0 <= faults
  BY DEF JobsInit
<1> QED
  BY <1>1, <1>2, <1>3, EmptyQueue DEF JobsInv

LEMMA NextKeeps ==
  ASSUME JobsInv, [JobsNext]_jobsVars
  PROVE  JobsInv'
<1>1. CASE UNCHANGED jobsVars
  BY <1>1 DEF jobsVars, JobsInv, DiskTyped, DiskOK, Enriches, Tells
<1>2. ASSUME NEW slug \in Slugs, NEW ref \in Refs, Submit(slug, ref)
      PROVE  JobsInv'
  BY <1>2, SubmitKeeps
<1>3. CASE Advance
  BY <1>3, PumpKeeps, ScanFailsKeeps, PublishPlainKeeps, PublishFailsKeeps,
     PublishEnrichedKeeps, EnrichFailsKeeps, PublishEnrichedFailsKeeps, SidecarFailsKeeps
  DEF Advance
<1>4. CASE Restart
  BY <1>4, RestartKeeps
<1> QED
  BY <1>1, <1>2, <1>3, <1>4 DEF JobsNext

-----------------------------------------------------------------------------
\* As many rows are in the queue as wait or run.
LEMMA QueueSize ==
  ASSUME JobsInv
  PROVE  Cardinality(InQueue) = Len(pending) + (IF running = 0 THEN 0 ELSE 1)
<1>1. QueueTyped(jobs, pending, running) /\ Distinct(jobs, pending, running)
  BY DEF JobsInv, QueueOK
<1>2. PICK m \in Nat : m = Len(pending) /\ DOMAIN pending = 1 .. m
  BY <1>1, WaitingRows
<1>3. IsFiniteSet(1 .. m) /\ Cardinality(1 .. m) = m
  BY FS_Interval
<1>4. ExistsBijection(1 .. m, Waiting(pending))
  <2>1. pending \in [1 .. m -> Waiting(pending)]
    BY <1>1, <1>2, SeqDef DEF QueueTyped, Waiting
  <2>2. \A w \in Waiting(pending) : \E k \in 1 .. m : pending[k] = w
    BY <1>2 DEF Waiting
  <2>3. \A i, k \in 1 .. m : pending[i] = pending[k] => i = k
    BY <1>1, <1>2 DEF Distinct
  <2>4. pending \in Bijection(1 .. m, Waiting(pending))
    BY <2>1, <2>2, <2>3 DEF Bijection, Injection, Surjection, IsInjective
  <2> QED
    BY <2>4 DEF ExistsBijection
<1>5. IsFiniteSet(Waiting(pending)) /\ Cardinality(Waiting(pending)) = m
  BY <1>3, <1>4, FS_Bijection
<1>6. CASE running = 0
  <2>1. InQueue = Waiting(pending)
    BY <1>6, InQueueIs
  <2> QED
    BY <1>2, <1>5, <1>6, <2>1
<1>7. CASE running # 0
  <2>1. InQueue = Waiting(pending) \cup {running} /\ running \notin Waiting(pending)
    BY <1>1, <1>7, InQueueIs DEF Distinct
  <2> QED
    BY <1>2, <1>5, <1>7, <2>1, FS_AddElement
<1> QED
  BY <1>6, <1>7

\* Whatever is submitted, fails, cannot be written or crashes, and whenever: one active job
\* per slug and ref and no row queued twice; between jobs a sidecar that tells the truth
\* about its atlas, crashes and failed writes excepted; and no live atlas taken back but by
\* a write that failed.
THEOREM JobsAlwaysSafe == JobsSpec => []JobsSafe
<1>1. ASSUME JobsInv
      PROVE  JobsSafe
  <2>1. QueueOK(jobs, pending, running) /\ DiskTyped /\ DiskOK
    BY <1>1 DEF JobsInv
  <2>2. JobsTypeOK
    BY <2>1 DEF JobsTypeOK, QueueOK, QueueTyped, DiskTyped
  <2>3. OneActiveJobPerKey
    <3>1. \A i, k \in InQueue :
            jobs[i].slug = jobs[k].slug /\ jobs[i].ref = jobs[k].ref => i = k
      BY <1>1, <2>1, InQueueIs DEF QueueOK, Distinct, SameKey
    <3> QED
      BY <1>1, <3>1, QueueSize DEF OneActiveJobPerKey
  <2>4. SidecarHonest
    BY <2>1 DEF SidecarHonest, DiskOK, Enriches, Tells, Slug
  <2>5. FailureTakesNothingBack
    <3>1. DOMAIN jobs = 1 .. Len(jobs)
      BY <2>1, WaitingRows DEF QueueOK
    <3>2. {i \in 1 .. Len(jobs) : jobs[i].stage = "failed" /\ jobs[i].ready} = Spoilt(jobs)
      BY <3>1 DEF Spoilt
    <3> QED
      BY <1>1, <2>1, <3>1, <3>2 DEF JobsInv, FailureTakesNothingBack, QueueOK, Staged
  <2> QED
    BY <2>2, <2>3, <2>4, <2>5 DEF JobsSafe
<1>2. JobsInv => JobsSafe
  BY <1>1
<1>3. JobsSpec => []JobsInv
  BY InitKeeps, NextKeeps, PTL DEF JobsSpec
<1> QED
  BY <1>2, <1>3, PTL

-----------------------------------------------------------------------------
(* The edge budget, for any finite set of requests and accounts, any       *)
(* number of days and any caps.  What makes the caps hold is time: a       *)
(* request is admitted to its own day, which is today or yesterday, and no *)
(* admission prunes a day that another may still be admitted to.           *)

Places == {"guards", "backend", "settle", "lost", "done"}
Entered == [at : Places, bucket : Buckets, account : Accounts, day : Day]

EdgeTypeOK ==
  /\ today \in Day
  /\ request \in [Requests -> [at : {"none"}] \cup Entered]
  /\ counts \in [Day -> [Buckets -> Nat]]
  /\ users \in [Day -> [Accounts -> Nat]]
  /\ spent \in [Day -> Nat]
  /\ reserved \subseteq Requests
  /\ cost \in [Requests -> Nat]

\* No request is of a day to come, and one that waits for its admission is of today or
\* yesterday.
InTime ==
  \A r \in Requests :
    /\ ~AtPlace(r, "none") => request[r].day <= today
    /\ AtPlace(r, "guards") => today <= request[r].day + 1

\* What is reserved is an Ask that was admitted and is not settled.
OnlyOpen ==
  \A r \in reserved :
    request[r].bucket = "ask" /\ (AtPlace(r, "backend") \/ AtPlace(r, "settle") \/ AtPlace(r, "lost"))

\* Of a day that may still admit, every request at the backend is counted; of any day they
\* are within the cap.
Within(reached, cap, counted, d) ==
  /\ Cardinality(reached) <= cap
  /\ today <= d + 1 => Cardinality(reached) <= counted
Counted ==
  \A d \in Day :
    /\ \A b \in Buckets : Within(Reached(d, b, Accounts), MaxRequests[b], counts[d][b], d)
    /\ \A a \in Accounts : Within(Reached(d, "ask", {a}), MaxUser, users[d][a], d)

EdgeInv == EdgeTypeOK /\ InTime /\ OnlyOpen /\ OpenAskHeld /\ DollarsWithin /\ Counted

-----------------------------------------------------------------------------
(* The pieces.                                                             *)

\* A request that has entered has a bucket, an account and a day.
LEMMA Fields ==
  ASSUME EdgeTypeOK, NEW r \in Requests, ~AtPlace(r, "none")
  PROVE  /\ request[r] \in Entered /\ request[r].at \in Places
         /\ request[r].bucket \in Buckets /\ request[r].account \in Accounts
         /\ request[r].day \in Day
<1>1. request[r] \in [at : {"none"}] \cup Entered
  BY DEF EdgeTypeOK
<1>2. request[r] \in Entered
  BY <1>1 DEF AtPlace
<1> QED
  BY <1>2 DEF Entered

\* It moves and keeps them; nobody else moves.
LEMMA Moved ==
  ASSUME EdgeTypeOK, NEW r \in Requests, ~AtPlace(r, "none"), NEW place \in Places, Goes(r, place)
  PROVE  /\ request' \in [Requests -> [at : {"none"}] \cup Entered]
         /\ request'[r].at = place /\ request'[r].bucket = request[r].bucket
         /\ request'[r].account = request[r].account /\ request'[r].day = request[r].day
         /\ \A q \in Requests \ {r} : request'[q] = request[q]
<1>1. request[r] \in Entered
  BY Fields
<1>2. request \in [Requests -> [at : {"none"}] \cup Entered]
  BY DEF EdgeTypeOK
<1>3. request' = [request EXCEPT ![r] = [request[r] EXCEPT !.at = place]]
  BY DEF Goes
<1>4. [request[r] EXCEPT !.at = place] \in Entered
  BY <1>1 DEF Entered
<1>5. request'[r] = [request[r] EXCEPT !.at = place]
  BY <1>2, <1>3
<1>6. /\ request'[r].at = place /\ request'[r].bucket = request[r].bucket
      /\ request'[r].account = request[r].account /\ request'[r].day = request[r].day
  BY <1>1, <1>5 DEF Entered
<1> QED
  BY <1>2, <1>3, <1>4, <1>6

\* A number of requests is a number.
LEMMA Number ==
  ASSUME NEW A \in SUBSET Requests
  PROVE  IsFiniteSet(A) /\ Cardinality(A) \in Nat
BY FS_Subset, FS_CardinalityType, EdgeAssumption

\* n times the estimate is a number, and one time more is the estimate more.
LEMMA Times ==
  \A n \in Nat : n * Estimate \in Nat /\ (n + 1) * Estimate = n * Estimate + Estimate
BY EdgeAssumption

-----------------------------------------------------------------------------
(* The dollars reserved.                                                   *)

\* The requests of a set R that are of day d.
Of(R, d) == {r \in R : request[r].day = d}

LEMMA ReservedType ==
  ASSUME EdgeTypeOK, NEW d \in Day
  PROVE  Reserved(d) \in Nat
<1>1. {r \in reserved : request[r].day = d} \in SUBSET Requests
  BY DEF EdgeTypeOK
<1> QED
  BY <1>1, Number, Times DEF Reserved

\* Fewer reservations of a day hold fewer dollars.
LEMMA FewerHeld ==
  ASSUME NEW A \in SUBSET Requests, NEW B \in SUBSET A
  PROVE  /\ Cardinality(A) * Estimate \in Nat /\ Cardinality(B) * Estimate \in Nat
         /\ Cardinality(B) * Estimate <= Cardinality(A) * Estimate
<1>1. Cardinality(A) \in Nat /\ Cardinality(B) \in Nat /\ Cardinality(B) <= Cardinality(A)
  <2>1. IsFiniteSet(A)
    BY Number
  <2> QED
    BY <2>1, Number, FS_Subset
<1>2. Estimate \in Nat
  BY EdgeAssumption
<1>3. \A m, n, e \in Nat : m <= n => m * e \in Nat /\ n * e \in Nat /\ m * e <= n * e
  OBVIOUS
<1> QED
  BY <1>1, <1>2, <1>3

LEMMA OneHeldMore ==
  ASSUME NEW A \in SUBSET Requests, NEW r \in Requests
  PROVE  /\ r \notin A => Cardinality(A \cup {r}) * Estimate = Cardinality(A) * Estimate + Estimate
         /\ Cardinality(A \cup {r}) * Estimate <= Cardinality(A) * Estimate + Estimate
         /\ Cardinality(A) * Estimate \in Nat /\ Cardinality(A \cup {r}) * Estimate \in Nat
<1>1. IsFiniteSet(A) /\ Cardinality(A) \in Nat
  BY Number
<1>2. Cardinality(A \cup {r}) = IF r \in A THEN Cardinality(A) ELSE Cardinality(A) + 1
  BY <1>1, FS_AddElement
<1>3. Estimate \in Nat
  BY EdgeAssumption
<1>4. CASE r \in A
  BY <1>1, <1>2, <1>3, <1>4, Times
<1>5. CASE r \notin A
  BY <1>1, <1>2, <1>3, <1>5, Times
<1> QED
  BY <1>4, <1>5

-----------------------------------------------------------------------------
(* What the settled Asks cost beyond their estimates.                      *)

\* The units beyond the estimate of one Ask.
Beyond(r, c) == {r} \X (Estimate + 1 .. c)

LEMMA BeyondSize ==
  ASSUME NEW r, NEW c \in Nat
  PROVE  /\ IsFiniteSet(Beyond(r, c))
         /\ Cardinality(Beyond(r, c)) \in Nat
         /\ c <= Estimate + Cardinality(Beyond(r, c))
<1>1. Estimate + 1 \in Int /\ c \in Int /\ Estimate \in Nat
  BY EdgeAssumption
<1> DEFINE more == Estimate + 1 .. c
<1>2. IsFiniteSet(more) /\ Cardinality(more) = IF Estimate + 1 > c THEN 0 ELSE c - (Estimate + 1) + 1
  BY <1>1, FS_Interval
<1>3. IsFiniteSet({r}) /\ Cardinality({r}) = 1
  BY FS_Singleton
<1>4. Cardinality(more) \in Nat
  BY <1>2, FS_CardinalityType
<1>5. IsFiniteSet({r} \X more) /\ Cardinality({r} \X more) = Cardinality({r}) * Cardinality(more)
  <2> HIDE DEF more
  <2> QED
    BY <1>2, <1>3, FS_Product
<1>6. Cardinality({r} \X more) = Cardinality(more)
  BY <1>3, <1>4, <1>5
<1>7. c <= Estimate + Cardinality(more)
  <2> HIDE DEF more
  <2> QED
    BY <1>1, <1>2
<1> QED
  BY <1>4, <1>5, <1>6, <1>7 DEF Beyond

\* Of all Asks of a set S, for what they cost.
OverrunOf(S, costs) == UNION {Beyond(r, costs[r]) : r \in S}

LEMMA OverrunFinite ==
  ASSUME NEW S \in SUBSET Requests, NEW costs \in [Requests -> Nat]
  PROVE  IsFiniteSet(OverrunOf(S, costs)) /\ Cardinality(OverrunOf(S, costs)) \in Nat
<1> DEFINE slices == {Beyond(r, costs[r]) : r \in S}
           slice == [r \in S |-> Beyond(r, costs[r])]
<1>2. IsFiniteSet(S)
  BY Number
<1>4. \A r \in S : IsFiniteSet(Beyond(r, costs[r]))
  BY BeyondSize
<1>5. slice \in Surjection(S, slices)
  BY DEF Surjection
<1>6. IsFiniteSet(slices)
  BY <1>2, <1>5, FS_Surjection
<1>7. IsFiniteSet(UNION slices)
  <2>1. \A T \in slices : IsFiniteSet(T)
    BY <1>4
  <2> HIDE DEF slices
  <2> QED
    BY <1>6, <2>1, FS_UNION
<1> QED
  BY <1>7, FS_CardinalityType DEF OverrunOf

LEMMA OverrunGrows ==
  ASSUME NEW S \in SUBSET Requests, NEW T \in SUBSET Requests, S \subseteq T,
         NEW old \in [Requests -> Nat], NEW new \in [Requests -> Nat],
         \A r \in S : new[r] = old[r]
  PROVE  Cardinality(OverrunOf(S, old)) <= Cardinality(OverrunOf(T, new))
<1>1. OverrunOf(S, old) \subseteq OverrunOf(T, new)
  BY DEF OverrunOf
<1> QED
  BY <1>1, OverrunFinite, FS_Subset

\* An Ask that is settled adds at least what it cost beyond the estimate.
LEMMA OneSettledMore ==
  ASSUME NEW S \in SUBSET Requests, NEW r \in Requests, r \notin S,
         NEW costs \in [Requests -> Nat]
  PROVE  Cardinality(OverrunOf(S, costs)) + costs[r]
           <= Estimate + Cardinality(OverrunOf(S \cup {r}, costs))
<1> DEFINE old == OverrunOf(S, costs)
           more == Beyond(r, costs[r])
<1>1. IsFiniteSet(old) /\ Cardinality(old) \in Nat
  BY OverrunFinite
<1>2. /\ IsFiniteSet(more) /\ Cardinality(more) \in Nat
      /\ costs[r] <= Estimate + Cardinality(more)
  <2>1. costs[r] \in Nat
    OBVIOUS
  <2> HIDE DEF more
  <2> QED
    BY <2>1, BeyondSize DEF more
<1>3. OverrunOf(S \cup {r}, costs) = old \cup more
  BY DEF OverrunOf
<1>4. old \cap more = {}
  BY DEF OverrunOf, Beyond
<1>5. Cardinality(old \cup more) = Cardinality(old) + Cardinality(more)
  <2>1. Cardinality(old \cup more) = Cardinality(old) + Cardinality(more) - Cardinality(old \cap more)
    <3> HIDE DEF old, more
    <3> QED
      BY <1>1, <1>2, FS_Union
  <2>2. Cardinality(old \cap more) = 0
    BY <1>4, FS_EmptySet
  <2> HIDE DEF old, more
  <2> QED
    BY <1>1, <1>2, <2>1, <2>2
<1>6. Estimate \in Nat /\ costs[r] \in Nat
  BY EdgeAssumption
<1>7. Cardinality(old) + costs[r] <= Estimate + Cardinality(old \cup more)
  <2> HIDE DEF old, more
  <2> QED
    BY <1>1, <1>2, <1>5, <1>6
<1> QED
  BY <1>3, <1>7

LEMMA ExcessIs ==
  ASSUME NEW d \in Day
  PROVE  /\ Settled(d) \in SUBSET Requests
         /\ Excess(d) = Cardinality(OverrunOf(Settled(d), cost))
         /\ Settled(d)' \in SUBSET Requests
         /\ Excess(d)' = Cardinality(OverrunOf(Settled(d)', cost'))
BY DEF Settled, Excess, Overrun, OverrunOf, Beyond

-----------------------------------------------------------------------------
(* The initial states, and the steps that admit and settle nothing.        *)

LEMMA InitEdgeInv == ASSUME EdgeInit PROVE EdgeInv
<1>1. EdgeTypeOK
  BY EdgeAssumption DEF EdgeInit, EdgeTypeOK, Day
<1>2. InTime /\ OnlyOpen /\ OpenAskHeld
  BY DEF EdgeInit, InTime, OnlyOpen, OpenAskHeld, AtPlace
<1>3. ASSUME NEW d \in Day PROVE spent[d] + Reserved(d) <= MaxDollars + Excess(d)
  <2>1. spent[d] = 0
    BY DEF EdgeInit
  <2>2. Reserved(d) = 0
    <3>1. {r \in reserved : request[r].day = d} = {}
      BY DEF EdgeInit
    <3>2. Estimate \in Nat
      BY EdgeAssumption
    <3>3. Reserved(d) = Cardinality({}) * Estimate
      BY <3>1 DEF Reserved
    <3> QED
      BY <3>2, <3>3, FS_EmptySet
  <2>3. Excess(d) \in Nat
    <3>1. cost \in [Requests -> Nat]
      BY <1>1 DEF EdgeTypeOK
    <3> QED
      BY <3>1, ExcessIs, OverrunFinite
  <2> QED
    BY <2>1, <2>2, <2>3, EdgeAssumption
<1>4. Counted
  <2>1. \A d \in Day, b \in Buckets, A \in SUBSET Accounts : Reached(d, b, A) = {}
    BY DEF EdgeInit, Reached, AtPlace
  <2>2. \A d \in Day, b \in Buckets, A \in SUBSET Accounts : Cardinality(Reached(d, b, A)) = 0
    BY <2>1, FS_EmptySet
  <2>3. \A b \in Buckets : MaxRequests[b] \in Nat
    BY EdgeAssumption
  <2>4. ASSUME NEW d \in Day, NEW b \in Buckets
        PROVE  Within(Reached(d, b, Accounts), MaxRequests[b], counts[d][b], d)
    BY <2>2, <2>3 DEF Within, EdgeInit
  <2>5. ASSUME NEW d \in Day, NEW a \in Accounts
        PROVE  Within(Reached(d, "ask", {a}), MaxUser, users[d][a], d)
    <3>1. Cardinality(Reached(d, "ask", {a})) = 0
      BY <2>2 DEF Buckets
    <3> QED
      BY <3>1, EdgeAssumption DEF Within, EdgeInit
  <2> QED
    BY <2>4, <2>5 DEF Counted
<1> QED
  BY <1>1, <1>2, <1>3, <1>4 DEF EdgeInv, DollarsWithin

\* Request q is as before: it may have moved.
Same(q) ==
  request'[q].bucket = request[q].bucket /\ request'[q].account = request[q].account
    /\ request'[q].day = request[q].day

Reaches(q) == AtPlace(q, "backend") \/ AtPlace(q, "settle")

\* A step keeps the caps when no request reaches the backend in it and what it takes from
\* the ledger is of days past.
LEMMA Quiet ==
  ASSUME EdgeInv, EdgeTypeOK', InTime', today <= today',
         \A q \in Requests : Reaches(q)' => Reaches(q) /\ Same(q),
         \A q \in Requests : AtPlace(q, "lost")' => (Reaches(q) \/ AtPlace(q, "lost")) /\ Same(q),
         \A q \in Requests :
           AtPlace(q, "done") => AtPlace(q, "done")' /\ Same(q) /\ cost'[q] = cost[q],
         \A q \in reserved' : q \in reserved /\ Same(q) /\ (Reaches(q) \/ AtPlace(q, "lost"))',
         \A q \in reserved \ reserved' : request[q].day + KeepDays < today',
         \A d \in Day : spent'[d] <= spent[d],
         \A d \in Day : today' <= d + 1 => counts'[d] = counts[d] /\ users'[d] = users[d]
  PROVE  EdgeInv'
<1>1. OnlyOpen'
  BY DEF EdgeInv, OnlyOpen, Same, Reaches
<1>2. OpenAskHeld'
  <2> SUFFICES ASSUME NEW q \in Requests, (Reaches(q) \/ AtPlace(q, "lost"))', request'[q].bucket = "ask",
                      request'[q].day + KeepDays >= today'
               PROVE  q \in reserved'
    BY DEF OpenAskHeld, Reaches
  <2>1. (Reaches(q) \/ AtPlace(q, "lost")) /\ Same(q)
    OBVIOUS
  <2>2. request[q].day \in Day /\ today \in Day /\ today' \in Day
    <3>1. ~AtPlace(q, "none")
      BY <2>1 DEF Reaches, AtPlace
    <3> QED
      BY <3>1, Fields DEF EdgeInv, EdgeTypeOK
  <2>3. request[q].day + KeepDays >= today
    BY <2>1, <2>2, EdgeAssumption DEF Same, Day
  <2>4. q \in reserved
    BY <2>1, <2>3 DEF EdgeInv, OpenAskHeld, Same, Reaches
  <2> QED
    BY <2>1, <2>2, <2>4, EdgeAssumption DEF Same, Day
<1>3. ASSUME NEW d \in Day PROVE spent'[d] + Reserved(d)' <= MaxDollars + Excess(d)'
  <2> DEFINE A == {r \in reserved : request[r].day = d}
             B == {r \in reserved' : request'[r].day = d}
  <2>1. spent[d] + Cardinality(A) * Estimate <= MaxDollars + Excess(d)
    BY DEF EdgeInv, DollarsWithin, Reserved
  <2>2. /\ Cardinality(A) * Estimate \in Nat /\ Cardinality(B) * Estimate \in Nat
        /\ Cardinality(B) * Estimate <= Cardinality(A) * Estimate
    <3>1. A \in SUBSET Requests /\ B \in SUBSET A
      BY DEF EdgeInv, EdgeTypeOK, Same
    <3> HIDE DEF A, B
    <3> QED
      BY <3>1, FewerHeld
  <2>3. Excess(d) \in Nat /\ Excess(d)' \in Nat /\ Excess(d) <= Excess(d)'
    <3>1. cost \in [Requests -> Nat] /\ cost' \in [Requests -> Nat]
      BY DEF EdgeInv, EdgeTypeOK
    <3>2. Settled(d) \subseteq Settled(d)' /\ \A r \in Settled(d) : cost'[r] = cost[r]
      BY DEF Settled, Same
    <3> QED
      BY <3>1, <3>2, ExcessIs, OverrunFinite, OverrunGrows
  <2>4. spent[d] \in Nat /\ spent'[d] \in Nat /\ spent'[d] <= spent[d] /\ MaxDollars \in Nat
    BY EdgeAssumption DEF EdgeInv, EdgeTypeOK
  <2>5. Reserved(d)' = Cardinality(B) * Estimate
    BY DEF Reserved
  <2> HIDE DEF A, B
  <2> QED
    BY <2>1, <2>2, <2>3, <2>4, <2>5
<1>4. ASSUME NEW d \in Day, NEW b \in Buckets, NEW A \in SUBSET Accounts
      PROVE  /\ Cardinality(Reached(d, b, A)) \in Nat /\ Cardinality(Reached(d, b, A)') \in Nat
             /\ Cardinality(Reached(d, b, A)') <= Cardinality(Reached(d, b, A))
  <2>1. Reached(d, b, A) \in SUBSET Requests
    BY DEF Reached
  <2>2. Reached(d, b, A)' \in SUBSET Reached(d, b, A)
    BY DEF Reached, Reaches, Same
  <2> QED
    BY <2>1, <2>2, Number, FS_Subset
<1>5. today \in Nat /\ today' \in Nat /\ Day \in SUBSET Nat
  BY DEF EdgeInv, EdgeTypeOK, Day
<1>6. ASSUME NEW d \in Day, NEW b \in Buckets
      PROVE  Within(Reached(d, b, Accounts), MaxRequests[b], counts[d][b], d)'
  <2>1. Within(Reached(d, b, Accounts), MaxRequests[b], counts[d][b], d)
    BY DEF EdgeInv, Counted
  <2>2. MaxRequests[b] \in Nat /\ counts[d][b] \in Nat
    BY EdgeAssumption DEF EdgeInv, EdgeTypeOK
  <2>3. /\ Cardinality(Reached(d, b, Accounts)) \in Nat /\ Cardinality(Reached(d, b, Accounts)') \in Nat
        /\ Cardinality(Reached(d, b, Accounts)') <= Cardinality(Reached(d, b, Accounts))
    BY <1>4
  <2>4. today' <= d + 1 => today <= d + 1 /\ counts'[d][b] = counts[d][b]
    BY <1>5
  <2> QED
    BY <2>1, <2>2, <2>3, <2>4 DEF Within
<1>7. ASSUME NEW d \in Day, NEW a \in Accounts
      PROVE  Within(Reached(d, "ask", {a}), MaxUser, users[d][a], d)'
  <2>1. Within(Reached(d, "ask", {a}), MaxUser, users[d][a], d)
    BY DEF EdgeInv, Counted
  <2>2. MaxUser \in Nat /\ users[d][a] \in Nat
    BY EdgeAssumption DEF EdgeInv, EdgeTypeOK
  <2>3. /\ Cardinality(Reached(d, "ask", {a})) \in Nat /\ Cardinality(Reached(d, "ask", {a})') \in Nat
        /\ Cardinality(Reached(d, "ask", {a})') <= Cardinality(Reached(d, "ask", {a}))
    BY <1>4 DEF Buckets
  <2>4. today' <= d + 1 => today <= d + 1 /\ users'[d][a] = users[d][a]
    BY <1>5
  <2> QED
    BY <2>1, <2>2, <2>3, <2>4 DEF Within
<1>8. Counted'
  BY <1>6, <1>7 DEF Counted
<1> QED
  BY <1>1, <1>2, <1>3, <1>8 DEF EdgeInv, DollarsWithin

LEMMA MidnightEdgeInv == ASSUME EdgeInv, Midnight PROVE EdgeInv'
<1>1. EdgeTypeOK'
  BY EdgeAssumption DEF EdgeInv, EdgeTypeOK, Midnight, Ledger, Day
<1>2. InTime'
  <2> SUFFICES ASSUME NEW r \in Requests
               PROVE  /\ ~AtPlace(r, "none")' => request'[r].day <= today'
                      /\ AtPlace(r, "guards")' => today' <= request'[r].day + 1
    BY DEF InTime
  <2>1. CASE AtPlace(r, "none")
    BY <2>1 DEF AtPlace, Midnight
  <2>2. CASE ~AtPlace(r, "none")
    <3>1. request[r].day \in Day /\ today \in Day
      BY <2>2, Fields DEF EdgeInv, EdgeTypeOK
    <3>2. request[r].day <= today /\ (AtPlace(r, "guards") => request[r].day = today)
      BY <2>2 DEF EdgeInv, InTime, Midnight
    <3>3. today' = today + 1 /\ request' = request
      BY DEF Midnight
    <3> QED
      BY <3>1, <3>2, <3>3 DEF Day, AtPlace
  <2> QED
    BY <2>1, <2>2
<1>3. today \in Nat /\ today' = today + 1
  BY DEF EdgeInv, EdgeTypeOK, Day, Midnight
<1>4. request' = request /\ counts' = counts /\ users' = users /\ spent' = spent /\ reserved' = reserved
        /\ cost' = cost
  BY DEF Midnight, Ledger
<1>5. \A q \in reserved' : q \in reserved /\ Same(q) /\ (Reaches(q) \/ AtPlace(q, "lost"))'
  BY <1>4 DEF Same, Reaches, AtPlace, EdgeInv, OnlyOpen
<1>6. \A d \in Day : spent'[d] <= spent[d]
  BY <1>4 DEF EdgeInv, EdgeTypeOK
<1>7. \A q \in Requests : Reaches(q)' => Reaches(q) /\ Same(q)
  BY <1>4 DEF Reaches, Same, AtPlace
<1>8. \A q \in Requests : AtPlace(q, "lost")' => (Reaches(q) \/ AtPlace(q, "lost")) /\ Same(q)
  BY <1>4 DEF Same, AtPlace
<1>9. \A q \in Requests : AtPlace(q, "done") => AtPlace(q, "done")' /\ Same(q) /\ cost'[q] = cost[q]
  BY <1>4 DEF Same, AtPlace
<1>10. today <= today'
  BY <1>3
<1> QED
  BY <1>1, <1>2, <1>4, <1>5, <1>6, <1>7, <1>8, <1>9, <1>10, Quiet

\* A request that moves leaves time as it is.
LEMMA MoveInTime ==
  ASSUME EdgeInv, NEW r \in Requests, ~AtPlace(r, "none"), NEW place \in Places \ {"guards"},
         Goes(r, place), today' = today
  PROVE  InTime'
<1> SUFFICES ASSUME NEW q \in Requests
             PROVE  /\ ~AtPlace(q, "none")' => request'[q].day <= today'
                    /\ AtPlace(q, "guards")' => today' <= request'[q].day + 1
  BY DEF InTime
<1>1. /\ request'[r].at = place /\ request'[r].day = request[r].day
      /\ \A p \in Requests \ {r} : request'[p] = request[p]
  BY Moved DEF EdgeInv
<1>2. CASE q = r
  BY <1>1, <1>2 DEF EdgeInv, InTime, AtPlace
<1>3. CASE q # r
  BY <1>1, <1>3 DEF EdgeInv, InTime, AtPlace
<1> QED
  BY <1>2, <1>3

LEMMA EnterEdgeInv ==
  ASSUME EdgeInv, NEW r \in Requests, NEW b \in Buckets, NEW a \in Accounts, EnterEdge(r, b, a)
  PROVE  EdgeInv'
<1> DEFINE new == [at |-> "guards", bucket |-> b, account |-> a, day |-> today]
<1>1. request' = [request EXCEPT ![r] = new] /\ today' = today /\ AtPlace(r, "none")
        /\ counts' = counts /\ users' = users /\ spent' = spent /\ reserved' = reserved /\ cost' = cost
  BY DEF EnterEdge, Ledger
<1>2. new \in Entered /\ today \in Day
  BY DEF Entered, Places, EdgeInv, EdgeTypeOK
<1>3. request'[r] = new /\ \A q \in Requests \ {r} : request'[q] = request[q]
  BY <1>1 DEF EdgeInv, EdgeTypeOK
<1>4. EdgeTypeOK'
  BY <1>1, <1>2 DEF EdgeInv, EdgeTypeOK
<1>5. InTime'
  <2> SUFFICES ASSUME NEW q \in Requests
               PROVE  /\ ~AtPlace(q, "none")' => request'[q].day <= today'
                      /\ AtPlace(q, "guards")' => today' <= request'[q].day + 1
    BY DEF InTime
  <2>1. CASE q = r
    BY <1>1, <1>2, <1>3, <2>1 DEF Day, AtPlace
  <2>2. CASE q # r
    BY <1>1, <1>3, <2>2 DEF EdgeInv, InTime, AtPlace
  <2> QED
    BY <2>1, <2>2
<1>6. r \notin reserved
  BY <1>1 DEF EdgeInv, OnlyOpen, AtPlace
<1>7. \A q \in reserved' : q \in reserved /\ Same(q) /\ (Reaches(q) \/ AtPlace(q, "lost"))'
  BY <1>1, <1>3, <1>6 DEF Same, Reaches, AtPlace, EdgeInv, OnlyOpen, EdgeTypeOK
<1>8. \A d \in Day : spent'[d] <= spent[d]
  BY <1>1 DEF EdgeInv, EdgeTypeOK
<1>9. \A q \in Requests : Reaches(q)' => Reaches(q) /\ Same(q)
  BY <1>3 DEF Reaches, Same, AtPlace
<1>10. \A q \in Requests : AtPlace(q, "lost")' => (Reaches(q) \/ AtPlace(q, "lost")) /\ Same(q)
  BY <1>3 DEF Same, AtPlace
<1>11. \A q \in Requests : AtPlace(q, "done") => AtPlace(q, "done")' /\ Same(q) /\ cost'[q] = cost[q]
  BY <1>1, <1>3 DEF Same, AtPlace
<1>12. today <= today'
  BY <1>1, <1>2 DEF Day
<1> QED
  BY <1>1, <1>4, <1>5, <1>7, <1>8, <1>9, <1>10, <1>11, <1>12, Quiet

\* The rows of the days that may still admit stay: an admission is to today or yesterday, and
\* it keeps the day before its own.
LEMMA PrunesThePast ==
  ASSUME EdgeInv, NEW r \in Requests, AtPlace(r, "guards")
  PROVE  /\ request[r].day \in Day /\ request[r].day <= today
         /\ \A d \in Nat : d + KeepDays < request[r].day => d + KeepDays < today /\ ~(today <= d + 1)
<1>1. request[r].day \in Day /\ today \in Day
  <2>1. ~AtPlace(r, "none")
    BY DEF AtPlace
  <2> QED
    BY <2>1, Fields DEF EdgeInv, EdgeTypeOK
<1>2. request[r].day <= today
  BY DEF EdgeInv, InTime, AtPlace
<1> QED
  BY <1>1, <1>2, EdgeAssumption DEF Day

LEMMA RefusedEdgeInv ==
  ASSUME EdgeInv, NEW r \in Requests, Refused(r) \/ AdmitRefuses(r)
  PROVE  EdgeInv'
<1>1. /\ AtPlace(r, "guards") /\ Goes(r, "done") /\ today' = today /\ cost' = cost
      /\ ~AtPlace(r, "none") /\ "done" \in Places /\ "done" \in Places \ {"guards"}
  BY DEF Refused, AdmitRefuses, AtPlace, Places
<1>2. /\ request' \in [Requests -> [at : {"none"}] \cup Entered]
      /\ request'[r].at = "done" /\ request'[r].bucket = request[r].bucket
      /\ request'[r].account = request[r].account /\ request'[r].day = request[r].day
      /\ \A q \in Requests \ {r} : request'[q] = request[q]
  BY <1>1, Moved DEF EdgeInv
<1>3. /\ request[r].day \in Day /\ request[r].day <= today
      /\ \A d \in Nat : d + KeepDays < request[r].day => d + KeepDays < today /\ ~(today <= d + 1)
  BY <1>1, PrunesThePast
<1>4. /\ counts' = counts \/ counts' = Kept(counts, r, NoCounts)
      /\ users' = users \/ users' = Kept(users, r, NoUsers)
      /\ spent' = spent \/ spent' = Kept(spent, r, 0)
      /\ reserved' = reserved \/ reserved' = {q \in reserved : request[q].day + KeepDays >= request[r].day}
  BY DEF Refused, AdmitRefuses, Ledger, Prune
<1>5. NoCounts \in [Buckets -> Nat] /\ NoUsers \in [Accounts -> Nat] /\ 0 \in Nat
  BY DEF NoCounts, NoUsers
<1>6. EdgeTypeOK'
  BY <1>1, <1>2, <1>4, <1>5 DEF EdgeInv, EdgeTypeOK, Kept
<1>7. InTime'
  BY <1>1, MoveInTime
<1>8. r \notin reserved
  BY <1>1 DEF EdgeInv, OnlyOpen, AtPlace
<1>9. \A q \in reserved' : q \in reserved /\ Same(q) /\ (Reaches(q) \/ AtPlace(q, "lost"))'
  BY <1>2, <1>4, <1>8 DEF Same, Reaches, AtPlace, EdgeInv, OnlyOpen, EdgeTypeOK
<1>10. ASSUME NEW q \in reserved \ reserved' PROVE request[q].day + KeepDays < today'
  <2>1. ~(request[q].day + KeepDays >= request[r].day)
    BY <1>4
  <2>2. request[q].day \in Day
    <3>1. q \in Requests /\ ~AtPlace(q, "none")
      BY DEF EdgeInv, OnlyOpen, EdgeTypeOK, AtPlace
    <3> QED
      BY <3>1, Fields DEF EdgeInv
  <2> QED
    BY <1>1, <1>3, <2>1, <2>2, EdgeAssumption DEF Day
<1>11. ASSUME NEW d \in Day PROVE spent'[d] <= spent[d]
  <2>1. spent[d] \in Nat
    BY DEF EdgeInv, EdgeTypeOK
  <2>2. spent'[d] = spent[d] \/ spent'[d] = 0
    BY <1>4 DEF Kept
  <2> QED
    BY <2>1, <2>2
<1>12. ASSUME NEW d \in Day, today' <= d + 1
       PROVE  counts'[d] = counts[d] /\ users'[d] = users[d]
  <2>1. ~(d + KeepDays < request[r].day)
    BY <1>1, <1>3, <1>12 DEF Day
  <2> QED
    BY <1>4, <2>1 DEF Kept
<1>13. \A q \in Requests : Reaches(q)' => Reaches(q) /\ Same(q)
  BY <1>2 DEF Reaches, Same, AtPlace
<1>14. \A q \in Requests : AtPlace(q, "lost")' => (Reaches(q) \/ AtPlace(q, "lost")) /\ Same(q)
  BY <1>2 DEF Same, AtPlace
<1>15. \A q \in Requests : AtPlace(q, "done") => AtPlace(q, "done")' /\ Same(q) /\ cost'[q] = cost[q]
  BY <1>1, <1>2 DEF Same, AtPlace
<1>16. today <= today'
  BY <1>1 DEF EdgeInv, EdgeTypeOK, Day
<1> QED
  BY <1>6, <1>7, <1>9, <1>10, <1>11, <1>12, <1>13, <1>14, <1>15, <1>16, Quiet

\* The backend answers, or the isolate dies: the ledger is as it was.
LEMMA AnswerEdgeInv ==
  ASSUME EdgeInv, NEW r \in Requests, NEW c \in Costs \cup {Estimate},
         BackendAnswers(r, c) \/ Dies(r)
  PROVE  EdgeInv'
<1>1. PICK place \in {"settle", "done", "lost"} :
        /\ Goes(r, place) /\ Reaches(r)
        /\ place = "settle" => request[r].bucket = "ask"
        /\ place = "done" => request[r].bucket # "ask"
  BY DEF BackendAnswers, Dies, Reaches
<1>2. /\ ~AtPlace(r, "none") /\ place \in Places /\ place \in Places \ {"guards"}
      /\ today' = today /\ counts' = counts /\ users' = users /\ spent' = spent /\ reserved' = reserved
  BY <1>1 DEF BackendAnswers, Dies, Reaches, AtPlace, Places, Ledger
<1>3. /\ request' \in [Requests -> [at : {"none"}] \cup Entered]
      /\ request'[r].at = place /\ request'[r].bucket = request[r].bucket
      /\ request'[r].account = request[r].account /\ request'[r].day = request[r].day
      /\ \A q \in Requests \ {r} : request'[q] = request[q]
  BY <1>1, <1>2, Moved DEF EdgeInv
<1>4. cost' \in [Requests -> Nat] /\ \A q \in Requests \ {r} : cost'[q] = cost[q]
  BY EdgeAssumption DEF BackendAnswers, Dies, EdgeInv, EdgeTypeOK
<1>5. EdgeTypeOK'
  BY <1>2, <1>3, <1>4 DEF EdgeInv, EdgeTypeOK
<1>6. InTime'
  BY <1>1, <1>2, MoveInTime
<1>7. \A q \in reserved' : q \in reserved /\ Same(q) /\ (Reaches(q) \/ AtPlace(q, "lost"))'
  BY <1>1, <1>2, <1>3 DEF Same, Reaches, AtPlace, EdgeInv, OnlyOpen, EdgeTypeOK
<1>8. \A d \in Day : spent'[d] <= spent[d]
  BY <1>2 DEF EdgeInv, EdgeTypeOK
<1>9. \A q \in Requests : Reaches(q)' => Reaches(q) /\ Same(q)
  BY <1>1, <1>3 DEF Reaches, Same, AtPlace
<1>10. \A q \in Requests : AtPlace(q, "lost")' => (Reaches(q) \/ AtPlace(q, "lost")) /\ Same(q)
  BY <1>1, <1>3 DEF Same, AtPlace
<1>11. \A q \in Requests : AtPlace(q, "done") => AtPlace(q, "done")' /\ Same(q) /\ cost'[q] = cost[q]
  BY <1>1, <1>3, <1>4 DEF Same, AtPlace, Reaches
<1>12. today <= today'
  BY <1>2 DEF EdgeInv, EdgeTypeOK, Day
<1> QED
  BY <1>2, <1>5, <1>6, <1>7, <1>8, <1>9, <1>10, <1>11, <1>12, Quiet

-----------------------------------------------------------------------------
(* Admission.                                                              *)

\* What an admission leaves of the ledger, of day d: all of it when the day may still admit.
LEMMA AdmitLedger ==
  ASSUME EdgeInv, NEW r \in Requests, NEW heard \in BOOLEAN, Admit(r, heard), NEW d \in Day
  PROVE  /\ spent'[d] \in {0, spent[d]} /\ (today <= d + 1 => spent'[d] = spent[d])
         /\ \A b \in Buckets :
              today <= d + 1 =>
                counts'[d][b] = IF d = request[r].day /\ b = request[r].bucket
                                THEN counts[d][b] + 1 ELSE counts[d][b]
         /\ \A a \in Accounts :
              today <= d + 1 =>
                users'[d][a] = IF request[r].bucket = "ask" /\ d = request[r].day /\ a = request[r].account
                               THEN users[d][a] + 1 ELSE users[d][a]
<1>1. ~AtPlace(r, "none") /\ AtPlace(r, "guards")
  BY DEF Admit, AtPlace
<1>2. request[r].day \in Day /\ request[r].bucket \in Buckets /\ request[r].account \in Accounts
  BY <1>1, Fields DEF EdgeInv
<1>3. today <= d + 1 => ~(d + KeepDays < request[r].day)
  BY <1>1, PrunesThePast DEF Day
<1> DEFINE day == request[r].day
           b0 == request[r].bucket
           a0 == request[r].account
<1>4. spent' = Kept(spent, r, 0)
  BY DEF Admit
<1>5. counts' = [Kept(counts, r, NoCounts) EXCEPT ![day][b0] = @ + 1]
  BY DEF Admit
<1>6. users' = IF b0 = "ask" THEN [Kept(users, r, NoUsers) EXCEPT ![day][a0] = @ + 1]
               ELSE Kept(users, r, NoUsers)
  BY DEF Admit
<1>7. spent'[d] \in {0, spent[d]} /\ (today <= d + 1 => spent'[d] = spent[d])
  BY <1>3, <1>4 DEF Kept
<1>8. ASSUME NEW b \in Buckets, today <= d + 1
      PROVE  counts'[d][b] = IF d = day /\ b = b0 THEN counts[d][b] + 1 ELSE counts[d][b]
  <2> DEFINE K == Kept(counts, r, NoCounts)
  <2>1. K[d] = counts[d]
    BY <1>3, <1>8 DEF Kept
  <2>2. K \in [Day -> [Buckets -> Nat]]
    BY DEF Kept, NoCounts, EdgeInv, EdgeTypeOK
  <2> HIDE DEF K
  <2>3. counts' = [K EXCEPT ![day][b0] = @ + 1]
    BY <1>5 DEF K
  <2>4. counts'[d][b] = IF d = day /\ b = b0 THEN K[d][b] + 1 ELSE K[d][b]
    BY <1>2, <2>2, <2>3
  <2> QED
    BY <2>1, <2>4
<1>9. ASSUME NEW a \in Accounts, today <= d + 1
      PROVE  users'[d][a] = IF b0 = "ask" /\ d = day /\ a = a0 THEN users[d][a] + 1 ELSE users[d][a]
  <2> DEFINE K == Kept(users, r, NoUsers)
  <2>1. K[d] = users[d]
    BY <1>3, <1>9 DEF Kept
  <2>2. K \in [Day -> [Accounts -> Nat]]
    BY DEF Kept, NoUsers, EdgeInv, EdgeTypeOK
  <2> HIDE DEF K
  <2>3. users' = IF b0 = "ask" THEN [K EXCEPT ![day][a0] = @ + 1] ELSE K
    BY <1>6 DEF K
  <2>4. users'[d][a] = IF b0 = "ask" /\ d = day /\ a = a0 THEN K[d][a] + 1 ELSE K[d][a]
    BY <1>2, <2>2, <2>3
  <2> QED
    BY <2>1, <2>4
<1> QED
  BY <1>7, <1>8, <1>9

\* A set of requests counted stays within its cap when it shrinks, and when one that the cap
\* allows joins it and is counted.
LEMMA WithinKept ==
  ASSUME NEW X \in SUBSET Requests, NEW Y \in SUBSET X, NEW cap \in Nat,
         NEW old \in Nat, NEW new \in Nat, NEW d \in Day, Within(X, cap, old, d),
         today <= d + 1 => new = old
  PROVE  Cardinality(Y) <= cap /\ (today <= d + 1 => Cardinality(Y) <= new)
<1>1. Cardinality(X) \in Nat /\ Cardinality(Y) \in Nat /\ Cardinality(Y) <= Cardinality(X)
  BY Number, FS_Subset
<1> QED
  BY <1>1 DEF Within

LEMMA WithinGrows ==
  ASSUME NEW X \in SUBSET Requests, NEW r \in Requests, NEW Y \in SUBSET (X \cup {r}),
         NEW cap \in Nat, NEW old \in Nat, NEW new \in Nat, NEW d \in Day, Within(X, cap, old, d),
         today <= d + 1, old < cap, new = old + 1
  PROVE  Cardinality(Y) <= cap /\ (today <= d + 1 => Cardinality(Y) <= new)
<1>1. IsFiniteSet(X) /\ Cardinality(X) \in Nat
  BY Number
<1>2. IsFiniteSet(X \cup {r}) /\ Cardinality(X \cup {r}) <= Cardinality(X) + 1
  <2>1. /\ IsFiniteSet(X \cup {r})
        /\ Cardinality(X \cup {r}) = IF r \in X THEN Cardinality(X) ELSE Cardinality(X) + 1
    BY <1>1, FS_AddElement
  <2> QED
    BY <1>1, <2>1
<1>3. Cardinality(X \cup {r}) \in Nat /\ Cardinality(Y) \in Nat /\ Cardinality(Y) <= Cardinality(X \cup {r})
  <2>1. X \cup {r} \in SUBSET Requests
    OBVIOUS
  <2> QED
    BY <2>1, <1>2, Number, FS_Subset
<1>4. Cardinality(X) <= old
  BY DEF Within
<1> QED
  BY <1>1, <1>2, <1>3, <1>4

LEMMA AdmitEdgeInv ==
  ASSUME EdgeInv, NEW r \in Requests, NEW heard \in BOOLEAN, Admit(r, heard)
  PROVE  EdgeInv'
<1> DEFINE day == request[r].day
           ask == request[r].bucket = "ask"
<1>1. PICK place \in {"backend", "lost"} : Goes(r, place)
  BY DEF Admit
<1>2. /\ AtPlace(r, "guards") /\ ~AtPlace(r, "none") /\ place \in Places /\ place \in Places \ {"guards"}
      /\ today' = today /\ cost' = cost
      /\ reserved' = {q \in reserved : request[q].day + KeepDays >= day} \cup (IF ask THEN {r} ELSE {})
  BY DEF Admit, AtPlace, Places
<1>3. /\ request' \in [Requests -> [at : {"none"}] \cup Entered]
      /\ request'[r].at = place /\ request'[r].bucket = request[r].bucket
      /\ request'[r].account = request[r].account /\ request'[r].day = request[r].day
      /\ \A q \in Requests \ {r} : request'[q] = request[q]
  BY <1>1, <1>2, Moved DEF EdgeInv
<1>4. /\ day \in Day /\ day <= today /\ today <= day + 1 /\ today \in Day
      /\ request[r].bucket \in Buckets /\ request[r].account \in Accounts
  <2>1. day <= today /\ today <= day + 1
    BY <1>2 DEF EdgeInv, InTime
  <2> QED
    BY <1>2, <2>1, Fields DEF EdgeInv, EdgeTypeOK
<1>5. EdgeTypeOK'
  <2>1. Kept(counts, r, NoCounts) \in [Day -> [Buckets -> Nat]]
    BY DEF Kept, NoCounts, EdgeInv, EdgeTypeOK
  <2>2. counts' \in [Day -> [Buckets -> Nat]]
    BY <1>4, <2>1 DEF Admit
  <2>3. Kept(users, r, NoUsers) \in [Day -> [Accounts -> Nat]]
    BY DEF Kept, NoUsers, EdgeInv, EdgeTypeOK
  <2>4. users' \in [Day -> [Accounts -> Nat]]
    BY <1>4, <2>3 DEF Admit
  <2>5. spent' \in [Day -> Nat]
    BY DEF Admit, Kept, EdgeInv, EdgeTypeOK
  <2> QED
    BY <1>2, <1>3, <2>2, <2>4, <2>5 DEF EdgeInv, EdgeTypeOK
<1>6. InTime'
  BY <1>1, <1>2, MoveInTime
<1>7. r \notin reserved
  BY <1>2 DEF EdgeInv, OnlyOpen, AtPlace
<1>8. OnlyOpen'
  BY <1>2, <1>3, <1>7 DEF OnlyOpen, AtPlace, EdgeInv, EdgeTypeOK
<1>9. OpenAskHeld'
  <2> SUFFICES ASSUME NEW q \in Requests, (Reaches(q) \/ AtPlace(q, "lost"))', request'[q].bucket = "ask",
                      request'[q].day + KeepDays >= today'
               PROVE  q \in reserved'
    BY DEF OpenAskHeld, Reaches
  <2>1. CASE q = r
    BY <1>2, <1>3, <2>1
  <2>2. CASE q # r
    <3>1. q \in reserved /\ request[q].day + KeepDays >= today
      BY <1>2, <1>3, <2>2 DEF EdgeInv, OpenAskHeld, Reaches, AtPlace
    <3>2. request[q].day \in Day
      <4>1. ~AtPlace(q, "none")
        BY <1>3, <2>2 DEF Reaches, AtPlace
      <4> QED
        BY <4>1, Fields DEF EdgeInv
    <3> QED
      BY <1>2, <1>4, <3>1, <3>2, EdgeAssumption DEF Day
  <2> QED
    BY <2>1, <2>2
<1>10. ASSUME NEW d \in Day PROVE spent'[d] + Reserved(d)' <= MaxDollars + Excess(d)'
  <2> DEFINE A == {q \in reserved : request[q].day = d}
             B == {q \in reserved' : request'[q].day = d}
  <2>1. spent[d] + Cardinality(A) * Estimate <= MaxDollars + Excess(d)
    BY DEF EdgeInv, DollarsWithin, Reserved
  <2>2. A \in SUBSET Requests /\ B \in SUBSET Requests
    BY <1>2 DEF EdgeInv, EdgeTypeOK
  <2>3. Excess(d) \in Nat /\ Excess(d)' \in Nat /\ Excess(d) <= Excess(d)'
    <3>1. cost \in [Requests -> Nat] /\ cost' \in [Requests -> Nat]
      BY <1>5 DEF EdgeInv, EdgeTypeOK
    <3>2. Settled(d) \subseteq Settled(d)' /\ \A q \in Settled(d) : cost'[q] = cost[q]
      BY <1>2, <1>3 DEF Settled, AtPlace
    <3> QED
      BY <3>1, <3>2, ExcessIs, OverrunFinite, OverrunGrows
  <2>4. spent[d] \in Nat /\ spent'[d] \in Nat /\ spent'[d] <= spent[d] /\ MaxDollars \in Nat /\ Estimate \in Nat
    <3>1. spent[d] \in Nat /\ MaxDollars \in Nat /\ Estimate \in Nat
      BY EdgeAssumption DEF EdgeInv, EdgeTypeOK
    <3>2. spent'[d] \in {0, spent[d]}
      BY AdmitLedger
    <3> QED
      BY <3>1, <3>2
  <2>5. Reserved(d)' = Cardinality(B) * Estimate
    BY DEF Reserved
  <2>6. CASE ask /\ d = day
    <3>1. B \in SUBSET (A \cup {r}) /\ A \cup {r} \in SUBSET Requests
      BY <1>2, <1>3, <1>7, <2>2
    <3>2. Cardinality(A) * Estimate + spent[d] + Estimate <= MaxDollars
      BY <2>6 DEF Admit, WithinDollars, Reserved
    <3> HIDE DEF A, B
    <3>3. /\ Cardinality(B) * Estimate \in Nat /\ Cardinality(A \cup {r}) * Estimate \in Nat
          /\ Cardinality(B) * Estimate <= Cardinality(A \cup {r}) * Estimate
      BY <3>1, FewerHeld
    <3>4. /\ Cardinality(A \cup {r}) * Estimate <= Cardinality(A) * Estimate + Estimate
          /\ Cardinality(A) * Estimate \in Nat
      BY <2>2, OneHeldMore
    <3> QED
      BY <2>3, <2>4, <2>5, <3>2, <3>3, <3>4
  <2>7. CASE ~(ask /\ d = day)
    <3>1. B \in SUBSET A
      <4>1. ASSUME NEW q \in B PROVE q \in reserved /\ q # r
        BY <1>2, <1>3, <1>7, <2>7
      <4>2. reserved \subseteq Requests
        BY DEF EdgeInv, EdgeTypeOK
      <4> QED
        BY <1>3, <4>1, <4>2
    <3> HIDE DEF A, B
    <3>2. /\ Cardinality(A) * Estimate \in Nat /\ Cardinality(B) * Estimate \in Nat
          /\ Cardinality(B) * Estimate <= Cardinality(A) * Estimate
      BY <2>2, <3>1, FewerHeld
    <3> QED
      BY <2>1, <2>3, <2>4, <2>5, <3>2
  <2> QED
    BY <2>6, <2>7
<1>11. ASSUME NEW d \in Day, NEW b \in Buckets
       PROVE  Within(Reached(d, b, Accounts), MaxRequests[b], counts[d][b], d)'
  <2> DEFINE X == Reached(d, b, Accounts)
             Y == Reached(d, b, Accounts)'
  <2>1. Within(X, MaxRequests[b], counts[d][b], d)
    BY DEF EdgeInv, Counted
  <2>2. MaxRequests[b] \in Nat /\ counts[d][b] \in Nat /\ counts'[d][b] \in Nat
    BY <1>5, EdgeAssumption DEF EdgeInv, EdgeTypeOK
  <2>3. X \in SUBSET Requests
    BY DEF Reached
  <2>4. CASE d = day /\ b = request[r].bucket
    <3>1. Y \in SUBSET (X \cup {r})
      BY <1>3 DEF Reached, AtPlace
    <3>2. counts[d][b] < MaxRequests[b]
      BY <2>4 DEF Admit, WithinRequests
    <3>3. today <= d + 1 /\ counts'[d][b] = counts[d][b] + 1
      BY <1>4, <2>4, AdmitLedger
    <3>4. Cardinality(Y) <= MaxRequests[b] /\ (today <= d + 1 => Cardinality(Y) <= counts'[d][b])
      <4> HIDE DEF X, Y
      <4> QED
        BY <2>1, <2>2, <2>3, <3>1, <3>2, <3>3, WithinGrows
    <3> QED
      BY <1>2, <3>4 DEF Within
  <2>5. CASE ~(d = day /\ b = request[r].bucket)
    <3>1. Y \in SUBSET X
      BY <1>3, <2>5 DEF Reached, AtPlace
    <3>2. today <= d + 1 => counts'[d][b] = counts[d][b]
      BY <2>5, AdmitLedger
    <3>3. Cardinality(Y) <= MaxRequests[b] /\ (today <= d + 1 => Cardinality(Y) <= counts'[d][b])
      <4> HIDE DEF X, Y
      <4> QED
        BY <2>1, <2>2, <2>3, <3>1, <3>2, WithinKept
    <3> QED
      BY <1>2, <3>3 DEF Within
  <2> QED
    BY <2>4, <2>5
<1>12. ASSUME NEW d \in Day, NEW a \in Accounts
       PROVE  Within(Reached(d, "ask", {a}), MaxUser, users[d][a], d)'
  <2> DEFINE X == Reached(d, "ask", {a})
             Y == Reached(d, "ask", {a})'
  <2>1. Within(X, MaxUser, users[d][a], d)
    BY DEF EdgeInv, Counted
  <2>2. MaxUser \in Nat /\ users[d][a] \in Nat /\ users'[d][a] \in Nat
    BY <1>5, EdgeAssumption DEF EdgeInv, EdgeTypeOK
  <2>3. X \in SUBSET Requests
    BY DEF Reached
  <2>4. CASE ask /\ d = day /\ a = request[r].account
    <3>1. Y \in SUBSET (X \cup {r})
      BY <1>3 DEF Reached, AtPlace
    <3>2. users[d][a] < MaxUser
      BY <2>4 DEF Admit, WithinUser
    <3>3. today <= d + 1 /\ users'[d][a] = users[d][a] + 1
      BY <1>4, <2>4, AdmitLedger
    <3>4. Cardinality(Y) <= MaxUser /\ (today <= d + 1 => Cardinality(Y) <= users'[d][a])
      <4> HIDE DEF X, Y
      <4> QED
        BY <2>1, <2>2, <2>3, <3>1, <3>2, <3>3, WithinGrows
    <3> QED
      BY <1>2, <3>4 DEF Within
  <2>5. CASE ~(ask /\ d = day /\ a = request[r].account)
    <3>1. Y \in SUBSET X
      BY <1>3, <2>5 DEF Reached, AtPlace
    <3>2. today <= d + 1 => users'[d][a] = users[d][a]
      BY <2>5, AdmitLedger
    <3>3. Cardinality(Y) <= MaxUser /\ (today <= d + 1 => Cardinality(Y) <= users'[d][a])
      <4> HIDE DEF X, Y
      <4> QED
        BY <2>1, <2>2, <2>3, <3>1, <3>2, WithinKept
    <3> QED
      BY <1>2, <3>3 DEF Within
  <2> QED
    BY <2>4, <2>5
<1>13. Counted'
  BY <1>11, <1>12 DEF Counted
<1> QED
  BY <1>5, <1>6, <1>8, <1>9, <1>10, <1>13 DEF EdgeInv, DollarsWithin

-----------------------------------------------------------------------------
(* Settlement.                                                             *)

LEMMA SettleEdgeInv == ASSUME EdgeInv, NEW r \in Requests, Settle(r) PROVE EdgeInv'
<1> DEFINE day == request[r].day
<1>1. /\ AtPlace(r, "settle") /\ Goes(r, "done") /\ today' = today /\ cost' = cost
      /\ counts' = counts /\ users' = users
      /\ ~AtPlace(r, "none") /\ "done" \in Places /\ "done" \in Places \ {"guards"}
  BY DEF Settle, AtPlace, Places
<1>2. /\ request' \in [Requests -> [at : {"none"}] \cup Entered]
      /\ request'[r].at = "done" /\ request'[r].bucket = request[r].bucket
      /\ request'[r].account = request[r].account /\ request'[r].day = request[r].day
      /\ \A q \in Requests \ {r} : request'[q] = request[q]
  BY <1>1, Moved DEF EdgeInv
<1>3. day \in Day /\ cost[r] \in Nat
  BY <1>1, Fields DEF EdgeInv, EdgeTypeOK
<1>4. reserved' = reserved \ {r}
  BY DEF Settle
<1>5. spent' \in [Day -> Nat]
        /\ \A d \in Day : spent'[d] = IF r \in reserved /\ d = day THEN spent[d] + cost[r] ELSE spent[d]
  BY <1>3 DEF Settle, EdgeInv, EdgeTypeOK
<1>6. EdgeTypeOK'
  BY <1>1, <1>2, <1>4, <1>5 DEF EdgeInv, EdgeTypeOK
<1>7. InTime'
  BY <1>1, MoveInTime
<1>8. CASE r \notin reserved
  <2>1. reserved' = reserved
    BY <1>4, <1>8
  <2>2. \A q \in reserved' : q \in reserved /\ Same(q) /\ (Reaches(q) \/ AtPlace(q, "lost"))'
    BY <1>2, <1>8, <2>1 DEF Same, Reaches, AtPlace, EdgeInv, OnlyOpen, EdgeTypeOK
  <2>3. \A d \in Day : spent'[d] <= spent[d]
    BY <1>5, <1>8 DEF EdgeInv, EdgeTypeOK
  <2>4. \A q \in Requests : Reaches(q)' => Reaches(q) /\ Same(q)
    BY <1>2 DEF Reaches, Same, AtPlace
  <2>5. \A q \in Requests : AtPlace(q, "lost")' => (Reaches(q) \/ AtPlace(q, "lost")) /\ Same(q)
    BY <1>2 DEF Same, AtPlace
  <2>6. \A q \in Requests : AtPlace(q, "done") => AtPlace(q, "done")' /\ Same(q) /\ cost'[q] = cost[q]
    BY <1>1, <1>2 DEF Same, AtPlace
  <2>7. today <= today'
    BY <1>1 DEF EdgeInv, EdgeTypeOK, Day
  <2> QED
    BY <1>1, <1>6, <1>7, <2>1, <2>2, <2>3, <2>4, <2>5, <2>6, <2>7, Quiet
<1>9. CASE r \in reserved
  <2>1. OnlyOpen'
    BY <1>2, <1>4 DEF OnlyOpen, AtPlace, EdgeInv, EdgeTypeOK
  <2>2. OpenAskHeld'
    BY <1>1, <1>2, <1>4 DEF OpenAskHeld, AtPlace, EdgeInv
  <2>3. ASSUME NEW d \in Day PROVE spent'[d] + Reserved(d)' <= MaxDollars + Excess(d)'
    <3> DEFINE A == {q \in reserved : request[q].day = d}
               B == {q \in reserved' : request'[q].day = d}
               S == Settled(d)
               T == Settled(d)'
    <3>1. spent[d] + Cardinality(A) * Estimate <= MaxDollars + Excess(d)
      BY DEF EdgeInv, DollarsWithin, Reserved
    <3>2. Reserved(d)' = Cardinality(B) * Estimate
      BY DEF Reserved
    <3>3. spent[d] \in Nat /\ MaxDollars \in Nat /\ Estimate \in Nat
      BY EdgeAssumption DEF EdgeInv, EdgeTypeOK
    <3>4. A \in SUBSET Requests /\ B \in SUBSET Requests
      BY <1>4 DEF EdgeInv, EdgeTypeOK
    <3>5. /\ S \in SUBSET Requests /\ T \in SUBSET Requests
          /\ Excess(d) = Cardinality(OverrunOf(S, cost)) /\ Excess(d)' = Cardinality(OverrunOf(T, cost))
      BY <1>1, ExcessIs
    <3>6. cost \in [Requests -> Nat]
      BY DEF EdgeInv, EdgeTypeOK
    <3>7. Excess(d) \in Nat /\ Excess(d)' \in Nat
      <4> HIDE DEF S, T
      <4> QED
        BY <3>5, <3>6, OverrunFinite
    <3>8. CASE d = day
      <4>1. A = B \cup {r} /\ r \notin B
        BY <1>2, <1>4, <1>9, <3>4, <3>8 DEF EdgeInv, EdgeTypeOK
      <4>2. T = S \cup {r} /\ r \notin S
        BY <1>1, <1>2, <1>9, <3>8 DEF Settled, AtPlace, EdgeInv, OnlyOpen
      <4>3. spent'[d] = spent[d] + cost[r]
        BY <1>5, <1>9, <3>8
      <4> HIDE DEF A, B, S, T
      <4>4. /\ Cardinality(A) * Estimate = Cardinality(B) * Estimate + Estimate
            /\ Cardinality(B) * Estimate \in Nat
        BY <3>4, <4>1, OneHeldMore
      <4>5. Excess(d) + cost[r] <= Estimate + Excess(d)'
        BY <3>5, <3>6, <4>2, OneSettledMore
      <4> QED
        BY <1>3, <3>1, <3>2, <3>3, <3>7, <4>3, <4>4, <4>5
    <3>9. CASE d # day
      <4>1. B \in SUBSET A
        BY <1>2, <1>4, <3>4, <3>9 DEF EdgeInv, EdgeTypeOK
      <4>2. S \subseteq T
        BY <1>1, <1>2 DEF Settled, AtPlace
      <4>3. spent'[d] = spent[d]
        BY <1>5, <3>9
      <4> HIDE DEF A, B, S, T
      <4>4. /\ Cardinality(A) * Estimate \in Nat /\ Cardinality(B) * Estimate \in Nat
            /\ Cardinality(B) * Estimate <= Cardinality(A) * Estimate
        BY <3>4, <4>1, FewerHeld
      <4>5. Excess(d) <= Excess(d)'
        BY <3>5, <3>6, <4>2, OverrunGrows
      <4> QED
        BY <3>1, <3>2, <3>3, <3>7, <4>3, <4>4, <4>5
    <3> QED
      BY <3>8, <3>9
  <2>4. \A d \in Day, b \in Buckets, A \in SUBSET Accounts :
          Reached(d, b, A) \in SUBSET Requests /\ Reached(d, b, A)' \in SUBSET Reached(d, b, A)
    BY <1>2 DEF Reached, AtPlace
  <2>5. ASSUME NEW d \in Day, NEW b \in Buckets
        PROVE  Within(Reached(d, b, Accounts), MaxRequests[b], counts[d][b], d)'
    <3> DEFINE X == Reached(d, b, Accounts)
               Y == Reached(d, b, Accounts)'
    <3>1. Within(X, MaxRequests[b], counts[d][b], d)
      BY DEF EdgeInv, Counted
    <3>2. MaxRequests[b] \in Nat /\ counts[d][b] \in Nat
      BY EdgeAssumption DEF EdgeInv, EdgeTypeOK
    <3>3. X \in SUBSET Requests /\ Y \in SUBSET X
      BY <2>4
    <3>4. Cardinality(Y) <= MaxRequests[b] /\ (today <= d + 1 => Cardinality(Y) <= counts[d][b])
      <4> HIDE DEF X, Y
      <4> QED
        BY <3>1, <3>2, <3>3, WithinKept
    <3> QED
      BY <1>1, <3>4 DEF Within
  <2>6. ASSUME NEW d \in Day, NEW a \in Accounts
        PROVE  Within(Reached(d, "ask", {a}), MaxUser, users[d][a], d)'
    <3> DEFINE X == Reached(d, "ask", {a})
               Y == Reached(d, "ask", {a})'
    <3>1. Within(X, MaxUser, users[d][a], d)
      BY DEF EdgeInv, Counted
    <3>2. MaxUser \in Nat /\ users[d][a] \in Nat
      BY EdgeAssumption DEF EdgeInv, EdgeTypeOK
    <3>3. X \in SUBSET Requests /\ Y \in SUBSET X
      BY <2>4 DEF Buckets
    <3>4. Cardinality(Y) <= MaxUser /\ (today <= d + 1 => Cardinality(Y) <= users[d][a])
      <4> HIDE DEF X, Y
      <4> QED
        BY <3>1, <3>2, <3>3, WithinKept
    <3> QED
      BY <1>1, <3>4 DEF Within
  <2>7. Counted'
    BY <2>5, <2>6 DEF Counted
  <2> QED
    BY <1>6, <1>7, <2>1, <2>2, <2>3, <2>7 DEF EdgeInv, DollarsWithin
<1> QED
  BY <1>8, <1>9

LEMMA NextEdgeInv == ASSUME EdgeInv, [EdgeNext]_edgeVars PROVE EdgeInv'
<1>1. CASE UNCHANGED edgeVars
  <2>1. /\ today' = today /\ request' = request /\ cost' = cost
        /\ counts' = counts /\ users' = users /\ spent' = spent /\ reserved' = reserved
    BY <1>1 DEF edgeVars
  <2>2. EdgeTypeOK' /\ InTime' /\ OnlyOpen' /\ OpenAskHeld'
    BY <2>1 DEF EdgeInv, EdgeTypeOK, InTime, OnlyOpen, OpenAskHeld, AtPlace
  <2>3. DollarsWithin'
    BY <2>1 DEF EdgeInv, DollarsWithin, Reserved, Excess, Overrun, Settled, AtPlace
  <2>4. Counted'
    BY <2>1 DEF EdgeInv, Counted, Within, Reached, AtPlace
  <2> QED
    BY <2>2, <2>3, <2>4 DEF EdgeInv
<1>2. CASE Midnight
  BY <1>2, MidnightEdgeInv
<1>3. ASSUME NEW r \in Requests, NEW b \in Buckets, NEW a \in Accounts, EnterEdge(r, b, a) PROVE EdgeInv'
  BY <1>3, EnterEdgeInv
<1>4. ASSUME NEW r \in Requests, Refused(r) \/ AdmitRefuses(r) PROVE EdgeInv'
  BY <1>4, RefusedEdgeInv
<1>5. ASSUME NEW r \in Requests, NEW heard \in BOOLEAN, Admit(r, heard) PROVE EdgeInv'
  BY <1>5, AdmitEdgeInv
<1>6. ASSUME NEW r \in Requests, NEW c \in Costs \cup {Estimate}, BackendAnswers(r, c) PROVE EdgeInv'
  BY <1>6, AnswerEdgeInv
<1>7. ASSUME NEW r \in Requests, Settle(r) PROVE EdgeInv'
  BY <1>7, SettleEdgeInv
<1>8. ASSUME NEW r \in Requests, Dies(r) PROVE EdgeInv'
  <2>1. Estimate \in Costs \cup {Estimate}
    OBVIOUS
  <2> QED
    BY <1>8, <2>1, AnswerEdgeInv
<1> QED
  BY <1>1, <1>2, <1>3, <1>4, <1>5, <1>6, <1>7, <1>8 DEF EdgeNext

\* For any finite set of requests, any accounts and any caps, whatever is lost and whenever
\* midnight comes: an Ask that is not settled stays reserved while its day is kept, the
\* dollars of a day pass the cap only by what its settled Asks cost beyond their estimates,
\* and what reached the backend is within the caps of its bucket and its account
\* (AtlasBudget.admit, settle).
THEOREM EdgeBudgetAlwaysSafe == EdgeSpec => []EdgeBudgetSafe
<1>1. EdgeInit => EdgeInv
  BY InitEdgeInv
<1>2. EdgeInv /\ [EdgeNext]_edgeVars => EdgeInv'
  BY NextEdgeInv
<1>3. EdgeInv => EdgeBudgetSafe
  BY DEF EdgeInv, EdgeBudgetSafe, Counted, CallsWithin, Within
<1> QED
  BY <1>1, <1>2, <1>3, PTL DEF EdgeSpec

=============================================================================
