----------------------------- MODULE OwnerLock -----------------------------
(***************************************************************************)
(* The lock file that serialises the operator store between processes      *)
(* (class OwnerLock, apps/server/src/operatorStore.ts).  A caller creates  *)
(* the file exclusively, writes its pid into it, works, and removes it.  A *)
(* caller that finds the file reads the pid in it: the lock of a dead      *)
(* process is removed and the creation tried once more, anything else is   *)
(* "busy".  Each file-system call is one action, so calls of different     *)
(* processes interleave; within one process the store is synchronous and a *)
(* nested call runs inside the outer one (the `depth` counter), so one     *)
(* control point per process is enough.                                    *)
(***************************************************************************)
EXTENDS Naturals, FiniteSets

CONSTANTS
  Procs,       \* processes that open the store; each has its own pid
  NoFile,      \* the lock file does not exist
  MaxCrashes   \* bound on crashes, for model checking

ASSUME LockAssumption ==
  /\ NoFile \notin Procs
  /\ MaxCrashes \in Nat

VARIABLES
  pc,       \* [Procs -> Control]: where the process is inside OwnerLock.with
  retry,    \* [Procs -> {0, 1}]: the loop counter of OwnerLock.with
  file,     \* the lock file: NoFile, or the process that created this file
  written,  \* TRUE once the creator's pid is in the file
  dead,     \* crashed processes (process.kill(pid, 0) fails for them)
  usurped   \* observer: some removal hit the file of another live process

vars == <<pc, retry, file, written, dead, usurped>>

Control == {"idle", "create", "write", "critical", "inspect", "evict"}

Init ==
  /\ pc = [p \in Procs |-> "idle"]
  /\ retry = [p \in Procs |-> 0]
  /\ file = NoFile
  /\ written = FALSE
  /\ dead = {}
  /\ usurped = FALSE

Live == Procs \ dead

At(p, control) == p \in Live /\ pc[p] = control

Goto(p, control) == pc' = [pc EXCEPT ![p] = control]

\* with(work) at depth 0: the loop starts at retry = 0.
Enter(p) ==
  /\ At(p, "idle")
  /\ Goto(p, "create")
  /\ retry' = [retry EXCEPT ![p] = 0]
  /\ UNCHANGED <<file, written, dead, usurped>>

\* Mutant of Create: openSync(path, "w").
CreateAnyway(p) ==
  /\ At(p, "create")
  /\ file' = p
  /\ written' = FALSE
  /\ Goto(p, "write")
  /\ UNCHANGED <<retry, dead, usurped>>

\* openSync(path, "wx") creates an empty file or fails with EEXIST.
Create(p) ==
  /\ At(p, "create")
  /\ \/ /\ file = NoFile
        /\ file' = p
        /\ written' = FALSE
        /\ Goto(p, "write")
     \/ /\ file # NoFile
        /\ Goto(p, "inspect")
        /\ UNCHANGED <<file, written>>
  /\ UNCHANGED <<retry, dead, usurped>>

\* writeFileSync(fd, {pid, token}): the bytes reach the file that was created,
\* which is no longer the one at this path if somebody has removed it since.
WriteOwner(p) ==
  /\ At(p, "write")
  /\ written' = (written \/ file = p)
  /\ Goto(p, "critical")
  /\ UNCHANGED <<retry, file, dead, usurped>>

\* Mutant of Inspect: every file is busy.
InspectBusy(p) ==
  /\ At(p, "inspect")
  /\ Goto(p, "idle")
  /\ UNCHANGED <<retry, file, written, dead, usurped>>

\* The owner is read back: a complete file of a dead pid may be evicted, a live
\* owner, an incomplete file and a file that is gone again are all "busy".
Inspect(p) ==
  /\ At(p, "inspect")
  /\ \/ /\ file \in dead /\ written
        /\ Goto(p, "evict")
     \/ /\ ~(file \in dead /\ written)
        /\ Goto(p, "idle")
  /\ UNCHANGED <<retry, file, written, dead, usurped>>

\* rmSync(path) removes whatever file is at the path by now.
RemoveFile(p) ==
  /\ file' = NoFile
  /\ written' = FALSE
  /\ usurped' = (usurped \/ file \in Live \ {p})

\* After an eviction the creation is tried once more; the second eviction of the
\* same call ends the loop with "operator store is busy".
Evict(p) ==
  /\ At(p, "evict")
  /\ RemoveFile(p)
  /\ \/ /\ retry[p] = 0
        /\ retry' = [retry EXCEPT ![p] = 1]
        /\ Goto(p, "create")
     \/ /\ retry[p] = 1
        /\ Goto(p, "idle")
        /\ UNCHANGED retry
  /\ UNCHANGED dead

\* The finally clause removes the path without looking at its owner.
Exit(p) ==
  /\ At(p, "critical")
  /\ RemoveFile(p)
  /\ Goto(p, "idle")
  /\ UNCHANGED <<retry, dead>>

\* The process dies between any two calls and leaves the file as it is.
Crash(p) ==
  /\ p \in Live
  /\ Cardinality(dead) < MaxCrashes
  /\ dead' = dead \cup {p}
  /\ UNCHANGED <<pc, retry, file, written, usurped>>

Step(p) == Create(p) \/ WriteOwner(p) \/ Inspect(p) \/ Evict(p) \/ Exit(p)

Next == \E p \in Procs : Enter(p) \/ Step(p) \/ Crash(p)

Spec == Init /\ [][Next]_vars

\* A process that has called `with` runs on until it returns or crashes, and the
\* store is called again and again (the server polls it on every request).
FairSpec == Spec /\ \A p \in Procs : WF_vars(Enter(p)) /\ WF_vars(Step(p))

-----------------------------------------------------------------------------
TypeOK ==
  /\ pc \in [Procs -> Control]
  /\ retry \in [Procs -> {0, 1}]
  /\ file \in Procs \cup {NoFile}
  /\ written \in BOOLEAN
  /\ dead \subseteq Procs
  /\ usurped \in BOOLEAN

Inside(p) == p \in Live /\ pc[p] \in {"write", "critical"}

MutualExclusion == \A p, q \in Procs : Inside(p) /\ Inside(q) => p = q

\* Two live processes are inside the store at once only after some removal of the
\* lock file has hit the file of another live process: apart from that race the
\* protocol of OwnerLock.with excludes, whatever crashes happen.
ExclusiveUnlessUsurped == usurped \/ MutualExclusion

\* That race needs a crash: while every process is alive no file is removed but by
\* its creator.
UsurpedOnlyAfterCrash == usurped => dead # {}

LockSafe == TypeOK /\ ExclusiveUnlessUsurped /\ UsurpedOnlyAfterCrash

\* What the class comment promises, "A live owner is never evicted": while a process
\* is inside, no other process removes its file.
LiveOwnerNeverEvicted ==
  [][\A p \in Procs : Inside(p) /\ file = p /\ Inside(p)' => file' = p]_vars

\* The lock of a process that died with its pid in the file does not outlive it: the
\* file is removed by a later caller.
DeadLockRecovered == (file \in dead /\ written) ~> ~(file \in dead /\ written)

=============================================================================
