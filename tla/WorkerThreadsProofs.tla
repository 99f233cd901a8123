------------------------ MODULE WorkerThreadsProofs ------------------------
(***************************************************************************)
(* Proofs about the two components of the server that hand work over to a  *)
(* child process or a thread and mirror what it tells them: the scan       *)
(* workers and the worker that answers questions.                          *)
(***************************************************************************)
EXTENDS ScanWorkers, AskWorker, FiniteSetTheorems, SequenceTheorems, TLAPS

-----------------------------------------------------------------------------
(* The scan workers, for any finite set of scans and any number of slots.  *)

\* The queue holds scans that wait, each once.
ScansQueued ==
  /\ \A n \in 1 .. Len(waiting) : scanPhase[waiting[n]] = "waiting"
  /\ \A m, n \in 1 .. Len(waiting) : waiting[m] = waiting[n] => m = n

\* Only the child of a scan that has not settled is spared.
SparedRuns == \A s \in Scans : child[s] = "alive" => scanPhase[s] = "running"

ScansInv == ScansTypeOK /\ ScansQueued /\ SlotsCounted /\ SparedRuns /\ ScratchWithChild

\* Phases in which a scan holds a slot.
Held == {"granted", "running", "settled"}

-----------------------------------------------------------------------------
\* Nobody has asked for a slot at the start.
LEMMA InitScansInv == ASSUME ScansInit PROVE ScansInv
<1>1. ScansTypeOK
  <2>1. waiting \in Seq(Scans)
    BY EmptySeq DEF ScansInit
  <2> QED  BY <2>1 DEF ScansInit, ScansTypeOK, ScanPhase, Child
<1>2. Holding = {} /\ Cardinality(Holding) = 0
  BY FS_EmptySet DEF ScansInit, Holding
<1>3. SlotsCounted
  BY <1>2, ScansAssumption DEF ScansInit, SlotsCounted
<1>4. ScansQueued /\ SparedRuns /\ ScratchWithChild
  BY DEF ScansInit, ScansQueued, SparedRuns, ScratchWithChild
<1> QED  BY <1>1, <1>3, <1>4 DEF ScansInv

\* The scans that hold a slot are finitely many.
LEMMA HoldingFinite ==
  ASSUME NEW A \in SUBSET Scans
  PROVE  IsFiniteSet(A) /\ Cardinality(A) \in Nat
BY FS_Subset, FS_CardinalityType, ScansAssumption

\* A scan that goes on holding its slot changes neither the queue nor the count.
LEMMA SlotKept ==
  ASSUME ScansInv, NEW s \in Scans, NEW p \in Held, scanPhase[s] \in Held,
         scanPhase' = [scanPhase EXCEPT ![s] = p], active' = active, waiting' = waiting
  PROVE  scanPhase' \in [Scans -> ScanPhase] /\ ScansQueued' /\ SlotsCounted'
<1>1. scanPhase \in [Scans -> ScanPhase] /\ waiting \in Seq(Scans) /\ ScansQueued /\ SlotsCounted
  BY DEF ScansInv, ScansTypeOK
<1>2. scanPhase' \in [Scans -> ScanPhase]
  BY <1>1 DEF ScanPhase, Held
<1>3. Holding' = Holding
  BY <1>1 DEF Holding, Held
<1>4. SlotsCounted'
  BY <1>1, <1>3 DEF SlotsCounted
<1>5. ASSUME NEW n \in 1 .. Len(waiting) PROVE scanPhase'[waiting[n]] = "waiting"
  <2>1. waiting[n] \in Scans /\ scanPhase[waiting[n]] = "waiting"
    BY <1>1 DEF ScansQueued
  <2>2. waiting[n] # s
    BY <2>1 DEF Held
  <2> QED  BY <1>1, <2>1, <2>2
<1>6. ScansQueued'
  BY <1>1, <1>5 DEF ScansQueued
<1> QED  BY <1>2, <1>4, <1>6

\* Nothing of the queue and the count depends on anything but the phases and the queue.
LEMMA SlotsUntouched ==
  ASSUME ScansInv, scanPhase' = scanPhase, active' = active, waiting' = waiting
  PROVE  scanPhase' \in [Scans -> ScanPhase] /\ ScansQueued' /\ SlotsCounted'
BY DEF ScansInv, ScansTypeOK, ScansQueued, SlotsCounted, Holding

\* Taking a slot or joining the queue for one.
LEMMA TakeSlotKeeps == ASSUME ScansInv, NEW s \in Scans, TakeSlot(s) PROVE ScansInv'
<1>1. /\ scanPhase \in [Scans -> ScanPhase] /\ waiting \in Seq(Scans) /\ active \in Nat
      /\ Len(waiting) \in Nat /\ \A n \in 1 .. Len(waiting) : waiting[n] \in Scans
  BY DEF ScansInv, ScansTypeOK
<1>2. scanPhase[s] = "idle" /\ s \notin Holding /\ \A n \in 1 .. Len(waiting) : waiting[n] # s
  BY DEF TakeSlot, ScansInv, ScansQueued, Holding
<1>3. child' = child /\ scratch' = scratch /\ aborted' = aborted /\ down' = down
  BY DEF TakeSlot
<1>4. child[s] # "alive"
  BY <1>2 DEF ScansInv, SparedRuns
<1>5. CASE active < Limit /\ active' = active + 1 /\ Turn(s, "granted") /\ waiting' = waiting
  <2>1. scanPhase' \in [Scans -> ScanPhase]
    BY <1>1, <1>5 DEF Turn, ScanPhase
  <2>2. ScansTypeOK'
    BY <1>1, <1>3, <1>5, <2>1 DEF ScansInv, ScansTypeOK
  <2>3. Holding' = Holding \cup {s} /\ Holding \in SUBSET Scans
    BY <1>1, <1>5 DEF Holding, Turn
  <2>4. Cardinality(Holding') = Cardinality(Holding) + 1
    BY <1>2, <2>3, HoldingFinite, FS_AddElement
  <2>5. SlotsCounted'
    <3>1. waiting = <<>>
      BY <1>1, <1>5, ScansAssumption DEF ScansInv, SlotsCounted
    <3> QED  BY <1>1, <1>5, <2>4, <3>1, ScansAssumption DEF ScansInv, SlotsCounted
  <2>6. ScansQueued'
    BY <1>1, <1>2, <1>5 DEF ScansInv, ScansQueued, Turn
  <2>7. SparedRuns' /\ ScratchWithChild'
    BY <1>1, <1>3, <1>4, <1>5 DEF ScansInv, SparedRuns, ScratchWithChild, Turn
  <2> QED  BY <2>2, <2>5, <2>6, <2>7 DEF ScansInv
<1>6. CASE active >= Limit /\ waiting' = Append(waiting, s) /\ Turn(s, "waiting") /\ active' = active
  <2>1. scanPhase' \in [Scans -> ScanPhase]
    BY <1>1, <1>6 DEF Turn, ScanPhase
  <2>2. /\ waiting' \in Seq(Scans) /\ Len(waiting') = Len(waiting) + 1
        /\ waiting'[Len(waiting) + 1] = s /\ \A n \in 1 .. Len(waiting) : waiting'[n] = waiting[n]
    BY <1>1, <1>6, AppendProperties
  <2>3. ScansTypeOK'
    BY <1>1, <1>3, <1>6, <2>1, <2>2 DEF ScansInv, ScansTypeOK
  <2>4. Holding' = Holding
    BY <1>1, <1>2, <1>6 DEF Holding, Turn
  <2>5. SlotsCounted'
    BY <1>1, <1>6, <2>4, ScansAssumption DEF ScansInv, SlotsCounted
  <2>6. ASSUME NEW n \in 1 .. Len(waiting') PROVE scanPhase'[waiting'[n]] = "waiting"
    <3>1. n \in 1 .. Len(waiting) \/ n = Len(waiting) + 1
      BY <1>1, <2>2
    <3>2. ASSUME n \in 1 .. Len(waiting) PROVE scanPhase'[waiting'[n]] = "waiting"
      BY <1>1, <1>2, <1>6, <2>2, <3>2 DEF ScansInv, ScansQueued, Turn
    <3>3. scanPhase'[s] = "waiting"
      BY <1>1, <1>6 DEF Turn
    <3> QED  BY <2>2, <3>1, <3>2, <3>3
  <2>7. ASSUME NEW m \in 1 .. Len(waiting'), NEW n \in 1 .. Len(waiting'), waiting'[m] = waiting'[n]
        PROVE  m = n
    <3>1. /\ m \in 1 .. Len(waiting) \/ m = Len(waiting) + 1
          /\ n \in 1 .. Len(waiting) \/ n = Len(waiting) + 1
      BY <1>1, <2>2
    <3>2. ASSUME m \in 1 .. Len(waiting), n \in 1 .. Len(waiting) PROVE m = n
      BY <2>2, <2>7, <3>2 DEF ScansInv, ScansQueued
    <3>3. ASSUME m \in 1 .. Len(waiting), n = Len(waiting) + 1 PROVE FALSE
      BY <1>2, <2>2, <2>7, <3>3
    <3>4. ASSUME n \in 1 .. Len(waiting), m = Len(waiting) + 1 PROVE FALSE
      BY <1>2, <2>2, <2>7, <3>4
    <3> QED  BY <3>1, <3>2, <3>3, <3>4
  <2>8. ScansQueued'
    BY <2>6, <2>7 DEF ScansQueued
  <2>9. SparedRuns' /\ ScratchWithChild'
    BY <1>1, <1>3, <1>4, <1>6 DEF ScansInv, SparedRuns, ScratchWithChild, Turn
  <2> QED  BY <2>3, <2>5, <2>8, <2>9 DEF ScansInv
<1> QED  BY <1>5, <1>6 DEF TakeSlot

\* A scan with a slot starts its child, or settles at once.
LEMMA StartScanKeeps == ASSUME ScansInv, NEW s \in Scans, StartScan(s) PROVE ScansInv'
<1>1. scanPhase[s] = "granted" /\ scanPhase[s] \in Held /\ active' = active /\ waiting' = waiting
      /\ aborted' = aborted /\ down' = down
  BY DEF StartScan, Held
<1>2. /\ scanPhase \in [Scans -> ScanPhase] /\ child \in [Scans -> Child] /\ scratch \subseteq Scans
      /\ child[s] # "alive"
  BY <1>1 DEF ScansInv, ScansTypeOK, SparedRuns
<1>3. CASE Turn(s, "settled") /\ child' = child /\ scratch' = scratch
  <2>1. scanPhase' \in [Scans -> ScanPhase] /\ ScansQueued' /\ SlotsCounted'
    BY <1>1, <1>3, SlotKept DEF Turn, Held
  <2>2. ScansTypeOK'
    BY <1>1, <1>3, <2>1 DEF ScansInv, ScansTypeOK
  <2>3. SparedRuns' /\ ScratchWithChild'
    BY <1>2, <1>3 DEF ScansInv, SparedRuns, ScratchWithChild, Turn
  <2> QED  BY <2>1, <2>2, <2>3 DEF ScansInv
<1>4. ASSUME Turn(s, "running"), scratch' = scratch \cup {s}, NEW born \in {"unborn", "alive"},
             child' = [child EXCEPT ![s] = born]
      PROVE  ScansInv'
  <2>1. scanPhase' \in [Scans -> ScanPhase] /\ ScansQueued' /\ SlotsCounted'
    BY <1>1, <1>4, SlotKept DEF Turn, Held
  <2>2. ScansTypeOK'
    BY <1>1, <1>2, <1>4, <2>1 DEF ScansInv, ScansTypeOK, Child
  <2>3. SparedRuns' /\ ScratchWithChild'
    BY <1>2, <1>4 DEF ScansInv, SparedRuns, ScratchWithChild, Turn
  <2> QED  BY <2>1, <2>2, <2>3 DEF ScansInv
<1> QED  BY <1>3, <1>4 DEF StartScan

\* settle() keeps the slot of the scan, and spares no child of a scan that is over.
LEMMA SettleScanKeeps ==
  ASSUME ScansInv, NEW s \in Scans, SettleScan(s), active' = active, waiting' = waiting
  PROVE  /\ scanPhase' \in [Scans -> ScanPhase] /\ ScansQueued' /\ SlotsCounted'
         /\ child' \in [Scans -> Child] /\ SparedRuns'
         /\ \A t \in Scans : child'[t] = child[t] \/ (child[t] = "alive" /\ child'[t] = "killed")
<1>1. scanPhase \in [Scans -> ScanPhase] /\ child \in [Scans -> Child] /\ SparedRuns
  BY DEF ScansInv, ScansTypeOK
<1>2. CASE scanPhase[s] = "running"
  <2>1. scanPhase' = [scanPhase EXCEPT ![s] = "settled"]
    BY <1>2 DEF SettleScan, Turn
  <2>2. scanPhase' \in [Scans -> ScanPhase] /\ ScansQueued' /\ SlotsCounted'
    BY <1>2, <2>1, SlotKept DEF Held
  <2>3. child' = IF child[s] = "alive" THEN [child EXCEPT ![s] = "killed"] ELSE child
    BY <1>2 DEF SettleScan
  <2>4. child' \in [Scans -> Child]
    BY <1>1, <2>3 DEF Child
  <2>5. child'[s] # "alive" /\ \A t \in Scans \ {s} : child'[t] = child[t]
    BY <1>1, <2>3
  <2>6. SparedRuns'
    BY <1>1, <2>1, <2>5 DEF SparedRuns
  <2> QED  BY <1>1, <2>2, <2>3, <2>4, <2>6
<1>3. CASE scanPhase[s] # "running"
  <2>1. scanPhase' = scanPhase
    BY <1>1, <1>3 DEF SettleScan, Turn
  <2>2. child' = child
    BY <1>3 DEF SettleScan
  <2>3. scanPhase' \in [Scans -> ScanPhase] /\ ScansQueued' /\ SlotsCounted'
    BY <2>1, SlotsUntouched
  <2> QED  BY <1>1, <2>1, <2>2, <2>3 DEF SparedRuns
<1> QED  BY <1>2, <1>3

\* Every way to settle: a reply, a timeout, an abort, the error of a child never born.
LEMMA SettlingKeeps ==
  ASSUME ScansInv, NEW s \in Scans, SettleScan(s), active' = active, waiting' = waiting,
         scratch' \subseteq scratch, aborted' \subseteq Scans, down' = down
  PROVE  ScansInv'
<1>1. /\ scanPhase' \in [Scans -> ScanPhase] /\ ScansQueued' /\ SlotsCounted'
      /\ child' \in [Scans -> Child] /\ SparedRuns'
      /\ \A t \in Scans : child'[t] = child[t] \/ (child[t] = "alive" /\ child'[t] = "killed")
  BY SettleScanKeeps
<1>2. ScansTypeOK'
  BY <1>1 DEF ScansInv, ScansTypeOK
<1>3. ScratchWithChild'
  BY <1>1 DEF ScansInv, ScansTypeOK, ScratchWithChild
<1> QED  BY <1>1, <1>2, <1>3 DEF ScansInv

LEMMA EventsKeep ==
  ASSUME ScansInv, NEW s \in Scans, Message(s) \/ Timeout(s) \/ Abort(s) \/ SpawnError(s)
  PROVE  ScansInv'
<1>1. SettleScan(s) /\ active' = active /\ waiting' = waiting /\ down' = down
  BY DEF Message, Timeout, Abort, SpawnError
<1>2. scratch' \subseteq scratch /\ aborted' \subseteq Scans
  BY DEF Message, Timeout, Abort, SpawnError, ScansInv, ScansTypeOK
<1> QED  BY <1>1, <1>2, SettlingKeeps

\* The exit of a child settles its scan, if nothing has before, and takes the scratch.
LEMMA ChildExitKeeps == ASSUME ScansInv, NEW s \in Scans, ChildExit(s) PROVE ScansInv'
<1>1. /\ scanPhase \in [Scans -> ScanPhase] /\ child \in [Scans -> Child] /\ scratch \subseteq Scans
      /\ SparedRuns /\ ScratchWithChild
  BY DEF ScansInv, ScansTypeOK
<1>2. /\ child' = [child EXCEPT ![s] = "gone"] /\ scratch' = scratch \ {s}
      /\ active' = active /\ waiting' = waiting /\ aborted' = aborted /\ down' = down
  BY DEF ChildExit
<1>3. child' \in [Scans -> Child]
  BY <1>1, <1>2 DEF Child
<1>4. ScratchWithChild'
  BY <1>1, <1>2 DEF ScratchWithChild
<1>5. scanPhase' \in [Scans -> ScanPhase] /\ ScansQueued' /\ SlotsCounted' /\ SparedRuns'
  <2>1. CASE scanPhase[s] = "running"
    <3>1. scanPhase' = [scanPhase EXCEPT ![s] = "settled"]
      BY <2>1 DEF ChildExit, Turn
    <3>2. scanPhase' \in [Scans -> ScanPhase] /\ ScansQueued' /\ SlotsCounted'
      BY <1>2, <2>1, <3>1, SlotKept DEF Held
    <3>3. SparedRuns'
      BY <1>1, <1>2, <3>1 DEF SparedRuns
    <3> QED  BY <3>2, <3>3
  <2>2. CASE scanPhase[s] # "running"
    <3>1. scanPhase' = scanPhase
      BY <1>1, <2>2 DEF ChildExit, Turn
    <3>2. scanPhase' \in [Scans -> ScanPhase] /\ ScansQueued' /\ SlotsCounted'
      BY <1>2, <3>1, SlotsUntouched
    <3>3. SparedRuns'
      BY <1>1, <1>2, <3>1 DEF SparedRuns
    <3> QED  BY <3>2, <3>3
  <2> QED  BY <2>1, <2>2
<1>6. ScansTypeOK'
  BY <1>2, <1>3, <1>5 DEF ScansInv, ScansTypeOK
<1> QED  BY <1>4, <1>5, <1>6 DEF ScansInv

\* The finally clause: the slot passes on, or is free again.
LEMMA ReleaseSlotKeeps == ASSUME ScansInv, NEW s \in Scans, ReleaseSlot(s) PROVE ScansInv'
<1>1. /\ scanPhase \in [Scans -> ScanPhase] /\ waiting \in Seq(Scans) /\ active \in Nat
      /\ Len(waiting) \in Nat /\ \A n \in 1 .. Len(waiting) : waiting[n] \in Scans
  BY DEF ScansInv, ScansTypeOK
<1>2. scanPhase[s] = "settled" /\ s \in Holding /\ Holding \in SUBSET Scans
  BY DEF ReleaseSlot, Holding
<1>3. child' = child /\ scratch' = scratch /\ aborted' = aborted /\ down' = down
  BY DEF ReleaseSlot
<1>4. child[s] # "alive"
  BY <1>2 DEF ScansInv, SparedRuns
<1>5. Cardinality(Holding \ {s}) = Cardinality(Holding) - 1 /\ Cardinality(Holding) \in Nat
  BY <1>2, HoldingFinite, FS_RemoveElement
<1>6. active = Cardinality(Holding) /\ active <= Limit /\ (waiting # <<>> => active = Limit)
  BY DEF ScansInv, SlotsCounted
<1>7. CASE waiting = <<>>
  <2>1. active' = active - 1 /\ scanPhase' = [scanPhase EXCEPT ![s] = "returned"] /\ waiting' = waiting
    BY <1>7 DEF ReleaseSlot, Turn
  <2>2. scanPhase' \in [Scans -> ScanPhase]
    BY <1>1, <2>1 DEF ScanPhase
  <2>3. Holding' = Holding \ {s}
    BY <1>1, <2>1 DEF Holding
  <2>4. Cardinality(Holding') = Cardinality(Holding) - 1 /\ Cardinality(Holding') \in Nat
    BY <1>2, <1>5, <2>3, HoldingFinite
  <2>5. active' = Cardinality(Holding') /\ active' \in Nat
    BY <1>6, <2>1, <2>4
  <2>6. SlotsCounted'
    BY <1>1, <1>6, <1>7, <2>1, <2>5, ScansAssumption DEF SlotsCounted
  <2>7. ScansTypeOK'
    BY <1>1, <1>3, <2>1, <2>2, <2>5 DEF ScansInv, ScansTypeOK
  <2>8. ScansQueued'
    BY <1>7, <2>1 DEF ScansQueued
  <2>9. SparedRuns' /\ ScratchWithChild'
    BY <1>1, <1>3, <1>4, <2>1 DEF ScansInv, SparedRuns, ScratchWithChild
  <2> QED  BY <2>6, <2>7, <2>8, <2>9 DEF ScansInv
<1>8. CASE waiting # <<>>
  <2>0. PICK w : w = waiting[1]
    OBVIOUS
  <2>1. active' = active /\ scanPhase' = [scanPhase EXCEPT ![s] = "returned", ![w] = "granted"]
        /\ waiting' = Tail(waiting)
    BY <1>8, <2>0 DEF ReleaseSlot
  <2>2. /\ waiting' \in Seq(Scans) /\ Len(waiting') = Len(waiting) - 1 /\ Len(waiting) > 0
        /\ \A n \in 1 .. Len(waiting') : waiting'[n] = waiting[n + 1]
    BY <1>1, <1>8, <2>1
  <2>3. w \in Scans /\ scanPhase[w] = "waiting" /\ w # s /\ w \notin Holding /\ child[w] # "alive"
    BY <1>1, <1>2, <2>0, <2>2 DEF ScansInv, ScansQueued, Holding, SparedRuns
  <2>4. /\ scanPhase' \in [Scans -> ScanPhase] /\ scanPhase'[s] = "returned" /\ scanPhase'[w] = "granted"
        /\ \A t \in Scans \ {s, w} : scanPhase'[t] = scanPhase[t]
    BY <1>1, <2>1, <2>3 DEF ScanPhase
  <2>5. Holding' = (Holding \ {s}) \cup {w}
    BY <1>1, <2>3, <2>4 DEF Holding
  <2>6. (Holding \ {s}) \in SUBSET Scans /\ w \notin (Holding \ {s}) /\ IsFiniteSet(Holding \ {s})
    BY <1>2, <2>3, HoldingFinite
  <2>7. Cardinality(Holding') = Cardinality(Holding \ {s}) + 1
    BY <2>5, <2>6, FS_AddElement
  <2>8. SlotsCounted'
    BY <1>5, <1>6, <1>8, <2>1, <2>7 DEF SlotsCounted
  <2>9. ScansTypeOK'
    BY <1>1, <1>3, <2>1, <2>2, <2>4 DEF ScansInv, ScansTypeOK
  <2>10. ASSUME NEW n \in 1 .. Len(waiting') PROVE scanPhase'[waiting'[n]] = "waiting"
    <3>1. n + 1 \in 1 .. Len(waiting) /\ n + 1 # 1 /\ 1 \in 1 .. Len(waiting)
      BY <1>1, <2>2
    <3>2. waiting'[n] = waiting[n + 1] /\ waiting[n + 1] # w /\ waiting[n + 1] \in Scans
          /\ scanPhase[waiting[n + 1]] = "waiting"
      BY <1>1, <2>0, <2>2, <3>1 DEF ScansInv, ScansQueued
    <3>3. waiting[n + 1] # s
      BY <1>2, <3>2
    <3> QED  BY <2>4, <3>2, <3>3
  <2>11. ASSUME NEW m \in 1 .. Len(waiting'), NEW n \in 1 .. Len(waiting'), waiting'[m] = waiting'[n]
         PROVE  m = n
    <3>1. m + 1 \in 1 .. Len(waiting) /\ n + 1 \in 1 .. Len(waiting)
      BY <1>1, <2>2
    <3>2. m + 1 = n + 1
      BY <2>2, <2>11, <3>1 DEF ScansInv, ScansQueued
    <3> QED  BY <3>2
  <2>12. ScansQueued'
    BY <2>10, <2>11 DEF ScansQueued
  <2>13. SparedRuns' /\ ScratchWithChild'
    BY <1>1, <1>3, <1>4, <2>3, <2>4 DEF ScansInv, SparedRuns, ScratchWithChild
  <2> QED  BY <2>8, <2>9, <2>12, <2>13 DEF ScansInv
<1> QED  BY <1>7, <1>8

\* The server process takes its children and their scratch directories with it.
LEMMA ServerExitKeeps == ASSUME ScansInv, ServerExit PROVE ScansInv'
<1>1. /\ scanPhase' = scanPhase /\ active' = active /\ waiting' = waiting /\ aborted' = aborted
      /\ down' = TRUE /\ scratch' = scratch \ LiveChildren
      /\ child' = [s \in Scans |-> IF s \in LiveChildren THEN "gone" ELSE child[s]]
  BY DEF ServerExit
<1>2. scanPhase' \in [Scans -> ScanPhase] /\ ScansQueued' /\ SlotsCounted'
  BY <1>1, SlotsUntouched
<1>3. child' \in [Scans -> Child]
  BY <1>1 DEF ScansInv, ScansTypeOK, Child
<1>4. ScansTypeOK'
  BY <1>1, <1>2, <1>3 DEF ScansInv, ScansTypeOK
<1>5. SparedRuns'
  BY <1>1 DEF ScansInv, SparedRuns
<1>6. ScratchWithChild'
  BY <1>1 DEF ScansInv, ScansTypeOK, ScratchWithChild, LiveChildren
<1> QED  BY <1>2, <1>4, <1>5, <1>6 DEF ScansInv

\* Every event of the parent's loop preserves the invariant.
LEMMA NextScansInv == ScansInv /\ [ScansNext]_scanVars => ScansInv'
<1> SUFFICES ASSUME ScansInv, [ScansNext]_scanVars PROVE ScansInv'
  OBVIOUS
<1>1. CASE UNCHANGED scanVars
  <2>1. /\ scanPhase' = scanPhase /\ active' = active /\ waiting' = waiting /\ child' = child
        /\ scratch' = scratch /\ aborted' = aborted /\ down' = down
    BY <1>1 DEF scanVars
  <2>2. ScansQueued' /\ SlotsCounted'
    BY <2>1, SlotsUntouched
  <2>3. ScansTypeOK' /\ SparedRuns' /\ ScratchWithChild'
    BY <2>1 DEF ScansInv, ScansTypeOK, SparedRuns, ScratchWithChild
  <2> QED  BY <2>2, <2>3 DEF ScansInv
<1>2. ASSUME NEW s \in Scans, ScanEvent(s) \/ Abort(s) PROVE ScansInv'
  BY <1>2, TakeSlotKeeps, StartScanKeeps, EventsKeep, ChildExitKeeps, ReleaseSlotKeeps DEF ScanEvent
<1> QED  BY <1>1, <1>2, ServerExitKeeps DEF ScansNext

\* The children that are spared run, and those hold a slot.
LEMMA ScansInvSafe == ASSUME ScansInv PROVE ScansSafe
<1>1. {s \in Scans : child[s] = "alive"} \subseteq Holding /\ Holding \in SUBSET Scans
  BY DEF ScansInv, SparedRuns, Holding
<1>2. Cardinality({s \in Scans : child[s] = "alive"}) <= Cardinality(Holding)
  BY <1>1, HoldingFinite, FS_Subset
<1>3. Cardinality({s \in Scans : child[s] = "alive"}) \in Nat /\ Cardinality(Holding) \in Nat
  BY <1>1, HoldingFinite
<1>4. ChildrenWithinLimit
  BY <1>2, <1>3, ScansAssumption DEF ScansInv, SlotsCounted, ChildrenWithinLimit
<1> QED  BY <1>4 DEF ScansInv, ScansSafe

\* Only StartScan makes a child where there was none, and it looks at the signal.
LEMMA CancelledStaysOut == ASSUME ScansInv, [ScansNext]_scanVars PROVE CancelledNeverStarts
<1> SUFFICES ASSUME NEW t \in Scans, t \in aborted, child[t] = "none" PROVE child'[t] = "none"
  BY DEF CancelledNeverStarts
<1>0. child \in [Scans -> Child]
  BY DEF ScansInv, ScansTypeOK
<1>1. ASSUME NEW s \in Scans, SettleScan(s) PROVE child'[t] = "none"
  <2>1. child' = child \/ (child[s] = "alive" /\ child' = [child EXCEPT ![s] = "killed"])
    BY <1>1 DEF SettleScan
  <2> QED  BY <1>0, <2>1
<1>2. ASSUME NEW s \in Scans, StartScan(s) PROVE child'[t] = "none"
  BY <1>0, <1>2 DEF StartScan
<1>3. ASSUME NEW s \in Scans, ChildExit(s) PROVE child'[t] = "none"
  BY <1>0, <1>3 DEF ChildExit
<1>4. ASSUME NEW s \in Scans, ScanEvent(s) \/ Abort(s) PROVE child'[t] = "none"
  BY <1>1, <1>2, <1>3, <1>4
     DEF ScanEvent, TakeSlot, ReleaseSlot, Message, Timeout, SpawnError, Abort
<1>5. ASSUME ServerExit PROVE child'[t] = "none"
  BY <1>0, <1>5 DEF ServerExit, LiveChildren
<1> QED  BY <1>4, <1>5 DEF ScansNext, scanVars

\* For any number of scans and any limit: no slot is lost or given twice, the children stay
\* within the limit, a cancelled scan never starts and no scratch outlives its child.
THEOREM ScansAlwaysKept == ScansSpec => ScansKept
<1>1. ScansInv /\ [ScansNext]_scanVars => ScanStep
  BY NextScansInv, ScansInvSafe, CancelledStaysOut, PTL DEF ScanStep
<1>2. ScansSpec => []ScansInv
  BY InitScansInv, NextScansInv, PTL DEF ScansSpec
<1>3. ScansInv /\ [ScansNext]_scanVars => [ScanStep]_scanVars
  BY <1>1
<1>4. []ScansInv /\ [][ScansNext]_scanVars => [][ScanStep]_scanVars
  BY <1>3, PTL
<1> QED  BY <1>2, <1>4, PTL DEF ScansSpec, ScansKept

-----------------------------------------------------------------------------
(* The worker that answers questions, for any tickets, snapshots and caps. *)

TicketRecord == [state : {"none", "admitted", "running", "answered", "done"},
                 keys : Seq(Keys \cup {NoKey}), cold : SUBSET Keys, joined : SUBSET Keys]

Posted == [type : {"building", "built", "reply"}, id : Tickets, key : Keys \cup {NoKey},
           failed : SUBSET Keys, cached : SUBSET Keys]

\* The messages O are for the jobs of J in order: pos[i] is the place of the job the i-th message
\* is for, the next job's turn comes with the message after a reply, and the last place is
\* that of the first request I the worker has not answered.
Places(pos, O, J, I) ==
  /\ pos \in [1 .. Len(O) + 1 -> Nat \ {0}]
  /\ pos[1] = 1
  /\ \A i \in 1 .. Len(O) :
       /\ pos[i] \in 1 .. Len(J) /\ O[i].id = J[pos[i]]
       /\ pos[i + 1] = pos[i] + (IF O[i].type = "reply" THEN 1 ELSE 0)
  /\ \A i, k \in 1 .. Len(O) + 1 : i <= k => pos[i] <= pos[k]
  /\ Len(J) + 1 = pos[Len(O) + 1] + Len(I)
  /\ \A n \in 1 .. Len(I) : I[n] = J[pos[Len(O) + 1] + n - 1]

InOrder(O, J, I) == \E pos \in [1 .. Len(O) + 1 -> Nat \ {0}] : Places(pos, O, J, I)

JobsRun ==
  /\ \A n \in 1 .. Len(askJobs) : ticket[askJobs[n]].state = "running"
  /\ \A m, n \in 1 .. Len(askJobs) : askJobs[m] = askJobs[n] => m = n

\* While the worker is idle the last thing it told, or the mirror, is what its cache holds.
CacheTold ==
  at = 0 => IF outbox = <<>> THEN warm = ToSet(cache)
            ELSE outbox[Len(outbox)].type = "reply" /\ outbox[Len(outbox)].cached = ToSet(cache)

\* What is being built, the request in work was admitted for.
BuildInHand ==
  inBuild # NoKey =>
    inbox # <<>> /\ at > 0 /\ inBuild \in ticket[inbox[1]].cold \cup ticket[inbox[1]].joined

\* The three groups of the invariant: the tickets, the queues between the threads, the worker.
TicketsOK ==
  /\ ticket \in [Tickets -> TicketRecord] /\ askJobs \in Seq(Tickets)
  /\ JobsRun /\ PendingBounded /\ IsFiniteSet(Building) /\ ColdBuildsBounded
QueuesOK ==
  /\ outbox \in Seq(Posted) /\ inbox \in Seq(Tickets)
  /\ InOrder(outbox, askJobs, inbox)
WorkerOK ==
  /\ blamable \in Keys \cup {NoKey} /\ warm \subseteq Keys /\ failed \subseteq Keys
  /\ broken \subseteq Keys /\ failures \subseteq Keys /\ up \in BOOLEAN
  /\ cache \in Seq(Keys) /\ at \in Nat /\ inBuild \in Keys \cup {NoKey}
  /\ CacheTold /\ IndexesBounded /\ BuildInHand

AskInv == TicketsOK /\ QueuesOK /\ WorkerOK

-----------------------------------------------------------------------------
(* The order of the messages.                                              *)

\* A new job joins both queues at the end.
LEMMA OrderRun ==
  ASSUME NEW O \in Seq(Posted), NEW J \in Seq(Tickets), NEW I \in Seq(Tickets), NEW t \in Tickets,
         InOrder(O, J, I)
  PROVE  InOrder(O, Append(J, t), Append(I, t))
<1>1. PICK pos \in [1 .. Len(O) + 1 -> Nat \ {0}] : Places(pos, O, J, I)
  BY DEF InOrder
<1>2. Len(O) \in Nat /\ Len(J) \in Nat /\ Len(I) \in Nat
  BY LenProperties
<1>3. /\ Len(Append(J, t)) = Len(J) + 1 /\ Append(J, t)[Len(J) + 1] = t
      /\ \A n \in 1 .. Len(J) : Append(J, t)[n] = J[n]
  BY AppendProperties
<1>4. /\ Len(Append(I, t)) = Len(I) + 1 /\ Append(I, t)[Len(I) + 1] = t
      /\ \A n \in 1 .. Len(I) : Append(I, t)[n] = I[n]
  BY AppendProperties
<1>5. PICK last : last = pos[Len(O) + 1]
  OBVIOUS
<1>6. last \in Nat \ {0} /\ Len(J) + 1 = last + Len(I) /\ \A n \in 1 .. Len(I) : I[n] = J[last + n - 1]
  BY <1>1, <1>2, <1>5 DEF Places
<1>7. ASSUME NEW n \in 1 .. Len(I) + 1 PROVE Append(I, t)[n] = Append(J, t)[last + n - 1]
  <2>1. CASE n \in 1 .. Len(I)
    <3>1. last + n - 1 \in 1 .. Len(J)
      BY <1>2, <1>6, <2>1
    <3> QED  BY <1>3, <1>4, <1>6, <2>1, <3>1
  <2>2. CASE n = Len(I) + 1
    <3>1. last + n - 1 = Len(J) + 1
      BY <1>2, <1>6, <2>2
    <3> QED  BY <1>3, <1>4, <2>2, <3>1
  <2>3. n \in 1 .. Len(I) \/ n = Len(I) + 1
    BY <1>2
  <2> QED  BY <2>1, <2>2, <2>3
<1>8. ASSUME NEW i \in 1 .. Len(O)
      PROVE  /\ pos[i] \in 1 .. Len(J) + 1 /\ O[i].id = Append(J, t)[pos[i]]
             /\ pos[i + 1] = pos[i] + (IF O[i].type = "reply" THEN 1 ELSE 0)
  <2>1. pos[i] \in 1 .. Len(J) /\ O[i].id = J[pos[i]]
        /\ pos[i + 1] = pos[i] + (IF O[i].type = "reply" THEN 1 ELSE 0)
    BY <1>1 DEF Places
  <2> QED  BY <1>2, <1>3, <2>1
<1>9. pos[1] = 1 /\ \A i, k \in 1 .. Len(O) + 1 : i <= k => pos[i] <= pos[k]
  BY <1>1 DEF Places
<1>10. Len(Append(J, t)) + 1 = last + Len(Append(I, t))
  <2>1. Len(Append(J, t)) = Len(J) + 1 /\ Len(Append(I, t)) = Len(I) + 1
    BY <1>3, <1>4
  <2>2. (Len(J) + 1) + 1 = last + (Len(I) + 1)
    BY <1>2, <1>6
  <2> QED  BY <2>1, <2>2
<1>11. Places(pos, O, Append(J, t), Append(I, t))
  BY <1>1, <1>3, <1>4, <1>5, <1>7, <1>8, <1>9, <1>10 DEF Places
<1> QED  BY <1>1, <1>11 DEF InOrder

\* A message for the request in work goes to the end of the order; with a reply the next
\* request is the worker's first.
LEMMA OrderPost ==
  ASSUME NEW O \in Seq(Posted), NEW J \in Seq(Tickets), NEW I \in Seq(Tickets), NEW m \in Posted,
         InOrder(O, J, I), I # <<>>, m.id = I[1]
  PROVE  /\ m.type # "reply" => InOrder(Append(O, m), J, I)
         /\ m.type = "reply" => InOrder(Append(O, m), J, Tail(I))
<1>1. PICK pos \in [1 .. Len(O) + 1 -> Nat \ {0}] : Places(pos, O, J, I)
  BY DEF InOrder
<1>2. Len(O) \in Nat /\ Len(J) \in Nat /\ Len(I) \in Nat
  BY LenProperties
<1>3. PICK last : last = pos[Len(O) + 1]
  OBVIOUS
<1>4. last \in Nat \ {0} /\ Len(J) + 1 = last + Len(I) /\ \A n \in 1 .. Len(I) : I[n] = J[last + n - 1]
  BY <1>1, <1>2, <1>3 DEF Places
<1>5. Len(I) > 0
  BY <1>2, EmptySeq
<1>6. I[1] = J[last] /\ last \in 1 .. Len(J)
  <2>1. 1 \in 1 .. Len(I) /\ last + 1 - 1 = last /\ last \in 1 .. Len(J)
    BY <1>2, <1>4, <1>5
  <2>2. I[1] = J[last + 1 - 1]
    BY <1>4, <2>1
  <2> QED  BY <2>1, <2>2
<1>7. /\ Len(Append(O, m)) = Len(O) + 1 /\ Append(O, m)[Len(O) + 1] = m
      /\ \A n \in 1 .. Len(O) : Append(O, m)[n] = O[n]
  BY AppendProperties
<1>8. PICK next : next = last + (IF m.type = "reply" THEN 1 ELSE 0)
  OBVIOUS
<1>9. next \in Nat \ {0} /\ last <= next /\ (m.type = "reply" => next = last + 1)
      /\ (m.type # "reply" => next = last)
  BY <1>4, <1>8
<1>10. PICK new : new = [i \in 1 .. Len(O) + 2 |-> IF i = Len(O) + 2 THEN next ELSE pos[i]]
  OBVIOUS
<1>11. /\ new \in [1 .. Len(Append(O, m)) + 1 -> Nat \ {0}] /\ new[Len(O) + 2] = next
       /\ \A i \in 1 .. Len(O) + 1 : new[i] = pos[i]
  <2>1. \A i \in 1 .. Len(O) + 2 : i = Len(O) + 2 \/ i \in 1 .. Len(O) + 1
    BY <1>2
  <2>2. \A i \in 1 .. Len(O) + 1 : i \in 1 .. Len(O) + 2 /\ i # Len(O) + 2
    BY <1>2
  <2>3. Len(Append(O, m)) + 1 = Len(O) + 2 /\ Len(O) + 2 \in 1 .. Len(O) + 2
    BY <1>2, <1>7
  <2> QED  BY <1>9, <1>10, <2>1, <2>2, <2>3
<1>12. new[1] = 1
  BY <1>1, <1>2, <1>11 DEF Places
<1>13. ASSUME NEW i \in 1 .. Len(Append(O, m))
       PROVE  /\ new[i] \in 1 .. Len(J) /\ Append(O, m)[i].id = J[new[i]]
              /\ new[i + 1] = new[i] + (IF Append(O, m)[i].type = "reply" THEN 1 ELSE 0)
  <2>1. CASE i \in 1 .. Len(O)
    <3>1. pos[i] \in 1 .. Len(J) /\ O[i].id = J[pos[i]]
          /\ pos[i + 1] = pos[i] + (IF O[i].type = "reply" THEN 1 ELSE 0)
      BY <1>1, <2>1 DEF Places
    <3>2. new[i] = pos[i] /\ new[i + 1] = pos[i + 1] /\ Append(O, m)[i] = O[i]
      BY <1>2, <1>7, <1>11, <2>1
    <3> QED  BY <3>1, <3>2
  <2>2. CASE i = Len(O) + 1
    <3>1. new[i] = last /\ new[i + 1] = next /\ Append(O, m)[i] = m
      <4>1. i \in 1 .. Len(O) + 1 /\ i + 1 = Len(O) + 2
        BY <1>2, <2>2
      <4> QED  BY <1>3, <1>7, <1>11, <2>2, <4>1
    <3> QED  BY <1>6, <1>8, <3>1
  <2> QED  BY <1>2, <1>7, <2>1, <2>2
<1>14. ASSUME NEW i \in 1 .. Len(Append(O, m)) + 1, NEW k \in 1 .. Len(Append(O, m)) + 1, i <= k
       PROVE  new[i] <= new[k]
  <2>1. \A a, b \in 1 .. Len(O) + 1 : a <= b => pos[a] <= pos[b]
    BY <1>1 DEF Places
  <2>2. CASE k \in 1 .. Len(O) + 1
    <3>1. i \in 1 .. Len(O) + 1
      BY <1>2, <1>7, <1>14, <2>2
    <3> QED  BY <1>11, <1>14, <2>1, <2>2, <3>1
  <2>3. CASE k = Len(O) + 2
    <3>1. CASE i = Len(O) + 2
      BY <1>9, <1>11, <2>3, <3>1
    <3>2. CASE i \in 1 .. Len(O) + 1
      <4>1. Len(O) + 1 \in 1 .. Len(O) + 1 /\ i <= Len(O) + 1
        BY <1>2, <3>2
      <4>2. pos[i] <= last
        BY <1>3, <2>1, <3>2, <4>1
      <4>3. new[i] = pos[i] /\ pos[i] \in Nat
        BY <1>1, <1>11, <3>2
      <4> QED  BY <1>4, <1>9, <1>11, <2>3, <4>2, <4>3
    <3> QED  BY <1>2, <1>7, <3>1, <3>2
  <2> QED  BY <1>2, <1>7, <2>2, <2>3
<1>15. new[Len(Append(O, m)) + 1] = next
  BY <1>2, <1>7, <1>11
<1>16. ASSUME m.type # "reply" PROVE Places(new, Append(O, m), J, I)
  <2>1. next = last
    BY <1>9, <1>16
  <2> QED  BY <1>4, <1>11, <1>12, <1>13, <1>14, <1>15, <2>1 DEF Places
<1>17. ASSUME m.type = "reply" PROVE Places(new, Append(O, m), J, Tail(I))
  <2>1. next = last + 1
    BY <1>9, <1>17
  <2>2. Len(Tail(I)) = Len(I) - 1 /\ \A n \in 1 .. Len(Tail(I)) : Tail(I)[n] = I[n + 1]
    BY HeadTailProperties
  <2>3. Len(J) + 1 = next + Len(Tail(I))
    <3>1. Len(J) + 1 = (last + 1) + (Len(I) - 1)
      <4>1. Len(J) \in Nat /\ Len(I) \in Nat /\ last \in Nat /\ Len(J) + 1 = last + Len(I)
        BY <1>2, <1>4
      <4> QED  BY <4>1
    <3>2. Len(Tail(I)) = Len(I) - 1
      BY <2>2
    <3> QED  BY <2>1, <3>1, <3>2
  <2>4. ASSUME NEW n \in 1 .. Len(Tail(I)) PROVE Tail(I)[n] = J[next + n - 1]
    <3>1. n + 1 \in 1 .. Len(I) /\ last + (n + 1) - 1 = next + n - 1
      BY <1>2, <1>4, <2>1, <2>2
    <3>2. I[n + 1] = J[last + (n + 1) - 1]
      BY <1>4, <3>1
    <3> QED  BY <2>2, <3>1, <3>2
  <2> QED  BY <1>11, <1>12, <1>13, <1>14, <1>15, <2>3, <2>4 DEF Places
<1> QED  BY <1>11, <1>16, <1>17 DEF InOrder

\* The first message is for the head of the queue.
LEMMA OrderHead ==
  ASSUME NEW O \in Seq(Posted), NEW J \in Seq(Tickets), NEW I \in Seq(Tickets),
         InOrder(O, J, I), O # <<>>
  PROVE  J # <<>> /\ O[1].id = J[1]
<1>1. PICK pos \in [1 .. Len(O) + 1 -> Nat \ {0}] : Places(pos, O, J, I)
  BY DEF InOrder
<1>2. Len(O) \in Nat /\ Len(J) \in Nat /\ Len(O) > 0 /\ 1 \in 1 .. Len(O)
  BY LenProperties, EmptySeq
<1>3. pos[1] = 1 /\ pos[1] \in 1 .. Len(J) /\ O[1].id = J[pos[1]]
  BY <1>1, <1>2 DEF Places
<1> QED  BY <1>2, <1>3

\* The first request the worker has not answered is a job, and not the head while a
\* reply is on its way.
LEMMA OrderFirst ==
  ASSUME NEW O \in Seq(Posted), NEW J \in Seq(Tickets), NEW I \in Seq(Tickets),
         InOrder(O, J, I), I # <<>>
  PROVE  \E n \in 1 .. Len(J) : I[1] = J[n] /\ (O # <<>> /\ O[1].type = "reply" => n # 1)
<1>1. PICK pos \in [1 .. Len(O) + 1 -> Nat \ {0}] : Places(pos, O, J, I)
  BY DEF InOrder
<1>2. Len(O) \in Nat /\ Len(J) \in Nat /\ Len(I) \in Nat /\ Len(I) > 0 /\ 1 \in 1 .. Len(I)
  BY LenProperties, EmptySeq
<1>3. PICK last : last = pos[Len(O) + 1]
  OBVIOUS
<1>4. last \in Nat \ {0} /\ Len(J) + 1 = last + Len(I) /\ \A n \in 1 .. Len(I) : I[n] = J[last + n - 1]
  BY <1>1, <1>2, <1>3 DEF Places
<1>5. I[1] = J[last + 1 - 1] /\ last + 1 - 1 = last /\ last \in 1 .. Len(J)
  BY <1>2, <1>4
<1>6. ASSUME O # <<>>, O[1].type = "reply" PROVE last # 1
  <2>1. Len(O) > 0 /\ 1 \in 1 .. Len(O) /\ 2 \in 1 .. Len(O) + 1 /\ Len(O) + 1 \in 1 .. Len(O) + 1
    BY <1>2, <1>6, EmptySeq
  <2>2. pos[1] = 1 /\ pos[1 + 1] = pos[1] + 1
    BY <1>1, <1>6, <2>1 DEF Places
  <2>3. 2 <= Len(O) + 1
    BY <1>2, <2>1
  <2>4. pos[2] <= last
    BY <1>1, <1>3, <2>1, <2>3 DEF Places
  <2> QED  BY <2>2, <2>4
<1> QED  BY <1>5, <1>6

\* The first message is delivered; a reply takes the head of the queue with it.
LEMMA OrderDeliver ==
  ASSUME NEW O \in Seq(Posted), NEW J \in Seq(Tickets), NEW I \in Seq(Tickets),
         InOrder(O, J, I), O # <<>>
  PROVE  /\ O[1].type # "reply" => InOrder(Tail(O), J, I)
         /\ O[1].type = "reply" => InOrder(Tail(O), Tail(J), I)
<1>1. PICK pos \in [1 .. Len(O) + 1 -> Nat \ {0}] : Places(pos, O, J, I)
  BY DEF InOrder
<1>2. /\ Len(O) \in Nat /\ Len(J) \in Nat /\ Len(I) \in Nat /\ Len(O) > 0
      /\ 1 \in 1 .. Len(O) /\ 2 \in 1 .. Len(O) + 1
  BY LenProperties, EmptySeq
<1>3. J # <<>>
  BY OrderHead
<1>4. /\ Tail(O) \in Seq(Posted) /\ Len(Tail(O)) = Len(O) - 1
      /\ \A n \in 1 .. Len(Tail(O)) : Tail(O)[n] = O[n + 1]
  BY HeadTailProperties
<1>5. /\ Len(Tail(J)) = Len(J) - 1
      /\ \A n \in 1 .. Len(Tail(J)) : Tail(J)[n] = J[n + 1]
  BY <1>3, HeadTailProperties
<1>6. PICK back : back = IF O[1].type = "reply" THEN 1 ELSE 0
  OBVIOUS
<1>7. back \in {0, 1} /\ (O[1].type = "reply" => back = 1) /\ (O[1].type # "reply" => back = 0)
  BY <1>6
<1>8. pos[2] = 1 + back
  <2>1. pos[1] = 1 /\ pos[1 + 1] = pos[1] + back
    BY <1>1, <1>2, <1>6 DEF Places
  <2> QED  BY <2>1
<1>9. PICK new : new = [i \in 1 .. Len(O) |-> pos[i + 1] - back]
  OBVIOUS
<1>10. ASSUME NEW i \in 1 .. Len(O)
       PROVE  i + 1 \in 1 .. Len(O) + 1 /\ pos[i + 1] \in Nat /\ new[i] = pos[i + 1] - back
              /\ new[i] \in Nat \ {0}
  <2>1. i + 1 \in 1 .. Len(O) + 1 /\ 2 <= i + 1
    BY <1>2
  <2>2. pos[2] <= pos[i + 1] /\ pos[i + 1] \in Nat
    BY <1>1, <1>2, <2>1 DEF Places
  <2>3. new[i] = pos[i + 1] - back
    BY <1>9
  <2> QED  BY <1>7, <1>8, <2>1, <2>2, <2>3
<1>11. new \in [1 .. Len(Tail(O)) + 1 -> Nat \ {0}] /\ new[1] = 1
  <2>1. Len(Tail(O)) + 1 = Len(O)
    BY <1>2, <1>4
  <2>2. new[1] = pos[1 + 1] - back
    BY <1>2, <1>10
  <2>3. new[1] = 1
    BY <1>7, <1>8, <2>2
  <2>4. new \in [1 .. Len(O) -> Nat \ {0}]
    <3>1. \A i \in 1 .. Len(O) : pos[i + 1] - back \in Nat \ {0}
      BY <1>10
    <3> QED  BY <1>9, <3>1
  <2> QED  BY <2>1, <2>3, <2>4
<1>12. new[Len(Tail(O)) + 1] = pos[Len(O) + 1] - back
  <2>1. Len(Tail(O)) + 1 = Len(O) /\ Len(O) \in 1 .. Len(O)
    BY <1>2, <1>4
  <2> QED  BY <1>10, <2>1
<1>13. ASSUME NEW i \in 1 .. Len(Tail(O)) + 1, NEW k \in 1 .. Len(Tail(O)) + 1, i <= k
       PROVE  new[i] <= new[k]
  <2>1. i \in 1 .. Len(O) /\ k \in 1 .. Len(O) /\ i + 1 <= k + 1
    BY <1>2, <1>4, <1>13
  <2>2. i + 1 \in 1 .. Len(O) + 1 /\ k + 1 \in 1 .. Len(O) + 1
        /\ pos[i + 1] \in Nat /\ pos[k + 1] \in Nat
        /\ new[i] = pos[i + 1] - back /\ new[k] = pos[k + 1] - back
    BY <1>10, <2>1
  <2>3. pos[i + 1] <= pos[k + 1]
    BY <1>1, <2>1, <2>2 DEF Places
  <2> QED  BY <1>7, <2>2, <2>3
<1>14. ASSUME NEW i \in 1 .. Len(Tail(O))
       PROVE  /\ i + 1 \in 1 .. Len(O) /\ Tail(O)[i] = O[i + 1]
              /\ pos[i + 1] \in 1 .. Len(J) /\ O[i + 1].id = J[pos[i + 1]]
              /\ new[i] = pos[i + 1] - back /\ new[i] \in Nat \ {0}
              /\ new[i + 1] = new[i] + (IF Tail(O)[i].type = "reply" THEN 1 ELSE 0)
  <2>1. i + 1 \in 1 .. Len(O) /\ i \in 1 .. Len(O)
    BY <1>2, <1>4
  <2>2. Tail(O)[i] = O[i + 1]
    BY <1>4
  <2>3. /\ pos[i + 1] \in 1 .. Len(J) /\ O[i + 1].id = J[pos[i + 1]]
        /\ pos[(i + 1) + 1] = pos[i + 1] + (IF O[i + 1].type = "reply" THEN 1 ELSE 0)
    BY <1>1, <2>1 DEF Places
  <2>4. new[i] = pos[i + 1] - back /\ new[i + 1] = pos[(i + 1) + 1] - back /\ new[i] \in Nat \ {0}
    BY <1>10, <2>1
  <2>5. new[i + 1] = new[i] + (IF Tail(O)[i].type = "reply" THEN 1 ELSE 0)
    <3>1. CASE O[i + 1].type = "reply"
      <4>1. pos[(i + 1) + 1] = pos[i + 1] + 1
        BY <2>3, <3>1
      <4> QED  BY <1>2, <1>7, <2>2, <2>3, <2>4, <3>1, <4>1
    <3>2. CASE O[i + 1].type # "reply"
      <4>1. pos[(i + 1) + 1] = pos[i + 1] + 0
        BY <2>3, <3>2
      <4> QED  BY <1>2, <1>7, <2>2, <2>3, <2>4, <3>2, <4>1
    <3> QED  BY <3>1, <3>2
  <2> QED  BY <2>1, <2>2, <2>3, <2>4, <2>5
<1>15. PICK last : last = pos[Len(O) + 1]
  OBVIOUS
<1>16. last \in Nat \ {0} /\ Len(J) + 1 = last + Len(I) /\ \A n \in 1 .. Len(I) : I[n] = J[last + n - 1]
  <2>1. /\ Len(J) + 1 = pos[Len(O) + 1] + Len(I)
        /\ \A n \in 1 .. Len(I) : I[n] = J[pos[Len(O) + 1] + n - 1]
    BY <1>1 DEF Places
  <2>2. Len(O) + 1 \in 1 .. Len(O) + 1
    BY <1>2
  <2>3. last \in Nat \ {0}
    BY <1>1, <1>15, <2>2
  <2> QED  BY <1>15, <2>1, <2>3
<1>17. ASSUME O[1].type # "reply" PROVE Places(new, Tail(O), J, I)
  <2>1. back = 0 /\ new[Len(Tail(O)) + 1] = last
    BY <1>7, <1>12, <1>15, <1>16, <1>17
  <2>2. ASSUME NEW i \in 1 .. Len(Tail(O))
        PROVE  new[i] \in 1 .. Len(J) /\ Tail(O)[i].id = J[new[i]]
    <3>1. new[i] = pos[i + 1]
      BY <1>2, <1>14, <2>1
    <3> QED  BY <1>14, <3>1
  <2> QED  BY <1>11, <1>13, <1>14, <1>16, <2>1, <2>2 DEF Places
<1>18. ASSUME O[1].type = "reply" PROVE Places(new, Tail(O), Tail(J), I)
  <2>1. back = 1 /\ new[Len(Tail(O)) + 1] = last - 1
    BY <1>7, <1>12, <1>15, <1>18
  <2>2. ASSUME NEW i \in 1 .. Len(Tail(O))
        PROVE  new[i] \in 1 .. Len(Tail(J)) /\ Tail(O)[i].id = Tail(J)[new[i]]
    <3>1. new[i] + 1 = pos[i + 1] /\ new[i] \in 1 .. Len(Tail(J))
      BY <1>2, <1>5, <1>14, <2>1
    <3>2. Tail(J)[new[i]] = J[new[i] + 1]
      BY <1>5, <3>1
    <3> QED  BY <1>14, <3>1, <3>2
  <2>3. Len(Tail(J)) + 1 = (last - 1) + Len(I)
    <3>1. (Len(J) - 1) + 1 = (last - 1) + Len(I)
      BY <1>2, <1>16
    <3>2. Len(Tail(J)) = Len(J) - 1
      BY <1>5
    <3> QED  BY <3>1, <3>2
  <2>4. last - 1 \in Nat \ {0}
    <3>1. Len(Tail(O)) + 1 \in 1 .. Len(Tail(O)) + 1
      BY <1>2, <1>4
    <3> QED  BY <1>11, <2>1, <3>1
  <2>5. ASSUME NEW n \in 1 .. Len(I) PROVE I[n] = Tail(J)[(last - 1) + n - 1]
    <3>1. (last - 1) + n - 1 \in 1 .. Len(Tail(J)) /\ ((last - 1) + n - 1) + 1 = last + n - 1
      <4>1. Tail(J) \in Seq(Tickets)
        BY <1>3, HeadTailProperties
      <4>2. PICK l, j : l = Len(I) /\ j = Len(Tail(J))
        OBVIOUS
      <4>3. l \in Nat /\ j \in Nat /\ j + 1 = (last - 1) + l /\ n \in 1 .. l
        BY <1>2, <2>3, <4>1, <4>2, LenProperties
      <4>4. (last - 1) + n - 1 \in 1 .. j /\ ((last - 1) + n - 1) + 1 = last + n - 1
        BY <1>16, <2>4, <4>3
      <4> QED  BY <4>2, <4>4
    <3>2. Tail(J)[(last - 1) + n - 1] = J[((last - 1) + n - 1) + 1]
      BY <1>5, <3>1
    <3> QED  BY <1>16, <3>1, <3>2
  <2> QED  BY <1>11, <1>13, <1>14, <2>1, <2>2, <2>3, <2>5 DEF Places
<1> QED
  <2>1. new \in [1 .. Len(Tail(O)) + 1 -> Nat \ {0}]
    BY <1>11
  <2> QED  BY <1>17, <1>18, <2>1 DEF InOrder


-----------------------------------------------------------------------------
(* The tickets.                                                            *)

\* Sets of tickets are finite.
LEMMA TicketsFinite ==
  ASSUME NEW A \in SUBSET Tickets
  PROVE  IsFiniteSet(A) /\ Cardinality(A) \in Nat
BY FS_Subset, FS_CardinalityType, AskAssumption

\* A ticket that goes to another state keeps its keys.
LEMMA IntoFacts ==
  ASSUME ticket \in [Tickets -> TicketRecord], NEW t \in Tickets,
         NEW s \in {"none", "admitted", "running", "answered", "done"}, ticket' = Into(t, s)
  PROVE  /\ ticket' \in [Tickets -> TicketRecord] /\ ticket'[t].state = s
         /\ \A u \in Tickets : ticket'[u].cold = ticket[u].cold /\ ticket'[u].joined = ticket[u].joined
         /\ \A u \in Tickets : u # t => ticket'[u] = ticket[u]
<1>1. ticket' = [ticket EXCEPT ![t].state = s]
  BY DEF Into
<1>2. ticket[t] \in TicketRecord
  OBVIOUS
<1>3. [ticket[t] EXCEPT !.state = s] \in TicketRecord
  BY <1>2 DEF TicketRecord
<1>4. ticket' = [ticket EXCEPT ![t] = [ticket[t] EXCEPT !.state = s]]
  BY <1>1
<1>5. ticket' \in [Tickets -> TicketRecord]
  BY <1>3, <1>4
<1>6. /\ [ticket[t] EXCEPT !.state = s].cold = ticket[t].cold
      /\ [ticket[t] EXCEPT !.state = s].joined = ticket[t].joined
      /\ [ticket[t] EXCEPT !.state = s].state = s
  BY <1>2 DEF TicketRecord
<1> QED  BY <1>4, <1>5, <1>6

\* Keys leave the map of builds, and none joins it, while no ticket is admitted.
LEMMA BuildingShrinks ==
  ASSUME IsFiniteSet(Building), ColdBuildsBounded,
         \A u \in Tickets : ticket'[u].cold = ticket[u].cold /\ ticket'[u].joined = ticket[u].joined,
         \A u \in Tickets : ticket'[u].state \notin {"none", "done"} => ticket[u].state \notin {"none", "done"}
  PROVE  IsFiniteSet(Building') /\ ColdBuildsBounded'
<1>1. Building' \subseteq Building
  BY DEF Building, TicketsIn
<1>2. IsFiniteSet(Building') /\ Cardinality(Building') <= Cardinality(Building)
      /\ Cardinality(Building) \in Nat /\ Cardinality(Building') \in Nat
  BY <1>1, FS_Subset, FS_CardinalityType
<1>3. PICK list \in CandidateLists : Cardinality(Building) <= MaxColdBuilds - 1 + Len(list)
  BY DEF ColdBuildsBounded
<1>4. MaxColdBuilds - 1 + Len(list) \in Nat
  BY AskAssumption
<1>5. Cardinality(Building') <= MaxColdBuilds - 1 + Len(list)
  BY <1>2, <1>3, <1>4
<1> QED  BY <1>2, <1>5 DEF ColdBuildsBounded

\* A request for a list of candidates looks for no more keys than the list is long.
LEMMA ListKeys ==
  ASSUME NEW list \in Seq(Keys), NEW A \in SUBSET ToSet(list)
  PROVE  IsFiniteSet(A) /\ Cardinality(A) <= Len(list) /\ ToSet(list) \subseteq Keys
<1>1. Len(list) \in Nat /\ list \in [1 .. Len(list) -> Keys] /\ DOMAIN list = 1 .. Len(list)
  BY LenProperties
<1>2. list \in Surjection(1 .. Len(list), ToSet(list))
  BY <1>1 DEF Surjection, ToSet
<1>3. ExistsSurjection(1 .. Len(list), ToSet(list))
  BY <1>2 DEF ExistsSurjection
<1>4. IsFiniteSet(ToSet(list)) /\ Cardinality(ToSet(list)) <= Len(list)
  BY <1>1, <1>3, FS_NatSurjection, FS_SurjCardinalityBound
<1>5. IsFiniteSet(A) /\ Cardinality(A) <= Cardinality(ToSet(list))
      /\ Cardinality(A) \in Nat /\ Cardinality(ToSet(list)) \in Nat
  BY <1>4, FS_Subset, FS_CardinalityType
<1> QED  BY <1>1, <1>4, <1>5 DEF ToSet

\* Admission takes a place and, for cold keys, a build that the cap still has room for.
LEMMA AdmitTickets ==
  ASSUME TicketsOK, NEW t \in Tickets, NEW list \in CandidateLists, Admit(t, list)
  PROVE  /\ TicketsOK' /\ \A n \in 1 .. Len(askJobs) : ticket'[askJobs[n]] = ticket[askJobs[n]]
<1> DEFINE missing == ToSet(list) \ (failed \cup warm)
           cold == missing \ Building
           joined == missing \cap Building
           row == [state |-> "admitted", keys |-> Filtered(list), cold |-> cold, joined |-> joined]
<1>1. /\ ticket \in [Tickets -> TicketRecord] /\ askJobs \in Seq(Tickets) /\ Len(askJobs) \in Nat
      /\ JobsRun /\ IsFiniteSet(Building)
  BY DEF TicketsOK
<1>2. list \in Seq(Keys) /\ Len(list) \in Nat /\ list \in [1 .. Len(list) -> Keys]
      /\ DOMAIN list = 1 .. Len(list)
  BY AskAssumption, LenProperties
<1>3. /\ ticket[t].state = "none" /\ MayAdmit(cold) /\ ticket' = [ticket EXCEPT ![t] = row]
      /\ askJobs' = askJobs
  BY DEF Admit
<1>4. cold \in SUBSET ToSet(list) /\ cold \in SUBSET Keys /\ joined \in SUBSET Keys
  BY <1>2, ListKeys
<1>5. Filtered(list) \in Seq(Keys \cup {NoKey})
  <2>1. Filtered(list) = [n \in 1 .. Len(list) |-> IF list[n] \in failed THEN NoKey ELSE list[n]]
    BY <1>2 DEF Filtered
  <2>2. \A n \in 1 .. Len(list) : (IF list[n] \in failed THEN NoKey ELSE list[n]) \in Keys \cup {NoKey}
    BY <1>2
  <2> QED  BY <1>2, <2>1, <2>2, IsASeq
<1>6. row \in TicketRecord
  BY <1>4, <1>5 DEF TicketRecord
<1> HIDE DEF row
<1>7. ticket' \in [Tickets -> TicketRecord] /\ ticket'[t] = row /\ \A u \in Tickets : u # t => ticket'[u] = ticket[u]
  BY <1>1, <1>3, <1>6
<1>8. row.state = "admitted" /\ row.cold = cold /\ row.joined = joined
  BY DEF row
<1>9. ASSUME NEW n \in 1 .. Len(askJobs) PROVE askJobs[n] # t /\ ticket'[askJobs[n]] = ticket[askJobs[n]]
  <2>1. askJobs[n] \in Tickets /\ ticket[askJobs[n]].state = "running"
    BY <1>1 DEF JobsRun
  <2>2. askJobs[n] # t
    BY <1>3, <2>1
  <2> QED  BY <1>7, <2>1, <2>2
<1>10. JobsRun'
  BY <1>1, <1>3, <1>9 DEF JobsRun
<1>11. PendingBounded'
  <2>1. t \notin TicketsIn("admitted") /\ TicketsIn("admitted") \in SUBSET Tickets
    BY <1>3 DEF TicketsIn
  <2>2. TicketsIn("admitted")' = TicketsIn("admitted") \cup {t}
    BY <1>3, <1>7, <1>8 DEF TicketsIn
  <2>3. Cardinality(TicketsIn("admitted") \cup {t}) = Cardinality(TicketsIn("admitted")) + 1
        /\ Cardinality(TicketsIn("admitted")) \in Nat
    BY <2>1, TicketsFinite, FS_AddElement
  <2>4. Pending < MaxPending /\ Pending = Len(askJobs) + Cardinality(TicketsIn("admitted"))
    BY <1>3 DEF MayAdmit, Pending
  <2>5. Pending' = Len(askJobs) + Cardinality(TicketsIn("admitted") \cup {t})
    BY <1>3, <2>2 DEF Pending
  <2> QED  BY <1>1, <2>3, <2>4, <2>5, AskAssumption DEF PendingBounded
<1>12. Building' \subseteq Building \cup cold
  <2>1. ASSUME NEW u \in Tickets, u \notin (TicketsIn("none") \cup TicketsIn("done"))'
        PROVE  ticket'[u].cold \cup ticket'[u].joined \subseteq Building \cup cold
    <3>1. CASE u = t
      <4>1. ticket'[u].cold = cold /\ ticket'[u].joined = joined
        BY <1>7, <1>8, <3>1
      <4> QED  BY <4>1
    <3>2. CASE u # t
      <4>1. ticket'[u] = ticket[u]
        BY <1>7, <3>2
      <4>2. u \in Tickets \ (TicketsIn("none") \cup TicketsIn("done"))
        BY <2>1, <4>1 DEF TicketsIn
      <4> QED  BY <4>1, <4>2 DEF Building
    <3> QED  BY <3>1, <3>2
  <2> HIDE DEF cold, missing, joined
  <2> QED  BY <2>1 DEF Building
<1>13. IsFiniteSet(cold) /\ Cardinality(cold) <= Len(list) /\ Cardinality(cold) \in Nat
  BY <1>2, <1>4, ListKeys, FS_CardinalityType
<1>14. IsFiniteSet(Building') /\ ColdBuildsBounded'
  <2>1. CASE cold = {}
    <3>1. Building' \subseteq Building
      BY <1>12, <2>1
    <3>2. IsFiniteSet(Building') /\ Cardinality(Building') <= Cardinality(Building)
          /\ Cardinality(Building) \in Nat /\ Cardinality(Building') \in Nat
      BY <1>1, <3>1, FS_Subset, FS_CardinalityType
    <3>3. PICK l \in CandidateLists : Cardinality(Building) <= MaxColdBuilds - 1 + Len(l)
      BY DEF TicketsOK, ColdBuildsBounded
    <3>4. Cardinality(Building') <= MaxColdBuilds - 1 + Len(l)
      BY <3>2, <3>3, AskAssumption
    <3> QED  BY <3>2, <3>4 DEF ColdBuildsBounded
  <2>2. CASE cold # {}
    <3>1. Cardinality(Building) < MaxColdBuilds /\ Cardinality(Building) \in Nat
      BY <1>1, <1>3, <2>2, FS_CardinalityType DEF MayAdmit
    <3>2. Building \cap cold = {} /\ Cardinality(Building \cap cold) = 0
      BY FS_EmptySet
    <3> HIDE DEF cold
    <3>3. IsFiniteSet(Building \cup cold)
          /\ Cardinality(Building \cup cold) = Cardinality(Building) + Cardinality(cold)
      <4>1. IsFiniteSet(Building) /\ IsFiniteSet(cold)
        BY <1>1, <1>13
      <4>2. IsFiniteSet(Building \cup cold)
            /\ Cardinality(Building \cup cold)
                 = Cardinality(Building) + Cardinality(cold) - Cardinality(Building \cap cold)
        BY <4>1, FS_Union
      <4> QED  BY <1>13, <3>1, <3>2, <4>2
    <3>4. IsFiniteSet(Building') /\ Cardinality(Building') <= Cardinality(Building \cup cold)
          /\ Cardinality(Building') \in Nat
      BY <1>12, <3>3, FS_Subset, FS_CardinalityType
    <3>5. Cardinality(Building') <= MaxColdBuilds - 1 + Len(list)
      BY <1>2, <1>13, <3>1, <3>3, <3>4, AskAssumption
    <3> QED  BY <3>4, <3>5 DEF ColdBuildsBounded
  <2> QED  BY <2>1, <2>2
<1> QED  BY <1>1, <1>3, <1>7, <1>9, <1>10, <1>11, <1>14 DEF TicketsOK

\* A ticket that runs changes its place for a job.
LEMMA RunTickets ==
  ASSUME TicketsOK, NEW t \in Tickets, RunTicket(t)
  PROVE  /\ TicketsOK'
         /\ \A n \in 1 .. Len(askJobs) : ticket'[askJobs[n]] = ticket[askJobs[n]]
<1>1. /\ ticket \in [Tickets -> TicketRecord] /\ askJobs \in Seq(Tickets) /\ Len(askJobs) \in Nat
      /\ JobsRun /\ IsFiniteSet(Building) /\ ColdBuildsBounded
      /\ \A n \in 1 .. Len(askJobs) : askJobs[n] \in Tickets
  BY DEF TicketsOK
<1>2. ticket[t].state = "admitted" /\ ticket' = Into(t, "running") /\ askJobs' = Append(askJobs, t)
  BY DEF RunTicket
<1>3. /\ ticket' \in [Tickets -> TicketRecord] /\ ticket'[t].state = "running"
      /\ \A u \in Tickets : ticket'[u].cold = ticket[u].cold /\ ticket'[u].joined = ticket[u].joined
      /\ \A u \in Tickets : u # t => ticket'[u] = ticket[u]
  BY <1>1, <1>2, IntoFacts
<1>4. /\ askJobs' \in Seq(Tickets) /\ Len(askJobs') = Len(askJobs) + 1 /\ askJobs'[Len(askJobs) + 1] = t
      /\ \A n \in 1 .. Len(askJobs) : askJobs'[n] = askJobs[n]
  BY <1>1, <1>2, AppendProperties
<1>5. ASSUME NEW n \in 1 .. Len(askJobs) PROVE askJobs[n] # t /\ ticket'[askJobs[n]] = ticket[askJobs[n]]
  <2>1. askJobs[n] \in Tickets /\ ticket[askJobs[n]].state = "running"
    BY <1>1 DEF JobsRun
  <2>2. askJobs[n] # t
    BY <1>2, <2>1
  <2> QED  BY <1>3, <2>1, <2>2
<1>6. \A n \in 1 .. Len(askJobs') : n \in 1 .. Len(askJobs) \/ n = Len(askJobs) + 1
  BY <1>1, <1>4
<1>7. JobsRun'
  <2>1. ASSUME NEW n \in 1 .. Len(askJobs') PROVE ticket'[askJobs'[n]].state = "running"
    BY <1>1, <1>3, <1>4, <1>5, <1>6 DEF JobsRun
  <2>2. ASSUME NEW m \in 1 .. Len(askJobs'), NEW n \in 1 .. Len(askJobs'), askJobs'[m] = askJobs'[n]
        PROVE  m = n
    <3>1. ASSUME m \in 1 .. Len(askJobs), n \in 1 .. Len(askJobs) PROVE m = n
      BY <1>1, <1>4, <2>2, <3>1 DEF JobsRun
    <3>2. ASSUME m \in 1 .. Len(askJobs), n = Len(askJobs) + 1 PROVE FALSE
      BY <1>4, <1>5, <2>2, <3>2
    <3>3. ASSUME n \in 1 .. Len(askJobs), m = Len(askJobs) + 1 PROVE FALSE
      BY <1>4, <1>5, <2>2, <3>3
    <3> QED  BY <1>6, <3>1, <3>2, <3>3
  <2> QED  BY <2>1, <2>2 DEF JobsRun
<1>8. PendingBounded'
  <2>1. TicketsIn("admitted") \in SUBSET Tickets /\ t \in TicketsIn("admitted")
    BY <1>2 DEF TicketsIn
  <2>2. TicketsIn("admitted")' = TicketsIn("admitted") \ {t}
    BY <1>3 DEF TicketsIn
  <2>3. Cardinality(TicketsIn("admitted") \ {t}) = Cardinality(TicketsIn("admitted")) - 1
        /\ Cardinality(TicketsIn("admitted")) \in Nat
    BY <2>1, TicketsFinite, FS_RemoveElement
  <2>4. Pending' = (Len(askJobs) + 1) + (Cardinality(TicketsIn("admitted")) - 1)
    BY <1>4, <2>2, <2>3 DEF Pending
  <2>5. Pending' = Pending
    BY <1>1, <2>3, <2>4 DEF Pending
  <2> QED  BY <2>5 DEF TicketsOK, PendingBounded
<1>9. IsFiniteSet(Building') /\ ColdBuildsBounded'
  <2>1. \A u \in Tickets : ticket'[u].state \notin {"none", "done"} => ticket[u].state \notin {"none", "done"}
    BY <1>2, <1>3
  <2> QED  BY <1>1, <1>3, <2>1, BuildingShrinks
<1> QED  BY <1>3, <1>4, <1>5, <1>7, <1>8, <1>9 DEF TicketsOK

\* A ticket that is not a job gives back its keys, and its place if it had one.
LEMMA DoneTickets ==
  ASSUME TicketsOK, NEW t \in Tickets, ticket[t].state \in {"admitted", "answered"},
         ticket' = Into(t, "done"), askJobs' = askJobs
  PROVE  /\ TicketsOK'
         /\ \A n \in 1 .. Len(askJobs) : ticket'[askJobs[n]] = ticket[askJobs[n]]
<1>1. /\ ticket \in [Tickets -> TicketRecord] /\ askJobs \in Seq(Tickets) /\ Len(askJobs) \in Nat
      /\ JobsRun /\ IsFiniteSet(Building) /\ ColdBuildsBounded
      /\ \A n \in 1 .. Len(askJobs) : askJobs[n] \in Tickets
  BY DEF TicketsOK
<1>2. /\ ticket' \in [Tickets -> TicketRecord] /\ ticket'[t].state = "done"
      /\ \A u \in Tickets : ticket'[u].cold = ticket[u].cold /\ ticket'[u].joined = ticket[u].joined
      /\ \A u \in Tickets : u # t => ticket'[u] = ticket[u]
  BY <1>1, IntoFacts
<1>3. ASSUME NEW n \in 1 .. Len(askJobs) PROVE ticket'[askJobs[n]] = ticket[askJobs[n]]
  <2>1. askJobs[n] \in Tickets /\ ticket[askJobs[n]].state = "running"
    BY <1>1 DEF JobsRun
  <2>2. askJobs[n] # t
    BY <2>1
  <2> QED  BY <1>2, <2>1, <2>2
<1>4. JobsRun'
  BY <1>1, <1>3 DEF JobsRun
<1>5. PendingBounded'
  <2>1. TicketsIn("admitted") \in SUBSET Tickets /\ TicketsIn("admitted")' \in SUBSET TicketsIn("admitted")
    BY <1>2 DEF TicketsIn
  <2>2. Cardinality(TicketsIn("admitted")') <= Cardinality(TicketsIn("admitted"))
        /\ Cardinality(TicketsIn("admitted")) \in Nat /\ Cardinality(TicketsIn("admitted")') \in Nat
    BY <2>1, TicketsFinite, FS_Subset, FS_CardinalityType
  <2>3. Pending' = Len(askJobs) + Cardinality(TicketsIn("admitted")')
    BY DEF Pending
  <2>4. Len(askJobs) + Cardinality(TicketsIn("admitted")) <= MaxPending
    BY DEF TicketsOK, PendingBounded, Pending
  <2> QED  BY <1>1, <2>2, <2>3, <2>4, AskAssumption DEF PendingBounded
<1>6. IsFiniteSet(Building') /\ ColdBuildsBounded'
  <2>1. \A u \in Tickets : ticket'[u].state \notin {"none", "done"} => ticket[u].state \notin {"none", "done"}
    BY <1>2
  <2> QED  BY <1>1, <1>2, <2>1, BuildingShrinks
<1> QED  BY <1>1, <1>2, <1>3, <1>4, <1>5, <1>6 DEF TicketsOK


\* The answered job is the head of the queue.
LEMMA AnswerTickets ==
  ASSUME TicketsOK, askJobs # <<>>, ticket' = Into(askJobs[1], "answered"), askJobs' = Tail(askJobs)
  PROVE  /\ TicketsOK'
         /\ \A n \in 1 .. Len(askJobs) : n # 1 => ticket'[askJobs[n]] = ticket[askJobs[n]]
<1>1. /\ ticket \in [Tickets -> TicketRecord] /\ askJobs \in Seq(Tickets) /\ Len(askJobs) \in Nat
      /\ JobsRun /\ IsFiniteSet(Building) /\ ColdBuildsBounded
      /\ \A n \in 1 .. Len(askJobs) : askJobs[n] \in Tickets
  BY DEF TicketsOK
<1>2. 1 \in 1 .. Len(askJobs)
  BY <1>1, EmptySeq
<1>3. PICK t : t = askJobs[1]
  OBVIOUS
<1>4. t \in Tickets /\ ticket[t].state = "running" /\ ticket' = Into(t, "answered")
  BY <1>1, <1>2, <1>3 DEF JobsRun
<1>5. /\ ticket' \in [Tickets -> TicketRecord] /\ ticket'[t].state = "answered"
      /\ \A u \in Tickets : ticket'[u].cold = ticket[u].cold /\ ticket'[u].joined = ticket[u].joined
      /\ \A u \in Tickets : u # t => ticket'[u] = ticket[u]
  BY <1>1, <1>4, IntoFacts
<1>6. /\ askJobs' \in Seq(Tickets) /\ Len(askJobs') = Len(askJobs) - 1
      /\ \A n \in 1 .. Len(askJobs') : askJobs'[n] = askJobs[n + 1]
  BY <1>1, HeadTailProperties
<1>7. ASSUME NEW n \in 1 .. Len(askJobs), n # 1 PROVE ticket'[askJobs[n]] = ticket[askJobs[n]]
  <2>1. askJobs[n] # t
    BY <1>1, <1>2, <1>3, <1>7 DEF JobsRun
  <2> QED  BY <1>1, <1>5, <2>1
<1>8. \A n \in 1 .. Len(askJobs') : n + 1 \in 1 .. Len(askJobs) /\ n + 1 # 1
  BY <1>1, <1>6
<1>9. JobsRun'
  <2>1. ASSUME NEW n \in 1 .. Len(askJobs') PROVE ticket'[askJobs'[n]].state = "running"
    <3>1. n + 1 \in 1 .. Len(askJobs) /\ n + 1 # 1
      BY <1>8
    <3>2. ticket'[askJobs[n + 1]] = ticket[askJobs[n + 1]] /\ ticket[askJobs[n + 1]].state = "running"
      BY <1>1, <1>7, <3>1 DEF JobsRun
    <3> QED  BY <1>6, <3>2
  <2>2. ASSUME NEW m \in 1 .. Len(askJobs'), NEW n \in 1 .. Len(askJobs'), askJobs'[m] = askJobs'[n]
        PROVE  m = n
    <3>1. m + 1 \in 1 .. Len(askJobs) /\ n + 1 \in 1 .. Len(askJobs)
      BY <1>8
    <3>2. m + 1 = n + 1
      BY <1>1, <1>6, <2>2, <3>1 DEF JobsRun
    <3> QED  BY <3>2
  <2> QED  BY <2>1, <2>2 DEF JobsRun
<1>10. PendingBounded'
  <2>1. TicketsIn("admitted")' = TicketsIn("admitted")
    BY <1>4, <1>5 DEF TicketsIn
  <2>2. TicketsIn("admitted") \in SUBSET Tickets
    BY DEF TicketsIn
  <2>3. Pending' = (Len(askJobs) - 1) + Cardinality(TicketsIn("admitted"))
    BY <1>6, <2>1 DEF Pending
  <2>4. Len(askJobs) + Cardinality(TicketsIn("admitted")) <= MaxPending
    BY DEF TicketsOK, PendingBounded, Pending
  <2>5. Cardinality(TicketsIn("admitted")) \in Nat
    BY <2>2, TicketsFinite
  <2> QED  BY <1>1, <2>3, <2>4, <2>5, AskAssumption DEF PendingBounded
<1>11. IsFiniteSet(Building') /\ ColdBuildsBounded'
  <2>1. \A u \in Tickets : ticket'[u].state \notin {"none", "done"} => ticket[u].state \notin {"none", "done"}
    BY <1>4, <1>5
  <2> QED  BY <1>1, <1>5, <2>1, BuildingShrinks
<1> QED  BY <1>5, <1>6, <1>7, <1>9, <1>10, <1>11 DEF TicketsOK

\* A failure answers every job at once.
LEMMA FailTickets == ASSUME TicketsOK, Fail PROVE TicketsOK'
<1>1. /\ ticket \in [Tickets -> TicketRecord] /\ askJobs \in Seq(Tickets) /\ Len(askJobs) \in Nat
      /\ JobsRun /\ IsFiniteSet(Building) /\ ColdBuildsBounded /\ DOMAIN askJobs = 1 .. Len(askJobs)
  BY LenProperties DEF TicketsOK
<1>2. /\ ticket' = [t \in Tickets |-> IF t \in ToSet(askJobs) THEN [ticket[t] EXCEPT !.state = "answered"]
                                     ELSE ticket[t]]
      /\ askJobs' = <<>>
  BY DEF Fail
<1>3. ASSUME NEW u \in Tickets
      PROVE  /\ ticket'[u] \in TicketRecord
             /\ ticket'[u].cold = ticket[u].cold /\ ticket'[u].joined = ticket[u].joined
             /\ \/ ticket'[u] = ticket[u]
                \/ ticket[u].state = "running" /\ ticket'[u].state = "answered"
  <2>1. CASE u \in ToSet(askJobs)
    <3>1. ticket'[u] = [ticket[u] EXCEPT !.state = "answered"] /\ ticket[u] \in TicketRecord
      BY <1>1, <1>2, <2>1
    <3>2. ticket[u].state = "running"
      BY <1>1, <2>1 DEF ToSet, JobsRun
    <3> QED  BY <3>1, <3>2 DEF TicketRecord
  <2>2. CASE u \notin ToSet(askJobs)
    BY <1>1, <1>2, <2>2
  <2> QED  BY <2>1, <2>2
<1>4. ticket' \in [Tickets -> TicketRecord]
  BY <1>2, <1>3
<1>5. askJobs' \in Seq(Tickets) /\ Len(askJobs') = 0
  BY <1>2, EmptySeq
<1>6. JobsRun'
  BY <1>5 DEF JobsRun
<1>7. PendingBounded'
  <2>1. TicketsIn("admitted")' = TicketsIn("admitted")
    BY <1>3 DEF TicketsIn
  <2>2. TicketsIn("admitted") \in SUBSET Tickets
    BY DEF TicketsIn
  <2>3. Pending' = 0 + Cardinality(TicketsIn("admitted"))
    BY <1>5, <2>1 DEF Pending
  <2>4. Len(askJobs) + Cardinality(TicketsIn("admitted")) <= MaxPending
    BY DEF TicketsOK, PendingBounded, Pending
  <2>5. Cardinality(TicketsIn("admitted")) \in Nat
    BY <2>2, TicketsFinite
  <2> QED  BY <1>1, <2>3, <2>4, <2>5, AskAssumption DEF PendingBounded
<1>8. IsFiniteSet(Building') /\ ColdBuildsBounded'
  <2>1. \A u \in Tickets : ticket'[u].state \notin {"none", "done"} => ticket[u].state \notin {"none", "done"}
    BY <1>3
  <2> QED  BY <1>1, <1>3, <2>1, BuildingShrinks
<1> QED  BY <1>4, <1>5, <1>6, <1>7, <1>8 DEF TicketsOK

\* Nothing of the tickets depends on anything but the tickets and the queue of jobs.
LEMMA TicketsStill == ASSUME TicketsOK, ticket' = ticket, askJobs' = askJobs PROVE TicketsOK'
BY DEF TicketsOK, JobsRun, PendingBounded, Pending, TicketsIn, ColdBuildsBounded, Building

-----------------------------------------------------------------------------
(* The worker.                                                             *)

\* The request in work is of a job, whose ticket runs.
LEMMA InWork ==
  ASSUME TicketsOK, QueuesOK, inbox # <<>>
  PROVE  \E n \in 1 .. Len(askJobs) :
           /\ inbox[1] = askJobs[n] /\ inbox[1] \in Tickets /\ ticket[inbox[1]].state = "running"
           /\ (outbox # <<>> /\ outbox[1].type = "reply" => n # 1)
<1>1. outbox \in Seq(Posted) /\ askJobs \in Seq(Tickets) /\ inbox \in Seq(Tickets)
      /\ InOrder(outbox, askJobs, inbox)
  BY DEF TicketsOK, QueuesOK
<1>2. \E n \in 1 .. Len(askJobs) : inbox[1] = askJobs[n] /\ (outbox # <<>> /\ outbox[1].type = "reply" => n # 1)
  BY <1>1, OrderFirst
<1>3. PICK n \in 1 .. Len(askJobs) : inbox[1] = askJobs[n] /\ (outbox # <<>> /\ outbox[1].type = "reply" => n # 1)
  BY <1>2
<1>4. askJobs[n] \in Tickets /\ ticket[askJobs[n]].state = "running"
  BY <1>1 DEF TicketsOK, JobsRun
<1> QED  BY <1>3, <1>4

\* A message of the worker joins the queue.
LEMMA PostQueues ==
  ASSUME TicketsOK, QueuesOK, inbox # <<>>, NEW key \in Keys \cup {NoKey}, NEW bad \in SUBSET Keys,
         NEW cached \in SUBSET Keys, NEW type \in {"building", "built", "reply"},
         Post(type, key, bad, cached), askJobs' = askJobs,
         inbox' = IF type = "reply" THEN Tail(inbox) ELSE inbox
  PROVE  /\ QueuesOK' /\ Len(outbox') \in Nat /\ outbox' # <<>>
         /\ outbox'[Len(outbox')].type = type /\ outbox'[Len(outbox')].cached = cached
<1>1. outbox \in Seq(Posted) /\ askJobs \in Seq(Tickets) /\ inbox \in Seq(Tickets)
      /\ InOrder(outbox, askJobs, inbox) /\ inbox[1] \in Tickets /\ Len(outbox) \in Nat
  BY InWork DEF TicketsOK, QueuesOK
<1>2. PICK m : m = [type |-> type, id |-> inbox[1], key |-> key, failed |-> bad, cached |-> cached]
  OBVIOUS
<1>3. m \in Posted /\ m.id = inbox[1] /\ m.type = type /\ m.cached = cached
  BY <1>1, <1>2 DEF Posted
<1>4. outbox' = Append(outbox, m)
  BY <1>2 DEF Post
<1>5. outbox' \in Seq(Posted) /\ Len(outbox') = Len(outbox) + 1 /\ outbox'[Len(outbox) + 1] = m
  BY <1>1, <1>3, <1>4, AppendProperties
<1>6. /\ m.type # "reply" => InOrder(Append(outbox, m), askJobs, inbox)
      /\ m.type = "reply" => InOrder(Append(outbox, m), askJobs, Tail(inbox))
  BY <1>1, <1>3, OrderPost
<1>7. inbox' \in Seq(Tickets)
  BY <1>1, HeadTailProperties
<1>8. InOrder(outbox', askJobs', inbox')
  <2>1. CASE type = "reply"
    BY <1>3, <1>4, <1>6, <2>1
  <2>2. CASE type # "reply"
    BY <1>3, <1>4, <1>6, <2>2
  <2> QED  BY <2>1, <2>2
<1>9. outbox' # <<>>
  <2>1. Len(outbox') # 0
    BY <1>1, <1>5
  <2> QED  BY <2>1, EmptySeq
<1> QED  BY <1>1, <1>3, <1>5, <1>7, <1>8, <1>9 DEF QueuesOK

\* A hit moves its key to the end.
LEMMA MovedToEnd ==
  ASSUME NEW s \in Seq(Keys), NEW n \in DOMAIN s, NEW k \in Keys
  PROVE  Append(RemoveAt(s, n), k) \in Seq(Keys) /\ Len(Append(RemoveAt(s, n), k)) = Len(s)
<1>1. Len(s) \in Nat /\ n \in 1 .. Len(s) /\ \A i \in 1 .. Len(s) : s[i] \in Keys
  BY LenProperties
<1>2. PICK a : a = SubSeq(s, 1, n - 1)
  OBVIOUS
<1>3. PICK b : b = SubSeq(s, n + 1, Len(s))
  OBVIOUS
<1>4. a \in Seq(Keys) /\ Len(a) = n - 1
  <2>1. \A i \in 1 .. n - 1 : s[i] \in Keys
    BY <1>1
  <2>2. 1 \in Int /\ n - 1 \in Int
    BY <1>1
  <2>3. a \in Seq(Keys) /\ Len(a) = IF 1 <= n - 1 THEN (n - 1) - 1 + 1 ELSE 0
    BY <1>2, <2>1, <2>2, SubSeqProperties
  <2> QED  BY <1>1, <2>3
<1>5. b \in Seq(Keys) /\ Len(b) = Len(s) - n
  <2>1. \A i \in n + 1 .. Len(s) : s[i] \in Keys
    BY <1>1
  <2>2. n + 1 \in Int /\ Len(s) \in Int
    BY <1>1
  <2>3. b \in Seq(Keys) /\ Len(b) = IF n + 1 <= Len(s) THEN Len(s) - (n + 1) + 1 ELSE 0
    BY <1>3, <2>1, <2>2, SubSeqProperties
  <2> QED  BY <1>1, <2>3
<1>6. a \o b \in Seq(Keys) /\ Len(a \o b) = Len(a) + Len(b)
  BY <1>4, <1>5, ConcatProperties
<1>7. Append(a \o b, k) \in Seq(Keys) /\ Len(Append(a \o b, k)) = Len(a \o b) + 1
  BY <1>6, AppendProperties
<1>8. Len(a \o b) + 1 = Len(s)
  <2>1. (Len(a) + Len(b)) + 1 = Len(s)
    <3>1. Len(s) \in Nat /\ n \in 1 .. Len(s) /\ Len(a) = n - 1 /\ Len(b) = Len(s) - n
      BY <1>1, <1>4, <1>5, Zenon
    <3>2. \A i, l \in Nat : ((i - 1) + (l - i)) + 1 = l
      OBVIOUS
    <3>3. n \in Nat
      BY <1>1
    <3>4. ((n - 1) + (Len(s) - n)) + 1 = Len(s)
      BY <3>1, <3>2, <3>3, Zenon
    <3>5. (Len(a) + Len(b)) + 1 = ((n - 1) + (Len(s) - n)) + 1
      BY <3>1, Zenon
    <3> QED  BY <3>4, <3>5, Zenon
  <2>2. Len(a \o b) = Len(a) + Len(b)
    BY <1>6
  <2> QED  BY <2>1, <2>2
<1> QED  BY <1>2, <1>3, <1>7, <1>8 DEF RemoveAt

\* The keys of a cache are keys.
LEMMA CacheKeys == ASSUME NEW s \in Seq(Keys) PROVE ToSet(s) \in SUBSET Keys
BY LenProperties DEF ToSet


\* A step of the request thread that leaves the request in work and the messages alone is
\* nothing to the worker.
LEMMA WorkerStill ==
  ASSUME WorkerOK, UNCHANGED worker, outbox' = outbox, warm' = warm, blamable' = blamable,
         failed' \in SUBSET Keys, up' \in BOOLEAN,
         inbox # <<>> => /\ inbox' # <<>> /\ inbox'[1] = inbox[1]
                         /\ ticket'[inbox[1]] = ticket[inbox[1]]
  PROVE  WorkerOK'
<1>1. cache' = cache /\ broken' = broken /\ at' = at /\ failures' = failures /\ inBuild' = inBuild
  BY DEF worker
<1>2. CacheTold' /\ IndexesBounded'
  BY <1>1 DEF WorkerOK, CacheTold, IndexesBounded
<1>3. BuildInHand'
  BY <1>1 DEF WorkerOK, BuildInHand
<1> QED  BY <1>1, <1>2, <1>3 DEF WorkerOK

-----------------------------------------------------------------------------
(* Each action preserves the invariant.                                    *)

\* Nobody has asked at the start.
LEMMA InitAskInv == ASSUME AskInit PROVE AskInv
<1>1. ticket \in [Tickets -> TicketRecord]
  <2>1. NoTicket \in TicketRecord
    BY EmptySeq DEF NoTicket, TicketRecord
  <2> QED  BY <2>1 DEF AskInit
<1>2. \A t \in Tickets : ticket[t].state = "none"
  BY DEF AskInit, NoTicket
<1>3. askJobs \in Seq(Tickets) /\ inbox \in Seq(Tickets) /\ outbox \in Seq(Posted) /\ cache \in Seq(Keys)
      /\ Len(askJobs) = 0 /\ Len(inbox) = 0 /\ Len(outbox) = 0 /\ Len(cache) = 0
  BY EmptySeq DEF AskInit
<1>4. Building = {} /\ TicketsIn("admitted") = {}
  BY <1>2 DEF Building, TicketsIn
<1>5. IsFiniteSet(Building) /\ Cardinality(Building) = 0 /\ Cardinality(TicketsIn("admitted")) = 0
  BY <1>4, FS_EmptySet
<1>6. ColdBuildsBounded
  <2>1. PICK list \in CandidateLists : Len(list) \in Nat
    BY AskAssumption, LenProperties
  <2>2. 0 <= MaxColdBuilds - 1 + Len(list)
    BY <2>1, AskAssumption
  <2> QED  BY <1>5, <2>2 DEF ColdBuildsBounded
<1>7. PendingBounded
  BY <1>3, <1>5, AskAssumption DEF PendingBounded, Pending
<1>8. TicketsOK
  BY <1>1, <1>3, <1>5, <1>6, <1>7 DEF TicketsOK, JobsRun
<1>9. InOrder(outbox, askJobs, inbox)
  <2>1. PICK pos : pos = [i \in 1 .. Len(outbox) + 1 |-> 1]
    OBVIOUS
  <2>2. /\ pos \in [1 .. Len(outbox) + 1 -> Nat \ {0}] /\ pos[1] = 1 /\ pos[Len(outbox) + 1] = 1
        /\ \A i, k \in 1 .. Len(outbox) + 1 : pos[i] <= pos[k]
    BY <1>3, <2>1
  <2>3. Places(pos, outbox, askJobs, inbox)
    BY <1>3, <2>2 DEF Places
  <2> QED  BY <2>2, <2>3 DEF InOrder
<1>10. WorkerOK
  <2>1. CacheTold
    BY <1>3 DEF AskInit, CacheTold, ToSet
  <2>2. IndexesBounded
    BY <1>3, AskAssumption DEF AskInit, IndexesBounded
  <2>3. BuildInHand
    BY DEF AskInit, BuildInHand
  <2> QED  BY <1>3, <2>1, <2>2, <2>3 DEF AskInit, WorkerOK
<1> QED  BY <1>3, <1>8, <1>9, <1>10 DEF AskInv, QueuesOK

\* A step that leaves both queues between the threads alone keeps their order.
LEMMA QueuesStill ==
  ASSUME QueuesOK, outbox' = outbox, inbox' = inbox, askJobs' = askJobs
  PROVE  QueuesOK'
BY DEF QueuesOK, InOrder

LEMMA AdmitKeeps ==
  ASSUME AskInv, NEW t \in Tickets, NEW list \in CandidateLists, Admit(t, list) PROVE AskInv'
<1>1. TicketsOK /\ QueuesOK /\ WorkerOK
  BY DEF AskInv
<1>2. TicketsOK' /\ \A n \in 1 .. Len(askJobs) : ticket'[askJobs[n]] = ticket[askJobs[n]]
  BY <1>1, AdmitTickets
<1>3. /\ askJobs' = askJobs /\ blamable' = blamable /\ warm' = warm /\ failed' = failed /\ up' = up
      /\ inbox' = inbox /\ outbox' = outbox /\ UNCHANGED worker
  BY DEF Admit
<1>4. inbox # <<>> => ticket'[inbox[1]] = ticket[inbox[1]]
  BY <1>1, <1>2, InWork
<1>5. failed' \in SUBSET Keys /\ up' \in BOOLEAN
  BY <1>1, <1>3 DEF WorkerOK
<1>6. WorkerOK'
  BY <1>1, <1>3, <1>4, <1>5, WorkerStill
<1>7. QueuesOK'
  BY <1>1, <1>3, QueuesStill
<1> QED  BY <1>2, <1>6, <1>7 DEF AskInv

LEMMA RunKeeps == ASSUME AskInv, NEW t \in Tickets, RunTicket(t) PROVE AskInv'
<1>1. TicketsOK /\ QueuesOK /\ WorkerOK
  BY DEF AskInv
<1>2. TicketsOK' /\ \A n \in 1 .. Len(askJobs) : ticket'[askJobs[n]] = ticket[askJobs[n]]
  BY <1>1, RunTickets
<1>3. /\ askJobs' = Append(askJobs, t) /\ inbox' = Append(inbox, t) /\ up' = TRUE
      /\ blamable' = blamable /\ warm' = warm /\ failed' = failed /\ outbox' = outbox
      /\ UNCHANGED worker
  BY DEF RunTicket
<1>4. outbox \in Seq(Posted) /\ askJobs \in Seq(Tickets) /\ inbox \in Seq(Tickets) /\ Len(inbox) \in Nat
      /\ InOrder(outbox, askJobs, inbox)
  BY <1>1 DEF TicketsOK, QueuesOK
<1>5. inbox' \in Seq(Tickets) /\ Len(inbox') = Len(inbox) + 1 /\ \A n \in 1 .. Len(inbox) : inbox'[n] = inbox[n]
  BY <1>3, <1>4, AppendProperties
<1>6. inbox' # <<>>
  <2>1. Len(inbox') # 0
    BY <1>4, <1>5
  <2> QED  BY <2>1, EmptySeq
<1>7. ASSUME inbox # <<>> PROVE inbox'[1] = inbox[1] /\ ticket'[inbox[1]] = ticket[inbox[1]]
  <2>1. 1 \in 1 .. Len(inbox)
    BY <1>4, <1>7, EmptySeq
  <2> QED  BY <1>1, <1>2, <1>5, <1>7, <2>1, InWork
<1>8. failed' \in SUBSET Keys /\ up' \in BOOLEAN
  BY <1>1, <1>3 DEF WorkerOK
<1>9. WorkerOK'
  BY <1>1, <1>3, <1>6, <1>7, <1>8, WorkerStill
<1>10. InOrder(outbox', askJobs', inbox')
  <2>1. InOrder(outbox, Append(askJobs, t), Append(inbox, t))
    BY <1>4, OrderRun
  <2> QED  BY <1>3, <2>1
<1> QED  BY <1>2, <1>3, <1>4, <1>5, <1>9, <1>10 DEF AskInv, QueuesOK

LEMMA DoneKeeps == ASSUME AskInv, NEW t \in Tickets, ReleaseTicket(t) \/ SettleTicket(t) PROVE AskInv'
<1>1. TicketsOK /\ QueuesOK /\ WorkerOK
  BY DEF AskInv
<1>2. /\ ticket[t].state \in {"admitted", "answered"} /\ ticket' = Into(t, "done") /\ askJobs' = askJobs
      /\ blamable' = blamable /\ warm' = warm /\ failed' = failed /\ up' = up
      /\ inbox' = inbox /\ outbox' = outbox /\ UNCHANGED worker
  BY DEF ReleaseTicket, SettleTicket
<1>3. TicketsOK' /\ \A n \in 1 .. Len(askJobs) : ticket'[askJobs[n]] = ticket[askJobs[n]]
  BY <1>1, <1>2, DoneTickets
<1>4. inbox # <<>> => ticket'[inbox[1]] = ticket[inbox[1]]
  BY <1>1, <1>3, InWork
<1>5. failed' \in SUBSET Keys /\ up' \in BOOLEAN
  BY <1>1, <1>2 DEF WorkerOK
<1>6. WorkerOK'
  BY <1>1, <1>2, <1>4, <1>5, WorkerStill
<1>7. QueuesOK'
  BY <1>1, <1>2, QueuesStill
<1> QED  BY <1>3, <1>6, <1>7 DEF AskInv

LEMMA ExpireKeeps == ASSUME AskInv, NEW k \in Keys, Expire(k) PROVE AskInv'
<1>1. TicketsOK /\ QueuesOK /\ WorkerOK
  BY DEF AskInv
<1>2. /\ ticket' = ticket /\ askJobs' = askJobs /\ blamable' = blamable /\ warm' = warm
      /\ failed' = failed \ {k} /\ up' = up
      /\ inbox' = inbox /\ outbox' = outbox /\ UNCHANGED worker
  BY DEF Expire
<1>3. failed' \in SUBSET Keys /\ up' \in BOOLEAN
  BY <1>1, <1>2 DEF WorkerOK
<1>4. TicketsOK'
  BY <1>1, <1>2, TicketsStill
<1>5. WorkerOK'
  BY <1>1, <1>2, <1>3, WorkerStill
<1>6. QueuesOK'
  BY <1>1, <1>2, QueuesStill
<1> QED  BY <1>4, <1>5, <1>6 DEF AskInv

\* After a failure a fresh worker has nothing to tell and the mirror is empty.
LEMMA FailKeeps == ASSUME AskInv, Fail PROVE AskInv'
<1>1. TicketsOK'
  BY FailTickets DEF AskInv
<1>2. /\ askJobs' = <<>> /\ blamable' = NoKey /\ warm' = {} /\ up' = FALSE
      /\ failed' = failed \cup ({blamable} \ {NoKey})
      /\ inbox' = <<>> /\ outbox' = <<>> /\ cache' = <<>> /\ broken' = {}
      /\ at' = 0 /\ failures' = {} /\ inBuild' = NoKey
  BY DEF Fail, FreshWorker
<1>3. outbox' \in Seq(Posted) /\ inbox' \in Seq(Tickets) /\ cache' \in Seq(Keys)
      /\ Len(askJobs') = 0 /\ Len(inbox') = 0 /\ Len(outbox') = 0 /\ Len(cache') = 0
  BY <1>2, EmptySeq
<1>4. InOrder(outbox', askJobs', inbox')
  <2>1. PICK pos : pos = [i \in 1 .. 0 + 1 |-> 1]
    OBVIOUS
  <2>2. /\ pos \in [1 .. 0 + 1 -> Nat \ {0}] /\ pos[1] = 1 /\ pos[0 + 1] = 1
        /\ \A i, k \in 1 .. 0 + 1 : pos[i] <= pos[k]
    BY <2>1
  <2>3. Places(pos, outbox', askJobs', inbox')
    BY <1>3, <2>2 DEF Places
  <2> QED  BY <1>3, <2>2, <2>3 DEF InOrder
<1>5. CacheTold'
  BY <1>2, <1>3 DEF CacheTold, ToSet
<1>6. IndexesBounded' /\ BuildInHand'
  BY <1>2, <1>3, AskAssumption DEF IndexesBounded, BuildInHand
<1>7. failed' \subseteq Keys
  BY <1>2 DEF AskInv, WorkerOK
<1>8. WorkerOK'
  BY <1>2, <1>3, <1>5, <1>6, <1>7 DEF WorkerOK
<1> QED  BY <1>1, <1>3, <1>4, <1>8 DEF AskInv, QueuesOK

\* A message of the worker is always for the head job: it is delivered.
LEMMA DeliverKeeps == ASSUME AskInv, Deliver PROVE AskInv'
<1>1. TicketsOK /\ QueuesOK /\ WorkerOK
  BY DEF AskInv
<1>2. outbox \in Seq(Posted) /\ askJobs \in Seq(Tickets) /\ inbox \in Seq(Tickets)
      /\ InOrder(outbox, askJobs, inbox) /\ outbox # <<>>
  BY <1>1 DEF TicketsOK, QueuesOK, Deliver
<1>3. PICK m : m = outbox[1]
  OBVIOUS
<1>4. Len(outbox) \in Nat /\ Len(outbox) > 0 /\ 1 \in 1 .. Len(outbox) /\ m \in Posted
  BY <1>2, <1>3, EmptySeq, ElementOfSeq, LenProperties
<1>5. askJobs # <<>> /\ m.id = askJobs[1]
  BY <1>2, <1>3, OrderHead
<1>6. /\ outbox' = Tail(outbox) /\ failed' = failed \cup m.failed
      /\ blamable' = IF m.type = "building" THEN m.key ELSE NoKey
      /\ up' = up /\ inbox' = inbox /\ UNCHANGED worker
  BY <1>3, <1>5 DEF Deliver
<1>7. IF m.type = "reply"
      THEN askJobs' = Tail(askJobs) /\ warm' = m.cached /\ ticket' = Into(m.id, "answered")
      ELSE askJobs' = askJobs /\ warm' = warm /\ ticket' = ticket
  BY <1>3, <1>5 DEF Deliver
<1>8. /\ m.failed \subseteq Keys /\ m.key \in Keys \cup {NoKey} /\ m.cached \subseteq Keys
  BY <1>4 DEF Posted
<1>9. /\ outbox' \in Seq(Posted) /\ Len(outbox') = Len(outbox) - 1
      /\ \A n \in 1 .. Len(outbox') : outbox'[n] = outbox[n + 1]
  BY <1>2, <1>6, HeadTailProperties
<1>10. TicketsOK'
  <2>1. CASE m.type = "reply"
    BY <1>1, <1>5, <1>7, <2>1, AnswerTickets
  <2>2. CASE m.type # "reply"
    BY <1>1, <1>7, <2>2, TicketsStill
  <2> QED  BY <2>1, <2>2
<1>11. InOrder(outbox', askJobs', inbox')
  <2>1. CASE m.type = "reply"
    <3>1. InOrder(Tail(outbox), Tail(askJobs), inbox)
      BY <1>2, <1>3, <2>1, OrderDeliver
    <3> QED  BY <1>6, <1>7, <2>1, <3>1
  <2>2. CASE m.type # "reply"
    <3>1. InOrder(Tail(outbox), askJobs, inbox)
      BY <1>2, <1>3, <2>2, OrderDeliver
    <3> QED  BY <1>6, <1>7, <2>2, <3>1
  <2> QED  BY <2>1, <2>2
<1>12. QueuesOK'
  BY <1>2, <1>6, <1>9, <1>11 DEF QueuesOK
<1>13. cache' = cache /\ broken' = broken /\ at' = at /\ failures' = failures /\ inBuild' = inBuild
  BY <1>6 DEF worker
<1>14. ASSUME inbox # <<>> PROVE ticket'[inbox[1]] = ticket[inbox[1]]
  <2>1. PICK n \in 1 .. Len(askJobs) :
          inbox[1] = askJobs[n] /\ (outbox # <<>> /\ outbox[1].type = "reply" => n # 1)
    BY <1>1, <1>14, InWork
  <2>2. CASE m.type = "reply"
    <3>1. n # 1
      BY <1>2, <1>3, <2>1, <2>2
    <3>2. \A i \in 1 .. Len(askJobs) : i # 1 => ticket'[askJobs[i]] = ticket[askJobs[i]]
      BY <1>1, <1>5, <1>7, <2>2, AnswerTickets
    <3> QED  BY <2>1, <3>1, <3>2
  <2>3. CASE m.type # "reply"
    BY <1>7, <2>3
  <2> QED  BY <2>2, <2>3
<1>15. BuildInHand'
  BY <1>1, <1>6, <1>13, <1>14 DEF WorkerOK, BuildInHand
<1>16. CacheTold'
  <2>1. SUFFICES ASSUME at = 0
                 PROVE  IF outbox' = <<>> THEN warm' = ToSet(cache)
                        ELSE outbox'[Len(outbox')].type = "reply" /\ outbox'[Len(outbox')].cached = ToSet(cache)
    BY <1>13 DEF CacheTold
  <2>2. outbox[Len(outbox)].type = "reply" /\ outbox[Len(outbox)].cached = ToSet(cache)
    BY <1>1, <1>2, <2>1 DEF WorkerOK, CacheTold
  <2>3. CASE outbox' = <<>>
    <3>1. Len(outbox) = 1
      BY <1>4, <1>9, <2>3, EmptySeq
    <3>2. m.type = "reply" /\ m.cached = ToSet(cache)
      BY <1>3, <2>2, <3>1
    <3> QED  BY <1>7, <2>3, <3>2
  <2>4. CASE outbox' # <<>>
    <3>1. Len(outbox') \in Nat \ {0}
      BY <1>9, <2>4, EmptySeq
    <3>2. Len(outbox') \in 1 .. Len(outbox') /\ Len(outbox') + 1 = Len(outbox)
      BY <1>4, <1>9, <3>1
    <3>3. outbox'[Len(outbox')] = outbox[Len(outbox)]
      BY <1>9, <3>2
    <3> QED  BY <2>2, <2>4, <3>3
  <2> QED  BY <2>3, <2>4
<1>17. IndexesBounded'
  BY <1>1, <1>13 DEF WorkerOK, IndexesBounded
<1>18. warm' \subseteq Keys /\ failed' \subseteq Keys /\ blamable' \in Keys \cup {NoKey}
  BY <1>1, <1>6, <1>7, <1>8 DEF WorkerOK
<1>19. WorkerOK'
  BY <1>1, <1>6, <1>13, <1>15, <1>16, <1>17, <1>18 DEF WorkerOK
<1> QED  BY <1>10, <1>12, <1>19 DEF AskInv

LEMMA TakeKeeps == ASSUME AskInv, Take PROVE AskInv'
<1>1. TicketsOK /\ QueuesOK /\ WorkerOK
  BY DEF AskInv
<1>2. /\ at = 0 /\ at' = 1 /\ failures' = {} /\ ticket' = ticket /\ askJobs' = askJobs /\ blamable' = blamable
      /\ warm' = warm /\ failed' = failed /\ up' = up /\ inbox' = inbox /\ outbox' = outbox
      /\ cache' = cache /\ broken' = broken /\ inBuild' = inBuild
  BY DEF Take, coordinator
<1>3. TicketsOK' /\ QueuesOK'
  BY <1>1, <1>2, TicketsStill, QueuesStill
<1>4. CacheTold' /\ IndexesBounded' /\ BuildInHand'
  BY <1>1, <1>2 DEF WorkerOK, CacheTold, IndexesBounded, BuildInHand
<1>5. WorkerOK'
  BY <1>1, <1>2, <1>4 DEF WorkerOK
<1> QED  BY <1>3, <1>5 DEF AskInv

\* The worker answers with what its cache holds; the order of the cache may have changed.
LEMMA ReplyKeeps ==
  ASSUME AskInv, Working, Reply, UNCHANGED <<coordinator, up, broken, failures, inBuild>>,
         cache' \in Seq(Keys), Len(cache') = Len(cache)
  PROVE  AskInv'
<1>1. TicketsOK /\ QueuesOK /\ WorkerOK /\ inbox # <<>> /\ inBuild = NoKey
  BY DEF AskInv, Working
<1>2. /\ ticket' = ticket /\ askJobs' = askJobs /\ blamable' = blamable /\ warm' = warm /\ failed' = failed
      /\ up' = up /\ broken' = broken /\ failures' = failures /\ inBuild' = inBuild
      /\ inbox' = Tail(inbox) /\ at' = 0
  BY DEF coordinator, Reply
<1>3. PICK bad, cached : bad = failures /\ cached = ToSet(cache')
  OBVIOUS
<1>4. bad \in SUBSET Keys /\ cached \in SUBSET Keys
  BY <1>1, <1>3, CacheKeys DEF WorkerOK
<1>5. Post("reply", NoKey, bad, cached)
  BY <1>3 DEF Reply, Post
<1>6. /\ QueuesOK' /\ outbox' # <<>>
      /\ outbox'[Len(outbox')].type = "reply" /\ outbox'[Len(outbox')].cached = cached
  BY <1>1, <1>2, <1>4, <1>5, PostQueues
<1>7. TicketsOK'
  BY <1>1, <1>2, TicketsStill
<1>8. CacheTold'
  BY <1>3, <1>6 DEF CacheTold
<1>9. IndexesBounded' /\ BuildInHand'
  BY <1>1, <1>2 DEF WorkerOK, IndexesBounded, BuildInHand
<1>10. WorkerOK'
  BY <1>1, <1>2, <1>8, <1>9 DEF WorkerOK
<1> QED  BY <1>6, <1>7, <1>10 DEF AskInv

\* The worker goes on to the next candidate.
LEMMA NextCandidateKeeps ==
  ASSUME AskInv, Working, at' = at + 1,
         UNCHANGED <<coordinator, up, inbox, outbox, broken, failures, inBuild>>,
         cache' \in Seq(Keys), Len(cache') = Len(cache)
  PROVE  AskInv'
<1>1. TicketsOK /\ QueuesOK /\ WorkerOK /\ at \in Nat /\ inBuild = NoKey
  BY DEF AskInv, Working, WorkerOK
<1>2. /\ ticket' = ticket /\ askJobs' = askJobs /\ blamable' = blamable /\ warm' = warm /\ failed' = failed
      /\ up' = up /\ broken' = broken /\ failures' = failures /\ inBuild' = inBuild
      /\ inbox' = inbox /\ outbox' = outbox
  BY DEF coordinator
<1>3. at' \in Nat /\ at' # 0
  BY <1>1
<1>4. TicketsOK' /\ QueuesOK'
  BY <1>1, <1>2, TicketsStill, QueuesStill
<1>5. CacheTold' /\ IndexesBounded' /\ BuildInHand'
  BY <1>1, <1>2, <1>3 DEF WorkerOK, CacheTold, IndexesBounded, BuildInHand
<1>6. WorkerOK'
  BY <1>1, <1>2, <1>3, <1>5 DEF WorkerOK
<1> QED  BY <1>4, <1>6 DEF AskInv

LEMMA ExhaustedKeeps == ASSUME AskInv, Exhausted PROVE AskInv'
<1>1. cache' \in Seq(Keys) /\ Len(cache') = Len(cache)
  BY DEF AskInv, WorkerOK, Exhausted
<1>2. Working /\ Reply /\ UNCHANGED <<coordinator, up, broken, failures, inBuild>>
  BY DEF Exhausted
<1> QED  BY <1>1, <1>2, ReplyKeeps

LEMMA SkipKeeps == ASSUME AskInv, Skip PROVE AskInv'
<1>1. cache' \in Seq(Keys) /\ Len(cache') = Len(cache)
  BY DEF AskInv, WorkerOK, Skip
<1>2. Working /\ at' = at + 1 /\ UNCHANGED <<coordinator, up, inbox, outbox, broken, failures, inBuild>>
  BY DEF Skip
<1> QED  BY <1>1, <1>2, NextCandidateKeeps

LEMMA HitKeeps == ASSUME AskInv, Hit PROVE AskInv'
<1>1. cache' \in Seq(Keys) /\ Len(cache') = Len(cache)
  <2>1. PICK n \in DOMAIN cache : cache[n] = Candidate /\ cache' = Append(RemoveAt(cache, n), Candidate)
    BY DEF Hit
  <2>2. PICK k : k = cache[n]
    OBVIOUS
  <2>3. cache \in Seq(Keys) /\ k \in Keys
    BY <2>2, ElementOfSeq, LenProperties DEF AskInv, WorkerOK
  <2>4. cache' = Append(RemoveAt(cache, n), k)
    BY <2>1, <2>2
  <2> QED  BY <2>3, <2>4, MovedToEnd
<1>2. /\ Working /\ UNCHANGED <<coordinator, up, broken, failures, inBuild>>
      /\ Reply \/ (at' = at + 1 /\ UNCHANGED <<inbox, outbox>>)
  BY DEF Hit
<1>3. CASE Reply
  BY <1>1, <1>2, <1>3, ReplyKeeps
<1>4. CASE at' = at + 1 /\ UNCHANGED <<inbox, outbox>>
  <2>1. UNCHANGED <<coordinator, up, inbox, outbox, broken, failures, inBuild>>
    BY <1>2, <1>4
  <2> QED  BY <1>1, <1>2, <1>4, <2>1, NextCandidateKeeps
<1> QED  BY <1>2, <1>3, <1>4

\* The eviction leaves a place for the index that is built, and its key is one the request
\* was admitted for.
LEMMA BeginBuildKeeps == ASSUME AskInv, BeginBuild PROVE AskInv'
<1>1. TicketsOK /\ QueuesOK /\ WorkerOK /\ inbox # <<>> /\ inBuild = NoKey /\ at \in Nat /\ at > 0
  BY DEF AskInv, BeginBuild, Working, WorkerOK
<1>2. /\ ticket' = ticket /\ askJobs' = askJobs /\ blamable' = blamable /\ warm' = warm /\ failed' = failed
      /\ up' = up /\ broken' = broken /\ failures' = failures /\ at' = at /\ inbox' = inbox
  BY DEF coordinator, BeginBuild
<1>3. PICK k : k = Candidate
  OBVIOUS
<1>4. inBuild' = k /\ Post("building", k, {}, {})
  BY <1>3 DEF BeginBuild, Post
<1>5. k \in ticket[inbox[1]].cold \cup ticket[inbox[1]].joined
  BY <1>3 DEF BeginBuild, MayBuild, Request
<1>6. k \in Keys
  <2>1. inbox[1] \in Tickets
    BY <1>1, InWork
  <2>2. ticket[inbox[1]] \in TicketRecord
    BY <1>1, <2>1 DEF TicketsOK
  <2> QED  BY <1>5, <2>2 DEF TicketRecord
<1>7. QueuesOK'
  <2>1. k \in Keys \cup {NoKey} /\ {} \in SUBSET Keys
    BY <1>6
  <2> QED  BY <1>1, <1>2, <1>4, <2>1, PostQueues
<1>8. TicketsOK'
  BY <1>1, <1>2, TicketsStill
<1>9. cache' \in Seq(Keys) /\ Len(cache') + 1 <= MaxIndexes
  <2>1. cache \in Seq(Keys) /\ Len(cache) \in Nat /\ Len(cache) <= MaxIndexes
        /\ \A i \in 1 .. Len(cache) : cache[i] \in Keys
    BY <1>1 DEF WorkerOK, IndexesBounded
  <2>2. MaxIndexes \in Nat \ {0}
    BY AskAssumption
  <2>3. CASE Len(cache) >= MaxIndexes
    <3>1. Len(cache) = MaxIndexes
      <4>1. Len(cache) \in Nat /\ Len(cache) <= MaxIndexes
        BY <2>1
      <4> QED  BY <2>2, <2>3, <4>1
    <3>2. PICK from : from = Len(cache) - MaxIndexes + 2
      OBVIOUS
    <3>3. from = 2 /\ from \in Int /\ Len(cache) \in Int
      BY <2>2, <3>1, <3>2
    <3>4. cache' = SubSeq(cache, from, Len(cache))
      BY <2>3, <3>2 DEF BeginBuild
    <3>5. \A i \in from .. Len(cache) : cache[i] \in Keys
      BY <2>1, <3>3
    <3>6. SubSeq(cache, from, Len(cache)) \in Seq(Keys)
          /\ Len(SubSeq(cache, from, Len(cache))) = IF from <= Len(cache) THEN Len(cache) - from + 1 ELSE 0
      BY <3>3, <3>5, SubSeqProperties
    <3>7. Len(cache') = IF from <= Len(cache) THEN Len(cache) - from + 1 ELSE 0
      BY <3>4, <3>6
    <3>8. Len(cache') + 1 <= MaxIndexes
      BY <2>2, <3>1, <3>3, <3>7
    <3> QED  BY <3>4, <3>6, <3>8
  <2>4. CASE ~(Len(cache) >= MaxIndexes)
    <3>1. cache' = cache
      BY <2>4 DEF BeginBuild
    <3>2. Len(cache) + 1 <= MaxIndexes
      <4>1. Len(cache) \in Nat
        BY <2>1
      <4> QED  BY <2>2, <2>4, <4>1
    <3> QED  BY <2>1, <3>1, <3>2
  <2> QED  BY <2>3, <2>4
<1>10. CacheTold' /\ IndexesBounded' /\ BuildInHand'
  <2>1. inBuild' # NoKey
    BY <1>4, <1>6, AskAssumption
  <2>2. IndexesBounded'
    BY <1>9, <2>1 DEF IndexesBounded
  <2>3. CacheTold' /\ BuildInHand'
    BY <1>1, <1>2, <1>4, <1>5 DEF CacheTold, BuildInHand
  <2> QED  BY <2>2, <2>3
<1>11. WorkerOK'
  BY <1>1, <1>2, <1>4, <1>6, <1>9, <1>10 DEF WorkerOK
<1> QED  BY <1>7, <1>8, <1>11 DEF AskInv

LEMMA BuildDoneKeeps == ASSUME AskInv, BuildDone PROVE AskInv'
<1>1. TicketsOK /\ QueuesOK /\ WorkerOK /\ inbox # <<>> /\ inBuild # NoKey /\ at \in Nat /\ at > 0
      /\ inBuild \in Keys
  BY DEF AskInv, BuildDone, WorkerOK, BuildInHand
<1>2. /\ ticket' = ticket /\ askJobs' = askJobs /\ blamable' = blamable /\ warm' = warm /\ failed' = failed
      /\ up' = up /\ broken' = broken \ {inBuild} /\ failures' = failures /\ at' = at /\ inbox' = inbox
      /\ inBuild' = NoKey /\ cache' = Append(cache, inBuild)
  BY DEF coordinator, BuildDone
<1>3. PICK k : k = inBuild
  OBVIOUS
<1>4. Post("built", k, {}, {})
  BY <1>3 DEF BuildDone, Post
<1>5. QueuesOK'
  <2>1. k \in Keys \cup {NoKey} /\ {} \in SUBSET Keys
    BY <1>1, <1>3
  <2> QED  BY <1>1, <1>2, <1>4, <2>1, PostQueues
<1>6. TicketsOK'
  BY <1>1, <1>2, TicketsStill
<1>7. cache' \in Seq(Keys) /\ Len(cache') = Len(cache) + 1
  BY <1>1, <1>2, AppendProperties DEF WorkerOK
<1>8. Len(cache) + 1 <= MaxIndexes
  BY <1>1 DEF WorkerOK, IndexesBounded
<1>9. IndexesBounded'
  <2>1. Len(cache') <= MaxIndexes /\ Len(cache') \in Nat
    BY <1>7, <1>8, LenProperties
  <2>2. Len(cache') + 0 <= MaxIndexes
    BY <2>1
  <2> QED  BY <1>2, <2>2 DEF IndexesBounded
<1>10. CacheTold' /\ BuildInHand'
  BY <1>1, <1>2 DEF CacheTold, BuildInHand
<1>11. WorkerOK'
  BY <1>1, <1>2, <1>7, <1>9, <1>10 DEF WorkerOK
<1> QED  BY <1>5, <1>6, <1>11 DEF AskInv

LEMMA BuildFailsKeeps == ASSUME AskInv, BuildFails PROVE AskInv'
<1>1. TicketsOK /\ QueuesOK /\ WorkerOK /\ inbox # <<>> /\ inBuild # NoKey /\ at \in Nat /\ at > 0
      /\ inBuild \in Keys
  BY DEF AskInv, BuildFails, WorkerOK, BuildInHand
<1>2. /\ ticket' = ticket /\ askJobs' = askJobs /\ blamable' = blamable /\ warm' = warm /\ failed' = failed
      /\ up' = up /\ broken' = broken \cup {inBuild} /\ failures' = failures \cup {inBuild} /\ at' = at + 1
      /\ inbox' = inbox /\ inBuild' = NoKey /\ cache' = cache
  BY DEF coordinator, BuildFails
<1>3. PICK k : k = inBuild
  OBVIOUS
<1>4. Post("built", k, {k}, {})
  BY <1>3 DEF BuildFails, Post
<1>5. QueuesOK'
  <2>1. k \in Keys \cup {NoKey} /\ {k} \in SUBSET Keys /\ {} \in SUBSET Keys
    BY <1>1, <1>3
  <2> QED  BY <1>1, <1>2, <1>4, <2>1, PostQueues
<1>6. TicketsOK'
  BY <1>1, <1>2, TicketsStill
<1>7. cache \in Seq(Keys) /\ Len(cache) \in Nat /\ Len(cache) + 1 <= MaxIndexes
  BY <1>1, LenProperties DEF WorkerOK, IndexesBounded
<1>8. IndexesBounded'
  <2>1. Len(cache) + 0 <= MaxIndexes
    BY <1>7, AskAssumption
  <2> QED  BY <1>2, <2>1 DEF IndexesBounded
<1>9. CacheTold' /\ BuildInHand'
  BY <1>1, <1>2 DEF CacheTold, BuildInHand
<1>10. WorkerOK'
  BY <1>1, <1>2, <1>8, <1>9 DEF WorkerOK
<1> QED  BY <1>5, <1>6, <1>10 DEF AskInv

\* Every step of the two threads preserves the invariant.
LEMMA NextAskInv == ASSUME AskInv, [AskNext]_askVars PROVE AskInv'
<1>1. CASE \E t \in Tickets : \E list \in CandidateLists : Admit(t, list)
  BY <1>1, AdmitKeeps
<1>2. CASE \E t \in Tickets : RunTicket(t)
  BY <1>2, RunKeeps
<1>3. CASE \E t \in Tickets : ReleaseTicket(t) \/ SettleTicket(t)
  BY <1>3, DoneKeeps
<1>4. CASE \E k \in Keys : Expire(k)
  BY <1>4, ExpireKeeps
<1>5. CASE Deliver
  BY <1>5, DeliverKeeps
<1>6. CASE Deadline \/ Die
  BY <1>6, FailKeeps DEF Deadline, Die
<1>7. CASE WorkerStep
  BY <1>7, TakeKeeps, ExhaustedKeeps, SkipKeeps, HitKeeps, BeginBuildKeeps, BuildDoneKeeps, BuildFailsKeeps
     DEF WorkerStep
<1>8. CASE UNCHANGED askVars
  <2>1. /\ ticket' = ticket /\ askJobs' = askJobs /\ blamable' = blamable /\ warm' = warm /\ failed' = failed
        /\ up' = up /\ inbox' = inbox /\ outbox' = outbox /\ UNCHANGED worker
    BY <1>8 DEF askVars, coordinator
  <2>2. TicketsOK /\ QueuesOK /\ WorkerOK
    BY DEF AskInv
  <2>3. TicketsOK' /\ QueuesOK'
    BY <2>1, <2>2, TicketsStill, QueuesStill
  <2>4. failed' \in SUBSET Keys /\ up' \in BOOLEAN
    BY <2>1, <2>2 DEF WorkerOK
  <2>5. WorkerOK'
    BY <2>1, <2>2, <2>4, WorkerStill
  <2> QED  BY <2>3, <2>5 DEF AskInv
<1> QED  BY <1>1, <1>2, <1>3, <1>4, <1>5, <1>6, <1>7, <1>8 DEF AskNext

\* What the invariant says of each part.
LEMMA AskInvSafe == ASSUME AskInv PROVE AskSafe
<1>1. TicketsOK /\ QueuesOK /\ WorkerOK
  BY DEF AskInv
<1>2. outbox \in Seq(Posted) /\ askJobs \in Seq(Tickets) /\ inbox \in Seq(Tickets)
      /\ InOrder(outbox, askJobs, inbox)
  BY <1>1 DEF TicketsOK, QueuesOK
<1>3. AskTypeOK
  BY <1>1, <1>2 DEF TicketsOK, WorkerOK, AskTypeOK, TicketRecord
<1>4. MirrorExact
  BY <1>1 DEF WorkerOK, CacheTold, MirrorExact
<1>5. MessagesForHead
  BY <1>2, OrderHead DEF MessagesForHead
<1>6. BuildsAuthorised
  <2>1. SUFFICES ASSUME inBuild # NoKey PROVE inBuild \in Building
    BY DEF BuildsAuthorised
  <2>2. inbox # <<>> /\ inBuild \in ticket[inbox[1]].cold \cup ticket[inbox[1]].joined
    BY <1>1, <2>1 DEF WorkerOK, BuildInHand
  <2>3. inbox[1] \in Tickets /\ ticket[inbox[1]].state = "running"
    BY <1>1, <2>2, InWork
  <2>4. inbox[1] \in Tickets \ (TicketsIn("none") \cup TicketsIn("done"))
    BY <2>3 DEF TicketsIn
  <2> QED  BY <2>2, <2>4 DEF Building
<1> QED  BY <1>1, <1>3, <1>4, <1>5, <1>6 DEF TicketsOK, WorkerOK, AskSafe

\* In every reachable state the request thread's picture of the worker is right: the mirror is
\* the cache whenever the worker has nothing more to tell, every message is for the head job,
\* what is being built was authorised by a ticket that is not settled, and the indexes, the
\* requests and the cold builds keep their caps.
THEOREM AskAlwaysSafe == AskSpec => []AskSafe
<1>1. AskInit => AskInv
  BY InitAskInv
<1>2. AskInv /\ [AskNext]_askVars => AskInv'
  BY NextAskInv
<1>3. AskInv => AskSafe
  BY AskInvSafe
<1> QED  BY <1>1, <1>2, <1>3, PTL DEF AskSpec

=============================================================================
