------------------------------ MODULE SemanticLens ------------------------------
(***************************************************************************)
(* The semantic lens of the web viewer: zooming in over an owner reveals   *)
(* its children in place, level by level (system, container, component,    *)
(* code), and zooming out takes the levels back.  The session is a path of *)
(* settled owners and at most one owner in transition; a pan, a drill and  *)
(* a reload of the page move it too.  Transitions have an authored runway  *)
(* of zooms, as in every scene the compiler builds.                        *)
(***************************************************************************)
EXTENDS Integers, Sequences, SequencesExt

CONSTANTS Entities, NoEntity,
          ParentOf,     \* parentId, NoEntity at the top
          LevelOf,      \* 0 context, 1 container, 2 component, 3 code
          Enter, Full,  \* minZoom and fullZoom of the runway that opens an owner
          Hyst, MaxZoom,
          MaxStep       \* the zoom of one wheel event

Deepest == 3

\* Every entity is one level or more below its parent, and a runway has a width.
ASSUME LensAssumption ==
  /\ NoEntity \notin Entities
  /\ ParentOf \in [Entities -> Entities \cup {NoEntity}] /\ LevelOf \in [Entities -> 0 .. Deepest]
  /\ \A e \in Entities : ParentOf[e] # NoEntity => LevelOf[ParentOf[e]] < LevelOf[e]
  /\ Enter \in [Entities -> Nat] /\ Full \in [Entities -> Nat]
  /\ \A e \in Entities : Enter[e] < Full[e]
  /\ Hyst \in Nat /\ MaxZoom \in Nat /\ MaxStep \in Nat

\* One wheel event does not leap over the runway of an owner and that of its parent.  It holds of
\* runways that begin where the bands of their levels do; those that begin when their owner
\* covers half the screen may be closer.
RunwaysApart ==
  \A e \in Entities : ParentOf[e] # NoEntity => Enter[ParentOf[e]] + MaxStep <= Enter[e]

VARIABLES
  lensZoom,
  opened,   \* the path: a target and the level it opens from, each
  owner,    \* the owner in transition
  transfer,  \* focusTransfer: the path before it; empty when there is none
  calm,   \* the reader prefers reduced motion
  carried    \* ghost: targets a pan has put on the path, at whatever zoom it was

lensVars == <<lensZoom, opened, owner, transfer, calm, carried>>

Whole == 12  \* a progress of 1
Owns(progress) == 2 * progress >= Whole

Idle == [phase |-> "idle", target |-> NoEntity, level |-> 0, progress |-> 0]
PathIds(path) == [n \in DOMAIN path |-> path[n].target]
Entry(s) == [target |-> s.target, level |-> s.level]

\* What an entity is in, itself included: it is in every set that has it and is closed under parents.
UpFrom(e) == {S \in SUBSET Entities : /\ e \in S
                                      /\ \A x \in S : ParentOf[x] # NoEntity => ParentOf[x] \in S}
Above == [e \in Entities |-> {x \in Entities : \A S \in UpFrom(e) : x \in S}]
Visible(level) == {e \in Entities : LevelOf[e] <= level}
Branch(target, level) == {e \in Visible(level) : target \in Above[e]}
Expandable(e, level) == level < Deepest /\ Branch(e, level + 1) \ {e} # {}

\* validateSemanticLensPath: what keeps the n-th identifier of a path.
Fits(ids, n) ==
  /\ ids[n] \in Visible(n - 1) /\ Expandable(ids[n], n - 1)
  /\ \A m \in 1 .. n - 1 : ids[m] # ids[n]
  /\ n > 1 => ids[n] \in Branch(ids[n - 1], n - 1)

\* How far a run from 1 on stays inside a set of indices.
RunOf(good) == CHOOSE k \in {0} \cup good : 1 .. k \subseteq good /\ k + 1 \notin good

Validated(ids) ==
  [n \in 1 .. RunOf({n \in DOMAIN ids : Fits(ids, n)}) |-> [target |-> ids[n], level |-> n - 1]]

\* validateRestoredSemanticLensPath: no further than the runways the zoom is on.
Restored(ids, z) ==
  LET path == Validated(ids)
  IN  SubSeq(path, 1, RunOf({n \in DOMAIN path : z + Hyst >= Enter[ids[n]]}))

\* semanticLensCanonicalPathIds: the path the address shows.
Canonical ==
  LET ids == PathIds(opened)
  IN  IF Owns(owner.progress) /\ owner.target \notin ToSet(ids) THEN Append(ids, owner.target) ELSE ids

\* semanticLensSessionDetail.
Detail ==
  IF owner.phase # "idle" THEN owner.level + (IF Owns(owner.progress) THEN 1 ELSE 0)
  ELSE Len(opened)

\* semanticLensZoomProgress.
Blend(target, z) ==
  IF z <= Enter[target] THEN 0
  ELSE IF z >= Full[target] THEN Whole
  ELSE (Whole * (z - Enter[target])) \div (Full[target] - Enter[target])

LensInit ==
  /\ lensZoom = 0 /\ opened = <<>> /\ owner = Idle /\ transfer = <<>>
  /\ calm \in BOOLEAN /\ carried = {}

\* What a step makes of the session; a target that left the path is not carried any more.
Becomes(path, state, source) ==
  /\ opened' = path /\ owner' = state /\ transfer' = source
  /\ carried' = carried \cap ToSet(PathIds(path))
  /\ UNCHANGED calm

-----------------------------------------------------------------------------
(* A sample of a gesture: its direction, the zoom it leads to, the owner   *)
(* under the pointer, whether the lens has been armed for its dwell time   *)
(* with the pointer inside, and whether the gesture has gone quiet.        *)

\* findSemanticLensTarget among the eligible owners.
Candidates ==
  LET pool == IF opened = <<>> THEN Visible(0)
              ELSE Branch(Last(opened).target, Detail) \ ToSet(PathIds(opened))
  IN  {e \in pool : Expandable(e, Detail)}

Turned(s, phase, progress) == [s EXCEPT !.phase = phase, !.progress = progress]
Forward(s, progress) == Turned(s, IF progress = Whole THEN "settled" ELSE "revealing", progress)
Backward(s, progress) == IF progress = 0 THEN Idle ELSE Turned(s, "reversing", progress)

\* Mutant of Reversed: going back, the blend stays what it was until the runway is left.
ReversedLate(s, at) ==
  IF at.dir = "inward" THEN Forward(s, Blend(s.target, at.zoom))
  ELSE IF at.zoom <= Enter[s.target] THEN Idle ELSE Turned(s, "reversing", s.progress)

Reversed(s, at) ==
  LET progress == Blend(s.target, at.zoom)
  IN  IF at.dir = "inward" THEN Forward(s, progress) ELSE Backward(s, progress)

Revealed(s, at) ==
  LET progress == Blend(s.target, at.zoom)
  IN  IF at.dir = "outward" THEN Backward(s, progress)
      ELSE IF at.dir = "none" /\ at.zoom < Enter[s.target] - Hyst THEN Idle
      ELSE Forward(s, IF progress > s.progress THEN progress ELSE s.progress)

Committed(s, at) ==
  IF (calm /\ at.quiet) \/ (~calm /\ at.zoom >= Full[s.target])
  THEN Turned(s, "settled", Whole)
  ELSE IF calm THEN s ELSE Turned(s, "revealing", Blend(s.target, at.zoom))

Aimed(s, at) ==
  IF at.dir = "outward" THEN Idle
  ELSE IF at.dir = "none" /\ at.zoom < Enter[s.target] - Hyst THEN Idle
  ELSE IF at.dwelt /\ at.zoom >= Enter[s.target] /\ (at.dir = "inward" \/ at.quiet)
       THEN Committed(s, at) ELSE s

Armed(at) ==
  IF at.dir = "inward" /\ at.over # NoEntity /\ at.zoom >= Enter[at.over]
  THEN [phase |-> "armed", target |-> at.over, level |-> Detail, progress |-> 0] ELSE Idle

\* reduceSemanticLens.
Reduced(s, at) ==
  IF s.phase = "idle" THEN Armed(at)
  ELSE IF s.phase = "armed" THEN Aimed(s, at)
  ELSE IF s.phase = "reversing" THEN Reversed(s, at)
  ELSE Revealed(s, at)

\* reduceSemanticLensSession, with an owner in transition or none.
Transition(at) ==
  /\ owner.phase # "idle"
  /\ LET state == Reduced(owner, at)
     IN  IF state.phase # "settled" THEN Becomes(opened, state, transfer)
         ELSE IF state.target \in ToSet(PathIds(opened)) THEN Becomes(opened, Idle, transfer)
         ELSE Becomes(Append(opened, Entry(state)), Idle, transfer)

Unsettle(at) ==
  /\ owner.phase = "idle" /\ at.dir = "outward" /\ opened # <<>>
  /\ LET deepest == Last(opened)
     IN  IF at.zoom >= Full[deepest.target] THEN Becomes(opened, owner, transfer)
         ELSE Becomes(Front(opened),
                      Reduced([phase |-> "settled", target |-> deepest.target,
                               level |-> deepest.level, progress |-> Whole], at),
                      transfer)

Target(at) ==
  /\ owner.phase = "idle" /\ ~(at.dir = "outward" /\ opened # <<>>)
  /\ Becomes(opened, Reduced(owner, at), transfer)

\* A step of the wheel or the pinch, or of the frames and the timer that follow it.
Reached(dir) ==
  {z \in 0 .. MaxZoom : /\ dir = "inward" => z \in lensZoom .. lensZoom + MaxStep
                        /\ dir = "outward" => z \in lensZoom - MaxStep .. lensZoom
                        /\ dir = "none" => z = lensZoom}

Sample ==
  \E dir \in {"inward", "outward", "none"} : \E z \in Reached(dir),
     dwelt \in BOOLEAN, quiet \in {dir = "none", FALSE}, over \in Candidates \cup {NoEntity} :
    LET at == [dir |-> dir, zoom |-> z, dwelt |-> dwelt, quiet |-> quiet, over |-> over]
    IN  /\ lensZoom' = z
        /\ Transition(at) \/ Unsettle(at) \/ Target(at)

-----------------------------------------------------------------------------
(* The other ways to move the session.                                     *)

\* semanticLensSessionGhostEntities: the siblings of the n-th owner that stay in sight.
Siblings(path, n) ==
  LET open == path[n].target
  IN  {e \in Entities : /\ e # open /\ LevelOf[e] = path[n].level /\ ParentOf[e] = ParentOf[open]
                        /\ e \notin Branch(Last(path).target, Last(path).level + 1)
                        /\ e \notin ToSet(PathIds(path))}

Beside(n, e) == Append(PathIds(SubSeq(opened, 1, n - 1)), e)

\* semanticPanFocusPlan, when a drag has rested: a lens that is only armed is let go, one that
\* moves stays, and the focus may go to a sibling of the deepest owner, under the centre of the
\* screen.
Pan ==
  /\ owner.phase \notin {"revealing", "reversing"}
  /\ \/ Becomes(opened, Idle, transfer)
     \/ /\ transfer = <<>> /\ opened # <<>>
        /\ \E e \in Siblings(opened, Len(opened)) :
             LET ids == Beside(Len(opened), e)
             IN  /\ Len(Validated(ids)) = Len(ids)
                 /\ opened' = Validated(ids) /\ owner' = Idle /\ transfer' = opened
                 /\ carried' = (carried \cap ToSet(ids)) \cup {e}
                 /\ UNCHANGED calm
  /\ UNCHANGED lensZoom

\* The frames of a transfer, to the last.
FinishTransfer == transfer # <<>> /\ Becomes(opened, owner, <<>>) /\ UNCHANGED lensZoom

\* semanticOpenNextLayer: the path that opens an entity, if one does.
OpenedPath(e) ==
  LET beside == {n \in DOMAIN opened : e \in Siblings(opened, n)}
      ids == IF beside = {} THEN Append(PathIds(opened), e) ELSE Beside(CHOOSE n \in beside : TRUE, e)
      opens == /\ owner.phase = "idle" /\ transfer = <<>> /\ e \notin ToSet(PathIds(opened))
               /\ LevelOf[e] = Len(ids) - 1
               /\ Len(Validated(ids)) = Len(ids)
  IN  IF opens THEN Validated(ids) ELSE <<>>

\* The drill frames what it opens: the camera comes to rest past the runway.
Open(e) ==
  /\ OpenedPath(e) # <<>>
  /\ Becomes(OpenedPath(e), Idle,
             IF \E n \in DOMAIN opened : e \in Siblings(opened, n) THEN opened ELSE <<>>)
  /\ lensZoom' \in Full[e] .. MaxZoom

\* cancelSemanticLensAt.
Cancel ==
  /\ owner.phase # "idle" \/ opened # <<>>
  /\ Becomes(<<>>, Idle, <<>>) /\ UNCHANGED lensZoom

\* The page is loaded again, or the browser goes back to it, with the address it left.
Reload == Becomes(Restored(Canonical, lensZoom), Idle, <<>>) /\ UNCHANGED lensZoom

LensNext ==
  \/ Sample \/ Pan \/ FinishTransfer \/ Cancel \/ Reload
  \/ \E e \in Entities : Open(e)

LensSpec == LensInit /\ [][LensNext]_lensVars

-----------------------------------------------------------------------------
(* Properties.                                                             *)

\* Whatever gestures, drills, pans and reloads interrupt one another, the owners of the path,
\* the one in transition and those of the path a transfer fades out are a path the validation
\* would accept: a lens never opens an owner that is not in the branch above it.
PathCoherent ==
  LET path == IF owner.phase = "idle" THEN opened ELSE Append(opened, Entry(owner))
  IN  path = Validated(PathIds(path)) /\ transfer = Validated(PathIds(transfer))

\* "The same camera zoom always resolves to the same representation blend"
\* (semanticLens.ts): what is half revealed does not depend on the way the zoom was reached.
SameZoomSameBlend ==
  owner.phase \in {"revealing", "reversing"} => owner.progress = Blend(owner.target, lensZoom)

\* Loading the page again shows what was there: no owner of the path is beyond the zoom, unless
\* a pan has carried the focus to an owner whose runway begins later.  Where one event of the
\* wheel leaps over two runways it may pop one owner and leave another beyond the zoom.
ReloadShowsTheSame ==
  RunwaysApart /\ carried \cap ToSet(Canonical) = {} => PathIds(Restored(Canonical, lensZoom)) = Canonical

\* What can be picked opens: at rest, each child of the deepest owner and each sibling beside
\* it that has children of its own is opened by a drill.
PickedOpens ==
  LET pickable == IF opened = <<>> THEN Visible(0)
                  ELSE (Branch(Last(opened).target, Len(opened)) \cup Siblings(opened, Len(opened)))
                       \ ToSet(PathIds(opened))
  IN  (owner.phase = "idle" /\ transfer = <<>>) =>
        \A e \in pickable : Expandable(e, LevelOf[e]) => OpenedPath(e) # <<>>

LensSafe == PathCoherent /\ SameZoomSameBlend /\ ReloadShowsTheSame /\ PickedOpens
=============================================================================
