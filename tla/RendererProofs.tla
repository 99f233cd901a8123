---------------------------- MODULE RendererProofs ----------------------------
(***************************************************************************)
(* Proofs about the renderer.  Its engine, for any finite set of objects,  *)
(* any places, views and lengths of an animation: what has been resolved   *)
(* to an index means its object whatever patches, filters and timelines    *)
(* follow one another, and nothing jumps.  The level of detail, for any    *)
(* lists and ranges of representations wider than their hysteresis:        *)
(* whatever zooms and patches overtake a handoff, nothing pops, flickers   *)
(* or rests on a blend.                                                    *)
(***************************************************************************)
EXTENDS Renderer, FiniteSetTheorems, WellFoundedInduction, TLAPS

-----------------------------------------------------------------------------
(* The renderer's engine.                                                  *)

LEMMA IndexIsNat ==
  ASSUME NEW s, NEW i
  PROVE  IndexIn(s, i) \in Nat
<1> DEFINE before == {j \in Present(s) : j <= i}
<1>1. IsFiniteSet(before)
  BY EngineAssumption, FS_Subset DEF Present
<1> QED
  BY <1>1, FS_CardinalityType DEF IndexIn

\* Indices depend on which objects there are, not on where they are.
LEMMA SameIndices ==
  ASSUME NEW s, NEW t, Present(s) = Present(t)
  PROVE  /\ \A i : IndexIn(s, i) = IndexIn(t, i)
         /\ \A f : Shows(f, s) = Shows(f, t)
         /\ \A v \in Overrides \cup {Absent} : Resolved(v, s) = Resolved(v, t)
<1>1. \A i : IndexIn(s, i) = IndexIn(t, i)
  BY DEF IndexIn
<1>2. \A f : Shows(f, s) = Shows(f, t)
  BY <1>1 DEF Shows
<1>3. ASSUME NEW v \in Overrides
      PROVE  Resolved(v, s) = Resolved(v, t)
  <2>1. v.id \in Ids
    BY DEF Overrides
  <2>2. s[v.id] # Absent <=> t[v.id] # Absent
    BY <2>1 DEF Present
  <2> QED
    BY <1>1, <2>2 DEF Resolved, OverrideOn
<1> QED
  BY <1>1, <1>2, <1>3 DEF Resolved

LEMMA AppliedFits ==
  ASSUME NEW patch \in Patches, NEW base \in Scenes
  PROVE  Applied(patch, base) \in Scenes
BY EngineAssumption DEF Applied, Patches, Scenes

LEMMA UnionFits ==
  ASSUME NEW from \in Scenes, NEW target \in Scenes
  PROVE  /\ Union(from, target) \in Scenes
         /\ Present(Union(from, target)) = Present(from) \cup Present(target)
BY DEF Union, Scenes, Present

LEMMA EasesFit ==
  ASSUME NEW ease \in Easings, NEW t \in 0 .. FullTime
  PROVE  ease[t] \in Int
<1>1. ease \in [0 .. FullTime -> 0 .. 100]
  BY EngineAssumption
<1>2. ease[t] \in 0 .. 100
  BY <1>1
<1> QED
  BY <1>2

\* In the middle of an animation the objects of both ends are there.
LEMMA BetweenFits ==
  ASSUME NEW from \in Scenes, NEW target \in Scenes, NEW way \in Int
  PROVE  /\ Between(from, target, way) \in Scenes
         /\ Present(Between(from, target, way)) = Present(from) \cup Present(target)
<1> DEFINE mid == Between(from, target, way)
<1>1. ASSUME NEW i \in Ids
      PROVE  /\ mid[i] \in Int \cup {Absent}
             /\ mid[i] # Absent <=> (from[i] # Absent \/ target[i] # Absent)
  <2>1. CASE from[i] = Absent \/ target[i] = Absent
    BY <2>1 DEF Between, Union, Scenes
  <2>2. CASE from[i] # Absent /\ target[i] # Absent
    <3>1. from[i] \in Int /\ target[i] \in Int
      BY <2>2 DEF Scenes
    <3>2. /\ (target[i] - from[i]) * way \in Int
          /\ (from[i] - target[i]) * way \in Int
      BY <3>1
    <3>3. /\ ((target[i] - from[i]) * way) \div 100 \in Int
          /\ ((from[i] - target[i]) * way) \div 100 \in Int
      BY <3>2
    <3>4. mid[i] \in Int
      BY <2>2, <3>1, <3>3 DEF Between
    <3> QED
      BY <2>2, <3>4, EngineAssumption
  <2> QED
    BY <2>1, <2>2
<1>2. mid = [i \in Ids |-> mid[i]]
  BY DEF Between
<1> QED
  BY <1>1, <1>2 DEF Scenes, Present

\* What is drawn, and what was resolved to an index of it.
EngineTypes ==
  /\ scene \in Scenes /\ canonical \in Scenes
  /\ transition \in Transitions \cup {Absent}
  /\ override \in Overrides \cup {Absent}
  /\ timeline \in Timelines \cup {Absent}
  /\ torn \in BOOLEAN

\* An animation draws the objects of both ends.
Spread ==
  transition # Absent =>
    Present(scene) = Present(transition.from) \cup Present(transition.target)

\* Who moves the camera: a timeline does not play under the user's hand.
HandsOff == held /\ timeline # Absent => ~timeline.playing

EngineInv == EngineTypes /\ Spread /\ PatchesCompose /\ ResolutionsFit /\ CameraOwned /\ HandsOff

LEMMA EngineStarts == EngineInit => EngineInv
<1> SUFFICES ASSUME EngineInit
             PROVE  EngineInv
  OBVIOUS
<1>1. EngineTypes
  BY EngineAssumption DEF EngineInit, EngineTypes, Scenes
<1>2. Spread /\ PatchesCompose /\ ResolutionsFit
  BY DEF EngineInit, Spread, PatchesCompose, ResolutionsFit
<1>3. CameraOwned /\ HandsOff
  BY DEF EngineInit, CameraOwned, HandsOff
<1> QED
  BY <1>1, <1>2, <1>3 DEF EngineInv

\* Resolving again changes nothing while the objects stay.
LEMMA ResolvedTwice ==
  ASSUME NEW v \in Overrides \cup {Absent}, NEW s
  PROVE  /\ Resolved(v, s) \in Overrides \cup {Absent}
         /\ Resolved(Resolved(v, s), s) = Resolved(v, s)
<1>1. CASE v = Absent
  BY <1>1 DEF Resolved
<1>2. CASE v \in Overrides
  <2>1. v.id \in Ids /\ OverrideOn(s, v.id) \in Overrides /\ OverrideOn(s, v.id).id = v.id
    BY <1>2, IndexIsNat DEF Overrides, OverrideOn
  <2> QED
    BY <2>1 DEF Resolved
<1> QED
  BY <1>1, <1>2

LEMMA InstallFits ==
  ASSUME EngineInv, NEW s \in Scenes, Install(s)
  PROVE  /\ ResolutionsFit' /\ scene' = s /\ timeline' = Absent
         /\ override' \in Overrides \cup {Absent}
<1>1. /\ override' = Resolved(override, s) /\ scene' = s /\ timeline' = Absent
      /\ visible' = Shows(filter', s) /\ selected' = IF selected \in Present(s) THEN selected ELSE Absent
  BY DEF Install
<1>2. /\ override' \in Overrides \cup {Absent}
      /\ Resolved(override', s) = override'
  BY <1>1, ResolvedTwice DEF EngineInv, EngineTypes
<1>3. (override # Absent => override = Resolved(override, scene))'
  BY <1>1, <1>2 DEF Resolved, OverrideOn, IndexIn, Present
<1>4. (visible = Shows(filter, scene))'
  BY <1>1 DEF Shows, IndexIn, Present
<1>5. (selected = Absent \/ selected \in Present(scene))'
  BY <1>1 DEF Present
<1> QED
  BY <1>1, <1>2, <1>3, <1>4, <1>5 DEF ResolutionsFit

LEMMA ApplyKeeps ==
  ASSUME EngineInv, NEW patch \in Patches, NEW animated \in BOOLEAN, ApplyPatch(patch, animated)
  PROVE  EngineInv' /\ NoJump
<1> DEFINE target == Applied(patch, Base)
<1>0. /\ EngineTypes /\ PatchesCompose /\ CameraOwned /\ HandsOff
  BY DEF EngineInv
<1>1. Base \in Scenes
  BY <1>0 DEF Base, EngineTypes, Transitions
<1>2. target \in Scenes /\ Applied(patch, canonical) \in Scenes
  BY <1>0, <1>1, AppliedFits DEF EngineTypes
<1>3. UNCHANGED <<camera, reduced, torn, held>> /\ canonical' = Applied(patch, canonical)
  BY DEF ApplyPatch
<1>4. CASE animated
  <2>1. /\ Install(Union(scene, target))
        /\ \E ease \in Easings :
             transition' = [from |-> scene, target |-> target, time |-> 0, ticked |-> FALSE,
                            ease |-> ease]
    BY <1>4 DEF ApplyPatch
  <2>2. /\ Union(scene, target) \in Scenes
        /\ Present(Union(scene, target)) = Present(scene) \cup Present(target)
    BY <1>0, <1>2, UnionFits DEF EngineTypes
  <2>3. /\ ResolutionsFit' /\ scene' = Union(scene, target) /\ timeline' = Absent
        /\ override' \in Overrides \cup {Absent}
    BY <2>1, <2>2, InstallFits
  <2>4. transition' \in Transitions /\ transition' # Absent
    <3>1. transition' \in Transitions
      BY <1>0, <1>2, <2>1 DEF EngineTypes, Transitions
    <3> QED
      BY <3>1, EngineAssumption
  <2>5. EngineTypes'
    BY <1>0, <1>2, <1>3, <2>2, <2>3, <2>4 DEF EngineTypes
  <2>6. Spread'
    BY <2>1, <2>2, <2>3 DEF Spread, Present
  <2>7. PatchesCompose'
    BY <1>0, <1>3, <2>1, <2>4 DEF PatchesCompose, Base
  <2>8. CameraOwned' /\ HandsOff'
    BY <1>0, <1>3, <2>3 DEF CameraOwned, HandsOff
  <2>9. NoJump
    BY <2>3 DEF NoJump, Union, Present
  <2> QED
    BY <2>3, <2>5, <2>6, <2>7, <2>8, <2>9 DEF EngineInv
<1>5. CASE ~animated
  <2>1. Install(target) /\ transition' = Absent
    BY <1>5 DEF ApplyPatch
  <2>2. /\ ResolutionsFit' /\ scene' = target /\ timeline' = Absent
        /\ override' \in Overrides \cup {Absent}
    BY <1>2, <2>1, InstallFits
  <2>3. EngineTypes'
    BY <1>0, <1>2, <1>3, <2>1, <2>2 DEF EngineTypes
  <2>4. Spread' /\ NoJump
    BY <2>1 DEF Spread, NoJump
  <2>5. PatchesCompose'
    BY <1>0, <1>3, <2>1, <2>2 DEF PatchesCompose, Base
  <2>6. CameraOwned' /\ HandsOff'
    BY <1>0, <1>3, <2>2 DEF CameraOwned, HandsOff
  <2> QED
    BY <2>2, <2>3, <2>4, <2>5, <2>6 DEF EngineInv
<1> QED
  BY <1>4, <1>5

LEMMA RefuseKeeps ==
  ASSUME EngineInv, RefusePatch
  PROVE  EngineInv'
<1>1. /\ UNCHANGED <<scene, filter, visible, override, selected, timeline, camera, canonical, stale, held>>
      /\ transition' = Absent /\ torn' = (torn \/ transition # Absent)
  BY DEF RefusePatch, resolved
<1>2. EngineTypes' /\ Spread'
  BY <1>1 DEF EngineInv, EngineTypes, Spread
<1>3. PatchesCompose'
  BY <1>1 DEF EngineInv, PatchesCompose
<1>4. ResolutionsFit'
  BY <1>1 DEF EngineInv, ResolutionsFit, Resolved, OverrideOn, Shows, IndexIn, Present
<1>5. CameraOwned' /\ HandsOff'
  BY <1>1 DEF EngineInv, CameraOwned, HandsOff
<1> QED
  BY <1>2, <1>3, <1>4, <1>5 DEF EngineInv

\* What a step leaves of the scene, and what it sets anew on it.
LEMMA OnSameScene ==
  ASSUME EngineInv, UNCHANGED <<scene, transition, canonical, torn>>,
         override' \in Overrides \cup {Absent}, timeline' \in Timelines \cup {Absent}
  PROVE  EngineTypes' /\ Spread' /\ PatchesCompose'
BY DEF EngineInv, EngineTypes, Spread, PatchesCompose

LEMMA SetsKeep ==
  ASSUME EngineInv,
         \/ \E f \in Filters : SetVisibility(f)
         \/ \E i \in Ids \cup {Absent} : SetOverride(i) \/ SelectAt(i)
  PROVE  EngineInv'
<1>0. EngineTypes /\ ResolutionsFit /\ CameraOwned /\ HandsOff
  BY DEF EngineInv
<1> USE DEF ResolutionsFit
<1>1. CASE \E f \in Filters : SetVisibility(f)
  <2>1. PICK f \in Filters : SetVisibility(f)
    BY <1>1
  <2>2. /\ UNCHANGED <<scene, transition, canonical, torn, override, selected, timeline, camera, held>>
        /\ filter' = f /\ visible' = Shows(f, scene) /\ stale' = stale \ {"filter"}
    BY <2>1 DEF SetVisibility, drawn, ghosts
  <2>3. ResolutionsFit'
    BY <1>0, <2>2 DEF Resolved, OverrideOn, Shows, IndexIn, Present
  <2>4. CameraOwned' /\ HandsOff'
    BY <1>0, <2>2 DEF CameraOwned, HandsOff
  <2> QED
    BY <1>0, <2>2, <2>3, <2>4, OnSameScene DEF EngineInv, EngineTypes
<1>2. ASSUME NEW i \in Ids \cup {Absent}, SetOverride(i)
      PROVE  EngineInv'
  <2>1. /\ UNCHANGED <<scene, transition, canonical, torn, filter, visible, selected, timeline, camera, stale, held>>
        /\ i \in Present(scene) \/ i = Absent
        /\ override' = IF i = Absent THEN Absent ELSE OverrideOn(scene, i)
    BY <1>2 DEF SetOverride, drawn, ghosts
  <2>2. /\ override' \in Overrides \cup {Absent}
        /\ override' # Absent => override' = Resolved(override', scene)
    <3>1. CASE i = Absent
      BY <2>1, <3>1
    <3>2. CASE i # Absent
      <4>1. i \in Ids /\ i \in Present(scene) /\ override' = OverrideOn(scene, i)
        BY <2>1, <3>2
      <4>2. OverrideOn(scene, i) \in Overrides /\ OverrideOn(scene, i).id = i
        BY <4>1, IndexIsNat DEF Overrides, OverrideOn
      <4> QED
        BY <4>1, <4>2 DEF Resolved, Present
    <3> QED
      BY <3>1, <3>2
  <2>3. ResolutionsFit'
    BY <1>0, <2>1, <2>2 DEF Resolved, OverrideOn, Shows, IndexIn, Present
  <2>4. CameraOwned' /\ HandsOff'
    BY <1>0, <2>1 DEF CameraOwned, HandsOff
  <2> QED
    BY <1>0, <2>1, <2>2, <2>3, <2>4, OnSameScene DEF EngineInv, EngineTypes
<1>3. ASSUME NEW i \in Ids \cup {Absent}, SelectAt(i)
      PROVE  EngineInv'
  <2>1. /\ UNCHANGED <<scene, transition, canonical, torn, filter, visible, override, timeline, camera, held>>
        /\ i = Absent \/ i \in Present(scene)
        /\ selected' = i /\ stale' = stale \ {"selection"}
    BY <1>3 DEF SelectAt, drawn, ghosts
  <2>2. ResolutionsFit'
    BY <1>0, <2>1 DEF Resolved, OverrideOn, Shows, IndexIn, Present
  <2>3. CameraOwned' /\ HandsOff'
    BY <1>0, <2>1 DEF CameraOwned, HandsOff
  <2> QED
    BY <1>0, <2>1, <2>2, <2>3, OnSameScene DEF EngineInv, EngineTypes
<1> QED
  BY <1>1, <1>2, <1>3

\* A step that lets the scene be and keeps the timeline's place in it.
LEMMA StoryFits ==
  ASSUME EngineInv, UNCHANGED <<scene, transition, canonical, torn, filter, visible, override, selected>>,
         timeline' \in Timelines \cup {Absent},
         stale' = stale \/ stale' = stale \ {"timeline"},
         timeline' # Absent /\ "timeline" \notin stale' => timeline'.index = IndexIn(scene, timeline'.id)
  PROVE  EngineTypes' /\ Spread' /\ PatchesCompose' /\ ResolutionsFit'
<1>1. EngineTypes' /\ Spread' /\ PatchesCompose'
  BY OnSameScene DEF EngineInv, EngineTypes
<1>2. ResolutionsFit'
  BY DEF EngineInv, ResolutionsFit, Resolved, OverrideOn, Shows, IndexIn, Present
<1> QED
  BY <1>1, <1>2

\* Pausing changes nothing else of a timeline.
LEMMA PausedStory ==
  ASSUME NEW s \in Timelines \cup {Absent}
  PROVE  /\ Paused(s) \in Timelines \cup {Absent}
         /\ Paused(s) = Absent <=> s = Absent
         /\ s # Absent => /\ Paused(s).id = s.id /\ Paused(s).index = s.index
                          /\ Paused(s).moves = s.moves /\ Paused(s).time = s.time
                          /\ ~Paused(s).playing
<1>1. CASE s = Absent
  BY <1>1 DEF Paused
<1>2. CASE s \in Timelines
  <2>1. s # Absent
    BY <1>2, EngineAssumption
  <2>2. Paused(s) = [s EXCEPT !.playing = FALSE, !.ticked = FALSE]
    BY <2>1 DEF Paused
  <2>3. Paused(s) \in Timelines
    BY <1>2, <2>2 DEF Timelines
  <2>4. /\ Paused(s).id = s.id /\ Paused(s).index = s.index
        /\ Paused(s).moves = s.moves /\ Paused(s).time = s.time
        /\ ~Paused(s).playing
    BY <1>2, <2>2 DEF Timelines
  <2> QED
    BY <2>1, <2>3, <2>4, EngineAssumption
<1> QED
  BY <1>1, <1>2

LEMMA StoriesKeep ==
  ASSUME EngineInv,
         \/ \E i \in Ids, moves, looped \in BOOLEAN : SetTimeline(i, moves, looped)
         \/ \E t \in 0 .. FullTime : SeekTimeline(t)
         \/ Play
         \/ \E value \in BOOLEAN : SetReducedMotion(value)
         \/ \E view \in HostViews : UserMoves(view) \/ HostMoves(view)
  PROVE  EngineInv'
<1>0. /\ EngineTypes /\ ResolutionsFit /\ CameraOwned /\ HandsOff
      /\ timeline \in Timelines \cup {Absent}
      /\ timeline # Absent /\ "timeline" \notin stale => timeline.index = IndexIn(scene, timeline.id)
  BY DEF EngineInv, EngineTypes, ResolutionsFit
<1>1. ASSUME NEW i \in Ids, NEW moves \in BOOLEAN, NEW looped \in BOOLEAN, SetTimeline(i, moves, looped)
      PROVE  EngineInv'
  <2> DEFINE s == [id |-> i, index |-> IndexIn(scene, i), moves |-> moves, looped |-> looped,
                   time |-> 0, playing |-> FALSE, ticked |-> FALSE]
  <2>1. /\ UNCHANGED <<scene, transition, canonical, torn, filter, visible, override, selected>>
        /\ stale' = stale \ {"timeline"} /\ held' = FALSE
        /\ timeline' = [s EXCEPT !.time = 0, !.ticked = FALSE]
        /\ camera' = IF s.moves THEN Sampled(0) ELSE camera
    BY <1>1 DEF SetTimeline, Seek, drawn, ghosts
  <2>2. timeline' = s /\ s \in Timelines
    BY <2>1, IndexIsNat DEF Timelines
  <2>3. CameraOwned' /\ HandsOff'
    BY <2>1, <2>2 DEF CameraOwned, HandsOff, Sampled
  <2>4. EngineTypes' /\ Spread' /\ PatchesCompose' /\ ResolutionsFit'
    BY <2>1, <2>2, StoryFits
  <2> QED
    BY <2>3, <2>4 DEF EngineInv
<1>2. ASSUME NEW t \in 0 .. FullTime, SeekTimeline(t)
      PROVE  EngineInv'
  <2>1. /\ UNCHANGED <<scene, transition, canonical, torn, filter, visible, override, selected, stale>>
        /\ held' = FALSE /\ timeline # Absent
        /\ timeline' = [timeline EXCEPT !.time = t, !.ticked = FALSE]
        /\ camera' = IF timeline.moves THEN Sampled(t) ELSE camera
    BY <1>2 DEF SeekTimeline, Seek, drawn, ghosts
  <2>2. timeline \in Timelines /\ t \in Nat
    BY <1>0, <2>1, EngineAssumption
  <2>3. timeline' \in Timelines
    BY <2>1, <2>2 DEF Timelines
  <2>4. /\ timeline'.id = timeline.id /\ timeline'.index = timeline.index
        /\ timeline'.moves = timeline.moves /\ timeline'.time = t
    BY <2>1, <2>2 DEF Timelines
  <2>5. CameraOwned' /\ HandsOff'
    BY <1>0, <2>1, <2>4 DEF CameraOwned, HandsOff, Sampled
  <2>6. EngineTypes' /\ Spread' /\ PatchesCompose' /\ ResolutionsFit'
    BY <1>0, <2>1, <2>3, <2>4, StoryFits
  <2> QED
    BY <2>5, <2>6 DEF EngineInv
<1>3. CASE Play
  <2>1. /\ UNCHANGED <<scene, transition, canonical, torn, filter, visible, override, selected, stale, camera>>
        /\ held' = FALSE /\ timeline # Absent
        /\ timeline' = [Paused(timeline) EXCEPT !.playing = ~reduced]
    BY <1>3 DEF Play, drawn, ghosts
  <2>2. Paused(timeline) \in Timelines
    BY <1>0, <2>1, PausedStory, EngineAssumption
  <2>3. timeline' \in Timelines
    BY <2>1, <2>2 DEF Timelines
  <2>4. /\ timeline'.id = timeline.id /\ timeline'.index = timeline.index
        /\ timeline'.moves = timeline.moves /\ timeline'.time = timeline.time
    <3>1. /\ timeline'.id = Paused(timeline).id /\ timeline'.index = Paused(timeline).index
          /\ timeline'.moves = Paused(timeline).moves /\ timeline'.time = Paused(timeline).time
      BY <2>1, <2>2 DEF Timelines
    <3> QED
      BY <1>0, <2>1, <3>1, PausedStory
  <2>5. CameraOwned' /\ HandsOff'
    BY <1>0, <2>1, <2>4 DEF CameraOwned, HandsOff
  <2>6. EngineTypes' /\ Spread' /\ PatchesCompose' /\ ResolutionsFit'
    BY <1>0, <2>1, <2>3, <2>4, StoryFits
  <2> QED
    BY <2>5, <2>6 DEF EngineInv
<1>4. ASSUME UNCHANGED <<scene, transition, canonical, torn, filter, visible, override, selected, stale>>,
             timeline' = Paused(timeline) \/ timeline' = timeline
      PROVE  EngineTypes' /\ Spread' /\ PatchesCompose' /\ ResolutionsFit'
  BY <1>0, <1>4, PausedStory, StoryFits
<1>5. ASSUME NEW value \in BOOLEAN, SetReducedMotion(value)
      PROVE  EngineInv'
  <2>1. /\ UNCHANGED <<scene, transition, canonical, torn, filter, visible, override, selected, stale, camera, held>>
        /\ timeline' = Paused(timeline) \/ timeline' = timeline
    BY <1>5 DEF SetReducedMotion, drawn, ghosts
  <2>2. CameraOwned' /\ HandsOff'
    BY <1>0, <2>1, PausedStory DEF CameraOwned, HandsOff
  <2> QED
    BY <1>4, <2>1, <2>2 DEF EngineInv
<1>6. ASSUME NEW view \in HostViews, UserMoves(view)
      PROVE  EngineInv'
  <2>1. /\ UNCHANGED <<scene, transition, canonical, torn, filter, visible, override, selected, stale>>
        /\ timeline' = Paused(timeline) /\ camera' = view /\ held' = TRUE
    BY <1>6 DEF UserMoves, drawn, ghosts
  <2>2. CameraOwned' /\ HandsOff'
    BY <1>0, <2>1, PausedStory DEF CameraOwned, HandsOff
  <2> QED
    BY <1>4, <2>1, <2>2 DEF EngineInv
<1>7. ASSUME NEW view \in HostViews, HostMoves(view)
      PROVE  EngineInv'
  <2>1. /\ UNCHANGED <<scene, transition, canonical, torn, filter, visible, override, selected, stale, timeline, held>>
        /\ camera' = view
    BY <1>7 DEF HostMoves, drawn, resolved, ghosts
  <2>2. CameraOwned' /\ HandsOff'
    BY <1>0, <2>1 DEF CameraOwned, HandsOff
  <2> QED
    BY <1>4, <2>1, <2>2 DEF EngineInv
<1> QED
  BY <1>1, <1>2, <1>3, <1>5, <1>6, <1>7

\* The player's part of a frame.
LEMMA PlayerTicks ==
  ASSUME EngineInv, NEW elapsed \in Nat, TickTimeline(elapsed), held' = held
  PROVE  /\ timeline' \in Timelines \cup {Absent}
         /\ timeline' # Absent => timeline # Absent /\ timeline'.id = timeline.id /\ timeline'.index = timeline.index
         /\ CameraOwned' /\ HandsOff'
<1>0. timeline \in Timelines \cup {Absent} /\ CameraOwned /\ HandsOff
  BY DEF EngineInv, EngineTypes
<1>1. CASE UNCHANGED <<timeline, camera>>
  BY <1>0, <1>1 DEF CameraOwned, HandsOff
<1>2. CASE timeline # Absent /\ timeline.playing
  <2> DEFINE time == timeline.time + (IF timeline.ticked THEN elapsed ELSE 0)
             over == timeline.ticked /\ time >= FullTime
             at == IF ~over THEN time ELSE IF timeline.looped THEN time % FullTime ELSE FullTime
             plays == ~over \/ timeline.looped
  <2>1. timeline \in Timelines /\ ~held
    BY <1>0, <1>2 DEF HandsOff
  <2>2. time \in Nat
    BY <2>1 DEF Timelines
  <2>3. at \in Nat
    BY <2>2, EngineAssumption
  <2>4. /\ timeline' = [timeline EXCEPT !.time = at, !.ticked = TRUE, !.playing = plays]
        /\ camera' = IF timeline.moves THEN Sampled(at) ELSE camera
    BY <1>2 DEF TickTimeline
  <2> HIDE DEF at
  <2>5. plays \in BOOLEAN /\ TRUE \in BOOLEAN
    BY <2>1 DEF Timelines
  <2> HIDE DEF plays
  <2>6. /\ timeline' \in Timelines /\ timeline'.id = timeline.id /\ timeline'.index = timeline.index
        /\ timeline'.moves = timeline.moves /\ timeline'.time = at
    <3>1. timeline' \in Timelines
      BY <2>1, <2>3, <2>4, <2>5 DEF Timelines
    <3>2. timeline'.id = timeline.id /\ timeline'.index = timeline.index
      BY <2>1, <2>4 DEF Timelines
    <3>3. timeline'.moves = timeline.moves /\ timeline'.time = at
      BY <2>1, <2>4 DEF Timelines
    <3> QED
      BY <3>1, <3>2, <3>3
  <2>7. CameraOwned' /\ HandsOff'
    BY <1>0, <1>2, <2>1, <2>4, <2>6 DEF CameraOwned, HandsOff, Sampled
  <2> QED
    BY <1>2, <2>6, <2>7
<1> QED
  BY <1>1, <1>2 DEF TickTimeline

\* The scene's part of a frame.
LEMMA TransitionTicks ==
  ASSUME EngineInv, NEW elapsed \in Nat, TickTransition(elapsed), UNCHANGED <<canonical, torn>>
  PROVE  /\ scene' \in Scenes /\ transition' \in Transitions \cup {Absent}
         /\ override' \in Overrides \cup {Absent}
         /\ Spread' /\ PatchesCompose'
         /\ override' # Absent => override' = Resolved(override', scene')
         /\ \/ Present(scene') = Present(scene) /\ stale' = stale
            \/ {"filter", "timeline", "selection"} \subseteq stale'
<1>0. EngineTypes /\ Spread /\ PatchesCompose /\ ResolutionsFit
  BY DEF EngineInv
<1>1. CASE transition = Absent
  <2>1. UNCHANGED <<scene, transition, override, stale>>
    BY <1>1 DEF TickTransition
  <2> QED
    BY <1>0, <1>1, <2>1 DEF EngineTypes, Spread, PatchesCompose, ResolutionsFit
<1>2. CASE transition # Absent
  <2> DEFINE time == transition.time + (IF transition.ticked THEN elapsed ELSE 0)
  <2>1. transition \in Transitions /\ transition.from \in Scenes /\ transition.target \in Scenes
    BY <1>0, <1>2 DEF EngineTypes, Transitions
  <2>2. time \in Nat /\ transition.ease \in Easings
    BY <2>1 DEF Transitions
  <2>3. CASE time >= FullTime
    <3>1. /\ scene' = transition.target /\ transition' = Absent
          /\ override' = Resolved(override, transition.target)
          /\ stale' = {"filter", "timeline", "selection"}
      BY <1>2, <2>3 DEF TickTransition
    <3>2. /\ override' \in Overrides \cup {Absent}
          /\ override' = Resolved(override', scene')
      BY <1>0, <3>1, ResolvedTwice DEF EngineTypes
    <3>3. PatchesCompose' /\ Spread'
      BY <1>0, <1>2, <3>1 DEF PatchesCompose, Spread
    <3> QED
      BY <2>1, <3>1, <3>2, <3>3
  <2>4. CASE ~(time >= FullTime)
    <3>1. /\ scene' = Between(transition.from, transition.target, transition.ease[time])
          /\ transition' = [transition EXCEPT !.time = time, !.ticked = TRUE]
          /\ UNCHANGED <<override, stale>>
      BY <1>2, <2>4 DEF TickTransition
    <3> HIDE DEF time
    <3>0. transition.ease[time] \in Int
      <4>1. time \in 0 .. FullTime
        BY <2>2, <2>4, EngineAssumption
      <4> QED
        BY <2>2, <4>1, EasesFit
    <3>2. /\ scene' \in Scenes
          /\ Present(scene') = Present(transition.from) \cup Present(transition.target)
      BY <2>1, <3>0, <3>1, BetweenFits
    <3>3. /\ transition' \in Transitions
          /\ transition'.from = transition.from /\ transition'.target = transition.target
      BY <2>1, <2>2, <3>1 DEF Transitions
    <3>4. transition' # Absent
      BY <3>3, EngineAssumption
    <3>5. Present(scene') = Present(scene)
      BY <1>0, <1>2, <3>2 DEF Spread
    <3>6. Spread'
      BY <3>2, <3>3 DEF Spread, Present
    <3>7. PatchesCompose'
      BY <1>0, <1>2, <3>3, <3>4 DEF PatchesCompose
    <3>8. override' # Absent => override' = Resolved(override', scene')
      BY <1>0, <3>1, <3>5, SameIndices DEF EngineTypes, ResolutionsFit
    <3> QED
      BY <1>0, <3>1, <3>2, <3>3, <3>5, <3>6, <3>7, <3>8 DEF EngineTypes
  <2> QED
    BY <2>3, <2>4
<1> QED
  BY <1>1, <1>2

LEMMA FramesKeep ==
  ASSUME EngineInv, NEW elapsed \in 0 .. FullTime, EngineTick(elapsed)
  PROVE  EngineInv'
<1>0. elapsed \in Nat /\ EngineTypes /\ ResolutionsFit
  BY EngineAssumption DEF EngineInv
<1>1. /\ TickTransition(elapsed) /\ TickTimeline(elapsed)
      /\ UNCHANGED <<filter, visible, selected, held, canonical, torn>>
  BY DEF EngineTick, ghosts
<1>2. /\ timeline' \in Timelines \cup {Absent}
      /\ timeline' # Absent => timeline # Absent /\ timeline'.id = timeline.id /\ timeline'.index = timeline.index
      /\ CameraOwned' /\ HandsOff'
  BY <1>0, <1>1, PlayerTicks
<1>3. /\ scene' \in Scenes /\ transition' \in Transitions \cup {Absent}
      /\ override' \in Overrides \cup {Absent}
      /\ Spread' /\ PatchesCompose'
      /\ override' # Absent => override' = Resolved(override', scene')
      /\ \/ Present(scene') = Present(scene) /\ stale' = stale
         \/ {"filter", "timeline", "selection"} \subseteq stale'
  BY <1>0, <1>1, TransitionTicks
<1>4. EngineTypes'
  BY <1>0, <1>1, <1>2, <1>3 DEF EngineTypes
<1>5. (override # Absent => override = Resolved(override, scene))'
  BY <1>3 DEF Resolved, OverrideOn, IndexIn, Present
<1>6. CASE {"filter", "timeline", "selection"} \subseteq stale'
  <2>1. "filter" \in stale' /\ "timeline" \in stale' /\ "selection" \in stale'
    BY <1>6
  <2>2. ("filter" \notin stale => visible = Shows(filter, scene))'
    BY <2>1
  <2>3. ("timeline" \notin stale /\ timeline # Absent => timeline.index = IndexIn(scene, timeline.id))'
    BY <2>1
  <2>4. ("selection" \notin stale => selected = Absent \/ selected \in Present(scene))'
    BY <2>1
  <2>5. ResolutionsFit'
    BY <1>5, <2>2, <2>3, <2>4 DEF ResolutionsFit
  <2> QED
    BY <1>2, <1>3, <1>4, <2>5 DEF EngineInv
<1>7. CASE Present(scene') = Present(scene) /\ stale' = stale
  <2>1. /\ \A i : IndexIn(scene', i) = IndexIn(scene, i)
        /\ \A f : Shows(f, scene') = Shows(f, scene)
    BY <1>7, SameIndices
  <2>2. ("filter" \notin stale => visible = Shows(filter, scene))'
    <3>1. "filter" \notin stale' => visible' = Shows(filter', scene')
      BY <1>0, <1>1, <1>7, <2>1 DEF ResolutionsFit
    <3> QED
      BY <3>1 DEF Shows, IndexIn, Present
  <2>3. ("timeline" \notin stale /\ timeline # Absent => timeline.index = IndexIn(scene, timeline.id))'
    <3>1. "timeline" \notin stale' /\ timeline' # Absent => timeline'.index = IndexIn(scene', timeline'.id)
      BY <1>0, <1>2, <1>7, <2>1 DEF ResolutionsFit
    <3> QED
      BY <3>1 DEF IndexIn, Present
  <2>4. ("selection" \notin stale => selected = Absent \/ selected \in Present(scene))'
    <3>1. "selection" \notin stale' => selected' = Absent \/ selected' \in Present(scene')
      BY <1>0, <1>1, <1>7 DEF ResolutionsFit
    <3> QED
      BY <3>1 DEF Present
  <2>5. ResolutionsFit'
    BY <1>5, <2>2, <2>3, <2>4 DEF ResolutionsFit
  <2> QED
    BY <1>2, <1>3, <1>4, <2>5 DEF EngineInv
<1> QED
  BY <1>3, <1>6, <1>7

\* Only a patch can make what is drawn jump.
LEMMA EngineKeeps ==
  ASSUME EngineInv, [EngineNext]_engineVars
  PROVE  EngineInv' /\ NoJump
<1>1. ASSUME NEW patch \in Patches, NEW animated \in BOOLEAN, ApplyPatch(patch, animated)
      PROVE  EngineInv' /\ NoJump
  BY <1>1, ApplyKeeps
<1>2. patches' = patches => NoJump
  BY DEF NoJump
<1>3. CASE RefusePatch
  BY <1>2, <1>3, RefuseKeeps DEF RefusePatch
<1>4. CASE \/ \E f \in Filters : SetVisibility(f)
           \/ \E i \in Ids \cup {Absent} : SetOverride(i) \/ SelectAt(i)
  <2>1. patches' = patches
    BY <1>4 DEF SetVisibility, SetOverride, SelectAt, ghosts
  <2> QED
    BY <1>2, <1>4, <2>1, SetsKeep
<1>5. CASE \/ \E i \in Ids, moves, looped \in BOOLEAN : SetTimeline(i, moves, looped)
           \/ \E t \in 0 .. FullTime : SeekTimeline(t)
           \/ Play
           \/ \E value \in BOOLEAN : SetReducedMotion(value)
           \/ \E view \in HostViews : UserMoves(view) \/ HostMoves(view)
  <2>1. patches' = patches
    BY <1>5 DEF SetTimeline, SeekTimeline, Play, SetReducedMotion, UserMoves, HostMoves, ghosts
  <2> QED
    BY <1>2, <1>5, <2>1, StoriesKeep
<1>6. ASSUME NEW elapsed \in 0 .. FullTime, EngineTick(elapsed)
      PROVE  EngineInv' /\ NoJump
  BY <1>2, <1>6, FramesKeep DEF EngineTick, ghosts
<1>7. CASE UNCHANGED engineVars
  <2>1. /\ UNCHANGED <<scene, transition, canonical, torn, filter, visible, override, selected, stale>>
        /\ UNCHANGED <<timeline, camera, held, patches>>
    BY <1>7 DEF engineVars, drawn, resolved
  <2>2. EngineTypes' /\ Spread' /\ PatchesCompose' /\ ResolutionsFit'
    BY <2>1, StoryFits DEF EngineInv, EngineTypes, ResolutionsFit
  <2>3. CameraOwned' /\ HandsOff'
    BY <2>1 DEF EngineInv, CameraOwned, HandsOff
  <2> QED
    BY <1>2, <2>1, <2>2, <2>3 DEF EngineInv
<1> QED
  BY <1>1, <1>3, <1>4, <1>5, <1>6, <1>7 DEF EngineNext

LEMMA EngineAlwaysSafe == EngineSpec => EngineSafe
<1>1. EngineInv /\ [EngineNext]_engineVars => EngineInv'
  BY EngineKeeps
<1>2. EngineInv /\ EngineInv' /\ [EngineNext]_engineVars => [EngineStep]_engineVars
  BY EngineKeeps DEF EngineInv, EngineStep
<1> QED
  BY EngineStarts, <1>1, <1>2, PTL DEF EngineSpec, EngineSafe

-----------------------------------------------------------------------------
(* The level of detail.                                                    *)

LEMMA Durations ==
  /\ HalfTime \in Nat \ {0} /\ Duration \in Nat \ {0} /\ Duration = HalfTime + HalfTime
  /\ HalfTime < Duration
BY LodAssumption DEF Duration

LEMMA Products ==
  ASSUME NEW m \in Nat, NEW n \in Nat, NEW k \in Nat, m <= n
  PROVE  m * k <= n * k /\ m * k \in Nat
<1>1. PICK d \in Nat : n = m + d
  <2>1. n - m \in Nat /\ n = m + (n - m)
    OBVIOUS
  <2> QED
    BY <2>1
<1>2. n * k = m * k + d * k /\ m * k \in Nat /\ d * k \in Nat
  BY <1>1
<1> QED
  BY <1>2

LEMMA Cubes ==
  ASSUME NEW m \in Nat, NEW n \in Nat, m <= n
  PROVE  Cube(m) \in Nat /\ Cube(n) \in Nat /\ Cube(m) <= Cube(n)
<1>1. m * m \in Nat /\ n * m \in Nat /\ n * n \in Nat /\ m * m <= n * m
  BY Products
<1>2. m * n <= n * n /\ m * n = n * m
  BY Products
<1>3. PICK a \in Nat, b \in Nat : a = m * m /\ b = n * n /\ a <= b
  BY <1>1, <1>2
<1>4. a * m <= b * m /\ a * m \in Nat /\ b * m \in Nat
  BY <1>3, Products
<1>5. m * b <= n * b /\ m * b = b * m /\ n * b = b * n /\ n * b \in Nat
  BY <1>3, Products
<1>6. Cube(m) = a * m /\ Cube(n) = b * n
  BY <1>3 DEF Cube
<1> QED
  BY <1>4, <1>5, <1>6

\* The easing begins at nothing, ends at all, is half way at half time, and never goes back.
LEMMA Easing ==
  /\ Opaque \in Nat /\ Eased(0) = 0 /\ Eased(Duration) = Opaque
  /\ \A n \in 0 .. Duration : Eased(n) \in 0 .. Opaque
  /\ \A m, n \in 0 .. Duration : m <= n => Eased(m) <= Eased(n)
  /\ \A n \in 0 .. Duration : n <= HalfTime => 2 * Eased(n) <= Opaque
<1>1. PICK c \in Nat : c = Cube(HalfTime) /\ Opaque = 8 * c
  <2>1. Cube(HalfTime) \in Nat
    BY Durations, Cubes
  <2>2. Opaque = 8 * Cube(HalfTime)
    BY Durations DEF Opaque, Cube
  <2> QED
    BY <2>1, <2>2
<1>2. Cube(0) = 0 /\ Duration - Duration = 0 /\ Duration - HalfTime = HalfTime
  BY Durations DEF Cube
<1>3. ASSUME NEW n \in 0 .. Duration
      PROVE  /\ n < HalfTime => Eased(n) = 4 * Cube(n) /\ Cube(n) \in 0 .. c
             /\ ~(n < HalfTime) => Eased(n) = 8 * c - 4 * Cube(Duration - n) /\ Cube(Duration - n) \in 0 .. c
  <2>1. CASE n < HalfTime
    <3>1. n \in Nat /\ n <= HalfTime
      BY <2>1, Durations
    <3>2. Cube(n) \in 0 .. c
      BY <1>1, <3>1, Durations, Cubes
    <3> QED
      BY <2>1, <3>2 DEF Eased
  <2>2. CASE ~(n < HalfTime)
    <3>1. Duration - n \in Nat /\ Duration - n <= HalfTime
      BY <2>2, Durations
    <3>2. Cube(Duration - n) \in 0 .. c
      BY <1>1, <3>1, Durations, Cubes
    <3> QED
      BY <1>1, <2>2, <3>2 DEF Eased
  <2> QED
    BY <2>1, <2>2
<1>4. Opaque \in Nat /\ \A n \in 0 .. Duration : Eased(n) \in 0 .. Opaque
  BY <1>1, <1>3
<1>5. Eased(0) = 0 /\ Eased(Duration) = Opaque
  <2>1. 0 < HalfTime /\ ~(Duration < HalfTime)
    BY Durations
  <2> QED
    BY <1>1, <1>2, <2>1 DEF Eased
<1>6. ASSUME NEW m \in 0 .. Duration, NEW n \in 0 .. Duration, m <= n
      PROVE  Eased(m) <= Eased(n)
  <2>1. CASE n < HalfTime
    <3>1. m < HalfTime /\ m \in Nat /\ n \in Nat
      BY <1>6, <2>1, Durations
    <3>2. Cube(m) <= Cube(n) /\ Cube(m) \in Nat /\ Cube(n) \in Nat
      BY <1>6, <3>1, Cubes
    <3> QED
      BY <1>3, <2>1, <3>1, <3>2
  <2>2. CASE ~(n < HalfTime) /\ m < HalfTime
    BY <1>3, <2>2
  <2>3. CASE ~(m < HalfTime)
    <3>1. ~(n < HalfTime) /\ Duration - m \in Nat /\ Duration - n \in Nat /\ Duration - n <= Duration - m
      BY <1>6, <2>3, Durations
    <3>2. Cube(Duration - n) <= Cube(Duration - m) /\ Cube(Duration - m) \in Nat /\ Cube(Duration - n) \in Nat
      BY <3>1, Cubes
    <3> QED
      BY <1>3, <2>3, <3>1, <3>2
  <2> QED
    BY <2>1, <2>2, <2>3
<1>7. ASSUME NEW n \in 0 .. Duration, n <= HalfTime
      PROVE  2 * Eased(n) <= Opaque
  <2>1. CASE n < HalfTime
    BY <1>1, <1>3, <2>1
  <2>2. CASE n = HalfTime
    <3>1. ~(n < HalfTime) /\ Cube(Duration - n) = c
      BY <1>1, <1>2, <2>2, Durations
    <3> QED
      BY <1>1, <1>3, <3>1
  <2> QED
    BY <1>7, <2>1, <2>2, Durations
<1> QED
  BY <1>4, <1>5, <1>6, <1>7

LEMMA LeastNumber ==
  ASSUME NEW N \in SUBSET Nat, N # {} PROVE \E m \in N : \A n \in N : m <= n
<1>1. IsWellFoundedOn(OpToRel(<, Nat), Nat)
  BY NatLessThanWellFounded
<1>2. \E m \in N : \A n \in N : ~(<<n, m>> \in OpToRel(<, Nat))
  BY <1>1, WFMin
<1>3. PICK m \in N : \A n \in N : ~(<<n, m>> \in OpToRel(<, Nat))
  BY <1>2
<1>4. \A n \in N : ~(n < m)
  BY <1>3 DEF OpToRel
<1> QED
  BY <1>4

LEMMA Portion ==
  ASSUME NEW n \in Nat, NEW d \in Nat \ {0}, n <= d
  PROVE  (FullWeight * n) \div d \in 0 .. FullWeight
BY DEF FullWeight

LEMMA Clamps ==
  ASSUME NEW n \in Int, NEW d \in Nat \ {0}
  PROVE  Clamped(n, d) \in 0 .. FullWeight
<1>1. CASE n <= 0 \/ n >= d
  BY <1>1 DEF Clamped, FullWeight
<1>2. CASE n > 0 /\ n < d
  BY <1>2, Portion DEF Clamped
<1> QED
  BY <1>1, <1>2

LEMMA Fades ==
  ASSUME NEW r \in AllReps, NEW z \in 0 .. TopZoom
  PROVE  Fade(r, z) \in 0 .. FullWeight
<1>1. LodRange[r].min \in Nat /\ LodRange[r].max \in Nat /\ LodRange[r].fade \in Nat
  BY LodAssumption DEF AllReps
<1>2. z - LodRange[r].min \in Int /\ LodRange[r].max - z \in Int
  BY <1>1, LodAssumption
<1>3. LodRange[r].fade # 0 =>
        /\ Clamped(z - LodRange[r].min, LodRange[r].fade) \in 0 .. FullWeight
        /\ Clamped(LodRange[r].max - z, LodRange[r].fade) \in 0 .. FullWeight
  BY <1>1, <1>2, Clamps
<1>4. FullWeight \in 0 .. FullWeight /\ 0 \in 0 .. FullWeight
  BY DEF FullWeight
<1> QED
  BY <1>3, <1>4 DEF Fade, Upto

\* Weights have a sum, and a last one among the strongest.
LEMMA Sums ==
  ASSUME NEW k \in Nat, NEW w \in [1 .. k -> 0 .. FullWeight]
  PROVE  Total(w) \in Nat
<1>1. IsFiniteSet(1 .. k) /\ IsFiniteSet(1 .. FullWeight)
  <2>1. 1 \in Int /\ k \in Int /\ FullWeight \in Int
    BY DEF FullWeight
  <2> QED
    BY <2>1, FS_Interval
<1>2. IsFiniteSet((1 .. k) \X (1 .. FullWeight))
  BY <1>1, FS_Product
<1>3. {x \in (DOMAIN w) \X (1 .. FullWeight) : x[2] <= w[x[1]]} \subseteq (1 .. k) \X (1 .. FullWeight)
  OBVIOUS
<1> QED
  BY <1>2, <1>3, FS_Subset, FS_CardinalityType DEF Total

LEMMA StrongestIs ==
  ASSUME NEW k \in Nat \ {0}, NEW w \in [1 .. k -> 0 .. FullWeight]
  PROVE  /\ Strongest(w) \in 1 .. k
         /\ \A m \in 1 .. k : w[m] <= w[Strongest(w)]
<1>1. FullWeight \in Nat
  BY DEF FullWeight
<1>0. ASSUME NEW n \in 1 .. k
      PROVE  w[n] \in Nat /\ FullWeight - w[n] \in Nat
  <2>1. w[n] \in 0 .. FullWeight
    OBVIOUS
  <2> QED
    BY <1>1, <2>1
<1> DEFINE missing == {FullWeight - w[n] : n \in 1 .. k}
<1>2. PICK least \in missing : \A x \in missing : least <= x
  <2>1. missing \subseteq Nat
    BY <1>0
  <2>2. FullWeight - w[1] \in missing
    OBVIOUS
  <2> HIDE DEF missing
  <2> QED
    BY <2>1, <2>2, LeastNumber
<1>3. PICK best \in 1 .. k : least = FullWeight - w[best]
  OBVIOUS
<1>4. ASSUME NEW n \in 1 .. k
      PROVE  w[n] <= w[best]
  <2>1. least <= FullWeight - w[n]
    BY <1>2
  <2> QED
    <3>1. w[n] \in Nat /\ w[best] \in Nat
      BY <1>0
    <3> QED
      BY <1>1, <1>3, <2>1, <3>1
<1> DEFINE after == {k - n : n \in {m \in 1 .. k : w[m] = w[best]}}
<1>5. PICK nearest \in after : \A x \in after : nearest <= x
  <2>1. after \subseteq Nat
    OBVIOUS
  <2>2. k - best \in after
    OBVIOUS
  <2> HIDE DEF after
  <2> QED
    BY <2>1, <2>2, LeastNumber
<1>6. PICK last \in 1 .. k : w[last] = w[best] /\ nearest = k - last
  OBVIOUS
<1>8. ASSUME NEW m \in 1 .. k
      PROVE  w[m] <= w[last] /\ (m > last => w[m] < w[last])
  <2>1. w[m] <= w[best] /\ w[m] \in Nat /\ w[best] \in Nat
    BY <1>0, <1>4
  <2>2. ~(m > last /\ w[m] = w[best])
    <3>1. w[m] = w[best] => nearest <= k - m
      BY <1>5
    <3> QED
      BY <1>6, <3>1
  <2> QED
    BY <1>6, <2>1, <2>2
<1>9. DOMAIN w = 1 .. k
  OBVIOUS
<1>10. /\ Strongest(w) \in DOMAIN w
       /\ \A m \in DOMAIN w : w[m] <= w[Strongest(w)] /\ (m > Strongest(w) => w[m] < w[Strongest(w)])
  BY <1>8, <1>9 DEF Strongest
<1> QED
  BY <1>9, <1>10

\* The strongest of weights that are not all zero is near enough to itself.
LEMMA StrongestSticks ==
  ASSUME NEW k \in Nat \ {0}, NEW w \in [1 .. k -> 0 .. FullWeight], ~Blank(w)
  PROVE  Sticks(w, Strongest(w))
<1>1. /\ Strongest(w) \in 1 .. k /\ DOMAIN w = 1 .. k
      /\ \A m \in 1 .. k : w[m] <= w[Strongest(w)]
  BY StrongestIs
<1>2. PICK m \in 1 .. k : w[m] # 0
  BY <1>1 DEF Blank
<1>3. w[m] > 0 /\ w[Strongest(w)] \in Nat
  <2>1. \A n \in 1 .. k : w[n] \in Nat
    BY DEF FullWeight
  <2> QED
    BY <1>1, <1>2, <2>1
<1>4. w[Strongest(w)] > 0
  BY <1>1, <1>3
<1> QED
  <2>1. Total(w) \in Nat /\ w[Strongest(w)] * FullWeight \in Nat
    BY <1>3, Sums DEF FullWeight
  <2> QED
    BY <1>1, <1>4, <2>1 DEF Sticks

Handoffs == [from : Nat, to : Nat, age : 0 .. Duration]

LodTypes ==
  /\ reps \in Lists /\ zoom \in 0 .. TopZoom
  /\ DOMAIN active \subseteq AllReps /\ \A r \in DOMAIN active : active[r] \in BOOLEAN
  /\ handoff \in Handoffs \cup {NoHandoff}
  /\ shown \in [DOMAIN reps -> 0 .. Opaque]
  /\ since \in 0 .. HalfTime /\ settled \in -1 .. Duration
  /\ flipped \in [AllReps -> {Never} \cup (0 .. TopZoom)]

\* What was drawn last of a representation is no more than the handoff drew of it at an age
\* that lies no further back than the last frame.
Drew(n, age) == Shares([handoff EXCEPT !.age = age])[n]
SinceDrawn(age) == since = HalfTime \/ handoff.age <= age + since
Fading ==
  \A n \in DOMAIN reps :
    IF handoff = NoHandoff THEN Len(reps) > 1 => shown[n] = 0
    ELSE \E age \in 0 .. handoff.age : SinceDrawn(age) /\ shown[n] <= Drew(n, age)

\* Once a zoom has been drawn, the handoff leads to a representation that may stay, and is
\* as old as the zoom.
Settling ==
  (settled >= 0 /\ Len(reps) > 1 /\ ~panicked) =>
    \A w : (w = Weights /\ ~Blank(w)) =>
      /\ handoff # NoHandoff /\ handoff.age >= settled
      /\ \E n \in DOMAIN reps :
           n = handoff.to /\ Sticks(w, n) /\ (since = 0 /\ settled = Duration => shown[n] = Opaque)

\* The zooms at which a representation is entered, and those at which it is left.
Enters(r, z) ==
  /\ LodRange[r].min = 0 \/ z >= LodRange[r].min + LodRange[r].hysteresis
  /\ LodRange[r].max = TopZoom \/ z <= Over(LodRange[r].max - LodRange[r].hysteresis, LodRange[r].min)
Leaves(r, z) ==
  \/ z < LodRange[r].min - LodRange[r].hysteresis
  \/ LodRange[r].max # TopZoom /\ z > LodRange[r].max + LodRange[r].hysteresis

\* A recorded activity changed last where it had to.
Turns ==
  \A r \in AllReps :
    flipped[r] # Never =>
      /\ r \in DOMAIN active
      /\ IF active[r] THEN Enters(r, flipped[r]) ELSE Leaves(r, flipped[r])

LodInv == LodTypes /\ Fading /\ Settling /\ Turns

LEMMA RepsFit ==
  ASSUME NEW list \in Lists
  PROVE  /\ Len(list) \in Nat \ {0} /\ DOMAIN list = 1 .. Len(list)
         /\ \A n \in DOMAIN list : list[n] \in AllReps
         /\ Listed(list) \subseteq AllReps
<1>1. list \in Seq(AllReps) /\ list # <<>>
  BY LodAssumption DEF AllReps
<1>2. Len(list) \in Nat \ {0} /\ DOMAIN list = 1 .. Len(list)
  BY <1>1
<1>3. \A n \in DOMAIN list : list[n] \in AllReps
  BY <1>1, <1>2
<1> QED
  BY <1>2, <1>3 DEF Listed

LEMMA RangeFits ==
  ASSUME NEW r \in AllReps
  PROVE  /\ LodRange[r].min \in Nat /\ LodRange[r].max \in Nat /\ LodRange[r].hysteresis \in Nat
         /\ LodRange[r].min + LodRange[r].hysteresis <= LodRange[r].max
         /\ LodRange[r].max <= TopZoom /\ TopZoom \in Nat
BY LodAssumption DEF AllReps

LEMMA WeightsFit ==
  ASSUME LodTypes
  PROVE  Weights \in [DOMAIN reps -> 0 .. FullWeight]
<1>1. ASSUME NEW n \in DOMAIN reps
      PROVE  (IF Activity(reps[n]) THEN Fade(reps[n], zoom) ELSE 0) \in 0 .. FullWeight
  <2>1. reps[n] \in AllReps
    BY RepsFit DEF LodTypes
  <2>2. Fade(reps[n], zoom) \in 0 .. FullWeight /\ 0 \in 0 .. FullWeight
    BY <2>1, Fades DEF LodTypes, FullWeight
  <2> QED
    BY <2>2
<1> QED
  BY <1>1 DEF Weights

LEMMA AgesFit ==
  ASSUME NEW h \in Handoffs
  PROVE  /\ h.from \in Nat /\ h.to \in Nat /\ h.age \in 0 .. Duration /\ h # NoHandoff
         /\ \A age \in 0 .. Duration : [h EXCEPT !.age = age] \in Handoffs
BY LodAssumption DEF Handoffs, Duration

LEMMA SharesFit ==
  ASSUME NEW h \in Handoffs
  PROVE  Shares(h) \in [DOMAIN reps -> 0 .. Opaque]
<1>1. h.age \in 0 .. Duration
  BY AgesFit
<1>2. Opaque \in Nat /\ Eased(h.age) \in 0 .. Opaque
  BY <1>1, Easing
<1>3. Opaque - Eased(h.age) \in 0 .. Opaque /\ Opaque \in 0 .. Opaque /\ 0 \in 0 .. Opaque
  BY <1>2
<1> HIDE DEF Handoffs
<1> QED
  BY <1>2, <1>3 DEF Shares

\* As time passes, what was drawn was drawn of a younger handoff.
LEMMA SharesAge ==
  ASSUME LodTypes, handoff # NoHandoff, NEW elapsed \in 1 .. Duration, LodTick(elapsed), Fading
  PROVE  Fading'
<1>1. handoff \in Handoffs /\ since \in 0 .. HalfTime
  BY DEF LodTypes
<1>2. /\ handoff' = [handoff EXCEPT !.age = Upto(Duration, @ + elapsed)]
      /\ since' = Upto(HalfTime, since + elapsed) /\ UNCHANGED <<reps, shown>>
  BY DEF LodTick
<1>3. handoff.age \in 0 .. Duration
  BY <1>1, AgesFit
<1>4. Upto(Duration, handoff.age + elapsed) \in 0 .. Duration
  BY <1>3, Durations DEF Upto
<1>5. /\ handoff' \in Handoffs /\ handoff' # NoHandoff
      /\ handoff'.age = Upto(Duration, handoff.age + elapsed)
  BY <1>1, <1>2, <1>4, AgesFit DEF Handoffs
<1>6. ASSUME NEW age \in 0 .. handoff.age, SinceDrawn(age)
      PROVE  age \in 0 .. handoff'.age /\ SinceDrawn(age)'
  <2>1. age \in 0 .. handoff'.age
    BY <1>3, <1>5, Durations DEF Upto
  <2>2. since' = HalfTime \/ handoff'.age <= age + since'
    BY <1>1, <1>2, <1>3, <1>5, <1>6, Durations DEF Upto, SinceDrawn
  <2> QED
    BY <2>1, <2>2 DEF SinceDrawn
<1>7. ASSUME NEW n \in DOMAIN reps, NEW age
      PROVE  Drew(n, age)' = Drew(n, age)
  <2>1. [handoff' EXCEPT !.age = age] = [handoff EXCEPT !.age = age]
    BY <1>1, <1>2 DEF Handoffs
  <2> QED
    BY <1>2, <2>1 DEF Drew, Shares
<1>8. ASSUME NEW n \in DOMAIN reps
      PROVE  \E age \in 0 .. handoff'.age : SinceDrawn(age)' /\ shown'[n] <= Drew(n, age)'
  <2>1. PICK age \in 0 .. handoff.age : SinceDrawn(age) /\ shown[n] <= Drew(n, age)
    BY DEF Fading
  <2> QED
    BY <1>2, <1>6, <1>7, <2>1
<1> QED
  BY <1>2, <1>5, <1>8 DEF Fading

\* A frame is drawn, before it records the activity, from the handoff it turns into.
Turned(w) == Finished(Retargeted(w))

LEMMA TurnedIs ==
  ASSUME LodTypes, NEW w \in [DOMAIN reps -> 0 .. FullWeight], ~Blank(w)
  PROVE  /\ Turned(w) \in Handoffs /\ Turned(w) # NoHandoff
         /\ Turned(w).to \in DOMAIN reps /\ Sticks(w, Turned(w).to)
         /\ Turned(w).age = Duration => Turned(w).from = Turned(w).to
         /\ (handoff # NoHandoff /\ Sticks(w, handoff.to)) =>
              Turned(w).to = handoff.to /\ Turned(w).age >= handoff.age
<1> DEFINE old == Begun(w)
           target == IF Sticks(w, old.to) THEN old.to ELSE Strongest(w)
           next == Retargeted(w)
<1>1. PICK k \in Nat \ {0} : k = Len(reps) /\ DOMAIN reps = 1 .. k
  BY RepsFit DEF LodTypes
<1>2. Strongest(w) \in 1 .. k /\ Sticks(w, Strongest(w)) /\ DOMAIN w = 1 .. k
  BY <1>1, StrongestIs, StrongestSticks
<1>3. Duration \in Nat \ {0}
  BY Durations
<1>4. old \in Handoffs /\ (handoff # NoHandoff => old = handoff)
  BY <1>2, <1>3 DEF Begun, LodTypes, Handoffs
<1>5. old.from \in Nat /\ old.to \in Nat /\ old.age \in 0 .. Duration
  BY <1>4 DEF Handoffs
<1> HIDE DEF old
<1>6. target \in 1 .. k /\ Sticks(w, target) /\ (Sticks(w, old.to) => target = old.to)
  BY <1>2 DEF Sticks
<1>7. next = IF still THEN [from |-> target, to |-> target, age |-> Duration]
             ELSE IF target # old.to THEN [from |-> Nearer(old), to |-> target, age |-> 0]
             ELSE old
  BY DEF Retargeted, old
<1> HIDE DEF target, next
<1>8. Nearer(old) \in Nat
  BY <1>5 DEF Nearer
<1>9. /\ next \in Handoffs /\ next.to = target
      /\ target = old.to => next.age >= old.age
  <2>1. CASE still
    BY <1>3, <1>5, <1>6, <1>7, <2>1 DEF Handoffs
  <2>2. CASE ~still /\ target # old.to
    BY <1>3, <1>6, <1>7, <1>8, <2>2 DEF Handoffs
  <2>3. CASE ~still /\ target = old.to
    BY <1>4, <1>5, <1>7, <2>3
  <2> QED
    BY <2>1, <2>2, <2>3
<1>10. next.from \in Nat /\ next.to \in Nat /\ next.age \in 0 .. Duration
  BY <1>9 DEF Handoffs
<1>11. Turned(w) = IF next.age >= Duration THEN [next EXCEPT !.from = next.to] ELSE next
  BY DEF Turned, Finished, next
<1>12. /\ Turned(w) \in Handoffs /\ Turned(w).to = next.to /\ Turned(w).age = next.age
       /\ next.age = Duration => Turned(w).from = next.to
  <2>1. CASE next.age >= Duration
    BY <1>9, <1>10, <1>11, <2>1 DEF Handoffs
  <2>2. CASE ~(next.age >= Duration)
    BY <1>3, <1>9, <1>10, <1>11, <2>2
  <2> QED
    BY <2>1, <2>2
<1>13. Turned(w) # NoHandoff
  BY <1>12, AgesFit
<1>14. Sticks(w, Turned(w).to) /\ Turned(w).to \in DOMAIN reps
  BY <1>1, <1>6, <1>9, <1>12
<1>15. (handoff # NoHandoff /\ Sticks(w, handoff.to)) =>
          Turned(w).to = handoff.to /\ Turned(w).age >= handoff.age
  BY <1>4, <1>6, <1>9, <1>12
<1> QED
  BY <1>12, <1>13, <1>14, <1>15

\* A handoff that is overtaken goes on from the nearer of its ends: what goes at once is no more
\* than it still had of its source as long before half time as the last frame is back.
LEMMA TurnedGently ==
  ASSUME LodTypes, NEW w \in [DOMAIN reps -> 0 .. FullWeight], ~Blank(w), ~still, handoff # NoHandoff,
         NEW n \in DOMAIN reps, NEW age \in 0 .. handoff.age, SinceDrawn(age)
  PROVE  Drew(n, age) - Shares(Turned(w))[n] <= Opaque - Eased(HalfTime - since)
<1> DEFINE now == handoff.age
           h == Turned(w)
           gap == Opaque - Eased(HalfTime - since)
           part == Eased(age)
           later == Eased(now)
           before == Drew(n, age)
           after == Shares(h)[n]
           target == IF Sticks(w, handoff.to) THEN handoff.to ELSE Strongest(w)
<1>1. handoff \in Handoffs /\ since \in 0 .. HalfTime
  BY DEF LodTypes
<1>2. handoff.from \in Nat /\ handoff.to \in Nat /\ now \in 0 .. Duration
  BY <1>1, AgesFit
<1>3. age \in 0 .. Duration /\ age <= now
  BY <1>2, Durations
<1>4. /\ Opaque \in Nat /\ part \in 0 .. Opaque /\ later \in 0 .. Opaque /\ part <= later
      /\ now = Duration => later = Opaque
  BY <1>2, <1>3, Easing
<1>5. gap \in 0 .. Opaque /\ 2 * gap >= Opaque
  <2>1. HalfTime - since \in 0 .. Duration /\ HalfTime - since <= HalfTime
    BY <1>1, Durations
  <2>2. Eased(HalfTime - since) \in 0 .. Opaque /\ 2 * Eased(HalfTime - since) <= Opaque
    BY <2>1, Easing
  <2> QED
    BY <1>4, <2>2
<1>6. now < HalfTime => 2 * later <= Opaque
  BY <1>2, Durations, Easing
<1>7. ~(now < HalfTime) => Opaque - part <= gap
  <2>0. Eased(HalfTime - since) \in 0 .. Opaque
    <3>1. HalfTime - since \in 0 .. Duration
      BY <1>1, Durations
    <3> QED
      BY <3>1, Easing
  <2>1. SUFFICES ASSUME ~(now < HalfTime)
                 PROVE  Eased(HalfTime - since) <= part
    BY <1>4, <2>0
  <2>2. HalfTime - since \in 0 .. Duration /\ HalfTime - since <= age
    BY <1>1, <1>2, <1>3, <2>1, Durations DEF SinceDrawn
  <2> QED
    BY <1>3, <2>2, Easing
<1>8. before = IF n = handoff.to THEN (IF handoff.from = handoff.to THEN Opaque ELSE part)
               ELSE IF n = handoff.from THEN Opaque - part ELSE 0
  <2>1. PICK old : old = [handoff EXCEPT !.age = age]
    OBVIOUS
  <2>2. old.from = handoff.from /\ old.to = handoff.to /\ old.age = age
    BY <1>1, <2>1 DEF Handoffs
  <2> QED
    BY <2>1, <2>2 DEF Drew, Shares
<1>9. after = IF n = h.to THEN (IF h.from = h.to THEN Opaque ELSE Eased(h.age))
              ELSE IF n = h.from THEN Opaque - Eased(h.age) ELSE 0
  BY DEF Shares
<1>10. h = Finished(IF target # handoff.to THEN [from |-> Nearer(handoff), to |-> target, age |-> 0] ELSE handoff)
  BY DEF Turned, Retargeted, Begun
<1>11. Nearer(handoff) = IF now < HalfTime THEN handoff.from ELSE handoff.to
  BY DEF Nearer
<1> HIDE DEF target, h, before, after, part, later, gap, now
<1>12. CASE target = handoff.to
  <2>1. h = IF now >= Duration THEN [handoff EXCEPT !.from = handoff.to] ELSE handoff
    BY <1>10, <1>12 DEF Finished, now
  <2>2. CASE now >= Duration
    <3>1. h.from = handoff.to /\ h.to = handoff.to
      BY <1>1, <2>1, <2>2 DEF Handoffs
    <3>2. after = IF n = handoff.to THEN Opaque ELSE 0
      BY <1>9, <3>1
    <3>3. ~(now < HalfTime)
      BY <1>2, <2>2, Durations
    <3> QED
      BY <1>4, <1>5, <1>7, <1>8, <3>2, <3>3 DEF before, after, h, gap
  <2>3. CASE ~(now >= Duration)
    <3>1. after = IF n = handoff.to THEN (IF handoff.from = handoff.to THEN Opaque ELSE later)
                  ELSE IF n = handoff.from THEN Opaque - later ELSE 0
      BY <1>9, <2>1, <2>3 DEF later, now
    <3>2. before - after <= gap
      BY <1>4, <1>5, <1>6, <1>7, <1>8, <3>1
    <3> QED
      BY <3>2 DEF before, after, h, gap
  <2> QED
    BY <2>2, <2>3
<1>13. CASE target # handoff.to
  <2>1. h.from = Nearer(handoff) /\ h.to = target /\ h.age = 0
    <3>1. ~(0 >= Duration)
      BY Durations
    <3> QED
      BY <1>10, <1>13, <3>1 DEF Finished
  <2>2. Eased(h.age) = 0
    BY <2>1, Easing
  <2>3. after \in 0 .. Opaque /\ (n = Nearer(handoff) => after = Opaque)
    BY <1>4, <1>9, <2>1, <2>2
  <2>4. n # Nearer(handoff) => before <= gap
    BY <1>4, <1>5, <1>6, <1>7, <1>8, <1>11
  <2>5. before \in 0 .. Opaque
    BY <1>4, <1>8
  <2>6. before - after <= gap
    BY <1>4, <1>5, <2>3, <2>4, <2>5
  <2> QED
    BY <2>6 DEF before, after, h, gap
<1> QED
  BY <1>12, <1>13

\* Who does not leave stays.
Stays(r, z) ==
  /\ z >= LodRange[r].min - LodRange[r].hysteresis
  /\ LodRange[r].max = TopZoom \/ z <= LodRange[r].max + LodRange[r].hysteresis

LEMMA StaysIs ==
  ASSUME NEW r \in AllReps, NEW z \in 0 .. TopZoom
  PROVE  Stays(r, z) <=> ~Leaves(r, z)
<1>1. PICK lo \in Nat, hi \in Nat, band \in Nat :
        lo = LodRange[r].min /\ hi = LodRange[r].max /\ band = LodRange[r].hysteresis
  BY RangeFits
<1>2. z \in Int
  OBVIOUS
<1>3. /\ Stays(r, z) <=> z >= lo - band /\ (hi = TopZoom \/ z <= hi + band)
      /\ Leaves(r, z) <=> z < lo - band \/ (hi # TopZoom /\ z > hi + band)
  BY <1>1 DEF Stays, Leaves
<1>4. /\ z >= lo - band <=> ~(z < lo - band)
      /\ z <= hi + band <=> ~(z > hi + band)
  BY <1>2
<1> QED
  BY <1>3, <1>4

\* The activity of a representation, and the activity it had.
LEMMA ActivityIs ==
  ASSUME LodTypes, NEW r \in AllReps
  PROVE  /\ Activity(r) \in BOOLEAN /\ WasActive(r) \in BOOLEAN
         /\ WasActive(r) => (~Activity(r) <=> Leaves(r, zoom))
         /\ ~WasActive(r) => (Activity(r) <=> Enters(r, zoom))
         /\ r \in DOMAIN active => WasActive(r) = active[r]
<1>1. WasActive(r) \in BOOLEAN /\ (r \in DOMAIN active => WasActive(r) = active[r])
  BY DEF WasActive, Inside, LodTypes
<1>2. zoom \in Nat
  BY LodAssumption DEF LodTypes
<1>3. Activity(r) \in BOOLEAN
  BY DEF Activity
<1>4. CASE WasActive(r)
  <2>1. Activity(r) <=> Stays(r, zoom)
    BY <1>4 DEF Activity, Stays
  <2>2. Stays(r, zoom) <=> ~Leaves(r, zoom)
    BY StaysIs DEF LodTypes
  <2> QED
    BY <1>1, <1>3, <1>4, <2>1, <2>2
<1>5. CASE ~WasActive(r)
  BY <1>1, <1>3, <1>5 DEF Activity, Enters
<1> QED
  BY <1>1, <1>3, <1>4, <1>5

\* A zoom that is entered is not left, and one that is left is not entered: there are two
\* hystereses between them.
LEMMA Apart ==
  ASSUME NEW r \in AllReps, NEW y \in 0 .. TopZoom, NEW z \in 0 .. TopZoom, Enters(r, y), Leaves(r, z)
  PROVE  \/ y > z /\ y - z >= 2 * LodRange[r].hysteresis
         \/ z > y /\ z - y >= 2 * LodRange[r].hysteresis
<1>1. PICK lo \in Nat, hi \in Nat, band \in Nat :
        lo = LodRange[r].min /\ hi = LodRange[r].max /\ band = LodRange[r].hysteresis
  BY RangeFits
<1>2. lo + band <= hi
  BY <1>1, RangeFits
<1>3. y \in Nat /\ z \in Nat
  BY LodAssumption
<1>4. lo = 0 \/ y >= lo + band
  BY <1>1 DEF Enters
<1>5. hi = TopZoom \/ y <= hi - band
  BY <1>1, <1>2 DEF Enters, Over
<1>6. z < lo - band \/ (hi # TopZoom /\ z > hi + band)
  BY <1>1 DEF Leaves
<1>7. \/ y > z /\ y - z >= 2 * band
      \/ z > y /\ z - y >= 2 * band
  <2>1. CASE z < lo - band
    BY <1>3, <1>4, <2>1
  <2>2. CASE hi # TopZoom /\ z > hi + band
    BY <1>3, <1>5, <2>2
  <2> QED
    BY <1>6, <2>1, <2>2
<1> QED
  BY <1>1, <1>7

\* Recording the activity is enough once: it stays while the zoom does.
LEMMA SameWeights ==
  ASSUME LodTypes, RecordActivity, UNCHANGED <<reps, zoom>>
  PROVE  Weights' = Weights
<1>1. ASSUME NEW n \in DOMAIN reps
      PROVE  Weights'[n] = Weights[n]
  <2>1. PICK r \in AllReps : r = reps[n] /\ r \in Listed(reps)
    BY RepsFit DEF Listed, LodTypes
  <2>2. r \in DOMAIN active' /\ active'[r] = Activity(r)
    BY <2>1 DEF RecordActivity
  <2>3. zoom \in 0 .. TopZoom /\ zoom' = zoom
    BY DEF LodTypes
  <2>4. Activity(r)' = IF active'[r] THEN Stays(r, zoom) ELSE Enters(r, zoom)
    BY <2>2, <2>3 DEF Activity, WasActive, Stays, Enters
  <2>5. Activity(r)' = IF Activity(r) THEN ~Leaves(r, zoom) ELSE Enters(r, zoom)
    BY <2>2, <2>3, <2>4, StaysIs DEF Stays, Leaves, Activity, Enters
  <2>6. CASE Activity(r)
    <3>1. ~Leaves(r, zoom)
      BY <2>3, <2>6, ActivityIs, Apart
    <3> QED
      BY <2>1, <2>3, <2>5, <2>6, <3>1 DEF Weights
  <2>7. CASE ~Activity(r)
    <3>1. ~Enters(r, zoom)
      BY <2>3, <2>7, ActivityIs, Apart
    <3> QED
      BY <2>1, <2>3, <2>5, <2>7, <3>1 DEF Weights
  <2> QED
    BY <2>6, <2>7
<1>2. /\ Weights = [n \in DOMAIN reps |-> Weights[n]]
      /\ Weights' = [n \in DOMAIN reps |-> Weights'[n]]
  BY DEF Weights
<1> QED
  BY <1>1, <1>2

LEMMA FrameDraws ==
  ASSUME LodTypes, Frame, ~panicked
  PROVE  /\ RecordActivity /\ UNCHANGED <<reps, zoom, still>> /\ since' = 0 /\ settled' = Over(settled, 0)
         /\ \/ /\ Blank(Weights) \/ Len(reps) = 1
               /\ handoff' = NoHandoff /\ ~panicked'
               /\ shown' \in [DOMAIN reps -> 0 .. Opaque]
               /\ Blank(Weights) => \A n \in DOMAIN reps : shown'[n] = 0
            \/ /\ ~Blank(Weights) /\ Len(reps) > 1
               /\ handoff' = Turned(Weights) /\ handoff' \in Handoffs /\ handoff' # NoHandoff
               /\ shown' = IF panicked' THEN shown ELSE Shares(handoff')
               /\ panicked' \in BOOLEAN
<1>1. RecordActivity /\ UNCHANGED <<reps, zoom, still>> /\ since' = 0 /\ settled' = Over(settled, 0)
  BY DEF Frame
<1>2. Weights \in [DOMAIN reps -> 0 .. FullWeight]
  BY WeightsFit
<1>3. CASE /\ Blank(Weights) \/ Len(reps) = 1
           /\ handoff' = NoHandoff
           /\ shown' = [n \in DOMAIN reps |-> (Weights[n] * Opaque) \div FullWeight]
           /\ UNCHANGED panicked
  <2>1. ASSUME NEW n \in DOMAIN reps
        PROVE  shown'[n] \in 0 .. Opaque /\ (Weights[n] = 0 => shown'[n] = 0)
    <3>1. PICK x \in 0 .. 20 : x = Weights[n]
      BY <1>2 DEF FullWeight
    <3>2. (x * Opaque) \div 20 \in 0 .. Opaque /\ (x = 0 => (x * Opaque) \div 20 = 0)
      <4>1. PICK d \in Nat : d = Opaque
        BY Easing
      <4>2. x * d \in Int /\ 0 <= x * d /\ x * d <= 20 * d
        OBVIOUS
      <4>3. PICK p \in Int : p = x * d
        BY <4>2
      <4>4. p \div 20 \in 0 .. d
        BY <4>2, <4>3
      <4>5. x = 0 => (x * d) \div 20 = 0
        OBVIOUS
      <4> QED
        BY <4>1, <4>3, <4>4, <4>5
    <3> QED
      BY <1>3, <3>1, <3>2 DEF FullWeight
  <2>2. shown' \in [DOMAIN reps -> 0 .. Opaque]
    BY <1>3, <2>1
  <2>3. Blank(Weights) => \A n \in DOMAIN reps : shown'[n] = 0
    BY <1>2, <2>1 DEF Blank
  <2> QED
    BY <1>1, <1>3, <2>2, <2>3
<1>4. CASE /\ ~Blank(Weights) /\ Len(reps) > 1
           /\ handoff' = Turned(Weights)
           /\ panicked' = ~({Turned(Weights).from, Turned(Weights).to} \subseteq DOMAIN reps)
           /\ shown' = IF panicked' THEN shown ELSE Shares(Turned(Weights))
  <2>1. Turned(Weights) \in Handoffs /\ Turned(Weights) # NoHandoff
    BY <1>2, <1>4, TurnedIs
  <2>2. shown' = IF panicked' THEN shown ELSE Shares(handoff')
    BY <1>4
  <2>3. panicked' \in BOOLEAN
    BY <1>4
  <2> QED
    BY <1>1, <1>4, <2>1, <2>2, <2>3
<1> QED
  BY <1>3, <1>4 DEF Frame, Turned

LEMMA FrameTypes ==
  ASSUME LodTypes, Frame, ~panicked
  PROVE  LodTypes'
<1>1. /\ RecordActivity /\ UNCHANGED <<reps, zoom>> /\ since' = 0 /\ settled' = Over(settled, 0)
      /\ handoff' \in Handoffs \cup {NoHandoff}
  BY FrameDraws
<1>2. shown' \in [DOMAIN reps' -> 0 .. Opaque]
  BY FrameDraws, SharesFit DEF LodTypes
<1>3. DOMAIN active' \subseteq AllReps /\ \A r \in DOMAIN active' : active'[r] \in BOOLEAN
  <2>1. active' = [r \in DOMAIN active \cup Listed(reps) |->
                     IF r \in Listed(reps) THEN Activity(r) ELSE active[r]]
    BY <1>1 DEF RecordActivity
  <2>2. Listed(reps) \subseteq AllReps
    BY RepsFit DEF LodTypes
  <2>3. ASSUME NEW r \in DOMAIN active \cup Listed(reps)
        PROVE  active'[r] \in BOOLEAN
    BY <2>1, <2>2, <2>3, ActivityIs DEF LodTypes
  <2> QED
    BY <2>1, <2>2, <2>3 DEF LodTypes
<1>4. flipped' \in [AllReps -> {Never} \cup (0 .. TopZoom)]
  BY <1>1 DEF RecordActivity, LodTypes
<1>5. since' \in 0 .. HalfTime /\ settled' \in -1 .. Duration
  BY <1>1, Durations DEF LodTypes, Over
<1> QED
  BY <1>1, <1>2, <1>3, <1>4, <1>5 DEF LodTypes

\* Fading, and no pop: whether the handoff of a frame is new, the old one or has overtaken it.
LEMMA FrameFades ==
  ASSUME LodTypes, Fading, Frame, ~panicked
  PROVE  (~panicked' => Fading') /\ NoPop
<1>1. since \in 0 .. HalfTime /\ UNCHANGED <<reps, still>> /\ since' = 0
  BY FrameDraws DEF LodTypes
<1>2. CASE /\ Blank(Weights) \/ Len(reps) = 1
           /\ handoff' = NoHandoff
           /\ Blank(Weights) => \A n \in DOMAIN reps : shown'[n] = 0
  <2>1. ~(~Blank(Weights) /\ Len(reps) > 1)
    <3>1. Len(reps) = 1 => ~(Len(reps) > 1)
      OBVIOUS
    <3> QED
      BY <1>2, <3>1, Zenon
  <2>2. NoPop
    BY <2>1 DEF NoPop, Drawn
  <2>3. Fading'
    BY <1>1, <1>2, <2>1 DEF Fading
  <2> QED
    BY <2>2, <2>3
<1>3. CASE /\ ~Blank(Weights) /\ Len(reps) > 1
           /\ handoff' = Turned(Weights) /\ handoff' \in Handoffs /\ handoff' # NoHandoff
           /\ shown' = IF panicked' THEN shown ELSE Shares(handoff')
  <2>1. SUFFICES ASSUME ~panicked'
                 PROVE  Fading' /\ NoPop
    BY DEF NoPop, Drawn
  <2>2. shown' = Shares(handoff') /\ shown' \in [DOMAIN reps -> 0 .. Opaque]
    BY <1>3, <2>1, SharesFit
  <2>3. Fading'
    <3>1. handoff'.age \in Nat
      BY <1>3, AgesFit, Durations
    <3>2. [handoff' EXCEPT !.age = handoff'.age] = handoff'
      BY <1>3 DEF Handoffs
    <3>3. ASSUME NEW n \in DOMAIN reps
          PROVE  \E age \in 0 .. handoff'.age : SinceDrawn(age)' /\ shown'[n] <= Drew(n, age)'
      <4>0. PICK age \in Nat : age = handoff'.age
        BY <3>1
      <4>1. age \in 0 .. age /\ age <= age + since'
        BY <1>1
      <4>2. SinceDrawn(age)'
        BY <4>0, <4>1 DEF SinceDrawn
      <4>3. shown'[n] = Drew(n, age)'
        BY <1>1, <2>2, <3>2, <4>0 DEF Drew, Shares
      <4>4. shown'[n] <= shown'[n]
        BY <2>2, Easing
      <4> QED
        BY <4>0, <4>1, <4>2, <4>3, <4>4
    <3> QED
      BY <1>1, <1>3, <3>3 DEF Fading
  <2>4. ASSUME ~still, NEW n \in DOMAIN reps
        PROVE  shown[n] - shown'[n] <= Opaque - Eased(HalfTime - since)
    <3>1. shown[n] \in 0 .. Opaque /\ shown'[n] \in 0 .. Opaque /\ Opaque \in Nat
      BY <2>2, Easing DEF LodTypes
    <3>2. Eased(HalfTime - since) \in 0 .. Opaque
      <4>1. HalfTime - since \in 0 .. Duration
        BY <1>1, Durations
      <4> QED
        BY <4>1, Easing
    <3>3. CASE handoff = NoHandoff
      <4>1. shown[n] = 0
        BY <1>3, <3>3 DEF Fading
      <4> QED
        BY <3>1, <3>2, <4>1
    <3>4. CASE handoff # NoHandoff
      <4>1. PICK age \in 0 .. handoff.age : SinceDrawn(age) /\ shown[n] <= Drew(n, age)
        BY <3>4 DEF Fading
      <4>2. Drew(n, age) - Shares(Turned(Weights))[n] <= Opaque - Eased(HalfTime - since)
        BY <1>3, <2>4, <3>4, <4>1, WeightsFit, TurnedGently
      <4>3. shown'[n] = Shares(Turned(Weights))[n]
        BY <1>3, <2>2
      <4>4. Drew(n, age) \in 0 .. Opaque
        <5>1. handoff \in Handoffs
          BY <3>4 DEF LodTypes
        <5>2. age \in 0 .. Duration
          BY <5>1, AgesFit, Durations
        <5>3. [handoff EXCEPT !.age = age] \in Handoffs
          BY <5>1, <5>2, AgesFit
        <5> QED
          BY <5>3, SharesFit DEF Drew
      <4> QED
        BY <3>1, <3>2, <4>1, <4>2, <4>3, <4>4
    <3> QED
      BY <3>3, <3>4
  <2> QED
    BY <2>3, <2>4 DEF NoPop
<1> QED
  BY <1>2, <1>3, FrameDraws

\* Settling, and a zoom at rest: the handoff a frame turns into keeps its target and its age.
LEMMA FrameSettles ==
  ASSUME LodTypes, Settling, Frame, ~panicked
  PROVE  Settling' /\ RestsOnStrongest
<1>1. /\ RecordActivity /\ UNCHANGED <<reps, zoom>> /\ since' = 0 /\ settled' = Over(settled, 0)
  BY FrameDraws
<1>2. Weights' = Weights /\ Weights \in [DOMAIN reps -> 0 .. FullWeight]
  BY <1>1, SameWeights, WeightsFit
<1>3. Duration \in Nat \ {0} /\ settled \in -1 .. Duration
  BY Durations DEF LodTypes
<1>4. CASE Blank(Weights) \/ Len(reps) = 1
  <2>1. Len(reps) > 1 => Blank(Weights)
    <3>1. Len(reps) = 1 => ~(Len(reps) > 1)
      OBVIOUS
    <3> QED
      BY <1>4, <3>1, Zenon
  <2>2. Settling'
    BY <1>1, <1>2, <2>1 DEF Settling
  <2>3. RestsOnStrongest
    BY <2>1 DEF RestsOnStrongest, Drawn
  <2> QED
    BY <2>2, <2>3
<1>5. CASE /\ ~Blank(Weights) /\ Len(reps) > 1 /\ ~panicked'
           /\ handoff' = Turned(Weights) /\ handoff' \in Handoffs /\ handoff' # NoHandoff
           /\ shown' = IF panicked' THEN shown ELSE Shares(handoff')
  <2>1. /\ handoff'.to \in DOMAIN reps /\ Sticks(Weights, handoff'.to)
        /\ handoff'.age = Duration => handoff'.from = handoff'.to
    BY <1>2, <1>5, TurnedIs
  <2>2. settled >= 0 => handoff # NoHandoff /\ handoff.age >= settled /\ Sticks(Weights, handoff.to)
    BY <1>5 DEF Settling
  <2>3. settled >= 0 => handoff'.age >= handoff.age
    BY <1>2, <1>5, <2>2, TurnedIs
  <2>4. handoff'.age \in 0 .. Duration
    BY <1>5 DEF Handoffs
  <2>5. settled' = IF settled >= 0 THEN settled ELSE 0
    BY <1>1, <1>3 DEF Over
  <2>6. handoff'.age >= settled'
    <3>1. CASE settled >= 0
      <4>1. handoff \in Handoffs
        BY <2>2, <3>1 DEF LodTypes
      <4>2. handoff.age \in 0 .. Duration
        BY <4>1 DEF Handoffs
      <4> QED
        BY <1>3, <2>2, <2>3, <2>4, <2>5, <3>1, <4>2
    <3>2. CASE ~(settled >= 0)
      BY <2>4, <2>5, <3>2
    <3> QED
      BY <3>1, <3>2
  <2>7. settled' = Duration => shown'[handoff'.to] = Opaque
    <3>1. shown'[handoff'.to] = IF handoff'.from = handoff'.to THEN Opaque ELSE Eased(handoff'.age)
      BY <1>5, <2>1 DEF Shares
    <3>2. settled' = Duration => handoff'.age = Duration
      BY <1>3, <2>4, <2>6
    <3> QED
      BY <3>1, <3>2, <2>1
  <2>8. Settling'
    <3>1. \A w : (w = Weights' /\ ~Blank(w)) =>
            /\ handoff' # NoHandoff /\ handoff'.age >= settled'
            /\ \E n \in DOMAIN reps' :
                 n = handoff'.to /\ Sticks(w, n) /\ (since' = 0 /\ settled' = Duration => shown'[n] = Opaque)
      BY <1>1, <1>2, <1>5, <2>1, <2>6, <2>7
    <3> QED
      BY <3>1 DEF Settling
  <2>9. RestsOnStrongest
    <3>1. settled = Duration => settled' = Duration
      BY <1>3, <2>5
    <3> QED
      BY <2>1, <2>7, <3>1 DEF RestsOnStrongest
  <2> QED
    BY <2>8, <2>9
<1>6. CASE panicked'
  BY <1>6 DEF Settling, RestsOnStrongest, Drawn
<1> QED
  BY <1>4, <1>5, <1>6, FrameDraws

\* Turns, and no flicker: what was entered is left, and what was left entered, far from there.
LEMMA FrameTurns ==
  ASSUME LodTypes, Turns, Frame, ~panicked
  PROVE  Turns' /\ NoFlicker
<1>1. /\ RecordActivity /\ UNCHANGED zoom
  BY FrameDraws
<1>2. /\ active' = [r \in DOMAIN active \cup Listed(reps) |->
                      IF r \in Listed(reps) THEN Activity(r) ELSE active[r]]
      /\ flipped' = [r \in AllReps |->
                       IF r \in Listed(reps) /\ Activity(r) # WasActive(r) THEN zoom ELSE flipped[r]]
  BY <1>1 DEF RecordActivity
<1>3. zoom \in 0 .. TopZoom /\ zoom \in Nat /\ TopZoom \in Nat
  BY LodAssumption DEF LodTypes
<1>4. ASSUME NEW r \in AllReps, r \in Listed(reps), Activity(r) # WasActive(r)
      PROVE  /\ flipped'[r] = zoom /\ r \in DOMAIN active'
             /\ IF active'[r] THEN Enters(r, zoom) ELSE Leaves(r, zoom)
             /\ \/ flipped'[r] = flipped[r]
                \/ flipped'[r] - flipped[r] >= 2 * LodRange[r].hysteresis
                \/ flipped[r] - flipped'[r] >= 2 * LodRange[r].hysteresis
  <2>1. flipped'[r] = zoom /\ r \in DOMAIN active' /\ active'[r] = Activity(r)
    BY <1>2, <1>4
  <2>2. /\ Activity(r) => Enters(r, zoom) /\ ~WasActive(r)
        /\ ~Activity(r) => Leaves(r, zoom) /\ WasActive(r)
    BY <1>4, ActivityIs
  <2>3. CASE flipped[r] = Never
    <3>1. zoom - Never >= 2 * LodRange[r].hysteresis
      BY <1>3, RangeFits DEF Never
    <3> QED
      BY <2>1, <2>2, <2>3, <3>1
  <2>4. CASE flipped[r] # Never
    <3>1. /\ flipped[r] \in 0 .. TopZoom /\ r \in DOMAIN active
          /\ IF active[r] THEN Enters(r, flipped[r]) ELSE Leaves(r, flipped[r])
      BY <2>4 DEF Turns, LodTypes
    <3>2. WasActive(r) = active[r]
      BY <3>1, ActivityIs
    <3>3. \/ Enters(r, zoom) /\ Leaves(r, flipped[r])
          \/ Leaves(r, zoom) /\ Enters(r, flipped[r])
      BY <2>2, <3>1, <3>2
    <3>4. \/ zoom - flipped[r] >= 2 * LodRange[r].hysteresis
          \/ flipped[r] - zoom >= 2 * LodRange[r].hysteresis
      BY <1>3, <3>1, <3>3, Apart
    <3> QED
      BY <2>1, <2>2, <3>4
  <2> QED
    BY <2>3, <2>4
<1>5. ASSUME NEW r \in AllReps, ~(r \in Listed(reps) /\ Activity(r) # WasActive(r))
      PROVE  /\ flipped'[r] = flipped[r]
             /\ flipped[r] # Never =>
                  /\ r \in DOMAIN active'
                  /\ IF active'[r] THEN Enters(r, flipped[r]) ELSE Leaves(r, flipped[r])
  <2>1. flipped'[r] = flipped[r]
    BY <1>2, <1>5
  <2>2. ASSUME flipped[r] # Never
        PROVE  r \in DOMAIN active' /\ active'[r] = active[r]
    <3>1. r \in DOMAIN active
      BY <2>2 DEF Turns
    <3>2. active[r] = WasActive(r)
      BY <3>1 DEF WasActive
    <3> QED
      BY <1>2, <1>5, <3>1, <3>2
  <2> QED
    BY <2>1, <2>2 DEF Turns
<1>6. Turns'
  <2>1. \A r \in AllReps :
          flipped'[r] # Never =>
            /\ r \in DOMAIN active'
            /\ IF active'[r] THEN Enters(r, flipped'[r]) ELSE Leaves(r, flipped'[r])
    BY <1>4, <1>5
  <2> QED
    BY <2>1 DEF Turns, Enters, Leaves
<1>7. NoFlicker
  BY <1>4, <1>5 DEF NoFlicker
<1> QED
  BY <1>6, <1>7

LEMMA LodStarts == LodInit => LodInv
<1> SUFFICES ASSUME LodInit
             PROVE  LodInv
  OBVIOUS
<1>1. LodTypes
  BY LodAssumption, Durations, Easing DEF LodInit, LodTypes
<1>2. Settling /\ Turns
  BY DEF LodInit, Settling, Turns
<1>3. Fading
  BY LodAssumption DEF LodInit, Fading
<1> QED
  BY <1>1, <1>2, <1>3 DEF LodInv

\* What is weighed depends on the list, the recorded activity and the zoom.
LEMMA StillWeights ==
  ASSUME UNCHANGED <<reps, active, zoom>>
  PROVE  Weights' = Weights
BY DEF Weights, Activity, WasActive

\* Time passes.
LEMMA TicksKeep ==
  ASSUME LodInv, NEW elapsed \in 1 .. Duration, LodTick(elapsed)
  PROVE  LodInv' /\ since' # 0
<1>1. /\ handoff' = IF handoff = NoHandoff THEN NoHandoff
                    ELSE [handoff EXCEPT !.age = Upto(Duration, @ + elapsed)]
      /\ since' = Upto(HalfTime, since + elapsed)
      /\ settled' = IF settled < 0 THEN settled ELSE Upto(Duration, settled + elapsed)
      /\ UNCHANGED <<reps, active, zoom, still, shown, panicked, flipped>>
  BY DEF LodTick
<1>2. LodTypes /\ Fading /\ Settling /\ Turns /\ Duration \in Nat \ {0}
  BY Durations DEF LodInv
<1>3. /\ since' \in 0 .. HalfTime /\ since' # 0 /\ settled' \in -1 .. Duration
      /\ settled' >= 0 => settled >= 0
  BY <1>1, <1>2, Durations DEF LodTypes, Upto
<1>4. handoff # NoHandoff =>
        /\ handoff' \in Handoffs /\ handoff' # NoHandoff /\ handoff'.to = handoff.to
        /\ handoff'.age = Upto(Duration, handoff.age + elapsed) /\ handoff.age \in 0 .. Duration
  <2>1. SUFFICES ASSUME handoff # NoHandoff
                 PROVE  /\ handoff' \in Handoffs /\ handoff' # NoHandoff /\ handoff'.to = handoff.to
                        /\ handoff'.age = Upto(Duration, handoff.age + elapsed) /\ handoff.age \in 0 .. Duration
    OBVIOUS
  <2>2. handoff \in Handoffs /\ handoff.age \in 0 .. Duration
    BY <1>2, <2>1 DEF LodTypes, Handoffs
  <2>3. Upto(Duration, handoff.age + elapsed) \in 0 .. Duration
    BY <1>2, <2>2 DEF Upto
  <2>4. /\ handoff' \in Handoffs /\ handoff'.to = handoff.to
        /\ handoff'.age = Upto(Duration, handoff.age + elapsed)
    BY <1>1, <2>1, <2>2, <2>3 DEF Handoffs
  <2> QED
    BY <2>2, <2>4, AgesFit
<1>5. LodTypes'
  BY <1>1, <1>2, <1>3, <1>4 DEF LodTypes
<1>6. Fading'
  <2>1. CASE handoff = NoHandoff
    BY <1>1, <1>2, <2>1 DEF Fading
  <2>2. CASE handoff # NoHandoff
    BY <1>2, <2>2, SharesAge
  <2> QED
    BY <2>1, <2>2
<1>7. Settling'
  <2>1. ASSUME settled' >= 0, Len(reps) > 1, ~panicked, NEW w, w = Weights, ~Blank(w)
        PROVE  /\ handoff' # NoHandoff /\ handoff'.age >= settled'
               /\ \E n \in DOMAIN reps : n = handoff'.to /\ Sticks(w, n)
    <3>1. /\ handoff # NoHandoff /\ handoff.age >= settled
          /\ \E n \in DOMAIN reps : n = handoff.to /\ Sticks(w, n)
      BY <1>2, <1>3, <2>1 DEF Settling
    <3>2. handoff'.age >= settled'
      <4>1. settled \in 0 .. Duration /\ settled' = Upto(Duration, settled + elapsed)
        BY <1>1, <1>2, <1>3, <2>1 DEF LodTypes
      <4> QED
        BY <1>2, <1>4, <3>1, <4>1 DEF Upto
    <3> QED
      BY <1>4, <3>1, <3>2
  <2>2. Weights' = Weights
    BY <1>1, StillWeights
  <2>3. (settled' >= 0 /\ Len(reps') > 1 /\ ~panicked') =>
          \A w : (w = Weights' /\ ~Blank(w)) =>
            /\ handoff' # NoHandoff /\ handoff'.age >= settled'
            /\ \E n \in DOMAIN reps' :
                 n = handoff'.to /\ Sticks(w, n) /\ (since' = 0 /\ settled' = Duration => shown'[n] = Opaque)
    BY <1>1, <1>3, <2>1, <2>2
  <2> QED
    BY <2>3 DEF Settling
<1>8. Turns'
  BY <1>1, <1>2 DEF Turns, Enters, Leaves
<1> QED
  BY <1>3, <1>5, <1>6, <1>7, <1>8 DEF LodInv

\* A zoom and a patch unsettle; a patch draws nothing and forgets with the activity where it changed.
LEMMA ZoomsKeep ==
  ASSUME LodInv, NEW z \in 0 .. TopZoom, Zoom(z)
  PROVE  LodInv' /\ settled' < 0
<1>1. zoom' = z /\ settled' = -1 /\ UNCHANGED <<reps, active, handoff, still, shown, panicked, since, flipped>>
  BY DEF Zoom
<1>2. LodTypes'
  <2>1. settled' \in -1 .. Duration
    BY <1>1, Durations
  <2>2. zoom' \in 0 .. TopZoom
    BY <1>1
  <2> QED
    BY <1>1, <2>1, <2>2 DEF LodInv, LodTypes
<1>3. Fading'
  BY <1>1 DEF LodInv, Fading, SinceDrawn, Drew, Shares
<1>4. Settling' /\ settled' < 0
  BY <1>1 DEF Settling
<1>5. Turns'
  BY <1>1 DEF LodInv, Turns, Enters, Leaves
<1> QED
  BY <1>2, <1>3, <1>4, <1>5 DEF LodInv

LEMMA PatchKeeps ==
  ASSUME LodInv, NEW list \in Lists, Patch(list)
  PROVE  LodInv' /\ settled' < 0 /\ NoFlicker
<1>1. /\ reps' = list /\ active' = [r \in DOMAIN active \cap Listed(list) |-> active[r]]
      /\ flipped' = [r \in AllReps |-> IF r \in DOMAIN active' THEN flipped[r] ELSE Never]
      /\ shown' = [n \in DOMAIN list |-> 0] /\ settled' = -1
      /\ UNCHANGED <<handoff, zoom, still, panicked, since>>
  BY DEF Patch
<1>2. LodTypes /\ Turns /\ Duration \in Nat \ {0}
  BY Durations DEF LodInv
<1>3. LodTypes'
  <2>1. shown' \in [DOMAIN reps' -> 0 .. Opaque] /\ settled' \in -1 .. Duration
    BY <1>1, <1>2, Easing
  <2> QED
    BY <1>1, <1>2, <2>1 DEF LodTypes
<1>4. Fading'
  <2>1. CASE handoff = NoHandoff
    BY <1>1, <2>1 DEF Fading
  <2>2. CASE handoff # NoHandoff
    <3>1. handoff \in Handoffs /\ handoff.age \in 0 .. Duration /\ since \in 0 .. HalfTime
      BY <1>2, <2>2, AgesFit DEF LodTypes
    <3>2. handoff.age \in 0 .. handoff.age /\ handoff.age <= handoff.age + since
      BY <3>1, Durations
    <3>3. [handoff EXCEPT !.age = handoff.age] = handoff
      BY <3>1 DEF Handoffs
    <3>4. ASSUME NEW n \in DOMAIN list
          PROVE  \A age : age = handoff.age => 0 <= Drew(n, age)'
      <4>1. Eased(handoff.age) \in 0 .. Opaque /\ Opaque \in Nat
        BY <3>1, Easing
      <4>2. Opaque - Eased(handoff.age) >= 0 /\ Eased(handoff.age) >= 0 /\ Opaque >= 0
        BY <4>1
      <4> QED
        BY <1>1, <3>3, <4>2 DEF Drew, Shares
    <3>5. \A age : age = handoff.age => SinceDrawn(age)'
      BY <1>1, <3>2 DEF SinceDrawn
    <3> QED
      BY <1>1, <2>2, <3>2, <3>4, <3>5 DEF Fading
  <2> QED
    BY <2>1, <2>2
<1>5. Settling' /\ settled' < 0
  BY <1>1 DEF Settling
<1>6. Turns'
  BY <1>1, <1>2 DEF Turns, Enters, Leaves
<1>7. NoFlicker
  BY <1>1 DEF NoFlicker
<1> QED
  BY <1>3, <1>4, <1>5, <1>6, <1>7 DEF LodInv

\* Nothing is drawn anew, and the zoom rests.
LEMMA RestKeeps ==
  ASSUME LodInv, UNCHANGED <<reps, active, handoff, zoom, shown, panicked, since, settled, flipped>>
  PROVE  LodInv' /\ LodStep
<1>0. LodTypes /\ Fading /\ Settling /\ Turns /\ Duration \in Nat \ {0}
  BY Durations DEF LodInv
<1>1. LodTypes'
  BY <1>0 DEF LodTypes
<1>2. Fading' /\ Turns'
  BY <1>0 DEF Fading, SinceDrawn, Drew, Shares, Turns, Enters, Leaves
<1>3. Weights' = Weights
  BY StillWeights
<1>4. Settling'
  BY <1>0, <1>3 DEF Settling
<1>5. NoPop
  <2>1. HalfTime - since \in 0 .. Duration
    BY <1>0, Durations DEF LodTypes
  <2>2. Eased(HalfTime - since) \in 0 .. Opaque /\ Opaque \in Nat
    BY <2>1, Easing
  <2>3. 0 <= Opaque - Eased(HalfTime - since)
    BY <2>2
  <2>4. \A n \in DOMAIN reps : shown[n] - shown[n] = 0
    BY <1>0, <2>2 DEF LodTypes
  <2> QED
    BY <2>3, <2>4 DEF NoPop, Drawn
<1>6. RestsOnStrongest
  BY <1>0 DEF RestsOnStrongest, Settling, Drawn
<1>7. NoFlicker
  BY DEF NoFlicker
<1> QED
  BY <1>1, <1>2, <1>4, <1>5, <1>6, <1>7 DEF LodInv, LodStep

LEMMA LodKeeps ==
  ASSUME LodInv, [LodNext]_lodVars
  PROVE  LodStep /\ (~panicked' => LodInv')
<1>1. CASE Frame /\ ~panicked
  BY <1>1, FrameTypes, FrameFades, FrameSettles, FrameTurns DEF LodInv, LodStep
<1>2. ASSUME NEW elapsed \in 1 .. Duration, LodTick(elapsed)
      PROVE  LodStep /\ LodInv'
  <2>1. LodInv' /\ since' # 0 /\ flipped' = flipped
    BY <1>2, TicksKeep DEF LodTick
  <2> QED
    BY <2>1 DEF LodStep, NoPop, RestsOnStrongest, NoFlicker, Drawn
<1>3. ASSUME NEW z \in 0 .. TopZoom, Zoom(z)
      PROVE  LodStep /\ LodInv'
  <2>1. LodInv' /\ ~(settled' >= 0) /\ flipped' = flipped
    BY <1>3, ZoomsKeep DEF Zoom
  <2> QED
    BY <2>1 DEF LodStep, NoPop, RestsOnStrongest, NoFlicker, Drawn
<1>4. ASSUME NEW list \in Lists, Patch(list)
      PROVE  LodStep /\ LodInv'
  <2>1. LodInv' /\ ~(settled' >= 0) /\ NoFlicker
    BY <1>4, PatchKeeps DEF Patch
  <2> QED
    BY <2>1 DEF LodStep, NoPop, RestsOnStrongest, Drawn
<1>5. CASE (\E value \in BOOLEAN : SetStill(value)) \/ UNCHANGED lodVars
  BY <1>5, RestKeeps DEF SetStill, lodVars
<1> QED
  BY <1>1, <1>2, <1>3, <1>4, <1>5 DEF LodNext

LEMMA LodAlwaysSafe == LodSpec => LodSafe
<1>1. LodInit => (panicked \/ LodInv)
  BY LodStarts
<1>2. (panicked \/ LodInv) /\ [LodNext]_lodVars => (panicked \/ LodInv)' /\ [LodStep]_lodVars
  BY LodKeeps DEF LodNext, lodVars
<1> QED
  BY <1>1, <1>2, PTL DEF LodSpec, LodSafe

-----------------------------------------------------------------------------
(* The renderer.                                                           *)

\* Whatever objects and representations there are, no patch, filter, timeline, frame or hand
\* on the camera makes the renderer draw what nobody asked for, and no handoff pops, flickers
\* or rests on a blend.
THEOREM RendererAlwaysSafe == RendererSpec => RendererSafe
BY EngineAlwaysSafe, LodAlwaysSafe, PTL DEF RendererSpec, RendererSafe

===============================================================================
