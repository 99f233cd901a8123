--------------------------- MODULE ProtocolEngine ---------------------------
(***************************************************************************)
(* The renderer's engine (atlas-engine, protocol_runtime.rs): a scene that *)
(* patches change at once or through an animation, and what is resolved to *)
(* indices of its objects: the visibility filter, the projection override  *)
(* and the timeline; and the camera, which a timeline moves while it plays *)
(* and the host otherwise.  Callers are the browser facade's methods and   *)
(* one `tick` per frame.                                                   *)
(*                                                                         *)
(* A scene is a function from the identities to the place of the object,   *)
(* or Absent; its sequence of objects is in the order of the identities,   *)
(* as a patch leaves it.  Paths go through patches, filters and overrides  *)
(* as objects do, and are left out, with all geometry but the place.       *)
(***************************************************************************)
EXTENDS Integers, FiniteSets

CONSTANTS Ids,          \* object identities, natural numbers
          Spots,        \* where the compiler puts objects
          Absent,       \* no object, no transition, no timeline, no override
          Kept,         \* an object that a patch does not mention
          HostViews,    \* cameras of the host
          FullTime,     \* the length of a transition and of a timeline, in frames
          Easings,      \* of a transition: the hundredths of the way made at each time
          MaxPatches,   \* patches sent
          MaxFaults     \* of them, patches that are refused

VARIABLES
  scene,       \* the snapshot that is drawn
  transition,  \* the animated patch under way
  filter,      \* the visibility filter
  visible,     \* ... resolved: the indices of the objects that are drawn
  override,    \* the projection override: its object and the index it resolved to
  selected,    \* the object selected
  timeline,    \* the timeline and the index its emphasis resolved to
  camera,      \* the camera: a view of the host's, or the time a timeline has put it at
  reduced,     \* reduced motion
  canonical,   \* ghost: the scene the patches accepted so far describe
  torn,        \* ghost: a patch was refused during a transition
  stale,       \* ghost: what was set before a transition that has ended since
  held,        \* ghost: the user moved the camera after the last play, seek or new timeline
  patches, faults

drawn == <<scene, transition>>
resolved == <<filter, visible, override, selected, timeline>>
engineVars == <<drawn, resolved, camera, reduced, canonical, torn, stale, held, patches, faults>>

\* An object is where the compiler, or an animation, puts it.
Scenes == [Ids -> Int \cup {Absent}]
Present(s) == {i \in Ids : s[i] # Absent}
IndexIn(s, i) == Cardinality({j \in Present(s) : j <= i})

AllShown == [mode |-> "all", ids |-> {}]
Filters == {AllShown} \cup [mode : {"isolate"}, ids : SUBSET Ids]

\* The indices of the objects a filter lets through.
Shows(f, s) == {IndexIn(s, i) : i \in {j \in Present(s) : f.mode = "all" \/ j \in f.ids}}

OverrideOn(s, i) == [id |-> i, index |-> IndexIn(s, i)]

Transitions == [from : Scenes, target : Scenes, time : Nat, ticked : BOOLEAN,
                ease : Easings]
Overrides == [id : Ids, index : Nat]
Timelines == [id : Ids, index : Nat, moves : BOOLEAN, looped : BOOLEAN,
              time : Nat, playing : BOOLEAN, ticked : BOOLEAN]

\* What is absent is nothing else, and there is a time to be animated in.
ASSUME EngineAssumption ==
  /\ IsFiniteSet(Ids) /\ Ids \subseteq Int /\ Spots \subseteq Int /\ Kept \notin Int \cup {Absent}
  /\ FullTime \in Nat \ {0} /\ Easings \subseteq [0 .. FullTime -> 0 .. 100]
  /\ Absent \notin Int \cup Transitions \cup Overrides \cup Timelines

EngineInit ==
  /\ scene \in [Ids -> Spots \cup {Absent}] /\ transition = Absent
  /\ filter = AllShown /\ visible = Shows(AllShown, scene)
  /\ override = Absent /\ selected = Absent /\ timeline = Absent
  /\ camera \in HostViews /\ reduced = FALSE
  /\ canonical = scene /\ torn = FALSE /\ stale = {} /\ held = FALSE
  /\ patches = 0 /\ faults = 0

-----------------------------------------------------------------------------
(* Patches.                                                                *)

\* What a patch makes of the scene it is based on; Absent where it removes an object.
Patches == [Ids -> Spots \cup {Absent, Kept}]
Applied(patch, base) == [i \in Ids |-> IF patch[i] = Kept THEN base[i] ELSE patch[i]]

\* Mutant of Base: a patch is based on what is drawn.
BaseDrawn == scene

\* The scene a patch is based on: what the last one was to lead to.
Base == IF transition = Absent THEN scene ELSE transition.target

\* prepare_patch_animation: the objects of both ends, each where it is or, if it is new,
\* where it will be.
Union(from, target) == [i \in Ids |-> IF from[i] # Absent THEN from[i] ELSE target[i]]

Resolved(value, s) ==
  IF value # Absent /\ s[value.id] # Absent THEN OverrideOn(s, value.id) ELSE Absent

\* What apply_patch does once the patch is accepted.
Install(s) ==
  /\ scene' = s
  /\ timeline' = Absent
  /\ filter' = IF filter.ids \subseteq Present(s) THEN filter ELSE AllShown
  /\ visible' = Shows(filter', s)
  /\ selected' = IF selected \in Present(s) THEN selected ELSE Absent
  /\ override' = Resolved(override, s)
  /\ stale' = {}

ApplyPatch(patch, animated) ==
  /\ patches < MaxPatches /\ patches' = patches + 1
  /\ LET target == Applied(patch, Base)
     IN  IF animated
         THEN /\ Install(Union(scene, target))
              /\ \E ease \in Easings :
                   transition' = [from |-> scene, target |-> target, time |-> 0,
                                  ticked |-> FALSE, ease |-> ease]
         ELSE Install(target) /\ transition' = Absent
  /\ canonical' = Applied(patch, canonical)
  /\ UNCHANGED <<camera, reduced, torn, held, faults>>

\* A patch of another revision or scene, or that is malformed: by then the transition has
\* been taken.
RefusePatch ==
  /\ faults < MaxFaults /\ faults' = faults + 1
  /\ transition' = Absent
  /\ torn' = (torn \/ transition # Absent)
  /\ UNCHANGED <<scene, resolved, camera, reduced, canonical, stale, held, patches>>

\* tick_patch_transition, at the frame that is `elapsed` after the last one.  At the end the
\* override is resolved again; the filter, the timeline and the selection are not.
Between(from, target, way) ==
  [i \in Ids |->
     IF from[i] = Absent \/ target[i] = Absent THEN Union(from, target)[i]
     ELSE IF target[i] >= from[i] THEN from[i] + ((target[i] - from[i]) * way) \div 100
     ELSE from[i] - ((from[i] - target[i]) * way) \div 100]

TickTransition(elapsed) ==
  IF transition = Absent THEN UNCHANGED <<scene, transition, override, stale>>
  ELSE LET time == transition.time + (IF transition.ticked THEN elapsed ELSE 0)
       IN  IF time >= FullTime
           THEN /\ scene' = transition.target /\ transition' = Absent
                /\ override' = Resolved(override, transition.target)
                /\ stale' = {"filter", "timeline", "selection"}
           ELSE /\ scene' = Between(transition.from, transition.target, transition.ease[time])
                /\ transition' = [transition EXCEPT !.time = time, !.ticked = TRUE]
                /\ UNCHANGED <<override, stale>>

-----------------------------------------------------------------------------
(* Filters, overrides and selection.                                       *)

ghosts == <<canonical, torn, patches, faults>>

\* set_visibility; refused, with nothing changed, when it names an unknown object.
SetVisibility(f) ==
  /\ f.ids \subseteq Present(scene)
  /\ filter' = f /\ visible' = Shows(f, scene) /\ stale' = stale \ {"filter"}
  /\ UNCHANGED <<drawn, override, selected, timeline, camera, reduced, held, ghosts>>

\* set_projection_override; refused, with nothing changed, for an unknown object.
SetOverride(i) ==
  /\ i \in Present(scene) \/ i = Absent
  /\ override' = IF i = Absent THEN Absent ELSE OverrideOn(scene, i)
  /\ UNCHANGED <<drawn, filter, visible, selected, timeline, camera, reduced, stale, held, ghosts>>

\* select_at: one of the objects drawn at the point, by the index they are found at, or none.
SelectAt(i) ==
  /\ i = Absent \/ (i \in Present(scene) /\ IndexIn(scene, i) \in visible)
  /\ selected' = i /\ stale' = stale \ {"selection"}
  /\ UNCHANGED <<drawn, filter, visible, override, timeline, camera, reduced, held, ghosts>>

-----------------------------------------------------------------------------
(* The timeline and the camera.                                            *)

Sampled(t) == IF reduced THEN FullTime ELSE t

\* seek_timeline, also on a timeline just set.
Seek(story, t) ==
  /\ timeline' = [story EXCEPT !.time = t, !.ticked = FALSE]
  /\ camera' = IF story.moves THEN Sampled(t) ELSE camera

\* set_timeline: paused at its start; `moves`: it has cues for the camera.
SetTimeline(i, moves, looped) ==
  /\ i \in Present(scene)
  /\ Seek([id |-> i, index |-> IndexIn(scene, i), moves |-> moves, looped |-> looped,
           time |-> 0, playing |-> FALSE, ticked |-> FALSE], 0)
  /\ stale' = stale \ {"timeline"} /\ held' = FALSE
  /\ UNCHANGED <<drawn, filter, visible, override, selected, reduced, ghosts>>

SeekTimeline(t) ==
  /\ timeline # Absent /\ Seek(timeline, t) /\ held' = FALSE
  /\ UNCHANGED <<drawn, filter, visible, override, selected, reduced, stale, ghosts>>

Paused(story) ==
  IF story = Absent THEN Absent ELSE [story EXCEPT !.playing = FALSE, !.ticked = FALSE]

\* play_timeline; with reduced motion it pauses.
Play ==
  /\ timeline # Absent
  /\ timeline' = [Paused(timeline) EXCEPT !.playing = ~reduced]
  /\ held' = FALSE
  /\ UNCHANGED <<drawn, filter, visible, override, selected, camera, reduced, stale, ghosts>>

SetReducedMotion(value) ==
  /\ reduced' = value
  /\ timeline' = IF value THEN Paused(timeline) ELSE timeline
  /\ UNCHANGED <<drawn, filter, visible, override, selected, camera, stale, held, ghosts>>

\* pan_screen, zoom_at and fit_world.
UserMoves(view) ==
  /\ timeline' = Paused(timeline)
  /\ camera' = view /\ held' = TRUE
  /\ UNCHANGED <<drawn, filter, visible, override, selected, reduced, stale, ghosts>>

\* setCamera of the host, which lets a timeline play on.
HostMoves(view) ==
  /\ camera' = view
  /\ UNCHANGED <<drawn, resolved, reduced, stale, held, ghosts>>

\* The player's tick; the first frame after a play, a pause or a seek only takes the time, and
\* the frame that ends the play still samples the camera.
TickTimeline(elapsed) ==
  IF timeline = Absent \/ ~timeline.playing THEN UNCHANGED <<timeline, camera>>
  ELSE LET time == timeline.time + (IF timeline.ticked THEN elapsed ELSE 0)
           over == timeline.ticked /\ time >= FullTime
           at == IF ~over THEN time ELSE IF timeline.looped THEN time % FullTime ELSE FullTime
       IN  /\ timeline' = [timeline EXCEPT !.time = at, !.ticked = TRUE,
                                           !.playing = ~over \/ timeline.looped]
           /\ camera' = IF timeline.moves THEN Sampled(at) ELSE camera

\* A frame.
EngineTick(elapsed) ==
  /\ TickTransition(elapsed)
  /\ TickTimeline(elapsed)
  /\ UNCHANGED <<filter, visible, selected, reduced, held, ghosts>>

EngineNext ==
  \/ \E patch \in Patches, animated \in BOOLEAN : ApplyPatch(patch, animated)
  \/ RefusePatch
  \/ \E f \in Filters : SetVisibility(f)
  \/ \E i \in Ids \cup {Absent} : SetOverride(i) \/ SelectAt(i)
  \/ \E i \in Ids, moves, looped \in BOOLEAN : SetTimeline(i, moves, looped)
  \/ \E t \in 0 .. FullTime : SeekTimeline(t)
  \/ Play
  \/ \E value \in BOOLEAN : SetReducedMotion(value)
  \/ \E view \in HostViews : UserMoves(view) \/ HostMoves(view)
  \/ \E elapsed \in 0 .. FullTime : EngineTick(elapsed)

EngineSpec == EngineInit /\ [][EngineNext]_engineVars

-----------------------------------------------------------------------------
(* Properties.                                                             *)

\* Whatever patches follow one another, at once, animated or interrupting an animation, what
\* is drawn at rest, and what an animation leads to, is the scene that the accepted patches
\* describe; unless one was refused during an animation, whose target is lost then (renderer.md:46
\* has a patch validated "before changing engine or GPU state").
PatchesCompose ==
  ~torn => (IF transition = Absent THEN scene ELSE transition.target) = canonical

\* What was resolved to an index of the scene still means its object: the override always,
\* the filter, the timeline and the selection until an animated patch ends.
ResolutionsFit ==
  /\ override # Absent => override = Resolved(override, scene)
  /\ "filter" \notin stale => visible = Shows(filter, scene)
  /\ "timeline" \notin stale /\ timeline # Absent => timeline.index = IndexIn(scene, timeline.id)
  /\ "selection" \notin stale => selected = Absent \/ selected \in Present(scene)

\* A user who has moved the camera keeps it until a play, a seek or a new timeline; a camera
\* a timeline has moved is where it is, or at its end.
CameraOwned ==
  /\ held => camera \in HostViews
  /\ (camera \notin HostViews /\ timeline # Absent) =>
       (timeline.moves => camera \in {timeline.time, FullTime})

\* A patch that is animated, also when it interrupts another, moves and removes nothing that
\* is drawn: the motion goes on from there.
NoJump ==
  (patches' # patches /\ transition' # Absent) =>
    \A i \in Present(scene) : scene'[i] = scene[i]

EngineStep == PatchesCompose' /\ ResolutionsFit' /\ CameraOwned' /\ NoJump

EngineSafe == [][EngineStep]_engineVars

=============================================================================
