------------------------------ MODULE MCViewer ------------------------------
(***************************************************************************)
(* The viewer: `focus` picks the semantic lens of the page, the level of   *)
(* detail of the renderer, or one half of its engine, "scene" (patches,    *)
(* filters, overrides, and timelines that stand still) or "camera" (who    *)
(* moves it), which share the scene and the timeline and have no other     *)
(* state in common.                                                        *)
(***************************************************************************)
EXTENDS SemanticLens, Renderer

CONSTANTS
  v1, a, b, c,
  system, neighbour, web, api, page, handler, hook

VARIABLE focus

\* Two objects, which a patch may swap round or move by four steps of its two-frame animation.
TwoIds == {1, 2}
TwoSpots == {0, 4}

\* At half time an animation that eases out has made fifteen sixteenths of its way.
EaseOut == [t \in 0 .. 2 |-> CASE t = 0 -> 0 [] t = 1 -> 94 [] t = 2 -> 100]
MCEasings == {EaseOut}

\* Three representations whose ranges overlap, the first without fade, the last without end; a scene
\* with all of them, without the last, and with the middle one alone.
MCRange ==
  [r \in {a, b, c} |->
     CASE r = a -> [min |-> 0, max |-> 3, fade |-> 0, hysteresis |-> 1]
       [] r = b -> [min |-> 1, max |-> 4, fade |-> 1, hysteresis |-> 1]
       [] r = c -> [min |-> 3, max |-> 5, fade |-> 2, hysteresis |-> 1]]
MCLists == {<<a, b, c>>, <<a, b>>, <<b>>}

\* A system beside another one, two containers, and what is in them; the larger container
\* reveals its children earlier.  A step of the wheel is no longer than what lies between the
\* runways of a parent and its child.
MCParent ==
  [e \in {system, neighbour, web, api, page, handler, hook} |->
     CASE e \in {system, neighbour} -> NoEntity [] e \in {web, api} -> system
       [] e = page -> web [] e = handler -> api [] e = hook -> page]
MCLevel ==
  [e \in DOMAIN MCParent |->
     CASE e \in {system, neighbour} -> 0 [] e \in {web, api} -> 1 [] e = hook -> 3 [] OTHER -> 2]
MCEnter ==
  [e \in DOMAIN MCParent |-> CASE MCLevel[e] = 0 -> 2 [] e = web -> 9 [] e = api -> 7
                              [] e = hook -> 19 [] OTHER -> 14]
MCFull ==
  [e \in DOMAIN MCParent |-> CASE MCLevel[e] = 0 -> 6 [] e = web -> 12 [] e = api -> 10
                              [] e = hook -> 23 [] OTHER -> 18]

MCEntities == DOMAIN MCParent

MCInit ==
  /\ focus \in {"scene", "camera", "lod", "lens"}
  /\ EngineInit /\ scene = [i \in Ids |-> 0]
  /\ LodInit /\ LensInit
  /\ focus # "lod" => reps = <<b>> /\ zoom = 0
  /\ focus # "lens" => ~calm

On(part) == focus = part /\ UNCHANGED focus

SceneNext ==
  /\ EngineNext
  /\ timeline' # Absent => timeline'.time = 0 /\ ~timeline'.playing /\ ~timeline'.moves /\ ~timeline'.looped
  /\ UNCHANGED <<camera, reduced, held>>

CameraNext == EngineNext /\ patches' <= 1 /\ UNCHANGED <<filter, override, selected, scene>>

MCNext ==
  \/ On("scene") /\ SceneNext /\ UNCHANGED <<lodVars, lensVars>>
  \/ On("camera") /\ CameraNext /\ UNCHANGED <<lodVars, lensVars>>
  \/ On("lod") /\ LodNext /\ UNCHANGED <<engineVars, lensVars>>
  \/ On("lens") /\ LensNext /\ UNCHANGED <<engineVars, lodVars>>

MCSpec == MCInit /\ [][MCNext]_<<focus, engineVars, lodVars, lensVars>>

=============================================================================
