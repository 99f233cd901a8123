------------------------------ MODULE Renderer ------------------------------
(***************************************************************************)
(* The renderer (atlas-engine): its engine, and the level of detail of an  *)
(* object.  Both hear of the same patches, zooms and frames, and keep no   *)
(* state in common: what an object is drawn with depends on its own list   *)
(* of representations and on the zoom.                                     *)
(***************************************************************************)
EXTENDS ProtocolEngine, LodHandoff

RendererSpec == EngineSpec /\ LodSpec

\* No frame, patch, filter or hand on the camera makes the engine draw what nobody asked for,
\* and no zoom, patch or overtaken handoff pops, flickers or rests on a blend.
RendererSafe == EngineSafe /\ LodSafe

=============================================================================
