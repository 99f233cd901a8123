------------------------- MODULE MCPublishedMirror -------------------------
(* One slug, two versions that share their artifact, one refresh pass.     *)
EXTENDS PublishedMirror

OneArtifact == [x \in Slugs \X Versions |-> "art"]
=============================================================================
