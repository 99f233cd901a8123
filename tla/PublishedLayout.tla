-------------------------- MODULE PublishedLayout --------------------------
(***************************************************************************)
(* The names of the published store (publishedStoreLayout.ts): a slug per  *)
(* repository, the versions published of it, and what latest.json or a row *)
(* of index.json that is not there names.                                  *)
(***************************************************************************)
CONSTANTS Slugs, Versions, Absent

ASSUME LayoutAssumption == Absent \notin Versions

=============================================================================
