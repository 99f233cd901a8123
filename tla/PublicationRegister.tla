------------------------ MODULE PublicationRegister ------------------------
(***************************************************************************)
(* What publication promises to readers of one repository: a register that *)
(* holds the current version, or NoVersion before the first publication.   *)
(* It only ever moves on to a version it has not held before, so a         *)
(* superseded publication never comes back and, once something is          *)
(* published, something stays published.                                   *)
(***************************************************************************)
CONSTANT NoVersion

VARIABLES
  current,   \* the version readers are given
  retired    \* the versions that have been replaced

vars == <<current, retired>>

Init == retired = {}

Replace ==
  /\ current' \notin retired \cup {current, NoVersion}
  /\ retired' = retired \cup {current}

Spec == Init /\ [][Replace]_vars

=============================================================================
