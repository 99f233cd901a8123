---------------------------- MODULE MCOwnerLock ----------------------------
(* Three processes sharing one operator store, two of which may crash.     *)
EXTENDS OwnerLock

CONSTANTS p1, p2, p3

MCProcs == {p1, p2, p3}

=============================================================================
