-------------------------------- MODULE MCRoles --------------------------------
(* Roles, for TLC. *)
EXTENDS Roles

\* A ban that is over when it begins, one that is for no time, and one that lasts.
PastZeroAhead == {-1, 0, 1}

=============================================================================
