----------------------------- MODULE MCSchedules -----------------------------
(* Schedules, for TLC. *)
EXTENDS Schedules, TLC

\* Users are alike.
Symmetry == Permutations(Users)

=============================================================================
