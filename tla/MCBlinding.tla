------------------------------ MODULE MCBlinding ------------------------------
(* Blinding, for TLC. *)
EXTENDS Blinding, TLC

\* Workers are alike.
Symmetry == Permutations(Workers)

=============================================================================
