---------------------------- MODULE MCMessageLog ----------------------------
(* MessageLog on small instances.                                            *)
EXTENDS MessageLog, TLC

Symmetry == Permutations(Workers)

=============================================================================
