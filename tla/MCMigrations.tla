----------------------------- MODULE MCMigrations -----------------------------
(* Migrations on small instances.                                            *)
EXTENDS Migrations, TLC

Symmetry == Permutations(Procs)

=============================================================================
