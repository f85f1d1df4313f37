------------------------------ MODULE MCPolling ------------------------------
(* Polling on small instances.                                               *)
EXTENDS Polling, TLC

\* With reactions, all rows in one answer or one row at a time; without reactions.
Full == [reactions |-> TRUE, limit |-> 2]
Paged == [reactions |-> TRUE, limit |-> 1]
Plain == [reactions |-> FALSE, limit |-> 2]

FullAndPaged == {Full, Paged}
PagedOnly == {Paged}
PlainOnly == {Plain}

Symmetry == Permutations(Data)

=============================================================================
