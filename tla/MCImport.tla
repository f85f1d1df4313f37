------------------------------- MODULE MCImport -------------------------------
(* Import on small instances.                                                *)
EXTENDS Import

TwoRooms == <<"first", "second">>

=============================================================================
