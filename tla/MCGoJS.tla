------------------------------- MODULE MCGoJS -------------------------------
(***************************************************************************)
(* A small instance of GoJS: enough ids to wrap a callback, make two nested *)
(* fs calls and keep some values in between.                                *)
(***************************************************************************)
EXTENDS GoJS, TLC

CONSTANTS s1, s2, s3

Nulls == {NullRef}
Symmetry == Permutations(Slot)
=============================================================================
