---------------------------- MODULE MCTableWrites ---------------------------
(***************************************************************************)
(* TableWrites for TLC: the values of the unique field are interchangeable,*)
(* no definition tells them apart and no property is temporal.             *)
(***************************************************************************)
EXTENDS TableWrites

Interchangeable == Permutations(Values)

=============================================================================
