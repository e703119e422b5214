-------------------------------- MODULE MCSchema --------------------------------
(* Small instances of SchemaMigrations. *)
EXTENDS SchemaMigrations, TLC

CONSTANTS i1, i2, i3, d1, d2, v100, v110, o1, o2

Rows == Permutations(Id)
=============================================================================
