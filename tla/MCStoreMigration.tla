-------------------------- MODULE MCStoreMigration --------------------------
(* StoreMigration with two artists and one cached discography.              *)
EXTENDS StoreMigration, TLC
MCSymmetry == Permutations(Artists)
=============================================================================
