----------------------------- MODULE MCDatabase -----------------------------
(***************************************************************************)
(* Symmetry for the model checking of Database: it compares names and data *)
(* for equality only.                                                      *)
(***************************************************************************)
EXTENDS Database, TLC

Symmetry == Permutations(Names) \cup Permutations(Datas)
=============================================================================
