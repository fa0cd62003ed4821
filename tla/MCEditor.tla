------------------------------ MODULE MCEditor ------------------------------
EXTENDS Editor, TLC

(* Pages are told apart by nothing but their names.                        *)
PageSymmetry == Permutations(Editors)
=============================================================================
