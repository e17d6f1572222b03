------------------------------ MODULE MCRefBase ------------------------------
(* Model-checking instance of RefBase: interchangeable handles. *)
EXTENDS RefBase, TLC

HandleSymmetry == Permutations(Handles)
=============================================================================
