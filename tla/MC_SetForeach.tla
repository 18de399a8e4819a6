---------------------------- MODULE MC_SetForeach ----------------------------
(* Model-checking instance of SetForeach.                                  *)
EXTENDS SetForeach, TLC

CONSTANTS e1, e2, e3

MC_Elems == {e1, e2, e3}

MC_Symmetry == Permutations(MC_Elems)
=============================================================================
