------------------------------ MODULE MC_PhpSet ------------------------------
(* Model-checking instance of PhpSet: arbitrary call order on one Set.     *)
EXTENDS PhpSet, TLC

CONSTANTS e1, e2, e3

MC_Elems == {e1, e2, e3}

\* Elements are interchangeable: no guard of Set.c tells two values apart
\* except by equality.
MC_Symmetry == Permutations(MC_Elems)
=============================================================================
