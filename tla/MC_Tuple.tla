------------------------------ MODULE MC_Tuple ------------------------------
(* Two tuples of type tuple<int, int>: slots 0 and 1, values 1 and 2.      *)
EXTENDS Composite, TLC

CONSTANTS o1, o2

MC_Objs == {o1, o2}
\* Slot indices of the type, and the indices just outside it.
MC_Keys == <<0, 1>>
MC_BadKeys == {-1, 2}
MC_Vals == {1, 2}
MC_Symmetry == Permutations(MC_Objs)
=============================================================================
