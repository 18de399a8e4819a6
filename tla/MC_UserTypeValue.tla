------------------------- MODULE MC_UserTypeValue -------------------------
(* Two values of type userType<a: int, b: int>, field values 1 and 2.      *)
EXTENDS UserTypeValue, TLC

CONSTANTS o1, o2

MC_Objs == {o1, o2}
\* The type's field names in declaration order, and a name it lacks.
MC_Keys == <<"a", "b">>
MC_BadKeys == {"c"}
MC_Vals == {1, 2}
MC_Symmetry == Permutations(MC_Objs)
=============================================================================
