CONSTANTS
    o1 = o1
    o2 = o2
    Objs <- MC_Objs
    Keys <- MC_Keys
    BadKeys <- MC_BadKeys
    Vals <- MC_Vals
    Null = Null
    Exc = Exc
SYMMETRY MC_Symmetry
SPECIFICATION Spec
INVARIANT TypeOK
INVARIANT HashAgreesWithCompare
