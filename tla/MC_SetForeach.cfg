CONSTANTS
    e1 = e1
    e2 = e2
    e3 = e3
    Elems <- MC_Elems
    Null = Null
    NoValue = NoValue
    Garbage = Garbage
    MaxEntries = 4
SYMMETRY MC_Symmetry
SPECIFICATION LoopSpec
INVARIANT LoopTypeOK
INVARIANT ForeachVisitsEachOnce
PROPERTY ImplementsValueSet
INVARIANT TempLive
INVARIANT HashCacheFresh
INVARIANT CompareIsSetEquality
