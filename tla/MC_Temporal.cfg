CONSTANTS
    o1 = o1
    o2 = o2
    Objs <- MC_Objs
    TimeArgs <- MC_TimeArgs
    EpochSecs <- MC_EpochSecs
    TsArgs <- MC_TsArgs
    UuidArgs <- MC_UuidArgs
    Unparsable = Unparsable
SYMMETRY MC_Symmetry
SPECIFICATION Spec
INVARIANT TypeOK
INVARIANT InvalidOnlyAfterThrow
INVARIANT CompareAgreesWithTime
