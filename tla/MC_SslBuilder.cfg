CONSTANTS
    p1 = p1
    p2 = p2
    pw1 = pw1
    pw2 = pw2
    Passphrases <- MC_Passphrases
    FlagInputs <- MC_FlagInputs
    Paths <- MC_Paths
    MaxCerts = 2
    MaxEnvChanges = 2
    None = None
    EmptyIsNull = TRUE
SYMMETRY MC_Symmetry
SPECIFICATION Spec
INVARIANT BuildCompleteOrThrows
