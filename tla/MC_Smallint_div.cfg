CONSTANTS
    Bits = 16
    LongInputs <- MC_LongInputs
    Operands <- MC_Operands
    DoubleInputs <- MC_DoubleInputs
    StringInputs <- MC_StringInputs
    Arch = "x86_64"
SPECIFICATION SmallintSpec
INVARIANT DivModExact
