CONSTANTS
    EmptyMV = EmptyMV
    NilMV = NilMV
    Empty <- EmptyMV
    Nil <- NilMV
    Inputs <- MCAllInputs
    WellKnownCapacityTypes <- MCWellKnownCapacityTypes
SPECIFICATION Spec
CHECK_DEADLOCK FALSE
INVARIANTS
    AllViolationsReported
