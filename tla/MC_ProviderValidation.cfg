CONSTANTS
    EmptyMV = EmptyMV
    NilMV = NilMV
    Empty <- EmptyMV
    Nil <- NilMV
    Inputs <- MCSetClusterInputs
    WellKnownCapacityTypes <- MCWellKnownCapacityTypes
SPECIFICATION Spec
CHECK_DEADLOCK FALSE
INVARIANTS
    TypeOK
    AllViolationsReported
