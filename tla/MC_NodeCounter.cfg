CONSTANTS
    n1 = n1
    n2 = n2
    EmptyMV = EmptyMV
    Nodes <- MCNodes
    NodeLabels <- MCNodeLabels
    Provisioner = "default"
    Empty <- EmptyMV
    ZoneValues <- MCZoneValues
    ArchValues <- MCArchValues
    InstanceTypeValues <- MCInstanceTypeValues
    OSValues <- MCOSValues
SPECIFICATION Spec
INVARIANTS
    TypeOK
    StaleSeriesReported
