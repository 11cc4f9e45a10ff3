CONSTANTS
    NoValueMV = NoValueMV
    t1 = t1
    LabelKeys <- MCLabelKeys
    LabelKeyOrder <- MCLabelKeyOrder
    Values <- MCValues
    NoValue <- NoValueMV
    ZoneKey = "zone"
    HostnameKey = "hostname"
    CapacityTypeKey = "capacity"
    WellKnownCapacityTypes <- MCWellKnownCapacityTypes
    Taints <- MCTaints
    Hostnames <- MCHostnames
    MaxSkew = 1
    ProvisionerConstraints <- MCProvisionerConstraints
    DaemonSets <- MCDaemonSets
    PodSpecs <- MCPodSpecs
    NumPods = 3
    GroupKeys <- MCGroupKeys
SPECIFICATION FairSpec
CHECK_DEADLOCK FALSE
PROPERTIES
    GroupingRefined
