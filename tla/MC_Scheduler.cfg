CONSTANTS
    NoValueMV = NoValueMV
    t1 = t1
    LabelKeys <- MCLabelKeys
    LabelKeyOrder <- MCLabelKeyOrder
    Values <- MCValues
    NoValue <- NoValueMV
    ZoneKey = "zone"
    HostnameKey = "hostname"
    CapacityTypeKey = "capacity"
    WellKnownCapacityTypes <- MCWellKnownCapacityTypes
    Taints <- MCTaints
    Hostnames <- MCHostnames
    MaxSkew = 1
    ProvisionerConstraints <- MCProvisionerConstraints
    DaemonSets <- MCDaemonSets
    PodSpecs <- MCPodSpecs
    NumPods = 3
SPECIFICATION Spec
CHECK_DEADLOCK FALSE
INVARIANTS
    TypeOK
    GroupingIsPartition
    DaemonsFitEveryPod
    HostnameInjectionTransient

    
