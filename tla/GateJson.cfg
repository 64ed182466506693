CONSTANTS
    Internet = "INTERNET"
    NodeOrder <- MCNodeOrder
    KindOf <- MCKindOf
    Candidates <- MCCandidates
    MarkerOf <- MCMarkerOf
    InertTypes <- MCInertTypes
    MaxResources = 16
    MaxGraphEdges = 13
    MaxPathsPerTarget = 4
    MaxPaths = 4
    MaxPathDepth = 5
    MaxPathWork = 40
    Baselines <- MCNoBaselines
    Changes <- MCChanges
    Policies <- MCPolicies
    Worlds <- MCJsonWorlds
SPECIFICATION GateSpec
INVARIANT JsonIsDiagnosed
CHECK_DEADLOCK FALSE
