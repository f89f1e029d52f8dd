SPECIFICATION HostSpec
CONSTANTS
    Operations <- HostOperations
    ExitStatuses <- MCExitStatuses
    MaxInputs = 1
    Eager = {"complete"}
    Faults = {"controller-exit"}
    PythonPackages = {1, 2, 3}
    Required = {1}
    Dependencies = {2}
    SystemPackage = 0
    Trials <- MCTrials
    Upstream = {"1"}
    MaxWork = 3
    MaxLoads = 1
    Debs = {"a", "b"}
    Locals = {"app", "lib"}
    Direct = {"app"}
    Recipes = {"lib"}
    MaxTouches = 1
    MappedRuns = {"a", "b"}
    Configurations = {"c"}
    MapGenerations = {"g1", "g2"}
    Geometries <- MCGeometries
    PolicyIDs <- MCPolicyIDs
    Profiles = {"exact", "bounded"}
    MaxRevision = 8
CHECK_DEADLOCK FALSE
INVARIANTS
    AnswersHeard
    EditorSound
    PreparationSound
    MappingSound
