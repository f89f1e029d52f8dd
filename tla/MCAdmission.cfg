SPECIFICATION LiveSpec
CONSTANTS
    run1 = run1
    run2 = run2
    run3 = run3
    op1 = op1
    stop1 = stop1
    Nobody = Nobody
    Ids = {run1, run2, run3, op1}
    Stoppers = {}
    Control <- MCControl
    Exclusive <- MCExclusive
    Target <- MCTarget
    Mode <- MCDrain
    MaxGeneration = 0
    MaxCrashes = 1
    LastID = 5
    HostFiles <- MCHostFiles
    MaxWrites = 2
    Blueprints <- MCBlueprints
    Intents <- MCIntents
    Needs <- MCNeeds
    Recipes = {"q"}
    MaxBuilds = 2
    MaxEvents = 1
SYMMETRY MCSymmetry
CHECK_DEADLOCK FALSE
INVARIANTS
    QueueSound
    AdmissionSafe
    GeometrySound
    ProviderBuildSound
PROPERTIES
    NoOvertaking
    ImplementsQueue
