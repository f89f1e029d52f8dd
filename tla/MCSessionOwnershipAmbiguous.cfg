SPECIFICATION OwnershipSpec
INVARIANT
    ReplacementMeetsNoContainer
