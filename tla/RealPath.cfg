CONSTANTS
    Policies <- MCPolicies
    Starts <- MCStarts
    Slots <- MCSlots
    Targets <- MCTargets
    FixedDirs <- MCFixedDirs
    MaxSymlinks = 2
SPECIFICATION FairSpec
INVARIANTS
    TypeOK
    OpenedIsAllowed
    FindsWhatIsMeant
PROPERTIES
    WalkEnds
