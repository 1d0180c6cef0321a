CONSTANTS
    u1 = u1
    b1 = b1
    b2 = b2
    Volumes <- MCVolumes
    Branches <- MCBranches
    MaxDaemons = 6
    MaxFaults = 5
SPECIFICATION Spec
INVARIANTS
    TypeOK
    ReplacedOnlyAfterARun
PROPERTIES
    StaleBranchIsReplaced
    CountersAreDropped
