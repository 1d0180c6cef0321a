CONSTANTS
    MaxSeconds = 3
    CommandLines <- MCCommandLines
    Pods <- MCPods
    MaxLate = 1
    MaxFaults = 2
    Faults = {"api", "mount", "answer", "restart", "relink", "replace"}
SPECIFICATION Spec
INVARIANTS
    TypeOK
    OneMountUnlessLate
    ViewShowsItsUnion
    LayersFollowDeclaration
    SourcesAreOwn
    SourcesWereMounted
    OptionsFollowPolicy
CHECK_DEADLOCK FALSE
