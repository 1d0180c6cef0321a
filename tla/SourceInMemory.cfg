CONSTANTS
    MaxSeconds = 3
    CommandLines <- MCOverlay
    Pods <- MCMemoryPods
    MaxLate = 0
    MaxFaults = 0
    Faults = {}
SPECIFICATION Spec
INVARIANTS
    SourcesWereSetUp
CHECK_DEADLOCK FALSE
