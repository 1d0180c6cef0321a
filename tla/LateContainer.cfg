CONSTANTS
    MaxSeconds = 3
    CommandLines <- MCOverlay
    Pods <- MCSharingPods
    MaxLate = 1
    MaxFaults = 0
    Faults = {}
SPECIFICATION Spec
INVARIANTS
    OneMountPerUnion
CHECK_DEADLOCK FALSE
