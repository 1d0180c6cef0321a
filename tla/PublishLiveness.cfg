CONSTANTS
    MaxSeconds = 3
    CommandLines <- MCBackends
    Pods <- MCWaitingPods
    MaxLate = 1
    MaxFaults = 1
    Faults = {"mount"}
SPECIFICATION FairSpec
PROPERTIES
    WellDeclaredIsPublished
    HopelessIsRefused
CHECK_DEADLOCK FALSE
