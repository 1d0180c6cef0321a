CONSTANTS
    u1 = u1
    v1 = v1
    p1 = p1
    Unions <- OneUnions
    Views <- OneViews
    SharedFrom <- OneSharedFrom
    Pods <- OnePods
    PodOf <- OnePodOf
    MaxDaemons = 4
    HostSystemd = TRUE
    SealControl = TRUE
    FaultKinds = {"crash", "hang", "start", "seal", "stop", "umount", "bind", "save", "drop", "wait", "restart", "forget", "reboot"}
    MaxFaults = 2
SPECIFICATION FairSpec
INVARIANTS
    TypeOK
    NoResurrection
    PassDetachesOnlyDead
    RetriesMountOnce
    LiveMountIsRecorded
PROPERTIES
    ServingDaemonNeverStopped
    KeepsContract
    UnpublishCompletes
    PublishCompletes
    OneDeadUnionIsRemounted
    DeadViewIsRebound
    UninterruptedUnionGetsSealed
