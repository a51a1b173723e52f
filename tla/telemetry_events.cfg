SPECIFICATION FairSpec
CONSTANTS
    None = None
    Empty = Empty
    FingerPrint = FingerPrint
    Device = Device
    User = User
    Configs <- EachConfig
    Options <- EachOption
    Keys <- TheKeys
    DefaultBatch = 2
    BatchLimit = 2
    PageBatches = {1}
    MaxCalls = 3
    MaxChanges = 1
    MaxFailures = 1
CHECK_DEADLOCK FALSE
INVARIANTS
    TypeOK
    NothingLost
    LostOnlyIfOvertaken
    RepeatedOnlyAmid
    DeviceNamed
    NestedEnds
    OutOfOrderOnlyRetried
PROPERTIES
    EventuallyDispatched
