\* UDP, two chunks per frame, one warmup and three measured frames, every network.
CONSTANTS
    SizeT = 4194304
    Size = 40
    MaxDatagram = 36
    Transport = "udp"
    Warmup = 1
    Count = 3
    Networks = {"unordered", "lossy", "patient"}
    MaxDuplicates = 2
    MaxLosses = 1
    Reach = 2
SPECIFICATION FairSpec
INVARIANTS
    TypeOK
    FrameIntact
    OwnStamp
    GapExact
    ArrivedIsReported
    DoneMeansComplete
    RepeatsCostCopies
PROPERTIES
    ImplementsDelivery
    CompleteRow
CHECK_DEADLOCK FALSE
