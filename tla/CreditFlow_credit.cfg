\* All three stacks, reliable and best-effort; any middleware call may fail.
CONSTANTS
    Stacks = {"subspace", "cyclone", "zenoh"}
    MaxInFlight = 2
    DrainCap = 2
    Slots = 8
    Iterations = 3
SPECIFICATION FairSpec
INVARIANTS
    TypeOK
    OutstandingBounded
    EveryMessageCovered
    SlotFree
PROPERTIES
    StopIsJoined
    BenchmarkEnds
CHECK_DEADLOCK FALSE
