\* The three stacks, with and without failing calls and echoes that are late.
CONSTANTS
    Stacks = {"subspace", "cyclone", "zenoh"}
    Probes = 5
    Warmup = 1
    Count = 3
    Depth = 3
SPECIFICATION FairSpec
INVARIANTS
    OwnEcho
    OneInFlight
    EchoUnderWay
PROPERTIES
    ImplementsRoundTrips
    RunEnds
    LinkedCompletes
CHECK_DEADLOCK FALSE
