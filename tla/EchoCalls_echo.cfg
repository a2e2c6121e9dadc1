\* A network that loses and delays and one that does neither; both duplicate twice.
CONSTANTS
    RpcCalls = 4
    FitValues = {TRUE, FALSE}
    Networks = {"lossy", "prompt"}
    MaxDuplicates = 2
SPECIFICATION FairSpec
INVARIANTS
    OwnRoundTrip
PROPERTIES
    TimeoutIsHonest
    ImplementsCalls
    EveryCallAnswered
CHECK_DEADLOCK FALSE
