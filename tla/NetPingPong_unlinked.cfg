\* Subspace, whose read waits without a deadline.
CONSTANTS
    Stacks = {"subspace"}
    Probes = 3
    Warmup = 0
    Count = 2
    Depth = 2
SPECIFICATION FairSpec
PROPERTY LinkDecided
CHECK_DEADLOCK FALSE
