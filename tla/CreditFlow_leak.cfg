\* Cyclone: a sample taken before it was counted leaves its credit behind.
CONSTANTS
    Stacks = {"cyclone"}
    MaxInFlight = 2
    DrainCap = 2
    Slots = 8
    Iterations = 3
SPECIFICATION Spec
INVARIANTS
    CreditsMatchSamples
CHECK_DEADLOCK FALSE
