\* Round trips or events, of all three sizes, with or without loss; half a minute of delays.
CONSTANTS
    StreamLengths = {3, 5}
    Slack = 2
SPECIFICATION FairSpec
INVARIANTS CutAfterRow RowWhole
PROPERTIES StreamAfterReady SessionEnds
CHECK_DEADLOCK FALSE
