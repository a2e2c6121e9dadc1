\* 2100 frames at 10 Hz: 210 s.
CONSTANTS
    StreamLengths = {14}
    Slack = 0
SPECIFICATION FairSpec
INVARIANT LoopFirst
CHECK_DEADLOCK FALSE
