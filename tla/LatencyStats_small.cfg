CONSTANTS
    MaxLatency = 3
    MaxSamples = 4
SPECIFICATION StatsSpec
INVARIANTS PercentileAgrees SplitExact
CHECK_DEADLOCK FALSE
