\* A terminal for each transport, a run of each side by side, or two of one.
CONSTANTS
    Users <- TwoUsers
    Ladder <- OneSize
    Ends = {"ok", "empty", "na"}
    MaxRuns = 2
    Free = Free
SPECIFICATION Spec
INVARIANT ChartMatchesTable
PROPERTIES FullRunShown NewestCharted LastRowShown
CHECK_DEADLOCK FALSE
