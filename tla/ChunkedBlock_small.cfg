\* Every size 16..75 against seven datagram limits, and command lines at the ends
\* of the ranges, with a size_t of 8192 values and frame numbers of 4096.
CONSTANTS
    SizeT = 8192
    SeqT = 4096
    Argvs <- MCArgvs
SPECIFICATION Spec
INVARIANTS
    SlicesTileBlock
    DatagramFits
    LabelledIffHeadersFit
    TrapsIffNoBudget
    CountReachable
\* The worker ends (or the process is gone) after the last frame.
CHECK_DEADLOCK FALSE
