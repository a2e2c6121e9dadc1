\* 1 MiB in 28-byte datagrams: 65536 chunks, one more than a u16 counts.
CONSTANTS
    SizeT = 4194304
    Size = 1048576
    MaxDatagram = 28
    Transport = "udp"
    Warmup = 0
    Count = 1
    Networks = {"reliable"}
    MaxDuplicates = 0
    MaxLosses = 0
    Reach = 1
SPECIFICATION Spec
INVARIANTS
    FrameIntact
CHECK_DEADLOCK FALSE
