\* Output: two senders race with the io thread, the kernel and close().
SPECIFICATION Safety
CONSTANTS
    a = a
    b = b
    Sender <- TwoSenders
    MaxSends = 2
    MaxReads = 0
    MaxCloses = 1
    Modes <- OneOfEachSide
    Apis <- AllApis
SYMMETRY SenderSymmetry
CHECK_DEADLOCK FALSE
INVARIANTS
    InOrder
    NothingLost
    OneWrite
PROPERTIES
    BufferStable
    ImplementsPromise
