\* Input and events, and what must eventually happen, on one sender.
SPECIFICATION Spec
CONSTANTS
    a = a
    b = b
    Sender <- OneSender
    MaxSends = 2
    MaxReads = 2
    MaxCloses = 1
    Modes <- AllModes
    Apis <- AllApis
CHECK_DEADLOCK FALSE
INVARIANTS
    OneRead
    CloseOnce
PROPERTIES
    Delivered
    FailureReported
