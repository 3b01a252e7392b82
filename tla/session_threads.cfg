\* docs/asio.md:395 on a session accepted by another thread than its own.
SPECIFICATION Spec
CONSTANTS
    a = a
    b = b
    Sender <- OneSender
    MaxSends = 1
    MaxReads = 1
    MaxCloses = 0
    Modes <- AcceptMode
    Apis <- AllApis
CHECK_DEADLOCK FALSE
PROPERTIES
    SocketOneThread
