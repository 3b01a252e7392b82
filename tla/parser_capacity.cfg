\* The proportions of tcp_parser.h:13 and config.h:5: 2048 bytes, reads of 8192.
SPECIFICATION ParserSpec
CONSTANTS
    InitSize = 4
    MaxRecv = 16
    LenField = 2
    MaxAlloc = 128
    MaxStream = 20
    MaxEmpty = 20
    Streams <- PlainStream
CHECK_DEADLOCK FALSE
INVARIANTS
    WithinCapacity
