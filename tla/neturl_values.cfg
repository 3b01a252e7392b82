\* The constants of parts.cfg; what the grammar of a url promises, which the parser does not keep.
SPECIFICATION Spec
CONSTANTS
    Numbers <- MCNumbers
    Declared <- MCDeclared
    Dashed <- MCDashed
    Words <- MCWords
    Lines <- MCLines
    MaxWords = 3
    MaxParses = 2
    Blank = " "
    Quote = "q"
    Escape = "e"
    Urls <- MCUrls
    Numerals <- MCNumerals
    Texts <- MCTexts
    MaxCalls = 4
    Cells = {0, 200}
    MaxRows = 2
    MaxContexts = 3
    MaxExchanges = 2
    MongoUsers = {1, 2}
    MaxPools = 2
    maxPoolSize = 1
    BufferUsers = {1, 2, 3}
    Sizes = {63, 64, 65536, 131072}
    Ints = 262144
    MaxBuffers = 2
    Pushers = {1, 2}
    Poppers = {3, 4}
    MaxMessages = 3
    MaxSessions = 2
    MaxPackets = 2
    MaxCloses = 2
    Ports = {80, 8889, 8890}
    MaxRobots = 2
    MaxCount = 1
    TestThreads = {0, 1}
    PerProducer = 2
    Bulk = 2
    MaxIndex = 3
    InitSize = 6
    MaxRecv = 6
    LenField = 2
    MaxAlloc = 11
    MaxStream = 30
    MaxEmpty = 20
    Streams <- MixedStreams
CHECK_DEADLOCK FALSE
PROPERTIES
    ValuesKept
