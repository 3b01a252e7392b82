\* Two servers: server_base makes its generator and never calls init().
SPECIFICATION SnowflakeSpec
CONSTANTS
    a = a
    b = b
    t1 = t1
    t2 = t2
    t3 = t3
    Node = {a, b}
    Caller = {t1, t2, t3}
    NodeOf <- Threads
    Initialised = {}
    WorkerId <- Workers
    DatacenterId <- Datacenters
    SeqSize = 2
    WorkerSize = 2
    DatacenterSize = 2
    MaxMillis = 1
    MaxAsked = 1
CHECK_DEADLOCK FALSE
INVARIANTS
    UniqueIds
