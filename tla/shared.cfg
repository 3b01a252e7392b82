\* Two generators told apart by init(), one of them shared by two threads, two
\* calls of each thread and two ids to a millisecond; one producer and two
\* consumers that keep coming back to a ring of two slots, which wraps twice,
\* and a Clear; two children of t_asio_context.cpp, two tasks of two handlers.
SPECIFICATION SharedSpec
CONSTANTS
    a = a
    b = b
    t1 = t1
    t2 = t2
    t3 = t3
    Node = {a, b}
    Caller = {t1, t2, t3}
    NodeOf <- Threads
    Initialised = {a, b}
    WorkerId <- Workers
    DatacenterId <- Datacenters
    SeqSize = 2
    WorkerSize = 2
    DatacenterSize = 2
    MaxMillis = 1
    MaxAsked = 2
    p1 = p1
    p2 = p2
    c1 = c1
    c2 = c2
    Producer = {p1}
    Consumer = {c1, c2}
    MinSize = 2
    Requested = 4
    Torn = Torn
    MaxCalls = 4
    MaxClears = 1
    ChildCount = 2
    Tasks = 2
    Handlers = 2
    Interval = 1
    MaxTime = 4
CHECK_DEADLOCK FALSE
INVARIANTS
    Increasing
    UniqueIds
PROPERTIES
    NextReturns
    ImplementsPromise
    Drained
    EnqueueReturns
    HandlersRun
