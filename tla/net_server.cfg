\* Two io threads and the application, two sessions, accepted or connected.
SPECIFICATION Spec
CONSTANTS
    Contexts = 2
    MaxSessions = 2
    Reads <- TwoAndNone
CHECK_DEADLOCK FALSE
INVARIANTS
    SessionsMatch
    OrderPerSession
PROPERTIES
    ClientsServed
    CloseReported
