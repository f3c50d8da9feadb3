\* Two workers and up to three sessions: requests of one client at the same time, two clients,
\* a first session made twice, and a timer that is set back while another one is in the heap.
SPECIFICATION FairSpec
CONSTANTS
    Workers = {w1, w2}
    Interval = 2
    MaxSessions = 3
    MaxRequests = 3
INVARIANTS
    TimerPerSession
    SessionAliveInUse
    InvalidatedStaysInvalid
PROPERTIES
    SessionsExpire
CHECK_DEADLOCK FALSE
