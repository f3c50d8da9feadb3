\* A handler may outlast idle_timeout_.
SPECIFICATION Spec
CONSTANTS
    Fds = {f1}
    NoFd = nofd
    Workers = {w1}
    Loop = loop
    MaxAccepts = 1
    MaxSends = 1
    MaxUnits = 1
    Https = FALSE
    TimelyHandlers = FALSE
INVARIANTS
    TimerClosesOnlyIdle
\* After Destroy the process has ended.
CHECK_DEADLOCK FALSE
