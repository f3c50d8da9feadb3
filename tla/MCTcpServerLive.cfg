\* Liveness: one descriptor used by two connections one after the other, two workers.
SPECIFICATION FairSpec
CONSTANTS
    Fds = {f1}
    NoFd = nofd
    Workers = {w1, w2}
    Loop = loop
    MaxAccepts = 2
    MaxSends = 2
    MaxUnits = 2
    Https = FALSE
    TimelyHandlers = TRUE
PROPERTIES
    EveryConnectionCloses
    LoopReturns
\* After Destroy the process has ended.
CHECK_DEADLOCK FALSE
