\* Three connections over two descriptors: two at a time, and a descriptor number used again.
\* Two chunks per peer: the handshake and a request, or a request in two parts.
SPECIFICATION Spec
CONSTANTS
    Fds = {f1, f2}
    NoFd = nofd
    Workers = {w1, w2}
    Loop = loop
    MaxAccepts = 3
    MaxSends = 2
    MaxUnits = 2
    Https = TRUE
    TimelyHandlers = TRUE
SYMMETRY Symmetry
INVARIANTS
    OneHolder
    ChannelAlive
    TimerCovers
\* After Destroy the process has ended.
CHECK_DEADLOCK FALSE
