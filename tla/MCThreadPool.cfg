\* Three workers and four tasks: one worker can run a task while another is blocked and a third
\* is between its test and its wait, with a task still queued.
SPECIFICATION FairSpec
CONSTANTS
    Workers <- MCWorkers
    MaxAdds = 4
    NoOne = "none"
INVARIANTS
    ExactlyOnce
    PoolInv
    ShutdownDrains
PROPERTIES
    EveryTaskRuns
\* The pool really stops: after shutdownAll() has returned nothing is left to do.
CHECK_DEADLOCK FALSE
