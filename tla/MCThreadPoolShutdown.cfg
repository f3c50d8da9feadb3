\* One task, or none, is enough to lose the notification of shutdownAll().
SPECIFICATION FairSpec
CONSTANTS
    Workers <- MCWorkers
    MaxAdds = 1
    NoOne = "none"
PROPERTIES
    ShutdownReturns
CHECK_DEADLOCK FALSE
