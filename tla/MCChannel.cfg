\* Bodies below, at and above the threshold; two responses, to see what the first leaves behind.
SPECIFICATION FairSpec
CONSTANTS
    MaxHeader = 2
    MaxBody = 3
    Threshold = 1
    MaxResponses = 2
INVARIANTS
    TypeOK
    InOrder
    Framed
    CountersInv
PROPERTIES
    WriteEnds
\* After the last response of the bound nothing is left to do.
CHECK_DEADLOCK FALSE
