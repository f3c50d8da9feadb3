\* One response, with the method HEAD among the others.
SPECIFICATION Spec
CONSTANTS
    MaxHeader = 1
    MaxBody = 2
    Threshold = 1
    MaxResponses = 1
INVARIANTS
    HeadHasNoBody
CHECK_DEADLOCK FALSE
