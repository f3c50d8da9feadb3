\* The segments end anywhere.
SPECIFICATION Spec
CONSTANTS
    MethodLen = 3
    UrlLen = 1
    HeaderLen = 5
    MaxHeaders = 1
    MaxBody = 1
    MaxRequests = 1
    Splits = {"line", "header", "body", "multipart"}
INVARIANTS
    SegmentsDoNotMatter
CHECK_DEADLOCK FALSE
