\* The segments end between or inside header lines, or inside a multipart body: up to two header
\* lines and three bytes of body, and a second request on the connection.
SPECIFICATION FairSpec
CONSTANTS
    MethodLen = 3
    UrlLen = 1
    HeaderLen = 5
    MaxHeaders = 2
    MaxBody = 3
    MaxRequests = 2
    Splits = {"header", "multipart"}
INVARIANTS
    TypeOK
    SegmentsDoNotMatter
    ResumesWhereItStopped
PROPERTIES
    EveryRequestAnswered
\* A closed connection is the end.
CHECK_DEADLOCK FALSE
