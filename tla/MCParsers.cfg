\* Printed documents two containers deep, every sequence of up to six tokens; bodies of up to
\* two parts with contents around the delimiter and the buffer; a byte of six values; every set
\* of files below two mounts, one of them inside the other; a vector of three bytes with every
\* order of resizes, moves and retirements that ten bytes allow.
SPECIFICATION Spec
CONSTANTS
    JsonDepth = 2
    JsonTokens = 6
    JsonRounds = 3
    BufSize = 2
    PartData <- PartDatas
    Base = 6
    kBufferSize = 12
    PostSizes = {0, 1, 35, 36}
    Outputs <- CgiOutputs
    Urls <- SiteUrls
    Sites <- SiteSet
    default_pages_ <- Pages
    KeyTexts <- UrlKeys
    ValueTexts <- UrlValues
    DigestBuffer = 4
    init_size = 3
    MaxLen = 3
    MaxReadable = 5
    MaxBytes = 10
INVARIANTS
    JsonRoundTrip
    TreeIsText
    JsonInBounds
    PartsExact
    NoSpinInBody
    PhpReceives
    PhpAnswerExact
    DispatchExact
    PairsExact
    DigestExact
    ReadableExact
    RoomForWrite
    SizeBounded
