\* Two calls of each thread; the file is rewritten twice; one request is
\* refused; reading the local archive may fail.
CONSTANTS
    IdSpace = 4
    Names = {a, b}
    MaxRefusals = 1
    ReadSize = 2
    WriteSize = 2
    Archive <- MCArchive
    Lengths = {1, 3}
    MaxRewrites = 2
    MaxCalls = 2
    ReadErrors = TRUE
SPECIFICATION Spec
INVARIANTS
    NothingLeftBehind
    DownloadIsFaithful
    UploadIsPrefix
    ListingIsComplete
PROPERTIES
    CallsReturn
