\* One process, three changes on RemoteHost1; no call fails.  A long file
\* exceeds the threshold alone.
CONSTANTS
    Files = {a, b}
    Long = {b}
    ZipSize <- MCZipSize
    MAX_ZIP_SIZE = 2
    Faults = {}
    MaxChanges = 3
    MaxClock = 2
    MaxFaults = 0
    MaxStarts = 1
SPECIFICATION Spec
INVARIANTS
    TypeOK
    UploadWindow
    OvershootByOne
    AppendIsFresh
    NotForgotten
PROPERTIES
    LossOnlyAtUnlink
