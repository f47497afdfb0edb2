\* Two processes in turn, two changes on RemoteHost1, one failed call: of those
\* the code looks at, and of those upload_file does not notice.  Two files
\* exceed the threshold together.
CONSTANTS
    Files = {a, b}
    Long = {b}
    ZipSize <- MCZipSize
    MAX_ZIP_SIZE = 3
    Faults = {"connect", "opendir", "download", "zip_open", "source",
              "zip_close", "ifstream", "sftp_open", "sftp_write", "read",
              "sftp_close", "unlink"}
    MaxChanges = 2
    MaxClock = 2
    MaxFaults = 1
    MaxStarts = 2
SPECIFICATION Spec
INVARIANTS
    SemaphoreInv
    TruncatedRecoverable
    IInv
    NotForgotten
PROPERTIES
    WedgeStable
    ImplementsRelay
