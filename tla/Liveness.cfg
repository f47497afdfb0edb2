\* One process under fairness, two changes on RemoteHost1, one failed call.
CONSTANTS
    Files = {a, b}
    Long = {b}
    ZipSize <- MCZipSize
    MAX_ZIP_SIZE = 3
    Faults = {"connect", "readdir", "probe", "add", "source", "sftp_open",
              "sftp_write", "read", "sftp_close", "unlink"}
    MaxChanges = 2
    MaxClock = 1
    MaxFaults = 1
    MaxStarts = 1
SPECIFICATION FairSpec
PROPERTIES
    Shutdown
    ArchiveDrains
