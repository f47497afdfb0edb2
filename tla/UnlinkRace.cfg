\* No call fails.
CONSTANTS
    Files = {a, b}
    Long = {b}
    ZipSize <- MCZipSize
    MAX_ZIP_SIZE = 3
    Faults = {}
    MaxChanges = 2
    MaxClock = 2
    MaxFaults = 0
    MaxStarts = 1
SPECIFICATION Spec
PROPERTY DeletedWasUploaded
