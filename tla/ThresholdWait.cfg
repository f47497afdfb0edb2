\* No call fails; both files fit only one by one.
CONSTANTS
    Files = {a, b}
    Long = {b}
    ZipSize <- MCZipSize
    MAX_ZIP_SIZE = 3
    Faults = {}
    MaxChanges = 2
    MaxClock = 1
    MaxFaults = 0
    MaxStarts = 1
SPECIFICATION FairSpec
PROPERTY ThresholdWaitEnds
