\* Two files, each written up to three times; one kind of fault, any number
\* of times.
CONSTANTS
    Files = {a, b}
    MaxFaults = 1
    MaxClock = 3
SPECIFICATION Spec
INVARIANTS
    TypeOK
    LostCopyIsRecoverable
    EncryptedUnlessFault
    AddedIsNew
PROPERTIES
    ArchiveGrows
    DeletedWasArchived
    WrittenInSleepIsTaken
    ArchivedIsUploaded
