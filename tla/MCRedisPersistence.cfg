SPECIFICATION Spec
CONSTANTS
    SaveChanges = 1
    MaxWrites = 4
    MaxFaults = 3
INVARIANTS
    TypeOK
    SavedWritesKept
    DirtyCountsUnsaved
PROPERTIES
    WritesReachDump
    WritesResume
