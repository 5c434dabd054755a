SPECIFICATION FairSpec
CONSTANTS
    Entry = {e1, e2}
    NoFile = NoFile
INVARIANTS
    TypeOK
    DiskAgrees
    SavedStays
PROPERTIES
    SavedEventually
