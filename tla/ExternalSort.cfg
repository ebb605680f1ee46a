\* Six chunks of two records, the last one half full: two windows in the even
\* pass, one in the odd pass.
SPECIFICATION FairSpec
CONSTANTS
    NumRecs = 11
    ChunkSize = 2
    CacheSize = 4
    Key = {1, 2}
INVARIANTS
    TypeOK
    MetadataFresh
    WindowsContiguous
PROPERTIES
    SortsFile
    SortEnds
