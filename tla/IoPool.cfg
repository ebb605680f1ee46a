\* Two I/O threads and three slots: main waits for a thread as well as for all of
\* them. Chunks of two blocks; the last one is shorter, but longer than a block.
SPECIFICATION FairSpec
CONSTANTS
    NumThreads = 2
    Chunk = 4
    Block = 2
    FileSize = 11
    CacheSize = 3
    MaxRounds = 2
INVARIANTS
    TypeOK
    ReadsAreFresh
    WindowCommitted
    JobsIndependent
    FreeWorkersExact
PROPERTY WindowsGetCommitted
