\* Two I/O threads and chunks that are not whole blocks.
SPECIFICATION Spec
CONSTANTS
    NumThreads = 3
    Chunk = 3
    Block = 2
    FileSize = 9
    CacheSize = 2
    MaxRounds = 3
INVARIANT ReadsAreFresh
