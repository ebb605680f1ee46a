\* Every order of six chunks.
SPECIFICATION Spec
CONSTANT NumChunks = 6
INVARIANTS
    TypeOK
    TablesTrue
    SwapSafe
    LastNotMoved
    ChunksMapped
