\* Any client: three chunks for two slots.
SPECIFICATION Spec
CONSTANTS
    Chunk = {c1, c2, c3}
    NumSlots = 2
    NoChunk = NoChunk
    MaxVersion = 1
SYMMETRY ChunkSymmetry
INVARIANTS
    TypeOK
    CountersExact
    LoadedIsLatest
    ChangesKept
