\* Every buffer up to 220 bytes and every file up to 60 records of 3 bytes: the
\* smallest buffer is 24 bytes, the largest chunk 48.
SPECIFICATION DivisionSpec
CONSTANTS
    RecordSize = 3
    MaxChunk = 48
    MaxRecords = 60
    MaxBuffer = 220
INVARIANTS
    ChunksTile
    EnoughSlots
