\* Two files of five blocks and a bit, in records of two blocks and a bit: the
\* record size and the file size are rounded, and the last block is left out.
\* Three runs: files are written, written again in another way, and read.
SPECIFICATION FairSpec
CONSTANTS
    NumFiles = 2
    RecordArg = 5
    FileArg = 11
    Block = 2
    Sector = 2
    MaxRuns = 3
INVARIANTS
    TypeOK
    AccessInFile
    SeedsEarly
    ResultsTrue
PROPERTY TestEnds
