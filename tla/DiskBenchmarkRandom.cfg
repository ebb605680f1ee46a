\* One file of three records of one block.
SPECIFICATION Spec
CONSTANTS
    NumFiles = 1
    RecordArg = 2
    FileArg = 6
    Block = 2
    Sector = 2
    MaxRuns = 1
INVARIANT FilesComplete
