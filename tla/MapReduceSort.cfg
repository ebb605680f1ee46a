\* Every input of five lines with three keys, in two map tasks and two parts,
\* with every partitioner, and two failures; valsort reads blocks of two records.
SPECIFICATION Spec
CONSTANTS
    NumRecs = 5
    Key = {1, 2, 3}
    NumParts = 2
    SplitSize = 3
    BlockSize = 2
    MaxFailures = 2
    Crc <- MCCrc
INVARIANTS
    TypeOK
    JobSorts
    SummaryExact
