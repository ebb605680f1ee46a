\* Three workers and two windows of three records: one worker gives a half away
\* and is done before the next one has begun, and jobs of the second window meet
\* workers that have not yet gone back to sleep after the first.
SPECIFICATION FairSpec
CONSTANTS
    NumThreads = 5
    N = 3
    Key = {1, 2, 3}
    Content <- Triples
    MinLeaf = 0
    MaxWindows = 2
INVARIANTS
    TypeOK
    PartsDisjoint
    SortedAtBarrier
    FreeWorkersExact
    QuietOutsideSort
PROPERTIES
    SortsWindows
    WindowsGetSorted
