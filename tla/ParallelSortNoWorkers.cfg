\* num_threads = 0 leaves the sort pool without a thread.
SPECIFICATION Spec
CONSTANTS
    NumThreads = 0
    N = 3
    Key = {1, 2, 3}
    Content <- Triples
    MinLeaf = 0
    MaxWindows = 1
INVARIANT SortedAtBarrier
