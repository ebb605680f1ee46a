\* Every content of five records with three keys: ties on both sides of the
\* pivot.
SPECIFICATION Spec
CONSTANTS
    N = 5
    Key = {1, 2, 3}
INVARIANTS
    TypeOK
    PivotInSight
    PartitionDone
