\* Eight times after the least qint64: ranges of up to four intervals.
CONSTANTS
    MinTime = 0
    Start = 1
    MaxTime = 8
SPECIFICATION Spec
INVARIANT Disjoint
INVARIANT Exact
