\* Three processes: signals reach p1, the other two may crash and restart.
CONSTANTS
    Proc = {p1, p2, p3}
    Interrupted = {p1}
    Mortal = {p2, p3}
    MaxUndo = 2
SPECIFICATION FairSpec
INVARIANT MutualExclusion
INVARIANT QuiescentIsFree
PROPERTY ImplementsReadWriteLock
PROPERTY WriterIsServed
