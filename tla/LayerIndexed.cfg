\* All bitmaps are attached; the publisher c1 may go, and the subscription of c2
\* may end and begin again.
CONSTANTS
    server = server
    c1 = c1
    c2 = c2
    Client = {c1, c2}
    Server = server
    Indexed = {c1, c2}
    Preemptible = {}
    Mortal = {c1}
    Publish <- OnePublisher
    Withdraw <- OneWithdraws
    Subscribe <- OneSubscriber
    Drop <- OneSubscriber
    MaxCalls = 4
    Path <- MCPath
    Owner <- MCOwner
    Watcher = {}
    WatchPath = {}
    Value = {1}
    MaxEntries = 3
    MaxWatch = 0
SPECIFICATION LayerSpec
 
INVARIANT AckedIsApplied
INVARIANT GoneOwnsNothing
CHECK_DEADLOCK FALSE
