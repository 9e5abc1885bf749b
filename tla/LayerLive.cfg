\* No bitmap can be attached, the server publishes too, and the refreshes of c2
\* are preempted anywhere.
CONSTANTS
    server = server
    c1 = c1
    c2 = c2
    Client = {c1, c2}
    Server = server
    Indexed = {}
    Preemptible = {c2}
    Mortal = {c1}
    Publish <- TwoPublish
    Withdraw <- ServerWithdraws
    Subscribe <- OneSubscriber
    Drop = {}
    MaxCalls = 3
    Path <- MCPath
    Owner <- MCOwner
    Watcher = {}
    WatchPath = {}
    Value = {1}
    MaxEntries = 3
    MaxWatch = 0
SPECIFICATION LayerFairSpec
PROPERTY SyncReturns
 
CHECK_DEADLOCK FALSE
