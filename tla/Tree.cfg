\* Two connections, one with two publishers; the version table can run out of
\* entries, because Climb loses some.
CONSTANTS
    c1 = c1
    c2 = c2
    p1 = p1
    p2 = p2
    Path <- MCPath
    Owner <- MCOwner
    Watcher <- MCWatcher
    WatchPath <- MCWatchPath
    Value = {1}
    MaxEntries = 3
    MaxWatch = 3
SPECIFICATION TreeSpec
INVARIANT LinkedToRoot
PROPERTY ChildrenVersioned
PROPERTY ForeignValuesKept
 
