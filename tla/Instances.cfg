\* Two clients, two server processes one after or beside the other, a shared
\* and a private service.
CONSTANTS
    None = None
    Client = {c1, c2}
    Server = {s1, s2}
    Entry = {shared, own}
    GlobalEntry = {shared}
    Mortal = {s2}
    MaxInstances = 3
SPECIFICATION FairSpec
INVARIANT InstancesCounted
INVARIANT ProxyHasInstance
 
PROPERTY InstanceReleased
CHECK_DEADLOCK FALSE
