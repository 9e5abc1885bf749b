\* A server that is started again, and two clients.
CONSTANTS
    Server = s
    Client = {c1, c2}
    Proc = {s, c1, c2}
    Creating = {s}
    Destroying = {s}
    Mortal = {s, c1, c2}
    Inode = {i1, i2}
    NoFile = NoFile
    MaxSets = 2
SPECIFICATION LayerLockSpec
 
INVARIANT CountsNoGhosts
CHECK_DEADLOCK FALSE
