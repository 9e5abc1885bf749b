\* A publisher in the server and one in c1, which may go away; subscribers in
\* the server and in c2, one process at a path.
CONSTANTS
    server = server
    c1 = c1
    c2 = c2
    atServer = atServer
    atClient = atClient
    Client = {c1, c2}
    Server = server
    Path <- MCPath
    Publisher = {atServer, atClient}
    ProcessOf <- MCProcessOf
    PathOf <- MCPathOf
    Subscribe <- OneEach
    Mortal = {c1}
    MaxInterest = 2
    MaxQueue = 3
SPECIFICATION InterestSpec
INVARIANT InterestKnown
INVARIANT InterestCounted
CHECK_DEADLOCK FALSE
