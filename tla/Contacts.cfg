\* Two engines share the data; clients name the manager, and slots save.
CONSTANTS
    Engine = {e1, e2}
    MaxContact = 3
    MaxBatch = 2
    MaxNested = 1
    FirstUri = {"own"}
    SecondUri = {"", "own"}
    Copy = {"fetched"}
    SlotCalls = {"save"}
SPECIFICATION MemSpec
INVARIANT RelationshipsAgree
INVARIANT ObserversKnow
INVARIANT RemovesAllAsked
INVARIANT NoDanglingRelationship
CHECK_DEADLOCK FALSE
