\* A playlist of up to two items: one that may fail while it plays, one that the
\* pipeline refuses, and one that is buffered and cannot be sought in; slots call
\* the player and the playlist.
CONSTANTS
    Media = {m1, m2, m3}
    NoContent = NoContent
    Modes = {"Sequential"}
    SlotsOnChange = FALSE
    EmptyRandom = FALSE
    MaxItems = 2
    MaxHistory = 0
    MaxSteps = 0
    MaxAgenda = 1
    Unreadable = {}
    FailsAtOnce = {m2}
    FailsLate = {m1}
    Unseekable = {m3}
    Buffered = {m3}
    MaxBus = 1
SPECIFICATION PlayerSpec
 
INVARIANT StateReported
INVARIANT PlayingRuns
PROPERTY PlaysThrough
PROPERTY BeginsAtStart
CHECK_DEADLOCK FALSE
