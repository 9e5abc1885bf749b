\* A proxy and two calls of it, two signals, a connection that may break.
CONSTANTS
    MaxCalls = 3
    MaxSignals = 2
    Slow = TRUE
    ServiceEnds = TRUE
SPECIFICATION EPFairSpec
INVARIANT AnswerIsOwn
INVARIANT RequestsAccounted
INVARIANT SequentialIsSafe
PROPERTY CallReturns
CHECK_DEADLOCK FALSE
