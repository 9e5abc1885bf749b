\* A list of up to three items in every mode; slots call while an item is announced.
CONSTANTS
    Media = {m1, m2}
    NoContent = NoContent
    Modes = {"CurrentItemOnce", "CurrentItemInLoop", "Sequential", "Loop", "Random"}
    SlotsOnChange = FALSE
    EmptyRandom = FALSE
    MaxItems = 3
    MaxHistory = 4
    MaxSteps = 1
    MaxAgenda = 2
SPECIFICATION Spec
INVARIANT CurrentIsItem
INVARIANT PlayerHeardLast
INVARIANT HistoryInRange
INVARIANT PromiseKept
