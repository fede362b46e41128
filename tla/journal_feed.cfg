SPECIFICATION FairSpec
CONSTANTS
    Runs = {1, 2}
    Subs = {1, 2}
    Filter <- MCFilter
    ByRepository = {2}
    Diagnostics = FALSE
    Batch = 2
    Memo = 1
    Backlog = 1
    Buffer = 1
    Ceiling = 1
    Faults = {"head", "tail", "lookup", "call"}
    MaxEntries = 3
    MaxFailures = 1
INVARIANTS
    TypeOK
    StreamHasNoHole
    SlotsAreThreads
PROPERTIES
    HungUpFreesItsSlot
    EntriesArriveOrStreamEnds
CHECK_DEADLOCK FALSE
