SPECIFICATION Spec
CONSTANTS
    Openers = {o1, o2}
    Sessions = {s1, s2}
    Subs = {}
    Tasks = {}
    Commands = {}
    Waiting = 1
    Backlog = 2
    Overlap = TRUE
    None = None
INVARIANTS
    OpenChatIsReachable
CHECK_DEADLOCK FALSE
