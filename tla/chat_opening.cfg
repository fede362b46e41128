SPECIFICATION Spec
CONSTANTS
    Openers = {o1, o2}
    Sessions = {s1, s2}
    Subs = {}
    Tasks = {}
    Commands = {k1}
    Waiting = 1
    Backlog = 2
    Overlap = FALSE
    None = None
INVARIANTS
    OpenChatIsReachable

    
CHECK_DEADLOCK FALSE
