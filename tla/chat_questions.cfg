SPECIFICATION FairSpec
CONSTANTS
    Openers = {o1}
    Sessions = {s1}
    Subs = {u1, u2}
    Tasks = {o1}
    Commands = {}
    Waiting = 1
    Backlog = 2
    Overlap = FALSE
    None = None
INVARIANTS
    TypeOK
    AskUserIsToldOnce
PROPERTIES
    WhatIsStoppedEnds
CHECK_DEADLOCK FALSE
