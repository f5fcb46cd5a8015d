\* Clients that compete for the pipe, and an app that may close, die and start.
SPECIFICATION Spec
CONSTANTS
    c1 = c1
    c2 = c2
    t1 = t1
    Clients = {c1, c2}
    Threads = {t1}
    Listener = listener
    MaxEntries <- MCMaxEntries
INVARIANTS
    TypeOK
    LoggedOnce
    NothingLost
    SameWayInOrder
PROPERTIES
    WriteEnds
    ReturnedArrives
