SPECIFICATION Spec
CONSTANTS
    t1 = t1
    t2 = t2
    t3 = t3
    a = a
    b = b
    Null = Null
    Threads <- MCThreads
    Clients <- MCClients
    FdsOf <- MCFdsOf
    Delays = {0, 1}
    MaxTime = 2
INVARIANTS
    TypeOK
    OneList
    FdsOfLists
    HandleOfThread
PROPERTIES
    EarliestFirst
    EventsRun
    ReadyRuns
