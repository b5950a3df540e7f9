SPECIFICATION Spec
CONSTANTS
    l1 = l1
    l2 = l2
    Lists = {l1, l2}
    Elements <- MCElements
    Clients = {w1, w2}
    Nil = Nil
    NoReply = NoReply
    Queue = l2
    Polled <- MCPolled
    Prefetch = 2
    MaxMessages = 2
    MaxStops = 2
    MaxSlow = 1
INVARIANTS
    TypeOK
    NoOneWaitsInVain
    BlockedClientsRegistered
    LostOnlyInPop
    RunsOnceUnlessExposed
PROPERTY SentTasksBegin
