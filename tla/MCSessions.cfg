SPECIFICATION MCSpec
CONSTANTS
    Size = 3
    MaxSeq = 9
    Senders = {g1, g2}
    MaxPackets = 3
    MaxBatch = 2
    MaxFaults = 2
    closing = closing
    ticking = ticking
    noThread = noThread
    flow1 = flow1
    flow2 = flow2
    accept1 = accept1
    accept2 = accept2
INVARIANTS RecordsDelivered BuffersAccounted SessionsSettle SessionsServed
PROPERTIES ImplementsFilter ExactlyTheRun
CHECK_DEADLOCK FALSE
