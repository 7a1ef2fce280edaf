SPECIFICATION FairSpec
CONSTANTS
    Operators = {"o1", "o2"}
    Senders = {}
    MaxCalls = 2
    MaxPackets = 1
    MaxSends = 0
CHECK_DEADLOCK FALSE
PROPERTY OperationsEnd
