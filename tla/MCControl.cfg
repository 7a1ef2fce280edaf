SPECIFICATION MCFairSpec
CONSTANTS
    trust = trust
    dataplane = dataplane
    advertisement = advertisement
    Callers = {c1, c2}
    Steps <- MCSteps
    None = none
    MaxRequests = 2
    MaxFaults = 2
    hub = hub
    b = b
    c = c
INVARIANTS NothingForgotten
PROPERTIES EventuallyReconciled GossipConverges NobodyStarves
CHECK_DEADLOCK FALSE
