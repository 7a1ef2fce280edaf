SPECIFICATION MCSpec
CONSTANTS
    c1 = c1
    c2 = c2
    t1 = t1
    t2 = t2
    Local = local
    Remote = {r1}
    NoSigner = nobody
    Cfg = {c1, c2}
    Trust = {t1, t2}
    FileDesired <- MCFileDesired
    Wanted <- MCWanted
    Kinds = {"apply", "append", "rejoin"}
    MaxLen = 4
    MaxFaults = 2
    MaxCrashes = 1
INVARIANTS HeadIsCommitted TrustInForce CanRestart RestoreKeepsSettings RevocationsInForce
PROPERTIES OutcomeIsTrue
CHECK_DEADLOCK FALSE
