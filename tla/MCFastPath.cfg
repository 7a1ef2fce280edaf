SPECIFICATION MCSpec
CONSTANTS
    Frames = {f1, f2, f3}
    RingSize = 2
    Kinds = {"tcp", "multi", "udp", "crypto"}
    MaxItems = 3
    KickBatch = 2
    DeferFlush = TRUE
    DeferDelay = TRUE
    FlushInterval = TRUE
    SoftBackoff = TRUE
    Backpressure = TRUE
    NeedWakeup = TRUE
    MaxSends = 2
    MaxFailures = 2
    c1 = c1
SYMMETRY Symmetry
INVARIANTS FramesAccounted KicksRemembered PathsSafe
PROPERTIES LeasesKept
CHECK_DEADLOCK FALSE
