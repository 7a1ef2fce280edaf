SPECIFICATION MCFairSpec
CONSTANTS
    IX = {x1, x2}
    NoIX = NoIX
    Poller = Poller
    Requests = {r1}
    MaxLen = 2
    MaxLate = 0
    MaxUnsure = 0
    MaxRejoins = 0
    MaxCrashes = 0
    Event <- MCEvent
    Hash <- MCHash
    NoHash <- MCNoHash
    Genesis <- MCGenesis
    Batches <- MCBatches
PROPERTIES Converges
