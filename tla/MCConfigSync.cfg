SPECIFICATION MCSpec
CONSTANTS
    IX = {x1, x2}
    NoIX = NoIX
    Poller = Poller
    Requests = {r1}
    MaxLen = 3
    MaxLate = 0
    MaxUnsure = 0
    MaxRejoins = 0
    MaxCrashes = 0
    Event <- MCEvent
    Hash <- MCHash
    NoHash <- MCNoHash
    Genesis <- MCGenesis
    Batches <- MCBatches
SYMMETRY Exchanges
INVARIANTS LogMatching CommitsOnce
PROPERTIES AppendOnly SyncReportIsTrue
