SPECIFICATION MCSpec
CONSTANTS
    Event <- MCEvent
    Hash <- MCHash
    NoHash <- MCNoHash
    Batches <- MCBatches
    Torn = Torn
    Nothing = Nothing
    Keep = 1
    MaxLen = 3
    MaxBackups = 3
    x = x
    y = y
INVARIANTS AckedSurvives AlwaysLoadable RestoreSafe QuietAgrees MembersPruned
PROPERTIES ResultTellsCommit ReplacedIsBackedUp
CHECK_DEADLOCK FALSE
