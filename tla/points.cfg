SPECIFICATION PointsSpec
CONSTANTS
    Askers = {q1, q2}
    Deltas <- PointDeltas
    Refs = {r1}
    NoRef = NoRef
    MaxRows = 3
    Entries = {a1, e1, e2}
    Shuffled = {a1}
    Processes = {p1, p2}
    NoHash = NoHash
    NoProcess = NoProcess
    NoEntry = NoEntry
SYMMETRY PointSymmetry
INVARIANTS BalanceIsLedger NoOtherAlarm
CHECK_DEADLOCK FALSE
