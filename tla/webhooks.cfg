SPECIFICATION HooksSpec
CONSTANTS
    Endpoints = {p1, p2}
    Events = {e}
    Workers = {w1, w2}
    MaxAttempts = 3
    MaxFaults = 1
    NoHook = NoHook
INVARIANTS HookTypesOK
PROPERTIES AttemptsCounted EveryDeliveryEnds
CHECK_DEADLOCK FALSE
