SPECIFICATION MCSpec
CONSTANTS
    u1 = u1
    u2 = u2
    ann = ann
    bob = bob
    Units = {u1, u2}
    Residents = {ann, bob}
    Owns <- MCOwns
    Weight <- MCWeight
    Threshold = "SIMPLE_MAJORITY"
    Pools <- MCPools
    Requests = {r1, r2, cron}
    Scheduler = cron
    MaxRestarts = 1
    None = None
CHECK_DEADLOCK FALSE
INVARIANTS TypeOK
PROPERTIES  CountedWhenAlone OverdueIsClosed
