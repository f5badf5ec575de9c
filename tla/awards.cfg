SPECIFICATION JobsSpec
CONSTANTS
    Callers = {q1, q2, q3, q4, q5}
    Providers = {p1, p2}
    Replicas = {r1, r2}
    Offers = {1, 2}
    NoBid = NoBid
    MaxCrashes = 1
SYMMETRY JobSymmetry
INVARIANTS JobTypesOK AwardStands CommissionIsOnAward
PROPERTIES OnlyForward
CHECK_DEADLOCK FALSE
