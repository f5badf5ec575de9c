SPECIFICATION MCSpec
CONSTANTS
    Requests = {q1, q2, q3}
    Feed <- MCFeed
    Total <- MCTotal
    Cents = {2}
    Millimes <- MCMillimes
    NoMark = "none"
    MaxInvoices = 2
SYMMETRY Symmetry
INVARIANTS TypeOK PullLeavesNothingOut
PROPERTIES MatchStands
CHECK_DEADLOCK FALSE
