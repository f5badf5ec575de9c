SPECIFICATION MCSpec
CONSTANTS
    Invoices = {1, 2}
    Total <- MCTotal
    Plans = {p1, p2}
    Count = 2
    PlanTotals = {3}
    Amounts = {1, 2}
    Keys = {k1}
    NoKey = NoKey
    OnlineOrders = {o1}
    Requests = {r1, r2}
CHECK_DEADLOCK FALSE
SYMMETRY Symmetry
INVARIANTS TypeOK LedgersAgree 
PROPERTIES ExactWhenAlone
