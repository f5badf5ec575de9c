SPECIFICATION Spec
CONSTANTS
    N = 2
    Levies = {roof}
    Terms <- MCTerms
    Requests = {q1, q2, q3}
    Amounts = {1, 2}
    MaxCash = 1
    NoOne = NoOne
SYMMETRY Symmetry
INVARIANTS TypeOK NeverOverCollected NoCircularWait
PROPERTIES LedgerSpec
CHECK_DEADLOCK FALSE
