SPECIFICATION Spec
CONSTANTS
    Invoices = {i1}
    Orders = {o1}
    Txs = {t1, t2}
    Handlers = {h1, h2}
    Total <- MCTotal
    Amounts = {1, 2}
    Providers = {"stripe"}
    CaseFree = {}
    NoRef = NoRef
SYMMETRY Symmetry
CHECK_DEADLOCK FALSE
INVARIANT AckedReferenceIsCredited
