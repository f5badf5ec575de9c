SPECIFICATION Spec
CONSTANTS
    Invoices = {i1, i2}
    Orders = {o1, o2}
    Txs = {t1, t2}
    Handlers = {h1, h2}
    Total <- MCTotal
    Amounts = {1, 2}
    Providers = {"viva","stripe","mercadopago"}
    CaseFree = {}
    NoRef = NoRef
SYMMETRY Symmetry
CHECK_DEADLOCK FALSE
INVARIANTS TypeOK NoOverpayment CreditedOnce AckedIsSettled
PROPERTIES SettledIsFinal LedgerSpec
