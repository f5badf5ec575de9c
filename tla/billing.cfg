SPECIFICATION MCSpec
CONSTANTS
    N = 3
    Strategies <- MCStrategies
    Periods = {1, 2}
    Amounts = {2}
    heating = heating
    Templates = {heating}
    TemplateCharge <- MCCharge
    Requests = {q1, q2, q3, q4, q5}
    NoOne = NoOne
    MaxEdits = 1
SYMMETRY Symmetry
INVARIANTS TypeOK SharesAreExact IssuedFromOneView BilledInFullUnlessLate OnceUnlessOverlapped
PROPERTIES IssuedIsImmutable
CHECK_DEADLOCK FALSE
