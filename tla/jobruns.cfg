SPECIFICATION MCSpec
CONSTANTS
    recurring = recurring
    invoices = invoices
    NoJob = NoJob
    Jobs = {recurring, invoices}
    Duties <- MonthlyDuties
    Input <- MonthlyInput
    Workers = {w1, w2}
    Claimed = {recurring}
    MaxFailures = 1
    MaxCrashes = 1
    MaxSlow = 1
INVARIANTS TypeOK SuccessIsEarned
PROPERTIES ExclusiveUnlessSlow 
