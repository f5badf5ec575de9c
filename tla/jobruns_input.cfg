SPECIFICATION MCSpec
CONSTANTS
    recurring = recurring
    invoices = invoices
    NoJob = NoJob
    Jobs = {recurring, invoices}
    Duties <- MonthlyDuties
    Input <- MonthlyInput
    Workers = {w1}
    Claimed = {recurring}
    MaxFailures = 1
    MaxCrashes = 0
    MaxSlow = 0
INVARIANTS InputComesFirst
