SPECIFICATION Spec
CONSTANTS
    w1 = w1 h1 = h1 h2 = h2 b1 = b1 b2 = b2
    NoHost = NoHost
    Workload = {w1}
    Host = {h1, h2}
    Biller = {b1, b2}
    Rate <- UnitRate
    Interval = 2
    MeteringInterval = 2
    MinuteLength = 4
    MaxTime = 5
    MaxMoves = 1
    MaxRestarts = 1
    Exclusive = TRUE
    Aborts = TRUE
SYMMETRY Symmetric
INVARIANTS TypeOK NeverOverbilled PaidOnce BooksBalance MeteredInRealTime
           RevenueFollowsUsage
PROPERTIES BillNeverShrinks
