SPECIFICATION Spec
CONSTANTS
    w1 = w1 h1 = h1 h2 = h2 b1 = b1
    NoHost = NoHost
    Workload = {w1}
    Host = {h1, h2}
    Biller = {b1}
    Rate <- UnitRate
    Interval = 1
    MeteringInterval = 2
    MinuteLength = 4
    MaxTime = 5
    MaxMoves = 1
    MaxRestarts = 0
    Exclusive = TRUE
    Aborts = FALSE
INVARIANTS MeteredInRealTime
