SPECIFICATION FairSpec
CONSTANTS
    h1 = h1 h2 = h2 h3 = h3 w1 = w1 w2 = w2 p1 = p1 c1 = c1 c2 = c2 d1 = d1
    Null = Null
    Host = {h1, h2, h3}
    Pool = {p1}
    Region <- East
    Caller = {c1, c2}
    Uses <- OwnerAndCustomer
    Daemon = {d1}
    Serves <- OnHost1
    FirstHosts = {h1, h2}
    FirstMetrics <- Aged
    FirstMembers <- InPool
    Offers <- NewHosts
    Edits <- Terms
    MaxCalls = 4
    MaxOutcomes = 1
    Workload = {w1, w2}
    Request <- PooledAndHuge
    Targets = {Null, h3}
INVARIANTS TypeOK PlacedAsRequested PriceRange
PROPERTIES OutcomesCountOnce ReliabilityPays ScoreHeals
