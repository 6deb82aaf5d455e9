SPECIFICATION FairSpec
CONSTANTS
    w1 = w1 h1 = h1 h2 = h2 c1 = c1
    NoWorkload = NoWorkload NoHost = NoHost Ghost = Ghost
    Workload = {w1}
    Host = {h1, h2}
    Client = {c1}
    Daemon = {h1, h2}
    Serves <- OnePerHost
    Cpu <- UnitCpu
    Capacity <- Roomy
    Admits <- AnyHost
    Capped = {}
    BatchLimit = 2
    Second = {0}
    Faults = {"crash"}
    Calls = {"spawn", "checkpoint", "sleep"}
    Targets = {}
    MaxCalls = 3
    Patient = TRUE
PROPERTIES HostLossRecovered
