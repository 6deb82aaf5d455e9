SPECIFICATION Spec
CONSTANTS
    w1 = w1 w2 = w2 w3 = w3 h1 = h1 c1 = c1
    NoWorkload = NoWorkload NoHost = NoHost Ghost = Ghost
    Workload = {w1, w2, w3}
    Host = {h1}
    Client = {c1}
    Daemon = {h1}
    Serves <- OnePerHost
    Cpu <- UnitCpu
    Capacity <- RoomForOne
    Admits <- AnyHost
    Capped = {w1}
    BatchLimit = 1
    Second = {0, 1}
    Faults = {"stop", "die", "crash", "abort"}
    Calls = {"spawn", "sleep", "host"}
    Targets = {}
    MaxCalls = 4
    Patient = FALSE
INVARIANTS NoOvercommit
PROPERTIES HandsOutOnceInOrder
