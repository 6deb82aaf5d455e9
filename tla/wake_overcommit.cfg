SPECIFICATION Spec
CONSTANTS
    w1 = w1 w2 = w2 h1 = h1 c1 = c1
    NoWorkload = NoWorkload NoHost = NoHost Ghost = Ghost
    Workload = {w1, w2}
    Host = {h1}
    Client = {c1}
    Daemon = {h1}
    Serves <- OnePerHost
    Cpu <- UnitCpu
    Capacity <- RoomForOne
    Admits <- AnyHost
    Capped = {}
    BatchLimit = 2
    Second = {0}
    Faults = {}
    Calls = {"spawn", "sleep", "wake"}
    Targets = {}
    MaxCalls = 4
    Patient = TRUE
INVARIANTS NoOvercommit
