SPECIFICATION Spec
CONSTANTS
    Requests = {r1, r2, r3}
    NoReq = NoReq
    Clients = {a, b}
    NoClient = NoClient
    Keys = {k1, k2}
    Kinds = {"stop", "sync", "info"}
    KeepAlives = {0}
    MaxIdle = 0
    ExitModes = {"graceful"}
SYMMETRY Symmetry
INVARIANTS NoLostCore OneCorePerKey ServingNodeHasOwner ExitStopsCores
CHECK_DEADLOCK FALSE
