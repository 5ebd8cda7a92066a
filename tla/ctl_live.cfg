SPECIFICATION FairSpec
CONSTANTS
    Requests = {r1, r2}
    NoReq = NoReq
    Clients = {a, b}
    NoClient = NoClient
    Keys = {k1}
    Kinds = {"stop", "info"}
    KeepAlives = {0, 1}
    MaxIdle = 1
    ExitModes = {"graceful"}
INVARIANTS TrackedCoreIsUp CoresBelongToClient
PROPERTIES SilentClientIsDisconnected RequestsReturn
CHECK_DEADLOCK FALSE
