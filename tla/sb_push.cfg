SPECIFICATION FairSpec
CONSTANTS
    Emails = {e1, e2}
    Free = Free
    Inbounds = {hy2}
    Requests = {r1, r2}
    NoReq = NoReq
    Kinds = {"SyncUser", "SyncUsers", "UpdateUsers"}
    MaxExits = 1
    MaxSessions = 1
    Overlap = {}
PROPERTY ChangesReachTheCore
CHECK_DEADLOCK FALSE
