SPECIFICATION Spec
CONSTANTS
    Emails = {e1, e2}
    Free = Free
    Inbounds = {hy2, vless}
    Requests = {r1, r2}
    NoReq = NoReq
    Kinds = {"SyncUsers", "SyncUser"}
    MaxExits = 1
    MaxSessions = 1
    Overlap = {"push"}
SYMMETRY Symmetry
INVARIANT NeverMisbilled
INVARIANT PositionsAgree
CHECK_DEADLOCK FALSE
