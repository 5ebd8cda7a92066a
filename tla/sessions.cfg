SPECIFICATION MCSpec
CONSTANTS
    u1 = u1
    u2 = u2
    Users = {u1, u2}
    Requests = {r1, r2}
    Certs = {s1}
    AnySerial = AnySerial
    Denied = Denied
    Pins = {AnySerial, s2, Denied}
    Cids = {0, 1}
    MaxClients = 2
    MaxQueue = 1
    MaxBytes = 2
    Ifs = {0}
    MaxSessions = 2
    MaxRestarts = 1
    Faults = {"timeout", "crash", "launch", "connect", "kill", "write"}
INVARIANTS RemovedUsersAreCutOff BytesCountOnce
CONSTRAINT OneConcern
SYMMETRY Symmetry
CHECK_DEADLOCK FALSE
