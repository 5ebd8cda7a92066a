SPECIFICATION Spec
CONSTANTS
    e1 = e1
    e2 = e2
    i1 = i1
    i2 = i2
    Keys = {k1, k2}
    Emails = {e1, e2}
    IPs = {i1, i2}
    NoKey = NoKey
    NoEmail = NoEmail
    UserIPs <- OwnIPs
    SyncKinds = {"SyncUsers", "UpdateUsers", "UpdateUsersAndRestart", "Restart"}
    Failures = {"device", "configure", "delete"}
    MaxBytes = 2
SYMMETRY Symmetry
INVARIANTS KernelMatchesStore SyncDelivers StoppedInterfaceIsEmpty
PROPERTIES OthersKeepTheirPeers CountedBytesAreKept
CONSTRAINT TrafficOfOneUser
