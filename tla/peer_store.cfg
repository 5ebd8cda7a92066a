SPECIFICATION StoreSpec
CONSTANTS
    Keys = {k1, k2, k3}
    Emails = {e1, e2, e3}
    IPs = {}
    NoKey = NoKey
    NoEmail = NoEmail
INVARIANTS StoreIsOneToOne
PROPERTY ImplementsPeerMap
