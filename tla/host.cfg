SPECIFICATION Spec
CONSTANTS
    Cores = {c1, c2}
    Tables = {t1, t2}
    Users = {u}
    MTUs = {1320, 9000}
    MaxMTUs = 1
    MaxStarts = 3
    MaxSyncs = 1
    MaxTicks = 2
    MaxFaults = 1
INVARIANTS RunningCoreIsServed NothingLeftBehind
CONSTRAINT OneConcern
SYMMETRY Interchangeable
CHECK_DEADLOCK FALSE
