SPECIFICATION TrackerSpec
CONSTANTS
    Keys = {k1}
    MaxBytes = 3
INVARIANTS NeverOverbilled PendingIsNatural
PROPERTY CountedBytesAreKept
