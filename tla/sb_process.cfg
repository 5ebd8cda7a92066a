SPECIFICATION FairSpec
CONSTANTS
    MaxLaunches = 2
    Callers = {c1, c2}
    Calls = {"Shutdown", "Restart"}
    Faults = {"launch", "starting", "push", "serving", "recovering", "lingering"}
INVARIANT NeverPanics
INVARIANT OneSupervisor
INVARIANT StoppedMeansDown
PROPERTY CrashIsRepaired
PROPERTY ShutdownReturns
CHECK_DEADLOCK FALSE
