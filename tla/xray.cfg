SPECIFICATION FairSpec
CONSTANTS
    Users = {u1}
    Accounts = {a1}
    NoAccount = NoAccount
    Nobody = Nobody
    Stoppers = {s1}
    Pids = {1, 2}
    NoPid = 0
    MaxRequests = 2
    MaxFailures = 1
    Faults = {"launch", "startup", "crash", "hang", "api", "ctx", "linger"}
INVARIANTS NoOrphan CommittedConfigRuns ServesConfig AckedUserIsServed FailedSyncKeepsUsers
PROPERTIES OutageIsRepaired SyncReturns
CHECK_DEADLOCK FALSE
