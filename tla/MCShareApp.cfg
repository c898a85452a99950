SPECIFICATION FairSpec
CONSTANTS
    f1 = f1
    f2 = f2
    j1 = j1
    j2 = j2
    t1 = t1
    t2 = t2
    File = {f1, f2}
    JobId = {j1}
    Null = Null
    Task = {t1, t2}
    CallsMayFail = TRUE
INVARIANTS
    OneChainPerJob
    UploadIsFollowed
PROPERTIES
    PollingEnds
CHECK_DEADLOCK FALSE
