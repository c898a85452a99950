SPECIFICATION Spec
CONSTANTS
    f1 = f1
    f2 = f2
    j1 = j1
    j2 = j2
    t1 = t1
    t2 = t2
    File = {f1}
    JobId = {j1, j2}
    Null = Null
    Task = {t1}
    CallsMayFail = FALSE
INVARIANTS
    UploadIsFollowed
CHECK_DEADLOCK FALSE
