SPECIFICATION FairSpec
CONSTANTS
    c1 = c1
    mp4 = mp4
    j1 = j1
    j2 = j2
    s1 = s1
    s2 = s2
    s3 = s3
    Slug = {s1, s2, s3}
    Owner = {o1}
    JobId = {j1, j2}
    Sha = {c1}
    Ext = {mp4}
    Upload <- MCUpload
    Null = Null
    Tx = {x1, x2}
    Asked <- MCAsked
    Renamed <- MCRenamed
    Reported <- MCReported
CHECK_DEADLOCK FALSE
INVARIANT ObjectsAgreeUnlessRaced
PROPERTIES
    CommitsAreAtomic
    EveryMethodEnds
