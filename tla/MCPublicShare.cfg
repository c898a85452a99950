SPECIFICATION Spec
CONSTANTS
    s1 = s1
    s2 = s2
    s3 = s3
    ann = ann
    j1 = j1
    j2 = j2
    c1 = c1
    c2 = c2
    mp4 = mp4
    v1 = v1
    v2 = v2
    Slug = {s1, s2, s3}
    Owner = {ann}
    JobId = {j1, j2}
    Sha = {c1, c2}
    Ext = {mp4}
    Upload <- MCUpload
    Null = Null
    RedirectLimit = 2
    MaxOpens = 1
    Visitor = {v1}
    CountMayFail = TRUE
SYMMETRY Symmetric
INVARIANTS
    LinkShowsItsShare
    RedirectsArePermanent
    RedirectsEnd
    CountIsHonest
CHECK_DEADLOCK FALSE
