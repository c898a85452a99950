SPECIFICATION Spec
CONSTANTS
    s1 = s1
    s2 = s2
    s3 = s3
    ann = ann
    bob = bob
    j1 = j1
    j2 = j2
    j3 = j3
    w1 = w1
    w2 = w2
    r1 = r1
    r2 = r2
    c1 = c1
    c2 = c2
    c3 = c3
    jpg = jpg
    mp4 = mp4
    bin = bin
    Slug = {s1, s2}
    Owner = {ann}
    JobId = {j1, j2}
    Sha = {c1, c2, c3}
    Ext = {jpg, mp4, bin}
    Upload <- MCUpload
    Null = Null
    RedirectLimit = 2
    Worker = {w1}
    Request = {r1}
    UploadOf <- DistinctUploads
    Results <- MCResults
    VideoExt = mp4
    ThumbExt = jpg
    Faults = {"stop"}
INVARIANTS
    UnfinishedJobKeepsFile
CHECK_DEADLOCK FALSE
