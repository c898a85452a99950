SPECIFICATION Spec
CONSTANTS
    s1 = s1
    s2 = s2
    s3 = s3
    ann = ann
    bob = bob
    j1 = j1
    j2 = j2
    x = x
    y = y
    jpg = jpg
    mp4 = mp4
    Slug = {s1, s2, s3}
    Owner = {ann, bob}
    JobId = {j1, j2}
    Sha = {x, y}
    Ext = {mp4}
    Upload <- MCUpload
    Null = Null
    RedirectLimit = 3
    MaxOpens = 1
SYMMETRY Symmetric
INVARIANTS
    RedirectsFlat
    SharesAndJobsPair
    StatusesAgree
    LiveShareKeepsObject
    NoRebinding
PROPERTIES
    NamesKeepTheirShare
    SharesKeepCountAndContent
    LifecycleSpec
CHECK_DEADLOCK FALSE
