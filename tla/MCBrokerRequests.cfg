SPECIFICATION BrokerSpec
CONSTANTS
    u1 = u1
    u2 = u2
    b1 = b1
    b2 = b2
    t1 = t1
    t2 = t2
    t3 = t3
    User = {u1, u2}
    Browser = {b1, b2}
    Tab = {t1, t2, t3}
    BrowserOf <- MCBrowserOf
    Attempt = {a1, a2}
    Role = {"share", "other"}
    Required = {"share"}
    IdRoles <- MCIdRoles
    AccessRoles <- MCAccessRoles
    LoginTTL = 0
    SessionTTL = 0
    MaxClock = 1
    None = None
    Letter = {"a", "s", "media", "thumbnail", "share", "upload", "random", "mp4", "mov", "bin"}
    ExtMax = 2
    LongExt = 3
    RandomMax = 2
    SanitizedMax = 6
    AliasMax = 9
    Job = {j1, j2}
    Form <- MCForm
    Typed <- MCTyped
    VideoExt = {"mov"}
    MaxUpload = 3
    Slack = 14
    NameMax = 10
    Nothing = Nothing
    PageForm <- MCPageForm
    PageTyped <- MCPageTyped
SYMMETRY Symmetry
CHECK_DEADLOCK FALSE
INVARIANTS
    FilesHaveTheirJobs
    AnswersTellWhy
    OnlyLongEndingsPanic
    NameKeepsExtension
    LinksLeadBack
    ShownNameIsStable
    SessionIsOfTheBrowsersLogin
    UndisturbedLoginSucceeds
    WritesAreOfThePage
