SPECIFICATION Spec
CONSTANTS
    Threads = {t1, t2}
    Contents = {c1, c2, c3}
    MaxSize = 2
    Checkouts = {TRUE, FALSE}
    Uv = {TRUE, FALSE}
    MaxCalls = 4
    NoContent = NoContent
    NoThread = NoThread
INVARIANTS
    SuppressionIsRecent
    SuppressedWasAnswered
    OneTrackingDb
    ServesOnlyImportable
PROPERTY
    CallsReturn
