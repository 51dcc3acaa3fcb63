CONSTANTS
    p1 = p1
    p2 = p2
    d1 = d1
    d2 = d2
    Procs = {p1, p2}
    Digests = {d1, d2}
    NoContent = NoContent
    Size <- MCSize
    MaxBytes = 2
    MaxAge = 1
    Throttle = 1
    MaxFailures = 2
    MaxClock = 3
    MaxAborts = 1
    MaxResets = 1
    WritesWork = TRUE
SPECIFICATION Spec
SYMMETRY Symmetry
CHECK_DEADLOCK FALSE
INVARIANTS
    FooterHolds
    SwitchFollowsCounter
PROPERTY EvictsOnlyWhatItMust
