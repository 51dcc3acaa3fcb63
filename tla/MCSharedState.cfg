SPECIFICATION Spec
CONSTANTS
    Processes = {p1, p2}
    Repos = {r1, r2}
    UnitsPerDay = 2
    TelemetryDays = 1
    Throttle = 2
    IntelAge = 2
    Sizes <- MCSizes
    MaxBytes = 1
    MaxOnboarding = 1
    MaxShows = 1
    CheckInterval = 2
    MaxTime = 4
    MaxJobs = 3
    Never = Never
    Nobody = Nobody
SYMMETRY Symmetry
CHECK_DEADLOCK FALSE
INVARIANTS StampedMeansSwept CountIsTrue SerialTipsAreBounded OldestGoFirst
