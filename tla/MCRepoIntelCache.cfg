CONSTANTS
    b1 = b1
    b2 = b2
    c1 = c1
    bad = bad
    py = py
    None = None
    Failed = Failed
    Builders = {b1, b2}
    NumPaths = 2
    Contents = {c1, bad}
    Broken = {bad}
    OneLanguage = TRUE
    Language <- MCLanguage
    Repositories <- MCRepositories
    MaxEdits = 2
    MaxCalls = 3
    MaxTroubles = 1
SPECIFICATION Spec
SYMMETRY Symmetry
CHECK_DEADLOCK FALSE
INVARIANTS
    AnswersAreCurrent
    RestingCacheIsConsistent
    ShownContextIsTrue
