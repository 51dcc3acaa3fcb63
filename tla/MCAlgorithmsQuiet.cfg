SPECIFICATION Spec
CONSTANTS
    Upper = {"A"}
    Lower <- LowerCase
    Word = {"a", "b"}
    PathBefore <- Alphabetical
CHECK_DEADLOCK FALSE
INVARIANTS FormattingOnlyIsFormatting
