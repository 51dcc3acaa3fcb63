CONSTANTS
    DirTokens = 2
    SummaryTokens = 2
    MaxLines = 2
    MaxStages = 2
    InlineToo = TRUE
    TextFamilies = {"ansi"}
    TextTypes = {"strip_lines", "remove_ansi"}
    FoldFamilies = {}
    FoldTypes = {}
    Texts <- MCTexts
    Contents <- MCContents
    Entries <- MCEntries
    Pipelines <- MCPipelines
    Outcomes <- MCOutcomes
SPECIFICATION SuitedSpec
CHECK_DEADLOCK FALSE
INVARIANT EarlyExitIsInvisible
