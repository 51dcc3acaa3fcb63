CONSTANTS
    t1 = t1
    t2 = t2
    MaxLines = 2
    MaxStages = 3
    Texts <- MCTexts
    MaskSpace <- MCMasks
    Contents <- MCContents
    Entries <- MCEntries
    Pipelines <- MCPipelines
    Outcomes <- MCOutcomes
SPECIFICATION Spec
CHECK_DEADLOCK FALSE
INVARIANTS
    TotalCoversCompressed
    EarlyExitIsInvisible
    ResultsMatchEntries
PROPERTY ProtectNeverDowngraded
