CONSTANTS
    DirTokens = 2
    SummaryTokens = 2
    MaxLines = 3
    MaxStages = 2
    InlineToo = FALSE
    TextFamilies = {"log", "ansi"}
    TextTypes = {"remove_ansi", "strip_lines", "deduplicate_consecutive", "group_repeated", "max_tokens", "truncate_lines", "regex_replace", "match_output"}
    FoldFamilies = {"import", "number", "path", "time", "diff", "json"}
    FoldTypes = {"strip_lines", "python_ast_summarize", "structured_data_summarize", "numeric_range_compression", "path_prefix_fold", "collapse_unchanged_context", "relative_timestamp_compression", "protect_diff_filename_headers", "column_padding_compression"}
    Texts <- MCTexts
    Contents <- MCContents
    Entries <- MCEntries
    Pipelines <- MCPipelines
    Outcomes <- MCOutcomes
SPECIFICATION SuitedSpec
CHECK_DEADLOCK FALSE
INVARIANT EarlyExitIsInvisible
PROPERTIES
    ProtectedLinesSurvive
    FoldsKeepCount
    KeptWithinBudget
