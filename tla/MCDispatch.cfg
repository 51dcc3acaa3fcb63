SPECIFICATION Spec
CONSTANTS
    Absent = Absent
    Broken = Broken
    NoFilter = NoFilter
    NoText = NoText
    Nothing = Nothing
    RenderLens = {0, 4, 12}
    PluginLens = {4, 24}
    FooterLen = 4
    InstructionLen = 4
    Depth = 2
    MaxEdits = 1
    Configs <- MCConfigs
    Envs <- MCEnvs
    CapturedTexts <- MCCaptured
    Commands <- MCCommands
    FilterDirs <- MCFilterDirs
    Builtin <- MCBuiltin
    Installed <- MCInstalled
INVARIANTS
    DeliveredAsRecorded
    NeverCostsMore
    PluginsComeDown
    OneConfiguration
    FailOpen

