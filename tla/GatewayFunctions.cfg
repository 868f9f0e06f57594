\* One evaluation, then nothing more.
SPECIFICATION Spec
CHECK_DEADLOCK FALSE
CONSTANTS
    None = None
    Absent = Absent
    ContextKeys <- MCContextKeys
    TemplateInputs <- MCTemplates
    LaunchInputs <- MCLaunches
    MaxExtendsDepth = 2
    configured <- MCconfigured
    FileInputs <- MCFiles
    UseInputs <- MCUses
    PatchInputs <- MCPatches
    TargetInputs <- MCTargets
    OrderInputs <- MCOrders
    SshInputs <- MCSsh
INVARIANTS
    LoadedIsTheComposition
    TemplatesApplyInOrder
    PatchesKeepOrder
    NearestLayerWins
    AgentTakesItsFile
    IdleIsInformed
    TemplatesRender
    LaunchRunsAsDeclared
    StopsDependentsFirst
    DispatchedAsWritten
