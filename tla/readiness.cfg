CONSTANTS
    app = app
    sd = sd
    plain = plain
    meshed = meshed
    Nil = Nil
    Workers <- TwoWorkers
    Defaulting <- Nobody
    Entering <- SQBDeployments
    Configs <- TwoConfigs
    Enabled <- MeshedOnly
    Injecting <- PlainOnly
    MaxEdits = 2
    MaxPanics = 1
SPECIFICATION LiveSpec
INVARIANT TypeOK ConfiguredFirst DecisionIsCurrent
PROPERTY EditsAppliedOrNested BecomesReady ReconcilesEndOrNested
CHECK_DEADLOCK FALSE
