CONSTANTS
    app = app
    sd = sd
    plain = plain
    meshed = meshed
    Nil = Nil
    Workers <- TwoWorkers
    Defaulting <- Applications
    Entering <- SQBDeployments
    Configs <- TwoConfigs
    Enabled <- MeshedOnly
    Injecting <- PlainOnly
    MaxEdits = 1
    MaxPanics = 1
SPECIFICATION LiveSpec
PROPERTY EditsApplied
CHECK_DEADLOCK FALSE
