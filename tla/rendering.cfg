CONSTANTS
    App = "app1"
    Ack = "app1-ack"
    Nil = Nil
    Specs <- SomeSpecs
    AppSpecs <- SomeAppSpecs
    Contents <- SomeContents
    Namespace = "sqb"
    MaxOps = 3
SPECIFICATION RunningSpec
INVARIANT TypeOK RestartIsNeutral ServiceSelectsPods
PROPERTY RollsForAReason RefusedForCause DefaultsAreForNew SpecReaches ScrapeFollows
CHECK_DEADLOCK FALSE
