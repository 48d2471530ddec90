CONSTANTS
    app = app
    plane = plane
    sd1 = sd1
    Nil = Nil
    Apps <- OneApp
    Planes <- OnePlane
    SDs <- OneSD
    AppOf <- AppOfAll
    PlaneOf <- PlaneOfAll
    Labelled <- OneSD
    Annotated <- OneSD
    Vela <- NoRef
    Existing <- AllButPlanes
    UserMay <- MarkPaths
    Resyncs = TRUE
    MaxOps = 1
    MaxFaults = 1
    MaxCrashes = 1
    MaxLag = 1
SPECIFICATION LiveSpec
INVARIANT DeletionsAtRest
PROPERTY CascadeBeforeOwner CrashedDeletionsSettle
CHECK_DEADLOCK FALSE
