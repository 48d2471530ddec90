CONSTANTS
    app = app
    plane = plane
    sd1 = sd1
    Nil = Nil
    Apps <- OneApp
    Planes <- OnePlane
    SDs <- OneSD
    AppOf <- AppOfAll
    PlaneOf <- PlaneOfAll
    Labelled <- OneSD
    Annotated <- OneSD
    Vela <- OnlyPlane
    Existing <- Owning
    UserMay <- FirstTimePaths
    Resyncs = FALSE
    MaxOps = 2
    MaxFaults = 0
    MaxCrashes = 0
    MaxLag = 2
SPECIFICATION LiveSpec
INVARIANT DeploymentsAtRest StatusesAtRest
PROPERTY DeploymentsSettle DeletionsSettle StatusesSettle CascadeReachesKnown
CHECK_DEADLOCK FALSE
