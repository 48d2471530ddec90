CONSTANTS
    app = app
    plane = plane
    sd1 = sd1
    Nil = Nil
    Apps <- OneApp
    Planes <- OnePlane
    SDs <- OneSD
    AppOf <- AppOfAll
    PlaneOf <- PlaneOfAll
    Labelled <- OneSD
    Annotated <- OneSD
    Vela <- NoRef
    Existing <- Everything
    UserMay <- RecreatePaths
    Resyncs = FALSE
    MaxOps = 2
    MaxFaults = 0
    MaxCrashes = 0
    MaxLag = 2
SPECIFICATION LiveSpec
PROPERTY RecreatedIsDeployed
CHECK_DEADLOCK FALSE
