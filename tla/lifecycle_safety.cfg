CONSTANTS
    app = app
    plane = plane
    sd1 = sd1
    Nil = Nil
    Apps <- OneApp
    Planes <- OnePlane
    SDs <- OneSD
    AppOf <- AppOfAll
    PlaneOf <- PlaneOfAll
    Labelled <- OneSD
    Annotated <- NoSD
    Vela <- OnlyDep
    Existing <- OwningApp
    UserMay <- AllPaths
    Resyncs = FALSE
    MaxOps = 3
    MaxFaults = 0
    MaxCrashes = 0
    MaxLag = 2
SPECIFICATION Spec
INVARIANT TypeOK ExplicitDeletion StatusNamesDeployments
PROPERTY OperatorDeletes MarkSurvives ImplementsDeletion
CHECK_DEADLOCK FALSE
