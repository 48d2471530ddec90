CONSTANTS
    sd1 = sd1
    c1 = c1
    c2 = c2
    Nil = Nil
    SDs <- OneSD
    Claims <- TwoClaims
    Vela <- OneSD
    VelaClaims <- TwoClaims
    MaxOps = 2
    MaxFaults = 1
SPECIFICATION FirstSpec
INVARIANT TypeOK ClaimsGo
PROPERTY ClaimKept ClaimsSettle RoutesSettle
CHECK_DEADLOCK FALSE
