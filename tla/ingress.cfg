CONSTANTS
    d1 = d1
    sd1 = sd1
    nginx = nginx
    vpc = vpc
    Nil = Nil
    Domains <- OneDomain
    SDs <- OneSD
    Classes <- TwoClasses
    Vela <- OnlyApp
    VelaIng <- OnlyVpc
    MaxOps = 2
SPECIFICATION NginxSpec
INVARIANT TypeOK IngressesAtRest
PROPERTY EntryKept EntriesSettle DomainsSettle StraysGo
CHECK_DEADLOCK FALSE
