CONSTANTS
    d1 = d1
    sd1 = sd1
    nginx = nginx
    vpc = vpc
    Nil = Nil
    Domains <- OneDomain
    SDs <- OneSD
    Classes <- OneClass
    Vela <- NoLabel
    VelaIng <- NoLabel
    MaxOps = 0
SPECIFICATION LiveSpec
PROPERTY EntryStays
CHECK_DEADLOCK FALSE
