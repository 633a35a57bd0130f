CONSTANTS
    MaxRecords = 4
    MaxAddrs = 2
    MaxOpen = 1
    NoRec = NoRec
    n1 = n1
    n2 = n2
    c1 = c1
    Names <- MCNames
    StaticConf <- MCStaticConf
    Callers <- MCCallers
SPECIFICATION Spec
PROPERTIES
    RegistrySpec
