CONSTANTS
    n1 = n1
    n2 = n2
    c1 = c1
    NoRec = NoRec
    Names <- MCNames
    StaticConf <- MCStaticConf
    Callers <- MCCallers
    MaxRecords = 4
    MaxAddrs = 2
    MaxOpen = 1
SPECIFICATION ContractSpec
INVARIANT
    NoLostWakeup
