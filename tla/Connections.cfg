CONSTANTS
    Conns = {c1, c2}
    Main = c1
    MaxInstances = 3
    Signatures <- MCSignatures
    Values = {1, 2}
    MaxArgs = 2
    MaxRows = 2
    K = 2
    Minute = 2
    Day = 4
    YearEnd = 16
    EpochDays = 2
    BeforeEpoch = 3
    Y2K = 1
    FloatStep = 2
    Precision = 100
    Ticks = 130
    Zones <- MCZones
SPECIFICATION FairCSpec
INVARIANTS ConnectionsTypeOK Instantiable ModulesOwned NeverBusy Rewound QueryBinds Recovers MaybeTime
PROPERTIES OpenReturns NextFresh
CHECK_DEADLOCK FALSE
