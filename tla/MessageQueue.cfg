SPECIFICATION HSpec
CONSTANTS
    s1 = s1
    s2 = s2
    None = None
    c1 = c1
    c2 = c2
    Items <- MCItems
    Consumers <- MCConsumers
    Closed = Closed
    NoReply = NoReply
    MaxQueueSize = 2
    MaxProduced = 4
    MaxVersion = 1
    MaxValidate = 1
INVARIANTS
    TypeOK
    FreshestSuffix
    StatisticsBalance
    SleepOnlyWhenEmpty
PROPERTIES
    ImplementsSampleLog
    ShutdownReleasesConsumers
