SPECIFICATION MCSpec
CONSTANTS
    w1 = w1
    w2 = w2
    MaxRecords = 3
    Unparsable = {}
    MaxBatches = 4
    MaxReceipts = 4
    Time <- SomeTimes
    Port <- SomePorts
    Backlog = {}
    Hour = 4
    Window = 2
    MinPorts = 2
    MaxContext = 2
    IntakeLimit = 1
    Workers = {w1, w2}
    MaxCrashes = 1
    MaxTime = 7
    Items = {1, 2, 3}
    DayOf <- SomeDays
    StageOf <- SomeStages
    LastStage = 2
    BatchSize = 1
    LastDay = 4
    RetentionDays = 2
    b1 = b1
    b2 = b2
    BriefingWorkers = {b1, b2}
    NoticeIncidents = {1, 2}
    NoticeConditions = {3}
    Broken = {1}
    Cooldown = 2
    MaxBackoff = 2
    ScanLimit = 1
    DeliveryLimit = 1
    MaxChanges = 3
    c1 = c1
    c2 = c2
    Writers = {c1, c2}
    MaxAge = 1
    MaxBuildFaults = 1
INVARIANT
    
    FreshSnapshotHasEveryChange
PROPERTIES
    NetworkCasesAreTrue
    InboxIsTrue
    ConsoleKeepsUp
CHECK_DEADLOCK FALSE
