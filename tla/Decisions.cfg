SPECIFICATION MCSpec
CONSTANTS
    NumEvents = 4
    Rows <- SomeRows
    SourceOrder <- TwoSources
    Uuids <- SomeUuids
    LocalRules <- SomeRules
    CrossRule <- SomeCrossRule
    SuccessSpan = 2
    SuccessMin = 2
    MaxWindow = 2
    RawRetention = 2
    MaxBatch = 2
    MaxTriages = 2
    MaxTime = 3
    HttpTime <- RequestTimes
    HttpPath <- RequestPaths
    HttpDenied = {2, 3}
    Matches <- SomeMatches
    Points <- SomePoints
    HttpHour = 4
    HttpWindow = 1
    MinRecords = 2
    MinPaths = 2
    DeniedPercent = 80
    Surface = 30
    MaxHttpContext = 2
    HttpIntake = 1
    WindowLimit = 1
    HttpRetention = 3
    LastTime = 7
    Addresses = {1, 2}
    OddMembers = {9}
    EnrolledSet = "banned"
    SetLayouts = {"plain", "timeout"}
    RuleShapes <- SomeShapes
    OtherObjects <- SomeObjects
    MaxRules = 3
    MaxEdits = 3
    ListedCases = {1, 2}
    CaseStates = {"x", "y"}
    MaxGenerations = 3
    MaxEpochs = 1
    MaxRows = 4
    PageRows = 1
    Stream <- SomeStream
    AlertSets <- SomeAlerts
    Gap = 2
    Root = "root"
    Weight <- SomeWeights
    AccountCap = 3
    PersistentSpan = 3
    PersistentFailures = 2
    VolumeRecords = 3
    Threshold = 25
    Handlers = {"t1"}
    Batches <- SomeBatches
    InScope = {"web"}
    Bonus <- SomeBonus
    MaxFlows = 2
    Settings = {1, 2}
    Defaults <- SomeDefaults
    Conditions = {"c", "d"}
    Contents <- SomeContents
    Scopes <- SomeScopes
    Actors = {"op", "other"}
    Target = "h"
    HostFiles <- SomeFiles
    Dropins <- SomeDropins
    Radix = 10
    Width = 4
    MaxDecisions = 2
    MaxConfigEdits = 1
    MaxDeaths = 1
    LastHour = 1
    AnchorCases <- SomeAnchors
    SshEvents <- SomeSshRows
    SshSources = {1, 2}
    Margin = 1
    LastInstant = 7
    AnchorSpan = 3
    ClockSlack = 1
    TimelineLimit = 3
    RecordLimit = 2
    SummaryLimit = 2
    Evidence <- SomeEvidence
    TriageProposals <- SomeProposals
    RetryFailures = 1
    RetrySpan = 2
    MaxEvidence = 4
INVARIANTS
    IncidentsAreTrue
    
    ReviewStillHolds
    PagesMakeOneList
    ReductionIsSound
    
    DossiersAreSound
    DismissalIsGrounded
    HttpCasesAreTrue

    
CHECK_DEADLOCK FALSE
