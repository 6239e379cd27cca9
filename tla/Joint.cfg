SPECIFICATION MCSpec
CONSTANTS
    w1 = w1
    w2 = w2
    NoCall = NoCall
    Unpaid = Unpaid
    MaxJobs = 2
    Workers = {w1, w2}
    MaxAttempts = 2
    QueueLimit = 2
    Reservation = 2
    Charges = {1, 3}
    TotalLimit = 3
    DailyLimit = 2
    MaxDay = 0
    MaxCrashes = 1
    MaxLate = 1
    Anchors = {1, 2}
    Unmapped = {}
    Refused <- SomeRefused
    RegistrationLimit = 2
    RevisionLimit = 3
    Scenarios <- SomeScenarios
    MaxSsh = 1
    PageLimit = 1
    ItemLimit = 1
    CaseOf <- OneCase
    Unfit = {}
    JointWorkers = {w1, w2}
    AttemptLimit = 2
    JointQueueLimit = 2
    ReceiptScan = 1
    JointCharges = {1, 2}
    SharedLimit = 2
    MaxJointFaults = 1
    e1 = e1
    e2 = e2
    e3 = e3
    Evaluators = {e1, e2, e3}
    TapeOf <- TwoTapes
    BudgetOf <- SomeBudgets
    Cases = 2
    Amount = 2
    Bills = {0, 2, 3}
    MaxEvalCrashes = 1
INVARIANTS
    JointSpendIsSafe
    
PROPERTIES
    JointStoreIsTrue
    WorkIsFinished
CHECK_DEADLOCK FALSE
