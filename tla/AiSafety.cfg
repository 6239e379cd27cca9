SPECIFICATION Spec
CONSTANTS
    w1 = w1
    w2 = w2
    NoCall = NoCall
    Unpaid = Unpaid
    MaxJobs = 2
    Workers = {w1, w2}
    MaxAttempts = 2
    QueueLimit = 2
    Reservation = 2
    Charges = {1, 3}
    TotalLimit = 3
    DailyLimit = 2
    MaxDay = 1
    MaxCrashes = 1
    MaxLate = 2
SYMMETRY AlikeWorkers
INVARIANTS
    SubmittedOnce
    PaidWorkIsNeverDropped
    BudgetHolds
PROPERTY ResultsAreFinal
