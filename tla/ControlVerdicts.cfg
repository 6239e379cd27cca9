SPECIFICATION Spec
CONSTANTS
    s1 = s1
    s2 = s2
    i1 = i1
    i2 = i2
    op = op
    Permanent = Permanent
    Absent = Absent
    NoReceipt = NoReceipt
    NoTable = NoTable
    NoRequest = NoRequest
    NoAnswer = NoAnswer
    NoCall = NoCall
    Actors = {op}
    Sources = {s1}
    IPs = {i1}
    Channels = {"ssh"}
    RequestIds <- Ids
    MaxTtl = 3
    MaxBlocks = 4
    MaxClock = 1
    PlanTtl = 0
    MaxAttempts = 2
    MaxPlans = 2
    MaxCrashes = 0
    CentralProtected = {i2}
    Bodies <- OneKeyTimed
    Incidents = {}
    Faults = {"nft_timeout", "crash", "restore"}
    CentralFaults = {"lost"}
VIEW WithoutAnswers
INVARIANTS
    VerifiedBanIsPersisted
    OldAddCannotRaceNewerUnban
