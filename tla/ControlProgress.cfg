SPECIFICATION FairSpec
CONSTANTS
    s1 = s1
    s2 = s2
    i1 = i1
    i2 = i2
    op = op
    Permanent = Permanent
    Absent = Absent
    NoReceipt = NoReceipt
    NoTable = NoTable
    NoRequest = NoRequest
    NoAnswer = NoAnswer
    NoCall = NoCall
    Actors = {op}
    Sources = {s1}
    IPs = {i1}
    Channels = {"ssh"}
    RequestIds <- Ids
    MaxTtl = 3
    MaxBlocks = 4
    MaxClock = 0
    PlanTtl = 1
    MaxAttempts = 2
    MaxPlans = 2
    MaxCrashes = 1
    CentralProtected = {i2}
    Bodies <- OneKey
    Incidents = {}
    Faults = {"crash", "flush"}
    CentralFaults = {}
PROPERTIES EveryJobFinishes
    CacheCatchesUp
