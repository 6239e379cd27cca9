SPECIFICATION Spec
CONSTANTS
    s1 = s1
    i1 = i1
    i2 = i2
    Permanent = Permanent
    Absent = Absent
    NoReceipt = NoReceipt
    NoTable = NoTable
    NoRequest = NoRequest
    NoAnswer = NoAnswer
    NoEffect = NoEffect
    Sources = {s1}
    IPs = {i1, i2}
    Channels = {"ssh"}
    RequestIds = {1, 2, 3}
    MaxTtl = 3
    MaxBlocks = 1
    MaxClock = 2
    Faults = {"read_failed", "nft_refused", "nft_timeout", "readback_failed", "readback_unavailable", "crash", "control_failed", "reboot", "restore", "flush", "protect"}
    Calls <- AllCalls
INVARIANTS
    TypeOK
    EnforcementMatchesIntent
    DeadlinesAreOriginal
PROPERTY
    ImplementsRegister
VIEW WithoutAnswers
