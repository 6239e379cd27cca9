SPECIFICATION MCSpec
CONSTANTS
    Window = 1
    Page = 2
    Retention = 3
    ExportLag = 1
    MaxTime = 3
    MaxEntries = 3
    MaxFaults = 1
    MaxRecords = 3
    Unparsable = {2}
    MaxBatches = 3
    MaxReceipts = 3
    MaxPageEntries = 2
    ValidFrom = 1
    MaxSpool = 5
    MaxNetFaults = 1
    MaxEmpty = 1
    MaxLines = 3
    MaxRotations = 1
    PageSize = 1
    MaxHttpFaults = 1
    MaxSsh = 1
    MaxNotices = 2
    MaxBuilds = 1
    MaxRestores = 1
    n1 = n1
    n2 = n2
    Peers = {n1, n2}
    MaxPackages = 2
    Keep = 1
    Require = 1
    Annotated = {}
    MaxStoreFaults = 2
INVARIANTS
    
    NetCollectionIsSound
    HttpCollectionIsSound
    PackagesAreSafe

    
CHECK_DEADLOCK FALSE
