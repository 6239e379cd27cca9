SPECIFICATION Spec
CONSTANTS
    Window = 1
    Page = 2
    Retention = 3
    ExportLag = 1
    MaxTime = 3
    MaxEntries = 3
    MaxFaults = 1
INVARIANT
    CompleteSinceCoverage
