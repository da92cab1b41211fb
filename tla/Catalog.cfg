SPECIFICATION Spec
CONSTANTS
    TableDefs <- MCTableDefs
    ColumnSpecs <- MCColumnSpecs
    IndexDefs <- MCIndexDefs
    ViewDefs <- MCViewDefs
    PolicyDefs <- MCPolicyDefs
    Renames <- MCRenames
    OldLogs <- MCOldLogs
    MaxLog = 8
    MaxVid = 2
    MaxClock = 1
INVARIANTS RecoveryRebuildsCatalog RowsFitSchema CountersAhead ViewExpansionTerminates
CHECK_DEADLOCK FALSE
