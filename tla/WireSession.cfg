SPECIFICATION Spec
CONSTANTS
    StmtNames = {"s"}
    PortalNames = {"p"}
    Sqls = {"select", "dml", "ddl", "begin", "commit", "rollback", "garbage", "tag", "catalog", "post"}
    MaxBody = 2
    Eager = FALSE
    MaxWrites = 4
    MaxRuns = 2
INVARIANTS
    ExactlyOnce
    NoHiddenFailure
PROPERTY
    DiscardsUntilSync
