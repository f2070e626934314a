CONSTANTS
    a = a
    b = b
    d = d
    Node = {a, b}
    JOB_INIT = JOB_INIT
    NULL = NULL
    Type <- FlatType
    Entries <- FlatEntries
    Faults = {"create"}
    ignore_failed_read = TRUE
    add_cmd_status = TRUE
    recursive = TRUE
    jobs = 2
    file_timeout = 1
    timeout = 2
    Hanging = {a}
SPECIFICATION FairSpec
INVARIANTS
    InterruptedJobKept
    OutputExclusive
    ActiveCount
PROPERTIES
    FinalStatusStable
    
