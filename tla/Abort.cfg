CONSTANTS
    a = a
    b = b
    d = d
    Node = {b, d}
    JOB_INIT = JOB_INIT
    NULL = NULL
    Type <- AbortType
    Entries <- AbortEntries
    Faults = {"open", "read", "write", "max_size", "exclude", "stat", "type"}
    ignore_failed_read = FALSE
    add_cmd_status = TRUE
    recursive = FALSE
    jobs = 2
    file_timeout = 0
    timeout = 0
    Hanging = {}
SPECIFICATION FairSpec
INVARIANTS
    NoJobLost
    SuccessIsComplete
    OneEntryPerJob
    SummaryMatchesArchive
PROPERTIES
    
    Termination
