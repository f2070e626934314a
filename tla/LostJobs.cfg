CONSTANTS
    a = a
    b = b
    d = d
    Node = {a, b, d}
    JOB_INIT = JOB_INIT
    NULL = NULL
    Type <- MixedType
    Entries <- MixedEntries
    Faults = {}
    ignore_failed_read = FALSE
    add_cmd_status = FALSE
    recursive = TRUE
    jobs = 2
    file_timeout = 0
    timeout = 0
    Hanging = {}
SPECIFICATION FairSpec
INVARIANTS
    NoJobLost
