CONSTANTS
    a = a
    b = b
    d = d
    Node = {a, b, d}
    JOB_INIT = JOB_INIT
    NULL = NULL
    Type <- TreeType
    Entries <- TreeEntries
    Faults = {"dir", "stat", "type", "read"}
    ignore_failed_read = FALSE
    add_cmd_status = TRUE
    recursive = TRUE
    jobs = 3
    file_timeout = 0
    timeout = 0
    Hanging = {}
SPECIFICATION FairSpec
INVARIANTS
    OneOwner
    QueuePointersValid
    ActiveCount
    NoJobLost
PROPERTIES
    Termination
