CONSTANTS
    a = a
    b = b
    d = d
    Node = {a}
    JOB_INIT = JOB_INIT
    NULL = NULL
    Type <- SingleType
    Entries <- SingleEntries
    Faults = {}
    ignore_failed_read = TRUE
    add_cmd_status = FALSE
    recursive = TRUE
    jobs = 1
    file_timeout = 1
    timeout = 0
    Hanging = {}
SPECIFICATION FairSpec
PROPERTIES
    TimeoutSparesDoneJobs
