CONSTANTS
    a = a
    b = b
    c = c
    d = d
    e = e
    f = f
    g = g
    Node = {a, b, c, d, e, f, g}
    JOB_INIT = JOB_INIT
    NULL = NULL
    Type <- MCType
    Entries <- MCEntries
    Faults = {"open", "stat", "type", "exclude", "dir", "read", "write", "max_size"}
    ignore_failed_read = FALSE
    add_cmd_status = TRUE
    recursive = TRUE
    read_chunk_size = 1
    max_buffer_size = 3
    Options <- MCOptions
    IOFaults = {"open", "read", "tmpfile", "spill", "cancel", "abort"}
    MaxInput = 7
    MaxJobs = 2
SPECIFICATION MCSpec
INVARIANTS
    TypeOK
    DepthFirst
    JobsAccounted
    SummaryMatchesArchive
    DirOpenWhileNeeded
    OpenDirsOnOnePath
    EntryExact
    BufferSound
PROPERTIES
    MemoryCapped
