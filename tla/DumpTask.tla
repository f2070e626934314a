------------------------------ MODULE DumpTask ------------------------------
(***************************************************************************)
(* The dump task of dump2tar (struct task and struct job in                *)
(* dump2tar/src/dump.c): the jobs, the linked job queue, the statistics    *)
(* and the entries of the archive.  DumpThreaded and DumpSequential extend *)
(* this module with the two ways the program works the queue off.          *)
(*                                                                         *)
(* A job stands for one entry to be archived, and is named by it: a file   *)
(* specification of the command line, or a directory entry found below     *)
(* one.  JOB_INIT is the job that opens the output and queues the          *)
(* specifications.  Names, contents and sizes are abstracted away.         *)
(***************************************************************************)
EXTENDS Integers, Sequences, FiniteSets

CONSTANTS
    Node,               \* the entries that can be archived
    JOB_INIT,           \* the initial job
    NULL,               \* the null pointer
    Type,               \* job->type of every job
    Entries,            \* Entries[JOB_INIT]: opts->specs; Entries[d]: what readdir
                        \* returns for directory d
    Faults,             \* the failures the environment may produce
    ignore_failed_read, \* opts->ignore_failed_read
    add_cmd_status,     \* opts->add_cmd_status
    recursive           \* opts->recursive

Job == Node \cup {JOB_INIT}

JobOrNull == Job \cup {NULL}

\* One entry is one job: no entry is listed twice.
ASSUME TreeAssumption ==
    /\ JOB_INIT \notin Node
    /\ NULL \notin Job
    /\ Type \in [Job -> {"INIT", "FILE", "LINK", "DIR", "CMD"}]
    /\ \A j \in Job : Type[j] = "INIT" <=> j = JOB_INIT
    /\ Entries \in [Job -> Seq(Node)]
    /\ \A d, e \in Job : \A i \in 1..Len(Entries[d]), k \in 1..Len(Entries[e]) :
          Entries[d][i] = Entries[e][k] => d = e /\ i = k

\* Only the initial job and directories have entries.
ASSUME LeafAssumption ==
    \A j \in Job : Type[j] \notin {"INIT", "DIR"} => Entries[j] = <<>>

ASSUME OptionsAssumption ==
    /\ ignore_failed_read \in BOOLEAN
    /\ add_cmd_status \in BOOLEAN
    /\ recursive \in BOOLEAN

VARIABLES
    status,           \* job->status, and where the job is in its life
    next_job,         \* job->next_job
    jobs_head,        \* task->jobs_head
    jobs_tail,        \* task->jobs_tail
    num_jobs_active,  \* task->num_jobs_active
    pos,              \* how many of its entries a job has visited so far
    aborted,          \* task->aborted
    stats,            \* task->stats, with those of all threads added in
    whole,            \* complete tar entries written for a job
    torn,             \* tar entries of a job that were cut off
    output_num_files  \* task->output_num_files

queueVars == <<next_job, jobs_head, jobs_tail>>
archiveVars == <<whole, torn, output_num_files>>
taskVars == <<status, queueVars, num_jobs_active, pos, aborted, stats,
              archiveVars>>

Final == {"EXCLUDED", "FAILED", "DONE", "PARTIAL"}

\* The job has not been created yet, or never will be because create_job
\* found nothing to archive.
Absent == {"none", "STAT_FAILED", "TYPE_EXCLUDED"}

\* free_job has been called: by _complete_job ("freed"), or by cleanup_thread
\* for the job of a cancelled thread ("dropped").
Freed == {"freed", "dropped"}

Status == {"QUEUED", "IN_PROGRESS"} \cup Final \cup Absent \cup Freed

Counter == {"num_done", "num_excluded", "num_failed", "num_partial"}

Stats == [Counter -> Nat]

TaskTypeOK ==
    /\ status \in [Job -> Status]
    /\ next_job \in [Job -> JobOrNull]
    /\ jobs_head \in JobOrNull
    /\ jobs_tail \in JobOrNull
    /\ num_jobs_active \in Int
    /\ pos \in [Job -> Nat]
    /\ aborted \in BOOLEAN
    /\ stats \in Stats
    /\ whole \in [Job -> Nat]
    /\ torn \in [Job -> Nat]
    /\ output_num_files \in Nat

(***************************************************************************)
(* init_task and init_queue: the queue holds the initial job.              *)
(***************************************************************************)
init_queue ==
    /\ status = [j \in Job |-> IF j = JOB_INIT THEN "QUEUED" ELSE "none"]
    /\ next_job = [j \in Job |-> NULL]
    /\ jobs_head = JOB_INIT
    /\ jobs_tail = JOB_INIT
    /\ num_jobs_active = 1
    /\ pos = [j \in Job |-> 0]
    /\ aborted = FALSE
    /\ stats = [k \in Counter |-> 0]
    /\ whole = [j \in Job |-> 0]
    /\ torn = [j \in Job |-> 0]
    /\ output_num_files = 0

(***************************************************************************)
(* The job queue.  The operators below leave the status of the jobs to     *)
(* their callers.                                                          *)
(***************************************************************************)
queue_job_tail_NoLink(job) ==
    /\ jobs_head' = IF jobs_tail = NULL THEN job ELSE jobs_head
    /\ jobs_tail' = job
    /\ next_job' = next_job

queue_job_tail(job) ==
    /\ jobs_head' = IF jobs_tail = NULL THEN job ELSE jobs_head
    /\ jobs_tail' = job
    /\ next_job' = IF jobs_tail = NULL THEN next_job
                   ELSE [next_job EXCEPT ![jobs_tail] = job]

queue_jobs_list_AtTail(first, last) ==
    /\ next_job' = IF jobs_tail = NULL THEN next_job
                   ELSE [next_job EXCEPT ![jobs_tail] = first]
    /\ jobs_head' = IF jobs_tail = NULL THEN first ELSE jobs_head
    /\ jobs_tail' = last

\* A list linked from first to last goes in front of the queue; the code does
\* not touch jobs_tail.
queue_jobs_list(first, last) ==
    /\ next_job' = [next_job EXCEPT ![last] = jobs_head]
    /\ jobs_head' = first
    /\ jobs_tail' = jobs_tail

dequeue_job_KeepHead ==
    /\ jobs_head # NULL
    /\ UNCHANGED queueVars

dequeue_job_KeepTail ==
    /\ jobs_head # NULL
    /\ jobs_head' = next_job[jobs_head]
    /\ next_job' = [next_job EXCEPT ![jobs_head] = NULL]
    /\ jobs_tail' = jobs_tail

dequeue_job ==
    /\ jobs_head # NULL
    /\ jobs_head' = next_job[jobs_head]
    /\ next_job' = [next_job EXCEPT ![jobs_head] = NULL]
    /\ jobs_tail' = IF jobs_head = jobs_tail THEN NULL ELSE jobs_tail

(***************************************************************************)
(* create_job for the next entry of job d.                                 *)
(***************************************************************************)
HasEntry(d) == pos[d] < Len(Entries[d])

NextEntry(d) == Entries[d][pos[d] + 1]

\* The file cannot be read: a run that does not ignore this stops.
read_error_aborts == ~ignore_failed_read

create_job_CannotStat(d) ==
    /\ "stat" \in Faults
    /\ Type[NextEntry(d)] # "CMD"
    /\ status' = [status EXCEPT ![NextEntry(d)] = "STAT_FAILED"]
    /\ stats' = [stats EXCEPT !["num_failed"] = @ + 1]
    /\ pos' = [pos EXCEPT ![d] = @ + 1]

create_job_TypeExcluded(d) ==
    /\ "type" \in Faults
    /\ Type[NextEntry(d)] # "CMD"
    /\ status' = [status EXCEPT ![NextEntry(d)] = "TYPE_EXCLUDED"]
    /\ stats' = [stats EXCEPT !["num_excluded"] = @ + 1]
    /\ pos' = [pos EXCEPT ![d] = @ + 1]

create_job(d) ==
    /\ status' = [status EXCEPT ![NextEntry(d)] = "QUEUED"]
    /\ stats' = stats
    /\ pos' = [pos EXCEPT ![d] = @ + 1]

(***************************************************************************)
(* account_stats: the statistics after job was accounted with status st.   *)
(***************************************************************************)
NumEntries(j) == IF Type[j] = "CMD" /\ add_cmd_status THEN 2 ELSE 1

CountIf(cond, n) == IF cond THEN n ELSE 0

account_stats_NoStatusFile(j, st) ==
    IF j = JOB_INIT THEN stats
    ELSE [stats EXCEPT
            !["num_done"] = @ + CountIf(st \in {"DONE", "PARTIAL"}, 1),
            !["num_excluded"] = @ + CountIf(st = "EXCLUDED", 1),
            !["num_failed"] = @ + CountIf(st = "FAILED", 1),
            !["num_partial"] = @ + CountIf(st = "PARTIAL", 1)]

account_stats(j, st) ==
    IF j = JOB_INIT THEN stats
    ELSE [stats EXCEPT
            !["num_done"] = @ + CountIf(st \in {"DONE", "PARTIAL"}, NumEntries(j)),
            !["num_excluded"] = @ + CountIf(st = "EXCLUDED", 1),
            !["num_failed"] = @ + CountIf(st = "FAILED", 1),
            !["num_partial"] = @ + CountIf(st = "PARTIAL", 1)]

WritesEntry_NotFailed(j) ==
    /\ j # JOB_INIT
    /\ status[j] \in {"DONE", "PARTIAL"}

\* _write_job_data: the statuses for which an entry is written.
WritesEntry(j) ==
    /\ j # JOB_INIT
    /\ \/ status[j] \in {"DONE", "PARTIAL"}
       \/ status[j] = "FAILED" /\ ignore_failed_read

\* is_job_excluded: whether an exclude pattern may match the job.
MayExclude(j) ==
    /\ "exclude" \in Faults
    /\ Type[j] \in {"FILE", "LINK", "DIR"}

\* process_job: the jobs whose contents are read.
IsRead(j) == Type[j] \in {"FILE", "LINK", "CMD"}

\* print_summary: the number reported as "Dumped %lu entries".
num_added ==
    stats["num_done"] +
        IF ignore_failed_read THEN stats["num_partial"] + stats["num_failed"] ELSE 0
=============================================================================
