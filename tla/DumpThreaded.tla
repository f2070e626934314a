---------------------------- MODULE DumpThreaded ----------------------------
(***************************************************************************)
(* dump2tar with --jobs, --jobs-per-cpu, --timeout or --file-timeout       *)
(* (process_queue_threaded in dump2tar/src/dump.c): the worker threads,    *)
(* the main thread that waits for them and enforces the timeouts, and the  *)
(* cleanup at the end.                                                     *)
(*                                                                         *)
(* A critical section of task->mutex is one step, since nothing else can   *)
(* happen to the data it protects.  What a thread does between two such    *)
(* sections is split where another thread could observe it.  A thread that *)
(* waits on a condition variable is at "wait" (workers), "cwait" or        *)
(* "fwait" (main); a wakeup moves it on to where it re-evaluates its       *)
(* condition.  Deferred cancellation is a flag per thread that takes       *)
(* effect at the cancellation points the code enables.                     *)
(***************************************************************************)
EXTENDS DumpTask

CONSTANTS
    jobs,         \* opts->jobs, the number of worker threads
    file_timeout, \* opts->file_timeout in clock ticks, 0 for none
    timeout,      \* opts->timeout in clock ticks, 0 for none
    Hanging       \* jobs whose input never ends and never fails

ASSUME ThreadedAssumption ==
    /\ jobs \in Nat \ {0}
    /\ file_timeout \in Nat
    /\ timeout \in Nat
    /\ Hanging \subseteq Node

Thread == 1..jobs

ThreadOrNull == Thread \cup {NULL}

ASSUME NullIsNoThread == NULL \notin Thread

VARIABLES
    pc,            \* where a worker thread is
    job,           \* thread->job
    running,       \* thread->running
    timed_out,     \* thread->timed_out
    cancel,        \* a cancellation request is pending for the thread
    leftover,      \* the thread handles the job of its cancelled predecessor
    result,        \* process_job's local status
    first,         \* queue_dir's local list of new jobs: its first job,
    last,          \*   its last job,
    num,           \*   its length
    chain,         \*   and the jobs in it (history)
    deadline,      \* job->deadline, 0 unless job->timed
    output_mutex,  \* the owner of task->output_mutex
    mpc,           \* where the main thread is
    mthread,       \* the thread main starts or joins next
    earliest,      \* wait_for_completion's earliest_thread
    wdeadline,     \* the deadline main waits for, 0 for none
    mjob,          \* _timeout_thread's local job
    now            \* the clock

listVars == <<first, last, num, chain>>
localVars == <<leftover, result, listVars>>
mainVars == <<mthread, earliest, wdeadline, mjob>>
threadVars == <<job, running, timed_out, cancel, deadline>>
vars == <<taskVars, pc, threadVars, localVars, output_mutex, mpc, mainVars, now>>

WorkerPC == {"none", "start", "get", "wait", "process", "scan", "create",
             "readdir", "status", "outlock", "write", "writing", "wstatus",
             "finish", "end", "dead", "joined"}

MainPC == {"spawn", "spawned", "loop", "cwait", "reacq", "cancel", "join",
           "fin", "fwait", "cleanup", "cjoin", "abort", "exit", "undefined"}

\* The types of the variables.
TypeOK ==
    /\ TaskTypeOK
    /\ pc \in [Thread -> WorkerPC]
    /\ job \in [Thread -> JobOrNull]
    /\ running \in [Thread -> BOOLEAN]
    /\ timed_out \in [Thread -> BOOLEAN]
    /\ cancel \in [Thread -> BOOLEAN]
    /\ leftover \in [Thread -> BOOLEAN]
    /\ result \in [Thread -> Final]
    /\ first \in [Thread -> JobOrNull]
    /\ last \in [Thread -> JobOrNull]
    /\ num \in [Thread -> Nat]
    /\ chain \in [Thread -> SUBSET Job]
    /\ deadline \in [Job -> Nat]
    /\ output_mutex \in ThreadOrNull
    /\ mpc \in MainPC
    /\ mthread \in Thread
    /\ earliest \in ThreadOrNull
    /\ wdeadline \in Nat
    /\ mjob \in JobOrNull
    /\ now \in Nat

Init ==
    /\ init_queue
    /\ pc = [t \in Thread |-> "none"]
    /\ job = [t \in Thread |-> NULL]
    /\ running = [t \in Thread |-> FALSE]
    /\ timed_out = [t \in Thread |-> FALSE]
    /\ cancel = [t \in Thread |-> FALSE]
    /\ leftover = [t \in Thread |-> FALSE]
    /\ result = [t \in Thread |-> "DONE"]
    /\ first = [t \in Thread |-> NULL]
    /\ last = [t \in Thread |-> NULL]
    /\ num = [t \in Thread |-> 0]
    /\ chain = [t \in Thread |-> {}]
    /\ deadline = [j \in Job |-> 0]
    /\ output_mutex = NULL
    /\ mpc = "spawn"
    /\ mthread = 1
    /\ earliest = NULL
    /\ wdeadline = 0
    /\ mjob = NULL
    /\ now = 0

(***************************************************************************)
(* Wakeups and abort.                                                      *)
(***************************************************************************)
\* _worker_wakeup_all, applied to the program counters p.
worker_wakeup_all(p) ==
    [u \in Thread |-> IF p[u] = "wait" THEN "get" ELSE p[u]]

\* _worker_wakeup_one: the outcomes for the program counters p.
worker_wakeup_one(p) ==
    LET Waiting == {u \in Thread : p[u] = "wait"}
    IN  IF Waiting = {} THEN {p}
        ELSE {[p EXCEPT ![u] = "get"] : u \in Waiting}

\* _main_wakeup: what it does to the main thread.
main_wakeup ==
    IF mpc = "cwait" THEN "loop" ELSE IF mpc = "fwait" THEN "fin" ELSE mpc

Goto(t, l) == [pc EXCEPT ![t] = l]

\* Thread t goes on at l, after set_aborted if cond holds.
set_aborted_if(cond, t, l) ==
    IF cond
    THEN /\ aborted' = TRUE
         /\ pc' = worker_wakeup_all(Goto(t, l))
         /\ mpc' = main_wakeup
    ELSE /\ pc' = Goto(t, l)
         /\ UNCHANGED <<aborted, mpc>>

(***************************************************************************)
(* The worker thread.                                                      *)
(***************************************************************************)
\* worker_thread_main's entry: a job left over from a cancelled thread is
\* accounted again and written.
Start(t) ==
    /\ pc[t] = "start"
    /\ IF job[t] # NULL
       THEN /\ stats' = account_stats(job[t], status[job[t]])
            /\ leftover' = [leftover EXCEPT ![t] = TRUE]
            /\ pc' = Goto(t, "outlock")
       ELSE /\ pc' = Goto(t, "get")
            /\ UNCHANGED <<stats, leftover>>
    /\ UNCHANGED <<status, queueVars, num_jobs_active, pos, aborted,
                   archiveVars, threadVars, result, listVars,
                   output_mutex, mpc, mainVars, now>>

\* start_thread_job sets up a deadline for every job but the initial one.
Timed(j) == file_timeout > 0 /\ j # JOB_INIT

\* The exit of the worker: thread->running = false and _main_wakeup.
LeaveLoop(t) ==
    /\ running' = [running EXCEPT ![t] = FALSE]
    /\ pc' = Goto(t, "end")
    /\ mpc' = main_wakeup

get_next_job_WhenAborted(t, st, active, jb, woken) ==
    /\ num_jobs_active' = active
    /\ \/ /\ dequeue_job
          /\ status' = [st EXCEPT ![jobs_head] = "IN_PROGRESS"]
          /\ job' = [jb EXCEPT ![t] = jobs_head]
          /\ pc' = Goto(t, "process")
          /\ UNCHANGED <<deadline, running, mpc>>
       \/ /\ jobs_head = NULL
          /\ LeaveLoop(t)
          /\ status' = st
          /\ job' = jb
          /\ UNCHANGED <<queueVars, deadline>>

\* One round of _get_next_job with the following start_thread_job, in a
\* critical section that has already changed the statuses to st, the number
\* of active jobs to active, thread->job to jb, and that has woken main if
\* woken holds.  The round ends in a new job, in leaving the worker loop, or
\* in _worker_wait.
get_next_job(t, st, active, jb, woken) ==
    /\ num_jobs_active' = active
    /\ \/ /\ ~aborted
          /\ dequeue_job
          /\ status' = [st EXCEPT ![jobs_head] = "IN_PROGRESS"]
          /\ job' = [jb EXCEPT ![t] = jobs_head]
          /\ deadline' = IF Timed(jobs_head)
                         THEN [deadline EXCEPT ![jobs_head] = now + file_timeout]
                         ELSE deadline
          /\ pc' = Goto(t, "process")
          /\ mpc' = IF woken \/ Timed(jobs_head) THEN main_wakeup ELSE mpc
          /\ UNCHANGED running
       \/ /\ aborted \/ (jobs_head = NULL /\ active = 0)
          /\ LeaveLoop(t)
          /\ status' = st
          /\ job' = jb
          /\ UNCHANGED <<queueVars, deadline>>
       \/ /\ ~aborted
          /\ jobs_head = NULL
          /\ active # 0
          /\ pc' = Goto(t, "wait")
          /\ mpc' = IF woken THEN main_wakeup ELSE mpc
          /\ status' = st
          /\ job' = jb
          /\ UNCHANGED <<queueVars, deadline, running>>

GetNext(t) ==
    /\ pc[t] = "get"
    /\ get_next_job(t, status, num_jobs_active, job, FALSE)
    /\ UNCHANGED <<pos, aborted, stats, archiveVars, timed_out, cancel,
                   localVars, output_mutex, mainVars, now>>

\* process_job has determined the status r and goes on to store it.
Result(t, r) == result' = [result EXCEPT ![t] = r]

Exclude(t) ==
    /\ pc[t] = "process"
    /\ MayExclude(job[t])
    /\ Result(t, "EXCLUDED")
    /\ pc' = Goto(t, "status")
    /\ UNCHANGED <<taskVars, threadVars, leftover, listVars,
                   output_mutex, mpc, mainVars, now>>

\* JOB_INIT: open_output, then queue_jobs_from_opts.
OpenOutput(t) ==
    /\ pc[t] = "process"
    /\ job[t] = JOB_INIT
    /\ \/ /\ "open" \in Faults
          /\ set_aborted_if(TRUE, t, "status")
          /\ Result(t, "FAILED")
       \/ /\ pc' = Goto(t, "scan")
          /\ UNCHANGED <<aborted, mpc, result>>
    /\ UNCHANGED <<status, queueVars, num_jobs_active, pos, stats, archiveVars,
                   threadVars, leftover, listVars, output_mutex,
                   mainVars, now>>

\* The loop condition of queue_jobs_from_opts, with its call of is_aborted.
ScanSpecs(t) ==
    /\ pc[t] = "scan"
    /\ IF HasEntry(JOB_INIT) /\ ~aborted
       THEN /\ pc' = Goto(t, "create")
            /\ UNCHANGED result
       ELSE /\ pc' = Goto(t, "status")
            /\ Result(t, "DONE")
    /\ UNCHANGED <<taskVars, threadVars, leftover, listVars,
                   output_mutex, mpc, mainVars, now>>

\* queue_file: create_job and, if there is something to archive, queue_job.
QueueSpec(t) ==
    /\ pc[t] = "create"
    /\ \/ /\ create_job_CannotStat(JOB_INIT)
          /\ set_aborted_if(read_error_aborts, t, "scan")
          /\ UNCHANGED <<queueVars, num_jobs_active>>
       \/ /\ create_job_TypeExcluded(JOB_INIT)
          /\ pc' = Goto(t, "scan")
          /\ UNCHANGED <<queueVars, num_jobs_active, aborted, mpc>>
       \/ /\ create_job(JOB_INIT)
          /\ queue_job_tail(NextEntry(JOB_INIT))
          /\ num_jobs_active' = num_jobs_active + 1
          /\ pc' \in worker_wakeup_one(Goto(t, "scan"))
          /\ UNCHANGED <<aborted, mpc>>
    /\ UNCHANGED <<archiveVars, threadVars, localVars, output_mutex, mainVars,
                   now>>

\* JOB_DIR: dref_create, or nothing to do without --recursive.  A directory
\* that cannot be opened still ends as JOB_DONE.
OpenDir(t) ==
    /\ pc[t] = "process"
    /\ Type[job[t]] = "DIR"
    /\ \/ /\ recursive
          /\ "dir" \in Faults
          /\ set_aborted_if(read_error_aborts, t, "status")
          /\ Result(t, "DONE")
       \/ /\ recursive
          /\ pc' = Goto(t, "readdir")
          /\ UNCHANGED <<aborted, mpc, result>>
       \/ /\ ~recursive
          /\ pc' = Goto(t, "status")
          /\ Result(t, "DONE")
          /\ UNCHANGED <<aborted, mpc>>
    /\ UNCHANGED <<status, queueVars, num_jobs_active, pos, stats, archiveVars,
                   threadVars, leftover, listVars, output_mutex,
                   mainVars, now>>

ReadDirEntry_NoLink(t) ==
    /\ pc[t] = "readdir"
    /\ HasEntry(job[t])
    /\ create_job(job[t])
    /\ first' = IF last[t] = NULL
                THEN [first EXCEPT ![t] = NextEntry(job[t])]
                ELSE first
    /\ last' = [last EXCEPT ![t] = NextEntry(job[t])]
    /\ num' = [num EXCEPT ![t] = @ + 1]
    /\ chain' = [chain EXCEPT ![t] = @ \cup {NextEntry(job[t])}]
    /\ UNCHANGED <<queueVars, num_jobs_active, archiveVars, pc, aborted, mpc,
                   threadVars, leftover, result, output_mutex, mainVars, now>>

\* One round of queue_dir's loop: the new job goes to the end of the local
\* list from first to last.
ReadDirEntry(t) ==
    /\ pc[t] = "readdir"
    /\ HasEntry(job[t])
    /\ \/ /\ create_job_CannotStat(job[t])
          /\ set_aborted_if(read_error_aborts, t, "readdir")
          /\ UNCHANGED <<next_job, listVars>>
       \/ /\ create_job_TypeExcluded(job[t])
          /\ UNCHANGED <<next_job, listVars, pc, aborted, mpc>>
       \/ /\ create_job(job[t])
          /\ next_job' = IF last[t] = NULL THEN next_job
                         ELSE [next_job EXCEPT ![last[t]] = NextEntry(job[t])]
          /\ first' = IF last[t] = NULL
                      THEN [first EXCEPT ![t] = NextEntry(job[t])]
                      ELSE first
          /\ last' = [last EXCEPT ![t] = NextEntry(job[t])]
          /\ num' = [num EXCEPT ![t] = @ + 1]
          /\ chain' = [chain EXCEPT ![t] = @ \cup {NextEntry(job[t])}]
          /\ UNCHANGED <<pc, aborted, mpc>>
    /\ UNCHANGED <<jobs_head, jobs_tail, num_jobs_active, archiveVars,
                   threadVars, leftover, result, output_mutex, mainVars, now>>

QueueDir_CountsOne(t) ==
    /\ pc[t] = "readdir"
    /\ ~HasEntry(job[t])
    /\ first[t] # NULL
    /\ queue_jobs_list(first[t], last[t])
    /\ num_jobs_active' = num_jobs_active + 1
    /\ pc' = worker_wakeup_all(Goto(t, "status"))
    /\ first' = [first EXCEPT ![t] = NULL]
    /\ last' = [last EXCEPT ![t] = NULL]
    /\ num' = [num EXCEPT ![t] = 0]
    /\ chain' = [chain EXCEPT ![t] = {}]
    /\ Result(t, "DONE")
    /\ UNCHANGED <<status, pos, aborted, stats, archiveVars, threadVars,
                   leftover, output_mutex, mpc, mainVars, now>>

\* The end of queue_dir: queue_jobs, if there is anything to queue.
QueueDir(t) ==
    /\ pc[t] = "readdir"
    /\ ~HasEntry(job[t])
    /\ IF first[t] # NULL
       THEN /\ queue_jobs_list(first[t], last[t])
            /\ num_jobs_active' = num_jobs_active + num[t]
            /\ pc' = worker_wakeup_all(Goto(t, "status"))
       ELSE /\ pc' = Goto(t, "status")
            /\ UNCHANGED <<queueVars, num_jobs_active>>
    /\ first' = [first EXCEPT ![t] = NULL]
    /\ last' = [last EXCEPT ![t] = NULL]
    /\ num' = [num EXCEPT ![t] = 0]
    /\ chain' = [chain EXCEPT ![t] = {}]
    /\ Result(t, "DONE")
    /\ UNCHANGED <<status, pos, aborted, stats, archiveVars, threadVars,
                   leftover, output_mutex, mpc, mainVars, now>>

\* JOB_FILE, JOB_LINK, JOB_CMD: read_regular, read_symlink, read_cmd_output
\* reach the end of the data, fail, or notice that the task was aborted.  The
\* end of the data is only seen by a read call, where a pending cancellation
\* would take effect; readlinkat need not be a cancellation point, and a
\* command can also fail outside of such a call.
Read(t) ==
    /\ pc[t] = "process"
    /\ IsRead(job[t])
    /\ job[t] \notin Hanging
    /\ \/ /\ ~aborted
          /\ ~cancel[t] \/ Type[job[t]] = "LINK"
          /\ Result(t, "DONE")
          /\ pc' = Goto(t, "status")
          /\ UNCHANGED <<aborted, mpc>>
       \/ /\ "read" \in Faults
          /\ ~cancel[t] \/ Type[job[t]] \in {"LINK", "CMD"}
          /\ Result(t, "FAILED")
          /\ set_aborted_if(read_error_aborts, t, "status")
       \/ /\ aborted
          /\ Result(t, "FAILED")
          /\ pc' = Goto(t, "status")
          /\ UNCHANGED <<aborted, mpc>>
    /\ UNCHANGED <<status, queueVars, num_jobs_active, pos, stats, archiveVars,
                   threadVars, leftover, listVars, output_mutex,
                   mainVars, now>>

\* process_job stores job->status, without task->mutex, and postprocess_job
\* accounts the job.
SetStatus(t) ==
    /\ pc[t] = "status"
    /\ status' = [status EXCEPT ![job[t]] = result[t]]
    /\ stats' = account_stats(job[t], result[t])
    /\ pc' = Goto(t, "outlock")
    /\ UNCHANGED <<queueVars, num_jobs_active, pos, aborted, archiveVars,
                   threadVars, localVars, output_mutex, mpc, mainVars, now>>

(***************************************************************************)
(* write_job_data: output_lock, _write_job_data, output_unlock.            *)
(***************************************************************************)
OutputLock(t) ==
    /\ pc[t] = "outlock"
    /\ output_mutex = NULL
    /\ output_mutex' = t
    /\ pc' = Goto(t, "write")
    /\ UNCHANGED <<taskVars, threadVars, localVars, mpc, mainVars, now>>

SkipEntry(t) ==
    /\ pc[t] = "write"
    /\ ~WritesEntry(job[t])
    /\ output_mutex' = NULL
    /\ pc' = Goto(t, "finish")
    /\ UNCHANGED <<taskVars, threadVars, localVars, mpc, mainVars, now>>

BeginEntry(t) ==
    /\ pc[t] = "write"
    /\ WritesEntry(job[t])
    /\ pc' = Goto(t, "writing")
    /\ UNCHANGED <<taskVars, threadVars, localVars, output_mutex, mpc, mainVars,
                   now>>

EndEntry_Retries(t) ==
    /\ pc[t] \in {"writing", "wstatus"}
    /\ \E failed \in BOOLEAN :
          /\ failed => "write" \in Faults
          /\ torn' = IF failed THEN [torn EXCEPT ![job[t]] = @ + 1] ELSE torn
          /\ whole' = IF failed THEN whole ELSE [whole EXCEPT ![job[t]] = @ + 1]
          /\ pc' = Goto(t, IF failed THEN pc[t] ELSE "finish")
          /\ output_mutex' = IF failed THEN output_mutex ELSE NULL
    /\ output_num_files' = output_num_files + 1
    /\ UNCHANGED <<status, queueVars, num_jobs_active, pos, aborted, stats,
                   threadVars, localVars, mpc, mainVars, now>>

\* The entry is complete, or cut off by a write error.  A command may be
\* followed by the entry for its exit status.  After the last entry the size
\* of the archive is checked against opts->max_size.  (A pending cancellation
\* does not stop an entry that fits into zlib's buffer.)
EndEntry(t) ==
    /\ pc[t] \in {"writing", "wstatus"}
    /\ LET more == pc[t] = "writing" /\ NumEntries(job[t]) = 2
       IN  \E failed, exceeded \in BOOLEAN :
             /\ failed => "write" \in Faults
             /\ exceeded => "max_size" \in Faults /\ ~more
             /\ torn' = IF failed THEN [torn EXCEPT ![job[t]] = @ + 1] ELSE torn
             /\ whole' = IF failed THEN whole
                         ELSE [whole EXCEPT ![job[t]] = @ + 1]
             /\ set_aborted_if(failed \/ exceeded, t,
                               IF more THEN "wstatus" ELSE "finish")
             /\ output_mutex' = IF more THEN output_mutex ELSE NULL
    /\ output_num_files' = output_num_files + 1
    /\ UNCHANGED <<status, queueVars, num_jobs_active, pos, stats, threadVars,
                   localVars, mainVars, now>>

Finish_IgnoresTimeout(t) ==
    /\ pc[t] = "finish"
    /\ leftover' = [leftover EXCEPT ![t] = FALSE]
    /\ get_next_job(t, [status EXCEPT ![job[t]] = "freed"], num_jobs_active - 1,
                    [job EXCEPT ![t] = NULL], num_jobs_active = 1)
    /\ UNCHANGED <<pos, aborted, stats, archiveVars, timed_out, cancel, result,
                   listVars, output_mutex, mainVars, now>>

\* The critical section after postprocess_job.  A thread that main timed out
\* meanwhile leaves its job to its successor; otherwise the job is complete.
\* In the worker loop the next _get_next_job belongs to the same section.
Finish(t) ==
    /\ pc[t] = "finish"
    /\ IF timed_out[t]
       THEN /\ LeaveLoop(t)
            /\ UNCHANGED <<status, queueVars, num_jobs_active, job, deadline,
                           leftover>>
       ELSE LET st == [status EXCEPT ![job[t]] = "freed"]
                jb == [job EXCEPT ![t] = NULL]
                active == num_jobs_active - 1
            IN  /\ leftover' = [leftover EXCEPT ![t] = FALSE]
                /\ IF leftover[t]
                   THEN /\ status' = st
                        /\ job' = jb
                        /\ num_jobs_active' = active
                        /\ pc' = Goto(t, "get")
                        /\ mpc' = IF active = 0 THEN main_wakeup ELSE mpc
                        /\ UNCHANGED <<queueVars, deadline, running>>
                   ELSE get_next_job(t, st, active, jb, active = 0)
    /\ UNCHANGED <<pos, aborted, stats, archiveVars, timed_out, cancel, result,
                   listVars, output_mutex, mainVars, now>>

Cancelled_KeepsMutex(t) ==
    /\ cancel[t]
    /\ \/ pc[t] = "process" /\ (IsRead(job[t]) \/ job[t] = JOB_INIT)
       \/ pc[t] = "write" /\ WritesEntry(job[t])
       \/ pc[t] \in {"writing", "wstatus"}
    /\ pc' = Goto(t, "dead")
    /\ UNCHANGED <<taskVars, threadVars, localVars, output_mutex, mpc, mainVars,
                   now>>

\* A pending cancellation takes effect in a read call, in opening the output,
\* or in a write call.  The cleanup handler releases output_mutex.
Cancelled(t) ==
    /\ cancel[t]
    /\ \/ /\ pc[t] = "process"
          /\ IsRead(job[t]) \/ job[t] = JOB_INIT
          /\ UNCHANGED <<torn, output_mutex>>
       \/ /\ pc[t] = "write"
          /\ WritesEntry(job[t])
          /\ output_mutex' = NULL
          /\ UNCHANGED torn
       \/ /\ pc[t] \in {"writing", "wstatus"}
          /\ output_mutex' = NULL
          /\ torn' = [torn EXCEPT ![job[t]] = @ + 1]
    /\ pc' = Goto(t, "dead")
    /\ UNCHANGED <<status, queueVars, num_jobs_active, pos, aborted, stats,
                   whole, output_num_files, threadVars, localVars, mpc,
                   mainVars, now>>

(***************************************************************************)
(* The main thread: process_queue_threaded, wait_for_completion and        *)
(* _timeout_thread.                                                        *)
(***************************************************************************)
\* start_worker_thread creates the thread and only then sets running, while
\* the thread may already be at work.  If it cannot create the thread, main
\* goes straight to the cleanup.
Spawn ==
    /\ mpc = "spawn"
    /\ \/ /\ pc' = Goto(mthread, "start")
          /\ mpc' = "spawned"
          /\ UNCHANGED mthread
       \/ /\ "create" \in Faults
          /\ mpc' = "cleanup"
          /\ mthread' = 1
          /\ UNCHANGED pc
    /\ UNCHANGED <<taskVars, threadVars, localVars, output_mutex, earliest,
                   wdeadline, mjob, now>>

Spawned ==
    /\ mpc = "spawned"
    /\ running' = [running EXCEPT ![mthread] = TRUE]
    /\ IF mthread < jobs
       THEN mpc' = "spawn" /\ mthread' = mthread + 1
       ELSE mpc' = "loop" /\ mthread' = 1
    /\ UNCHANGED <<taskVars, pc, job, timed_out, cancel, deadline, localVars,
                   output_mutex, earliest, wdeadline, mjob, now>>

TimedThreads == {t \in Thread : job[t] # NULL /\ deadline[job[t]] # 0}

\* The thread whose job has the nearest deadline, the first one among equals.
IsNearest(t) ==
    /\ t \in TimedThreads
    /\ timeout > 0 => deadline[job[t]] < timeout
    /\ \A u \in TimedThreads :
          \/ deadline[job[t]] < deadline[job[u]]
          \/ deadline[job[t]] = deadline[job[u]] /\ t <= u

WaitLoop_UntilQueueEmpty ==
    /\ mpc = "loop"
    /\ IF aborted \/ jobs_head = NULL
       THEN mpc' = "fin" /\ pc' = worker_wakeup_all(pc)
       ELSE mpc' = "cwait" /\ UNCHANGED pc
    /\ UNCHANGED <<taskVars, threadVars, localVars, output_mutex, mainVars, now>>

WaitLoop_NoWakeup ==
    /\ mpc = "loop"
    /\ mpc' = IF aborted \/ num_jobs_active = 0 THEN "fin" ELSE "cwait"
    /\ UNCHANGED <<taskVars, pc, threadVars, localVars, output_mutex, mainVars,
                   now>>

\* The head of the waiting loop: stop waiting, or wait for the nearest
\* deadline.
WaitLoop ==
    /\ mpc = "loop"
    /\ IF aborted \/ num_jobs_active = 0
       THEN /\ mpc' = "fin"
            /\ pc' = worker_wakeup_all(pc)
            /\ UNCHANGED <<earliest, wdeadline>>
       ELSE /\ mpc' = "cwait"
            /\ UNCHANGED pc
            /\ \/ \E t \in Thread :
                    /\ IsNearest(t)
                    /\ earliest' = t
                    /\ wdeadline' = deadline[job[t]]
               \/ /\ \A t \in Thread : ~IsNearest(t)
                  /\ earliest' = NULL
                  /\ wdeadline' = timeout
    /\ UNCHANGED <<taskVars, threadVars, localVars, output_mutex, mthread, mjob,
                   now>>

\* The deadline passes; main has to obtain task->mutex again before it can
\* act on it.
WaitTimesOut ==
    /\ mpc = "cwait"
    /\ wdeadline # 0
    /\ now >= wdeadline
    /\ mpc' = "reacq"
    /\ UNCHANGED <<taskVars, pc, threadVars, localVars, output_mutex, mainVars,
                   now>>

\* _timeout_thread: the thread has a job and the job is not final.
TimeoutApplies(t) == job[t] # NULL /\ status[job[t]] \notin Final

\* The tool deadline aborts the task.  A job deadline goes to _timeout_thread,
\* which looks at the job the thread has now: there may be none any more, it
\* may be final, and it may be another one than the one waited for.
HandleTimeout ==
    /\ mpc = "reacq"
    /\ \/ /\ earliest = NULL
          /\ aborted' = TRUE
          /\ pc' = worker_wakeup_all(pc)
          /\ mpc' = "fin"
          /\ UNCHANGED <<timed_out, mjob>>
       \/ /\ earliest # NULL
          /\ ~TimeoutApplies(earliest)
          /\ mpc' = "loop"
          /\ UNCHANGED <<aborted, pc, timed_out, mjob>>
       \/ /\ earliest # NULL
          /\ TimeoutApplies(earliest)
          /\ timed_out' = [timed_out EXCEPT ![earliest] = TRUE]
          /\ mjob' = job[earliest]
          /\ mpc' = "cancel"
          /\ UNCHANGED <<aborted, pc>>
    /\ UNCHANGED <<status, queueVars, num_jobs_active, pos, stats, archiveVars,
                   job, running, cancel, deadline, localVars, output_mutex,
                   mthread, earliest, wdeadline, now>>

CancelThread_Forgotten ==
    /\ mpc = "cancel"
    /\ mpc' = "join"
    /\ UNCHANGED <<taskVars, pc, threadVars, localVars, output_mutex, mainVars,
                   now>>

\* pthread_cancel, after task->mutex was released.
CancelThread ==
    /\ mpc = "cancel"
    /\ cancel' = [cancel EXCEPT ![earliest] = TRUE]
    /\ mpc' = "join"
    /\ UNCHANGED <<taskVars, pc, job, running, timed_out, deadline, localVars,
                   output_mutex, mainVars, now>>

Ended(t) == pc[t] \in {"end", "dead"}

JoinThread_AlwaysPartial ==
    /\ mpc = "join"
    /\ Ended(earliest)
    /\ status' = [status EXCEPT ![mjob] = "PARTIAL"]
    /\ timed_out' = [timed_out EXCEPT ![earliest] = FALSE]
    /\ cancel' = [cancel EXCEPT ![earliest] = FALSE]
    /\ running' = [running EXCEPT ![earliest] = TRUE]
    /\ pc' = Goto(earliest, "start")
    /\ mjob' = NULL
    /\ mpc' = "loop"
    /\ UNCHANGED <<queueVars, num_jobs_active, pos, aborted, stats, archiveVars,
                   job, deadline, localVars, output_mutex, mthread, earliest,
                   wdeadline, now>>

\* The rest of _timeout_thread, once the thread has ended: adjust the status
\* of the interrupted job and start a new thread for it.
JoinThread ==
    /\ mpc = "join"
    /\ Ended(earliest)
    /\ status' = IF status[mjob] = "IN_PROGRESS"
                 THEN [status EXCEPT ![mjob] = "PARTIAL"]
                 ELSE IF status[mjob] \notin Final
                 THEN [status EXCEPT ![mjob] = "FAILED"]
                 ELSE status
    /\ timed_out' = [timed_out EXCEPT ![earliest] = FALSE]
    /\ cancel' = [cancel EXCEPT ![earliest] = FALSE]
    /\ \E created \in BOOLEAN :
         /\ ~created => "create" \in Faults
         /\ running' = IF created THEN [running EXCEPT ![earliest] = TRUE]
                       ELSE running
         /\ aborted' = (aborted \/ ~created \/ ~ignore_failed_read)
         /\ LET p == Goto(earliest, IF created THEN "start" ELSE "joined")
            IN  pc' = IF created /\ ignore_failed_read THEN p
                      ELSE worker_wakeup_all(p)
    /\ mjob' = NULL
    /\ mpc' = "loop"
    /\ UNCHANGED <<queueVars, num_jobs_active, pos, stats, archiveVars, job,
                   deadline, localVars, output_mutex, mthread, earliest,
                   wdeadline, now>>

\* Allow jobs to finish: wait until no thread is marked as running, for at
\* most a quarter of a second.
FinishWait ==
    /\ mpc = "fin"
    /\ mpc' = IF aborted \/ \A t \in Thread : ~running[t]
              THEN "cleanup" ELSE "fwait"
    /\ UNCHANGED <<taskVars, pc, threadVars, localVars, output_mutex, mainVars,
                   now>>

FinishWaitTimesOut ==
    /\ mpc = "fwait"
    /\ mpc' = "cleanup"
    /\ UNCHANGED <<taskVars, pc, threadVars, localVars, output_mutex, mainVars,
                   now>>

\* The cleanup cancels and joins one thread after the other.  A slot without
\* a thread (never created, or joined before) makes this undefined.
Cleanup ==
    /\ mpc = "cleanup"
    /\ IF pc[mthread] \in {"none", "joined"}
       THEN /\ mpc' = "undefined"
            /\ UNCHANGED cancel
       ELSE /\ mpc' = "cjoin"
            /\ cancel' = [cancel EXCEPT ![mthread] = @ \/ running[mthread]]
    /\ UNCHANGED <<taskVars, pc, job, running, timed_out, deadline, localVars,
                   output_mutex, mainVars, now>>

\* pthread_join and cleanup_thread, which frees a job the thread still has.
CleanupJoin ==
    /\ mpc = "cjoin"
    /\ Ended(mthread)
    /\ pc' = Goto(mthread, "joined")
    /\ status' = IF job[mthread] = NULL THEN status
                 ELSE [status EXCEPT ![job[mthread]] = "dropped"]
    /\ job' = [job EXCEPT ![mthread] = NULL]
    /\ IF mthread < jobs
       THEN mpc' = "cleanup" /\ mthread' = mthread + 1
       ELSE mpc' = "abort" /\ mthread' = 1
    /\ UNCHANGED <<queueVars, num_jobs_active, pos, aborted, stats, archiveVars,
                   running, timed_out, cancel, deadline, localVars,
                   output_mutex, earliest, wdeadline, mjob, now>>

AbortQueued_NoCount ==
    /\ mpc = "abort"
    /\ dequeue_job
    /\ stats' = [stats EXCEPT !["num_failed"] = @ + 1]
    /\ status' = [status EXCEPT ![jobs_head] = "freed"]
    /\ UNCHANGED <<num_jobs_active, pos, aborted, archiveVars, pc, threadVars,
                   localVars, output_mutex, mpc, mainVars, now>>

\* abort_queued_jobs, one job at a time.
AbortQueued ==
    /\ mpc = "abort"
    /\ dequeue_job
    /\ stats' = [stats EXCEPT !["num_failed"] = @ + 1]
    /\ status' = [status EXCEPT ![jobs_head] = "freed"]
    /\ num_jobs_active' = num_jobs_active - 1
    /\ UNCHANGED <<pos, aborted, archiveVars, pc, threadVars, localVars,
                   output_mutex, mpc, mainVars, now>>

\* The rest of dump_to_tar: write_eof, which may fail, and the summary.
Exit ==
    /\ mpc = "abort"
    /\ jobs_head = NULL
    /\ \/ UNCHANGED aborted
       \/ output_num_files > 0 /\ "write" \in Faults /\ aborted' = TRUE
    /\ mpc' = "exit"
    /\ UNCHANGED <<status, queueVars, num_jobs_active, pos, stats, archiveVars, pc,
                   threadVars, localVars, output_mutex, mainVars, now>>

Terminated == mpc \in {"exit", "undefined"}

(***************************************************************************)
(* Time passes as long as a deadline lies ahead; without one it makes no   *)
(* difference.                                                             *)
(***************************************************************************)
Tick ==
    /\ ~Terminated
    /\ \/ timeout > now
       \/ \E t \in TimedThreads : deadline[job[t]] > now
    /\ now' = now + 1
    /\ UNCHANGED <<taskVars, pc, threadVars, localVars, output_mutex, mpc,
                   mainVars>>

\* pthread_cond_wait and pthread_cond_timedwait may return without a wakeup,
\* the latter before its deadline only.  (In main's final wait nothing comes
\* of this: the loop waits again, for the same deadline.)
SpuriousWakeup ==
    /\ \/ /\ \E t \in Thread : pc[t] = "wait" /\ pc' = Goto(t, "get")
          /\ UNCHANGED mpc
       \/ /\ mpc = "cwait"
          /\ wdeadline = 0 \/ now < wdeadline
          /\ mpc' = "loop"
          /\ UNCHANGED pc
    /\ UNCHANGED <<taskVars, threadVars, localVars, output_mutex, mainVars, now>>

Worker(t) ==
    \/ Start(t) \/ GetNext(t) \/ Exclude(t) \/ OpenOutput(t) \/ ScanSpecs(t)
    \/ QueueSpec(t) \/ OpenDir(t) \/ ReadDirEntry(t) \/ QueueDir(t) \/ Read(t)
    \/ SetStatus(t) \/ OutputLock(t) \/ SkipEntry(t) \/ BeginEntry(t)
    \/ EndEntry(t) \/ Finish(t) \/ Cancelled(t)

Main ==
    \/ Spawn \/ Spawned \/ WaitLoop \/ WaitTimesOut \/ HandleTimeout
    \/ CancelThread \/ JoinThread \/ FinishWait \/ FinishWaitTimesOut
    \/ Cleanup \/ CleanupJoin \/ AbortQueued \/ Exit

Stopped == Terminated /\ UNCHANGED vars

Next == (\E t \in Thread : Worker(t)) \/ Main \/ Tick \/ SpuriousWakeup \/ Stopped

Spec == Init /\ [][Next]_vars

(***************************************************************************)
(* Every thread gets its turn, and with it the mutexes it asks for; time   *)
(* goes on.  A read or write that can return returns.                      *)
(***************************************************************************)
FairSpec ==
    /\ Spec
    /\ \A t \in Thread : WF_vars(Worker(t))
    /\ WF_vars(Main)
    /\ WF_vars(Tick)

(***************************************************************************)
(* Safety.                                                                 *)
(***************************************************************************)
\* A job is in the hands of at most one worker, from _dequeue_job until
\* stop_thread_job, and while a worker has it, it is neither queued nor freed:
\* no two threads process the same job and none touches freed memory.
OneOwner ==
    \A t \in Thread : job[t] # NULL =>
        /\ status[job[t]] \in {"IN_PROGRESS"} \cup Final
        /\ \A u \in Thread : job[u] = job[t] => u = t

\* Every pointer of the queue, of the lists that are being built by queue_dir,
\* and of the jobs in them leads to a job that waits to be processed, never
\* to one that is being processed or has been freed.
QueuePointersValid ==
    LET Valid(j) == j = NULL \/ (j \in Job /\ status[j] = "QUEUED")
    IN  /\ Valid(jobs_head)
        /\ Valid(jobs_tail)
        /\ \A t \in Thread : Valid(first[t]) /\ Valid(last[t])
        /\ \A j \in Job : status[j] = "QUEUED" => Valid(next_job[j])

\* The jobs a queue_dir in progress has created but not queued yet.
Unqueued == UNION {chain[t] : t \in Thread}

\* num_jobs_active counts the jobs that were queued and are not complete, those
\* that a cancelled thread leaves behind included: it never wraps around, and
\* it cannot reach 0 while a job is queued or in progress.
ActiveCount ==
    num_jobs_active =
        Cardinality({j \in Job : /\ status[j] \notin Absent \cup {"freed"}
                                 /\ j \notin Unqueued})

\* When wait_for_completion ends without an abort, all of the work is done:
\* every job that was ever created is complete, and every specification was
\* visited, and every directory entry too unless the directory was excluded or
\* could not be opened.
SuccessIsComplete ==
    /\ mpc \in {"fin", "fwait", "cleanup", "cjoin", "abort", "exit"}
    /\ ~aborted
    /\ "create" \notin Faults
    => \A j \in Job :
          /\ status[j] \in Absent \cup {"freed"}
          /\ \/ j = JOB_INIT
             \/ status[j] = "freed" /\ recursive /\ Faults \cap {"dir", "exclude"} = {}
             => ~HasEntry(j)

\* While _timeout_thread has released task->mutex to cancel and join a thread,
\* the job it interrupts stays with that thread and is not freed, so that the
\* status it adjusts afterwards belongs to the job its successor finds.
InterruptedJobKept ==
    mpc \in {"cancel", "join"} =>
        /\ job[earliest] = mjob
        /\ status[mjob] \in {"IN_PROGRESS"} \cup Final

\* Entries are written one at a time: a thread is inside _write_job_data only
\* while it owns output_mutex, and a cancelled thread never keeps it.
OutputExclusive ==
    \A t \in Thread :
        pc[t] \in {"write", "writing", "wstatus"} <=> output_mutex = t

\* The jobs that _dequeue_job can still reach from jobs_head: those in every set
\* that holds jobs_head and with each job the next one.
Reachable ==
    LET Closed(S) == /\ jobs_head \in S \cup {NULL}
                     /\ \A k \in S : next_job[k] \in S \cup {NULL}
    IN  {j \in Job : \A S \in SUBSET Job : Closed(S) => j \in S}

\* No job gets lost: a queued job can be reached from the head of the queue.
NoJobLost ==
    \A j \in Job : status[j] = "QUEUED" /\ j \notin Unqueued => j \in Reachable

\* No job is written to the archive more than once, whole or cut off.
OneEntryPerJob ==
    \A j \in Job : whole[j] + torn[j] <= NumEntries(j)

\* The summary line is true: after a run that was not aborted the number of
\* entries it reports is the number of entries in the archive.
SummaryMatchesArchive ==
    mpc = "exit" /\ ~aborted => num_added = output_num_files

\* A status that has been accounted is never changed again, although both the
\* worker (without task->mutex) and _timeout_thread assign it.
FinalStatusStable ==
    [][\A j \in Job : status[j] \in Final =>
          status'[j] \in Freed \cup {status[j]}]_vars

\* Once the task is aborted no worker starts another job.
NoStartAfterAbort ==
    [][aborted => \A t \in Thread : job'[t] \in {job[t], NULL}]_vars

(***************************************************************************)
(* The inductive invariant behind OneOwner, QueuePointersValid,            *)
(* InterruptedJobKept, OutputExclusive and FinalStatusStable.              *)
(***************************************************************************)
Queued == {j \in Job : status[j] = "QUEUED"}

\* Where a worker is says what job it has.
WorkerInvAt(t) ==
    /\ pc[t] \in {"none", "get", "wait"} => job[t] = NULL
    /\ pc[t] \in {"process", "scan", "create", "readdir", "status"} =>
          job[t] # NULL /\ status[job[t]] = "IN_PROGRESS"
    /\ pc[t] \in {"outlock", "write", "writing", "wstatus", "finish"} =>
          job[t] # NULL
    /\ pc[t] \in {"scan", "create"} => job[t] = JOB_INIT
    /\ pc[t] = "create" => HasEntry(JOB_INIT)

WorkerInv == \A t \in Thread : WorkerInvAt(t)

\* Where main is says which threads exist, and which one it is timing out.
MainInv ==
    /\ mpc = "spawn" => \A t \in Thread : t >= mthread => pc[t] = "none"
    /\ mpc = "spawned" => \A t \in Thread : t > mthread => pc[t] = "none"
    /\ mpc \in {"cancel", "join"} =>
          /\ earliest # NULL
          /\ timed_out[earliest]
          /\ mjob # NULL

\* The entries that have not been visited have no job yet.
FreshInv ==
    /\ \A d \in Job : \A i \in 1..Len(Entries[d]) :
          i > pos[d] => status[Entries[d][i]] = "none"
    /\ \A j \in Job : status[j] \in Absent => next_job[j] = NULL

\* The list a thread is building is apart from the queue and from the lists of
\* other threads.
ListInv ==
    /\ \A t \in Thread :
          /\ chain[t] \subseteq Queued
          /\ first[t] = NULL <=> last[t] = NULL
          /\ first[t] = NULL => chain[t] = {}
          /\ first[t] # NULL => first[t] \in chain[t]
          /\ last[t] # NULL => last[t] \in chain[t]
          /\ jobs_head \notin chain[t]
          /\ jobs_tail \notin chain[t]
          /\ \A j \in Queued \ chain[t] : next_job[j] \notin chain[t]
          /\ \A j \in chain[t] : next_job[j] \in chain[t] \cup {NULL}
    /\ \A t, u \in Thread : t # u => chain[t] \cap chain[u] = {}

\* At most one pointer leads to a queued job: no job links to the first job of
\* the queue or of a list, and no two jobs link to the same one.
LinkInv ==
    \A i \in Queued : next_job[i] # NULL =>
        /\ next_job[i] # jobs_head
        /\ \A t \in Thread : next_job[i] # first[t]
        /\ \A j \in Queued : next_job[i] = next_job[j] => i = j

\* All of it.
IInv ==
    /\ TypeOK
    /\ OneOwner
    /\ QueuePointersValid
    /\ InterruptedJobKept
    /\ OutputExclusive
    /\ WorkerInv
    /\ MainInv
    /\ FreshInv
    /\ ListInv
    /\ LinkInv

(***************************************************************************)
(* Liveness.                                                               *)
(***************************************************************************)
\* The program ends: no worker and no wakeup is lost, and main joins every
\* thread.
Termination == <>Terminated

(***************************************************************************)
(* What the comments and the manual page say of timeouts.                  *)
(***************************************************************************)
\* dump2tar.1: "stops processing a file when the time limit is exceeded", and
\* not before.
TimeoutOnlyWhenExceeded == mpc = "cancel" => now >= deadline[mjob]

\* _timeout_thread: "Job processing done, timeout does not apply".
TimeoutSparesDoneJobs == [][JoinThread => status[mjob] \notin Final]_vars

\* dump2tar.1 on --timeout: "an upper time limit [...] for the archiving
\* process".  When it is reached, waiting ends.
ToolTimeoutAborts ==
    (timeout > 0 /\ now >= timeout) ~> (aborted \/ num_jobs_active = 0)

\* As FairSpec, but a write to the output may block until it is cancelled.
BlockingSpec ==
    /\ Spec
    /\ \A t \in Thread :
          /\ WF_vars(Worker(t) /\ pc[t] \notin {"writing", "wstatus"})
          /\ WF_vars(Cancelled(t))
    /\ WF_vars(Main)
    /\ WF_vars(Tick)
=============================================================================
