--------------------------- MODULE DumpSequential ---------------------------
(***************************************************************************)
(* dump2tar without threads (process_queue in dump2tar/src/dump.c): one    *)
(* loop takes the jobs off the queue.  Without threads the steps need no   *)
(* finer grain than what the next job sees; there are no locks, wakeups,   *)
(* timeouts or cancellations.                                              *)
(***************************************************************************)
EXTENDS DumpTask

VARIABLES
    pc,     \* where the program is
    job,    \* the job being processed
    first,  \* queue_dir's local list of new jobs: its first job,
    last,   \*   its last job
    num,    \*   and its length
    dref,   \* dref->count of the handle of a directory, 0 if it is closed
    order   \* the jobs completed so far (history)

local == <<first, last, num>>
vars == <<taskVars, pc, job, local, dref, order>>

\* The types of the variables; without cancelled threads it is plain that the
\* counter of active jobs cannot drop below 0.
TypeOK ==
    /\ TaskTypeOK
    /\ num_jobs_active >= 0
    /\ pc \in {"dequeue", "process", "scan", "readdir", "post", "abort", "exit"}
    /\ job \in JobOrNull
    /\ first \in JobOrNull
    /\ last \in JobOrNull
    /\ num \in Nat
    /\ dref \in [Job -> Nat]
    /\ order \in Seq(Job)

Init ==
    /\ init_queue
    /\ pc = "dequeue"
    /\ job = NULL
    /\ first = NULL
    /\ last = NULL
    /\ num = 0
    /\ dref = [d \in Job |-> 0]
    /\ order = <<>>

\* job->dref: files and links found in directory d are opened relative to it.
HasDref(j, d) ==
    /\ Type[d] = "DIR"
    /\ Type[j] # "DIR"
    /\ \E i \in 1..Len(Entries[d]) : Entries[d][i] = j

dref_create(d) == [dref EXCEPT ![d] = 1]

dref_get_NotCounted(j) == dref

dref_get(j) == [d \in Job |-> IF HasDref(j, d) THEN dref[d] + 1 ELSE dref[d]]

\* dref_put in free_job
dref_put(j) == [d \in Job |-> IF HasDref(j, d) THEN dref[d] - 1 ELSE dref[d]]

\* The loop condition of process_queue takes a job before it looks at aborted;
\* the job it takes when the task is aborted is not looked at again.
Dequeue ==
    /\ pc = "dequeue"
    /\ IF jobs_head = NULL
       THEN /\ pc' = "abort"
            /\ UNCHANGED <<status, queueVars, job>>
       ELSE /\ dequeue_job
            /\ status' = [status EXCEPT ![jobs_head] = "IN_PROGRESS"]
            /\ job' = IF aborted THEN NULL ELSE jobs_head
            /\ pc' = IF aborted THEN "abort" ELSE "process"
    /\ UNCHANGED <<num_jobs_active, pos, aborted, stats, archiveVars, local,
                   dref, order>>

\* process_job ends with status st; an error aborts the task if cond holds.
EndProcess(st, cond) ==
    /\ status' = [status EXCEPT ![job] = st]
    /\ aborted' = (aborted \/ cond)
    /\ pc' = "post"

Exclude ==
    /\ pc = "process"
    /\ MayExclude(job)
    /\ EndProcess("EXCLUDED", FALSE)
    /\ UNCHANGED <<queueVars, num_jobs_active, pos, stats, archiveVars, job,
                   local, dref, order>>

OpenOutput ==
    /\ pc = "process"
    /\ job = JOB_INIT
    /\ \/ /\ "open" \in Faults
          /\ EndProcess("FAILED", TRUE)
       \/ /\ pc' = "scan"
          /\ UNCHANGED <<status, aborted>>
    /\ UNCHANGED <<queueVars, num_jobs_active, pos, stats, archiveVars, job,
                   local, dref, order>>

\* One round of queue_jobs_from_opts.
QueueSpec ==
    /\ pc = "scan"
    /\ HasEntry(JOB_INIT)
    /\ ~aborted
    /\ \/ /\ create_job_CannotStat(JOB_INIT)
          /\ aborted' = read_error_aborts
          /\ UNCHANGED <<queueVars, num_jobs_active>>
       \/ /\ create_job_TypeExcluded(JOB_INIT)
          /\ UNCHANGED <<queueVars, num_jobs_active, aborted>>
       \/ /\ create_job(JOB_INIT)
          /\ queue_job_tail(NextEntry(JOB_INIT))
          /\ num_jobs_active' = num_jobs_active + 1
          /\ UNCHANGED aborted
    /\ UNCHANGED <<archiveVars, pc, job, local, dref, order>>

EndSpecs ==
    /\ pc = "scan"
    /\ aborted \/ ~HasEntry(JOB_INIT)
    /\ EndProcess("DONE", FALSE)
    /\ UNCHANGED <<queueVars, num_jobs_active, pos, stats, archiveVars, job,
                   local, dref, order>>

OpenDir ==
    /\ pc = "process"
    /\ Type[job] = "DIR"
    /\ \/ /\ recursive
          /\ "dir" \in Faults
          /\ EndProcess("DONE", read_error_aborts)
          /\ UNCHANGED dref
       \/ /\ recursive
          /\ pc' = "readdir"
          /\ dref' = dref_create(job)
          /\ UNCHANGED <<status, aborted>>
       \/ /\ ~recursive
          /\ EndProcess("DONE", FALSE)
          /\ UNCHANGED dref
    /\ UNCHANGED <<queueVars, num_jobs_active, pos, stats, archiveVars, job,
                   local, order>>

ReadDirEntry ==
    /\ pc = "readdir"
    /\ HasEntry(job)
    /\ \/ /\ create_job_CannotStat(job)
          /\ aborted' = (aborted \/ read_error_aborts)
          /\ UNCHANGED <<next_job, local, dref>>
       \/ /\ create_job_TypeExcluded(job)
          /\ UNCHANGED <<next_job, local, dref, aborted>>
       \/ /\ create_job(job)
          /\ next_job' = IF last = NULL THEN next_job
                         ELSE [next_job EXCEPT ![last] = NextEntry(job)]
          /\ first' = IF last = NULL THEN NextEntry(job) ELSE first
          /\ last' = NextEntry(job)
          /\ num' = num + 1
          /\ dref' = dref_get(NextEntry(job))
          /\ UNCHANGED aborted
    /\ UNCHANGED <<jobs_head, jobs_tail, num_jobs_active, archiveVars, pc, job,
                   order>>

QueueDir_NoCount ==
    /\ pc = "readdir"
    /\ ~HasEntry(job)
    /\ IF first # NULL THEN queue_jobs_list(first, last) ELSE UNCHANGED queueVars
    /\ first' = NULL
    /\ last' = NULL
    /\ num' = 0
    /\ EndProcess("DONE", FALSE)
    /\ dref' = [dref EXCEPT ![job] = @ - 1]
    /\ UNCHANGED <<num_jobs_active, pos, stats, archiveVars, job, order>>

QueueDir ==
    /\ pc = "readdir"
    /\ ~HasEntry(job)
    /\ IF first # NULL
       THEN /\ queue_jobs_list(first, last)
            /\ num_jobs_active' = num_jobs_active + num
       ELSE UNCHANGED <<queueVars, num_jobs_active>>
    /\ first' = NULL
    /\ last' = NULL
    /\ num' = 0
    /\ dref' = [dref EXCEPT ![job] = @ - 1]
    /\ EndProcess("DONE", FALSE)
    /\ UNCHANGED <<pos, stats, archiveVars, job, order>>

Read ==
    /\ pc = "process"
    /\ IsRead(job)
    /\ \/ EndProcess("DONE", FALSE)
       \/ "read" \in Faults /\ EndProcess("FAILED", read_error_aborts)
    /\ UNCHANGED <<queueVars, num_jobs_active, pos, stats, archiveVars, job,
                   local, dref, order>>

\* postprocess_job, stop_thread_job and _complete_job: account the job, write
\* its entries (each of which a write error may cut off), check the size of
\* the archive, free the job.
Complete ==
    /\ pc = "post"
    /\ stats' = account_stats(job, status[job])
    /\ IF WritesEntry(job)
       THEN \E cut \in 0..NumEntries(job), exceeded \in BOOLEAN :
              /\ cut > 0 => "write" \in Faults
              /\ exceeded => "max_size" \in Faults
              /\ torn' = [torn EXCEPT ![job] = @ + cut]
              /\ whole' = [whole EXCEPT ![job] = @ + NumEntries(job) - cut]
              /\ output_num_files' = output_num_files + NumEntries(job)
              /\ aborted' = (aborted \/ cut > 0 \/ exceeded)
       ELSE UNCHANGED <<archiveVars, aborted>>
    /\ status' = [status EXCEPT ![job] = "freed"]
    /\ num_jobs_active' = num_jobs_active - 1
    /\ dref' = dref_put(job)
    /\ order' = Append(order, job)
    /\ job' = NULL
    /\ pc' = "dequeue"
    /\ UNCHANGED <<queueVars, pos, local>>

AbortQueued_NoCount ==
    /\ pc = "abort"
    /\ dequeue_job
    /\ stats' = [stats EXCEPT !["num_failed"] = @ + 1]
    /\ status' = [status EXCEPT ![jobs_head] = "freed"]
    /\ dref' = dref_put(jobs_head)
    /\ UNCHANGED <<num_jobs_active, pos, aborted, archiveVars, pc, job, local, order>>

\* abort_queued_jobs, one job at a time.
AbortQueued ==
    /\ pc = "abort"
    /\ dequeue_job
    /\ stats' = [stats EXCEPT !["num_failed"] = @ + 1]
    /\ status' = [status EXCEPT ![jobs_head] = "freed"]
    /\ num_jobs_active' = num_jobs_active - 1
    /\ dref' = dref_put(jobs_head)
    /\ UNCHANGED <<pos, aborted, archiveVars, pc, job, local, order>>

\* The rest of dump_to_tar: write_eof, which may fail, and the summary.
Exit ==
    /\ pc = "abort"
    /\ jobs_head = NULL
    /\ \/ UNCHANGED aborted
       \/ output_num_files > 0 /\ "write" \in Faults /\ aborted' = TRUE
    /\ pc' = "exit"
    /\ UNCHANGED <<status, queueVars, num_jobs_active, pos, stats, archiveVars, job,
                   local, dref, order>>

Stopped == pc = "exit" /\ UNCHANGED vars

Step ==
    \/ Dequeue \/ Exclude \/ OpenOutput \/ QueueSpec \/ EndSpecs \/ OpenDir
    \/ ReadDirEntry \/ QueueDir \/ Read \/ Complete \/ AbortQueued \/ Exit

Next == Step \/ Stopped

Spec == Init /\ [][Next]_vars

(***************************************************************************)
(* Properties.                                                             *)
(***************************************************************************)
\* Every job that was created has been completed or aborted when the program
\* ends, except for the one that the loop of process_queue takes off the queue
\* after an abort; num_jobs_active is the number of jobs left over in this way.
JobsAccounted ==
    LET lost == {j \in Job : status[j] \notin Absent \cup Freed}
    IN  pc = "exit" => /\ num_jobs_active = Cardinality(lost)
                       /\ Cardinality(lost) <= IF aborted THEN 1 ELSE 0

\* The summary line is true: after a run that was not aborted, the number of
\* entries it reports is the number of entries in the archive.
SummaryMatchesArchive ==
    pc = "exit" /\ ~aborted => num_added = output_num_files

\* A directory is open exactly while queue_dir reads it or a job is to be opened
\* relative to it: it is not closed under a job that process_job has yet to open
\* with openat, and not kept after the last one, except by the job left over when
\* an abort is noticed.
DirOpenWhileNeeded ==
    \A d \in Job :
        dref[d] > 0 <=> \/ pc = "readdir" /\ job = d
                        \/ \E j \in Job : /\ HasDref(j, d)
                                          /\ status[j] \notin Absent \cup Freed
=============================================================================
