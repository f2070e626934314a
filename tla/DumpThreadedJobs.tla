-------------------------- MODULE DumpThreadedJobs --------------------------
(***************************************************************************)
(* What becomes of the jobs of DumpThreaded: none is lost; their number is *)
(* kept, which decides when main stops waiting; and with that a run that   *)
(* was not aborted is complete.                                            *)
(***************************************************************************)
EXTENDS DumpThreadedProofs, FiniteSetTheorems

(***************************************************************************)
(* Where the steps of a worker lead.                                       *)
(***************************************************************************)
\* Main has stopped waiting for the jobs.
Over == {"fin", "fwait", "cleanup", "cjoin", "abort", "exit", "undefined"}

\* Where each step of thread t leaves it.
LEMMA Moves ==
    ASSUME TypeOK, NEW t \in Thread
    PROVE  /\ Start(t) => pc'[t] = IF job[t] # NULL THEN "outlock" ELSE "get"
           /\ GetNext(t) => pc'[t] \in {"process", "wait", "end"}
           /\ Exclude(t) => pc'[t] = "status"
           /\ OpenOutput(t) => pc'[t] = "scan" \/ (pc'[t] = "status" /\ aborted')
           /\ ScanSpecs(t) => pc'[t] = IF HasEntry(JOB_INIT) /\ ~aborted THEN "create" ELSE "status"
           /\ QueueSpec(t) => pc'[t] = "scan"
           /\ OpenDir(t) => pc'[t] = "readdir" \/ (pc'[t] = "status" /\ ("dir" \in Faults \/ ~recursive))
           /\ ReadDirEntry(t) => pc'[t] = "readdir"
           /\ QueueDir(t) => pc'[t] = "status"
           /\ Read(t) => pc'[t] = "status"
           /\ SetStatus(t) => pc'[t] = "outlock"
           /\ OutputLock(t) => pc'[t] = "write"
           /\ SkipEntry(t) => pc'[t] = "finish"
           /\ BeginEntry(t) => pc'[t] = "writing"
           /\ EndEntry(t) => pc'[t] = IF pc[t] = "writing" /\ NumEntries(job[t]) = 2
                                      THEN "wstatus" ELSE "finish"
           /\ Finish(t) => pc'[t] \in {"get", "process", "wait", "end"}
           /\ Cancelled(t) => pc'[t] = "dead"
<1>0. pc \in [Thread -> WorkerPC]
  BY DEF TypeOK
<1>1. \A l : pc' = Goto(t, l) => pc'[t] = l
  BY <1>0 DEF Goto
<1>2. ASSUME NEW l \in WorkerPC \ {"wait"}, NEW cond, set_aborted_if(cond, t, l)
      PROVE  pc'[t] = l /\ (cond => aborted')
  BY <1>2, SetAbortedStep, ZenonT(30) DEF PcStep, set_aborted_if
<1>3. {"scan", "status", "readdir", "wstatus", "finish"} \subseteq WorkerPC \ {"wait"}
  BY DEF WorkerPC
<1>4. Start(t) => pc'[t] = IF job[t] # NULL THEN "outlock" ELSE "get"
  BY <1>1, ZenonT(30) DEF Start
<1>5. ASSUME NEW st, NEW active, NEW jb, NEW woken, get_next_job(t, st, active, jb, woken)
      PROVE  pc'[t] \in {"process", "wait", "end"}
  BY <1>1, <1>5, ZenonT(30) DEF get_next_job, LeaveLoop
<1>6. GetNext(t) => pc'[t] \in {"process", "wait", "end"}
  BY <1>5, ZenonT(30) DEF GetNext
<1>7. Finish(t) => pc'[t] \in {"get", "process", "wait", "end"}
  BY <1>1, <1>5, ZenonT(30) DEF Finish, LeaveLoop
<1>8. /\ Exclude(t) => pc'[t] = "status"
      /\ SetStatus(t) => pc'[t] = "outlock"
      /\ OutputLock(t) => pc'[t] = "write"
      /\ SkipEntry(t) => pc'[t] = "finish"
      /\ BeginEntry(t) => pc'[t] = "writing"
      /\ Cancelled(t) => pc'[t] = "dead"
  BY <1>1, ZenonT(30) DEF Exclude, SetStatus, OutputLock, SkipEntry, BeginEntry, Cancelled
<1>9. OpenOutput(t) => pc'[t] = "scan" \/ (pc'[t] = "status" /\ aborted')
  BY <1>1, <1>2, <1>3, ZenonT(30) DEF OpenOutput
<1>10. ScanSpecs(t) => pc'[t] = IF HasEntry(JOB_INIT) /\ ~aborted THEN "create" ELSE "status"
  BY <1>1, ZenonT(30) DEF ScanSpecs
<1>11. QueueSpec(t) => pc'[t] = "scan"
  <2>1. pc' \in worker_wakeup_one(Goto(t, "scan")) => pc'[t] = "scan"
    BY <1>3, WakeupOneStep, ZenonT(30) DEF PcStep
  <2> QED
    BY <1>1, <1>2, <1>3, <2>1, ZenonT(30) DEF QueueSpec
<1>12. OpenDir(t) => pc'[t] = "readdir" \/ (pc'[t] = "status" /\ ("dir" \in Faults \/ ~recursive))
  BY <1>1, <1>2, <1>3, ZenonT(30) DEF OpenDir
<1>13. ReadDirEntry(t) => pc'[t] = "readdir"
  BY <1>2, <1>3, ZenonT(30) DEF ReadDirEntry
<1>14. QueueDir(t) => pc'[t] = "status"
  <2>1. pc' = worker_wakeup_all(Goto(t, "status")) => pc'[t] = "status"
    BY <1>3, WakeupAllStep, ZenonT(30) DEF PcStep
  <2> QED
    BY <1>1, <2>1, ZenonT(30) DEF QueueDir
<1>15. Read(t) => pc'[t] = "status"
  BY <1>1, <1>2, <1>3, ZenonT(30) DEF Read
<1>16. EndEntry(t) => pc'[t] = IF pc[t] = "writing" /\ NumEntries(job[t]) = 2
                              THEN "wstatus" ELSE "finish"
  <2> SUFFICES ASSUME EndEntry(t)
               PROVE  pc'[t] = IF pc[t] = "writing" /\ NumEntries(job[t]) = 2
                               THEN "wstatus" ELSE "finish"
    OBVIOUS
  <2>1. PICK failed \in BOOLEAN, exceeded \in BOOLEAN :
          set_aborted_if(failed \/ exceeded, t,
                         IF pc[t] = "writing" /\ NumEntries(job[t]) = 2
                         THEN "wstatus" ELSE "finish")
    BY ZenonT(30) DEF EndEntry
  <2> QED
    BY <1>2, <1>3, <2>1, ZenonT(30)
<1> QED
  BY <1>4, <1>6, <1>7, <1>8, <1>9, <1>10, <1>11, <1>12, <1>13, <1>14, <1>15, <1>16, ZenonT(30)

\* A worker step is one of a thread that exists; it changes neither what main
\* does nor an abort.
LEMMA WorkerFrame ==
    ASSUME IInv, NEW t \in Thread, Worker(t)
    PROVE  /\ pc[t] \notin {"none", "end", "dead", "joined"}
           /\ pc'[t] \notin {"none", "joined"}
           /\ pc'[t] = "dead" => Cancelled(t)
           /\ aborted => aborted'
           /\ mpc \in Over <=> mpc' \in Over
           /\ mpc' \in {"spawn", "spawned", "reacq", "cancel", "join", "cleanup", "cjoin", "abort", "exit"}
                => mpc' = mpc
           /\ \A u \in Thread : pc[u] = "none" <=> pc'[u] = "none"
           /\ UNCHANGED cancel
<1> USE DEF taskVars, queueVars, threadVars, localVars, listVars, mainVars
<1>0. TypeOK /\ OthersKept(t)
  BY WorkerStep, ZenonT(30) DEF IInv
<1>1. pc[t] \notin {"none", "end", "dead", "joined"}
  BY ZenonT(30) DEF Worker, Start, GetNext, Exclude, OpenOutput, ScanSpecs, QueueSpec, OpenDir,
     ReadDirEntry, QueueDir, Read, SetStatus, OutputLock, SkipEntry, BeginEntry, EndEntry,
     Finish, Cancelled
<1>2. pc'[t] \notin {"none", "joined"} /\ (pc'[t] = "dead" => Cancelled(t))
  BY <1>0, Moves, ZenonT(30) DEF Worker
<1>3. UNCHANGED cancel
  BY ZenonT(30) DEF Worker, Start, GetNext, Exclude, OpenOutput, ScanSpecs, QueueSpec, OpenDir,
     ReadDirEntry, QueueDir, Read, SetStatus, OutputLock, SkipEntry, BeginEntry, EndEntry,
     Finish, Cancelled
<1>4. aborted => aborted'
  BY ZenonT(30) DEF Worker, Start, GetNext, Exclude, OpenOutput, ScanSpecs, QueueSpec, OpenDir,
     ReadDirEntry, QueueDir, Read, SetStatus, OutputLock, SkipEntry, BeginEntry, EndEntry,
     Finish, Cancelled, set_aborted_if
<1>5. MpcStep
  BY <1>0, ZenonT(30) DEF OthersKept
<1>6. mpc \in Over <=> mpc' \in Over
  BY <1>5, ZenonT(30) DEF MpcStep, main_wakeup, Over
<1>7. mpc' \in {"spawn", "spawned", "reacq", "cancel", "join", "cleanup", "cjoin", "abort", "exit"}
        => mpc' = mpc
  BY <1>5, ZenonT(30) DEF MpcStep, main_wakeup
<1>8. \A u \in Thread : pc[u] = "none" <=> pc'[u] = "none"
  BY <1>0, <1>1, <1>2, ZenonT(30) DEF OthersKept
<1> QED
  BY <1>1, <1>2, <1>3, <1>4, <1>6, <1>7, <1>8, ZenonT(30)

\* What the steps of main, of the clock and a spurious wakeup do to the threads
\* and their jobs.
LEMMA MainFrame ==
    ASSUME IInv, Main \/ Tick \/ SpuriousWakeup \/ UNCHANGED vars
    PROVE  /\ \A u \in Thread :
                 \/ pc'[u] = pc[u]
                 \/ pc[u] = "wait" /\ pc'[u] = "get"
                 \/ Spawn /\ u = mthread /\ pc[u] = "none" /\ pc'[u] = "start"
                 \/ JoinThread /\ u = earliest /\ pc'[u] \in {"start", "joined"}
                 \/ CleanupJoin /\ u = mthread /\ pc'[u] = "joined"
           /\ JoinThread => /\ pc[earliest] \in {"end", "dead"} /\ earliest \in Thread
                            /\ pc'[earliest] \in {"start", "joined"}
                            /\ mjob \in Job /\ job[earliest] = mjob
                            /\ status[mjob] \in {"IN_PROGRESS"} \cup Final
           /\ CleanupJoin => pc[mthread] \in {"end", "dead"} /\ pc'[mthread] = "joined"
           /\ \A u \in Thread : job'[u] = IF CleanupJoin /\ u = mthread THEN NULL ELSE job[u]
           /\ \A j \in Job :
                 \/ status'[j] = status[j]
                 \/ JoinThread /\ j = mjob /\ status[j] = "IN_PROGRESS" /\ status'[j] = "PARTIAL"
                 \/ CleanupJoin /\ j = job[mthread] /\ status'[j] = "dropped"
                 \/ AbortQueued /\ j = jobs_head /\ status[j] = "QUEUED" /\ status'[j] = "freed"
           /\ aborted => aborted'
           /\ UNCHANGED <<first, last, num, chain, pos, deadline, archiveVars>>
           /\ ~AbortQueued => UNCHANGED <<queueVars, num_jobs_active, stats>>
<1> USE DEF taskVars, queueVars, threadVars, localVars, listVars, mainVars
<1>0. /\ TypeOK /\ OneOwner /\ MainInv /\ InterruptedJobKept
      /\ status \in [Job -> Status] /\ pc \in [Thread -> WorkerPC]
      /\ job \in [Thread -> JobOrNull] /\ NULL \notin Job
      /\ mthread \in Thread /\ earliest \in ThreadOrNull
  BY TreeAssumption, ZenonT(30) DEF IInv, TypeOK, TaskTypeOK
<1>1. /\ UNCHANGED <<first, last, num, chain, pos, deadline, archiveVars>>
      /\ ~AbortQueued => UNCHANGED <<queueVars, num_jobs_active, stats>>
      /\ aborted => aborted'
  <2>1. UNCHANGED <<first, last, num, chain>>
    BY ZenonT(30) DEF Main, Spawn, Spawned, WaitLoop, WaitTimesOut, HandleTimeout, CancelThread,
         JoinThread, FinishWait, FinishWaitTimesOut, Cleanup, CleanupJoin, AbortQueued, Exit,
         Tick, SpuriousWakeup, vars
  <2>2. UNCHANGED <<pos, deadline, archiveVars>>
    BY ZenonT(30) DEF Main, Spawn, Spawned, WaitLoop, WaitTimesOut, HandleTimeout, CancelThread,
         JoinThread, FinishWait, FinishWaitTimesOut, Cleanup, CleanupJoin, AbortQueued, Exit,
         Tick, SpuriousWakeup, vars
  <2>3. ~AbortQueued => UNCHANGED <<queueVars, num_jobs_active, stats>>
    BY ZenonT(30) DEF Main, Spawn, Spawned, WaitLoop, WaitTimesOut, HandleTimeout, CancelThread,
         JoinThread, FinishWait, FinishWaitTimesOut, Cleanup, CleanupJoin, AbortQueued, Exit,
         Tick, SpuriousWakeup, vars
  <2>4. aborted => aborted'
    BY ZenonT(30) DEF Main, Spawn, Spawned, WaitLoop, WaitTimesOut, HandleTimeout, CancelThread,
         JoinThread, FinishWait, FinishWaitTimesOut, Cleanup, CleanupJoin, AbortQueued, Exit,
         Tick, SpuriousWakeup, vars
  <2> QED
    BY <2>1, <2>2, <2>3, <2>4, ZenonT(30)
<1>2. JoinThread => /\ pc[earliest] \in {"end", "dead"} /\ earliest \in Thread
                    /\ mjob \in Job /\ job[earliest] = mjob
                    /\ status[mjob] \in {"IN_PROGRESS"} \cup Final
  BY <1>0, ZenonT(30) DEF JoinThread, Ended, MainInv, InterruptedJobKept, ThreadOrNull, TypeOK, JobOrNull
<1>3. CleanupJoin => pc[mthread] \in {"end", "dead"} /\ pc'[mthread] = "joined"
  BY <1>0, ZenonT(30) DEF CleanupJoin, Ended, Goto
<1>4. /\ \A p \in [Thread -> WorkerPC], u \in Thread :
            worker_wakeup_all(p)[u] = IF p[u] = "wait" THEN "get" ELSE p[u]
      /\ \A v \in Thread, l \in {"start", "joined", "get"} :
            /\ Goto(v, l) \in [Thread -> WorkerPC]
            /\ \A u \in Thread : Goto(v, l)[u] = IF u = v THEN l ELSE pc[u]
  BY <1>0, ZenonT(30) DEF worker_wakeup_all, Goto, WorkerPC
<1>5. JoinThread => pc'[earliest] \in {"start", "joined"}
  <2> SUFFICES ASSUME JoinThread PROVE pc'[earliest] \in {"start", "joined"}
    OBVIOUS
  <2>1. PICK l \in {"start", "joined"} :
          pc' = Goto(earliest, l) \/ pc' = worker_wakeup_all(Goto(earliest, l))
    BY ZenonT(30) DEF JoinThread
  <2>2. Goto(earliest, l)[earliest] = l /\ Goto(earliest, l) \in [Thread -> WorkerPC]
    BY <1>2, <1>4, ZenonT(30)
  <2> QED
    BY <1>2, <1>4, <2>1, <2>2, SMTT(30)
<1>6. ASSUME NEW u \in Thread
      PROVE  \/ pc'[u] = pc[u]
             \/ pc[u] = "wait" /\ pc'[u] = "get"
             \/ Spawn /\ u = mthread /\ pc[u] = "none" /\ pc'[u] = "start"
             \/ JoinThread /\ u = earliest /\ pc'[u] \in {"start", "joined"}
             \/ CleanupJoin /\ u = mthread /\ pc'[u] = "joined"
  <2>1. CASE Spawn
    <3>1. pc[mthread] = "none"
      BY <1>0, <2>1, SMTT(30) DEF Spawn, MainInv, Thread
    <3>2. UNCHANGED pc \/ pc' = Goto(mthread, "start")
      BY <2>1, ZenonT(30) DEF Spawn
    <3> QED
      BY <1>0, <1>4, <2>1, <3>1, <3>2, SMTT(30)
  <2>2. CASE JoinThread
    <3>1. PICK l \in {"start", "joined"} :
            pc' = Goto(earliest, l) \/ pc' = worker_wakeup_all(Goto(earliest, l))
      BY <2>2, ZenonT(30) DEF JoinThread
    <3>2. Goto(earliest, l)[u] = IF u = earliest THEN l ELSE pc[u]
      BY <1>2, <1>4, <2>2, SMTT(30)
    <3> QED
      BY <1>2, <1>4, <1>5, <2>2, <3>1, <3>2, SMTT(30)
  <2>3. CASE CleanupJoin
    <3>1. pc' = Goto(mthread, "joined")
      BY <2>3, ZenonT(30) DEF CleanupJoin
    <3> QED
      BY <1>0, <1>4, <2>3, <3>1, ZenonT(30)
  <2>4. CASE pc' = worker_wakeup_all(pc)
    BY <1>0, <1>4, <2>4, ZenonT(30)
  <2>5. CASE \E v \in Thread : pc[v] = "wait" /\ pc' = Goto(v, "get")
    BY <1>4, <2>5
  <2>6. CASE UNCHANGED pc
    BY <2>6
  <2> QED
    BY <2>1, <2>2, <2>3, <2>4, <2>5, <2>6, ZenonT(30)
       DEF Main, Spawned, WaitLoop, WaitTimesOut, HandleTimeout, CancelThread, FinishWait,
           FinishWaitTimesOut, Cleanup, AbortQueued, Exit, Tick, SpuriousWakeup, vars
<1>7. ASSUME NEW u \in Thread
      PROVE  job'[u] = IF CleanupJoin /\ u = mthread THEN NULL ELSE job[u]
  <2>1. CASE CleanupJoin
    BY <1>0, <2>1 DEF CleanupJoin
  <2>2. CASE ~CleanupJoin
    <3>1. UNCHANGED job
      BY <2>2, ZenonT(30) DEF Main, Spawn, Spawned, WaitLoop, WaitTimesOut, HandleTimeout, CancelThread,
         JoinThread, FinishWait, FinishWaitTimesOut, Cleanup, AbortQueued, Exit,
         Tick, SpuriousWakeup, vars
    <3> QED
      BY <2>2, <3>1, ZenonT(30)
  <2> QED
    BY <2>1, <2>2, ZenonT(30)
<1>8. ASSUME NEW j \in Job
      PROVE  \/ status'[j] = status[j]
             \/ JoinThread /\ j = mjob /\ status[j] = "IN_PROGRESS" /\ status'[j] = "PARTIAL"
             \/ CleanupJoin /\ j = job[mthread] /\ status'[j] = "dropped"
             \/ AbortQueued /\ j = jobs_head /\ status[j] = "QUEUED" /\ status'[j] = "freed"
  <2>1. CASE JoinThread
    <3>1. \/ status' = status
          \/ status' = [status EXCEPT ![mjob] = "PARTIAL"] /\ status[mjob] = "IN_PROGRESS"
      BY <1>2, <2>1, ZenonT(30) DEF JoinThread
    <3> QED
      BY <1>0, <2>1, <3>1, ZenonT(30)
  <2>2. CASE CleanupJoin
    BY <1>0, <2>2, ZenonT(30) DEF CleanupJoin
  <2>3. CASE AbortQueued
    <3>1. status[jobs_head] = "QUEUED" /\ status' = [status EXCEPT ![jobs_head] = "freed"]
      BY <2>3, ZenonT(30) DEF AbortQueued, dequeue_job, IInv, QueuePointersValid
    <3> QED
      BY <1>0, <2>3, <3>1, ZenonT(30)
  <2>4. CASE UNCHANGED status
    BY <2>4, ZenonT(30)
  <2> QED
    BY <2>1, <2>2, <2>3, <2>4, ZenonT(30)
       DEF Main, Spawn, Spawned, WaitLoop, WaitTimesOut, HandleTimeout, CancelThread, FinishWait,
           FinishWaitTimesOut, Cleanup, Exit, Tick, SpuriousWakeup, vars
<1> QED
  BY <1>1, <1>2, <1>3, <1>5, <1>6, <1>7, <1>8, ZenonT(30)

(***************************************************************************)
(* What a step of a worker does to the jobs.                               *)
(***************************************************************************)
\* The step takes the first job of the queue.
Takes(t) ==
    /\ GetNext(t) \/ Finish(t)
    /\ ~aborted
    /\ jobs_head \in Job
    /\ status[jobs_head] = "QUEUED"
    /\ status'[jobs_head] = "IN_PROGRESS"
    /\ job'[t] = jobs_head
    /\ pc'[t] = "process"

\* The step visits the next entry of the job of thread t.
Visits(t) ==
    /\ QueueSpec(t) \/ ReadDirEntry(t)
    /\ job[t] \in Job
    /\ status[job[t]] = "IN_PROGRESS"
    /\ HasEntry(job[t])
    /\ NextEntry(job[t]) \in Node
    /\ status[NextEntry(job[t])] = "none"
    /\ status'[NextEntry(job[t])] \in {"QUEUED", "STAT_FAILED", "TYPE_EXCLUDED"}
    /\ pos' = [pos EXCEPT ![job[t]] = @ + 1]

\* What _get_next_job does to the jobs.
LEMMA GetNextEffect ==
    ASSUME TypeOK, QueueInv, NEW t \in Thread, NEW st \in [Job -> Status],
           NEW active, NEW jb \in [Thread -> JobOrNull], NEW woken,
           get_next_job(t, st, active, jb, woken)
    PROVE  /\ \/ /\ ~aborted
                 /\ jobs_head \in Job
                 /\ job'[t] = jobs_head
                 /\ pc'[t] = "process"
                 /\ status'[jobs_head] = "IN_PROGRESS"
                 /\ \A j \in Job \ {jobs_head} : status'[j] = st[j]
              \/ job'[t] = jb[t] /\ status' = st /\ pc'[t] \in {"wait", "end"}
           /\ \A j \in Job : deadline'[j] = deadline[j] \/ Timed(j)
<1>0. pc \in [Thread -> WorkerPC] /\ deadline \in [Job -> Nat]
  BY DEF TypeOK
<1>1. \A l : pc' = Goto(t, l) => pc'[t] = l
  BY <1>0, ZenonT(30) DEF Goto
<1>2. \A j \in Job : deadline'[j] = deadline[j] \/ Timed(j)
  <2>1. CASE UNCHANGED deadline
    BY <2>1, ZenonT(30)
  <2>2. CASE Timed(jobs_head) /\ deadline' = [deadline EXCEPT ![jobs_head] = now + file_timeout]
    BY <1>0, <2>2, ZenonT(30)
  <2> QED
    BY <2>1, <2>2, ZenonT(30) DEF get_next_job
<1>3. CASE /\ ~aborted /\ jobs_head # NULL
           /\ status' = [st EXCEPT ![jobs_head] = "IN_PROGRESS"]
           /\ job' = [jb EXCEPT ![t] = jobs_head]
           /\ pc' = Goto(t, "process")
  <2>1. jobs_head \in Job
    BY <1>3, ZenonT(30) DEF QueueInv, QueuePointersValid
  <2> QED
    BY <1>1, <1>2, <1>3, <2>1, ZenonT(30)
<1>4. CASE status' = st /\ job' = jb /\ pc'[t] \in {"wait", "end"}
  BY <1>2, <1>4, ZenonT(30)
<1> QED
  BY <1>1, <1>3, <1>4, ZenonT(30) DEF get_next_job, LeaveLoop, dequeue_job

\* What a step of a worker does to the jobs.
LEMMA WorkerEffect ==
    ASSUME IInv, NEW t \in Thread, Worker(t)
    PROVE  /\ \A j \in Job :
                 \/ status'[j] = status[j]
                 \/ Takes(t) /\ j = jobs_head
                 \/ Visits(t) /\ j = NextEntry(job[t])
                 \/ SetStatus(t) /\ j = job[t] /\ status[j] = "IN_PROGRESS"
                      /\ status'[j] = result[t] /\ result[t] \in Final
                 \/ Finish(t) /\ ~timed_out[t] /\ j = job[t] /\ status'[j] = "freed"
           /\ SetStatus(t) => status'[job[t]] = result[t] /\ result[t] \in Final
           /\ ~(GetNext(t) \/ Finish(t)) => UNCHANGED job
           /\ GetNext(t) \/ Finish(t) =>
                 \/ Takes(t)
                 \/ job'[t] = NULL /\ pc'[t] # "process"
                 \/ Finish(t) /\ timed_out[t] /\ pc'[t] = "end" /\ UNCHANGED <<job, status>>
           /\ UNCHANGED pos \/ Visits(t)
           /\ QueueSpec(t) \/ ReadDirEntry(t) => Visits(t)
           /\ ~(GetNext(t) \/ Finish(t) \/ SetStatus(t) \/ Visits(t)) => UNCHANGED status
           /\ \A j \in Job : deadline'[j] = deadline[j] \/ Timed(j)
<1> USE DEF taskVars, queueVars, threadVars, localVars, listVars, mainVars
<1>0. /\ TypeOK /\ QueueInv /\ OneOwner /\ WorkerInvAt(t)
      /\ status \in [Job -> Status] /\ job[t] \in JobOrNull
      /\ job \in [Thread -> JobOrNull] /\ deadline \in [Job -> Nat]
      /\ JOB_INIT \in Job /\ NULL \notin Job
  BY TreeAssumption, ZenonT(30) DEF IInv, QueueInv, WorkerInv, TypeOK, TaskTypeOK, Job
<1>1. ~(GetNext(t) \/ Finish(t)) => UNCHANGED <<job, deadline>>
  BY ZenonT(30) DEF Worker, Start, Exclude, OpenOutput, ScanSpecs, QueueSpec, OpenDir,
     ReadDirEntry, QueueDir, Read, SetStatus, OutputLock, SkipEntry, BeginEntry, EndEntry, Cancelled
<1>2. ~(QueueSpec(t) \/ ReadDirEntry(t)) => UNCHANGED pos
  BY ZenonT(30) DEF Worker, Start, GetNext, Exclude, OpenOutput, ScanSpecs, OpenDir,
     QueueDir, Read, SetStatus, OutputLock, SkipEntry, BeginEntry, EndEntry, Finish, Cancelled
<1>3. ~(GetNext(t) \/ Finish(t) \/ SetStatus(t) \/ QueueSpec(t) \/ ReadDirEntry(t)) => UNCHANGED status
  BY ZenonT(30) DEF Worker, Start, Exclude, OpenOutput, ScanSpecs, OpenDir,
     QueueDir, Read, OutputLock, SkipEntry, BeginEntry, EndEntry, Cancelled
<1>4. jobs_head # NULL => jobs_head \in Job /\ status[jobs_head] = "QUEUED"
  BY <1>0, ZenonT(30) DEF QueueInv, QueuePointersValid
<1>5. CASE GetNext(t)
  <2>1. get_next_job(t, status, num_jobs_active, job, FALSE) /\ job[t] = NULL
    BY <1>0, <1>5, ZenonT(30) DEF GetNext, WorkerInvAt
  <2>2. /\ \/ /\ ~aborted
              /\ jobs_head \in Job
              /\ job'[t] = jobs_head
              /\ pc'[t] = "process"
              /\ status'[jobs_head] = "IN_PROGRESS"
              /\ \A j \in Job \ {jobs_head} : status'[j] = status[j]
           \/ job'[t] = job[t] /\ status' = status /\ pc'[t] \in {"wait", "end"}
        /\ \A j \in Job : deadline'[j] = deadline[j] \/ Timed(j)
    BY <1>0, <2>1, GetNextEffect, ZenonT(30)
  <2>3. ~QueueSpec(t) /\ ~ReadDirEntry(t) /\ ~SetStatus(t)
    BY <1>5, ZenonT(30) DEF GetNext, QueueSpec, ReadDirEntry, SetStatus
  <2>4. CASE Takes(t)
    BY <1>2, <1>5, <2>2, <2>3, <2>4, ZenonT(30) DEF Takes
  <2>5. CASE ~Takes(t)
    <3>1. job'[t] = job[t] /\ status' = status /\ pc'[t] \in {"wait", "end"}
      BY <1>0, <1>4, <1>5, <2>2, <2>5, ZenonT(30) DEF Takes
    <3> QED
      BY <1>2, <1>5, <2>1, <2>2, <2>3, <3>1, ZenonT(30)
  <2> QED
    BY <2>4, <2>5, ZenonT(30)
<1>6. CASE Finish(t)
  <2>0. ~QueueSpec(t) /\ ~ReadDirEntry(t) /\ ~SetStatus(t)
    BY <1>6, ZenonT(30) DEF Finish, QueueSpec, ReadDirEntry, SetStatus
  <2>1. CASE timed_out[t]
    <3>1. UNCHANGED <<status, job, deadline>> /\ pc'[t] = "end"
      <4>1. UNCHANGED <<status, job, deadline>> /\ pc' = Goto(t, "end")
        BY <1>6, <2>1, ZenonT(30) DEF Finish, LeaveLoop
      <4> QED
        BY <1>0, <4>1, ZenonT(30) DEF Goto, TypeOK
    <3> QED
      BY <1>2, <1>6, <2>0, <2>1, <3>1, ZenonT(30)
  <2>2. CASE ~timed_out[t]
    <3> DEFINE st == [status EXCEPT ![job[t]] = "freed"]
               jb == [job EXCEPT ![t] = NULL]
    <3>1. job[t] \in Job /\ status[job[t]] \in {"IN_PROGRESS"} \cup Final
      BY <1>0, <1>6, ZenonT(30) DEF Finish, WorkerInvAt, JobOrNull, OneOwner
    <3>2. /\ st \in [Job -> Status] /\ st[job[t]] = "freed"
          /\ \A j \in Job \ {job[t]} : st[j] = status[j]
          /\ jb \in [Thread -> JobOrNull] /\ jb[t] = NULL
      BY <1>0, <3>1, ZenonT(30) DEF Status, Freed, JobOrNull
    <3>3. jobs_head # NULL => jobs_head # job[t]
      BY <1>4, <3>1, ZenonT(30) DEF Final
    <3>4. CASE leftover[t]
      <4>1. status' = st /\ job' = jb /\ pc' = Goto(t, "get") /\ UNCHANGED deadline
        BY <1>6, <2>2, <3>4, ZenonT(30) DEF Finish
      <4>2. pc'[t] = "get"
        BY <1>0, <4>1, ZenonT(30) DEF Goto, TypeOK
      <4> HIDE DEF st, jb
      <4> QED
        BY <1>2, <1>6, <2>0, <2>2, <3>2, <4>1, <4>2, ZenonT(30)
    <3>5. CASE ~leftover[t]
      <4>1. get_next_job(t, st, num_jobs_active - 1, jb, num_jobs_active - 1 = 0)
        BY <1>6, <2>2, <3>5, ZenonT(30) DEF Finish
      <4> HIDE DEF st, jb
      <4>2. /\ \/ /\ ~aborted
                  /\ jobs_head \in Job
                  /\ job'[t] = jobs_head
                  /\ pc'[t] = "process"
                  /\ status'[jobs_head] = "IN_PROGRESS"
                  /\ \A j \in Job \ {jobs_head} : status'[j] = st[j]
               \/ job'[t] = jb[t] /\ status' = st /\ pc'[t] \in {"wait", "end"}
            /\ \A j \in Job : deadline'[j] = deadline[j] \/ Timed(j)
        BY <1>0, <3>2, <4>1, GetNextEffect, ZenonT(30)
      <4>3. CASE Takes(t)
        <5>1. job'[t] # NULL
          BY <1>0, <4>3, ZenonT(30) DEF Takes
        <5> QED
          BY <1>2, <1>6, <2>0, <2>2, <3>2, <4>2, <4>3, <5>1, ZenonT(30) DEF Takes
      <4>4. CASE ~Takes(t)
        <5>1. job'[t] = NULL /\ status' = st /\ pc'[t] \in {"wait", "end"}
          BY <1>0, <1>4, <1>6, <3>2, <4>2, <4>4, ZenonT(30) DEF Takes
        <5> QED
          BY <1>2, <1>6, <2>0, <2>2, <3>2, <4>2, <5>1, ZenonT(30)
      <4> QED
        BY <4>3, <4>4, ZenonT(30)
    <3> QED
      BY <3>4, <3>5, ZenonT(30)
  <2> QED
    BY <2>1, <2>2, ZenonT(30)
<1>7. CASE SetStatus(t)
  <2>1. job[t] \in Job /\ status[job[t]] = "IN_PROGRESS" /\ result[t] \in Final
    BY <1>0, <1>7, ZenonT(30) DEF SetStatus, WorkerInvAt, JobOrNull, TypeOK
  <2>2. status' = [status EXCEPT ![job[t]] = result[t]] /\ pc[t] = "status"
    BY <1>7, ZenonT(30) DEF SetStatus
  <2>3. ~QueueSpec(t) /\ ~ReadDirEntry(t) /\ ~GetNext(t) /\ ~Finish(t)
    BY <2>2, ZenonT(30) DEF QueueSpec, ReadDirEntry, GetNext, Finish
  <2> QED
    BY <1>0, <1>1, <1>2, <1>7, <2>1, <2>2, <2>3, ZenonT(30)
<1>8. CASE QueueSpec(t) \/ ReadDirEntry(t)
  <2>1. /\ job[t] \in Job /\ HasEntry(job[t]) /\ status[job[t]] = "IN_PROGRESS"
        /\ pc[t] \in {"create", "readdir"}
    BY <1>0, <1>8, ZenonT(30) DEF QueueSpec, ReadDirEntry, WorkerInvAt, JobOrNull
  <2>2. /\ \E s \in {"QUEUED", "STAT_FAILED", "TYPE_EXCLUDED"} :
              status' = [status EXCEPT ![NextEntry(job[t])] = s]
        /\ pos' = [pos EXCEPT ![job[t]] = @ + 1]
    BY <1>0, <1>8, ZenonT(30) DEF QueueSpec, ReadDirEntry, create_job, create_job_CannotStat,
       create_job_TypeExcluded, WorkerInvAt
  <2>3. NextEntry(job[t]) \in Node /\ status[NextEntry(job[t])] = "none"
    BY <1>0, <2>1, NextEntryType, NewJob, ZenonT(30)
  <2>4. ~GetNext(t) /\ ~Finish(t) /\ ~SetStatus(t)
    BY <2>1, ZenonT(30) DEF GetNext, Finish, SetStatus
  <2>5. Visits(t)
    BY <1>0, <1>8, <2>1, <2>2, <2>3, ZenonT(30) DEF Visits, Job
  <2> QED
    BY <1>0, <1>1, <2>2, <2>4, <2>5, ZenonT(30)
<1>9. CASE ~(GetNext(t) \/ Finish(t) \/ SetStatus(t) \/ QueueSpec(t) \/ ReadDirEntry(t))
  BY <1>1, <1>2, <1>3, <1>9, ZenonT(30)
<1> QED
  BY <1>5, <1>6, <1>7, <1>8, <1>9, ZenonT(30)

(***************************************************************************)
(* No job is lost.                                                         *)
(***************************************************************************)
\* Whoever follows next from h comes to all of the jobs W.
Reaches(W, h, next) ==
    \A S \in SUBSET Job :
        (h \in S \cup {NULL} /\ \A k \in S : next[k] \in S \cup {NULL}) => W \subseteq S

\* From nowhere, no job is reached.
LEMMA ReachEmpty ==
    ASSUME NEW W, NEW next, Reaches(W, NULL, next)
    PROVE  W = {}
<1> DEFINE S == {}
<1>1. S \in SUBSET Job /\ NULL \in S \cup {NULL} /\ \A k \in S : next[k] \in S \cup {NULL}
  BY ZenonT(30)
<1> HIDE DEF S
<1>2. W \subseteq S
  BY <1>1, ZenonT(30) DEF Reaches
<1> QED
  BY <1>2, ZenonT(30) DEF S

\* What is reached depends on the links of the list only.
LEMMA ReachFrame ==
    ASSUME NEW W \in SUBSET Job, NEW h \in W \cup {NULL}, NEW next, NEW next1,
           Reaches(W, h, next),
           \A k \in W : next[k] \in W \cup {NULL} /\ next1[k] = next[k]
    PROVE  Reaches(W, h, next1)
<1>1. SUFFICES ASSUME NEW S \in SUBSET Job, h \in S \cup {NULL}, \A k \in S : next1[k] \in S \cup {NULL}
               PROVE  W \subseteq S
  BY ZenonT(30) DEF Reaches
<1>2. W \cap S \in SUBSET Job /\ h \in (W \cap S) \cup {NULL}
  BY <1>1, ZenonT(30)
<1>3. \A k \in W \cap S : next[k] \in (W \cap S) \cup {NULL}
  BY <1>1, ZenonT(30)
<1>4. W \subseteq W \cap S
  BY <1>2, <1>3, ZenonT(30) DEF Reaches
<1> QED
  BY <1>4, ZenonT(30)

\* _dequeue_job: without the first job, the others are reached from its successor.
LEMMA ReachTake ==
    ASSUME NEW W \in SUBSET Job, NEW h \in W, NEW next, NEW next1, Reaches(W, h, next),
           \A k \in W : next[k] \in W \cup {NULL},
           \A k \in W \ {h} : next1[k] = next[k]
    PROVE  Reaches(W \ {h}, next[h], next1)
<1>1. SUFFICES ASSUME NEW S \in SUBSET Job, next[h] \in S \cup {NULL},
                      \A k \in S : next1[k] \in S \cup {NULL}
               PROVE  W \ {h} \subseteq S
  BY ZenonT(30) DEF Reaches
<1> DEFINE S1 == (W \cap S) \cup {h}
<1>2. S1 \in SUBSET Job /\ h \in S1 \cup {NULL}
  BY <1>1, ZenonT(30)
<1>3. \A k \in S1 : next[k] \in S1 \cup {NULL}
  BY <1>1, ZenonT(30)
<1> HIDE DEF S1
<1>4. W \subseteq S1
  BY <1>2, <1>3, ZenonT(30) DEF Reaches
<1> QED
  BY <1>4, ZenonT(30) DEF S1

\* A new job linked behind the last one is reached too.
LEMMA ReachAppend ==
    ASSUME NEW W \in SUBSET Job, NEW h \in W \cup {NULL}, NEW t \in W, NEW n \in Job,
           NEW next, NEW next1, Reaches(W, h, next),
           \A k \in W : next[k] \in W \cup {NULL},
           next[t] = NULL, next1[t] = n, \A k \in W \ {t} : next1[k] = next[k]
    PROVE  Reaches(W \cup {n}, h, next1)
<1>1. SUFFICES ASSUME NEW S \in SUBSET Job, h \in S \cup {NULL}, \A k \in S : next1[k] \in S \cup {NULL}
               PROVE  W \cup {n} \subseteq S
  BY ZenonT(30) DEF Reaches
<1>2. W \cap S \in SUBSET Job /\ h \in (W \cap S) \cup {NULL}
  BY <1>1, ZenonT(30)
<1>3. \A k \in W \cap S : next[k] \in (W \cap S) \cup {NULL}
  BY <1>1, ZenonT(30)
<1>4. W \subseteq W \cap S
  BY <1>2, <1>3, ZenonT(30) DEF Reaches
<1>5. n \in S
  <2>1. next1[t] \in S \cup {NULL} /\ NULL \notin Job
    BY <1>1, <1>4, TreeAssumption, ZenonT(30)
  <2> QED
    BY <2>1, ZenonT(30)
<1> QED
  BY <1>4, <1>5, ZenonT(30)

\* queue_jobs: a list that is linked in front of the queue is reached with it.
LEMMA ReachConcat ==
    ASSUME NEW V \in SUBSET Job, NEW W \in SUBSET Job, V \cap W = {}, NEW f \in V,
           NEW h \in W \cup {NULL}, NEW l \in V, NEW next, NEW next1,
           Reaches(V, f, next), Reaches(W, h, next),
           \A k \in V : next[k] \in V \cup {NULL}, \A k \in W : next[k] \in W \cup {NULL},
           next[l] = NULL, next1[l] = h, \A k \in (V \cup W) \ {l} : next1[k] = next[k]
    PROVE  Reaches(V \cup W, f, next1)
<1>1. SUFFICES ASSUME NEW S \in SUBSET Job, f \in S \cup {NULL}, \A k \in S : next1[k] \in S \cup {NULL}
               PROVE  V \cup W \subseteq S
  BY ZenonT(30) DEF Reaches
<1>2. V \cap S \in SUBSET Job /\ f \in (V \cap S) \cup {NULL}
  BY <1>1, ZenonT(30)
<1>3. \A k \in V \cap S : next[k] \in (V \cap S) \cup {NULL}
  BY <1>1, ZenonT(30)
<1>4. V \subseteq V \cap S
  BY <1>2, <1>3, ZenonT(30) DEF Reaches
<1>5. W \cap S \in SUBSET Job /\ h \in (W \cap S) \cup {NULL}
  BY <1>1, <1>4, ZenonT(30)
<1>6. \A k \in W \cap S : next[k] \in (W \cap S) \cup {NULL}
  BY <1>1, ZenonT(30)
<1>7. W \subseteq W \cap S
  BY <1>5, <1>6, ZenonT(30) DEF Reaches
<1> QED
  BY <1>4, <1>7, ZenonT(30)

\* The jobs that are in the queue.
InQueue == Queued \ Unqueued

\* The queue and the lists of the threads reach their jobs, and a list ends at last.
ReachInv ==
    /\ Reaches(InQueue, jobs_head, next_job)
    /\ \A t \in Thread :
          /\ Reaches(chain[t], first[t], next_job)
          /\ last[t] # NULL => next_job[last[t]] = NULL

\* As long as there are specifications to be queued, jobs_tail is the end of the queue.
TailInv ==
    HasEntry(JOB_INIT) =>
        /\ jobs_tail = NULL => jobs_head = NULL
        /\ jobs_tail # NULL => next_job[jobs_tail] = NULL

\* Only directories are read; and before a single specification is visited, there is
\* no other job than the initial one.
ScanInv ==
    /\ \A t \in Thread : pc[t] = "readdir" => recursive /\ Type[job[t]] = "DIR"
    /\ Len(Entries[JOB_INIT]) <= 1 /\ HasEntry(JOB_INIT) => \A j \in Node : status[j] = "none"

\* No list interferes with another one.
LEMMA ListsApart ==
    ASSUME IInv
    PROVE  /\ InQueue \in SUBSET Job /\ NULL \notin Job
           /\ jobs_head \in InQueue \cup {NULL} /\ jobs_tail \in InQueue \cup {NULL}
           /\ \A k \in InQueue : next_job[k] \in InQueue \cup {NULL}
           /\ \A t \in Thread :
                 /\ chain[t] \in SUBSET Job /\ chain[t] \subseteq Queued
                 /\ chain[t] \cap InQueue = {}
                 /\ first[t] \in chain[t] \cup {NULL} /\ last[t] \in chain[t] \cup {NULL}
                 /\ first[t] = NULL <=> last[t] = NULL
                 /\ \A k \in chain[t] : next_job[k] \in chain[t] \cup {NULL}
                 /\ \A u \in Thread \ {t} : chain[t] \cap chain[u] = {}
<1>0. ListInv /\ QueuePointersValid /\ NULL \notin Job
  BY TreeAssumption, ZenonT(30) DEF IInv
<1>1. /\ jobs_head \in Queued \cup {NULL} /\ jobs_tail \in Queued \cup {NULL}
      /\ \A k \in Queued : next_job[k] \in Queued \cup {NULL}
  BY <1>0, ZenonT(30) DEF QueuePointersValid, Queued
<1>2. /\ \A j : j \in Unqueued <=> \E t \in Thread : j \in chain[t]
      /\ Queued \in SUBSET Job
  BY ZenonT(30) DEF Unqueued, Queued
<1>3. /\ InQueue \in SUBSET Job
      /\ jobs_head \in InQueue \cup {NULL} /\ jobs_tail \in InQueue \cup {NULL}
      /\ \A k \in InQueue : next_job[k] \in InQueue \cup {NULL}
  <2>1. /\ \A j : j \in InQueue <=> j \in Queued /\ \A t \in Thread : j \notin chain[t]
        /\ \A t \in Thread : jobs_head \notin chain[t] /\ jobs_tail \notin chain[t]
        /\ \A t \in Thread : \A j \in Queued \ chain[t] : next_job[j] \notin chain[t]
    BY <1>0, <1>2, ZenonT(30) DEF InQueue, ListInv
  <2>2. jobs_head \in InQueue \cup {NULL} /\ jobs_tail \in InQueue \cup {NULL}
    BY <1>1, <2>1, ZenonT(30)
  <2>3. ASSUME NEW k \in InQueue PROVE next_job[k] \in InQueue \cup {NULL}
    BY <1>1, <2>1, ZenonT(30)
  <2> QED
    BY <1>2, <2>1, <2>2, <2>3, ZenonT(30)
<1>4. \A t \in Thread :
         /\ chain[t] \in SUBSET Job /\ chain[t] \subseteq Queued
         /\ chain[t] \cap InQueue = {}
         /\ first[t] \in chain[t] \cup {NULL} /\ last[t] \in chain[t] \cup {NULL}
         /\ first[t] = NULL <=> last[t] = NULL
         /\ \A k \in chain[t] : next_job[k] \in chain[t] \cup {NULL}
  BY <1>0, <1>2, ZenonT(30) DEF InQueue, ListInv
<1>5. \A t \in Thread : \A u \in Thread \ {t} : chain[t] \cap chain[u] = {}
  BY <1>0, ZenonT(30) DEF ListInv
<1> QED
  BY <1>0, <1>3, <1>4, <1>5, ZenonT(30)

\* Steps that leave the queue and the lists alone.
LEMMA ReachKept ==
    ASSUME ReachInv, TailInv, Queued' = Queued,
           UNCHANGED <<queueVars, first, last, chain>>,
           HasEntry(JOB_INIT)' => HasEntry(JOB_INIT)
    PROVE  ReachInv' /\ TailInv'
<1>1. InQueue' = InQueue
  BY ZenonT(30) DEF InQueue, Unqueued
<1>2. TailInv'
  BY ZenonT(30) DEF TailInv, queueVars
<1> QED
  BY <1>1, <1>2, ZenonT(30) DEF ReachInv, queueVars

\* _dequeue_job takes the first job out of the queue.
LEMMA ReachDequeue ==
    ASSUME IInv, ReachInv, TailInv, dequeue_job, Queued' = Queued \ {jobs_head},
           UNCHANGED <<first, last, chain, pos>>
    PROVE  ReachInv' /\ TailInv'
<1>0. /\ InQueue \in SUBSET Job /\ NULL \notin Job
      /\ jobs_head \in InQueue
      /\ \A k \in InQueue : next_job[k] \in InQueue \cup {NULL}
      /\ \A t \in Thread : /\ chain[t] \in SUBSET Job /\ jobs_head \notin chain[t]
                           /\ first[t] \in chain[t] \cup {NULL} /\ last[t] \in chain[t] \cup {NULL}
                           /\ \A k \in chain[t] : next_job[k] \in chain[t] \cup {NULL}
  BY ListsApart, ZenonT(30) DEF dequeue_job
<1>1. next_job \in [Job -> JobOrNull] /\ jobs_tail \in JobOrNull
  BY ZenonT(30) DEF IInv, TypeOK, TaskTypeOK
<1>2. /\ jobs_head' = next_job[jobs_head]
      /\ jobs_tail' = IF jobs_head = jobs_tail THEN NULL ELSE jobs_tail
      /\ \A k \in Job \ {jobs_head} : next_job'[k] = next_job[k]
  BY <1>0, <1>1, ZenonT(30) DEF dequeue_job
<1>3. InQueue' = InQueue \ {jobs_head}
  BY ZenonT(30) DEF InQueue, Unqueued
<1>4. Reaches(InQueue, jobs_head, next_job)
  BY ZenonT(30) DEF ReachInv
<1>5. Reaches(InQueue \ {jobs_head}, next_job[jobs_head], next_job')
  BY <1>0, <1>2, <1>4, ReachTake, ZenonT(30)
<1>6. ASSUME NEW t \in Thread
      PROVE  /\ Reaches(chain[t], first[t], next_job')
             /\ last[t] # NULL => next_job'[last[t]] = NULL
  <2>1. Reaches(chain[t], first[t], next_job) /\ (last[t] # NULL => next_job[last[t]] = NULL)
    BY ZenonT(30) DEF ReachInv
  <2>2. \A k \in chain[t] : next_job'[k] = next_job[k]
    BY <1>0, <1>2, ZenonT(30)
  <2>3. Reaches(chain[t], first[t], next_job')
    BY <1>0, <2>1, <2>2, ReachFrame, ZenonT(30)
  <2> QED
    BY <1>0, <2>1, <2>2, <2>3, ZenonT(30)
<1>7. ReachInv'
  BY <1>2, <1>3, <1>5, <1>6, ZenonT(30) DEF ReachInv
<1>8. TailInv'
  <2> SUFFICES ASSUME HasEntry(JOB_INIT)
               PROVE  /\ jobs_tail' = NULL => jobs_head' = NULL
                      /\ jobs_tail' # NULL => next_job'[jobs_tail'] = NULL
    BY ZenonT(30) DEF TailInv, HasEntry
  <2>1. jobs_tail # NULL /\ next_job[jobs_tail] = NULL
    BY <1>0, ZenonT(30) DEF TailInv
  <2>2. CASE jobs_head = jobs_tail
    BY <1>2, <2>1, <2>2, ZenonT(30)
  <2>3. CASE jobs_head # jobs_tail
    BY <1>1, <1>2, <2>1, <2>3, ZenonT(30) DEF JobOrNull
  <2> QED
    BY <2>2, <2>3, ZenonT(30)
<1> QED
  BY <1>7, <1>8, ZenonT(30)

\* queue_file: the job of a specification goes to the end of the queue.
LEMMA ReachSpec ==
    ASSUME IInv, ReachInv, TailInv, HasEntry(JOB_INIT), NEW n, n = NextEntry(JOB_INIT),
           Queued' = Queued \cup {n}, queue_job_tail(n), UNCHANGED <<first, last, chain>>
    PROVE  ReachInv' /\ TailInv'
<1>0. /\ InQueue \in SUBSET Job /\ NULL \notin Job
      /\ jobs_head \in InQueue \cup {NULL} /\ jobs_tail \in InQueue \cup {NULL}
      /\ \A k \in InQueue : next_job[k] \in InQueue \cup {NULL}
      /\ \A t \in Thread : /\ chain[t] \in SUBSET Job /\ chain[t] \cap InQueue = {}
                           /\ first[t] \in chain[t] \cup {NULL} /\ last[t] \in chain[t] \cup {NULL}
                           /\ \A k \in chain[t] : next_job[k] \in chain[t] \cup {NULL}
  BY ListsApart, ZenonT(30)
<1>1. next_job \in [Job -> JobOrNull]
  BY ZenonT(30) DEF IInv, TypeOK, TaskTypeOK
<1>2. /\ n \in Job /\ n # NULL /\ next_job[n] = NULL /\ n # jobs_tail /\ n \notin Queued
      /\ \A t \in Thread : n \notin chain[t]
  <2>1. TypeOK /\ QueueInv /\ JOB_INIT \in Job
    BY ZenonT(30) DEF IInv, QueueInv, Job
  <2> QED
    BY <2>1, NewJob, ZenonT(30)
<1>3. /\ jobs_head' = IF jobs_tail = NULL THEN n ELSE jobs_head
      /\ jobs_tail' = n
      /\ \A k \in Job : k # jobs_tail => next_job'[k] = next_job[k]
      /\ jobs_tail # NULL => next_job'[jobs_tail] = n
  BY <1>0, <1>1, ZenonT(30) DEF queue_job_tail
<1>4. InQueue' = InQueue \cup {n}
  <2>1. Unqueued' = Unqueued /\ n \notin Unqueued
    BY <1>2, ZenonT(30) DEF Unqueued
  <2> QED
    BY <2>1, ZenonT(30) DEF InQueue
<1>5. Reaches(InQueue, jobs_head, next_job)
  BY ZenonT(30) DEF ReachInv
<1>6. Reaches(InQueue \cup {n}, jobs_head', next_job')
  <2>1. CASE jobs_tail = NULL
    <3>1. jobs_head = NULL /\ InQueue = {}
      BY <1>5, <2>1, ReachEmpty, ZenonT(30) DEF TailInv
    <3>2. Reaches({n}, n, next_job')
      BY <1>2, ZenonT(30) DEF Reaches
    <3>3. InQueue \cup {n} = {n} /\ jobs_head' = n
      BY <1>3, <2>1, <3>1, ZenonT(30)
    <3> QED
      BY <3>2, <3>3, ZenonT(30)
  <2>2. CASE jobs_tail # NULL
    <3>1. /\ jobs_tail \in InQueue /\ next_job[jobs_tail] = NULL /\ next_job'[jobs_tail] = n
          /\ \A k \in InQueue \ {jobs_tail} : next_job'[k] = next_job[k]
      BY <1>0, <1>3, <2>2, ZenonT(30) DEF TailInv
    <3>2. Reaches(InQueue \cup {n}, jobs_head, next_job')
      BY <1>0, <1>2, <1>5, <3>1, ReachAppend, ZenonT(30)
    <3> QED
      BY <1>3, <2>2, <3>2, ZenonT(30)
  <2> QED
    BY <2>1, <2>2, ZenonT(30)
<1>7. ASSUME NEW t \in Thread
      PROVE  /\ Reaches(chain[t], first[t], next_job')
             /\ last[t] # NULL => next_job'[last[t]] = NULL
  <2>1. Reaches(chain[t], first[t], next_job) /\ (last[t] # NULL => next_job[last[t]] = NULL)
    BY ZenonT(30) DEF ReachInv
  <2>2. \A k \in chain[t] : next_job'[k] = next_job[k]
    <3>1. ASSUME NEW k \in chain[t] PROVE k \in Job /\ k # jobs_tail
      BY <1>0, ZenonT(30)
    <3> QED
      BY <1>3, <3>1, ZenonT(30)
  <2>3. Reaches(chain[t], first[t], next_job')
    BY <1>0, <2>1, <2>2, ReachFrame, ZenonT(30)
  <2> QED
    BY <1>0, <2>1, <2>2, <2>3, ZenonT(30)
<1>8. ReachInv'
  BY <1>4, <1>6, <1>7, ZenonT(30) DEF ReachInv
<1>9. next_job'[n] = NULL
  BY <1>2, <1>3, ZenonT(30)
<1>10. TailInv'
  BY <1>2, <1>3, <1>9, ZenonT(30) DEF TailInv
<1> QED
  BY <1>8, <1>10, ZenonT(30)

\* queue_dir's loop: the new job goes to the end of the thread's list.
LEMMA ReachEntry ==
    ASSUME IInv, ReachInv, TailInv, NEW d \in Job, HasEntry(d), NEW n, n = NextEntry(d),
           NEW t \in Thread, ListAppend(t, n), Queued' = Queued \cup {n},
           UNCHANGED <<jobs_head, jobs_tail>>, HasEntry(JOB_INIT)' => HasEntry(JOB_INIT)
    PROVE  ReachInv' /\ TailInv'
<1>0. /\ InQueue \in SUBSET Job /\ NULL \notin Job
      /\ jobs_head \in InQueue \cup {NULL} /\ jobs_tail \in InQueue \cup {NULL}
      /\ \A k \in InQueue : next_job[k] \in InQueue \cup {NULL}
      /\ \A u \in Thread : /\ chain[u] \in SUBSET Job /\ chain[u] \cap InQueue = {}
                           /\ first[u] \in chain[u] \cup {NULL} /\ last[u] \in chain[u] \cup {NULL}
                           /\ first[u] = NULL <=> last[u] = NULL
                           /\ \A k \in chain[u] : next_job[k] \in chain[u] \cup {NULL}
                           /\ \A v \in Thread \ {u} : chain[u] \cap chain[v] = {}
  BY ListsApart, ZenonT(30)
<1>1. /\ next_job \in [Job -> JobOrNull]
      /\ first \in [Thread -> JobOrNull] /\ last \in [Thread -> JobOrNull]
      /\ chain \in [Thread -> SUBSET Job]
  BY ZenonT(30) DEF IInv, TypeOK, TaskTypeOK
<1>2. /\ n \in Job /\ n # NULL /\ next_job[n] = NULL /\ n \notin Queued /\ n # last[t]
      /\ \A u \in Thread : n \notin chain[u]
  <2>1. TypeOK /\ QueueInv
    BY ZenonT(30) DEF IInv, QueueInv
  <2> QED
    BY <2>1, NewJob, ZenonT(30)
<1>3. /\ \A k \in Job : k # last[t] => next_job'[k] = next_job[k]
      /\ last[t] # NULL => next_job'[last[t]] = n
  BY <1>0, <1>1, ZenonT(30) DEF ListAppend
<1>4. /\ first'[t] = (IF last[t] = NULL THEN n ELSE first[t]) /\ last'[t] = n
      /\ chain'[t] = chain[t] \cup {n}
      /\ \A u \in Thread \ {t} : first'[u] = first[u] /\ last'[u] = last[u] /\ chain'[u] = chain[u]
  BY <1>1, ZenonT(30) DEF ListAppend
<1>5. InQueue' = InQueue
  <2>1. \A j : j \in Unqueued' <=> j \in Unqueued \/ j = n
    BY <1>4, ZenonT(30) DEF Unqueued
  <2> QED
    BY <1>2, <2>1, ZenonT(30) DEF InQueue
<1>6. Reaches(InQueue, jobs_head, next_job')
  <2>1. Reaches(InQueue, jobs_head, next_job)
    BY ZenonT(30) DEF ReachInv
  <2>2. \A k \in InQueue : next_job'[k] = next_job[k]
    <3>1. ASSUME NEW k \in InQueue PROVE k \in Job /\ k # last[t]
      BY <1>0, ZenonT(30)
    <3> QED
      BY <1>3, <3>1, ZenonT(30)
  <2> QED
    BY <1>0, <2>1, <2>2, ReachFrame, ZenonT(30)
<1>7. ASSUME NEW u \in Thread \ {t}
      PROVE  /\ Reaches(chain'[u], first'[u], next_job')
             /\ last'[u] # NULL => next_job'[last'[u]] = NULL
  <2>1. Reaches(chain[u], first[u], next_job) /\ (last[u] # NULL => next_job[last[u]] = NULL)
    BY ZenonT(30) DEF ReachInv
  <2>2. \A k \in chain[u] : next_job'[k] = next_job[k]
    <3>1. ASSUME NEW k \in chain[u] PROVE k \in Job /\ k # last[t]
      <4>1. chain[t] \cap chain[u] = {} /\ last[t] \in chain[t] \cup {NULL} /\ chain[u] \in SUBSET Job
        BY <1>0, ZenonT(30)
      <4> QED
        BY <1>0, <4>1, ZenonT(30)
    <3> QED
      BY <1>3, <3>1, ZenonT(30)
  <2>3. Reaches(chain[u], first[u], next_job')
    BY <1>0, <2>1, <2>2, ReachFrame, ZenonT(90)
  <2> QED
    BY <1>0, <1>4, <2>1, <2>2, <2>3, ZenonT(90)
<1>8. Reaches(chain[t] \cup {n}, first'[t], next_job')
  <2>0. Reaches(chain[t], first[t], next_job) /\ (last[t] # NULL => next_job[last[t]] = NULL)
    BY ZenonT(30) DEF ReachInv
  <2>1. CASE last[t] = NULL
    <3>1. first[t] = NULL
      BY <1>0, <2>1, ZenonT(30)
    <3>2. chain[t] = {}
      BY <2>0, <3>1, ReachEmpty, ZenonT(30)
    <3>3. Reaches({n}, n, next_job')
      BY <1>2, ZenonT(30) DEF Reaches
    <3>4. chain[t] \cup {n} = {n} /\ first'[t] = n
      BY <1>4, <2>1, <3>2, ZenonT(30)
    <3> QED
      BY <3>3, <3>4, ZenonT(30)
  <2>2. CASE last[t] # NULL
    <3>1. /\ last[t] \in chain[t] /\ next_job[last[t]] = NULL /\ next_job'[last[t]] = n
          /\ \A k \in chain[t] \ {last[t]} : next_job'[k] = next_job[k]
      BY <1>0, <1>3, <2>0, <2>2, ZenonT(30)
    <3>2. Reaches(chain[t] \cup {n}, first[t], next_job')
      BY <1>0, <1>2, <2>0, <3>1, ReachAppend, ZenonT(30)
    <3> QED
      BY <1>4, <2>2, <3>2, ZenonT(30)
  <2> QED
    BY <2>1, <2>2, ZenonT(30)
<1>9. next_job'[n] = NULL
  BY <1>2, <1>3, ZenonT(30)
<1>10. ReachInv'
  <2>1. ASSUME NEW u \in Thread
        PROVE  /\ Reaches(chain'[u], first'[u], next_job')
               /\ last'[u] # NULL => next_job'[last'[u]] = NULL
    BY <1>4, <1>7, <1>8, <1>9, ZenonT(30)
  <2> QED
    BY <1>5, <1>6, <2>1, ZenonT(30) DEF ReachInv
<1>11. TailInv'
  <2>1. jobs_tail # NULL => next_job'[jobs_tail] = next_job[jobs_tail]
    <3>1. jobs_tail # NULL => jobs_tail \in Job /\ jobs_tail # last[t]
      BY <1>0, ZenonT(30)
    <3> QED
      BY <1>3, <3>1, ZenonT(30)
  <2> QED
    BY <2>1, ZenonT(30) DEF TailInv
<1> QED
  BY <1>10, <1>11, ZenonT(30)

\* queue_jobs: the thread's list goes in front of the queue.  Where jobs_tail is
\* then does not matter if all specifications have been visited.
LEMMA ReachList ==
    ASSUME IInv, ReachInv, ~HasEntry(JOB_INIT), NEW t \in Thread, first[t] # NULL,
           queue_jobs_list(first[t], last[t]),
           first' = [first EXCEPT ![t] = NULL], last' = [last EXCEPT ![t] = NULL],
           chain' = [chain EXCEPT ![t] = {}], Queued' = Queued, UNCHANGED pos
    PROVE  ReachInv' /\ TailInv'
<1>0. /\ InQueue \in SUBSET Job /\ NULL \notin Job
      /\ jobs_head \in InQueue \cup {NULL}
      /\ \A k \in InQueue : next_job[k] \in InQueue \cup {NULL}
      /\ \A u \in Thread : /\ chain[u] \in SUBSET Job /\ chain[u] \cap InQueue = {}
                           /\ chain[u] \subseteq Queued
                           /\ first[u] \in chain[u] \cup {NULL} /\ last[u] \in chain[u] \cup {NULL}
                           /\ first[u] = NULL <=> last[u] = NULL
                           /\ \A k \in chain[u] : next_job[k] \in chain[u] \cup {NULL}
                           /\ \A v \in Thread \ {u} : chain[u] \cap chain[v] = {}
  BY ListsApart, ZenonT(30)
<1>1. /\ next_job \in [Job -> JobOrNull]
      /\ first \in [Thread -> JobOrNull] /\ last \in [Thread -> JobOrNull]
      /\ chain \in [Thread -> SUBSET Job]
  BY ZenonT(30) DEF IInv, TypeOK, TaskTypeOK
<1>2. first[t] \in chain[t] /\ last[t] \in chain[t] /\ last[t] \in Job
  BY <1>0, ZenonT(30)
<1>3. /\ \A k \in Job : k # last[t] => next_job'[k] = next_job[k]
      /\ next_job'[last[t]] = jobs_head
      /\ jobs_head' = first[t]
  BY <1>1, <1>2, ZenonT(30) DEF queue_jobs_list
<1>4. /\ first'[t] = NULL /\ last'[t] = NULL /\ chain'[t] = {}
      /\ \A u \in Thread \ {t} : first'[u] = first[u] /\ last'[u] = last[u] /\ chain'[u] = chain[u]
  BY <1>1, ZenonT(30)
<1>5. InQueue' = chain[t] \cup InQueue
  <2>1. \A j : j \in Unqueued' <=> j \in Unqueued /\ j \notin chain[t]
    <3>1. \A j : j \in Unqueued <=> \E u \in Thread : j \in chain[u]
      BY ZenonT(30) DEF Unqueued
    <3>2. \A j : j \in Unqueued' <=> \E u \in Thread : j \in chain'[u]
      BY ZenonT(30) DEF Unqueued
    <3>3. ASSUME NEW j PROVE j \in Unqueued' <=> j \in Unqueued /\ j \notin chain[t]
      <4>1. \A u \in Thread : j \in chain'[u] <=> u # t /\ j \in chain[u]
        BY <1>4, ZenonT(30)
      <4>2. \A u \in Thread : u # t /\ j \in chain[u] => j \notin chain[t]
        BY <1>0, ZenonT(30)
      <4> QED
        BY <3>1, <3>2, <4>1, <4>2, ZenonT(30)
    <3> QED
      BY <3>3, ZenonT(30)
  <2> QED
    BY <1>0, <2>1, ZenonT(30) DEF InQueue
<1>6. /\ Reaches(chain[t], first[t], next_job) /\ Reaches(InQueue, jobs_head, next_job)
      /\ next_job[last[t]] = NULL
  BY <1>0, <1>2, ZenonT(30) DEF ReachInv
<1>7. Reaches(chain[t] \cup InQueue, first[t], next_job')
  <2>1. \A k \in (chain[t] \cup InQueue) \ {last[t]} : next_job'[k] = next_job[k]
    BY <1>0, <1>3, ZenonT(30)
  <2>2. chain[t] \in SUBSET Job /\ chain[t] \cap InQueue = {}
        /\ \A k \in chain[t] : next_job[k] \in chain[t] \cup {NULL}
    BY <1>0, ZenonT(30)
  <2> QED
    BY <1>0, <1>2, <1>3, <1>6, <2>1, <2>2, ReachConcat, ZenonT(30)
<1>8. ASSUME NEW u \in Thread
      PROVE  /\ Reaches(chain'[u], first'[u], next_job')
             /\ last'[u] # NULL => next_job'[last'[u]] = NULL
  <2>1. CASE u = t
    <3>1. Reaches({}, NULL, next_job')
      BY ZenonT(30) DEF Reaches
    <3> QED
      BY <1>4, <2>1, <3>1, ZenonT(30)
  <2>2. CASE u # t
    <3>1. Reaches(chain[u], first[u], next_job) /\ (last[u] # NULL => next_job[last[u]] = NULL)
      BY ZenonT(30) DEF ReachInv
    <3>2. \A k \in chain[u] : next_job'[k] = next_job[k]
      <4>1. ASSUME NEW k \in chain[u] PROVE k \in Job /\ k # last[t]
        <5>1. chain[t] \cap chain[u] = {} /\ last[t] \in chain[t] /\ chain[u] \in SUBSET Job
          BY <1>0, <1>2, <2>2, ZenonT(30)
        <5> QED
          BY <5>1, ZenonT(30)
      <4> QED
        BY <1>3, <4>1, ZenonT(30)
    <3>3. Reaches(chain[u], first[u], next_job')
      BY <1>0, <3>1, <3>2, ReachFrame, ZenonT(30)
    <3>4. chain'[u] = chain[u] /\ first'[u] = first[u] /\ last'[u] = last[u]
          /\ last[u] \in chain[u] \cup {NULL}
      BY <1>0, <1>4, <2>2, ZenonT(30)
    <3>5. last[u] # NULL => next_job'[last[u]] = NULL
      BY <3>1, <3>2, <3>4, ZenonT(30)
    <3> QED
      BY <3>3, <3>4, <3>5, ZenonT(30)
  <2> QED
    BY <2>1, <2>2, ZenonT(30)
<1>9. ReachInv'
  BY <1>3, <1>5, <1>7, <1>8, ZenonT(30) DEF ReachInv
<1>10. TailInv'
  BY ZenonT(30) DEF TailInv, HasEntry
<1> QED
  BY <1>9, <1>10, ZenonT(30)

\* The two ways in which _get_next_job ends, as far as the queue is concerned.
LEMMA GetNextQueue ==
    ASSUME TypeOK, NEW t \in Thread, GetNext(t) \/ Finish(t)
    PROVE  /\ \/ dequeue_job /\ pc'[t] = "process"
              \/ UNCHANGED queueVars /\ pc'[t] # "process"
           /\ UNCHANGED <<first, last, chain, pos>>
<1>1. \A l : pc' = Goto(t, l) => pc'[t] = l
  BY ZenonT(30) DEF Goto, TypeOK
<1>2. ASSUME NEW st, NEW active, NEW jb, NEW woken, get_next_job(t, st, active, jb, woken)
      PROVE  \/ dequeue_job /\ pc'[t] = "process"
             \/ UNCHANGED queueVars /\ pc'[t] # "process"
  BY <1>1, <1>2, ZenonT(30) DEF get_next_job, LeaveLoop
<1>3. \/ dequeue_job /\ pc'[t] = "process"
      \/ UNCHANGED queueVars /\ pc'[t] # "process"
  BY <1>1, <1>2, ZenonT(30) DEF GetNext, Finish, LeaveLoop
<1>4. UNCHANGED <<first, last, chain, pos>>
  BY ZenonT(30) DEF GetNext, Finish, localVars, listVars
<1> QED
  BY <1>3, <1>4, ZenonT(30)

\* A step of a worker loses no job.
LEMMA WorkerReach ==
    ASSUME IInv, ReachInv, TailInv, ScanInv, ~recursive \/ Len(Entries[JOB_INIT]) <= 1,
           NEW t \in Thread, Worker(t)
    PROVE  ReachInv' /\ TailInv'
<1> USE DEF taskVars, queueVars, threadVars, localVars, listVars, mainVars
<1>0. /\ TypeOK /\ QueueInv /\ OneOwner /\ WorkerInvAt(t)
      /\ status \in [Job -> Status] /\ job[t] \in JobOrNull /\ pos \in [Job -> Nat]
      /\ JOB_INIT \in Job /\ NULL \notin Job
  BY TreeAssumption, ZenonT(30) DEF IInv, QueueInv, WorkerInv, TypeOK, TaskTypeOK, Job
<1>1. job[t] # NULL => job[t] \in Job /\ status[job[t]] # "QUEUED" /\ status[job[t]] # "none"
  BY <1>0, ZenonT(30) DEF OneOwner, Final, JobOrNull
<1>2. CASE Start(t) \/ Exclude(t) \/ OpenOutput(t) \/ ScanSpecs(t) \/ OpenDir(t) \/ Read(t)
           \/ OutputLock(t) \/ SkipEntry(t) \/ BeginEntry(t) \/ EndEntry(t) \/ Cancelled(t)
  <2>1. UNCHANGED <<status, next_job, jobs_head, jobs_tail, first, last, chain, pos>>
    BY <1>2, ZenonT(30)
       DEF Start, Exclude, OpenOutput, ScanSpecs, OpenDir, Read, OutputLock, SkipEntry,
           BeginEntry, EndEntry, Cancelled
  <2>2. Queued' = Queued /\ (HasEntry(JOB_INIT)' => HasEntry(JOB_INIT))
    BY <2>1, ZenonT(30) DEF Queued, HasEntry
  <2> QED
    BY <2>1, <2>2, ReachKept, ZenonT(30)
<1>3. CASE SetStatus(t)
  <2>1. /\ UNCHANGED <<next_job, jobs_head, jobs_tail, first, last, chain, pos>>
        /\ status' = [status EXCEPT ![job[t]] = result[t]] /\ pc[t] = "status"
    BY <1>3, ZenonT(30) DEF SetStatus
  <2>2. job[t] # NULL /\ result[t] # "QUEUED"
    BY <1>0, <2>1, ZenonT(30) DEF WorkerInvAt, TypeOK, Final
  <2>3. \A j \in Job : status'[j] = "QUEUED" <=> status[j] = "QUEUED"
    BY <1>0, <1>1, <2>1, <2>2, ZenonT(30)
  <2>4. Queued' = Queued /\ (HasEntry(JOB_INIT)' => HasEntry(JOB_INIT))
    BY <2>1, <2>3, ZenonT(30) DEF Queued, HasEntry
  <2> QED
    BY <2>1, <2>4, ReachKept, ZenonT(30)
<1>4. CASE GetNext(t) \/ Finish(t)
  <2>0. /\ UNCHANGED <<first, last, chain, pos>>
        /\ ~Visits(t) /\ ~SetStatus(t)
        /\ \/ dequeue_job /\ pc'[t] = "process"
           \/ UNCHANGED queueVars /\ pc'[t] # "process"
    <3>1. ~Visits(t) /\ ~SetStatus(t)
      BY <1>4, ZenonT(30) DEF GetNext, Finish, QueueSpec, ReadDirEntry, SetStatus, Visits
    <3> QED
      BY <1>0, <1>4, <3>1, GetNextQueue, ZenonT(30)
  <2>1. \A j \in Job : \/ status'[j] = status[j]
                       \/ Takes(t) /\ j = jobs_head
                       \/ j = job[t] /\ status'[j] = "freed" /\ status[j] # "QUEUED"
    BY <1>0, <1>1, <2>0, WorkerEffect, ZenonT(30)
  <2>2. CASE dequeue_job /\ pc'[t] = "process"
    <3>1. Takes(t)
      BY <1>4, <2>2, WorkerEffect, ZenonT(30)
    <3>2. jobs_head \in Queued /\ status'[jobs_head] # "QUEUED"
      BY <3>1, ZenonT(30) DEF Takes, Queued
    <3>3. \A j \in Job : status'[j] = "QUEUED" <=> status[j] = "QUEUED" /\ j # jobs_head
      BY <2>1, <3>2, ZenonT(30)
    <3>4. Queued' = Queued \ {jobs_head}
      BY <3>3, ZenonT(30) DEF Queued
    <3> QED
      BY <2>0, <2>2, <3>4, ReachDequeue, ZenonT(30)
  <2>3. CASE UNCHANGED queueVars /\ pc'[t] # "process"
    <3>1. ~Takes(t)
      BY <2>3, ZenonT(30) DEF Takes
    <3>2. \A j \in Job : status'[j] = "QUEUED" <=> status[j] = "QUEUED"
      BY <2>1, <3>1, ZenonT(30)
    <3>3. Queued' = Queued /\ (HasEntry(JOB_INIT)' => HasEntry(JOB_INIT))
      BY <2>0, <3>2, ZenonT(30) DEF Queued, HasEntry
    <3> QED
      BY <2>0, <2>3, <3>3, ReachKept, ZenonT(30)
  <2> QED
    BY <2>0, <2>2, <2>3, ZenonT(30)
<1>5. ASSUME NEW d \in Job, HasEntry(d), NEW n, n = NextEntry(d)
      PROVE  /\ create_job(d) => Queued' = Queued \cup {n}
             /\ create_job_CannotStat(d) \/ create_job_TypeExcluded(d) => Queued' = Queued
             /\ create_job_CannotStat(d) \/ create_job_TypeExcluded(d) \/ create_job(d)
                  => (HasEntry(JOB_INIT)' => HasEntry(JOB_INIT))
  <2>1. n \in Job /\ status[n] = "none"
    BY <1>0, <1>5, NewJob, ZenonT(30)
  <2>2. ASSUME create_job(d) PROVE Queued' = Queued \cup {n}
    <3>1. status' = [status EXCEPT ![n] = "QUEUED"]
      BY <1>5, <2>2, ZenonT(30) DEF create_job
    <3>2. \A j \in Job : status'[j] = "QUEUED" <=> status[j] = "QUEUED" \/ j = n
      BY <1>0, <2>1, <3>1, ZenonT(30)
    <3> QED
      BY <2>1, <3>2, ZenonT(30) DEF Queued
  <2>3. ASSUME create_job_CannotStat(d) \/ create_job_TypeExcluded(d) PROVE Queued' = Queued
    <3>1. PICK s \in {"STAT_FAILED", "TYPE_EXCLUDED"} : status' = [status EXCEPT ![n] = s]
      BY <1>5, <2>3, ZenonT(30) DEF create_job_CannotStat, create_job_TypeExcluded
    <3>2. \A j \in Job : status'[j] = "QUEUED" <=> status[j] = "QUEUED"
      BY <1>0, <2>1, <3>1, ZenonT(30)
    <3> QED
      BY <3>2, ZenonT(30) DEF Queued
  <2>4. ASSUME create_job_CannotStat(d) \/ create_job_TypeExcluded(d) \/ create_job(d),
               HasEntry(JOB_INIT)'
        PROVE  HasEntry(JOB_INIT)
    <3>1. pos' = [pos EXCEPT ![d] = @ + 1]
      BY <2>4, ZenonT(30) DEF create_job_CannotStat, create_job_TypeExcluded, create_job
    <3>2. Len(Entries[JOB_INIT]) \in Nat /\ pos'[JOB_INIT] < Len(Entries[JOB_INIT])
      BY <1>0, <2>4, TreeAssumption, SMTT(30) DEF HasEntry
    <3>3. pos'[JOB_INIT] = pos[JOB_INIT] \/ pos'[JOB_INIT] = pos[JOB_INIT] + 1
      BY <1>0, <3>1, ZenonT(30)
    <3> QED
      BY <1>0, <3>2, <3>3, SMTT(30) DEF HasEntry
  <2> QED
    BY <2>2, <2>3, <2>4, ZenonT(30)
<1>6. CASE QueueSpec(t)
  <2>1. HasEntry(JOB_INIT) /\ UNCHANGED <<first, last, chain>>
    BY <1>0, <1>6, ZenonT(30) DEF QueueSpec, WorkerInvAt
  <2>2. CASE /\ create_job_CannotStat(JOB_INIT) \/ create_job_TypeExcluded(JOB_INIT)
             /\ UNCHANGED queueVars
    <3>1. Queued' = Queued /\ (HasEntry(JOB_INIT)' => HasEntry(JOB_INIT))
      BY <1>0, <1>5, <2>1, <2>2, ZenonT(30)
    <3> QED
      BY <2>1, <2>2, <3>1, ReachKept, ZenonT(30)
  <2>3. CASE create_job(JOB_INIT) /\ queue_job_tail(NextEntry(JOB_INIT))
    <3>1. Queued' = Queued \cup {NextEntry(JOB_INIT)}
      BY <1>0, <1>5, <2>1, <2>3, ZenonT(30)
    <3> QED
      BY <2>1, <2>3, <3>1, ReachSpec, ZenonT(30)
  <2> QED
    BY <1>6, <2>2, <2>3, ZenonT(30) DEF QueueSpec
<1>7. CASE ReadDirEntry(t)
  <2>1. HasEntry(job[t]) /\ job[t] \in Job /\ UNCHANGED <<jobs_head, jobs_tail>>
    BY <1>0, <1>1, <1>7, ZenonT(30) DEF ReadDirEntry, WorkerInvAt
  <2>2. CASE /\ create_job_CannotStat(job[t]) \/ create_job_TypeExcluded(job[t])
             /\ UNCHANGED <<next_job, listVars>>
    <3>1. Queued' = Queued /\ (HasEntry(JOB_INIT)' => HasEntry(JOB_INIT))
      BY <1>5, <2>1, <2>2, ZenonT(30)
    <3> QED
      BY <2>1, <2>2, <3>1, ReachKept, ZenonT(30)
  <2>3. CASE create_job(job[t]) /\ ListAppend(t, NextEntry(job[t]))
    <3>1. /\ Queued' = Queued \cup {NextEntry(job[t])}
          /\ HasEntry(JOB_INIT)' => HasEntry(JOB_INIT)
      BY <1>5, <2>1, <2>3, ZenonT(30)
    <3> QED
      BY <2>1, <2>3, <3>1, ReachEntry, ZenonT(30)
  <2> QED
    BY <1>7, <2>2, <2>3, ZenonT(30) DEF ReadDirEntry, ListAppend
<1>8. CASE QueueDir(t)
  <2>1. /\ pc[t] = "readdir" /\ UNCHANGED <<status, pos>>
        /\ first' = [first EXCEPT ![t] = NULL] /\ last' = [last EXCEPT ![t] = NULL]
        /\ chain' = [chain EXCEPT ![t] = {}]
    BY <1>8, ZenonT(30) DEF QueueDir
  <2>2. Queued' = Queued /\ (HasEntry(JOB_INIT)' => HasEntry(JOB_INIT))
    BY <2>1, ZenonT(30) DEF Queued, HasEntry
  <2>3. CASE first[t] # NULL
    <3>1. recursive /\ Type[job[t]] = "DIR" /\ job[t] # NULL
      BY <1>0, <2>1, ZenonT(30) DEF ScanInv, WorkerInvAt
    <3>2. job[t] \in Node
      <4>1. Type[JOB_INIT] = "INIT"
        BY <1>0, TreeAssumption, ZenonT(30)
      <4> QED
        BY <1>1, <3>1, <4>1, ZenonT(30) DEF Job
    <3>3. ~HasEntry(JOB_INIT)
      BY <1>1, <3>1, <3>2, ZenonT(30) DEF ScanInv
    <3>4. queue_jobs_list(first[t], last[t])
      BY <1>8, <2>3, ZenonT(30) DEF QueueDir
    <3> QED
      BY <2>1, <2>2, <2>3, <3>3, <3>4, ReachList, ZenonT(30)
  <2>4. CASE first[t] = NULL
    <3>1. last[t] = NULL /\ chain[t] = {}
      BY <1>0, <2>4, ZenonT(30) DEF QueueInv, ListInv
    <3>2. first' = first /\ last' = last /\ chain' = chain
      BY <1>0, <2>1, <2>4, <3>1, ZenonT(30) DEF TypeOK
    <3>3. UNCHANGED queueVars
      BY <1>8, <2>4, ZenonT(30) DEF QueueDir
    <3> QED
      BY <2>2, <3>2, <3>3, ReachKept, ZenonT(30)
  <2> QED
    BY <2>3, <2>4, ZenonT(30)
<1> QED
  BY <1>2, <1>3, <1>4, <1>6, <1>7, <1>8, ZenonT(30) DEF Worker

\* A step of a worker keeps ScanInv.
LEMMA WorkerScan ==
    ASSUME IInv, ScanInv, NEW t \in Thread, Worker(t)
    PROVE  ScanInv'
<1>0. /\ TypeOK /\ OthersKept(t) /\ OneOwner
      /\ job[t] \in JobOrNull /\ pos \in [Job -> Nat] /\ JOB_INIT \in Job /\ NULL \notin Job
      /\ Len(Entries[JOB_INIT]) \in Nat
  <2>1. Len(Entries[JOB_INIT]) \in Nat
    BY TreeAssumption DEF Job
  <2> QED
    BY <2>1, WorkerStep, TreeAssumption, ZenonT(30) DEF IInv, TypeOK, TaskTypeOK, Job
<1>1. ASSUME NEW u \in Thread, pc'[u] = "readdir" PROVE recursive /\ Type[job'[u]] = "DIR"
  <2>1. CASE u # t
    BY <1>0, <1>1, <2>1, ZenonT(30) DEF OthersKept, ScanInv
  <2>2. CASE u = t
    <3>1. OpenDir(t) \/ ReadDirEntry(t)
      BY <1>0, <1>1, <2>2, Moves, ZenonT(30) DEF Worker
    <3>2. UNCHANGED job
      BY <3>1, ZenonT(30) DEF OpenDir, ReadDirEntry, threadVars
    <3>3. CASE OpenDir(t)
      <4>1. ~recursive => pc' = Goto(t, "status")
        BY <3>3, ZenonT(30) DEF OpenDir
      <4>2. recursive
        BY <1>0, <1>1, <2>2, <4>1, ZenonT(30) DEF Goto, TypeOK
      <4> QED
        BY <2>2, <3>2, <3>3, <4>2, ZenonT(30) DEF OpenDir
    <3>4. CASE ReadDirEntry(t)
      BY <2>2, <3>2, <3>4, ZenonT(30) DEF ReadDirEntry, ScanInv
    <3> QED
      BY <3>1, <3>3, <3>4, ZenonT(30)
  <2> QED
    BY <2>1, <2>2, ZenonT(30)
<1>2. ASSUME Len(Entries[JOB_INIT]) <= 1, HasEntry(JOB_INIT)', NEW j \in Node
      PROVE  status'[j] = "none"
  <2>1. ~Visits(t)
    <3> SUFFICES ASSUME Visits(t) PROVE FALSE
      OBVIOUS
    <3>1. /\ job[t] \in Job /\ status[job[t]] = "IN_PROGRESS" /\ HasEntry(job[t])
          /\ pos' = [pos EXCEPT ![job[t]] = @ + 1]
      BY ZenonT(30) DEF Visits
    <3>2. CASE job[t] = JOB_INIT
      <4>1. pos'[JOB_INIT] = pos[JOB_INIT] + 1 /\ pos[JOB_INIT] \in Nat
        BY <1>0, <3>1, <3>2, ZenonT(30)
      <4> QED
        BY <1>0, <1>2, <4>1, SMTT(30) DEF HasEntry
    <3>3. CASE job[t] # JOB_INIT
      <4>1. pos'[JOB_INIT] = pos[JOB_INIT] /\ job[t] \in Node
        BY <1>0, <3>1, <3>3, ZenonT(30) DEF Job
      <4>2. HasEntry(JOB_INIT)
        BY <1>2, <4>1, ZenonT(30) DEF HasEntry
      <4> QED
        BY <1>2, <3>1, <4>1, <4>2, ZenonT(30) DEF ScanInv
    <3> QED
      BY <3>2, <3>3, ZenonT(30)
  <2>2. UNCHANGED pos
    BY <2>1, WorkerEffect, ZenonT(30)
  <2>3. HasEntry(JOB_INIT)
    BY <1>2, <2>2, ZenonT(30) DEF HasEntry
  <2>4. status[j] = "none" /\ j \in Job
    BY <1>2, <2>3, ZenonT(30) DEF ScanInv, Job
  <2>5. j # job[t]
    BY <1>0, <2>4, TreeAssumption, ZenonT(30) DEF OneOwner, Final
  <2> QED
    BY <2>1, <2>4, <2>5, WorkerEffect, ZenonT(30) DEF Takes
<1> QED
  BY <1>1, <1>2, ZenonT(30) DEF ScanInv

\* The steps of main lose no job and keep ScanInv.
LEMMA MainReach ==
    ASSUME IInv, ReachInv, TailInv, ScanInv, Main \/ Tick \/ SpuriousWakeup \/ UNCHANGED vars
    PROVE  ReachInv' /\ TailInv' /\ ScanInv'
<1>0. /\ UNCHANGED <<first, last, chain, pos>>
      /\ ~AbortQueued => UNCHANGED queueVars
      /\ job \in [Thread -> JobOrNull] /\ mthread \in Thread /\ OneOwner
      /\ QueuePointersValid
  BY MainFrame, ZenonT(30) DEF IInv, TypeOK
<1>1. \A j \in Job :
         \/ status'[j] = status[j]
         \/ /\ status[j] # "none" /\ status'[j] # "none" /\ status'[j] # "QUEUED"
            /\ status[j] = "QUEUED" => AbortQueued /\ j = jobs_head
  <2> SUFFICES ASSUME NEW j \in Job, status'[j] # status[j]
               PROVE  /\ status[j] # "none" /\ status'[j] # "none" /\ status'[j] # "QUEUED"
                      /\ status[j] = "QUEUED" => AbortQueued /\ j = jobs_head
    BY ZenonT(30)
  <2>1. CASE JoinThread /\ j = mjob /\ status[j] = "IN_PROGRESS" /\ status'[j] = "PARTIAL"
    BY <2>1, ZenonT(30)
  <2>2. CASE CleanupJoin /\ j = job[mthread] /\ status'[j] = "dropped"
    <3>1. job[mthread] # NULL
      BY <2>2, TreeAssumption, ZenonT(30)
    <3>2. status[j] \in {"IN_PROGRESS"} \cup Final
      BY <1>0, <2>2, <3>1, ZenonT(30) DEF OneOwner
    <3> QED
      BY <2>2, <3>2, ZenonT(30) DEF Final
  <2>3. CASE AbortQueued /\ j = jobs_head /\ status[j] = "QUEUED" /\ status'[j] = "freed"
    BY <2>3, ZenonT(30)
  <2> QED
    BY <2>1, <2>2, <2>3, MainFrame, ZenonT(30)
<1>2. ReachInv' /\ TailInv'
  <2>1. CASE AbortQueued
    <3>1. dequeue_job /\ status' = [status EXCEPT ![jobs_head] = "freed"]
      BY <2>1, ZenonT(30) DEF AbortQueued
    <3>2. status'[jobs_head] = "freed" /\ jobs_head \in Job
      BY <1>0, <3>1, ZenonT(30) DEF IInv, TypeOK, TaskTypeOK, dequeue_job, QueuePointersValid
    <3>3. \A j \in Job : status'[j] = "QUEUED" <=> status[j] = "QUEUED" /\ j # jobs_head
      BY <1>1, <3>2, ZenonT(30)
    <3>4. Queued' = Queued \ {jobs_head}
      BY <3>3, ZenonT(30) DEF Queued
    <3> QED
      BY <1>0, <3>1, <3>4, ReachDequeue, ZenonT(30)
  <2>2. CASE ~AbortQueued
    <3>1. \A j \in Job : status'[j] = "QUEUED" <=> status[j] = "QUEUED"
      BY <1>1, <2>2, ZenonT(30)
    <3>2. Queued' = Queued /\ (HasEntry(JOB_INIT)' => HasEntry(JOB_INIT))
      BY <1>0, <3>1, ZenonT(30) DEF Queued, HasEntry
    <3> QED
      BY <1>0, <2>2, <3>2, ReachKept, ZenonT(30)
  <2> QED
    BY <2>1, <2>2, ZenonT(30)
<1>3. ASSUME NEW u \in Thread, pc'[u] = "readdir" PROVE recursive /\ Type[job'[u]] = "DIR"
  <2>1. pc[u] = "readdir" /\ job'[u] = job[u]
    BY <1>3, MainFrame, ZenonT(30)
  <2> QED
    BY <2>1, ZenonT(30) DEF ScanInv
<1>4. ASSUME Len(Entries[JOB_INIT]) <= 1, HasEntry(JOB_INIT)', NEW j \in Node
      PROVE  status'[j] = "none"
  <2>1. HasEntry(JOB_INIT) /\ j \in Job
    BY <1>0, <1>4, ZenonT(30) DEF HasEntry, Job
  <2>2. status[j] = "none"
    BY <1>4, <2>1, ZenonT(30) DEF ScanInv
  <2> QED
    BY <1>1, <2>1, <2>2, ZenonT(30)
<1> QED
  BY <1>2, <1>3, <1>4, ZenonT(30) DEF ScanInv

\* Initially the queue holds the initial job, and there is no list.
LEMMA InitReach == Init => ReachInv /\ TailInv /\ ScanInv
<1> SUFFICES ASSUME Init PROVE ReachInv /\ TailInv /\ ScanInv
  OBVIOUS
<1>0. JOB_INIT \in Job /\ NULL \notin Job /\ \A j \in Node : j \in Job /\ j # JOB_INIT
  BY TreeAssumption, ZenonT(30) DEF Job
<1>1. /\ jobs_head = JOB_INIT /\ jobs_tail = JOB_INIT /\ next_job[JOB_INIT] = NULL
      /\ \A j \in Job : status[j] = IF j = JOB_INIT THEN "QUEUED" ELSE "none"
  BY <1>0, ZenonT(30) DEF Init, init_queue
<1>2. \A t \in Thread : first[t] = NULL /\ last[t] = NULL /\ chain[t] = {} /\ pc[t] = "none"
  BY ZenonT(30) DEF Init
<1>3. InQueue \subseteq {JOB_INIT}
  BY <1>1, ZenonT(30) DEF InQueue, Queued
<1>4. Reaches(InQueue, jobs_head, next_job)
  BY <1>0, <1>1, <1>3, ZenonT(30) DEF Reaches
<1>5. \A t \in Thread : Reaches(chain[t], first[t], next_job)
  <2>1. Reaches({}, NULL, next_job)
    BY ZenonT(30) DEF Reaches
  <2> QED
    BY <1>2, <2>1, ZenonT(30)
<1>6. ReachInv
  BY <1>2, <1>4, <1>5, ZenonT(30) DEF ReachInv
<1>7. TailInv
  BY <1>0, <1>1, ZenonT(30) DEF TailInv
<1>8. ScanInv
  BY <1>0, <1>1, <1>2, ZenonT(30) DEF ScanInv
<1> QED
  BY <1>6, <1>7, <1>8, ZenonT(30)

\* No job is lost in a run without --recursive or with at most one specification:
\* whatever the threads do, a queued job can be reached from the head of the queue.
\* With several specifications, queue_jobs can leave jobs_tail in the middle of the
\* queue or at null while queue_file still appends to it.
THEOREM QueueLosesNoJob ==
    ASSUME ~recursive \/ Len(Entries[JOB_INIT]) <= 1
    PROVE  Spec => []NoJobLost
<1>1. Init => ReachInv /\ TailInv /\ ScanInv
  BY InitReach
<1>2. IInv /\ ReachInv /\ TailInv /\ ScanInv /\ [Next]_vars => ReachInv' /\ TailInv' /\ ScanInv'
  <2> SUFFICES ASSUME IInv, ReachInv, TailInv, ScanInv, [Next]_vars
               PROVE  ReachInv' /\ TailInv' /\ ScanInv'
    OBVIOUS
  <2>1. CASE \E t \in Thread : Worker(t)
    BY <2>1, WorkerReach, WorkerScan, ZenonT(30)
  <2>2. CASE Main \/ Tick \/ SpuriousWakeup \/ UNCHANGED vars
    BY <2>2, MainReach, ZenonT(30)
  <2> QED
    BY <2>1, <2>2, ZenonT(30) DEF Next, Stopped
<1>3. ReachInv => NoJobLost
  <2> SUFFICES ASSUME ReachInv, NEW j \in Job, status[j] = "QUEUED", j \notin Unqueued
               PROVE  j \in Reachable
    BY ZenonT(30) DEF NoJobLost
  <2>1. j \in InQueue
    BY ZenonT(30) DEF InQueue, Queued
  <2> QED
    BY <2>1, ZenonT(30) DEF ReachInv, Reaches, Reachable
<1> QED
  BY <1>1, <1>2, <1>3, InductiveInvariant, PTL DEF Spec

(***************************************************************************)
(* The number of active jobs.                                              *)
(***************************************************************************)
\* The statuses of jobs that are not active: not created, or complete.
Gone == Absent \cup {"freed"}

\* The jobs that num_jobs_active stands for.
Counted == {j \in Job : status[j] \notin Gone /\ j \notin Unqueued}

\* A list that queue_dir is building has as many jobs as num says, and only a
\* thread in queue_dir has one; num_jobs_active is the number of Counted jobs.
\* There are finitely many, although the tree need not be finite.
CountInv ==
    /\ \A t \in Thread : /\ IsFiniteSet(chain[t])
                         /\ num[t] = Cardinality(chain[t])
                         /\ chain[t] # {} => pc[t] = "readdir"
    /\ IsFiniteSet(Counted)
    /\ num_jobs_active = Cardinality(Counted)

\* Thread u stays in queue_dir while it has a list.
KeepsList(u) == chain[u] # {} => pc'[u] = "readdir"

\* The jobs of the lists are queued jobs.
LEMMA UnqueuedAreQueued ==
    ASSUME ListInv
    PROVE  \A j \in Unqueued : j \in Job /\ status[j] = "QUEUED"
<1> SUFFICES ASSUME NEW j \in Unqueued PROVE j \in Job /\ status[j] = "QUEUED"
  OBVIOUS
<1>1. PICK u \in Thread : j \in chain[u]
  BY ZenonT(30) DEF Unqueued
<1> QED
  BY <1>1, ZenonT(30) DEF ListInv, Queued

\* Initially the initial job is counted.
LEMMA CountInit == Init => CountInv
<1> SUFFICES ASSUME Init PROVE CountInv
  OBVIOUS
<1>1. /\ JOB_INIT \in Job
      /\ status = [j \in Job |-> IF j = JOB_INIT THEN "QUEUED" ELSE "none"]
      /\ \A t \in Thread : chain[t] = {} /\ num[t] = 0
      /\ num_jobs_active = 1
  BY DEF Init, init_queue, Job
<1>2. Unqueued = {}
  BY <1>1, ZenonT(30) DEF Unqueued
<1>3. Counted = {JOB_INIT}
  BY <1>1, <1>2, ZenonT(30) DEF Counted, Gone, Absent
<1>4. /\ IsFiniteSet({}) /\ Cardinality({}) = 0
      /\ IsFiniteSet({JOB_INIT}) /\ Cardinality({JOB_INIT}) = 1
  BY FS_EmptySet, FS_Singleton, ZenonT(30)
<1> QED
  BY <1>1, <1>3, <1>4, ZenonT(30) DEF CountInv

\* Steps that create no job, complete none and leave the lists alone.
LEMMA CountKept ==
    ASSUME CountInv, UNCHANGED <<chain, num, num_jobs_active>>,
           \A j \in Job : status'[j] \in Gone <=> status[j] \in Gone,
           \A u \in Thread : KeepsList(u)
    PROVE  CountInv'
<1>1. Counted' = Counted
  BY ZenonT(30) DEF Counted, Unqueued
<1> QED
  BY <1>1, ZenonT(30) DEF CountInv, KeepsList

\* A counted job is completed.
LEMMA CountLess ==
    ASSUME CountInv, UNCHANGED <<chain, num>>, NEW k \in Counted,
           num_jobs_active' = num_jobs_active - 1,
           status'[k] = "freed",
           \A j \in Job \ {k} : status'[j] \in Gone <=> status[j] \in Gone,
           \A u \in Thread : KeepsList(u)
    PROVE  CountInv'
<1>1. Counted' = Counted \ {k}
  BY ZenonT(30) DEF Counted, Unqueued, Gone
<1>2. IsFiniteSet(Counted \ {k}) /\ Cardinality(Counted \ {k}) = Cardinality(Counted) - 1
  BY FS_RemoveElement, ZenonT(30) DEF CountInv
<1> QED
  BY <1>1, <1>2, ZenonT(30) DEF CountInv, KeepsList

\* A new job is queued.
LEMMA CountMore ==
    ASSUME CountInv, UNCHANGED <<chain, num>>, NEW k \in Job,
           k \notin Unqueued, status[k] \in Gone, status'[k] = "QUEUED",
           num_jobs_active' = num_jobs_active + 1,
           \A j \in Job \ {k} : status'[j] \in Gone <=> status[j] \in Gone,
           \A u \in Thread : KeepsList(u)
    PROVE  CountInv'
<1>1. Counted' = Counted \cup {k} /\ k \notin Counted
  BY ZenonT(30) DEF Counted, Unqueued, Gone, Absent
<1>2. IsFiniteSet(Counted \cup {k}) /\ Cardinality(Counted \cup {k}) = Cardinality(Counted) + 1
  BY <1>1, FS_AddElement, ZenonT(30) DEF CountInv
<1> QED
  BY <1>1, <1>2, ZenonT(30) DEF CountInv, KeepsList

\* A new job goes to the list of thread t: it is not counted yet.
LEMMA ListMore ==
    ASSUME TypeOK, CountInv, NEW t \in Thread, NEW k \in Job, pc' = pc, pc[t] = "readdir",
           k \notin Unqueued, status[k] \in Gone,
           chain' = [chain EXCEPT ![t] = @ \cup {k}],
           num' = [num EXCEPT ![t] = @ + 1],
           num_jobs_active' = num_jobs_active,
           \A j \in Job \ {k} : status'[j] \in Gone <=> status[j] \in Gone
    PROVE  CountInv'
<1>1. chain'[t] = chain[t] \cup {k} /\ \A u \in Thread \ {t} : chain'[u] = chain[u]
  BY DEF TypeOK
<1>2. Unqueued' = Unqueued \cup {k}
  BY <1>1, ZenonT(30) DEF Unqueued
<1>3. Counted' = Counted
  BY <1>2, ZenonT(30) DEF Counted
<1>4. k \notin chain[t] /\ IsFiniteSet(chain[t]) /\ num[t] = Cardinality(chain[t])
  BY ZenonT(30) DEF Unqueued, CountInv
<1>5. IsFiniteSet(chain'[t]) /\ Cardinality(chain'[t]) = Cardinality(chain[t]) + 1
  BY <1>1, <1>4, FS_AddElement, SMTT(30)
<1>6. num'[t] = num[t] + 1 /\ \A u \in Thread \ {t} : num'[u] = num[u]
  BY ZenonT(30) DEF TypeOK
<1> QED
  BY <1>1, <1>3, <1>4, <1>5, <1>6, ZenonT(30) DEF CountInv

\* The list of thread t is queued: its jobs are counted from now on.
LEMMA ListQueued ==
    ASSUME TypeOK, ListInv, CountInv, NEW t \in Thread, status' = status,
           chain' = [chain EXCEPT ![t] = {}],
           num' = [num EXCEPT ![t] = 0],
           num_jobs_active' = num_jobs_active + num[t],
           \A u \in Thread \ {t} : KeepsList(u)
    PROVE  CountInv'
<1>1. chain'[t] = {} /\ \A u \in Thread \ {t} : chain'[u] = chain[u]
  BY DEF TypeOK
<1>2. chain[t] \subseteq Unqueued /\ Unqueued' = Unqueued \ chain[t]
  <2>1. chain[t] \subseteq Unqueued
    BY ZenonT(30) DEF Unqueued
  <2>2. ASSUME NEW x \in Unqueued' PROVE x \in Unqueued \ chain[t]
    <3>1. PICK u \in Thread : x \in chain'[u]
      BY <2>2, ZenonT(30) DEF Unqueued
    <3>2. u # t /\ x \in chain[u]
      BY <1>1, <3>1, ZenonT(30)
    <3> QED
      BY <3>2, ZenonT(30) DEF Unqueued, ListInv
  <2>3. ASSUME NEW x \in Unqueued \ chain[t] PROVE x \in Unqueued'
    BY <1>1, <2>3, ZenonT(30) DEF Unqueued
  <2> QED
    BY <2>1, <2>2, <2>3, ZenonT(30)
<1>3. \A j \in chain[t] : j \in Job /\ status[j] \notin Gone
  BY DEF ListInv, Queued, Gone, Absent
<1>4. Counted' = Counted \cup chain[t] /\ Counted \cap chain[t] = {}
  BY <1>2, <1>3, ZenonT(30) DEF Counted
<1>5. /\ IsFiniteSet(Counted) /\ IsFiniteSet(chain[t])
      /\ num_jobs_active = Cardinality(Counted) /\ num[t] = Cardinality(chain[t])
  BY ZenonT(30) DEF CountInv
<1>6. /\ IsFiniteSet(Counted \cup chain[t])
      /\ Cardinality(Counted \cup chain[t]) =
            Cardinality(Counted) + Cardinality(chain[t]) - Cardinality(Counted \cap chain[t])
  BY <1>5, FS_Union, ZenonT(30)
<1>7. Cardinality(Counted') = num_jobs_active'
  <2>1. num_jobs_active \in Int /\ num[t] \in Nat
    BY ZenonT(30) DEF TypeOK, TaskTypeOK
  <2>2. Cardinality(Counted \cap chain[t]) = 0
    BY <1>4, FS_EmptySet, ZenonT(30)
  <2> QED
    <3>1. /\ Cardinality(Counted') = num_jobs_active + num[t] - 0
          /\ num_jobs_active' = num_jobs_active + num[t]
      BY <1>4, <1>5, <1>6, <2>2, ZenonT(30)
    <3> QED
      BY <2>1, <3>1, SMTT(30)
<1>8. num'[t] = 0 /\ \A u \in Thread \ {t} : num'[u] = num[u]
  BY ZenonT(30) DEF TypeOK
<1> QED
  BY <1>1, <1>4, <1>6, <1>7, <1>8, FS_EmptySet, ZenonT(30) DEF CountInv, KeepsList

\* _get_next_job creates no job and completes none.
LEMMA GetNextCount ==
    ASSUME TypeOK, QueueInv, NEW t \in Thread, NEW st \in [Job -> Status],
           NEW active, NEW jb, NEW woken, get_next_job(t, st, active, jb, woken),
           jobs_head # NULL => st[jobs_head] = "QUEUED"
    PROVE  /\ num_jobs_active' = active
           /\ \A j \in Job : status'[j] \in Gone <=> st[j] \in Gone
<1>1. num_jobs_active' = active
  BY ZenonT(30) DEF get_next_job
<1>2. "QUEUED" \notin Gone /\ "IN_PROGRESS" \notin Gone
  BY ZenonT(30) DEF Gone, Absent
<1>3. CASE status' = st
  BY <1>1, <1>3, ZenonT(30)
<1>4. CASE jobs_head # NULL /\ status' = [st EXCEPT ![jobs_head] = "IN_PROGRESS"]
  BY <1>1, <1>2, <1>4, ZenonT(30)
<1> QED
  BY <1>3, <1>4, ZenonT(30) DEF get_next_job, dequeue_job

\* Every step of a worker keeps the count.
LEMMA WorkerCount ==
    ASSUME IInv, CountInv, NEW t \in Thread, Worker(t)
    PROVE  CountInv'
<1> USE DEF taskVars, queueVars, threadVars, localVars, listVars, mainVars
<1>0. /\ TypeOK /\ QueueInv /\ ListInv /\ OneOwner /\ WorkerInvAt(t) /\ OthersKept(t)
      /\ status \in [Job -> Status] /\ job[t] \in JobOrNull
      /\ JOB_INIT \in Job /\ NULL \notin Job
  BY WorkerStep, TreeAssumption, ZenonT(30) DEF IInv, QueueInv, WorkerInv, TypeOK, TaskTypeOK, Job
<1>1. /\ \A s \in {"IN_PROGRESS", "QUEUED"} \cup Final : s \notin Gone
      /\ Absent \subseteq Gone /\ "none" \in Absent
      /\ {"STAT_FAILED", "TYPE_EXCLUDED", "freed"} \subseteq Gone
  BY DEF Gone, Absent, Final
<1>2. \A u \in Thread \ {t} : KeepsList(u)
  BY <1>0, ZenonT(30) DEF OthersKept, CountInv, KeepsList
<1>3. pc[t] # "readdir" => chain[t] = {} /\ KeepsList(t)
  BY DEF CountInv, KeepsList
<1>4. /\ jobs_head # NULL => jobs_head \in Job /\ status[jobs_head] = "QUEUED"
      /\ jobs_head # NULL => jobs_head # job[t]
  BY <1>0, ZenonT(30) DEF QueueInv, QueuePointersValid, OneOwner, Final
<1>5. CASE Start(t) \/ Exclude(t) \/ OpenOutput(t) \/ ScanSpecs(t) \/ OpenDir(t) \/ Read(t)
           \/ OutputLock(t) \/ SkipEntry(t) \/ BeginEntry(t) \/ EndEntry(t) \/ Cancelled(t)
  <2>1. pc[t] # "readdir" /\ UNCHANGED <<status, chain, num, num_jobs_active>>
    BY <1>5, ZenonT(30)
       DEF Start, Exclude, OpenOutput, ScanSpecs, OpenDir, Read, OutputLock, SkipEntry,
           BeginEntry, EndEntry, Cancelled
  <2> QED
    BY <1>2, <1>3, <2>1, CountKept, ZenonT(30)
<1>6. CASE SetStatus(t)
  <2>1. pc[t] # "readdir" /\ UNCHANGED <<chain, num, num_jobs_active>>
    BY <1>6, ZenonT(30) DEF SetStatus
  <2>2. job[t] \in Job /\ status[job[t]] = "IN_PROGRESS" /\ result[t] \in Final
    BY <1>0, <1>6, ZenonT(30) DEF SetStatus, WorkerInvAt, JobOrNull, TypeOK
  <2>3. status' = [status EXCEPT ![job[t]] = result[t]]
    BY <1>6, ZenonT(30) DEF SetStatus
  <2>4. \A j \in Job : status'[j] \in Gone <=> status[j] \in Gone
    BY <1>0, <1>1, <2>2, <2>3, ZenonT(30)
  <2> QED
    BY <1>2, <1>3, <2>1, <2>4, CountKept, ZenonT(30)
<1>7. CASE GetNext(t)
  <2>1. pc[t] # "readdir" /\ UNCHANGED <<chain, num>>
    BY <1>7, ZenonT(30) DEF GetNext
  <2>2. get_next_job(t, status, num_jobs_active, job, FALSE)
    BY <1>7, ZenonT(30) DEF GetNext
  <2>3. /\ num_jobs_active' = num_jobs_active
        /\ \A j \in Job : status'[j] \in Gone <=> status[j] \in Gone
    BY <1>0, <1>4, <2>2, GetNextCount, ZenonT(30)
  <2> QED
    BY <1>2, <1>3, <2>1, <2>3, CountKept, ZenonT(30)
<1>8. CASE Finish(t)
  <2>1. /\ pc[t] = "finish" /\ UNCHANGED <<chain, num>>
        /\ \A u \in Thread : KeepsList(u)
    BY <1>2, <1>3, <1>8, ZenonT(30) DEF Finish
  <2>2. CASE timed_out[t]
    BY <1>8, <2>1, <2>2, CountKept, ZenonT(90) DEF Finish
  <2>3. CASE ~timed_out[t]
    <3> DEFINE st == [status EXCEPT ![job[t]] = "freed"]
               jb == [job EXCEPT ![t] = NULL]
               active == num_jobs_active - 1
    <3>1. job[t] \in Job /\ status[job[t]] \in {"IN_PROGRESS"} \cup Final
      BY <1>0, <2>1, ZenonT(90) DEF WorkerInvAt, JobOrNull, OneOwner
    <3>2. job[t] \in Counted
      <4>1. status[job[t]] # "QUEUED"
        BY <3>1, ZenonT(30) DEF Final
      <4>2. job[t] \notin Unqueued
        BY <1>0, <4>1, UnqueuedAreQueued, ZenonT(90)
      <4> QED
        BY <1>1, <3>1, <4>2, ZenonT(30) DEF Counted
    <3>3. /\ st \in [Job -> Status]
          /\ st[job[t]] = "freed"
          /\ \A j \in Job \ {job[t]} : st[j] = status[j]
      BY <1>0, <3>1, ZenonT(30) DEF Status, Freed
    <3>4. /\ num_jobs_active' = active
          /\ \A j \in Job : status'[j] \in Gone <=> st[j] \in Gone
      <4>1. CASE leftover[t]
        BY <1>8, <2>3, <4>1, ZenonT(30) DEF Finish
      <4>2. CASE ~leftover[t]
        <5>1. get_next_job(t, st, active, jb, active = 0)
          BY <1>8, <2>3, <4>2, ZenonT(30) DEF Finish
        <5>2. jobs_head # NULL => st[jobs_head] = "QUEUED"
          BY <1>4, <3>3, ZenonT(30)
        <5> HIDE DEF st, jb, active
        <5> QED
          BY <1>0, <3>3, <5>1, <5>2, GetNextCount, ZenonT(30)
      <4> QED
        BY <4>1, <4>2, ZenonT(30)
    <3>5. status'[job[t]] = "freed"
      <4>1. CASE status' = st
        BY <3>3, <4>1, ZenonT(30)
      <4>2. CASE jobs_head # NULL /\ status' = [st EXCEPT ![jobs_head] = "IN_PROGRESS"]
        BY <1>4, <3>1, <3>3, <4>2, ZenonT(30)
      <4> QED
        BY <1>8, <2>3, <4>1, <4>2, ZenonT(30) DEF Finish, get_next_job, dequeue_job
    <3> QED
      BY <2>1, <3>2, <3>3, <3>4, <3>5, CountLess, ZenonT(30)
  <2> QED
    BY <2>2, <2>3, ZenonT(30)
<1>9. CASE QueueSpec(t)
  <2> DEFINE k == NextEntry(JOB_INIT)
  <2>1. /\ pc[t] = "create" /\ UNCHANGED <<chain, num>>
        /\ HasEntry(JOB_INIT) /\ \A u \in Thread : KeepsList(u)
    BY <1>0, <1>2, <1>3, <1>9, ZenonT(30) DEF QueueSpec, WorkerInvAt
  <2>2. k \in Job /\ status[k] = "none" /\ k \notin Unqueued
    <3>1. k \in Job /\ status[k] = "none"
      BY <1>0, <2>1, NewJob, ZenonT(30)
    <3> QED
      BY <1>0, <3>1, UnqueuedAreQueued, ZenonT(30)
  <2>3. CASE /\ \E s \in Absent : status' = [status EXCEPT ![k] = s]
             /\ num_jobs_active' = num_jobs_active
    <3>1. \A j \in Job : status'[j] \in Gone <=> status[j] \in Gone
      BY <1>0, <1>1, <2>2, <2>3, ZenonT(30)
    <3> QED
      BY <2>1, <2>3, <3>1, CountKept, ZenonT(30)
  <2>4. CASE /\ status' = [status EXCEPT ![k] = "QUEUED"]
             /\ num_jobs_active' = num_jobs_active + 1
    <3>1. status'[k] = "QUEUED" /\ \A j \in Job \ {k} : status'[j] = status[j]
      BY <1>0, <2>2, <2>4, ZenonT(30)
    <3> HIDE DEF k
    <3> QED
      BY <1>1, <2>1, <2>2, <2>4, <3>1, CountMore, ZenonT(30)
  <2> QED
    BY <1>9, <2>3, <2>4, ZenonT(30)
       DEF QueueSpec, create_job, create_job_CannotStat, create_job_TypeExcluded, Absent
<1>10. CASE ReadDirEntry(t)
  <2> DEFINE k == NextEntry(job[t])
  <2>1. /\ pc[t] = "readdir" /\ job[t] \in Job /\ HasEntry(job[t])
        /\ num_jobs_active' = num_jobs_active
    BY <1>0, <1>10, ZenonT(30) DEF ReadDirEntry, WorkerInvAt, JobOrNull
  <2>2. k \in Job /\ status[k] = "none" /\ k \notin Unqueued
    <3>1. k \in Job /\ status[k] = "none"
      BY <1>0, <2>1, NewJob, ZenonT(30)
    <3> QED
      BY <1>0, <3>1, UnqueuedAreQueued, ZenonT(30)
  <2>3. CASE /\ \E s \in Absent : status' = [status EXCEPT ![k] = s]
             /\ set_aborted_if(read_error_aborts, t, "readdir") \/ UNCHANGED pc
             /\ UNCHANGED <<chain, num>>
    <3>1. \A j \in Job : status'[j] \in Gone <=> status[j] \in Gone
      BY <1>0, <1>1, <2>2, <2>3, ZenonT(30)
    <3>2. pc'[t] = "readdir"
      <4>1. CASE set_aborted_if(read_error_aborts, t, "readdir")
        BY <1>0, <4>1, SetAbortedStep, ZenonT(30) DEF WorkerPC, PcStep
      <4> QED
        BY <2>1, <2>3, <4>1, ZenonT(30)
    <3>3. \A u \in Thread : KeepsList(u)
      BY <1>2, <3>2, ZenonT(30) DEF KeepsList
    <3> QED
      BY <2>1, <2>3, <3>1, <3>3, CountKept, ZenonT(30)
  <2>4. CASE /\ status' = [status EXCEPT ![k] = "QUEUED"]
             /\ num' = [num EXCEPT ![t] = @ + 1]
             /\ chain' = [chain EXCEPT ![t] = @ \cup {k}]
             /\ UNCHANGED pc
    <3>1. status[k] \in Gone /\ \A j \in Job \ {k} : status'[j] = status[j]
      BY <1>0, <1>1, <2>2, <2>4, ZenonT(30)
    <3> HIDE DEF k
    <3> QED
      BY <1>0, <2>1, <2>2, <2>4, <3>1, ListMore, ZenonT(30)
  <2> QED
    BY <1>10, <2>3, <2>4, ZenonT(30)
       DEF ReadDirEntry, create_job, create_job_CannotStat, create_job_TypeExcluded, Absent
<1>11. CASE QueueDir(t)
  <2>1. /\ status' = status
        /\ num' = [num EXCEPT ![t] = 0]
        /\ chain' = [chain EXCEPT ![t] = {}]
    BY <1>11, ZenonT(30) DEF QueueDir
  <2>2. num_jobs_active' = num_jobs_active + num[t]
    <3>1. CASE first[t] # NULL
      BY <1>11, <3>1, ZenonT(30) DEF QueueDir
    <3>2. CASE first[t] = NULL
      <4>1. chain[t] = {} /\ num[t] = Cardinality(chain[t])
        BY <1>0, <3>2, ZenonT(30) DEF ListInv, CountInv
      <4>2. num[t] = 0 /\ num_jobs_active \in Int
        BY <1>0, <4>1, FS_EmptySet, ZenonT(30) DEF TypeOK, TaskTypeOK
      <4>3. num_jobs_active' = num_jobs_active
        BY <1>11, <3>2, ZenonT(30) DEF QueueDir
      <4> QED
        BY <4>2, <4>3, SMTT(30)
    <3> QED
      BY <3>1, <3>2, ZenonT(30)
  <2> QED
    BY <1>0, <1>2, <2>1, <2>2, ListQueued, ZenonT(30)
<1> QED
  BY <1>5, <1>6, <1>7, <1>8, <1>9, <1>10, <1>11, ZenonT(30) DEF Worker

\* Every step of main, of the clock, and a spurious wakeup keep the count.
LEMMA MainCount ==
    ASSUME IInv, CountInv, Main \/ Tick \/ SpuriousWakeup \/ UNCHANGED vars
    PROVE  CountInv'
<1> USE DEF taskVars, queueVars, threadVars, localVars, listVars, mainVars
<1>0. /\ TypeOK /\ ListInv /\ OneOwner /\ MainInv /\ InterruptedJobKept
      /\ status \in [Job -> Status] /\ pc \in [Thread -> WorkerPC]
      /\ mthread \in Thread /\ earliest \in ThreadOrNull
  BY ZenonT(30) DEF IInv, TypeOK, TaskTypeOK
<1>1. \A s \in {"IN_PROGRESS", "QUEUED", "dropped"} \cup Final : s \notin Gone
  BY ZenonT(30) DEF Gone, Absent, Final
<1>2. UNCHANGED <<chain, num>>
  BY ZenonT(30) DEF Main, Spawn, Spawned, WaitLoop, WaitTimesOut, HandleTimeout, CancelThread,
         JoinThread, FinishWait, FinishWaitTimesOut, Cleanup, CleanupJoin, AbortQueued, Exit,
         Tick, SpuriousWakeup, vars
<1>3. \A u \in Thread : pc[u] = "readdir" => pc'[u] = "readdir"
  BY MainFrame, ZenonT(30)
<1>4. \A u \in Thread : KeepsList(u)
  BY <1>3, ZenonT(30) DEF CountInv, KeepsList
<1>5. CASE AbortQueued
  <2>1. jobs_head \in Job /\ status[jobs_head] = "QUEUED" /\ jobs_head \notin Unqueued
    <3>1. jobs_head \in Job /\ status[jobs_head] = "QUEUED"
      BY <1>5, ZenonT(30) DEF AbortQueued, dequeue_job, IInv, QueuePointersValid
    <3> QED
      BY <1>0, <3>1, ZenonT(30) DEF Unqueued, ListInv
  <2>2. /\ status'[jobs_head] = "freed"
        /\ \A j \in Job \ {jobs_head} : status'[j] = status[j]
        /\ num_jobs_active' = num_jobs_active - 1
    BY <1>0, <1>5, <2>1, ZenonT(30) DEF AbortQueued
  <2>3. jobs_head \in Counted
    BY <1>1, <2>1, ZenonT(30) DEF Counted
  <2> QED
    BY <1>2, <1>4, <2>2, <2>3, CountLess, ZenonT(30)
<1>6. CASE JoinThread
  <2>1. mjob \in Job /\ status[mjob] \in {"IN_PROGRESS"} \cup Final
    BY <1>0, <1>6, ZenonT(30) DEF JoinThread, MainInv, InterruptedJobKept, TypeOK, JobOrNull
  <2>2. \A j \in Job : status'[j] \in Gone <=> status[j] \in Gone
    <3>1. "PARTIAL" \in Final /\ "FAILED" \in Final
      BY DEF Final
    <3>2. status' = status \/ \E s \in Final : status' = [status EXCEPT ![mjob] = s]
      BY <1>6, <3>1, ZenonT(30) DEF JoinThread
    <3> QED
      BY <1>0, <1>1, <2>1, <3>2, ZenonT(30)
  <2>3. num_jobs_active' = num_jobs_active
    BY <1>6, ZenonT(30) DEF JoinThread
  <2> QED
    BY <1>2, <1>4, <2>2, <2>3, CountKept, ZenonT(30)
<1>7. CASE CleanupJoin
  <2>1. \A j \in Job : status'[j] \in Gone <=> status[j] \in Gone
    <3>1. CASE job[mthread] = NULL
      BY <1>7, <3>1, ZenonT(30) DEF CleanupJoin
    <3>2. CASE job[mthread] # NULL
      <4>1. status[job[mthread]] \notin Gone
        BY <1>0, <1>1, <3>2, ZenonT(30) DEF OneOwner
      <4>2. status' = [status EXCEPT ![job[mthread]] = "dropped"]
        BY <1>7, <3>2, ZenonT(30) DEF CleanupJoin
      <4> QED
        BY <1>0, <1>1, <4>1, <4>2, ZenonT(30)
    <3> QED
      BY <3>1, <3>2, ZenonT(30)
  <2>2. num_jobs_active' = num_jobs_active
    BY <1>7, ZenonT(30) DEF CleanupJoin
  <2> QED
    BY <1>2, <1>4, <2>1, <2>2, CountKept, ZenonT(30)
<1>8. CASE UNCHANGED <<status, num_jobs_active>>
  BY <1>2, <1>4, <1>8, CountKept, ZenonT(30)
<1> QED
  BY <1>5, <1>6, <1>7, <1>8, ZenonT(30)
     DEF Main, Spawn, Spawned, WaitLoop, WaitTimesOut, HandleTimeout, CancelThread,
         FinishWait, FinishWaitTimesOut, Cleanup, Exit, Tick, SpuriousWakeup, vars

\* num_jobs_active is at every moment the number of jobs that were queued and
\* are not complete, whatever is cancelled, timed out or restarted meanwhile:
\* main does not stop waiting while there is a job, and waits for none that
\* does not exist.
THEOREM ActiveJobsCounted == Spec => []ActiveCount
<1>1. Init => IInv /\ CountInv
  BY InitInv, CountInit, ZenonT(30)
<1>2. IInv /\ CountInv /\ [Next]_vars => CountInv'
  <2> SUFFICES ASSUME IInv, CountInv, [Next]_vars PROVE CountInv'
    OBVIOUS
  <2>1. CASE \E t \in Thread : Worker(t)
    BY <2>1, WorkerCount, ZenonT(30)
  <2>2. CASE Main \/ Tick \/ SpuriousWakeup \/ UNCHANGED vars
    BY <2>2, MainCount, ZenonT(30)
  <2> QED
    BY <2>1, <2>2, ZenonT(30) DEF Next, Stopped
<1>3. CountInv => ActiveCount
  BY DEF CountInv, Counted, Gone, ActiveCount
<1> QED
  BY <1>1, <1>2, <1>3, InductiveInvariant, PTL DEF Spec

(***************************************************************************)
(* The job of a thread that is done with it, and the initial job.          *)
(***************************************************************************)
\* A worker writes a job only once its status is final, and leaves a job that
\* is not final behind only where it can be cancelled: while reading, or while
\* opening the output.
DoneInv ==
    \A t \in Thread : job[t] # NULL =>
        /\ pc[t] \in {"start", "outlock", "write", "writing", "wstatus", "finish", "end"} =>
              status[job[t]] \in Final
        /\ pc[t] = "dead" /\ status[job[t]] = "IN_PROGRESS" =>
              IsRead(job[t]) \/ job[t] = JOB_INIT

\* The initial job exists, no other job exists before it is started, and it is
\* never timed out.
InitJobInv ==
    /\ status[JOB_INIT] \notin Absent
    /\ status[JOB_INIT] = "QUEUED" => \A j \in Node : status[j] = "none"
    /\ deadline[JOB_INIT] = 0
    /\ earliest # NULL => status[JOB_INIT] # "QUEUED" /\ job[earliest] # JOB_INIT

\* Workers write only jobs whose status is final: they set it before they take the
\* output mutex.
LEMMA WorkerDone ==
    ASSUME IInv, DoneInv, NEW t \in Thread, Worker(t)
    PROVE  DoneInv'
<1> USE DEF taskVars, queueVars, threadVars, localVars, listVars, mainVars
<1> DEFINE Ready == {"start", "outlock", "write", "writing", "wstatus", "finish", "end"}
           DoneAt(u) == job[u] # NULL =>
              /\ pc[u] \in Ready => status[job[u]] \in Final
              /\ pc[u] = "dead" /\ status[job[u]] = "IN_PROGRESS" =>
                    IsRead(job[u]) \/ job[u] = JOB_INIT
<1>0. /\ TypeOK /\ WorkerInvAt(t) /\ OthersKept(t) /\ "IN_PROGRESS" \notin Final
  BY WorkerStep, ZenonT(30) DEF IInv, WorkerInv, Final
<1>1. \A u \in Thread : DoneAt(u)
  BY DEF DoneInv
<1>2. ASSUME NEW u \in Thread \ {t} PROVE DoneAt(u)'
  <2>1. /\ pc'[u] = pc[u] \/ (pc[u] = "wait" /\ pc'[u] = "get")
        /\ job'[u] = job[u]
        /\ job[u] # NULL => status'[job[u]] = status[job[u]]
    BY <1>0, ZenonT(30) DEF OthersKept
  <2>2. IsRead(job[u])' <=> IsRead(job[u])
    BY <2>1, ZenonT(30) DEF IsRead
  <2>3. pc'[u] \in Ready => pc[u] \in Ready
    BY <2>1, ZenonT(30)
  <2>4. pc'[u] = "dead" => pc[u] = "dead"
    BY <2>1, ZenonT(30)
  <2> QED
    BY <1>1, <2>1, <2>2, <2>3, <2>4, ZenonT(30)
<1>3. DoneAt(t)'
  <2>1. CASE GetNext(t) \/ Finish(t)
    <3>1. CASE Takes(t)
      BY <3>1, ZenonT(30) DEF Takes
    <3>2. CASE job'[t] = NULL
      BY <3>2, ZenonT(30)
    <3>3. CASE Finish(t) /\ timed_out[t] /\ pc'[t] = "end" /\ UNCHANGED <<job, status>>
      <4>1. pc[t] \in Ready
        BY <3>3, ZenonT(30) DEF Finish
      <4> QED
        BY <1>1, <3>3, <4>1, ZenonT(30)
    <3> QED
      BY <2>1, <3>1, <3>2, <3>3, WorkerEffect, ZenonT(30)
  <2>2. CASE SetStatus(t)
    <3>1. status'[job[t]] \in Final /\ UNCHANGED job
      BY <2>2, WorkerEffect, ZenonT(30) DEF SetStatus, GetNext, Finish
    <3>2. pc'[t] = "outlock"
      BY <1>0, <2>2, Moves, ZenonT(30)
    <3> QED
      BY <3>1, <3>2, ZenonT(30)
  <2>3. CASE Start(t) \/ OutputLock(t) \/ SkipEntry(t) \/ BeginEntry(t) \/ EndEntry(t)
    <3>1. pc[t] \in Ready /\ UNCHANGED <<job, status>>
      BY <2>3, ZenonT(30) DEF Start, OutputLock, SkipEntry, BeginEntry, EndEntry
    <3>2. pc'[t] # "dead"
      BY <1>0, <2>3, Moves, ZenonT(30)
    <3> QED
      BY <1>1, <3>1, <3>2, ZenonT(30)
  <2>4. CASE Cancelled(t)
    <3>1. pc'[t] = "dead" /\ UNCHANGED <<job, status>>
      BY <1>0, <2>4, Moves, ZenonT(30) DEF Cancelled
    <3>2. CASE pc[t] = "process" /\ (IsRead(job[t]) \/ job[t] = JOB_INIT)
      BY <3>1, <3>2, ZenonT(30) DEF IsRead
    <3>3. CASE pc[t] \in Ready
      BY <1>0, <1>1, <3>1, <3>3, ZenonT(30)
    <3> QED
      BY <2>4, <3>2, <3>3, ZenonT(30) DEF Cancelled
  <2>5. CASE Exclude(t) \/ OpenOutput(t) \/ ScanSpecs(t) \/ QueueSpec(t) \/ OpenDir(t)
             \/ ReadDirEntry(t) \/ QueueDir(t) \/ Read(t)
    <3>1. pc'[t] \in {"status", "scan", "create", "readdir"}
      BY <1>0, <2>5, Moves, ZenonT(30)
    <3> QED
      BY <3>1, ZenonT(30)
  <2> QED
    BY <2>1, <2>2, <2>3, <2>4, <2>5, ZenonT(30) DEF Worker
<1> QED
  BY <1>2, <1>3, ZenonT(30) DEF DoneInv

\* Main keeps this when it cancels and joins a thread and starts it again.
LEMMA MainDone ==
    ASSUME IInv, DoneInv, Main \/ Tick \/ SpuriousWakeup \/ UNCHANGED vars
    PROVE  DoneInv'
<1> DEFINE Ready == {"start", "outlock", "write", "writing", "wstatus", "finish", "end"}
           DoneAt(u) == job[u] # NULL =>
              /\ pc[u] \in Ready => status[job[u]] \in Final
              /\ pc[u] = "dead" /\ status[job[u]] = "IN_PROGRESS" =>
                    IsRead(job[u]) \/ job[u] = JOB_INIT
<1>0. /\ TypeOK /\ OneOwner /\ WorkerInv /\ "IN_PROGRESS" \notin Final
      /\ "PARTIAL" \in Final /\ "QUEUED" \notin {"IN_PROGRESS"} \cup Final
  BY DEF IInv, Final
<1>1. SUFFICES ASSUME NEW u \in Thread, job'[u] # NULL PROVE DoneAt(u)'
  BY ZenonT(30) DEF DoneInv
<1>2. job'[u] = job[u] /\ job[u] \in Job /\ ~(CleanupJoin /\ u = mthread)
  <2>1. ~(CleanupJoin /\ u = mthread)
    BY <1>1, MainFrame, ZenonT(30)
  <2> QED
    BY <1>0, <1>1, <2>1, MainFrame, ZenonT(30) DEF TypeOK, JobOrNull
<1>3. /\ DoneAt(u) /\ WorkerInvAt(u)
      /\ status[job[u]] \in {"IN_PROGRESS"} \cup Final
      /\ \A v \in Thread : job[v] = job[u] => v = u
  BY <1>0, <1>1, <1>2, ZenonT(30) DEF DoneInv, OneOwner, WorkerInv
<1>4. IsRead(job[u])' <=> IsRead(job[u])
  BY <1>2, ZenonT(30) DEF IsRead
<1>5. CASE JoinThread /\ u = earliest
  <2>1. pc'[u] # "dead" /\ mjob = job[u]
    BY <1>5, MainFrame, ZenonT(30)
  <2>2. status'[job[u]] \in Final
    <3>1. CASE status[mjob] = "IN_PROGRESS"
      BY <1>0, <1>2, <1>5, <2>1, <3>1, ZenonT(30) DEF JoinThread, TypeOK, TaskTypeOK
    <3>2. CASE status[mjob] \in Final
      BY <1>0, <1>5, <2>1, <3>2, ZenonT(30) DEF JoinThread
    <3> QED
      BY <1>3, <2>1, <3>1, <3>2, ZenonT(30)
  <2> QED
    BY <1>2, <2>1, <2>2, ZenonT(30)
<1>6. CASE ~(JoinThread /\ u = earliest)
  <2>1. status'[job[u]] = status[job[u]]
    <3>1. JoinThread => mjob # job[u]
      BY <1>3, <1>6, MainFrame, ZenonT(30)
    <3>2. CleanupJoin => job[mthread] # job[u]
      BY <1>0, <1>2, <1>3, ZenonT(30) DEF TypeOK
    <3>3. status[job[u]] # "QUEUED"
      BY <1>0, <1>3, ZenonT(30)
    <3> QED
      BY <1>2, <3>1, <3>2, <3>3, MainFrame, ZenonT(30)
  <2>2. \/ pc'[u] = pc[u]
        \/ pc[u] = "wait" /\ pc'[u] = "get"
        \/ pc[u] = "none"
    BY <1>2, <1>6, MainFrame, ZenonT(30)
  <2>3. pc'[u] = pc[u]
    BY <1>1, <1>2, <1>3, <2>2, ZenonT(30) DEF WorkerInvAt
  <2> QED
    BY <1>2, <1>3, <1>4, <2>1, <2>3, ZenonT(30)
<1> QED
  BY <1>5, <1>6, ZenonT(30)

\* A worker takes the initial job from the queue before any other job exists.
LEMMA WorkerInitJob ==
    ASSUME IInv, InitJobInv, NEW t \in Thread, Worker(t)
    PROVE  InitJobInv'
<1>0. /\ TypeOK /\ OneOwner /\ OthersKept(t) /\ JOB_INIT \in Job /\ JOB_INIT \notin Node
      /\ Node \subseteq Job /\ NULL \notin Job /\ job[t] \in JobOrNull /\ earliest \in ThreadOrNull
  BY WorkerStep, TreeAssumption, ZenonT(30) DEF IInv, Job, TypeOK
<1>1. \A s \in {"QUEUED", "IN_PROGRESS", "freed"} \cup Final : s \notin Absent
  BY DEF Absent, Final
<1>2. /\ status'[JOB_INIT] \notin Absent
      /\ status'[JOB_INIT] = "QUEUED" => status[JOB_INIT] = "QUEUED"
  <2>1. Visits(t) => NextEntry(job[t]) # JOB_INIT
    BY <1>0, ZenonT(30) DEF Visits
  <2>2. Takes(t) /\ JOB_INIT = jobs_head => status'[JOB_INIT] = "IN_PROGRESS"
    BY ZenonT(30) DEF Takes
  <2>3. \/ status'[JOB_INIT] = status[JOB_INIT]
        \/ status'[JOB_INIT] \in {"IN_PROGRESS", "freed"} \cup Final
    BY <1>0, <2>1, <2>2, WorkerEffect, ZenonT(30)
  <2>4. "QUEUED" \notin {"IN_PROGRESS", "freed"} \cup Final
    BY DEF Final
  <2> QED
    BY <1>1, <2>3, <2>4, ZenonT(30) DEF InitJobInv
<1>3. ASSUME status'[JOB_INIT] = "QUEUED", NEW j \in Node
      PROVE  status'[j] = "none"
  <2>1. status[JOB_INIT] = "QUEUED" /\ \A i \in Node : status[i] = "none"
    BY <1>2, <1>3, ZenonT(30) DEF InitJobInv
  <2>2. job[t] = NULL
    <3> SUFFICES ASSUME job[t] # NULL PROVE FALSE
      BY ZenonT(30)
    <3>1. job[t] \in Job /\ status[job[t]] \in {"IN_PROGRESS"} \cup Final
      BY <1>0, ZenonT(30) DEF OneOwner, JobOrNull
    <3> QED
      BY <2>1, <3>1, ZenonT(30) DEF Job, Final
  <2>3. ~Visits(t) /\ (Takes(t) => jobs_head # j)
    BY <1>0, <2>1, <2>2, ZenonT(30) DEF Visits, Takes
  <2>4. j \in Job /\ j # job[t] /\ status[j] = "none"
    BY <1>0, <2>1, <2>2, ZenonT(30) DEF Job
  <2> QED
    BY <1>0, <2>3, <2>4, WorkerEffect, ZenonT(30)
<1>4. deadline'[JOB_INIT] = 0
  BY <1>0, WorkerEffect, ZenonT(30) DEF InitJobInv, Timed
<1>5. ASSUME earliest' # NULL
      PROVE  status'[JOB_INIT] # "QUEUED" /\ job'[earliest'] # JOB_INIT
  <2>1. earliest' = earliest /\ earliest \in Thread
    BY <1>0, <1>5, ZenonT(30) DEF OthersKept, ThreadOrNull
  <2>2. status[JOB_INIT] # "QUEUED" /\ job[earliest] # JOB_INIT
    BY <1>5, <2>1, ZenonT(30) DEF InitJobInv
  <2>3. job'[earliest] # JOB_INIT
    <3>1. CASE earliest # t
      BY <1>0, <2>1, <2>2, <3>1, ZenonT(30) DEF OthersKept
    <3>2. CASE earliest = t
      <4>1. Takes(t) => job'[t] # JOB_INIT
        BY <2>2, ZenonT(30) DEF Takes
      <4> QED
        BY <1>0, <2>2, <3>2, <4>1, WorkerEffect, ZenonT(30)
    <3> QED
      BY <3>1, <3>2, ZenonT(30)
  <2> QED
    BY <1>2, <2>1, <2>2, <2>3, ZenonT(30)
<1> QED
  BY <1>2, <1>3, <1>4, <1>5, ZenonT(30) DEF InitJobInv

\* Main never finds the initial job among those that have timed out.
LEMMA MainInitJob ==
    ASSUME IInv, InitJobInv, Main \/ Tick \/ SpuriousWakeup \/ UNCHANGED vars
    PROVE  InitJobInv'
<1> USE DEF taskVars, queueVars, threadVars, localVars, listVars, mainVars
<1>0. /\ TypeOK /\ OneOwner /\ JOB_INIT \in Job /\ JOB_INIT \notin Node
      /\ Node \subseteq Job /\ NULL \notin Job /\ NULL \notin Thread
      /\ earliest \in ThreadOrNull /\ mthread \in Thread
  BY TreeAssumption, NullIsNoThread, ZenonT(30) DEF IInv, Job, TypeOK
<1>1. \A s \in {"PARTIAL", "dropped", "freed"} : s \notin Absent /\ s # "QUEUED"
  BY DEF Absent
<1>2. /\ status'[JOB_INIT] \notin Absent
      /\ status'[JOB_INIT] = "QUEUED" => status[JOB_INIT] = "QUEUED"
  BY <1>0, <1>1, MainFrame, ZenonT(30) DEF InitJobInv
<1>3. ASSUME status'[JOB_INIT] = "QUEUED", NEW j \in Node
      PROVE  status'[j] = "none"
  <2>1. status[JOB_INIT] = "QUEUED" /\ \A i \in Node : status[i] = "none"
    BY <1>2, <1>3, ZenonT(30) DEF InitJobInv
  <2>2. CleanupJoin => job[mthread] # j
    <3>1. job[mthread] = j => status[j] \in {"IN_PROGRESS"} \cup Final
      BY <1>0, ZenonT(30) DEF OneOwner
    <3>2. status[j] \notin {"IN_PROGRESS"} \cup Final
      BY <2>1, ZenonT(30) DEF Final
    <3> QED
      BY <3>1, <3>2, ZenonT(30)
  <2>3. status[j] # "IN_PROGRESS" /\ status[j] # "QUEUED" /\ status[j] = "none"
    BY <2>1, ZenonT(30)
  <2> QED
    BY <1>0, <2>2, <2>3, MainFrame, ZenonT(30)
<1>4. deadline' = deadline
  BY MainFrame, ZenonT(30)
<1>5. ASSUME earliest' # NULL
      PROVE  status'[JOB_INIT] # "QUEUED" /\ job'[earliest'] # JOB_INIT
  <2>1. CASE earliest' = earliest
    <3>1. status[JOB_INIT] # "QUEUED" /\ job[earliest] # JOB_INIT /\ earliest \in Thread
      BY <1>0, <1>5, <2>1, ZenonT(30) DEF InitJobInv, ThreadOrNull
    <3>2. job'[earliest] \in {job[earliest], NULL}
      BY <3>1, MainFrame, ZenonT(30)
    <3> QED
      BY <1>0, <1>2, <2>1, <3>1, <3>2, ZenonT(30)
  <2>2. CASE WaitLoop /\ \E t \in Thread : IsNearest(t) /\ earliest' = t
    <3>1. PICK t \in Thread : IsNearest(t) /\ earliest' = t
      BY <2>2, ZenonT(30)
    <3>2. job[t] # NULL /\ deadline[job[t]] # 0
      BY <3>1, ZenonT(30) DEF IsNearest, TimedThreads
    <3>3. job[t] \in Job /\ status[job[t]] \in {"IN_PROGRESS"} \cup Final /\ job[t] # JOB_INIT
      BY <1>0, <3>2, ZenonT(30) DEF TypeOK, JobOrNull, OneOwner, InitJobInv
    <3>4. job[t] \in Node /\ status[job[t]] # "none"
      BY <3>3, ZenonT(30) DEF Job, Final
    <3>5. job' = job /\ status' = status
      BY <2>2, ZenonT(30) DEF WaitLoop
    <3>6. status[JOB_INIT] # "QUEUED"
      BY <3>4, ZenonT(30) DEF InitJobInv
    <3> QED
      BY <3>1, <3>3, <3>5, <3>6, ZenonT(30)
  <2> QED
    BY <1>5, <2>1, <2>2, ZenonT(30)
       DEF Main, Spawn, Spawned, WaitLoop, WaitTimesOut, HandleTimeout, CancelThread,
         JoinThread, FinishWait, FinishWaitTimesOut, Cleanup, CleanupJoin, AbortQueued, Exit,
         Tick, SpuriousWakeup, vars
<1> QED
  BY <1>2, <1>3, <1>4, <1>5, ZenonT(30) DEF InitJobInv

(***************************************************************************)
(* A run that is not aborted ends with all of the work done.               *)
(***************************************************************************)
\* Nothing has gone wrong so far that would end the run early: no abort, and
\* every thread could be created.
Calm ==
    /\ ~aborted
    /\ mpc \in Over /\ "create" \in Faults => \A t \in Thread : pc[t] # "none"

\* Main stops waiting only when no job is active.
WaitInv == mpc \in Over /\ Calm => num_jobs_active = 0

\* The jobs all of whose entries are to be visited.
Visited(j) ==
    \/ j = JOB_INIT
    \/ Type[j] = "DIR" /\ recursive /\ Faults \cap {"dir", "exclude"} = {}

\* process_job is through with the job.
Processed(j) ==
    \/ status[j] \in Final \cup Freed
    \/ \E t \in Thread : job[t] = j /\ pc[t] = "status"

\* A job that process_job is through with has visited its entries.
VisitInv == Calm => \A j \in Job : Visited(j) /\ Processed(j) => ~HasEntry(j)

\* When no job is active, no thread has one and none is queued.
LEMMA NoJobsLeft ==
    ASSUME IInv, CountInv, num_jobs_active = 0
    PROVE  /\ \A t \in Thread : job[t] = NULL
           /\ jobs_head = NULL
           /\ \A j \in Job : status[j] \in Gone
<1>0. TypeOK /\ OneOwner /\ QueuePointersValid /\ ListInv /\ WorkerInv
  BY DEF IInv
<1>1. Counted = {}
  BY FS_EmptySet, ZenonT(30) DEF CountInv
<1>2. \A s \in {"QUEUED", "IN_PROGRESS"} \cup Final : s \notin Gone
  BY DEF Gone, Absent, Final
<1>3. ASSUME NEW t \in Thread, job[t] # NULL PROVE FALSE
  <2>1. job[t] \in Job /\ status[job[t]] \in {"IN_PROGRESS"} \cup Final
    BY <1>0, <1>3, ZenonT(30) DEF OneOwner, TypeOK, JobOrNull
  <2>2. status[job[t]] # "QUEUED"
    BY <2>1, ZenonT(30) DEF Final
  <2>3. job[t] \notin Unqueued
    BY <1>0, <2>2, UnqueuedAreQueued, ZenonT(30)
  <2> QED
    BY <1>1, <1>2, <2>1, <2>3, ZenonT(30) DEF Counted
<1>4. ASSUME jobs_head # NULL PROVE FALSE
  <2>1. jobs_head \in Job /\ status[jobs_head] = "QUEUED"
    BY <1>0, <1>4, ZenonT(30) DEF QueuePointersValid
  <2>2. jobs_head \notin Unqueued
    BY <1>0, ZenonT(30) DEF Unqueued, ListInv
  <2> QED
    BY <1>1, <1>2, <2>1, <2>2, ZenonT(30) DEF Counted
<1>5. \A t \in Thread : chain[t] = {}
  BY <1>0, <1>3, ZenonT(30) DEF CountInv, WorkerInv, WorkerInvAt
<1>6. \A j \in Job : j \notin Unqueued
  BY <1>5, ZenonT(30) DEF Unqueued
<1> QED
  BY <1>1, <1>3, <1>4, <1>6, ZenonT(30) DEF Counted

\* No worker takes back an abort.
LEMMA WorkerCalm ==
    ASSUME IInv, NEW t \in Thread, Worker(t), Calm'
    PROVE  Calm
BY WorkerFrame, ZenonT(30) DEF Calm

\* Nor does main, which does not create threads once it has stopped waiting.
LEMMA MainCalm ==
    ASSUME IInv, Main \/ Tick \/ SpuriousWakeup \/ UNCHANGED vars, Calm'
    PROVE  Calm
<1> USE DEF taskVars, queueVars, threadVars, localVars, listVars, mainVars
<1>1. ~aborted
  BY MainFrame, ZenonT(30) DEF Calm
<1>2. ASSUME mpc \in Over PROVE mpc' \in Over
  <2>1. mpc \in {"fin", "fwait", "cleanup", "cjoin", "abort", "exit", "undefined"}
    BY <1>2, ZenonT(30) DEF Over
  <2>2. mpc' \in {"fin", "fwait", "cleanup", "cjoin", "abort", "exit", "undefined"}
    BY <2>1, ZenonT(30) DEF Main, Spawn, Spawned, WaitLoop, WaitTimesOut, HandleTimeout, CancelThread,
         JoinThread, FinishWait, FinishWaitTimesOut, Cleanup, CleanupJoin, AbortQueued, Exit,
         Tick, SpuriousWakeup, vars
  <2> QED
    BY <2>2, ZenonT(30) DEF Over
<1>3. ASSUME mpc \in Over, NEW u \in Thread, pc[u] = "none" PROVE pc'[u] = "none"
  <2>1. ~Spawn /\ ~JoinThread
    BY <1>3, ZenonT(30) DEF Over, Spawn, JoinThread
  <2>2. ~(CleanupJoin /\ u = mthread)
    BY <1>3, ZenonT(30) DEF CleanupJoin, Ended
  <2> QED
    BY <1>3, <2>1, <2>2, MainFrame, ZenonT(30)
<1> QED
  BY <1>1, <1>2, <1>3, ZenonT(30) DEF Calm

\* When no job is active, no worker can create one.
LEMMA WorkerWait ==
    ASSUME IInv, CountInv, WaitInv, NEW t \in Thread, Worker(t)
    PROVE  WaitInv'
<1> USE DEF taskVars, queueVars, threadVars, localVars, listVars, mainVars
<1> SUFFICES ASSUME mpc' \in Over, Calm' PROVE num_jobs_active' = 0
  BY DEF WaitInv
<1>1. num_jobs_active = 0
  BY WorkerCalm, WorkerFrame, ZenonT(30) DEF WaitInv
<1>2. job[t] = NULL /\ WorkerInvAt(t)
  BY <1>1, NoJobsLeft, ZenonT(30) DEF IInv, WorkerInv
<1>3. Start(t) \/ GetNext(t)
  BY <1>2, ZenonT(30) DEF WorkerInvAt, Worker, Exclude, OpenOutput, ScanSpecs, QueueSpec, OpenDir,
     ReadDirEntry, QueueDir, Read, SetStatus, OutputLock, SkipEntry, BeginEntry, EndEntry,
     Finish, Cancelled
<1>4. num_jobs_active' = num_jobs_active
  BY <1>3, ZenonT(30) DEF Start, GetNext, get_next_job
<1> QED
  BY <1>1, <1>4, ZenonT(30)

\* Main leaves its wait loop when num_jobs_active is 0, or because of an abort, or
\* because no thread could be created.
LEMMA MainWait ==
    ASSUME IInv, CountInv, WaitInv, Main \/ Tick \/ SpuriousWakeup \/ UNCHANGED vars
    PROVE  WaitInv'
<1> USE DEF taskVars, queueVars, threadVars, localVars, listVars, mainVars
<1> SUFFICES ASSUME mpc' \in Over, Calm' PROVE num_jobs_active' = 0
  BY DEF WaitInv
<1>0. Calm /\ ~aborted'
  BY MainCalm, ZenonT(30) DEF Calm
<1>1. CASE mpc \in Over
  <2>1. num_jobs_active = 0
    BY <1>0, <1>1, ZenonT(30) DEF WaitInv
  <2>2. ~AbortQueued
    BY <2>1, NoJobsLeft, ZenonT(30) DEF AbortQueued, dequeue_job
  <2> QED
    BY <2>1, <2>2, MainFrame, ZenonT(30)
<1>2. CASE mpc \notin Over
  <2>1. CASE Spawn
    <3>1. "create" \in Faults /\ pc' = pc
      BY <2>1, ZenonT(30) DEF Spawn, Over
    <3>2. mthread \in Thread /\ pc[mthread] = "none"
      BY <2>1, SMTT(30) DEF Spawn, IInv, MainInv, TypeOK, Thread
    <3> QED
      BY <3>1, <3>2, ZenonT(30) DEF Calm
  <2>2. CASE WaitLoop
    <3>1. mpc' # "cwait"
      BY DEF Over
    <3>2. num_jobs_active = 0 /\ UNCHANGED num_jobs_active
      BY <1>0, <2>2, <3>1, ZenonT(30) DEF WaitLoop, Calm
    <3> QED
      BY <3>2, ZenonT(30)
  <2>3. CASE HandleTimeout
    <3>1. mpc' # "loop" /\ mpc' # "cancel"
      BY ZenonT(30) DEF Over
    <3> QED
      BY <1>0, <2>3, <3>1, ZenonT(30) DEF HandleTimeout
  <2>4. CASE ~(Spawn \/ WaitLoop \/ HandleTimeout)
    <3>1. mpc \notin {"fin", "fwait", "cleanup", "cjoin", "abort"} /\ mpc' # mpc
      BY <1>2, ZenonT(30) DEF Over
    <3>2. mpc' \in {"spawn", "loop", "reacq", "join"}
      BY <2>4, <3>1, ZenonT(30) DEF Main, Spawned, WaitTimesOut, CancelThread,
         JoinThread, FinishWait, FinishWaitTimesOut, Cleanup, CleanupJoin, AbortQueued, Exit,
         Tick, SpuriousWakeup, vars
    <3> QED
      BY <3>2, ZenonT(30) DEF Over
  <2> QED
    BY <2>1, <2>2, <2>3, <2>4, ZenonT(30)
<1> QED
  BY <1>1, <1>2, ZenonT(30)

\* A worker is through with a job only after it has visited the last entry.
LEMMA WorkerVisit ==
    ASSUME IInv, DoneInv, VisitInv, NEW t \in Thread, Worker(t)
    PROVE  VisitInv'
<1> USE DEF taskVars, queueVars, threadVars, localVars, listVars, mainVars
<1> SUFFICES ASSUME Calm', NEW j \in Job, Visited(j), Processed(j)' PROVE ~HasEntry(j)'
  BY ZenonT(30) DEF VisitInv, Visited
<1>0. /\ TypeOK /\ OneOwner /\ WorkerInvAt(t) /\ OthersKept(t) /\ Calm /\ ~aborted /\ ~aborted'
      /\ job[t] \in JobOrNull /\ JOB_INIT \in Job
      /\ Type[j] = "INIT" <=> j = JOB_INIT
  BY WorkerStep, WorkerCalm, TreeAssumption, ZenonT(30) DEF IInv, WorkerInv, Calm, TypeOK, Job
<1>1. Processed(j) => ~HasEntry(j)
  BY <1>0, ZenonT(30) DEF VisitInv
<1>2. HasEntry(j)' => HasEntry(j)
  <2>1. pos'[j] = pos[j] \/ pos'[j] = pos[j] + 1
    <3>1. pos \in [Job -> Nat]
      BY <1>0, ZenonT(30) DEF TypeOK, TaskTypeOK
    <3>2. pos' = pos \/ pos' = [pos EXCEPT ![job[t]] = @ + 1]
      BY WorkerEffect, ZenonT(30) DEF Visits
    <3> QED
      BY <3>1, <3>2, ZenonT(30)
  <2>2. pos[j] \in Nat /\ Len(Entries[j]) \in Nat
    BY <1>0, TreeAssumption, SMTT(30) DEF TypeOK, TaskTypeOK
  <2> QED
    BY <2>1, <2>2, SMTT(30) DEF HasEntry
<1>3. CASE status'[j] \in Final \cup Freed
  <2>1. CASE status'[j] = status[j]
    BY <1>1, <1>2, <1>3, <2>1, ZenonT(30) DEF Processed
  <2>2. CASE SetStatus(t) /\ j = job[t]
    BY <1>1, <1>2, <2>2, ZenonT(30) DEF Processed, SetStatus
  <2>3. CASE Finish(t) /\ j = job[t]
    <3>1. job[t] # NULL /\ pc[t] = "finish"
      BY <1>0, <2>3, ZenonT(30) DEF Finish, WorkerInvAt
    <3>2. status[j] \in Final
      BY <2>3, <3>1, ZenonT(30) DEF DoneInv
    <3> QED
      BY <1>1, <1>2, <3>2, ZenonT(30) DEF Processed
  <2>4. ~(Takes(t) /\ j = jobs_head)
    BY <1>3, ZenonT(30) DEF Takes, Final, Freed
  <2>5. ~(Visits(t) /\ j = NextEntry(job[t]))
    BY <1>3, ZenonT(30) DEF Visits, Final, Freed
  <2> QED
    BY <2>1, <2>2, <2>3, <2>4, <2>5, WorkerEffect, ZenonT(30)
<1>4. ASSUME NEW u \in Thread, job'[u] = j, pc'[u] = "status"
      PROVE  ~HasEntry(j)'
  <2>1. CASE u # t
    <3>1. pc[u] = "status" /\ job[u] = j
      BY <1>0, <1>4, <2>1, ZenonT(30) DEF OthersKept
    <3> QED
      BY <1>1, <1>2, <3>1, ZenonT(30) DEF Processed
  <2>2. CASE u = t
    <3>1. \/ Exclude(t) \/ ScanSpecs(t) \/ QueueDir(t) \/ Read(t)
          \/ OpenDir(t) /\ ("dir" \in Faults \/ ~recursive)
      <4>1. pc'[t] = "status"
        BY <1>4, <2>2, ZenonT(30)
      <4> QED
        BY <1>0, <4>1, Moves, ZenonT(30) DEF Worker
    <3>2. job'[t] = job[t] /\ job[t] = j
      <4>1. ~GetNext(t) /\ ~Finish(t)
        BY <3>1, ZenonT(30) DEF Exclude, ScanSpecs, QueueDir, Read, OpenDir, GetNext, Finish
      <4> QED
        BY <1>4, <2>2, <4>1, WorkerEffect, ZenonT(30)
    <3>3. CASE Exclude(t)
      BY <1>0, <3>2, <3>3, ZenonT(30) DEF Exclude, MayExclude, Visited
    <3>4. CASE ScanSpecs(t)
      <4>1. job[t] = JOB_INIT
        BY <1>0, <3>4, ZenonT(30) DEF ScanSpecs, WorkerInvAt
      <4>2. pc'[t] = "status"
        BY <1>4, <2>2, ZenonT(30)
      <4>3. ~HasEntry(JOB_INIT)
        BY <1>0, <3>4, <4>2, Moves, ZenonT(30)
      <4> QED
        BY <1>2, <3>2, <4>1, <4>3, ZenonT(30)
    <3>5. CASE QueueDir(t)
      BY <1>2, <3>2, <3>5, ZenonT(30) DEF QueueDir
    <3>6. CASE Read(t)
      BY <1>0, <3>2, <3>6, ZenonT(30) DEF Read, IsRead, Visited
    <3>7. CASE OpenDir(t) /\ ("dir" \in Faults \/ ~recursive)
      BY <1>0, <3>2, <3>7, ZenonT(30) DEF OpenDir, Visited
    <3> QED
      BY <3>1, <3>3, <3>4, <3>5, <3>6, <3>7, ZenonT(30)
  <2> QED
    BY <2>1, <2>2, ZenonT(30)
<1> QED
  BY <1>3, <1>4, ZenonT(30) DEF Processed

\* Main sets the status only of jobs that have timed out, which are files.
LEMMA MainVisit ==
    ASSUME IInv, CountInv, DoneInv, InitJobInv, WaitInv, VisitInv,
           Main \/ Tick \/ SpuriousWakeup \/ UNCHANGED vars
    PROVE  VisitInv'
<1> SUFFICES ASSUME Calm', NEW j \in Job, Visited(j), Processed(j)' PROVE ~HasEntry(j)'
  BY ZenonT(30) DEF VisitInv, Visited
<1>0. /\ TypeOK /\ Calm /\ NULL \notin Job /\ NULL \notin Thread
      /\ Type[j] = "INIT" <=> j = JOB_INIT
  BY MainCalm, TreeAssumption, NullIsNoThread, ZenonT(30) DEF IInv
<1>1. Processed(j) => ~HasEntry(j)
  BY <1>0, ZenonT(30) DEF VisitInv
<1>2. HasEntry(j)' <=> HasEntry(j)
  BY MainFrame, ZenonT(30) DEF HasEntry
<1>3. CASE status'[j] \in Final \cup Freed
  <2>1. CASE status'[j] = status[j]
    BY <1>1, <1>2, <1>3, <2>1, ZenonT(30) DEF Processed
  <2>2. CASE JoinThread /\ j = mjob /\ status[j] = "IN_PROGRESS"
    <3>1. pc[earliest] \in {"end", "dead"} /\ earliest \in Thread /\ job[earliest] = j
      BY <2>2, MainFrame, ZenonT(30)
    <3>2. j # NULL /\ earliest # NULL /\ status[j] \notin Final
      BY <1>0, <2>2, <3>1, ZenonT(30) DEF Final
    <3>3. IsRead(j)
      BY <2>2, <3>1, <3>2, ZenonT(30) DEF DoneInv, InitJobInv
    <3> QED
      BY <1>0, <3>3, ZenonT(30) DEF IsRead, Visited
  <2>3. CASE CleanupJoin /\ j = job[mthread]
    <3>1. mpc \in Over /\ mthread \in Thread
      BY <1>0, <2>3, ZenonT(30) DEF CleanupJoin, Over, TypeOK
    <3>2. job[mthread] = NULL
      BY <1>0, <3>1, NoJobsLeft, ZenonT(30) DEF WaitInv
    <3> QED
      BY <1>0, <2>3, <3>2, ZenonT(30)
  <2>4. CASE AbortQueued /\ j = jobs_head
    <3>1. mpc \in Over
      BY <2>4, ZenonT(30) DEF AbortQueued, Over
    <3>2. jobs_head = NULL
      BY <1>0, <3>1, NoJobsLeft, ZenonT(30) DEF WaitInv
    <3> QED
      BY <1>0, <2>4, <3>2, ZenonT(30)
  <2> QED
    BY <2>1, <2>2, <2>3, <2>4, MainFrame, ZenonT(30)
<1>4. ASSUME NEW u \in Thread, job'[u] = j, pc'[u] = "status"
      PROVE  ~HasEntry(j)'
  <2>1. pc[u] = "status"
    BY <1>4, MainFrame, ZenonT(30)
  <2>2. job[u] = j
    BY <1>0, <1>4, MainFrame, ZenonT(30)
  <2> QED
    BY <1>1, <1>2, <2>1, <2>2, ZenonT(30) DEF Processed
<1> QED
  BY <1>3, <1>4, ZenonT(30) DEF Processed

\* All of the above.
CompleteInv == IInv /\ CountInv /\ DoneInv /\ InitJobInv /\ WaitInv /\ VisitInv

\* These invariants hold in every state.
LEMMA CompleteInvariant == Spec => []CompleteInv
<1>1. Init => CompleteInv
  <2> SUFFICES ASSUME Init PROVE CompleteInv
    OBVIOUS
  <2>1. IInv /\ CountInv
    BY InitInv, CountInit, ZenonT(30)
  <2>2. DoneInv /\ WaitInv /\ (\A t \in Thread : pc[t] = "none")
    BY ZenonT(30) DEF Init, DoneInv, WaitInv, Over
  <2>3. InitJobInv
    BY TreeAssumption, ZenonT(30) DEF Init, init_queue, InitJobInv, Job, Absent
  <2>4. VisitInv
    <3>1. \A j \in Job : status[j] \in {"QUEUED", "none"}
      BY ZenonT(30) DEF Init, init_queue
    <3>2. \A j \in Job : ~Processed(j)
      BY <2>2, <3>1, ZenonT(30) DEF Processed, Final, Freed
    <3> QED
      BY <3>2, ZenonT(30) DEF VisitInv
  <2> QED
    BY <2>1, <2>2, <2>3, <2>4, ZenonT(30) DEF CompleteInv
<1>2. CompleteInv /\ [Next]_vars => CompleteInv'
  <2> SUFFICES ASSUME CompleteInv, [Next]_vars PROVE CompleteInv'
    OBVIOUS
  <2>0. IInv /\ CountInv /\ DoneInv /\ InitJobInv /\ WaitInv /\ VisitInv
    BY ZenonT(30) DEF CompleteInv
  <2>1. CASE \E t \in Thread : Worker(t)
    <3>1. PICK t \in Thread : Worker(t)
      BY <2>1, ZenonT(30)
    <3> QED
      BY <2>0, <3>1, WorkerStep, WorkerCount, WorkerDone, WorkerInitJob, WorkerWait, WorkerVisit,
         ZenonT(30) DEF CompleteInv
  <2>2. CASE Main \/ Tick \/ SpuriousWakeup \/ UNCHANGED vars
    <3>1. CountInv' /\ DoneInv' /\ InitJobInv' /\ WaitInv' /\ VisitInv'
      BY <2>0, <2>2, MainCount, MainDone, MainInitJob, MainWait, MainVisit, ZenonT(30)
    <3>2. IInv'
      BY <2>0, <2>2, MainStep, ZenonT(30)
    <3> QED
      BY <3>1, <3>2, ZenonT(30) DEF CompleteInv
  <2> QED
    BY <2>1, <2>2, ZenonT(30) DEF Next, Stopped
<1> QED
  BY <1>1, <1>2, PTL DEF Spec

\* A run whose wait ends without an abort has completed every job it ever created,
\* and visited every specification and every entry of a directory it could open.
THEOREM SuccessMeansComplete == Spec => []SuccessIsComplete
<1>1. CompleteInv => SuccessIsComplete
  <2> SUFFICES ASSUME CompleteInv,
                      mpc \in {"fin", "fwait", "cleanup", "cjoin", "abort", "exit"},
                      ~aborted, "create" \notin Faults, NEW j \in Job
               PROVE  /\ status[j] \in Absent \cup {"freed"}
                      /\ \/ j = JOB_INIT
                         \/ status[j] = "freed" /\ recursive /\ Faults \cap {"dir", "exclude"} = {}
                         => ~HasEntry(j)
    BY DEF SuccessIsComplete
  <2>1. Calm /\ mpc \in Over
    BY ZenonT(30) DEF Calm, Over
  <2>2. num_jobs_active = 0
    BY <2>1, ZenonT(30) DEF CompleteInv, WaitInv
  <2>3. \A i \in Job : status[i] \in Absent \cup {"freed"}
    BY <2>2, NoJobsLeft, ZenonT(30) DEF CompleteInv, Gone
  <2>4. status[JOB_INIT] = "freed"
    BY <2>3, ZenonT(30) DEF CompleteInv, InitJobInv, Job
  <2>5. Visited(j) /\ status[j] = "freed" => ~HasEntry(j)
    BY <2>1, ZenonT(30) DEF CompleteInv, VisitInv, Processed, Freed
  <2>6. Type[j] \notin {"INIT", "DIR"} => ~HasEntry(j)
    <3>1. pos[j] \in Nat
      BY ZenonT(30) DEF CompleteInv, IInv, TypeOK, TaskTypeOK
    <3>2. Type[j] \notin {"INIT", "DIR"} => Len(Entries[j]) = 0
      BY LeafAssumption, SMTT(30)
    <3> QED
      BY <3>1, <3>2, SMTT(30) DEF HasEntry
  <2>7. Type[j] = "INIT" <=> j = JOB_INIT
    BY TreeAssumption
  <2> QED
    BY <2>3, <2>4, <2>5, <2>6, <2>7, ZenonT(30) DEF Visited
<1> QED
  BY <1>1, CompleteInvariant, PTL
=============================================================================
