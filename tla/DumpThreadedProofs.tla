------------------------- MODULE DumpThreadedProofs -------------------------
(***************************************************************************)
(* Proofs about DumpThreaded, for every tree of entries, every number of   *)
(* threads, every combination of failures and every timeout: the inductive *)
(* invariant IInv and the safety properties that follow from it.           *)
(*                                                                         *)
(* First type correctness, given the parts of IInv that say which pointers *)
(* are not null; then what every operation on the queue and on the lists   *)
(* under construction does to the links between the jobs; then that every  *)
(* step of a worker, and then of main, preserves IInv.                     *)
(***************************************************************************)
EXTENDS DumpThreaded, TLAPS

(***************************************************************************)
(* Program counters.                                                       *)
(***************************************************************************)
\* Thread t goes on at l; of the others, some that wait may be woken.
PcStep(t, l) ==
    /\ pc' \in [Thread -> WorkerPC]
    /\ pc'[t] = l
    /\ \A u \in Thread \ {t} :
          pc'[u] = pc[u] \/ (pc[u] = "wait" /\ pc'[u] = "get")

\* What a wakeup of main may do to it.
MpcStep == mpc' = mpc \/ mpc' = main_wakeup

\* Goto moves one thread.
LEMMA GotoStep ==
    ASSUME TypeOK, NEW t \in Thread, NEW l \in WorkerPC, pc' = Goto(t, l)
    PROVE  PcStep(t, l)
  BY ZenonT(30) DEF TypeOK, PcStep, Goto

\* _worker_wakeup_all moves waiting threads only.
LEMMA WakeupAllStep ==
    ASSUME TypeOK, NEW t \in Thread, NEW l \in WorkerPC \ {"wait"},
           pc' = worker_wakeup_all(Goto(t, l))
    PROVE  PcStep(t, l)
  BY ZenonT(30) DEF TypeOK, PcStep, Goto, worker_wakeup_all, WorkerPC

\* _worker_wakeup_one moves at most one waiting thread.
LEMMA WakeupOneStep ==
    ASSUME TypeOK, NEW t \in Thread, NEW l \in WorkerPC \ {"wait"},
           pc' \in worker_wakeup_one(Goto(t, l))
    PROVE  PcStep(t, l)
<1> DEFINE p == Goto(t, l)
<1>1. p \in [Thread -> WorkerPC] /\ p[t] = l /\ \A u \in Thread \ {t} : p[u] = pc[u]
  BY ZenonT(30) DEF TypeOK, Goto
<1>2. \/ pc' = p
      \/ \E u \in Thread : p[u] = "wait" /\ pc' = [p EXCEPT ![u] = "get"]
  BY ZenonT(30) DEF worker_wakeup_one
<1>3. CASE pc' = p
  BY <1>1, <1>3, ZenonT(30) DEF PcStep
<1>4. CASE \E u \in Thread : p[u] = "wait" /\ pc' = [p EXCEPT ![u] = "get"]
  <2>1. PICK u \in Thread : p[u] = "wait" /\ pc' = [p EXCEPT ![u] = "get"]
    BY <1>4, ZenonT(30)
  <2>2. u # t
    BY <1>1, <2>1, ZenonT(30)
  <2> HIDE DEF p
  <2>3. QED
    BY <1>1, <2>1, <2>2, ZenonT(30) DEF PcStep, WorkerPC
<1>5. QED
  BY <1>2, <1>3, <1>4, ZenonT(30)

\* set_aborted moves the caller on and wakes everybody.
LEMMA SetAbortedStep ==
    ASSUME TypeOK, NEW t \in Thread, NEW l \in WorkerPC \ {"wait"}, NEW cond,
           set_aborted_if(cond, t, l)
    PROVE  PcStep(t, l) /\ MpcStep /\ aborted' \in BOOLEAN
<1>1. CASE cond
  <2>1. aborted' = TRUE /\ pc' = worker_wakeup_all(Goto(t, l)) /\ mpc' = main_wakeup
    BY <1>1, ZenonT(30) DEF set_aborted_if
  <2>2. QED
    BY <2>1, WakeupAllStep, ZenonT(30) DEF MpcStep
<1>2. CASE ~cond
  <2>1. pc' = Goto(t, l) /\ aborted' = aborted /\ mpc' = mpc
    BY <1>2, ZenonT(30) DEF set_aborted_if
  <2>2. QED
    BY <2>1, GotoStep, ZenonT(30) DEF MpcStep, TypeOK, TaskTypeOK
<1>3. QED
  BY <1>1, <1>2, ZenonT(30)

\* A woken main thread is at a program location again.
LEMMA MpcStepType ==
    ASSUME TypeOK, MpcStep
    PROVE  mpc' \in MainPC
  BY ZenonT(30) DEF TypeOK, MpcStep, main_wakeup, MainPC

(***************************************************************************)
(* Type correctness.                                                       *)
(***************************************************************************)

\* account_stats returns statistics.
LEMMA AccountType ==
    ASSUME TaskTypeOK, NEW j, NEW st
    PROVE  account_stats(j, st) \in Stats
  BY DEF TaskTypeOK, Stats, Counter, account_stats, CountIf, NumEntries

\* The next entry of a directory that has one is a job.
LEMMA NextEntryType ==
    ASSUME TypeOK, NEW d \in Job, HasEntry(d)
    PROVE  /\ NextEntry(d) \in Node
           /\ NextEntry(d) \in Job
           /\ pos[d] + 1 \in 1..Len(Entries[d])
<1>1. Entries[d] \in Seq(Node)
  BY TreeAssumption, ZenonT(30)
<1>2. pos[d] \in Nat /\ Len(Entries[d]) \in Nat
  BY <1>1 DEF TypeOK, TaskTypeOK
<1>3. pos[d] + 1 \in 1..Len(Entries[d])
  BY <1>2 DEF HasEntry
<1>4. Entries[d][pos[d] + 1] \in Node
  BY <1>1, <1>3
<1>5. QED
  BY <1>3, <1>4, ZenonT(30) DEF NextEntry, Job

\* create_job leaves the task well-typed.
LEMMA CreateType ==
    ASSUME TypeOK, NEW d \in Job,
           create_job_CannotStat(d) \/ create_job_TypeExcluded(d) \/ create_job(d)
    PROVE  /\ status' \in [Job -> Status]
           /\ stats' \in Stats
           /\ pos' \in [Job -> Nat]
  BY SMTT(30) DEF TypeOK, TaskTypeOK, create_job_CannotStat, create_job_TypeExcluded,
         create_job, Status, Absent, Stats, Counter

\* The queue operations keep the pointers well-typed.
LEMMA QueueType ==
    ASSUME TypeOK
    PROVE  /\ dequeue_job => /\ next_job' \in [Job -> JobOrNull]
                             /\ jobs_head' \in JobOrNull
                             /\ jobs_tail' \in JobOrNull
                             /\ jobs_head \in Job
           /\ \A j \in Job : queue_job_tail(j) =>
                             /\ next_job' \in [Job -> JobOrNull]
                             /\ jobs_head' \in JobOrNull
                             /\ jobs_tail' \in JobOrNull
           /\ \A i, j \in Job : queue_jobs_list(i, j) =>
                             /\ next_job' \in [Job -> JobOrNull]
                             /\ jobs_head' \in JobOrNull
                             /\ jobs_tail' \in JobOrNull
  BY SMTT(30) DEF TypeOK, TaskTypeOK, JobOrNull, dequeue_job, queue_job_tail,
         queue_jobs_list

\* One round of _get_next_job keeps the types, whatever the section did before.
LEMMA GetNextType ==
    ASSUME TypeOK, NEW t \in Thread, NEW st \in [Job -> Status],
           NEW active \in Int, NEW jb \in [Thread -> JobOrNull], NEW woken,
           get_next_job(t, st, active, jb, woken)
    PROVE  /\ status' \in [Job -> Status]
           /\ next_job' \in [Job -> JobOrNull]
           /\ jobs_head' \in JobOrNull
           /\ jobs_tail' \in JobOrNull
           /\ num_jobs_active' \in Int
           /\ pc' \in [Thread -> WorkerPC]
           /\ mpc' \in MainPC
           /\ job' \in [Thread -> JobOrNull]
           /\ running' \in [Thread -> BOOLEAN]
           /\ deadline' \in [Job -> Nat]
<1>0. pc \in [Thread -> WorkerPC] /\ running \in [Thread -> BOOLEAN]
      /\ deadline \in [Job -> Nat] /\ now \in Nat /\ file_timeout \in Nat
  BY ThreadedAssumption DEF TypeOK
<1>1. MpcStep
  BY ZenonT(30) DEF get_next_job, LeaveLoop, MpcStep
<1>2. pc' \in [Thread -> WorkerPC]
  BY <1>0, ZenonT(30) DEF get_next_job, LeaveLoop, Goto, WorkerPC
<1>3. num_jobs_active' \in Int /\ running' \in [Thread -> BOOLEAN]
  BY <1>0, ZenonT(30) DEF get_next_job, LeaveLoop
<1>4. CASE dequeue_job /\ status' = [st EXCEPT ![jobs_head] = "IN_PROGRESS"]
           /\ job' = [jb EXCEPT ![t] = jobs_head]
           /\ deadline' = IF Timed(jobs_head)
                          THEN [deadline EXCEPT ![jobs_head] = now + file_timeout]
                          ELSE deadline
  <2>1. status' \in [Job -> Status] /\ job' \in [Thread -> JobOrNull]
    BY <1>4, QueueType, ZenonT(30) DEF Status, JobOrNull
  <2>2. deadline' \in [Job -> Nat]
    <3>1. now + file_timeout \in Nat
      BY <1>0
    <3>2. [deadline EXCEPT ![jobs_head] = now + file_timeout] \in [Job -> Nat]
      BY <1>0, <3>1, ZenonT(30)
    <3>3. QED
      BY <1>0, <1>4, <3>2, ZenonT(30)
  <2>3. QED
    BY <1>1, <1>2, <1>3, <1>4, <2>1, <2>2, QueueType, MpcStepType, ZenonT(30)
<1>5. CASE status' = st /\ job' = jb /\ UNCHANGED <<queueVars, deadline>>
  BY <1>0, <1>1, <1>2, <1>3, <1>5, MpcStepType, ZenonT(30) DEF queueVars, TypeOK, TaskTypeOK
<1>6. QED
  BY <1>4, <1>5 DEF get_next_job

\* Every step of a worker keeps the types.
LEMMA WorkerType ==
    ASSUME TypeOK, WorkerInv, OneOwner, ListInv, NEW t \in Thread, Worker(t)
    PROVE  TypeOK'
<1> USE DEF TypeOK, TaskTypeOK, taskVars, queueVars, archiveVars, threadVars,
            localVars, listVars, mainVars
<1>0. /\ MpcStep => mpc' \in MainPC
      /\ \A l \in WorkerPC : PcStep(t, l) => pc' \in [Thread -> WorkerPC]
  BY MpcStepType, ZenonT(30) DEF PcStep
<1>1. CASE Start(t)
  <2>1. stats' \in Stats
    BY <1>1, AccountType DEF Start
  <2>2. pc' \in [Thread -> WorkerPC]
    BY <1>1, SMTT(30) DEF Start, Goto, WorkerPC
  <2>3. QED
    BY <1>1, <2>1, <2>2, ZenonT(30) DEF Start
<1>2. CASE GetNext(t)
  BY <1>2, GetNextType, ZenonT(30) DEF GetNext
<1>3. CASE Exclude(t)
  BY <1>3, ZenonT(30) DEF Exclude, Result, Goto, WorkerPC, Final
<1>4. CASE OpenOutput(t)
  <2>1. aborted' \in BOOLEAN /\ mpc' \in MainPC /\ pc' \in [Thread -> WorkerPC]
    <3>1. CASE set_aborted_if(TRUE, t, "status")
      BY <3>1, <1>0, SetAbortedStep, ZenonT(30) DEF WorkerPC
    <3>2. CASE pc' = Goto(t, "scan") /\ UNCHANGED <<aborted, mpc, result>>
      BY <3>2, ZenonT(30) DEF Goto, WorkerPC
    <3>3. QED
      BY <3>1, <3>2, <1>4, ZenonT(30) DEF OpenOutput
  <2>2. QED
    BY <1>4, <2>1, ZenonT(30) DEF OpenOutput, Result, Final
<1>5. CASE ScanSpecs(t)
  BY <1>5, ZenonT(30) DEF ScanSpecs, Result, Goto, WorkerPC, Final
<1>6. CASE QueueSpec(t)
  <2>1. NextEntry(JOB_INIT) \in Job /\ JOB_INIT \in Job
    BY <1>6, NextEntryType, ZenonT(30) DEF QueueSpec, WorkerInv, WorkerInvAt, Job
  <2>2. status' \in [Job -> Status] /\ stats' \in Stats /\ pos' \in [Job -> Nat]
    BY <1>6, <2>1, CreateType, ZenonT(30) DEF QueueSpec
  <2>3. aborted' \in BOOLEAN /\ mpc' \in MainPC /\ pc' \in [Thread -> WorkerPC]
    <3>1. CASE set_aborted_if(read_error_aborts, t, "scan")
      BY <3>1, <1>0, SetAbortedStep, ZenonT(30) DEF WorkerPC
    <3>2. CASE pc' = Goto(t, "scan") /\ UNCHANGED <<aborted, mpc>>
      BY <3>2, ZenonT(30) DEF Goto, WorkerPC
    <3>3. CASE pc' \in worker_wakeup_one(Goto(t, "scan")) /\ UNCHANGED <<aborted, mpc>>
      BY <3>3, <1>0, WakeupOneStep, ZenonT(30) DEF WorkerPC
    <3>4. QED
      BY <3>1, <3>2, <3>3, <1>6, ZenonT(30) DEF QueueSpec
  <2>4. /\ next_job' \in [Job -> JobOrNull] /\ jobs_head' \in JobOrNull
        /\ jobs_tail' \in JobOrNull /\ num_jobs_active' \in Int
    BY <1>6, <2>1, QueueType DEF QueueSpec
  <2>5. QED
    BY <1>6, <2>2, <2>3, <2>4, ZenonT(30) DEF QueueSpec
<1>7. CASE OpenDir(t)
  <2>1. aborted' \in BOOLEAN /\ mpc' \in MainPC /\ pc' \in [Thread -> WorkerPC]
    <3>1. CASE set_aborted_if(read_error_aborts, t, "status")
      BY <3>1, <1>0, SetAbortedStep, ZenonT(30) DEF WorkerPC
    <3>2. CASE pc' = Goto(t, "readdir") /\ UNCHANGED <<aborted, mpc>>
      BY <3>2, ZenonT(30) DEF Goto, WorkerPC
    <3>3. CASE pc' = Goto(t, "status") /\ UNCHANGED <<aborted, mpc>>
      BY <3>3, ZenonT(30) DEF Goto, WorkerPC
    <3>4. QED
      BY <3>1, <3>2, <3>3, <1>7, ZenonT(30) DEF OpenDir
  <2>2. QED
    BY <1>7, <2>1, ZenonT(30) DEF OpenDir, Result, Final
<1>8. CASE ReadDirEntry(t)
  <2>1. job[t] \in Job /\ NextEntry(job[t]) \in Job
    BY <1>8, NextEntryType, ZenonT(30) DEF ReadDirEntry, WorkerInv, WorkerInvAt, JobOrNull
  <2>2. status' \in [Job -> Status] /\ stats' \in Stats /\ pos' \in [Job -> Nat]
    BY <1>8, <2>1, CreateType, ZenonT(30) DEF ReadDirEntry
  <2>3. aborted' \in BOOLEAN /\ mpc' \in MainPC /\ pc' \in [Thread -> WorkerPC]
    <3>1. CASE set_aborted_if(read_error_aborts, t, "readdir")
      BY <3>1, <1>0, SetAbortedStep, ZenonT(30) DEF WorkerPC
    <3>2. CASE UNCHANGED <<pc, aborted, mpc>>
      BY <3>2, ZenonT(30)
    <3>3. QED
      BY <3>1, <3>2, <1>8, ZenonT(30) DEF ReadDirEntry
  <2>4. next_job' \in [Job -> JobOrNull]
    BY <1>8, <2>1, ZenonT(30) DEF ReadDirEntry, JobOrNull
  <2>5. /\ first' \in [Thread -> JobOrNull] /\ last' \in [Thread -> JobOrNull]
        /\ num' \in [Thread -> Nat] /\ chain' \in [Thread -> SUBSET Job]
    BY <1>8, <2>1, SMTT(30) DEF ReadDirEntry, JobOrNull
  <2>6. QED
    BY <1>8, <2>2, <2>3, <2>4, <2>5, ZenonT(30) DEF ReadDirEntry
<1>9. CASE QueueDir(t)
  <2>1. first[t] # NULL => first[t] \in Job /\ last[t] \in Job
    BY ZenonT(30) DEF ListInv, JobOrNull
  <2>2. pc' \in [Thread -> WorkerPC]
    BY <1>9, GotoStep, WakeupAllStep, ZenonT(30) DEF QueueDir, PcStep, WorkerPC
  <2>3. /\ next_job' \in [Job -> JobOrNull] /\ jobs_head' \in JobOrNull
        /\ jobs_tail' \in JobOrNull /\ num_jobs_active' \in Int
    BY <1>9, <2>1, QueueType, SMTT(30) DEF QueueDir
  <2>4. QED
    BY <1>9, <2>2, <2>3, ZenonT(30) DEF QueueDir, Result, Final, JobOrNull
<1>10. CASE Read(t)
  <2>1. aborted' \in BOOLEAN /\ mpc' \in MainPC /\ pc' \in [Thread -> WorkerPC]
    <3>1. CASE set_aborted_if(read_error_aborts, t, "status")
      BY <3>1, <1>0, SetAbortedStep DEF WorkerPC
    <3>2. CASE pc' = Goto(t, "status") /\ UNCHANGED <<aborted, mpc>>
      BY <3>2 DEF Goto, WorkerPC
    <3>3. QED
      BY <3>1, <3>2, <1>10, ZenonT(30) DEF Read
  <2>2. QED
    BY <1>10, <2>1, ZenonT(30) DEF Read, Result, Final
<1>11. CASE SetStatus(t)
  <2>1. stats' \in Stats
    BY <1>11, AccountType, ZenonT(30) DEF SetStatus
  <2>2. status' \in [Job -> Status]
    BY <1>11, ZenonT(30) DEF SetStatus, Status
  <2>3. QED
    BY <1>11, <2>1, <2>2, ZenonT(30) DEF SetStatus, Goto, WorkerPC
<1>12. CASE OutputLock(t)
  BY <1>12, ZenonT(30) DEF OutputLock, Goto, WorkerPC, ThreadOrNull
<1>13. CASE SkipEntry(t)
  BY <1>13, ZenonT(30) DEF SkipEntry, Goto, WorkerPC, ThreadOrNull
<1>14. CASE BeginEntry(t)
  BY <1>14, ZenonT(30) DEF BeginEntry, Goto, WorkerPC
<1>15. CASE EndEntry(t)
  <2>1. PICK failed \in BOOLEAN, exceeded \in BOOLEAN :
          set_aborted_if(failed \/ exceeded, t,
                         IF pc[t] = "writing" /\ NumEntries(job[t]) = 2
                         THEN "wstatus" ELSE "finish")
    BY <1>15, ZenonT(30) DEF EndEntry
  <2>2. aborted' \in BOOLEAN /\ mpc' \in MainPC /\ pc' \in [Thread -> WorkerPC]
    <3>1. CASE set_aborted_if(failed \/ exceeded, t, "wstatus")
      BY <3>1, <1>0, SetAbortedStep, ZenonT(30) DEF WorkerPC
    <3>2. CASE set_aborted_if(failed \/ exceeded, t, "finish")
      BY <3>2, <1>0, SetAbortedStep, ZenonT(30) DEF WorkerPC
    <3>3. QED
      BY <2>1, <3>1, <3>2, ZenonT(30)
  <2>3. torn' \in [Job -> Nat] /\ whole' \in [Job -> Nat]
    <3>1. job[t] \in Job
      BY <1>15, ZenonT(30) DEF EndEntry, WorkerInv, WorkerInvAt, JobOrNull
    <3>2. /\ [torn EXCEPT ![job[t]] = @ + 1] \in [Job -> Nat]
          /\ [whole EXCEPT ![job[t]] = @ + 1] \in [Job -> Nat]
      BY <3>1
    <3>3. /\ torn' = torn \/ torn' = [torn EXCEPT ![job[t]] = @ + 1]
          /\ whole' = whole \/ whole' = [whole EXCEPT ![job[t]] = @ + 1]
      BY <1>15, ZenonT(30) DEF EndEntry
    <3>4. QED
      BY <3>2, <3>3, ZenonT(30)
  <2>4. output_num_files' \in Nat /\ output_mutex' \in ThreadOrNull
    <3>1. output_num_files' \in Nat
      BY <1>15 DEF EndEntry
    <3>2. output_mutex' \in ThreadOrNull
      BY <1>15, ZenonT(30) DEF EndEntry, ThreadOrNull
    <3>3. QED
      BY <3>1, <3>2, ZenonT(30)
  <2>5. QED
    BY <1>15, <2>2, <2>3, <2>4, ZenonT(30) DEF EndEntry
<1>16. CASE Finish(t)
  <2>1. CASE timed_out[t]
    <3>1. MpcStep
      BY <1>16, <2>1, ZenonT(30) DEF Finish, LeaveLoop, MpcStep
    <3>2. QED
      BY <1>0, <1>16, <2>1, <3>1, ZenonT(30) DEF Finish, LeaveLoop, Goto, WorkerPC
  <2>2. CASE ~timed_out[t]
    <3> DEFINE st == [status EXCEPT ![job[t]] = "freed"]
               jb == [job EXCEPT ![t] = NULL]
               active == num_jobs_active - 1
    <3>1. st \in [Job -> Status] /\ jb \in [Thread -> JobOrNull] /\ active \in Int
      <4>1. "freed" \in Status /\ NULL \in JobOrNull
        BY ZenonT(30) DEF Status, Freed, JobOrNull
      <4>2. st \in [Job -> Status]
        BY <4>1, ZenonT(30)
      <4>3. jb \in [Thread -> JobOrNull]
        BY <4>1, ZenonT(30)
      <4>4. active \in Int
        OBVIOUS
      <4>5. QED
        BY <4>2, <4>3, <4>4, ZenonT(30)
    <3>2. CASE leftover[t]
      <4>1. MpcStep
        BY <1>16, <2>2, <3>2, ZenonT(30) DEF Finish, MpcStep
      <4>2. QED
        BY <1>0, <1>16, <2>2, <3>1, <3>2, <4>1, ZenonT(30) DEF Finish, Goto, WorkerPC
    <3>3. CASE ~leftover[t]
      <4>1. get_next_job(t, st, active, jb, active = 0)
        BY <1>16, <2>2, <3>3, ZenonT(30) DEF Finish
      <4> HIDE DEF st, jb, active
      <4>2. /\ status' \in [Job -> Status]
            /\ next_job' \in [Job -> JobOrNull]
            /\ jobs_head' \in JobOrNull
            /\ jobs_tail' \in JobOrNull
            /\ num_jobs_active' \in Int
            /\ pc' \in [Thread -> WorkerPC]
            /\ mpc' \in MainPC
            /\ job' \in [Thread -> JobOrNull]
            /\ running' \in [Thread -> BOOLEAN]
            /\ deadline' \in [Job -> Nat]
        BY <3>1, <4>1, GetNextType, ZenonT(30)
      <4>3. QED
        BY <1>16, <2>2, <4>2, ZenonT(30) DEF Finish
    <3>4. QED
      BY <3>2, <3>3, ZenonT(30)
  <2>3. QED
    BY <2>1, <2>2, ZenonT(30)
<1>17. CASE Cancelled(t)
  BY <1>17 DEF Cancelled, Goto, WorkerPC, ThreadOrNull
<1>18. QED
  BY <1>1, <1>2, <1>3, <1>4, <1>5, <1>6, <1>7, <1>8, <1>9, <1>10, <1>11, <1>12, ZenonT(30),
     <1>13, <1>14, <1>15, <1>16, <1>17 DEF Worker

\* Waking all workers while none of them moves keeps the types.
LEMMA WakeupAllType ==
    ASSUME NEW p \in [Thread -> WorkerPC]
    PROVE  worker_wakeup_all(p) \in [Thread -> WorkerPC]
  BY ZenonT(30) DEF worker_wakeup_all, WorkerPC

\* Every step of main, of the clock, and a spurious wakeup keep the types.
LEMMA MainType ==
    ASSUME TypeOK, MainInv, Main \/ Tick \/ SpuriousWakeup \/ UNCHANGED vars
    PROVE  TypeOK'
<1> USE DEF TypeOK, TaskTypeOK, taskVars, queueVars, archiveVars, threadVars,
            localVars, listVars, mainVars
<1>0. jobs \in Nat /\ timeout \in Nat /\ 1 \in Thread
  BY ThreadedAssumption DEF Thread
<1>1. CASE Spawn
  BY <1>0, <1>1, ZenonT(30) DEF Spawn, Goto, WorkerPC, MainPC
<1>2. CASE Spawned
  <2>1. mthread' \in Thread
    BY <1>0, <1>2 DEF Spawned, Thread
  <2>2. QED
    BY <1>2, <2>1, ZenonT(30) DEF Spawned, MainPC
<1>3. CASE WaitLoop
  <2>1. pc' \in [Thread -> WorkerPC]
    BY <1>3, WakeupAllType, ZenonT(30) DEF WaitLoop
  <2>2. mpc' \in MainPC
    BY <1>3, ZenonT(30) DEF WaitLoop, MainPC
  <2>3. earliest' \in ThreadOrNull /\ wdeadline' \in Nat
    <3>1. CASE \E t \in Thread : /\ IsNearest(t)
                                 /\ earliest' = t
                                 /\ wdeadline' = deadline[job[t]]
      <4>1. PICK t \in Thread : /\ IsNearest(t)
                                /\ earliest' = t
                                /\ wdeadline' = deadline[job[t]]
        BY <3>1, ZenonT(30)
      <4>2. job[t] \in Job
        BY <4>1, ZenonT(30) DEF IsNearest, TimedThreads, JobOrNull
      <4>3. QED
        BY <4>1, <4>2, ZenonT(30) DEF ThreadOrNull
    <3>2. CASE earliest' = NULL /\ wdeadline' = timeout
      BY <1>0, <3>2, ZenonT(30) DEF ThreadOrNull
    <3>3. CASE UNCHANGED <<earliest, wdeadline>>
      BY <3>3, ZenonT(30)
    <3>4. QED
      BY <1>3, <3>1, <3>2, <3>3, ZenonT(30) DEF WaitLoop
  <2>4. QED
    BY <1>3, <2>1, <2>2, <2>3, ZenonT(30) DEF WaitLoop
<1>4. CASE WaitTimesOut
  BY <1>4, ZenonT(30) DEF WaitTimesOut, MainPC
<1>5. CASE HandleTimeout
  <2>1. pc' \in [Thread -> WorkerPC]
    BY <1>5, WakeupAllType, ZenonT(30) DEF HandleTimeout
  <2>2. mjob' \in JobOrNull
    BY <1>5, SMTT(30) DEF HandleTimeout, ThreadOrNull
  <2>3. QED
    BY <1>5, <2>1, <2>2, ZenonT(30) DEF HandleTimeout, MainPC
<1>6. CASE CancelThread
  BY <1>6, ZenonT(30) DEF CancelThread, MainPC
<1>7. CASE JoinThread
  <2>1. status' \in [Job -> Status]
    BY <1>7, ZenonT(30) DEF JoinThread, Status, Final
  <2>2. aborted' \in BOOLEAN /\ running' \in [Thread -> BOOLEAN]
    BY <1>7, ZenonT(30) DEF JoinThread
  <2>3. pc' \in [Thread -> WorkerPC]
    <3>1. /\ Goto(earliest, "start") \in [Thread -> WorkerPC]
          /\ Goto(earliest, "joined") \in [Thread -> WorkerPC]
      BY ZenonT(30) DEF Goto, WorkerPC
    <3>2. \E l \in {"start", "joined"} :
            \/ pc' = Goto(earliest, l)
            \/ pc' = worker_wakeup_all(Goto(earliest, l))
      BY <1>7, ZenonT(30) DEF JoinThread
    <3>3. QED
      BY <3>1, <3>2, WakeupAllType, ZenonT(30)
  <2>4. QED
    BY <1>7, <2>1, <2>2, <2>3, ZenonT(30) DEF JoinThread, MainPC, JobOrNull
<1>8. CASE FinishWait
  BY <1>8, ZenonT(30) DEF FinishWait, MainPC
<1>9. CASE FinishWaitTimesOut
  BY <1>9, ZenonT(30) DEF FinishWaitTimesOut, MainPC
<1>10. CASE Cleanup
  BY <1>10, ZenonT(30) DEF Cleanup, MainPC
<1>11. CASE CleanupJoin
  <2>1. status' \in [Job -> Status]
    BY <1>11, ZenonT(30) DEF CleanupJoin, Status, Freed
  <2>2. mthread' \in Thread /\ mpc' \in MainPC
    <3>1. mthread' \in Thread
      BY <1>0, <1>11 DEF CleanupJoin, Thread
    <3>2. mpc' \in MainPC
      BY <1>11, ZenonT(30) DEF CleanupJoin, MainPC
    <3>3. QED
      BY <3>1, <3>2, ZenonT(30)
  <2>3. pc' \in [Thread -> WorkerPC] /\ job' \in [Thread -> JobOrNull]
    BY <1>11, ZenonT(30) DEF CleanupJoin, Goto, WorkerPC, JobOrNull
  <2>4. QED
    BY <1>11, <2>1, <2>2, <2>3, ZenonT(30) DEF CleanupJoin
<1>12. CASE AbortQueued
  <2>1. status' \in [Job -> Status]
    BY <1>12, ZenonT(30) DEF AbortQueued, Status, Freed
  <2>2. stats' \in Stats
    BY <1>12, SMTT(30) DEF AbortQueued, Stats, Counter
  <2>3. QED
    BY <1>12, <2>1, <2>2, QueueType DEF AbortQueued
<1>13. CASE Exit
  <2>1. aborted' \in BOOLEAN
    BY <1>13, ZenonT(30) DEF Exit
  <2>2. QED
    BY <1>13, <2>1, ZenonT(30) DEF Exit, MainPC
<1>14. CASE Tick
  <2>1. now' \in Nat
    BY <1>14 DEF Tick
  <2>2. QED
    BY <1>14, <2>1, ZenonT(30) DEF Tick
<1>15. CASE SpuriousWakeup
  BY <1>15, ZenonT(30) DEF SpuriousWakeup, Goto, WorkerPC, MainPC
<1>16. CASE UNCHANGED vars
  BY <1>16, ZenonT(30) DEF vars
<1>17. QED
  BY <1>1, <1>2, <1>3, <1>4, <1>5, <1>6, <1>7, <1>8, <1>9, <1>10, <1>11, <1>12, ZenonT(30),
     <1>13, <1>14, <1>15, <1>16 DEF Main

(***************************************************************************)
(* The queue and the lists: what each operation does to the links.         *)
(***************************************************************************)
QueueInv ==
    /\ QueuePointersValid
    /\ FreshInv
    /\ ListInv
    /\ LinkInv

\* A status of a job that is neither waiting nor absent.
Settled == Status \ ({"QUEUED"} \cup Absent)

\* Job j keeps its status, or is settled before and after the step.
KeepsOrSettled(j) ==
    status'[j] = status[j] \/ (status[j] \in Settled /\ status'[j] \in Settled)

\* Steps that leave links and lists alone and settle no queued job.
LEMMA QueueUnchanged ==
    ASSUME TypeOK, QueueInv, \A j \in Job : KeepsOrSettled(j),
           UNCHANGED <<queueVars, first, last, chain, pos>>
    PROVE  QueueInv'
<1> USE DEF queueVars
<1>0. \A j \in Job : /\ status'[j] = "QUEUED" <=> status[j] = "QUEUED"
                     /\ status'[j] \in Absent => status'[j] = status[j]
                     /\ status[j] = "none" => status'[j] = "none"
  BY ZenonT(30) DEF KeepsOrSettled, Settled, Absent
<1>1. Queued' = Queued
  BY <1>0, ZenonT(30) DEF Queued
<1>2. QueuePointersValid'
  BY <1>0, ZenonT(30) DEF QueueInv, QueuePointersValid
<1>3. FreshInv'
  <2>1. \A d \in Job : \A i \in 1..Len(Entries[d]) : Entries[d][i] \in Job
    BY TreeAssumption DEF Job
  <2>2. QED
    BY <1>0, <2>1, ZenonT(30) DEF QueueInv, FreshInv
<1>4. ListInv'
  BY <1>1, ZenonT(30) DEF QueueInv, ListInv
<1>5. LinkInv'
  BY <1>1, ZenonT(30) DEF QueueInv, LinkInv
<1>6. QED
  BY <1>2, <1>3, <1>4, <1>5, ZenonT(30) DEF QueueInv

\* _dequeue_job takes the head out; its successor becomes the head.
LEMMA DequeueStep ==
    ASSUME TypeOK, QueueInv, dequeue_job, status'[jobs_head] \in Settled,
           \A j \in Job \ {jobs_head} : KeepsOrSettled(j),
           UNCHANGED <<listVars, pos>>
    PROVE  QueueInv'
<1> USE DEF listVars
<1> DEFINE h == jobs_head
<1>0. h \in Job /\ status[h] = "QUEUED" /\ NULL \notin Job
  BY TreeAssumption, ZenonT(30) DEF dequeue_job, TypeOK, TaskTypeOK, JobOrNull, QueueInv,
                        QueuePointersValid
<1>1. Queued' = Queued \ {h}
  BY <1>0, ZenonT(30) DEF Queued, KeepsOrSettled, Settled
<1>2. /\ next_job'[h] = NULL
      /\ \A j \in Job \ {h} : next_job'[j] = next_job[j]
      /\ jobs_head' = next_job[h]
      /\ jobs_tail' = IF h = jobs_tail THEN NULL ELSE jobs_tail
  BY <1>0, ZenonT(30) DEF dequeue_job, TypeOK, TaskTypeOK
<1>3. \A j \in Queued \ {h} : next_job[j] # h
  BY <1>0, ZenonT(30) DEF QueueInv, LinkInv
<1>4. \A t \in Thread : h \notin chain[t] /\ first[t] # h /\ last[t] # h
  BY <1>0, ZenonT(30) DEF QueueInv, ListInv
<1>5. next_job[h] # h
  BY <1>0, ZenonT(30) DEF QueueInv, LinkInv, Queued
<1>6. QueuePointersValid'
  <2>1. \A j \in Queued \ {h} : j \in Job /\ status'[j] = "QUEUED"
    BY <1>1, ZenonT(30) DEF Queued
  <2>2. /\ next_job[h] = NULL \/ next_job[h] \in Queued \ {h}
        /\ jobs_tail = NULL \/ jobs_tail \in Queued
        /\ \A t \in Thread : /\ first[t] = NULL \/ first[t] \in Queued \ {h}
                             /\ last[t] = NULL \/ last[t] \in Queued \ {h}
        /\ \A j \in Queued \ {h} : next_job[j] = NULL \/ next_job[j] \in Queued \ {h}
    BY <1>0, <1>3, <1>4, <1>5, ZenonT(30) DEF QueueInv, QueuePointersValid, Queued
  <2>3. \A j \in Job : status'[j] = "QUEUED" => j \in Queued \ {h}
    BY <1>1, ZenonT(30) DEF Queued
  <2>4. QED
    BY <1>2, <2>1, <2>2, <2>3, ZenonT(30) DEF QueuePointersValid
<1>7. FreshInv'
  <2>1. \A d \in Job : \A i \in 1..Len(Entries[d]) : Entries[d][i] \in Job
    BY TreeAssumption DEF Job
  <2>2. \A j \in Job : /\ status[j] = "none" => status'[j] = "none"
                       /\ status'[j] \in Absent => status'[j] = status[j]
    BY <1>0, ZenonT(30) DEF KeepsOrSettled, Settled, Absent
  <2>3. QED
    BY <1>0, <1>2, <2>1, <2>2, ZenonT(30) DEF QueueInv, FreshInv
<1>8. ListInv'
  <2> SUFFICES ASSUME NEW t \in Thread
               PROVE  /\ chain[t] \subseteq Queued'
                      /\ jobs_head' \notin chain[t]
                      /\ jobs_tail' \notin chain[t]
                      /\ \A j \in Queued' \ chain[t] : next_job'[j] \notin chain[t]
                      /\ \A j \in chain[t] : next_job'[j] \in chain[t] \cup {NULL}
    BY ZenonT(30) DEF QueueInv, ListInv
  <2>1. chain[t] \subseteq Queued \ {h}
    BY <1>4, ZenonT(30) DEF QueueInv, ListInv
  <2>2. jobs_head' \notin chain[t]
    BY <1>0, <1>2, <1>4, ZenonT(30) DEF QueueInv, ListInv, Queued
  <2>3. jobs_tail' \notin chain[t]
    BY <1>0, <1>2, <2>1, ZenonT(30) DEF QueueInv, ListInv, Queued
  <2>4. \A j \in Queued \ {h} : next_job'[j] = next_job[j]
    BY <1>2, ZenonT(30) DEF Queued
  <2>5. QED
    BY <1>1, <2>1, <2>2, <2>3, <2>4, ZenonT(30) DEF QueueInv, ListInv
<1>9. LinkInv'
  <2>1. \A j \in Queued \ {h} : next_job'[j] = next_job[j]
    BY <1>2, ZenonT(30) DEF Queued
  <2>2. h \in Queued
    BY <1>0, ZenonT(30) DEF Queued
  <2>3. \A j \in Queued \ {h} : next_job[j] # NULL => next_job[j] # next_job[h]
    BY <2>2, ZenonT(30) DEF QueueInv, LinkInv
  <2>4. QED
    BY <1>1, <1>2, <2>1, <2>3 DEF QueueInv, LinkInv
<1>10. QED
  BY <1>6, <1>7, <1>8, <1>9, ZenonT(30) DEF QueueInv

\* The job create_job is about to make is nowhere yet.
LEMMA NewJob ==
    ASSUME TypeOK, QueueInv, NEW d \in Job, HasEntry(d)
    PROVE  /\ NextEntry(d) \in Job
           /\ status[NextEntry(d)] = "none"
           /\ next_job[NextEntry(d)] = NULL
           /\ NextEntry(d) \notin Queued
           /\ NextEntry(d) # NULL
           /\ NextEntry(d) # jobs_head
           /\ NextEntry(d) # jobs_tail
           /\ \A t \in Thread : /\ NextEntry(d) \notin chain[t]
                                /\ NextEntry(d) # first[t]
                                /\ NextEntry(d) # last[t]
           /\ \A j \in Queued : next_job[j] # NextEntry(d)
<1>1. NextEntry(d) \in Job /\ pos[d] + 1 \in 1..Len(Entries[d])
  BY NextEntryType, ZenonT(30)
<1>2. pos[d] \in Nat
  BY ZenonT(30) DEF TypeOK, TaskTypeOK
<1>3. status[NextEntry(d)] = "none"
  BY <1>1, <1>2 DEF QueueInv, FreshInv, NextEntry
<1>4. NextEntry(d) \notin Queued /\ next_job[NextEntry(d)] = NULL
  BY <1>1, <1>3, ZenonT(30) DEF Queued, QueueInv, FreshInv, Absent
<1>5. NextEntry(d) # NULL
  BY <1>1, TreeAssumption, ZenonT(30)
<1>6. QED
  BY <1>1, <1>3, <1>4, <1>5, ZenonT(30) DEF QueueInv, QueuePointersValid, ListInv, Queued

\* After create_job the entries not visited yet still have no job.
LEMMA FreshCreate ==
    ASSUME TypeOK, QueueInv, NEW d \in Job, HasEntry(d),
           \A j \in Job \ {NextEntry(d)} : status'[j] = status[j],
           pos'[d] = pos[d] + 1,
           \A e \in Job \ {d} : pos'[e] = pos[e]
    PROVE  \A e \in Job : \A i \in 1..Len(Entries[e]) :
              i > pos'[e] => status'[Entries[e][i]] = "none"
<1>1. pos[d] \in Nat /\ pos[d] + 1 \in 1..Len(Entries[d]) /\ NextEntry(d) \in Job
  BY NextEntryType, ZenonT(30) DEF TypeOK, TaskTypeOK
<1> SUFFICES ASSUME NEW e \in Job, NEW i \in 1..Len(Entries[e]), i > pos'[e]
             PROVE  status'[Entries[e][i]] = "none"
  OBVIOUS
<1>2. pos[e] \in Nat /\ i \in Int /\ i > pos[e]
  <2>1. pos[e] \in Nat /\ Len(Entries[e]) \in Nat
    BY TreeAssumption DEF TypeOK, TaskTypeOK
  <2>2. pos'[e] = IF e = d THEN pos[e] + 1 ELSE pos[e]
    OBVIOUS
  <2>3. QED
    BY <2>1, <2>2, SMTT(30)
<1>3. status[Entries[e][i]] = "none"
  BY <1>2, ZenonT(30) DEF QueueInv, FreshInv
<1>4. Entries[e][i] # NextEntry(d)
  <2>1. SUFFICES ASSUME Entries[e][i] = Entries[d][pos[d] + 1]
                 PROVE  FALSE
    BY ZenonT(30) DEF NextEntry
  <2>2. e = d /\ i = pos[d] + 1
    BY <1>1, <2>1, TreeAssumption
  <2>3. QED
    BY <1>1, <2>2
<1>5. Entries[e][i] \in Job
  BY TreeAssumption DEF Job
<1>6. QED
  BY <1>3, <1>4, <1>5, ZenonT(30)

\* create_job finds nothing to archive.
LEMMA CreateNothing ==
    ASSUME TypeOK, QueueInv, NEW d \in Job, HasEntry(d),
           create_job_CannotStat(d) \/ create_job_TypeExcluded(d),
           UNCHANGED <<queueVars, listVars>>
    PROVE  QueueInv'
<1> USE DEF queueVars, listVars
<1> DEFINE n == NextEntry(d)
<1>0. PICK s \in Absent : /\ status' = [status EXCEPT ![n] = s]
                          /\ pos' = [pos EXCEPT ![d] = @ + 1]
  BY ZenonT(30) DEF create_job_CannotStat, create_job_TypeExcluded, Absent
<1>1. n \in Job /\ status[n] = "none" /\ next_job[n] = NULL /\ n \notin Queued
  BY NewJob, ZenonT(30)
<1>2. /\ status'[n] = s /\ \A j \in Job \ {n} : status'[j] = status[j]
  BY <1>0, <1>1, ZenonT(30) DEF TypeOK, TaskTypeOK
<1>3. \A j \in Job : status'[j] = "QUEUED" <=> status[j] = "QUEUED"
  BY <1>1, <1>2, ZenonT(30) DEF Absent
<1>4. Queued' = Queued
  BY <1>3, ZenonT(30) DEF Queued
<1>5. QueuePointersValid'
  BY <1>3, ZenonT(30) DEF QueueInv, QueuePointersValid
<1>6. FreshInv'
  <2>1. pos'[d] = pos[d] + 1 /\ \A e \in Job \ {d} : pos'[e] = pos[e]
    BY <1>0, ZenonT(30) DEF TypeOK, TaskTypeOK
  <2>2. \A e \in Job : \A i \in 1..Len(Entries[e]) :
           i > pos'[e] => status'[Entries[e][i]] = "none"
    BY <1>2, <2>1, FreshCreate, ZenonT(30)
  <2>3. \A j \in Job : status'[j] \in Absent => next_job[j] = NULL
    BY <1>1, <1>2, ZenonT(30) DEF QueueInv, FreshInv
  <2>4. QED
    BY <2>2, <2>3, ZenonT(30) DEF FreshInv
<1>7. ListInv' /\ LinkInv'
  BY <1>4, ZenonT(30) DEF QueueInv, ListInv, LinkInv
<1>8. QED
  BY <1>5, <1>6, <1>7, ZenonT(30) DEF QueueInv

\* queue_file: the new job goes to the end of the queue.
LEMMA QueueTailStep ==
    ASSUME TypeOK, QueueInv, NEW d \in Job, HasEntry(d), create_job(d),
           queue_job_tail(NextEntry(d)), UNCHANGED listVars
    PROVE  QueueInv'
<1> USE DEF listVars
<1> DEFINE n == NextEntry(d)
<1>1. /\ n \in Job /\ status[n] = "none" /\ next_job[n] = NULL /\ n \notin Queued
      /\ n # NULL /\ n # jobs_head /\ n # jobs_tail
      /\ \A t \in Thread : n \notin chain[t] /\ n # first[t] /\ n # last[t]
      /\ \A j \in Queued : next_job[j] # n
  BY NewJob, ZenonT(30)
<1>2. /\ status' = [status EXCEPT ![n] = "QUEUED"]
      /\ pos' = [pos EXCEPT ![d] = @ + 1]
  BY ZenonT(30) DEF create_job
<1>3. status'[n] = "QUEUED" /\ \A j \in Job \ {n} : status'[j] = status[j]
  BY <1>1, <1>2, ZenonT(30) DEF TypeOK, TaskTypeOK
<1>4. Queued' = Queued \cup {n}
  BY <1>1, <1>3, ZenonT(30) DEF Queued
<1>5. jobs_tail = NULL \/ jobs_tail \in Queued
  BY ZenonT(30) DEF QueueInv, QueuePointersValid, Queued
<1>6. /\ \A j \in Job : next_job'[j] = IF jobs_tail # NULL /\ j = jobs_tail
                                       THEN n ELSE next_job[j]
      /\ jobs_head' \in {n, jobs_head}
      /\ jobs_tail' = n
  BY <1>5, ZenonT(30) DEF queue_job_tail, TypeOK, TaskTypeOK, Queued
<1> HIDE DEF n
<1>7. QueuePointersValid'
  <2>1. \A j \in Job : status'[j] = "QUEUED" <=> j \in Queued \cup {n}
    BY <1>4 DEF Queued
  <2>2. /\ jobs_head = NULL \/ jobs_head \in Queued
        /\ \A t \in Thread : /\ first[t] = NULL \/ first[t] \in Queued
                             /\ last[t] = NULL \/ last[t] \in Queued
        /\ \A j \in Queued : next_job[j] = NULL \/ next_job[j] \in Queued
    BY DEF QueueInv, QueuePointersValid, Queued
  <2>3. Queued \subseteq Job
    BY DEF Queued
  <2>4. QED
    BY <1>1, <1>6, <2>1, <2>2, <2>3, ZenonT(60) DEF QueuePointersValid
<1>8. FreshInv'
  <2>1. \A e \in Job : \A i \in 1..Len(Entries[e]) :
           i > pos'[e] => status'[Entries[e][i]] = "none"
    <3>1. pos'[d] = pos[d] + 1 /\ \A e \in Job \ {d} : pos'[e] = pos[e]
      BY <1>2, ZenonT(30) DEF TypeOK, TaskTypeOK
    <3>2. QED
      BY <1>3, <3>1, FreshCreate, ZenonT(30) DEF n
  <2>2. \A j \in Job : status'[j] \in Absent => next_job'[j] = NULL
    <3>1. jobs_tail = NULL \/ status[jobs_tail] = "QUEUED"
      BY <1>5, ZenonT(30) DEF Queued
    <3>2. QED
      BY <1>1, <1>3, <1>6, <3>1, ZenonT(30) DEF QueueInv, FreshInv, Absent
  <2>3. QED
    BY <2>1, <2>2, ZenonT(30) DEF FreshInv
<1>9. ListInv'
  <2> SUFFICES ASSUME NEW t \in Thread
               PROVE  /\ chain[t] \subseteq Queued'
                      /\ jobs_head' \notin chain[t]
                      /\ jobs_tail' \notin chain[t]
                      /\ \A j \in Queued' \ chain[t] : next_job'[j] \notin chain[t]
                      /\ \A j \in chain[t] : next_job'[j] \in chain[t] \cup {NULL}
    BY ZenonT(30) DEF QueueInv, ListInv
  <2>1. jobs_tail \notin chain[t] /\ chain[t] \subseteq Queued /\ NULL \notin chain[t]
    BY TreeAssumption, ZenonT(30) DEF QueueInv, ListInv, Queued
  <2>2. chain[t] \subseteq Job /\ Queued \subseteq Job
    BY <2>1, ZenonT(30) DEF Queued
  <2>3. QED
    BY <1>1, <1>4, <1>6, <2>1, <2>2 DEF QueueInv, ListInv
<1>10. LinkInv'
  <2>1. Queued \subseteq Job
    BY DEF Queued
  <2>2. \A i \in Queued' : next_job'[i] # NULL =>
           \/ i = jobs_tail /\ next_job'[i] = n
           \/ i \in Queued /\ next_job'[i] = next_job[i] /\ next_job[i] # n
    BY <1>1, <1>4, <1>6, <2>1, ZenonT(30)
  <2>3. jobs_head' = n => jobs_tail = NULL \/ n = jobs_head
    BY ZenonT(30) DEF queue_job_tail, n
  <2>4. jobs_tail # NULL => jobs_head' = jobs_head
    BY ZenonT(30) DEF queue_job_tail
  <2>5. NULL \notin Queued /\ NULL \notin Queued'
    BY TreeAssumption, ZenonT(30) DEF Queued
  <2>6. ASSUME NEW i \in Queued', next_job'[i] # NULL
        PROVE  /\ next_job'[i] # jobs_head'
               /\ \A t \in Thread : next_job'[i] # first'[t]
    BY <1>1, <1>6, <2>2, <2>3, <2>4, <2>5, <2>6, ZenonT(30) DEF QueueInv, LinkInv
  <2>7. ASSUME NEW i \in Queued', next_job'[i] # NULL, NEW j \in Queued',
               next_job'[i] = next_job'[j]
        PROVE  i = j
    BY <2>2, <2>7, ZenonT(30) DEF QueueInv, LinkInv
  <2>8. QED
    BY <2>6, <2>7, ZenonT(30) DEF LinkInv
<1>11. QED
  BY <1>7, <1>8, <1>9, <1>10, ZenonT(30) DEF QueueInv

\* queue_dir's loop: the new job goes to the end of the thread's list.
ListAppend(t, n) ==
    /\ next_job' = IF last[t] = NULL THEN next_job
                   ELSE [next_job EXCEPT ![last[t]] = n]
    /\ first' = IF last[t] = NULL THEN [first EXCEPT ![t] = n] ELSE first
    /\ last' = [last EXCEPT ![t] = n]
    /\ chain' = [chain EXCEPT ![t] = @ \cup {n}]

\* queue_dir's list keeps the queue's invariant when a new job is appended to it.
LEMMA ListAppendStep ==
    ASSUME TypeOK, QueueInv, NEW d \in Job, HasEntry(d), create_job(d),
           NEW t \in Thread, ListAppend(t, NextEntry(d)),
           UNCHANGED <<jobs_head, jobs_tail>>
    PROVE  QueueInv'
<1> DEFINE n == NextEntry(d)
<1>1. /\ n \in Job /\ status[n] = "none" /\ next_job[n] = NULL /\ n \notin Queued
      /\ n # NULL /\ n # jobs_head /\ n # jobs_tail
      /\ \A u \in Thread : n \notin chain[u] /\ n # first[u] /\ n # last[u]
      /\ \A j \in Queued : next_job[j] # n
  BY NewJob, ZenonT(30)
<1>2. /\ status' = [status EXCEPT ![n] = "QUEUED"]
      /\ pos' = [pos EXCEPT ![d] = @ + 1]
  BY ZenonT(30) DEF create_job
<1>3. status'[n] = "QUEUED" /\ \A j \in Job \ {n} : status'[j] = status[j]
  BY <1>1, <1>2, ZenonT(30) DEF TypeOK, TaskTypeOK
<1>4. Queued' = Queued \cup {n}
  BY <1>1, <1>3, ZenonT(30) DEF Queued
<1>5. Queued \subseteq Job /\ NULL \notin Queued
  BY TreeAssumption, ZenonT(30) DEF Queued
<1>6. last[t] = NULL \/ (last[t] \in chain[t] /\ last[t] \in Queued)
  BY ZenonT(30) DEF QueueInv, ListInv
<1>7. \A j \in Job : next_job'[j] = IF last[t] # NULL /\ j = last[t]
                                    THEN n ELSE next_job[j]
  BY <1>5, <1>6, ZenonT(30) DEF ListAppend, TypeOK, TaskTypeOK
<1>8. /\ first'[t] = IF last[t] = NULL THEN n ELSE first[t]
      /\ last'[t] = n
      /\ chain'[t] = chain[t] \cup {n}
      /\ \A u \in Thread \ {t} : /\ first'[u] = first[u] /\ last'[u] = last[u]
                                 /\ chain'[u] = chain[u]
  BY ZenonT(30) DEF ListAppend, TypeOK
<1> HIDE DEF n
<1>9. QueuePointersValid'
  <2>1. \A j \in Job : status'[j] = "QUEUED" <=> j \in Queued \cup {n}
    BY <1>4 DEF Queued
  <2>2. /\ jobs_head = NULL \/ jobs_head \in Queued
        /\ jobs_tail = NULL \/ jobs_tail \in Queued
        /\ \A u \in Thread : /\ first[u] = NULL \/ first[u] \in Queued
                             /\ last[u] = NULL \/ last[u] \in Queued
        /\ \A j \in Queued : next_job[j] = NULL \/ next_job[j] \in Queued
    BY ZenonT(30) DEF QueueInv, QueuePointersValid, Queued
  <2>3. \A j \in Queued \cup {n} : next_job'[j] = NULL \/ next_job'[j] \in Queued \cup {n}
    BY <1>1, <1>5, <1>7, <2>2, ZenonT(30)
  <2>4. \A u \in Thread : /\ first'[u] = NULL \/ first'[u] \in Queued \cup {n}
                          /\ last'[u] = NULL \/ last'[u] \in Queued \cup {n}
    BY <1>8, <2>2, ZenonT(30)
  <2>5. QED
    BY <1>1, <1>5, <2>1, <2>2, <2>3, <2>4, ZenonT(60) DEF QueuePointersValid
<1>10. FreshInv'
  <2>1. pos'[d] = pos[d] + 1 /\ \A e \in Job \ {d} : pos'[e] = pos[e]
    BY <1>2, ZenonT(30) DEF TypeOK, TaskTypeOK
  <2>2. \A e \in Job : \A i \in 1..Len(Entries[e]) :
           i > pos'[e] => status'[Entries[e][i]] = "none"
    BY <1>3, <2>1, FreshCreate, ZenonT(30) DEF n
  <2>3. \A j \in Job : status'[j] \in Absent => next_job'[j] = NULL
    <3>1. last[t] = NULL \/ status[last[t]] = "QUEUED"
      BY <1>6, ZenonT(30) DEF Queued
    <3>2. QED
      BY <1>1, <1>3, <1>7, <3>1, ZenonT(30) DEF QueueInv, FreshInv, Absent
  <2>4. QED
    BY <2>2, <2>3, ZenonT(30) DEF FreshInv
<1>11. ListInv'
  <2>1. ASSUME NEW u \in Thread
        PROVE  /\ chain'[u] \subseteq Queued'
               /\ first'[u] = NULL <=> last'[u] = NULL
               /\ first'[u] = NULL => chain'[u] = {}
               /\ first'[u] # NULL => first'[u] \in chain'[u]
               /\ last'[u] # NULL => last'[u] \in chain'[u]
               /\ jobs_head \notin chain'[u]
               /\ jobs_tail \notin chain'[u]
    BY <1>1, <1>4, <1>8 DEF QueueInv, ListInv
  <2>2. ASSUME NEW u \in Thread, NEW j \in Queued' \ chain'[u]
        PROVE  next_job'[j] \notin chain'[u]
    <3>1. j = n \/ j \in Queued
      BY <1>4, <2>2, ZenonT(30)
    <3>2. j \in Job /\ NULL \notin chain'[u]
      BY <1>1, <1>4, <1>5, <2>1, <3>1, ZenonT(30)
    <3>3. CASE u = t
      BY <1>1, <1>6, <1>7, <1>8, <2>2, <3>1, <3>2, <3>3, ZenonT(60) DEF QueueInv, ListInv
    <3>4. CASE u # t
      BY <1>1, <1>6, <1>7, <1>8, <2>2, <3>1, <3>2, <3>4 DEF QueueInv, ListInv
    <3>5. QED
      BY <3>3, <3>4, ZenonT(30)
  <2>3. ASSUME NEW u \in Thread, NEW j \in chain'[u]
        PROVE  next_job'[j] \in chain'[u] \cup {NULL}
    <3>1. j \in Job
      BY <1>1, <1>4, <1>5, <2>1, <2>3, ZenonT(30)
    <3>2. CASE u = t
      BY <1>1, <1>6, <1>7, <1>8, <2>3, <3>1, <3>2, ZenonT(60) DEF QueueInv, ListInv
    <3>3. CASE u # t
      BY <1>1, <1>6, <1>7, <1>8, <2>3, <3>1, <3>3 DEF QueueInv, ListInv
    <3>4. QED
      BY <3>2, <3>3, ZenonT(30)
  <2>4. \A u, v \in Thread : u # v => chain'[u] \cap chain'[v] = {}
    BY <1>1, <1>8 DEF QueueInv, ListInv
  <2>5. QED
    BY <2>1, <2>2, <2>3, <2>4, ZenonT(30) DEF ListInv
<1>12. LinkInv'
  <2>1. \A i \in Queued' : next_job'[i] # NULL =>
           \/ i = last[t] /\ last[t] # NULL /\ next_job'[i] = n
           \/ i \in Queued /\ next_job'[i] = next_job[i] /\ next_job[i] # n
    BY <1>1, <1>4, <1>5, <1>7, ZenonT(30)
  <2>2. ASSUME NEW i \in Queued', next_job'[i] # NULL
        PROVE  /\ next_job'[i] # jobs_head
               /\ \A u \in Thread : next_job'[i] # first'[u]
    <3>1. CASE last[t] # NULL /\ next_job'[i] = n
      BY <1>1, <1>8, <3>1, ZenonT(30)
    <3>2. CASE i \in Queued /\ next_job'[i] = next_job[i] /\ next_job[i] # n
      <4>1. next_job[i] # jobs_head /\ \A u \in Thread : next_job[i] # first[u]
        BY <2>2, <3>2, ZenonT(30) DEF QueueInv, LinkInv
      <4>2. QED
        BY <1>8, <3>2, <4>1, ZenonT(30)
    <3>3. QED
      BY <2>1, <2>2, <3>1, <3>2, ZenonT(30)
  <2>3. ASSUME NEW i \in Queued', next_job'[i] # NULL, NEW j \in Queued',
               next_job'[i] = next_job'[j]
        PROVE  i = j
    BY <2>1, <2>3, ZenonT(30) DEF QueueInv, LinkInv
  <2>4. QED
    BY <2>2, <2>3, ZenonT(30) DEF LinkInv
<1>13. QED
  BY <1>9, <1>10, <1>11, <1>12, ZenonT(30) DEF QueueInv

\* queue_jobs: the thread's list goes in front of the queue.
LEMMA QueueListStep ==
    ASSUME TypeOK, QueueInv, NEW t \in Thread, first[t] # NULL,
           queue_jobs_list(first[t], last[t]),
           first' = [first EXCEPT ![t] = NULL], last' = [last EXCEPT ![t] = NULL],
           chain' = [chain EXCEPT ![t] = {}], UNCHANGED <<status, pos>>
    PROVE  QueueInv'
<1>1. /\ first[t] \in chain[t] /\ last[t] \in chain[t]
      /\ chain[t] \subseteq Queued /\ Queued' = Queued
  BY ZenonT(30) DEF QueueInv, ListInv, Queued
<1>2. Queued \subseteq Job /\ NULL \notin Queued
  BY TreeAssumption, ZenonT(30) DEF Queued
<1>3. /\ \A j \in Job : next_job'[j] = IF j = last[t] THEN jobs_head ELSE next_job[j]
      /\ jobs_head' = first[t]
      /\ jobs_tail' = jobs_tail
  BY <1>1, <1>2, ZenonT(30) DEF queue_jobs_list, TypeOK, TaskTypeOK
<1>4. /\ first'[t] = NULL /\ last'[t] = NULL /\ chain'[t] = {}
      /\ \A u \in Thread \ {t} : /\ first'[u] = first[u] /\ last'[u] = last[u]
                                 /\ chain'[u] = chain[u]
  BY ZenonT(30) DEF TypeOK
<1>5. QueuePointersValid'
  <2>1. /\ jobs_head = NULL \/ jobs_head \in Queued
        /\ jobs_tail = NULL \/ jobs_tail \in Queued
        /\ \A u \in Thread : /\ first[u] = NULL \/ first[u] \in Queued
                             /\ last[u] = NULL \/ last[u] \in Queued
        /\ \A j \in Queued : next_job[j] = NULL \/ next_job[j] \in Queued
    BY ZenonT(30) DEF QueueInv, QueuePointersValid, Queued
  <2>2. \A j \in Queued : next_job'[j] = NULL \/ next_job'[j] \in Queued
    BY <1>2, <1>3, <2>1, ZenonT(30)
  <2>3. \A u \in Thread : /\ first'[u] = NULL \/ first'[u] \in Queued
                          /\ last'[u] = NULL \/ last'[u] \in Queued
    BY <1>4, <2>1, ZenonT(30)
  <2>4. \A j \in Job : status'[j] = "QUEUED" <=> j \in Queued
    BY <1>1, ZenonT(30) DEF Queued
  <2>5. QED
    BY <1>1, <1>2, <1>3, <2>1, <2>2, <2>3, <2>4, ZenonT(30) DEF QueuePointersValid
<1>6. FreshInv'
  <2>1. status[last[t]] = "QUEUED"
    BY <1>1, ZenonT(30) DEF Queued
  <2>2. QED
    BY <1>3, <2>1, ZenonT(30) DEF QueueInv, FreshInv, Absent
<1>7. ListInv'
  <2>1. ASSUME NEW u \in Thread \ {t}
        PROVE  /\ first[t] \notin chain[u]
               /\ \A j \in Queued \ chain[u] : next_job'[j] \notin chain[u]
               /\ \A j \in chain[u] : next_job'[j] \in chain[u] \cup {NULL}
    BY <1>1, <1>2, <1>3, SMTT(30) DEF QueueInv, ListInv
  <2>2. QED
    BY <1>1, <1>3, <1>4, <2>1, SMTT(30) DEF QueueInv, ListInv
<1>8. LinkInv'
  <2>1. \A i \in Queued : next_job'[i] # NULL =>
           \/ i = last[t] /\ next_job'[i] = jobs_head
           \/ i # last[t] /\ next_job'[i] = next_job[i]
    BY <1>2, <1>3, ZenonT(30)
  <2>2. jobs_head \notin chain[t] /\ \A u \in Thread : jobs_head # NULL => jobs_head # first[u]
    BY ZenonT(30) DEF QueueInv, ListInv
  <2>3. ASSUME NEW i \in Queued, next_job'[i] # NULL
        PROVE  /\ next_job'[i] # jobs_head'
               /\ \A u \in Thread : next_job'[i] # first'[u]
    <3>1. CASE i = last[t] /\ next_job'[i] = jobs_head
      BY <1>1, <1>3, <1>4, <2>2, <2>3, <3>1, ZenonT(30)
    <3>2. CASE i # last[t] /\ next_job'[i] = next_job[i]
      <4>1. \A u \in Thread : next_job[i] # first[u]
        BY <2>3, <3>2, ZenonT(30) DEF QueueInv, LinkInv
      <4>2. QED
        BY <1>3, <1>4, <2>3, <3>2, <4>1, ZenonT(30)
    <3>3. QED
      BY <2>1, <2>3, <3>1, <3>2, ZenonT(30)
  <2>4. ASSUME NEW i \in Queued, next_job'[i] # NULL, NEW j \in Queued,
               next_job'[i] = next_job'[j]
        PROVE  i = j
    BY <2>1, <2>4 DEF QueueInv, LinkInv
  <2>5. QED
    BY <1>1, <2>3, <2>4, ZenonT(30) DEF LinkInv
<1>9. QED
  BY <1>5, <1>6, <1>7, <1>8, ZenonT(30) DEF QueueInv

(***************************************************************************)
(* Who has which job: the part of the invariant about workers and main.    *)
(***************************************************************************)
ControlInv ==
    /\ OneOwner
    /\ WorkerInv
    /\ MainInv
    /\ InterruptedJobKept
    /\ OutputExclusive

\* A step of thread t leaves the other threads and their jobs alone, except
\* that it may wake them.
OthersKept(t) ==
    /\ \A u \in Thread \ {t} :
          /\ pc'[u] = pc[u] \/ (pc[u] = "wait" /\ pc'[u] = "get")
          /\ job'[u] = job[u]
          /\ job[u] # NULL => status'[job[u]] = status[job[u]]
    /\ MpcStep
    /\ UNCHANGED <<timed_out, mthread, earliest, mjob>>

\* The jobs of two threads differ, and are neither queued nor absent.
LEMMA OwnedJobs ==
    ASSUME TypeOK, QueueInv, OneOwner, NEW t \in Thread, NEW u \in Thread \ {t},
           job[u] # NULL
    PROVE  /\ job[u] \in Job
           /\ job[u] # job[t]
           /\ job[u] # jobs_head
           /\ \A d \in Job : HasEntry(d) => job[u] # NextEntry(d)
<1>1. job[u] \in Job /\ job[u] # job[t] /\ status[job[u]] \in {"IN_PROGRESS"} \cup Final
  BY DEF TypeOK, OneOwner, JobOrNull
<1>2. status[job[u]] # "QUEUED" /\ status[job[u]] # "none"
  BY <1>1 DEF Final
<1>3. \A d \in Job : HasEntry(d) => status[NextEntry(d)] = "none"
  BY NewJob
<1>4. QED
  BY <1>1, <1>2, <1>3 DEF QueueInv, QueuePointersValid

\* _get_next_job leaves the other threads alone.
LEMMA GetNextOthers ==
    ASSUME TypeOK, QueueInv, OneOwner, NEW t \in Thread,
           NEW st \in [Job -> Status], NEW active, NEW jb \in [Thread -> JobOrNull],
           NEW woken, get_next_job(t, st, active, jb, woken),
           \A u \in Thread \ {t} : jb[u] = job[u],
           \A j \in Job \ {job[t]} : st[j] = status[j],
           UNCHANGED <<timed_out, mainVars>>
    PROVE  OthersKept(t)
<1>1. \A u \in Thread \ {t} : pc'[u] = pc[u]
  BY ZenonT(30) DEF get_next_job, LeaveLoop, Goto, TypeOK
<1>2. MpcStep
  BY ZenonT(30) DEF get_next_job, LeaveLoop, MpcStep
<1>3. \A u \in Thread \ {t} : job'[u] = job[u]
  BY ZenonT(30) DEF get_next_job
<1>4. ASSUME NEW u \in Thread \ {t}, job[u] # NULL
      PROVE  status'[job[u]] = status[job[u]]
  <2>1. job[u] \in Job /\ job[u] # job[t] /\ job[u] # jobs_head
    BY <1>4, OwnedJobs, ZenonT(30)
  <2>2. status' = st \/ status' = [st EXCEPT ![jobs_head] = "IN_PROGRESS"]
    BY DEF get_next_job
  <2>3. QED
    BY <2>1, <2>2, ZenonT(30)
<1>5. QED
  BY <1>1, <1>2, <1>3, <1>4, ZenonT(30) DEF OthersKept, mainVars

\* Where a worker has the output mutex.
Writing == {"write", "writing", "wstatus"}

\* What remains to be shown for a step of worker t.
OwnPart(t) ==
    /\ pc[t] # "none"
    /\ job'[t] # NULL => /\ status'[job'[t]] \in {"IN_PROGRESS"} \cup Final
                         /\ \A u \in Thread \ {t} : job[u] # job'[t]
    /\ WorkerInvAt(t)'
    /\ \A u \in Thread \ {t} : job[u] = JOB_INIT => pos'[JOB_INIT] = pos[JOB_INIT]
    /\ mpc \in {"cancel", "join"} /\ t = earliest => job'[t] = job[t]
    /\ pc'[t] \in Writing <=> output_mutex' = t
    /\ output_mutex' # output_mutex => {output_mutex, output_mutex'} \subseteq {t, NULL}

\* A step of one worker keeps the other threads' part of the invariant.
LEMMA ControlStep ==
    ASSUME TypeOK, TypeOK', ControlInv, NEW t \in Thread, OthersKept(t), OwnPart(t)
    PROVE  ControlInv'
<1>1. OneOwner'
  <2>1. ASSUME NEW u \in Thread, job'[u] # NULL
        PROVE  status'[job'[u]] \in {"IN_PROGRESS"} \cup Final
    BY <2>1, ZenonT(30) DEF OwnPart, OthersKept, ControlInv, OneOwner
  <2>2. ASSUME NEW u \in Thread, NEW v \in Thread, job'[u] # NULL, job'[v] = job'[u]
        PROVE  u = v
    BY <2>2, SMTT(30) DEF OwnPart, OthersKept, ControlInv, OneOwner
  <2>3. QED
    BY <2>1, <2>2, ZenonT(30) DEF OneOwner
<1>2. WorkerInv'
  <2>1. ASSUME NEW u \in Thread \ {t}
        PROVE  WorkerInvAt(u)'
    <3>1. WorkerInvAt(u)
      BY DEF ControlInv, WorkerInv
    <3>2. /\ job'[u] = job[u]
          /\ job[u] # NULL => status'[job[u]] = status[job[u]]
          /\ pc'[u] = pc[u] \/ (pc[u] = "wait" /\ pc'[u] = "get")
      BY ZenonT(30) DEF OthersKept
    <3>3. pc[u] = "create" => HasEntry(JOB_INIT)'
      BY <3>1, ZenonT(30) DEF WorkerInvAt, OwnPart, HasEntry
    <3>4. QED
      BY <3>1, <3>2, <3>3 DEF WorkerInvAt
  <2>2. QED
    BY <2>1, ZenonT(30) DEF OwnPart, WorkerInv
<1>3. MpcStep
  BY DEF OthersKept
<1>4. MainInv'
  <2>1. mpc' \in {"spawn", "spawned", "cancel", "join"} => mpc' = mpc
    BY <1>3, ZenonT(30) DEF MpcStep, main_wakeup
  <2>2. \A u \in Thread : pc[u] = "none" => pc'[u] = "none"
    BY ZenonT(30) DEF OthersKept, OwnPart
  <2>3. UNCHANGED <<timed_out, mthread, earliest, mjob>>
    BY DEF OthersKept
  <2>4. QED
    BY <2>1, <2>2, <2>3 DEF ControlInv, MainInv
<1>5. InterruptedJobKept'
  <2>1. SUFFICES ASSUME mpc' \in {"cancel", "join"}
                 PROVE  /\ job'[earliest'] = mjob'
                        /\ status'[mjob'] \in {"IN_PROGRESS"} \cup Final
    BY DEF InterruptedJobKept
  <2>2. mpc \in {"cancel", "join"}
    BY <1>3, <2>1, ZenonT(30) DEF MpcStep, main_wakeup
  <2>3. earliest' = earliest /\ mjob' = mjob /\ earliest \in Thread /\ mjob # NULL
    BY <2>2 DEF OthersKept, ControlInv, MainInv, TypeOK, ThreadOrNull
  <2>4. job[earliest] = mjob /\ status[mjob] \in {"IN_PROGRESS"} \cup Final
    BY <2>2 DEF ControlInv, InterruptedJobKept
  <2>5. job'[earliest] = job[earliest]
    BY <2>2, <2>3, ZenonT(30) DEF OwnPart, OthersKept
  <2>6. QED
    BY <1>1, <2>3, <2>4, <2>5, ZenonT(30) DEF OneOwner
<1>6. OutputExclusive'
  <2>1. ASSUME NEW u \in Thread \ {t}
        PROVE  pc'[u] \in Writing <=> output_mutex' = u
    <3>1. pc[u] \in Writing <=> output_mutex = u
      BY ZenonT(30) DEF ControlInv, OutputExclusive, Writing
    <3>2. pc'[u] \in Writing <=> pc[u] \in Writing
      BY DEF OthersKept, Writing
    <3>3. u # NULL
      BY NullIsNoThread
    <3>4. QED
      BY <3>1, <3>2, <3>3 DEF OwnPart
  <2>2. QED
    BY <2>1, SMTT(30) DEF OwnPart, OutputExclusive, Writing
<1>7. QED
  BY <1>1, <1>2, <1>4, <1>5, <1>6, ZenonT(30) DEF ControlInv

\* _get_next_job gives the thread a job nobody else has, or none; what it does
\* to the queue is _dequeue_job.  (The thread had no job, or just completed it.)
LEMMA GetNextOwn ==
    ASSUME TypeOK, TypeOK', ControlInv, QueueInv, NEW t \in Thread,
           pc[t] \in {"get", "finish"},
           mpc \in {"cancel", "join"} => t # earliest,
           NEW st \in [Job -> Status], NEW active, NEW jb \in [Thread -> JobOrNull],
           NEW woken, get_next_job(t, st, active, jb, woken),
           jb[t] = NULL,
           \A u \in Thread \ {t} : jb[u] = job[u],
           \A j \in Job : \/ st[j] = status[j]
                          \/ j = job[t] /\ st[j] = "freed",
           UNCHANGED <<timed_out, mainVars, output_mutex, pos, listVars>>
    PROVE  ControlInv' /\ QueueInv' /\ OthersKept(t)
<1>0. OthersKept(t)
  BY GetNextOthers, ZenonT(30) DEF ControlInv
<1>1. output_mutex # t
  BY ZenonT(30) DEF ControlInv, OutputExclusive
<1>2. \A j \in Job : st[j] = status[j] \/ (status[j] \in Settled /\ st[j] = "freed")
  <2>1. job[t] # NULL => status[job[t]] \in Settled
    BY ZenonT(30) DEF ControlInv, OneOwner, Settled, Final, Status, Absent
  <2>2. NULL \notin Job
    BY TreeAssumption, ZenonT(30)
  <2>3. QED
    BY <2>1, <2>2, ZenonT(30)
<1>3. "freed" \in Settled /\ "IN_PROGRESS" \in Settled
  BY ZenonT(30) DEF Settled, Status, Freed, Absent
<1>4. CASE /\ dequeue_job
           /\ status' = [st EXCEPT ![jobs_head] = "IN_PROGRESS"]
           /\ job' = [jb EXCEPT ![t] = jobs_head]
           /\ pc' = Goto(t, "process")
  <2>1. jobs_head \in Job /\ status[jobs_head] = "QUEUED"
    BY <1>4, ZenonT(30) DEF dequeue_job, QueueInv, QueuePointersValid
  <2>2. /\ job'[t] = jobs_head
        /\ status'[jobs_head] = "IN_PROGRESS"
        /\ \A j \in Job \ {jobs_head} : status'[j] = st[j]
        /\ pc'[t] = "process"
    BY <1>4, <2>1, ZenonT(30) DEF Goto, TypeOK
  <2>3. \A u \in Thread : job[u] # jobs_head
    <3>1. jobs_head # NULL
      BY <2>1, TreeAssumption, ZenonT(30)
    <3>2. \A u \in Thread : job[u] # NULL => status[job[u]] # "QUEUED"
      BY ZenonT(30) DEF ControlInv, OneOwner, Final
    <3>3. QED
      BY <2>1, <3>1, <3>2, ZenonT(30)
  <2>4. OwnPart(t)
    <3>1. WorkerInvAt(t)'
      BY <2>1, <2>2, TreeAssumption, ZenonT(30) DEF WorkerInvAt
    <3>2. QED
      BY <1>1, <2>2, <2>3, <3>1 DEF OwnPart, Writing, mainVars
  <2>5. QueueInv'
    <3>1. \A j \in Job \ {jobs_head} : KeepsOrSettled(j)
      BY <1>2, <1>3, <2>2, ZenonT(30) DEF KeepsOrSettled
    <3>2. QED
      BY <1>3, <1>4, <2>2, <3>1, DequeueStep, ZenonT(30)
  <2>6. QED
    BY <1>0, <2>4, <2>5, ControlStep, ZenonT(30)
<1>5. CASE /\ status' = st
           /\ job' = jb
           /\ pc'[t] \in {"end", "wait"}
           /\ UNCHANGED queueVars
  <2>1. OwnPart(t)
    BY <1>1, <1>5, ZenonT(30) DEF OwnPart, Writing, WorkerInvAt, mainVars
  <2>2. QueueInv'
    <3>1. \A j \in Job : KeepsOrSettled(j)
      BY <1>2, <1>3, <1>5, ZenonT(30) DEF KeepsOrSettled
    <3>2. QED
      BY <1>5, <3>1, QueueUnchanged, ZenonT(30) DEF listVars
  <2>3. QED
    BY <1>0, <2>1, <2>2, ControlStep, ZenonT(30)
<1>6. QED
  BY <1>4, <1>5, ZenonT(30) DEF get_next_job, LeaveLoop, Goto, TypeOK

\* Steps that move thread t without touching jobs, queue or lists.
LEMMA PlainStep ==
    ASSUME TypeOK, TypeOK', ControlInv, QueueInv, NEW t \in Thread, NEW l \in WorkerPC,
           PcStep(t, l), MpcStep, pc[t] # "none", WorkerInvAt(t)',
           UNCHANGED <<status, queueVars, pos, job, timed_out, listVars, mthread,
                       earliest, mjob>>,
           l \in Writing <=> output_mutex' = t,
           output_mutex' # output_mutex => {output_mutex, output_mutex'} \subseteq {t, NULL}
    PROVE  ControlInv' /\ QueueInv' /\ OthersKept(t)
<1>1. OthersKept(t)
  BY ZenonT(30) DEF PcStep, OthersKept
<1>2. OwnPart(t)
  BY ZenonT(30) DEF OwnPart, PcStep, ControlInv, OneOwner
<1>3. \A j \in Job : KeepsOrSettled(j)
  BY DEF KeepsOrSettled
<1>4. QED
  BY <1>1, <1>2, <1>3, ControlStep, QueueUnchanged, ZenonT(30) DEF listVars

\* Every step of a worker preserves the invariant and leaves the others alone.
LEMMA WorkerStep ==
    ASSUME IInv, NEW t \in Thread, Worker(t)
    PROVE  IInv' /\ OthersKept(t)
<1>0. TypeOK /\ ControlInv /\ QueueInv /\ WorkerInvAt(t) /\ TypeOK'
  <2>1. TypeOK /\ ControlInv /\ QueueInv /\ WorkerInvAt(t)
    BY DEF IInv, ControlInv, QueueInv, WorkerInv
  <2>2. QED
    BY <2>1, WorkerType, ZenonT(30) DEF ControlInv, QueueInv
<1>00. pc[t] \in Writing <=> output_mutex = t
  BY <1>0, ZenonT(30) DEF ControlInv, OutputExclusive, Writing
<1>000. t # NULL /\ JOB_INIT \in Job /\ NULL \notin Job
  BY NullIsNoThread, TreeAssumption DEF Job
<1> SUFFICES ControlInv' /\ QueueInv' /\ OthersKept(t)
  BY <1>0, ZenonT(30) DEF IInv, ControlInv, QueueInv
<1> USE DEF taskVars, threadVars, localVars, mainVars
<1>1. CASE Start(t)
  <2>1. \E l \in {"outlock", "get"} : pc' = Goto(t, l) /\ WorkerInvAt(t)'
    BY <1>0, <1>1, ZenonT(30) DEF Start, WorkerInvAt, Goto, TypeOK
  <2>2. PICK l \in {"outlock", "get"} : PcStep(t, l) /\ WorkerInvAt(t)'
    BY <1>0, <2>1, GotoStep, ZenonT(30) DEF WorkerPC
  <2>3. output_mutex # t /\ output_mutex' = output_mutex /\ MpcStep
    BY <1>00, <1>1, ZenonT(30) DEF Start, Writing, MpcStep
  <2>4. l \notin Writing /\ l \in WorkerPC
    BY DEF Writing, WorkerPC
  <2>5. QED
    BY <1>0, <1>1, <2>2, <2>3, <2>4, PlainStep, ZenonT(30) DEF Start
<1>2. CASE GetNext(t)
  <2>1. pc[t] = "get" /\ job[t] = NULL
    BY <1>0, <1>2, ZenonT(30) DEF GetNext, WorkerInvAt
  <2>2. mpc \in {"cancel", "join"} => t # earliest
    BY <1>0, <2>1, ZenonT(30) DEF ControlInv, MainInv, InterruptedJobKept
  <2>3. status \in [Job -> Status] /\ job \in [Thread -> JobOrNull]
    BY <1>0 DEF TypeOK, TaskTypeOK
  <2>4. get_next_job(t, status, num_jobs_active, job, FALSE)
    BY <1>2, ZenonT(30) DEF GetNext
  <2>5. UNCHANGED <<timed_out, mainVars, output_mutex, pos, listVars>>
    BY <1>2, ZenonT(30) DEF GetNext
  <2>6. QED
    BY <1>0, <2>1, <2>2, <2>3, <2>4, <2>5, GetNextOwn, ZenonT(30)
<1>3. CASE Exclude(t)
  <2>1. PcStep(t, "status") /\ MpcStep /\ WorkerInvAt(t)'
    BY <1>0, <1>3, GotoStep, ZenonT(30) DEF Exclude, WorkerPC, MpcStep, PcStep, WorkerInvAt
  <2>2. QED
    BY <1>0, <1>00, <1>3, <2>1, PlainStep, ZenonT(30) DEF Exclude, WorkerPC, Writing
<1>4. CASE OpenOutput(t)
  <2>1. \E l \in {"status", "scan"} : PcStep(t, l) /\ MpcStep
    <3>1. CASE set_aborted_if(TRUE, t, "status")
      BY <1>0, <3>1, SetAbortedStep, ZenonT(30) DEF WorkerPC
    <3>2. CASE pc' = Goto(t, "scan") /\ mpc' = mpc
      BY <1>0, <3>2, GotoStep DEF WorkerPC, MpcStep
    <3>3. QED
      BY <1>4, <3>1, <3>2, ZenonT(30) DEF OpenOutput
  <2>2. PICK l \in {"status", "scan"} : PcStep(t, l) /\ MpcStep
    BY <2>1, ZenonT(30)
  <2>3. WorkerInvAt(t)'
    BY <1>0, <1>4, <2>2, ZenonT(30) DEF OpenOutput, PcStep, WorkerInvAt
  <2>4. l \notin Writing /\ l \in WorkerPC
    BY DEF Writing, WorkerPC
  <2>5. output_mutex # t /\ output_mutex' = output_mutex /\ pc[t] # "none"
    BY <1>00, <1>4, ZenonT(30) DEF OpenOutput, Writing
  <2>6. QED
    BY <1>0, <1>4, <2>2, <2>3, <2>4, <2>5, PlainStep, ZenonT(30) DEF OpenOutput
<1>5. CASE ScanSpecs(t)
  <2>1. \E l \in {"create", "status"} :
           pc' = Goto(t, l) /\ (l = "create" => HasEntry(JOB_INIT))
    BY <1>5, ZenonT(30) DEF ScanSpecs
  <2>2. PICK l \in {"create", "status"} : PcStep(t, l) /\ (l = "create" => HasEntry(JOB_INIT))
    BY <1>0, <2>1, GotoStep, ZenonT(30) DEF WorkerPC
  <2>3. WorkerInvAt(t)'
    BY <1>0, <1>5, <2>2, ZenonT(30) DEF ScanSpecs, PcStep, WorkerInvAt, HasEntry
  <2>4. l \notin Writing /\ l \in WorkerPC
    BY ZenonT(30) DEF Writing, WorkerPC
  <2>5. output_mutex # t /\ output_mutex' = output_mutex /\ MpcStep /\ pc[t] # "none"
    BY <1>00, <1>5, ZenonT(30) DEF ScanSpecs, Writing, MpcStep
  <2>6. QED
    BY <1>0, <1>5, <2>2, <2>3, <2>4, <2>5, PlainStep, ZenonT(30) DEF ScanSpecs
<1>6. CASE QueueSpec(t)
  <2>1. pc[t] = "create" /\ job[t] = JOB_INIT /\ HasEntry(JOB_INIT)
    BY <1>0, <1>6, ZenonT(30) DEF QueueSpec, WorkerInvAt
  <2>2. PcStep(t, "scan") /\ MpcStep
    <3>1. CASE set_aborted_if(read_error_aborts, t, "scan")
      BY <1>0, <3>1, SetAbortedStep, ZenonT(30) DEF WorkerPC
    <3>2. CASE pc' = Goto(t, "scan") /\ mpc' = mpc
      BY <1>0, <3>2, GotoStep DEF WorkerPC, MpcStep
    <3>3. CASE pc' \in worker_wakeup_one(Goto(t, "scan")) /\ mpc' = mpc
      BY <1>0, <3>3, WakeupOneStep, ZenonT(30) DEF WorkerPC, MpcStep
    <3>4. QED
      BY <1>6, <3>1, <3>2, <3>3, ZenonT(30) DEF QueueSpec
  <2>3. \E s \in Status : status' = [status EXCEPT ![NextEntry(JOB_INIT)] = s]
    BY <1>6, ZenonT(30) DEF QueueSpec, create_job, create_job_CannotStat,
                create_job_TypeExcluded, Status, Absent
  <2>4. NextEntry(JOB_INIT) \in Job /\ status[NextEntry(JOB_INIT)] = "none"
    BY <1>0, <1>000, <2>1, NewJob, ZenonT(30)
  <2>5. \A j \in Job : status[j] # "none" => status'[j] = status[j]
    BY <1>0, <2>3, <2>4, ZenonT(30) DEF TypeOK, TaskTypeOK
  <2>6. OthersKept(t)
    <3>1. ASSUME NEW u \in Thread \ {t}, job[u] # NULL
          PROVE  status'[job[u]] = status[job[u]]
      <4>1. job[u] \in Job /\ status[job[u]] \in {"IN_PROGRESS"} \cup Final
        BY <1>0, <3>1, ZenonT(30) DEF ControlInv, OneOwner, TypeOK, JobOrNull
      <4>2. status[job[u]] # "none"
        BY <4>1 DEF Final
      <4>3. QED
        BY <2>5, <4>1, <4>2, ZenonT(30)
    <3>2. QED
      BY <1>6, <2>2, <3>1, ZenonT(30) DEF QueueSpec, OthersKept, PcStep
  <2>7. OwnPart(t)
    <3>1. status[JOB_INIT] = "IN_PROGRESS" /\ status'[JOB_INIT] = "IN_PROGRESS"
      BY <1>0, <1>000, <2>1, <2>5, ZenonT(30) DEF WorkerInvAt
    <3>2. pc'[t] = "scan" /\ job' = job /\ output_mutex' = output_mutex
      BY <1>6, <2>2 DEF QueueSpec, PcStep
    <3>3. WorkerInvAt(t)'
      BY <1>000, <2>1, <3>1, <3>2, ZenonT(30) DEF WorkerInvAt
    <3>4. \A u \in Thread \ {t} : job[u] # JOB_INIT
      BY <1>0, <1>000, <2>1, ZenonT(30) DEF ControlInv, OneOwner
    <3>5. QED
      BY <1>00, <2>1, <3>1, <3>2, <3>3, <3>4, ZenonT(30) DEF OwnPart, Writing
  <2>8. QueueInv'
    <3>1. CASE create_job(JOB_INIT) /\ queue_job_tail(NextEntry(JOB_INIT))
      BY <1>0, <1>000, <1>6, <2>1, <3>1, QueueTailStep, ZenonT(30) DEF QueueSpec
    <3>2. CASE /\ create_job_CannotStat(JOB_INIT) \/ create_job_TypeExcluded(JOB_INIT)
               /\ UNCHANGED queueVars
      BY <1>0, <1>000, <1>6, <2>1, <3>2, CreateNothing, ZenonT(30) DEF QueueSpec
    <3>3. QED
      BY <1>6, <3>1, <3>2, ZenonT(30) DEF QueueSpec
  <2>9. QED
    BY <1>0, <2>6, <2>7, <2>8, ControlStep, ZenonT(30)
<1>7. CASE OpenDir(t)
  <2>1. \E l \in {"status", "readdir"} : PcStep(t, l) /\ MpcStep
    <3>1. CASE set_aborted_if(read_error_aborts, t, "status")
      BY <1>0, <3>1, SetAbortedStep, ZenonT(30) DEF WorkerPC
    <3>2. CASE pc' = Goto(t, "readdir") /\ mpc' = mpc
      BY <1>0, <3>2, GotoStep, ZenonT(30) DEF WorkerPC, MpcStep
    <3>3. CASE pc' = Goto(t, "status") /\ mpc' = mpc
      BY <1>0, <3>3, GotoStep DEF WorkerPC, MpcStep
    <3>4. QED
      BY <1>7, <3>1, <3>2, <3>3, ZenonT(30) DEF OpenDir
  <2>2. PICK l \in {"status", "readdir"} : PcStep(t, l) /\ MpcStep
    BY <2>1, ZenonT(30)
  <2>3. WorkerInvAt(t)'
    BY <1>0, <1>7, <2>2, ZenonT(30) DEF OpenDir, PcStep, WorkerInvAt
  <2>4. l \notin Writing /\ l \in WorkerPC
    BY DEF Writing, WorkerPC
  <2>5. output_mutex # t /\ output_mutex' = output_mutex /\ pc[t] # "none"
    BY <1>00, <1>7, ZenonT(30) DEF OpenDir, Writing
  <2>6. QED
    BY <1>0, <1>7, <2>2, <2>3, <2>4, <2>5, PlainStep, ZenonT(30) DEF OpenDir
<1>8. CASE ReadDirEntry(t)
  <2> DEFINE d == job[t]
  <2>1. pc[t] = "readdir" /\ d \in Job /\ HasEntry(d) /\ status[d] = "IN_PROGRESS"
    BY <1>0, <1>8, ZenonT(30) DEF ReadDirEntry, WorkerInvAt, TypeOK, JobOrNull
  <2>2. PcStep(t, "readdir") /\ MpcStep
    <3>1. CASE set_aborted_if(read_error_aborts, t, "readdir")
      BY <1>0, <3>1, SetAbortedStep DEF WorkerPC
    <3>2. CASE UNCHANGED <<pc, mpc>>
      BY <1>0, <2>1, <3>2, ZenonT(30) DEF PcStep, MpcStep, TypeOK
    <3>3. QED
      BY <1>8, <3>1, <3>2, ZenonT(30) DEF ReadDirEntry
  <2>3. /\ \E s \in Status : status' = [status EXCEPT ![NextEntry(d)] = s]
        /\ pos' = [pos EXCEPT ![d] = @ + 1]
    BY <1>8, ZenonT(30) DEF ReadDirEntry, create_job, create_job_CannotStat,
                create_job_TypeExcluded, Status, Absent
  <2>4. NextEntry(d) \in Job /\ status[NextEntry(d)] = "none"
    BY <1>0, <2>1, NewJob, ZenonT(30)
  <2>5. \A j \in Job : status[j] # "none" => status'[j] = status[j]
    BY <1>0, <2>3, <2>4, ZenonT(30) DEF TypeOK, TaskTypeOK
  <2>6. OthersKept(t)
    <3>1. ASSUME NEW u \in Thread \ {t}, job[u] # NULL
          PROVE  status'[job[u]] = status[job[u]]
      <4>1. job[u] \in Job /\ status[job[u]] \in {"IN_PROGRESS"} \cup Final
        BY <1>0, <3>1, ZenonT(30) DEF ControlInv, OneOwner, TypeOK, JobOrNull
      <4>2. status[job[u]] # "none"
        BY <4>1 DEF Final
      <4>3. QED
        BY <2>5, <4>1, <4>2, ZenonT(30)
    <3>2. QED
      BY <1>8, <2>2, <3>1, ZenonT(30) DEF ReadDirEntry, OthersKept, PcStep
  <2>7. OwnPart(t)
    <3>1. status'[d] = "IN_PROGRESS"
      BY <2>1, <2>5
    <3>2. pc'[t] = "readdir" /\ job' = job /\ output_mutex' = output_mutex
      BY <1>8, <2>2, ZenonT(30) DEF ReadDirEntry, PcStep
    <3>3. WorkerInvAt(t)'
      BY <1>000, <2>1, <3>1, <3>2, ZenonT(30) DEF WorkerInvAt
    <3>4. \A u \in Thread \ {t} : job[u] # d
      BY <1>0, <1>000, <2>1, ZenonT(30) DEF ControlInv, OneOwner
    <3>5. \A u \in Thread \ {t} : job[u] = JOB_INIT => pos'[JOB_INIT] = pos[JOB_INIT]
      BY <1>0, <1>000, <2>3, <3>4, ZenonT(30) DEF TypeOK, TaskTypeOK
    <3>6. QED
      BY <1>00, <2>1, <3>1, <3>2, <3>3, <3>4, <3>5, ZenonT(30) DEF OwnPart, Writing
  <2>8. QueueInv'
    <3>1. CASE create_job(d) /\ ListAppend(t, NextEntry(d))
      BY <1>0, <1>8, <2>1, <3>1, ListAppendStep, ZenonT(30) DEF ReadDirEntry
    <3>2. CASE /\ create_job_CannotStat(d) \/ create_job_TypeExcluded(d)
               /\ UNCHANGED <<next_job, listVars>>
      BY <1>0, <1>8, <2>1, <3>2, CreateNothing, ZenonT(30) DEF ReadDirEntry, queueVars
    <3>3. QED
      BY <1>8, <3>1, <3>2, ZenonT(30) DEF ReadDirEntry, ListAppend
  <2>9. QED
    BY <1>0, <2>6, <2>7, <2>8, ControlStep, ZenonT(30)
<1>9. CASE QueueDir(t)
  <2>1. PcStep(t, "status") /\ MpcStep
    BY <1>0, <1>9, GotoStep, WakeupAllStep, ZenonT(30) DEF QueueDir, WorkerPC, MpcStep
  <2>2. /\ pc'[t] = "status" /\ pc[t] = "readdir"
        /\ UNCHANGED <<job, status, pos, output_mutex, timed_out, mainVars>>
    BY <1>9, <2>1, ZenonT(30) DEF QueueDir, PcStep
  <2>3. OthersKept(t)
    BY <2>1, <2>2, ZenonT(30) DEF OthersKept, PcStep
  <2>4. OwnPart(t)
    <3>1. WorkerInvAt(t)'
      BY <1>0, <2>2, ZenonT(30) DEF WorkerInvAt
    <3>2. QED
      BY <1>0, <1>00, <2>2, <3>1, ZenonT(30) DEF OwnPart, Writing, ControlInv, OneOwner
  <2>5. QueueInv'
    <3>1. CASE first[t] # NULL
      BY <1>0, <1>9, <3>1, QueueListStep, ZenonT(30) DEF QueueDir
    <3>2. CASE first[t] = NULL
      <4>1. UNCHANGED <<first, last, chain>>
        BY <1>0, <1>9, <3>2, ZenonT(30) DEF QueueDir, QueueInv, ListInv, TypeOK
      <4>2. \A j \in Job : KeepsOrSettled(j)
        BY <2>2 DEF KeepsOrSettled
      <4>3. QED
        BY <1>0, <1>9, <2>2, <3>2, <4>1, <4>2, QueueUnchanged, ZenonT(30) DEF QueueDir
    <3>3. QED
      BY <3>1, <3>2, ZenonT(30)
  <2>6. QED
    BY <1>0, <2>3, <2>4, <2>5, ControlStep
<1>10. CASE Read(t)
  <2>1. PcStep(t, "status") /\ MpcStep
    <3>1. CASE set_aborted_if(read_error_aborts, t, "status")
      BY <1>0, <3>1, SetAbortedStep DEF WorkerPC
    <3>2. CASE pc' = Goto(t, "status") /\ mpc' = mpc
      BY <1>0, <3>2, GotoStep DEF WorkerPC, MpcStep
    <3>3. QED
      BY <1>10, <3>1, <3>2, ZenonT(30) DEF Read
  <2>2. WorkerInvAt(t)'
    BY <1>0, <1>10, <2>1, ZenonT(30) DEF Read, PcStep, WorkerInvAt
  <2>3. "status" \notin Writing /\ "status" \in WorkerPC
    BY DEF Writing, WorkerPC
  <2>4. output_mutex # t /\ output_mutex' = output_mutex /\ pc[t] # "none"
    BY <1>00, <1>10, ZenonT(30) DEF Read, Writing
  <2>5. QED
    BY <1>0, <1>10, <2>1, <2>2, <2>3, <2>4, PlainStep, ZenonT(30) DEF Read
<1>11. CASE SetStatus(t)
  <2>1. job[t] \in Job /\ status[job[t]] = "IN_PROGRESS" /\ pc[t] = "status"
    BY <1>0, <1>11, ZenonT(30) DEF SetStatus, WorkerInvAt, TypeOK, JobOrNull
  <2>2. /\ status'[job[t]] \in Final
        /\ \A j \in Job \ {job[t]} : status'[j] = status[j]
        /\ pc' = Goto(t, "outlock")
        /\ UNCHANGED <<job, output_mutex, pos, queueVars, listVars, timed_out, mpc,
                       mainVars>>
    BY <1>0, <1>11, <2>1, ZenonT(30) DEF SetStatus, TypeOK, TaskTypeOK
  <2>3. PcStep(t, "outlock") /\ MpcStep
    BY <1>0, <2>2, GotoStep, ZenonT(30) DEF WorkerPC, MpcStep
  <2>4. OthersKept(t)
    <3>1. \A u \in Thread \ {t} : job[u] # NULL => status'[job[u]] = status[job[u]]
      BY <1>0, <2>2, OwnedJobs, ZenonT(30) DEF ControlInv
    <3>2. QED
      BY <2>2, <2>3, <3>1, ZenonT(30) DEF OthersKept, PcStep
  <2>5. OwnPart(t)
    <3>1. pc'[t] = "outlock"
      BY <2>3 DEF PcStep
    <3>2. WorkerInvAt(t)'
      BY <1>000, <2>1, <2>2, <3>1, ZenonT(30) DEF WorkerInvAt
    <3>3. \A u \in Thread \ {t} : job[u] # job[t]
      BY <1>0, <1>000, <2>1, ZenonT(30) DEF ControlInv, OneOwner
    <3>4. QED
      BY <1>00, <2>1, <2>2, <3>1, <3>2, <3>3, ZenonT(30) DEF OwnPart, Writing
  <2>6. QueueInv'
    <3>1. \A j \in Job : KeepsOrSettled(j)
      BY <2>1, <2>2, ZenonT(30) DEF KeepsOrSettled, Settled, Status, Final, Absent
    <3>2. QED
      BY <1>0, <2>2, <3>1, QueueUnchanged, ZenonT(30) DEF listVars
  <2>7. QED
    BY <1>0, <2>4, <2>5, <2>6, ControlStep
<1>12. CASE OutputLock(t)
  <2>1. PcStep(t, "write") /\ MpcStep
    BY <1>0, <1>12, GotoStep, ZenonT(30) DEF OutputLock, WorkerPC, MpcStep
  <2>2. WorkerInvAt(t)'
    BY <1>0, <1>12, <2>1, ZenonT(30) DEF OutputLock, PcStep, WorkerInvAt
  <2>3. QED
    BY <1>0, <1>12, <2>1, <2>2, PlainStep, ZenonT(30) DEF OutputLock, Writing, WorkerPC
<1>13. CASE SkipEntry(t)
  <2>1. PcStep(t, "finish") /\ MpcStep
    BY <1>0, <1>13, GotoStep, ZenonT(30) DEF SkipEntry, WorkerPC, MpcStep
  <2>2. WorkerInvAt(t)'
    BY <1>0, <1>13, <2>1, ZenonT(30) DEF SkipEntry, PcStep, WorkerInvAt
  <2>3. output_mutex = t
    BY <1>00, <1>13, ZenonT(30) DEF SkipEntry, Writing
  <2>4. QED
    BY <1>0, <1>000, <1>13, <2>1, <2>2, <2>3, PlainStep, ZenonT(30)
       DEF SkipEntry, Writing, WorkerPC
<1>14. CASE BeginEntry(t)
  <2>1. PcStep(t, "writing") /\ MpcStep
    BY <1>0, <1>14, GotoStep, ZenonT(30) DEF BeginEntry, WorkerPC, MpcStep
  <2>2. WorkerInvAt(t)'
    BY <1>0, <1>14, <2>1, ZenonT(30) DEF BeginEntry, PcStep, WorkerInvAt
  <2>3. output_mutex = t
    BY <1>00, <1>14, ZenonT(30) DEF BeginEntry, Writing
  <2>4. QED
    BY <1>0, <1>14, <2>1, <2>2, <2>3, PlainStep, ZenonT(30) DEF BeginEntry, Writing, WorkerPC
<1>15. CASE EndEntry(t)
  <2>1. PICK cond \in BOOLEAN, more \in BOOLEAN :
          /\ set_aborted_if(cond, t, IF more THEN "wstatus" ELSE "finish")
          /\ output_mutex' = IF more THEN output_mutex ELSE NULL
    BY <1>15, ZenonT(30) DEF EndEntry
  <2>2. output_mutex = t /\ pc[t] \in {"writing", "wstatus"}
    BY <1>00, <1>15, ZenonT(30) DEF EndEntry, Writing
  <2>3. \E l \in {"wstatus", "finish"} :
          /\ PcStep(t, l) /\ MpcStep
          /\ output_mutex' = IF l = "wstatus" THEN t ELSE NULL
    <3>1. CASE more
      BY <1>0, <2>1, <2>2, <3>1, SetAbortedStep, ZenonT(30) DEF WorkerPC
    <3>2. CASE ~more
      BY <1>0, <2>1, <2>2, <3>2, SetAbortedStep, ZenonT(30) DEF WorkerPC
    <3>3. QED
      BY <3>1, <3>2, ZenonT(30)
  <2>4. PICK l \in {"wstatus", "finish"} :
          /\ PcStep(t, l) /\ MpcStep
          /\ output_mutex' = IF l = "wstatus" THEN t ELSE NULL
    BY <2>3
  <2>5. WorkerInvAt(t)'
    BY <1>0, <1>15, <2>2, <2>4, ZenonT(30) DEF EndEntry, PcStep, WorkerInvAt
  <2>6. /\ l \in WorkerPC
        /\ l \in Writing <=> output_mutex' = t
        /\ {output_mutex, output_mutex'} \subseteq {t, NULL}
    BY <1>000, <2>2, <2>4 DEF WorkerPC, Writing
  <2>7. UNCHANGED <<status, queueVars, pos, job, timed_out, listVars, mthread,
                    earliest, mjob>>
    BY <1>15, ZenonT(30) DEF EndEntry
  <2>8. QED
    BY <1>0, <2>2, <2>4, <2>5, <2>6, <2>7, PlainStep, ZenonT(30)
<1>16. CASE Finish(t)
  <2>1. pc[t] = "finish" /\ job[t] \in Job
    BY <1>0, <1>16, ZenonT(30) DEF Finish, WorkerInvAt, TypeOK, JobOrNull
  <2>2. CASE timed_out[t]
    <3>1. PcStep(t, "end") /\ MpcStep
      BY <1>0, <1>16, <2>2, GotoStep, ZenonT(30) DEF Finish, LeaveLoop, WorkerPC, MpcStep
    <3>2. WorkerInvAt(t)'
      BY <3>1, ZenonT(30) DEF PcStep, WorkerInvAt
    <3>3. output_mutex # t /\ output_mutex' = output_mutex
      BY <1>00, <1>16, <2>1, ZenonT(30) DEF Finish, Writing
    <3>4. UNCHANGED <<status, queueVars, pos, job, timed_out, listVars, mthread,
                      earliest, mjob>>
      BY <1>16, <2>2, ZenonT(30) DEF Finish
    <3>5. QED
      BY <1>0, <2>1, <3>1, <3>2, <3>3, <3>4, PlainStep, ZenonT(30) DEF Writing, WorkerPC
  <2>3. CASE ~timed_out[t]
    <3> DEFINE st == [status EXCEPT ![job[t]] = "freed"]
               jb == [job EXCEPT ![t] = NULL]
               active == num_jobs_active - 1
    <3>1. mpc \in {"cancel", "join"} => t # earliest
      BY <1>0, <2>3 DEF ControlInv, MainInv
    <3>2. st \in [Job -> Status] /\ jb \in [Thread -> JobOrNull]
      <4>1. "freed" \in Status /\ NULL \in JobOrNull
        BY DEF Status, Freed, JobOrNull
      <4>2. QED
        BY <1>0, <4>1, ZenonT(30) DEF TypeOK, TaskTypeOK
    <3>3. /\ jb[t] = NULL
          /\ \A u \in Thread \ {t} : jb[u] = job[u]
          /\ st[job[t]] = "freed"
          /\ \A j \in Job \ {job[t]} : st[j] = status[j]
      BY <1>0, <2>1, ZenonT(30) DEF TypeOK, TaskTypeOK
    <3>4. UNCHANGED <<timed_out, mainVars, output_mutex, pos, listVars>>
      BY <1>16, <2>3, ZenonT(30) DEF Finish
    <3>5. CASE leftover[t]
      <4>1. /\ status' = st /\ job' = jb /\ pc' = Goto(t, "get")
            /\ UNCHANGED queueVars /\ MpcStep
        BY <1>16, <2>3, <3>5, ZenonT(30) DEF Finish, MpcStep
      <4> HIDE DEF st, jb
      <4>2. PcStep(t, "get")
        BY <1>0, <4>1, GotoStep, ZenonT(30) DEF WorkerPC
      <4>3. OthersKept(t)
        <5>1. \A u \in Thread \ {t} : job[u] # NULL => status'[job[u]] = status[job[u]]
          BY <1>0, <3>3, <4>1, OwnedJobs, ZenonT(30) DEF ControlInv
        <5>2. QED
          BY <3>3, <3>4, <4>1, <4>2, <5>1, ZenonT(30) DEF OthersKept, PcStep
      <4>4. OwnPart(t)
        BY <1>00, <2>1, <3>1, <3>3, <3>4, <4>1, <4>2, ZenonT(30)
           DEF OwnPart, Writing, PcStep, WorkerInvAt
      <4>5. QueueInv'
        <5>1. status[job[t]] \in Settled
          BY <1>0, <1>000, <2>1, ZenonT(30) DEF ControlInv, OneOwner, Settled, Final, Status, Absent
        <5>2. \A j \in Job : KeepsOrSettled(j)
          BY <2>1, <3>3, <4>1, <5>1, ZenonT(30) DEF KeepsOrSettled, Settled, Status, Freed, Absent
        <5>3. QED
          BY <1>0, <3>4, <4>1, <5>2, QueueUnchanged, ZenonT(30) DEF listVars
      <4>6. QED
        BY <1>0, <4>3, <4>4, <4>5, ControlStep
    <3>6. CASE ~leftover[t]
      <4>1. get_next_job(t, st, active, jb, active = 0)
        BY <1>16, <2>3, <3>6, ZenonT(30) DEF Finish
      <4> HIDE DEF st, jb, active
      <4>2. \A j \in Job : st[j] = status[j] \/ (j = job[t] /\ st[j] = "freed")
        BY <3>3, ZenonT(30)
      <4>3. QED
        BY <1>0, <2>1, <3>1, <3>2, <3>3, <3>4, <4>1, <4>2, GetNextOwn, ZenonT(30)
    <3>7. QED
      BY <3>5, <3>6
  <2>4. QED
    BY <2>2, <2>3
<1>17. CASE Cancelled(t)
  <2>1. PcStep(t, "dead") /\ MpcStep
    BY <1>0, <1>17, GotoStep, ZenonT(30) DEF Cancelled, WorkerPC, MpcStep
  <2>2. WorkerInvAt(t)'
    BY <2>1 DEF PcStep, WorkerInvAt
  <2>3. /\ output_mutex' # t
        /\ output_mutex' # output_mutex => {output_mutex, output_mutex'} \subseteq {t, NULL}
        /\ pc[t] # "none"
    BY <1>00, <1>000, <1>17, ZenonT(30) DEF Cancelled, Writing
  <2>4. UNCHANGED <<status, queueVars, pos, job, timed_out, listVars, mthread,
                    earliest, mjob>>
    BY <1>17, ZenonT(30) DEF Cancelled
  <2>5. QED
    BY <1>0, <2>1, <2>2, <2>3, <2>4, PlainStep, ZenonT(30) DEF Writing, WorkerPC
<1>18. QED
  BY <1>1, <1>2, <1>3, <1>4, <1>5, <1>6, <1>7, <1>8, <1>9, <1>10, <1>11, <1>12,
     <1>13, <1>14, <1>15, <1>16, <1>17, ZenonT(30) DEF Worker

(***************************************************************************)
(* The steps of main, and what follows from the invariant.                 *)
(***************************************************************************)
\* The invariant holds initially.
LEMMA InitInv == Init => IInv
<1> SUFFICES ASSUME Init PROVE IInv
  BY ZenonT(30)
<1> USE DEF Init, init_queue
<1>0. /\ JOB_INIT \in Job /\ NULL \notin Job /\ NULL \notin Thread
      /\ jobs \in Nat /\ 1 \in Thread
  BY TreeAssumption, ThreadedAssumption, NullIsNoThread, SMTT(30) DEF Job, Thread
<1>1. TypeOK
  <2>1. TaskTypeOK
    <3>1. stats \in Stats
      BY ZenonT(30) DEF Stats
    <3>2. status \in [Job -> Status]
      BY ZenonT(30) DEF Status, Absent
    <3>3. num_jobs_active \in Int /\ output_num_files \in Nat
      OBVIOUS
    <3>6. aborted \in BOOLEAN
      BY ZenonT(30)
    <3>4. pos \in [Job -> Nat] /\ whole \in [Job -> Nat] /\ torn \in [Job -> Nat]
      BY ZenonT(30)
    <3>5. /\ next_job \in [Job -> JobOrNull]
          /\ jobs_head \in JobOrNull /\ jobs_tail \in JobOrNull
      BY <1>0, ZenonT(30) DEF JobOrNull
    <3>7. QED
      BY <3>1, <3>2, <3>3, <3>4, <3>5, <3>6, ZenonT(30) DEF TaskTypeOK
  <2>2. QED
    BY <1>0, <2>1, ZenonT(30) DEF TypeOK, WorkerPC, MainPC, JobOrNull, ThreadOrNull, Final
<1>2. OneOwner /\ WorkerInv /\ InterruptedJobKept /\ OutputExclusive /\ MainInv
  BY <1>0, ZenonT(30) DEF OneOwner, WorkerInv, WorkerInvAt, InterruptedJobKept,
              OutputExclusive, MainInv
<1>3. QueuePointersValid /\ ListInv /\ LinkInv
  BY <1>0, ZenonT(30) DEF QueuePointersValid, ListInv, LinkInv, Queued
<1>4. FreshInv
  <2>1. \A d \in Job : \A i \in 1..Len(Entries[d]) : Entries[d][i] \in Node
    BY TreeAssumption, SMTT(30)
  <2>2. \A j \in Node : j \in Job /\ j # JOB_INIT
    BY TreeAssumption, ZenonT(30) DEF Job
  <2>3. QED
    BY <2>1, <2>2, ZenonT(30) DEF FreshInv
<1>5. QED
  BY <1>1, <1>2, <1>3, <1>4 DEF IInv

\* A step that moves main and wakes workers, and touches no job.
LEMMA MainPlain ==
    ASSUME TypeOK, ControlInv, QueueInv,
           \A u \in Thread : pc'[u] = pc[u] \/ (pc[u] = "wait" /\ pc'[u] = "get"),
           UNCHANGED <<status, queueVars, pos, job, listVars, output_mutex>>,
           MainInv', InterruptedJobKept'
    PROVE  ControlInv' /\ QueueInv'
<1>1. OneOwner'
  BY ZenonT(30) DEF ControlInv, OneOwner
<1>2. WorkerInv'
  <2>1. ASSUME NEW u \in Thread
        PROVE  WorkerInvAt(u)'
    BY ZenonT(30) DEF ControlInv, WorkerInv, WorkerInvAt, HasEntry
  <2>2. QED
    BY <2>1, ZenonT(30) DEF WorkerInv
<1>3. OutputExclusive'
  BY ZenonT(30) DEF ControlInv, OutputExclusive
<1>4. QueueInv'
  <2>1. \A j \in Job : KeepsOrSettled(j)
    BY DEF KeepsOrSettled
  <2>2. QED
    BY <2>1, QueueUnchanged, ZenonT(30) DEF listVars
<1>5. QED
  BY <1>1, <1>2, <1>3, <1>4, ZenonT(30) DEF ControlInv

\* Every step of main, of the clock, and a spurious wakeup preserve the
\* invariant.
LEMMA MainStep ==
    ASSUME IInv, Main \/ Tick \/ SpuriousWakeup \/ UNCHANGED vars
    PROVE  IInv'
<1>0. TypeOK /\ ControlInv /\ QueueInv /\ TypeOK'
  <2>1. TypeOK /\ ControlInv /\ QueueInv
    BY DEF IInv, ControlInv, QueueInv
  <2>2. QED
    BY <2>1, MainType DEF ControlInv
<1>00. \A u \in Thread : pc[u] \in Writing <=> output_mutex = u
  BY <1>0, ZenonT(30) DEF ControlInv, OutputExclusive, Writing
<1>000. /\ NULL \notin Job /\ NULL \notin Thread /\ jobs \in Nat /\ 1 \in Thread
        /\ pc \in [Thread -> WorkerPC]
        /\ \A p \in [Thread -> WorkerPC], u \in Thread :
              worker_wakeup_all(p)[u] = IF p[u] = "wait" THEN "get" ELSE p[u]
  BY <1>0, TreeAssumption, ThreadedAssumption, NullIsNoThread, SMTT(30)
     DEF Thread, TypeOK, worker_wakeup_all
<1> SUFFICES ControlInv' /\ QueueInv'
  BY <1>0, ZenonT(30) DEF IInv, ControlInv, QueueInv
<1> USE DEF taskVars, threadVars, localVars, mainVars
<1>1. CASE Spawn
  <2>1. mthread \in Thread /\ pc[mthread] = "none" /\ job[mthread] = NULL
    <3>1. mthread \in Thread /\ mthread >= mthread
      BY <1>0, SMTT(30) DEF TypeOK, Thread
    <3>2. pc[mthread] = "none"
      BY <1>0, <1>1, <3>1, ZenonT(30) DEF Spawn, ControlInv, MainInv
    <3>3. QED
      BY <1>0, <3>1, <3>2, ZenonT(30) DEF ControlInv, WorkerInv, WorkerInvAt
  <2>2. CASE pc' = Goto(mthread, "start") /\ mpc' = "spawned" /\ UNCHANGED mthread
    <3>1. /\ pc'[mthread] = "start"
          /\ \A u \in Thread \ {mthread} : pc'[u] = pc[u]
      BY <1>0, <2>1, <2>2, ZenonT(30) DEF Goto, TypeOK
    <3>2. MainInv'
      <4>1. mpc = "spawn" /\ MainInv
        BY <1>0, <1>1, ZenonT(30) DEF Spawn, ControlInv
      <4>2. ASSUME NEW t \in Thread, t > mthread' PROVE pc'[t] = "none"
        <5>1. t >= mthread /\ t # mthread
          BY <2>1, <2>2, <4>2, ThreadedAssumption DEF Thread
        <5> QED
          BY <3>1, <4>1, <5>1, ZenonT(30) DEF MainInv
      <4> QED
        BY <2>2, <4>2, ZenonT(30) DEF MainInv
    <3>3. OneOwner' /\ InterruptedJobKept'
      BY <1>0, <1>1, <2>2, ZenonT(30) DEF Spawn, ControlInv, OneOwner, InterruptedJobKept
    <3>4. OutputExclusive'
      BY <1>0, <1>1, <2>1, <3>1, ZenonT(30) DEF Spawn, ControlInv, OutputExclusive
    <3>5. ASSUME NEW u \in Thread PROVE WorkerInvAt(u)'
      BY <1>0, <1>1, <2>1, <3>1, ZenonT(30) DEF Spawn, ControlInv, WorkerInv, WorkerInvAt, HasEntry
    <3>6. QueueInv'
      <4>1. \A j \in Job : KeepsOrSettled(j)
        BY <1>1, ZenonT(30) DEF Spawn, KeepsOrSettled
      <4>2. QED
        BY <1>0, <1>1, <4>1, QueueUnchanged, ZenonT(30) DEF Spawn, listVars
    <3>7. QED
      BY <3>2, <3>3, <3>4, <3>5, <3>6, ZenonT(30) DEF ControlInv, WorkerInv
  <2>3. CASE mpc' = "cleanup" /\ UNCHANGED pc
    <3>1. MainInv' /\ InterruptedJobKept'
      BY <2>3, ZenonT(30) DEF MainInv, InterruptedJobKept
    <3>2. QED
      BY <1>0, <1>1, <2>3, <3>1, MainPlain, ZenonT(30) DEF Spawn
  <2>4. QED
    BY <1>1, <2>2, <2>3, ZenonT(30) DEF Spawn
<1>2. CASE Spawned
  <2>0. InterruptedJobKept'
    BY <1>2, ZenonT(30) DEF Spawned, InterruptedJobKept
  <2>1. MainInv'
    <3>1. CASE mpc' = "loop"
      BY <3>1, ZenonT(30) DEF MainInv
    <3>2. CASE mpc' = "spawn" /\ mthread' = mthread + 1
      <4>1. mpc = "spawned" /\ UNCHANGED pc /\ MainInv
        BY <1>0, <1>2, ZenonT(30) DEF Spawned, ControlInv
      <4>2. ASSUME NEW t \in Thread, t >= mthread' PROVE pc'[t] = "none"
        <5>1. mthread \in Thread
          BY <1>0, Zenon DEF TypeOK
        <5>2. t > mthread
          BY <3>2, <4>2, <5>1, ThreadedAssumption, SMTT(30) DEF Thread
        <5> QED
          BY <4>1, <5>2, ZenonT(30) DEF MainInv
      <4> QED
        BY <3>2, <4>2, ZenonT(30) DEF MainInv
    <3> QED
      BY <1>2, <3>1, <3>2, ZenonT(30) DEF Spawned
  <2>2. QED
    BY <1>0, <1>2, <2>0, <2>1, MainPlain, ZenonT(30) DEF Spawned
<1>3. CASE WaitLoop
  <2>1. MainInv' /\ InterruptedJobKept'
    BY <1>3, ZenonT(30) DEF WaitLoop, MainInv, InterruptedJobKept
  <2>2. \A u \in Thread : pc'[u] = pc[u] \/ (pc[u] = "wait" /\ pc'[u] = "get")
    BY <1>000, <1>3, ZenonT(30) DEF WaitLoop
  <2>3. QED
    BY <1>0, <1>3, <2>1, <2>2, MainPlain, ZenonT(30) DEF WaitLoop
<1>4. CASE WaitTimesOut
  <2>1. MainInv' /\ InterruptedJobKept'
    BY <1>4, ZenonT(30) DEF WaitTimesOut, MainInv, InterruptedJobKept
  <2>2. QED
    BY <1>0, <1>4, <2>1, MainPlain, ZenonT(30) DEF WaitTimesOut
<1>5. CASE HandleTimeout
  <2>1. MainInv' /\ InterruptedJobKept'
    <3>1. CASE mpc' \in {"fin", "loop"}
      BY <3>1, ZenonT(30) DEF MainInv, InterruptedJobKept
    <3>2. CASE /\ earliest # NULL /\ TimeoutApplies(earliest)
               /\ timed_out' = [timed_out EXCEPT ![earliest] = TRUE]
               /\ mjob' = job[earliest] /\ mpc' = "cancel"
      <4>1. /\ earliest \in Thread /\ job[earliest] # NULL
            /\ status[job[earliest]] \in {"IN_PROGRESS"} \cup Final
        BY <1>0, <3>2, ZenonT(30) DEF TypeOK, ThreadOrNull, TimeoutApplies, ControlInv, OneOwner
      <4>2. timed_out'[earliest]
        BY <1>0, <3>2, <4>1, ZenonT(30) DEF TypeOK
      <4>3. QED
        BY <1>5, <3>2, <4>1, <4>2, ZenonT(30) DEF HandleTimeout, MainInv, InterruptedJobKept
    <3>3. QED
      BY <1>5, <3>1, <3>2 DEF HandleTimeout
  <2>2. \A u \in Thread : pc'[u] = pc[u] \/ (pc[u] = "wait" /\ pc'[u] = "get")
    BY <1>000, <1>5, ZenonT(30) DEF HandleTimeout
  <2>3. QED
    BY <1>0, <1>5, <2>1, <2>2, MainPlain, ZenonT(30) DEF HandleTimeout
<1>6. CASE CancelThread
  <2>1. MainInv' /\ InterruptedJobKept'
    BY <1>0, <1>6, ZenonT(30) DEF CancelThread, ControlInv, MainInv, InterruptedJobKept
  <2>2. QED
    BY <1>0, <1>6, <2>1, MainPlain, ZenonT(30) DEF CancelThread
<1>7. CASE JoinThread
  <2>1. /\ earliest \in Thread /\ mjob \in Job /\ job[earliest] = mjob
        /\ status[mjob] \in {"IN_PROGRESS"} \cup Final
        /\ pc[earliest] \in {"end", "dead"}
    BY <1>0, <1>7, ZenonT(30) DEF JoinThread, Ended, ControlInv, MainInv, InterruptedJobKept,
                      TypeOK, ThreadOrNull, JobOrNull
  <2>2. /\ status'[mjob] \in Final
        /\ status[mjob] \in Final => status'[mjob] = status[mjob]
        /\ \A j \in Job \ {mjob} : status'[j] = status[j]
    BY <1>0, <1>7, <2>1, ZenonT(30) DEF JoinThread, TypeOK, TaskTypeOK, Final
  <2>3. /\ pc'[earliest] \in {"start", "joined"}
        /\ \A u \in Thread \ {earliest} :
              pc'[u] = pc[u] \/ (pc[u] = "wait" /\ pc'[u] = "get")
    <3>1. PICK l \in {"start", "joined"} :
            \/ pc' = Goto(earliest, l)
            \/ pc' = worker_wakeup_all(Goto(earliest, l))
      BY <1>7, ZenonT(30) DEF JoinThread
    <3>2. /\ Goto(earliest, l) \in [Thread -> WorkerPC]
          /\ Goto(earliest, l)[earliest] = l
          /\ \A u \in Thread \ {earliest} : Goto(earliest, l)[u] = pc[u]
      BY <1>000, <2>1, ZenonT(30) DEF Goto, WorkerPC
    <3>3. QED
      BY <1>000, <2>1, <3>1, <3>2, ZenonT(30)
  <2>4. /\ UNCHANGED <<queueVars, pos, job, listVars, output_mutex>>
        /\ mpc' = "loop"
    BY <1>7, ZenonT(30) DEF JoinThread
  <2>5. \A u \in Thread \ {earliest} : job[u] # NULL => job[u] \in Job \ {mjob}
    BY <1>0, <2>1 DEF ControlInv, OneOwner, TypeOK, JobOrNull
  <2>6. OneOwner'
    BY <1>0, <2>1, <2>2, <2>4, <2>5, ZenonT(30) DEF ControlInv, OneOwner
  <2>7. WorkerInv'
    <3>1. ASSUME NEW u \in Thread \ {earliest}
          PROVE  WorkerInvAt(u)'
      BY <1>0, <2>2, <2>3, <2>4, <2>5, ZenonT(30) DEF ControlInv, WorkerInv, WorkerInvAt, HasEntry
    <3>2. ASSUME NEW u \in Thread, u = earliest
          PROVE  WorkerInvAt(u)'
      BY <2>3, <3>2, ZenonT(30) DEF WorkerInvAt
    <3>3. QED
      BY <3>1, <3>2 DEF WorkerInv
  <2>8. OutputExclusive'
    BY <1>0, <2>1, <2>3, <2>4, ZenonT(30) DEF ControlInv, OutputExclusive
  <2>9. MainInv' /\ InterruptedJobKept'
    BY <2>4, ZenonT(30) DEF MainInv, InterruptedJobKept
  <2>10. QueueInv'
    <3>1. \A j \in Job : KeepsOrSettled(j)
      BY <2>1, <2>2, ZenonT(30) DEF KeepsOrSettled, Settled, Status, Final, Absent
    <3>2. QED
      BY <1>0, <2>4, <3>1, QueueUnchanged, ZenonT(30) DEF listVars
  <2>11. QED
    BY <2>6, <2>7, <2>8, <2>9, <2>10, ZenonT(30) DEF ControlInv
<1>8. CASE FinishWait
  <2>1. MainInv' /\ InterruptedJobKept'
    BY <1>8, ZenonT(30) DEF FinishWait, MainInv, InterruptedJobKept
  <2>2. QED
    BY <1>0, <1>8, <2>1, MainPlain, ZenonT(30) DEF FinishWait
<1>9. CASE FinishWaitTimesOut
  <2>1. MainInv' /\ InterruptedJobKept'
    BY <1>9, ZenonT(30) DEF FinishWaitTimesOut, MainInv, InterruptedJobKept
  <2>2. QED
    BY <1>0, <1>9, <2>1, MainPlain DEF FinishWaitTimesOut
<1>10. CASE Cleanup
  <2>1. MainInv' /\ InterruptedJobKept'
    BY <1>10, ZenonT(30) DEF Cleanup, MainInv, InterruptedJobKept
  <2>2. QED
    BY <1>0, <1>10, <2>1, MainPlain DEF Cleanup
<1>11. CASE CleanupJoin
  <2>1. mthread \in Thread /\ pc[mthread] \in {"end", "dead"}
    BY <1>0, <1>11, ZenonT(30) DEF CleanupJoin, Ended, TypeOK
  <2>2. /\ pc'[mthread] = "joined" /\ job'[mthread] = NULL
        /\ \A u \in Thread \ {mthread} : pc'[u] = pc[u] /\ job'[u] = job[u]
        /\ UNCHANGED <<queueVars, pos, listVars, output_mutex>>
        /\ mpc' \in {"cleanup", "abort"}
    BY <1>0, <1>11, <2>1, ZenonT(30) DEF CleanupJoin, Goto, TypeOK
  <2>3. /\ \A j \in Job : j # job[mthread] => status'[j] = status[j]
        /\ job[mthread] # NULL => status'[job[mthread]] = "dropped"
    BY <1>0, <1>11, <2>1, ZenonT(60) DEF CleanupJoin, TypeOK, TaskTypeOK, JobOrNull
  <2>4. \A u \in Thread \ {mthread} : job[u] # NULL =>
           job[u] \in Job /\ job[u] # job[mthread]
    BY <1>0, <2>1 DEF ControlInv, OneOwner, TypeOK, JobOrNull
  <2>5. OneOwner'
    <3> SUFFICES ASSUME NEW t \in Thread, job'[t] # NULL
                 PROVE  /\ status'[job'[t]] \in {"IN_PROGRESS"} \cup Final
                        /\ \A u \in Thread : job'[u] = job'[t] => u = t
      BY ZenonT(30) DEF OneOwner
    <3>1. t # mthread /\ job'[t] = job[t] /\ job[t] # NULL
      BY <2>2, ZenonT(30)
    <3>2. job[t] \in Job /\ job[t] # job[mthread] /\ status'[job[t]] = status[job[t]]
      BY <2>3, <2>4, <3>1, ZenonT(30)
    <3>3. /\ status[job[t]] \in {"IN_PROGRESS"} \cup Final
          /\ \A u \in Thread : job[u] = job[t] => u = t
      BY <1>0, <3>1, ZenonT(30) DEF ControlInv, OneOwner
    <3>4. ASSUME NEW u \in Thread, job'[u] = job'[t] PROVE u = t
      <4>1. u # mthread
        BY <2>2, <3>1, <3>4, ZenonT(30)
      <4>2. job[u] = job[t]
        BY <2>2, <3>1, <3>4, <4>1, ZenonT(30)
      <4> QED
        BY <3>3, <4>2, ZenonT(30)
    <3> QED
      BY <3>1, <3>2, <3>3, <3>4, ZenonT(30)
  <2>6. WorkerInv'
    <3>1. ASSUME NEW u \in Thread \ {mthread}
          PROVE  WorkerInvAt(u)'
      <4>1. u \in Thread /\ pc'[u] = pc[u] /\ job'[u] = job[u] /\ pos' = pos
        BY <2>2, ZenonT(30)
      <4>2. job[u] # NULL => status'[job[u]] = status[job[u]]
        BY <2>3, <2>4, ZenonT(30)
      <4>3. WorkerInvAt(u)
        BY <1>0, <4>1, ZenonT(30) DEF ControlInv, WorkerInv
      <4> QED
        BY <4>1, <4>2, <4>3, ZenonT(30) DEF WorkerInvAt, HasEntry
    <3>2. ASSUME NEW u \in Thread, u = mthread
          PROVE  WorkerInvAt(u)'
      BY <2>2, <3>2, ZenonT(30) DEF WorkerInvAt
    <3>3. QED
      BY <3>1, <3>2 DEF WorkerInv
  <2>7. OutputExclusive'
    BY <1>0, <2>1, <2>2, ZenonT(30) DEF ControlInv, OutputExclusive
  <2>8. MainInv' /\ InterruptedJobKept'
    BY <2>2, ZenonT(30) DEF MainInv, InterruptedJobKept
  <2>9. QueueInv'
    <3>1. job[mthread] # NULL => status[job[mthread]] \in Settled
      BY <1>0, <2>1, ZenonT(30) DEF ControlInv, OneOwner, Settled, Status, Final, Absent
    <3>2. "dropped" \in Settled
      BY ZenonT(30) DEF Settled, Status, Freed, Absent
    <3>3. \A j \in Job : KeepsOrSettled(j)
      BY <1>000, <2>3, <3>1, <3>2 DEF KeepsOrSettled
    <3>4. QED
      BY <1>0, <2>2, <3>3, QueueUnchanged, ZenonT(30) DEF listVars
  <2>10. QED
    BY <2>5, <2>6, <2>7, <2>8, <2>9, ZenonT(30) DEF ControlInv
<1>12. CASE AbortQueued
  <2>1. jobs_head \in Job /\ status[jobs_head] = "QUEUED"
    BY <1>0, <1>12, ZenonT(30) DEF AbortQueued, dequeue_job, QueueInv, QueuePointersValid
  <2>2. /\ status'[jobs_head] = "freed"
        /\ \A j \in Job \ {jobs_head} : status'[j] = status[j]
        /\ UNCHANGED <<pc, job, pos, listVars, output_mutex, mpc>>
        /\ mpc = "abort"
    BY <1>0, <1>12, <2>1, ZenonT(30) DEF AbortQueued, TypeOK, TaskTypeOK
  <2>3. \A u \in Thread : job[u] # NULL => job[u] \in Job \ {jobs_head}
    <3>1. \A u \in Thread : job[u] # NULL => status[job[u]] # "QUEUED"
      BY <1>0, ZenonT(30) DEF ControlInv, OneOwner, Final
    <3>2. QED
      BY <1>0, <2>1, <3>1, ZenonT(30) DEF TypeOK, JobOrNull
  <2>4. OneOwner'
    BY <1>0, <2>2, <2>3 DEF ControlInv, OneOwner
  <2>5. ASSUME NEW u \in Thread PROVE WorkerInvAt(u)'
    BY <1>0, <2>2, <2>3, ZenonT(30) DEF ControlInv, WorkerInv, WorkerInvAt, HasEntry
  <2>6. OutputExclusive' /\ MainInv' /\ InterruptedJobKept'
    BY <1>0, <2>2 DEF ControlInv, OutputExclusive, MainInv, InterruptedJobKept
  <2>7. QueueInv'
    <3>1. "freed" \in Settled
      BY ZenonT(30) DEF Settled, Status, Freed, Absent
    <3>2. \A j \in Job \ {jobs_head} : KeepsOrSettled(j)
      BY <2>2 DEF KeepsOrSettled
    <3>3. QED
      BY <1>0, <1>12, <2>2, <3>1, <3>2, DequeueStep, ZenonT(30) DEF AbortQueued
  <2>8. QED
    BY <2>4, <2>5, <2>6, <2>7, ZenonT(30) DEF ControlInv, WorkerInv
<1>13. CASE Exit
  <2>1. MainInv' /\ InterruptedJobKept'
    BY <1>13 DEF Exit, MainInv, InterruptedJobKept
  <2>2. QED
    BY <1>0, <1>13, <2>1, MainPlain, ZenonT(30) DEF Exit
<1>14. CASE Tick
  <2>1. MainInv' /\ InterruptedJobKept'
    BY <1>0, <1>14 DEF Tick, ControlInv, MainInv, InterruptedJobKept
  <2>2. QED
    BY <1>0, <1>14, <2>1, MainPlain, ZenonT(30) DEF Tick
<1>15. CASE SpuriousWakeup
  <2>1. \A u \in Thread : pc'[u] = pc[u] \/ (pc[u] = "wait" /\ pc'[u] = "get")
    BY <1>000, <1>15 DEF SpuriousWakeup, Goto
  <2>2. mpc' = mpc \/ mpc' = "loop"
    BY <1>15, ZenonT(30) DEF SpuriousWakeup
  <2>3. MainInv' /\ InterruptedJobKept'
    BY <1>0, <1>15, <2>1, <2>2, ZenonT(30)
       DEF SpuriousWakeup, ControlInv, MainInv, InterruptedJobKept
  <2>4. QED
    BY <1>0, <1>15, <2>1, <2>3, MainPlain, ZenonT(30) DEF SpuriousWakeup
<1>16. CASE UNCHANGED vars
  <2>1. MainInv' /\ InterruptedJobKept'
    BY <1>0, <1>16, ZenonT(30) DEF vars, ControlInv, MainInv, InterruptedJobKept
  <2>2. QED
    BY <1>0, <1>16, <2>1, MainPlain, ZenonT(30) DEF vars
<1>17. QED
  BY <1>1, <1>2, <1>3, <1>4, <1>5, <1>6, <1>7, <1>8, <1>9, <1>10, <1>11, <1>12,
     <1>13, <1>14, <1>15, <1>16, ZenonT(30) DEF Main

\* The inductive invariant: it holds initially and every step preserves it.
THEOREM InductiveInvariant == Spec => []IInv
<1>1. Init => IInv
  BY InitInv
<1>2. IInv /\ [Next]_vars => IInv'
  <2> SUFFICES ASSUME IInv, [Next]_vars PROVE IInv'
    OBVIOUS
  <2>1. CASE \E t \in Thread : Worker(t)
    BY <2>1, WorkerStep
  <2>2. CASE Main \/ Tick \/ SpuriousWakeup \/ UNCHANGED vars
    BY <2>2, MainStep
  <2>3. QED
    BY <2>1, <2>2 DEF Next, Stopped
<1>3. QED
  BY <1>1, <1>2, PTL DEF Spec

\* The variables keep their types, whatever the tree, the number of threads and
\* the timeouts are.
THEOREM TypeCorrect == Spec => []TypeOK
  BY InductiveInvariant, PTL DEF IInv

\* No two threads ever process the same job and none has a freed one, although
\* _timeout_thread passes jobs from a cancelled thread to its successor.
THEOREM JobsHaveOneOwner == Spec => []OneOwner
  BY InductiveInvariant, PTL DEF IInv

\* The pointers of the job queue and of the lists queue_dir builds never lead
\* to a job that is being processed or has been freed.
THEOREM QueueIsSound == Spec => []QueuePointersValid
  BY InductiveInvariant, PTL DEF IInv

\* The job _timeout_thread interrupts stays with its thread while task->mutex
\* is released.
THEOREM TimeoutKeepsJob == Spec => []InterruptedJobKept
  BY InductiveInvariant, PTL DEF IInv

\* At most one thread is inside _write_job_data, and a cancelled thread does
\* not keep output_mutex.
THEOREM EntriesDoNotMix == Spec => []OutputExclusive
  BY InductiveInvariant, PTL DEF IInv

\* get_next_job gives a thread a job only if the task is not aborted.
LEMMA NoNextJobAfterAbort ==
    ASSUME NEW t \in Thread, NEW st, NEW active, NEW jb, NEW woken,
           get_next_job(t, st, active, jb, woken), aborted
    PROVE  job' = jb
  BY DEF get_next_job

\* No worker starts another job once set_aborted has been called.
THEOREM AbortStopsWork == Spec => NoStartAfterAbort
<1> DEFINE A == aborted => \A t \in Thread : job'[t] \in {job[t], NULL}
<1>1. TypeOK /\ [Next]_vars => [A]_vars
  <2> SUFFICES ASSUME TypeOK, Next, aborted, NEW u \in Thread
               PROVE  job'[u] \in {job[u], NULL}
    BY ZenonT(30)
  <2>0. job \in [Thread -> JobOrNull]
    BY DEF TypeOK
  <2>1. ASSUME NEW t \in Thread, Worker(t) PROVE job'[u] \in {job[u], NULL}
    <3>1. CASE GetNext(t)
      BY <3>1, NoNextJobAfterAbort, ZenonT(30) DEF GetNext
    <3>2. CASE Finish(t)
      <4>1. CASE UNCHANGED job
        BY <4>1
      <4>2. CASE job' = [job EXCEPT ![t] = NULL]
        BY <2>0, <4>2
      <4>3. QED
        BY <3>2, <4>1, <4>2, NoNextJobAfterAbort, ZenonT(30) DEF Finish
    <3>3. CASE \/ Start(t) \/ Exclude(t) \/ OpenOutput(t) \/ ScanSpecs(t)
               \/ QueueSpec(t) \/ OpenDir(t) \/ ReadDirEntry(t) \/ QueueDir(t)
               \/ Read(t) \/ SetStatus(t) \/ OutputLock(t) \/ SkipEntry(t)
               \/ BeginEntry(t) \/ EndEntry(t) \/ Cancelled(t)
      BY <3>3, ZenonT(30) DEF Start, Exclude, OpenOutput, ScanSpecs, QueueSpec, OpenDir,
                  ReadDirEntry, QueueDir, Read, SetStatus, OutputLock, SkipEntry,
                  BeginEntry, EndEntry, Cancelled, threadVars
    <3>4. QED
      BY <2>1, <3>1, <3>2, <3>3, ZenonT(30) DEF Worker
  <2>2. CASE CleanupJoin
    BY <2>0, <2>2 DEF CleanupJoin
  <2>3. CASE (Main /\ ~CleanupJoin) \/ Tick \/ SpuriousWakeup \/ Stopped
    BY <2>3, ZenonT(30) DEF Main, Spawn, Spawned, WaitLoop, WaitTimesOut, HandleTimeout,
                CancelThread, JoinThread, FinishWait, FinishWaitTimesOut, Cleanup,
                AbortQueued, Exit, Tick, SpuriousWakeup, Stopped, vars, threadVars
  <2>4. QED
    BY <2>1, <2>2, <2>3, ZenonT(30) DEF Next
<1>2. QED
  BY <1>1, TypeCorrect, PTL DEF Spec, NoStartAfterAbort

\* The status of a job changes from a final one to freed only.
FinalKept(j) == status[j] \in Final => status'[j] \in Freed \cup {status[j]}

\* create_job makes a job for an entry that had none.
LEMMA CreateKeepsFinal ==
    ASSUME TypeOK, QueueInv, NEW d \in Job, HasEntry(d), NEW s \in Status,
           status' = [status EXCEPT ![NextEntry(d)] = s]
    PROVE  \A j \in Job : FinalKept(j)
<1>1. status[NextEntry(d)] = "none"
  <2>1. pos[d] + 1 \in 1..Len(Entries[d]) /\ pos[d] + 1 > pos[d]
    <3>1. pos[d] \in Nat /\ Len(Entries[d]) \in Nat
      BY TreeAssumption, SMTT(30) DEF TypeOK, TaskTypeOK
    <3>2. QED
      BY <3>1, SMTT(30) DEF HasEntry
  <2>2. QED
    BY <2>1, ZenonT(30) DEF QueueInv, FreshInv, NextEntry
<1>2. "none" \notin Final
  BY ZenonT(30) DEF Final
<1>3. \A j \in Job : j # NextEntry(d) => status'[j] = status[j]
  BY DEF TypeOK, TaskTypeOK
<1>4. QED
  BY <1>1, <1>2, <1>3, ZenonT(30) DEF FinalKept

\* get_next_job changes the status of a queued job only.
LEMMA GetNextKeepsFinal ==
    ASSUME TypeOK, QueueInv, NEW t \in Thread, NEW st \in [Job -> Status],
           NEW active, NEW jb, NEW woken,
           get_next_job(t, st, active, jb, woken),
           \A j \in Job : status[j] \in Final => st[j] \in Freed \cup {status[j]}
    PROVE  \A j \in Job : FinalKept(j)
<1>1. CASE status' = st
  BY <1>1, ZenonT(30) DEF FinalKept
<1>2. CASE jobs_head # NULL /\ status' = [st EXCEPT ![jobs_head] = "IN_PROGRESS"]
  <2>1. status[jobs_head] = "QUEUED"
    BY <1>2, ZenonT(30) DEF QueueInv, QueuePointersValid
  <2>2. status[jobs_head] \notin Final
    BY <2>1, ZenonT(30) DEF Final
  <2>3. \A j \in Job : j # jobs_head => status'[j] = st[j]
    BY <1>2
  <2>4. QED
    BY <2>2, <2>3, ZenonT(30) DEF FinalKept
<1>3. QED
  BY <1>1, <1>2, ZenonT(30) DEF get_next_job, dequeue_job

\* A status that was accounted for is not changed again, neither by the worker
\* nor by _timeout_thread.
THEOREM StatusIsFinal == Spec => FinalStatusStable
<1> DEFINE A == \A j \in Job : status[j] \in Final =>
                    status'[j] \in Freed \cup {status[j]}
<1>1. IInv /\ [Next]_vars => [A]_vars
  <2> SUFFICES ASSUME IInv, Next PROVE \A j \in Job : FinalKept(j)
    BY ZenonT(30) DEF FinalKept
  <2>0. /\ TypeOK /\ QueueInv /\ WorkerInv /\ status \in [Job -> Status]
        /\ job \in [Thread -> JobOrNull] /\ JOB_INIT \in Job
        /\ {"QUEUED", "STAT_FAILED", "TYPE_EXCLUDED", "freed"} \subseteq Status
    BY ZenonT(30) DEF IInv, QueueInv, TypeOK, TaskTypeOK, Job, Status, Absent, Freed
  <2>1. ASSUME status' = status PROVE \A j \in Job : FinalKept(j)
    BY <2>1, ZenonT(30) DEF FinalKept
  <2>2. ASSUME NEW k \in Job, NEW s, status[k] \notin Final \/ s \in Freed,
               status' = [status EXCEPT ![k] = s]
        PROVE  \A j \in Job : FinalKept(j)
    BY <2>0, <2>2, ZenonT(30) DEF FinalKept
  <2>3. ASSUME NEW t \in Thread, Worker(t) PROVE \A j \in Job : FinalKept(j)
    <3>1. CASE GetNext(t)
      BY <2>0, <3>1, GetNextKeepsFinal, ZenonT(30) DEF GetNext
    <3>2. CASE Finish(t)
      <4>1. job[t] \in Job
        BY <2>0, <3>2, ZenonT(30) DEF Finish, WorkerInv, WorkerInvAt, JobOrNull
      <4> DEFINE st == [status EXCEPT ![job[t]] = "freed"]
      <4>2. /\ st \in [Job -> Status]
            /\ \A j \in Job : status[j] \in Final => st[j] \in Freed \cup {status[j]}
        BY <2>0, <4>1, ZenonT(30) DEF Freed
      <4>3. CASE status' = st
        BY <4>2, <4>3 DEF FinalKept
      <4>4. CASE UNCHANGED status
        BY <4>4, <2>1
      <4>5. CASE \E active, jb, woken : get_next_job(t, st, active, jb, woken)
        <5> HIDE DEF st
        <5> QED
          BY <2>0, <4>2, <4>5, GetNextKeepsFinal, ZenonT(30)
      <4>6. QED
        BY <3>2, <4>3, <4>4, <4>5, ZenonT(30) DEF Finish
    <3>3. CASE QueueSpec(t)
      <4>1. HasEntry(JOB_INIT)
        BY <2>0, <3>3 DEF QueueSpec, WorkerInv, WorkerInvAt
      <4>2. QED
        BY <2>0, <3>3, <4>1, CreateKeepsFinal, ZenonT(30)
           DEF QueueSpec, create_job, create_job_CannotStat, create_job_TypeExcluded
    <3>4. CASE ReadDirEntry(t)
      <4>1. job[t] \in Job
        BY <2>0, <3>4 DEF ReadDirEntry, WorkerInv, WorkerInvAt, JobOrNull
      <4>2. QED
        BY <2>0, <3>4, <4>1, CreateKeepsFinal, ZenonT(30)
           DEF ReadDirEntry, create_job, create_job_CannotStat,
               create_job_TypeExcluded
    <3>5. CASE SetStatus(t)
      <4>1. job[t] \in Job /\ status[job[t]] = "IN_PROGRESS"
        BY <2>0, <3>5, ZenonT(30) DEF SetStatus, WorkerInv, WorkerInvAt, JobOrNull
      <4>2. status[job[t]] \notin Final
        BY <4>1, ZenonT(30) DEF Final
      <4>3. QED
        BY <2>2, <3>5, <4>1, <4>2, ZenonT(30) DEF SetStatus
    <3>6. CASE \/ Start(t) \/ Exclude(t) \/ OpenOutput(t) \/ ScanSpecs(t)
               \/ OpenDir(t) \/ QueueDir(t) \/ Read(t) \/ OutputLock(t)
               \/ SkipEntry(t) \/ BeginEntry(t) \/ EndEntry(t) \/ Cancelled(t)
      BY <2>1, <3>6, ZenonT(30)
         DEF Start, Exclude, OpenOutput, ScanSpecs, OpenDir, QueueDir, Read,
             OutputLock, SkipEntry, BeginEntry, EndEntry, Cancelled, taskVars
    <3>7. QED
      BY <2>3, <3>1, <3>2, <3>3, <3>4, <3>5, <3>6, ZenonT(30) DEF Worker
  <2>4. CASE JoinThread
    <3>1. mjob \in Job
      BY <2>4 DEF JoinThread, IInv, MainInv, TypeOK, JobOrNull
    <3>2. "IN_PROGRESS" \notin Final
      BY DEF Final
    <3>3. CASE UNCHANGED status
      BY <2>1, <3>3
    <3>4. CASE status[mjob] \notin Final
      BY <2>2, <2>4, <3>1, <3>3, <3>4, ZenonT(30) DEF JoinThread
    <3>5. QED
      BY <2>4, <3>2, <3>3, <3>4, ZenonT(30) DEF JoinThread
  <2>5. CASE CleanupJoin
    <3>1. CASE job[mthread] = NULL
      BY <2>1, <2>5, <3>1 DEF CleanupJoin
    <3>2. CASE job[mthread] # NULL
      <4>1. job[mthread] \in Job /\ "dropped" \in Freed
        BY <2>0, <3>2 DEF TypeOK, JobOrNull, Freed
      <4>2. QED
        BY <2>2, <2>5, <3>2, <4>1, ZenonT(30) DEF CleanupJoin
    <3>3. QED
      BY <3>1, <3>2, ZenonT(30)
  <2>6. CASE AbortQueued
    <3>1. jobs_head \in Job /\ "freed" \in Freed
      BY <2>6, ZenonT(30) DEF AbortQueued, dequeue_job, IInv, QueuePointersValid, Freed
    <3>2. QED
      BY <2>2, <2>6, <3>1, ZenonT(30) DEF AbortQueued
  <2>7. CASE \/ Main /\ ~JoinThread /\ ~CleanupJoin /\ ~AbortQueued
             \/ Tick \/ SpuriousWakeup \/ Stopped
    BY <2>1, <2>7, ZenonT(30)
       DEF Main, Spawn, Spawned, WaitLoop, WaitTimesOut, HandleTimeout, CancelThread,
           FinishWait, FinishWaitTimesOut, Cleanup, Exit, Tick, SpuriousWakeup,
           Stopped, vars, taskVars
  <2>8. QED
    BY <2>3, <2>4, <2>5, <2>6, <2>7 DEF Next
<1>2. QED
  BY <1>1, InductiveInvariant, PTL DEF Spec, FinalStatusStable
=============================================================================
