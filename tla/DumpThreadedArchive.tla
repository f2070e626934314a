------------------------ MODULE DumpThreadedArchive -------------------------
(***************************************************************************)
(* What DumpThreaded writes: the entries of the archive and the summary.   *)
(***************************************************************************)
EXTENDS DumpThreadedJobs

(***************************************************************************)
(* The entries of the archive, when files have no time limit.              *)
(***************************************************************************)
\* What has been written for a job, whole or cut off.
Written(j) == whole[j] + torn[j]

\* Without --file-timeout no job has a deadline, and no thread takes over the
\* job of another one.
NoTimeoutInv ==
    /\ \A j \in Job : deadline[j] = 0
    /\ earliest = NULL
    /\ \A t \in Thread : pc[t] = "start" => job[t] = NULL

\* What has been written of a job follows from how far its thread is.
EntryInv ==
    /\ \A j \in Job : Written(j) <= NumEntries(j)
    /\ \A j \in Job : status[j] \in Absent \cup {"QUEUED", "IN_PROGRESS"} => Written(j) = 0
    /\ \A t \in Thread :
          /\ pc[t] \in {"outlock", "write", "writing"} => Written(job[t]) = 0
          /\ pc[t] = "wstatus" => Written(job[t]) = 1 /\ NumEntries(job[t]) = 2

(***************************************************************************)
(* The arithmetic of the counts below.                                     *)
(***************************************************************************)
\* Adding nothing, and adding one twice.
LEMMA SmallSums ==
    ASSUME NEW a \in Nat
    PROVE  a + 0 = a /\ (a + 1) + 1 = a + 2
  BY SMT

\* Two sums with a common part differ as their other parts do.
LEMMA CommonPart ==
    ASSUME NEW r \in Nat, NEW x \in 0..2, NEW y \in 0..2
    PROVE  r + y = (r + x) + y - x
  BY SMT

\* What is written, b, and what is owed, c, add up to what counts as done, when the
\* debt of a thread goes from x to y: when y is new, when one entry is paid, and when
\* nothing happens.
LEMMA Balance ==
    ASSUME NEW b \in Nat, NEW c \in Nat, NEW x \in 0..2, NEW y \in 0..2
    PROVE  /\ x = 0 => (b + c) + y = b + (c + y - x)
           /\ y = x - 1 => b + c = (b + 1) + (c + y - x)
           /\ y = x => b + c = b + (c + y - x)
  BY SMT

\* What a worker step does to the archive.
LEMMA ArchiveEffect ==
    ASSUME IInv, NEW t \in Thread, Worker(t)
    PROVE  /\ ~(EndEntry(t) \/ Cancelled(t)) => UNCHANGED archiveVars
           /\ EndEntry(t) \/ Cancelled(t) =>
                 /\ job[t] \in Job
                 /\ UNCHANGED <<job, status, deadline>>
                 /\ \A j \in Job \ {job[t]} : Written(j)' = Written(j)
           /\ EndEntry(t) => /\ pc[t] \in {"writing", "wstatus"}
                             /\ Written(job[t])' = Written(job[t]) + 1
                             /\ output_num_files' = output_num_files + 1
           /\ Cancelled(t) => IF pc[t] \in {"writing", "wstatus"}
                              THEN Written(job[t])' = Written(job[t]) + 1
                              ELSE Written(job[t])' = Written(job[t])
<1> USE DEF taskVars, queueVars, threadVars, localVars, listVars, mainVars
<1>0. /\ TypeOK /\ WorkerInvAt(t) /\ whole \in [Job -> Nat] /\ torn \in [Job -> Nat]
  BY ZenonT(30) DEF IInv, WorkerInv, TypeOK, TaskTypeOK
<1>1. ~(EndEntry(t) \/ Cancelled(t)) => UNCHANGED archiveVars
  BY ZenonT(30) DEF archiveVars, Worker, Start, GetNext, Exclude, OpenOutput, ScanSpecs, QueueSpec,
     OpenDir, ReadDirEntry, QueueDir, Read, SetStatus, OutputLock, SkipEntry, BeginEntry, Finish
<1>2. ASSUME EndEntry(t) \/ Cancelled(t)
      PROVE  job[t] \in Job /\ UNCHANGED <<job, status, deadline>>
  <2>1. pc[t] \in {"process", "write", "writing", "wstatus"} /\ UNCHANGED <<job, status, deadline>>
    BY <1>2, ZenonT(30) DEF EndEntry, Cancelled
  <2> QED
    BY <1>0, <2>1, ZenonT(30) DEF WorkerInvAt, TypeOK, JobOrNull
<1>3. CASE EndEntry(t)
  <2>1. /\ pc[t] \in {"writing", "wstatus"}
        /\ output_num_files' = output_num_files + 1
        /\ \/ torn' = [torn EXCEPT ![job[t]] = @ + 1] /\ whole' = whole
           \/ torn' = torn /\ whole' = [whole EXCEPT ![job[t]] = @ + 1]
    BY <1>3, ZenonT(30) DEF EndEntry
  <2>2. Written(job[t])' = Written(job[t]) + 1
    BY <1>0, <1>2, <1>3, <2>1, SMTT(30) DEF Written
  <2>3. \A j \in Job \ {job[t]} : Written(j)' = Written(j)
    BY <1>0, <1>2, <1>3, <2>1, ZenonT(30) DEF Written
  <2> QED
    BY <1>2, <1>3, <2>1, <2>2, <2>3, ZenonT(30)
<1>4. CASE Cancelled(t) /\ ~EndEntry(t)
  <2>1. CASE pc[t] \in {"writing", "wstatus"}
    <3>1. torn' = [torn EXCEPT ![job[t]] = @ + 1] /\ whole' = whole
      BY <1>4, <2>1, ZenonT(30) DEF Cancelled
    <3>2. Written(job[t])' = Written(job[t]) + 1
      BY <1>0, <1>2, <1>4, <3>1, SMTT(30) DEF Written
    <3>3. \A j \in Job \ {job[t]} : Written(j)' = Written(j)
      BY <1>0, <1>2, <1>4, <3>1, ZenonT(30) DEF Written
    <3> QED
      BY <1>2, <1>4, <2>1, <3>2, <3>3, ZenonT(30)
  <2>2. CASE pc[t] \notin {"writing", "wstatus"}
    <3>1. torn' = torn /\ whole' = whole
      BY <1>4, <2>2, ZenonT(30) DEF Cancelled
    <3> QED
      BY <1>2, <1>4, <2>2, <3>1, ZenonT(30) DEF Written
  <2> QED
    BY <2>1, <2>2, ZenonT(30)
<1> QED
  BY <1>1, <1>3, <1>4, ZenonT(30)

\* Without --file-timeout _get_next_job sets no deadline.
LEMMA WorkerNoTimeout ==
    ASSUME file_timeout = 0, IInv, NoTimeoutInv, NEW t \in Thread, Worker(t)
    PROVE  NoTimeoutInv'
<1>0. TypeOK /\ OthersKept(t)
  BY WorkerStep, ZenonT(30) DEF IInv
<1>1. \A j \in Job : deadline'[j] = 0
  <2>1. \A j \in Job : ~Timed(j)
    BY DEF Timed
  <2> QED
    BY <2>1, WorkerEffect, ZenonT(30) DEF NoTimeoutInv
<1>2. earliest' = NULL
  BY <1>0, ZenonT(30) DEF OthersKept, NoTimeoutInv
<1>3. pc'[t] # "start"
  BY <1>0, Moves, ZenonT(30) DEF Worker
<1>4. \A u \in Thread : pc'[u] = "start" => job'[u] = NULL
  BY <1>0, <1>3, ZenonT(30) DEF OthersKept, NoTimeoutInv
<1> QED
  BY <1>1, <1>2, <1>4, ZenonT(30) DEF NoTimeoutInv

\* Without a deadline main interrupts no thread.
LEMMA MainNoTimeout ==
    ASSUME file_timeout = 0, IInv, NoTimeoutInv,
           Main \/ Tick \/ SpuriousWakeup \/ UNCHANGED vars
    PROVE  NoTimeoutInv' /\ ~JoinThread
<1> USE DEF taskVars, queueVars, threadVars, localVars, listVars, mainVars
<1>0. /\ TypeOK /\ WorkerInv /\ NULL \notin Thread
  BY NullIsNoThread, ZenonT(30) DEF IInv
<1>1. ~JoinThread
  BY <1>0, MainFrame, ZenonT(30) DEF NoTimeoutInv
<1>2. deadline' = deadline
  BY MainFrame, ZenonT(30)
<1>3. \A t \in Thread : ~IsNearest(t)
  BY <1>0, ZenonT(30) DEF IsNearest, TimedThreads, NoTimeoutInv, TypeOK, JobOrNull
<1>4. earliest' = NULL
  BY <1>1, <1>3, ZenonT(30) DEF NoTimeoutInv, Main, Spawn, Spawned, WaitLoop, WaitTimesOut,
         HandleTimeout, CancelThread, FinishWait, FinishWaitTimesOut, Cleanup, CleanupJoin,
         AbortQueued, Exit, Tick, SpuriousWakeup, vars
<1>5. ASSUME NEW u \in Thread, pc'[u] = "start" PROVE job'[u] = NULL
  <2>1. pc[u] \in {"start", "none"}
    BY <1>1, <1>5, MainFrame, ZenonT(30)
  <2>2. job[u] = NULL
    BY <1>0, <2>1, ZenonT(30) DEF NoTimeoutInv, WorkerInv, WorkerInvAt
  <2> QED
    BY <2>2, MainFrame, ZenonT(30)
<1> QED
  BY <1>1, <1>2, <1>4, <1>5, ZenonT(30) DEF NoTimeoutInv

\* A worker writes each entry of its job once: it frees the job when all of them are
\* written.
LEMMA WorkerEntry ==
    ASSUME IInv, DoneInv, NoTimeoutInv, EntryInv, NEW t \in Thread, Worker(t)
    PROVE  EntryInv'
<1> USE DEF taskVars, queueVars, threadVars, localVars, listVars, mainVars
<1> DEFINE EntryAt(u) ==
              /\ pc[u] \in {"outlock", "write", "writing"} => Written(job[u]) = 0
              /\ pc[u] = "wstatus" => Written(job[u]) = 1 /\ NumEntries(job[u]) = 2
           Early == Absent \cup {"QUEUED", "IN_PROGRESS"}
<1>0. /\ TypeOK /\ OneOwner /\ WorkerInv /\ OthersKept(t)
      /\ \A s \in Final \cup {"freed"} : s \notin Early
      /\ \A j \in Job : NumEntries(j) \in {1, 2} /\ Written(j) \in Nat /\ NumEntries(j)' = NumEntries(j)
      /\ \A u \in Thread : EntryAt(u)
  BY WorkerStep, SMTT(30) DEF IInv, Final, Absent, NumEntries, EntryInv, Written, TypeOK, TaskTypeOK
<1>1. \A u \in Thread : pc[u] \in {"outlock", "write", "writing", "wstatus"} => job[u] \in Job
  BY <1>0, ZenonT(30) DEF WorkerInv, WorkerInvAt, TypeOK, JobOrNull
<1>2. CASE EndEntry(t) \/ Cancelled(t)
  <2>0. /\ job[t] \in Job /\ UNCHANGED <<job, status>>
        /\ \A j \in Job \ {job[t]} : Written(j)' = Written(j)
    BY <1>2, ArchiveEffect, ZenonT(30)
  <2>1. IF pc[t] \in {"writing", "wstatus"} THEN Written(job[t])' = Written(job[t]) + 1
                                            ELSE Written(job[t])' = Written(job[t])
    BY <1>2, ArchiveEffect, ZenonT(30)
  <2>2. Written(job[t])' <= NumEntries(job[t])
    <3>1. CASE pc[t] = "writing"
      <4>1. Written(job[t]) = 0
        BY <1>0, <3>1, ZenonT(30)
      <4> QED
        <5>1. Written(job[t])' = 0 + 1 /\ NumEntries(job[t]) \in {1, 2}
          BY <1>0, <2>0, <2>1, <3>1, <4>1, ZenonT(30)
        <5> QED
          BY <5>1, SMTT(30)
    <3>2. CASE pc[t] = "wstatus"
      <4>1. Written(job[t]) = 1 /\ NumEntries(job[t]) = 2
        BY <1>0, <3>2, ZenonT(30)
      <4> QED
        BY <2>1, <3>2, <4>1, SMTT(30)
    <3>3. CASE pc[t] \notin {"writing", "wstatus"}
      BY <2>0, <2>1, <3>3, ZenonT(30) DEF EntryInv
    <3> QED
      BY <3>1, <3>2, <3>3, ZenonT(30)
  <2>3. \A j \in Job : Written(j)' <= NumEntries(j)'
    BY <1>0, <2>0, <2>2, ZenonT(30) DEF EntryInv
  <2>4. ASSUME NEW j \in Job, status'[j] \in Early PROVE Written(j)' = 0
    <3>1. CASE j # job[t]
      BY <2>0, <2>4, <3>1, ZenonT(30) DEF EntryInv
    <3>2. CASE j = job[t]
      <4>1. NULL \notin Job
        BY TreeAssumption, ZenonT(30)
      <4>2. pc[t] \notin {"writing", "wstatus"}
        BY <1>0, <2>0, <2>4, <3>2, <4>1, ZenonT(30) DEF DoneInv
      <4>3. Written(j)' = Written(j)
        BY <2>0, <2>1, <3>2, <4>2, ZenonT(30) DEF Written
      <4> QED
        BY <2>0, <2>4, <4>3, ZenonT(30) DEF EntryInv
    <3> QED
      BY <3>1, <3>2, ZenonT(30)
  <2>5. ASSUME NEW u \in Thread \ {t} PROVE EntryAt(u)'
    <3>1. pc'[u] \in {"outlock", "write", "writing", "wstatus"} => pc'[u] = pc[u] /\ job[u] \in Job
      BY <1>0, <1>1, ZenonT(30) DEF OthersKept
    <3>2. pc'[u] \in {"outlock", "write", "writing", "wstatus"} => job[u] # job[t]
      BY <1>0, <3>1, TreeAssumption, ZenonT(30) DEF OneOwner
    <3>3. pc'[u] \in {"outlock", "write", "writing", "wstatus"} =>
             Written(job[u])' = Written(job[u]) /\ NumEntries(job[u])' = NumEntries(job[u])
      <4>1. job'[u] = job[u]
        BY <2>0, ZenonT(30)
      <4> QED
        BY <1>0, <2>0, <3>1, <3>2, <4>1, ZenonT(30) DEF Written, NumEntries
    <3> QED
      BY <1>0, <3>1, <3>3, ZenonT(30)
  <2>6. EntryAt(t)'
    <3>1. pc'[t] \in {"wstatus", "finish", "dead"} /\ (pc'[t] = "wstatus" => pc[t] = "writing" /\ NumEntries(job[t]) = 2)
      BY <1>0, <1>2, Moves, ZenonT(30)
    <3>2. pc'[t] = "wstatus" => Written(job[t])' = 1
      <4>1. pc[t] = "writing" => Written(job[t]) = 0
        BY <1>0, ZenonT(30)
      <4> QED
        BY <2>1, <3>1, <4>1, SMTT(30)
    <3>3. NumEntries(job[t])' = NumEntries(job[t])
      BY <2>0, ZenonT(30) DEF NumEntries
    <3> QED
      BY <3>1, <3>2, <3>3, ZenonT(30)
  <2> QED
    BY <2>3, <2>4, <2>5, <2>6, ZenonT(30) DEF EntryInv
<1>3. CASE ~(EndEntry(t) \/ Cancelled(t))
  <2>0. UNCHANGED archiveVars
    BY <1>3, ArchiveEffect, ZenonT(30)
  <2>1. \A j \in Job : Written(j)' = Written(j)
    BY <2>0, ZenonT(30) DEF archiveVars, Written
  <2>2. \A j \in Job : Written(j)' <= NumEntries(j)'
    BY <1>0, <2>1, ZenonT(30) DEF EntryInv
  <2>3. ASSUME NEW j \in Job, status'[j] \in Early PROVE Written(j)' = 0
    <3>1. status[j] \in Early
      <4>1. Takes(t) /\ j = jobs_head => status[j] = "QUEUED"
        BY ZenonT(30) DEF Takes
      <4>2. Visits(t) /\ j = NextEntry(job[t]) => status[j] = "none"
        BY ZenonT(30) DEF Visits
      <4>3. "QUEUED" \in Early /\ "none" \in Early
        BY ZenonT(30) DEF Absent
      <4> QED
        BY <1>0, <2>3, <4>1, <4>2, <4>3, WorkerEffect, ZenonT(30)
    <3> QED
      BY <2>1, <3>1, ZenonT(30) DEF EntryInv
  <2>4. ASSUME NEW u \in Thread \ {t} PROVE EntryAt(u)'
    <3>1. pc'[u] \in {"outlock", "write", "writing", "wstatus"} => pc'[u] = pc[u] /\ job[u] \in Job
      BY <1>0, <1>1, ZenonT(30) DEF OthersKept
    <3>2. pc'[u] \in {"outlock", "write", "writing", "wstatus"} =>
             Written(job[u])' = Written(job[u]) /\ NumEntries(job[u])' = NumEntries(job[u])
      <4>1. job'[u] = job[u]
        BY <1>0, ZenonT(30) DEF OthersKept
      <4> QED
        BY <2>0, <4>1, ZenonT(30) DEF Written, NumEntries, archiveVars
    <3> QED
      BY <1>0, <3>1, <3>2, ZenonT(30)
  <2>5. EntryAt(t)'
    <3>1. pc'[t] # "wstatus"
      BY <1>0, <1>3, Moves, ZenonT(30) DEF Worker
    <3>2. ASSUME pc'[t] \in {"outlock", "write", "writing"}
          PROVE  SetStatus(t) \/ OutputLock(t) \/ BeginEntry(t)
      <4>1. Start(t) => job[t] = NULL
        BY ZenonT(30) DEF Start, NoTimeoutInv
      <4> QED
        BY <1>0, <1>3, <3>2, <4>1, Moves, ZenonT(30) DEF Worker
    <3>3. CASE SetStatus(t)
      <4>1. job[t] \in Job /\ status[job[t]] = "IN_PROGRESS"
        BY <1>0, <3>3, ZenonT(30) DEF SetStatus, WorkerInv, WorkerInvAt, TypeOK, JobOrNull
      <4>2. job'[t] = job[t]
        BY <3>3, ZenonT(30) DEF SetStatus
      <4>3. Written(job[t]) = 0
        BY <4>1, ZenonT(30) DEF EntryInv
      <4>4. Written(job[t])' = Written(job[t])
        BY <2>0, <4>2, ZenonT(30) DEF Written, archiveVars
      <4> QED
        BY <3>1, <4>3, <4>4, ZenonT(30)
    <3>4. CASE OutputLock(t) \/ BeginEntry(t)
      <4>1. pc[t] \in {"outlock", "write"} /\ job' = job
        BY <3>4, ZenonT(30) DEF OutputLock, BeginEntry
      <4>2. Written(job[t])' = Written(job[t])
        BY <2>0, <4>1, ZenonT(30) DEF Written, archiveVars
      <4> QED
        BY <1>0, <3>1, <4>1, <4>2, ZenonT(30)
    <3> QED
      BY <3>1, <3>2, <3>3, <3>4, ZenonT(30)
  <2> QED
    BY <2>2, <2>3, <2>4, <2>5, ZenonT(30) DEF EntryInv
<1> QED
  BY <1>2, <1>3, ZenonT(30)

\* Main writes nothing, and gives no job that has been written to another thread.
LEMMA MainEntry ==
    ASSUME IInv, EntryInv, Main \/ Tick \/ SpuriousWakeup \/ UNCHANGED vars
    PROVE  EntryInv'
<1> DEFINE Early == Absent \cup {"QUEUED", "IN_PROGRESS"}
<1>0. UNCHANGED archiveVars
  BY MainFrame, ZenonT(30)
<1>1. \A j \in Job : Written(j)' = Written(j) /\ NumEntries(j)' = NumEntries(j)
  BY <1>0, ZenonT(30) DEF archiveVars, Written, NumEntries
<1>2. "PARTIAL" \notin Early /\ "dropped" \notin Early /\ "freed" \notin Early
  BY DEF Absent
<1>3. \A j \in Job : status'[j] \in Early => status[j] \in Early
  BY <1>2, MainFrame, ZenonT(30)
<1>4. ASSUME NEW u \in Thread, pc'[u] \in {"outlock", "write", "writing", "wstatus"}
      PROVE  /\ pc'[u] = pc[u]
             /\ Written(job[u])' = Written(job[u]) /\ NumEntries(job[u])' = NumEntries(job[u])
  <2>1. pc'[u] = pc[u]
    BY <1>4, MainFrame, ZenonT(30)
  <2>2. ~(CleanupJoin /\ u = mthread)
    BY <1>4, <2>1, MainFrame, ZenonT(30)
  <2>3. job'[u] = job[u]
    BY <2>2, MainFrame, ZenonT(30)
  <2> QED
    BY <1>0, <2>1, <2>3, ZenonT(30) DEF Written, NumEntries, archiveVars
<1>5. \A j \in Job : Written(j)' <= NumEntries(j)'
  BY <1>1, ZenonT(30) DEF EntryInv
<1>6. \A j \in Job : status'[j] \in Early => Written(j)' = 0
  BY <1>1, <1>3, ZenonT(30) DEF EntryInv
<1>7. \A u \in Thread : /\ pc'[u] \in {"outlock", "write", "writing"} => Written(job[u])' = 0
                        /\ pc'[u] = "wstatus" => Written(job[u])' = 1 /\ NumEntries(job[u])' = 2
  BY <1>4, ZenonT(30) DEF EntryInv
<1> QED
  BY <1>5, <1>6, <1>7, ZenonT(30) DEF EntryInv

\* Without --file-timeout no job is written to the archive twice, whole or cut off,
\* whatever fails. With a timeout a job may be: a thread that has begun to write an
\* entry can be interrupted, and its successor writes the job again.
THEOREM EntriesAreWrittenOnce ==
    ASSUME file_timeout = 0
    PROVE  Spec => []OneEntryPerJob
<1>1. Init => NoTimeoutInv /\ EntryInv
  <2> SUFFICES ASSUME Init PROVE NoTimeoutInv /\ EntryInv
    OBVIOUS
  <2>1. NoTimeoutInv
    BY ZenonT(30) DEF Init, NoTimeoutInv
  <2>2. \A j \in Job : Written(j) = 0
    BY DEF Init, init_queue, Written
  <2>3. \A t \in Thread : pc[t] = "none"
    BY ZenonT(30) DEF Init
  <2>4. \A j \in Job : NumEntries(j) \in {1, 2}
    BY ZenonT(30) DEF NumEntries
  <2> QED
    BY <2>1, <2>2, <2>3, <2>4, SMTT(30) DEF EntryInv
<1>2. CompleteInv /\ NoTimeoutInv /\ EntryInv /\ [Next]_vars => NoTimeoutInv' /\ EntryInv'
  <2> SUFFICES ASSUME CompleteInv, NoTimeoutInv, EntryInv, [Next]_vars
               PROVE  NoTimeoutInv' /\ EntryInv'
    OBVIOUS
  <2>0. IInv /\ DoneInv
    BY ZenonT(30) DEF CompleteInv
  <2>1. CASE \E t \in Thread : Worker(t)
    BY <2>0, <2>1, WorkerNoTimeout, WorkerEntry, ZenonT(30)
  <2>2. CASE Main \/ Tick \/ SpuriousWakeup \/ UNCHANGED vars
    BY <2>0, <2>2, MainNoTimeout, MainEntry, ZenonT(30)
  <2> QED
    BY <2>1, <2>2, ZenonT(30) DEF Next, Stopped
<1>3. EntryInv => OneEntryPerJob
  BY DEF EntryInv, OneEntryPerJob, Written
<1> QED
  BY <1>1, <1>2, <1>3, CompleteInvariant, PTL DEF Spec

(***************************************************************************)
(* The summary, when a file that cannot be read ends the run.              *)
(***************************************************************************)
\* Main joins the threads one after the other, and cancels a thread only to
\* join it.
JoinInv ==
    /\ mpc \notin {"spawn", "spawned", "cleanup", "cjoin", "undefined"} => mthread = 1
    /\ mpc \in {"cleanup", "cjoin"} => \A t \in Thread : t < mthread => pc[t] = "joined"
    /\ mpc \in {"abort", "exit"} => \A t \in Thread : pc[t] = "joined"
    /\ \A t \in Thread : cancel[t] => mpc \in Over \/ (mpc = "join" /\ t = earliest)

\* A thread takes over a job only in a run that is aborted, and it writes an
\* entry only for a job that has one.
WriteInv ==
    \A t \in Thread : /\ ~aborted /\ pc[t] = "start" => job[t] = NULL
                      /\ pc[t] = "writing" => WritesEntry(job[t])

\* The number of entries thread t has counted as done but not written yet.
Owes ==
    [t \in Thread |->
        IF pc[t] \in {"outlock", "write", "writing"} /\ WritesEntry(job[t])
        THEN NumEntries(job[t])
        ELSE IF pc[t] = "wstatus" THEN 1 ELSE 0]

\* A set with as many members as the sum of the values of f.
Owed(f) == {p \in Thread \X {1, 2} : p[2] <= f[p[1]]}

\* What is counted as done is in the archive or about to be written.
DebtInv ==
    Calm /\ mpc \notin {"cancel", "join"} =>
        stats["num_done"] = output_num_files + Cardinality(Owed(Owes))

\* A worker leaves the joining to main.
LEMMA WorkerJoin ==
    ASSUME IInv, JoinInv, NEW t \in Thread, Worker(t)
    PROVE  JoinInv'
<1>0. /\ OthersKept(t) /\ MpcStep /\ UNCHANGED <<mthread, earliest, cancel>>
      /\ mpc \in Over <=> mpc' \in Over
  BY WorkerStep, WorkerFrame, ZenonT(30) DEF OthersKept
<1>1. /\ mpc' \in {"cleanup", "cjoin", "abort", "exit"} => mpc' = mpc
      /\ mpc = "join" => mpc' = "join"
      /\ mpc \in {"spawn", "spawned", "cleanup", "cjoin", "undefined"} => mpc' = mpc
  BY <1>0, ZenonT(30) DEF MpcStep, main_wakeup
<1>2. \A u \in Thread : pc[u] = "joined" => pc'[u] = "joined"
  BY <1>0, WorkerFrame, ZenonT(30) DEF OthersKept
<1> QED
  BY <1>0, <1>1, <1>2, ZenonT(30) DEF JoinInv

\* The job of a thread that has not ended is out of main's reach.
LEMMA MainKeeps ==
    ASSUME IInv, Main \/ Tick \/ SpuriousWakeup \/ UNCHANGED vars,
           NEW u \in Thread, pc[u] \notin {"end", "dead"}, job[u] # NULL
    PROVE  /\ job'[u] = job[u]
           /\ status'[job[u]] = status[job[u]]
<1>0. /\ TypeOK /\ OneOwner /\ job[u] \in Job /\ status[job[u]] \in {"IN_PROGRESS"} \cup Final
      /\ \A v \in Thread : job[v] = job[u] => v = u
      /\ mthread \in Thread
  BY DEF IInv, OneOwner, TypeOK, JobOrNull
<1>1. ~(JoinThread /\ u = earliest) /\ ~(CleanupJoin /\ u = mthread)
  BY MainFrame, ZenonT(30)
<1>2. status[job[u]] # "QUEUED"
  BY <1>0, ZenonT(30) DEF Final
<1>3. JoinThread => mjob # job[u]
  BY <1>0, <1>1, MainFrame, ZenonT(30)
<1>4. CleanupJoin => job[mthread] # job[u]
  BY <1>0, <1>1, ZenonT(30)
<1>5. status'[job[u]] = status[job[u]]
  BY <1>0, <1>2, <1>3, <1>4, MainFrame, ZenonT(30)
<1>6. job'[u] = job[u]
  BY <1>1, MainFrame, ZenonT(30)
<1> QED
  BY <1>5, <1>6, ZenonT(30)

\* Main joins every thread before it leaves task_cleanup.
LEMMA MainJoin ==
    ASSUME IInv, JoinInv, Main \/ Tick \/ SpuriousWakeup \/ UNCHANGED vars
    PROVE  JoinInv'
<1> USE DEF taskVars, queueVars, threadVars, localVars, listVars, mainVars
<1>0. /\ TypeOK /\ mthread \in 1..jobs /\ jobs \in Nat /\ Thread = 1..jobs
      /\ cancel \in [Thread -> BOOLEAN] /\ earliest \in ThreadOrNull
  BY ThreadedAssumption, ZenonT(30) DEF IInv, TypeOK, Thread
<1>1. \A u \in Thread : pc[u] = "joined" => pc'[u] = "joined"
  BY MainFrame, ZenonT(30)
<1>2. mpc' \notin {"spawn", "spawned", "cleanup", "cjoin", "undefined"} => mthread' = 1
  <2>1. CASE mpc \in {"spawn", "spawned", "cleanup", "cjoin", "undefined"}
    BY <2>1, ZenonT(30) DEF Main, Spawn, Spawned, WaitLoop, WaitTimesOut, HandleTimeout, CancelThread,
         JoinThread, FinishWait, FinishWaitTimesOut, Cleanup, CleanupJoin, AbortQueued, Exit,
         Tick, SpuriousWakeup, vars
  <2>2. CASE mpc \notin {"spawn", "spawned", "cleanup", "cjoin", "undefined"}
    <3>1. mthread' = mthread
      BY <2>2, ZenonT(30) DEF Main, Spawn, Spawned, WaitLoop, WaitTimesOut, HandleTimeout, CancelThread,
         JoinThread, FinishWait, FinishWaitTimesOut, Cleanup, CleanupJoin, AbortQueued, Exit,
         Tick, SpuriousWakeup, vars
    <3> QED
      BY <2>2, <3>1, ZenonT(30) DEF JoinInv
  <2> QED
    BY <2>1, <2>2, ZenonT(30)
<1>3. ASSUME mpc' \in {"cleanup", "cjoin"}, NEW u \in Thread, u < mthread'
      PROVE  pc'[u] = "joined"
  <2>1. CASE CleanupJoin
    <3>1. mthread' = mthread + 1 /\ mpc = "cjoin"
      BY <1>3, <2>1, ZenonT(30) DEF CleanupJoin
    <3>2. u < mthread \/ u = mthread
      BY <1>0, <1>3, <3>1, SMTT(30)
    <3>3. u < mthread => pc[u] = "joined"
      BY <3>1, ZenonT(30) DEF JoinInv
    <3> QED
      BY <1>1, <2>1, <3>2, <3>3, MainFrame, ZenonT(30)
  <2>2. CASE mthread' = 1
    BY <1>0, <1>3, <2>2, SMTT(30)
  <2>3. CASE mpc \in {"cleanup", "cjoin"} /\ mthread' = mthread
    BY <1>1, <1>3, <2>3, ZenonT(30) DEF JoinInv
  <2>4. CASE mpc \in {"fin", "fwait"} /\ mthread' = mthread
    BY <2>2, <2>4, ZenonT(30) DEF JoinInv
  <2> QED
    BY <1>3, <2>1, <2>2, <2>3, <2>4, ZenonT(30)
       DEF Main, Spawn, Spawned, WaitLoop, WaitTimesOut, HandleTimeout, CancelThread,
         JoinThread, FinishWait, FinishWaitTimesOut, Cleanup, CleanupJoin, AbortQueued, Exit,
         Tick, SpuriousWakeup, vars
<1>4. ASSUME mpc' \in {"abort", "exit"}, NEW u \in Thread
      PROVE  pc'[u] = "joined"
  <2>1. CASE CleanupJoin
    <3>1. ~(mthread < jobs) /\ mpc = "cjoin"
      BY <1>4, <2>1, ZenonT(30) DEF CleanupJoin
    <3>2. u < mthread \/ u = mthread
      BY <1>0, <3>1, SMTT(30)
    <3>3. u < mthread => pc[u] = "joined"
      BY <3>1, ZenonT(30) DEF JoinInv
    <3> QED
      BY <1>1, <2>1, <3>2, <3>3, MainFrame, ZenonT(30)
  <2>2. CASE mpc \in {"abort", "exit"}
    BY <1>1, <2>2, ZenonT(30) DEF JoinInv
  <2> QED
    BY <1>4, <2>1, <2>2, ZenonT(30)
       DEF Main, Spawn, Spawned, WaitLoop, WaitTimesOut, HandleTimeout, CancelThread,
         JoinThread, FinishWait, FinishWaitTimesOut, Cleanup, AbortQueued, Exit,
         Tick, SpuriousWakeup, vars
<1>5. ASSUME NEW u \in Thread, cancel'[u]
      PROVE  mpc' \in Over \/ (mpc' = "join" /\ u = earliest')
  <2>1. CASE CancelThread
    <3>1. /\ mpc = "cancel" /\ mpc' = "join" /\ earliest' = earliest
          /\ cancel' = [cancel EXCEPT ![earliest] = TRUE]
      BY <2>1, ZenonT(30) DEF CancelThread
    <3>2. ~cancel[u]
      BY <3>1, ZenonT(30) DEF JoinInv, Over
    <3> QED
      BY <1>0, <1>5, <3>1, <3>2, ZenonT(30)
  <2>2. CASE JoinThread
    <3>1. mpc = "join" /\ cancel' = [cancel EXCEPT ![earliest] = FALSE]
      BY <2>2, ZenonT(30) DEF JoinThread
    <3>2. cancel[u] => u = earliest
      BY <3>1, ZenonT(30) DEF JoinInv, Over
    <3> QED
      BY <1>0, <1>5, <3>1, <3>2, ZenonT(30)
  <2>3. CASE Cleanup
    BY <2>3, ZenonT(30) DEF Cleanup, Over
  <2>4. CASE ~(CancelThread \/ JoinThread \/ Cleanup)
    <3>1. cancel' = cancel
      BY <2>4, ZenonT(30) DEF Main, Spawn, Spawned, WaitLoop, WaitTimesOut, HandleTimeout,
         FinishWait, FinishWaitTimesOut, CleanupJoin, AbortQueued, Exit,
         Tick, SpuriousWakeup, vars
    <3>2. CASE mpc \in Over
      <4>1. mpc \in {"fin", "fwait", "cleanup", "cjoin", "abort", "exit", "undefined"}
        BY <3>2, ZenonT(30) DEF Over
      <4>2. mpc' \in {"fin", "fwait", "cleanup", "cjoin", "abort", "exit", "undefined"}
        BY <2>4, <4>1, ZenonT(30) DEF Main, Spawn, Spawned, WaitLoop, WaitTimesOut, HandleTimeout,
           FinishWait, FinishWaitTimesOut, CleanupJoin, AbortQueued, Exit,
           Tick, SpuriousWakeup, vars
      <4> QED
        BY <4>2, ZenonT(30) DEF Over
    <3>3. CASE mpc = "join" /\ u = earliest
      <4>1. mpc' = "join" /\ earliest' = earliest
        BY <2>4, <3>3, ZenonT(30) DEF Main, Spawn, Spawned, WaitLoop, WaitTimesOut, HandleTimeout,
           FinishWait, FinishWaitTimesOut, CleanupJoin, AbortQueued, Exit,
           Tick, SpuriousWakeup, vars
      <4> QED
        BY <3>3, <4>1, ZenonT(30)
    <3> QED
      BY <1>5, <3>1, <3>2, <3>3, ZenonT(30) DEF JoinInv
  <2> QED
    BY <2>1, <2>2, <2>3, <2>4, ZenonT(30)
<1> QED
  BY <1>2, <1>3, <1>4, <1>5, ZenonT(30) DEF JoinInv

\* A worker begins an entry only if the job has one.
LEMMA WorkerWrite ==
    ASSUME IInv, WriteInv, NEW t \in Thread, Worker(t)
    PROVE  WriteInv'
<1> USE DEF taskVars, queueVars, threadVars, localVars, listVars, mainVars
<1>0. TypeOK /\ OthersKept(t) /\ WorkerInv /\ (aborted => aborted')
  BY WorkerStep, WorkerFrame, ZenonT(30) DEF IInv
<1>1. ASSUME NEW u \in Thread \ {t}
      PROVE  /\ ~aborted' /\ pc'[u] = "start" => job'[u] = NULL
             /\ pc'[u] = "writing" => WritesEntry(job[u])'
  <2>1. /\ pc'[u] \in {"start", "writing"} => pc[u] = pc'[u]
        /\ job'[u] = job[u]
        /\ job[u] # NULL => status'[job[u]] = status[job[u]]
    BY <1>0, ZenonT(30) DEF OthersKept
  <2>2. pc[u] = "writing" => job[u] # NULL /\ WritesEntry(job[u])
    BY <1>0, ZenonT(30) DEF WorkerInv, WorkerInvAt, WriteInv
  <2>3. pc[u] = "writing" => WritesEntry(job[u])'
    BY <2>1, <2>2, ZenonT(30) DEF WritesEntry
  <2> QED
    BY <1>0, <2>1, <2>3, ZenonT(30) DEF WriteInv
<1>2. pc'[t] # "start"
  BY <1>0, Moves, ZenonT(30) DEF Worker
<1>3. ASSUME pc'[t] = "writing" PROVE WritesEntry(job[t])'
  <2>1. BeginEntry(t)
    BY <1>0, <1>3, Moves, ZenonT(30) DEF Worker
  <2>2. WritesEntry(job[t]) /\ UNCHANGED <<job, status>>
    BY <2>1, ZenonT(30) DEF BeginEntry
  <2> QED
    BY <2>2, ZenonT(30) DEF WritesEntry
<1> QED
  BY <1>1, <1>2, <1>3, ZenonT(30) DEF WriteInv

\* A file that has timed out ends the run when failed reads are not ignored.
LEMMA MainWrite ==
    ASSUME ~ignore_failed_read, IInv, WriteInv, Main \/ Tick \/ SpuriousWakeup \/ UNCHANGED vars
    PROVE  WriteInv' /\ (JoinThread => aborted')
<1>0. WorkerInv /\ (aborted => aborted')
  BY MainFrame, ZenonT(30) DEF IInv
<1>1. JoinThread => aborted'
  BY ZenonT(30) DEF JoinThread
<1>2. ASSUME NEW u \in Thread, ~aborted', pc'[u] = "start" PROVE job'[u] = NULL
  <2>1. pc[u] \in {"start", "none"}
    BY <1>1, <1>2, MainFrame, ZenonT(30)
  <2>2. job[u] = NULL
    BY <1>0, <1>2, <2>1, ZenonT(30) DEF WorkerInv, WorkerInvAt, WriteInv
  <2> QED
    BY <2>2, MainFrame, ZenonT(30)
<1>3. ASSUME NEW u \in Thread, pc'[u] = "writing" PROVE WritesEntry(job[u])'
  <2>1. pc[u] = "writing"
    BY <1>3, MainFrame, ZenonT(30)
  <2>2. job[u] # NULL /\ WritesEntry(job[u])
    BY <1>0, <2>1, ZenonT(30) DEF WorkerInv, WorkerInvAt, WriteInv
  <2>3. job'[u] = job[u] /\ status'[job[u]] = status[job[u]]
    BY <2>1, <2>2, MainKeeps, ZenonT(30)
  <2> QED
    BY <2>2, <2>3, ZenonT(30) DEF WritesEntry
<1> QED
  BY <1>1, <1>2, <1>3, ZenonT(30) DEF WriteInv

\* The sum of f is finite, and changes as f does.
LEMMA OwedFinite ==
    ASSUME NEW f \in [Thread -> 0..2]
    PROVE  IsFiniteSet(Owed(f)) /\ Cardinality(Owed(f)) \in Nat
<1>1. IsFiniteSet(Thread)
  BY ThreadedAssumption, FS_Interval, SMTT(30) DEF Thread
<1>2. IsFiniteSet({1, 2})
  <2>1. IsFiniteSet({1}) /\ {1, 2} = {1} \cup {2}
    BY FS_Singleton, ZenonT(30)
  <2> QED
    BY <2>1, FS_AddElement, ZenonT(30)
<1>3. IsFiniteSet(Thread \X {1, 2})
  BY <1>1, <1>2, FS_Product, ZenonT(30)
<1>4. Owed(f) \subseteq Thread \X {1, 2}
  BY DEF Owed
<1>5. IsFiniteSet(Owed(f))
  BY <1>3, <1>4, FS_Subset, ZenonT(30)
<1> QED
  BY <1>5, FS_CardinalityType, ZenonT(30)

\* The sum of f and that of g differ as their values for t do, if that is where f and
\* g differ.
LEMMA OwedChange ==
    ASSUME NEW t \in Thread, NEW f \in [Thread -> 0..2], NEW g \in [Thread -> 0..2],
           \A u \in Thread \ {t} : g[u] = f[u]
    PROVE  Cardinality(Owed(g)) = Cardinality(Owed(f)) + g[t] - f[t]
<1> DEFINE Rest == {p \in Owed(f) : p[1] # t}
<1>1. IsFiniteSet(Rest)
  BY OwedFinite, FS_Subset, ZenonT(30)
<1>2. ASSUME NEW h \in [Thread -> 0..2], \A u \in Thread \ {t} : h[u] = f[u]
      PROVE  Cardinality(Owed(h)) = Cardinality(Rest) + h[t]
  <2>0. Cardinality(Rest) \in Nat
    BY <1>1, FS_CardinalityType, ZenonT(30)
  <2>1. \A p \in Thread \X {1, 2} : p[1] # t => (p \in Owed(h) <=> p \in Rest)
    BY <1>2, ZenonT(30) DEF Owed
  <2>2. \A p \in Thread \X {1, 2} : p[1] = t => p = <<t, 1>> \/ p = <<t, 2>>
    OBVIOUS
  <2>3. /\ <<t, 1>> \in Thread \X {1, 2} /\ <<t, 2>> \in Thread \X {1, 2}
        /\ <<t, 1>>[1] = t /\ <<t, 2>>[1] = t /\ <<t, 1>> # <<t, 2>>
        /\ <<t, 1>> \notin Rest /\ <<t, 2>> \notin Rest
    OBVIOUS
  <2>4. /\ <<t, 1>> \in Owed(h) <=> 1 <= h[t]
        /\ <<t, 2>> \in Owed(h) <=> 2 <= h[t]
    BY ZenonT(30) DEF Owed
  <2>5. Rest \subseteq Thread \X {1, 2} /\ Owed(h) \subseteq Thread \X {1, 2}
    BY ZenonT(30) DEF Owed
  <2>6. h[t] \in {0, 1, 2}
    BY SMTT(30)
  <2> HIDE DEF Rest
  <2>7. CASE h[t] = 0
    <3>1. <<t, 1>> \notin Owed(h) /\ <<t, 2>> \notin Owed(h)
      BY <2>4, <2>7, SMTT(30)
    <3>2. \A p \in Rest : p[1] # t
      BY DEF Rest
    <3>3. Owed(h) = Rest
      BY <2>1, <2>2, <2>5, <3>1, <3>2, ZenonT(30)
    <3> QED
      BY <2>0, <2>7, <3>3, SmallSums, ZenonT(30)
  <2>8. CASE h[t] = 1
    <3>1. <<t, 1>> \in Owed(h) /\ <<t, 2>> \notin Owed(h)
      BY <2>4, <2>8, SMTT(30)
    <3>2. \A p \in Rest : p[1] # t
      BY DEF Rest
    <3>3. Owed(h) = Rest \cup {<<t, 1>>}
      BY <2>1, <2>2, <2>5, <3>1, <3>2, ZenonT(30)
    <3>4. Cardinality(Rest \cup {<<t, 1>>}) = Cardinality(Rest) + 1
      BY <1>1, <2>3, FS_AddElement, ZenonT(30)
    <3> QED
      BY <2>8, <3>3, <3>4, ZenonT(30)
  <2>9. CASE h[t] = 2
    <3>1. <<t, 1>> \in Owed(h) /\ <<t, 2>> \in Owed(h)
      BY <2>4, <2>9, SMTT(30)
    <3>2. \A p \in Rest : p[1] # t
      BY DEF Rest
    <3>3. Owed(h) = (Rest \cup {<<t, 1>>}) \cup {<<t, 2>>}
      BY <2>1, <2>2, <2>5, <3>1, <3>2, ZenonT(30)
    <3>4. /\ IsFiniteSet(Rest \cup {<<t, 1>>})
          /\ Cardinality(Rest \cup {<<t, 1>>}) = Cardinality(Rest) + 1
      BY <1>1, <2>3, FS_AddElement, ZenonT(30)
    <3>5. <<t, 2>> \notin Rest \cup {<<t, 1>>}
      BY <2>3, ZenonT(30)
    <3>6. Cardinality((Rest \cup {<<t, 1>>}) \cup {<<t, 2>>}) = Cardinality(Rest \cup {<<t, 1>>}) + 1
      BY <3>4, <3>5, FS_AddElement, ZenonT(30)
    <3> QED
      BY <2>0, <2>9, <3>3, <3>4, <3>6, SmallSums, ZenonT(30)
  <2> QED
    BY <2>6, <2>7, <2>8, <2>9, ZenonT(30)
<1>3. Cardinality(Rest) \in Nat /\ f[t] \in 0..2 /\ g[t] \in 0..2
  BY <1>1, FS_CardinalityType, ZenonT(30)
<1>4. Cardinality(Owed(f)) = Cardinality(Rest) + f[t]
  BY <1>2, ZenonT(30)
<1>5. Cardinality(Owed(g)) = Cardinality(Rest) + g[t]
  BY <1>2, ZenonT(30)
<1> HIDE DEF Rest
<1> QED
  BY <1>3, <1>4, <1>5, CommonPart, ZenonT(30)

\* The types of what is owed.
LEMMA OwesType ==
    ASSUME TypeOK
    PROVE  /\ Owes \in [Thread -> 0..2]
           /\ Cardinality(Owed(Owes)) \in Nat
           /\ stats["num_done"] \in Nat /\ output_num_files \in Nat
<1>1. Owes \in [Thread -> 0..2]
  BY SMTT(30) DEF Owes, NumEntries
<1>2. stats["num_done"] \in Nat /\ output_num_files \in Nat
  BY DEF TypeOK, TaskTypeOK, Stats, Counter
<1> QED
  BY <1>1, <1>2, OwedFinite, ZenonT(30)

\* A worker counts a job as done when it sets the status, and owes its entries until
\* they are written.
LEMMA WorkerDebt ==
    ASSUME ~ignore_failed_read, CompleteInv, JoinInv, WriteInv, DebtInv, NEW t \in Thread, Worker(t)
    PROVE  DebtInv'
<1> USE DEF taskVars, queueVars, threadVars, localVars, listVars, mainVars
<1> SUFFICES ASSUME Calm', mpc' \notin {"cancel", "join"}
             PROVE  stats'["num_done"] = output_num_files' + Cardinality(Owed(Owes'))
  BY ZenonT(30) DEF DebtInv, Owed
<1>0. /\ IInv /\ IInv' /\ CountInv /\ WaitInv /\ TypeOK /\ TypeOK' /\ OthersKept(t) /\ WorkerInv
      /\ Calm /\ ~aborted
  BY WorkerStep, WorkerCalm, ZenonT(30) DEF CompleteInv, IInv, Calm
<1>1. stats["num_done"] = output_num_files + Cardinality(Owed(Owes))
  <2>1. MpcStep
    BY <1>0, ZenonT(30) DEF OthersKept
  <2>2. mpc \notin {"cancel", "join"}
    BY <2>1, ZenonT(30) DEF MpcStep, main_wakeup
  <2> QED
    BY <1>0, <2>2, ZenonT(30) DEF DebtInv
<1>2. ~Cancelled(t)
  <2> SUFFICES ASSUME Cancelled(t) PROVE FALSE
    OBVIOUS
  <2>1. cancel[t] /\ pc[t] \in {"process", "write", "writing", "wstatus"}
    BY ZenonT(30) DEF Cancelled
  <2>2. job[t] # NULL
    BY <1>0, <2>1, ZenonT(30) DEF WorkerInv, WorkerInvAt
  <2>3. mpc \in Over
    <3>1. MpcStep
      BY <1>0, ZenonT(30) DEF OthersKept
    <3>2. mpc # "join"
      BY <3>1, ZenonT(30) DEF MpcStep, main_wakeup
    <3> QED
      BY <2>1, <3>2, ZenonT(30) DEF JoinInv
  <2>4. num_jobs_active = 0
    BY <1>0, <2>3, ZenonT(30) DEF WaitInv
  <2> QED
    BY <1>0, <2>2, <2>4, NoJobsLeft, ZenonT(30)
<1>3. /\ Owes \in [Thread -> 0..2] /\ Owes' \in [Thread -> 0..2]
      /\ Cardinality(Owed(Owes)) \in Nat
      /\ stats["num_done"] \in Nat /\ output_num_files \in Nat
      /\ stats \in [Counter -> Nat]
  <2>1. Owes' \in [Thread -> 0..2]
    BY DEF Owes, NumEntries
  <2> QED
    BY <1>0, <2>1, OwesType, ZenonT(30) DEF TypeOK, TaskTypeOK, Stats
<1>4. ASSUME NEW u \in Thread \ {t} PROVE Owes'[u] = Owes[u]
  <2>1. /\ pc'[u] = pc[u] \/ (pc[u] = "wait" /\ pc'[u] = "get")
        /\ job'[u] = job[u]
        /\ job[u] # NULL => status'[job[u]] = status[job[u]]
    BY <1>0, ZenonT(30) DEF OthersKept
  <2>2. pc[u] \in {"outlock", "write", "writing"} => job[u] # NULL
    BY <1>0, ZenonT(30) DEF WorkerInv, WorkerInvAt
  <2>3. pc[u] \in {"outlock", "write", "writing"} => (WritesEntry(job[u])' <=> WritesEntry(job[u]))
    BY <2>1, <2>2, ZenonT(30) DEF WritesEntry
  <2>4. NumEntries(job[u])' = NumEntries(job[u])
    BY <2>1, ZenonT(30) DEF NumEntries
  <2>5. CASE pc'[u] = pc[u]
    BY <2>3, <2>4, <2>5, ZenonT(30) DEF Owes
  <2>6. CASE pc[u] = "wait" /\ pc'[u] = "get"
    BY <2>6, ZenonT(30) DEF Owes
  <2> QED
    BY <2>1, <2>5, <2>6, ZenonT(30)
<1>5. Cardinality(Owed(Owes')) = Cardinality(Owed(Owes)) + Owes'[t] - Owes[t]
  <2> DEFINE f == Owes
             g == Owes'
  <2>1. f \in [Thread -> 0..2] /\ g \in [Thread -> 0..2] /\ \A u \in Thread \ {t} : g[u] = f[u]
    BY <1>3, <1>4, ZenonT(30)
  <2> HIDE DEF f, g
  <2>2. Cardinality(Owed(g)) = Cardinality(Owed(f)) + g[t] - f[t]
    BY <2>1, OwedChange, ZenonT(30)
  <2> QED
    BY <2>2, ZenonT(30) DEF f, g
<1>6. /\ Owes[t] = 0 => stats["num_done"] + Owes'[t] = output_num_files + Cardinality(Owed(Owes'))
      /\ Owes'[t] = Owes[t] - 1 => stats["num_done"] = (output_num_files + 1) + Cardinality(Owed(Owes'))
      /\ Owes'[t] = Owes[t] => stats["num_done"] = output_num_files + Cardinality(Owed(Owes'))
  <2> DEFINE a == stats["num_done"]
             b == output_num_files
             c == Cardinality(Owed(Owes))
             d == Cardinality(Owed(Owes'))
             x == Owes[t]
             y == Owes'[t]
  <2>1. a \in Nat /\ b \in Nat /\ c \in Nat /\ x \in 0..2 /\ y \in 0..2
    BY <1>3, ZenonT(30)
  <2>2. a = b + c /\ d = c + y - x
    BY <1>1, <1>5, ZenonT(30)
  <2> HIDE DEF a, b, c, d, x, y
  <2>3. /\ x = 0 => a + y = b + d
        /\ y = x - 1 => a = (b + 1) + d
        /\ y = x => a = b + d
    <3>1. /\ x = 0 => (b + c) + y = b + (c + y - x)
          /\ y = x - 1 => b + c = (b + 1) + (c + y - x)
          /\ y = x => b + c = b + (c + y - x)
      BY <2>1, Balance, ZenonT(30)
    <3> QED
      BY <2>2, <3>1, ZenonT(30)
  <2> QED
    BY <2>3, ZenonT(30) DEF a, b, c, d, x, y
<1>7. CASE SetStatus(t)
  <2>1. /\ pc[t] = "status" /\ output_num_files' = output_num_files
        /\ stats' = account_stats(job[t], result[t])
        /\ job' = job
    BY <1>7, ZenonT(30) DEF SetStatus, archiveVars
  <2>2. pc'[t] = "outlock" /\ status'[job[t]] = result[t]
    BY <1>0, <1>7, Moves, WorkerEffect, ZenonT(30)
  <2>3. Owes[t] = 0
    BY <2>1, ZenonT(30) DEF Owes
  <2>4. Owes'[t] = IF job[t] # JOB_INIT /\ result[t] \in {"DONE", "PARTIAL"}
                   THEN NumEntries(job[t]) ELSE 0
    <3>1. WritesEntry(job[t])' <=> job[t] # JOB_INIT /\ result[t] \in {"DONE", "PARTIAL"}
      BY <2>1, <2>2, ZenonT(30) DEF WritesEntry
    <3>2. NumEntries(job[t])' = NumEntries(job[t])
      BY <2>1, ZenonT(30) DEF NumEntries
    <3> QED
      BY <2>2, <3>1, <3>2, ZenonT(30) DEF Owes
  <2>5. stats'["num_done"] = stats["num_done"] +
           IF job[t] # JOB_INIT /\ result[t] \in {"DONE", "PARTIAL"} THEN NumEntries(job[t]) ELSE 0
    <3>1. CASE job[t] = JOB_INIT
      BY <1>3, <2>1, <3>1, SmallSums, ZenonT(30) DEF account_stats
    <3>2. CASE job[t] # JOB_INIT
      BY <1>3, <2>1, <3>2, ZenonT(30) DEF account_stats, CountIf, Counter
    <3> QED
      BY <3>1, <3>2, ZenonT(30)
  <2> QED
    BY <1>6, <2>1, <2>3, <2>4, <2>5, ZenonT(30)
<1>8. CASE EndEntry(t)
  <2>1. pc[t] \in {"writing", "wstatus"} /\ stats' = stats /\ job' = job
    BY <1>8, ZenonT(30) DEF EndEntry
  <2>2. output_num_files' = output_num_files + 1
    BY <1>0, <1>8, ArchiveEffect, ZenonT(30)
  <2>3. pc'[t] = IF pc[t] = "writing" /\ NumEntries(job[t]) = 2 THEN "wstatus" ELSE "finish"
    BY <1>0, <1>8, Moves, ZenonT(30)
  <2>4. NumEntries(job[t]) \in {1, 2}
    BY ZenonT(30) DEF NumEntries
  <2>5. pc[t] = "writing" => WritesEntry(job[t])
    BY ZenonT(30) DEF WriteInv
  <2>6. Owes[t] = IF pc[t] = "writing" THEN NumEntries(job[t]) ELSE 1
    BY <2>1, <2>5, ZenonT(30) DEF Owes
  <2>7. Owes'[t] = IF pc[t] = "writing" /\ NumEntries(job[t]) = 2 THEN 1 ELSE 0
    BY <2>3, ZenonT(30) DEF Owes
  <2>8. Owes'[t] = Owes[t] - 1
    BY <2>1, <2>4, <2>6, <2>7, SMTT(30)
  <2> QED
    BY <1>6, <2>1, <2>2, <2>8, ZenonT(30)
<1>9. CASE ~SetStatus(t) /\ ~EndEntry(t)
  <2>1. output_num_files' = output_num_files
    BY <1>0, <1>2, <1>9, ArchiveEffect, ZenonT(30) DEF archiveVars
  <2>2. Start(t) => job[t] = NULL
    BY <1>0, ZenonT(30) DEF Start, WriteInv
  <2>3. stats'["num_done"] = stats["num_done"]
    <3>1. CASE QueueSpec(t) \/ ReadDirEntry(t)
      <4>1. \/ stats' = stats
            \/ stats' = [stats EXCEPT !["num_failed"] = @ + 1]
            \/ stats' = [stats EXCEPT !["num_excluded"] = @ + 1]
        BY <3>1, ZenonT(30) DEF QueueSpec, ReadDirEntry, create_job, create_job_CannotStat,
           create_job_TypeExcluded
      <4> QED
        BY <1>3, <4>1, ZenonT(30) DEF Counter
    <3>2. CASE ~(QueueSpec(t) \/ ReadDirEntry(t))
      <4>1. stats' = stats
        BY <1>2, <1>9, <2>2, <3>2, ZenonT(30) DEF Worker, Start, GetNext, Exclude, OpenOutput,
           ScanSpecs, OpenDir, QueueDir, Read, OutputLock, SkipEntry, BeginEntry, Finish
      <4> QED
        BY <4>1, ZenonT(30)
    <3> QED
      BY <3>1, <3>2, ZenonT(30)
  <2>4. Owes'[t] = Owes[t]
    <3>1. CASE OutputLock(t) \/ BeginEntry(t)
      <4>1. pc[t] \in {"outlock", "write"} /\ UNCHANGED <<job, status>>
        BY <3>1, ZenonT(30) DEF OutputLock, BeginEntry
      <4>2. pc'[t] \in {"write", "writing"}
        BY <1>0, <3>1, Moves, ZenonT(30)
      <4>3. /\ WritesEntry(job[t])' <=> WritesEntry(job[t])
            /\ NumEntries(job[t])' = NumEntries(job[t])
        BY <4>1, ZenonT(30) DEF WritesEntry, NumEntries
      <4> QED
        BY <4>1, <4>2, <4>3, ZenonT(30) DEF Owes
    <3>2. CASE SkipEntry(t)
      <4>1. pc[t] = "write" /\ ~WritesEntry(job[t])
        BY <3>2, ZenonT(30) DEF SkipEntry
      <4>2. pc'[t] = "finish"
        BY <1>0, <3>2, Moves, ZenonT(30)
      <4> QED
        BY <4>1, <4>2, ZenonT(30) DEF Owes
    <3>3. CASE ~(OutputLock(t) \/ BeginEntry(t) \/ SkipEntry(t))
      <4>1. pc[t] \notin {"outlock", "write", "writing", "wstatus"}
        BY <1>2, <1>9, <3>3, ZenonT(30) DEF Worker, Start, GetNext, Exclude, OpenOutput,
           ScanSpecs, OpenDir, QueueDir, QueueSpec, ReadDirEntry, Read, Finish
      <4>2. pc'[t] \notin {"outlock", "write", "writing", "wstatus"}
        BY <1>0, <1>2, <1>9, <2>2, <3>3, Moves, ZenonT(30) DEF Worker
      <4> QED
        BY <4>1, <4>2, ZenonT(30) DEF Owes
    <3> QED
      BY <3>1, <3>2, <3>3, ZenonT(30)
  <2> QED
    BY <1>6, <2>1, <2>3, <2>4, ZenonT(30)
<1> QED
  BY <1>7, <1>8, <1>9, ZenonT(30)

\* Main counts nothing as done in a run that is not aborted.
LEMMA MainDebt ==
    ASSUME ~ignore_failed_read, CompleteInv, WriteInv, DebtInv,
           Main \/ Tick \/ SpuriousWakeup \/ UNCHANGED vars
    PROVE  DebtInv'
<1> USE DEF taskVars, queueVars, threadVars, localVars, listVars, mainVars
<1> SUFFICES ASSUME Calm', mpc' \notin {"cancel", "join"}
             PROVE  stats'["num_done"] = output_num_files' + Cardinality(Owed(Owes'))
  BY ZenonT(30) DEF DebtInv, Owed
<1>0. /\ IInv /\ TypeOK /\ WorkerInv /\ Calm /\ ~JoinThread
  BY MainCalm, MainWrite, ZenonT(30) DEF CompleteInv, IInv, Calm
<1>1. mpc \notin {"cancel", "join"}
  BY <1>0, ZenonT(30) DEF Main, Spawn, Spawned, WaitLoop, WaitTimesOut, HandleTimeout, CancelThread,
         FinishWait, FinishWaitTimesOut, Cleanup, CleanupJoin, AbortQueued, Exit,
         Tick, SpuriousWakeup, vars
<1>2. ASSUME NEW u \in Thread PROVE Owes'[u] = Owes[u]
  <2>1. \/ pc'[u] = pc[u]
        \/ /\ pc[u] \notin {"outlock", "write", "writing", "wstatus"}
           /\ pc'[u] \notin {"outlock", "write", "writing", "wstatus"}
    BY <1>0, MainFrame, ZenonT(30)
  <2>2. pc[u] \in {"outlock", "write", "writing"} =>
           /\ WritesEntry(job[u])' <=> WritesEntry(job[u])
           /\ NumEntries(job[u])' = NumEntries(job[u])
    <3> SUFFICES ASSUME pc[u] \in {"outlock", "write", "writing"}
                 PROVE  /\ WritesEntry(job[u])' <=> WritesEntry(job[u])
                        /\ NumEntries(job[u])' = NumEntries(job[u])
      OBVIOUS
    <3>1. job[u] # NULL
      BY <1>0, ZenonT(30) DEF WorkerInv, WorkerInvAt
    <3>2. job'[u] = job[u] /\ status'[job[u]] = status[job[u]]
      BY <1>0, <3>1, MainKeeps, ZenonT(30)
    <3> QED
      BY <3>2, ZenonT(30) DEF WritesEntry, NumEntries
  <2>3. CASE pc'[u] = pc[u]
    BY <2>2, <2>3, ZenonT(30) DEF Owes
  <2>4. CASE /\ pc[u] \notin {"outlock", "write", "writing", "wstatus"}
             /\ pc'[u] \notin {"outlock", "write", "writing", "wstatus"}
    BY <2>4, ZenonT(30) DEF Owes
  <2> QED
    BY <2>1, <2>3, <2>4, ZenonT(30)
<1>3. Owes' = Owes
  BY <1>2, ZenonT(30) DEF Owes
<1>4. output_num_files' = output_num_files
  BY <1>0, MainFrame, ZenonT(30) DEF archiveVars
<1>5. stats'["num_done"] = stats["num_done"]
  <2>1. CASE AbortQueued
    <3>1. stats \in [Counter -> Nat] /\ stats' = [stats EXCEPT !["num_failed"] = @ + 1]
      BY <1>0, <2>1, ZenonT(30) DEF AbortQueued, TypeOK, TaskTypeOK, Stats
    <3> QED
      BY <3>1, ZenonT(30) DEF Counter
  <2>2. CASE ~AbortQueued
    BY <1>0, <2>2, MainFrame, ZenonT(30)
  <2> QED
    BY <2>1, <2>2, ZenonT(30)
<1> QED
  BY <1>0, <1>1, <1>3, <1>4, <1>5, ZenonT(30) DEF DebtInv

\* In the default mode, in which a file that cannot be read ends the run, the
\* summary of a run that was not aborted reports exactly the entries written.
THEOREM SummaryIsTrue ==
    ASSUME ~ignore_failed_read
    PROVE  Spec => []SummaryMatchesArchive
<1>1. Init => JoinInv /\ WriteInv /\ DebtInv
  <2> SUFFICES ASSUME Init PROVE JoinInv /\ WriteInv /\ DebtInv
    OBVIOUS
  <2>1. JoinInv /\ WriteInv
    BY ZenonT(30) DEF Init, JoinInv, WriteInv
  <2>2. \A t \in Thread : Owes[t] = 0
    BY ZenonT(30) DEF Init, Owes
  <2>3. Owed(Owes) = {}
    BY <2>2, SMTT(30) DEF Owed
  <2>4. stats["num_done"] = 0 /\ output_num_files = 0
    BY ZenonT(30) DEF Init, init_queue, Counter
  <2>5. Cardinality(Owed(Owes)) = 0
    BY <2>3, FS_EmptySet, ZenonT(30)
  <2> QED
    BY <2>1, <2>4, <2>5, SMTT(30) DEF DebtInv
<1>2. CompleteInv /\ JoinInv /\ WriteInv /\ DebtInv /\ [Next]_vars
         => JoinInv' /\ WriteInv' /\ DebtInv'
  <2> SUFFICES ASSUME CompleteInv, JoinInv, WriteInv, DebtInv, [Next]_vars
               PROVE  JoinInv' /\ WriteInv' /\ DebtInv'
    OBVIOUS
  <2>0. IInv
    BY ZenonT(30) DEF CompleteInv
  <2>1. CASE \E t \in Thread : Worker(t)
    BY <2>0, <2>1, WorkerJoin, WorkerWrite, WorkerDebt, ZenonT(30)
  <2>2. CASE Main \/ Tick \/ SpuriousWakeup \/ UNCHANGED vars
    BY <2>0, <2>2, MainJoin, MainWrite, MainDebt, ZenonT(30)
  <2> QED
    BY <2>1, <2>2, ZenonT(30) DEF Next, Stopped
<1>3. CompleteInv /\ JoinInv /\ DebtInv => SummaryMatchesArchive
  <2> SUFFICES ASSUME CompleteInv, JoinInv, DebtInv, mpc = "exit", ~aborted
               PROVE  num_added = output_num_files
    BY ZenonT(30) DEF SummaryMatchesArchive
  <2>1. \A t \in Thread : pc[t] = "joined"
    BY ZenonT(30) DEF JoinInv
  <2>2. stats["num_done"] = output_num_files + Cardinality(Owed(Owes))
    BY <2>1, ZenonT(30) DEF DebtInv, Calm
  <2>3. \A t \in Thread : Owes[t] = 0
    BY <2>1, ZenonT(30) DEF Owes
  <2>4. Owed(Owes) = {}
    BY <2>3, SMTT(30) DEF Owed
  <2>5. Cardinality(Owed(Owes)) = 0
    BY <2>4, FS_EmptySet, ZenonT(30)
  <2>6. stats["num_done"] \in Nat /\ output_num_files \in Nat
    BY OwesType DEF CompleteInv, IInv
  <2> QED
    BY <2>2, <2>5, <2>6, SmallSums, ZenonT(30) DEF num_added
<1> QED
  BY <1>1, <1>2, <1>3, CompleteInvariant, PTL DEF Spec
=============================================================================
