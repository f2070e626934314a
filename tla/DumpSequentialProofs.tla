------------------------ MODULE DumpSequentialProofs ------------------------
(***************************************************************************)
(* Proofs about dump2tar without threads, for every tree of entries and    *)
(* every set of failures: the queue, the number of active jobs, the        *)
(* directories that are open, the summary, and the order of the work.      *)
(***************************************************************************)
EXTENDS DumpOrder, FiniteSetTheorems, TLAPS

-----------------------------------------------------------------------------
(***************************************************************************)
(* The jobs that are linked together.                                      *)
(***************************************************************************)

\* The list that starts at h and follows next_job consists of the jobs W: it stays
\* within W, no job is linked to twice, the first not at all, and every job is
\* reached, as a set that holds the first and with every job its successor is W.
Linked(W, h, next) ==
    /\ h \in W \cup {NULL}
    /\ \A k \in W : next[k] \in W \cup {NULL} /\ (next[k] # NULL => next[k] # h)
    /\ \A j, k \in W : next[j] = next[k] /\ next[j] # NULL => j = k
    /\ \A S \in SUBSET W :
          (h \in S \cup {NULL} /\ \A k \in S : next[k] \in S \cup {NULL}) => S = W

\* t is the last job of the list: NULL if there is none.
LastOf(W, h, next, t) ==
    IF t = NULL THEN h = NULL ELSE t \in W /\ next[t] = NULL

\* A list without a first job is empty, and only then.
LEMMA LinkedEmpty ==
    ASSUME NEW W \in SUBSET Job, NEW h, NEW next, Linked(W, h, next)
    PROVE  h = NULL <=> W = {}
<1>1. ASSUME h = NULL PROVE W = {}
  <2> DEFINE S == {}
  <2>1. S \in SUBSET W /\ h \in S \cup {NULL} /\ \A k \in S : next[k] \in S \cup {NULL}
    BY <1>1
  <2> HIDE DEF S
  <2>2. S = W
    BY <2>1, ZenonT(30) DEF Linked
  <2> QED
    BY <2>2 DEF S
<1>2. ASSUME W = {} PROVE h = NULL
  BY <1>2 DEF Linked
<1> QED
  BY <1>1, <1>2

\* A list does not depend on the links of other jobs.
LEMMA LinkedFrame ==
    ASSUME NEW W \in SUBSET Job, NEW h, NEW next, NEW next1, Linked(W, h, next),
           \A k \in W : next1[k] = next[k]
    PROVE  Linked(W, h, next1)
<1>1. ASSUME NEW S \in SUBSET W, h \in S \cup {NULL}, \A k \in S : next1[k] \in S \cup {NULL}
      PROVE  S = W
  <2>1. \A k \in S : next[k] \in S \cup {NULL}
    BY <1>1
  <2> QED
    BY <1>1, <2>1 DEF Linked
<1>2. \A k \in W : next1[k] \in W \cup {NULL} /\ (next1[k] # NULL => next1[k] # h)
  BY DEF Linked
<1>3. \A j, k \in W : next1[j] = next1[k] /\ next1[j] # NULL => j = k
  BY DEF Linked
<1> QED
  BY <1>1, <1>2, <1>3 DEF Linked

\* _dequeue_job: without its first job, the list starts at the successor.
LEMMA LinkedTake ==
    ASSUME NEW W \in SUBSET Job, NEW h, NEW next \in [Job -> JobOrNull], Linked(W, h, next),
           h # NULL
    PROVE  Linked(W \ {h}, next[h], [next EXCEPT ![h] = NULL])
<1> DEFINE next1 == [next EXCEPT ![h] = NULL]
<1>1. h \in W /\ NULL \notin Job /\ \A k \in W \ {h} : next1[k] = next[k]
  BY TreeAssumption DEF Linked
<1> HIDE DEF next1
<1>2. next[h] \in (W \ {h}) \cup {NULL}
  BY <1>1 DEF Linked
<1>3. \A k \in W \ {h} : /\ next1[k] \in (W \ {h}) \cup {NULL}
                         /\ next1[k] # NULL => next1[k] # next[h]
  BY <1>1 DEF Linked
<1>4. \A j, k \in W \ {h} : next1[j] = next1[k] /\ next1[j] # NULL => j = k
  BY <1>1 DEF Linked
<1>5. ASSUME NEW S \in SUBSET (W \ {h}), next[h] \in S \cup {NULL},
             \A k \in S : next1[k] \in S \cup {NULL}
      PROVE  S = W \ {h}
  <2> DEFINE S1 == S \cup {h}
  <2>1. S1 \in SUBSET W /\ h \in S1
    BY <1>1
  <2>2. \A k \in S1 : next[k] \in S1 \cup {NULL}
    BY <1>1, <1>5, ZenonT(30)
  <2> HIDE DEF S1
  <2>3. S1 = W
    BY <2>1, <2>2, ZenonT(30) DEF Linked
  <2> QED
    BY <2>3 DEF S1
<1> QED
  BY <1>2, <1>3, <1>4, <1>5, ZenonT(30) DEF Linked, next1

\* A new job linked behind the last one, or first if there is none.
LEMMA LinkedAppend ==
    ASSUME NEW W \in SUBSET Job, NEW h, NEW t, NEW n \in Job \ W,
           NEW next \in [Job -> JobOrNull], Linked(W, h, next), LastOf(W, h, next, t),
           next[n] = NULL, NEW h1, NEW next1, h1 = IF t = NULL THEN n ELSE h,
           next1 = IF t = NULL THEN next ELSE [next EXCEPT ![t] = n]
    PROVE  Linked(W \cup {n}, h1, next1)
<1>0. NULL \notin Job
  BY TreeAssumption
<1>1. CASE t = NULL
  <2>1. W = {}
    BY <1>1, LinkedEmpty, ZenonT(30) DEF LastOf
  <2>2. Linked({n}, n, next)
    BY <1>0 DEF Linked
  <2> QED
    BY <2>1, <2>2, <1>1, ZenonT(30)
<1>2. CASE t # NULL
  <2>1. /\ t \in W /\ next[t] = NULL /\ next1[t] = n /\ h1 = h
        /\ \A k \in Job \ {t} : next1[k] = next[k]
    BY <1>2 DEF LastOf
  <2>2. h \in W
    <3>1. h # NULL
      BY <2>1, LinkedEmpty, ZenonT(30)
    <3> QED
      BY <3>1 DEF Linked
  <2>3. \A k \in W \cup {n} : /\ next1[k] \in W \cup {n} \cup {NULL}
                              /\ next1[k] # NULL => next1[k] # h
    BY <2>1, <2>2, ZenonT(30) DEF Linked
  <2>4. \A j, k \in W \cup {n} : next1[j] = next1[k] /\ next1[j] # NULL => j = k
    BY <2>1 DEF Linked
  <2>5. ASSUME NEW S \in SUBSET (W \cup {n}), h \in S \cup {NULL},
               \A k \in S : next1[k] \in S \cup {NULL}
        PROVE  S = W \cup {n}
    <3> DEFINE S1 == S \ {n}
    <3>1. S1 \in SUBSET W /\ h \in S1
      BY <1>0, <2>2, <2>5, ZenonT(30)
    <3>2. \A k \in S1 : next[k] \in S1 \cup {NULL}
      BY <2>1, <2>5 DEF Linked
    <3> HIDE DEF S1
    <3>3. S1 = W
      BY <3>1, <3>2 DEF Linked
    <3>4. t \in S
      BY <3>3, <2>1 DEF S1
    <3>5. n \in S
      BY <3>4, <2>1, <2>5, <1>0, ZenonT(30)
    <3> QED
      BY <3>3, <3>5 DEF S1
  <2>6. Linked(W \cup {n}, h, next1)
    BY <2>2, <2>3, <2>4, <2>5, ZenonT(30) DEF Linked
  <2> QED
    BY <2>1, <2>6, ZenonT(30)
<1> QED
  BY <1>1, <1>2, ZenonT(30)

\* queue_jobs: one list linked in front of another.
LEMMA LinkedConcat ==
    ASSUME NEW V \in SUBSET Job, NEW W \in SUBSET Job, V \cap W = {}, NEW f, NEW h, NEW l \in V,
           NEW next \in [Job -> JobOrNull], Linked(V, f, next), Linked(W, h, next),
           next[l] = NULL
    PROVE  Linked(V \cup W, f, [next EXCEPT ![l] = h])
<1> DEFINE next1 == [next EXCEPT ![l] = h]
<1>0. NULL \notin Job /\ f \in V /\ h \in W \cup {NULL}
  BY TreeAssumption, LinkedEmpty, ZenonT(30) DEF Linked
<1>1. next1[l] = h /\ \A k \in Job \ {l} : next1[k] = next[k]
  OBVIOUS
<1> HIDE DEF next1
<1>2. \A k \in V \cup W : /\ next1[k] \in V \cup W \cup {NULL}
                          /\ next1[k] # NULL => next1[k] # f
  BY <1>0, <1>1 DEF Linked
<1>3. \A j, k \in V \cup W : next1[j] = next1[k] /\ next1[j] # NULL => j = k
  BY <1>0, <1>1 DEF Linked
<1>4. ASSUME NEW S \in SUBSET (V \cup W), f \in S \cup {NULL},
             \A k \in S : next1[k] \in S \cup {NULL}
      PROVE  S = V \cup W
  <2> DEFINE A == S \cap V
             B == S \cap W
  <2>1. A \in SUBSET V /\ f \in A /\ B \in SUBSET W
    BY <1>0, <1>4, ZenonT(30)
  <2>2. \A k \in A : next[k] \in A \cup {NULL}
    BY <1>1, <1>4, ZenonT(30) DEF Linked
  <2>3. A = V
    <3> HIDE DEF A
    <3> QED
      BY <2>1, <2>2 DEF Linked
  <2>4. l \in S
    BY <2>3
  <2>5. h \in B \cup {NULL}
    BY <2>4, <1>0, <1>1, <1>4, ZenonT(30)
  <2>6. \A k \in B : next[k] \in B \cup {NULL}
    BY <1>1, <1>4, ZenonT(30) DEF Linked
  <2>7. B = W
    <3> HIDE DEF B
    <3> QED
      BY <2>1, <2>5, <2>6, ZenonT(30) DEF Linked
  <2> QED
    BY <2>3, <2>7
<1> QED
  BY <1>0, <1>2, <1>3, <1>4, ZenonT(30) DEF Linked, next1

-----------------------------------------------------------------------------
(***************************************************************************)
(* The inductive invariant.                                                *)
(***************************************************************************)

\* The jobs that were created and not freed: they wait or are held by the loop.
Live == {j \in Job : status[j] \notin Absent \cup Freed}
Queued == {j \in Job : status[j] = "QUEUED"}
Held == {j \in Job : status[j] \in {"IN_PROGRESS"} \cup Final}

\* Those that queue_dir has linked into its own list so far; the others that wait
\* are in the queue.
Listed == {j \in Queued : pc = "readdir" /\ \E i \in 1 .. pos[job] : Entries[job][i] = j}
Waiting == Queued \ Listed

\* The types, without the two counters that might drop below 0.
BaseTypes ==
    /\ TaskTypeOK
    /\ pc \in {"dequeue", "process", "scan", "readdir", "post", "abort", "exit"}
    /\ job \in JobOrNull
    /\ first \in JobOrNull
    /\ last \in JobOrNull
    /\ num \in Nat
    /\ dref \in [Job -> Int]
    /\ order \in Seq(Job)

\* The loop holds one job at a time; when it has stopped, at most the one it took
\* after an abort. The initial job comes first.
HoldInv ==
    /\ pc \in {"process", "scan", "readdir", "post"} => job \in Job /\ Held = {job}
    /\ pc = "dequeue" => Held = {}
    /\ pc \in {"abort", "exit"} =>
          \E j \in Job : Held \subseteq {j} /\ (Held # {} => aborted)
    /\ pc = "scan" => job = JOB_INIT
    /\ pc = "readdir" => Type[job] = "DIR"
    /\ pc = "exit" => jobs_head = NULL
    /\ status[JOB_INIT] = "QUEUED" => pc = "dequeue" /\ jobs_head = JOB_INIT

\* An entry that was not visited has no job, a job that was not processed has
\* visited none of its entries, and only jobs that wait are linked.
FreshInv ==
    /\ \A d \in Job : \A i \in 1 .. Len(Entries[d]) :
          i > pos[d] => status[Entries[d][i]] = "none"
    /\ \A d \in Job : status[d] \in Absent \cup {"QUEUED"} => pos[d] = 0
    /\ pc = "process" => pos[job] = 0
    /\ \A j \in Job : status[j] # "QUEUED" => next_job[j] = NULL

\* Specifications may still be queued.
Opening == status[JOB_INIT] = "QUEUED" \/ (job = JOB_INIT /\ pc \in {"process", "scan"})

\* Queue and list are linked, and as long as specifications are queued, jobs_tail
\* is the end of the queue.
QueueInv ==
    /\ Linked(Waiting, jobs_head, next_job)
    /\ Linked(Listed, first, next_job)
    /\ LastOf(Listed, first, next_job, last)
    /\ Opening => LastOf(Waiting, jobs_head, next_job, jobs_tail)

\* num_jobs_active is the number of live jobs without those in the list, and num
\* the number of those.
CountInv ==
    /\ IsFiniteSet(Live)
    /\ num_jobs_active = Cardinality(Live \ Listed)
    /\ num = Cardinality(Listed)

\* The files and links that directory d was found to hold and that are still to be
\* opened relative to it.
Users(d) == {j \in Live : HasDref(j, d)}

\* The handle of a directory is counted once for each of them, and once more
\* while queue_dir reads it.
DrefInv ==
    \A d \in Job : dref[d] = Cardinality(Users(d)) + IF pc = "readdir" /\ job = d THEN 1 ELSE 0

SeqInv == BaseTypes /\ HoldInv /\ FreshInv /\ QueueInv /\ CountInv /\ DrefInv

-----------------------------------------------------------------------------
(***************************************************************************)
(* What the steps do to the sets of jobs.                                  *)
(***************************************************************************)

\* The status of one job changes.
LEMMA StatusChange ==
    ASSUME status \in [Job -> Status], NEW x \in Job, NEW v, status' = [status EXCEPT ![x] = v]
    PROVE  /\ Live' = IF v \in Absent \cup Freed THEN Live \ {x} ELSE Live \cup {x}
           /\ Queued' = IF v = "QUEUED" THEN Queued \cup {x} ELSE Queued \ {x}
           /\ Held' = IF v \in {"IN_PROGRESS"} \cup Final THEN Held \cup {x} ELSE Held \ {x}
           /\ status'[x] = v /\ \A j \in Job \ {x} : status'[j] = status[j]
<1>1. status'[x] = v /\ \A j \in Job \ {x} : status'[j] = status[j]
  OBVIOUS
<1>2. Live' = IF v \in Absent \cup Freed THEN Live \ {x} ELSE Live \cup {x}
  BY <1>1 DEF Live
<1>3. Queued' = IF v = "QUEUED" THEN Queued \cup {x} ELSE Queued \ {x}
  BY <1>1 DEF Queued
<1>4. Held' = IF v \in {"IN_PROGRESS"} \cup Final THEN Held \cup {x} ELSE Held \ {x}
  BY <1>1 DEF Held
<1> QED
  BY <1>1, <1>2, <1>3, <1>4, ZenonT(30)

\* A live job waits or is held.
LEMMA LiveJobs ==
    ASSUME status \in [Job -> Status]
    PROVE  /\ Live = Queued \cup Held /\ Queued \cap Held = {}
           /\ \A j \in Live : status[j] # "none"
BY DEF Live, Queued, Held, Status, Absent, Freed, Final

\* Outside queue_dir there is no list.
LEMMA NotReading ==
    ASSUME SeqInv, pc # "readdir"
    PROVE  Listed = {} /\ Waiting = Queued /\ first = NULL /\ last = NULL /\ num = 0
<1>1. Listed = {} /\ Waiting = Queued
  BY DEF Listed, Waiting
<1>2. first = NULL /\ last = NULL
  BY <1>1 DEF SeqInv, QueueInv, Linked, LastOf
<1>3. num = 0
  BY <1>1, FS_EmptySet, ZenonT(30) DEF SeqInv, CountInv
<1> QED
  BY <1>1, <1>2, <1>3, ZenonT(30)

\* The next entry of a job that has one is a job of its own, that does not exist yet.
LEMMA NextEntryFresh ==
    ASSUME SeqInv, NEW d \in Job, HasEntry(d)
    PROVE  /\ NextEntry(d) \in Job /\ NextEntry(d) # JOB_INIT
           /\ pos[d] \in Nat /\ pos[d] + 1 \in 1 .. Len(Entries[d])
           /\ NextEntry(d) = Entries[d][pos[d] + 1]
           /\ status[NextEntry(d)] = "none" /\ next_job[NextEntry(d)] = NULL
           /\ pos[NextEntry(d)] = 0
           /\ NextEntry(d) \notin Live \cup Queued \cup Held
<1>1. Entries[d] \in Seq(Node) /\ pos[d] \in Nat
  BY TreeAssumption DEF SeqInv, BaseTypes, TaskTypeOK
<1>2. pos[d] + 1 \in 1 .. Len(Entries[d])
  BY <1>1 DEF HasEntry
<1>3. NextEntry(d) \in Node /\ NextEntry(d) = Entries[d][pos[d] + 1]
  BY <1>1, <1>2 DEF NextEntry
<1>4. NextEntry(d) \in Job /\ NextEntry(d) # JOB_INIT
  BY <1>3, TreeAssumption, ZenonT(30) DEF Job
<1>5. status[NextEntry(d)] = "none"
  BY <1>1, <1>2, <1>3 DEF SeqInv, FreshInv
<1>6. next_job[NextEntry(d)] = NULL /\ pos[NextEntry(d)] = 0
  BY <1>4, <1>5, ZenonT(30) DEF SeqInv, FreshInv, Absent
<1> QED
  BY <1>1, <1>2, <1>3, <1>4, <1>5, <1>6, ZenonT(30) DEF Live, Queued, Held, Absent, Final

\* No two places in the tree hold the same entry.
LEMMA OnePlace ==
    ASSUME NEW d \in Job, NEW e \in Job, NEW i \in 1 .. Len(Entries[d]),
           NEW k \in 1 .. Len(Entries[e]), Entries[d][i] = Entries[e][k]
    PROVE  d = e /\ i = k
BY TreeAssumption

\* Visiting the next entry of job d keeps FreshInv, whether or not it gets a job.
LEMMA VisitFresh ==
    ASSUME SeqInv, NEW d \in Held, HasEntry(d), pc' = pc, job' = job, pc # "process",
           NEW v \in Absent \cup {"QUEUED"},
           status' = [status EXCEPT ![NextEntry(d)] = v],
           pos' = [pos EXCEPT ![d] = @ + 1],
           \A j \in Job : j \notin Queued => next_job'[j] = next_job[j]
    PROVE  FreshInv'
<1> DEFINE n == NextEntry(d)
<1>0. d \in Job /\ status \in [Job -> Status] /\ pos \in [Job -> Nat]
  BY ZenonT(30) DEF Held, SeqInv, BaseTypes, TaskTypeOK
<1>1. /\ n \in Job /\ pos[d] \in Nat /\ pos[d] + 1 \in 1 .. Len(Entries[d])
      /\ n = Entries[d][pos[d] + 1] /\ status[n] = "none" /\ next_job[n] = NULL
      /\ pos[n] = 0 /\ n \notin Queued \cup Held
  BY <1>0, NextEntryFresh, ZenonT(30)
<1>2. status'[n] = v /\ \A j \in Job \ {n} : status'[j] = status[j]
  BY <1>0, <1>1, ZenonT(30)
<1>3. pos'[d] = pos[d] + 1 /\ \A j \in Job \ {d} : pos'[j] = pos[j]
  BY <1>0, ZenonT(30)
<1> HIDE DEF n
<1>4. ASSUME NEW e \in Job, NEW i \in 1 .. Len(Entries[e]), i > pos'[e]
      PROVE  status'[Entries[e][i]] = "none"
  <2>1. i > pos[e] /\ (e = d => i # pos[d] + 1)
    BY <1>0, <1>1, <1>3, <1>4, TreeAssumption, SMTT(30)
  <2>2. Entries[e][i] \in Job /\ status[Entries[e][i]] = "none"
    BY <2>1, TreeAssumption DEF SeqInv, FreshInv, Job
  <2>3. Entries[e][i] # n
    BY <2>1, <1>0, <1>1, OnePlace
  <2> QED
    BY <2>2, <2>3, <1>2, ZenonT(30)
<1>5. ASSUME NEW e \in Job, status'[e] \in Absent \cup {"QUEUED"}
      PROVE  pos'[e] = 0
  <2>1. e # d
    BY <1>0, <1>1, <1>2, <1>5, ZenonT(30) DEF Held, Absent, Final
  <2>2. pos[e] = 0
    BY <1>1, <1>2, <1>5, ZenonT(30) DEF SeqInv, FreshInv
  <2> QED
    BY <2>1, <2>2, <1>3, ZenonT(30)
<1>6. ASSUME NEW j \in Job, status'[j] # "QUEUED"
      PROVE  next_job'[j] = NULL
  <2>1. j \notin Queued
    BY <1>1, <1>2, <1>6, ZenonT(30) DEF Queued
  <2> QED
    BY <2>1, ZenonT(30) DEF SeqInv, FreshInv, Queued
<1> QED
  BY <1>4, <1>5, <1>6, ZenonT(30) DEF FreshInv

\* The end of a job's processing, of a job, and a job being taken off the queue
\* keep FreshInv: the job existed and waits no longer.
LEMMA SettleFresh ==
    ASSUME SeqInv, NEW x \in Live, NEW v \in {"IN_PROGRESS", "freed"} \cup Final,
           status' = [status EXCEPT ![x] = v], pos' = pos,
           pc' = "process" => x \in Queued /\ job' = x,
           next_job'[x] = NULL,
           \A j \in Job \ {x} : next_job'[j] = next_job[j] \/ j \in Queued
    PROVE  FreshInv'
<1>0. x \in Job /\ status \in [Job -> Status] /\ status[x] # "none"
  BY LiveJobs, ZenonT(30) DEF Live, SeqInv, BaseTypes, TaskTypeOK
<1>1. status'[x] = v /\ \A j \in Job \ {x} : status'[j] = status[j]
  BY <1>0, ZenonT(30)
<1>2. v \notin Absent \cup {"QUEUED"}
  BY ZenonT(30) DEF Absent, Final
<1>3. ASSUME NEW d \in Job, NEW i \in 1 .. Len(Entries[d]), i > pos'[d]
      PROVE  status'[Entries[d][i]] = "none"
  <2>1. Entries[d][i] \in Job /\ status[Entries[d][i]] = "none"
    BY <1>3, TreeAssumption DEF SeqInv, FreshInv, Job
  <2> QED
    BY <2>1, <1>0, <1>1, ZenonT(30)
<1>4. ASSUME NEW d \in Job, status'[d] \in Absent \cup {"QUEUED"}
      PROVE  pos'[d] = 0
  BY <1>1, <1>2, <1>4, ZenonT(30) DEF SeqInv, FreshInv
<1>5. pc' = "process" => pos'[job'] = 0
  BY <1>0, ZenonT(30) DEF SeqInv, FreshInv, Queued
<1>6. ASSUME NEW j \in Job, status'[j] # "QUEUED"
      PROVE  next_job'[j] = NULL
  BY <1>1, <1>6, ZenonT(30) DEF SeqInv, FreshInv, Queued
<1> QED
  BY <1>3, <1>4, <1>5, <1>6, ZenonT(30) DEF FreshInv

\* The users of a directory can be counted.
LEMMA UsersFinite ==
    ASSUME SeqInv, NEW d
    PROVE  IsFiniteSet(Users(d)) /\ Cardinality(Users(d)) \in Nat
<1>1. Users(d) \in SUBSET Live /\ IsFiniteSet(Live)
  BY DEF Users, SeqInv, CountInv
<1> QED
  BY <1>1, FS_Subset, FS_CardinalityType, ZenonT(30)

\* A job that is created counts for the directory it was found in,
LEMMA UsersAdd ==
    ASSUME SeqInv, NEW n, n \notin Live, Live' = Live \cup {n}, NEW d
    PROVE  Cardinality(Users(d)') = Cardinality(Users(d)) + IF HasDref(n, d) THEN 1 ELSE 0
<1>1. Users(d)' = IF HasDref(n, d) THEN Users(d) \cup {n} ELSE Users(d)
  BY DEF Users
<1>2. n \notin Users(d)
  BY DEF Users
<1>3. IsFiniteSet(Users(d)) /\ Cardinality(Users(d)) \in Nat
  BY UsersFinite, ZenonT(30)
<1>4. Cardinality(Users(d) \cup {n}) = Cardinality(Users(d)) + 1
  BY <1>2, <1>3, FS_AddElement, ZenonT(30)
<1> QED
  BY <1>1, <1>3, <1>4

\* and no longer when it is freed.
LEMMA UsersRemove ==
    ASSUME SeqInv, NEW x \in Live, Live' = Live \ {x}, NEW d
    PROVE  Cardinality(Users(d)') = Cardinality(Users(d)) - IF HasDref(x, d) THEN 1 ELSE 0
<1>1. Users(d)' = IF HasDref(x, d) THEN Users(d) \ {x} ELSE Users(d)
  BY DEF Users
<1>2. HasDref(x, d) => x \in Users(d)
  BY DEF Users
<1>3. IsFiniteSet(Users(d)) /\ Cardinality(Users(d)) \in Nat
  BY UsersFinite, ZenonT(30)
<1>4. HasDref(x, d) => Cardinality(Users(d) \ {x}) = Cardinality(Users(d)) - 1
  BY <1>2, <1>3, FS_RemoveElement, ZenonT(30)
<1> QED
  BY <1>1, <1>3, <1>4

\* Without its first job, the queue keeps its end.
LEMMA LastTake ==
    ASSUME NEW W \in SUBSET Job, NEW h \in W, NEW t, NEW next \in [Job -> JobOrNull],
           LastOf(W, h, next, t)
    PROVE  LastOf(W \ {h}, next[h], [next EXCEPT ![h] = NULL], IF h = t THEN NULL ELSE t)
BY TreeAssumption DEF LastOf

-----------------------------------------------------------------------------
(***************************************************************************)
(* The steps.                                                              *)
(***************************************************************************)

\* Every step keeps the types.
LEMMA TypesStep ==
    ASSUME SeqInv, [Next]_vars
    PROVE  BaseTypes'
<1>0. BaseTypes /\ TaskTypeOK
  BY DEF SeqInv, BaseTypes
<1>1. /\ jobs_head \in JobOrNull /\ jobs_tail \in JobOrNull /\ next_job \in [Job -> JobOrNull]
      /\ job \in JobOrNull
      /\ \A d \in Job : HasEntry(d) => NextEntry(d) \in Job
      /\ \A j : NumEntries(j) \in Nat
      /\ {"IN_PROGRESS", "QUEUED", "freed", "STAT_FAILED", "TYPE_EXCLUDED"} \cup Final
            \subseteq Status
  <2>1. \A d \in Job : HasEntry(d) => NextEntry(d) \in Job
    BY NextEntryFresh, ZenonT(30)
  <2> QED
    BY <2>1, <1>0, ZenonT(30) DEF TaskTypeOK, BaseTypes, NumEntries, Status, Absent, Freed
<1>2. ASSUME dequeue_job
      PROVE  /\ jobs_head \in Job /\ jobs_head' \in JobOrNull /\ jobs_tail' \in JobOrNull
             /\ next_job' \in [Job -> JobOrNull]
  BY <1>1, <1>2, ZenonT(30) DEF dequeue_job, JobOrNull
<1>3. ASSUME pc \in {"process", "scan", "readdir", "post"}
      PROVE  job \in Job
  BY <1>3, ZenonT(30) DEF SeqInv, HoldInv
<1>4. CASE Dequeue
  BY <1>0, <1>1, <1>2, <1>4, ZenonT(30)
     DEF Dequeue, BaseTypes, TaskTypeOK, archiveVars, queueVars, local, JobOrNull
<1>5. ASSUME NEW st \in Final, NEW cond, EndProcess(st, cond), pc \in {"process", "scan", "readdir"}
      PROVE  status' \in [Job -> Status] /\ aborted' \in BOOLEAN /\ pc' = "post"
  <2>1. status' \in [Job -> Status] /\ pc' = "post"
    BY <1>0, <1>1, <1>3, <1>5 DEF EndProcess, TaskTypeOK
  <2>2. aborted' \in BOOLEAN
    BY <1>5, ZenonT(30) DEF EndProcess
  <2> QED
    BY <2>1, <2>2
<1>6. CASE Exclude \/ EndSpecs \/ Read
  <2>1. status' \in [Job -> Status] /\ aborted' \in BOOLEAN /\ pc' = "post"
    BY <1>5, <1>6, ZenonT(30) DEF Exclude, EndSpecs, Read, Final
  <2> QED
    BY <2>1, <1>0, <1>6, ZenonT(30) DEF Exclude, EndSpecs, Read, BaseTypes, TaskTypeOK, archiveVars, queueVars,
                            local
<1>7. CASE OpenOutput
  <2>1. status' \in [Job -> Status] /\ aborted' \in BOOLEAN /\ pc' \in {"post", "scan"}
    BY <1>0, <1>5, <1>7, ZenonT(30) DEF OpenOutput, Final, TaskTypeOK
  <2> QED
    BY <2>1, <1>0, <1>7 DEF OpenOutput, BaseTypes, TaskTypeOK, archiveVars, queueVars, local
<1>8. CASE OpenDir
  <2>1. status' \in [Job -> Status] /\ aborted' \in BOOLEAN /\ pc' \in {"post", "readdir"}
    BY <1>0, <1>5, <1>8, ZenonT(30) DEF OpenDir, Final, TaskTypeOK
  <2>2. dref' \in [Job -> Int]
    <3>1. dref' = dref \/ dref' = [dref EXCEPT ![job] = 1]
      BY <1>8, ZenonT(30) DEF OpenDir, dref_create
    <3> QED
      BY <3>1, <1>0 DEF BaseTypes
  <2> QED
    BY <2>1, <2>2, <1>0, <1>8, ZenonT(30) DEF OpenDir, BaseTypes, TaskTypeOK, archiveVars, queueVars, local
<1>9. ASSUME NEW d \in Job, HasEntry(d),
             create_job_CannotStat(d) \/ create_job_TypeExcluded(d) \/ create_job(d)
      PROVE  status' \in [Job -> Status] /\ stats' \in Stats /\ pos' \in [Job -> Nat]
  <2>1. status' \in [Job -> Status]
    BY <1>0, <1>1, <1>9, ZenonT(30) DEF create_job_CannotStat, create_job_TypeExcluded, create_job, TaskTypeOK
  <2>2. stats' \in Stats
    BY <1>0, <1>9 DEF create_job_CannotStat, create_job_TypeExcluded, create_job, TaskTypeOK,
                      Stats, Counter
  <2>3. pos' \in [Job -> Nat]
    BY <1>0, <1>9 DEF create_job_CannotStat, create_job_TypeExcluded, create_job, TaskTypeOK
  <2> QED
    BY <2>1, <2>2, <2>3, ZenonT(30)
<1>10. CASE QueueSpec
  <2>1. JOB_INIT \in Job /\ HasEntry(JOB_INIT)
    BY <1>10, ZenonT(30) DEF Job, QueueSpec
  <2>2. status' \in [Job -> Status] /\ stats' \in Stats /\ pos' \in [Job -> Nat]
    BY <1>9, <1>10, <2>1, ZenonT(30) DEF QueueSpec
  <2>3. /\ jobs_head' \in JobOrNull /\ jobs_tail' \in JobOrNull
        /\ next_job' \in [Job -> JobOrNull]
    BY <1>1, <1>10, <2>1, ZenonT(30) DEF QueueSpec, queue_job_tail, queueVars, JobOrNull
  <2>4. num_jobs_active' \in Int
    BY <1>0, <1>10 DEF QueueSpec, TaskTypeOK
  <2>5. aborted' \in BOOLEAN
    BY <1>0, <1>10, OptionsAssumption, ZenonT(30) DEF QueueSpec, TaskTypeOK, read_error_aborts
  <2> QED
    BY <2>2, <2>3, <2>4, <2>5, <1>0, <1>10, ZenonT(30) DEF QueueSpec, BaseTypes, TaskTypeOK, archiveVars, local
<1>11. CASE ReadDirEntry
  <2>1. job \in Job /\ HasEntry(job)
    BY <1>3, <1>11, ZenonT(30) DEF ReadDirEntry
  <2>2. status' \in [Job -> Status] /\ stats' \in Stats /\ pos' \in [Job -> Nat]
    BY <1>9, <1>11, <2>1, ZenonT(30) DEF ReadDirEntry
  <2>3. next_job' \in [Job -> JobOrNull] /\ first' \in JobOrNull /\ last' \in JobOrNull
    BY <1>0, <1>1, <1>11, <2>1, ZenonT(30) DEF ReadDirEntry, BaseTypes, local, JobOrNull
  <2>4. num' \in Nat
    BY <1>0, <1>11 DEF ReadDirEntry, BaseTypes, local
  <2>5. aborted' \in BOOLEAN
    BY <1>0, <1>11, ZenonT(30) DEF ReadDirEntry, TaskTypeOK
  <2>6. dref' \in [Job -> Int]
    BY <1>0, <1>11 DEF ReadDirEntry, dref_get, BaseTypes
  <2> QED
    BY <2>2, <2>3, <2>4, <2>5, <2>6, <1>0, <1>11, ZenonT(30) DEF ReadDirEntry, BaseTypes, TaskTypeOK, archiveVars
<1>12. CASE QueueDir
  <2>1. status' \in [Job -> Status] /\ aborted' \in BOOLEAN /\ pc' = "post"
    BY <1>5, <1>12, ZenonT(30) DEF QueueDir, Final
  <2>2. /\ jobs_head' \in JobOrNull /\ jobs_tail' \in JobOrNull
        /\ next_job' \in [Job -> JobOrNull]
    BY <1>0, <1>1, <1>12, ZenonT(30) DEF QueueDir, queue_jobs_list, queueVars, BaseTypes
  <2>3. num_jobs_active' \in Int /\ num' \in Nat
    BY <1>0, <1>12 DEF QueueDir, TaskTypeOK, BaseTypes
  <2>4. dref' \in [Job -> Int]
    BY <1>0, <1>3, <1>12 DEF QueueDir, BaseTypes
  <2> QED
    BY <2>1, <2>2, <2>3, <2>4, <1>0, <1>12, ZenonT(30)
       DEF QueueDir, BaseTypes, TaskTypeOK, archiveVars, JobOrNull
<1>13. CASE Complete
  <2>0. job \in Job
    BY <1>3, <1>13 DEF Complete
  <2>1. stats' \in Stats
    <3>1. stats \in Stats /\ NumEntries(job) \in Nat
      BY <1>0, <1>1, ZenonT(30) DEF TaskTypeOK
    <3>2. stats' = account_stats(job, status[job])
      BY <1>13, ZenonT(30) DEF Complete
    <3> QED
      BY <3>1, <3>2, SMTT(30) DEF account_stats, CountIf, Stats, Counter
  <2>2. /\ torn' \in [Job -> Nat] /\ whole' \in [Job -> Nat] /\ output_num_files' \in Nat
        /\ aborted' \in BOOLEAN
    <3>1. CASE ~WritesEntry(job)
      BY <1>0, <1>13, <3>1, ZenonT(30) DEF Complete, archiveVars, TaskTypeOK
    <3>2. CASE WritesEntry(job)
      <4>1. PICK cut \in 0 .. NumEntries(job), exceeded \in BOOLEAN :
                /\ torn' = [torn EXCEPT ![job] = @ + cut]
                /\ whole' = [whole EXCEPT ![job] = @ + NumEntries(job) - cut]
                /\ output_num_files' = output_num_files + NumEntries(job)
                /\ aborted' = (aborted \/ cut > 0 \/ exceeded)
        BY <1>13, <3>2, ZenonT(30) DEF Complete
      <4>2. torn \in [Job -> Nat] /\ whole \in [Job -> Nat] /\ output_num_files \in Nat
            /\ NumEntries(job) \in Nat
        BY <1>0, <1>1, ZenonT(30) DEF TaskTypeOK
      <4>3. torn' \in [Job -> Nat] /\ whole' \in [Job -> Nat] /\ output_num_files' \in Nat
        BY <4>1, <4>2, <2>0
      <4>4. aborted' \in BOOLEAN
        BY <4>1, ZenonT(30)
      <4> QED
        BY <4>3, <4>4, ZenonT(30)
    <3> QED
      BY <3>1, <3>2, ZenonT(30)
  <2>3. status' \in [Job -> Status] /\ num_jobs_active' \in Int /\ dref' \in [Job -> Int]
    BY <1>0, <1>1, <1>13, <2>0, SMTT(30) DEF Complete, TaskTypeOK, BaseTypes, dref_put
  <2>4. order' \in Seq(Job)
    BY <1>0, <1>13, <2>0 DEF Complete, BaseTypes
  <2> QED
    BY <2>1, <2>2, <2>3, <2>4, <1>0, <1>13, ZenonT(30)
       DEF Complete, BaseTypes, TaskTypeOK, queueVars, local, JobOrNull
<1>14. CASE AbortQueued
  <2>1. status' \in [Job -> Status] /\ num_jobs_active' \in Int /\ dref' \in [Job -> Int]
    BY <1>0, <1>1, <1>2, <1>14 DEF AbortQueued, TaskTypeOK, BaseTypes, dref_put
  <2>2. stats' \in Stats
    BY <1>0, <1>14 DEF AbortQueued, TaskTypeOK, Stats, Counter
  <2> QED
    BY <2>1, <2>2, <1>0, <1>2, <1>14, ZenonT(30)
       DEF AbortQueued, BaseTypes, TaskTypeOK, archiveVars, local
<1>15. CASE Exit
  <2>1. aborted' \in BOOLEAN
    BY <1>0, <1>15, ZenonT(30) DEF Exit, TaskTypeOK
  <2> QED
    BY <2>1, <1>0, <1>15, ZenonT(30) DEF Exit, BaseTypes, TaskTypeOK, archiveVars, queueVars, local
<1>16. CASE UNCHANGED vars
  BY <1>0, <1>16, ZenonT(30) DEF vars, taskVars, BaseTypes, TaskTypeOK, archiveVars, queueVars, local
<1> QED
  BY <1>4, <1>6, <1>7, <1>8, <1>10, <1>11, <1>12, <1>13, <1>14, <1>15, <1>16, ZenonT(30)
     DEF Next, Step, Stopped

\* What has to be shown of a step besides the types.
Rest == HoldInv /\ FreshInv /\ QueueInv /\ CountInv /\ DrefInv

\* A step of process_job that creates, queues and frees no job: at most it ends the
\* processing, or opens the directory.
LEMMA StillSets ==
    ASSUME SeqInv, Exclude \/ OpenOutput \/ EndSpecs \/ OpenDir \/ Read
    PROVE  /\ pc \in {"process", "scan"} /\ job \in Job /\ Held = {job} /\ order' = order
           /\ UNCHANGED <<next_job, jobs_head, jobs_tail, num_jobs_active, pos, job, first, last, num>>
           /\ \/ \E v \in Final : status' = [status EXCEPT ![job] = v] /\ pc' = "post"
              \/ status' = status /\ pc' = "scan" /\ pc = "process" /\ job = JOB_INIT
              \/ status' = status /\ pc' = "readdir" /\ pc = "process" /\ Type[job] = "DIR"
           /\ Live' = Live /\ Queued' = Queued /\ Held' = Held
           /\ status'[JOB_INIT] = "QUEUED" <=> status[JOB_INIT] = "QUEUED"
           /\ Waiting = Queued /\ Listed' = {} /\ Waiting' = Waiting
           /\ Opening' => Opening
<1>0. /\ pc \in {"process", "scan"} /\ job \in Job /\ Held = {job} /\ status \in [Job -> Status]
      /\ order' = order
  BY ZenonT(30) DEF Exclude, OpenOutput, EndSpecs, OpenDir, Read, SeqInv, HoldInv, BaseTypes, TaskTypeOK
<1>1. UNCHANGED <<next_job, jobs_head, jobs_tail, num_jobs_active, pos, job, first, last, num>>
  BY ZenonT(30) DEF Exclude, OpenOutput, EndSpecs, OpenDir, Read, queueVars, local
<1>2. \/ \E v \in Final : status' = [status EXCEPT ![job] = v] /\ pc' = "post"
      \/ status' = status /\ pc' = "scan" /\ pc = "process" /\ job = JOB_INIT
      \/ status' = status /\ pc' = "readdir" /\ pc = "process" /\ Type[job] = "DIR"
  BY ZenonT(30) DEF Exclude, OpenOutput, EndSpecs, OpenDir, Read, EndProcess, Final
<1>4. /\ Live' = Live /\ Queued' = Queued /\ Held' = Held
      /\ status'[JOB_INIT] = "QUEUED" <=> status[JOB_INIT] = "QUEUED"
  <2>1. CASE status' = status
    BY <2>1, ZenonT(30) DEF Live, Queued, Held
  <2>2. ASSUME NEW v \in Final, status' = [status EXCEPT ![job] = v]
        PROVE  Live' = Live /\ Queued' = Queued /\ Held' = Held
    <3>1. job \in Live /\ job \in Held /\ job \notin Queued
      BY <1>0, LiveJobs, ZenonT(30)
    <3>2. v \notin Absent \cup Freed /\ v # "QUEUED" /\ v \in {"IN_PROGRESS"} \cup Final
      BY DEF Final, Absent, Freed
    <3>3. /\ Live' = IF v \in Absent \cup Freed THEN Live \ {job} ELSE Live \cup {job}
          /\ Queued' = IF v = "QUEUED" THEN Queued \cup {job} ELSE Queued \ {job}
          /\ Held' = IF v \in {"IN_PROGRESS"} \cup Final THEN Held \cup {job} ELSE Held \ {job}
      BY <2>2, <1>0, StatusChange, ZenonT(30)
    <3> QED
      BY <3>1, <3>2, <3>3, ZenonT(30)
  <2>3. Live' = Live /\ Queued' = Queued /\ Held' = Held
    BY <1>2, <2>1, <2>2, ZenonT(30)
  <2> QED
    BY <2>3, ZenonT(30) DEF Queued, Job
<1>5. /\ Listed = {} /\ Waiting = Queued /\ first = NULL /\ last = NULL /\ num = 0
  BY <1>0, NotReading, ZenonT(30)
<1>6. pc' = "readdir" => pc = "process" /\ pos[job] = 0
  <2>1. pc' = "readdir" => pc = "process"
    BY <1>2, ZenonT(30)
  <2> QED
    BY <2>1, ZenonT(30) DEF SeqInv, FreshInv
<1>7. Listed' = {} /\ Waiting' = Waiting
  BY <1>1, <1>4, <1>5, <1>6 DEF Listed, Waiting
<1>8. Opening' => Opening
  BY <1>1, <1>2, <1>4, ZenonT(30) DEF Opening
<1> QED
  BY <1>0, <1>1, <1>2, <1>4, <1>5, <1>7, <1>8, ZenonT(30)

\* Such a step keeps the invariant.
LEMMA StillStep ==
    ASSUME SeqInv, Exclude \/ OpenOutput \/ EndSpecs \/ OpenDir \/ Read
    PROVE  Rest'
<1>0. /\ pc \in {"process", "scan"} /\ job \in Job /\ Held = {job} /\ status \in [Job -> Status]
      /\ dref \in [Job -> Int]
  BY StillSets, ZenonT(30) DEF SeqInv, BaseTypes, TaskTypeOK
<1>1. UNCHANGED <<next_job, jobs_head, jobs_tail, num_jobs_active, pos, job, first, last, num>>
  BY StillSets, ZenonT(30)
<1>2. \/ \E v \in Final : status' = [status EXCEPT ![job] = v] /\ pc' = "post"
      \/ status' = status /\ pc' = "scan" /\ pc = "process" /\ job = JOB_INIT
      \/ status' = status /\ pc' = "readdir" /\ pc = "process" /\ Type[job] = "DIR"
  BY StillSets, ZenonT(30)
<1>3. IF pc' = "readdir" THEN dref' = [dref EXCEPT ![job] = 1] ELSE dref' = dref
  BY ZenonT(30) DEF Exclude, OpenOutput, EndSpecs, OpenDir, Read, EndProcess, dref_create
<1>4. /\ Live' = Live /\ Queued' = Queued /\ Held' = Held
      /\ status'[JOB_INIT] = "QUEUED" <=> status[JOB_INIT] = "QUEUED"
      /\ Listed' = {} /\ Waiting' = Waiting /\ (Opening' => Opening)
  BY StillSets, ZenonT(30)
<1>5. /\ Listed = {} /\ Waiting = Queued /\ first = NULL /\ last = NULL /\ num = 0
  BY <1>0, NotReading, ZenonT(30)
<1>6. pc' = "readdir" => pc = "process" /\ pos[job] = 0
  <2>1. pc' = "readdir" => pc = "process"
    BY <1>2, ZenonT(30)
  <2> QED
    BY <2>1, ZenonT(30) DEF SeqInv, FreshInv
<1>8. HoldInv'
  <2>1. pc' \in {"post", "scan", "readdir"}
    BY <1>2, ZenonT(30)
  <2>2. Held' = {job'} /\ job' \in Job
    BY <1>0, <1>1, <1>4, ZenonT(30)
  <2>3. (pc' = "scan" => job' = JOB_INIT) /\ (pc' = "readdir" => Type[job'] = "DIR")
    BY <1>1, <1>2, ZenonT(30)
  <2>4. status'[JOB_INIT] # "QUEUED"
    BY <1>0, <1>4, ZenonT(30) DEF SeqInv, HoldInv
  <2> QED
    BY <2>1, <2>2, <2>3, <2>4, ZenonT(30) DEF HoldInv
<1>9. FreshInv'
  <2>1. CASE status' = status
    BY <2>1, <1>1, <1>2, ZenonT(30) DEF SeqInv, FreshInv
  <2>2. ASSUME NEW v \in Final, status' = [status EXCEPT ![job] = v], pc' = "post"
        PROVE  FreshInv'
    <3>1. job \in Live /\ job \notin Queued
      BY <1>0, LiveJobs, ZenonT(30)
    <3>2. next_job'[job] = NULL
      BY <1>0, <1>1, <3>1 DEF SeqInv, FreshInv, Queued
    <3> QED
      BY <3>1, <3>2, <2>2, <1>1, SettleFresh, ZenonT(30)
  <2> QED
    BY <1>2, <2>1, <2>2, ZenonT(30)
<1>10. QueueInv'
  BY <1>1, <1>4, <1>5, ZenonT(30) DEF SeqInv, QueueInv
<1>11. CountInv'
  BY <1>1, <1>4, <1>5, ZenonT(30) DEF SeqInv, CountInv
<1>12. DrefInv'
  <2>1. \A d : Users(d)' = Users(d)
    BY <1>4, ZenonT(30) DEF Users
  <2>2. CASE pc' # "readdir"
    BY <2>1, <2>2, <1>0, <1>1, <1>3, ZenonT(30) DEF SeqInv, DrefInv
  <2>3. CASE pc' = "readdir"
    <3>1. Users(job) = {}
      <4>1. ASSUME NEW j \in Users(job)
            PROVE  FALSE
        <5>1. j \in Live /\ \E i \in 1 .. Len(Entries[job]) : Entries[job][i] = j
          BY <4>1, ZenonT(30) DEF Users, HasDref
        <5>2. PICK i \in 1 .. Len(Entries[job]) : Entries[job][i] = j
          BY <5>1, ZenonT(30)
        <5>3. i > pos[job]
          BY <2>3, <1>6, <5>2, TreeAssumption, <1>0
        <5>4. status[j] = "none"
          BY <5>2, <5>3, <1>0, ZenonT(30) DEF SeqInv, FreshInv
        <5> QED
          BY <5>1, <5>4, <1>0, LiveJobs, ZenonT(30)
      <4> QED
        BY <4>1, ZenonT(30)
    <3>2. ASSUME NEW d, d = job
          PROVE  Cardinality(Users(d)') = 0
      BY <2>1, <3>1, <3>2, FS_EmptySet, ZenonT(30)
    <3>3. ASSUME NEW d \in Job
          PROVE  dref'[d] = Cardinality(Users(d)') + IF pc' = "readdir" /\ job' = d THEN 1 ELSE 0
      <4>1. CASE d = job
        BY <4>1, <3>2, <2>3, <1>0, <1>1, <1>3, SMTT(30)
      <4>2. CASE d # job
        BY <4>2, <2>1, <2>3, <1>0, <1>1, <1>3, ZenonT(30) DEF SeqInv, DrefInv
      <4> QED
        BY <4>1, <4>2, ZenonT(30)
    <3> QED
      BY <3>3, ZenonT(30) DEF DrefInv
  <2> QED
    BY <2>2, <2>3, ZenonT(30)
<1> QED
  BY <1>8, <1>9, <1>10, <1>11, <1>12, ZenonT(30) DEF Rest

\* A job is taken off the queue, to be processed or to be aborted.
LEMMA TakeSets ==
    ASSUME SeqInv, dequeue_job, pc \in {"dequeue", "abort"},
           UNCHANGED <<pos, first, last, num>>,
           \/ /\ Dequeue
              /\ status' = [status EXCEPT ![jobs_head] = "IN_PROGRESS"]
              /\ UNCHANGED <<num_jobs_active, dref>>
           \/ AbortQueued
    PROVE  /\ jobs_head \in Queued /\ jobs_head \in Job /\ status[jobs_head] = "QUEUED"
           /\ jobs_head \in Live /\ jobs_head \notin Held
           /\ Listed = {} /\ Waiting = Queued /\ first = NULL /\ last = NULL /\ num = 0
           /\ status'[JOB_INIT] # "QUEUED" /\ Listed' = {} /\ Waiting' = Waiting \ {jobs_head}
           /\ Queued' = Queued \ {jobs_head} /\ pc' # "readdir"
           /\ Opening' => Opening
           /\ \A j \in Job \ {jobs_head} : status'[j] = status[j]
           /\ \/ /\ Dequeue /\ pc = "dequeue" /\ UNCHANGED <<num_jobs_active, dref>>
                 /\ status' = [status EXCEPT ![jobs_head] = "IN_PROGRESS"]
                 /\ Held' = Held \cup {jobs_head} /\ Live' = Live
                 /\ IF aborted THEN pc' = "abort" /\ aborted' = aborted
                    ELSE pc' = "process" /\ job' = jobs_head
              \/ /\ AbortQueued /\ pc = "abort" /\ pc' = pc /\ job' = job /\ aborted' = aborted
                 /\ status' = [status EXCEPT ![jobs_head] = "freed"]
                 /\ Held' = Held /\ Live' = Live \ {jobs_head}
<1> DEFINE h == jobs_head
<1>0. /\ status \in [Job -> Status] /\ next_job \in [Job -> JobOrNull] /\ h # NULL
      /\ dref \in [Job -> Int]
  BY DEF SeqInv, BaseTypes, TaskTypeOK, dequeue_job
<1>1. /\ Listed = {} /\ Waiting = Queued /\ first = NULL /\ last = NULL /\ num = 0
  BY NotReading, ZenonT(30)
<1>2. h \in Queued /\ h \in Job /\ status[h] = "QUEUED" /\ h \in Live /\ h \notin Held
  <2>1. h \in Queued
    BY <1>0, <1>1, ZenonT(30) DEF SeqInv, QueueInv, Linked
  <2> QED
    BY <2>1, <1>0, LiveJobs, ZenonT(30) DEF Queued
<1>3. /\ jobs_head' = next_job[h] /\ next_job' = [next_job EXCEPT ![h] = NULL]
      /\ jobs_tail' = IF h = jobs_tail THEN NULL ELSE jobs_tail
  BY ZenonT(30) DEF dequeue_job
<1>4. PICK v \in {"IN_PROGRESS", "freed"} :
          /\ status' = [status EXCEPT ![h] = v]
          /\ v = "IN_PROGRESS" => Dequeue
          /\ v = "freed" => AbortQueued
          /\ v = "IN_PROGRESS" => UNCHANGED <<num_jobs_active, dref>>
  BY ZenonT(30) DEF AbortQueued
<1>5. /\ Queued' = Queued \ {h}
      /\ Held' = IF v = "freed" THEN Held ELSE Held \cup {h}
      /\ Live' = IF v = "freed" THEN Live \ {h} ELSE Live
      /\ status'[h] = v /\ \A j \in Job \ {h} : status'[j] = status[j]
  <2>1. /\ v \in Absent \cup Freed <=> v = "freed"
        /\ v \in {"IN_PROGRESS"} \cup Final <=> v = "IN_PROGRESS"
        /\ v # "QUEUED"
    BY DEF Absent, Freed, Final
  <2>2. /\ Live' = IF v \in Absent \cup Freed THEN Live \ {h} ELSE Live \cup {h}
        /\ Queued' = IF v = "QUEUED" THEN Queued \cup {h} ELSE Queued \ {h}
        /\ Held' = IF v \in {"IN_PROGRESS"} \cup Final THEN Held \cup {h} ELSE Held \ {h}
        /\ status'[h] = v /\ \A j \in Job \ {h} : status'[j] = status[j]
    <3> HIDE DEF h
    <3> QED
      BY <1>0, <1>2, <1>4, StatusChange, ZenonT(30)
  <2> HIDE DEF h
  <2> QED
    BY <2>1, <2>2, <1>2, <1>4, ZenonT(30)
<1>6. /\ pc' # "readdir"
      /\ v = "IN_PROGRESS" => /\ pc = "dequeue"
                              /\ IF aborted THEN pc' = "abort" /\ aborted' = aborted
                                 ELSE pc' = "process" /\ job' = h
      /\ v = "freed" => pc = "abort" /\ pc' = pc /\ job' = job /\ aborted' = aborted
  BY <1>0, <1>4, ZenonT(30) DEF Dequeue, AbortQueued
<1>7. Listed' = {} /\ Waiting' = Waiting \ {h}
  BY <1>1, <1>5, <1>6, ZenonT(30) DEF Listed, Waiting
<1>8. status'[JOB_INIT] # "QUEUED"
  <2>1. JOB_INIT \in Job
    BY DEF Job
  <2> QED
    BY <2>1, <1>2, <1>4, <1>5, <1>6, ZenonT(30) DEF SeqInv, HoldInv
<1>9. Opening' => Opening
  <2>1. Opening' => v = "IN_PROGRESS" /\ h = JOB_INIT
    BY <1>4, <1>6, <1>8, ZenonT(30) DEF Opening
  <2> QED
    BY <2>1, <1>2 DEF Opening
<1>10. CASE v = "IN_PROGRESS"
  <2> HIDE DEF h
  <2>1. Held' = Held \cup {h} /\ Live' = Live
    BY <1>5, <1>10
  <2>2. /\ Dequeue /\ pc = "dequeue" /\ UNCHANGED <<num_jobs_active, dref>>
        /\ status' = [status EXCEPT ![h] = "IN_PROGRESS"]
        /\ IF aborted THEN pc' = "abort" /\ aborted' = aborted ELSE pc' = "process" /\ job' = h
    BY <1>4, <1>6, <1>10, ZenonT(30)
  <2> QED
    BY <2>1, <2>2, <1>1, <1>2, <1>5, <1>6, <1>7, <1>8, <1>9, ZenonT(30) DEF h
<1>11. CASE v = "freed"
  <2> HIDE DEF h
  <2>1. Held' = Held /\ Live' = Live \ {h}
    BY <1>5, <1>11
  <2>2. /\ AbortQueued /\ pc = "abort" /\ pc' = pc /\ job' = job /\ aborted' = aborted
        /\ status' = [status EXCEPT ![h] = "freed"]
    BY <1>4, <1>6, <1>11, ZenonT(30)
  <2> QED
    BY <2>1, <2>2, <1>1, <1>2, <1>5, <1>6, <1>7, <1>8, <1>9, ZenonT(30) DEF h
<1> QED
  BY <1>4, <1>10, <1>11, ZenonT(30)

\* Taking a job off the queue keeps the invariant.
LEMMA TakeStep ==
    ASSUME SeqInv, dequeue_job, pc \in {"dequeue", "abort"},
           UNCHANGED <<pos, first, last, num>>,
           \/ /\ Dequeue
              /\ status' = [status EXCEPT ![jobs_head] = "IN_PROGRESS"]
              /\ UNCHANGED <<num_jobs_active, dref>>
           \/ AbortQueued
    PROVE  Rest'
<1> DEFINE h == jobs_head
<1>0. /\ status \in [Job -> Status] /\ next_job \in [Job -> JobOrNull] /\ h # NULL
      /\ dref \in [Job -> Int]
  BY DEF SeqInv, BaseTypes, TaskTypeOK, dequeue_job
<1>1. /\ Listed = {} /\ Waiting = Queued /\ first = NULL /\ last = NULL /\ num = 0
  BY TakeSets, ZenonT(30)
<1>2. h \in Queued /\ h \in Job /\ status[h] = "QUEUED" /\ h \in Live /\ h \notin Held
  BY TakeSets, ZenonT(30)
<1>3. /\ jobs_head' = next_job[h] /\ next_job' = [next_job EXCEPT ![h] = NULL]
      /\ jobs_tail' = IF h = jobs_tail THEN NULL ELSE jobs_tail
  BY ZenonT(30) DEF dequeue_job
<1>4. PICK v \in {"IN_PROGRESS", "freed"} :
          /\ status' = [status EXCEPT ![h] = v]
          /\ v = "freed" => /\ AbortQueued /\ Held' = Held /\ Live' = Live \ {h}
                            /\ pc = "abort" /\ pc' = pc /\ job' = job /\ aborted' = aborted
          /\ v = "IN_PROGRESS" => /\ UNCHANGED <<num_jobs_active, dref>>
                                  /\ Held' = Held \cup {h} /\ Live' = Live
                                  /\ pc = "dequeue"
                                  /\ IF aborted THEN pc' = "abort" /\ aborted' = aborted
                                     ELSE pc' = "process" /\ job' = h
  BY TakeSets, ZenonT(30)
<1>5. /\ Queued' = Queued \ {h} /\ Listed' = {} /\ Waiting' = Waiting \ {h} /\ pc' # "readdir"
      /\ status'[JOB_INIT] # "QUEUED" /\ (Opening' => Opening)
  BY TakeSets, ZenonT(30)
<1>6. HoldInv'
  <2>1. CASE v = "IN_PROGRESS"
    <3>1. Held' = {h}
      BY <2>1, <1>4, <1>5, ZenonT(30) DEF SeqInv, HoldInv
    <3>2. CASE aborted
      BY <3>1, <3>2, <2>1, <1>2, <1>4, <1>5, ZenonT(30) DEF HoldInv
    <3>3. CASE ~aborted
      BY <3>1, <3>3, <2>1, <1>2, <1>4, <1>5, ZenonT(30) DEF HoldInv
    <3> QED
      BY <3>2, <3>3, ZenonT(30)
  <2>2. CASE v = "freed"
    BY <2>2, <1>5, <1>4 DEF SeqInv, HoldInv
  <2> QED
    BY <1>4, <2>1, <2>2, ZenonT(30)
<1>7. FreshInv'
  <2>1. pc' = "process" => h \in Queued /\ job' = h
    BY <1>2, <1>4
  <2>2. next_job'[h] = NULL /\ \A j \in Job \ {h} : next_job'[j] = next_job[j]
    BY <1>0, <1>2, <1>3, ZenonT(30)
  <2>3. v \in {"IN_PROGRESS", "freed"} \cup Final
    OBVIOUS
  <2> HIDE DEF h
  <2> QED
    BY <2>1, <2>2, <2>3, <1>2, <1>4, SettleFresh, ZenonT(30)
<1>8. QueueInv'
  <2>1. Linked(Waiting', jobs_head', next_job')
    <3>1. Waiting \in SUBSET Job /\ Linked(Waiting, h, next_job)
      BY DEF Waiting, Queued, SeqInv, QueueInv
    <3> QED
      BY <3>1, <1>0, <1>3, <1>5, LinkedTake, ZenonT(30)
  <2>2. Linked(Listed', first', next_job') /\ LastOf(Listed', first', next_job', last')
    BY <1>1, <1>5 DEF Linked, LastOf
  <2>3. Opening' => LastOf(Waiting', jobs_head', next_job', jobs_tail')
    <3>1. Opening' => Opening
      BY <1>5, ZenonT(30)
    <3>2. Waiting \in SUBSET Job /\ h \in Waiting
      BY <1>1, <1>2, ZenonT(30) DEF Queued
    <3>3. Opening => LastOf(Waiting, h, next_job, jobs_tail)
      BY ZenonT(30) DEF SeqInv, QueueInv
    <3> HIDE DEF h
    <3> QED
      BY <3>1, <3>2, <3>3, <1>0, <1>3, <1>5, LastTake, ZenonT(30)
  <2> QED
    BY <2>1, <2>2, <2>3, ZenonT(30) DEF QueueInv
<1>9. CountInv'
  <2>1. IsFiniteSet(Live) /\ num_jobs_active = Cardinality(Live)
    BY <1>1, ZenonT(30) DEF SeqInv, CountInv
  <2>2. IsFiniteSet(Live \ {h}) /\ Cardinality(Live \ {h}) = Cardinality(Live) - 1
    BY <2>1, <1>2, FS_RemoveElement, ZenonT(30)
  <2>3. num_jobs_active' = IF v = "freed" THEN num_jobs_active - 1 ELSE num_jobs_active
    BY <1>4 DEF AbortQueued
  <2>4. IsFiniteSet(Live') /\ num_jobs_active' = Cardinality(Live')
    <3>1. Live' = IF v = "freed" THEN Live \ {h} ELSE Live
      BY <1>4, ZenonT(30)
    <3> QED
      BY <3>1, <2>1, <2>2, <2>3
  <2>5. num' = Cardinality(Listed')
    BY <1>1, <1>5, FS_EmptySet, ZenonT(30)
  <2> QED
    BY <2>4, <2>5, <1>5, ZenonT(30) DEF CountInv
<1>10. DrefInv'
  <2>1. ASSUME NEW d \in Job
        PROVE  dref'[d] = Cardinality(Users(d)') /\ dref'[d] \in Int
    <3>1. dref[d] = Cardinality(Users(d)) /\ Cardinality(Users(d)) \in Nat
      BY UsersFinite DEF SeqInv, DrefInv
    <3>2. CASE v = "IN_PROGRESS"
      <4>1. Users(d)' = Users(d)
        BY <3>2, <1>4, ZenonT(30) DEF Users
      <4> QED
        BY <4>1, <3>1, <3>2, <1>4
    <3>3. CASE v = "freed"
      <4>1. Cardinality(Users(d)') = Cardinality(Users(d)) - IF HasDref(h, d) THEN 1 ELSE 0
        BY <3>3, <1>2, <1>4, UsersRemove, ZenonT(30)
      <4>2. dref'[d] = IF HasDref(h, d) THEN dref[d] - 1 ELSE dref[d]
        BY <3>3, <1>4, ZenonT(30) DEF AbortQueued, dref_put
      <4> QED
        BY <4>1, <4>2, <3>1
    <3> QED
      BY <1>4, <3>2, <3>3, ZenonT(30)
  <2> QED
    BY <2>1, <1>5 DEF DrefInv
<1> QED
  BY <1>6, <1>7, <1>8, <1>9, <1>10, ZenonT(30) DEF Rest

\* The next entry of the job being read is visited, with or without a job for it.
LEMMA VisitSets ==
    ASSUME SeqInv, pc \in {"scan", "readdir"}, HasEntry(job), pc' = pc, job' = job,
           NEW v \in Absent \cup {"QUEUED"},
           status' = [status EXCEPT ![NextEntry(job)] = v],
           pos' = [pos EXCEPT ![job] = @ + 1]
    PROVE  /\ Held' = Held /\ status'[JOB_INIT] = status[JOB_INIT]
           /\ v # "QUEUED" => Live' = Live /\ Listed' = Listed /\ Waiting' = Waiting
           /\ v = "QUEUED" =>
                 /\ Live' = Live \cup {NextEntry(job)}
                 /\ pc = "scan" => Listed' = {} /\ Waiting' = Waiting \cup {NextEntry(job)}
                 /\ pc = "readdir" => Listed' = Listed \cup {NextEntry(job)} /\ Waiting' = Waiting
<1> DEFINE n == NextEntry(job)
<1>0. job \in Job /\ status \in [Job -> Status] /\ pos \in [Job -> Nat]
  BY ZenonT(30) DEF SeqInv, HoldInv, BaseTypes, TaskTypeOK
<1>1. /\ n \in Job /\ n # JOB_INIT /\ pos[job] \in Nat /\ n = Entries[job][pos[job] + 1]
      /\ n \notin Live \cup Queued \cup Held
  BY <1>0, NextEntryFresh, ZenonT(30)
<1>2. pos'[job] = pos[job] + 1
  BY <1>0
<1> HIDE DEF n
<1>3. /\ Live' = IF v \in Absent \cup Freed THEN Live \ {n} ELSE Live \cup {n}
      /\ Queued' = IF v = "QUEUED" THEN Queued \cup {n} ELSE Queued \ {n}
      /\ Held' = IF v \in {"IN_PROGRESS"} \cup Final THEN Held \cup {n} ELSE Held \ {n}
      /\ status'[n] = v /\ \A j \in Job \ {n} : status'[j] = status[j]
  BY <1>0, <1>1, StatusChange, ZenonT(30) DEF n
<1>4. /\ v \in Absent \cup Freed <=> v # "QUEUED"
      /\ v \notin {"IN_PROGRESS"} \cup Final
  BY ZenonT(30) DEF Absent, Freed, Final
<1>5. /\ Held' = Held
      /\ Live' = IF v = "QUEUED" THEN Live \cup {n} ELSE Live
      /\ Queued' = IF v = "QUEUED" THEN Queued \cup {n} ELSE Queued
  BY <1>1, <1>3, <1>4, ZenonT(30)
<1>6. status'[JOB_INIT] = status[JOB_INIT]
  BY <1>1, <1>3 DEF Job
<1>7. CASE pc = "scan"
  <2>1. Listed' = {} /\ Listed = {}
    BY <1>7, ZenonT(30) DEF Listed
  <2> QED
    BY <2>1, <1>5, <1>6, <1>7 DEF n, Waiting
<1>8. CASE pc = "readdir"
  <2> DEFINE D == {j \in Job : \E i \in 1 .. pos[job] : Entries[job][i] = j}
  <2>1. Queued \in SUBSET Job /\ Queued' \in SUBSET Job
    BY ZenonT(30) DEF Queued
  <2>2. Listed = Queued \cap D
    BY <1>8, <2>1, ZenonT(30) DEF Listed
  <2>3. Listed' = Queued' \cap (D \cup {n})
    <3>1. Listed' = {j \in Queued' : \E i \in 1 .. (pos[job] + 1) : Entries[job][i] = j}
      BY <1>8, <1>2, ZenonT(30) DEF Listed
    <3>2. \A i : i \in 1 .. (pos[job] + 1) <=> i = pos[job] + 1 \/ i \in 1 .. pos[job]
      BY <1>1
    <3>3. \A j : (\E i \in 1 .. (pos[job] + 1) : Entries[job][i] = j)
                    <=> j = n \/ \E i \in 1 .. pos[job] : Entries[job][i] = j
      BY <3>2, <1>1, ZenonT(30)
    <3>4. \A j \in Queued' : (\E i \in 1 .. (pos[job] + 1) : Entries[job][i] = j) <=> j \in D \cup {n}
      BY <3>3, <2>1, ZenonT(30)
    <3> HIDE DEF D
    <3> QED
      BY <3>1, <3>4, ZenonT(30)
  <2> HIDE DEF D
  <2>4. Listed' = IF v = "QUEUED" THEN Listed \cup {n} ELSE Listed
    BY <2>2, <2>3, <1>1, <1>5, ZenonT(30)
  <2> QED
    BY <2>4, <1>1, <1>5, <1>6, <1>8, ZenonT(30) DEF n, Waiting
<1> QED
  BY <1>7, <1>8, ZenonT(30)

\* create_job in queue_jobs_from_opts and in queue_dir: the entry gets no job, or one
\* that goes to the end of the queue if it is a specification, and to the end of the
\* directory's list if it was found in one.
Visit(n, v) ==
    /\ status' = [status EXCEPT ![n] = v]
    /\ pos' = [pos EXCEPT ![job] = @ + 1]
    /\ v # "QUEUED" => UNCHANGED <<queueVars, num_jobs_active, local, dref>>
    /\ v = "QUEUED" /\ pc = "scan" =>
          /\ queue_job_tail(n) /\ num_jobs_active' = num_jobs_active + 1
          /\ UNCHANGED <<local, dref>>
    /\ v = "QUEUED" /\ pc = "readdir" =>
          /\ next_job' = IF last = NULL THEN next_job ELSE [next_job EXCEPT ![last] = n]
          /\ first' = IF last = NULL THEN n ELSE first
          /\ last' = n
          /\ num' = num + 1
          /\ dref' = dref_get(n)
          /\ UNCHANGED <<jobs_head, jobs_tail, num_jobs_active>>

\* The two actions that do so.
LEMMA VisitEffect ==
    ASSUME SeqInv, QueueSpec \/ ReadDirEntry
    PROVE  /\ pc \in {"scan", "readdir"} /\ job \in Job /\ Held = {job} /\ HasEntry(job)
           /\ pc = "scan" => job = JOB_INIT
           /\ pc' = pc /\ job' = job /\ order' = order /\ status[JOB_INIT] # "QUEUED"
           /\ \E v \in Absent \cup {"QUEUED"} : Visit(NextEntry(job), v)
<1> DEFINE n == NextEntry(job)
<1>0. /\ pc \in {"scan", "readdir"} /\ job \in Job /\ Held = {job} /\ HasEntry(job)
      /\ pc = "scan" => job = JOB_INIT /\ QueueSpec
      /\ pc = "readdir" => ReadDirEntry
  BY ZenonT(30) DEF QueueSpec, ReadDirEntry, SeqInv, HoldInv
<1>1. pc' = pc /\ job' = job /\ order' = order
  BY ZenonT(30) DEF QueueSpec, ReadDirEntry
<1>2. \E v \in Absent \cup {"QUEUED"} : Visit(n, v)
  <2>1. {"STAT_FAILED", "TYPE_EXCLUDED", "QUEUED"} \subseteq Absent \cup {"QUEUED"}
    BY DEF Absent
  <2>2. CASE pc = "scan"
    <3>1. /\ job = JOB_INIT /\ UNCHANGED <<local, dref>>
          /\ \/ create_job_CannotStat(job) /\ UNCHANGED <<queueVars, num_jobs_active>>
             \/ create_job_TypeExcluded(job) /\ UNCHANGED <<queueVars, num_jobs_active>>
             \/ create_job(job) /\ queue_job_tail(n) /\ num_jobs_active' = num_jobs_active + 1
      BY <2>2, <1>0, ZenonT(30) DEF QueueSpec
    <3> HIDE DEF n
    <3> QED
      BY <3>1, <2>1, <2>2, ZenonT(30)
         DEF create_job_CannotStat, create_job_TypeExcluded, create_job, n, Visit
  <2>3. CASE pc = "readdir"
    <3>1. /\ UNCHANGED <<jobs_head, jobs_tail, num_jobs_active>>
          /\ \/ create_job_CannotStat(job) /\ UNCHANGED <<next_job, local, dref>>
             \/ create_job_TypeExcluded(job) /\ UNCHANGED <<next_job, local, dref>>
             \/ /\ create_job(job)
                /\ next_job' = IF last = NULL THEN next_job ELSE [next_job EXCEPT ![last] = n]
                /\ first' = IF last = NULL THEN n ELSE first
                /\ last' = n
                /\ num' = num + 1
                /\ dref' = dref_get(n)
      BY <2>3, <1>0, ZenonT(30) DEF ReadDirEntry
    <3> HIDE DEF n
    <3> QED
      BY <3>1, <2>1, <2>3, ZenonT(30)
         DEF create_job_CannotStat, create_job_TypeExcluded, create_job, queueVars, n, Visit
  <2> QED
    BY <1>0, <2>2, <2>3, ZenonT(30)
<1>3. status[JOB_INIT] # "QUEUED"
  BY <1>0 DEF SeqInv, HoldInv
<1> QED
  BY <1>0, <1>1, <1>2, <1>3, ZenonT(30)

\* Visiting an entry keeps the invariant.
LEMMA VisitStep ==
    ASSUME SeqInv, QueueSpec \/ ReadDirEntry
    PROVE  Rest'
<1> DEFINE n == NextEntry(job)
<1>0. /\ pc \in {"scan", "readdir"} /\ job \in Job /\ Held = {job} /\ HasEntry(job)
      /\ pc = "scan" => job = JOB_INIT
  BY VisitEffect, ZenonT(30)
<1>1. /\ next_job \in [Job -> JobOrNull] /\ dref \in [Job -> Int] /\ num_jobs_active \in Int
      /\ num \in Nat
  BY ZenonT(30) DEF SeqInv, BaseTypes, TaskTypeOK
<1>2. pc' = pc /\ job' = job
  BY VisitEffect, ZenonT(30)
<1>3. PICK v \in Absent \cup {"QUEUED"} :
          /\ status' = [status EXCEPT ![n] = v]
          /\ pos' = [pos EXCEPT ![job] = @ + 1]
          /\ v # "QUEUED" => UNCHANGED <<queueVars, num_jobs_active, local, dref>>
          /\ v = "QUEUED" /\ pc = "scan" =>
                /\ queue_job_tail(n) /\ num_jobs_active' = num_jobs_active + 1
                /\ UNCHANGED <<local, dref>>
          /\ v = "QUEUED" /\ pc = "readdir" =>
                /\ next_job' = IF last = NULL THEN next_job ELSE [next_job EXCEPT ![last] = n]
                /\ first' = IF last = NULL THEN n ELSE first
                /\ last' = n
                /\ num' = num + 1
                /\ dref' = dref_get(n)
                /\ UNCHANGED <<jobs_head, jobs_tail, num_jobs_active>>
  BY VisitEffect, ZenonT(30) DEF Visit
<1>4. /\ n \in Job /\ n # JOB_INIT /\ pos[job] + 1 \in 1 .. Len(Entries[job])
      /\ n = Entries[job][pos[job] + 1] /\ next_job[n] = NULL
      /\ n \notin Live \cup Queued \cup Held
  BY <1>0, NextEntryFresh, ZenonT(30)
<1>5. /\ Held' = Held /\ status'[JOB_INIT] = status[JOB_INIT]
      /\ v # "QUEUED" => Live' = Live /\ Listed' = Listed /\ Waiting' = Waiting
      /\ v = "QUEUED" =>
            /\ Live' = Live \cup {n}
            /\ pc = "scan" => Listed' = {} /\ Waiting' = Waiting \cup {n}
            /\ pc = "readdir" => Listed' = Listed \cup {n} /\ Waiting' = Waiting
  BY <1>0, <1>2, <1>3, VisitSets, ZenonT(30)
<1>6. status[JOB_INIT] # "QUEUED"
  BY VisitEffect, ZenonT(30)
<1>7. /\ pc = "scan" => Listed = {} /\ first = NULL /\ last = NULL /\ num = 0
      /\ Listed \in SUBSET Job /\ Waiting \in SUBSET Job /\ Listed \cap Waiting = {}
      /\ Listed \subseteq Queued /\ Waiting \subseteq Queued /\ NULL \notin Job
      /\ Queued \subseteq Live
  <2>1. pc = "scan" => Listed = {} /\ first = NULL /\ last = NULL /\ num = 0
    BY NotReading, ZenonT(30)
  <2>2. Queued \subseteq Live
    BY LiveJobs, ZenonT(30) DEF SeqInv, BaseTypes, TaskTypeOK
  <2> QED
    BY <2>1, <2>2, TreeAssumption, ZenonT(30) DEF Listed, Waiting, Queued
<1>8. HoldInv'
  BY <1>0, <1>2, <1>5, <1>6, ZenonT(30) DEF SeqInv, HoldInv
<1>9. LastOf(Listed, first, next_job, last) /\ (pc = "scan" => LastOf(Waiting, jobs_head, next_job, jobs_tail))
  BY <1>0, ZenonT(30) DEF SeqInv, QueueInv, Opening
<1> HIDE DEF n
<1>10. FreshInv'
  <2>1. ASSUME NEW j \in Job, j \notin Queued
        PROVE  next_job'[j] = next_job[j]
    <3>1. CASE v # "QUEUED"
      BY <3>1, <1>3, ZenonT(30) DEF queueVars
    <3>2. CASE v = "QUEUED" /\ pc = "scan"
      <4>1. jobs_tail = NULL \/ jobs_tail \in Queued
        BY <3>2, <1>7, <1>9, ZenonT(30) DEF LastOf
      <4> QED
        BY <4>1, <3>2, <2>1, <1>1, <1>3, ZenonT(30) DEF queue_job_tail
    <3>3. CASE v = "QUEUED" /\ pc = "readdir"
      <4>1. last = NULL \/ last \in Queued
        BY <1>7, <1>9, ZenonT(30) DEF LastOf
      <4> QED
        BY <4>1, <3>3, <2>1, <1>1, <1>3, ZenonT(30)
    <3> QED
      BY <1>0, <3>1, <3>2, <3>3, ZenonT(30)
  <2>2. job \in Held /\ pc # "process"
    BY <1>0, ZenonT(30)
  <2> QED
    BY <2>1, <2>2, <1>0, <1>2, <1>3, VisitFresh, ZenonT(30) DEF n
<1>11. QueueInv'
  <2>1. Linked(Waiting, jobs_head, next_job) /\ Linked(Listed, first, next_job)
    BY ZenonT(30) DEF SeqInv, QueueInv
  <2>2. Opening' => pc = "scan"
    BY <1>0, <1>2, <1>5, <1>6, ZenonT(30) DEF Opening
  <2>3. CASE v # "QUEUED"
    <3>1. UNCHANGED <<next_job, jobs_head, jobs_tail, first, last>> /\ Listed' = Listed /\ Waiting' = Waiting
      BY <2>3, <1>3, <1>5, ZenonT(30) DEF queueVars, local
    <3> QED
      BY <3>1, <2>1, <2>2, <1>9, ZenonT(30) DEF QueueInv
  <2>4. CASE v = "QUEUED" /\ pc = "scan"
    <3>1. /\ jobs_head' = IF jobs_tail = NULL THEN n ELSE jobs_head
          /\ next_job' = IF jobs_tail = NULL THEN next_job ELSE [next_job EXCEPT ![jobs_tail] = n]
          /\ jobs_tail' = n /\ first' = NULL /\ last' = NULL
          /\ Waiting' = Waiting \cup {n} /\ Listed' = {}
      BY <2>4, <1>3, <1>5, <1>7, ZenonT(30) DEF queue_job_tail, local
    <3>2. n \in Job \ Waiting
      BY <1>4, <1>7, ZenonT(30)
    <3>3. Linked(Waiting', jobs_head', next_job')
      BY <3>1, <3>2, <2>1, <2>4, <1>1, <1>4, <1>7, <1>9, LinkedAppend, ZenonT(30)
    <3>4. Linked(Listed', first', next_job') /\ LastOf(Listed', first', next_job', last')
      BY <3>1, ZenonT(30) DEF Linked, LastOf
    <3>5. LastOf(Waiting', jobs_head', next_job', jobs_tail')
      <4>1. jobs_tail # n
        BY <3>2, <2>4, <1>7, <1>9, ZenonT(30) DEF LastOf
      <4> QED
        BY <4>1, <3>1, <1>1, <1>4, <1>7, ZenonT(30) DEF LastOf
    <3> QED
      BY <3>3, <3>4, <3>5, ZenonT(30) DEF QueueInv
  <2>5. CASE v = "QUEUED" /\ pc = "readdir"
    <3>1. /\ next_job' = IF last = NULL THEN next_job ELSE [next_job EXCEPT ![last] = n]
          /\ first' = IF last = NULL THEN n ELSE first
          /\ last' = n /\ jobs_head' = jobs_head
          /\ Listed' = Listed \cup {n} /\ Waiting' = Waiting
      BY <2>5, <1>3, <1>5, ZenonT(30)
    <3>2. n \in Job \ Listed
      BY <1>4, <1>7, ZenonT(30)
    <3>3. Linked(Listed', first', next_job')
      BY <3>1, <3>2, <2>1, <1>1, <1>4, <1>7, <1>9, LinkedAppend, ZenonT(30)
    <3>4. LastOf(Listed', first', next_job', last')
      <4>1. last # n
        BY <3>2, <1>7, <1>9, ZenonT(30) DEF LastOf
      <4> QED
        BY <4>1, <3>1, <1>1, <1>4, <1>7, ZenonT(30) DEF LastOf
    <3>5. Linked(Waiting', jobs_head', next_job')
      <4>1. \A k \in Waiting : next_job'[k] = next_job[k]
        <5>1. last = NULL \/ last \notin Waiting
          BY <1>7, <1>9, ZenonT(30) DEF LastOf
        <5> QED
          BY <5>1, <3>1, <1>1, <1>7, ZenonT(30)
      <4> QED
        BY <4>1, <3>1, <2>1, <1>7, LinkedFrame, ZenonT(30)
    <3> QED
      BY <3>3, <3>4, <3>5, <2>2, <2>5, ZenonT(30) DEF QueueInv
  <2> QED
    BY <1>0, <2>3, <2>4, <2>5, ZenonT(30)
<1>12. CountInv'
  <2>1. /\ IsFiniteSet(Live) /\ num_jobs_active = Cardinality(Live \ Listed)
        /\ num = Cardinality(Listed) /\ n \notin Live /\ n \notin Listed
    BY <1>4, <1>7, ZenonT(30) DEF SeqInv, CountInv
  <2>2. IsFiniteSet(Live \cup {n}) /\ Cardinality(Live \cup {n}) = Cardinality(Live) + 1
    BY <2>1, FS_AddElement, ZenonT(30)
  <2>3. IsFiniteSet(Live')
    BY <2>1, <2>2, <1>5, ZenonT(30)
  <2>4. CASE v # "QUEUED"
    BY <2>1, <2>4, <1>3, <1>5, ZenonT(30) DEF CountInv, local
  <2>5. CASE v = "QUEUED" /\ pc = "scan"
    <3>1. Live' \ Listed' = Live \cup {n} /\ Live \ Listed = Live /\ Listed' = {} /\ num' = 0
      BY <2>5, <1>3, <1>5, <1>7, ZenonT(30) DEF local
    <3>2. num_jobs_active' = num_jobs_active + 1
      BY <2>5, <1>3, ZenonT(30)
    <3> QED
      BY <3>1, <3>2, <2>1, <2>2, <2>3, FS_EmptySet, ZenonT(30) DEF CountInv
  <2>6. CASE v = "QUEUED" /\ pc = "readdir"
    <3>1. Live' \ Listed' = Live \ Listed /\ Listed' = Listed \cup {n}
      BY <2>1, <2>6, <1>5, ZenonT(30)
    <3>2. IsFiniteSet(Listed) /\ Cardinality(Listed \cup {n}) = Cardinality(Listed) + 1
      <4>1. IsFiniteSet(Listed)
        BY <2>1, <1>7, FS_Subset, ZenonT(30)
      <4> QED
        BY <4>1, <2>1, FS_AddElement, ZenonT(30)
    <3>3. num_jobs_active' = num_jobs_active /\ num' = num + 1
      BY <2>6, <1>3, ZenonT(30)
    <3> QED
      BY <3>1, <3>2, <3>3, <2>1, <2>3, ZenonT(30) DEF CountInv
  <2> QED
    BY <1>0, <2>4, <2>5, <2>6, ZenonT(30)
<1>13. DrefInv'
  <2>1. ASSUME NEW d \in Job
        PROVE  dref'[d] - dref[d] = Cardinality(Users(d)') - Cardinality(Users(d))
               /\ Cardinality(Users(d)) \in Int /\ Cardinality(Users(d)') \in Int
               /\ dref'[d] \in Int
    <3>1. Cardinality(Users(d)) \in Nat /\ dref[d] \in Int
      BY <1>1, UsersFinite, ZenonT(30)
    <3>2. CASE v # "QUEUED"
      <4>1. Users(d)' = Users(d) /\ dref' = dref
        BY <3>2, <1>3, <1>5, ZenonT(30) DEF Users
      <4> QED
        BY <4>1, <3>1
    <3>3. CASE v = "QUEUED"
      <4>1. Cardinality(Users(d)') = Cardinality(Users(d)) + IF HasDref(n, d) THEN 1 ELSE 0
        BY <3>3, <1>4, <1>5, UsersAdd, ZenonT(30)
      <4>2. CASE pc = "scan"
        <5>1. ~HasDref(n, d)
          <6>1. SUFFICES ASSUME HasDref(n, d) PROVE FALSE
            OBVIOUS
          <6>2. PICK i \in 1 .. Len(Entries[d]) : Entries[d][i] = n
            BY <6>1, ZenonT(30) DEF HasDref
          <6>3. d = job
            BY <6>2, <1>0, <1>4, OnePlace, SMTT(30)
          <6> QED
            BY <6>1, <6>3, <4>2, <1>0, TreeAssumption, ZenonT(30) DEF HasDref
        <5> QED
          BY <5>1, <4>1, <4>2, <3>1, <3>3, <1>3, SMTT(30)
      <4>3. CASE pc = "readdir"
        <5>1. dref'[d] = IF HasDref(n, d) THEN dref[d] + 1 ELSE dref[d]
          BY <4>3, <3>3, <1>3, ZenonT(30) DEF dref_get
        <5> QED
          BY <5>1, <4>1, <3>1
      <4> QED
        BY <1>0, <4>2, <4>3, ZenonT(30)
    <3> QED
      BY <3>2, <3>3, ZenonT(30)
  <2>2. ASSUME NEW d \in Job
        PROVE  dref'[d] = Cardinality(Users(d)') + IF pc' = "readdir" /\ job' = d THEN 1 ELSE 0
    <3>1. dref[d] = Cardinality(Users(d)) + IF pc = "readdir" /\ job = d THEN 1 ELSE 0
      BY DEF SeqInv, DrefInv
    <3>2. dref[d] \in Int
      BY <1>1, ZenonT(30)
    <3> QED
      BY <2>1, <3>1, <3>2, <1>2, SMTT(30)
  <2> QED
    BY <2>2, ZenonT(30) DEF DrefInv
<1> QED
  BY <1>8, <1>10, <1>11, <1>12, <1>13, ZenonT(30) DEF Rest

\* queue_jobs at the end of queue_dir: the list is linked in front of the queue.
LEMMA QueueDirSets ==
    ASSUME SeqInv, QueueDir
    PROVE  /\ pc = "readdir" /\ pc' = "post" /\ job \in Job /\ job' = job /\ Held = {job}
           /\ order' = order /\ status' = [status EXCEPT ![job] = "DONE"] /\ pos' = pos
           /\ job \in Live /\ job \notin Queued /\ Queued \subseteq Live
           /\ Live' = Live /\ Queued' = Queued /\ Held' = Held
           /\ \A j \in Job \ {job} : status'[j] = status[j]
           /\ Listed' = {} /\ Waiting' = Listed \cup Waiting
           /\ Listed \subseteq Queued /\ Waiting \subseteq Queued /\ Listed \cap Waiting = {}
           /\ Listed \in SUBSET Job /\ Waiting \in SUBSET Job
           /\ IF first # NULL
              THEN /\ next_job' = [next_job EXCEPT ![last] = jobs_head] /\ jobs_head' = first
                   /\ last \in Listed /\ next_job[last] = NULL
              ELSE next_job' = next_job /\ jobs_head' = jobs_head /\ Listed = {}
           /\ status'[JOB_INIT] # "QUEUED" /\ ~Opening'
<1>0. /\ pc = "readdir" /\ pc' = "post" /\ job \in Job /\ job' = job /\ Held = {job}
      /\ Type[job] = "DIR" /\ status \in [Job -> Status]
      /\ status' = [status EXCEPT ![job] = "DONE"] /\ pos' = pos
      /\ order' = order
  BY DEF QueueDir, EndProcess, SeqInv, HoldInv, BaseTypes, TaskTypeOK
<1>1. IF first # NULL
      THEN /\ next_job' = [next_job EXCEPT ![last] = jobs_head] /\ jobs_head' = first
      ELSE next_job' = next_job /\ jobs_head' = jobs_head
  BY ZenonT(30) DEF QueueDir, queue_jobs_list, queueVars
<1>2. job \in Live /\ job \in Held /\ job \notin Queued /\ Queued \subseteq Live
  BY <1>0, LiveJobs, ZenonT(30)
<1>3. /\ Live' = Live /\ Queued' = Queued /\ Held' = Held
      /\ \A j \in Job \ {job} : status'[j] = status[j]
  <2>1. /\ Live' = IF "DONE" \in Absent \cup Freed THEN Live \ {job} ELSE Live \cup {job}
        /\ Queued' = IF "DONE" = "QUEUED" THEN Queued \cup {job} ELSE Queued \ {job}
        /\ Held' = IF "DONE" \in {"IN_PROGRESS"} \cup Final THEN Held \cup {job} ELSE Held \ {job}
        /\ \A j \in Job \ {job} : status'[j] = status[j]
    BY <1>0, StatusChange, ZenonT(30)
  <2>2. "DONE" \notin Absent \cup Freed /\ "DONE" # "QUEUED" /\ "DONE" \in {"IN_PROGRESS"} \cup Final
    BY DEF Absent, Freed, Final
  <2> QED
    BY <2>1, <2>2, <1>2, ZenonT(30)
<1>4. /\ Listed' = {} /\ Waiting' = Listed \cup Waiting
      /\ Listed \subseteq Queued /\ Waiting \subseteq Queued /\ Listed \cap Waiting = {}
      /\ Listed \in SUBSET Job /\ Waiting \in SUBSET Job
  BY <1>0, <1>3, ZenonT(30) DEF Listed, Waiting, Queued
<1>5. /\ Linked(Waiting, jobs_head, next_job) /\ Linked(Listed, first, next_job)
      /\ LastOf(Listed, first, next_job, last)
  BY ZenonT(30) DEF SeqInv, QueueInv
<1>6. first # NULL => last \in Listed /\ next_job[last] = NULL
  BY <1>5, ZenonT(30) DEF LastOf
<1>7. first = NULL => Listed = {}
  BY <1>4, <1>5, LinkedEmpty, ZenonT(30)
<1>8. status'[JOB_INIT] # "QUEUED"
  <2>1. status[JOB_INIT] # "QUEUED" /\ JOB_INIT \in Job /\ JOB_INIT # job
    BY <1>0, TreeAssumption, ZenonT(30) DEF SeqInv, HoldInv, Job
  <2> QED
    BY <2>1, <1>3, ZenonT(30)
<1>9. ~Opening'
  BY <1>0, <1>8, ZenonT(30) DEF Opening
<1>10. IF first # NULL
       THEN /\ next_job' = [next_job EXCEPT ![last] = jobs_head] /\ jobs_head' = first
            /\ last \in Listed /\ next_job[last] = NULL
       ELSE next_job' = next_job /\ jobs_head' = jobs_head /\ Listed = {}
  BY <1>1, <1>6, <1>7, ZenonT(30)
<1> QED
  BY <1>0, <1>2, <1>3, <1>4, <1>8, <1>9, <1>10, ZenonT(30)

\* It keeps the invariant: the jobs of the list are counted now.
LEMMA QueueDirStep ==
    ASSUME SeqInv, QueueDir
    PROVE  Rest'
<1>0. /\ pc = "readdir" /\ pc' = "post" /\ job \in Job /\ job' = job /\ Held = {job}
      /\ next_job \in [Job -> JobOrNull] /\ dref \in [Job -> Int] /\ num_jobs_active \in Int
      /\ status' = [status EXCEPT ![job] = "DONE"] /\ pos' = pos
      /\ first' = NULL /\ last' = NULL /\ num' = 0 /\ dref' = [dref EXCEPT ![job] = @ - 1]
  BY QueueDirSets, ZenonT(30) DEF QueueDir, SeqInv, BaseTypes, TaskTypeOK
<1>1. IF first # NULL
      THEN /\ next_job' = [next_job EXCEPT ![last] = jobs_head] /\ jobs_head' = first
           /\ num_jobs_active' = num_jobs_active + num
      ELSE next_job' = next_job /\ jobs_head' = jobs_head /\ num_jobs_active' = num_jobs_active
  BY ZenonT(30) DEF QueueDir, queue_jobs_list, queueVars
<1>2. job \in Live /\ job \in Held /\ job \notin Queued /\ Queued \subseteq Live
  BY QueueDirSets, ZenonT(30)
<1>3. /\ Live' = Live /\ Queued' = Queued /\ Held' = Held
      /\ \A j \in Job \ {job} : status'[j] = status[j]
  BY QueueDirSets, ZenonT(30)
<1>4. /\ Listed' = {} /\ Waiting' = Listed \cup Waiting
      /\ Listed \subseteq Queued /\ Waiting \subseteq Queued /\ Listed \cap Waiting = {}
      /\ Listed \in SUBSET Job /\ Waiting \in SUBSET Job
  BY QueueDirSets, ZenonT(30)
<1>5. /\ Linked(Waiting, jobs_head, next_job) /\ Linked(Listed, first, next_job)
  BY ZenonT(30) DEF SeqInv, QueueInv
<1>6. first # NULL => last \in Listed /\ next_job[last] = NULL
  BY QueueDirSets, ZenonT(30)
<1>7. first = NULL => Listed = {}
  BY QueueDirSets, ZenonT(30)
<1>8. status'[JOB_INIT] # "QUEUED" /\ ~Opening'
  BY QueueDirSets, ZenonT(30)
<1>9. HoldInv'
  BY <1>0, <1>3, <1>8, ZenonT(30) DEF HoldInv
<1>10. FreshInv'
  <2>1. \A j \in Job : next_job'[j] = next_job[j] \/ j \in Queued
    BY <1>0, <1>1, <1>4, <1>6, ZenonT(30)
  <2>2. next_job'[job] = NULL
    <3>1. next_job[job] = NULL
      BY <1>0, <1>2, ZenonT(30) DEF SeqInv, FreshInv, Queued
    <3> QED
      BY <3>1, <2>1, <1>0, <1>2, ZenonT(30)
  <2>3. "DONE" \in {"IN_PROGRESS", "freed"} \cup Final /\ pc' # "process"
    BY <1>0, ZenonT(30) DEF Final
  <2> QED
    BY <2>1, <2>2, <2>3, <1>0, <1>2, SettleFresh, ZenonT(30)
<1>11. QueueInv'
  <2>1. Linked(Waiting', jobs_head', next_job')
    <3>1. CASE first = NULL
      <4>1. Waiting' = Waiting /\ jobs_head' = jobs_head /\ next_job' = next_job
        BY <3>1, <1>1, <1>4, <1>7, ZenonT(30)
      <4> QED
        BY <4>1, <1>5, ZenonT(30)
    <3>2. CASE first # NULL
      <4>1. Linked(Listed \cup Waiting, first, [next_job EXCEPT ![last] = jobs_head])
        BY <3>2, <1>0, <1>4, <1>5, <1>6, LinkedConcat, ZenonT(30)
      <4>2. jobs_head' = first /\ next_job' = [next_job EXCEPT ![last] = jobs_head]
        BY <3>2, <1>1
      <4> QED
        BY <4>1, <4>2, <1>4, ZenonT(30)
    <3> QED
      BY <3>1, <3>2, ZenonT(30)
  <2>2. Linked(Listed', first', next_job') /\ LastOf(Listed', first', next_job', last')
    BY <1>0, <1>4, ZenonT(30) DEF Linked, LastOf
  <2>3. ~Opening'
    BY <1>8, ZenonT(30)
  <2> QED
    BY <2>1, <2>2, <2>3, ZenonT(30) DEF QueueInv
<1>12. CountInv'
  <2>1. /\ IsFiniteSet(Live) /\ num_jobs_active = Cardinality(Live \ Listed)
        /\ num = Cardinality(Listed)
    BY DEF SeqInv, CountInv
  <2>2. num_jobs_active' = Cardinality(Live)
    <3>1. CASE first = NULL
      <4>1. Live \ Listed = Live
        BY <3>1, <1>7, ZenonT(30)
      <4> QED
        BY <4>1, <3>1, <2>1, <1>1, ZenonT(30)
    <3>2. CASE first # NULL
      <4>1. IsFiniteSet(Listed) /\ IsFiniteSet(Live \ Listed)
        BY <2>1, <1>2, <1>4, FS_Subset, ZenonT(30)
      <4>2. (Live \ Listed) \cup Listed = Live /\ (Live \ Listed) \cap Listed = {}
        BY <1>2, <1>4, ZenonT(30)
      <4>3. Cardinality(Live) = Cardinality(Live \ Listed) + Cardinality(Listed) - Cardinality({})
        <5> DEFINE S == Live \ Listed
        <5>1. S \cup Listed = Live /\ S \cap Listed = {} /\ IsFiniteSet(S)
          BY <4>1, <4>2, ZenonT(30)
        <5> HIDE DEF S
        <5>2. Cardinality(S \cup Listed)
                = Cardinality(S) + Cardinality(Listed) - Cardinality(S \cap Listed)
          BY <5>1, <4>1, FS_Union, ZenonT(30)
        <5> QED
          BY <5>1, <5>2, ZenonT(30) DEF S
      <4>4. Cardinality({}) = 0 /\ Cardinality(Live \ Listed) \in Nat /\ Cardinality(Listed) \in Nat
        BY <4>1, FS_EmptySet, FS_CardinalityType, ZenonT(30)
      <4> QED
        BY <4>3, <4>4, <3>2, <2>1, <1>1, SMTT(30)
    <3> QED
      BY <3>1, <3>2, ZenonT(30)
  <2>3. Live' \ Listed' = Live
    BY <1>3, <1>4, ZenonT(30)
  <2> QED
    BY <2>1, <2>2, <2>3, <1>0, <1>3, <1>4, FS_EmptySet, ZenonT(30) DEF CountInv
<1>13. DrefInv'
  <2>1. ASSUME NEW d \in Job
        PROVE  dref'[d] = Cardinality(Users(d)') /\ dref'[d] \in Int
    <3>1. Users(d)' = Users(d) /\ Cardinality(Users(d)) \in Nat
      BY <1>3, UsersFinite, ZenonT(30) DEF Users
    <3>2. dref[d] = Cardinality(Users(d)) + IF job = d THEN 1 ELSE 0
      BY <1>0, ZenonT(30) DEF SeqInv, DrefInv
    <3>3. dref'[d] = dref[d] - IF job = d THEN 1 ELSE 0
      BY <1>0
    <3> QED
      BY <3>1, <3>2, <3>3
  <2> QED
    BY <2>1, <1>0 DEF DrefInv
<1> QED
  BY <1>9, <1>10, <1>11, <1>12, <1>13, ZenonT(30) DEF Rest

\* _complete_job: the job is freed.
LEMMA CompleteSets ==
    ASSUME SeqInv, Complete
    PROVE  /\ pc = "post" /\ pc' = "dequeue" /\ job \in Job /\ job' = NULL /\ Held = {job}
           /\ status' = [status EXCEPT ![job] = "freed"]
           /\ UNCHANGED <<next_job, jobs_head, jobs_tail, pos, first, last, num>>
           /\ job \in Live /\ job \notin Queued
           /\ Live' = Live \ {job} /\ Queued' = Queued /\ Held' = {}
           /\ status'[job] = "freed" /\ \A j \in Job \ {job} : status'[j] = status[j]
           /\ Listed = {} /\ Waiting = Queued /\ first = NULL /\ last = NULL /\ num = 0
           /\ Listed' = {} /\ Waiting' = Waiting
           /\ status'[JOB_INIT] # "QUEUED" /\ ~Opening'
<1>0. /\ pc = "post" /\ pc' = "dequeue" /\ job \in Job /\ job' = NULL /\ Held = {job}
      /\ status \in [Job -> Status]
      /\ status' = [status EXCEPT ![job] = "freed"]
      /\ UNCHANGED <<next_job, jobs_head, jobs_tail, pos, first, last, num>>
  BY ZenonT(30) DEF Complete, SeqInv, HoldInv, BaseTypes, TaskTypeOK, queueVars, local
<1>1. job \in Live /\ job \in Held /\ job \notin Queued
  BY <1>0, LiveJobs, ZenonT(30)
<1>2. /\ Live' = Live \ {job} /\ Queued' = Queued /\ Held' = {}
      /\ status'[job] = "freed" /\ \A j \in Job \ {job} : status'[j] = status[j]
  <2>1. /\ Live' = IF "freed" \in Absent \cup Freed THEN Live \ {job} ELSE Live \cup {job}
        /\ Queued' = IF "freed" = "QUEUED" THEN Queued \cup {job} ELSE Queued \ {job}
        /\ Held' = IF "freed" \in {"IN_PROGRESS"} \cup Final THEN Held \cup {job} ELSE Held \ {job}
        /\ status'[job] = "freed" /\ \A j \in Job \ {job} : status'[j] = status[j]
    BY <1>0, StatusChange, ZenonT(30)
  <2>2. "freed" \in Absent \cup Freed /\ "freed" # "QUEUED" /\ "freed" \notin {"IN_PROGRESS"} \cup Final
    BY DEF Absent, Freed, Final
  <2> QED
    BY <2>1, <2>2, <1>0, <1>1, ZenonT(30)
<1>3. /\ Listed = {} /\ Waiting = Queued /\ first = NULL /\ last = NULL /\ num = 0
  BY <1>0, NotReading
<1>4. Listed' = {} /\ Waiting' = Waiting
  BY <1>0, <1>2, <1>3, ZenonT(30) DEF Listed, Waiting
<1>5. status'[JOB_INIT] # "QUEUED" /\ job' # JOB_INIT
  <2>1. status[JOB_INIT] # "QUEUED" /\ JOB_INIT \in Job /\ NULL \notin Job
    BY <1>0, TreeAssumption, ZenonT(30) DEF SeqInv, HoldInv, Job
  <2> QED
    BY <2>1, <1>0, <1>2, ZenonT(30)
<1>6. ~Opening'
  BY <1>5, ZenonT(30) DEF Opening
<1> QED
  BY <1>0, <1>1, <1>2, <1>3, <1>4, <1>5, <1>6, ZenonT(30)

\* It keeps the invariant: the job is no longer counted.
LEMMA CompleteStep ==
    ASSUME SeqInv, Complete
    PROVE  Rest'
<1>0. /\ pc = "post" /\ pc' = "dequeue" /\ job \in Job /\ job' = NULL /\ Held = {job}
      /\ dref \in [Job -> Int]
      /\ status' = [status EXCEPT ![job] = "freed"]
      /\ UNCHANGED <<next_job, jobs_head, jobs_tail, pos, first, last, num>>
      /\ num_jobs_active' = num_jobs_active - 1 /\ dref' = dref_put(job)
  BY CompleteSets, ZenonT(30) DEF Complete, SeqInv, BaseTypes
<1>1. job \in Live /\ job \notin Queued
  BY CompleteSets, ZenonT(30)
<1>2. /\ Live' = Live \ {job} /\ Queued' = Queued /\ Held' = {}
      /\ status'[job] = "freed" /\ \A j \in Job \ {job} : status'[j] = status[j]
  BY CompleteSets, ZenonT(30)
<1>3. /\ Listed = {} /\ Waiting = Queued /\ first = NULL /\ last = NULL /\ num = 0
  BY CompleteSets, ZenonT(30)
<1>4. Listed' = {} /\ Waiting' = Waiting
  BY CompleteSets, ZenonT(30)
<1>5. status'[JOB_INIT] # "QUEUED" /\ ~Opening'
  BY CompleteSets, ZenonT(30)
<1>6. HoldInv'
  BY <1>0, <1>2, <1>5, ZenonT(30) DEF HoldInv
<1>7. FreshInv'
  <2>1. next_job'[job] = NULL
    BY <1>0, <1>1, ZenonT(30) DEF SeqInv, FreshInv, Queued
  <2>2. "freed" \in {"IN_PROGRESS", "freed"} \cup Final /\ pc' # "process"
    BY <1>0
  <2> QED
    BY <2>1, <2>2, <1>0, <1>1, SettleFresh, ZenonT(30)
<1>8. QueueInv'
  <2>1. ~Opening'
    BY <1>5, ZenonT(30)
  <2> QED
    BY <2>1, <1>0, <1>3, <1>4, ZenonT(30) DEF SeqInv, QueueInv
<1>9. CountInv'
  <2>1. IsFiniteSet(Live) /\ num_jobs_active = Cardinality(Live)
    BY <1>3, ZenonT(30) DEF SeqInv, CountInv
  <2>2. IsFiniteSet(Live \ {job}) /\ Cardinality(Live \ {job}) = Cardinality(Live) - 1
    BY <2>1, <1>1, FS_RemoveElement, ZenonT(30)
  <2>3. Live' \ Listed' = Live \ {job}
    BY <1>2, <1>4, ZenonT(30)
  <2> QED
    BY <2>1, <2>2, <2>3, <1>0, <1>2, <1>3, <1>4, FS_EmptySet, ZenonT(30) DEF CountInv
<1>10. DrefInv'
  <2>1. ASSUME NEW d \in Job
        PROVE  dref'[d] = Cardinality(Users(d)') /\ dref'[d] \in Int
    <3>1. dref[d] = Cardinality(Users(d)) /\ Cardinality(Users(d)) \in Nat
      BY <1>0, UsersFinite DEF SeqInv, DrefInv
    <3>2. Cardinality(Users(d)') = Cardinality(Users(d)) - IF HasDref(job, d) THEN 1 ELSE 0
      BY <1>1, <1>2, UsersRemove, ZenonT(30)
    <3>3. dref'[d] = IF HasDref(job, d) THEN dref[d] - 1 ELSE dref[d]
      BY <1>0, ZenonT(30) DEF dref_put
    <3> QED
      BY <3>1, <3>2, <3>3, SMTT(30)
  <2> QED
    BY <2>1, <1>0, SMTT(30) DEF DrefInv
<1> QED
  BY <1>6, <1>7, <1>8, <1>9, <1>10, ZenonT(30) DEF Rest

\* The end of the loop, of the program, and steps in which nothing happens.
LEMMA IdleStep ==
    ASSUME SeqInv,
           \/ Dequeue /\ jobs_head = NULL
           \/ Exit
           \/ UNCHANGED vars
    PROVE  Rest'
<1>1. /\ UNCHANGED <<status, next_job, jobs_head, jobs_tail, num_jobs_active, pos, job, first,
                     last, num, dref>>
      /\ \/ pc = "dequeue" /\ jobs_head = NULL /\ pc' = "abort" /\ aborted' = aborted
         \/ pc = "abort" /\ jobs_head = NULL /\ pc' = "exit" /\ (aborted => aborted')
         \/ pc' = pc /\ aborted' = aborted
  BY DEF Dequeue, Exit, vars, taskVars, queueVars, local
<1>2. Live' = Live /\ Queued' = Queued /\ Held' = Held /\ \A d : Users(d)' = Users(d)
  BY <1>1, ZenonT(30) DEF Live, Queued, Held, Users
<1>3. /\ pc' = "readdir" <=> pc = "readdir"
      /\ pc' \in {"process", "scan", "readdir", "post"} => pc' = pc
      /\ jobs_head = NULL => jobs_head # JOB_INIT
  BY <1>1, TreeAssumption, ZenonT(30) DEF Job
<1>4. Listed' = Listed /\ Waiting' = Waiting
  BY <1>1, <1>2, <1>3, ZenonT(30) DEF Listed, Waiting
<1>5. HoldInv'
  <2>1. pc' \in {"abort", "exit"} => \E j \in Job : Held' \subseteq {j} /\ (Held' # {} => aborted')
    <3>1. CASE pc = "dequeue"
      BY <3>1, <1>1, <1>2, ZenonT(30) DEF SeqInv, HoldInv, Job
    <3>2. CASE pc # "dequeue"
      BY <3>2, <1>1, <1>2, ZenonT(30) DEF SeqInv, HoldInv
    <3> QED
      BY <3>1, <3>2, ZenonT(30)
  <2>2. /\ pc' \in {"process", "scan", "readdir", "post"} => job' \in Job /\ Held' = {job'}
        /\ pc' = "scan" => job' = JOB_INIT
        /\ pc' = "readdir" => Type[job'] = "DIR"
    BY <1>1, <1>2, <1>3, ZenonT(30) DEF SeqInv, HoldInv
  <2>3. /\ pc' = "dequeue" => Held' = {}
        /\ pc' = "exit" => jobs_head' = NULL
        /\ status'[JOB_INIT] = "QUEUED" => pc' = "dequeue" /\ jobs_head' = JOB_INIT
    BY <1>1, <1>2, <1>3, ZenonT(30) DEF SeqInv, HoldInv
  <2> QED
    BY <2>1, <2>2, <2>3, ZenonT(30) DEF HoldInv
<1>6. FreshInv'
  <2>1. pc' = "process" => pc = "process"
    BY <1>3, ZenonT(30)
  <2> QED
    BY <2>1, <1>1, ZenonT(30) DEF SeqInv, FreshInv
<1>7. QueueInv'
  <2>1. Opening' => Opening
    BY <1>1, <1>3, ZenonT(30) DEF Opening
  <2> QED
    BY <2>1, <1>1, <1>4, ZenonT(30) DEF SeqInv, QueueInv
<1>8. CountInv'
  BY <1>1, <1>2, <1>4, ZenonT(30) DEF SeqInv, CountInv
<1>9. DrefInv'
  BY <1>1, <1>2, <1>3, ZenonT(30) DEF SeqInv, DrefInv
<1> QED
  BY <1>5, <1>6, <1>7, <1>8, <1>9, ZenonT(30) DEF Rest

\* Every step keeps the invariant.
LEMMA SeqStep ==
    ASSUME SeqInv, [Next]_vars
    PROVE  SeqInv'
<1>1. BaseTypes'
  BY TypesStep, ZenonT(30)
<1>2. ASSUME Dequeue PROVE Rest'
  <2>1. CASE jobs_head = NULL
    BY <2>1, <1>2, IdleStep, ZenonT(30)
  <2>2. CASE jobs_head # NULL
    <3>1. /\ dequeue_job /\ pc \in {"dequeue", "abort"} /\ UNCHANGED <<pos, first, last, num>>
          /\ status' = [status EXCEPT ![jobs_head] = "IN_PROGRESS"]
          /\ UNCHANGED <<num_jobs_active, dref>>
      BY <2>2, <1>2, ZenonT(30) DEF Dequeue, local
    <3> QED
      BY <3>1, <1>2, TakeStep, ZenonT(30)
  <2> QED
    BY <2>1, <2>2, ZenonT(30)
<1>3. ASSUME AbortQueued PROVE Rest'
  <2>1. dequeue_job /\ pc \in {"dequeue", "abort"} /\ UNCHANGED <<pos, first, last, num>>
    BY <1>3, ZenonT(30) DEF AbortQueued, local
  <2> QED
    BY <2>1, <1>3, TakeStep, ZenonT(30)
<1>4. Rest'
  BY <1>2, <1>3, StillStep, VisitStep, QueueDirStep, CompleteStep, IdleStep, ZenonT(30)
     DEF Next, Step, Stopped
<1> QED
  BY <1>1, <1>4, ZenonT(30) DEF SeqInv, Rest

\* At first, the initial job is the queue.
LEMMA SeqInit == Init => SeqInv
<1> SUFFICES ASSUME Init PROVE SeqInv
  OBVIOUS
<1>0. /\ JOB_INIT \in Job /\ NULL \notin Job /\ Type[JOB_INIT] = "INIT"
      /\ \A d \in Job : Entries[d] \in Seq(Node)
  BY TreeAssumption, ZenonT(30) DEF Job
<1>1. /\ status[JOB_INIT] = "QUEUED" /\ \A j \in Job \ {JOB_INIT} : status[j] = "none"
      /\ next_job = [j \in Job |-> NULL] /\ pos = [j \in Job |-> 0]
      /\ jobs_head = JOB_INIT /\ jobs_tail = JOB_INIT /\ num_jobs_active = 1
      /\ pc = "dequeue" /\ job = NULL /\ first = NULL /\ last = NULL /\ num = 0
      /\ dref = [d \in Job |-> 0]
  BY <1>0, ZenonT(30) DEF Init, init_queue
<1>2. BaseTypes
  <2>1. status \in [Job -> Status]
    BY ZenonT(30) DEF Init, init_queue, Status, Absent
  <2>2. stats \in Stats /\ whole \in [Job -> Nat] /\ torn \in [Job -> Nat] /\ output_num_files \in Nat
    BY DEF Init, init_queue, Stats
  <2>3. TaskTypeOK
    <3>1. next_job \in [Job -> JobOrNull] /\ pos \in [Job -> Nat] /\ num_jobs_active \in Int
      BY <1>1 DEF JobOrNull
    <3>2. jobs_head \in JobOrNull /\ jobs_tail \in JobOrNull
      BY <1>0, <1>1, ZenonT(30) DEF JobOrNull
    <3>3. aborted \in BOOLEAN
      BY ZenonT(30) DEF Init, init_queue
    <3> QED
      BY <3>1, <3>2, <3>3, <2>1, <2>2, ZenonT(30) DEF TaskTypeOK
  <2>4. order \in Seq(Job) /\ dref \in [Job -> Int] /\ num \in Nat
    BY <1>1 DEF Init
  <2> QED
    BY <2>3, <2>4, <1>1, ZenonT(30) DEF BaseTypes, JobOrNull
<1>3. Live = {JOB_INIT} /\ Queued = {JOB_INIT} /\ Held = {} /\ Listed = {} /\ Waiting = {JOB_INIT}
  <2>1. Live = {JOB_INIT}
    BY <1>0, <1>1, ZenonT(30) DEF Live, Absent, Freed
  <2>2. Queued = {JOB_INIT}
    BY <1>0, <1>1, ZenonT(30) DEF Queued
  <2>3. Held = {}
    BY <1>0, <1>1, ZenonT(30) DEF Held, Final
  <2>4. Listed = {}
    BY <1>1, ZenonT(30) DEF Listed
  <2> QED
    BY <2>1, <2>2, <2>3, <2>4, ZenonT(30) DEF Waiting
<1>4. HoldInv
  BY <1>1, <1>3, ZenonT(30) DEF HoldInv
<1>5. FreshInv
  <2>1. ASSUME NEW d \in Job, NEW i \in 1 .. Len(Entries[d])
        PROVE  status[Entries[d][i]] = "none"
    <3>1. Entries[d][i] \in Node
      BY <1>0
    <3>2. Node \subseteq Job \ {JOB_INIT}
      BY TreeAssumption, ZenonT(30) DEF Job
    <3> QED
      BY <3>1, <3>2, <1>1, ZenonT(30)
  <2> QED
    BY <2>1, <1>1, ZenonT(30) DEF FreshInv
<1>6. QueueInv
  <2>1. Linked({JOB_INIT}, JOB_INIT, next_job) /\ LastOf({JOB_INIT}, JOB_INIT, next_job, JOB_INIT)
    BY <1>0, <1>1, ZenonT(30) DEF Linked, LastOf
  <2>2. Linked({}, NULL, next_job) /\ LastOf({}, NULL, next_job, NULL)
    BY ZenonT(30) DEF Linked, LastOf
  <2> QED
    BY <2>1, <2>2, <1>1, <1>3, ZenonT(30) DEF QueueInv
<1>7. CountInv
  <2>1. IsFiniteSet({JOB_INIT}) /\ Cardinality({JOB_INIT}) = 1 /\ Cardinality({}) = 0
    BY FS_Singleton, FS_EmptySet, ZenonT(30)
  <2>2. Live \ Listed = {JOB_INIT}
    BY <1>3, ZenonT(30)
  <2> QED
    BY <2>1, <2>2, <1>1, <1>3, ZenonT(30) DEF CountInv
<1>8. DrefInv
  <2>1. ASSUME NEW d \in Job
        PROVE  Cardinality(Users(d)) = 0
    <3>1. ~HasDref(JOB_INIT, d)
      <4>1. SUFFICES ASSUME NEW i \in 1 .. Len(Entries[d]), Entries[d][i] = JOB_INIT PROVE FALSE
        BY ZenonT(30) DEF HasDref
      <4> QED
        BY <4>1, <1>0, TreeAssumption
    <3>2. Users(d) = {}
      BY <3>1, <1>3, ZenonT(30) DEF Users
    <3> QED
      BY <3>2, FS_EmptySet, ZenonT(30)
  <2> QED
    BY <2>1, <1>1 DEF DrefInv
<1> QED
  BY <1>2, <1>4, <1>5, <1>6, <1>7, <1>8, ZenonT(30) DEF SeqInv

\* SeqInv holds in every state of process_queue.
LEMMA SeqAlways == Spec => []SeqInv
BY SeqInit, SeqStep, PTL DEF Spec

\* The variables have their types; above all, num_jobs_active and the count of a
\* directory's handle never drop below 0.
THEOREM SequentialTypes == Spec => []TypeOK
<1>1. ASSUME SeqInv PROVE TypeOK
  <2>1. num_jobs_active \in Nat
    <3>1. IsFiniteSet(Live \ Listed)
      BY <1>1, FS_Subset, ZenonT(30) DEF SeqInv, CountInv
    <3> QED
      BY <1>1, <3>1, FS_CardinalityType, ZenonT(30) DEF SeqInv, CountInv
  <2>2. dref \in [Job -> Nat]
    <3>1. ASSUME NEW d \in Job PROVE dref[d] \in Nat
      BY <1>1, UsersFinite DEF SeqInv, DrefInv
    <3> QED
      BY <3>1, <1>1, ZenonT(30) DEF SeqInv, BaseTypes
  <2> QED
    BY <1>1, <2>1, <2>2 DEF SeqInv, BaseTypes, TypeOK
<1> QED
  BY <1>1, SeqAlways, PTL

\* When the program ends, every job that was created has been completed or aborted,
\* except for one that the loop took off the queue after an abort; num_jobs_active is
\* the number of jobs left over in this way.
THEOREM SequentialJobs == Spec => []JobsAccounted
<1>1. ASSUME SeqInv PROVE JobsAccounted
  <2>1. SUFFICES ASSUME pc = "exit"
                 PROVE  /\ num_jobs_active = Cardinality(Live)
                        /\ Cardinality(Live) <= IF aborted THEN 1 ELSE 0
    BY ZenonT(30) DEF JobsAccounted, Live
  <2>2. Listed = {} /\ Waiting = Queued
    BY <1>1, <2>1, NotReading, ZenonT(30)
  <2>3. num_jobs_active = Cardinality(Live)
    BY <1>1, <2>2, ZenonT(30) DEF SeqInv, CountInv
  <2>4. Queued = {}
    <3>1. jobs_head = NULL /\ Linked(Queued, jobs_head, next_job) /\ Queued \in SUBSET Job
      BY <1>1, <2>1, <2>2, ZenonT(30) DEF SeqInv, HoldInv, QueueInv, Queued
    <3> QED
      BY <3>1, LinkedEmpty, ZenonT(30)
  <2>5. Live = Held
    BY <1>1, <2>4, LiveJobs, ZenonT(30) DEF SeqInv, BaseTypes, TaskTypeOK
  <2>6. PICK j \in Job : Held \subseteq {j} /\ (Held # {} => aborted)
    BY <1>1, <2>1, ZenonT(30) DEF SeqInv, HoldInv
  <2>7. Cardinality(Held) <= IF aborted THEN 1 ELSE 0
    <3>1. CASE Held = {}
      BY <3>1, FS_EmptySet
    <3>2. CASE Held # {}
      <4>1. Held = {j} /\ aborted
        BY <3>2, <2>6, ZenonT(30)
      <4> QED
        BY <4>1, FS_Singleton
    <3> QED
      BY <3>1, <3>2, ZenonT(30)
  <2> QED
    BY <2>3, <2>5, <2>7, ZenonT(30)
<1> QED
  BY <1>1, SeqAlways, PTL

\* The count of a directory's handle says who needs it.
LEMMA DirsOpen ==
    ASSUME SeqInv
    PROVE  DirOpenWhileNeeded
<1>1. ASSUME NEW d \in Job
      PROVE  dref[d] > 0 <=> (pc = "readdir" /\ job = d) \/ Users(d) # {}
  <2>1. IsFiniteSet(Users(d)) /\ Cardinality(Users(d)) \in Nat
    BY UsersFinite, ZenonT(30)
  <2>2. Cardinality(Users(d)) = 0 <=> Users(d) = {}
    BY <2>1, FS_EmptySet, ZenonT(30)
  <2>3. dref[d] = Cardinality(Users(d)) + IF pc = "readdir" /\ job = d THEN 1 ELSE 0
    BY ZenonT(30) DEF SeqInv, DrefInv
  <2> QED
    BY <2>1, <2>2, <2>3
<1>2. ASSUME NEW d \in Job
      PROVE  Users(d) # {} <=> \E j \in Job : HasDref(j, d) /\ status[j] \notin Absent \cup Freed
  BY ZenonT(30) DEF Users, Live
<1> QED
  BY <1>1, <1>2, ZenonT(30) DEF DirOpenWhileNeeded

\* The handle of a directory is open exactly while queue_dir reads the directory or a
\* job remains that is to be opened relative to it.
THEOREM SequentialDirs == Spec => []DirOpenWhileNeeded
BY DirsOpen, SeqAlways, PTL

-----------------------------------------------------------------------------
(***************************************************************************)
(* The summary.                                                            *)
(***************************************************************************)

\* The entries written are those of jobs that were done, and these are what
\* account_stats counts, at every moment and also when the task has been aborted.
\* With ignored read errors the failed jobs are written as well; what else counts
\* as failed could not be examined, or is removed by an abort.
SummaryInv ==
    /\ ~ignore_failed_read => stats["num_done"] = output_num_files
    /\ ~aborted /\ "stat" \notin Faults /\ ~add_cmd_status /\ ignore_failed_read =>
          stats["num_done"] + stats["num_failed"] = output_num_files
    /\ stats["num_partial"] = 0
    /\ pc = "post" => status[job] \in {"EXCLUDED", "FAILED", "DONE"}
    /\ pc = "abort" /\ ~aborted => jobs_head = NULL

\* Initially nothing is counted and nothing written.
LEMMA SummaryInit == Init => SummaryInv
BY DEF Init, init_queue, SummaryInv, Counter

\* Completing a job adds the same number of entries on both sides.
LEMMA CompleteSummary ==
    ASSUME SeqInv, SummaryInv, Complete
    PROVE  SummaryInv'
<1> DEFINE N == NumEntries(job)
           W == WritesEntry(job)
<1>1. N \in Nat /\ (~add_cmd_status => N = 1)
  BY ZenonT(30) DEF NumEntries
<1>2. status[job] \in {"EXCLUDED", "FAILED", "DONE"} /\ pc' = "dequeue"
  BY ZenonT(30) DEF Complete, SummaryInv
<1>3. IF job = JOB_INIT THEN stats' = stats
      ELSE /\ stats'["num_done"] = stats["num_done"] + IF status[job] = "DONE" THEN N ELSE 0
           /\ stats'["num_failed"] = stats["num_failed"] + IF status[job] = "FAILED" THEN 1 ELSE 0
           /\ stats'["num_partial"] = stats["num_partial"]
  <2>1. stats \in [Counter -> Nat] /\ stats' = account_stats(job, status[job])
    BY DEF Complete, SeqInv, BaseTypes, TaskTypeOK, Stats
  <2> QED
    BY <2>1, <1>1, <1>2, SMTT(30) DEF account_stats, CountIf, Counter
<1>4. W <=> job # JOB_INIT /\ (status[job] = "DONE" \/ (status[job] = "FAILED" /\ ignore_failed_read))
  BY <1>2 DEF WritesEntry
<1>5. /\ output_num_files \in Nat
      /\ output_num_files' = output_num_files + IF W THEN N ELSE 0
      /\ aborted => aborted'
  <2>0. output_num_files \in Nat
    BY ZenonT(30) DEF SeqInv, BaseTypes, TaskTypeOK
  <2>1. CASE W
    BY <2>0, <2>1, <1>1, ZenonT(30) DEF Complete
  <2>2. CASE ~W
    BY <2>0, <2>2 DEF Complete, archiveVars
  <2> QED
    BY <2>1, <2>2, ZenonT(30)
<1>6. /\ ~ignore_failed_read => stats["num_done"] = output_num_files
      /\ ~aborted /\ "stat" \notin Faults /\ ~add_cmd_status /\ ignore_failed_read =>
            stats["num_done"] + stats["num_failed"] = output_num_files
      /\ stats["num_partial"] = 0
  BY DEF SummaryInv
<1>7. stats["num_done"] \in Nat /\ stats["num_failed"] \in Nat
  BY DEF SeqInv, BaseTypes, TaskTypeOK, Stats, Counter
<1> HIDE DEF N, W
<1>8. stats'["num_partial"] = 0
  BY <1>3, <1>6
<1>9. ~ignore_failed_read => stats'["num_done"] = output_num_files'
  BY <1>1, <1>2, <1>3, <1>4, <1>5, <1>6, <1>7, SMTT(30)
<1>10. ~aborted' /\ "stat" \notin Faults /\ ~add_cmd_status /\ ignore_failed_read =>
          stats'["num_done"] + stats'["num_failed"] = output_num_files'
  BY <1>1, <1>2, <1>3, <1>4, <1>5, <1>6, <1>7, SMTT(30)
<1> QED
  BY <1>2, <1>8, <1>9, <1>10, ZenonT(30) DEF SummaryInv

\* No other step changes the entries or the number of jobs that are done; what is
\* counted as failed outside of a job could not be examined, or is removed by an abort.
LEMMA SummaryStep ==
    ASSUME SeqInv, SummaryInv, [Next]_vars
    PROVE  SummaryInv'
<1> DEFINE Failed == stats' = [stats EXCEPT !["num_failed"] = @ + 1]
           Excluded == stats' = [stats EXCEPT !["num_excluded"] = @ + 1]
           Control == /\ pc' = "post" => status'[job'] \in {"EXCLUDED", "FAILED", "DONE"}
                      /\ pc' = "abort" /\ ~aborted' => jobs_head' = NULL
<1>0. stats \in [Counter -> Nat] /\ status \in [Job -> Status]
  BY DEF SeqInv, BaseTypes, TaskTypeOK, Stats
<1>1. CASE Complete
  BY <1>1, CompleteSummary, ZenonT(30)
<1>2. ASSUME output_num_files' = output_num_files, Excluded \/ stats' = stats,
             aborted => aborted', Control
      PROVE  SummaryInv'
  BY <1>0, <1>2, ZenonT(30) DEF SummaryInv, Counter
<1>3. ASSUME output_num_files' = output_num_files, Failed, aborted' \/ "stat" \in Faults, Control
      PROVE  SummaryInv'
  BY <1>0, <1>3 DEF SummaryInv, Counter
<1>4. ASSUME NEW st, NEW cond, EndProcess(st, cond), st \in {"EXCLUDED", "FAILED", "DONE"},
             UNCHANGED job, pc \in {"process", "scan", "readdir"}
      PROVE  Control /\ (aborted => aborted')
  <2>1. job \in Job
    BY <1>4, ZenonT(30) DEF SeqInv, HoldInv
  <2>2. status'[job'] = st /\ pc' = "post" /\ (aborted => aborted')
    BY <2>1, <1>0, <1>4, ZenonT(30) DEF EndProcess
  <2> QED
    BY <2>2, <1>4, ZenonT(30)
<1>5. CASE QueueSpec \/ ReadDirEntry
  <2>1. output_num_files' = output_num_files /\ Control /\ (aborted => aborted')
    <3>1. output_num_files' = output_num_files /\ pc' = pc /\ pc \in {"scan", "readdir"}
      BY <1>5, ZenonT(30) DEF QueueSpec, ReadDirEntry, archiveVars
    <3>2. aborted => aborted'
      BY <1>5, ZenonT(30) DEF QueueSpec, ReadDirEntry
    <3> QED
      BY <3>1, <3>2
  <2>2. (Failed /\ "stat" \in Faults) \/ Excluded \/ stats' = stats
    BY <1>5, ZenonT(30) DEF QueueSpec, ReadDirEntry, create_job_CannotStat,
                            create_job_TypeExcluded, create_job
  <2> QED
    BY <2>1, <2>2, <1>2, <1>3, ZenonT(30)
<1>6. CASE AbortQueued
  <2>1. output_num_files' = output_num_files /\ Failed /\ aborted' /\ Control
    BY <1>6, ZenonT(30) DEF AbortQueued, archiveVars, dequeue_job, SummaryInv
  <2> QED
    BY <2>1, <1>3, ZenonT(30)
<1>7. CASE Dequeue
  BY <1>2, <1>7, ZenonT(30) DEF Dequeue, archiveVars, queueVars
<1>8. CASE Exit
  BY <1>2, <1>8, ZenonT(30) DEF Exit, archiveVars
<1>9. CASE Exclude \/ OpenOutput \/ EndSpecs \/ OpenDir \/ QueueDir \/ Read
  <2>1. output_num_files' = output_num_files /\ stats' = stats
    BY <1>9, ZenonT(30) DEF Exclude, OpenOutput, EndSpecs, OpenDir, QueueDir, Read, archiveVars
  <2>2. CASE \E st \in {"EXCLUDED", "FAILED", "DONE"}, cond \in BOOLEAN : EndProcess(st, cond)
    <3>1. UNCHANGED job /\ pc \in {"process", "scan", "readdir"}
      BY <1>9, ZenonT(30) DEF Exclude, OpenOutput, EndSpecs, OpenDir, QueueDir, Read
    <3> QED
      BY <2>1, <2>2, <3>1, <1>2, <1>4, ZenonT(30)
  <2>3. CASE pc' \in {"scan", "readdir"} /\ aborted' = aborted
    BY <2>1, <2>3, <1>2, ZenonT(30)
  <2>4. \/ \E st \in {"EXCLUDED", "FAILED", "DONE"}, cond \in BOOLEAN : EndProcess(st, cond)
        \/ pc' \in {"scan", "readdir"} /\ aborted' = aborted
    <3>1. read_error_aborts \in BOOLEAN
      BY ZenonT(30) DEF read_error_aborts
    <3> QED
      BY <3>1, <1>9, ZenonT(30) DEF Exclude, OpenOutput, EndSpecs, OpenDir, QueueDir, Read
  <2> QED
    BY <2>2, <2>3, <2>4, ZenonT(30)
<1>10. CASE UNCHANGED vars
  <2>1. output_num_files' = output_num_files /\ stats' = stats /\ UNCHANGED <<pc, status, job, aborted, jobs_head>>
    BY <1>10, ZenonT(30) DEF vars, taskVars, archiveVars, queueVars
  <2> QED
    BY <2>1, <1>2, ZenonT(30) DEF SummaryInv
<1> QED
  BY <1>1, <1>5, <1>6, <1>7, <1>8, <1>9, <1>10, ZenonT(30) DEF Next, Step, Stopped

\* print_summary reports the number of entries in the archive if read errors are
\* not ignored, and also if they are, as long as every file can be examined and
\* commands get no entry for their status.
THEOREM SequentialSummary ==
    ASSUME ~ignore_failed_read \/ ("stat" \notin Faults /\ ~add_cmd_status)
    PROVE  Spec => []SummaryMatchesArchive
<1>1. ASSUME SeqInv, SummaryInv PROVE SummaryMatchesArchive
  <2>1. stats["num_done"] \in Nat /\ stats["num_failed"] \in Nat
    BY <1>1, ZenonT(30) DEF SeqInv, BaseTypes, TaskTypeOK, Stats, Counter
  <2> QED
    BY <1>1, <2>1, SMTT(30) DEF SummaryInv, SummaryMatchesArchive, num_added
<1> QED
  BY <1>1, SeqAlways, SummaryInit, SummaryStep, PTL DEF Spec

-----------------------------------------------------------------------------
(***************************************************************************)
(* The tree and its depth-first order.                                     *)
(***************************************************************************)

\* What is listed in a directory is a job.
LEMMA EntryJob ==
    ASSUME NEW d \in Job, NEW i \in 1 .. Len(Entries[d])
    PROVE  Entries[d][i] \in Job
BY TreeAssumption DEF Job

\* Below(d) is the least closed set that holds d.
LEMMA BelowLeast ==
    ASSUME NEW d \in Job
    PROVE  /\ Below(d) \in SUBSET Job /\ d \in Below(d) /\ Closed(Below(d))
           /\ \A S \in SUBSET Job : d \in S /\ Closed(S) => Below(d) \in SUBSET S
<1>1. ASSUME NEW j
      PROVE  <<d, j>> \in Reaches <=> j \in Subtree(d)
  BY DEF Reaches
<1>2. Below(d) = Subtree(d)
  BY <1>1, ZenonT(30) DEF Below, Subtree
<1>3. Closed(Subtree(d))
  <2>1. ASSUME NEW x \in Subtree(d), NEW i \in 1 .. Len(Entries[x])
        PROVE  Entries[x][i] \in Subtree(d)
    <3>1. x \in Job /\ Entries[x][i] \in Job
      BY <2>1, EntryJob, ZenonT(30) DEF Subtree
    <3>2. ASSUME NEW S \in SUBSET Job, d \in S, Closed(S)
          PROVE  Entries[x][i] \in S
      <4>1. x \in S
        BY <2>1, <3>2, ZenonT(30) DEF Subtree
      <4> QED
        BY <4>1, <3>2, <2>1, ZenonT(30) DEF Closed
    <3> QED
      BY <3>1, <3>2, ZenonT(30) DEF Subtree
  <2> QED
    BY <2>1, ZenonT(30) DEF Closed
<1>4. d \in Subtree(d) /\ Subtree(d) \in SUBSET Job
  BY ZenonT(30) DEF Subtree
<1>5. ASSUME NEW S \in SUBSET Job, d \in S, Closed(S)
      PROVE  Subtree(d) \in SUBSET S
  BY <1>5, ZenonT(30) DEF Subtree
<1> QED
  BY <1>2, <1>3, <1>4, <1>5, ZenonT(30)

\* What is below something below d is below d.
LEMMA BelowTrans ==
    ASSUME NEW d \in Job, NEW x \in Below(d)
    PROVE  x \in Job /\ Below(x) \in SUBSET Below(d)
<1>1. x \in Job /\ Below(d) \in SUBSET Job /\ Closed(Below(d))
  BY BelowLeast, ZenonT(30)
<1> QED
  BY <1>1, BelowLeast, ZenonT(30)

\* An entry of a directory is below it, with everything below the entry.
LEMMA BelowEntry ==
    ASSUME NEW d \in Job, NEW i \in 1 .. Len(Entries[d])
    PROVE  /\ Entries[d][i] \in Job /\ Entries[d][i] \in Below(Entries[d][i])
           /\ Entries[d][i] \in Below(d) /\ Below(Entries[d][i]) \in SUBSET Below(d)
<1>1. Entries[d][i] \in Below(d)
  BY BelowLeast, ZenonT(30) DEF Closed
<1> QED
  BY <1>1, BelowTrans, BelowLeast, ZenonT(30)

\* What is below b, but not b, is listed by something below b.
LEMMA ParentBelow ==
    ASSUME NEW b \in Job, NEW e \in Job, NEW i \in 1 .. Len(Entries[e]),
           Entries[e][i] \in Below(b), Entries[e][i] # b
    PROVE  e \in Below(b)
<1> DEFINE S == {y \in Below(b) :
                    y = b \/ \A x \in Job : \A k \in 1 .. Len(Entries[x]) :
                                Entries[x][k] = y => x \in Below(b)}
<1>1. S \in SUBSET Job /\ b \in S
  BY BelowLeast, ZenonT(30)
<1>2. ASSUME NEW x \in S, NEW k \in 1 .. Len(Entries[x])
      PROVE  Entries[x][k] \in S
  <2>1. x \in Below(b) /\ x \in Job
    BY <1>1, ZenonT(30)
  <2>2. Entries[x][k] \in Below(b)
    BY <2>1, BelowLeast, ZenonT(30) DEF Closed
  <2>3. ASSUME NEW y \in Job, NEW n \in 1 .. Len(Entries[y]), Entries[y][n] = Entries[x][k]
        PROVE  y \in Below(b)
    <3>1. y = x
      BY <2>1, <2>3, OnePlace, ZenonT(30)
    <3> QED
      BY <3>1, <2>1, ZenonT(30)
  <2> QED
    BY <2>2, <2>3, ZenonT(30)
<1>3. Closed(S)
  BY <1>2, ZenonT(30) DEF Closed
<1> HIDE DEF S
<1>4. Entries[e][i] \in S
  BY <1>1, <1>3, BelowLeast, ZenonT(30)
<1> QED
  BY <1>4, ZenonT(30) DEF S

\* Two places above the same entry lie on one path.
LEMMA OnePath ==
    ASSUME NEW a \in Job, NEW b \in Job, NEW y \in Below(a), y \in Below(b)
    PROVE  a \in Below(b) \/ b \in Below(a)
<1> DEFINE S == {x \in Below(a) : x \in Below(b) => a \in Below(b) \/ b \in Below(a)}
<1>1. S \in SUBSET Job /\ a \in S
  BY BelowLeast, ZenonT(30)
<1>2. ASSUME NEW x \in S, NEW k \in 1 .. Len(Entries[x])
      PROVE  Entries[x][k] \in S
  <2>1. x \in Below(a) /\ x \in Job
    BY <1>1, ZenonT(30)
  <2>2. Entries[x][k] \in Below(a)
    BY <2>1, BelowLeast, ZenonT(30) DEF Closed
  <2>3. ASSUME Entries[x][k] \in Below(b), Entries[x][k] # b
        PROVE  x \in Below(b)
    BY <2>1, <2>3, ParentBelow, ZenonT(30)
  <2> QED
    BY <2>2, <2>3, ZenonT(30)
<1>3. Closed(S)
  BY <1>2, ZenonT(30) DEF Closed
<1> HIDE DEF S
<1>4. y \in S
  BY <1>1, <1>3, BelowLeast, ZenonT(30)
<1> QED
  BY <1>4, ZenonT(30) DEF S

\* y is listed behind the entry that x is, or is below.
Before(x, y) ==
    \E d \in Job : \E k \in 1 .. Len(Entries[d]) : \E i \in 1 .. k - 1 :
        x \in Below(Entries[d][i]) /\ y = Entries[d][k]

\* The places of a smaller number are places.
LEMMA EarlierPlace ==
    ASSUME NEW d \in Job, NEW k \in 1 .. Len(Entries[d]), NEW i \in 1 .. k - 1
    PROVE  i \in 1 .. Len(Entries[d])
BY TreeAssumption

\* What comes before y, comes with everything below it.
LEMMA BeforeBelow ==
    ASSUME NEW x \in Job, NEW y, Before(x, y), NEW z \in Below(x)
    PROVE  Before(z, y)
<1>1. PICK d \in Job : \E k \in 1 .. Len(Entries[d]) : \E i \in 1 .. k - 1 :
               x \in Below(Entries[d][i]) /\ y = Entries[d][k]
  BY ZenonT(30) DEF Before
<1>2. PICK k \in 1 .. Len(Entries[d]) : \E i \in 1 .. k - 1 :
               x \in Below(Entries[d][i]) /\ y = Entries[d][k]
  BY <1>1, ZenonT(30)
<1>3. PICK i \in 1 .. k - 1 : x \in Below(Entries[d][i]) /\ y = Entries[d][k]
  BY <1>2, ZenonT(30)
<1>4. Entries[d][i] \in Job
  BY EarlierPlace, EntryJob, ZenonT(30)
<1>5. z \in Below(Entries[d][i])
  BY <1>3, <1>4, BelowTrans, ZenonT(30)
<1> QED
  BY <1>3, <1>5, ZenonT(30) DEF Before

\* Siblings come before each other as they are listed.
LEMMA BeforeSibling ==
    ASSUME NEW d \in Job, NEW k \in 1 .. Len(Entries[d]), NEW i \in 1 .. k - 1
    PROVE  Before(Entries[d][i], Entries[d][k])
BY EarlierPlace, BelowEntry, ZenonT(30) DEF Before

\* Before is transitive.
LEMMA BeforeTrans ==
    ASSUME NEW x \in Job, NEW y \in Job, NEW z, Before(x, y), Before(y, z)
    PROVE  Before(x, z)
<1>1. PICK d \in Job : \E k \in 1 .. Len(Entries[d]) : \E i \in 1 .. k - 1 :
               x \in Below(Entries[d][i]) /\ y = Entries[d][k]
  BY ZenonT(30) DEF Before
<1>2. PICK k \in 1 .. Len(Entries[d]) : \E i \in 1 .. k - 1 :
               x \in Below(Entries[d][i]) /\ y = Entries[d][k]
  BY <1>1, ZenonT(30)
<1>3. PICK i \in 1 .. k - 1 : x \in Below(Entries[d][i]) /\ y = Entries[d][k]
  BY <1>2, ZenonT(30)
<1>4. PICK e \in Job : \E n \in 1 .. Len(Entries[e]) : \E m \in 1 .. n - 1 :
               y \in Below(Entries[e][m]) /\ z = Entries[e][n]
  BY ZenonT(30) DEF Before
<1>5. PICK n \in 1 .. Len(Entries[e]) : \E m \in 1 .. n - 1 :
               y \in Below(Entries[e][m]) /\ z = Entries[e][n]
  BY <1>4, ZenonT(30)
<1>6. PICK m \in 1 .. n - 1 : y \in Below(Entries[e][m]) /\ z = Entries[e][n]
  BY <1>5, ZenonT(30)
<1>7. m \in 1 .. Len(Entries[e]) /\ Entries[e][m] \in Job /\ i \in 1 .. Len(Entries[d])
  BY EarlierPlace, EntryJob, ZenonT(30)
<1>8. CASE y = Entries[e][m]
  <2>0. Entries[d][k] = Entries[e][m]
    BY <1>3, <1>8, ZenonT(30)
  <2>1. d = e /\ k = m
    BY <2>0, <1>7, OnePlace, ZenonT(30)
  <2>2. i \in 1 .. n - 1
    BY <2>1, TreeAssumption
  <2> QED
    BY <2>1, <2>2, <1>3, <1>6, ZenonT(30) DEF Before
<1>9. CASE y # Entries[e][m]
  <2>1. d \in Below(Entries[e][m])
    BY <1>3, <1>6, <1>7, <1>9, ParentBelow, ZenonT(30)
  <2>2. x \in Below(d)
    BY <1>3, <1>7, BelowEntry, ZenonT(30)
  <2>3. x \in Below(Entries[e][m])
    BY <2>1, <2>2, <1>7, BelowTrans, ZenonT(30)
  <2> QED
    BY <2>3, <1>6, ZenonT(30) DEF Before
<1> QED
  BY <1>8, <1>9, ZenonT(30)

\* What precedes y precedes everything below y.
LEMMA PrecedesBelow ==
    ASSUME NEW x \in Job, NEW y \in Job, Precedes(x, y), NEW z \in Below(y)
    PROVE  Precedes(x, z)
<1>1. CASE Inside(x, y)
  <2>1. PICK i \in 1 .. Len(Entries[x]) : y \in Below(Entries[x][i])
    BY <1>1, ZenonT(30) DEF Inside
  <2>2. z \in Below(Entries[x][i])
    BY <2>1, EntryJob, BelowTrans, ZenonT(30)
  <2> QED
    BY <2>2, ZenonT(30) DEF Inside, Precedes
<1>2. CASE Beside(x, y)
  <2>1. PICK d \in Job : \E k \in 1 .. Len(Entries[d]) : \E i \in 1 .. k - 1 :
                 x \in Below(Entries[d][i]) /\ y \in Below(Entries[d][k])
    BY <1>2, ZenonT(30) DEF Beside
  <2>2. PICK k \in 1 .. Len(Entries[d]) : \E i \in 1 .. k - 1 :
                 x \in Below(Entries[d][i]) /\ y \in Below(Entries[d][k])
    BY <2>1, ZenonT(30)
  <2>3. z \in Below(Entries[d][k])
    BY <2>2, EntryJob, BelowTrans, ZenonT(30)
  <2> QED
    BY <2>2, <2>3, ZenonT(30) DEF Beside, Precedes
<1> QED
  BY <1>1, <1>2, ZenonT(30) DEF Precedes

\* Before is part of the depth-first order.
LEMMA BeforePrecedes ==
    ASSUME NEW x, NEW y, Before(x, y)
    PROVE  Precedes(x, y)
<1>1. \A d \in Job : \A k \in 1 .. Len(Entries[d]) : Entries[d][k] \in Below(Entries[d][k])
  BY BelowEntry, ZenonT(30)
<1> QED
  BY <1>1, ZenonT(30) DEF Before, Beside, Precedes

\* A directory precedes its entries.
LEMMA InsideEntry ==
    ASSUME NEW d \in Job, NEW i \in 1 .. Len(Entries[d])
    PROVE  Inside(d, Entries[d][i])
BY BelowEntry, ZenonT(30) DEF Inside

\* The depth-first order is transitive.
LEMMA PrecedesTrans ==
    ASSUME NEW x \in Job, NEW y \in Job, NEW z \in Job, Precedes(x, y), Precedes(y, z)
    PROVE  Precedes(x, z)
<1>1. CASE Inside(y, z)
  <2>1. z \in Below(y)
    BY <1>1, BelowEntry, ZenonT(30) DEF Inside
  <2> QED
    BY <2>1, PrecedesBelow, ZenonT(30)
<1>2. CASE Beside(y, z)
  <2>1. PICK e \in Job : \E n \in 1 .. Len(Entries[e]) : \E m \in 1 .. n - 1 :
                 y \in Below(Entries[e][m]) /\ z \in Below(Entries[e][n])
    BY <1>2, ZenonT(30) DEF Beside
  <2>2. PICK n \in 1 .. Len(Entries[e]) : \E m \in 1 .. n - 1 :
                 y \in Below(Entries[e][m]) /\ z \in Below(Entries[e][n])
    BY <2>1, ZenonT(30)
  <2>3. PICK m \in 1 .. n - 1 : y \in Below(Entries[e][m]) /\ z \in Below(Entries[e][n])
    BY <2>2, ZenonT(30)
  <2>4. /\ m \in 1 .. Len(Entries[e]) /\ Entries[e][m] \in Job
        /\ z \in Below(e) /\ Below(Entries[e][m]) \in SUBSET Job
    BY <2>3, EarlierPlace, BelowEntry, BelowLeast, ZenonT(30)
  \* What is below Entries[e][m] precedes z.
  <2>5. ASSUME x \in Below(Entries[e][m])
        PROVE  Precedes(x, z)
    BY <2>3, <2>5, ZenonT(30) DEF Beside, Precedes
  \* If e is below w, so is z.
  <2>6. ASSUME NEW w \in Job, e \in Below(w)
        PROVE  z \in Below(w)
    BY <2>4, <2>6, BelowTrans, ZenonT(30)
  <2>7. CASE Inside(x, y)
    <3>1. PICK i \in 1 .. Len(Entries[x]) : y \in Below(Entries[x][i])
      BY <2>7, ZenonT(30) DEF Inside
    <3>2. Entries[x][i] \in Job /\ Entries[x][i] \in Below(x)
      BY BelowEntry, ZenonT(30)
    <3>3. CASE Entries[x][i] = Entries[e][m]
      <4>1. e = x
        BY <3>3, <2>4, OnePlace, ZenonT(30)
      <4> QED
        BY <4>1, <2>3, ZenonT(30) DEF Inside, Precedes
    <3>4. CASE Entries[x][i] # Entries[e][m]
      <4>1. CASE Entries[x][i] \in Below(Entries[e][m])
        <5>1. x \in Below(Entries[e][m])
          BY <4>1, <3>4, <2>4, ParentBelow, ZenonT(30)
        <5> QED
          BY <5>1, <2>5, ZenonT(30)
      <4>2. CASE Entries[e][m] \in Below(Entries[x][i])
        <5>1. e \in Below(Entries[x][i])
          BY <4>2, <3>2, <3>4, <2>4, ParentBelow, ZenonT(30)
        <5>2. z \in Below(Entries[x][i])
          BY <5>1, <3>2, <2>6, ZenonT(30)
        <5> QED
          BY <5>2, ZenonT(30) DEF Inside, Precedes
      <4> QED
        BY <4>1, <4>2, <3>1, <3>2, <2>3, <2>4, OnePath, ZenonT(30)
    <3> QED
      BY <3>3, <3>4, ZenonT(30)
  <2>8. CASE Beside(x, y)
    <3>1. PICK d \in Job : \E k \in 1 .. Len(Entries[d]) : \E i \in 1 .. k - 1 :
                   x \in Below(Entries[d][i]) /\ y \in Below(Entries[d][k])
      BY <2>8, ZenonT(30) DEF Beside
    <3>2. PICK k \in 1 .. Len(Entries[d]) : \E i \in 1 .. k - 1 :
                   x \in Below(Entries[d][i]) /\ y \in Below(Entries[d][k])
      BY <3>1, ZenonT(30)
    <3>3. PICK i \in 1 .. k - 1 : x \in Below(Entries[d][i]) /\ y \in Below(Entries[d][k])
      BY <3>2, ZenonT(30)
    <3>4. /\ i \in 1 .. Len(Entries[d]) /\ Entries[d][k] \in Job
          /\ x \in Below(d)
      BY <3>3, EarlierPlace, BelowEntry, ZenonT(30)
    <3>5. CASE Entries[d][k] = Entries[e][m]
      <4>1. d = e /\ k = m
        BY <3>5, <2>4, OnePlace, SMTT(30)
      <4>2. i \in 1 .. n - 1
        BY <4>1, TreeAssumption
      <4> QED
        BY <4>1, <4>2, <3>3, <2>3, ZenonT(30) DEF Beside, Precedes
    <3>6. CASE Entries[d][k] # Entries[e][m]
      <4>1. CASE Entries[d][k] \in Below(Entries[e][m])
        <5>1. d \in Below(Entries[e][m])
          BY <4>1, <3>6, <2>4, ParentBelow, ZenonT(30)
        <5>2. x \in Below(Entries[e][m])
          BY <5>1, <3>4, <2>4, BelowTrans, ZenonT(30)
        <5> QED
          BY <5>2, <2>5, ZenonT(30)
      <4>2. CASE Entries[e][m] \in Below(Entries[d][k])
        <5>1. e \in Below(Entries[d][k])
          BY <4>2, <3>4, <3>6, <2>4, ParentBelow, ZenonT(30)
        <5>2. z \in Below(Entries[d][k])
          BY <5>1, <3>4, <2>6, ZenonT(30)
        <5> QED
          BY <5>2, <3>3, ZenonT(30) DEF Beside, Precedes
      <4> QED
        BY <4>1, <4>2, <3>3, <3>4, <2>3, <2>4, OnePath, ZenonT(30)
    <3> QED
      BY <3>5, <3>6, ZenonT(30)
  <2> QED
    BY <2>7, <2>8, ZenonT(30) DEF Precedes
<1> QED
  BY <1>1, <1>2, ZenonT(30) DEF Precedes

\* No job is inside itself: the initial job is listed nowhere, and the others have
\* one place each.
LEMMA NotInsideItself ==
    ASSUME NEW x \in Below(JOB_INIT)
    PROVE  ~Inside(x, x)
<1>0. JOB_INIT \in Job /\ JOB_INIT \notin Node
  BY TreeAssumption DEF Job
<1> DEFINE S == {y \in Below(JOB_INIT) : ~Inside(y, y)}
<1>1. S \in SUBSET Job
  BY <1>0, BelowLeast, ZenonT(30)
<1>2. JOB_INIT \in S
  <2>1. ASSUME NEW i \in 1 .. Len(Entries[JOB_INIT])
        PROVE  JOB_INIT \notin Below(Entries[JOB_INIT][i])
    <3>1. /\ Entries[JOB_INIT][i] \in Node
          /\ \A d \in Job : \A k \in 1 .. Len(Entries[d]) : Entries[d][k] \in Node
      BY <1>0, TreeAssumption
    <3> DEFINE N == Node
    <3>2. Closed(Node)
      BY <3>1, ZenonT(30) DEF Closed, Job
    <3>3. Below(Entries[JOB_INIT][i]) \in SUBSET Node
      BY <3>1, <3>2, BelowLeast, ZenonT(30) DEF Job
    <3> QED
      BY <3>3, <1>0, ZenonT(30)
  <2> QED
    BY <2>1, <1>0, BelowLeast, ZenonT(30) DEF Inside
<1>3. ASSUME NEW y \in S, NEW k \in 1 .. Len(Entries[y])
      PROVE  Entries[y][k] \in S
  <2> DEFINE w == Entries[y][k]
  <2>1. y \in Job /\ y \in Below(JOB_INIT) /\ ~Inside(y, y)
    BY <1>1, ZenonT(30)
  <2>2. w \in Job /\ w \in Below(JOB_INIT)
    BY <2>1, <1>0, BelowEntry, BelowTrans, ZenonT(30)
  <2>3. ASSUME NEW i \in 1 .. Len(Entries[w]), w \in Below(Entries[w][i])
        PROVE  FALSE
    <3>1. Entries[w][i] \in Job /\ Below(Entries[w][i]) \in SUBSET Below(w)
      BY <2>2, BelowEntry, ZenonT(30)
    <3>2. CASE w = Entries[w][i]
      <4>1. y = w
        BY <3>2, <2>1, <2>2, OnePlace, ZenonT(30)
      <4> QED
        BY <4>1, <2>1, <2>3, ZenonT(30) DEF Inside
    <3>3. CASE w # Entries[w][i]
      <4>1. y \in Below(Entries[w][i])
        BY <3>1, <3>3, <2>1, <2>3, ParentBelow, ZenonT(30)
      <4>2. y \in Below(w)
        BY <4>1, <3>1, ZenonT(30)
      <4> QED
        BY <4>2, <2>1, ZenonT(30) DEF Inside
    <3> QED
      BY <3>2, <3>3, ZenonT(30)
  <2> QED
    BY <2>2, <2>3, ZenonT(30) DEF Inside
<1>4. Closed(S)
  BY <1>3, ZenonT(30) DEF Closed
<1> HIDE DEF S
<1>5. x \in S
  BY <1>0, <1>1, <1>2, <1>4, BelowLeast, ZenonT(30)
<1> QED
  BY <1>5, ZenonT(30) DEF S

\* No job of the tree precedes itself.
LEMMA PrecedesIrreflexive ==
    ASSUME NEW x \in Below(JOB_INIT)
    PROVE  ~Precedes(x, x)
<1>0. JOB_INIT \in Job /\ x \in Job
  BY BelowLeast, ZenonT(30) DEF Job
<1>1. ASSUME NEW d \in Job, NEW k \in 1 .. Len(Entries[d]), NEW i \in 1 .. k - 1,
             x \in Below(Entries[d][i]), x \in Below(Entries[d][k])
      PROVE  FALSE
  <2>1. /\ i \in 1 .. Len(Entries[d]) /\ Entries[d][i] \in Job /\ Entries[d][k] \in Job
        /\ Below(Entries[d][i]) \in SUBSET Below(d) /\ Below(Entries[d][k]) \in SUBSET Below(d)
    BY EarlierPlace, BelowEntry, ZenonT(30)
  <2>2. Entries[d][i] # Entries[d][k]
    <3>1. i # k
      BY TreeAssumption
    <3> QED
      BY <3>1, <2>1, OnePlace, ZenonT(30)
  <2>3. ~Inside(d, d)
    <3>1. CASE d \in Below(JOB_INIT)
      BY <3>1, NotInsideItself, ZenonT(30)
    <3>2. CASE d \notin Below(JOB_INIT)
      <4>1. JOB_INIT \in Below(d)
        BY <3>2, <2>1, <1>0, <1>1, OnePath, ZenonT(30)
      <4>2. PICK n \in {JOB_INIT} : n \in Below(d) /\ n # d
        BY <4>1, <3>2, <1>0, BelowLeast, ZenonT(30)
      <4>3. Below(d) \in SUBSET (Node \cup {d})
        <5>1. Closed(Node \cup {d})
          <6>1. \A e \in Job : \A m \in 1 .. Len(Entries[e]) : Entries[e][m] \in Node
            BY TreeAssumption
          <6> QED
            BY <6>1, ZenonT(30) DEF Closed, Job
        <5>2. Node \cup {d} \in SUBSET Job /\ d \in Node \cup {d}
          BY ZenonT(30) DEF Job
        <5>3. \A T \in SUBSET Job : d \in T /\ Closed(T) => Below(d) \in SUBSET T
          BY BelowLeast, ZenonT(30)
        <5> QED
          BY <5>1, <5>2, <5>3, ZenonT(30)
      <4>4. JOB_INIT \notin Node
        BY TreeAssumption
      <4> QED
        BY <4>2, <4>3, <4>4, ZenonT(30)
    <3> QED
      BY <3>1, <3>2, ZenonT(30)
  <2>4. CASE Entries[d][i] \in Below(Entries[d][k])
    BY <2>1, <2>2, <2>3, <2>4, ParentBelow, ZenonT(30) DEF Inside
  <2>5. CASE Entries[d][k] \in Below(Entries[d][i])
    BY <2>1, <2>2, <2>3, <2>5, ParentBelow, ZenonT(30) DEF Inside
  <2> QED
    BY <2>1, <2>4, <2>5, <1>1, OnePath, ZenonT(30)
<1> QED
  BY <1>1, NotInsideItself, ZenonT(30) DEF Precedes, Beside

\* Of two different jobs of the tree, one precedes the other.
LEMMA PrecedesTotal ==
    ASSUME NEW x \in Below(JOB_INIT), NEW y \in Below(JOB_INIT), x # y
    PROVE  Precedes(x, y) \/ Precedes(y, x)
<1>0. JOB_INIT \in Job /\ y \in Job
  BY BelowLeast, ZenonT(30) DEF Job
\* What is below d is d or inside it.
<1>1. ASSUME NEW d \in Job, NEW z \in Below(d), z # d
      PROVE  Inside(d, z)
  <2> DEFINE T == {w \in Below(d) : w = d \/ Inside(d, w)}
  <2>1. T \in SUBSET Job /\ d \in T
    BY BelowLeast, ZenonT(30)
  <2>2. ASSUME NEW w \in T, NEW k \in 1 .. Len(Entries[w])
        PROVE  Entries[w][k] \in T
    <3>1. w \in Job /\ w \in Below(d) /\ (w = d \/ Inside(d, w))
      BY <2>1, ZenonT(30)
    <3>2. Entries[w][k] \in Below(d) /\ Entries[w][k] \in Below(w)
      BY <3>1, BelowEntry, BelowTrans, ZenonT(30)
    <3>3. CASE w = d
      BY <3>2, <3>3, InsideEntry, ZenonT(30)
    <3>4. CASE Inside(d, w)
      <4>1. PICK i \in 1 .. Len(Entries[d]) : w \in Below(Entries[d][i])
        BY <3>4, ZenonT(30) DEF Inside
      <4>2. Entries[w][k] \in Below(Entries[d][i])
        BY <4>1, <3>2, EntryJob, BelowTrans, ZenonT(30)
      <4> QED
        BY <4>2, <3>2, ZenonT(30) DEF Inside
    <3> QED
      BY <3>1, <3>3, <3>4, ZenonT(30)
  <2>3. Closed(T)
    BY <2>2, ZenonT(30) DEF Closed
  <2> HIDE DEF T
  <2>4. z \in T
    BY <2>1, <2>3, BelowLeast, ZenonT(30)
  <2> QED
    BY <2>4, <1>1, ZenonT(30) DEF T
<1> DEFINE S == {w \in Below(JOB_INIT) : w = y \/ Precedes(w, y) \/ Precedes(y, w)}
<1>2. S \in SUBSET Job
  BY <1>0, BelowLeast, ZenonT(30)
<1>3. JOB_INIT \in S
  BY <1>0, <1>1, BelowLeast, ZenonT(30) DEF Precedes
<1>4. ASSUME NEW w \in S, NEW k \in 1 .. Len(Entries[w])
      PROVE  Entries[w][k] \in S
  <2> DEFINE c == Entries[w][k]
  <2>1. w \in Job /\ w \in Below(JOB_INIT) /\ (w = y \/ Precedes(w, y) \/ Precedes(y, w))
    BY <1>2, ZenonT(30)
  <2>2. c \in Job /\ c \in Below(w) /\ c \in Below(c) /\ c \in Below(JOB_INIT)
    BY <2>1, <1>0, BelowEntry, BelowTrans, ZenonT(30)
  <2>3. CASE w = y
    <3>1. Inside(w, c)
      BY <2>1, InsideEntry, ZenonT(30)
    <3> QED
      BY <3>1, <2>2, <2>3, ZenonT(30) DEF Precedes
  <2>4. CASE Precedes(y, w)
    BY <2>1, <2>2, <2>4, <1>0, PrecedesBelow, ZenonT(30)
  <2>5. CASE Inside(w, y)
    <3>1. PICK i \in 1 .. Len(Entries[w]) : y \in Below(Entries[w][i])
      BY <2>5, ZenonT(30) DEF Inside
    <3>2. i = k \/ i \in 1 .. k - 1 \/ k \in 1 .. i - 1
      BY <2>1, TreeAssumption
    <3>3. CASE i = k
      BY <3>1, <3>3, <2>2, <1>1, ZenonT(30) DEF Precedes
    <3>4. CASE i \in 1 .. k - 1
      BY <3>1, <3>4, <2>1, <2>2, ZenonT(30) DEF Precedes, Beside
    <3>5. CASE k \in 1 .. i - 1
      BY <3>1, <3>5, <2>1, <2>2, ZenonT(30) DEF Precedes, Beside
    <3> QED
      BY <3>2, <3>3, <3>4, <3>5, ZenonT(30)
  <2>6. CASE Beside(w, y)
    <3>1. PICK d \in Job : \E n \in 1 .. Len(Entries[d]) : \E m \in 1 .. n - 1 :
                   w \in Below(Entries[d][m]) /\ y \in Below(Entries[d][n])
      BY <2>6, ZenonT(30) DEF Beside
    <3>2. PICK n \in 1 .. Len(Entries[d]) : \E m \in 1 .. n - 1 :
                   w \in Below(Entries[d][m]) /\ y \in Below(Entries[d][n])
      BY <3>1, ZenonT(30)
    <3>3. PICK m \in 1 .. n - 1 : w \in Below(Entries[d][m]) /\ y \in Below(Entries[d][n])
      BY <3>2, ZenonT(30)
    <3>4. c \in Below(Entries[d][m])
      BY <3>3, <2>2, EarlierPlace, EntryJob, BelowTrans, ZenonT(30)
    <3> QED
      BY <3>3, <3>4, <2>2, ZenonT(30) DEF Precedes, Beside
  <2> QED
    BY <2>1, <2>3, <2>4, <2>5, <2>6, ZenonT(30) DEF Precedes
<1>5. Closed(S)
  BY <1>4, ZenonT(30) DEF Closed
<1> HIDE DEF S
<1>6. x \in S
  BY <1>0, <1>2, <1>3, <1>5, BelowLeast, ZenonT(30)
<1> QED
  BY <1>6, ZenonT(30) DEF S

\* The order that DepthFirst compares with is a strict total order of the jobs of
\* every tree, so that DepthFirst leaves process_queue one order only.
THEOREM PrecedesStrictOrder ==
    /\ \A x, y, z \in Job : Precedes(x, y) /\ Precedes(y, z) => Precedes(x, z)
    /\ \A x \in Below(JOB_INIT) : ~Precedes(x, x)
    /\ \A x, y \in Below(JOB_INIT) : x = y \/ Precedes(x, y) \/ Precedes(y, x)
BY PrecedesTrans, PrecedesIrreflexive, PrecedesTotal, ZenonT(30)

-----------------------------------------------------------------------------
(***************************************************************************)
(* The order of the queue and of the jobs that were completed.             *)
(***************************************************************************)

\* The jobs that were created and have not been completed.
Left == {j \in Job : status[j] \notin Absent /\ \A n \in 1 .. Len(order) : order[n] # j}

\* The job that is held comes before all that wait, or is the directory that they
\* were found in; the queue is in the order of the tree, whatever the directories put
\* in front of it; and as long as specifications are queued, only these are in it.
QueueOrder ==
    /\ \A h \in Held : \A w \in Queued : Before(h, w) \/ Inside(h, w)
    /\ pc \in {"process", "readdir"} => \A w \in Waiting : Before(job, w)
    /\ \A x \in Queued : next_job[x] # NULL => Before(x, next_job[x])
    /\ \A x \in Queued : \A y \in Queued : x = y \/ Before(x, y) \/ Before(y, x)
    /\ Opening => \A w \in Queued : \/ w = JOB_INIT
                                    \/ \E i \in 1 .. pos[JOB_INIT] : w = Entries[JOB_INIT][i]
    /\ \A d \in Job : pos[d] \in 0 .. Len(Entries[d])

\* What was completed is in the order of the tree and comes before what was not,
\* which is live unless the task was aborted.
DoneOrder ==
    /\ \A n \in 1 .. Len(order) : status[order[n]] = "freed"
    /\ \A n \in 1 .. Len(order) : \A m \in 1 .. n - 1 : Precedes(order[m], order[n])
    /\ \A n \in 1 .. Len(order) : \A j \in Left : Precedes(order[n], j)
    /\ \A j \in Left : j \in Live \/ (aborted /\ pc \in {"abort", "exit"})

\* The first job of the queue comes before all others.
LEMMA HeadFirst ==
    ASSUME QueueOrder, NEW W \in SUBSET Job, W \subseteq Queued, NEW h \in W,
           Linked(W, h, next_job), NEW w \in W, w # h
    PROVE  Before(h, w)
<1> DEFINE S == {x \in W : x = h \/ Before(h, x)}
<1>1. S \in SUBSET W /\ h \in S
  BY ZenonT(30)
<1>2. ASSUME NEW k \in S
      PROVE  next_job[k] \in S \cup {NULL}
  <2>1. k \in W /\ k \in Queued /\ (k = h \/ Before(h, k)) /\ k \in Job /\ h \in Job
    BY ZenonT(30)
  <2>2. next_job[k] \in W \cup {NULL}
    BY <2>1, ZenonT(30) DEF Linked
  <2>3. ASSUME next_job[k] # NULL
        PROVE  Before(h, next_job[k])
    <3>1. Before(k, next_job[k])
      BY <2>1, <2>3, ZenonT(30) DEF QueueOrder
    <3> QED
      BY <3>1, <2>1, BeforeTrans, ZenonT(30)
  <2> QED
    BY <2>2, <2>3, ZenonT(30)
<1> HIDE DEF S
<1>3. S = W
  BY <1>1, <1>2, ZenonT(30) DEF Linked
<1> QED
  BY <1>3, ZenonT(30) DEF S

\* A step that only takes jobs away keeps the order of the queue.
LEMMA QueueFrame ==
    ASSUME QueueOrder, Queued' \subseteq Queued, Held' \subseteq Held,
           \A x \in Queued' : next_job'[x] = next_job[x],
           pc' \in {"process", "readdir"} =>
               pc \in {"process", "readdir"} /\ job' = job /\ Waiting' \subseteq Waiting,
           Opening' => Opening /\ \A i \in 1 .. pos[JOB_INIT] : i \in 1 .. pos'[JOB_INIT],
           \A d \in Job : pos'[d] \in 0 .. Len(Entries[d])
    PROVE  QueueOrder'
<1> USE DEF QueueOrder
<1>1. (\A h \in Held : \A w \in Queued : Before(h, w) \/ Inside(h, w))'
  <2>1. ASSUME NEW h \in Held', NEW w \in Queued'
        PROVE  Before(h, w) \/ Inside(h, w)
    BY <2>1, ZenonT(30)
  <2> QED
    BY <2>1, ZenonT(30)
<1>2. pc' \in {"process", "readdir"} => \A w \in Waiting' : Before(job', w)
  BY ZenonT(30)
<1>3. \A x \in Queued' : next_job'[x] # NULL => Before(x, next_job'[x])
  BY ZenonT(30)
<1>4. \A x \in Queued' : \A y \in Queued' : x = y \/ Before(x, y) \/ Before(y, x)
  BY ZenonT(30)
<1>5. Opening' => \A w \in Queued' : \/ w = JOB_INIT
                                     \/ \E i \in 1 .. pos'[JOB_INIT] : w = Entries[JOB_INIT][i]
  BY ZenonT(30)
<1> QED
  BY <1>1, <1>2, <1>3, <1>4, <1>5, ZenonT(30)

\* The first job of the queue is taken: it comes before all that still wait.
LEMMA QueueTake ==
    ASSUME SeqInv, QueueOrder, Dequeue \/ AbortQueued, jobs_head # NULL
    PROVE  QueueOrder'
<1> DEFINE h == jobs_head
<1>0. /\ dequeue_job /\ pc \in {"dequeue", "abort"} /\ UNCHANGED <<pos, first, last, num>>
      /\ \/ /\ Dequeue
            /\ status' = [status EXCEPT ![jobs_head] = "IN_PROGRESS"]
            /\ UNCHANGED <<num_jobs_active, dref>>
         \/ AbortQueued
  BY ZenonT(30) DEF Dequeue, AbortQueued, local
<1>1. /\ h \in Queued /\ Waiting = Queued /\ Queued' = Queued \ {h} /\ Waiting' = Waiting \ {h}
      /\ (Opening' => Opening)
      /\ \/ pc = "dequeue" /\ Held' = Held \cup {h} /\ (pc' = "process" => job' = h) /\ pc' # "readdir"
         \/ pc = "abort" /\ pc' = pc /\ Held' = Held
  BY <1>0, TakeSets, ZenonT(30)
<1>2. \A x \in Queued' : next_job'[x] = next_job[x]
  <2>1. next_job \in [Job -> JobOrNull] /\ next_job' = [next_job EXCEPT ![h] = NULL]
    BY <1>0, ZenonT(30) DEF SeqInv, BaseTypes, TaskTypeOK, dequeue_job
  <2> QED
    BY <2>1, <1>1, ZenonT(30) DEF Queued
<1>3. CASE pc = "abort" /\ pc' = pc /\ Held' = Held
  <2>1. \A d \in Job : pos'[d] \in 0 .. Len(Entries[d])
    BY <1>0, ZenonT(30) DEF QueueOrder
  <2> QED
    BY <2>1, <1>0, <1>1, <1>2, <1>3, QueueFrame, ZenonT(30)
<1>4. CASE pc = "dequeue" /\ Held' = Held \cup {h} /\ (pc' = "process" => job' = h) /\ pc' # "readdir"
  <2>1. Held' = {h}
    BY <1>4, ZenonT(30) DEF SeqInv, HoldInv
  <2>2. \A w \in Queued' : Before(h, w)
    <3>1. Queued \in SUBSET Job /\ Queued \subseteq Queued /\ Linked(Queued, h, next_job)
      BY <1>1, ZenonT(30) DEF Queued, SeqInv, QueueInv
    <3> HIDE DEF h
    <3> QED
      BY <3>1, <1>1, HeadFirst, ZenonT(30)
  <2>3. \A x \in Queued' : x \in Queued
    BY <1>1, ZenonT(30)
  <2> HIDE DEF h
  <2>4. \A g \in Held' : \A w \in Queued' : Before(g, w) \/ Inside(g, w)
    BY <2>1, <2>2, ZenonT(30)
  <2>5. pc' \in {"process", "readdir"} => \A w \in Waiting' : Before(job', w)
    BY <2>2, <1>1, <1>4, ZenonT(30)
  <2>6. \A x \in Queued' : next_job'[x] # NULL => Before(x, next_job'[x])
    BY <2>3, <1>2, ZenonT(30) DEF QueueOrder
  <2>7. \A x \in Queued' : \A y \in Queued' : x = y \/ Before(x, y) \/ Before(y, x)
    BY <2>3, ZenonT(30) DEF QueueOrder
  <2>8. Opening' => \A w \in Queued' : \/ w = JOB_INIT
                                       \/ \E i \in 1 .. pos'[JOB_INIT] : w = Entries[JOB_INIT][i]
    BY <2>3, <1>0, <1>1, ZenonT(30) DEF QueueOrder
  <2>9. \A d \in Job : pos'[d] \in 0 .. Len(Entries[d])
    BY <1>0, ZenonT(30) DEF QueueOrder
  <2> QED
    BY <2>4, <2>5, <2>6, <2>7, <2>8, <2>9, ZenonT(30) DEF QueueOrder
<1> QED
  BY <1>1, <1>3, <1>4, ZenonT(30)

\* A job for an entry of the job held: it comes behind the entries before it, and
\* before everything that comes behind the directory.
LEMMA QueueVisit ==
    ASSUME SeqInv, QueueOrder, QueueSpec \/ ReadDirEntry
    PROVE  QueueOrder'
<1> DEFINE n == NextEntry(job)
<1>0. /\ pc \in {"scan", "readdir"} /\ job \in Job /\ Held = {job} /\ HasEntry(job)
      /\ pc = "scan" => job = JOB_INIT
      /\ pc' = pc /\ job' = job /\ status[JOB_INIT] # "QUEUED"
  BY VisitEffect, ZenonT(30)
<1>1. PICK v \in Absent \cup {"QUEUED"} : Visit(n, v)
  BY VisitEffect, ZenonT(30)
<1>2. status' = [status EXCEPT ![n] = v] /\ pos' = [pos EXCEPT ![job] = @ + 1]
  BY <1>1, ZenonT(30) DEF Visit
<1>3. /\ n \in Job /\ pos[job] \in Nat /\ pos[job] + 1 \in 1 .. Len(Entries[job])
      /\ n = Entries[job][pos[job] + 1] /\ next_job[n] = NULL /\ n \notin Queued
  BY <1>0, NextEntryFresh, ZenonT(30)
<1>4. /\ pos \in [Job -> Nat] /\ next_job \in [Job -> JobOrNull] /\ NULL \notin Job
      /\ Queued \in SUBSET Job /\ Queued = Listed \cup Waiting /\ Queued' = Listed' \cup Waiting'
  <2>1. /\ Queued \in SUBSET Job /\ Queued = Listed \cup Waiting /\ Queued' = Listed' \cup Waiting'
    BY ZenonT(30) DEF Waiting, Listed, Queued
  <2> QED
    BY <2>1, TreeAssumption, ZenonT(30) DEF SeqInv, BaseTypes, TaskTypeOK
<1>5. /\ Held' = Held /\ status'[JOB_INIT] = status[JOB_INIT]
      /\ v # "QUEUED" => Listed' = Listed /\ Waiting' = Waiting
      /\ v = "QUEUED" =>
            /\ pc = "scan" => Listed' = {} /\ Waiting' = Waiting \cup {n}
            /\ pc = "readdir" => Listed' = Listed \cup {n} /\ Waiting' = Waiting
  BY <1>0, <1>2, VisitSets, ZenonT(30)
<1>6. pos'[job] = pos[job] + 1
  BY <1>0, <1>2, <1>4, ZenonT(30)
<1> HIDE DEF n
<1>7. /\ \A i \in 1 .. pos[job] : i \in 1 .. pos'[job]
      /\ pos[job] + 1 \in 1 .. pos'[job]
  BY <1>3, <1>6, SMTT(30)
<1>8. ASSUME NEW d \in Job PROVE pos'[d] \in 0 .. Len(Entries[d])
  <2>1. CASE d = job
    BY <2>1, <1>3, <1>6, SMTT(30)
  <2>2. CASE d # job
    BY <2>2, <1>2, <1>4, ZenonT(30) DEF QueueOrder
  <2> QED
    BY <2>1, <2>2, ZenonT(30)
<1>9. CASE v # "QUEUED"
  <2>1. Queued' = Queued /\ Waiting' = Waiting
    BY <1>4, <1>5, <1>9, ZenonT(30)
  <2>2. next_job' = next_job
    BY <1>1, <1>9, ZenonT(30) DEF Visit, queueVars
  <2>3. Opening' => Opening /\ \A i \in 1 .. pos[JOB_INIT] : i \in 1 .. pos'[JOB_INIT]
    <3>1. Opening' => Opening /\ job = JOB_INIT
      BY <1>0, <1>5, ZenonT(30) DEF Opening
    <3> QED
      BY <3>1, <1>7, ZenonT(30)
  <2>4. pc' \in {"process", "readdir"} =>
               pc \in {"process", "readdir"} /\ job' = job /\ Waiting' \subseteq Waiting
    BY <2>1, <1>0, ZenonT(30)
  <2> QED
    BY <2>1, <2>2, <2>3, <2>4, <1>5, <1>8, QueueFrame, ZenonT(30)
<1>10. CASE v = "QUEUED"
  <2>1. Queued' = Queued \cup {n} /\ (pc = "readdir" => Waiting' = Waiting)
    <3>1. pc = "scan" => Listed = {}
      BY ZenonT(30) DEF Listed
    <3> QED
      BY <3>1, <1>0, <1>4, <1>5, <1>10, ZenonT(30)
  <2>2. ASSUME NEW i \in 1 .. pos[job]
        PROVE  Before(Entries[job][i], n)
    <3>1. PICK k \in 1 .. Len(Entries[job]) : k = pos[job] + 1
      BY <1>3, ZenonT(30)
    <3>2. i \in 1 .. k - 1
      BY <3>1, <1>3, SMTT(30)
    <3>3. Before(Entries[job][i], Entries[job][k])
      BY <3>2, <1>0, BeforeSibling, ZenonT(30)
    <3> QED
      BY <3>1, <3>3, <1>3, ZenonT(30)
  <2>3. Inside(job, n) /\ n \in Below(job)
    BY <1>0, <1>3, InsideEntry, BelowEntry, ZenonT(30)
  \* Which of the jobs that wait come before the new one.
  <2>4. ASSUME NEW x \in Queued
        PROVE  IF pc = "readdir" /\ x \in Waiting THEN Before(n, x) ELSE Before(x, n)
    <3>1. CASE pc = "readdir" /\ x \in Waiting
      <4>1. Before(job, x)
        BY <3>1, ZenonT(30) DEF QueueOrder
      <4> QED
        BY <4>1, <3>1, <2>3, <1>0, BeforeBelow, ZenonT(30)
    <3>2. CASE pc = "readdir" /\ x \notin Waiting
      <4>1. x \in Listed
        BY <3>2, <1>4, ZenonT(30)
      <4>2. \E i \in 1 .. pos[job] : Entries[job][i] = x
        BY <4>1, ZenonT(30) DEF Listed
      <4> QED
        BY <4>2, <3>2, <2>2, ZenonT(30)
    <3>3. CASE pc = "scan"
      <4>1. Opening /\ job = JOB_INIT
        BY <3>3, <1>0, ZenonT(30) DEF Opening
      <4>2. x # JOB_INIT
        BY <1>0, ZenonT(30) DEF Queued
      <4>3. \E i \in 1 .. pos[job] : x = Entries[job][i]
        BY <4>1, <4>2, ZenonT(30) DEF QueueOrder
      <4> QED
        BY <4>3, <3>3, <2>2, ZenonT(30)
    <3> QED
      BY <1>0, <3>1, <3>2, <3>3, ZenonT(30)
  \* Only the end of the queue, or of the list, is linked to it.
  <2>5. next_job'[n] = NULL /\ \A x \in Queued :
            next_job'[x] = next_job[x] \/ (next_job'[x] = n /\ Before(x, n))
    <3>1. PICK t : /\ t = NULL \/ (t \in Queued /\ (pc = "scan" \/ t \in Listed))
                   /\ next_job' = IF t = NULL THEN next_job ELSE [next_job EXCEPT ![t] = n]
      <4>1. CASE pc = "scan"
        <5>1. next_job' = IF jobs_tail = NULL THEN next_job ELSE [next_job EXCEPT ![jobs_tail] = n]
          BY <4>1, <1>1, <1>10, ZenonT(30) DEF Visit, queue_job_tail
        <5>2. Opening
          BY <4>1, <1>0, ZenonT(30) DEF Opening
        <5>3. jobs_tail = NULL \/ jobs_tail \in Queued
          BY <5>2, <1>4, ZenonT(30) DEF SeqInv, QueueInv, LastOf
        <5> QED
          BY <5>1, <5>3, <4>1, ZenonT(30)
      <4>2. CASE pc = "readdir"
        <5>1. next_job' = IF last = NULL THEN next_job ELSE [next_job EXCEPT ![last] = n]
          BY <4>2, <1>1, <1>10, ZenonT(30) DEF Visit
        <5>2. last = NULL \/ last \in Listed
          BY ZenonT(30) DEF SeqInv, QueueInv, LastOf
        <5> QED
          BY <5>1, <5>2, <4>2, <1>4, ZenonT(30)
      <4> QED
        BY <4>1, <4>2, <1>0, ZenonT(30)
    <3>2. ASSUME t # NULL PROVE t \in Queued /\ Before(t, n)
      <4>1. t \in Queued /\ ~(pc = "readdir" /\ t \in Waiting)
        BY <3>1, <3>2, ZenonT(30) DEF Waiting
      <4> QED
        BY <4>1, <2>4, ZenonT(30)
    <3>3. CASE t = NULL
      BY <3>1, <3>3, <1>3, ZenonT(30)
    <3>4. CASE t # NULL
      <4>1. next_job' = [next_job EXCEPT ![t] = n]
        BY <3>1, <3>4, ZenonT(30)
      <4> QED
        BY <4>1, <3>2, <3>4, <1>3, <1>4, ZenonT(30)
    <3> QED
      BY <3>3, <3>4, ZenonT(30)
  <2>6. \A h \in Held' : \A w \in Queued' : Before(h, w) \/ Inside(h, w)
    <3>1. ASSUME NEW w \in Queued PROVE Before(job, w) \/ Inside(job, w)
      BY <1>0, ZenonT(30) DEF QueueOrder
    <3> QED
      BY <3>1, <2>1, <2>3, <1>0, <1>5, ZenonT(30)
  <2>7. pc' \in {"process", "readdir"} => \A w \in Waiting' : Before(job', w)
    BY <2>1, <1>0, ZenonT(30) DEF QueueOrder
  <2>8. \A x \in Queued' : next_job'[x] # NULL => Before(x, next_job'[x])
    <3>1. ASSUME NEW x \in Queued, next_job'[x] # NULL PROVE Before(x, next_job'[x])
      BY <3>1, <2>5, ZenonT(30) DEF QueueOrder
    <3> QED
      BY <3>1, <2>1, <2>5, ZenonT(30)
  <2>9. \A x \in Queued' : \A y \in Queued' : x = y \/ Before(x, y) \/ Before(y, x)
    <3>1. \A x \in Queued : \A y \in Queued : x = y \/ Before(x, y) \/ Before(y, x)
      BY ZenonT(30) DEF QueueOrder
    <3>2. \A x \in Queued : Before(n, x) \/ Before(x, n)
      BY <2>4, ZenonT(30)
    <3> QED
      BY <3>1, <3>2, <2>1, ZenonT(30)
  <2>10. Opening' => \A w \in Queued' : \/ w = JOB_INIT
                                        \/ \E i \in 1 .. pos'[JOB_INIT] : w = Entries[JOB_INIT][i]
    <3>1. Opening' => Opening /\ job = JOB_INIT
      BY <1>0, <1>5, ZenonT(30) DEF Opening
    <3>2. ASSUME Opening, job = JOB_INIT, NEW w \in Queued
          PROVE  w = JOB_INIT \/ \E i \in 1 .. pos'[JOB_INIT] : w = Entries[JOB_INIT][i]
      BY <3>2, <1>7, ZenonT(30) DEF QueueOrder
    <3>3. job = JOB_INIT => \E i \in 1 .. pos'[JOB_INIT] : n = Entries[JOB_INIT][i]
      BY <1>3, <1>7, ZenonT(30)
    <3> QED
      BY <3>1, <3>2, <3>3, <2>1, ZenonT(30)
  <2> QED
    BY <2>6, <2>7, <2>8, <2>9, <2>10, <1>8, ZenonT(30) DEF QueueOrder
<1> QED
  BY <1>9, <1>10, ZenonT(30)

\* queue_jobs: the last job of the list comes before the first of the queue.
LEMMA QueueConcat ==
    ASSUME SeqInv, QueueOrder, QueueDir
    PROVE  QueueOrder'
<1>0. /\ pc = "readdir" /\ pc' = "post" /\ job \in Job /\ job' = job /\ Held = {job}
      /\ Queued' = Queued /\ Held' = Held /\ ~Opening' /\ pos' = pos
      /\ IF first # NULL
         THEN next_job' = [next_job EXCEPT ![last] = jobs_head] /\ last \in Listed
         ELSE next_job' = next_job
  BY QueueDirSets, ZenonT(30)
<1>1. next_job \in [Job -> JobOrNull] /\ pos[job] \in Nat /\ Queued \in SUBSET Job
  BY <1>0, ZenonT(30) DEF SeqInv, BaseTypes, TaskTypeOK, Queued
<1>2. ASSUME NEW x \in Listed, jobs_head # NULL
      PROVE  Before(x, jobs_head)
  <2>1. jobs_head \in Waiting
    BY <1>2, ZenonT(30) DEF SeqInv, QueueInv, Linked
  <2>2. Before(job, jobs_head)
    BY <2>1, <1>0, ZenonT(30) DEF QueueOrder
  <2>3. x \in Below(job)
    <3>1. PICK i \in 1 .. pos[job] : Entries[job][i] = x
      BY <1>2, ZenonT(30) DEF Listed
    <3>2. i \in 1 .. Len(Entries[job])
      BY <1>0, TreeAssumption, SMTT(30) DEF QueueOrder
    <3> QED
      BY <3>1, <3>2, <1>0, BelowEntry, ZenonT(30)
  <2> QED
    BY <2>2, <2>3, <1>0, BeforeBelow, ZenonT(30)
<1>3. ASSUME NEW x \in Queued, next_job'[x] # NULL
      PROVE  Before(x, next_job'[x])
  <2>1. CASE next_job'[x] = next_job[x]
    BY <2>1, <1>3, ZenonT(30) DEF QueueOrder
  <2>2. CASE next_job'[x] # next_job[x]
    <3>1. x \in Listed /\ next_job'[x] = jobs_head
      BY <2>2, <1>0, <1>1, ZenonT(30)
    <3> QED
      BY <3>1, <1>2, <1>3, ZenonT(30)
  <2> QED
    BY <2>1, <2>2, ZenonT(30)
<1> QED
  BY <1>0, <1>3, ZenonT(30) DEF QueueOrder

\* Every step keeps the order of the queue.
LEMMA QueueOrderStep ==
    ASSUME SeqInv, QueueOrder, [Next]_vars
    PROVE  QueueOrder'
<1>0. ASSUME pos' = pos PROVE \A d \in Job : pos'[d] \in 0 .. Len(Entries[d])
  BY <1>0, ZenonT(30) DEF QueueOrder
<1>1. CASE Exclude \/ OpenOutput \/ EndSpecs \/ OpenDir \/ Read
  <2>1. /\ Queued' = Queued /\ Held' = Held /\ Waiting' = Waiting /\ next_job' = next_job
        /\ job' = job /\ pos' = pos /\ (Opening' => Opening)
    BY <1>1, StillSets, ZenonT(30)
  <2>2. pc' \in {"process", "readdir"} => pc \in {"process", "readdir"}
    BY <1>1, StillSets, ZenonT(30)
  <2> QED
    BY <2>1, <2>2, <1>0, QueueFrame, ZenonT(30)
<1>2. CASE Complete
  <2>1. /\ Queued' = Queued /\ Held' = {} /\ next_job' = next_job /\ pc' = "dequeue" /\ ~Opening' /\ pos' = pos
    BY <1>2, CompleteSets, ZenonT(30)
  <2> QED
    BY <2>1, <1>0, QueueFrame, ZenonT(30)
<1>3. CASE (Dequeue /\ jobs_head = NULL) \/ Exit \/ UNCHANGED vars
  <2>1. UNCHANGED <<status, next_job, pos, job>>
    BY <1>3, ZenonT(30) DEF Dequeue, Exit, vars, taskVars, queueVars, local
  <2>2. pc' \in {"process", "readdir", "scan"} => pc' = pc
    BY <1>3, ZenonT(30) DEF Dequeue, Exit, vars
  <2>3. Queued' = Queued /\ Held' = Held /\ (Opening' => Opening)
    BY <2>1, <2>2, ZenonT(30) DEF Queued, Held, Opening
  <2>4. pc' \in {"process", "readdir"} => Waiting' = Waiting
    BY <2>1, <2>2, <2>3, ZenonT(30) DEF Waiting, Listed
  <2> QED
    BY <2>1, <2>2, <2>3, <2>4, <1>0, QueueFrame, ZenonT(30)
<1>4. CASE AbortQueued
  <2>1. jobs_head # NULL
    BY <1>4, ZenonT(30) DEF AbortQueued, dequeue_job
  <2> QED
    BY <2>1, <1>4, QueueTake, ZenonT(30)
<1> QED
  BY <1>1, <1>2, <1>3, <1>4, QueueTake, QueueVisit, QueueConcat, ZenonT(30)
     DEF Next, Step, Stopped

\* A step that completes no job keeps the order of what was completed, if what it
\* creates is below a job that was not.
LEMMA DoneFrame ==
    ASSUME SeqInv, DoneOrder, order' = order,
           \A j \in Job : status[j] = "freed" => status'[j] = "freed",
           \A j \in Left' : \E x \in Left : j \in Below(x),
           \A j \in Left' : j \in Live' \/ (aborted' /\ pc' \in {"abort", "exit"})
    PROVE  DoneOrder'
<1>1. ASSUME NEW n \in 1 .. Len(order)
      PROVE  order[n] \in Job /\ status'[order[n]] = "freed"
  <2>1. order[n] \in Job
    BY DEF SeqInv, BaseTypes
  <2> QED
    BY <2>1, ZenonT(30) DEF DoneOrder
<1>2. ASSUME NEW n \in 1 .. Len(order), NEW j \in Left'
      PROVE  Precedes(order[n], j)
  <2>1. PICK x \in Left : j \in Below(x)
    BY ZenonT(30)
  <2>2. x \in Job /\ Precedes(order[n], x)
    BY <2>1, ZenonT(30) DEF DoneOrder, Left
  <2> QED
    BY <2>1, <2>2, <1>1, PrecedesBelow, ZenonT(30)
<1>3. \A n \in 1 .. Len(order) : \A m \in 1 .. n - 1 : Precedes(order[m], order[n])
  BY ZenonT(30) DEF DoneOrder
<1>4. \A n \in 1 .. Len(order) : status'[order[n]] = "freed"
  BY <1>1, ZenonT(30)
<1>5. \A n \in 1 .. Len(order) : \A j \in Left' : Precedes(order[n], j)
  BY <1>2, ZenonT(30)
<1> QED
  BY <1>3, <1>4, <1>5, ZenonT(30) DEF DoneOrder

\* A live job moves on; if it is freed, the task was aborted.
LEMMA DoneSettle ==
    ASSUME SeqInv, DoneOrder, order' = order, NEW x \in Live,
           NEW v \in {"IN_PROGRESS", "freed"} \cup Final, status' = [status EXCEPT ![x] = v],
           aborted => aborted', pc \in {"abort", "exit"} => pc' \in {"abort", "exit"},
           v = "freed" => aborted' /\ pc' \in {"abort", "exit"}
    PROVE  DoneOrder'
<1>1. x \in Job /\ status \in [Job -> Status] /\ status[x] \notin Absent \cup Freed
  BY ZenonT(30) DEF Live, SeqInv, BaseTypes, TaskTypeOK
<1>2. status'[x] = v /\ \A j \in Job \ {x} : status'[j] = status[j]
  BY <1>1, ZenonT(30)
<1>3. v \notin Absent /\ (v \in Freed => v = "freed") /\ status[x] # "freed"
  BY <1>1 DEF Absent, Freed, Final
<1>4. Left' = Left
  BY <1>1, <1>2, <1>3, ZenonT(30) DEF Left
<1>5. ASSUME NEW j \in Left'
      PROVE  j \in Live' \/ (aborted' /\ pc' \in {"abort", "exit"})
  <2>1. j \in Job /\ (j \in Live \/ (aborted /\ pc \in {"abort", "exit"}))
    BY <1>4, ZenonT(30) DEF DoneOrder, Left
  <2>2. CASE j = x
    BY <2>2, <1>1, <1>2, <1>3, ZenonT(30) DEF Live
  <2>3. CASE j # x
    BY <2>1, <2>3, <1>2, ZenonT(30) DEF Live
  <2> QED
    BY <2>2, <2>3, ZenonT(30)
<1>6. \A j \in Left' : \E y \in Left : j \in Below(y)
  BY <1>4, BelowLeast, ZenonT(30) DEF Left
<1>7. \A j \in Job : status[j] = "freed" => status'[j] = "freed"
  BY <1>2, <1>3, ZenonT(30)
<1> QED
  BY <1>5, <1>6, <1>7, DoneFrame, ZenonT(30)

\* Nothing happens to a job.
LEMMA DoneIdle ==
    ASSUME SeqInv, DoneOrder, order' = order, status' = status,
           aborted => aborted', pc \in {"abort", "exit"} => pc' \in {"abort", "exit"}
    PROVE  DoneOrder'
<1>1. Left' = Left /\ Live' = Live
  BY ZenonT(30) DEF Left, Live
<1>2. \A j \in Left' : j \in Live' \/ (aborted' /\ pc' \in {"abort", "exit"})
  BY <1>1, ZenonT(30) DEF DoneOrder
<1>3. \A j \in Left' : \E y \in Left : j \in Below(y)
  BY <1>1, BelowLeast, ZenonT(30) DEF Left
<1> QED
  BY <1>2, <1>3, DoneFrame, ZenonT(30)

\* A new job is below the one held, which is not completed.
LEMMA DoneVisit ==
    ASSUME SeqInv, DoneOrder, QueueSpec \/ ReadDirEntry
    PROVE  DoneOrder'
<1> DEFINE n == NextEntry(job)
<1>0. /\ pc \in {"scan", "readdir"} /\ job \in Job /\ Held = {job} /\ HasEntry(job)
      /\ pc' = pc /\ order' = order
  BY VisitEffect, ZenonT(30)
<1>1. PICK v \in Absent \cup {"QUEUED"} : Visit(n, v)
  BY VisitEffect, ZenonT(30)
<1>2. status' = [status EXCEPT ![n] = v] /\ status \in [Job -> Status]
  BY <1>1, ZenonT(30) DEF Visit, SeqInv, BaseTypes, TaskTypeOK
<1>3. /\ n \in Job /\ pos[job] + 1 \in 1 .. Len(Entries[job])
      /\ n = Entries[job][pos[job] + 1] /\ status[n] = "none"
  BY <1>0, NextEntryFresh, ZenonT(30)
<1> HIDE DEF n
<1>4. status'[n] = v /\ \A j \in Job \ {n} : status'[j] = status[j]
  BY <1>2, <1>3, ZenonT(30)
<1>5. v \notin Freed /\ v # "freed" /\ "none" # "freed" /\ "none" \in Absent
  BY DEF Absent, Freed
<1>6. job \in Left
  <2>1. job \in Held
    BY <1>0, ZenonT(30)
  <2>2. status[job] \notin Absent /\ status[job] # "freed"
    BY <2>1 DEF Held, Absent, Final
  <2> QED
    BY <2>2, <1>0, ZenonT(30) DEF Left, DoneOrder
<1>7. ASSUME NEW j \in Left', j # n
      PROVE  j \in Left /\ j \in Live'
  <2>1. j \in Left
    BY <1>0, <1>4, <1>7, ZenonT(30) DEF Left
  <2>2. j \in Live /\ j \in Job
    BY <2>1, <1>0, ZenonT(30) DEF DoneOrder, Left
  <2> QED
    BY <2>1, <2>2, <1>4, <1>7, ZenonT(30) DEF Live
<1>8. ASSUME NEW j \in Left', j = n
      PROVE  j \in Live'
  BY <1>3, <1>4, <1>5, <1>8, ZenonT(30) DEF Left, Live
<1>9. n \in Below(job)
  BY <1>0, <1>3, BelowEntry, ZenonT(30)
<1>10. \A j \in Left' : \E x \in Left : j \in Below(x)
  BY <1>6, <1>7, <1>9, BelowLeast, ZenonT(30) DEF Left
<1>11. \A j \in Left' : j \in Live'
  BY <1>7, <1>8, ZenonT(30)
<1>12. \A j \in Job : status[j] = "freed" => status'[j] = "freed"
  BY <1>3, <1>4, <1>5, ZenonT(30)
<1> QED
  BY <1>0, <1>10, <1>11, <1>12, DoneFrame, ZenonT(30)

\* The job that is completed precedes what is left, for it precedes all that wait.
LEMMA DoneComplete ==
    ASSUME SeqInv, QueueOrder, DoneOrder, Complete
    PROVE  DoneOrder'
<1>0. /\ pc = "post" /\ pc' = "dequeue" /\ job \in Job /\ Held = {job}
      /\ status' = [status EXCEPT ![job] = "freed"] /\ Live' = Live \ {job}
      /\ status'[job] = "freed" /\ \A j \in Job \ {job} : status'[j] = status[j]
  BY CompleteSets, ZenonT(30)
<1>1. order' = Append(order, job) /\ order \in Seq(Job)
  BY ZenonT(30) DEF Complete, SeqInv, BaseTypes
<1>2. /\ Len(order) \in Nat /\ Len(order') = Len(order) + 1 /\ order'[Len(order) + 1] = job
      /\ \A n \in 1 .. Len(order) : order'[n] = order[n] /\ n # Len(order) + 1
                                    /\ order[n] \in Job /\ n \in 1 .. Len(order')
      /\ Len(order) + 1 \in 1 .. Len(order')
      /\ \A n \in 1 .. Len(order') : n = Len(order) + 1 \/ n \in 1 .. Len(order)
      /\ \A m \in 1 .. (Len(order) + 1) - 1 : m \in 1 .. Len(order)
      /\ \A n \in 1 .. Len(order) : \A m \in 1 .. n - 1 : m \in 1 .. Len(order)
  BY <1>0, <1>1, SMTT(30)
<1>3. job \in Left
  <2>1. job \in Held
    BY <1>0, ZenonT(30)
  <2>2. status[job] \notin Absent /\ status[job] # "freed"
    BY <2>1 DEF Held, Absent, Final
  <2> QED
    BY <2>2, <1>0, ZenonT(30) DEF Left, DoneOrder
<1>4. ASSUME NEW j \in Left'
      PROVE  j \in Left /\ j # job /\ j \in Live /\ j \in Queued /\ j \in Job
  <2>1. j \in Job /\ j # job /\ \A n \in 1 .. Len(order) : order[n] # j
    BY <1>2, ZenonT(30) DEF Left
  <2>2. j \in Left
    BY <2>1, <1>0, ZenonT(30) DEF Left
  <2>3. j \in Live
    BY <2>2, <1>0, ZenonT(30) DEF DoneOrder
  <2>4. j \in Queued
    BY <2>1, <2>3, <1>0, LiveJobs, ZenonT(30) DEF SeqInv, BaseTypes, TaskTypeOK
  <2> QED
    BY <2>1, <2>2, <2>3, <2>4, ZenonT(30)
<1>5. ASSUME NEW j \in Left'
      PROVE  Precedes(job, j)
  <2>1. Before(job, j) \/ Inside(job, j)
    BY <1>0, <1>4, ZenonT(30) DEF QueueOrder
  <2> QED
    BY <2>1, BeforePrecedes, ZenonT(30) DEF Precedes
<1>6. ASSUME NEW n \in 1 .. Len(order')
      PROVE  /\ status'[order'[n]] = "freed"
             /\ \A j \in Left' : Precedes(order'[n], j)
             /\ \A m \in 1 .. n - 1 : Precedes(order'[m], order'[n])
  <2>1. CASE n = Len(order) + 1
    <3>1. order'[n] = job
      BY <2>1, <1>2, ZenonT(30)
    <3>2. ASSUME NEW m \in 1 .. n - 1
          PROVE  Precedes(order'[m], order'[n])
      <4>1. m \in 1 .. Len(order) /\ order'[m] = order[m]
        BY <2>1, <1>2, ZenonT(30)
      <4> QED
        BY <4>1, <3>1, <1>3, ZenonT(30) DEF DoneOrder
    <3> QED
      BY <3>1, <3>2, <1>0, <1>5, ZenonT(30)
  <2>2. CASE n \in 1 .. Len(order)
    <3>1. order'[n] = order[n] /\ order[n] \in Job /\ status[order[n]] = "freed"
      BY <2>2, <1>2, ZenonT(30) DEF DoneOrder
    <3>2. \A j \in Left' : Precedes(order[n], j)
      BY <2>2, <1>4, ZenonT(30) DEF DoneOrder
    <3>3. \A m \in 1 .. n - 1 : Precedes(order'[m], order[n])
      BY <2>2, <1>2, ZenonT(30) DEF DoneOrder
    <3>4. status'[order[n]] = "freed"
      BY <3>1, <1>0, ZenonT(30)
    <3> QED
      BY <3>1, <3>2, <3>3, <3>4, ZenonT(30)
  <2> QED
    BY <1>2, <2>1, <2>2, ZenonT(30)
<1>7. \A j \in Left' : j \in Live'
  BY <1>0, <1>4, ZenonT(30)
<1> QED
  BY <1>6, <1>7, ZenonT(30) DEF DoneOrder

\* Every step keeps the order of what was completed.
LEMMA DoneOrderStep ==
    ASSUME SeqInv, SummaryInv, QueueOrder, DoneOrder, [Next]_vars
    PROVE  DoneOrder'
<1>1. CASE Exclude \/ OpenOutput \/ EndSpecs \/ OpenDir \/ Read
  <2>1. /\ order' = order /\ pc \notin {"abort", "exit"} /\ job \in Live
        /\ (aborted => aborted') /\ pc' \notin {"abort", "exit"}
        /\ status' = status \/ \E v \in Final : status' = [status EXCEPT ![job] = v]
    <3>1. /\ order' = order /\ pc \in {"process", "scan"} /\ Held = {job}
          /\ \/ \E v \in Final : status' = [status EXCEPT ![job] = v] /\ pc' = "post"
             \/ status' = status /\ pc' \in {"scan", "readdir"}
      BY <1>1, StillSets, ZenonT(30)
    <3>2. aborted => aborted'
      BY <1>1, ZenonT(30) DEF Exclude, OpenOutput, EndSpecs, OpenDir, Read, EndProcess
    <3>3. job \in Live
      BY <3>1, LiveJobs, ZenonT(30) DEF SeqInv, BaseTypes, TaskTypeOK
    <3> QED
      BY <3>1, <3>2, <3>3, ZenonT(30)
  <2>2. CASE status' = status
    BY <2>1, <2>2, DoneIdle, ZenonT(30)
  <2>3. ASSUME NEW v \in Final, status' = [status EXCEPT ![job] = v]
        PROVE  DoneOrder'
    <3>1. v \in {"IN_PROGRESS", "freed"} \cup Final /\ v # "freed"
      BY DEF Final
    <3> QED
      BY <3>1, <2>1, <2>3, DoneSettle, ZenonT(30)
  <2> QED
    BY <2>1, <2>2, <2>3, ZenonT(30)
<1>2. CASE QueueDir
  <2>1. /\ pc = "readdir" /\ pc' = "post" /\ order' = order /\ job \in Live
        /\ status' = [status EXCEPT ![job] = "DONE"]
    BY <1>2, QueueDirSets, ZenonT(30)
  <2>2. "DONE" \in {"IN_PROGRESS", "freed"} \cup Final /\ "DONE" # "freed"
    BY DEF Final
  <2>3. aborted => aborted'
    BY <1>2, ZenonT(30) DEF QueueDir, EndProcess
  <2> QED
    BY <2>1, <2>2, <2>3, DoneSettle, ZenonT(30)
<1>3. CASE (Dequeue /\ jobs_head = NULL) \/ Exit \/ UNCHANGED vars
  <2>1. status' = status /\ order' = order /\ (aborted => aborted')
    BY <1>3, SMTT(30) DEF Dequeue, Exit, vars, taskVars
  <2>2. pc \in {"abort", "exit"} => pc' \in {"abort", "exit"}
    BY <1>3 DEF Dequeue, Exit, vars
  <2> QED
    BY <2>1, <2>2, DoneIdle, ZenonT(30)
<1>4. CASE jobs_head # NULL /\ (Dequeue \/ AbortQueued)
  <2>1. /\ dequeue_job /\ pc \in {"dequeue", "abort"} /\ UNCHANGED <<pos, first, last, num>>
        /\ order' = order /\ aborted' = aborted
        /\ \/ /\ Dequeue
              /\ status' = [status EXCEPT ![jobs_head] = "IN_PROGRESS"]
              /\ UNCHANGED <<num_jobs_active, dref>>
           \/ AbortQueued
    BY <1>4, ZenonT(30) DEF Dequeue, AbortQueued, local
  <2>2. /\ jobs_head \in Live
        /\ \/ pc = "dequeue" /\ status' = [status EXCEPT ![jobs_head] = "IN_PROGRESS"]
           \/ pc = "abort" /\ pc' = pc /\ status' = [status EXCEPT ![jobs_head] = "freed"]
    BY <2>1, TakeSets, ZenonT(30)
  <2>3. CASE pc = "dequeue" /\ status' = [status EXCEPT ![jobs_head] = "IN_PROGRESS"]
    BY <2>1, <2>2, <2>3, DoneSettle, ZenonT(30)
  <2>4. CASE pc = "abort" /\ pc' = pc /\ status' = [status EXCEPT ![jobs_head] = "freed"]
    <3>1. aborted
      BY <1>4, <2>4, ZenonT(30) DEF SummaryInv
    <3> QED
      BY <3>1, <2>1, <2>2, <2>4, DoneSettle, ZenonT(30)
  <2> QED
    BY <2>2, <2>3, <2>4, ZenonT(30)
<1>5. AbortQueued => jobs_head # NULL
  BY ZenonT(30) DEF AbortQueued, dequeue_job
<1> QED
  BY <1>1, <1>2, <1>3, <1>4, <1>5, DoneVisit, DoneComplete, ZenonT(30) DEF Next, Step, Stopped

\* At first the initial job is all that waits, and nothing is completed.
LEMMA OrderInit == Init => QueueOrder /\ DoneOrder
<1> SUFFICES ASSUME Init PROVE QueueOrder /\ DoneOrder
  BY ZenonT(30)
<1>0. /\ JOB_INIT \in Job /\ \A d \in Job : Len(Entries[d]) \in Nat
      /\ status = [j \in Job |-> IF j = JOB_INIT THEN "QUEUED" ELSE "none"]
      /\ next_job = [j \in Job |-> NULL] /\ pos = [j \in Job |-> 0]
      /\ pc = "dequeue" /\ order = <<>>
  <2>1. \A d \in Job : Len(Entries[d]) \in Nat
    BY TreeAssumption, SMTT(30)
  <2> QED
    BY <2>1, ZenonT(30) DEF Init, init_queue, Job
<1>1. /\ \A j \in Job : status[j] \notin Absent => j = JOB_INIT
      /\ \A j \in Job : status[j] = "QUEUED" => j = JOB_INIT
      /\ status[JOB_INIT] = "QUEUED"
  BY <1>0, ZenonT(30) DEF Absent
<1>2. Queued = {JOB_INIT} /\ Held = {} /\ JOB_INIT \in Live
  BY <1>0, <1>1, ZenonT(30) DEF Queued, Held, Live, Absent, Freed, Final
<1>3. \A j \in Left : j = JOB_INIT
  BY <1>1, ZenonT(30) DEF Left
<1>4. \A d \in Job : pos[d] \in 0 .. Len(Entries[d])
  BY <1>0
<1>5. \A n \in 1 .. Len(order) : FALSE
  BY <1>0
<1>6. pc \notin {"process", "readdir"} /\ \A j \in Job : next_job[j] = NULL
  BY <1>0
<1>7. QueueOrder
  BY <1>0, <1>2, <1>4, <1>6, ZenonT(30) DEF QueueOrder
<1>8. DoneOrder
  BY <1>2, <1>3, <1>5, ZenonT(30) DEF DoneOrder
<1> QED
  BY <1>7, <1>8, ZenonT(30)

\* Both orders always hold.
LEMMA OrderAlways == Spec => [](SeqInv /\ SummaryInv /\ QueueOrder /\ DoneOrder)
<1>1. Init => SeqInv /\ SummaryInv /\ QueueOrder /\ DoneOrder
  BY SeqInit, SummaryInit, OrderInit, ZenonT(30)
<1>2. SeqInv /\ SummaryInv /\ QueueOrder /\ DoneOrder /\ [Next]_vars
        => (SeqInv /\ SummaryInv /\ QueueOrder /\ DoneOrder)'
  BY SeqStep, SummaryStep, QueueOrderStep, DoneOrderStep, ZenonT(30)
<1> QED
  BY <1>1, <1>2, PTL DEF Spec

\* The jobs are completed in the depth-first order of the tree, whatever fails: the
\* list that queue_dir puts in front of the queue keeps a directory's contents
\* before everything that was found after the directory.
THEOREM SequentialDepthFirst == Spec => []DepthFirst
<1>1. ASSUME SeqInv, DoneOrder PROVE DepthFirst
  <2>1. /\ \A n \in 1 .. Len(order) : \A m \in 1 .. n - 1 : Precedes(order[m], order[n])
        /\ \A n \in 1 .. Len(order) : \A j \in Left : Precedes(order[n], j)
    BY <1>1, ZenonT(30) DEF DoneOrder
  <2>2. ASSUME pc = "exit", ~aborted, NEW j \in Left
        PROVE  FALSE
    <3>1. j \in Live
      BY <1>1, <2>2, ZenonT(30) DEF DoneOrder
    <3>2. Held = {}
      BY <1>1, <2>2, ZenonT(30) DEF SeqInv, HoldInv
    <3>3. Queued = {}
      <4>1. Waiting = Queued /\ Waiting \in SUBSET Job
        BY <1>1, <2>2, NotReading, ZenonT(30) DEF Queued
      <4>2. jobs_head = NULL /\ Linked(Waiting, jobs_head, next_job)
        BY <1>1, <2>2, ZenonT(30) DEF SeqInv, HoldInv, QueueInv
      <4> QED
        BY <4>1, <4>2, LinkedEmpty, ZenonT(30)
    <3> QED
      BY <3>1, <3>2, <3>3, <1>1, LiveJobs, ZenonT(30) DEF SeqInv, BaseTypes, TaskTypeOK
  <2> QED
    BY <2>1, <2>2, ZenonT(30) DEF DepthFirst, Left
<1> QED
  BY <1>1, OrderAlways, PTL

\* The directories that are open at the same time lie on one path of the tree, so
\* the depth of the tree bounds the number of handles, and not its breadth.
THEOREM SequentialOnePath == Spec => []OpenDirsOnOnePath
<1>1. ASSUME SeqInv, QueueOrder PROVE OpenDirsOnOnePath
  <2>0. status \in [Job -> Status]
    BY <1>1, ZenonT(30) DEF SeqInv, BaseTypes, TaskTypeOK
  \* An open directory is read, or holds a job that is to be opened.
  <2>1. ASSUME NEW d \in Job, dref[d] > 0
        PROVE  (pc = "readdir" /\ job = d) \/ \E x \in Live : HasDref(x, d)
    <3>1. DirOpenWhileNeeded
      BY <1>1, DirsOpen, ZenonT(30)
    <3> QED
      BY <3>1, <2>1, ZenonT(30) DEF DirOpenWhileNeeded, Live
  <2>2. ASSUME NEW d \in Job, NEW x \in Live, HasDref(x, d)
        PROVE  x \in Job /\ x \in Below(d) /\ \A z : ~Inside(x, z)
    <3>1. PICK i \in 1 .. Len(Entries[d]) : Entries[d][i] = x
      BY <2>2, ZenonT(30) DEF HasDref
    <3>2. x \in Job /\ x \in Below(d)
      BY <3>1, BelowEntry, ZenonT(30)
    <3>3. 1 .. Len(Entries[x]) = {}
      BY <3>2, <2>2, <3>1, TreeAssumption, LeafAssumption, SMTT(30) DEF HasDref
    <3> QED
      BY <3>2, <3>3, ZenonT(30) DEF Inside
  \* If something below d comes before an entry of e, then d is below e, and if it
  \* is below an entry of e that is no directory, it is that entry.
  <2>3. ASSUME NEW d \in Job, NEW e \in Job, NEW x \in Below(d), NEW y, HasDref(y, e),
               Before(x, y)
        PROVE  e \in Below(d) \/ d \in Below(e)
    <3>0. x \in Job
      BY BelowTrans, ZenonT(30)
    <3>1. PICK k \in 1 .. Len(Entries[e]) : Entries[e][k] = y
      BY <2>3, ZenonT(30) DEF HasDref
    <3>2. PICK g \in Job : \E m \in 1 .. Len(Entries[g]) : \E i \in 1 .. m - 1 :
                   x \in Below(Entries[g][i]) /\ y = Entries[g][m]
      BY <2>3, ZenonT(30) DEF Before
    <3>3. PICK m \in 1 .. Len(Entries[g]) : \E i \in 1 .. m - 1 :
                   x \in Below(Entries[g][i]) /\ y = Entries[g][m]
      BY <3>2, ZenonT(30)
    <3>4. PICK i \in 1 .. m - 1 : x \in Below(Entries[g][i]) /\ y = Entries[g][m]
      BY <3>3, ZenonT(30)
    <3>5. g = e
      BY <3>1, <3>4, OnePlace, ZenonT(30)
    <3>6. i \in 1 .. Len(Entries[g])
      BY EarlierPlace, ZenonT(30)
    <3>7. x \in Below(e)
      BY <3>4, <3>5, <3>6, BelowEntry, ZenonT(30)
    <3> QED
      BY <3>7, OnePath, ZenonT(30)
  <2>4. ASSUME NEW d \in Job, NEW e \in Job, pc = "readdir", job = d,
               NEW y \in Live, HasDref(y, e)
        PROVE  e \in Below(d) \/ d \in Below(e)
    <3>1. Held = {d} /\ d \in Below(d) /\ Type[d] = "DIR"
      BY <1>1, <2>4, BelowLeast, ZenonT(30) DEF SeqInv, HoldInv
    <3>2. y # d
      BY <3>1, <2>4, ZenonT(30) DEF HasDref
    <3>3. y \in Queued
      BY <3>1, <3>2, <2>0, LiveJobs, ZenonT(30)
    <3>4. CASE Before(d, y)
      BY <3>1, <3>4, <2>3, <2>4, ZenonT(30)
    <3>5. CASE Inside(d, y)
      <4>1. PICK i \in 1 .. Len(Entries[d]) : y \in Below(Entries[d][i])
        BY <3>5, ZenonT(30) DEF Inside
      <4>2. y \in Below(d) /\ y \in Below(e)
        BY <4>1, <2>2, <2>4, BelowEntry, ZenonT(30)
      <4> QED
        BY <4>2, OnePath, ZenonT(30)
    <3> QED
      BY <3>1, <3>3, <3>4, <3>5, <1>1, ZenonT(30) DEF QueueOrder
  <2>5. ASSUME NEW d \in Job, NEW e \in Job, NEW x \in Live, HasDref(x, d),
               NEW y \in Live, HasDref(y, e)
        PROVE  e \in Below(d) \/ d \in Below(e)
    <3>0. /\ x \in Below(d) /\ y \in Below(e)
          /\ ~Inside(x, y) /\ ~Inside(y, x)
      BY <2>2, <2>5, ZenonT(30)
    <3>1. x = y \/ Before(x, y) \/ Before(y, x)
      <4>1. (x \in Queued \/ x \in Held) /\ (y \in Queued \/ y \in Held)
        BY <2>0, LiveJobs, ZenonT(30)
      <4>2. CASE x \in Queued /\ y \in Queued
        BY <4>2, <1>1, ZenonT(30) DEF QueueOrder
      <4>3. CASE x \in Held /\ y \in Queued
        BY <4>3, <3>0, <1>1, ZenonT(30) DEF QueueOrder
      <4>4. CASE x \in Queued /\ y \in Held
        BY <4>4, <3>0, <1>1, ZenonT(30) DEF QueueOrder
      <4>5. CASE x \in Held /\ y \in Held
        <5>1. \E h : Held \subseteq {h}
          <6>1. pc \in {"dequeue", "process", "scan", "readdir", "post", "abort", "exit"}
            BY <1>1, ZenonT(30) DEF SeqInv, BaseTypes
          <6> QED
            BY <6>1, <1>1, ZenonT(30) DEF SeqInv, HoldInv
        <5> QED
          BY <5>1, <4>5, ZenonT(30)
      <4> QED
        BY <4>1, <4>2, <4>3, <4>4, <4>5, ZenonT(30)
    <3>2. CASE x = y
      BY <3>0, <3>2, OnePath, ZenonT(30)
    <3>3. CASE Before(x, y)
      BY <3>0, <3>3, <2>3, <2>5, ZenonT(30)
    <3>4. CASE Before(y, x)
      BY <3>0, <3>4, <2>3, <2>5, ZenonT(30)
    <3> QED
      BY <3>1, <3>2, <3>3, <3>4, ZenonT(30)
  <2>6. ASSUME NEW d \in Job, NEW e \in Job, dref[d] > 0, dref[e] > 0
        PROVE  e \in Below(d) \/ d \in Below(e)
    <3>1. (pc = "readdir" /\ job = d) \/ \E x \in Live : HasDref(x, d)
      BY <2>1, <2>6, ZenonT(30)
    <3>2. (pc = "readdir" /\ job = e) \/ \E y \in Live : HasDref(y, e)
      BY <2>1, <2>6, ZenonT(30)
    <3>3. CASE d = e
      BY <3>3, BelowLeast, ZenonT(30)
    <3>4. CASE d # e
      BY <3>1, <3>2, <3>4, <2>4, <2>5, ZenonT(30)
    <3> QED
      BY <3>3, <3>4, ZenonT(30)
  <2> QED
    BY <2>6, ZenonT(30) DEF OpenDirsOnOnePath
<1> QED
  BY <1>1, OrderAlways, PTL

\* Only entries of the tree get a job.
InTree == \A j \in Job : status[j] # "none" => j \in Below(JOB_INIT)

\* Every step keeps this: it moves on a job that exists, or visits an entry of one.
LEMMA InTreeStep ==
    ASSUME SeqInv, InTree, [Next]_vars
    PROVE  InTree'
<1>0. JOB_INIT \in Job /\ status \in [Job -> Status] /\ \A j \in Live : status[j] # "none" /\ j \in Job
  BY LiveJobs, ZenonT(30) DEF Job, SeqInv, BaseTypes, TaskTypeOK, Live
<1>1. ASSUME NEW x \in Job, x \in Below(JOB_INIT), NEW v, status' = [status EXCEPT ![x] = v]
      PROVE  InTree'
  <2>1. \A j \in Job \ {x} : status'[j] = status[j]
    BY <1>0, <1>1, ZenonT(30)
  <2> QED
    BY <2>1, <1>1, ZenonT(30) DEF InTree
<1>2. ASSUME NEW x \in Live, NEW v, status' = [status EXCEPT ![x] = v]
      PROVE  InTree'
  BY <1>0, <1>1, <1>2, ZenonT(30) DEF InTree
<1>3. ASSUME status' = status
      PROVE  InTree'
  BY <1>3, ZenonT(30) DEF InTree
<1>4. \A h \in Held : h \in Live
  BY <1>0, LiveJobs, ZenonT(30)
<1>5. CASE Exclude \/ OpenOutput \/ EndSpecs \/ OpenDir \/ Read
  <2>1. Held = {job} /\ (status' = status \/ \E v \in Final : status' = [status EXCEPT ![job] = v])
    BY <1>5, StillSets, ZenonT(30)
  <2> QED
    BY <2>1, <1>2, <1>3, <1>4, ZenonT(30)
<1>6. CASE QueueSpec \/ ReadDirEntry
  <2>1. job \in Job /\ Held = {job} /\ HasEntry(job)
    BY <1>6, VisitEffect, ZenonT(30)
  <2>2. PICK v \in Absent \cup {"QUEUED"} : Visit(NextEntry(job), v)
    BY <1>6, VisitEffect, ZenonT(30)
  <2>3. /\ NextEntry(job) \in Job /\ pos[job] + 1 \in 1 .. Len(Entries[job])
        /\ NextEntry(job) = Entries[job][pos[job] + 1]
    BY <2>1, NextEntryFresh, ZenonT(30)
  <2>4. job \in Below(JOB_INIT)
    BY <2>1, <1>0, <1>4, ZenonT(30) DEF InTree
  <2>5. NextEntry(job) \in Below(job)
    BY <2>1, <2>3, BelowEntry, ZenonT(30)
  <2>6. NextEntry(job) \in Below(JOB_INIT)
    BY <2>4, <2>5, <1>0, BelowTrans, ZenonT(30)
  <2> QED
    BY <2>2, <2>3, <2>6, <1>1, ZenonT(30) DEF Visit
<1>7. CASE QueueDir
  BY <1>7, <1>2, QueueDirSets, ZenonT(30)
<1>8. CASE Complete
  BY <1>8, <1>2, CompleteSets, ZenonT(30)
<1>9. CASE (Dequeue /\ jobs_head # NULL) \/ AbortQueued
  <2>1. jobs_head \in Queued /\ \E v : status' = [status EXCEPT ![jobs_head] = v]
    <3>1. jobs_head # NULL /\ pc \in {"dequeue", "abort"}
      BY <1>9, ZenonT(30) DEF Dequeue, AbortQueued, dequeue_job
    <3>2. Waiting = Queued /\ Linked(Waiting, jobs_head, next_job)
      BY <3>1, NotReading, ZenonT(30) DEF SeqInv, QueueInv
    <3> QED
      BY <3>1, <3>2, <1>9, ZenonT(30) DEF Linked, Dequeue, AbortQueued
  <2> QED
    BY <2>1, <1>0, <1>2, LiveJobs, ZenonT(30)
<1>10. CASE (Dequeue /\ jobs_head = NULL) \/ Exit \/ UNCHANGED vars
  <2>1. status' = status
    BY <1>10, ZenonT(30) DEF Dequeue, Exit, vars, taskVars
  <2> QED
    BY <2>1, <1>3, ZenonT(30)
<1> QED
  BY <1>5, <1>6, <1>7, <1>8, <1>9, <1>10, ZenonT(30) DEF Next, Step, Stopped

\* No job is completed, and with it freed, twice.
CompletedOnce == \A n \in 1 .. Len(order) : \A m \in 1 .. n - 1 : order[m] # order[n]

\* _complete_job frees a job once, as no job of the tree precedes itself.
THEOREM SequentialOnce == Spec => []CompletedOnce
<1>1. Init => InTree
  <2> SUFFICES ASSUME Init PROVE InTree
    OBVIOUS
  <2>1. JOB_INIT \in Job /\ \A j \in Job : status[j] # "none" => j = JOB_INIT
    BY DEF Init, init_queue, Job
  <2> QED
    BY <2>1, BelowLeast, ZenonT(30) DEF InTree
<1>2. SeqInv /\ InTree /\ [Next]_vars => InTree'
  BY InTreeStep, ZenonT(30)
<1>3. ASSUME SeqInv, InTree, DoneOrder PROVE CompletedOnce
  <2>1. SUFFICES ASSUME NEW n \in 1 .. Len(order), NEW m \in 1 .. n - 1, order[m] = order[n]
                 PROVE  FALSE
    BY ZenonT(30) DEF CompletedOnce
  <2>2. order[n] \in Job
    BY <1>3 DEF SeqInv, BaseTypes
  <2>3. Precedes(order[n], order[n]) /\ status[order[n]] # "none"
    BY <1>3, <2>1, ZenonT(30) DEF DoneOrder
  <2> QED
    BY <2>2, <2>3, <1>3, PrecedesIrreflexive, ZenonT(30) DEF InTree
<1> QED
  BY <1>1, <1>2, <1>3, OrderAlways, PTL DEF Spec
=============================================================================
