--------------------------- MODULE LockfileProofs ---------------------------
(***************************************************************************)
(* Proofs about Lockfile, for any number of processes, parents, retries    *)
(* and attempts: the lock files implement LockSpec, also with processes    *)
(* that end, unless processes of two owners can find the same stale lock.  *)
(* (Then they do not: see OnlyStaleRemoved.)                               *)
(***************************************************************************)
EXTENDS Lockfile, TLAPS

\* The pids that may stand in a lock file.
Owners == {Owner[p] : p \in Proc}

\* A pid that may end and locks, locks for itself only; and of what may become
\* stale there is at most one owner other than itself whose processes find it. This
\* covers callouts that end while their parents do not, two processes that lock for
\* themselves, and the callouts of one parent that find a file left over.
OneFinder ==
    /\ \A p \in Proc : Owner[p] \in Mortal => Owner[p] = p
    /\ \A x \in (Mortal \cap Owners) \cup Leftover : \A p, q \in Proc :
          Owner[p] # x /\ Owner[q] # x => Owner[p] = Owner[q]

\* Inside of the loop of do_lockfile_lock an attempt is left.
TriesInv ==
    \A p \in Proc : pc[p] \in {"link", "open", "check", "unlink"} => tries[p] > 0

\* The types hold initially, and no process is inside of the loop.
LEMMA TypeInit == Init => TypeOK /\ TriesInv
<1> SUFFICES ASSUME Init PROVE TypeOK /\ TriesInv
  OBVIOUS
<1>1. aged \in BOOLEAN
  BY ZenonT(30) DEF Init
<1>2. tries \in [Proc -> 0..retries + 1] /\ left \in [Proc -> 0..Sessions]
  BY LockAssumption DEF Init
<1>3. lock \in Content \cup {NONE}
  BY LockAssumption DEF Init, Content
<1>4. TriesInv
  BY DEF Init, TriesInv
<1>5. QED
  BY <1>1, <1>2, <1>3, <1>4 DEF Init, TypeOK

\* Every step keeps the types; the loop is entered only while an attempt is left.
LEMMA TypeStep == TypeOK /\ TriesInv /\ [Next]_vars => TypeOK' /\ TriesInv'
<1> SUFFICES ASSUME TypeOK, TriesInv, [Next]_vars PROVE TypeOK' /\ TriesInv'
  OBVIOUS
<1> USE LockAssumption DEF TypeOK, TriesInv, Content, Goto
<1>1. ASSUME NEW p \in Proc, Step(p) PROVE TypeOK' /\ TriesInv'
  <2>1. CASE Lock(p)
    BY <2>1 DEF Lock
  <2>2. CASE Link(p)
    BY <2>2 DEF Link
  <2>3. CASE Open(p)
    BY <2>3 DEF Open
  <2>4. CASE Check(p)
    BY <2>4 DEF Check, Delay
  <2>5. CASE Unlink(p)
    BY <2>5 DEF Unlink
  <2>6. CASE Release(p)
    BY <2>6 DEF Release
  <2>7. CASE ReadOwner(p)
    BY <2>7 DEF ReadOwner
  <2>8. CASE Remove(p)
    BY <2>8 DEF Remove
  <2>9. QED
    BY <1>1, <2>1, <2>2, <2>3, <2>4, <2>5, <2>6, <2>7, <2>8 DEF Step
<1>2. CASE \E x \in Pid : Die(x)
  BY <1>2 DEF Die
<1>3. CASE Age
  BY <1>3 DEF Age
<1>4. CASE UNCHANGED vars
  BY <1>4 DEF vars
<1>5. QED
  BY <1>1, <1>2, <1>3, <1>4 DEF Next

\* The variables keep their types; in particular the attempts left never drop
\* below zero, where the unsigned counter of do_lockfile_lock would wrap.
THEOREM LockTypeCorrect == Spec => []TypeOK
<1>1. Spec => [](TypeOK /\ TriesInv)
  BY TypeInit, TypeStep, PTL DEF Spec
<1>2. QED
  BY <1>1, PTL

-----------------------------------------------------------------------------
(***************************************************************************)
(* The lock.                                                               *)
(***************************************************************************)

\* What a process that is at work has read and may find stale is still in the file,
\* or there is no file: only the process whose pid it is could have changed it.
\* Whoever releases the lock finds it, and a parent has one callout at work.
AtProc(p) ==
    /\ pc[p] = "dead" <=> p \notin alive
    /\ pc[p] \in {"release", "remove"} => lock = Owner[p] /\ Owner[p] \in holding
    /\ pc[p] \in {"check", "unlink"} =>
          /\ seen[p] \in Owners \cup Leftover
          /\ seen[p] \in Mortal \cup Leftover /\ seen[p] # Owner[p] => lock \in {seen[p], NONE}
    /\ pc[p] = "unlink" => seen[p] \notin alive
    /\ pc[p] \notin {"idle", "dead"} => \A q \in Proc \ {p} :
          Owner[q] = Owner[p] => pc[q] \in {"idle", "dead"}

\* The inductive invariant: the pid in the file is the one that was told so, if it
\* exists.
FileInv ==
    /\ lock \in Owners \cup Leftover \cup {NONE}
    /\ Pid \ Mortal \subseteq alive
    /\ \A x \in holding \cap alive : lock = x
    /\ \A p \in Proc : AtProc(p)

\* The owner of a process that has not ended exists.
LEMMA OwnerAlive ==
    ASSUME OneFinder, TypeOK, FileInv, NEW p \in Proc, pc[p] # "dead"
    PROVE  Owner[p] \in alive
<1>1. Owner[p] \in Pid /\ p \in alive
  BY LockAssumption DEF FileInv, AtProc
<1> QED
  BY <1>1 DEF OneFinder, FileInv, AtProc

\* What is removed as stale is not the lock of a process that exists.
LEMMA UnlinkStale ==
    ASSUME OneFinder, TypeOK, FileInv, NEW p \in Proc, pc[p] = "unlink"
    PROVE  lock \notin alive
<1>1. seen[p] \in Owners \cup Leftover /\ seen[p] \notin alive
  BY DEF FileInv, AtProc
<1>2. Owner[p] \in alive
  BY OwnerAlive
<1>3. Owners \subseteq Pid /\ Pid \ Mortal \subseteq alive
  BY LockAssumption DEF Owners, FileInv
<1>4. seen[p] \in Mortal \cup Leftover /\ seen[p] # Owner[p]
  BY <1>1, <1>2, <1>3, Zenon
<1>5. lock \in {seen[p], NONE}
  BY <1>4 DEF FileInv, AtProc
<1>6. NONE \notin alive
  BY LockAssumption DEF TypeOK
<1> QED
  BY <1>1, <1>5, <1>6, Zenon

\* While p looks at a lock that may be stale, a process that is at work and is not p
\* is the one whose pid is in it.
LEMMA OtherIsOwner ==
    ASSUME OneFinder, TypeOK, FileInv, NEW p \in Proc, NEW q \in Proc, q # p,
           pc[p] \in {"check", "unlink"}, pc[q] \notin {"idle", "dead"},
           seen[p] \in Mortal \cup Leftover, seen[p] # Owner[p]
    PROVE  Owner[q] = seen[p]
<1>1. seen[p] \in (Mortal \cap Owners) \cup Leftover
  <2>1. seen[p] \in Owners \cup Leftover
    BY Zenon DEF FileInv, AtProc
  <2> QED
    BY <2>1, Zenon
<1>2. pc[p] \notin {"idle", "dead"}
  OBVIOUS
<1>3. Owner[q] # Owner[p]
  BY <1>2, Zenon DEF FileInv, AtProc
<1> QED
  BY <1>1, <1>3, Zenon DEF OneFinder

\* At the start no process is at work.
LEMMA FileInit == ASSUME Init PROVE FileInv /\ Abstract!Init
<1>1. ASSUME NEW p \in Proc PROVE pc[p] = "idle" /\ p \in alive
  BY LockAssumption DEF Init
<1>2. FileInv
  BY <1>1 DEF Init, FileInv, AtProc
<1> QED
  BY <1>2 DEF Init, Abstract!Init

\* A step that leaves the file alone, and in which p alone moves.
LEMMA KeepsFile ==
    ASSUME TypeOK, FileInv, NEW p \in Proc, NEW l, Goto(p, l), UNCHANGED <<lock, alive, holding>>,
           \A q \in Proc \ {p} : seen'[q] = seen[q],
           l = "idle" \/ pc[p] # "idle" \/ Sequential(p), pc[p] # "dead",
           AtProc(p)'
    PROVE  FileInv' /\ UNCHANGED Abstract!vars
<1>1. pc'[p] = l /\ \A q \in Proc \ {p} : pc'[q] = pc[q]
  BY DEF Goto, TypeOK
<1>2. ASSUME NEW q \in Proc, q # p PROVE AtProc(q)'
  <2>1. AtProc(q)
    BY DEF FileInv
  <2>2. ASSUME pc[q] \notin {"idle", "dead"}, Owner[q] = Owner[p] PROVE l = "idle"
    <3>1. pc[p] = "idle"
      BY <1>2, <2>1, <2>2, Zenon DEF AtProc
    <3>2. ~Sequential(p)
      BY <2>2, Zenon DEF Sequential
    <3> QED
      BY <3>1, <3>2
  <2>3. pc'[q] = pc[q] /\ seen'[q] = seen[q]
    BY <1>1, <1>2
  <2>4. pc'[q] \notin {"idle", "dead"} => \A r \in Proc \ {q} :
            Owner[r] = Owner[q] => pc'[r] \in {"idle", "dead"}
    BY <1>1, <2>1, <2>2, <2>3, ZenonT(30) DEF AtProc
  <2> QED
    BY <2>1, <2>3, <2>4, ZenonT(30) DEF AtProc
<1> QED
  BY <1>2, ZenonT(30) DEF FileInv, Abstract!vars

\* A process at work moves on to where nothing is known of the file.
LEMMA MovesOn ==
    ASSUME TypeOK, FileInv, NEW p \in Proc, NEW l \in {"link", "open", "idle"}, Goto(p, l),
           pc[p] \notin {"idle", "dead"}, UNCHANGED alive
    PROVE  AtProc(p)'
<1>1. pc'[p] = l /\ \A q \in Proc \ {p} : pc'[q] = pc[q]
  BY DEF Goto, TypeOK
<1>2. AtProc(p)
  BY DEF FileInv
<1>3. pc'[p] # "dead" /\ pc'[p] \notin {"release", "remove", "check", "unlink"} /\ p \in alive
  BY <1>1, <1>2 DEF AtProc
<1>4. \A q \in Proc \ {p} : Owner[q] = Owner[p] => pc'[q] \in {"idle", "dead"}
  BY <1>1, <1>2, ZenonT(30) DEF AtProc
<1> QED
  BY <1>3, <1>4, ZenonT(30) DEF AtProc

\* The file changes by a step of p, which is at work: for the others this is what they
\* know of the file.
LEMMA ChangesFile ==
    ASSUME OneFinder, TypeOK, FileInv, NEW p \in Proc, NEW l \in {"link", "idle"}, Goto(p, l),
           pc[p] \notin {"idle", "dead"}, lock' \in {Owner[p], NONE},
           UNCHANGED <<seen, alive>>,
           \A q \in Proc : pc[q] \in {"release", "remove"} => q = p,
           \A x \in holding' \cap alive : lock' = x
    PROVE  FileInv'
<1>1. pc'[p] = l /\ \A q \in Proc \ {p} : pc'[q] = pc[q]
  BY DEF Goto, TypeOK
<1>2. ASSUME NEW q \in Proc, q # p PROVE AtProc(q)'
  <2>1. AtProc(q) /\ pc'[q] = pc[q] /\ pc[q] \notin {"release", "remove"}
    BY <1>1, <1>2, Zenon DEF FileInv
  <2>2. ASSUME pc[q] \in {"check", "unlink"}, seen[q] \in Mortal \cup Leftover, seen[q] # Owner[q]
        PROVE  lock' \in {seen[q], NONE}
    BY <1>2, <2>2, OtherIsOwner
  <2>3. pc'[q] \notin {"idle", "dead"} => \A r \in Proc \ {q} :
            Owner[r] = Owner[q] => pc'[r] \in {"idle", "dead"}
    <3>1. ASSUME pc[q] \notin {"idle", "dead"}, Owner[p] = Owner[q] PROVE FALSE
      BY <1>2, <2>1, <3>1, Zenon DEF AtProc
    <3> QED
      BY <1>1, <2>1, <3>1, ZenonT(30) DEF AtProc
  <2> QED
    BY <2>1, <2>2, <2>3, ZenonT(30) DEF AtProc
<1>3. AtProc(p)'
  BY MovesOn
<1>4. lock' \in Owners \cup Leftover \cup {NONE}
  BY DEF Owners
<1> QED
  BY <1>2, <1>3, <1>4, ZenonT(30) DEF FileInv

\* Every step of a process is one of the lock specification, or leaves the lock alone.
LEMMA ProcStep ==
    ASSUME OneFinder, TypeOK, FileInv, NEW p \in Proc, Step(p)
    PROVE  FileInv' /\ [Abstract!Next]_(Abstract!vars)
<1>0. Owner[p] \in Pid /\ AtProc(p)
  BY LockAssumption DEF FileInv
<1>1. CASE Lock(p)
  <2>1. PICK l \in {"link", "idle"} : Goto(p, l)
    <3>1. CASE UNCHANGED pc
      BY <1>1, <3>1 DEF Lock, Goto, TypeOK
    <3> QED
      BY <1>1, <3>1 DEF Lock
  <2>2. pc'[p] = l /\ \A q \in Proc \ {p} : pc'[q] = pc[q]
    BY <2>1 DEF Goto, TypeOK
  <2>3. AtProc(p)'
    BY <1>0, <1>1, <2>2 DEF Lock, Sequential, AtProc
  <2> QED
    BY <1>1, <2>1, <2>3, KeepsFile, ZenonT(30) DEF Lock
<1>2. CASE Link(p)
  <2>1. pc[p] = "link" /\ UNCHANGED <<alive, seen>>
    BY <1>2 DEF Link
  <2>2. CASE /\ lock = NONE /\ lock' = Owner[p]
             /\ holding' = holding \cup {Owner[p]} /\ Goto(p, "idle")
    <3>1. \A q \in Proc : pc[q] \notin {"release", "remove"}
      BY <2>2, LockAssumption DEF FileInv, AtProc
    <3>2. \A x \in holding' \cap alive : lock' = x
      BY <2>2, LockAssumption DEF FileInv, TypeOK
    <3>3. FileInv'
      BY <2>1, <2>2, <3>1, <3>2, ChangesFile
    <3>4. Abstract!Acquire(Owner[p])
      BY <2>1, <2>2 DEF Abstract!Acquire
    <3> QED
      BY <1>0, <3>3, <3>4, Zenon DEF Abstract!Next
  <2>3. CASE Goto(p, "open") /\ UNCHANGED <<lock, holding>>
    <3>1. AtProc(p)'
      BY <2>1, <2>3, MovesOn
    <3> QED
      BY <2>1, <2>3, <3>1, KeepsFile, ZenonT(30)
  <2> QED
    BY <1>2, <2>2, <2>3, Zenon DEF Link
<1>3. CASE Open(p)
  <2>1. /\ pc[p] = "open" /\ UNCHANGED <<lock, alive, holding>>
        /\ seen'[p] = lock /\ \A q \in Proc \ {p} : seen'[q] = seen[q]
    BY <1>3 DEF Open, TypeOK
  <2>2. CASE lock = NONE /\ Goto(p, "link")
    <3>1. AtProc(p)'
      BY <2>1, <2>2, MovesOn
    <3> QED
      BY <2>1, <2>2, <3>1, KeepsFile, ZenonT(30)
  <2>3. CASE lock # NONE /\ Goto(p, "check")
    <3>1. pc'[p] = "check" /\ \A q \in Proc \ {p} : pc'[q] = pc[q]
      BY <2>3 DEF Goto, TypeOK
    <3>2. lock \in Owners \cup Leftover
      BY <2>3 DEF FileInv
    <3>3. AtProc(p)'
      BY <1>0, <2>1, <3>1, <3>2 DEF AtProc
    <3> QED
      BY <2>1, <2>3, <3>3, KeepsFile, ZenonT(30)
  <2> QED
    BY <1>3, <2>2, <2>3 DEF Open
<1>4. CASE Check(p)
  <2>1. pc[p] = "check" /\ UNCHANGED <<lock, alive, seen, holding>>
    BY <1>4 DEF Check
  <2>2. CASE \E l \in {"link", "idle"} : Goto(p, l)
    <3>1. PICK l \in {"link", "idle"} : Goto(p, l)
      BY <2>2
    <3>2. AtProc(p)'
      BY <2>1, <3>1, MovesOn
    <3> QED
      BY <2>1, <3>1, <3>2, KeepsFile, ZenonT(30)
  <2>3. CASE Goto(p, "unlink") /\ seen[p] \notin alive
    <3>1. pc'[p] = "unlink" /\ \A q \in Proc \ {p} : pc'[q] = pc[q]
      BY <2>3 DEF Goto, TypeOK
    <3>2. AtProc(p)'
      BY <1>0, <2>1, <2>3, <3>1 DEF AtProc
    <3> QED
      BY <2>1, <2>3, <3>2, KeepsFile, ZenonT(30)
  <2>4. EMPTY \notin alive
    BY LockAssumption DEF TypeOK
  <2> QED
    BY <1>4, <2>2, <2>3, <2>4 DEF Check, Delay
<1>5. CASE Unlink(p)
  <2>1. /\ pc[p] = "unlink" /\ lock' = NONE /\ Goto(p, "link")
        /\ UNCHANGED <<alive, seen, holding>>
    BY <1>5 DEF Unlink
  <2>2. lock \notin alive
    BY <2>1, UnlinkStale
  <2>3. \A x \in holding \cap alive : FALSE
    BY <2>2 DEF FileInv
  <2>4. \A q \in Proc : pc[q] \notin {"release", "remove"}
    <3>1. ASSUME NEW q \in Proc, pc[q] \in {"release", "remove"} PROVE FALSE
      <4>1. pc[q] # "dead" /\ lock = Owner[q]
        BY <3>1 DEF FileInv, AtProc
      <4> QED
        BY <2>2, <4>1, OwnerAlive
    <3> QED
      BY <3>1
  <2>5. FileInv'
    BY <2>1, <2>3, <2>4, ChangesFile
  <2>6. Abstract!Expire
    BY <2>1, <2>2 DEF Abstract!Expire
  <2> QED
    BY <2>5, <2>6, Zenon DEF Abstract!Next
<1>6. CASE Release(p)
  <2>1. /\ pc[p] = "idle" /\ Goto(p, "release") /\ Sequential(p) /\ Owner[p] \in holding
        /\ UNCHANGED <<lock, alive, seen, holding>>
    BY <1>6 DEF Release
  <2>2. pc'[p] = "release" /\ \A q \in Proc \ {p} : pc'[q] = pc[q]
    BY <2>1 DEF Goto, TypeOK
  <2>3. lock = Owner[p]
    BY <2>1, OwnerAlive DEF FileInv
  <2>4. AtProc(p)'
    BY <1>0, <2>1, <2>2, <2>3 DEF Sequential, AtProc
  <2> QED
    BY <2>1, <2>4, KeepsFile, ZenonT(30)
<1>7. CASE ReadOwner(p)
  <2>1. pc[p] = "release" /\ UNCHANGED <<lock, alive, seen>> /\ lock = Owner[p]
    BY <1>0, <1>7 DEF ReadOwner, AtProc
  <2>2. Goto(p, "remove") /\ UNCHANGED holding
    BY <1>7, <2>1 DEF ReadOwner
  <2>3. pc'[p] = "remove" /\ \A q \in Proc \ {p} : pc'[q] = pc[q]
    BY <2>2 DEF Goto, TypeOK
  <2>4. AtProc(p)'
    BY <1>0, <2>1, <2>2, <2>3 DEF AtProc
  <2> QED
    BY <2>1, <2>2, <2>4, KeepsFile, ZenonT(30)
<1>8. CASE Remove(p)
  <2>1. /\ pc[p] = "remove" /\ lock' = NONE /\ Goto(p, "idle")
        /\ holding' = holding \ {Owner[p]} /\ UNCHANGED <<alive, seen>>
        /\ lock = Owner[p] /\ Owner[p] \in holding
    BY <1>0, <1>8 DEF Remove, AtProc
  <2>2. \A q \in Proc : pc[q] \in {"release", "remove"} => q = p
    BY <1>0, <2>1 DEF FileInv, AtProc
  <2>3. \A x \in holding' \cap alive : lock' = x
    BY <2>1 DEF FileInv
  <2>4. FileInv'
    BY <2>1, <2>2, <2>3, ChangesFile
  <2>5. Abstract!Release(Owner[p])
    BY <2>1 DEF Abstract!Release
  <2> QED
    BY <1>0, <2>4, <2>5, Zenon DEF Abstract!Next
<1> QED
  BY <1>1, <1>2, <1>3, <1>4, <1>5, <1>6, <1>7, <1>8 DEF Step

\* A process may end at any point: its lock stays, for others to find it stale.
LEMMA DieStep ==
    ASSUME TypeOK, FileInv, NEW x \in Pid, Die(x)
    PROVE  FileInv' /\ [Abstract!Next]_(Abstract!vars)
<1>1. /\ x \in Mortal /\ alive' = alive \ {x} /\ UNCHANGED <<lock, seen, holding>>
      /\ \A q \in Proc : pc'[q] = IF q = x THEN "dead" ELSE pc[q]
  BY DEF Die
<1>2. ASSUME NEW q \in Proc PROVE AtProc(q)'
  <2>1. AtProc(q) /\ \A r \in Proc : pc[r] \in {"idle", "dead"} => pc'[r] \in {"idle", "dead"}
    BY <1>1 DEF FileInv
  <2>2. CASE q = x
    BY <1>1, <2>2 DEF AtProc
  <2>3. CASE q # x
    <3>1. pc'[q] = pc[q] /\ (q \in alive' <=> q \in alive)
      BY <1>1, <2>3
    <3> QED
      BY <1>1, <2>1, <3>1, ZenonT(30) DEF AtProc
  <2> QED
    BY <2>2, <2>3
<1>3. FileInv'
  BY <1>1, <1>2, ZenonT(30) DEF FileInv
<1>4. Abstract!Die(x)
  BY <1>1, Zenon DEF Abstract!Die
<1> QED
  BY <1>3, <1>4, Zenon DEF Abstract!Next

\* Every step is one of the lock specification, or leaves the lock alone.
LEMMA FileStep ==
    ASSUME OneFinder, TypeOK, FileInv, [Next]_vars
    PROVE  FileInv' /\ [Abstract!Next]_(Abstract!vars)
<1>1. CASE \E p \in Proc : Step(p)
  BY <1>1, ProcStep, Zenon
<1>2. CASE \E x \in Pid : Die(x)
  BY <1>2, DieStep, Zenon
<1>3. CASE Age \/ UNCHANGED vars
  <2>1. UNCHANGED <<lock, alive, pc, seen, holding>>
    BY <1>3, Zenon DEF Age, vars
  <2> QED
    BY <2>1, ZenonT(30) DEF FileInv, AtProc, Abstract!vars
<1> QED
  BY <1>1, <1>2, <1>3, Zenon DEF Next

\* The lock files implement the lock specification, with processes that end at any
\* point: nobody that exists loses a lock before releasing it, what a holder
\* releases is its own lock, and the lock of a process that is gone is taken over
\* by one process only.
THEOREM LockImplemented == ASSUME OneFinder PROVE Spec => ImplementsLock
<1>1. Init => FileInv /\ Abstract!Init
  BY FileInit, Zenon
<1>2. TypeOK /\ FileInv /\ [Next]_vars => FileInv' /\ [Abstract!Next]_(Abstract!vars)
  BY OneFinder, FileStep, Zenon
<1> QED
  BY <1>1, <1>2, LockTypeCorrect, PTL DEF Spec, ImplementsLock, Abstract!Spec

\* The invariant holds throughout.
LEMMA FileAlways == ASSUME OneFinder PROVE Spec => [](TypeOK /\ FileInv)
<1>1. Init => FileInv
  BY FileInit, Zenon
<1>2. TypeOK /\ FileInv /\ [Next]_vars => FileInv'
  BY OneFinder, FileStep, Zenon
<1> QED
  BY <1>1, <1>2, LockTypeCorrect, PTL DEF Spec

\* The lock excludes: of the pids that exist at most one has the lock.
THEOREM LockExcludes == ASSUME OneFinder PROVE Spec => []MutualExclusion
<1>1. FileInv => MutualExclusion
  BY Zenon DEF FileInv, MutualExclusion
<1> QED
  BY <1>1, FileAlways, OneFinder, PTL

\* handle_stale_lock removes no lock but a stale one, although it calls unlink
\* without looking at the file again.
THEOREM StaleLocksRemoved == ASSUME OneFinder PROVE Spec => OnlyStaleRemoved
<1> DEFINE Removes == \A p \in Proc : pc[p] = "unlink" /\ pc'[p] = "link" => lock \notin alive
<1>1. TypeOK /\ FileInv /\ [Next]_vars => [Removes]_vars
  BY OneFinder, UnlinkStale, Zenon
<1>2. Spec => [][Removes]_vars
  BY <1>1, FileAlways, OneFinder, PTL DEF Spec
<1> QED
  BY <1>2, Zenon DEF OnlyStaleRemoved
=============================================================================
