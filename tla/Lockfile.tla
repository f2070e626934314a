------------------------------ MODULE Lockfile ------------------------------
(***************************************************************************)
(* The lock files of libutil/util_lockfile.c, as libap uses them for the   *)
(* AP configuration: processes that lock and release one file, on behalf   *)
(* of themselves (zdev) or of their parent (the mdevctl callout ap-check), *)
(* and that may die at any point.                                          *)
(*                                                                         *)
(* Every system call that other processes can observe is a step.  A lock   *)
(* file gets its contents before link makes it appear, so that what a file *)
(* descriptor shows never changes: the file is represented by the pid in   *)
(* it, or by EMPTY if it came into being in another way and holds no pid.  *)
(***************************************************************************)
EXTENDS Integers, FiniteSets

CONSTANTS
    Proc,     \* processes that use the lock
    Pid,      \* process ids: those of the processes and of their parents
    Owner,    \* the pid a process passes to the functions
    Mortal,   \* the pids that may end
    NONE,     \* there is no lock file
    EMPTY,    \* a lock file without a pid
    Leftover, \* what may be found initially
    GONE,     \* a pid that ended before
    retries,  \* how often a locking attempt is repeated
    Sessions, \* how many locking attempts a process makes
    Faults    \* the failures the environment may produce

ASSUME LockAssumption ==
    /\ Proc \subseteq Pid
    /\ Owner \in [Proc -> Pid]
    /\ Mortal \subseteq Pid
    /\ NONE \notin Pid /\ EMPTY \notin Pid /\ GONE \notin Pid
    /\ NONE \notin {EMPTY, GONE}
    /\ Leftover \subseteq {EMPTY, GONE}
    /\ retries \in Nat
    /\ Sessions \in Nat

VARIABLES
    lock,    \* the lock file: NONE, EMPTY or the pid in it
    aged,    \* the EMPTY file is older than WAITPID
    alive,   \* the pids that exist
    pc,      \* where a process is
    seen,    \* what it read from the lock file
    tries,   \* do_lockfile_lock's tries
    left,    \* locking attempts to come
    holding  \* the pids that were told that they have the lock

vars == <<lock, aged, alive, pc, seen, tries, left, holding>>

Content == Pid \cup {GONE, EMPTY}

\* The types of the variables.
TypeOK ==
    /\ lock \in Content \cup {NONE}
    /\ aged \in BOOLEAN
    /\ alive \subseteq Pid
    /\ pc \in [Proc -> {"idle", "link", "open", "check", "unlink", "release",
                        "remove", "dead"}]
    /\ seen \in [Proc -> Content \cup {NONE}]
    /\ tries \in [Proc -> 0..retries + 1]
    /\ left \in [Proc -> 0..Sessions]
    /\ holding \subseteq Pid

Init ==
    /\ lock \in Leftover \cup {NONE}
    /\ aged = FALSE
    /\ alive = Pid
    /\ pc = [p \in Proc |-> "idle"]
    /\ seen = [p \in Proc |-> NONE]
    /\ tries = [p \in Proc |-> 0]
    /\ left \in [Proc -> 0..Sessions]
    /\ holding = {}

Goto(p, l) == pc' = [pc EXCEPT ![p] = l]

\* A parent runs one callout at a time.
Sequential(p) ==
    \A q \in Proc : Owner[q] = Owner[p] => pc[q] \in {"idle", "dead"}

(***************************************************************************)
(* do_lockfile_lock.                                                       *)
(***************************************************************************)
\* The temporary file is created and the pid written to it, or this fails.
Lock(p) ==
    /\ pc[p] = "idle"
    /\ left[p] > 0
    /\ Sequential(p)
    /\ left' = [left EXCEPT ![p] = @ - 1]
    /\ tries' = [tries EXCEPT ![p] = retries + 1]
    /\ \/ Goto(p, "link")
       \/ "temp" \in Faults /\ UNCHANGED pc
    /\ UNCHANGED <<lock, aged, alive, seen, holding>>

Link_OwnPid(p) ==
    /\ pc[p] = "link"
    /\ IF lock = NONE
       THEN /\ lock' = p
            /\ holding' = holding \cup {Owner[p]}
            /\ Goto(p, "idle")
       ELSE /\ Goto(p, "open")
            /\ UNCHANGED <<lock, holding>>
    /\ UNCHANGED <<aged, alive, seen, tries, left>>

\* link fails if there is a lock file, and perhaps for another reason; both are
\* treated alike.
Link(p) ==
    /\ pc[p] = "link"
    /\ \/ /\ lock = NONE
          /\ lock' = Owner[p]
          /\ holding' = holding \cup {Owner[p]}
          /\ Goto(p, "idle")
       \/ /\ lock # NONE \/ "link" \in Faults
          /\ Goto(p, "open")
          /\ UNCHANGED <<lock, holding>>
    /\ UNCHANGED <<aged, alive, seen, tries, left>>

Delay_Uncounted(p) ==
    /\ Goto(p, "link")
    /\ UNCHANGED tries

\* handle_stale_lock returned 1: wait and try again, or give up.
Delay(p) ==
    /\ tries' = [tries EXCEPT ![p] = @ - 1]
    /\ Goto(p, IF tries[p] > 1 THEN "link" ELSE "idle")

(***************************************************************************)
(* handle_stale_lock.                                                      *)
(***************************************************************************)
\* open and read; a file that cannot be opened is retried immediately.
Open(p) ==
    /\ pc[p] = "open"
    /\ seen' = [seen EXCEPT ![p] = lock]
    /\ Goto(p, IF lock = NONE THEN "link" ELSE "check")
    /\ UNCHANGED <<lock, aged, alive, tries, left, holding>>

Check_NoneStale(p) ==
    /\ pc[p] = "check"
    /\ Delay(p)
    /\ UNCHANGED <<lock, aged, alive, seen, left, holding>>

\* pid_exists and, for a file without a pid, the comparison of its age.
Check(p) ==
    /\ pc[p] = "check"
    /\ \/ /\ seen[p] # EMPTY
          /\ seen[p] \notin alive
          /\ Goto(p, "unlink")
          /\ UNCHANGED tries
       \/ /\ seen[p] \in alive
          /\ Delay(p)
       \/ /\ seen[p] = EMPTY
          /\ \/ aged /\ Goto(p, "unlink") /\ UNCHANGED tries
             \/ ~aged /\ Delay(p)
             \/ "fstat" \in Faults /\ Goto(p, "link") /\ UNCHANGED tries
    /\ UNCHANGED <<lock, aged, alive, seen, left, holding>>

\* unlink removes whatever lock file there is by now.
Unlink(p) ==
    /\ pc[p] = "unlink"
    /\ lock' = NONE
    /\ Goto(p, "link")
    /\ UNCHANGED <<aged, alive, seen, tries, left, holding>>

(***************************************************************************)
(* do_lockfile_release, called by the holder or by another callout of the  *)
(* holding parent.                                                         *)
(***************************************************************************)
Release(p) ==
    /\ pc[p] = "idle"
    /\ Owner[p] \in holding
    /\ Sequential(p)
    /\ Goto(p, "release")
    /\ UNCHANGED <<lock, aged, alive, seen, tries, left, holding>>

\* open, read and the comparison with the pid: if they fail nothing is removed.
ReadOwner(p) ==
    /\ pc[p] = "release"
    /\ IF lock = Owner[p]
       THEN Goto(p, "remove") /\ UNCHANGED holding
       ELSE Goto(p, "idle") /\ holding' = holding \ {Owner[p]}
    /\ UNCHANGED <<lock, aged, alive, seen, tries, left>>

Remove(p) ==
    /\ pc[p] = "remove"
    /\ lock' = NONE
    /\ holding' = holding \ {Owner[p]}
    /\ Goto(p, "idle")
    /\ UNCHANGED <<aged, alive, seen, tries, left>>

(***************************************************************************)
(* The environment.                                                        *)
(***************************************************************************)
Die(x) ==
    /\ x \in Mortal \cap alive
    /\ alive' = alive \ {x}
    /\ pc' = [p \in Proc |-> IF p = x THEN "dead" ELSE pc[p]]
    /\ UNCHANGED <<lock, aged, seen, tries, left, holding>>

Age ==
    /\ ~aged
    /\ aged' = TRUE
    /\ UNCHANGED <<lock, alive, pc, seen, tries, left, holding>>

Step(p) ==
    \/ Lock(p) \/ Link(p) \/ Open(p) \/ Check(p) \/ Unlink(p)
    \/ Release(p) \/ ReadOwner(p) \/ Remove(p)

Next == (\E p \in Proc : Step(p)) \/ (\E x \in Pid : Die(x)) \/ Age

Spec == Init /\ [][Next]_vars

\* Every process gets its turn, time goes on, and neither fstat nor link fails
\* forever.
Fairness ==
    /\ WF_vars(Age)
    /\ \A p \in Proc : /\ WF_vars(Step(p))
                       /\ SF_vars(Check(p) /\ pc'[p] = "unlink")
                       /\ SF_vars(Link(p) /\ pc'[p] = "idle")

(***************************************************************************)
(* Properties.                                                             *)
(***************************************************************************)
\* The lock excludes: of the pids that exist at most one has the lock.
MutualExclusion == \A x, y \in holding \cap alive : x = y

\* handle_stale_lock: "In the case a stale lock is found, remove it."  It
\* removes no other.
OnlyStaleRemoved ==
    [][\A p \in Proc : pc[p] = "unlink" /\ pc'[p] = "link" => lock \notin alive]_vars

\* A lock that an ended process left behind does not block others for good: a
\* process that is the only one to use the lock gets it, in spite of what it
\* finds, if it does not give up while the file could still be a new one.
Alone(p) ==
    /\ pc[p] = "link"
    /\ \A x \in alive \ {p} : x \notin Proc /\ x # lock
    /\ lock = EMPTY => aged

StaleLockTaken ==
    \A p \in Proc : Alone(p) ~> (Owner[p] \in holding \/ pc[p] = "dead")

\* Every locking attempt comes to an end, with or without the lock.
AttemptsEnd ==
    \A p \in Proc : pc[p] = "link" ~> pc[p] \in {"idle", "dead"}

\* The lock files implement the lock specification.
Abstract == INSTANCE LockSpec
              WITH holder <- lock, Stale <- Leftover

ImplementsLock == Abstract!Spec
=============================================================================
