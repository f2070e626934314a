------------------------------ MODULE LockSpec ------------------------------
(***************************************************************************)
(* What a lock file promises its users (libutil/util_lockfile.c): a lock   *)
(* that is held on behalf of a pid, released by its holder only, and       *)
(* taken away from nobody but a process that has ended.                    *)
(***************************************************************************)
CONSTANTS
    Pid,    \* the process ids
    Mortal, \* those that may end
    Stale,  \* owners of lock files that are left over from earlier processes
    NONE    \* no owner

VARIABLES
    holder,  \* whose lock it is
    holding, \* the pids that were given the lock and have not released it
    alive    \* the pids that exist

vars == <<holder, holding, alive>>

Init ==
    /\ holder \in Stale \cup {NONE}
    /\ holding = {}
    /\ alive = Pid

Acquire(x) ==
    /\ holder = NONE
    /\ holder' = x
    /\ holding' = holding \cup {x}
    /\ UNCHANGED alive

Release(x) ==
    /\ holder = x
    /\ x \in holding
    /\ holder' = NONE
    /\ holding' = holding \ {x}
    /\ UNCHANGED alive

\* A lock whose owner is gone is removed.
Expire ==
    /\ holder \notin alive
    /\ holder' = NONE
    /\ UNCHANGED <<holding, alive>>

Die(x) ==
    /\ x \in Mortal
    /\ alive' = alive \ {x}
    /\ UNCHANGED <<holder, holding>>

Next ==
    \/ \E x \in Pid : Acquire(x) \/ Release(x) \/ Die(x)
    \/ Expire

Spec == Init /\ [][Next]_vars
=============================================================================
