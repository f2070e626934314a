----------------------------- MODULE MCLockfile -----------------------------
(***************************************************************************)
(* Small instances of Lockfile for TLC.                                    *)
(***************************************************************************)
EXTENDS Lockfile

CONSTANTS z1, z2, z3, mdevctl

\* Processes that lock for themselves.
OwnPid == [p \in Proc |-> p]

\* z1 and z2 are callouts of mdevctl.
ParentPid == [p \in Proc |-> IF p \in {z1, z2} THEN mdevctl ELSE p]

\* The callouts make Sessions attempts each and z3 one. Where a lock is left over,
\* the callouts find it by themselves, one at a time: what happens when several
\* processes find the same stale lock is the subject of LockRace.
Attempts == [p \in Proc |-> IF p # z3 THEN Sessions ELSE IF lock = NONE THEN 1 ELSE 0]
CalloutInit == Init /\ left = Attempts
CalloutSpec == CalloutInit /\ [][Next]_vars /\ Fairness
=============================================================================
