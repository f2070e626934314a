------------------------------ MODULE DumpOrder -----------------------------
(***************************************************************************)
(* The order in which dump2tar completes the jobs when it works without    *)
(* threads, and the directories that are open at the same time, compared   *)
(* with the depth-first order of the tree.                                 *)
(***************************************************************************)
EXTENDS DumpSequential

\* A set of jobs that holds with every job its entries.
Closed(S) == \A x \in S : \A i \in 1..Len(Entries[x]) : Entries[x][i] \in S

\* Job d and everything below it: what every closed set with d holds.
Subtree(d) == {j \in Job : \A S \in SUBSET Job : d \in S /\ Closed(S) => j \in S}

\* All of that as one relation, which depends on the tree alone.
Reaches == UNION {{d} \X Subtree(d) : d \in Job}

Below(d) == {j \in Job : <<d, j>> \in Reaches}

\* y is below x, but not x itself.
Inside(x, y) == \E i \in 1..Len(Entries[x]) : y \in Below(Entries[x][i])

\* x is, or is below, an entry that its directory lists before the one that y is,
\* or is below.
Beside(x, y) ==
    \E d \in Job : \E k \in 1..Len(Entries[d]) : \E i \in 1..k - 1 :
        x \in Below(Entries[d][i]) /\ y \in Below(Entries[d][k])

\* The depth-first order of the tree: every directory comes before its contents,
\* which come in the order in which readdir returned them.
Precedes(x, y) == Inside(x, y) \/ Beside(x, y)

\* The program works depth first although the queue is shared by command line
\* and directories: the jobs are completed in the depth-first order, those that
\* were created and are not completed come after the ones that are, and at a
\* normal end all of them are completed.
DepthFirst ==
    LET left == {j \in Job : status[j] \notin Absent /\ \A n \in 1..Len(order) : order[n] # j}
    IN  /\ \A n \in 1..Len(order) : \A m \in 1..n - 1 : Precedes(order[m], order[n])
        /\ \A n \in 1..Len(order) : \A j \in left : Precedes(order[n], j)
        /\ pc = "exit" /\ ~aborted => left = {}

\* The directories that are open at the same time lie on one path of the tree:
\* queue_jobs puts what was found in a directory before everything else, so the
\* number of handles is bounded by the depth of the tree and not by its breadth.
OpenDirsOnOnePath ==
    \A d, e \in {k \in Job : dref[k] > 0} : e \in Below(d) \/ d \in Below(e)
=============================================================================
