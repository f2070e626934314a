-------------------------- MODULE MCDumpSequential --------------------------
(***************************************************************************)
(* Small instances for TLC of dump2tar's work one job at a time, side by   *)
(* side: DumpSequential with and without --recursive, and DumpBuffer. A    *)
(* behaviour is one of the instance that part names.                       *)
(***************************************************************************)
EXTENDS DumpOrder, DumpBuffer, TLC

CONSTANTS a, b, c, d, e, f, g

\* On the command line: the directory d, which holds the directory e (with the
\* file a) and the link b, then the directory f with the file g, and the command c.
MCType == a :> "FILE" @@ b :> "LINK" @@ c :> "CMD" @@ d :> "DIR" @@ e :> "DIR"
          @@ f :> "DIR" @@ g :> "FILE" @@ JOB_INIT :> "INIT"
MCEntries == d :> <<e, b>> @@ e :> <<a>> @@ f :> <<g>> @@ JOB_INIT :> <<d, f, c>>
             @@ [j \in {a, b, c, g} |-> <<>>]

\* The depth-first order, written down for this tree.
MCOrder == <<JOB_INIT, d, e, a, b, f, g, c>>

\* Precedes is that order.
ASSUME OrderAsWalked ==
    \A m, n \in 1..Len(MCOrder) : Precedes(MCOrder[m], MCOrder[n]) <=> m < n

\* Without --recursive and --add-cmd-status only what the command line names is
\* dumped.
Flat == INSTANCE DumpSequential WITH recursive <- FALSE, add_cmd_status <- FALSE

\* With and without a size limit, and --ignore-failed-read.
MCOptions == [file_max_size : {0, 5}, ignore_failed_read : BOOLEAN]

VARIABLE part

MCInit ==
    /\ part \in {"tree", "flat", "buffer"}
    /\ Init
    /\ BufferInit

MCNext ==
    \/ part = "flat" /\ Flat!Next /\ UNCHANGED <<part, bufferVars>>
    \/ part = "tree" /\ Next /\ UNCHANGED <<part, bufferVars>>
    \/ part = "buffer" /\ BufferNext /\ UNCHANGED <<part, vars>>

MCSpec == MCInit /\ [][MCNext]_<<vars, part, bufferVars>>
=============================================================================
