--------------------------- MODULE MCDumpThreaded ---------------------------
(***************************************************************************)
(* Small instances of DumpThreaded for TLC: what is on the command line.   *)
(***************************************************************************)
EXTENDS DumpThreaded, TLC

CONSTANTS a, b, d

\* A file and a command.
FlatType == a :> "FILE" @@ b :> "CMD" @@ JOB_INIT :> "INIT"
FlatEntries == a :> <<>> @@ b :> <<>> @@ JOB_INIT :> <<a, b>>

\* A directory, without --recursive, and a command.
AbortType == b :> "CMD" @@ d :> "DIR" @@ JOB_INIT :> "INIT"
AbortEntries == b :> <<>> @@ d :> <<>> @@ JOB_INIT :> <<d, b>>

\* A directory with a file and a link.
TreeType == a :> "FILE" @@ b :> "LINK" @@ d :> "DIR" @@ JOB_INIT :> "INIT"
TreeEntries == a :> <<>> @@ b :> <<>> @@ d :> <<a, b>> @@ JOB_INIT :> <<d>>

\* A directory with a file, and a further file after it.
MixedType == a :> "FILE" @@ b :> "FILE" @@ d :> "DIR" @@ JOB_INIT :> "INIT"
MixedEntries == a :> <<>> @@ b :> <<>> @@ d :> <<a>> @@ JOB_INIT :> <<d, b>>

\* A single file.
SingleType == a :> "FILE" @@ JOB_INIT :> "INIT"
SingleEntries == a :> <<>> @@ JOB_INIT :> <<a>>
=============================================================================
