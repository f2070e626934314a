------------------------------ MODULE DumpBuffer ------------------------------
(***************************************************************************)
(* The buffer of a dump2tar thread (dump2tar/src/buffer.c) through one job *)
(* after the other: read_fd and read_symlink fill it, in memory and, where *)
(* that does not suffice, in a temporary file; _write_job_data copies it   *)
(* to the archive; it is reset and used for the next job.                  *)
(*                                                                         *)
(* Byte i of the input of job k is <<k, i>>, so that what belongs to       *)
(* another job or another place is told apart. The offset in memory is     *)
(* Len(mem), and the temporary file is always written at its end. That it  *)
(* can be read, truncated and rewound without error is taken for granted.  *)
(* The number, outcome and abort of a job are variables of their own names *)
(* here, beside those of the task (job->status, task->aborted).            *)
(***************************************************************************)
EXTENDS Integers, Sequences

CONSTANTS
    read_chunk_size, max_buffer_size, \* of opts
    Options,            \* what else opts may be: file_max_size, where 0 is no limit,
                        \* and ignore_failed_read
    IOFaults,           \* open, read, tmpfile, spill (a short write to it), cancel, abort
    MaxInput,           \* bound: length of a file or a link
    MaxJobs             \* bound: number of jobs

\* parse_buffer_size: at least 1, and in this order.
ASSUME BufferAssumption ==
    /\ read_chunk_size \in Nat \ {0}
    /\ max_buffer_size \in Nat
    /\ read_chunk_size <= max_buffer_size
    /\ Options \subseteq [file_max_size : Nat, ignore_failed_read : BOOLEAN]
    /\ MaxInput \in Nat
    /\ MaxJobs \in Nat

VARIABLES
    buffer,         \* struct buffer
    opts,           \* task->opts
    where,          \* where the thread is
    number,         \* the number of the job,
    type,           \* its type: a file or command, or a link,
    input,          \* the length of what it reads
    outcome,        \* and job->status: how reading it ended
    got,            \* bytes that the system returned for it
    chunk,          \* read_fd's c, read_symlink's currlen
    stopped,        \* task->aborted
    spill_failed,   \* whether a write to the temporary file was short (history)
    entry           \* the last entry of the archive (history)

bufferVars == <<buffer, opts, where, number, type, input, outcome, got, chunk, stopped,
                spill_failed, entry>>

Larger(m, n) == IF m > n THEN m ELSE n
Smaller(m, n) == IF m < n THEN m ELSE n

Bytes == Seq((1..MaxJobs) \X (1..MaxInput))
NoEntry == [status |-> "none"]

\* The types of the variables.
BufferTypeOK ==
    /\ buffer \in [total : 0..MaxInput + 1, mem : Bytes, size : 0..MaxInput + max_buffer_size,
                   fd_open : BOOLEAN, file : Bytes]
    /\ buffer.file # <<>> => buffer.fd_open
    /\ opts \in Options
    /\ number \in 0..MaxJobs
    /\ input \in 0..MaxInput
    /\ where \in {"idle", "open", "read", "link", "end", "write", "undefined"}
    /\ type \in {"FILE", "LINK"}
    /\ outcome \in {"IN_PROGRESS", "DONE", "FAILED", "PARTIAL"}
    /\ got \in 0..MaxInput
    /\ chunk \in 0..MaxInput + max_buffer_size
    /\ stopped \in BOOLEAN
    /\ spill_failed \in BOOLEAN

\* memset in init_thread
BufferInit ==
    /\ buffer = [total |-> 0, mem |-> <<>>, size |-> 0, fd_open |-> FALSE, file |-> <<>>]
    /\ opts \in Options
    /\ where = "idle"
    /\ number = 0
    /\ type = "FILE"
    /\ input = 0
    /\ outcome = "DONE"
    /\ got = 0
    /\ chunk = 0
    /\ stopped = FALSE
    /\ spill_failed = FALSE
    /\ entry = NoEntry

-----------------------------------------------------------------------------
(***************************************************************************)
(* buffer.c. What may fail is the set of its outcomes: the buffer after    *)
(* it, and the return value.                                               *)
(***************************************************************************)

buffer_reset(b) == [b EXCEPT !.total = 0, !.mem = <<>>, !.file = <<>>]

Spilled(b, n) == [b EXCEPT !.fd_open = TRUE, !.file = @ \o SubSeq(b.mem, 1, n)]

\* With buffer_open and misc_write_data.
buffer_flush(b) ==
    IF b.mem = <<>> THEN {[buf |-> b, rc |-> 0]}
    ELSE {[buf |-> [Spilled(b, Len(b.mem)) EXCEPT !.mem = <<>>], rc |-> 0]}
         \cup {[buf |-> b, rc |-> -1] : x \in {"tmpfile"} \cap (IF b.fd_open THEN {} ELSE IOFaults)}
         \cup {[buf |-> Spilled(b, n), rc |-> -1] :
                  n \in IF "spill" \in IOFaults THEN 0..Len(b.mem) - 1 ELSE {}}

Enlarged(b, n) == [b EXCEPT !.size = Larger(@, n)]

buffer_make_room_IgnoresOffset(b, n) ==
    {[buf |-> Enlarged(b, n), rc |-> n]}

buffer_make_room_NoFile(b, n) ==
    {[buf |-> Enlarged(b, Len(b.mem) + n), rc |-> n]}

\* As read_fd calls it, with usefile.
buffer_make_room(b, n) ==
    LET room == Smaller(n, max_buffer_size)
        needsize == Len(b.mem) + room
    IN  IF needsize > b.size /\ needsize > max_buffer_size
        THEN {IF r.rc = 0 THEN [buf |-> Enlarged(r.buf, room), rc |-> room] ELSE r :
                 r \in buffer_flush(b)}
        ELSE {[buf |-> Enlarged(b, needsize), rc |-> room]}

buffer_truncate(b, len) ==
    LET delta == b.total - len
    IN  IF b.total <= len THEN b
        ELSE IF b.fd_open /\ delta > Len(b.mem)
        THEN [b EXCEPT !.total = len, !.mem = <<>>, !.file = SubSeq(@, 1, len)]
        ELSE [b EXCEPT !.total = len, !.mem = SubSeq(@, 1, Len(@) - delta)]

Stored(b, n) ==
    [b EXCEPT !.total = @ + n, !.mem = @ \o [i \in 1..n |-> <<number, got + i>>]]

-----------------------------------------------------------------------------
(***************************************************************************)
(* The thread. A job is a file or command, or a link.                      *)
(***************************************************************************)

\* start_thread_job, and c or currlen as read_fd and read_symlink initialise it.
StartJob ==
    /\ where = "idle"
    /\ ~stopped
    /\ number < MaxJobs
    /\ number' = number + 1
    /\ input' \in 0..MaxInput
    /\ \/ type' = "FILE" /\ where' = "open"
       \/ type' = "LINK" /\ where' = "link" /\ input' > 0
    /\ outcome' = "IN_PROGRESS"
    /\ got' = 0
    /\ chunk' = IF buffer.size # 0 THEN buffer.size ELSE read_chunk_size
    /\ spill_failed' = FALSE
    /\ UNCHANGED <<buffer, opts, stopped, entry>>

\* read_error: unless it is ignored, the task is aborted.
ReadError ==
    /\ outcome' = "FAILED"
    /\ stopped' = (stopped \/ ~opts.ignore_failed_read)
    /\ where' = "write"

OpenInput ==
    /\ where = "open"
    /\ \/ where' = "read" /\ UNCHANGED <<outcome, stopped>>
       \/ "open" \in IOFaults /\ ReadError
    /\ UNCHANGED <<buffer, opts, number, type, input, got, chunk, spill_failed, entry>>

NextChunk_NeverEnlarges(b) == b.size - Len(b.mem)

NextChunk(b) ==
    IF b.size > Len(b.mem) THEN b.size - Len(b.mem)
    ELSE IF b.size + read_chunk_size < max_buffer_size THEN read_chunk_size
    ELSE max_buffer_size

\* A round of read_fd after which it goes on, or ends with the end of the input,
\* at the size limit or with an error.
ReadChunk ==
    /\ where = "read"
    /\ ~stopped
    /\ \E r \in buffer_make_room(buffer, chunk) :
          \/ /\ r.rc < 0 \/ "read" \in IOFaults
             /\ buffer' = r.buf
             /\ spill_failed' = (r.rc < 0 /\ r.buf.file # buffer.file)
             /\ ReadError
             /\ UNCHANGED <<got, chunk>>
          \/ /\ r.rc >= 0
             /\ got = input \/ r.rc = 0
             /\ buffer' = r.buf
             /\ where' = "end"
             /\ UNCHANGED <<got, chunk, outcome, stopped, spill_failed>>
          \/ \E n \in 1..Smaller(r.rc, input - got) :
                LET filled == Stored(r.buf, n)
                    full == opts.file_max_size > 0 /\ filled.total >= opts.file_max_size
                IN  /\ got' = got + n
                    /\ buffer' = IF full THEN buffer_truncate(filled, opts.file_max_size)
                                 ELSE filled
                    /\ where' = IF full THEN "end" ELSE "read"
                    /\ chunk' = IF full THEN chunk ELSE NextChunk(filled)
                    /\ UNCHANGED <<outcome, stopped, spill_failed>>
    /\ UNCHANGED <<opts, number, type, input, entry>>

\* The NUL that read_symlink puts behind the link.
EndLink(n, size) ==
    buffer' = [buffer EXCEPT !.size = size, !.total = n + 1]

\* A round of read_symlink. The buffer was reset, so its offset is 0; it grows
\* until the link does not fill it.
ReadLink ==
    /\ where = "link"
    /\ ~stopped
    /\ LET size == Larger(buffer.size, chunk)
           actual == Smaller(input, size)
       IN  \/ /\ "read" \in IOFaults
              /\ got' = 0
              /\ EndLink(0, size)
              /\ ReadError
              /\ UNCHANGED chunk
           \/ /\ opts.file_max_size > 0 /\ actual > opts.file_max_size
              /\ got' = opts.file_max_size
              /\ EndLink(opts.file_max_size, size)
              /\ where' = "end"
              /\ UNCHANGED <<chunk, outcome, stopped>>
           \/ /\ opts.file_max_size = 0 \/ actual <= opts.file_max_size
              /\ got' = actual
              /\ IF actual < size THEN EndLink(actual, size)
                 ELSE buffer' = [buffer EXCEPT !.size = size]
              /\ where' = IF actual < size THEN "end" ELSE "link"
              /\ chunk' = IF actual < size THEN chunk ELSE chunk + read_chunk_size
              /\ UNCHANGED <<outcome, stopped>>
    /\ UNCHANGED <<opts, number, type, input, spill_failed, entry>>

\* The loops end when another thread has aborted the task. If that is before the
\* buffer was made larger than the link, the NUL goes behind its end: undefined.
AbortedRead ==
    /\ where \in {"read", "link"}
    /\ stopped
    /\ where' = IF where = "link" /\ got = buffer.size THEN "undefined" ELSE "end"
    /\ IF where = "link" THEN EndLink(got, buffer.size) ELSE UNCHANGED buffer
    /\ UNCHANGED <<opts, number, type, input, got, chunk, outcome, stopped, spill_failed, entry>>

\* An abort is also noticed after the loop.
EndRead ==
    /\ where = "end"
    /\ outcome' = IF stopped THEN "FAILED" ELSE "DONE"
    /\ where' = "write"
    /\ UNCHANGED <<buffer, opts, number, type, input, got, chunk, stopped, spill_failed, entry>>

\* _timeout_thread: the thread is cancelled in open, or in buffer_read_fd before
\* data was added to the buffer, and in the course of buffer_flush if need be; a
\* new thread writes the job. readlinkat is no cancellation point.
Cancel ==
    /\ "cancel" \in IOFaults
    /\ \/ where = "open" /\ UNCHANGED <<buffer, spill_failed>>
       \/ /\ where = "read"
          /\ ~stopped
          /\ \E r \in buffer_make_room(buffer, chunk) :
                /\ buffer' \in {r.buf, [buffer EXCEPT !.fd_open = r.buf.fd_open]}
                /\ spill_failed' = (r.rc < 0 /\ buffer'.file # buffer.file)
    /\ outcome' = "PARTIAL"
    /\ stopped' = (stopped \/ ~opts.ignore_failed_read)
    /\ where' = "write"
    /\ UNCHANGED <<opts, number, type, input, got, chunk, entry>>

\* Another thread aborts the task.
AbortTask ==
    /\ "abort" \in IOFaults
    /\ where # "idle"
    /\ ~stopped
    /\ stopped' = TRUE
    /\ UNCHANGED <<buffer, opts, where, number, type, input, got, chunk, outcome, spill_failed, entry>>

Written == outcome \in {"DONE", "PARTIAL"} \/ opts.ignore_failed_read

\* What emit_content copies: buffer_iterate ends at the end of the data, the
\* callback after the bytes the header has announced. Its failure is not noticed.
Emitted(r) ==
    LET data == r.buf.file \o r.buf.mem
    IN  IF r.rc < 0 THEN <<>> ELSE SubSeq(data, 1, Smaller(buffer.total, Len(data)))

\* postprocess_job and stop_thread_job; a link is announced without contents and
\* taken from memory.
WriteJob ==
    /\ where = "write"
    /\ \E r \in IF Written /\ type = "FILE" /\ buffer.total > 0 /\ buffer.fd_open
                THEN buffer_flush(buffer) ELSE {[buf |-> buffer, rc |-> 0]} :
          entry' = IF ~Written THEN entry
                   ELSE [status |-> outcome, job |-> number, type |-> type, input |-> input,
                         got |-> got, spill_failed |-> spill_failed \/ r.rc < 0,
                         len |-> IF type = "LINK" THEN 0 ELSE buffer.total,
                         data |-> IF type = "LINK" THEN [i \in 1..got |-> <<number, i>>]
                                  ELSE Emitted(r)]
    /\ buffer' = buffer_reset(buffer)
    /\ where' = "idle"
    /\ UNCHANGED <<opts, number, type, input, got, chunk, outcome, stopped, spill_failed>>

\* No more jobs, or nothing is known about the rest.
NoMoreJobs ==
    /\ \/ where = "undefined"
       \/ where = "idle" /\ (stopped \/ number = MaxJobs)
    /\ UNCHANGED bufferVars

BufferNext ==
    \/ StartJob \/ OpenInput \/ ReadChunk \/ ReadLink \/ AbortedRead \/ EndRead \/ Cancel
    \/ AbortTask \/ WriteJob \/ NoMoreJobs

BufferSpec == BufferInit /\ [][BufferNext]_bufferVars

-----------------------------------------------------------------------------
(***************************************************************************)
(* Properties.                                                             *)
(***************************************************************************)

\* --file-max-size
Limited(n) == IF opts.file_max_size = 0 THEN n ELSE Smaller(n, opts.file_max_size)

\* The archive has what was read: an entry holds the beginning of the input of
\* its own job, in order and as long as the header of the entry says. It is all
\* of it, up to the size limit, if the job was done, and all that was returned
\* until then if the job was timed out. This is so whether the data was spilled
\* to the temporary file, truncated there or in memory, and whatever the buffer
\* was used for before; only a short write to the temporary file during the same
\* job is excepted.
EntryExact ==
    entry.status # "none" /\ ~entry.spill_failed =>
        /\ \A i \in DOMAIN entry.data : entry.data[i] = <<entry.job, i>>
        /\ entry.type = "FILE" => entry.len = Len(entry.data)
        /\ entry.status = "DONE" =>
              Len(entry.data) = Limited(entry.input)
        /\ entry.status = "PARTIAL" => Len(entry.data) = entry.got

\* The data in memory fits there, and total is what memory and temporary file
\* hold together while a file is read, with all variables within their types.
BufferSound ==
    /\ BufferTypeOK
    /\ Len(buffer.mem) <= buffer.size
    /\ type = "FILE" /\ ~spill_failed =>
          buffer.total = Len(buffer.mem) + Len(buffer.file)

\* Files and commands never make the buffer in memory larger than
\* max_buffer_size, however much they produce: a property of every step.
StaysCapped == type = "FILE" => buffer'.size <= Larger(buffer.size, max_buffer_size)
MemoryCapped == [][StaysCapped]_bufferVars
=============================================================================
