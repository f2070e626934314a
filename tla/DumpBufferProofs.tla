-------------------------- MODULE DumpBufferProofs --------------------------
(***************************************************************************)
(* Proofs about DumpBuffer, for every chunk and buffer size, every length  *)
(* of the inputs and number of jobs, and every set of failures: what the   *)
(* operations of buffer.c do to the data, the inductive invariant, and     *)
(* that the entries of the archive are exact.                              *)
(***************************************************************************)
EXTENDS DumpBuffer, TLAPS

-----------------------------------------------------------------------------
(***************************************************************************)
(* The operations of buffer.c.                                             *)
(***************************************************************************)

\* struct buffer, without the bounds on its numbers.
Buffer == [total : Nat, mem : Bytes, size : Nat, fd_open : BOOLEAN, file : Bytes]

\* The file is used only after it was opened, and the data fits into memory.
Fits(b) ==
    /\ b.file # <<>> => b.fd_open
    /\ Len(b.mem) <= b.size

\* The bytes of the input of job k behind the first n.
InOrder(s, k, n) == \A i \in 1..Len(s) : s[i] = <<k, n + i>>

\* Temporary file and memory, in this order, hold the beginning of the input of
\* job k, and total is their length.
Holds(b, k) ==
    /\ InOrder(b.file, k, 0)
    /\ InOrder(b.mem, k, Len(b.file))
    /\ b.total = Len(b.mem) + Len(b.file)

\* What the end of a sequence of bytes is cut off to.
LEMMA BytesPrefix ==
    ASSUME NEW s \in Bytes, NEW n \in 0..Len(s)
    PROVE  /\ SubSeq(s, 1, n) \in Bytes
           /\ Len(SubSeq(s, 1, n)) = n
           /\ \A i \in 1..n : SubSeq(s, 1, n)[i] = s[i]
BY DEF Bytes

\* Bytes put behind others.
LEMMA BytesConcat ==
    ASSUME NEW s \in Bytes, NEW t \in Bytes
    PROVE  /\ s \o t \in Bytes
           /\ Len(s \o t) = Len(s) + Len(t)
           /\ \A i \in 1..Len(s) : (s \o t)[i] = s[i]
           /\ \A i \in 1..Len(t) : (s \o t)[Len(s) + i] = t[i]
           /\ \A i \in 1..Len(s \o t) : i > Len(s) => (s \o t)[i] = t[i - Len(s)]
BY DEF Bytes

\* No bytes.
LEMMA BytesEmpty ==
    /\ <<>> \in Bytes
    /\ Len(<<>>) = 0
    /\ \A s \in Bytes : Len(s) \in Nat /\ (Len(s) = 0 => s = <<>>)
    /\ \A s \in Bytes : s \o <<>> = s
BY DEF Bytes

\* Bytes that follow one another in memory may as well follow one another in the file.
LEMMA OrderJoined ==
    ASSUME NEW s \in Bytes, NEW t \in Bytes, NEW k, NEW n \in Nat,
           InOrder(s, k, n), InOrder(t, k, n + Len(s))
    PROVE  InOrder(s \o t, k, n)
<1>1. PICK g : g = s \o t
  BY ZenonT(30)
<1>2. PICK x : x = Len(s)
  OBVIOUS
<1>3. PICK y : y = Len(t)
  BY ZenonT(30)
<1>4. x \in Nat /\ y \in Nat
  BY <1>2, <1>3, BytesEmpty
<1>5. Len(g) = x + y
  BY <1>1, <1>2, <1>3, BytesConcat
<1>6. \A i \in 1..x : g[i] = s[i]
  BY <1>1, <1>2, BytesConcat
<1>7. \A i \in 1..y : g[x + i] = t[i]
  BY <1>1, <1>2, <1>3, BytesConcat
<1>8. ASSUME NEW i \in 1..x + y
      PROVE  g[i] = <<k, n + i>>
  <2>1. CASE i <= x
    BY <1>2, <1>4, <1>6, <2>1 DEF InOrder
  <2>2. CASE i > x
    <3>1. PICK j : j = i - x
      OBVIOUS
    <3>2. j \in 1..y /\ x + j = i /\ (n + x) + j = n + i
      BY <1>4, <2>2, <3>1
    <3>3. t[j] = <<k, (n + x) + j>>
      BY <1>2, <1>3, <3>2 DEF InOrder
    <3> QED
      BY <1>7, <3>2, <3>3
  <2> QED
    BY <1>4, <2>1, <2>2
<1> QED
  BY <1>1, <1>5, <1>8, ZenonT(30) DEF InOrder

\* What is cut off or not there does not matter.
LEMMA OrderCut ==
    ASSUME NEW s \in Bytes, NEW k, NEW n \in Nat, InOrder(s, k, n), NEW l \in 0..Len(s)
    PROVE  /\ InOrder(SubSeq(s, 1, l), k, n)
           /\ InOrder(<<>>, k, n)
<1>1. PICK g : g = SubSeq(s, 1, l)
  BY ZenonT(30)
<1>2. Len(g) = l /\ \A i \in 1..l : g[i] = s[i]
  BY <1>1, BytesPrefix
<1>3. 1..l \subseteq 1..Len(s)
  BY BytesEmpty
<1>4. InOrder(g, k, n)
  BY <1>2, <1>3, ZenonT(30) DEF InOrder
<1>5. 1..Len(<<>>) = {}
  BY BytesEmpty
<1> QED
  BY <1>1, <1>4, <1>5 DEF InOrder

\* buffer_flush either moves all data to the temporary file, or fails; then the
\* data is unchanged unless a short write has put a part of it into the file.
LEMMA FlushEffect ==
    ASSUME NEW b \in Buffer, Fits(b), NEW r \in buffer_flush(b)
    PROVE  /\ r.buf \in Buffer
           /\ Fits(r.buf)
           /\ r.buf.total = b.total
           /\ r.buf.size = b.size
           /\ b.fd_open => r.buf.fd_open
           /\ r.rc = 0 => r.buf.file = b.file \o b.mem /\ r.buf.mem = <<>>
           /\ r.rc # 0 => r.rc = -1 /\ r.buf.mem = b.mem
<1>1. CASE b.mem = <<>>
  BY <1>1, BytesEmpty DEF buffer_flush, Buffer
<1>2. CASE b.mem # <<>> /\ r = [buf |-> [Spilled(b, Len(b.mem)) EXCEPT !.mem = <<>>], rc |-> 0]
  <2>1. b.mem \in Bytes /\ b.file \in Bytes
    BY DEF Buffer
  <2>2. SubSeq(b.mem, 1, Len(b.mem)) = b.mem
    BY <2>1 DEF Bytes
  <2>3. PICK f : f = b.file \o b.mem
    BY ZenonT(30)
  <2>4. f \in Bytes
    BY <2>1, <2>3, BytesConcat
  <2>5. r = [buf |-> [b EXCEPT !.fd_open = TRUE, !.file = f, !.mem = <<>>], rc |-> 0]
    BY <1>2, <2>2, <2>3, ZenonT(30) DEF Spilled, Buffer
  <2>6. /\ r.rc = 0 /\ r.buf.file = f /\ r.buf.mem = <<>> /\ r.buf.fd_open = TRUE
        /\ r.buf.total = b.total /\ r.buf.size = b.size
    BY <2>5, ZenonT(30) DEF Buffer
  <2>7. r.buf \in Buffer
    BY <2>4, <2>5, BytesEmpty, ZenonT(30) DEF Buffer
  <2>8. Len(r.buf.mem) = 0 /\ b.size \in Nat
    BY <2>6, BytesEmpty DEF Buffer
  <2>9. Fits(r.buf)
    BY <2>6, <2>8 DEF Fits
  <2> QED
    BY <2>3, <2>6, <2>7, <2>9, Zenon
<1>3. CASE b.mem # <<>> /\ r = [buf |-> b, rc |-> -1]
  BY <1>3
<1>4. CASE b.mem # <<>> /\ \E n \in 0..Len(b.mem) - 1 : r = [buf |-> Spilled(b, n), rc |-> -1]
  <2>1. PICK n \in 0..Len(b.mem) - 1 : r = [buf |-> Spilled(b, n), rc |-> -1]
    BY <1>4
  <2>2. b.mem \in Bytes /\ b.file \in Bytes /\ Len(b.mem) \in Nat
    BY BytesEmpty DEF Buffer
  <2>3. PICK f : f = b.file \o SubSeq(b.mem, 1, n)
    BY ZenonT(30)
  <2>4. f \in Bytes
    BY <2>2, <2>3, BytesConcat, BytesPrefix, SMTT(30)
  <2>5. r = [buf |-> [b EXCEPT !.fd_open = TRUE, !.file = f], rc |-> -1]
    BY <2>1, <2>3 DEF Spilled
  <2>6. /\ r.rc # 0 /\ r.rc = -1 /\ r.buf.mem = b.mem /\ r.buf.fd_open = TRUE
        /\ r.buf.total = b.total /\ r.buf.size = b.size
    <3>1. r.rc = -1 /\ r.buf = [b EXCEPT !.fd_open = TRUE, !.file = f]
      BY <2>5
    <3>2. -1 # 0
      OBVIOUS
    <3> QED
      BY <3>1, <3>2 DEF Buffer
  <2>7. r.buf \in Buffer
    BY <2>4, <2>5, ZenonT(30) DEF Buffer
  <2>8. Fits(r.buf)
    BY <2>6 DEF Fits
  <2> QED
    BY <2>6, <2>7, <2>8, Zenon
<1> QED
  BY <1>1, <1>2, <1>3, <1>4, ZenonT(30) DEF buffer_flush

\* What buffer_flush leaves in the buffer is still the data of the job, unless
\* the write to the temporary file was short.
LEMMA FlushHolds ==
    ASSUME NEW b \in Buffer, Fits(b), NEW r \in buffer_flush(b), NEW k, Holds(b, k),
           r.rc = 0 \/ r.buf.file = b.file
    PROVE  Holds(r.buf, k)
<1>1. b.mem \in Bytes /\ b.file \in Bytes /\ Len(b.mem) \in Nat /\ Len(b.file) \in Nat
  BY BytesEmpty DEF Buffer
<1>2. r.buf.total = b.total
  BY FlushEffect, ZenonT(30)
<1>3. CASE r.rc = 0 /\ r.buf.file = b.file \o b.mem /\ r.buf.mem = <<>>
  <2>1. PICK f : f = b.file \o b.mem
    BY ZenonT(30)
  <2>2. InOrder(f, k, 0)
    <3>1. 0 + Len(b.file) = Len(b.file)
      BY <1>1
    <3> QED
      BY <1>1, <2>1, <3>1, OrderJoined DEF Holds
  <2>3. Len(f) = Len(b.mem) + Len(b.file) /\ Len(f) \in Nat
    <3>1. Len(f) = Len(b.file) + Len(b.mem)
      BY <1>1, <2>1, BytesConcat, Zenon
    <3>2. PICK x : x = Len(b.file)
      BY ZenonT(30)
    <3>3. PICK y : y = Len(b.mem)
      BY ZenonT(30)
    <3>4. x \in Nat /\ y \in Nat
      BY <1>1, <3>2, <3>3, Zenon
    <3>5. x + y = y + x /\ x + y \in Nat
      BY <3>4
    <3> QED
      BY <3>1, <3>2, <3>3, <3>5, Zenon
  <2>4. InOrder(<<>>, k, Len(f))
    BY <2>3, BytesEmpty DEF InOrder
  <2>5. Len(<<>>) + Len(f) = Len(f)
    BY <2>3, BytesEmpty
  <2>6. r.buf.file = f /\ r.buf.mem = <<>>
    BY <1>3, <2>1
  <2>7. r.buf.total = Len(r.buf.mem) + Len(r.buf.file)
    BY <1>2, <2>3, <2>5, <2>6, Zenon DEF Holds
  <2> QED
    BY <2>2, <2>4, <2>6, <2>7, Zenon DEF Holds
<1>4. CASE r.buf.file = b.file /\ r.buf.mem = b.mem
  BY <1>2, <1>4, ZenonT(30) DEF Holds
<1> QED
  BY <1>3, <1>4, FlushEffect, Zenon

\* buffer_make_room makes room for rc bytes behind those in memory, or fails. It
\* never makes the buffer larger than max_buffer_size, and never smaller.
LEMMA RoomEffect ==
    ASSUME BufferAssumption, NEW b \in Buffer, Fits(b), NEW n \in Nat \ {0},
           NEW r \in buffer_make_room(b, n)
    PROVE  /\ r.buf \in Buffer
           /\ Fits(r.buf)
           /\ r.buf.total = b.total
           /\ r.buf.size >= b.size
           /\ r.buf.size <= Larger(b.size, max_buffer_size)
           /\ b.fd_open => r.buf.fd_open
           /\ \/ r.rc \in Nat \ {0} /\ Len(r.buf.mem) + r.rc <= r.buf.size
              \/ r.rc = -1
           /\ \A k : Holds(b, k) /\ (r.rc # -1 \/ r.buf.file = b.file) => Holds(r.buf, k)
<1> DEFINE room == Smaller(n, max_buffer_size)
           needsize == Len(b.mem) + room
<1>1. room \in Nat \ {0} /\ room <= max_buffer_size /\ max_buffer_size \in Nat
  BY DEF Smaller, BufferAssumption
<1>2. Len(b.mem) \in Nat /\ b.size \in Nat /\ Len(b.mem) <= b.size
  BY BytesEmpty, ZenonT(30) DEF Buffer, Fits
<1> HIDE DEF room
<1>3. CASE needsize > b.size /\ needsize > max_buffer_size
  <2>1. PICK f \in buffer_flush(b) :
           r = IF f.rc = 0 THEN [buf |-> Enlarged(f.buf, room), rc |-> room] ELSE f
    BY <1>3 DEF buffer_make_room, room
  <2>2. /\ f.buf \in Buffer /\ Fits(f.buf) /\ f.buf.total = b.total /\ f.buf.size = b.size
        /\ b.fd_open => f.buf.fd_open
    BY <2>1, FlushEffect, Zenon
  <2>3. CASE f.rc = 0
    <3>1. r.rc = room /\ r.buf = [f.buf EXCEPT !.size = Larger(b.size, room)]
      BY <2>1, <2>2, <2>3 DEF Enlarged, Buffer
    <3>2. f.buf.mem = <<>>
      BY <2>1, <2>3, FlushEffect, Zenon
    <3>3. Larger(b.size, room) \in Nat /\ Larger(b.size, room) >= b.size
          /\ Larger(b.size, room) >= room /\ Larger(b.size, room) <= Larger(b.size, max_buffer_size)
      BY <1>1, <1>2 DEF Larger
    <3>4. /\ r.buf.mem = <<>> /\ r.buf.file = f.buf.file /\ r.buf.fd_open = f.buf.fd_open
          /\ r.buf.total = f.buf.total /\ r.buf.size = Larger(b.size, room)
      BY <2>2, <3>1, <3>2, ZenonT(30) DEF Buffer
    <3>5. r.buf \in Buffer
      BY <2>2, <3>1, <3>3 DEF Buffer
    <3>6. Len(r.buf.mem) = 0
      BY <3>4, BytesEmpty
    <3>7. Fits(r.buf)
      BY <2>2, <3>3, <3>4, <3>6 DEF Fits
    <3>8. Len(r.buf.mem) + r.rc <= r.buf.size
      BY <1>1, <3>1, <3>3, <3>4, <3>6
    <3>9. ASSUME NEW k, Holds(b, k) PROVE Holds(r.buf, k)
      <4>1. Holds(f.buf, k)
        BY <2>1, <2>3, <3>9, FlushHolds
      <4> QED
        BY <3>2, <3>4, <4>1, Zenon DEF Holds
    <3> QED
      BY <1>1, <2>2, <3>1, <3>3, <3>4, <3>5, <3>7, <3>8, <3>9, ZenonT(30)
  <2>4. CASE f.rc # 0
    <3>1. r = f /\ f.rc = -1
      BY <2>1, <2>4, FlushEffect, ZenonT(30)
    <3>2. f.buf.size <= Larger(b.size, max_buffer_size) /\ f.buf.size >= b.size
      BY <1>1, <1>2, <2>2 DEF Larger
    <3>3. ASSUME NEW k, Holds(b, k), f.buf.file = b.file PROVE Holds(f.buf, k)
      BY <2>1, <3>3, FlushHolds
    <3> QED
      BY <2>2, <3>1, <3>2, <3>3, ZenonT(30)
  <2> QED
    BY <2>3, <2>4
<1>4. CASE ~(needsize > b.size /\ needsize > max_buffer_size)
  <2>1. r = [buf |-> [b EXCEPT !.size = Larger(b.size, needsize)], rc |-> room]
    BY <1>4 DEF buffer_make_room, room, Enlarged
  <2>2. /\ Larger(b.size, needsize) \in Nat /\ Larger(b.size, needsize) >= b.size
        /\ Larger(b.size, needsize) >= needsize /\ Larger(b.size, needsize) <= Larger(b.size, max_buffer_size)
    BY <1>1, <1>2, <1>4, SMTT(30) DEF Larger
  <2>3. /\ r.buf.mem = b.mem /\ r.buf.file = b.file /\ r.buf.fd_open = b.fd_open
        /\ r.buf.total = b.total /\ r.buf.size = Larger(b.size, needsize) /\ r.rc = room
    BY <2>1, ZenonT(30) DEF Buffer
  <2>4. r.buf \in Buffer
    BY <2>1, <2>2, ZenonT(30) DEF Buffer
  <2>5. Fits(r.buf)
    BY <1>2, <2>2, <2>3 DEF Fits
  <2>6. ASSUME NEW k, Holds(b, k) PROVE Holds(r.buf, k)
    BY <2>3, <2>6, Zenon DEF Holds
  <2> QED
    BY <1>1, <2>2, <2>3, <2>4, <2>5, <2>6
<1> QED
  BY <1>3, <1>4

\* buffer_read_fd stores the bytes that the system returned behind the others.
LEMMA StoredEffect ==
    ASSUME NEW b \in Buffer, Fits(b), NEW n \in Nat,
           number \in 1..MaxJobs, got \in Nat, MaxInput \in Nat, got + n <= MaxInput,
           Len(b.mem) + n <= b.size
    PROVE  /\ Stored(b, n) \in Buffer
           /\ Fits(Stored(b, n))
           /\ Stored(b, n).total = b.total + n
           /\ Stored(b, n).size = b.size
           /\ Stored(b, n).fd_open = b.fd_open
           /\ Holds(b, number) /\ b.total = got => Holds(Stored(b, n), number)
<1>1. b.mem \in Bytes /\ Len(b.mem) \in Nat /\ b.file \in Bytes /\ Len(b.file) \in Nat
  BY BytesEmpty DEF Buffer
<1>2. PICK t : t = [i \in 1..n |-> <<number, got + i>>]
  BY ZenonT(30)
<1>3. t \in Bytes /\ Len(t) = n /\ \A i \in 1..n : t[i] = <<number, got + i>>
  BY <1>2, SMTT(30) DEF Bytes
<1>4. PICK m : m = b.mem \o t
  BY ZenonT(30)
<1>5. m \in Bytes /\ Len(m) = Len(b.mem) + Len(t)
  BY <1>1, <1>3, <1>4, BytesConcat, Zenon
<1>6. Stored(b, n) = [b EXCEPT !.total = b.total + n, !.mem = m]
  BY <1>2, <1>4 DEF Stored
<1>7. /\ Stored(b, n).total = b.total + n /\ Stored(b, n).size = b.size
      /\ Stored(b, n).fd_open = b.fd_open /\ Stored(b, n).mem = m
      /\ Stored(b, n).file = b.file
  BY <1>6 DEF Buffer
<1>8. Stored(b, n) \in Buffer
  <2>1. b.total + n \in Nat
    BY DEF Buffer
  <2> QED
    BY <1>5, <1>6, <2>1, ZenonT(30) DEF Buffer
<1>9. Len(m) = Len(b.mem) + n
  BY <1>3, <1>5, Zenon
<1>10. Fits(Stored(b, n))
  BY <1>7, <1>9 DEF Fits
<1>11. ASSUME Holds(b, number), b.total = got
       PROVE  Holds(Stored(b, n), number)
  <2>1. PICK x : x = Len(b.file)
    BY ZenonT(30)
  <2>2. PICK y : y = Len(b.mem)
    BY ZenonT(30)
  <2>3. x \in Nat /\ y \in Nat /\ got = y + x /\ b.total = y + x
    BY <1>1, <1>11, <2>1, <2>2, Zenon DEF Holds
  <2>4. got = x + y /\ b.total + n = (y + n) + x
    BY <2>3
  <2>5. InOrder(t, number, x + y)
    BY <1>3, <2>4, Zenon DEF InOrder
  <2>6. InOrder(m, number, x)
    BY <1>1, <1>3, <1>4, <1>11, <2>1, <2>2, <2>3, <2>5, OrderJoined, Zenon DEF Holds
  <2>7. b.total + n = Len(m) + Len(b.file)
    BY <1>9, <2>1, <2>2, <2>4, Zenon
  <2> QED
    BY <1>7, <1>11, <2>1, <2>6, <2>7, Zenon DEF Holds
<1> QED
  BY <1>7, <1>8, <1>10, <1>11, Zenon

\* buffer_truncate keeps the beginning of the data, whether it ends in memory or
\* in the temporary file.
LEMMA TruncateEffect ==
    ASSUME NEW b \in Buffer, Fits(b), NEW len \in Nat, NEW k, Holds(b, k)
    PROVE  /\ buffer_truncate(b, len) \in Buffer
           /\ Fits(buffer_truncate(b, len))
           /\ buffer_truncate(b, len).total = Smaller(b.total, len)
           /\ buffer_truncate(b, len).size = b.size
           /\ Holds(buffer_truncate(b, len), k)
<1>1. b.mem \in Bytes /\ Len(b.mem) \in Nat /\ b.file \in Bytes /\ Len(b.file) \in Nat
      /\ b.total \in Nat
  BY BytesEmpty DEF Buffer
<1>2. PICK x : x = Len(b.file)
  BY ZenonT(30)
<1>3. PICK y : y = Len(b.mem)
  BY ZenonT(30)
<1>4. x \in Nat /\ y \in Nat /\ b.total = y + x
  BY <1>1, <1>2, <1>3, Zenon DEF Holds
<1>5. PICK c : c = buffer_truncate(b, len)
  OBVIOUS
<1>6. CASE b.total <= len
  <2>1. c = b
    BY <1>5, <1>6 DEF buffer_truncate
  <2>2. Smaller(b.total, len) = b.total
    BY <1>1, <1>6 DEF Smaller
  <2> QED
    BY <1>5, <2>1, <2>2, Zenon
<1>7. CASE b.total > len /\ b.fd_open /\ b.total - len > Len(b.mem)
  <2>1. len \in 0..Len(b.file) /\ len <= x
    <3>1. b.total - len > y
      BY <1>3, <1>7, Zenon
    <3>2. len \in 0..x /\ len <= x
      BY <1>4, <3>1
    <3> QED
      BY <1>2, <3>2, Zenon
  <2>2. PICK f : f = SubSeq(b.file, 1, len)
    BY ZenonT(30)
  <2>3. f \in Bytes /\ Len(f) = len
    BY <1>1, <2>1, <2>2, BytesPrefix, Zenon
  <2>4. c = [b EXCEPT !.total = len, !.mem = <<>>, !.file = f]
    BY <1>1, <1>5, <1>7, <2>2 DEF buffer_truncate
  <2>5. /\ c.total = len /\ c.mem = <<>> /\ c.file = f /\ c.size = b.size /\ c.fd_open = b.fd_open
        /\ c \in Buffer
    BY <2>3, <2>4, BytesEmpty, ZenonT(30) DEF Buffer
  <2>6. Len(c.mem) = 0 /\ b.size \in Nat
    BY <2>5, BytesEmpty DEF Buffer
  <2>7. Fits(c)
    BY <1>7, <2>5, <2>6 DEF Fits
  <2>8. InOrder(f, k, 0) /\ InOrder(<<>>, k, len)
    <3>1. InOrder(f, k, 0)
      BY <1>1, <2>1, <2>2, OrderCut DEF Holds
    <3>2. InOrder(<<>>, k, len)
      BY BytesEmpty, SMTT(30) DEF InOrder
    <3> QED
      BY <3>1, <3>2, ZenonT(30)
  <2>9. Smaller(b.total, len) = len /\ len = 0 + len
    BY <1>1, <1>7 DEF Smaller
  <2>10. Holds(c, k)
    BY <2>3, <2>5, <2>6, <2>8, <2>9, Zenon DEF Holds
  <2> QED
    BY <1>5, <2>5, <2>7, <2>9, <2>10, Zenon
<1>8. CASE b.total > len /\ ~(b.fd_open /\ b.total - len > Len(b.mem))
  <2>1. PICK l : l = Len(b.mem) - (b.total - len)
    OBVIOUS
  <2>2. l \in 0..Len(b.mem) /\ l \in 0..y /\ len = l + x
    <3>1. l = y - (b.total - len)
      BY <1>3, <2>1, Zenon
    <3>2. ~(b.total - len > y) \/ x = 0
      BY <1>2, <1>3, <1>8, BytesEmpty, Zenon DEF Fits
    <3>3. l \in 0..y /\ len = l + x
      BY <1>4, <1>8, <3>1, <3>2
    <3> QED
      BY <1>3, <3>3, Zenon
  <2>3. PICK m : m = SubSeq(b.mem, 1, l)
    BY ZenonT(30)
  <2>4. m \in Bytes /\ Len(m) = l
    BY <1>1, <2>2, <2>3, BytesPrefix, Zenon
  <2>5. c = [b EXCEPT !.total = len, !.mem = m]
    BY <1>1, <1>5, <1>8, <2>1, <2>3 DEF buffer_truncate
  <2>6. /\ c.total = len /\ c.mem = m /\ c.file = b.file /\ c.size = b.size /\ c.fd_open = b.fd_open
        /\ c \in Buffer
    BY <2>4, <2>5, ZenonT(30) DEF Buffer
  <2>7. l <= b.size
    BY <1>1, <1>3, <2>2, SMTT(30) DEF Fits, Buffer
  <2>8. Fits(c)
    BY <2>4, <2>6, <2>7, ZenonT(30) DEF Fits
  <2>9. InOrder(m, k, Len(b.file))
    BY <1>1, <2>2, <2>3, OrderCut, ZenonT(30) DEF Holds
  <2>10. Smaller(b.total, len) = len
    BY <1>1, <1>8 DEF Smaller
  <2>11. Holds(c, k)
    BY <1>2, <2>2, <2>4, <2>6, <2>9, Zenon DEF Holds
  <2> QED
    BY <1>5, <2>6, <2>8, <2>10, <2>11, Zenon
<1> QED
  BY <1>1, <1>6, <1>7, <1>8

-----------------------------------------------------------------------------
(***************************************************************************)
(* The inductive invariant.                                                *)
(***************************************************************************)

\* The types of all variables but the buffer and the entry.
ThreadOK ==
    /\ opts \in Options
    /\ number \in 0..MaxJobs
    /\ where # "idle" => number # 0
    /\ input \in 0..MaxInput
    /\ where \in {"idle", "open", "read", "link", "end", "write", "undefined"}
    /\ type \in {"FILE", "LINK"}
    /\ outcome \in {"IN_PROGRESS", "DONE", "FAILED", "PARTIAL"}
    /\ got \in 0..input
    /\ chunk \in 0..MaxInput + max_buffer_size
    /\ stopped \in BOOLEAN
    /\ spill_failed \in BOOLEAN

\* What the buffer holds for the job. For a link, which read_symlink reads to the
\* beginning of the memory, total is the only field in use.
DataOK ==
    /\ buffer \in Buffer
    /\ Fits(buffer)
    /\ buffer.size <= MaxInput + max_buffer_size
    /\ type = "FILE" => buffer.total <= got
    /\ type = "LINK" => buffer.mem = <<>> /\ buffer.file = <<>> /\ buffer.total <= got + 1
    /\ type = "FILE" /\ ~spill_failed => Holds(buffer, number)

\* The end of the input that counts: all of it, or as much as --file-max-size says.
Size == IF type = "FILE" THEN buffer.total ELSE got

\* What is known at each place of the thread.
PlaceOK ==
    /\ where = "idle" => buffer.total = 0 /\ buffer.mem = <<>> /\ buffer.file = <<>>
    /\ where \in {"open", "read", "link", "end"} => ~spill_failed
    /\ where \in {"open", "read"} =>
          /\ type = "FILE"
          /\ chunk # 0
          /\ buffer.total = got
          /\ opts.file_max_size # 0 => got < opts.file_max_size
    /\ where = "link" => type = "LINK" /\ buffer.total = 0
    /\ where = "end" /\ ~stopped => Size = Limited(input)
    /\ where = "write" /\ outcome = "DONE" => Size = Limited(input)
    /\ where = "write" /\ outcome = "PARTIAL" => type = "FILE" /\ buffer.total = got

BufferInv == ThreadOK /\ DataOK /\ PlaceOK /\ EntryExact

\* The invariant implies the types, and what BufferSound says in addition.
LEMMA BufferInvSound ==
    ASSUME BufferAssumption, ThreadOK, DataOK
    PROVE  BufferSound
<1>1. buffer.total \in 0..MaxInput + 1
  BY DEF ThreadOK, DataOK, Buffer, BufferAssumption
<1>2. buffer.size \in 0..MaxInput + max_buffer_size
  BY DEF DataOK, Buffer, BufferAssumption
<1>3. got \in 0..MaxInput
  BY DEF ThreadOK, BufferAssumption
<1>4. buffer \in [total : 0..MaxInput + 1, mem : Bytes, size : 0..MaxInput + max_buffer_size,
                  fd_open : BOOLEAN, file : Bytes]
  BY <1>1, <1>2 DEF DataOK, Buffer
<1>5. BufferTypeOK
  BY <1>3, <1>4, Zenon DEF BufferTypeOK, ThreadOK, DataOK, Fits
<1> QED
  BY <1>5, Zenon DEF BufferSound, DataOK, Fits, Holds

\* It holds initially: memset in init_thread.
LEMMA BufferStart ==
    ASSUME BufferAssumption, BufferInit
    PROVE  BufferInv
<1>1. buffer \in Buffer /\ Fits(buffer)
  BY BytesEmpty, SMTT(30) DEF BufferInit, Buffer, Fits
<1>2. Holds(buffer, number)
  BY BytesEmpty, SMTT(30) DEF BufferInit, Holds, InOrder
<1>3. ThreadOK
  <2>1. 0 \in 0..MaxJobs /\ 0 \in 0..MaxInput /\ 0 \in 0..MaxInput + max_buffer_size /\ 0 \in 0..0
    BY DEF BufferAssumption
  <2> QED
    BY <2>1, Zenon DEF BufferInit, ThreadOK
<1>4. buffer.total = 0 /\ buffer.mem = <<>> /\ buffer.file = <<>> /\ buffer.size = 0
  BY DEF BufferInit
<1>5. DataOK
  BY <1>1, <1>2, <1>4 DEF BufferInit, DataOK, BufferAssumption
<1>6. PlaceOK
  BY <1>4 DEF BufferInit, PlaceOK
<1>7. EntryExact
  BY DEF BufferInit, EntryExact, NoEntry
<1> QED
  BY <1>3, <1>5, <1>6, <1>7, ZenonT(30) DEF BufferInv

\* An entry stays exact, since the options do not change.
LEMMA EntryStays ==
    ASSUME EntryExact, UNCHANGED <<entry, opts>>
    PROVE  EntryExact'
BY DEF EntryExact, Limited

\* Data that is moved or left where it is stays the data of the job.
LEMMA DataMoved ==
    ASSUME DataOK, buffer' \in Buffer, Fits(buffer'), buffer'.size <= MaxInput + max_buffer_size,
           buffer'.total = buffer.total, type = "FILE", UNCHANGED <<number, type, got>>,
           ~spill_failed' => Holds(buffer', number)
    PROVE  DataOK'
BY ZenonT(30) DEF DataOK

\* A step that leaves the buffer and the job alone.
LEMMA DataStays ==
    ASSUME DataOK, UNCHANGED <<buffer, number, type, got, spill_failed>>
    PROVE  DataOK'
BY DEF DataOK

\* start_thread_job finds the buffer as it was reset, so that it is right for
\* whichever job comes.
LEMMA StartJobStep ==
    ASSUME BufferAssumption, BufferInv, StartJob
    PROVE  BufferInv'
<1>1. buffer.total = 0 /\ buffer.mem = <<>> /\ buffer.file = <<>> /\ UNCHANGED buffer
  BY Zenon DEF BufferInv, PlaceOK, StartJob
<1>2. Holds(buffer', number')
  <2>1. 1..Len(<<>>) = {} /\ Len(<<>>) = 0 /\ 0 = 0 + 0
    BY BytesEmpty
  <2> QED
    BY <1>1, <2>1, Zenon DEF Holds, InOrder
<1>3. chunk' \in 0..MaxInput + max_buffer_size /\ chunk' # 0
  BY SMTT(30) DEF BufferInv, DataOK, Buffer, StartJob, BufferAssumption
<1>4. number' \in 0..MaxJobs /\ number' # 0 /\ 0 \in 0..input'
  BY DEF BufferInv, ThreadOK, StartJob, BufferAssumption
<1>5. ThreadOK'
  BY <1>3, <1>4, Zenon DEF BufferInv, ThreadOK, StartJob
<1>6. DataOK'
  <2>1. 0 <= 0 /\ 0 <= 0 + 1
    OBVIOUS
  <2> QED
    BY <1>1, <1>2, <2>1, Zenon DEF BufferInv, DataOK, StartJob
<1>7. opts.file_max_size # 0 => 0 < opts.file_max_size
  BY DEF BufferInv, ThreadOK, BufferAssumption
<1>8. PlaceOK'
  BY <1>1, <1>3, <1>7, Zenon DEF PlaceOK, StartJob
<1> QED
  BY <1>5, <1>6, <1>8, EntryStays, Zenon DEF BufferInv, StartJob

\* Opening the input, or failing to.
LEMMA OpenInputStep ==
    ASSUME BufferInv, OpenInput
    PROVE  BufferInv'
<1>1. ThreadOK'
  BY Zenon DEF BufferInv, ThreadOK, OpenInput, ReadError
<1>2. DataOK'
  BY DataStays, Zenon DEF BufferInv, OpenInput
<1>3. PlaceOK'
  BY Zenon DEF BufferInv, PlaceOK, OpenInput, ReadError
<1> QED
  BY <1>1, <1>2, <1>3, EntryStays, Zenon DEF BufferInv, OpenInput

\* The end of the loops, and an abort that is noticed after them.
LEMMA EndReadStep ==
    ASSUME BufferInv, EndRead
    PROVE  BufferInv'
<1>1. ThreadOK'
  BY Zenon DEF BufferInv, ThreadOK, EndRead
<1>2. DataOK'
  BY DataStays, Zenon DEF BufferInv, EndRead
<1>3. PlaceOK'
  BY Zenon DEF BufferInv, PlaceOK, EndRead, Size, Limited
<1> QED
  BY <1>1, <1>2, <1>3, EntryStays, Zenon DEF BufferInv, EndRead

\* Another thread aborts the task.
LEMMA AbortTaskStep ==
    ASSUME BufferInv, AbortTask
    PROVE  BufferInv'
<1>1. ThreadOK'
  BY Zenon DEF BufferInv, ThreadOK, AbortTask
<1>2. DataOK'
  BY DataStays, Zenon DEF BufferInv, AbortTask
<1>3. PlaceOK'
  BY Zenon DEF BufferInv, PlaceOK, AbortTask, Size, Limited
<1> QED
  BY <1>1, <1>2, <1>3, EntryStays, Zenon DEF BufferInv, AbortTask

\* read_symlink's last assignment: the buffer holds the link and a NUL.
LEMMA LinkEnded ==
    ASSUME DataOK, type = "LINK", UNCHANGED <<number, type, spill_failed>>,
           NEW size \in Nat, size >= buffer.size, size <= MaxInput + max_buffer_size,
           NEW n \in Nat, got' = n, EndLink(n, size)
    PROVE  DataOK'
<1>1. /\ buffer'.total = n + 1 /\ buffer'.size = size
      /\ buffer'.mem = buffer.mem /\ buffer'.file = buffer.file
      /\ buffer'.fd_open = buffer.fd_open
      /\ buffer' \in Buffer
  <2>1. n + 1 \in Nat
    OBVIOUS
  <2> QED
    BY <2>1, ZenonT(30) DEF DataOK, Buffer, EndLink
<1>2. Len(<<>>) <= size
  BY BytesEmpty
<1>3. Fits(buffer')
  BY <1>1, <1>2, Zenon DEF DataOK, Fits
<1>4. got' + 1 = n + 1 /\ n + 1 <= n + 1
  BY SMTT(30)
<1> QED
  BY <1>1, <1>3, <1>4, Zenon DEF DataOK

\* The loops end when the task has been aborted.
LEMMA AbortedReadStep ==
    ASSUME BufferAssumption, BufferInv, AbortedRead
    PROVE  BufferInv'
<1>1. ThreadOK'
  BY Zenon DEF BufferInv, ThreadOK, AbortedRead
<1>2. DataOK'
  <2>1. CASE where = "link"
    <3>1. EndLink(got, buffer.size) /\ type = "LINK"
      BY <2>1, Zenon DEF AbortedRead, BufferInv, PlaceOK
    <3>2. got \in Nat /\ buffer.size \in Nat /\ buffer.size >= buffer.size
          /\ buffer.size <= MaxInput + max_buffer_size
      BY DEF BufferInv, DataOK, ThreadOK, Buffer, BufferAssumption
    <3> QED
      BY <3>1, <3>2, LinkEnded, Zenon DEF BufferInv, AbortedRead
  <2>2. CASE where # "link"
    BY <2>2, DataStays, Zenon DEF BufferInv, AbortedRead
  <2> QED
    BY <2>1, <2>2
<1>3. PlaceOK'
  BY Zenon DEF BufferInv, PlaceOK, AbortedRead
<1> QED
  BY <1>1, <1>2, <1>3, EntryStays, ZenonT(30) DEF BufferInv, AbortedRead

\* A round of read_symlink: the buffer grows until the link does not fill it.
LEMMA ReadLinkStep ==
    ASSUME BufferAssumption, BufferInv, ReadLink
    PROVE  BufferInv'
<1> DEFINE size == Larger(buffer.size, chunk)
           actual == Smaller(input, size)
<1>1. /\ where = "link" /\ type = "LINK" /\ ~stopped /\ ~spill_failed
      /\ UNCHANGED <<opts, number, type, input, spill_failed, entry>>
  BY ZenonT(30) DEF BufferInv, PlaceOK, ReadLink
<1>2. /\ size \in Nat /\ size >= buffer.size /\ size <= MaxInput + max_buffer_size
      /\ size >= chunk /\ chunk \in Nat /\ buffer.size \in Nat
  BY SMTT(30) DEF BufferInv, DataOK, ThreadOK, Buffer, Larger, BufferAssumption
<1>3. actual \in 0..input /\ actual <= size /\ (actual < size => actual = input)
      /\ (~(actual < size) => actual = size) /\ input \in Nat /\ input <= MaxInput
  BY <1>2, SMTT(30) DEF BufferInv, ThreadOK, Smaller, BufferAssumption
<1>4. opts.file_max_size \in Nat
  BY DEF BufferInv, ThreadOK, BufferAssumption
<1> HIDE DEF size, actual
<1>5. CASE got' = 0 /\ EndLink(0, size) /\ ReadError /\ UNCHANGED chunk
  <2>1. ThreadOK'
    <3>1. 0 \in 0..input
      BY <1>3
    <3> QED
      BY <1>1, <1>5, <3>1, Zenon DEF BufferInv, ThreadOK, ReadError
  <2>2. DataOK'
    <3>1. 0 \in Nat
      OBVIOUS
    <3> QED
      BY <1>1, <1>2, <1>5, <3>1, LinkEnded, Zenon DEF BufferInv
  <2>3. PlaceOK'
    BY <1>1, <1>5, ZenonT(30) DEF PlaceOK, ReadError
  <2> QED
    BY <1>1, <2>1, <2>2, <2>3, EntryStays, Zenon DEF BufferInv
<1>6. CASE /\ opts.file_max_size > 0 /\ actual > opts.file_max_size
           /\ got' = opts.file_max_size
           /\ EndLink(opts.file_max_size, size)
           /\ where' = "end"
           /\ UNCHANGED <<chunk, outcome, stopped>>
  <2>1. opts.file_max_size \in 0..input
    BY <1>3, <1>4, <1>6
  <2>2. ThreadOK'
    BY <1>1, <1>6, <2>1, Zenon DEF BufferInv, ThreadOK
  <2>3. DataOK'
    BY <1>1, <1>2, <1>4, <1>6, LinkEnded, ZenonT(30) DEF BufferInv
  <2>4. got' = Limited(input)'
    BY <1>1, <1>3, <1>4, <1>6, SMTT(30) DEF Limited, Smaller
  <2>5. PlaceOK'
    BY <1>1, <1>6, <2>4, Zenon DEF PlaceOK, Size
  <2> QED
    BY <1>1, <2>2, <2>3, <2>5, EntryStays, Zenon DEF BufferInv
<1>7. CASE /\ opts.file_max_size = 0 \/ actual <= opts.file_max_size
           /\ got' = actual
           /\ IF actual < size THEN EndLink(actual, size)
              ELSE buffer' = [buffer EXCEPT !.size = size]
           /\ where' = IF actual < size THEN "end" ELSE "link"
           /\ chunk' = IF actual < size THEN chunk ELSE chunk + read_chunk_size
           /\ UNCHANGED <<outcome, stopped>>
  <2>1. chunk' \in 0..MaxInput + max_buffer_size
    BY <1>2, <1>3, <1>7, SMTT(30) DEF BufferInv, ThreadOK, BufferAssumption
  <2>2. ThreadOK'
    BY <1>1, <1>3, <1>7, <2>1, ZenonT(30) DEF BufferInv, ThreadOK
  <2>3. CASE actual < size
    <3>1. DataOK'
      <4>1. actual \in Nat
        BY <1>3, SMTT(30)
      <4> QED
        BY <1>1, <1>2, <1>7, <2>3, <4>1, LinkEnded, ZenonT(30) DEF BufferInv
    <3>2. got' = Limited(input)'
      BY <1>1, <1>3, <1>4, <1>7, <2>3, SMTT(30) DEF Limited, Smaller
    <3>3. PlaceOK'
      BY <1>1, <1>7, <2>3, <3>2, ZenonT(30) DEF PlaceOK, Size
    <3> QED
      BY <1>1, <2>2, <3>1, <3>3, EntryStays, Zenon DEF BufferInv
  <2>4. CASE ~(actual < size)
    <3>1. buffer' = [buffer EXCEPT !.size = size]
      BY <1>7, <2>4, Zenon
    <3>2. /\ buffer'.total = buffer.total /\ buffer'.size = size
          /\ buffer'.mem = buffer.mem /\ buffer'.file = buffer.file
          /\ buffer'.fd_open = buffer.fd_open
          /\ buffer' \in Buffer
      BY <1>2, <3>1, ZenonT(30) DEF BufferInv, DataOK, Buffer
    <3>3. Fits(buffer')
      <4>1. Len(<<>>) <= size
        BY <1>2, BytesEmpty
      <4> QED
        BY <1>1, <3>2, <4>1, Zenon DEF BufferInv, DataOK, Fits
    <3>4. buffer'.total <= got' + 1
      <4>1. buffer.total = 0
        BY <1>1, Zenon DEF BufferInv, PlaceOK
      <4> QED
        BY <1>3, <1>7, <3>2, <4>1
    <3>5. DataOK'
      BY <1>1, <1>2, <3>2, <3>3, <3>4, Zenon DEF BufferInv, DataOK
    <3>6. PlaceOK'
      BY <1>1, <1>7, <2>4, <3>2, Zenon DEF BufferInv, PlaceOK
    <3> QED
      BY <1>1, <2>2, <3>5, <3>6, EntryStays, Zenon DEF BufferInv
  <2> QED
    BY <2>3, <2>4, ZenonT(30)
<1> QED
  BY <1>5, <1>6, <1>7, Zenon DEF ReadLink, size, actual

\* What buffer_make_room does in read_fd: the buffer stays within its bounds and
\* keeps the data of the job, unless a write to the temporary file was short.
LEMMA RoomForJob ==
    ASSUME BufferAssumption, BufferInv, where = "read", NEW r \in buffer_make_room(buffer, chunk)
    PROVE  /\ r.buf \in Buffer
           /\ Fits(r.buf)
           /\ r.buf.size <= MaxInput + max_buffer_size
           /\ r.buf.total = buffer.total
           /\ buffer.fd_open => r.buf.fd_open
           /\ \/ r.rc \in Nat \ {0} /\ Len(r.buf.mem) + r.rc <= r.buf.size
              \/ r.rc = -1
           /\ ~(r.rc < 0 /\ r.buf.file # buffer.file) => Holds(r.buf, number)
<1>1. buffer \in Buffer /\ Fits(buffer) /\ chunk \in Nat \ {0} /\ Holds(buffer, number)
  BY DEF BufferInv, DataOK, ThreadOK, PlaceOK, BufferAssumption
<1>2. /\ r.buf \in Buffer
      /\ Fits(r.buf)
      /\ r.buf.size <= Larger(buffer.size, max_buffer_size)
      /\ r.buf.total = buffer.total
      /\ buffer.fd_open => r.buf.fd_open
      /\ \/ r.rc \in Nat \ {0} /\ Len(r.buf.mem) + r.rc <= r.buf.size
         \/ r.rc = -1
      /\ r.rc # -1 \/ r.buf.file = buffer.file => Holds(r.buf, number)
  BY <1>1, RoomEffect, ZenonT(30)
<1>3. Larger(buffer.size, max_buffer_size) <= MaxInput + max_buffer_size
      /\ Larger(buffer.size, max_buffer_size) \in Nat
  BY <1>1 DEF Larger, BufferInv, DataOK, Buffer, BufferAssumption
<1>4. r.buf.size <= MaxInput + max_buffer_size
  BY <1>2, <1>3 DEF Buffer, BufferAssumption
<1>5. ~(r.rc < 0 /\ r.buf.file # buffer.file) => (r.rc # -1 \/ r.buf.file = buffer.file)
  <2>1. -1 < 0
    BY SMTT(30)
  <2> QED
    BY <2>1, ZenonT(30)
<1> QED
  BY <1>2, <1>4, <1>5, ZenonT(30)

\* A thread that is cancelled leaves the buffer to the one that writes the job.
LEMMA CancelStep ==
    ASSUME BufferAssumption, BufferInv, Cancel
    PROVE  BufferInv'
<1>1. /\ outcome' = "PARTIAL" /\ where' = "write" /\ where \in {"open", "read"}
      /\ stopped' = (stopped \/ ~opts.ignore_failed_read)
      /\ UNCHANGED <<opts, number, type, input, got, chunk, entry>>
  BY Zenon DEF Cancel
<1>2. type = "FILE" /\ buffer.total = got /\ ~spill_failed
  BY <1>1, Zenon DEF BufferInv, PlaceOK
<1>3. DataOK' /\ buffer'.total = buffer.total /\ spill_failed' \in BOOLEAN
  <2>1. CASE where = "open" /\ UNCHANGED <<buffer, spill_failed>>
    <3>1. DataOK'
      BY <1>1, <2>1, DataStays, Zenon DEF BufferInv
    <3> QED
      BY <2>1, <3>1, Zenon DEF BufferInv, ThreadOK
  <2>2. ASSUME where = "read",
               NEW r \in buffer_make_room(buffer, chunk),
               buffer' \in {r.buf, [buffer EXCEPT !.fd_open = r.buf.fd_open]},
               spill_failed' = (r.rc < 0 /\ buffer'.file # buffer.file)
        PROVE  DataOK' /\ buffer'.total = buffer.total /\ spill_failed' \in BOOLEAN
    <3>1. /\ r.buf \in Buffer
          /\ Fits(r.buf)
          /\ r.buf.size <= MaxInput + max_buffer_size
          /\ r.buf.total = buffer.total
          /\ buffer.fd_open => r.buf.fd_open
          /\ ~(r.rc < 0 /\ r.buf.file # buffer.file) => Holds(r.buf, number)
      BY <2>2, RoomForJob, Zenon
    <3>2. spill_failed' \in BOOLEAN
      BY <2>2, ZenonT(30)
    <3>3. CASE buffer' = r.buf
      <4>1. ~spill_failed' => Holds(buffer', number)
        BY <2>2, <3>1, <3>3, Zenon
      <4>2. DataOK'
        BY <1>1, <1>2, <3>1, <3>3, <4>1, DataMoved, ZenonT(30) DEF BufferInv
      <4> QED
        BY <3>1, <3>2, <3>3, <4>2, ZenonT(30)
    <3>4. CASE buffer' = [buffer EXCEPT !.fd_open = r.buf.fd_open]
      <4>1. /\ buffer'.total = buffer.total /\ buffer'.mem = buffer.mem
            /\ buffer'.file = buffer.file /\ buffer'.size = buffer.size
            /\ buffer'.fd_open = r.buf.fd_open
            /\ buffer' \in Buffer
        BY <3>1, <3>4, ZenonT(30) DEF BufferInv, DataOK, Buffer
      <4>2. Fits(buffer')
        BY <3>1, <4>1, Zenon DEF BufferInv, DataOK, Fits
      <4>3. Holds(buffer', number)
        BY <1>2, <4>1, Zenon DEF BufferInv, DataOK, Holds
      <4>4. DataOK'
        BY <1>1, <1>2, <4>1, <4>2, <4>3, DataMoved, ZenonT(30) DEF BufferInv, DataOK
      <4> QED
        BY <3>2, <4>1, <4>4, ZenonT(30)
    <3> QED
      BY <2>2, <3>3, <3>4
  <2> QED
    BY <2>1, <2>2, Zenon DEF Cancel
<1>4. ThreadOK'
  BY <1>1, <1>3, Zenon DEF BufferInv, ThreadOK
<1>5. PlaceOK'
  BY <1>1, <1>2, <1>3, ZenonT(30) DEF PlaceOK
<1> QED
  BY <1>1, <1>3, <1>4, <1>5, EntryStays, Zenon DEF BufferInv

\* The number of bytes to ask for next is never 0, which the loop would take for
\* the end of the input.
LEMMA NextChunkPositive ==
    ASSUME BufferAssumption, NEW b \in Buffer, b.size <= MaxInput + max_buffer_size
    PROVE  NextChunk(b) \in 1..MaxInput + max_buffer_size
<1>1. Len(b.mem) \in Nat /\ b.size \in Nat
  BY BytesEmpty DEF Buffer
<1> QED
  BY <1>1 DEF NextChunk, BufferAssumption

\* A round of read_fd. It ends with the end of the input or with the size limit,
\* never before.
LEMMA ReadChunkStep ==
    ASSUME BufferAssumption, BufferInv, ReadChunk
    PROVE  BufferInv'
<1>1. /\ where = "read" /\ ~stopped /\ ~spill_failed
      /\ type = "FILE" /\ buffer.total = got
      /\ opts.file_max_size # 0 => got < opts.file_max_size
      /\ UNCHANGED <<opts, number, type, input, entry>>
  BY Zenon DEF BufferInv, PlaceOK, ReadChunk
<1>2. PICK r \in buffer_make_room(buffer, chunk) :
         \/ /\ r.rc < 0 \/ "read" \in IOFaults
            /\ buffer' = r.buf
            /\ spill_failed' = (r.rc < 0 /\ r.buf.file # buffer.file)
            /\ ReadError
            /\ UNCHANGED <<got, chunk>>
         \/ /\ r.rc >= 0
            /\ got = input \/ r.rc = 0
            /\ buffer' = r.buf
            /\ where' = "end"
            /\ UNCHANGED <<got, chunk, outcome, stopped, spill_failed>>
         \/ \E n \in 1..Smaller(r.rc, input - got) :
               LET filled == Stored(r.buf, n)
                   full == opts.file_max_size > 0 /\ filled.total >= opts.file_max_size
               IN  /\ got' = got + n
                   /\ buffer' = IF full THEN buffer_truncate(filled, opts.file_max_size)
                                ELSE filled
                   /\ where' = IF full THEN "end" ELSE "read"
                   /\ chunk' = IF full THEN chunk ELSE NextChunk(filled)
                   /\ UNCHANGED <<outcome, stopped, spill_failed>>
  BY Zenon DEF ReadChunk
<1>3. /\ r.buf \in Buffer
      /\ Fits(r.buf)
      /\ r.buf.size <= MaxInput + max_buffer_size
      /\ r.buf.total = buffer.total
      /\ \/ r.rc \in Nat \ {0} /\ Len(r.buf.mem) + r.rc <= r.buf.size
         \/ r.rc = -1
      /\ ~(r.rc < 0 /\ r.buf.file # buffer.file) => Holds(r.buf, number)
  BY <1>1, RoomForJob, Zenon
<1>4. /\ got \in Nat /\ input \in Nat /\ got <= input /\ input <= MaxInput
      /\ opts.file_max_size \in Nat
  BY DEF BufferInv, ThreadOK, BufferAssumption
<1>5. CASE /\ buffer' = r.buf
           /\ spill_failed' = (r.rc < 0 /\ r.buf.file # buffer.file)
           /\ ReadError
           /\ UNCHANGED <<got, chunk>>
  <2>1. spill_failed' \in BOOLEAN
    BY <1>5
  <2>2. ThreadOK'
    BY <1>1, <1>5, <2>1, Zenon DEF BufferInv, ThreadOK, ReadError
  <2>3. DataOK'
    BY <1>1, <1>3, <1>5, DataMoved, Zenon DEF BufferInv
  <2>4. PlaceOK'
    BY <1>5, Zenon DEF PlaceOK, ReadError
  <2> QED
    BY <1>1, <2>2, <2>3, <2>4, EntryStays, Zenon DEF BufferInv
<1>6. CASE /\ r.rc >= 0
           /\ got = input \/ r.rc = 0
           /\ buffer' = r.buf
           /\ where' = "end"
           /\ UNCHANGED <<got, chunk, outcome, stopped, spill_failed>>
  <2>1. got = input /\ ~(r.rc < 0)
    BY <1>3, <1>6
  <2>2. ThreadOK'
    BY <1>1, <1>6, Zenon DEF BufferInv, ThreadOK
  <2>3. DataOK'
    BY <1>1, <1>3, <1>6, <2>1, DataMoved, Zenon DEF BufferInv
  <2>4. got = Limited(input)
    BY <1>1, <1>4, <2>1 DEF Limited, Smaller
  <2>5. Size' = Limited(input)'
    BY <1>1, <1>3, <1>6, <2>4, Zenon DEF Size, Limited
  <2>6. PlaceOK'
    BY <1>1, <1>6, <2>5, Zenon DEF PlaceOK
  <2> QED
    BY <1>1, <2>2, <2>3, <2>6, EntryStays, Zenon DEF BufferInv
<1>7. ASSUME NEW n \in 1..Smaller(r.rc, input - got),
             NEW filled, filled = Stored(r.buf, n),
             NEW full, full = (opts.file_max_size > 0 /\ filled.total >= opts.file_max_size),
             got' = got + n,
             buffer' = IF full THEN buffer_truncate(filled, opts.file_max_size) ELSE filled,
             where' = IF full THEN "end" ELSE "read",
             chunk' = IF full THEN chunk ELSE NextChunk(filled),
             UNCHANGED <<outcome, stopped, spill_failed>>
      PROVE  BufferInv'
  <2>1. /\ n \in Nat /\ n <= r.rc /\ got + n <= input /\ got + n <= MaxInput
        /\ ~(r.rc < 0) /\ got + n \in 0..input
    BY <1>3, <1>4 DEF Smaller, BufferAssumption
  <2>2. Len(r.buf.mem) + n <= r.buf.size
    <3>1. PICK x : x = Len(r.buf.mem)
      BY ZenonT(30)
    <3>2. x \in Nat /\ r.buf.size \in Nat /\ r.rc \in Nat /\ x + r.rc <= r.buf.size
      BY <1>3, <2>1, <3>1, BytesEmpty, SMTT(30) DEF Buffer
    <3>3. x + n <= r.buf.size
      BY <2>1, <3>2
    <3> QED
      BY <3>1, <3>3, Zenon
  <2>3. number \in 1..MaxJobs
    BY <1>1 DEF BufferInv, ThreadOK, BufferAssumption
  <2>4. /\ filled \in Buffer
        /\ Fits(filled)
        /\ filled.total = r.buf.total + n
        /\ filled.size = r.buf.size
        /\ Holds(filled, number)
    BY <1>1, <1>3, <1>4, <1>7, <2>1, <2>2, <2>3, StoredEffect, ZenonT(30) DEF BufferAssumption
  <2>5. filled.total = got'
    BY <1>1, <1>3, <1>7, <2>4, Zenon
  <2>6. full = (opts.file_max_size > 0 /\ got' >= opts.file_max_size) /\ got' = got + n
    BY <1>7, <2>5, Zenon
  <2>7. got' \in Nat /\ got' <= input
    BY <1>4, <2>1, <2>6
  <2>8. CASE full
    <3>1. PICK c : c = buffer_truncate(filled, opts.file_max_size)
      OBVIOUS
    <3>2. /\ c \in Buffer /\ Fits(c) /\ c.size = filled.size /\ Holds(c, number)
          /\ c.total = Smaller(filled.total, opts.file_max_size)
      BY <1>4, <2>4, <3>1, TruncateEffect, Zenon
    <3>3. buffer' = c /\ where' = "end" /\ chunk' = chunk
      BY <1>7, <2>8, <3>1, Zenon
    <3>4. c.total <= got' /\ c.total = Limited(input)
      <4>1. c.total = Smaller(got', opts.file_max_size)
        BY <2>5, <3>2, Zenon
      <4>2. opts.file_max_size > 0 /\ got' >= opts.file_max_size
        BY <2>6, <2>8, Zenon
      <4> QED
        BY <1>4, <2>7, <4>1, <4>2 DEF Smaller, Limited
    <3>5. ThreadOK'
      BY <1>1, <1>7, <2>1, <3>3, Zenon DEF BufferInv, ThreadOK
    <3>6. DataOK'
      BY <1>1, <1>3, <2>4, <3>2, <3>3, <3>4, Zenon DEF DataOK
    <3>7. Size' = Limited(input)'
      BY <1>1, <3>3, <3>4, Zenon DEF Size, Limited
    <3>8. PlaceOK'
      BY <1>1, <1>7, <3>3, <3>7, Zenon DEF PlaceOK
    <3> QED
      BY <1>1, <3>5, <3>6, <3>8, EntryStays, Zenon DEF BufferInv
  <2>9. CASE ~full
    <3>1. buffer' = filled /\ where' = "read" /\ chunk' = NextChunk(filled)
      BY <1>7, <2>9, Zenon
    <3>2. chunk' \in 0..MaxInput + max_buffer_size /\ chunk' # 0
      <4>1. chunk' \in 1..MaxInput + max_buffer_size
        BY <1>3, <2>4, <3>1, NextChunkPositive, Zenon
      <4> QED
        BY <4>1 DEF BufferAssumption
    <3>3. got' <= got'
      BY <1>4, <1>7, <2>1
    <3>4. opts.file_max_size # 0 => got' < opts.file_max_size
      <4>1. ~(opts.file_max_size > 0 /\ got' >= opts.file_max_size)
        BY <2>6, <2>9, Zenon
      <4> QED
        BY <1>4, <2>7, <4>1
    <3>5. ThreadOK'
      BY <1>1, <1>7, <2>1, <3>1, <3>2, Zenon DEF BufferInv, ThreadOK
    <3>6. DataOK'
      BY <1>1, <1>3, <2>4, <2>5, <3>1, <3>3, Zenon DEF DataOK
    <3>7. PlaceOK'
      BY <1>1, <1>7, <2>5, <3>1, <3>2, <3>4, Zenon DEF PlaceOK
    <3> QED
      BY <1>1, <3>5, <3>6, <3>7, EntryStays, Zenon DEF BufferInv
  <2> QED
    BY <2>8, <2>9
<1> QED
  BY <1>2, <1>5, <1>6, <1>7, ZenonT(30)

\* emit_content copies the data of the job, all of it and in order.
LEMMA EmittedExact ==
    ASSUME NEW r, r.buf \in Buffer, NEW k, Holds(r.buf, k), r.buf.total = buffer.total,
           ~(r.rc < 0)
    PROVE  /\ Emitted(r) \in Bytes
           /\ Len(Emitted(r)) = buffer.total
           /\ \A i \in DOMAIN Emitted(r) : Emitted(r)[i] = <<k, i>>
<1>1. r.buf.mem \in Bytes /\ r.buf.file \in Bytes /\ r.buf.total \in Nat
  BY DEF Buffer
<1>2. PICK x : x = Len(r.buf.file)
  BY ZenonT(30)
<1>3. PICK y : y = Len(r.buf.mem)
  BY ZenonT(30)
<1>4. x \in Nat /\ y \in Nat /\ buffer.total = y + x
  BY <1>1, <1>2, <1>3, BytesEmpty, Zenon DEF Holds
<1>5. PICK d : d = r.buf.file \o r.buf.mem
  BY ZenonT(30)
<1>6. d \in Bytes /\ Len(d) = x + y
  BY <1>1, <1>2, <1>3, <1>5, BytesConcat, ZenonT(30)
<1>7. InOrder(d, k, 0)
  <2>1. 0 + x = x /\ 0 \in Nat
    BY <1>4
  <2> QED
    BY <1>1, <1>2, <1>5, <2>1, OrderJoined, Zenon DEF Holds
<1>8. Smaller(buffer.total, Len(d)) = x + y
  <2>1. Smaller(y + x, x + y) = x + y
    BY <1>4 DEF Smaller
  <2> QED
    BY <1>4, <1>6, <2>1, Zenon
<1>9. PICK e : e = SubSeq(d, 1, x + y)
  BY ZenonT(30)
<1>10. Emitted(r) = e
  BY <1>5, <1>8, <1>9, Zenon DEF Emitted
<1>11. x + y \in 0..Len(d) /\ y + x = x + y
  <2>1. x + y \in 0..x + y /\ y + x = x + y
    BY <1>4
  <2> QED
    BY <1>6, <2>1, Zenon
<1>12. e \in Bytes /\ Len(e) = x + y
  BY <1>6, <1>9, <1>11, BytesPrefix, Zenon
<1>13. InOrder(e, k, 0)
  BY <1>6, <1>7, <1>9, <1>11, OrderCut
<1>14. DOMAIN e = 1..Len(e)
  BY <1>12 DEF Bytes
<1>15. \A i \in DOMAIN e : e[i] = <<k, i>>
  BY <1>13, <1>14 DEF InOrder
<1> QED
  BY <1>4, <1>10, <1>11, <1>12, <1>15, Zenon

\* postprocess_job and stop_thread_job: what was read is written, and the buffer
\* reset.
LEMMA WriteJobStep ==
    ASSUME BufferAssumption, BufferInv, WriteJob
    PROVE  BufferInv'
<1>1. /\ where = "write" /\ where' = "idle" /\ buffer' = buffer_reset(buffer)
      /\ UNCHANGED <<opts, number, type, input, got, chunk, outcome, stopped, spill_failed>>
  BY Zenon DEF WriteJob
<1>2. /\ buffer'.total = 0 /\ buffer'.mem = <<>> /\ buffer'.file = <<>>
      /\ buffer'.size = buffer.size
      /\ buffer' \in Buffer
  BY <1>1, BytesEmpty, ZenonT(30) DEF BufferInv, DataOK, Buffer, buffer_reset
<1>3. Len(<<>>) = 0 /\ 1..Len(<<>>) = {} /\ 0 = 0 + 0
  BY BytesEmpty
<1>4. Fits(buffer') /\ 0 <= got /\ 0 <= got + 1
  <2>1. 0 <= buffer.size /\ 0 <= got /\ 0 <= got + 1
    BY DEF BufferInv, ThreadOK, DataOK, Buffer
  <2> QED
    BY <1>2, <1>3, <2>1, Zenon DEF Fits
<1>5. Holds(buffer', number)
  BY <1>2, <1>3, Zenon DEF Holds, InOrder
<1>6. ThreadOK'
  BY <1>1, Zenon DEF BufferInv, ThreadOK
<1>7. DataOK'
  BY <1>1, <1>2, <1>4, <1>5, Zenon DEF BufferInv, DataOK
<1>8. PlaceOK'
  BY <1>1, <1>2, Zenon DEF PlaceOK
<1>9. EntryExact'
  <2>1. PICK r \in IF Written /\ type = "FILE" /\ buffer.total > 0 /\ buffer.fd_open
                   THEN buffer_flush(buffer) ELSE {[buf |-> buffer, rc |-> 0]} :
           entry' = IF ~Written THEN entry
                    ELSE [status |-> outcome, job |-> number, type |-> type, input |-> input,
                          got |-> got, spill_failed |-> spill_failed \/ r.rc < 0,
                          len |-> IF type = "LINK" THEN 0 ELSE buffer.total,
                          data |-> IF type = "LINK" THEN [i \in 1..got |-> <<number, i>>]
                                   ELSE Emitted(r)]
    BY Zenon DEF WriteJob
  <2>2. CASE ~Written
    BY <1>1, <2>1, <2>2, EntryStays, Zenon DEF BufferInv
  <2>3. CASE Written /\ type = "LINK"
    <3>1. PICK t : t = [i \in 1..got |-> <<number, i>>]
      BY ZenonT(30)
    <3>2. DOMAIN t = 1..got /\ Len(t) = got /\ \A i \in 1..got : t[i] = <<number, i>>
      <4>1. got \in Nat
        BY DEF BufferInv, ThreadOK
      <4> QED
        BY <3>1, <4>1
    <3>3. entry' = [status |-> outcome, job |-> number, type |-> "LINK", input |-> input,
                    got |-> got, spill_failed |-> spill_failed \/ r.rc < 0, len |-> 0, data |-> t]
      BY <2>1, <2>3, <3>1, Zenon
    <3>4. /\ entry'.status = outcome /\ entry'.job = number /\ entry'.type = "LINK"
          /\ entry'.input = input /\ entry'.data = t
      BY <3>3
    <3>5. outcome = "DONE" => got = Limited(input)
      BY <1>1, <2>3, Zenon DEF BufferInv, PlaceOK, Size
    <3>6. outcome # "PARTIAL"
      BY <1>1, <2>3, Zenon DEF BufferInv, PlaceOK
    <3> QED
      BY <1>1, <3>2, <3>4, <3>5, <3>6, Zenon DEF EntryExact, Limited
  <2>4. CASE Written /\ type = "FILE"
    <3>1. PICK t : t = Emitted(r)
      OBVIOUS
    <3>2. entry' = [status |-> outcome, job |-> number, type |-> "FILE", input |-> input,
                    got |-> got, spill_failed |-> spill_failed \/ r.rc < 0,
                    len |-> buffer.total, data |-> t]
      BY <2>1, <2>4, <3>1, ZenonT(30)
    <3>3. /\ entry'.status = outcome /\ entry'.job = number /\ entry'.type = "FILE"
          /\ entry'.input = input /\ entry'.data = t /\ entry'.got = got
          /\ entry'.len = buffer.total /\ entry'.spill_failed = (spill_failed \/ r.rc < 0)
      BY <3>2
    <3>4. ASSUME ~spill_failed, ~(r.rc < 0)
          PROVE  Len(t) = buffer.total /\ \A i \in DOMAIN t : t[i] = <<number, i>>
      <4>1. buffer \in Buffer /\ Fits(buffer) /\ Holds(buffer, number)
        BY <2>4, <3>4, Zenon DEF BufferInv, DataOK
      <4>2. r.buf \in Buffer /\ Holds(r.buf, number) /\ r.buf.total = buffer.total
        <5>1. CASE r = [buf |-> buffer, rc |-> 0]
          <6>1. r.buf = buffer
            BY <5>1
          <6> QED
            BY <4>1, <6>1, Zenon
        <5>2. CASE r \in buffer_flush(buffer)
          <6>1. r.buf \in Buffer /\ r.buf.total = buffer.total /\ (r.rc # 0 => r.rc = -1)
            BY <4>1, <5>2, FlushEffect, ZenonT(30)
          <6>2. r.rc = 0
            <7>1. -1 < 0
              OBVIOUS
            <7> QED
              BY <3>4, <6>1, <7>1, Zenon
          <6> QED
            BY <4>1, <5>2, <6>1, <6>2, FlushHolds, Zenon
        <5> QED
          BY <2>1, <5>1, <5>2, Zenon
      <4> QED
        BY <3>1, <3>4, <4>2, EmittedExact, ZenonT(30)
    <3>5. outcome = "DONE" => buffer.total = Limited(input)
      BY <1>1, <2>4, Zenon DEF BufferInv, PlaceOK, Size
    <3>6. outcome = "PARTIAL" => buffer.total = got
      BY <1>1, <2>4, Zenon DEF BufferInv, PlaceOK
    <3> QED
      BY <1>1, <3>3, <3>4, <3>5, <3>6, Zenon DEF EntryExact, Limited
  <2> QED
    BY <2>2, <2>3, <2>4 DEF BufferInv, ThreadOK
<1> QED
  BY <1>6, <1>7, <1>8, <1>9, Zenon DEF BufferInv

-----------------------------------------------------------------------------
(***************************************************************************)
(* The theorems.                                                           *)
(***************************************************************************)

\* Every step keeps the invariant.
LEMMA BufferStep ==
    ASSUME BufferAssumption, BufferInv, [BufferNext]_bufferVars
    PROVE  BufferInv'
<1>1. CASE UNCHANGED bufferVars
  <2>1. DataOK'
    BY <1>1, DataStays, Zenon DEF bufferVars, BufferInv
  <2>2. ThreadOK' /\ PlaceOK'
    BY <1>1, ZenonT(30) DEF bufferVars, BufferInv, ThreadOK, PlaceOK, Size, Limited
  <2> QED
    BY <1>1, <2>1, <2>2, EntryStays, Zenon DEF bufferVars, BufferInv
<1> QED
  BY <1>1, StartJobStep, OpenInputStep, ReadChunkStep, ReadLinkStep, AbortedReadStep,
     EndReadStep, CancelStep, AbortTaskStep, WriteJobStep, Zenon DEF BufferNext, NoMoreJobs

\* The invariant of the buffer, for every chunk and buffer size, size limit, set of
\* failures and number of jobs.
THEOREM BufferAlways == BufferSpec => []BufferInv
<1>1. BufferInit => BufferInv
  BY BufferAssumption, BufferStart
<1>2. BufferInv /\ [BufferNext]_bufferVars => BufferInv'
  BY BufferAssumption, BufferStep
<1> QED
  BY <1>1, <1>2, PTL DEF BufferSpec

\* The data in memory fits there, and total is what memory and temporary file hold.
THEOREM BufferIsSound == BufferSpec => []BufferSound
<1>1. BufferInv => BufferSound
  BY BufferAssumption, BufferInvSound DEF BufferInv
<1> QED
  BY <1>1, BufferAlways, PTL

\* An entry of the archive holds the beginning of the input of its own job: all of
\* it if the job was done, and what was returned so far if it was timed out.
THEOREM EntriesAreExact == BufferSpec => []EntryExact
<1>1. BufferInv => EntryExact
  BY DEF BufferInv
<1> QED
  BY <1>1, BufferAlways, PTL

\* Files and commands never make the buffer in memory larger than max_buffer_size.
THEOREM MemoryIsCapped == BufferSpec => MemoryCapped
<1>1. BufferInv /\ [BufferNext]_bufferVars => [StaysCapped]_bufferVars
  <2> SUFFICES ASSUME BufferInv, BufferNext, type = "FILE"
               PROVE  buffer'.size <= Larger(buffer.size, max_buffer_size)
    BY DEF StaysCapped
  <2>1. buffer \in Buffer /\ Fits(buffer) /\ buffer.size \in Nat /\ max_buffer_size \in Nat
    BY BufferAssumption DEF BufferInv, DataOK, Buffer, BufferAssumption
  <2>2. buffer.size <= Larger(buffer.size, max_buffer_size) /\ Larger(buffer.size, max_buffer_size) \in Nat
    BY <2>1 DEF Larger
  <2>3. CASE UNCHANGED buffer
    BY <2>2, <2>3, Zenon
  <2>4. ASSUME where = "read", NEW r \in buffer_make_room(buffer, chunk)
        PROVE  r.buf \in Buffer /\ r.buf.size <= Larger(buffer.size, max_buffer_size)
    <3>1. chunk \in Nat \ {0}
      BY <2>4, BufferAssumption DEF BufferInv, ThreadOK, PlaceOK, BufferAssumption
    <3> QED
      BY <2>1, <3>1, BufferAssumption, RoomEffect, ZenonT(30)
  <2>5. CASE ReadChunk
    <3>1. PICK r \in buffer_make_room(buffer, chunk) :
             \/ buffer' = r.buf
             \/ \E n \in 1..Smaller(r.rc, input - got) :
                   \/ buffer' = Stored(r.buf, n)
                   \/ buffer' = buffer_truncate(Stored(r.buf, n), opts.file_max_size)
      BY <2>5, ZenonT(30) DEF ReadChunk
    <3>2. r.buf \in Buffer /\ r.buf.size <= Larger(buffer.size, max_buffer_size)
      BY <2>4, <2>5, <3>1, Zenon DEF ReadChunk
    <3>3. \A n : Stored(r.buf, n).size = r.buf.size
      BY <3>2 DEF Stored, Buffer
    <3>4. \A n, l : buffer_truncate(Stored(r.buf, n), l).size = r.buf.size
      BY <3>2 DEF Stored, Buffer, buffer_truncate
    <3> QED
      BY <3>1, <3>2, <3>3, <3>4, Zenon
  <2>6. CASE Cancel /\ where = "read"
    <3>1. PICK r \in buffer_make_room(buffer, chunk) :
             buffer' \in {r.buf, [buffer EXCEPT !.fd_open = r.buf.fd_open]}
      BY <2>6, Zenon DEF Cancel
    <3>2. [buffer EXCEPT !.fd_open = r.buf.fd_open].size = buffer.size
      BY <2>1 DEF Buffer
    <3>3. r.buf.size <= Larger(buffer.size, max_buffer_size)
      BY <2>4, <2>6, <3>1, Zenon
    <3> QED
      BY <2>2, <3>1, <3>2, <3>3, Zenon
  <2>7. CASE WriteJob
    <3>1. buffer'.size = buffer.size
      BY <2>1, <2>7 DEF WriteJob, buffer_reset, Buffer
    <3> QED
      BY <2>2, <3>1
  <2>8. ~ReadLink /\ (AbortedRead => UNCHANGED buffer)
    BY Zenon DEF ReadLink, AbortedRead, BufferInv, PlaceOK
  <2>9. Cancel => where = "read" \/ UNCHANGED buffer
    BY Zenon DEF Cancel
  <2>10. StartJob \/ OpenInput \/ EndRead \/ AbortTask \/ NoMoreJobs => UNCHANGED buffer
    BY Zenon DEF StartJob, OpenInput, EndRead, AbortTask, NoMoreJobs, bufferVars
  <2> QED
    BY <2>3, <2>5, <2>6, <2>7, <2>8, <2>9, <2>10, Zenon DEF BufferNext
<1> QED
  BY <1>1, BufferAlways, PTL DEF BufferSpec, MemoryCapped
=============================================================================
