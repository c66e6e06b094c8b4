------------------------------- MODULE Buffers -------------------------------
(***************************************************************************)
(* What an upstream has received and its client cannot take yet            *)
(* (core/src/memory_buffer.cpp, core/src/memfile_buffer.cpp): in memory,   *)
(* or in memory up to a threshold and the rest in a file that is stripped  *)
(* of what has been read. A failed push leaves the connection open with    *)
(* the rest of its data lost; a failed peek closes it, except in HTTP/2's  *)
(* handler of new data, which is lost. A byte is its number among those    *)
(* the buffer took. A file call does all it is asked for or fails, and     *)
(* strip_file can put back the file it could not replace.                  *)
(***************************************************************************)
EXTENDS Naturals, Sequences

CONSTANTS
    MemThreshold,   \* conn_memory_buffer_threshold
    MaxFileSize,    \* max_conn_buffer_file_size
    MaxPush,        \* bound: bytes of one push
    MaxBytes        \* bound: bytes of the stream

VARIABLES
    buf,            \* the buffer: MemoryBuffer, or MemfileBuffer when usesFile
    pushed, drained,\* how much of the stream was put in and taken out
    lost,           \* how much of it was not put in
    unread,         \* a read of the file has failed and none has succeeded since, or the file could not be opened
    overtaken       \* meanwhile new data went before what is in the file

bufferVars == <<buf, pushed, drained, lost, unread, overtaken>>

\* mem: m_mem_buffer; file, off: the file and m_read_offset; fd: m_fd is open; on: the connection is.
Init ==
    /\ \E usesFile \in BOOLEAN :
         buf = [usesFile |-> usesFile, mem |-> <<>>, file |-> <<>>, off |-> 0, fd |-> FALSE, on |-> TRUE]
    /\ pushed = 0 /\ drained = 0 /\ lost = 0 /\ unread = FALSE /\ overtaken = FALSE

Least(a, b) == IF a < b THEN a ELSE b
From(s, i) == SubSeq(s, i + 1, Len(s))
Bytes(first, n) == [i \in 1 .. n |-> first + i - 1]

GetFreeMemSpace(b) == MemThreshold - Len(b.mem)
Unread(b) == Len(b.file) - b.off

\* size() > 0: without the file its offset is subtracted all the same, and wraps around.
HasData(b) == IF b.fd THEN Len(b.mem) + Unread(b) > 0 ELSE Len(b.mem) # b.off

Closed(b) == [b EXCEPT !.on = FALSE]

\* MemoryBuffer: push and drain, over its chunks.
MemPush(b, data) == [b EXCEPT !.mem = @ \o data]
MemDrain(b, r) == [b EXCEPT !.mem = From(@, r)]

\* transfer_file2mem: fills the memory from the file. It is tried when there is room, and may fail then.
TransferFile2Mem(b) ==
    LET n == IF b.fd THEN Least(GetFreeMemSpace(b), Unread(b)) ELSE 0 IN
    [MemPush(b, SubSeq(b.file, b.off + 1, b.off + n)) EXCEPT !.off = @ + n]
MayFail(b) == b.fd /\ GetFreeMemSpace(b) > 0

\* transfer_mem2mem: how much of n bytes the memory takes.
TransferMem2Mem(b, n) == IF b.usesFile THEN Least(GetFreeMemSpace(b), n) ELSE n

NeedToStripFile(b, n) ==
    \/ Len(b.file) + n > MaxFileSize
    \/ b.off > 0 /\ \/ b.off > (MaxFileSize * 3) \div 10
                    \/ b.off > (Len(b.file) * 3) \div 10
                    \/ Len(b.file) > (MaxFileSize * 8) \div 10

\* strip_file: the unread part is copied to a new file.
StripFile(b) == [b EXCEPT !.file = From(@, b.off), !.off = 0]

\* write_in_file, every file call succeeding: what exceeds the maximum is cut off and not reported.
Stripped(b, n) == IF NeedToStripFile(b, n) THEN StripFile(b) ELSE b
Written(b, n) == Least(n, MaxFileSize - Len(b.file))
WriteInFile(b, data) ==
    [b EXCEPT !.fd = TRUE, !.file = @ \o SubSeq(data, 1, Written(b, Len(data)))]

\* The buffer when write_in_file has failed: the file was not opened, not stripped, or stripped and not written.
WriteFailed(b, s) == {b} \cup {[x EXCEPT !.fd = TRUE] : x \in {b, s}}

\* m of n bytes of the stream were put in.
Took(m, n) == pushed' = pushed + m /\ lost' = lost + (n - m)

\* push: the memory takes what it has room for, the file the rest.
Push(n) ==
    LET data == Bytes(pushed + 1, n)
        k == TransferMem2Mem(buf, n)
        b == MemPush(buf, SubSeq(data, 1, k))
        rest == From(data, k)
        s == Stripped(b, Len(rest))
    IN
    /\ buf.on /\ pushed + lost + n <= MaxBytes
    /\ overtaken' = (overtaken \/ (unread /\ k > 0 /\ Unread(buf) > 0))
    /\ \/ rest = <<>> /\ buf' = b /\ Took(k, n) /\ UNCHANGED unread
       \/ /\ rest # <<>> /\ Len(s.file) < MaxFileSize
          /\ buf' = WriteInFile(s, rest) /\ Took(k + Written(s, Len(rest)), n) /\ UNCHANGED unread
       \/ rest # <<>> /\ buf' \in WriteFailed(b, s) /\ Took(k, n) /\ UNCHANGED unread
       \/ /\ rest # <<>> /\ NeedToStripFile(b, Len(rest))     \* strip_file has closed the file and cannot move it
          /\ buf' = [b EXCEPT !.fd = FALSE] /\ Took(k, n) /\ unread' = TRUE
    /\ UNCHANGED drained

\* HTTP_EVENT_DATA of HTTP/2 when what is pending cannot be read: the new data is lost.
DataAfterFailedPeek(n) ==
    /\ buf.on /\ HasData(buf) /\ MayFail(buf) /\ pushed + lost + n <= MaxBytes
    /\ Took(0, n)
    /\ UNCHANGED <<buf, drained, unread, overtaken>>

\* A slip: the memory is filled by the next peek only.
Drained_lazily(b, r) == {<<MemDrain(b, r), TRUE>>}

\* drain: the outcomes, with whether nothing is left in the file that was asked for. A failure is not reported.
Drained(b, r) ==
    LET d == MemDrain(b, r) IN
    {<<TransferFile2Mem(d), d.fd \/ Unread(d) = 0>>} \cup (IF MayFail(d) THEN {<<d, Unread(d) = 0>>} ELSE {})

\* A round of read_out_pending_data: peek, and the client takes r bytes of what is in memory.
ReadOut ==
    LET p == TransferFile2Mem(buf) IN
    /\ buf.on /\ HasData(buf)
    /\ \/ \E r \in 1 .. Len(p.mem) :
          \E d \in Drained(p, r) : buf' = d[1] /\ drained' = drained + r /\ unread' = ~d[2]
       \/ MayFail(buf) /\ buf' = Closed(buf) /\ UNCHANGED <<drained, unread>>
    /\ UNCHANGED <<pushed, lost, overtaken>>

Next == ReadOut \/ \E n \in 1 .. MaxPush : Push(n) \/ DataAfterFailedPeek(n)

Spec == Init /\ [][Next]_bufferVars

-----------------------------------------------------------------------------

\* What the buffer holds, in memory and then in the file.
Kept == buf.mem \o From(buf.file, buf.off)

\* However pushes, drains, strips of the file, full memory and failing file calls interleave, the buffer holds what
\* it took and its client has not, in order, and no more than the threshold in memory. Except after a read of the
\* file has failed and new data was put in before the next one.
BufferInOrder ==
    buf.on /\ ~overtaken =>
        /\ Kept = Bytes(drained + 1, pushed - drained)
        /\ buf.usesFile => Len(buf.mem) <= MemThreshold

\* The same, also after a failed read. It does not hold: drain drops the error, the memory has room while older data
\* is in the file, and the next push overtakes it.
OrderSurvivesFailedRead == buf.on => Kept = Bytes(drained + 1, pushed - drained)

\* The stream of an open connection has no gap. It does not hold: the result of a failed push is not used by HTTP/3
\* and makes HTTP/2 return an error that closes nothing, and what exceeds the maximum of the file is cut off.
NothingLost == buf.on => lost = 0
=============================================================================
