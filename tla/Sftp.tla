-------------------------------- MODULE Sftp --------------------------------
(***************************************************************************)
(* The SFTP client (sftp.py, sftp_client.py) and an open remote file       *)
(* (sftp_file.py over file.py) against the server of SftpServer.           *)
(*                                                                         *)
(* Two kinds of threads use one SFTPClient.  The user's thread makes the   *)
(* calls and is the only one that reads responses: while it waits for its  *)
(* own it hands out the others.  Prefetch threads only send: READ requests *)
(* whose answers the user's thread will meet later.  A request is numbered *)
(* under a lock and sent after the lock is released.                       *)
(***************************************************************************)
EXTENDS SftpServer, SequencesExt

CONSTANTS
    Workers,            \* prefetch threads there may be at a time
    MAX_REQUEST_SIZE,
    BufSize,            \* bufsize given to open: 0, or more than 1
    MaxConcurrent,      \* max_concurrent_prefetch_requests
    PipelineLimit,      \* unread write answers before they are read (100)
    Modes,              \* modes files are opened in
    ReadSizes, WriteSizes, Offsets,   \* arguments of read, write and seek
    ReadvLists,         \* arguments of readv: lists of [offset, length]
    PipelinedArgs,      \* arguments of set_pipelined
    PastEnd,            \* how far past the end of the file prefetch is asked to go
    Mixed,              \* whether read and write follow each other without a seek
    MaxCalls,           \* bound on the calls of the user's thread ...
    MaxAsides,          \* ... on those that are not about the file's data
    DropWithin          \* ... and on those before the channel goes down

ASSUME SftpAssumption ==
    /\ MAX_REQUEST_SIZE \in Nat \ {0} /\ MaxConcurrent \in Nat \ {0}
    /\ BufSize \in Nat \ {1} /\ PipelineLimit \in Nat
    /\ MaxCalls \in Nat /\ MaxAsides \in Nat /\ DropWithin \in Nat
    /\ Modes \subseteq {"r", "w", "a", "r+", "a+"}
    /\ ReadSizes \subseteq Nat \ {0} /\ WriteSizes \subseteq Nat \ {0}
    /\ Offsets \subseteq Nat /\ PipelinedArgs \subseteq BOOLEAN
    /\ PastEnd \subseteq Nat /\ Mixed \in BOOLEAN
    /\ "user" \notin Workers

VARIABLES
    sock,              \* the channel below: "up" or "down"
    request_number,
    expecting,         \* {<<number, "none" or "file">>}: the object an answer goes to
    out,               \* per thread: a request numbered but not yet sent
    cut,               \* the threads that have sent a part of their request
    torn               \* a request has bytes of another one in it

\* The file object; no file is open when handle = NoHandle.
VARIABLES
    handle, mode, closed, pipelined,
    pos, realpos,      \* the user's position and the one of the next transfer
    fsize,             \* _size, kept in append mode only
    rbuffer, wbuffer,  \* bytes read ahead; number of bytes not yet written
    reqs,              \* numbers of the writes whose answers were not read
    prefetching, prefetch_done,
    prefetch_data,     \* {[offset, bytes]}
    prefetch_extents,  \* {[num, offset, length]}
    saved_exception    \* "none", "eof" or "failure"

\* The threads.
VARIABLES
    pc, call,          \* where the user's thread is, in which call; the call
                       \* has the number it waits for
    got,               \* the prefetched answer it is about to store
    work,              \* per prefetch thread: blocks left to ask for, and the number
                       \* of a request sent and not yet recorded
    calls, asides,     \* calls made
    ret,               \* what the last read returned
    lost,              \* a write of the open file failed and nobody was told
    vain               \* readv has found all its blocks fetched or asked for

stream == <<sock, cut, torn>>
client == <<stream, request_number, expecting, out>>
position == <<pos, realpos, fsize, rbuffer, wbuffer>>
prefetch == <<prefetching, prefetch_done, prefetch_data, prefetch_extents>>
opened == <<handle, mode, closed, pipelined>>
file == <<opened, position, reqs, prefetch, saved_exception>>
wires == <<requests, responses>>
history == <<calls, asides, ret, lost, vain>>
vars == <<wires, serverVars, client, file, pc, call, got, work, history>>
-----------------------------------------------------------------------------
Threads == Workers \cup {"user"}
NoPacket == [type |-> "none"]
NoCall == [op |-> "none"]
NoRet == [op |-> "none"]

NoGot == [num |-> 0]

\* A prefetch thread that has ended, or was never started.
NoWork == [blocks |-> <<>>, sent |-> 0]
Idle(w) == work[w] = NoWork /\ out[w] = NoPacket

Readable == mode \in {"r", "r+", "a+"}
Writable == mode \in {"w", "a", "r+", "a+"}
AppendMode == mode \in {"a", "a+"}

\* Request p with its number.
Numbered(p) ==
    [f \in DOMAIN p \cup {"num"} |-> IF f = "num" THEN request_number ELSE p[f]]

\* The part of _async_request under the lock: thread t numbers request p, whose
\* answer goes to fileobj.
AsyncRequest(t, fileobj, p) ==
    /\ expecting' = expecting \cup {<<request_number, fileobj>>}
    /\ request_number' = request_number + 1
    /\ out' = [out EXCEPT ![t] = Numbered(p)]
    /\ UNCHANGED stream

\* _send_packet and _write_all, after the lock was released: t's request, or the
\* rest of it, goes out.  It is a request to the server if no other thread has sent
\* a part of its own; after a torn one nothing is.
SendPacket(t) ==
    LET whole == cut \subseteq {t}
    IN  /\ out[t] # NoPacket
        /\ requests' = IF sock = "up" /\ whole /\ ~torn THEN Append(requests, out[t])
                       ELSE requests
        /\ out' = [out EXCEPT ![t] = NoPacket]
        /\ cut' = cut \ {t}
        /\ torn' = (torn \/ (sock = "up" /\ ~whole))

\* Channel.send takes fewer bytes, by its window or its largest packet.
SendPart(t) ==
    /\ sock = "up" /\ out[t] # NoPacket /\ t \notin cut
    /\ cut' = cut \cup {t}
    /\ torn' = (torn \/ cut # {})
    /\ UNCHANGED <<wires, serverVars, sock, request_number, expecting, out, file, pc,
                   call, got, work, history>>

\* Requests.
Open(m) == [type |-> "open", append |-> m \in {"a", "a+"}, trunc |-> m = "w"]
Close(h) == [type |-> "close", handle |-> h]
Read(h, offset, n) == [type |-> "read", handle |-> h, offset |-> offset, length |-> n]
Write(h, offset, n) == [type |-> "write", handle |-> h, offset |-> offset, length |-> n]

\* The user's thread makes a request and waits for its answer, which ends or
\* carries on the call as next says.
Request(p, next) ==
    /\ AsyncRequest("user", "none", p)
    /\ pc' = "send"
    /\ call' = [call EXCEPT !.next = next]

\* A call starts, while the channel is up: after that every request raises.
Begin ==
    /\ pc = "idle" /\ sock = "up" /\ calls + asides < MaxCalls
    /\ calls' = calls + 1
    /\ ret' = NoRet
    /\ UNCHANGED <<asides, lost, vain>>

BeginAside ==
    /\ pc = "idle" /\ sock = "up" /\ asides < MaxAsides /\ calls + asides < MaxCalls
    /\ asides' = asides + 1
    /\ ret' = NoRet
    /\ UNCHANGED <<calls, lost, vain>>

Call(op, n) ==
    [op |-> op, size |-> n, left |-> 0, chunk |-> 0, next |-> "none", waitfor |-> 0]
OpenFile == handle # NoHandle /\ ~closed
-----------------------------------------------------------------------------
(* The session: SFTPClient.__init__, _send_version *)

SendVersion ==
    /\ pc = "new"
    /\ requests' = Append(requests, [type |-> "init", num |-> 0])
    /\ pc' = "version"
    /\ UNCHANGED <<responses, serverVars, client, file, call, got, work, history>>

ReadVersion ==
    /\ pc = "version" /\ responses # <<>>
    /\ responses' = Tail(responses)
    /\ pc' = IF Head(responses).type = "version" THEN "idle" ELSE "failed"
    /\ UNCHANGED <<requests, serverVars, client, file, call, got, work, history>>

\* The channel goes down: requests not yet read are lost, and so are answers
\* that have not arrived.
Drop ==
    /\ sock = "up" /\ pc \notin {"new", "version"} /\ calls + asides <= DropWithin
    /\ sock' = "down"
    /\ requests' = <<>>
    /\ \E n \in 0 .. Len(responses) : responses' = SubSeq(responses, 1, n)
    /\ UNCHANGED <<serverVars, cut, torn, request_number, expecting, out, file, pc,
                   call, got, work, history>>
-----------------------------------------------------------------------------
(* Calls of SFTPClient *)

\* open: the file's object is made when the handle comes.  (The object of the
\* file before is gone once its prefetch threads have ended.)
CallOpen(m) ==
    /\ Begin
    /\ handle = NoHandle /\ \A w \in Workers : Idle(w)
    /\ mode' = m
    /\ AsyncRequest("user", "none", Open(m))
    /\ pc' = "send" /\ call' = [Call("open", 0) EXCEPT !.next = "open"]
    /\ UNCHANGED <<wires, serverVars, handle, closed, pipelined, position, reqs,
                   prefetch, saved_exception, got, work>>

\* A call that makes one request and waits for its answer.
Simple(request) ==
    /\ BeginAside
    /\ AsyncRequest("user", "none", request)
    /\ pc' = "send" /\ call' = [Call("simple", 0) EXCEPT !.next = "return"]
    /\ UNCHANGED <<wires, serverVars, file, got, work>>

\* remove, rename, posix_rename, mkdir, rmdir.
CallPath == Simple([type |-> "path"])

\* stat, lstat.
CallStat == Simple([type |-> "stat"])

\* symlink, chmod, chown, utime, truncate.
CallChange == Simple([type |-> "change"])

\* readlink, normalize.
CallName == Simple([type |-> "name"])

\* SFTPFile.stat.
FileStat == OpenFile /\ Simple([type |-> "fstat", handle |-> handle])

\* SFTPFile.chmod, chown, utime, truncate.
FileChange == OpenFile /\ Simple([type |-> "fsetstat", handle |-> handle])

\* listdir_attr: OPENDIR, READDIR until the end, CLOSE.
CallListdir ==
    /\ BeginAside
    /\ AsyncRequest("user", "none", [type |-> "opendir"])
    /\ pc' = "send" /\ call' = [Call("listdir", 0) EXCEPT !.next = "opendir"]
    /\ UNCHANGED <<wires, serverVars, file, got, work>>
-----------------------------------------------------------------------------
(* Calls of SFTPFile: read, write, seek, close *)

\* A read that finishes: the first n bytes of the buffer.
ReadReturns(buffer, n) ==
    /\ ret' = [op |-> "read", at |-> pos, size |-> n, end |-> size,
               bytes |-> SubSeq(buffer, 1, Smallest(n, Len(buffer)))]
    /\ rbuffer' = SubSeq(buffer, n + 1, Len(buffer))
    /\ pos' = pos + Smallest(n, Len(buffer))
    /\ pc' = "idle" /\ call' = NoCall

\* read: from the buffer when it holds enough, else fill it.
CallRead(n) ==
    /\ pc = "idle" /\ sock = "up" /\ calls + asides < MaxCalls
    /\ calls' = calls + 1
    /\ OpenFile /\ Readable
    /\ Mixed \/ wbuffer = 0
    /\ IF n <= Len(rbuffer)
         THEN ReadReturns(rbuffer, n)
         ELSE /\ pc' = "fill" /\ call' = Call("read", n) /\ ret' = NoRet
              /\ UNCHANGED <<pos, rbuffer>>
    /\ UNCHANGED <<wires, serverVars, client, opened, realpos, fsize, wbuffer, reqs,
                   prefetch, saved_exception, got, work, asides, lost, vain>>

\* write, and the flush it makes when the buffer is full.
CallWrite(n) ==
    /\ Begin
    /\ OpenFile /\ Writable
    /\ Mixed \/ rbuffer = <<>>
    /\ LET held == wbuffer + n
       IN  IF BufSize = 0 \/ held >= BufSize
             THEN /\ pc' = "flush"
                  /\ call' = [Call("write", 0) EXCEPT !.left = held]
             ELSE pc' = "idle" /\ call' = NoCall
    /\ wbuffer' = IF BufSize = 0 THEN 0 ELSE wbuffer + n
    /\ UNCHANGED <<wires, serverVars, client, opened, pos, realpos, fsize, rbuffer,
                   reqs, prefetch, saved_exception, got, work>>

\* seek: flush, then move; relative to the end it asks for the size first.
CallSeek(op, n) ==
    /\ Begin
    /\ OpenFile
    /\ pc' = "flush" /\ call' = [Call(op, n) EXCEPT !.left = wbuffer]
    /\ UNCHANGED <<wires, serverVars, client, file, got, work>>

SetPipelined(b) ==
    /\ Begin
    /\ OpenFile /\ pipelined # b
    /\ pipelined' = b
    /\ UNCHANGED <<wires, serverVars, client, handle, mode, closed, position, reqs,
                   prefetch, saved_exception, pc, call, got, work>>

\* _close: a pipelined file first reads the answers that are for it, then
\* flushes.  A file that was closed before is left alone.  "gc" is the close of
\* an object nobody refers to any more.
CallClose(op) ==
    /\ Begin
    /\ OpenFile
    /\ op = "gc" => \A w \in Workers : Idle(w)
    /\ pc' = IF pipelined THEN "finish" ELSE "flush"
    /\ call' = [Call(op, 0) EXCEPT !.left = wbuffer]
    /\ UNCHANGED <<wires, serverVars, client, file, got, work>>

\* The object of a closed file goes away, and with it its entries in the
\* weak dictionary of expected answers.
Forget ==
    /\ pc = "idle" /\ handle # NoHandle /\ closed
    /\ \A w \in Workers : Idle(w)
    /\ handle' = NoHandle
    /\ expecting' = {e \in expecting : e[2] = "none"}
    /\ ret' = NoRet
    /\ UNCHANGED <<wires, serverVars, stream, request_number, out, mode, closed,
                   pipelined, position, reqs, prefetch, saved_exception,
                   pc, call, got, work, calls, asides, lost, vain>>
-----------------------------------------------------------------------------
(* Calls of SFTPFile: prefetch, readv *)

\* A list of blocks, cut into requests of at most MAX_REQUEST_SIZE.
Pieces(b) ==
    [k \in 1 .. ((b.length + MAX_REQUEST_SIZE - 1) \div MAX_REQUEST_SIZE) |->
        LET from == (k - 1) * MAX_REQUEST_SIZE
        IN  [offset |-> b.offset + from,
             length |-> Smallest(MAX_REQUEST_SIZE, b.length - from)]]

\* _data_in_prefetch_buffers: the buffer that holds the byte at offset.
Buffers(offset) ==
    {d \in prefetch_data :
        /\ d.offset <= offset
        /\ \A e \in prefetch_data : e.offset <= offset => e.offset <= d.offset
        /\ offset - d.offset < Len(d.bytes)}

\* _data_in_prefetch_requests: the requests on their way cover the block.
InRequests[offset \in Nat, n \in Nat] ==
    LET before == {x \in prefetch_extents : x.offset <= offset}
        last == CHOOSE x \in before : \A y \in before : y.offset <= x.offset
        upto == last.offset + last.length
    IN  /\ before # {} /\ upto > offset
        /\ upto >= offset + n \/ InRequests[upto, offset + n - upto]

\* readv asks again for a block it has in the buffer at offset 0: the index it
\* finds there is 0, which the code takes for nothing.
AlreadyFetched(b) ==
    (\E d \in Buffers(b.offset) : d.offset # 0) \/ InRequests[b.offset, b.length]

\* _start_prefetch: a new thread asks for the blocks.
StartPrefetch(blocks) ==
    /\ prefetching' = TRUE /\ prefetch_done' = FALSE
    /\ \E w \in Workers :
          /\ Idle(w)
          /\ work' = [work EXCEPT ![w] = [blocks |-> blocks, sent |-> 0]]
    /\ UNCHANGED <<prefetch_data, prefetch_extents>>

\* prefetch(file_size): the rest of the file, unless that is nothing.
Prefetch(n) ==
    /\ Begin
    /\ OpenFile /\ Readable
    /\ LET blocks == Pieces([offset |-> realpos, length |-> Largest(n - realpos, 0)])
       IN  IF blocks # <<>> THEN StartPrefetch(blocks) ELSE UNCHANGED <<prefetch, work>>
    /\ UNCHANGED <<wires, serverVars, client, opened, position, reqs,
                   saved_exception, pc, call, got>>

\* readv: asks for what is not already on its way; the blocks are then read
\* with seek and read, one each time the caller asks for the next.
Readv(list) ==
    /\ pc = "idle" /\ sock = "up" /\ calls + asides < MaxCalls
    /\ calls' = calls + 1
    /\ ret' = NoRet
    /\ OpenFile /\ Readable
    /\ LET new == SelectSeq(list, LAMBDA b : ~AlreadyFetched(b))
           blocks == FlattenSeq([i \in DOMAIN new |-> Pieces(new[i])])
       IN  /\ StartPrefetch(blocks)
           /\ vain' = (vain \/ blocks = <<>>)
    /\ UNCHANGED <<wires, serverVars, client, opened, position, reqs,
                   saved_exception, pc, call, got, asides, lost>>

\* _prefetch_thread: number a request once there are few enough, send it, and
\* only then record what was asked for.
PrefetchNumber(w) ==
    /\ work[w].blocks # <<>> /\ out[w] = NoPacket /\ work[w].sent = 0
    /\ Cardinality(prefetch_extents) < MaxConcurrent
    /\ LET b == Head(work[w].blocks)
       IN  AsyncRequest(w, "file", Read(handle, b.offset, b.length))
    /\ UNCHANGED <<wires, serverVars, file, pc, call, got, work, history>>

\* The thread dies of the exception when the channel is down.
PrefetchSend(w) ==
    /\ SendPacket(w)
    /\ work' = [work EXCEPT ![w] = IF sock = "up" THEN [@ EXCEPT !.sent = out[w].num]
                                   ELSE NoWork]
    /\ UNCHANGED <<responses, serverVars, sock, request_number, expecting, file,
                   pc, call, got, history>>

PrefetchRecord(w) ==
    /\ work[w].sent # 0
    /\ LET b == Head(work[w].blocks)
       IN  prefetch_extents' = prefetch_extents \cup
               {[num |-> work[w].sent, offset |-> b.offset, length |-> b.length]}
    /\ work' = [work EXCEPT ![w] = [blocks |-> Tail(@.blocks), sent |-> 0]]
    /\ UNCHANGED <<wires, serverVars, client, opened, position, reqs, prefetching,
                   prefetch_done, prefetch_data, saved_exception, pc, call,
                   got, history>>

PrefetchThread(w) == PrefetchNumber(w) \/ PrefetchSend(w) \/ PrefetchRecord(w)
-----------------------------------------------------------------------------
(* The user's thread inside a call: BufferedFile.read over SFTPFile._read *)

\* A dictionary entry.
Put(S, offset, bytes) ==
    {e \in S : e.offset # offset} \cup {[offset |-> offset, bytes |-> bytes]}

\* The call ends; so does a garbage-collected object, whatever happened.
EndCall ==
    /\ pc' = "idle" /\ call' = NoCall
    /\ closed' = (closed \/ call.op = "gc")

FillDone ==
    /\ pc = "fill" /\ Len(rbuffer) >= call.size
    /\ ReadReturns(rbuffer, call.size)
    /\ UNCHANGED <<wires, serverVars, client, opened, realpos, fsize, wbuffer, reqs,
                   prefetch, saved_exception, got, work, calls, asides, lost, vain>>

\* How much _read is asked for.
FillSize ==
    LET want == call.size - Len(rbuffer)
    IN  Smallest(IF BufSize > 1 THEN Largest(BufSize, want) ELSE want, MAX_REQUEST_SIZE)

Filling == pc = "fill" /\ Len(rbuffer) < call.size

\* Mutant: what lies behind is put back with the last byte that was taken.
FillFromPrefetchRepeats ==
    /\ Filling /\ prefetching
    /\ \E d \in Buffers(realpos) :
          LET skip  == realpos - d.offset
              rest  == SubSeq(d.bytes, skip + 1, Len(d.bytes))
              taken == SubSeq(rest, 1, Smallest(FillSize, Len(rest)))
              head  == IF skip > 0
                         THEN Put(prefetch_data \ {d}, d.offset, SubSeq(d.bytes, 1, skip))
                         ELSE prefetch_data \ {d}
          IN  /\ prefetch_data' =
                    IF FillSize < Len(rest)
                      THEN Put(head, realpos + FillSize,
                               SubSeq(rest, FillSize, Len(rest)))
                      ELSE head
              /\ rbuffer' = rbuffer \o taken
              /\ realpos' = realpos + Len(taken)
    /\ UNCHANGED <<wires, serverVars, client, opened, pos, fsize, wbuffer, reqs,
                   prefetching, prefetch_done, prefetch_extents, saved_exception,
                   pc, call, got, work, history>>

\* _read_prefetch finds the byte: the buffer it is in is taken out, and what
\* lies before and behind the bytes that are returned is put back.
FillFromPrefetch ==
    /\ Filling /\ prefetching
    /\ \E d \in Buffers(realpos) :
          LET skip  == realpos - d.offset
              rest  == SubSeq(d.bytes, skip + 1, Len(d.bytes))
              taken == SubSeq(rest, 1, Smallest(FillSize, Len(rest)))
              head  == IF skip > 0
                         THEN Put(prefetch_data \ {d}, d.offset, SubSeq(d.bytes, 1, skip))
                         ELSE prefetch_data \ {d}
          IN  /\ prefetch_data' =
                    IF FillSize < Len(rest)
                      THEN Put(head, realpos + FillSize,
                               SubSeq(rest, FillSize + 1, Len(rest)))
                      ELSE head
              /\ rbuffer' = rbuffer \o taken
              /\ realpos' = realpos + Len(taken)
    /\ UNCHANGED <<wires, serverVars, client, opened, pos, fsize, wbuffer, reqs,
                   prefetching, prefetch_done, prefetch_extents, saved_exception,
                   pc, call, got, work, history>>

\* _read_prefetch does not find it, and more may come: read one answer.
FillPoll ==
    /\ Filling /\ prefetching /\ Buffers(realpos) = {} /\ ~prefetch_done
    /\ pc' = "poll"
    /\ UNCHANGED <<wires, serverVars, client, file, call, got, work, history>>

\* _read_prefetch gives up: everything that was asked for has come.
FillMiss ==
    /\ Filling /\ prefetching /\ Buffers(realpos) = {} /\ prefetch_done
    /\ prefetching' = FALSE
    /\ UNCHANGED <<wires, serverVars, client, opened, position, reqs, prefetch_done,
                   prefetch_data, prefetch_extents, saved_exception, pc, call,
                   got, work, history>>

FillRequest ==
    /\ Filling /\ ~prefetching
    /\ Request(Read(handle, realpos, FillSize), "read")
    /\ UNCHANGED <<wires, serverVars, file, got, work, history>>

\* _check_exception, after every answer read for nobody in particular: an error
\* of any request of the file is raised here, and EOF ends a read.
Check ==
    /\ pc = "check"
    /\ saved_exception' = "none"
    /\ \/ /\ saved_exception = "none"
          /\ pc' = IF call.op = "read" THEN "fill" ELSE "finish"
          /\ UNCHANGED <<call, closed, pos, rbuffer, ret>>
       \/ /\ saved_exception = "eof" /\ call.op = "read"
          /\ ReadReturns(rbuffer, call.size)
          /\ UNCHANGED closed
       \/ /\ saved_exception = "failure" \/ (saved_exception = "eof" /\ call.op # "read")
          /\ EndCall
          /\ UNCHANGED <<pos, rbuffer, ret>>
    /\ UNCHANGED <<wires, serverVars, client, handle, mode, pipelined, realpos, fsize,
                   wbuffer, reqs, prefetch, got, work, calls, asides, lost, vain>>
-----------------------------------------------------------------------------
(* The user's thread inside a call: BufferedFile._write_all over SFTPFile._write *)

\* The next piece of what is to be written.
FlushChunk ==
    /\ pc = "flush" /\ call.left > 0
    /\ LET n == Smallest(call.left, MAX_REQUEST_SIZE)
       IN  /\ AsyncRequest("user", "none", Write(handle, realpos, n))
           /\ call' = [call EXCEPT !.chunk = n, !.next = "written"]
    /\ pc' = "send"
    /\ UNCHANGED <<wires, serverVars, file, got, work, history>>

\* _write has sent the piece: without pipelining, or when many answers are
\* outstanding and some have come, it reads the answers of all writes so far.
Written ==
    /\ pc = "written"
    /\ reqs' = Append(reqs, call.waitfor)
    /\ pc' = IF ~pipelined \/ (Len(reqs) + 1 > PipelineLimit /\ responses # <<>>)
               THEN "drain" ELSE "advance"
    /\ UNCHANGED <<wires, serverVars, client, opened, position, prefetch,
                   saved_exception, call, got, work, history>>

Drain ==
    /\ pc = "drain"
    /\ IF reqs = <<>>
         THEN pc' = "advance" /\ UNCHANGED <<reqs, call>>
         ELSE /\ call' = [call EXCEPT !.waitfor = Head(reqs), !.next = "drain"]
              /\ reqs' = Tail(reqs)
              /\ pc' = "wait"
    /\ UNCHANGED <<wires, serverVars, client, opened, position, prefetch,
                   saved_exception, got, work, history>>

\* _write_all moves on by the piece that was written.
Advance ==
    /\ pc = "advance"
    /\ IF AppendMode
         THEN /\ fsize' = fsize + call.chunk
              /\ pos' = fsize' /\ realpos' = fsize'
         ELSE /\ pos' = pos + call.chunk /\ realpos' = realpos + call.chunk
              /\ UNCHANGED fsize
    /\ call' = [call EXCEPT !.left = @ - call.chunk]
    /\ pc' = "flush"
    /\ UNCHANGED <<wires, serverVars, client, opened, rbuffer, wbuffer, reqs, prefetch,
                   saved_exception, got, work, history>>

\* Everything is written: the rest of write, seek or close.
FlushDone ==
    /\ pc = "flush" /\ call.left = 0
    /\ wbuffer' = 0
    /\ \/ /\ call.op = "write"
          /\ pc' = "idle" /\ call' = NoCall
          /\ UNCHANGED <<client, closed, pos, realpos, rbuffer>>
       \/ /\ call.op = "seek"
          /\ pos' = call.size /\ realpos' = call.size /\ rbuffer' = <<>>
          /\ pc' = "idle" /\ call' = NoCall
          /\ UNCHANGED <<client, closed>>
       \/ /\ call.op = "seek_end"
          /\ Request([type |-> "fstat", handle |-> handle], "size")
          /\ UNCHANGED <<closed, pos, realpos, rbuffer>>
       \/ /\ call.op \in {"close", "gc"}
          /\ closed' = TRUE
          /\ Request(Close(handle), IF call.op = "gc" THEN "gone" ELSE "return")
          /\ UNCHANGED <<pos, realpos, rbuffer>>
    /\ UNCHANGED <<wires, serverVars, handle, mode, pipelined, fsize, reqs, prefetch,
                   saved_exception, got, work, history>>

\* _finish_responses: while answers for this file object are expected.
Finish ==
    /\ pc = "finish"
    /\ pc' = IF \E e \in expecting : e[2] = "file" THEN "poll" ELSE "flush"
    /\ UNCHANGED <<wires, serverVars, client, file, call, got, work, history>>
-----------------------------------------------------------------------------
(* The user's thread inside a call: requests go out, answers come in *)

\* What a call does with the size it asked for (_get_size, which gives 0 when
\* anything goes wrong): an append-mode file starts there, a seek ends there.
SizeIs(n) ==
    /\ IF call.op = "open"
         THEN fsize' = n /\ pos' = n /\ realpos' = n /\ UNCHANGED rbuffer
         ELSE /\ pos' = n + call.size /\ realpos' = n + call.size /\ rbuffer' = <<>>
              /\ UNCHANGED fsize
    /\ pc' = "idle" /\ call' = NoCall

\* The call fails: with an exception, but for _get_size.
Raise ==
    IF call.next = "size"
      THEN SizeIs(0) /\ UNCHANGED closed
      ELSE EndCall /\ UNCHANGED <<fsize, pos, realpos, rbuffer>>

\* _send_packet of the user's thread.
UserSend ==
    /\ pc = "send"
    /\ SendPacket("user")
    /\ IF sock = "down" THEN Raise
       ELSE /\ \/ call.next = "gone" /\ pc' = "idle" /\ call' = NoCall
               \/ /\ call.next # "gone"
                  /\ pc' = IF call.next = "written" THEN "written" ELSE "wait"
                  /\ call' = [call EXCEPT !.waitfor = out["user"].num]
            /\ UNCHANGED <<fsize, pos, realpos, rbuffer, closed>>
    /\ UNCHANGED <<responses, serverVars, sock, request_number, expecting, handle, mode,
                   pipelined, wbuffer, reqs, prefetch, saved_exception, got, work,
                   history>>

\* _read_response raises when the channel has gone down.
Dropped ==
    /\ pc \in {"wait", "poll"} /\ responses = <<>> /\ sock = "down"
    /\ Raise
    /\ UNCHANGED <<wires, serverVars, client, handle, mode, pipelined, wbuffer, reqs,
                   prefetch, saved_exception, got, work, history>>

\* _read_response takes the next answer; the number is no longer expected.
Answer == Head(responses)

\* Mutant: the number stays in the table.
TakesAnswerKeeps ==
    /\ pc \in {"wait", "poll"} /\ responses # <<>>
    /\ responses' = Tail(responses)
    /\ UNCHANGED expecting

TakesAnswer ==
    /\ pc \in {"wait", "poll"} /\ responses # <<>>
    /\ responses' = Tail(responses)
    /\ expecting' = {e \in expecting : e[1] # Answer.num}

\* What is expected under the number of the answer.
ExpectedBy == {e[2] : e \in {x \in expecting : x[1] = Answer.num}}

\* Mutant: the number waited for is the one after the request's.
MineNext == pc = "wait" /\ Answer.num = call.waitfor + 1 /\ ExpectedBy # {}

Mine == pc = "wait" /\ Answer.num = call.waitfor /\ ExpectedBy # {}

\* After an answer that is not the awaited one: look for the next when a number
\* is waited for, return to the caller when not.
NotMine == pc' = IF pc = "wait" THEN "wait" ELSE "check"

\* An unknown number, or the answer to another request of the user's thread,
\* which is dropped: the failure of a pipelined write, too.
AnswerDropped ==
    /\ TakesAnswer /\ ~Mine
    /\ ExpectedBy \subseteq {"none"}
    /\ NotMine
    /\ lost' = (lost \/ (Answer.num \in Range(reqs) /\ Answer.code # "ok"))
    /\ UNCHANGED <<requests, serverVars, stream, request_number, out, file, call,
                   got, work, calls, asides, ret, vain>>

\* _async_response: a status of a prefetch request is kept for later ...
AnswerSaved ==
    /\ TakesAnswer /\ ~Mine
    /\ "file" \in ExpectedBy /\ Answer.type = "status"
    /\ NotMine
    /\ saved_exception' = IF Answer.code = "ok" THEN saved_exception
                          ELSE IF Answer.code = "eof" THEN "eof" ELSE "failure"
    /\ UNCHANGED <<requests, serverVars, stream, request_number, out, opened, position,
                   reqs, prefetch, call, got, work, history>>

\* ... and data is stored, as soon as the prefetch thread has recorded what
\* the request was for: until then the user's thread spins.
AnswerData ==
    /\ TakesAnswer /\ ~Mine
    /\ "file" \in ExpectedBy /\ Answer.type = "data"
    /\ got' = [num |-> Answer.num, bytes |-> Answer.bytes, from |-> pc]
    /\ pc' = "store"
    /\ UNCHANGED <<requests, serverVars, stream, request_number, out, file, call,
                   work, history>>

Store ==
    /\ pc = "store"
    /\ \E x \in prefetch_extents :
          /\ x.num = got.num
          /\ prefetch_data' = Put(prefetch_data, x.offset, got.bytes)
          /\ prefetch_extents' = prefetch_extents \ {x}
    /\ prefetch_done' = (prefetch_done \/ prefetch_extents' = {})
    /\ pc' = IF got.from = "wait" THEN "wait" ELSE "check"
    /\ got' = NoGot
    /\ UNCHANGED <<wires, serverVars, client, opened, position, reqs, prefetching,
                   saved_exception, call, work, history>>

\* The answer that is waited for.
Returns(next) ==
    /\ TakesAnswer /\ Mine /\ call.next = next
    /\ UNCHANGED <<requests, serverVars, stream, request_number, out, got, work,
                   calls, asides, lost, vain>>

\* _convert_status: what a status means to the caller.
IsError == Answer.type = "status" /\ Answer.code # "ok"

\* One request, one answer: the result or an exception.
ReturnsSimple ==
    /\ Returns("return")
    /\ pc' = "idle" /\ call' = NoCall
    /\ UNCHANGED <<file, ret>>

\* open: a new SFTPFile, which in append mode asks for its size.
ReturnsOpen ==
    /\ Returns("open")
    /\ IF IsError THEN pc' = "idle" /\ call' = NoCall /\ UNCHANGED file
       ELSE /\ handle' = Answer.handle
            /\ closed' = FALSE /\ pipelined' = FALSE
            /\ pos' = 0 /\ realpos' = 0 /\ fsize' = 0 /\ rbuffer' = <<>> /\ wbuffer' = 0
            /\ reqs' = <<>> /\ saved_exception' = "none"
            /\ prefetching' = FALSE /\ prefetch_done' = FALSE
            /\ prefetch_data' = {} /\ prefetch_extents' = {}
            /\ IF AppendMode THEN pc' = "getsize" /\ UNCHANGED call
               ELSE pc' = "idle" /\ call' = NoCall
            /\ UNCHANGED mode
    /\ UNCHANGED ret

GetSize ==
    /\ pc = "getsize"
    /\ Request([type |-> "fstat", handle |-> handle], "size")
    /\ UNCHANGED <<wires, serverVars, file, got, work, history>>

ReturnsSize ==
    /\ Returns("size")
    /\ SizeIs(IF Answer.type = "attrs" THEN Answer.length ELSE 0)
    /\ UNCHANGED <<opened, wbuffer, reqs, prefetch, saved_exception, ret>>

\* _read, and BufferedFile.read, for which EOF ends the loop.
ReturnsRead ==
    /\ Returns("read")
    /\ \/ /\ Answer.type = "data"
          /\ rbuffer' = rbuffer \o Answer.bytes
          /\ realpos' = realpos + Len(Answer.bytes)
          /\ pc' = "fill"
          /\ UNCHANGED <<call, pos, ret>>
       \/ /\ IsError /\ Answer.code = "eof"
          /\ ReadReturns(rbuffer, call.size)
          /\ UNCHANGED realpos
       \/ /\ IsError /\ Answer.code # "eof"
          /\ pc' = "idle" /\ call' = NoCall
          /\ UNCHANGED <<pos, realpos, rbuffer, ret>>
    /\ UNCHANGED <<opened, fsize, wbuffer, reqs, prefetch, saved_exception>>

\* The answer to a write: the next one, or an exception, after which the
\* numbers of the writes behind it stay in the queue.
ReturnsWrite ==
    /\ Returns("drain")
    /\ IF IsError THEN EndCall ELSE pc' = "drain" /\ UNCHANGED <<call, closed>>
    /\ UNCHANGED <<handle, mode, pipelined, position, reqs, prefetch, saved_exception, ret>>

\* listdir_attr: the handle, then batches until EOF, then CLOSE.  An error in
\* between leaves the handle open.
ReturnsListdir ==
    /\ \/ Returns("opendir") \/ Returns("readdir")
    /\ \/ /\ ~IsError
          /\ pc' = "readdir"
          /\ call' = IF Answer.type = "handle" THEN [call EXCEPT !.chunk = Answer.handle]
                     ELSE [call EXCEPT !.size = @ + Answer.count]
       \/ /\ IsError /\ Answer.code = "eof"
          /\ pc' = "closedir" /\ UNCHANGED call
       \/ /\ IsError /\ Answer.code # "eof"
          /\ pc' = "idle" /\ call' = NoCall
    /\ UNCHANGED <<file, ret>>

Listdir ==
    /\ pc \in {"readdir", "closedir"}
    /\ IF pc = "readdir" THEN Request([type |-> "readdir", handle |-> call.chunk], "readdir")
       ELSE Request(Close(call.chunk), "return")
    /\ UNCHANGED <<wires, serverVars, file, got, work, history>>
-----------------------------------------------------------------------------
Init ==
    /\ ServerInit
    /\ sock = "up" /\ cut = {} /\ torn = FALSE /\ request_number = 1 /\ expecting = {}
    /\ out = [t \in Threads |-> NoPacket]
    /\ handle = NoHandle /\ mode = "r" /\ closed = FALSE /\ pipelined = FALSE
    /\ pos = 0 /\ realpos = 0 /\ fsize = 0 /\ rbuffer = <<>> /\ wbuffer = 0
    /\ reqs = <<>> /\ prefetching = FALSE /\ prefetch_done = FALSE
    /\ prefetch_data = {} /\ prefetch_extents = {} /\ saved_exception = "none"
    /\ pc = "new" /\ call = NoCall /\ got = NoGot
    /\ work = [w \in Workers |-> NoWork]
    /\ calls = 0 /\ asides = 0 /\ ret = NoRet /\ lost = FALSE /\ vain = FALSE

UserCalls ==
    \/ \E m \in Modes : CallOpen(m)
    \/ CallPath \/ CallStat \/ CallChange \/ CallName \/ FileStat \/ FileChange
    \/ CallListdir
    \/ \E n \in ReadSizes : CallRead(n)
    \/ \E n \in WriteSizes : CallWrite(n)
    \/ \E n \in Offsets : CallSeek("seek", n)
    \/ CallSeek("seek_end", 0)
    \/ \E b \in PipelinedArgs : SetPipelined(b)
    \/ \E n \in PastEnd : Prefetch(size + n)
    \/ \E list \in ReadvLists : Readv(list)
    \/ \E op \in {"close", "gc"} : CallClose(op)
    \/ Forget

InCall ==
    \/ SendVersion \/ ReadVersion \/ UserSend \/ Dropped
    \/ FillDone \/ FillFromPrefetch \/ FillPoll \/ FillMiss \/ FillRequest \/ Check
    \/ FlushChunk \/ Written \/ Drain \/ Advance \/ FlushDone \/ Finish
    \/ AnswerDropped \/ AnswerSaved \/ AnswerData \/ Store
    \/ ReturnsSimple \/ ReturnsOpen \/ GetSize \/ ReturnsSize \/ ReturnsRead
    \/ ReturnsWrite \/ ReturnsListdir \/ Listdir

\* The server's thread.
Server ==
    /\ Serve \/ ServerEnds(sock = "down")
    /\ UNCHANGED <<client, file, pc, call, got, work, history>>

\* "Garbage packet received": the server comes to a torn request, ends and closes
\* the channel.  It may as well wait for the bytes that it takes the size of a
\* packet to announce.  (What it does with bytes that happen to be a request is
\* not modelled.)
Garbage ==
    /\ torn /\ sock = "up"
    /\ ServerEnds(torn)
    /\ sock' = "down"
    /\ UNCHANGED <<cut, torn, request_number, expecting, out, file, pc, call, got,
                   work, history>>

Next ==
    \/ UserCalls \/ InCall \/ Drop
    \/ \E t \in Threads : SendPart(t)
    \/ \E w \in Workers : PrefetchThread(w)
    \/ Server \/ Garbage

\* Every thread goes on: Python threads are preempted, and the channel below
\* delivers what was sent as long as it is up.  The user need not call.
Fairness ==
    /\ WF_vars(InCall)
    /\ \A w \in Workers : WF_vars(PrefetchThread(w))
    /\ WF_vars(Server)

Spec == Init /\ [][Next]_vars /\ Fairness
-----------------------------------------------------------------------------
(* Properties *)

\* A prefetch request was answered with a status, EOF or an error: the answer
\* is gone, and _async_response leaves what was asked for in the table.
Stranded ==
    /\ handle # NoHandle
    /\ \E n \in {x.num : x \in prefetch_extents} \cup {work[w].sent : w \in Workers} :
          n \notin {0, got.num} \cup {e[1] : e \in expecting}

\* The answer of a pipelined write was read and dropped in a wait for another
\* one; _write will wait for it when it reads the answers of its writes.
WriteDropped ==
    LET awaited == IF pc = "wait" /\ call.next = "drain" THEN {call.waitfor} ELSE {}
    IN  handle # NoHandle /\ ~(Range(reqs) \cup awaited \subseteq {e[1] : e \in expecting})

\* As long as every prefetch request is answered with data and no request is torn, a
\* read returns the bytes at the user's position, in order and without a gap, and
\* fewer than were asked for only when they are the last of the file: whatever
\* was prefetched, cut up, read ahead or asked for twice before.
ReadExact ==
    ret.op = "read" /\ ~torn =>
        /\ ret.bytes = Bytes(ret.at, ret.at + Len(ret.bytes))
        /\ Len(ret.bytes) < ret.size => ret.at + Len(ret.bytes) >= ret.end \/ Stranded

\* While the channel is up and no request was torn, every number somebody expects is
\* in exactly one place: with the thread that will send it, on the way to the
\* server, or on the way back.  No request of either kind of thread goes unanswered
\* or is answered twice, also when it goes out in parts.
Places(n) ==
    Cardinality({t \in Threads : out[t] # NoPacket /\ out[t].num = n})
    + Cardinality({i \in DOMAIN requests : requests[i].num = n})
    + Cardinality({i \in DOMAIN responses : responses[i].num = n})
AnsweredOnce == sock = "up" /\ ~torn => \A e \in expecting : Places(e[1]) = 1

\* Every call returns or raises, unless a request was torn, a prefetch request
\* was answered with a status, readv has found nothing new to ask for, or the
\* answer of a pipelined write was dropped: nothing else keeps a call waiting,
\* neither the answers that other calls, closed files or prefetch threads leave
\* behind nor the loss of the channel.
CallsReturn == pc # "idle" ~> (pc = "idle" \/ torn \/ Stranded \/ vain \/ WriteDropped)

\* _async_request "may be called from other threads (prefetch)": the requests of
\* the threads arrive whole.  (The code does not promise it: a part of one, then
\* one of another thread.)
PacketsWhole == ~torn

\* read returns "data read from the file (as bytes), or an empty string if EOF was
\* encountered immediately": it comes back.  (Not so after a readv that has nothing
\* new to ask for.)
ReadsReturn == (pc # "idle" /\ call.op = "read") ~> (pc = "idle" \/ torn \/ Stranded)

\* set_pipelined: the answers of writes are "collected as they come in", and
\* pipelining can be turned off again; a write then comes back.  (Not so when
\* another wait has dropped an answer.)
WritesReturn == (pc # "idle" /\ call.op = "write") ~> (pc = "idle" \/ torn)

\* set_pipelined: "at the first non-write operation (including .close), all
\* remaining server responses are collected".  No file has been closed with the
\* failure of a write dropped.
WriteErrorTold == ~(closed /\ handle # NoHandle /\ lost)
=============================================================================
