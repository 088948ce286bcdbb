------------------------------ MODULE Channel ------------------------------
(***************************************************************************)
(* One SSH channel (paramiko/channel.py) as its two ends see it: the       *)
(* client's Channel object and the server's, the transport thread of each  *)
(* end, and the application threads that call the socket-like methods of   *)
(* the object at their end.                                                *)
(*                                                                         *)
(* The two channel ends are connected by the two directions of the wire    *)
(* (paramiko's packets over one TCP connection: FIFO, reliable until the   *)
(* transport stops).  Everything the code does while it holds              *)
(* Channel.lock, or the lock of one BufferedPipe, is one action;           *)
(* everything it does after the lock is released (Transport.               *)
(* _send_user_message, the second half of recv, the _feed that ends        *)
(* set_combine_stderr) is an action of its own, because other threads run  *)
(* in between.  What is read or written is abstracted to a number of       *)
(* bytes.                                                                  *)
(*                                                                         *)
(* The channel is already open (Channel.active): _set_window and           *)
(* _set_remote_channel have run at both ends with the same window size.    *)
(***************************************************************************)
EXTENDS Integers, Sequences

CONSTANTS
    Threads,    \* the application threads
    Home,       \* the end at which each thread uses the channel
    Calls,      \* the methods each thread calls
    Window,     \* in_window_size of both ends
    MaxPacket,  \* out_max_packet_size - 64 of both ends
    SendSizes,  \* lengths of the byte strings given to send and send_stderr
    RecvSizes,  \* values of nbytes given to recv and recv_stderr
    MaxBytes,   \* bound: what one end accepts for sending in all
    Timed,      \* the threads that use a channel with a timeout
    Faults      \* the ends whose transport may stop by itself

Side == {"client", "server"}
Peer(s) == IF s = "client" THEN "server" ELSE "client"

Method == {"send", "send_stderr", "recv", "recv_stderr", "close",
           "shutdown_write", "shutdown_read", "set_combine_stderr"}

(***************************************************************************)
(* The window and the packet size are positive: _sanitize_window_size and  *)
(* _sanitize_packet_size clamp both from below.  send(b"") and recv(0)     *)
(* change nothing and are left out.                                        *)
(***************************************************************************)
ASSUME ChannelAssumption ==
    /\ Threads \cap Side = {}
    /\ Home \in [Threads -> Side]
    /\ Calls \in [Threads -> SUBSET Method]
    /\ Window \in Nat \ {0}
    /\ MaxPacket \in Nat \ {0}
    /\ SendSizes \subseteq Nat \ {0}
    /\ RecvSizes \subseteq Nat \ {0}
    /\ MaxBytes \in Nat
    /\ Timed \subseteq Threads
    /\ Faults \subseteq Side

(***************************************************************************)
(* A process is an application thread or the transport thread of an end,   *)
(* which goes by the name of that end.                                     *)
(***************************************************************************)
Procs == Threads \cup Side
At(p) == IF p \in Side THEN p ELSE Home[p]

VARIABLES
    wire,              \* wire[s]: packets on their way to s
    transport,         \* "running" until active is reset or run() ends;
                       \* then "stopped", and "dead" after _unlink
    linked,            \* the channel is in the transport's ChannelMap
    closed, eof_received, eof_sent, combine_stderr,
    out_window_size, in_window_sofar,
    in_buffer, in_stderr_buffer,  \* bytes held by the two BufferedPipes
    pipe_closed,       \* BufferedPipe._closed (both are closed together)
    pc,                \* what a process is about to do
    want, kind,        \* the pending send's length and message type
    held,              \* bytes a process holds between two steps
    ended,             \* history: the streams that returned b"" to a reader
    sent, delivered,   \* history: data bytes sent by / handed to an end
    read,              \* history: data bytes returned by recv*
    granted, credited  \* history: window bytes granted by / added at an end

flags   == <<transport, linked, closed, eof_received, eof_sent, pipe_closed>>
buffers == <<in_buffer, in_stderr_buffer, combine_stderr>>
windows == <<out_window_size, in_window_sofar>>
pending == <<want, kind>>
history == <<ended, sent, delivered, read, granted, credited>>
vars == <<wire, flags, buffers, windows, pc, pending, held, history>>

(***************************************************************************)
(* A packet.  "upto" is a history field: the total of the sender's bytes   *)
(* of that sort up to and including this packet.                           *)
(***************************************************************************)
DataType == {"data", "ext"}
MsgType  == DataType \cup {"adjust", "eof", "close"}
Msg == [type : MsgType, size : Nat, upto : Nat]

\* Where a process may be: in _wait_for_send_window, between the two halves
\* of recv or set_combine_stderr, or about to transmit ("data" ... "close").
Transmit == DataType \cup {"adjust", "eof", "eof_close", "close"}
Pc == {"idle", "wait", "woken", "credit", "feed", "feed_stderr"} \cup Transmit

Init ==
    /\ wire = [s \in Side |-> <<>>]
    /\ transport = [s \in Side |-> "running"]
    /\ linked = [s \in Side |-> TRUE]
    /\ closed = [s \in Side |-> FALSE]
    /\ eof_received = [s \in Side |-> FALSE]
    /\ eof_sent = [s \in Side |-> FALSE]
    /\ combine_stderr = [s \in Side |-> FALSE]
    /\ out_window_size = [s \in Side |-> Window]
    /\ in_window_sofar = [s \in Side |-> 0]
    /\ in_buffer = [s \in Side |-> 0]
    /\ in_stderr_buffer = [s \in Side |-> 0]
    /\ pipe_closed = [s \in Side |-> FALSE]
    /\ pc = [p \in Procs |-> "idle"]
    /\ want = [t \in Threads |-> 0]
    /\ kind = [t \in Threads |-> "data"]
    /\ held = [p \in Procs |-> 0]
    /\ ended = [s \in Side |-> {}]
    /\ sent = [s \in Side |-> 0]
    /\ delivered = [s \in Side |-> 0]
    /\ read = [s \in Side |-> 0]
    /\ granted = [s \in Side |-> 0]
    /\ credited = [s \in Side |-> 0]

Idle(t, m) == pc[t] = "idle" /\ m \in Calls[t]
Smaller(a, b) == IF a < b THEN a ELSE b

\* All bytes that _wait_for_send_window of end s has allocated so far.
Accepted(s) == Window + credited[s] - out_window_size[s]

\* pc after out_buffer_cv.notify_all() at end s.
NotifyAll(s) ==
    [p \in Procs |-> IF At(p) = s /\ pc[p] = "wait" THEN "woken" ELSE pc[p]]
-----------------------------------------------------------------------------
(* send, send_stderr: _send and _wait_for_send_window *)

\* Mutant: eof_sent is not looked at.
MayWriteAfterEof(s) == ~closed[s]

MayWrite(s) == ~closed[s] /\ ~eof_sent[s]

\* Mutant: the size is not cut down to the window.
AllocateUncapped(t, k, n) ==
    LET s == Home[t]
        size == Smaller(n, MaxPacket)
    IN  /\ out_window_size' = [out_window_size EXCEPT ![s] = @ - size]
        /\ held' = [held EXCEPT ![t] = size]
        /\ pc' = [pc EXCEPT ![t] = k]

\* "we have some window to squeeze into": allocate, then leave the lock with
\* the packet still to be transmitted.
Allocate(t, k, n) ==
    LET s == Home[t]
        size == Smaller(Smaller(n, out_window_size[s]), MaxPacket)
    IN  /\ out_window_size' = [out_window_size EXCEPT ![s] = @ - size]
        /\ held' = [held EXCEPT ![t] = size]
        /\ pc' = [pc EXCEPT ![t] = k]

SendKind(m) == IF m = "send" THEN "data" ELSE "ext"

\* send on a closed channel raises, after EOF it returns 0: no change.
Send(t, m, n) ==
    LET s == Home[t]
    IN  /\ Idle(t, m)
        /\ MayWrite(s)
        /\ Accepted(s) + n <= MaxBytes
        /\ \/ /\ out_window_size[s] > 0
              /\ Allocate(t, SendKind(m), n)
              /\ UNCHANGED pending
           \/ /\ out_window_size[s] = 0
              /\ pc' = [pc EXCEPT ![t] = "wait"]
              /\ want' = [want EXCEPT ![t] = n]
              /\ kind' = [kind EXCEPT ![t] = SendKind(m)]
              /\ UNCHANGED <<out_window_size, held>>
        /\ UNCHANGED <<wire, flags, buffers, in_window_sofar, history>>

\* A notified sender gets the lock back: it returns 0, waits again because
\* another thread took the window, or allocates.
SendResume(t) ==
    LET s == Home[t]
    IN  /\ pc[t] = "woken"
        /\ \/ /\ ~MayWrite(s)
              /\ pc' = [pc EXCEPT ![t] = "idle"]
              /\ UNCHANGED <<out_window_size, held>>
           \/ /\ MayWrite(s) /\ out_window_size[s] = 0
              /\ pc' = [pc EXCEPT ![t] = "wait"]
              /\ UNCHANGED <<out_window_size, held>>
           \/ /\ MayWrite(s) /\ out_window_size[s] > 0
              /\ Allocate(t, kind[t], want[t])
        /\ UNCHANGED <<wire, flags, buffers, in_window_sofar, pending, history>>

\* The wait timed out: socket.timeout, even when a notification came first.
SendTimeout(t) ==
    /\ t \in Timed
    /\ pc[t] \in {"wait", "woken"}
    /\ pc' = [pc EXCEPT ![t] = "idle"]
    /\ UNCHANGED <<wire, flags, buffers, windows, pending, held, history>>
-----------------------------------------------------------------------------
(* Transport._send_user_message: the channel lock is not held *)

\* The packet a process at pc "c" holding "n" bytes transmits for end s.
Packet(s, c, n) ==
    [type |-> IF c = "eof_close" THEN "eof" ELSE c,
     size |-> n,
     upto |-> IF c \in DataType THEN sent[s] + n
              ELSE IF c = "adjust" THEN granted[s] + n ELSE 0]

\* Transmitted while the transport runs, dropped once it is not active.
Xmit(p) ==
    LET s == At(p)
    IN  /\ pc[p] \in Transmit
        /\ \/ /\ transport[s] = "running"
              /\ wire' = [wire EXCEPT
                            ![Peer(s)] = Append(@, Packet(s, pc[p], held[p]))]
              /\ sent' = [sent EXCEPT
                            ![s] = @ + (IF pc[p] \in DataType THEN held[p] ELSE 0)]
              /\ granted' = [granted EXCEPT
                            ![s] = @ + (IF pc[p] = "adjust" THEN held[p] ELSE 0)]
           \/ /\ transport[s] # "running"
              /\ UNCHANGED <<wire, sent, granted>>
        /\ pc' = [pc EXCEPT ![p] = IF @ = "eof_close" THEN "close" ELSE "idle"]
        /\ held' = [held EXCEPT ![p] = 0]
        /\ UNCHANGED <<flags, buffers, windows, pending,
                       ended, delivered, read, credited>>
-----------------------------------------------------------------------------
(* recv, recv_stderr: BufferedPipe.read, then _check_add_window *)

\* BufferedPipe.read of a pipe that holds k bytes blocks while it is empty and
\* open.  A result of length 0 tells the reader that the stream has ended.
PipeReady(s, k) == k > 0 \/ pipe_closed[s]

Recv(t, n) ==
    LET s == Home[t]
        k == Smaller(n, in_buffer[s])
    IN  /\ Idle(t, "recv")
        /\ PipeReady(s, in_buffer[s])
        /\ in_buffer' = [in_buffer EXCEPT ![s] = @ - k]
        /\ held' = [held EXCEPT ![t] = k]
        /\ pc' = [pc EXCEPT ![t] = "credit"]
        /\ read' = [read EXCEPT ![s] = @ + k]
        /\ ended' = [ended EXCEPT ![s] = IF k = 0 THEN @ \cup {"out"} ELSE @]
        /\ UNCHANGED <<wire, flags, in_stderr_buffer, combine_stderr, windows,
                       pending, sent, delivered, granted, credited>>

RecvStderr(t, n) ==
    LET s == Home[t]
        k == Smaller(n, in_stderr_buffer[s])
    IN  /\ Idle(t, "recv_stderr")
        /\ PipeReady(s, in_stderr_buffer[s])
        /\ in_stderr_buffer' = [in_stderr_buffer EXCEPT ![s] = @ - k]
        /\ held' = [held EXCEPT ![t] = k]
        /\ pc' = [pc EXCEPT ![t] = "credit"]
        /\ read' = [read EXCEPT ![s] = @ + k]
        /\ ended' = [ended EXCEPT ![s] = IF k = 0 THEN @ \cup {"err"} ELSE @]
        /\ UNCHANGED <<wire, flags, in_buffer, combine_stderr, windows,
                       pending, sent, delivered, granted, credited>>

\* Mutant: credit is withheld until a whole window has been read.
WholeWindowThreshold == Window

in_window_threshold == Window \div 10

\* Mutants: in_window_sofar is not reset when it is sent; or it is reset
\* although nothing is sent.
SofarKept(total) == total
SofarDropped(total) == 0

\* in_window_sofar after n more bytes were read, and the size of the
\* WINDOW_ADJUST to send for them (0: none).
SofarAfter(total) == IF total <= in_window_threshold THEN total ELSE 0
AckFor(total) == IF total <= in_window_threshold THEN 0 ELSE total

CheckAddWindow(t) ==
    LET s == Home[t]
        total == in_window_sofar[s] + held[t]
        ack == IF closed[s] \/ eof_received[s] THEN 0 ELSE AckFor(total)
    IN  /\ pc[t] = "credit"
        /\ in_window_sofar' = [in_window_sofar EXCEPT
               ![s] = IF closed[s] \/ eof_received[s] THEN @ ELSE SofarAfter(total)]
        /\ held' = [held EXCEPT ![t] = ack]
        /\ pc' = [pc EXCEPT ![t] = IF ack > 0 THEN "adjust" ELSE "idle"]
        /\ UNCHANGED <<wire, flags, buffers, out_window_size, pending, history>>
-----------------------------------------------------------------------------
(* set_combine_stderr, and the half of it and of _feed_extended that runs  *)
(* after combine_stderr has been looked at *)

SetCombineStderr(t, combine) ==
    LET s == Home[t]
        data == IF combine /\ ~combine_stderr[s] THEN in_stderr_buffer[s] ELSE 0
    IN  /\ Idle(t, "set_combine_stderr")
        /\ combine_stderr' = [combine_stderr EXCEPT ![s] = combine]
        /\ in_stderr_buffer' = [in_stderr_buffer EXCEPT ![s] = @ - data]
        /\ held' = [held EXCEPT ![t] = data]
        /\ pc' = [pc EXCEPT ![t] = IF data > 0 THEN "feed" ELSE "idle"]
        /\ UNCHANGED <<wire, flags, in_buffer, windows, pending, history>>

Feed(p) ==
    LET s == At(p)
    IN  /\ \/ /\ pc[p] = "feed"
              /\ in_buffer' = [in_buffer EXCEPT ![s] = @ + held[p]]
              /\ UNCHANGED in_stderr_buffer
           \/ /\ pc[p] = "feed_stderr"
              /\ in_stderr_buffer' = [in_stderr_buffer EXCEPT ![s] = @ + held[p]]
              /\ UNCHANGED in_buffer
        /\ held' = [held EXCEPT ![p] = 0]
        /\ pc' = [pc EXCEPT ![p] = "idle"]
        /\ UNCHANGED <<wire, flags, combine_stderr, windows, pending, history>>
-----------------------------------------------------------------------------
(* close and shutdown *)

\* Mutant: the pipes are left open.
SetClosedOnly(s) ==
    /\ closed' = [closed EXCEPT ![s] = TRUE]
    /\ UNCHANGED pipe_closed

\* _set_closed: also closes both pipes and notifies the blocked senders (in
\* the caller's pc').
SetClosed(s) ==
    /\ closed' = [closed EXCEPT ![s] = TRUE]
    /\ pipe_closed' = [pipe_closed EXCEPT ![s] = TRUE]

\* _close_internal for process p of end s: EOF unless it was sent before,
\* then CLOSE, both transmitted by p once it has released the lock.
CloseInternal(p, s) ==
    /\ SetClosed(s)
    /\ eof_sent' = [eof_sent EXCEPT ![s] = TRUE]
    /\ pc' = [NotifyAll(s) EXCEPT ![p] = IF eof_sent[s] THEN "close" ELSE "eof_close"]

Close(t) ==
    /\ Idle(t, "close")
    /\ ~closed[Home[t]]
    /\ CloseInternal(t, Home[t])
    /\ UNCHANGED <<wire, transport, linked, eof_received, buffers, windows,
                   pending, held, history>>

\* shutdown(1).  _send_eof does not notify out_buffer_cv.
ShutdownWrite(t) ==
    LET s == Home[t]
    IN  /\ Idle(t, "shutdown_write")
        /\ ~eof_sent[s]
        /\ eof_sent' = [eof_sent EXCEPT ![s] = TRUE]
        /\ pc' = [pc EXCEPT ![t] = "eof"]
        /\ UNCHANGED <<wire, transport, linked, closed, eof_received,
                       pipe_closed, buffers, windows, pending, held, history>>

\* shutdown(0): feigned, the pipes stay open.
ShutdownRead(t) ==
    LET s == Home[t]
    IN  /\ Idle(t, "shutdown_read")
        /\ ~eof_received[s]
        /\ eof_received' = [eof_received EXCEPT ![s] = TRUE]
        /\ UNCHANGED <<wire, transport, linked, closed, eof_sent, pipe_closed,
                       buffers, windows, pc, pending, held, history>>
-----------------------------------------------------------------------------
(* The transport thread: Transport.run and the _channel_handler_table *)

\* The next packet for end s has type ty, and the transport thread of s has
\* finished the previous one.
Receives(s, ty) ==
    /\ transport[s] = "running"
    /\ pc[s] = "idle"
    /\ wire[s] # <<>>
    /\ Head(wire[s]).type = ty
    /\ wire' = [wire EXCEPT ![s] = Tail(@)]

\* "Ignoring message for dead channel"
HandleDead(s) ==
    /\ \E ty \in MsgType : Receives(s, ty)
    /\ ~linked[s]
    /\ UNCHANGED <<flags, buffers, windows, pc, pending, held, history>>

\* _feed
HandleData(s) ==
    /\ Receives(s, "data")
    /\ linked[s]
    /\ in_buffer' = [in_buffer EXCEPT ![s] = @ + Head(wire[s]).size]
    /\ delivered' = [delivered EXCEPT ![s] = @ + Head(wire[s]).size]
    /\ UNCHANGED <<flags, in_stderr_buffer, combine_stderr, windows, pc,
                   pending, held, ended, sent, read, granted, credited>>

\* _feed_extended looks at combine_stderr without the lock; Feed follows.
HandleExtended(s) ==
    /\ Receives(s, "ext")
    /\ linked[s]
    /\ held' = [held EXCEPT ![s] = Head(wire[s]).size]
    /\ pc' = [pc EXCEPT ![s] = IF combine_stderr[s] THEN "feed" ELSE "feed_stderr"]
    /\ delivered' = [delivered EXCEPT ![s] = @ + Head(wire[s]).size]
    /\ UNCHANGED <<flags, buffers, windows, pending, ended, sent, read,
                   granted, credited>>

\* _window_adjust
HandleWindowAdjust(s) ==
    /\ Receives(s, "adjust")
    /\ linked[s]
    /\ out_window_size' = [out_window_size EXCEPT ![s] = @ + Head(wire[s]).size]
    /\ credited' = [credited EXCEPT ![s] = @ + Head(wire[s]).size]
    /\ pc' = NotifyAll(s)
    /\ UNCHANGED <<flags, buffers, in_window_sofar, pending, held, ended,
                   sent, delivered, read, granted>>

\* _handle_eof: does nothing when eof_received is already set.
HandleEof(s) ==
    /\ Receives(s, "eof")
    /\ linked[s]
    /\ eof_received' = [eof_received EXCEPT ![s] = TRUE]
    /\ pipe_closed' = [pipe_closed EXCEPT ![s] = @ \/ ~eof_received[s]]
    /\ UNCHANGED <<transport, linked, closed, eof_sent, buffers, windows, pc,
                   pending, held, history>>

\* Mutant: the peer's CLOSE is not answered.
HandleCloseSilently(s) ==
    /\ Receives(s, "close")
    /\ linked[s]
    /\ SetClosed(s)
    /\ pc' = NotifyAll(s)
    /\ linked' = [linked EXCEPT ![s] = FALSE]
    /\ UNCHANGED <<transport, eof_received, eof_sent, buffers, windows, pending,
                   held, history>>

\* _handle_close: answers with our own EOF and CLOSE unless we sent them.
HandleClose(s) ==
    /\ Receives(s, "close")
    /\ linked[s]
    /\ \/ ~closed[s] /\ CloseInternal(s, s)
       \/ closed[s] /\ UNCHANGED <<closed, pipe_closed, eof_sent, pc>>
    /\ linked' = [linked EXCEPT ![s] = FALSE]
    /\ UNCHANGED <<transport, eof_received, buffers, windows, pending, held, history>>

\* Transport.close by the application, or the error that ends run(): no
\* packet is read or written any more.
CloseTransport(s) ==
    /\ s \in Faults
    /\ transport[s] = "running"
    /\ transport' = [transport EXCEPT ![s] = "stopped"]
    /\ UNCHANGED <<wire, linked, closed, eof_received, eof_sent, pipe_closed,
                   buffers, windows, pc, pending, held, history>>

\* The peer is gone: read_message raises EOFError between two packets.
LoseConnection(s) ==
    /\ transport[Peer(s)] # "running"
    /\ transport[s] = "running"
    /\ pc[s] = "idle"
    /\ transport' = [transport EXCEPT ![s] = "stopped"]
    /\ UNCHANGED <<wire, linked, closed, eof_received, eof_sent, pipe_closed,
                   buffers, windows, pc, pending, held, history>>

\* Channel._unlink, which returns at once when the channel is closed.
Unlink(s) ==
    /\ transport[s] = "stopped"
    /\ transport' = [transport EXCEPT ![s] = "dead"]
    /\ \/ /\ linked[s] /\ ~closed[s]
          /\ SetClosed(s)
          /\ linked' = [linked EXCEPT ![s] = FALSE]
          /\ pc' = NotifyAll(s)
       \/ /\ ~linked[s] \/ closed[s]
          /\ UNCHANGED <<closed, pipe_closed, linked, pc>>
    /\ UNCHANGED <<wire, eof_received, eof_sent, buffers, windows, pending,
                   held, history>>
-----------------------------------------------------------------------------
TransportThread(s) ==
    \/ HandleDead(s)
    \/ HandleData(s)
    \/ HandleExtended(s)
    \/ HandleWindowAdjust(s)
    \/ HandleEof(s)
    \/ HandleClose(s)
    \/ LoseConnection(s)
    \/ Unlink(s)

\* Steps of a call that the application has already made.
CallInProgress(t) ==
    \/ SendResume(t)
    \/ CheckAddWindow(t)

Writing(t) == \E m \in {"send", "send_stderr"}, n \in SendSizes : Send(t, m, n)
Reading(t) == \E n \in RecvSizes : Recv(t, n) \/ RecvStderr(t, n)

Next ==
    \/ \E p \in Procs : Xmit(p) \/ Feed(p)
    \/ \E s \in Side : TransportThread(s) \/ CloseTransport(s)
    \/ \E t \in Threads :
          \/ CallInProgress(t)
          \/ SendTimeout(t)
          \/ Writing(t)
          \/ Reading(t)
          \/ Close(t)
          \/ ShutdownWrite(t)
          \/ ShutdownRead(t)
          \/ \E combine \in BOOLEAN : SetCombineStderr(t, combine)

Spec == Init /\ [][Next]_vars

(***************************************************************************)
(* Fairness.  Every started call and both transport threads go on (they    *)
(* are threads of a running interpreter).  That readers keep reading is    *)
(* the assumption a flow-controlled stream makes on its application.       *)
(***************************************************************************)
Fairness ==
    /\ \A p \in Procs : WF_vars(Xmit(p) \/ Feed(p))
    /\ \A s \in Side : WF_vars(TransportThread(s))
    /\ \A t \in Threads : WF_vars(CallInProgress(t)) /\ WF_vars(Reading(t))

FairSpec == Spec /\ Fairness
-----------------------------------------------------------------------------
TypeOK ==
    /\ wire \in [Side -> Seq(Msg)]
    /\ transport \in [Side -> {"running", "stopped", "dead"}]
    /\ linked \in [Side -> BOOLEAN]
    /\ closed \in [Side -> BOOLEAN]
    /\ eof_received \in [Side -> BOOLEAN]
    /\ eof_sent \in [Side -> BOOLEAN]
    /\ combine_stderr \in [Side -> BOOLEAN]
    /\ out_window_size \in [Side -> Nat]
    /\ in_window_sofar \in [Side -> Nat]
    /\ in_buffer \in [Side -> Nat]
    /\ in_stderr_buffer \in [Side -> Nat]
    /\ pipe_closed \in [Side -> BOOLEAN]
    /\ pc \in [Procs -> Pc]
    /\ want \in [Threads -> Nat]
    /\ kind \in [Threads -> DataType]
    /\ held \in [Procs -> Nat]
    /\ ended \in [Side -> SUBSET {"out", "err"}]
    /\ sent \in [Side -> Nat]
    /\ delivered \in [Side -> Nat]
    /\ read \in [Side -> Nat]
    /\ granted \in [Side -> Nat]
    /\ credited \in [Side -> Nat]

\* The unread bytes an end holds for its readers never exceed the window it
\* advertised, whatever the interleaving of senders, readers, WINDOW_ADJUSTs
\* in flight and set_combine_stderr (_check_add_window against
\* _wait_for_send_window of the other end).
WindowRespected == \A s \in Side : in_buffer[s] + in_stderr_buffer[s] <= Window

\* Data that can still reach a reader of end s.
DataUnderWay(s) ==
    \/ \E i \in DOMAIN wire[s] : wire[s][i].type \in DataType
    \/ \E p \in Procs :
          \/ At(p) = Peer(s) /\ pc[p] \in DataType
          \/ At(p) = s /\ pc[p] \in {"feed", "feed_stderr"}

\* recv and recv_stderr return b"" only when the stream has ended: nothing
\* the peer's send accepted can still come, as long as this end did not close
\* the channel and no transport stopped.
EmptyReadIsFinal ==
    \A s \in Side :
        /\ ended[s] # {}
        /\ ~closed[s]
        /\ \A q \in Side : transport[q] = "running"
        => /\ ~DataUnderWay(s)
           /\ "out" \in ended[s] => in_buffer[s] = 0
           /\ "err" \in ended[s] => in_stderr_buffer[s] = 0

\* A thread blocked in _wait_for_send_window returns from send: the readers
\* read, so WINDOW_ADJUSTs come (the withheld in_window_sofar never uses up
\* the window), or the channel is closed and send returns 0.
SenderReleased ==
    \A t \in Threads : pc[t] \in {"wait", "woken"} ~> pc[t] \notin {"wait", "woken"}

\* A channel closed at one end is closed and unlinked at both, unless a
\* transport stops: _handle_close answers a CLOSE exactly when none was sent.
CloseCompletes ==
    \A s \in Side :
        closed[s] ~> \/ \A q \in Side : closed[q] /\ ~linked[q]
                     \/ \E q \in Side : transport[q] # "running"

\* When one end has shut down writing, closed, or lost its transport, the
\* readers of the other end stop blocking.
EndReachesReader ==
    \A s \in Side :
        (eof_sent[s] \/ closed[s] \/ transport[s] # "running") ~> pipe_closed[Peer(s)]
=============================================================================
