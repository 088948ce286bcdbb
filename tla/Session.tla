------------------------------ MODULE Session ------------------------------
(***************************************************************************)
(* The channels of a session (paramiko/transport.py, channel.py): opening  *)
(* and accepting them, requests on them, their exit status, global         *)
(* requests, and the end of the session, between two Transports with       *)
(* several application threads at each end.                                *)
(*                                                                         *)
(* Each end has a transport thread (Transport.run), named after the end.   *)
(* A step is what a thread does under one lock, or between two places      *)
(* where it may be overtaken.  Packets arrive in order, and are lost only  *)
(* when a session ends.  Key exchange is the business of module Rekey:     *)
(* here _send_user_message never waits, and of an exchange that a limit or *)
(* the peer starts one sees only that completion_event is set at its end.  *)
(* The data of a channel, its flow control and the EOF that precedes CLOSE *)
(* are the business of module Channel.                                     *)
(*                                                                         *)
(* Open calls are numbered.  Call r makes at most one Channel object at    *)
(* each end, chan[s][r].  The number is in the packets only for the        *)
(* properties; the code finds the object through the channel number.       *)
(***************************************************************************)
EXTENDS Integers, Sequences, FiniteSets

CONSTANTS
    Threads,         \* the application threads
    Home,            \* the end each of them belongs to
    Scenarios,       \* how the session is used, see Scenario
    ChannelNumbers,  \* how many channel numbers there are (2^24)
    MaxOpens,        \* bound: calls of open_channel
    MaxAsks          \* bound: calls of global_request

Side == {"client", "server"}
Peer(s) == IF s = "client" THEN "server" ELSE "client"

Method == {"open_channel", "accept", "global_request", "close_transport",
           "exec_command", "recv_exit_status", "send_exit_status", "close",
           "share"}

\* Which methods the threads call; which of them wait with a timeout; how many
\* channels they open and global requests they make in all; whether the session
\* lasts long enough for new keys to be exchanged.
Scenario == [calls : [Threads -> SUBSET Method], timed : SUBSET Threads,
             opens : 0 .. MaxOpens, asks : 0 .. MaxAsks, rekeys : BOOLEAN]

(***************************************************************************)
(* The channel numbers are not used up: a number comes round again after   *)
(* 2^24 channels, and the model does not follow a session that long.       *)
(***************************************************************************)
ASSUME SessionAssumption ==
    /\ IsFiniteSet(Threads)
    /\ Threads \cap Side = {}
    /\ Home \in [Threads -> Side]
    /\ Scenarios \subseteq Scenario
    /\ MaxOpens \in Nat
    /\ MaxAsks \in Nat
    /\ ChannelNumbers \in Nat
    /\ ChannelNumbers > MaxOpens

Procs == Threads \cup Side
At(p) == IF p \in Side THEN p ELSE Home[p]

Ids   == 0 .. (ChannelNumbers - 1)
Opens == 1 .. MaxOpens
Asks  == 1 .. MaxAsks

VARIABLES
    scenario,
    wire,             \* wire[s]: packets on their way to s
    active,           \* Transport.active
    chan,             \* chan[s][r]: the Channel object of open call r at s
    channels,         \* the ChannelMap: object by number, 0 for none
    channel_counter, channels_seen,
    channel_events,   \* open call waiting for the answer for a number
    fired,            \* the open calls whose event is set
    saved_exception,  \* 0, the failed open call, or SessionEnd
    server_accepts,   \* queue of accepted channels
    completion,       \* completion_event is set
    global_response,  \* the answer kept for the callers of global_request
    pc, cur,          \* what a process is about to do, and its call's number
    own,              \* the channel an application thread holds, 0 for none
    opens, asks,      \* how many open and global requests were made
    exited,           \* the channels whose exit status an end has sent
    timely            \* history: those of which it was sent before CLOSE

tables  == <<chan, channels, channel_counter, channels_seen>>
waiting == <<channel_events, fired, saved_exception>>
global  == <<completion, global_response, asks>>
local   == <<pc, cur, own>>
history == <<exited, timely>>
vars == <<scenario, wire, active, tables, waiting, server_accepts, global,
          local, opens, history>>

SessionEnd == -1

\* A Channel object.  "opening" is active = 0, "open" is active = 1.
NewChannel(id, remote, st) ==
    [id |-> id, remote |-> remote, st |-> st, event |-> FALSE,
     event_ready |-> FALSE, status_event |-> FALSE, exit_status |-> FALSE]

ChannelType == {"request", "success", "failure", "exit", "close"}
\* "to" and "from" are channel numbers, "num" the number of the call, "ok" the
\* answer to a global request.
Packet(type, to, from, num, ok) ==
    [type |-> type, to |-> to, from |-> from, num |-> num, ok |-> ok]

Init ==
    /\ scenario \in Scenarios
    /\ wire = [s \in Side |-> <<>>]
    /\ active = [s \in Side |-> TRUE]
    /\ chan = [s \in Side |-> [r \in Opens |-> NewChannel(0, 0, "none")]]
    /\ channels = [s \in Side |-> [i \in Ids |-> 0]]
    /\ channel_counter = [s \in Side |-> 0]
    /\ channels_seen = [s \in Side |-> {}]
    /\ channel_events = [s \in Side |-> [i \in Ids |-> 0]]
    /\ fired = {}
    /\ saved_exception = [s \in Side |-> 0]
    /\ server_accepts = [s \in Side |-> <<>>]
    /\ completion = [s \in Side |-> FALSE]
    /\ global_response = [s \in Side |-> [num |-> 0, ok |-> FALSE]]
    /\ pc = [p \in Procs |-> "idle"]
    /\ cur = [p \in Procs |-> 0]
    /\ own = [t \in Threads |-> 0]
    /\ opens = 0
    /\ asks = 0
    /\ exited = [s \in Side |-> {}]
    /\ timely = [s \in Side |-> {}]

Calls(t, m) == pc[t] = "idle" /\ m \in scenario.calls[t]
Goto(p, l) == pc' = [pc EXCEPT ![p] = l]

\* A user message: sent while the transport is active, else dropped.
SendUserMessage(s, m) ==
    wire' = IF active[s] THEN [wire EXCEPT ![Peer(s)] = Append(@, m)] ELSE wire

\* server_accept_cv.notify(): pc after it, when the caller goes to l.
NotifyOne(p, l) ==
    LET waiters == {t \in Threads : Home[t] = At(p) /\ pc[t] = "accepting"}
    IN  \/ waiters = {} /\ Goto(p, l)
        \/ \E t \in waiters : pc' = [pc EXCEPT ![t] = "accept_woken", ![p] = l]
-----------------------------------------------------------------------------
(* open_channel *)

\* Mutant: the lowest number that is free.
NextChannelLowest(s) ==
    CHOOSE i \in Ids : channels[s][i] = 0 /\ \A j \in 0 .. (i - 1) : channels[s][j] # 0

\* _next_channel: the first number from the counter on that is free.
NextChannel(s) ==
    LET after(k) == (channel_counter[s] + k) % ChannelNumbers
        k == CHOOSE n \in 0 .. (ChannelNumbers - 1) :
                /\ channels[s][after(n)] = 0
                /\ \A m \in 0 .. (n - 1) : channels[s][after(m)] # 0
    IN  after(k)

\* The session is active; the lock is not held yet.
OpenChannel(t) ==
    /\ Calls(t, "open_channel")
    /\ active[Home[t]]
    /\ opens < scenario.opens
    /\ opens' = opens + 1
    /\ cur' = [cur EXCEPT ![t] = opens + 1]
    /\ Goto(t, "register")
    /\ UNCHANGED <<scenario, wire, active, tables, waiting, server_accepts,
                   global, own, history>>

\* Under the lock: the number, the object, its event.
Register(t) ==
    LET s == Home[t]
        r == cur[t]
        id == NextChannel(s)
    IN  /\ pc[t] = "register"
        /\ channel_counter' = [channel_counter EXCEPT ![s] = (id + 1) % ChannelNumbers]
        /\ chan' = [chan EXCEPT ![s][r] = NewChannel(id, 0, "opening")]
        /\ channels' = [channels EXCEPT ![s][id] = r]
        /\ channels_seen' = [channels_seen EXCEPT ![s] = @ \cup {id}]
        /\ channel_events' = [channel_events EXCEPT ![s][id] = r]
        /\ Goto(t, "send_open")
        /\ UNCHANGED <<scenario, wire, active, fired, saved_exception,
                       server_accepts, global, cur, own, opens, history>>

SendOpen(t) ==
    LET s == Home[t]
    IN  /\ pc[t] = "send_open"
        /\ SendUserMessage(s, Packet("open", 0, chan[s][cur[t]].id, cur[t], TRUE))
        /\ Goto(t, "opening")
        /\ UNCHANGED <<scenario, active, tables, waiting, server_accepts, global,
                       cur, own, opens, history>>

\* The loop: the session has ended, the event is set, or time is up.
OpenWait(t) ==
    /\ pc[t] = "opening"
    /\ \/ ~active[Home[t]] /\ Goto(t, "raise")
       \/ active[Home[t]] /\ cur[t] \in fired /\ Goto(t, "lookup")
    /\ UNCHANGED <<scenario, wire, active, tables, waiting, server_accepts,
                   global, cur, own, opens, history>>

OpenTimeout(t) ==
    /\ pc[t] = "opening"
    /\ active[Home[t]] /\ cur[t] \notin fired
    /\ t \in scenario.timed
    /\ Goto(t, "idle")
    /\ cur' = [cur EXCEPT ![t] = 0]
    /\ UNCHANGED <<scenario, wire, active, tables, waiting, server_accepts,
                   global, own, opens, history>>

\* The channel is in the map: return it.  Otherwise it was refused, or closed
\* since.
OpenLookup(t) ==
    LET s == Home[t]
        r == channels[s][chan[s][cur[t]].id]
    IN  /\ pc[t] = "lookup"
        /\ \/ /\ r # 0
              /\ own' = [own EXCEPT ![t] = r]
              /\ cur' = [cur EXCEPT ![t] = 0]
              /\ Goto(t, "idle")
           \/ /\ r = 0
              /\ Goto(t, "raise")
              /\ UNCHANGED <<own, cur>>
        /\ UNCHANGED <<scenario, wire, active, tables, waiting, server_accepts,
                       global, opens, history>>

\* Mutant: the exception is not cleared.
OpenRaisesKeeps(t) ==
    /\ pc[t] = "raise"
    /\ cur' = [cur EXCEPT ![t] = 0]
    /\ Goto(t, "idle")
    /\ UNCHANGED <<scenario, wire, active, tables, waiting, server_accepts,
                   global, own, opens, history>>

\* get_exception takes the saved exception, whoever it was meant for.
OpenRaises(t) ==
    /\ pc[t] = "raise"
    /\ saved_exception' = [saved_exception EXCEPT ![Home[t]] = 0]
    /\ cur' = [cur EXCEPT ![t] = 0]
    /\ Goto(t, "idle")
    /\ UNCHANGED <<scenario, wire, active, tables, channel_events, fired,
                   server_accepts, global, own, opens, history>>
-----------------------------------------------------------------------------
(* accept *)

\* The next channel is taken from the queue by t.
PopAccepted(t) ==
    LET s == Home[t]
    IN  /\ own' = [own EXCEPT ![t] = Head(server_accepts[s])]
        /\ server_accepts' = [server_accepts EXCEPT ![s] = Tail(@)]
        /\ Goto(t, "idle")

Accept(t) ==
    /\ Calls(t, "accept")
    /\ \/ /\ server_accepts[Home[t]] # <<>>
          /\ PopAccepted(t)
       \/ /\ server_accepts[Home[t]] = <<>>
          /\ Goto(t, "accepting")
          /\ UNCHANGED <<own, server_accepts>>
    /\ UNCHANGED <<scenario, wire, active, tables, waiting, global, cur, opens,
                   history>>

\* The wait ends with a notification or with the timeout; then the queue is
\* looked at, and None returned when it is empty.
AcceptTimeout(t) ==
    /\ pc[t] = "accepting"
    /\ t \in scenario.timed
    /\ Goto(t, "accept_woken")
    /\ UNCHANGED <<scenario, wire, active, tables, waiting, server_accepts,
                   global, cur, own, opens, history>>

AcceptReturns(t) ==
    /\ pc[t] = "accept_woken"
    /\ \/ server_accepts[Home[t]] # <<>> /\ PopAccepted(t)
       \/ /\ server_accepts[Home[t]] = <<>>
          /\ Goto(t, "idle")
          /\ UNCHANGED <<own, server_accepts>>
    /\ UNCHANGED <<scenario, wire, active, tables, waiting, global, cur, opens,
                   history>>
-----------------------------------------------------------------------------
(* global_request *)

\* Mutant: the event of the last request is used again.
GlobalRequestReuses(t) ==
    /\ Calls(t, "global_request")
    /\ asks < scenario.asks
    /\ asks' = asks + 1
    /\ cur' = [cur EXCEPT ![t] = asks + 1]
    /\ Goto(t, "send_global")
    /\ UNCHANGED <<scenario, wire, active, tables, waiting, server_accepts,
                   completion, global_response, own, opens, history>>

GlobalRequest(t) ==
    /\ Calls(t, "global_request")
    /\ asks < scenario.asks
    /\ asks' = asks + 1
    /\ cur' = [cur EXCEPT ![t] = asks + 1]
    /\ completion' = [completion EXCEPT ![Home[t]] = FALSE]
    /\ Goto(t, "send_global")
    /\ UNCHANGED <<scenario, wire, active, tables, waiting, server_accepts,
                   global_response, own, opens, history>>

SendGlobal(t) ==
    /\ pc[t] = "send_global"
    /\ SendUserMessage(Home[t], Packet("global", 0, 0, cur[t], TRUE))
    /\ Goto(t, "await")
    /\ UNCHANGED <<scenario, active, tables, waiting, server_accepts, global,
                   cur, own, opens, history>>

\* None when the session has ended; global_response when the event is set.
GlobalReturns(t) ==
    /\ pc[t] = "await"
    /\ ~active[Home[t]] \/ completion[Home[t]]
    /\ cur' = [cur EXCEPT ![t] = 0]
    /\ Goto(t, "idle")
    /\ UNCHANGED <<scenario, wire, active, tables, waiting, server_accepts,
                   global, own, opens, history>>
-----------------------------------------------------------------------------
(* Requests on a channel, exit status, close *)

\* t holds a channel that passes the test of @open_only.
HoldsOpen(t) == own[t] # 0 /\ chan[Home[t]][own[t]].st = "open"

\* The application passes a channel from one of its threads to another.
Share(t) ==
    /\ Calls(t, "share")
    /\ own[t] = 0
    /\ \E u \in Threads :
          /\ Home[u] = Home[t] /\ own[u] # 0
          /\ own' = [own EXCEPT ![t] = own[u]]
    /\ UNCHANGED <<scenario, wire, active, tables, waiting, server_accepts,
                   global, pc, cur, opens, history>>

\* exec_command; get_pty, invoke_shell and invoke_subsystem take the same steps.
ExecCommand(t) ==
    /\ Calls(t, "exec_command")
    /\ HoldsOpen(t)
    /\ ~chan[Home[t]][own[t]].event_ready   \* bound: one request per channel
    /\ Goto(t, "pend")
    /\ UNCHANGED <<scenario, wire, active, tables, waiting, server_accepts,
                   global, cur, own, opens, history>>

\* _event_pending
EventPending(t) ==
    /\ pc[t] = "pend"
    /\ chan' = [chan EXCEPT ![Home[t]][own[t]].event = FALSE,
                            ![Home[t]][own[t]].event_ready = FALSE]
    /\ Goto(t, "send_request")
    /\ UNCHANGED <<scenario, wire, active, channels, channel_counter,
                   channels_seen, waiting, server_accepts, global, cur, own,
                   opens, history>>

ToPeer(s, r, type) == Packet(type, chan[s][r].remote, 0, r, TRUE)

SendRequest(t) ==
    /\ pc[t] = "send_request"
    /\ SendUserMessage(Home[t], ToPeer(Home[t], own[t], "request"))
    /\ Goto(t, "event")
    /\ UNCHANGED <<scenario, active, tables, waiting, server_accepts, global,
                   cur, own, opens, history>>

\* _wait_for_event: without event_ready an exception is raised, the saved one
\* if there is one.
EventReturns(t) ==
    LET c == chan[Home[t]][own[t]]
    IN  /\ pc[t] = "event"
        /\ c.event
        /\ saved_exception' = [saved_exception EXCEPT
                                 ![Home[t]] = IF c.event_ready THEN @ ELSE 0]
        /\ Goto(t, "idle")
        /\ UNCHANGED <<scenario, wire, active, tables, channel_events, fired,
                       server_accepts, global, cur, own, opens, history>>

RecvExitStatus(t) ==
    /\ Calls(t, "recv_exit_status")
    /\ own[t] # 0
    /\ ~chan[Home[t]][own[t]].status_event
    /\ Goto(t, "status")
    /\ UNCHANGED <<scenario, wire, active, tables, waiting, server_accepts,
                   global, cur, own, opens, history>>

StatusReturns(t) ==
    /\ pc[t] = "status"
    /\ chan[Home[t]][own[t]].status_event
    /\ Goto(t, "idle")
    /\ UNCHANGED <<scenario, wire, active, tables, waiting, server_accepts,
                   global, cur, own, opens, history>>

\* send_exit_status does not ask whether the channel is still open.
SendExitStatus(t) ==
    LET s == Home[t]
        r == own[t]
    IN  /\ Calls(t, "send_exit_status")
        /\ r # 0
        /\ r \notin exited[s]   \* bound: one exit status per channel
        /\ SendUserMessage(s, ToPeer(s, r, "exit"))
        /\ exited' = [exited EXCEPT ![s] = @ \cup {r}]
        /\ timely' = [timely EXCEPT ![s] = IF chan[s][r].st = "open"
                                           THEN @ \cup {r} ELSE @]
        /\ UNCHANGED <<scenario, active, tables, waiting, server_accepts, global,
                       local, opens>>

\* _set_closed
Closed(c) == [c EXCEPT !.st = "closed", !.event = TRUE, !.status_event = TRUE]

\* Mutant: the channel leaves the map when it is closed.
CloseUnlinks(t) ==
    LET s == Home[t]
    IN  /\ Calls(t, "close")
        /\ HoldsOpen(t)
        /\ chan' = [chan EXCEPT ![s][own[t]] = Closed(@)]
        /\ channels' = [channels EXCEPT ![s][chan[s][own[t]].id] = 0]
        /\ Goto(t, "send_close")
        /\ cur' = [cur EXCEPT ![t] = own[t]]
        /\ UNCHANGED <<scenario, wire, active, channel_counter, channels_seen,
                       waiting, server_accepts, global, own, opens, history>>

\* The object stays in the map: "the remote side may still try to send
\* meta-data (exit-status, etc)".
Close(t) ==
    /\ Calls(t, "close")
    /\ HoldsOpen(t)
    /\ chan' = [chan EXCEPT ![Home[t]][own[t]] = Closed(@)]
    /\ Goto(t, "send_close")
    /\ cur' = [cur EXCEPT ![t] = own[t]]
    /\ UNCHANGED <<scenario, wire, active, channels, channel_counter,
                   channels_seen, waiting, server_accepts, global, own, opens,
                   history>>

\* For a thread that called close, or for the transport thread.
SendClose(p) ==
    /\ pc[p] = "send_close"
    /\ SendUserMessage(At(p), ToPeer(At(p), cur[p], "close"))
    /\ cur' = [cur EXCEPT ![p] = 0]
    /\ Goto(p, "idle")
    /\ UNCHANGED <<scenario, active, tables, waiting, server_accepts, global,
                   own, opens, history>>

\* A call that p is making works on the object r (global requests have
\* numbers of their own).
Handles(p, r) == cur[p] = r /\ pc[p] \notin {"send_global", "await"}

\* Nobody holds the object r of end s any more (an open call that gave up):
\* __del__ closes it, and the map, which has only weak references, forgets it.
Collect(s, r) ==
    LET c == chan[s][r]
    IN  /\ c.st # "none"
        /\ channels[s][c.id] = r
        /\ \A p \in Procs : At(p) = s => ~Handles(p, r)
        /\ \A t \in Threads : Home[t] = s => own[t] # r
        /\ \A i \in DOMAIN server_accepts[s] : server_accepts[s][i] # r
        /\ channels' = [channels EXCEPT ![s][c.id] = 0]
        /\ \/ /\ c.st = "open"
              /\ chan' = [chan EXCEPT ![s][r] = Closed(@)]
              /\ SendUserMessage(s, ToPeer(s, r, "close"))
           \/ /\ c.st # "open"
              /\ UNCHANGED <<chan, wire>>
        /\ UNCHANGED <<scenario, active, channel_counter, channels_seen, waiting,
                       server_accepts, global, local, opens, history>>
-----------------------------------------------------------------------------
(* The transport thread *)

\* The next packet has type ty.
Reads(s, ty) ==
    /\ pc[s] = "idle"
    /\ active[s]
    /\ wire[s] # <<>>
    /\ Head(wire[s]).type = ty
    /\ wire' = [wire EXCEPT ![s] = Tail(@)]

\* ... and is for the channel object r.
ReadsFor(s, ty, r) ==
    /\ Reads(s, ty)
    /\ r = channels[s][Head(wire[s]).to]
    /\ r # 0

\* "Ignoring message for dead channel"
IgnoreDead(s) ==
    /\ \E ty \in ChannelType : Reads(s, ty)
    /\ channels[s][Head(wire[s]).to] = 0
    /\ Head(wire[s]).to \in channels_seen[s]
    /\ UNCHANGED <<scenario, active, tables, waiting, server_accepts, global,
                   local, opens, history>>

\* _parse_channel_open reserves a number; a client that has no handler for the
\* kind of channel refuses at once.
ReadOpen(s) ==
    LET m == Head(wire[s])
        id == NextChannel(s)
    IN  /\ Reads(s, "open")
        /\ \/ /\ channel_counter' =
                    [channel_counter EXCEPT ![s] = (id + 1) % ChannelNumbers]
              /\ chan' = [chan EXCEPT ![s][m.num] = NewChannel(id, m.from, "none")]
              /\ Goto(s, "decide")
           \/ /\ s = "client"
              /\ chan' = [chan EXCEPT ![s][m.num] = NewChannel(0, m.from, "none")]
              /\ Goto(s, "refuse_open")
              /\ UNCHANGED channel_counter
        /\ cur' = [cur EXCEPT ![s] = m.num]
        /\ UNCHANGED <<scenario, active, channels, channels_seen, waiting,
                       server_accepts, global, own, opens, history>>

\* The server object is asked (check_channel_request and the like) and gives
\* any answer; a client that has a handler accepts.
Decide(s) ==
    LET c == chan[s][cur[s]]
    IN  /\ pc[s] = "decide"
        /\ \/ /\ chan' = [chan EXCEPT ![s][cur[s]].st = "open"]
              /\ channels' = [channels EXCEPT ![s][c.id] = cur[s]]
              /\ channels_seen' = [channels_seen EXCEPT ![s] = @ \cup {c.id}]
              /\ Goto(s, "accept_open")
           \/ /\ s = "server"
              /\ Goto(s, "refuse_open")
              /\ UNCHANGED <<chan, channels, channels_seen>>
        /\ UNCHANGED <<scenario, wire, active, channel_counter, waiting,
                       server_accepts, global, cur, own, opens, history>>

\* _send_message from the transport thread: once the packetizer is closed the
\* write fails, and run() ends.
SendMessage(s, m, l) ==
    \/ /\ active[s]
       /\ wire' = [wire EXCEPT ![Peer(s)] = Append(@, m)]
       /\ Goto(s, l)
       /\ UNCHANGED saved_exception
    \/ /\ ~active[s]
       /\ saved_exception' = [saved_exception EXCEPT ![s] = SessionEnd]
       /\ Goto(s, "ending")
       /\ UNCHANGED wire

AnswerOpen(s) ==
    LET c == chan[s][cur[s]]
    IN  /\ \/ /\ pc[s] = "accept_open"
              /\ SendMessage(s, Packet("open_success", c.remote, c.id, cur[s], TRUE),
                             "queue")
              /\ UNCHANGED cur
           \/ /\ pc[s] = "refuse_open"
              /\ SendMessage(s, Packet("open_failure", c.remote, 0, cur[s], TRUE),
                             "idle")
              /\ cur' = [cur EXCEPT ![s] = 0]
        /\ UNCHANGED <<scenario, active, tables, channel_events, fired,
                       server_accepts, global, own, opens, history>>

\* Mutant: nobody in accept is notified.
QueueIncomingQuietly(s) ==
    /\ pc[s] = "queue"
    /\ server_accepts' = [server_accepts EXCEPT ![s] = Append(@, cur[s])]
    /\ Goto(s, "idle")
    /\ cur' = [cur EXCEPT ![s] = 0]
    /\ UNCHANGED <<scenario, wire, active, tables, waiting, global, own, opens,
                   history>>

\* _queue_incoming_channel
QueueIncoming(s) ==
    /\ pc[s] = "queue"
    /\ server_accepts' = [server_accepts EXCEPT ![s] = Append(@, cur[s])]
    /\ NotifyOne(s, "idle")
    /\ cur' = [cur EXCEPT ![s] = 0]
    /\ UNCHANGED <<scenario, wire, active, tables, waiting, global, own, opens,
                   history>>

\* The event of number i is set and forgotten.
Fire(s, i) ==
    /\ fired' = fired \cup ({channel_events[s][i]} \ {0})
    /\ channel_events' = [channel_events EXCEPT ![s][i] = 0]

\* _parse_channel_open_success; "Success for unrequested channel! [??]"
ReadOpenSuccess(s) ==
    LET m == Head(wire[s])
        r == channels[s][m.to]
    IN  /\ Reads(s, "open_success")
        /\ \/ /\ r # 0
              /\ chan' = [chan EXCEPT ![s][r].remote = m.from, ![s][r].st = "open"]
              /\ Fire(s, m.to)
           \/ /\ r = 0
              /\ UNCHANGED <<chan, fired, channel_events>>
        /\ UNCHANGED <<scenario, active, channels, channel_counter,
                       channels_seen, saved_exception, server_accepts, global,
                       local, opens, history>>

\* Mutant: the caller is woken but its channel stays in the map.
ReadOpenFailureKeeps(s) ==
    LET m == Head(wire[s])
    IN  /\ Reads(s, "open_failure")
        /\ saved_exception' = [saved_exception EXCEPT ![s] = m.num]
        /\ Fire(s, m.to)
        /\ UNCHANGED <<scenario, active, tables, server_accepts, global, local,
                       opens, history>>

\* _parse_channel_open_failure
ReadOpenFailure(s) ==
    LET m == Head(wire[s])
    IN  /\ Reads(s, "open_failure")
        /\ saved_exception' = [saved_exception EXCEPT ![s] = m.num]
        /\ channels' = [channels EXCEPT
                          ![s][m.to] = IF channel_events[s][m.to] # 0 THEN 0 ELSE @]
        /\ Fire(s, m.to)
        /\ UNCHANGED <<scenario, active, chan, channel_counter, channels_seen,
                       server_accepts, global, local, opens, history>>

\* What is answered to a global request or a request on a channel: the methods
\* of a ServerInterface deny it until an application overrides them; a client has
\* no server object, and denies it.
ServerAllows(s) == IF s = "server" THEN BOOLEAN ELSE {FALSE}

\* _parse_global_request.
ReadGlobal(s) ==
    /\ Reads(s, "global")
    /\ cur' = [cur EXCEPT ![s] = Head(wire[s]).num]
    /\ Goto(s, "answer_global")
    /\ UNCHANGED <<scenario, active, tables, waiting, server_accepts, global,
                   own, opens, history>>

AnswerGlobal(s) ==
    /\ pc[s] = "answer_global"
    /\ \E ok \in ServerAllows(s) :
          SendMessage(s, Packet("global_reply", 0, 0, cur[s], ok), "idle")
    /\ cur' = [cur EXCEPT ![s] = 0]
    /\ UNCHANGED <<scenario, active, tables, channel_events, fired,
                   server_accepts, global, own, opens, history>>

\* _parse_request_success, _parse_request_failure
ReadGlobalReply(s) ==
    LET m == Head(wire[s])
    IN  /\ Reads(s, "global_reply")
        /\ global_response' = [global_response EXCEPT
                                 ![s] = [num |-> m.num, ok |-> m.ok]]
        /\ completion' = [completion EXCEPT ![s] = TRUE]
        /\ UNCHANGED <<scenario, active, tables, waiting, server_accepts, asks,
                       local, opens, history>>

\* _parse_newkeys, at the end of a re-key: it sets the event that global_request
\* waits for, too.
ReadNewKeys(s) ==
    /\ pc[s] = "idle"
    /\ active[s]
    /\ scenario.rekeys
    /\ completion' = [completion EXCEPT ![s] = TRUE]
    /\ UNCHANGED <<scenario, wire, active, tables, waiting, server_accepts,
                   global_response, asks, local, opens, history>>

\* _handle_request: the server object is asked (a client has none, and denies
\* it), then the answer is sent.
ReadRequest(s) ==
    \E r \in Opens :
        /\ ReadsFor(s, "request", r)
        /\ cur' = [cur EXCEPT ![s] = r]
        /\ \E ok \in ServerAllows(s) : Goto(s, IF ok THEN "success" ELSE "failure")
        /\ UNCHANGED <<scenario, active, tables, waiting, server_accepts,
                       global, own, opens, history>>

AnswerRequest(s) ==
    /\ pc[s] \in {"success", "failure"}
    /\ SendUserMessage(s, ToPeer(s, cur[s], pc[s]))
    /\ cur' = [cur EXCEPT ![s] = 0]
    /\ Goto(s, "idle")
    /\ UNCHANGED <<scenario, active, tables, waiting, server_accepts, global,
                   own, opens, history>>

\* _handle_request for "exit-status"
ReadExitStatus(s) ==
    \E r \in Opens :
        /\ ReadsFor(s, "exit", r)
        /\ chan' = [chan EXCEPT ![s][r].exit_status = TRUE,
                                ![s][r].status_event = TRUE]
        /\ UNCHANGED <<scenario, active, channels, channel_counter,
                       channels_seen, waiting, server_accepts, global, local,
                       opens, history>>

\* Mutant: the thread that made the request is not woken.
ReadSuccessQuietly(s) ==
    \E r \in Opens :
        /\ ReadsFor(s, "success", r)
        /\ chan' = [chan EXCEPT ![s][r].event_ready = TRUE]
        /\ UNCHANGED <<scenario, active, channels, channel_counter,
                       channels_seen, waiting, server_accepts, global, local,
                       opens, history>>

\* _request_success
ReadSuccess(s) ==
    \E r \in Opens :
        /\ ReadsFor(s, "success", r)
        /\ chan' = [chan EXCEPT ![s][r].event_ready = TRUE, ![s][r].event = TRUE]
        /\ UNCHANGED <<scenario, active, channels, channel_counter,
                       channels_seen, waiting, server_accepts, global, local,
                       opens, history>>

\* _close_internal of object r in the transport thread.
CloseInternal(s, r) ==
    \/ /\ chan[s][r].st = "open"
       /\ chan' = [chan EXCEPT ![s][r] = Closed(@)]
       /\ cur' = [cur EXCEPT ![s] = r]
       /\ Goto(s, "send_close")
    \/ /\ chan[s][r].st # "open"
       /\ UNCHANGED <<chan, cur, pc>>

\* _request_failed: the channel is closed.
ReadFailure(s) ==
    \E r \in Opens :
        /\ ReadsFor(s, "failure", r)
        /\ CloseInternal(s, r)
        /\ UNCHANGED <<scenario, active, channels, channel_counter,
                       channels_seen, waiting, server_accepts, global, own,
                       opens, history>>

\* _handle_close: the answer to our CLOSE, or answered with our own.
ReadClose(s) ==
    \E r \in Opens :
        /\ ReadsFor(s, "close", r)
        /\ CloseInternal(s, r)
        /\ channels' = [channels EXCEPT ![s][chan[s][r].id] = 0]
        /\ UNCHANGED <<scenario, active, channel_counter, channels_seen,
                       waiting, server_accepts, global, own, opens, history>>
-----------------------------------------------------------------------------
(* The end of the session *)

\* Channel._unlink of every channel in the map of s: closed ones are left.
UnlinkAll(s) ==
    LET gone == {r \in Opens : chan[s][r].st \in {"opening", "open"}
                                /\ channels[s][chan[s][r].id] = r}
    IN  /\ chan' = [chan EXCEPT ![s] =
                      [r \in Opens |-> IF r \in gone THEN Closed(@[r]) ELSE @[r]]]
        /\ channels' = [channels EXCEPT ![s] =
                          [i \in Ids |-> IF @[i] \in gone THEN 0 ELSE @[i]]]

\* Transport.close: first stop_thread, then the channels are unlinked.
CloseTransport(t) ==
    /\ Calls(t, "close_transport")
    /\ active[Home[t]]
    /\ active' = [active EXCEPT ![Home[t]] = FALSE]
    /\ Goto(t, "unlink")
    /\ UNCHANGED <<scenario, wire, tables, waiting, server_accepts, global, cur,
                   own, opens, history>>

CloseUnlink(t) ==
    /\ pc[t] = "unlink"
    /\ UnlinkAll(Home[t])
    /\ Goto(t, "idle")
    /\ UNCHANGED <<scenario, wire, active, channel_counter, channels_seen,
                   waiting, server_accepts, global, cur, own, opens, history>>

\* The loop of run() ends: the socket is closed at our end or at the peer's.
EndLoop(s) ==
    /\ pc[s] = "idle"
    /\ \/ /\ ~active[s]
          /\ saved_exception' \in {saved_exception,
                                   [saved_exception EXCEPT ![s] = SessionEnd]}
       \/ /\ active[s] /\ ~active[Peer(s)]
          /\ saved_exception' = [saved_exception EXCEPT ![s] = SessionEnd]
    /\ Goto(s, "ending")
    /\ UNCHANGED <<scenario, wire, active, tables, channel_events, fired,
                   server_accepts, global, cur, own, opens, history>>

\* The peer is gone, so a write fails (Packetizer.write_all raises EOFError):
\* the call raises it, and the transport thread leaves its loop.
SendFails(p) ==
    LET s == At(p)
    IN  /\ active[s] /\ ~active[Peer(s)]
        /\ cur' = [cur EXCEPT ![p] = 0]
        /\ \/ /\ p \in Threads
              /\ pc[p] \in {"send_open", "send_global", "send_request", "send_close"}
              /\ Goto(p, "idle")
              /\ UNCHANGED saved_exception
           \/ /\ p \in Side
              /\ pc[p] \in {"accept_open", "refuse_open", "answer_global",
                            "success", "failure", "send_close"}
              /\ saved_exception' = [saved_exception EXCEPT ![s] = SessionEnd]
              /\ Goto(p, "ending")
        /\ UNCHANGED <<scenario, wire, active, tables, channel_events, fired,
                       server_accepts, global, own, opens, history>>

RunUnlink(s) ==
    /\ pc[s] = "ending"
    /\ UnlinkAll(s)
    /\ Goto(s, "unlinked")
    /\ UNCHANGED <<scenario, wire, active, channel_counter, channels_seen,
                   waiting, server_accepts, global, cur, own, opens, history>>

\* Mutant: active is left set.
EndRunStaysActive(s) ==
    /\ pc[s] = "unlinked"
    /\ Goto(s, "ended")
    /\ UNCHANGED <<scenario, wire, active, tables, waiting, server_accepts,
                   global, cur, own, opens, history>>

\* "if self.active": everybody who waits is woken, and one of those in accept.
\* After Transport.close nothing of this happens.
EndRun(s) ==
    /\ pc[s] = "unlinked"
    /\ \/ /\ active[s]
          /\ active' = [active EXCEPT ![s] = FALSE]
          /\ completion' = [completion EXCEPT ![s] = TRUE]
          /\ fired' = fired \cup ({channel_events[s][i] : i \in Ids} \ {0})
          /\ NotifyOne(s, "ended")
       \/ /\ ~active[s]
          /\ Goto(s, "ended")
          /\ UNCHANGED <<active, completion, fired>>
    /\ UNCHANGED <<scenario, wire, tables, channel_events, saved_exception,
                   server_accepts, global_response, asks, cur, own, opens,
                   history>>
-----------------------------------------------------------------------------
TransportThread(s) ==
    \/ IgnoreDead(s) \/ ReadOpen(s) \/ Decide(s) \/ AnswerOpen(s)
    \/ QueueIncoming(s) \/ ReadOpenSuccess(s) \/ ReadOpenFailure(s)
    \/ ReadGlobal(s) \/ AnswerGlobal(s) \/ ReadGlobalReply(s) \/ ReadNewKeys(s)
    \/ ReadRequest(s) \/ AnswerRequest(s) \/ ReadExitStatus(s)
    \/ ReadSuccess(s) \/ ReadFailure(s) \/ ReadClose(s)
    \/ EndLoop(s) \/ RunUnlink(s) \/ EndRun(s)

\* Steps of a call that the application has made.
CallInProgress(t) ==
    \/ Register(t) \/ SendOpen(t) \/ OpenWait(t) \/ OpenLookup(t) \/ OpenRaises(t)
    \/ AcceptReturns(t) \/ SendGlobal(t) \/ GlobalReturns(t)
    \/ EventPending(t) \/ SendRequest(t) \/ EventReturns(t)
    \/ StatusReturns(t) \/ CloseUnlink(t)

Next ==
    \/ \E s \in Side : TransportThread(s) \/ \E r \in Opens : Collect(s, r)
    \/ \E p \in Procs : SendClose(p) \/ SendFails(p)
    \/ \E t \in Threads :
          \/ CallInProgress(t)
          \/ OpenChannel(t) \/ OpenTimeout(t)
          \/ Accept(t) \/ AcceptTimeout(t)
          \/ GlobalRequest(t)
          \/ Share(t) \/ ExecCommand(t) \/ RecvExitStatus(t)
          \/ SendExitStatus(t) \/ Close(t) \/ CloseTransport(t)

Spec == Init /\ [][Next]_vars

(***************************************************************************)
(* Fairness: transport threads and begun calls go on; nobody has to call   *)
(* anything, and objects need not be collected.                            *)
(***************************************************************************)
Fairness ==
    /\ \A s \in Side : WF_vars(TransportThread(s))
    /\ \A p \in Procs : WF_vars(SendClose(p))
    /\ \A t \in Threads : WF_vars(CallInProgress(t))

FairSpec == Spec /\ Fairness
-----------------------------------------------------------------------------
OpenPc   == {"register", "send_open", "opening", "lookup", "raise"}
AcceptPc == {"accepting", "accept_woken"}
GlobalPc == {"send_global", "await"}
RequestPc == {"pend", "send_request", "event"}

\* A packet never reaches the wrong channel: the number it carries belongs to
\* the channel it was meant for or to none, however late it comes (after a
\* timeout of open_channel, after both ends closed), and never to a number
\* this end has not seen, which would end the session.
WellAddressed ==
    \A s \in Side : \A i \in DOMAIN wire[s] :
        LET m == wire[s][i]
        IN  /\ m.type \in ChannelType \cup {"open_success"} =>
                 channels[s][m.to] \in {0, m.num}
            /\ m.type \in {"open_success", "open_failure"} =>
                 channel_events[s][m.to] \in {0, m.num}
            /\ m.type \in ChannelType => m.to \in channels_seen[s]

Waiters(s, l) == {t \in Threads : Home[t] = s /\ pc[t] = l}

\* No channel lies in the accept queue while somebody waits for it in vain:
\* there are always enough threads on their way out of the wait, whatever
\* timeouts and threads that come later and take a channel first.
NoLostWakeup ==
    \A s \in Side :
        Waiters(s, "accepting") # {} =>
            Len(server_accepts[s]) <= Cardinality(Waiters(s, "accept_woken"))

\* "can't unlink from the Transport yet -- the remote side may still try to
\* send meta-data (exit-status, etc)": an exit status sent before the CLOSE is
\* kept by the other end once the channel is closed at both, even when that
\* end closed first.
ExitStatusKept ==
    \A s \in Side : \A r \in timely[s] :
        LET c == chan[Peer(s)][r]
        IN  /\ \A q \in Side : active[q] /\ pc[q] # "ending"
            /\ c.st = "closed"
            /\ channels[Peer(s)][c.id] # r
            /\ \E t \in Threads : Home[t] = Peer(s) /\ own[t] = r
            => c.exit_status

\* open_channel returns the channel it asked for, and only when the other end
\* accepted it.
OpenReturnsOwn ==
    [][\A t \in Threads :
          pc[t] = "lookup" /\ pc'[t] = "idle" =>
            own'[t] = cur[t] /\ chan[Peer(Home[t])][cur[t]].st # "none"]_vars

Callers(s, m) == {t \in Threads : Home[t] = s /\ m \in scenario.calls[t]}

\* Only one thread of s opens channels, waiting as long as it takes, and no
\* other thread makes requests, which may raise the saved exception as well.
OneOpener(s) ==
    /\ Cardinality(Callers(s, "open_channel")) <= 1
    /\ Callers(s, "exec_command") \subseteq Callers(s, "open_channel")
    /\ Callers(s, "open_channel") \cap scenario.timed = {}

\* With one opener, the exception that open_channel raises is about this call:
\* the refusal when it was refused, never one that an earlier call left.
RaisesOwn ==
    [][\A t \in Threads :
          LET s == Home[t]
          IN  OneOpener(s) /\ pc[t] = "raise" /\ pc'[t] = "idle" =>
                \/ saved_exception[s] \in {cur[t], SessionEnd}
                \/ /\ saved_exception[s] = 0
                   /\ ~active[s] \/ chan[s][cur[t]].st = "closed"]_vars

\* t returns from global_request while the session lasts, and what it returns
\* is the answer to its own request.
ReturnsAnswer(t) ==
    pc[t] = "await" /\ pc'[t] = "idle" /\ active[Home[t]] =>
        global_response[Home[t]].num = cur[t]

\* With one requester, in a session that ends before keys are exchanged again,
\* global_request returns the answer to its own request as long as the session
\* lasts.
GlobalAnswerOwn ==
    [][\A t \in Threads :
          ~scenario.rekeys /\ Cardinality(Callers(Home[t], "global_request")) <= 1
            => ReturnsAnswer(t)]_vars

\* global_request should "not return until a response is received", and returns
\* "None if the request was denied": with one requester, what it returns is the
\* answer to its request, also when a re-key ends while it waits.  (The code does
\* not keep this: ReadNewKeys releases the requester.)
AnswerReceived ==
    [][\A t \in Threads :
          Cardinality(Callers(Home[t], "global_request")) <= 1 => ReturnsAnswer(t)]_vars

\* open_channel and global_request return, whether the answer comes, the peer
\* goes away, or another thread closes the transport.
CallsReturn ==
    \A t \in Threads : pc[t] \in OpenPc \cup GlobalPc ~> pc[t] = "idle"

\* A request on a channel returns, or its channel is closed.
RequestEnds ==
    \A t \in Threads :
        pc[t] \in RequestPc ~>
            pc[t] = "idle" \/ (own[t] # 0 /\ chan[Home[t]][own[t]].st = "closed")

\* exec_command raises an exception "if the request was rejected or the channel
\* was closed": either way it returns.
RequestReturns == \A t \in Threads : pc[t] \in RequestPc ~> pc[t] = "idle"
=============================================================================
