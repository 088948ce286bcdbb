-------------------------- MODULE SessionInvariant --------------------------
(***************************************************************************)
(* The inductive invariants behind the properties of module Session.       *)
(* SessionInv: a channel number is given to one open call only, and what   *)
(* the tables, the packets and the calls of both ends say of an open call  *)
(* agrees with the numbers the two ends gave it. ExitInv: where the exit   *)
(* status of a channel is until it is kept. GlobalInv: where the one       *)
(* global request of an end, or the answer to it, is.                      *)
(***************************************************************************)
EXTENDS Session

ChannelState == {"none", "opening", "open", "closed"}
Object == [id : Ids, remote : Ids, st : ChannelState, event : BOOLEAN,
           event_ready : BOOLEAN, status_event : BOOLEAN, exit_status : BOOLEAN]
PacketType == ChannelType \cup
              {"open", "open_success", "open_failure", "global", "global_reply"}
Msg == [type : PacketType, to : Ids, from : Ids, num : Nat, ok : BOOLEAN]

Answering == {"decide", "accept_open", "refuse_open"}
Pc == OpenPc \cup AcceptPc \cup GlobalPc \cup RequestPc \cup Answering \cup
      {"idle", "status", "send_close", "unlink", "queue", "answer_global",
       "success", "failure", "ending", "unlinked", "ended"}

Types ==
    /\ scenario \in Scenarios
    /\ wire \in [Side -> Seq(Msg)]
    /\ active \in [Side -> BOOLEAN]
    /\ chan \in [Side -> [Opens -> Object]]
    /\ channels \in [Side -> [Ids -> Opens \cup {0}]]
    /\ channel_counter \in [Side -> Nat]
    /\ channels_seen \in [Side -> SUBSET Ids]
    /\ channel_events \in [Side -> [Ids -> Opens \cup {0}]]
    /\ fired \subseteq Opens
    /\ server_accepts \in [Side -> Seq(Opens)]
    /\ pc \in [Procs -> Pc]
    /\ cur \in [Procs -> Nat]
    /\ own \in [Threads -> Opens \cup {0}]
    /\ opens \in 0 .. MaxOpens
    /\ asks \in Nat

\* End s has an object for open call r.
Made(s, r) == chan[s][r].st # "none"

\* ... or has taken a number for it and is about to ask the server object.
Numbered(s, r) == Made(s, r) \/ (pc[s] = "decide" /\ cur[s] = r)

\* A table by number names the call that has the number.
Names(s, table) ==
    \A i \in Ids : table[i] # 0 => Made(s, table[i]) /\ chan[s][table[i]].id = i

\* The tables of end s: each number is given to one call, below the counter,
\* and the map and the events name the call that has the number.
TablesOK(s) ==
    /\ \A r \in Opens :
          Numbered(s, r) => r <= opens /\ chan[s][r].id < channel_counter[s]
    /\ \A q, r \in Opens :
          Numbered(s, q) /\ Numbered(s, r) /\ q # r => chan[s][q].id # chan[s][r].id
    /\ \A r \in Opens : Made(s, r) => chan[s][r].id \in channels_seen[s]
    /\ Names(s, channels[s])
    /\ Names(s, channel_events[s])

\* Open call r will still take a number of end s.
Coming(s, r) ==
    \/ \E t \in Threads : /\ cur[t] = r
                          /\ \/ pc[t] = "register"
                             \/ pc[t] = "send_open" /\ Home[t] = Peer(s)
    \/ \E i \in 1 .. Len(wire[s]) : wire[s][i].type = "open" /\ wire[s][i].num = r

\* Each call takes one number at each end at most, so the counter does not
\* come round.
CountOK(s) ==
    /\ \A r \in Opens :
          Coming(s, r) => r <= opens /\ ~Made(s, r) /\ ~(pc[s] \in Answering /\ cur[s] = r)
    /\ channel_counter[s] + Cardinality({r \in Opens : Coming(s, r)}) <= opens

\* End s knows the number its peer gave to open call r.
Knows(s, r) == Made(Peer(s), r) /\ chan[s][r].remote = chan[Peer(s)][r].id

\* Open call r is not in the map of end s (any more).
Unmapped(s, r) == channels[s][chan[s][r].id] # r

Resolved(s, r) == Unmapped(s, r) \/ Knows(s, r)

\* Open calls in progress are all different.
CallsDistinct ==
    \A t, u \in Threads :
        t # u /\ pc[t] \in OpenPc /\ pc[u] \in OpenPc => cur[t] # cur[u]

\* An open call of thread t: the peer has no event for it and this end does
\* not answer it; once it is registered this end has the object, and once its
\* event is set the answer has been handled, unless the session has ended.
CallOK(t) ==
    pc[t] \in OpenPc =>
        /\ cur[t] \in 1 .. opens
        /\ \A i \in Ids : channel_events[Peer(Home[t])][i] # cur[t]
        /\ ~(pc[Home[t]] \in Answering /\ cur[Home[t]] = cur[t])
        /\ pc[t] # "register" => Made(Home[t], cur[t])
        /\ pc[t] = "lookup" => Resolved(Home[t], cur[t])
        /\ pc[t] \in {"send_open", "opening"} /\ cur[t] \in fired /\ active[Home[t]] =>
             Resolved(Home[t], cur[t])

FiredOK == \A r \in fired : \E s \in Side : Made(s, r)

\* End s may address its peer about open call r: both have an object, s knows
\* the number, and has answered the peer if it had to.
Addressable(s, r) ==
    /\ r \in Opens
    /\ Made(s, r)
    /\ Knows(s, r)
    /\ ~(pc[s] \in Answering /\ cur[s] = r)

\* Who holds an object may address the peer with it.
ThreadHolds(t) ==
    /\ own[t] # 0 => Addressable(Home[t], own[t])
    /\ pc[t] = "send_close" => Addressable(Home[t], cur[t])
    /\ pc[t] \in RequestPc => own[t] # 0

EndHolds(s) ==
    /\ \A i \in 1 .. Len(server_accepts[s]) : Addressable(s, server_accepts[s][i])
    /\ pc[s] \in {"send_close", "success", "failure"} => Addressable(s, cur[s])
    /\ pc[s] \in Answering \cup {"queue"} => cur[s] \in Opens /\ Knows(s, cur[s])
    /\ pc[s] \in {"accept_open", "queue"} => Made(s, cur[s])
    /\ pc[s] = "decide" => ~Made(s, cur[s])
    /\ \A r \in Opens : chan[s][r].st = "open" => Knows(s, r)

\* A packet is about an open call that both ends have numbered as it says; an
\* OPEN about one that its sender has.
PacketOK(s, m) ==
    /\ m.type = "open" =>
         /\ m.num \in Opens
         /\ Made(Peer(s), m.num) /\ chan[Peer(s)][m.num].id = m.from
         /\ \A t \in Threads :
               pc[t] \in OpenPc /\ cur[t] = m.num =>
                 Home[t] = Peer(s) /\ pc[t] \notin {"register", "send_open"}
    /\ m.type \in ChannelType \cup {"open_success", "open_failure"} =>
         m.num \in Opens /\ Made(s, m.num) /\ chan[s][m.num].id = m.to
    /\ m.type = "open_success" =>
         Made(Peer(s), m.num) /\ chan[Peer(s)][m.num].id = m.from

\* An OPEN_SUCCESS about r is among the packets before i on the way to s.
Announced(s, r, i) ==
    \E j \in 1 .. Len(wire[s]) :
        j < i /\ wire[s][j].type = "open_success" /\ wire[s][j].num = r

Promised(s, r) ==
    \E j \in 1 .. Len(wire[s]) : wire[s][j].type = "open_success" /\ wire[s][j].num = r

\* End s knows the peer's number for r, or has given r up.
Settled(s, r) == Knows(s, r) \/ Unmapped(s, r) \/ ~active[s]

WireOK(s) ==
    /\ \A i \in 1 .. Len(wire[s]) : PacketOK(s, wire[s][i])
    /\ \A i, j \in 1 .. Len(wire[s]) :
          /\ i # j /\ wire[s][i].type = "open" /\ wire[s][j].type = "open"
          => wire[s][i].num # wire[s][j].num
    /\ \A i \in 1 .. Len(wire[s]) :
          wire[s][i].type \in ChannelType =>
            Settled(s, wire[s][i].num) \/ Announced(s, wire[s][i].num, i)

\* When both ends have an object for r, each has settled it, or will when it
\* reads the answer.
AnswerOK(s) ==
    \A r \in Opens :
        Made(s, r) /\ Made(Peer(s), r) =>
            \/ Settled(s, r)
            \/ ~active[Peer(s)]
            \/ Promised(s, r)
            \/ pc[Peer(s)] = "accept_open" /\ cur[Peer(s)] = r

\* The tables, the calls and the packets of both ends agree.
SessionInv ==
    /\ Types /\ CallsDistinct /\ FiredOK
    /\ \A t \in Threads : CallOK(t) /\ ThreadHolds(t)
    /\ \A s \in Side :
          TablesOK(s) /\ CountOK(s) /\ EndHolds(s) /\ WireOK(s) /\ AnswerOK(s)
-----------------------------------------------------------------------------
(* The exit status: the invariant behind ExitStatusKept.  All of it is     *)
(* about sessions of which neither end has ended.                          *)

Lasting == \A s \in Side : active[s]

\* Whoever unlinks the channels belongs to an end that is over, or whose peer
\* is.
EndsOver ==
    /\ \A s \in Side :
          pc[s] \in {"ending", "unlinked", "ended"} => ~active[s] \/ ~active[Peer(s)]
    /\ \A t \in Threads : pc[t] = "unlink" => ~active[Home[t]]

\* A packet of type ty about r is on the way to s.
OnWay(s, ty, r) ==
    \E i \in 1 .. Len(wire[s]) : wire[s][i].type = ty /\ wire[s][i].num = r

\* Until s has read the answer to its OPEN its object stays as it is, and it
\* gets one OPEN_SUCCESS only.
OpenersWait(s) ==
    /\ \A t \in Threads :
          Home[t] = s /\ pc[t] = "send_open" => chan[s][cur[t]].st = "opening"
    /\ \A r \in Opens :
          \/ OnWay(Peer(s), "open", r)
          \/ pc[Peer(s)] \in {"decide", "accept_open"} /\ cur[Peer(s)] = r
          \/ OnWay(s, "open_success", r)
          => chan[s][r].st = "opening"
    /\ \A i, j \in 1 .. Len(wire[s]) :
          /\ wire[s][i].type = "open_success" /\ wire[s][j].type = "open_success"
          /\ wire[s][i].num = wire[s][j].num
          => i = j
    /\ pc[Peer(s)] = "accept_open" => ~OnWay(s, "open_success", cur[Peer(s)])
    /\ \A i \in Ids :
          channel_events[s][i] # 0 => chan[s][channel_events[s][i]].st = "opening"

\* A CLOSE that s has sent or is about to send: its object is closed.
CloseSaid(s) ==
    /\ \A r \in Opens : OnWay(Peer(s), "close", r) => chan[s][r].st = "closed"
    /\ \A p \in Procs : At(p) = s /\ pc[p] = "send_close" => chan[s][cur[p]].st = "closed"

\* Nobody at s holds the object r, or ever will.
Gone(s, r) ==
    /\ Unmapped(s, r)
    /\ \A t \in Threads : Home[t] = s => own[t] # r
    /\ \A i \in 1 .. Len(server_accepts[s]) : server_accepts[s][i] # r
    /\ ~(pc[s] \in {"accept_open", "queue"} /\ cur[s] = r)

\* Why the object r of s is not in the map.
Dropped(s, r) == Gone(s, r) \/ (Unmapped(s, r) /\ chan[s][r].st = "opening")

DroppedOK(s) ==
    \A r \in Opens :
        Made(s, r) /\ Unmapped(s, r) => chan[Peer(s)][r].st = "closed" \/ Dropped(s, r)

\* The exit status of r is on its way to s, before any CLOSE.
ExitFirst(s, r) ==
    \E i \in 1 .. Len(wire[s]) :
        /\ wire[s][i].type = "exit" /\ wire[s][i].num = r
        /\ \A j \in 1 .. Len(wire[s]) :
              wire[s][j].type = "close" /\ wire[s][j].num = r => i < j

ExitOK(s) ==
    \A r \in timely[Peer(s)] :
        /\ Made(s, r) /\ Made(Peer(s), r)
        /\ \/ chan[s][r].exit_status
           \/ Dropped(s, r)
           \/ ~Unmapped(s, r) /\ ExitFirst(s, r)

ExitInv ==
    /\ timely \in [Side -> SUBSET Opens]
    /\ EndsOver
    /\ Lasting => \A s \in Side : OpenersWait(s) /\ CloseSaid(s) /\ DroppedOK(s) /\ ExitOK(s)
-----------------------------------------------------------------------------
(* Global requests: the invariant behind GlobalAnswerOwn.                  *)

\* One thread of s asks, and no re-key sets the event it waits for.
OneAsker(s) == ~scenario.rekeys /\ Cardinality(Callers(s, "global_request")) <= 1

\* The numbers that packets of the types T in w are about; at most one packet
\* has such a type.
NumbersOf(w, T) == {w[i].num : i \in {j \in 1 .. Len(w) : w[j].type \in T}}
AtMostOne(w, T) ==
    \A i, j \in 1 .. Len(w) : w[i].type \in T /\ w[j].type \in T => i = j

\* The numbers of the calls that s has made with packets of req and that have
\* not come back with a packet of ans; its peer deals with them at doing.
UnderWay(s, req, doing, ans) ==
    NumbersOf(wire[Peer(s)], req) \cup NumbersOf(wire[s], ans)
      \cup (IF pc[Peer(s)] \in doing THEN {cur[Peer(s)]} ELSE {})

\* There is one of them at a time, at one place.
InTurn(s, req, doing, ans) ==
    /\ AtMostOne(wire[Peer(s)], req)
    /\ AtMostOne(wire[s], ans)
    /\ \/ NumbersOf(wire[Peer(s)], req) = {}
       \/ pc[Peer(s)] \notin doing /\ NumbersOf(wire[s], ans) = {}
    /\ pc[Peer(s)] \notin doing \/ NumbersOf(wire[s], ans) = {}

Awaited(s) == IF completion[s] THEN {}
              ELSE {cur[t] : t \in Waiters(s, "await")}

AskedOK(s) ==
    /\ InTurn(s, {"global"}, {"answer_global"}, {"global_reply"})
    /\ UnderWay(s, {"global"}, {"answer_global"}, {"global_reply"}) \subseteq Awaited(s)
    /\ \A t \in Waiters(s, "send_global") : ~completion[s]
    /\ \A t \in Waiters(s, "await") : completion[s] => global_response[s].num = cur[t]

\* Only callers of global_request are in it.
Askers == \A t \in Threads : pc[t] \in GlobalPc => t \in Callers(Home[t], "global_request")

GlobalTypes ==
    /\ completion \in [Side -> BOOLEAN]
    /\ global_response \in [Side -> [num : Nat, ok : BOOLEAN]]

GlobalInv ==
    /\ GlobalTypes /\ Askers
    /\ \A s \in Side : OneAsker(s) /\ active[s] => AskedOK(s)
=============================================================================
