-------------------------- MODULE SessionTheorems --------------------------
(***************************************************************************)
(* What the invariants of module SessionInvariant give: no packet reaches  *)
(* a wrong channel, open_channel returns its own channel, no thread in     *)
(* accept waits in vain, global_request returns the answer to its own      *)
(* request, and an exit status sent before CLOSE is kept.                  *)
(***************************************************************************)
EXTENDS SessionProofs

\* A packet never reaches the wrong channel, nor a number this end has not
\* seen (Transport.run, the lookup in _channels and channels_seen).
THEOREM Addressed == Spec => []WellAddressed
  <1>1. SessionInv => WellAddressed
    <2> SUFFICES ASSUME SessionInv, NEW s \in Side, NEW i \in DOMAIN wire[s]
                 PROVE  LET m == wire[s][i]
                        IN  /\ m.type \in ChannelType \cup {"open_success"} =>
                                 channels[s][m.to] \in {0, m.num}
                            /\ m.type \in {"open_success", "open_failure"} =>
                                 channel_events[s][m.to] \in {0, m.num}
                            /\ m.type \in ChannelType => m.to \in channels_seen[s]
      BY DEF WellAddressed
    <2>1. PICK m : m = wire[s][i]
      OBVIOUS
    <2>2. i \in 1 .. Len(wire[s]) /\ wire[s] \in Seq(Msg)
      BY DEF SessionInv, Types
    <2>3. m \in Msg
      BY <2>1, <2>2
    <2>4. m.to \in Ids
      BY <2>3 DEF Msg
    <2>5. PacketOK(s, m)
      BY <2>1, <2>2 DEF SessionInv, WireOK
    <2>6. TablesOK(s)
      BY DEF SessionInv
    <2>7. SUFFICES ASSUME m.type \in ChannelType \cup {"open_success", "open_failure"}
                   PROVE  /\ channels[s][m.to] \in {0, m.num}
                          /\ channel_events[s][m.to] \in {0, m.num}
                          /\ m.to \in channels_seen[s]
      BY <2>1
    <2>8. m.num \in Opens /\ Made(s, m.num) /\ chan[s][m.num].id = m.to
      BY <2>5, <2>7 DEF PacketOK
    <2>9. \A r \in Opens : Made(s, r) /\ chan[s][r].id = m.to => r = m.num
      BY <2>6, <2>8 DEF TablesOK, Numbered
    <2>10. channels[s][m.to] \in Opens \cup {0} /\ channel_events[s][m.to] \in Opens \cup {0}
      BY <2>4 DEF SessionInv, Types
    <2> QED BY <2>4, <2>6, <2>8, <2>9, <2>10 DEF TablesOK, Names
  <1> QED BY <1>1, NumbersAgree, PTL

-----------------------------------------------------------------------------
(* Who moves a thread *)

OwnStep(t) ==
    \/ CallInProgress(t)
    \/ OpenChannel(t) \/ OpenTimeout(t)
    \/ Accept(t) \/ AcceptTimeout(t)
    \/ GlobalRequest(t)
    \/ Share(t) \/ ExecCommand(t) \/ RecvExitStatus(t)
    \/ SendExitStatus(t) \/ Close(t) \/ CloseTransport(t)
    \/ SendClose(t) \/ SendFails(t)

\* A step of another process.
Passive(t) ==
    \/ \E s \in Side : TransportThread(s) \/ \E r \in Opens : Collect(s, r)
    \/ \E p \in Procs \ {t} : SendClose(p) \/ SendFails(p)
    \/ \E u \in Threads \ {t} : OwnStep(u)
    \/ UNCHANGED vars

\* A step is one of thread t or of another process.
LEMMA Whose ==
    ASSUME NEW t \in Threads, [Next]_vars
    PROVE  OwnStep(t) \/ Passive(t)
  BY DEF Next, OwnStep, Passive

\* What a process does that goes somewhere leaves thread t where it is.
LEMMA GotoOther ==
    ASSUME Types, NEW t \in Threads, NEW p \in Procs \ {t}, NEW l, Goto(p, l)
    PROVE  pc'[t] = pc[t]
  BY ProcFacts DEF Types, Goto

\* server_accept_cv.notify() moves a thread out of accept at most.
LEMMA NotifyOther ==
    ASSUME Types, NEW t \in Threads, NEW p \in Procs \ {t}, NEW l, NotifyOne(p, l)
    PROVE  pc'[t] = pc[t] \/ (pc[t] = "accepting" /\ pc'[t] = "accept_woken")
  BY ProcFacts, Zenon DEF Types, NotifyOne, Goto

\* Steps of the transport thread of s, and of the collector.
SideStep(s) ==
    TransportThread(s) \/ (\E r \in Opens : Collect(s, r)) \/ SendClose(s) \/ SendFails(s)

LEMMA Steps ==
    ASSUME [Next]_vars
    PROVE  (\E t \in Threads : OwnStep(t)) \/ (\E s \in Side : SideStep(s)) \/ UNCHANGED vars
  BY ProcFacts DEF Next, OwnStep, SideStep

\* An application thread moves itself only.
LEMMA ThreadMoves ==
    ASSUME NEW u \in Threads, OwnStep(u)
    PROVE  /\ UNCHANGED pc \/ \E l : Goto(u, l)
           /\ UNCHANGED cur \/ \E n : cur' = [cur EXCEPT ![u] = n]
           /\ UNCHANGED own \/ \E n : own' = [own EXCEPT ![u] = n]
  <1>1. UNCHANGED pc \/ \E l : Goto(u, l)
    BY Zenon DEF OwnStep, CallInProgress, Register, SendOpen, OpenWait, OpenLookup, OpenRaises,
           AcceptReturns, SendGlobal, GlobalReturns, EventPending, SendRequest, EventReturns,
           StatusReturns, CloseUnlink, OpenChannel, OpenTimeout, Accept, AcceptTimeout,
           GlobalRequest, Share, ExecCommand, RecvExitStatus, SendExitStatus, Close,
           CloseTransport, SendClose, SendFails, PopAccepted, local
  <1>2. UNCHANGED cur \/ \E n : cur' = [cur EXCEPT ![u] = n]
    BY Zenon DEF OwnStep, CallInProgress, Register, SendOpen, OpenWait, OpenLookup, OpenRaises,
           AcceptReturns, SendGlobal, GlobalReturns, EventPending, SendRequest, EventReturns,
           StatusReturns, CloseUnlink, OpenChannel, OpenTimeout, Accept, AcceptTimeout,
           GlobalRequest, Share, ExecCommand, RecvExitStatus, SendExitStatus, Close,
           CloseTransport, SendClose, SendFails, local
  <1>3. UNCHANGED own \/ \E n : own' = [own EXCEPT ![u] = n]
    BY Zenon DEF OwnStep, CallInProgress, Register, SendOpen, OpenWait, OpenLookup, OpenRaises,
           AcceptReturns, SendGlobal, GlobalReturns, EventPending, SendRequest, EventReturns,
           StatusReturns, CloseUnlink, OpenChannel, OpenTimeout, Accept, AcceptTimeout,
           GlobalRequest, Share, ExecCommand, RecvExitStatus, SendExitStatus, Close,
           CloseTransport, SendClose, SendFails, PopAccepted, local
  <1> QED BY <1>1, <1>2, <1>3

LEMMA ThreadMovesItself ==
    ASSUME Types, NEW p \in Procs, NEW u \in Threads \ {p}, OwnStep(u)
    PROVE  pc'[p] = pc[p] /\ cur'[p] = cur[p] /\ (p \in Threads => own'[p] = own[p])
  <1>1. u \in Procs
    BY ProcFacts
  <1> QED BY <1>1, ThreadMoves, Zenon DEF Types, Goto

\* The transport thread of s moves itself, and threads out of accept.
LEMMA SideMoves ==
    ASSUME NEW s \in Side, SideStep(s)
    PROVE  /\ UNCHANGED pc \/ (\E l : Goto(s, l)) \/ \E l : NotifyOne(s, l)
           /\ UNCHANGED cur \/ \E n : cur' = [cur EXCEPT ![s] = n]
           /\ UNCHANGED own
  <1>1. UNCHANGED pc \/ (\E l : Goto(s, l)) \/ \E l : NotifyOne(s, l)
    BY Zenon DEF SideStep, TransportThread, IgnoreDead, ReadOpen, Decide, AnswerOpen, QueueIncoming,
           ReadOpenSuccess, ReadOpenFailure, ReadGlobal, AnswerGlobal, ReadGlobalReply, ReadNewKeys,
           ReadRequest, AnswerRequest, ReadExitStatus, ReadSuccess, ReadFailure, ReadClose,
           EndLoop, RunUnlink, EndRun, CloseInternal, SendMessage, local, Collect, SendClose,
           SendFails
  <1>2. UNCHANGED cur \/ \E n : cur' = [cur EXCEPT ![s] = n]
    BY Zenon DEF SideStep, TransportThread, IgnoreDead, ReadOpen, Decide, AnswerOpen, QueueIncoming,
           ReadOpenSuccess, ReadOpenFailure, ReadGlobal, AnswerGlobal, ReadGlobalReply, ReadNewKeys,
           ReadRequest, AnswerRequest, ReadExitStatus, ReadSuccess, ReadFailure, ReadClose,
           EndLoop, RunUnlink, EndRun, CloseInternal, local, Collect, SendClose,
           SendFails
  <1>3. UNCHANGED own
    BY Zenon DEF SideStep, TransportThread, IgnoreDead, ReadOpen, Decide, AnswerOpen, QueueIncoming,
           ReadOpenSuccess, ReadOpenFailure, ReadGlobal, AnswerGlobal, ReadGlobalReply, ReadNewKeys,
           ReadRequest, AnswerRequest, ReadExitStatus, ReadSuccess, ReadFailure, ReadClose,
           EndLoop, RunUnlink, EndRun, local, Collect, SendClose, SendFails
  <1> QED BY <1>1, <1>2, <1>3

LEMMA EndMoves ==
    ASSUME Types, NEW s \in Side, NEW t \in Threads, SideStep(s)
    PROVE  /\ pc'[t] = pc[t] \/ (pc[t] = "accepting" /\ pc'[t] = "accept_woken")
           /\ cur'[t] = cur[t] /\ own' = own
  <1>1. s \in Procs \ {t} /\ t \in Procs
    BY ProcFacts
  <1> QED BY <1>1, SideMoves, GotoOther, NotifyOther DEF Types

\* The transport thread of s stays where it is when another process takes a step.
LEMMA SideStill ==
    ASSUME Types, NEW s \in Side,
           (\E t \in Threads : OwnStep(t)) \/ SideStep(Peer(s)) \/ UNCHANGED vars
    PROVE  pc'[s] = pc[s] /\ cur'[s] = cur[s]
  <1>1. s \in Procs /\ s \notin Threads /\ Peer(s) \in Side /\ Peer(s) # s /\ Peer(s) \in Procs
    BY ProcFacts, SideFacts
  <1>2. CASE \E t \in Threads : OwnStep(t)
    BY <1>1, <1>2, ThreadMovesItself
  <1>3. CASE SideStep(Peer(s))
    <2>1. pc'[s] = pc[s]
      BY <1>1, <1>3, SideMoves, Zenon DEF Types, Goto, NotifyOne
    <2>2. cur'[s] = cur[s]
      BY <1>1, <1>3, SideMoves DEF Types
    <2> QED BY <2>1, <2>2
  <1>4. CASE UNCHANGED vars
    BY <1>4 DEF vars, local
  <1> QED BY <1>2, <1>3, <1>4

\* So thread t stays where it is when another process takes a step, unless it
\* is woken in accept.
LEMMA MovesItself ==
    ASSUME Types, NEW t \in Threads, Passive(t)
    PROVE  /\ pc'[t] = pc[t] \/ (pc[t] = "accepting" /\ pc'[t] = "accept_woken")
           /\ cur'[t] = cur[t] /\ own'[t] = own[t]
  <1>1. CASE \E s \in Side : TransportThread(s) \/ \E r \in Opens : Collect(s, r)
    BY <1>1, EndMoves DEF SideStep
  <1>2. CASE \E p \in Procs \ {t} : SendClose(p) \/ SendFails(p)
    <2>1. PICK p \in Procs \ {t} : SendClose(p) \/ SendFails(p)
      BY <1>2
    <2>2. CASE p \in Side
      BY <2>1, <2>2, EndMoves DEF SideStep
    <2>3. CASE p \in Threads
      BY <2>1, <2>3, ProcFacts, ThreadMovesItself DEF OwnStep
    <2> QED BY <2>2, <2>3, ProcFacts
  <1>3. CASE \E u \in Threads \ {t} : OwnStep(u)
    BY <1>3, ProcFacts, ThreadMovesItself
  <1>4. CASE UNCHANGED vars
    BY <1>4 DEF vars, local
  <1> QED BY <1>1, <1>2, <1>3, <1>4 DEF Passive

-----------------------------------------------------------------------------
(* open_channel *)

\* open_channel returns the channel it asked for, and only when the other end
\* accepted it (open_channel, the lookup after the event).
THEOREM OpensOwn == Spec => OpenReturnsOwn
  <1>1. ASSUME SessionInv, [Next]_vars, NEW t \in Threads, pc[t] = "lookup", pc'[t] = "idle"
        PROVE  own'[t] = cur[t] /\ chan[Peer(Home[t])][cur[t]].st # "none"
    <2>1. PICK s : s = Home[t]
      OBVIOUS
    <2>2. PICK q : q = cur[t]
      OBVIOUS
    <2>3. PICK r : r = channels[s][chan[s][q].id]
      OBVIOUS
    <2>4. Types /\ s \in Side
      BY <1>1, <2>1, ProcFacts DEF SessionInv
    <2>5. OwnStep(t)
      BY <1>1, <2>4, Whose, MovesItself
    <2>6. OpenLookup(t)
      BY <1>1, <2>5, ProcFacts DEF OwnStep, CallInProgress, Register, SendOpen, OpenWait, OpenRaises,
           AcceptReturns, SendGlobal, GlobalReturns, EventPending, SendRequest, EventReturns,
           StatusReturns, CloseUnlink, OpenChannel, OpenTimeout, Accept, AcceptTimeout,
           GlobalRequest, Share, ExecCommand, RecvExitStatus, SendExitStatus, Close,
           CloseTransport, SendClose, SendFails, Calls
    <2>7. /\ r # 0 /\ own' = [own EXCEPT ![t] = r]
      BY <1>1, <2>1, <2>2, <2>3, <2>4, <2>6, ProcFacts DEF OpenLookup, Goto, Types
    <2>8. q \in 1 .. opens /\ Made(s, q) /\ Resolved(s, q)
      BY <1>1, <2>1, <2>2, HeldNow DEF CallOK, OpenPc
    <2>9. q \in Opens /\ chan[s][q].id \in Ids
      BY <2>4, <2>8, NumberFacts DEF Types, Object
    <2>10. r \in Opens /\ Made(s, r) /\ chan[s][r].id = chan[s][q].id
      BY <1>1, <2>3, <2>4, <2>7, <2>9 DEF SessionInv, TablesOK, Names, Types
    <2>11. r = q
      BY <1>1, <2>4, <2>8, <2>9, <2>10 DEF SessionInv, TablesOK, Numbered
    <2>12. Made(Peer(s), q)
      BY <2>3, <2>8, <2>11 DEF Resolved, Unmapped, Knows
    <2>13. own'[t] = q
      BY <2>4, <2>7, <2>11 DEF Types
    <2> QED BY <2>1, <2>2, <2>12, <2>13 DEF Made
  <1>2. SessionInv /\ [Next]_vars =>
          [\A t \in Threads :
             pc[t] = "lookup" /\ pc'[t] = "idle" =>
               own'[t] = cur[t] /\ chan[Peer(Home[t])][cur[t]].st # "none"]_vars
    BY <1>1
  <1> QED BY <1>2, NumbersAgree, PTL DEF Spec, OpenReturnsOwn

-----------------------------------------------------------------------------
(* accept *)

\* Steps that leave the queues alone and keep those on their way out of accept.
Undisturbed ==
    /\ server_accepts' = server_accepts
    /\ \A t \in Threads :
          /\ pc'[t] = "accepting" => pc[t] = "accepting"
          /\ pc[t] = "accept_woken" => pc'[t] = "accept_woken"

\* The threads are finitely many, and so are those in accept.
LEMMA WaitersFinite ==
    ASSUME NEW s, NEW l
    PROVE  /\ IsFiniteSet(Waiters(s, l)) /\ IsFiniteSet(Waiters(s, l)')
           /\ Cardinality(Waiters(s, l)) \in Nat /\ Cardinality(Waiters(s, l)') \in Nat
  <1>1. IsFiniteSet(Threads)
    BY SessionAssumption
  <1>2. Waiters(s, l) \subseteq Threads /\ Waiters(s, l)' \subseteq Threads
    BY DEF Waiters
  <1>3. IsFiniteSet(Waiters(s, l)) /\ IsFiniteSet(Waiters(s, l)')
    BY <1>1, <1>2, FS_Subset
  <1> QED BY <1>3, FS_CardinalityType

\* Nobody is lost when nothing happens in accept.
LEMMA UndisturbedKeeps ==
    ASSUME Types, NoLostWakeup, Undisturbed
    PROVE  NoLostWakeup'
  <1> SUFFICES ASSUME NEW s \in Side, Waiters(s, "accepting")' # {}
               PROVE  Len(server_accepts'[s]) <= Cardinality(Waiters(s, "accept_woken")')
    BY DEF NoLostWakeup
  <1>1. Waiters(s, "accepting") # {} /\ Waiters(s, "accept_woken") \subseteq Waiters(s, "accept_woken")'
    BY DEF Undisturbed, Waiters
  <1>2. Cardinality(Waiters(s, "accept_woken")) <= Cardinality(Waiters(s, "accept_woken")')
    BY <1>1, WaitersFinite, FS_Subset
  <1>3. Len(server_accepts[s]) <= Cardinality(Waiters(s, "accept_woken"))
    BY <1>1 DEF NoLostWakeup
  <1>4. Len(server_accepts[s]) \in Nat /\ server_accepts' = server_accepts
    BY DEF Types, Undisturbed
  <1> QED BY <1>2, <1>3, <1>4, WaitersFinite

\* One more thread is on its way out of accept.
LEMMA OneWoken ==
    ASSUME NEW s \in Side, NEW t \in Threads, Home[t] = s, pc[t] # "accept_woken",
           pc'[t] = "accept_woken",
           \A u \in Threads \ {t} : pc[u] = "accept_woken" <=> pc'[u] = "accept_woken"
    PROVE  Cardinality(Waiters(s, "accept_woken")')
             = Cardinality(Waiters(s, "accept_woken")) + 1
  <1>1. /\ Waiters(s, "accept_woken")' = Waiters(s, "accept_woken") \cup {t}
        /\ t \notin Waiters(s, "accept_woken")
    BY DEF Waiters
  <1> QED BY <1>1, WaitersFinite, FS_AddElement

\* One thread leaves accept.
LEMMA OneLeaves ==
    ASSUME NEW s \in Side, NEW t \in Threads, Home[t] = s, pc[t] = "accept_woken",
           pc'[t] # "accept_woken",
           \A u \in Threads \ {t} : pc[u] = "accept_woken" <=> pc'[u] = "accept_woken"
    PROVE  Cardinality(Waiters(s, "accept_woken")')
             = Cardinality(Waiters(s, "accept_woken")) - 1
  <1>1. /\ Waiters(s, "accept_woken")' = Waiters(s, "accept_woken") \ {t}
        /\ t \in Waiters(s, "accept_woken")
    BY DEF Waiters
  <1> QED BY <1>1, WaitersFinite, FS_RemoveElement

\* A thread calls accept, and waits only when the queue is empty.
LEMMA AcceptKeeps ==
    ASSUME Types, NoLostWakeup, NEW t \in Threads, Accept(t) \/ AcceptReturns(t)
    PROVE  NoLostWakeup'
  <1> SUFFICES ASSUME NEW s \in Side, Waiters(s, "accepting")' # {}
               PROVE  Len(server_accepts'[s]) <= Cardinality(Waiters(s, "accept_woken")')
    BY DEF NoLostWakeup
  <1>1. PICK l \in {"idle", "accepting"} : pc' = [pc EXCEPT ![t] = l]
    BY DEF Accept, AcceptReturns, PopAccepted, Goto
  <1>2. /\ pc'[t] = l /\ \A u \in Threads \ {t} : pc'[u] = pc[u]
        /\ Home[t] \in Side
    BY <1>1, ProcFacts DEF Types
  <1>3. server_accepts[s] \in Seq(Opens) /\ Len(server_accepts[s]) \in Nat
    BY DEF Types
  <1>4. CASE Home[t] # s
    <2>1. server_accepts'[s] = server_accepts[s]
      BY <1>4 DEF Accept, AcceptReturns, PopAccepted, Types
    <2>2. /\ Waiters(s, "accepting")' = Waiters(s, "accepting")
          /\ Waiters(s, "accept_woken")' = Waiters(s, "accept_woken")
      BY <1>2, <1>4 DEF Waiters
    <2> QED BY <2>1, <2>2 DEF NoLostWakeup
  <1>5. CASE Home[t] = s /\ server_accepts[s] = <<>>
    <2>1. server_accepts'[s] = <<>>
      BY <1>5 DEF Accept, AcceptReturns
    <2> QED BY <2>1, WaitersFinite
  <1>6. CASE Home[t] = s /\ server_accepts[s] # <<>>
    <2> PopAccepted(t)
      BY <1>6 DEF Accept, AcceptReturns
    <2>1. /\ server_accepts'[s] = Tail(server_accepts[s]) /\ l = "idle"
      <3>1. server_accepts' = [server_accepts EXCEPT ![s] = Tail(@)]
        BY <1>6 DEF PopAccepted
      <3>2. pc' = [pc EXCEPT ![t] = "idle"]
        BY DEF PopAccepted, Goto
      <3> QED BY <1>2, <3>1, <3>2, ProcFacts DEF Types
    <2>2. Len(server_accepts'[s]) = Len(server_accepts[s]) - 1
      BY <1>3, <1>6, <2>1
    <2>3. Waiters(s, "accepting") # {}
      BY <1>2, <2>1 DEF Waiters
    <2>4. Len(server_accepts[s]) <= Cardinality(Waiters(s, "accept_woken"))
      BY <2>3 DEF NoLostWakeup
    <2>5. CASE pc[t] = "accept_woken"
      <3>1. Cardinality(Waiters(s, "accept_woken")')
              = Cardinality(Waiters(s, "accept_woken")) - 1
        BY <1>2, <1>6, <2>1, <2>5, OneLeaves
      <3> QED BY <1>3, <2>2, <2>4, <3>1, WaitersFinite
    <2>6. CASE pc[t] # "accept_woken"
      <3>1. Waiters(s, "accept_woken")' = Waiters(s, "accept_woken")
        BY <1>2, <2>1, <2>6 DEF Waiters
      <3> QED BY <1>3, <2>2, <2>4, <3>1, WaitersFinite
    <2> QED BY <2>5, <2>6
  <1> QED BY <1>4, <1>5, <1>6

\* A channel is queued, and one of those who wait is notified.
LEMMA QueueKeeps ==
    ASSUME SessionInv, NoLostWakeup, NEW x \in Side, QueueIncoming(x)
    PROVE  NoLostWakeup'
  <1> SUFFICES ASSUME NEW s \in Side, Waiters(s, "accepting")' # {}
               PROVE  Len(server_accepts'[s]) <= Cardinality(Waiters(s, "accept_woken")')
    BY DEF NoLostWakeup
  <1>1. Types /\ cur[x] \in Opens /\ x \in Procs /\ x \notin Threads /\ At(x) = x
    BY ProcFacts DEF SessionInv, EndHolds, QueueIncoming
  <1>2. server_accepts[s] \in Seq(Opens) /\ Len(server_accepts[s]) \in Nat
    BY <1>1 DEF Types
  <1>3. server_accepts' = [server_accepts EXCEPT ![x] = Append(@, cur[x])]
    BY DEF QueueIncoming
  <1>4. Len(server_accepts'[s]) = IF s = x THEN Len(server_accepts[s]) + 1
                                  ELSE Len(server_accepts[s])
    BY <1>1, <1>2, <1>3 DEF Types
  <1>5. CASE {t \in Threads : Home[t] = x /\ pc[t] = "accepting"} = {} /\ Goto(x, "idle")
    <2>1. \A t \in Threads : pc'[t] = pc[t]
      BY <1>1, <1>5, GotoOther
    <2>2. s # x
      BY <1>5, <2>1 DEF Waiters
    <2>3. /\ Waiters(s, "accepting")' = Waiters(s, "accepting")
          /\ Waiters(s, "accept_woken")' = Waiters(s, "accept_woken")
      BY <2>1 DEF Waiters
    <2> QED BY <1>4, <2>2, <2>3 DEF NoLostWakeup
  <1>6. CASE \E t \in {t \in Threads : Home[t] = x /\ pc[t] = "accepting"} :
                pc' = [pc EXCEPT ![t] = "accept_woken", ![x] = "idle"]
    <2>1. PICK t \in Threads : /\ Home[t] = x /\ pc[t] = "accepting"
                               /\ pc' = [pc EXCEPT ![t] = "accept_woken", ![x] = "idle"]
      BY <1>6
    <2>2. pc'[t] = "accept_woken" /\ \A u \in Threads \ {t} : pc'[u] = pc[u]
      BY <1>1, <2>1, ProcFacts DEF Types
    <2>3. Waiters(s, "accepting") # {}
      BY <2>2 DEF Waiters
    <2>4. Len(server_accepts[s]) <= Cardinality(Waiters(s, "accept_woken"))
      BY <2>3 DEF NoLostWakeup
    <2>5. CASE s = x
      <3>1. Cardinality(Waiters(s, "accept_woken")')
              = Cardinality(Waiters(s, "accept_woken")) + 1
        BY <2>1, <2>2, <2>5, OneWoken
      <3> QED BY <1>2, <1>4, <2>4, <2>5, <3>1, WaitersFinite
    <2>6. CASE s # x
      <3>1. Waiters(s, "accept_woken")' = Waiters(s, "accept_woken")
        BY <2>1, <2>2, <2>6 DEF Waiters
      <3> QED BY <1>4, <2>4, <2>6, <3>1
    <2> QED BY <2>5, <2>6
  <1> QED BY <1>1, <1>5, <1>6 DEF QueueIncoming, NotifyOne

\* No other step disturbs those in accept.
LEMMA OthersUndisturbed ==
    ASSUME Types, Next, \A t \in Threads : ~Accept(t) /\ ~AcceptReturns(t),
           \A s \in Side : ~QueueIncoming(s)
    PROVE  Undisturbed
  <1>1. server_accepts' = server_accepts
    <2>1. ASSUME NEW s \in Side, TransportThread(s)
          PROVE  server_accepts' = server_accepts
      BY <2>1, Zenon DEF TransportThread, IgnoreDead, ReadOpen, Decide, AnswerOpen,
           ReadOpenSuccess, ReadOpenFailure, ReadGlobal, AnswerGlobal, ReadGlobalReply, ReadNewKeys,
           ReadRequest, AnswerRequest, ReadExitStatus, ReadSuccess, ReadFailure, ReadClose,
           EndLoop, RunUnlink, EndRun
    <2>2. ASSUME NEW s \in Side, NEW r \in Opens, Collect(s, r)
          PROVE  server_accepts' = server_accepts
      BY <2>2 DEF Collect
    <2>3. ASSUME NEW p \in Procs, SendClose(p) \/ SendFails(p)
          PROVE  server_accepts' = server_accepts
      BY <2>3 DEF SendClose, SendFails
    <2>4. ASSUME NEW t \in Threads, CallInProgress(t)
          PROVE  server_accepts' = server_accepts
      BY <2>4, Zenon DEF CallInProgress, Register, SendOpen, OpenWait, OpenLookup, OpenRaises,
           SendGlobal, GlobalReturns, EventPending, SendRequest, EventReturns,
           StatusReturns, CloseUnlink
    <2> QED BY <2>1, <2>2, <2>3, <2>4, Zenon
         DEF Next, OpenChannel, OpenTimeout, AcceptTimeout, GlobalRequest, Share, ExecCommand,
             RecvExitStatus, SendExitStatus, Close, CloseTransport
  <1>2. ASSUME NEW t \in Threads, OwnStep(t)
        PROVE  /\ pc'[t] = "accepting" => pc[t] = "accepting"
               /\ pc[t] = "accept_woken" => pc'[t] = "accept_woken"
    <2>1. pc[t] \in Pc /\ t \notin Side /\ pc \in [Procs -> Pc] /\ t \in Procs
      BY ProcFacts DEF Types
    <2> QED BY <1>2, <2>1 DEF OwnStep, Goto, Calls,
           CallInProgress, Register, SendOpen, OpenWait, OpenLookup, OpenRaises,
           SendGlobal, GlobalReturns, EventPending, SendRequest, EventReturns,
           StatusReturns, CloseUnlink, OpenChannel, OpenTimeout, AcceptTimeout,
           GlobalRequest, Share, ExecCommand, RecvExitStatus, SendExitStatus, Close,
           CloseTransport, SendClose, SendFails, local
  <1>3. ASSUME NEW t \in Threads, Passive(t)
        PROVE  /\ pc'[t] = "accepting" => pc[t] = "accepting"
               /\ pc[t] = "accept_woken" => pc'[t] = "accept_woken"
    BY <1>3, MovesItself
  <1> QED BY <1>1, <1>2, <1>3, Whose DEF Undisturbed

\* No channel lies in the accept queue while a thread waits for it in vain
\* (accept, _queue_incoming_channel and the notification at the end of run).
THEOREM WakeupKept == Spec => []NoLostWakeup
  <1>1. Init => NoLostWakeup
    BY ProcFacts DEF Init, NoLostWakeup, Waiters
  <1>2. SessionInv /\ NoLostWakeup /\ [Next]_vars => NoLostWakeup'
    <2> SUFFICES ASSUME SessionInv, NoLostWakeup, [Next]_vars
                 PROVE  NoLostWakeup'
      OBVIOUS
    <2>1. Types
      BY DEF SessionInv
    <2>2. CASE UNCHANGED vars
      BY <2>1, <2>2, UndisturbedKeeps DEF vars, local, Undisturbed
    <2>3. CASE \E t \in Threads : Accept(t) \/ AcceptReturns(t)
      BY <2>1, <2>3, AcceptKeeps
    <2>4. CASE \E s \in Side : QueueIncoming(s)
      BY <2>4, QueueKeeps
    <2> QED BY <2>1, <2>2, <2>3, <2>4, OthersUndisturbed, UndisturbedKeeps
  <1> QED BY <1>1, <1>2, NumbersAgree, PTL DEF Spec

-----------------------------------------------------------------------------
(* What a step does to the packets on their way *)

\* v is w without its first packet; v is w with m behind it.
Taken(w, v) ==
    1 \in 1 .. Len(w) /\ Len(v) = Len(w) - 1 /\ \A i \in 1 .. Len(v) : v[i] = w[i + 1]
Added(w, v, m) ==
    Len(v) = Len(w) + 1 /\ v[Len(v)] = m /\ \A i \in 1 .. Len(w) : v[i] = w[i]

\* End s sends a packet of type ty about r, unless it is over.
Says(s, ty, r) ==
    \/ ~active[s] /\ wire' = wire
    \/ /\ active[s] /\ wire'[s] = wire[s]
       /\ \E m \in Msg : m.type = ty /\ m.num = r /\ Added(wire[Peer(s)], wire'[Peer(s)], m)

\* ... reads one.
Hears(s, ty) ==
    Taken(wire[s], wire'[s]) /\ wire[s][1].type = ty /\ wire'[Peer(s)] = wire[Peer(s)]

\* What happens to the packets w does not concern the types T.
Passes(w, v, T) ==
    \/ v = w
    \/ Taken(w, v) /\ w[1].type \notin T
    \/ \E m \in Msg : m.type \notin T /\ Added(w, v, m)

LEMMA Sends ==
    ASSUME Types, NEW s \in Side, NEW m \in Msg,
           SendUserMessage(s, m) \/ \E l : SendMessage(s, m, l)
    PROVE  Says(s, m.type, m.num)
  <1>1. wire \in [Side -> Seq(Msg)] /\ wire[Peer(s)] \in Seq(Msg) /\ Peer(s) \in Side /\ Peer(s) # s
    BY SideFacts DEF Types
  <1>2. CASE ~active[s]
    BY <1>2 DEF SendUserMessage, SendMessage, Says
  <1>3. CASE active[s]
    <2>1. wire' = [wire EXCEPT ![Peer(s)] = Append(@, m)]
      BY <1>3 DEF SendUserMessage, SendMessage
    <2>2. wire'[s] = wire[s] /\ wire'[Peer(s)] = Append(wire[Peer(s)], m)
      BY <1>1, <2>1
    <2>3. Added(wire[Peer(s)], Append(wire[Peer(s)], m), m)
      BY <1>1 DEF Added
    <2> QED BY <1>3, <2>2, <2>3 DEF Says
  <1> QED BY <1>2, <1>3

LEMMA Listens ==
    ASSUME SessionInv, NEW s \in Side, NEW ty, Reads(s, ty)
    PROVE  Hears(s, ty) /\ wire[s][1] = Head(wire[s]) /\ pc[s] = "idle" /\ active[s]
           /\ PacketOK(s, wire[s][1]) /\ wire[s][1] \in Msg
  <1>1. wire[s] \in Seq(Msg) /\ wire[s] # <<>> /\ Peer(s) # s /\ Peer(s) \in Side
    BY ReadsFacts, SideFacts DEF SessionInv, Types
  <1>2. Taken(wire[s], Tail(wire[s]))
    BY <1>1 DEF Taken
  <1> QED BY <1>1, <1>2, ReadsFacts DEF Hears

LEMMA SendOpenSays ==
    ASSUME SessionInv, NEW t \in Threads, SendOpen(t)
    PROVE  Says(Home[t], "open", cur[t])
  <1> DEFINE s == Home[t]
             m == Packet("open", 0, chan[s][cur[t]].id, cur[t], TRUE)
  <1>1. s \in Side /\ Types /\ cur[t] \in Nat /\ CallOK(t) /\ opens \in 0 .. MaxOpens
    BY HeldNow DEF Types
  <1>2. cur[t] \in Opens
    BY <1>1, NumberFacts DEF SendOpen, CallOK, OpenPc
  <1>3. m \in Msg /\ m.type = "open" /\ m.num = cur[t]
    BY <1>1, <1>2, NumberFacts DEF Types, Object, Packet, Msg, PacketType
  <1>4. SendUserMessage(s, m)
    BY DEF SendOpen
  <1> HIDE DEF s, m
  <1>5. Says(s, m.type, m.num)
    BY <1>1, <1>3, <1>4, Sends
  <1> QED BY <1>3, <1>5 DEF s

LEMMA SendGlobalSays ==
    ASSUME SessionInv, NEW t \in Threads, SendGlobal(t)
    PROVE  Says(Home[t], "global", cur[t])
  <1> DEFINE m == Packet("global", 0, 0, cur[t], TRUE)
  <1>1. Home[t] \in Side /\ Types /\ cur[t] \in Nat
    BY HeldNow
  <1>2. m \in Msg /\ m.type = "global" /\ m.num = cur[t]
    BY <1>1, GlobalPacket DEF Packet
  <1>3. SendUserMessage(Home[t], m)
    BY DEF SendGlobal
  <1> HIDE DEF m
  <1>4. Says(Home[t], m.type, m.num)
    BY <1>1, <1>2, <1>3, Sends
  <1> QED BY <1>2, <1>4

\* A packet for a channel that may be addressed.
LEMMA ChannelSays ==
    ASSUME SessionInv, NEW s \in Side, NEW r, NEW ty \in ChannelType, Addressable(s, r),
           SendUserMessage(s, ToPeer(s, r, ty))
    PROVE  Says(s, ty, r)
  <1> DEFINE m == ToPeer(s, r, ty)
  <1>1. m \in Msg /\ Types
    BY ChannelPacket DEF SessionInv
  <1>2. m.type = ty /\ m.num = r
    BY DEF ToPeer, Packet
  <1>3. SendUserMessage(s, m)
    OBVIOUS
  <1> HIDE DEF m
  <1>4. Says(s, m.type, m.num)
    BY <1>1, <1>3, Sends
  <1> QED BY <1>2, <1>4

LEMMA RequestSays ==
    ASSUME SessionInv, NEW t \in Threads, SendRequest(t) \/ SendExitStatus(t)
    PROVE  /\ SendRequest(t) => Says(Home[t], "request", own[t])
           /\ SendExitStatus(t) => Says(Home[t], "exit", own[t])
  <1>1. own[t] # 0 /\ Addressable(Home[t], own[t]) /\ Home[t] \in Side
    BY HeldNow DEF SendRequest, SendExitStatus, ThreadHolds, RequestPc
  <1>2. {"request", "exit"} \subseteq ChannelType
    BY DEF ChannelType
  <1>3. CASE SendRequest(t)
    <2>1. SendUserMessage(Home[t], ToPeer(Home[t], own[t], "request"))
      BY <1>3 DEF SendRequest
    <2>2. Says(Home[t], "request", own[t])
      BY <1>1, <1>2, <2>1, ChannelSays
    <2>3. ~SendExitStatus(t)
      BY <1>3 DEF SendRequest, SendExitStatus, Calls
    <2> QED BY <2>2, <2>3
  <1>4. CASE SendExitStatus(t)
    <2>1. SendUserMessage(Home[t], ToPeer(Home[t], own[t], "exit"))
      BY <1>4 DEF SendExitStatus
    <2>2. Says(Home[t], "exit", own[t])
      BY <1>1, <1>2, <2>1, ChannelSays
    <2>3. ~SendRequest(t)
      BY <1>4 DEF SendRequest, SendExitStatus, Calls
    <2> QED BY <2>2, <2>3
  <1> QED BY <1>3, <1>4

LEMMA CloseSays ==
    ASSUME SessionInv, NEW p \in Procs, SendClose(p)
    PROVE  Says(At(p), "close", cur[p])
  <1>1. pc[p] = "send_close" /\ SendUserMessage(At(p), ToPeer(At(p), cur[p], "close"))
    BY DEF SendClose
  <1>2. "close" \in ChannelType /\ At(p) \in Side
    BY ProcFacts DEF ChannelType
  <1>3. ASSUME p \in Threads PROVE Addressable(At(p), cur[p])
    BY <1>1, <1>3, HeldNow, ProcFacts DEF ThreadHolds
  <1>4. ASSUME p \in Side PROVE Addressable(At(p), cur[p])
    BY <1>1, <1>4, EndNow, ProcFacts DEF EndHolds
  <1> QED BY <1>1, <1>2, <1>3, <1>4, ProcFacts, ChannelSays

LEMMA CollectSays ==
    ASSUME SessionInv, NEW s \in Side, NEW r \in Opens, Collect(s, r)
    PROVE  wire' = wire \/ Says(s, "close", r)
  <1>1. CASE chan[s][r].st = "open" /\ SendUserMessage(s, ToPeer(s, r, "close"))
    <2>1. ~(pc[s] \in Answering /\ cur[s] = r)
      BY EndNow, ProcFacts DEF Collect, Handles, Answering
    <2>2. Addressable(s, r) /\ "close" \in ChannelType
      BY <1>1, <2>1, EndNow DEF Addressable, EndHolds, Made, ChannelType
    <2> QED BY <1>1, <2>2, ChannelSays
  <1>2. CASE UNCHANGED wire
    BY <1>2
  <1> QED BY <1>1, <1>2 DEF Collect

LEMMA AnswerOpenSays ==
    ASSUME SessionInv, NEW s \in Side, AnswerOpen(s)
    PROVE  /\ pc[s] \in {"accept_open", "refuse_open"}
           /\ pc[s] = "accept_open" => Says(s, "open_success", cur[s])
           /\ pc[s] = "refuse_open" => Says(s, "open_failure", cur[s])
  <1> DEFINE c == chan[s][cur[s]]
             m1 == Packet("open_success", c.remote, c.id, cur[s], TRUE)
             m2 == Packet("open_failure", c.remote, 0, cur[s], TRUE)
  <1>1. Types /\ EndHolds(s)
    BY EndNow DEF SessionInv
  <1>2. pc[s] \in {"accept_open", "refuse_open"}
    BY DEF AnswerOpen
  <1>3. cur[s] \in Opens /\ c \in Object
    BY <1>1, <1>2 DEF EndHolds, Answering, Types
  <1>4. /\ m1 \in Msg /\ m1.type = "open_success" /\ m1.num = cur[s]
        /\ m2 \in Msg /\ m2.type = "open_failure" /\ m2.num = cur[s]
    BY <1>3, NumberFacts DEF Object, Packet, Msg, PacketType
  <1>5. /\ pc[s] = "accept_open" => SendMessage(s, m1, "queue")
        /\ pc[s] = "refuse_open" => SendMessage(s, m2, "idle")
    BY DEF AnswerOpen
  <1> HIDE DEF m1, m2
  <1>6. pc[s] = "accept_open" => Says(s, m1.type, m1.num)
    BY <1>1, <1>4, <1>5, Sends
  <1>7. pc[s] = "refuse_open" => Says(s, m2.type, m2.num)
    BY <1>1, <1>4, <1>5, Sends
  <1> QED BY <1>2, <1>4, <1>6, <1>7

LEMMA AnswerGlobalSays ==
    ASSUME SessionInv, NEW s \in Side, AnswerGlobal(s)
    PROVE  Says(s, "global_reply", cur[s])
  <1>1. PICK ok \in ServerAllows(s) : SendMessage(s, Packet("global_reply", 0, 0, cur[s], ok), "idle")
    BY DEF AnswerGlobal
  <1>2. PICK m : m = Packet("global_reply", 0, 0, cur[s], ok)
    OBVIOUS
  <1>3. Types /\ cur[s] \in Nat /\ ok \in BOOLEAN
    BY EndNow, ProcFacts DEF SessionInv, Types, ServerAllows
  <1>4. m \in Msg
    BY <1>2, <1>3, GlobalPacket
  <1>5. m.type = "global_reply" /\ m.num = cur[s]
    BY <1>2 DEF Packet
  <1>6. Says(s, m.type, m.num)
    BY <1>1, <1>2, <1>3, <1>4, Sends
  <1> QED BY <1>5, <1>6

LEMMA AnswerRequestSays ==
    ASSUME SessionInv, NEW s \in Side, AnswerRequest(s)
    PROVE  Says(s, pc[s], cur[s]) /\ pc[s] \in {"success", "failure"}
  <1>1. pc[s] \in {"success", "failure"} /\ SendUserMessage(s, ToPeer(s, cur[s], pc[s]))
    BY DEF AnswerRequest
  <1>2. Addressable(s, cur[s]) /\ pc[s] \in ChannelType
    BY <1>1, EndNow DEF EndHolds, ChannelType
  <1> QED BY <1>1, <1>2, ChannelSays

\* The steps that send or read packets of the types T.
Concerns(T) ==
    \/ \E t \in Threads :
          \/ "open" \in T /\ SendOpen(t)
          \/ "global" \in T /\ SendGlobal(t)
          \/ "request" \in T /\ SendRequest(t)
          \/ "exit" \in T /\ SendExitStatus(t)
    \/ "close" \in T /\ \E p \in Procs : SendClose(p)
    \/ \E s \in Side :
          \/ "close" \in T /\ \E r \in Opens : Collect(s, r)
          \/ {"open_success", "open_failure"} \cap T # {} /\ AnswerOpen(s)
          \/ "global_reply" \in T /\ AnswerGlobal(s)
          \/ {"success", "failure"} \cap T # {} /\ AnswerRequest(s)
          \/ ChannelType \cap T # {} /\ IgnoreDead(s)
          \/ "open" \in T /\ ReadOpen(s)
          \/ "open_success" \in T /\ ReadOpenSuccess(s)
          \/ "open_failure" \in T /\ ReadOpenFailure(s)
          \/ "global" \in T /\ ReadGlobal(s)
          \/ "global_reply" \in T /\ ReadGlobalReply(s)
          \/ "request" \in T /\ ReadRequest(s)
          \/ "exit" \in T /\ ReadExitStatus(s)
          \/ "success" \in T /\ ReadSuccess(s)
          \/ "failure" \in T /\ ReadFailure(s)
          \/ "close" \in T /\ ReadClose(s)

AllPass(T) == \A s \in Side : Passes(wire[s], wire'[s], T)

LEMMA SaysPasses ==
    ASSUME NEW s \in Side, NEW ty, NEW r, NEW T, ty \notin T, Says(s, ty, r)
    PROVE  AllPass(T)
  BY SideFacts DEF AllPass, Passes, Says

LEMMA HearsPasses ==
    ASSUME NEW s \in Side, NEW ty, NEW T, ty \notin T, Hears(s, ty)
    PROVE  AllPass(T)
  BY SideFacts DEF AllPass, Passes, Hears

LEMMA SamePasses ==
    ASSUME NEW T, UNCHANGED wire
    PROVE  AllPass(T)
  BY DEF AllPass, Passes

\* The transport thread of s.
LEMMA EndTraffic ==
    ASSUME SessionInv, NEW s \in Side, NEW T, TransportThread(s), ~Concerns(T)
    PROVE  AllPass(T)
  <1>1. ASSUME NEW ty, ty \notin T, Reads(s, ty) PROVE AllPass(T)
    BY <1>1, Listens, HearsPasses
  <1>2. CASE IgnoreDead(s)
    <2>1. PICK ty \in ChannelType : Reads(s, ty)
      BY <1>2 DEF IgnoreDead
    <2> QED BY <1>1, <1>2, <2>1 DEF Concerns
  <1>3. CASE ReadOpen(s)
    <2>1. Reads(s, "open")
      BY <1>3 DEF ReadOpen
    <2>2. "open" \notin T
      BY <1>3 DEF Concerns
    <2> QED BY <1>1, <2>1, <2>2
  <1>4. CASE ReadOpenSuccess(s)
    <2>1. Reads(s, "open_success")
      BY <1>4, Zenon DEF ReadOpenSuccess
    <2>2. "open_success" \notin T
      BY <1>4 DEF Concerns
    <2> QED BY <1>1, <2>1, <2>2
  <1>5. CASE ReadOpenFailure(s)
    <2>1. Reads(s, "open_failure")
      BY <1>5 DEF ReadOpenFailure
    <2>2. "open_failure" \notin T
      BY <1>5 DEF Concerns
    <2> QED BY <1>1, <2>1, <2>2
  <1>6. CASE ReadGlobal(s)
    <2>1. Reads(s, "global")
      BY <1>6 DEF ReadGlobal
    <2>2. "global" \notin T
      BY <1>6 DEF Concerns
    <2> QED BY <1>1, <2>1, <2>2
  <1>7. CASE ReadGlobalReply(s)
    <2>1. Reads(s, "global_reply")
      BY <1>7 DEF ReadGlobalReply
    <2>2. "global_reply" \notin T
      BY <1>7 DEF Concerns
    <2> QED BY <1>1, <2>1, <2>2
  <1>8. CASE ReadRequest(s)
    <2>1. Reads(s, "request")
      BY <1>8 DEF ReadRequest, ReadsFor
    <2>2. "request" \notin T
      BY <1>8 DEF Concerns
    <2> QED BY <1>1, <2>1, <2>2
  <1>9. CASE ReadExitStatus(s)
    <2>1. Reads(s, "exit")
      BY <1>9, Zenon DEF ReadExitStatus, ReadsFor
    <2>2. "exit" \notin T
      BY <1>9 DEF Concerns
    <2> QED BY <1>1, <2>1, <2>2
  <1>10. CASE ReadSuccess(s)
    <2>1. Reads(s, "success")
      BY <1>10, Zenon DEF ReadSuccess, ReadsFor
    <2>2. "success" \notin T
      BY <1>10 DEF Concerns
    <2> QED BY <1>1, <2>1, <2>2
  <1>11. CASE ReadFailure(s)
    <2>1. Reads(s, "failure")
      BY <1>11 DEF ReadFailure, ReadsFor
    <2>2. "failure" \notin T
      BY <1>11 DEF Concerns
    <2> QED BY <1>1, <2>1, <2>2
  <1>12. CASE ReadClose(s)
    <2>1. Reads(s, "close")
      BY <1>12, Zenon DEF ReadClose, ReadsFor
    <2>2. "close" \notin T
      BY <1>12 DEF Concerns
    <2> QED BY <1>1, <2>1, <2>2
  <1>13. CASE AnswerOpen(s)
    <2>1. "open_success" \notin T /\ "open_failure" \notin T
      BY <1>13 DEF Concerns
    <2> QED BY <1>13, <2>1, AnswerOpenSays, SaysPasses
  <1>14. CASE AnswerGlobal(s)
    <2>1. "global_reply" \notin T
      BY <1>14 DEF Concerns
    <2> QED BY <1>14, <2>1, AnswerGlobalSays, SaysPasses
  <1>15. CASE AnswerRequest(s)
    <2>1. "success" \notin T /\ "failure" \notin T
      BY <1>15 DEF Concerns
    <2> QED BY <1>15, <2>1, AnswerRequestSays, SaysPasses
  <1>16. CASE ReadNewKeys(s) \/ Decide(s) \/ QueueIncoming(s) \/ EndLoop(s) \/ RunUnlink(s) \/ EndRun(s)
    <2>1. UNCHANGED wire
      BY <1>16 DEF ReadNewKeys, Decide, QueueIncoming, EndLoop, RunUnlink, EndRun
    <2> QED BY <2>1, SamePasses
  <1> QED BY <1>2, <1>3, <1>4, <1>5, <1>6, <1>7, <1>8, <1>9, <1>10, <1>11, <1>12, <1>13,
             <1>14, <1>15, <1>16 DEF TransportThread

\* A step that does not concern the types T.
LEMMA Traffic ==
    ASSUME SessionInv, [Next]_vars, NEW T, ~Concerns(T)
    PROVE  AllPass(T)
  <1>1. ASSUME NEW s \in Side, TransportThread(s) PROVE AllPass(T)
    BY <1>1, EndTraffic
  <1>2. ASSUME NEW s \in Side, NEW r \in Opens, Collect(s, r) PROVE AllPass(T)
    <2>1. "close" \notin T
      BY <1>2 DEF Concerns
    <2> QED BY <1>2, <2>1, CollectSays, SaysPasses, SamePasses
  <1>3. ASSUME NEW p \in Procs, SendClose(p) \/ SendFails(p) PROVE AllPass(T)
    <2>1. CASE SendClose(p)
      <3>1. "close" \notin T /\ At(p) \in Side
        BY <2>1, ProcFacts DEF Concerns
      <3> QED BY <2>1, <3>1, CloseSays, SaysPasses
    <2>2. CASE SendFails(p)
      BY <2>2, SamePasses DEF SendFails
    <2> QED BY <1>3, <2>1, <2>2
  <1>4. ASSUME NEW t \in Threads, OwnStep(t) PROVE AllPass(T)
    <2>1. Home[t] \in Side /\ t \in Procs
      BY ProcFacts
    <2>2. CASE SendOpen(t)
      <3>1. "open" \notin T
        BY <2>2 DEF Concerns
      <3> QED BY <2>1, <2>2, <3>1, SendOpenSays, SaysPasses
    <2>3. CASE SendGlobal(t)
      <3>1. "global" \notin T
        BY <2>3 DEF Concerns
      <3> QED BY <2>1, <2>3, <3>1, SendGlobalSays, SaysPasses
    <2>4. CASE SendRequest(t) \/ SendExitStatus(t)
      <3>1. /\ SendRequest(t) => "request" \notin T
            /\ SendExitStatus(t) => "exit" \notin T
        BY <2>4 DEF Concerns
      <3> QED BY <2>1, <2>4, <3>1, RequestSays, SaysPasses
    <2>5. CASE SendClose(t) \/ SendFails(t)
      BY <1>3, <2>1, <2>5
    <2>6. CASE ~(SendOpen(t) \/ SendGlobal(t) \/ SendRequest(t) \/ SendExitStatus(t)
                   \/ SendClose(t) \/ SendFails(t))
      <3>1. ASSUME CallInProgress(t) PROVE UNCHANGED wire
        BY <2>6, <3>1, Zenon DEF CallInProgress, Register, OpenWait, OpenLookup,
           OpenRaises, AcceptReturns, GlobalReturns, EventPending, EventReturns,
           StatusReturns, CloseUnlink
      <3>2. ASSUME ~CallInProgress(t) PROVE UNCHANGED wire
        BY <1>4, <2>6, <3>2 DEF OwnStep, OpenChannel, OpenTimeout, Accept,
           AcceptTimeout, GlobalRequest, Share, ExecCommand, RecvExitStatus, Close,
           CloseTransport
      <3> QED BY <3>1, <3>2, SamePasses
    <2> QED BY <2>2, <2>3, <2>4, <2>5, <2>6
  <1>5. CASE UNCHANGED vars
    BY <1>5, SamePasses DEF vars
  <1> QED BY <1>1, <1>2, <1>3, <1>4, <1>5 DEF Next, OwnStep

-----------------------------------------------------------------------------
(* One call at a time *)

LEMMA NumbersPass ==
    ASSUME NEW w \in Seq(Msg), NEW v \in Seq(Msg), NEW T, Passes(w, v, T)
    PROVE  /\ NumbersOf(v, T) \subseteq NumbersOf(w, T)
           /\ AtMostOne(w, T) => AtMostOne(v, T)
  <1>1. CASE v = w
    BY <1>1
  <1>2. CASE Taken(w, v)
    <2>1. Len(w) \in Nat /\ Len(v) \in Nat /\ Len(v) = Len(w) - 1
      BY <1>2 DEF Taken
    <2>2. \A i \in 1 .. Len(v) : i + 1 \in 1 .. Len(w) /\ v[i] = w[i + 1]
      BY <1>2, <2>1 DEF Taken
    <2>3. NumbersOf(v, T) \subseteq NumbersOf(w, T)
      BY <2>2 DEF NumbersOf
    <2>4. \A i, j \in 1 .. Len(v) : i + 1 = j + 1 => i = j
      BY <2>1
    <2>5. AtMostOne(w, T) => AtMostOne(v, T)
      BY <2>2, <2>4 DEF AtMostOne
    <2> QED BY <2>3, <2>5
  <1>3. CASE \E m \in Msg : m.type \notin T /\ Added(w, v, m)
    <2>1. Len(w) \in Nat /\ Len(v) = Len(w) + 1
      BY <1>3 DEF Added
    <2>2. \A i \in 1 .. Len(v) : v[i].type \in T => i \in 1 .. Len(w) /\ v[i] = w[i]
      BY <1>3, <2>1 DEF Added
    <2> QED BY <2>1, <2>2 DEF NumbersOf, AtMostOne
  <1> QED BY <1>1, <1>2, <1>3 DEF Passes

LEMMA NumbersTaken ==
    ASSUME NEW w \in Seq(Msg), NEW v \in Seq(Msg), NEW T, Taken(w, v), AtMostOne(w, T),
           w[1].type \in T
    PROVE  w[1].num \in NumbersOf(w, T) /\ NumbersOf(v, T) = {} /\ AtMostOne(v, T)
  <1>1. Len(w) \in Nat /\ Len(v) \in Nat /\ Len(v) = Len(w) - 1 /\ 1 \in 1 .. Len(w)
    BY DEF Taken
  <1>2. \A i \in 1 .. Len(v) : i + 1 \in 1 .. Len(w) /\ i + 1 # 1 /\ v[i] = w[i + 1]
    BY <1>1 DEF Taken
  <1>3. \A i \in 1 .. Len(v) : v[i].type \notin T
    BY <1>1, <1>2 DEF AtMostOne
  <1> QED BY <1>1, <1>3 DEF NumbersOf, AtMostOne

LEMMA NumbersAdded ==
    ASSUME NEW w \in Seq(Msg), NEW v \in Seq(Msg), NEW m \in Msg, NEW T, Added(w, v, m),
           NumbersOf(w, T) = {}
    PROVE  NumbersOf(v, T) \subseteq {m.num} /\ AtMostOne(v, T)
  <1>1. Len(w) \in Nat /\ Len(v) = Len(w) + 1 /\ v[Len(v)] = m
    BY DEF Added
  <1>2. \A i \in 1 .. Len(w) : w[i].type \notin T
    BY DEF NumbersOf
  <1>3. \A i \in 1 .. Len(v) : v[i].type \in T => i = Len(v)
    BY <1>1, <1>2 DEF Added
  <1> QED BY <1>1, <1>3 DEF NumbersOf, AtMostOne

\* A step that has nothing to do with the calls.
LEMMA TurnPasses ==
    ASSUME Types, Types', NEW s \in Side, NEW req, NEW doing, NEW ans,
           InTurn(s, req, doing, ans),
           Passes(wire[Peer(s)], wire'[Peer(s)], req), Passes(wire[s], wire'[s], ans),
           pc'[Peer(s)] \in doing => pc[Peer(s)] \in doing /\ cur'[Peer(s)] = cur[Peer(s)]
    PROVE  /\ InTurn(s, req, doing, ans)'
           /\ UnderWay(s, req, doing, ans)' \subseteq UnderWay(s, req, doing, ans)
  <1>1. /\ wire[s] \in Seq(Msg) /\ wire'[s] \in Seq(Msg)
        /\ wire[Peer(s)] \in Seq(Msg) /\ wire'[Peer(s)] \in Seq(Msg)
    BY SideFacts DEF Types
  <1>2. /\ NumbersOf(wire'[s], ans) \subseteq NumbersOf(wire[s], ans)
        /\ AtMostOne(wire'[s], ans)
    BY <1>1, NumbersPass DEF InTurn
  <1>3. /\ NumbersOf(wire'[Peer(s)], req) \subseteq NumbersOf(wire[Peer(s)], req)
        /\ AtMostOne(wire'[Peer(s)], req)
    BY <1>1, NumbersPass DEF InTurn
  <1> QED BY <1>2, <1>3 DEF InTurn, UnderWay

\* A call begins when none is under way.
LEMMA TurnBegins ==
    ASSUME Types, Types', NEW s \in Side, NEW req, NEW doing, NEW ans, NEW ty, NEW n,
           InTurn(s, req, doing, ans), UnderWay(s, req, doing, ans) = {},
           Says(s, ty, n), pc'[Peer(s)] = pc[Peer(s)]
    PROVE  /\ InTurn(s, req, doing, ans)'
           /\ UnderWay(s, req, doing, ans)' \subseteq {n}
  <1>1. /\ wire[s] \in Seq(Msg) /\ wire'[s] \in Seq(Msg)
        /\ wire[Peer(s)] \in Seq(Msg) /\ wire'[Peer(s)] \in Seq(Msg)
    BY SideFacts DEF Types
  <1>2. /\ NumbersOf(wire[s], ans) = {} /\ NumbersOf(wire[Peer(s)], req) = {}
        /\ pc[Peer(s)] \notin doing /\ AtMostOne(wire[s], ans) /\ AtMostOne(wire[Peer(s)], req)
    BY DEF UnderWay, InTurn
  <1>3. wire'[s] = wire[s]
    BY DEF Says
  <1>4. /\ NumbersOf(wire'[Peer(s)], req) \subseteq {n}
        /\ AtMostOne(wire'[Peer(s)], req)
    BY <1>1, <1>2, NumbersAdded DEF Says
  <1> QED BY <1>2, <1>3, <1>4 DEF InTurn, UnderWay

\* The peer takes up the call.
LEMMA TurnTaken ==
    ASSUME Types, Types', NEW s \in Side, NEW req, NEW doing, NEW ans, NEW ty \in req,
           InTurn(s, req, doing, ans), Hears(Peer(s), ty),
           cur'[Peer(s)] = wire[Peer(s)][1].num
    PROVE  /\ InTurn(s, req, doing, ans)'
           /\ UnderWay(s, req, doing, ans)' \subseteq UnderWay(s, req, doing, ans)
  <1>1. /\ wire[s] \in Seq(Msg) /\ wire'[s] \in Seq(Msg)
        /\ wire[Peer(s)] \in Seq(Msg) /\ wire'[Peer(s)] \in Seq(Msg)
    BY SideFacts DEF Types
  <1>2. /\ Taken(wire[Peer(s)], wire'[Peer(s)]) /\ wire[Peer(s)][1].type \in req
        /\ wire'[s] = wire[s]
    BY SideFacts DEF Hears
  <1>3. /\ wire[Peer(s)][1].num \in NumbersOf(wire[Peer(s)], req)
        /\ NumbersOf(wire'[Peer(s)], req) = {} /\ AtMostOne(wire'[Peer(s)], req)
    BY <1>1, <1>2, NumbersTaken DEF InTurn
  <1> QED BY <1>2, <1>3 DEF InTurn, UnderWay

\* ... and answers it.
LEMMA TurnAnswered ==
    ASSUME Types, Types', NEW s \in Side, NEW req, NEW doing, NEW ans, NEW ty,
           InTurn(s, req, doing, ans), pc[Peer(s)] \in doing, pc'[Peer(s)] \notin doing,
           Says(Peer(s), ty, cur[Peer(s)])
    PROVE  /\ InTurn(s, req, doing, ans)'
           /\ UnderWay(s, req, doing, ans)' \subseteq UnderWay(s, req, doing, ans)
  <1>1. /\ wire[s] \in Seq(Msg) /\ wire'[s] \in Seq(Msg) /\ Peer(Peer(s)) = s
        /\ wire[Peer(s)] \in Seq(Msg) /\ wire'[Peer(s)] \in Seq(Msg)
    BY SideFacts DEF Types
  <1>2. /\ NumbersOf(wire[s], ans) = {} /\ NumbersOf(wire[Peer(s)], req) = {}
        /\ AtMostOne(wire[s], ans) /\ AtMostOne(wire[Peer(s)], req)
        /\ cur[Peer(s)] \in UnderWay(s, req, doing, ans)
    BY DEF UnderWay, InTurn
  <1>3. wire'[Peer(s)] = wire[Peer(s)]
    BY DEF Says
  <1>4. NumbersOf(wire'[s], ans) \subseteq {cur[Peer(s)]} /\ AtMostOne(wire'[s], ans)
    BY <1>1, <1>2, NumbersAdded DEF Says
  <1> QED BY <1>2, <1>3, <1>4 DEF InTurn, UnderWay

\* The answer is read.
LEMMA TurnEnds ==
    ASSUME Types, Types', NEW s \in Side, NEW req, NEW doing, NEW ans, NEW ty \in ans,
           InTurn(s, req, doing, ans), Hears(s, ty), pc'[Peer(s)] = pc[Peer(s)]
    PROVE  /\ InTurn(s, req, doing, ans)'
           /\ UnderWay(s, req, doing, ans)' = {}
           /\ wire[s][1].num \in UnderWay(s, req, doing, ans)
  <1>1. /\ wire[s] \in Seq(Msg) /\ wire'[s] \in Seq(Msg)
    BY SideFacts DEF Types
  <1>2. /\ Taken(wire[s], wire'[s]) /\ wire[s][1].type \in ans
        /\ wire'[Peer(s)] = wire[Peer(s)]
    BY DEF Hears
  <1>3. /\ wire[s][1].num \in NumbersOf(wire[s], ans)
        /\ NumbersOf(wire'[s], ans) = {} /\ AtMostOne(wire'[s], ans)
    BY <1>1, <1>2, NumbersTaken DEF InTurn
  <1> QED BY <1>2, <1>3 DEF InTurn, UnderWay

-----------------------------------------------------------------------------
(* global_request *)

\* The scenario is fixed.
LEMMA SameScenario ==
    ASSUME [Next]_vars
    PROVE  scenario' = scenario
  <1>1. ASSUME NEW t \in Threads, OwnStep(t) PROVE scenario' = scenario
    BY <1>1, Zenon DEF OwnStep, CallInProgress, Register, SendOpen, OpenWait, OpenLookup, OpenRaises,
           AcceptReturns, SendGlobal, GlobalReturns, EventPending, SendRequest, EventReturns,
           StatusReturns, CloseUnlink, OpenChannel, OpenTimeout, Accept, AcceptTimeout,
           GlobalRequest, Share, ExecCommand, RecvExitStatus, SendExitStatus, Close,
           CloseTransport, SendClose, SendFails
  <1>2. ASSUME NEW s \in Side, SideStep(s) PROVE scenario' = scenario
    BY <1>2, Zenon DEF SideStep, TransportThread, IgnoreDead, ReadOpen, Decide, AnswerOpen,
           QueueIncoming, ReadOpenSuccess, ReadOpenFailure, ReadGlobal, AnswerGlobal,
           ReadGlobalReply, ReadNewKeys, ReadRequest, AnswerRequest, ReadExitStatus, ReadSuccess,
           ReadFailure, ReadClose, EndLoop, RunUnlink, EndRun, Collect, SendClose, SendFails
  <1> QED BY <1>1, <1>2, Steps DEF vars

\* An end that is active was so before.
LEMMA ActiveBefore ==
    ASSUME Types, [Next]_vars, NEW s \in Side, active'[s]
    PROVE  active[s]
  <1>1. active \in [Side -> BOOLEAN]
    BY DEF Types
  <1>2. ASSUME NEW t \in Threads, OwnStep(t) PROVE active[s]
    <2>1. CASE CloseTransport(t)
      BY <1>1, <2>1, ProcFacts DEF CloseTransport
    <2>2. CASE ~CloseTransport(t)
      <3>1. active' = active
        BY <1>2, <2>2, Zenon DEF OwnStep, CallInProgress, Register, SendOpen, OpenWait,
           OpenLookup, OpenRaises, AcceptReturns, SendGlobal, GlobalReturns, EventPending,
           SendRequest, EventReturns, StatusReturns, CloseUnlink, OpenChannel, OpenTimeout,
           Accept, AcceptTimeout, GlobalRequest, Share, ExecCommand, RecvExitStatus,
           SendExitStatus, Close, SendClose, SendFails
      <3> QED BY <3>1
    <2> QED BY <2>1, <2>2
  <1>3. ASSUME NEW x \in Side, SideStep(x) PROVE active[s]
    <2>1. CASE EndRun(x)
      BY <1>1, <2>1 DEF EndRun
    <2>2. CASE ~EndRun(x)
      <3>1. active' = active
        BY <1>3, <2>2, Zenon DEF SideStep, TransportThread, IgnoreDead, ReadOpen, Decide,
           AnswerOpen, QueueIncoming, ReadOpenSuccess, ReadOpenFailure, ReadGlobal,
           AnswerGlobal, ReadGlobalReply, ReadNewKeys, ReadRequest, AnswerRequest, ReadExitStatus,
           ReadSuccess, ReadFailure, ReadClose, EndLoop, RunUnlink, Collect, SendClose, SendFails
      <3> QED BY <3>1
    <2> QED BY <2>1, <2>2
  <1> QED BY <1>2, <1>3, Steps DEF vars

LEMMA AskersStep ==
    ASSUME Types, Askers, [Next]_vars
    PROVE  Askers'
  <1> SUFFICES ASSUME NEW t \in Threads, pc'[t] \in GlobalPc
               PROVE  t \in Callers(Home[t], "global_request")'
    BY DEF Askers
  <1>1. scenario' = scenario /\ pc[t] \in Pc /\ t \in Procs /\ pc \in [Procs -> Pc]
    BY SameScenario, ProcFacts DEF Types
  <1>2. CASE Passive(t)
    BY <1>1, <1>2, MovesItself DEF GlobalPc, Askers, Callers
  <1>3. CASE GlobalRequest(t)
    BY <1>1, <1>3 DEF GlobalRequest, Calls, Callers
  <1>4. CASE OwnStep(t) /\ ~GlobalRequest(t)
    <2>1. pc[t] \in GlobalPc
      <3>1. CASE SendGlobal(t) \/ GlobalReturns(t)
        BY <3>1 DEF SendGlobal, GlobalReturns, GlobalPc
      <3>2. CASE UNCHANGED pc
        BY <3>2
      <3>3. CASE \E l \in Pc \ GlobalPc : Goto(t, l)
        BY <1>1, <3>3 DEF Goto
      <3>4. {"idle", "send_open", "opening", "lookup", "raise", "register", "accepting",
             "accept_woken", "pend", "send_request", "event", "status", "send_close", "unlink"}
            \subseteq Pc \ GlobalPc
        BY DEF Pc, GlobalPc, OpenPc, AcceptPc, RequestPc
      <3>5. SendGlobal(t) \/ GlobalReturns(t) \/ UNCHANGED pc \/ \E l \in Pc \ GlobalPc : Goto(t, l)
        BY <1>1, <1>4, <3>4, ProcFacts, Zenon DEF OwnStep, CallInProgress, Register, SendOpen, OpenWait,
           OpenLookup, OpenRaises, AcceptReturns, EventPending,
           SendRequest, EventReturns, StatusReturns, CloseUnlink, OpenChannel, OpenTimeout,
           Accept, AcceptTimeout, Share, ExecCommand, RecvExitStatus, PopAccepted,
           SendExitStatus, Close, CloseTransport, SendClose, SendFails, local
      <3> QED BY <3>1, <3>2, <3>3, <3>5
    <2> QED BY <1>1, <2>1 DEF Askers, Callers
  <1> QED BY <1>2, <1>3, <1>4, Whose

\* With one asker all threads in global_request are the same.
LEMMA OneCaller ==
    ASSUME NEW s, OneAsker(s), NEW t \in Callers(s, "global_request"),
           NEW u \in Callers(s, "global_request")
    PROVE  t = u
  <1>1. Callers(s, "global_request") \subseteq Threads /\ IsFiniteSet(Threads)
    BY SessionAssumption DEF Callers
  <1>2. IsFiniteSet(Callers(s, "global_request"))
    BY <1>1, FS_Subset
  <1>3. Cardinality({t, u}) <= Cardinality(Callers(s, "global_request"))
    BY <1>2, FS_Subset
  <1>4. Cardinality({t}) = 1 /\ IsFiniteSet({t})
    BY FS_Singleton
  <1>5. t # u => Cardinality({t} \cup {u}) = 2
    BY <1>4, FS_AddElement
  <1>6. {t, u} = {t} \cup {u}
    OBVIOUS
  <1>7. Cardinality(Callers(s, "global_request")) \in Nat
    BY <1>2, FS_CardinalityType
  <1> QED BY <1>3, <1>5, <1>6, <1>7 DEF OneAsker

LEMMA AskersSame ==
    ASSUME Askers, NEW s \in Side, OneAsker(s), NEW t \in Threads, NEW u \in Threads,
           Home[t] = s, Home[u] = s,
           pc[t] \in GlobalPc \/ Calls(t, "global_request"), pc[u] \in GlobalPc
    PROVE  t = u
  <1>1. t \in Callers(s, "global_request") /\ u \in Callers(s, "global_request")
    BY DEF Askers, Calls, Callers
  <1> QED BY <1>1, OneCaller

Turn(s) == InTurn(s, {"global"}, {"answer_global"}, {"global_reply"})
Asked(s) == UnderWay(s, {"global"}, {"answer_global"}, {"global_reply"})

\* Thread t goes on waiting for its answer, and nobody begins to.
StillWaits(t) ==
    pc'[t] \in GlobalPc \/ pc[t] = "await" => pc'[t] = pc[t] /\ cur'[t] = cur[t]

\* A step in which the threads of s go on waiting for what is under way.
LEMMA StillAsked ==
    ASSUME NEW s \in Side, AskedOK(s), Turn(s)', Asked(s)' \subseteq Asked(s),
           completion'[s] = completion[s], global_response'[s] = global_response[s],
           \A t \in Threads : Home[t] = s => StillWaits(t)
    PROVE  AskedOK(s)'
  <1>1. /\ Waiters(s, "await")' = Waiters(s, "await")
        /\ Waiters(s, "send_global")' \subseteq Waiters(s, "send_global")
        /\ \A t \in Waiters(s, "await") : cur'[t] = cur[t]
    BY DEF Waiters, StillWaits, GlobalPc
  <1>2. Awaited(s)' = Awaited(s)
    BY <1>1 DEF Awaited
  <1>3. Asked(s)' \subseteq Awaited(s)'
    BY <1>2 DEF AskedOK, Asked
  <1> QED BY <1>1, <1>3 DEF AskedOK, Turn, Asked

\* ... and which has nothing to do with them.
LEMMA AskedQuiet ==
    ASSUME Types, Types', NEW s \in Side, AskedOK(s),
           Passes(wire[Peer(s)], wire'[Peer(s)], {"global"}),
           Passes(wire[s], wire'[s], {"global_reply"}),
           pc'[Peer(s)] = "answer_global" =>
             pc[Peer(s)] = "answer_global" /\ cur'[Peer(s)] = cur[Peer(s)],
           completion'[s] = completion[s], global_response'[s] = global_response[s],
           \A t \in Threads : Home[t] = s => StillWaits(t)
    PROVE  AskedOK(s)'
  <1>1. Turn(s)' /\ Asked(s)' \subseteq Asked(s)
    <2>1. InTurn(s, {"global"}, {"answer_global"}, {"global_reply"})
      BY DEF AskedOK
    <2>2. pc'[Peer(s)] \in {"answer_global"} =>
            pc[Peer(s)] \in {"answer_global"} /\ cur'[Peer(s)] = cur[Peer(s)]
      OBVIOUS
    <2> QED BY <2>1, <2>2, TurnPasses DEF Turn, Asked
  <1> QED BY <1>1, StillAsked

\* Nobody waits: nothing is under way.
LEMMA NobodyAsks ==
    ASSUME NEW s \in Side, AskedOK(s),
           completion[s] \/ \A t \in Threads : Home[t] = s => pc[t] # "await"
    PROVE  Asked(s) = {} /\ Turn(s)
  <1>1. Awaited(s) = {}
    BY DEF Awaited, Waiters
  <1> QED BY <1>1 DEF AskedOK, Asked, Turn

\* An application thread takes a step of global_request.
LEMMA ThreadAsks ==
    ASSUME SessionInv, SessionInv', GlobalTypes, Askers, NEW s \in Side, OneAsker(s),
           active[s], AskedOK(s), NEW t \in Threads,
           GlobalRequest(t) \/ SendGlobal(t) \/ GlobalReturns(t)
    PROVE  AskedOK(s)'
  <1>1. /\ Types /\ Types' /\ Home[t] \in Side /\ t \in Procs /\ OwnStep(t)
        /\ Peer(s) \in Side /\ Peer(s) # s /\ Peer(Peer(s)) = s /\ Home[t] \in {s, Peer(s)}
    BY HeldNow, SideFacts DEF SessionInv, OwnStep, CallInProgress
  <1>2. pc'[Peer(s)] = pc[Peer(s)] /\ cur'[Peer(s)] = cur[Peer(s)]
    BY <1>1, SideStill
  <1>3. \A u \in Threads \ {t} : pc'[u] = pc[u] /\ cur'[u] = cur[u]
    BY <1>1, ThreadMovesItself, ProcFacts
  <1>4. global_response' = global_response
    BY DEF GlobalRequest, SendGlobal, GlobalReturns, global
  <1>5. /\ pc \in [Procs -> Pc] /\ cur \in [Procs -> Nat] /\ completion \in [Side -> BOOLEAN]
        /\ completion' \in {completion, [completion EXCEPT ![Home[t]] = FALSE]}
    BY <1>1 DEF GlobalRequest, SendGlobal, GlobalReturns, global, Types, GlobalTypes
  <1>6. CASE Home[t] # s
    <2>1. completion'[s] = completion[s]
      BY <1>1, <1>5, <1>6
    <2>2. Passes(wire[Peer(s)], wire'[Peer(s)], {"global"})
          /\ Passes(wire[s], wire'[s], {"global_reply"})
      <3>1. CASE SendGlobal(t)
        <4>1. Says(Peer(s), "global", cur[t])
          BY <1>1, <1>6, <3>1, SendGlobalSays
        <4>2. wire'[Peer(s)] = wire[Peer(s)]
          BY <4>1 DEF Says
        <4>3. "global" \notin {"global_reply"}
          OBVIOUS
        <4>4. AllPass({"global_reply"})
          BY <1>1, <4>1, <4>3, SaysPasses
        <4> QED BY <4>2, <4>4 DEF AllPass, Passes
      <3>2. CASE UNCHANGED wire
        BY <3>2 DEF Passes
      <3> QED BY <3>1, <3>2 DEF GlobalRequest, GlobalReturns
    <2>3. \A u \in Threads : Home[u] = s => StillWaits(u)
      BY <1>3, <1>6 DEF StillWaits
    <2> QED BY <1>1, <1>2, <1>4, <2>1, <2>2, <2>3, AskedQuiet
  <1>7. CASE Home[t] = s /\ GlobalRequest(t)
    <2>1. /\ Calls(t, "global_request") /\ pc[t] = "idle" /\ pc'[t] = "send_global" /\ wire' = wire
          /\ completion' = [completion EXCEPT ![s] = FALSE]
      BY <1>1, <1>5, <1>7 DEF GlobalRequest, Calls, Goto
    <2>2. \A u \in Threads : Home[u] = s => pc[u] \notin GlobalPc
      BY <1>7, <2>1, AskersSame DEF GlobalPc
    <2>3. Asked(s) = {} /\ Turn(s)
      BY <2>2, NobodyAsks DEF GlobalPc
    <2>4. Asked(s)' = {} /\ Turn(s)'
      BY <1>2, <2>1, <2>3 DEF Asked, Turn, UnderWay, InTurn
    <2>5. Waiters(s, "await")' = {}
      BY <1>3, <2>1, <2>2 DEF Waiters, GlobalPc
    <2>6. ~completion'[s]
      BY <1>5, <2>1
    <2> QED BY <2>4, <2>5, <2>6 DEF AskedOK, Asked, Turn
  <1>8. CASE Home[t] = s /\ SendGlobal(t)
    <2>1. pc[t] = "send_global" /\ pc'[t] = "await" /\ completion' = completion /\ cur' = cur
      BY <1>1, <1>5, <1>8 DEF SendGlobal, Goto, global
    <2>2. ~completion[s]
      BY <1>8, <2>1 DEF AskedOK, Waiters
    <2>3. \A u \in Threads : Home[u] = s /\ pc[u] \in GlobalPc => u = t
      BY <1>8, <2>1, AskersSame DEF GlobalPc
    <2>4. Asked(s) = {} /\ Turn(s)
      BY <2>1, <2>3, NobodyAsks DEF GlobalPc
    <2>5. Says(s, "global", cur[t])
      BY <1>8, SendGlobalSays
    <2>6. Asked(s)' \subseteq {cur[t]} /\ Turn(s)'
      BY <1>1, <1>2, <2>4, <2>5, TurnBegins DEF Asked, Turn
    <2>7. Waiters(s, "await")' = {t} /\ Waiters(s, "send_global")' = {}
      BY <1>3, <1>8, <2>1, <2>3 DEF Waiters, GlobalPc
    <2>8. Awaited(s)' = {cur[t]}
      BY <2>1, <2>2, <2>7 DEF Awaited
    <2> QED BY <2>1, <2>2, <2>6, <2>7, <2>8 DEF AskedOK, Asked, Turn
  <1>9. CASE Home[t] = s /\ GlobalReturns(t)
    <2>1. /\ pc[t] = "await" /\ pc'[t] = "idle" /\ completion' = completion /\ wire' = wire
          /\ completion[s]
      BY <1>1, <1>5, <1>9 DEF GlobalReturns, Goto, global
    <2>2. Asked(s) = {} /\ Turn(s)
      BY <2>1, NobodyAsks
    <2>3. Asked(s)' = {} /\ Turn(s)'
      BY <1>2, <2>1, <2>2 DEF Asked, Turn, UnderWay, InTurn
    <2>4. \A u \in Threads : Home[u] = s /\ pc[u] \in GlobalPc => u = t
      BY <1>9, <2>1, AskersSame DEF GlobalPc
    <2>5. Waiters(s, "await")' = {} /\ Waiters(s, "send_global")' = {}
      BY <1>3, <2>1, <2>4 DEF Waiters, GlobalPc
    <2> QED BY <2>3, <2>5 DEF AskedOK, Asked, Turn
  <1> QED BY <1>6, <1>7, <1>8, <1>9

\* The transport thread of s or of its peer takes part in a global request, or ends.
LEMMA EndAsks ==
    ASSUME SessionInv, SessionInv', GlobalTypes, Askers, NEW s \in Side, OneAsker(s),
           active[s], active'[s], AskedOK(s), NEW x \in Side,
           ReadGlobal(x) \/ AnswerGlobal(x) \/ ReadGlobalReply(x) \/ EndRun(x)
    PROVE  AskedOK(s)'
  <1>1. /\ Types /\ Types' /\ SideStep(x)
        /\ Peer(s) \in Side /\ Peer(s) # s /\ Peer(Peer(s)) = s /\ x \in {s, Peer(s)}
        /\ Peer(s) \in Procs /\ s \in Procs
    BY SideFacts, ProcFacts DEF SessionInv, SideStep, TransportThread
  <1>2. \A t \in Threads : StillWaits(t) /\ cur'[t] = cur[t] /\ (pc'[t] \in GlobalPc => pc'[t] = pc[t])
    BY <1>1, EndMoves DEF StillWaits, GlobalPc
  <1>3. /\ completion \in [Side -> BOOLEAN] /\ global_response \in [Side -> [num : Nat, ok : BOOLEAN]]
        /\ pc \in [Procs -> Pc] /\ cur \in [Procs -> Nat]
    BY <1>1 DEF Types, GlobalTypes
  <1>4. "global" \notin {"global_reply"} /\ "global_reply" \notin {"global"}
    OBVIOUS
  <1>5. CASE x = s
    <2>1. pc'[Peer(s)] = pc[Peer(s)] /\ cur'[Peer(s)] = cur[Peer(s)]
      BY <1>1, <1>5, SideStill
    <2>2. CASE ReadGlobal(s)
      <3>1. Hears(s, "global") /\ completion' = completion /\ global_response' = global_response
        BY <2>2, Listens DEF ReadGlobal, global
      <3>2. AllPass({"global_reply"})
        BY <1>4, <3>1, HearsPasses
      <3>3. Passes(wire[Peer(s)], wire'[Peer(s)], {"global"})
        BY <3>1 DEF Hears, Passes
      <3> QED BY <1>1, <1>2, <2>1, <3>1, <3>2, <3>3, AskedQuiet DEF AllPass
    <2>3. CASE AnswerGlobal(s)
      <3>1. Says(s, "global_reply", cur[s]) /\ completion' = completion
            /\ global_response' = global_response
        BY <2>3, AnswerGlobalSays DEF AnswerGlobal, global
      <3>2. AllPass({"global"})
        BY <1>4, <3>1, SaysPasses
      <3>3. Passes(wire[s], wire'[s], {"global_reply"})
        BY <3>1 DEF Says, Passes
      <3> QED BY <1>1, <1>2, <2>1, <3>1, <3>2, <3>3, AskedQuiet DEF AllPass
    <2>4. CASE ReadGlobalReply(s)
      <3>1. PICK m : m = wire[s][1]
        OBVIOUS
      <3>2. Hears(s, "global_reply") /\ m = Head(wire[s]) /\ pc' = pc /\ cur' = cur
        BY <2>4, <3>1, Listens DEF ReadGlobalReply, local
      <3>3. /\ completion' = [completion EXCEPT ![s] = TRUE]
            /\ global_response' = [global_response EXCEPT ![s] = [num |-> m.num, ok |-> m.ok]]
        BY <2>4, <3>2 DEF ReadGlobalReply
      <3>4. completion'[s] /\ global_response'[s].num = m.num
        BY <1>3, <3>3
      <3>5. Turn(s)' /\ Asked(s)' = {} /\ m.num \in Asked(s)
        <4>1. InTurn(s, {"global"}, {"answer_global"}, {"global_reply"})
          BY DEF AskedOK
        <4>2. "global_reply" \in {"global_reply"}
          OBVIOUS
        <4> QED BY <1>1, <2>1, <3>1, <3>2, <4>1, <4>2, TurnEnds DEF Turn, Asked
      <3>6. m.num \in Awaited(s)
        BY <3>5 DEF AskedOK, Asked
      <3>7. PICK t \in Waiters(s, "await") : m.num = cur[t]
        BY <3>6 DEF Awaited
      <3>8. \A u \in Threads : Home[u] = s /\ pc[u] \in GlobalPc => u = t
        BY <3>7, AskersSame DEF Waiters, GlobalPc
      <3>9. Waiters(s, "await")' \subseteq {t} /\ Waiters(s, "send_global")' = {}
        BY <3>2, <3>7, <3>8 DEF Waiters, GlobalPc
      <3> QED BY <3>2, <3>4, <3>5, <3>7, <3>9 DEF AskedOK, Asked, Turn
    <2>5. CASE EndRun(s)
      BY <1>1, <2>5 DEF EndRun, Types
    <2> QED BY <1>5, <2>2, <2>3, <2>4, <2>5
  <1>6. CASE x = Peer(s)
    <2>1. CASE ReadGlobal(Peer(s))
      <3>1. Hears(Peer(s), "global") /\ completion' = completion
            /\ global_response' = global_response /\ wire[Peer(s)][1] = Head(wire[Peer(s)])
            /\ cur' = [cur EXCEPT ![Peer(s)] = Head(wire[Peer(s)]).num]
        BY <1>1, <2>1, Listens DEF ReadGlobal, global
      <3>2. cur'[Peer(s)] = wire[Peer(s)][1].num
        BY <1>1, <1>3, <3>1
      <3>3. Turn(s)' /\ Asked(s)' \subseteq Asked(s)
        <4>1. InTurn(s, {"global"}, {"answer_global"}, {"global_reply"}) /\ "global" \in {"global"}
          BY DEF AskedOK
        <4> QED BY <1>1, <3>1, <3>2, <4>1, TurnTaken DEF Turn, Asked
      <3> QED BY <1>2, <3>1, <3>3, StillAsked
    <2>2. CASE AnswerGlobal(Peer(s))
      <3>1. Says(Peer(s), "global_reply", cur[Peer(s)]) /\ completion' = completion
            /\ global_response' = global_response /\ pc[Peer(s)] = "answer_global"
        BY <1>1, <2>2, AnswerGlobalSays DEF AnswerGlobal, global
      <3>2. pc'[Peer(s)] \notin {"answer_global"}
        BY <1>1, <1>3, <2>2 DEF AnswerGlobal, SendMessage, Goto
      <3>3. Turn(s)' /\ Asked(s)' \subseteq Asked(s)
        <4>1. /\ InTurn(s, {"global"}, {"answer_global"}, {"global_reply"})
              /\ pc[Peer(s)] \in {"answer_global"}
          BY <3>1 DEF AskedOK
        <4> QED BY <1>1, <3>1, <3>2, <4>1, TurnAnswered DEF Turn, Asked
      <3> QED BY <1>2, <3>1, <3>3, StillAsked
    <2>3. CASE ReadGlobalReply(Peer(s))
      <3>1. Hears(Peer(s), "global_reply") /\ pc' = pc /\ cur' = cur
        BY <1>1, <2>3, Listens DEF ReadGlobalReply, local
      <3>2. completion'[s] = completion[s] /\ global_response'[s] = global_response[s]
        BY <1>1, <1>3, <2>3 DEF ReadGlobalReply
      <3>3. AllPass({"global"})
        BY <1>1, <1>4, <3>1, HearsPasses
      <3>4. Passes(wire[s], wire'[s], {"global_reply"})
        BY <1>1, <3>1 DEF Hears, Passes
      <3> QED BY <1>1, <1>2, <3>1, <3>2, <3>3, <3>4, AskedQuiet DEF AllPass
    <2>4. CASE EndRun(Peer(s))
      <3>1. wire' = wire /\ completion'[s] = completion[s] /\ global_response' = global_response
        BY <1>1, <1>3, <2>4 DEF EndRun
      <3>2. pc'[Peer(s)] # "answer_global"
        BY <1>1, <1>3, <2>4, ProcFacts DEF EndRun, NotifyOne, Goto
      <3> QED BY <1>1, <1>2, <3>1, <3>2, AskedQuiet DEF Passes
    <2> QED BY <1>6, <2>1, <2>2, <2>3, <2>4
  <1> QED BY <1>1, <1>5, <1>6

\* The steps of global requests, and the end of run().
AsksOrEnds ==
    \/ \E t \in Threads : GlobalRequest(t) \/ SendGlobal(t) \/ GlobalReturns(t)
    \/ \E x \in Side : ReadGlobal(x) \/ AnswerGlobal(x) \/ ReadGlobalReply(x) \/ EndRun(x)
    \/ \E x \in Side : ReadNewKeys(x)

\* No other step has to do with them.
LEMMA NotAsking ==
    ASSUME SessionInv, [Next]_vars, ~AsksOrEnds
    PROVE  /\ completion' = completion /\ global_response' = global_response
           /\ AllPass({"global"}) /\ AllPass({"global_reply"})
           /\ \A x \in Side :
                 pc'[x] = "answer_global" => pc[x] = "answer_global" /\ cur'[x] = cur[x]
           /\ \A t \in Threads : StillWaits(t)
  <1>1. Types /\ pc \in [Procs -> Pc] /\ cur \in [Procs -> Nat]
    BY DEF SessionInv, Types
  <1>2. AllPass({"global"}) /\ AllPass({"global_reply"})
    <2>1. ~Concerns({"global"}) /\ ~Concerns({"global_reply"})
      BY DEF Concerns, AsksOrEnds, ChannelType
    <2> QED BY <2>1, Traffic
  <1>3. completion' = completion /\ global_response' = global_response
    <2>1. ASSUME NEW t \in Threads, OwnStep(t)
          PROVE  completion' = completion /\ global_response' = global_response
      BY <2>1, Zenon DEF AsksOrEnds, global, OwnStep, CallInProgress, Register, SendOpen, OpenWait,
           OpenLookup, OpenRaises, AcceptReturns, EventPending,
           SendRequest, EventReturns, StatusReturns, CloseUnlink, OpenChannel, OpenTimeout,
           Accept, AcceptTimeout, Share, ExecCommand, RecvExitStatus,
           SendExitStatus, Close, CloseTransport, SendClose, SendFails
    <2>2. ASSUME NEW s \in Side, SideStep(s)
          PROVE  completion' = completion /\ global_response' = global_response
      BY <2>2, Zenon DEF AsksOrEnds, global, SideStep, TransportThread, IgnoreDead, ReadOpen, Decide,
           AnswerOpen, QueueIncoming, ReadOpenSuccess, ReadOpenFailure,
           ReadRequest, AnswerRequest, ReadExitStatus,
           ReadSuccess, ReadFailure, ReadClose, EndLoop, RunUnlink, Collect, SendClose, SendFails
    <2> QED BY <2>1, <2>2, Steps DEF vars, global
  <1>4. ASSUME NEW x \in Side, pc'[x] = "answer_global"
        PROVE  pc[x] = "answer_global" /\ cur'[x] = cur[x]
    <2>1. CASE SideStep(x)
      <3>1. x \in Procs /\ x \notin Threads /\ At(x) = x
        BY ProcFacts
      <3>2. CASE UNCHANGED <<pc, cur>>
        BY <1>4, <3>2
      <3>3. CASE \E l : l # "answer_global" /\ (Goto(x, l) \/ NotifyOne(x, l))
        BY <1>1, <1>4, <3>1, <3>3 DEF Goto, NotifyOne
      <3>4. UNCHANGED <<pc, cur>> \/ \E l : l # "answer_global" /\ (Goto(x, l) \/ NotifyOne(x, l))
        BY <2>1, <3>1, Zenon DEF AsksOrEnds, SideStep, TransportThread, IgnoreDead,
           ReadOpen, Decide, AnswerOpen, QueueIncoming, ReadOpenSuccess, ReadOpenFailure,
           ReadRequest, AnswerRequest, ReadExitStatus, SendMessage, CloseInternal,
           ReadSuccess, ReadFailure, ReadClose, EndLoop, RunUnlink, Collect, SendClose,
           SendFails, local
      <3> QED BY <3>2, <3>3, <3>4
    <2>2. CASE (\E t \in Threads : OwnStep(t)) \/ SideStep(Peer(x)) \/ UNCHANGED vars
      BY <1>1, <1>4, <2>2, SideStill
    <2> QED BY <2>1, <2>2, Steps, SideFacts
  <1>5. ASSUME NEW t \in Threads PROVE StillWaits(t)
    <2>1. t \in Procs /\ t \notin Side
      BY ProcFacts
    <2>2. CASE Passive(t)
      BY <1>1, <2>2, MovesItself DEF StillWaits, GlobalPc
    <2>3. CASE OwnStep(t)
      <3>1. pc[t] # "await" /\ (UNCHANGED <<pc, cur>> \/ \E l : l \notin GlobalPc /\ Goto(t, l))
        BY <2>1, <2>3 DEF AsksOrEnds, OwnStep, CallInProgress, Register, SendOpen,
           OpenWait, OpenLookup, OpenRaises, AcceptReturns, EventPending, Calls,
           SendRequest, EventReturns, StatusReturns, CloseUnlink, OpenChannel, OpenTimeout,
           Accept, AcceptTimeout, Share, ExecCommand, RecvExitStatus, PopAccepted,
           SendExitStatus, Close, CloseTransport, SendClose, SendFails, local, GlobalPc
      <3> QED BY <1>1, <2>1, <3>1 DEF StillWaits, Goto
    <2> QED BY <2>2, <2>3, Whose
  <1> QED BY <1>2, <1>3, <1>4, <1>5

LEMMA GlobalInit == Init => GlobalInv
  <1> SUFFICES ASSUME Init PROVE GlobalInv
    OBVIOUS
  <1>1. /\ wire = [s \in Side |-> <<>>] /\ pc = [p \in Procs |-> "idle"]
        /\ completion = [s \in Side |-> FALSE]
        /\ global_response = [s \in Side |-> [num |-> 0, ok |-> FALSE]]
    BY DEF Init
  <1>2. GlobalTypes
    BY <1>1 DEF GlobalTypes
  <1>3. \A t \in Threads : pc[t] = "idle"
    BY <1>1, ProcFacts
  <1>4. ASSUME NEW s \in Side PROVE AskedOK(s)
    <2>1. wire[s] = <<>> /\ wire[Peer(s)] = <<>> /\ pc[Peer(s)] = "idle"
      BY <1>1, SideFacts, ProcFacts
    <2>2. Len(wire[s]) = 0 /\ Len(wire[Peer(s)]) = 0
      BY <2>1
    <2>3. NumbersOf(wire[s], {"global_reply"}) = {} /\ NumbersOf(wire[Peer(s)], {"global"}) = {}
      BY <2>2 DEF NumbersOf
    <2>4. AtMostOne(wire[s], {"global_reply"}) /\ AtMostOne(wire[Peer(s)], {"global"})
      BY <2>2 DEF AtMostOne
    <2> QED BY <1>3, <2>1, <2>3, <2>4 DEF AskedOK, InTurn, UnderWay, Waiters
  <1> QED BY <1>2, <1>3, <1>4 DEF GlobalInv, Askers, GlobalPc

LEMMA GlobalTypesStep ==
    ASSUME SessionInv, GlobalTypes, [Next]_vars
    PROVE  GlobalTypes'
  <1>1. CASE ~AsksOrEnds
    BY <1>1, NotAsking DEF GlobalTypes
  <1>2. ASSUME NEW t \in Threads, GlobalRequest(t) \/ SendGlobal(t) \/ GlobalReturns(t)
        PROVE  GlobalTypes'
    <2>1. global_response' = global_response
      BY <1>2 DEF GlobalRequest, SendGlobal, GlobalReturns, global
    <2>2. completion' = completion \/ completion' = [completion EXCEPT ![Home[t]] = FALSE]
      BY <1>2 DEF GlobalRequest, SendGlobal, GlobalReturns, global
    <2> QED BY <2>1, <2>2 DEF GlobalTypes
  <1>3. ASSUME NEW x \in Side, ReadGlobal(x) \/ AnswerGlobal(x)
        PROVE  GlobalTypes'
    BY <1>3 DEF ReadGlobal, AnswerGlobal, global, GlobalTypes
  <1>4. ASSUME NEW x \in Side, EndRun(x)
        PROVE  GlobalTypes'
    <2>1. /\ global_response' = global_response
          /\ completion' = completion \/ completion' = [completion EXCEPT ![x] = TRUE]
      BY <1>4 DEF EndRun
    <2> QED BY <2>1 DEF GlobalTypes
  <1>5. ASSUME NEW x \in Side, ReadGlobalReply(x)
        PROVE  GlobalTypes'
    <2>1. PICK m : m = Head(wire[x])
      OBVIOUS
    <2>2. m \in Msg
      BY <1>5, <2>1, Listens DEF ReadGlobalReply
    <2>3. [num |-> m.num, ok |-> m.ok] \in [num : Nat, ok : BOOLEAN]
      BY <2>2 DEF Msg
    <2>4. /\ completion' = [completion EXCEPT ![x] = TRUE]
          /\ global_response' = [global_response EXCEPT ![x] = [num |-> m.num, ok |-> m.ok]]
      BY <1>5, <2>1 DEF ReadGlobalReply
    <2> QED BY <2>3, <2>4 DEF GlobalTypes
  <1>6. ASSUME NEW x \in Side, ReadNewKeys(x)
        PROVE  GlobalTypes'
    BY <1>6 DEF ReadNewKeys, GlobalTypes
  <1> QED BY <1>1, <1>2, <1>3, <1>4, <1>5, <1>6 DEF AsksOrEnds

LEMMA GlobalStep ==
    ASSUME SessionInv, SessionInv', GlobalInv, [Next]_vars
    PROVE  GlobalInv'
  <1>1. GlobalTypes /\ Askers /\ Types /\ Types'
    BY DEF GlobalInv, SessionInv
  <1>2. GlobalTypes' /\ Askers'
    BY <1>1, GlobalTypesStep, AskersStep
  <1>3. ASSUME NEW s \in Side, OneAsker(s)', active'[s]
        PROVE  AskedOK(s)'
    <2>1. OneAsker(s) /\ active[s]
      BY <1>1, <1>3, SameScenario, ActiveBefore DEF OneAsker, Callers
    <2>2. AskedOK(s)
      BY <2>1 DEF GlobalInv
    <2>3. CASE AsksOrEnds
      <3>1. ~\E x \in Side : ReadNewKeys(x)
        BY <2>1 DEF OneAsker, ReadNewKeys
      <3> QED BY <1>1, <1>3, <2>1, <2>2, <2>3, <3>1, ThreadAsks, EndAsks DEF AsksOrEnds
    <2>4. CASE ~AsksOrEnds
      BY <1>1, <2>2, <2>4, NotAsking, AskedQuiet, SideFacts DEF AllPass
    <2> QED BY <2>3, <2>4
  <1> QED BY <1>2, <1>3 DEF GlobalInv

\* With one requester global_request returns the answer to its own request as
\* long as the session lasts and no re-key ends in it, whatever timeouts, other
\* calls and requests of the peer there are (global_request,
\* _parse_global_request, _parse_request_success).
THEOREM AnswerIsOwn == Spec => GlobalAnswerOwn
  <1>1. ASSUME SessionInv, GlobalInv, [Next]_vars, NEW t \in Threads, ~scenario.rekeys,
               Cardinality(Callers(Home[t], "global_request")) <= 1,
               pc[t] = "await", pc'[t] = "idle", active[Home[t]]
        PROVE  global_response[Home[t]].num = cur[t]
    <2>1. Types /\ Home[t] \in Side /\ AskedOK(Home[t])
      BY <1>1, ProcFacts DEF SessionInv, GlobalInv, OneAsker
    <2>2. OwnStep(t)
      BY <1>1, <2>1, Whose, MovesItself
    <2>3. GlobalReturns(t)
      BY <1>1, <2>2, ProcFacts DEF OwnStep, CallInProgress, Register, SendOpen, OpenWait,
           OpenLookup, OpenRaises, AcceptReturns, SendGlobal, EventPending, SendRequest,
           EventReturns, StatusReturns, CloseUnlink, OpenChannel, OpenTimeout, Accept,
           AcceptTimeout, GlobalRequest, Share, ExecCommand, RecvExitStatus, SendExitStatus,
           Close, CloseTransport, SendClose, SendFails, Calls
    <2>4. completion[Home[t]]
      BY <1>1, <2>3 DEF GlobalReturns
    <2> QED BY <1>1, <2>1, <2>4 DEF AskedOK, Waiters
  <1>2. SessionInv /\ GlobalInv /\ [Next]_vars =>
          [\A t \in Threads :
             ~scenario.rekeys /\ Cardinality(Callers(Home[t], "global_request")) <= 1
               => ReturnsAnswer(t)]_vars
    BY <1>1 DEF ReturnsAnswer
  <1>3. SessionInv /\ SessionInv' /\ GlobalInv /\ [Next]_vars => GlobalInv'
    BY GlobalStep
  <1> QED BY <1>2, <1>3, GlobalInit, NumbersAgree, PTL DEF Spec, GlobalAnswerOwn

-----------------------------------------------------------------------------
(* The life of an object while the session lasts *)

\* What a step may do to object r of end s.
Lives(s, r) ==
    /\ Made(s, r) => chan'[s][r].id = chan[s][r].id
    /\ Made(s, r) /\ chan[s][r].exit_status => chan'[s][r].exit_status
    /\ chan[s][r].st = "closed" => chan'[s][r].st = "closed"
    /\ chan[s][r].st = "open" => chan'[s][r].st \in {"open", "closed"}
    /\ chan[s][r].st = "opening" =>
         \/ chan'[s][r].st = "opening"
         \/ /\ ReadOpenSuccess(s) /\ wire[s][1].num = r /\ ~Unmapped(s, r)
            /\ chan'[s][r].st = "open"
    /\ Made(s, r) /\ Unmapped(s, r) => Unmapped(s, r)'
    /\ Made(s, r)' /\ Unmapped(s, r)' =>
         \/ Made(s, r) /\ Unmapped(s, r)
         \/ Collect(s, r)
         \/ ReadClose(s) /\ wire[s][1].num = r
         \/ chan'[s][r].st = "opening"

\* The object stays in the map or out of it, and is at most closed.
LEMMA LivesOn ==
    ASSUME NEW s, NEW r, chan'[s][r].id = chan[s][r].id, channels'[s] = channels[s],
           chan[s][r].exit_status => chan'[s][r].exit_status,
           \/ chan'[s][r].st = chan[s][r].st
           \/ chan[s][r].st = "open" /\ chan'[s][r].st = "closed"
    PROVE  Lives(s, r)
  BY DEF Lives, Made, Unmapped

\* An object q is made at x, or its number reserved.
LEMMA LivesEntered ==
    ASSUME Types, NEW x \in Side, NEW q \in Opens, NEW c \in Object, NEW i \in Ids,
           ~Made(x, q), chan' = [chan EXCEPT ![x][q] = c],
           \/ c.st = "none" /\ channels' = channels
           \/ /\ c.id = i /\ channels' = [channels EXCEPT ![x][i] = q]
              /\ \A r \in Opens : Made(x, r) => chan[x][r].id # i,
           NEW s \in Side, NEW r \in Opens
    PROVE  Lives(s, r)
  <1>1. /\ chan \in [Side -> [Opens -> Object]] /\ channels \in [Side -> [Ids -> Opens \cup {0}]]
        /\ chan[s][r].id \in Ids
    BY DEF Types, Object
  <1>2. chan'[s][r] = IF s = x /\ r = q THEN c ELSE chan[s][r]
    BY <1>1
  <1>3. CASE s # x
    <2>1. channels'[s] = channels[s] /\ chan'[s][r] = chan[s][r]
      BY <1>1, <1>2, <1>3
    <2> QED BY <2>1, LivesOn
  <1>4. CASE s = x /\ r # q /\ ~Made(s, r)
    BY <1>2, <1>4 DEF Lives, Made
  <1>5. CASE s = x /\ r # q /\ Made(s, r)
    <2>1. chan'[s][r] = chan[s][r] /\ channels'[s][chan[s][r].id] = channels[s][chan[s][r].id]
      BY <1>1, <1>2, <1>5
    <2> QED BY <2>1 DEF Lives, Made, Unmapped
  <1>6. CASE s = x /\ r = q /\ c.st = "none"
    BY <1>2, <1>6 DEF Lives, Made
  <1>7. CASE s = x /\ r = q /\ c.st # "none"
    <2>1. channels'[s][chan'[s][r].id] = r
      BY <1>1, <1>2, <1>7
    <2> QED BY <1>7, <2>1 DEF Lives, Made, Unmapped
  <1> QED BY <1>3, <1>4, <1>5, <1>6, <1>7

\* The three steps that do so.
LEMMA MakingLives ==
    ASSUME SessionInv, NEW s \in Side, NEW r \in Opens,
           (\E t \in Threads : Register(t)) \/ \E x \in Side : ReadOpen(x) \/ Decide(x)
    PROVE  Lives(s, r)
  <1>1. Types
    BY DEF SessionInv
  <1>2. ASSUME NEW t \in Threads, Register(t) PROVE Lives(s, r)
    <2>1. PICK x : x = Home[t]
      OBVIOUS
    <2>2. PICK q : q = cur[t]
      OBVIOUS
    <2>3. PICK n : n = channel_counter[x]
      OBVIOUS
    <2>4. x \in Side /\ pc[t] = "register" /\ TablesOK(x)
      BY <1>2, <2>1, ProcFacts DEF Register, SessionInv
    <2>5. q \in Opens
      BY <1>2, <2>2, <2>4, HeldNow, NumberFacts DEF CallOK, OpenPc, Types
    <2>6. Coming(x, q)
      BY <2>2, <2>4 DEF Coming
    <2>7. NextChannel(x) = n /\ n \in Ids /\ ~Made(x, q)
      BY <2>3, <2>4, <2>5, <2>6, NextNumber
    <2>8. PICK c : c = NewChannel(n, 0, "opening")
      OBVIOUS
    <2>9. c \in Object /\ c.id = n
      BY <2>7, <2>8, NumberFacts, NewChannelFacts DEF ChannelState
    <2>10. chan' = [chan EXCEPT ![x][q] = c] /\ channels' = [channels EXCEPT ![x][n] = q]
      BY <1>2, <2>1, <2>2, <2>7, <2>8 DEF Register
    <2>11. \A w \in Opens : Made(x, w) => chan[x][w].id # n
      BY <1>1, <2>3, <2>4 DEF TablesOK, Numbered, Types
    <2> QED BY <1>1, <2>4, <2>5, <2>7, <2>9, <2>10, <2>11, LivesEntered
  <1>3. ASSUME NEW x \in Side, ReadOpen(x) PROVE Lives(s, r)
    <2>1. PICK m : m = Head(wire[x])
      OBVIOUS
    <2>2. Reads(x, "open")
      BY <1>3 DEF ReadOpen
    <2>3. m = wire[x][1] /\ m.type = "open" /\ m \in Msg /\ PacketOK(x, m) /\ 1 \in 1 .. Len(wire[x])
      BY <2>1, <2>2, ReadsFacts
    <2>4. m.num \in Opens /\ Coming(x, m.num) /\ m.from \in Ids /\ 0 \in Ids
      BY <2>3, NumberFacts DEF PacketOK, Coming, Msg
    <2>5. ~Made(x, m.num) /\ NextChannel(x) \in Ids
      BY <2>4, NextNumber
    <2>6. PICK i \in Ids : chan' = [chan EXCEPT ![x][m.num] = NewChannel(i, m.from, "none")]
      BY <1>3, <2>1, <2>4, <2>5 DEF ReadOpen
    <2>7. PICK c : c = NewChannel(i, m.from, "none")
      OBVIOUS
    <2>8. c \in Object /\ c.st = "none"
      BY <2>4, <2>7, NewChannelFacts DEF ChannelState
    <2>9. channels' = channels /\ chan' = [chan EXCEPT ![x][m.num] = c]
      BY <1>3, <2>6, <2>7 DEF ReadOpen
    <2> QED BY <1>1, <2>4, <2>5, <2>8, <2>9, LivesEntered
  <1>4. ASSUME NEW x \in Side, Decide(x) PROVE Lives(s, r)
    <2>1. PICK q : q = cur[x]
      OBVIOUS
    <2>2. PICK i : i = chan[x][q].id
      OBVIOUS
    <2>3. pc[x] = "decide" /\ "decide" \in Answering /\ TablesOK(x)
      BY <1>4 DEF Decide, Answering, SessionInv
    <2>4. q \in Opens /\ ~Made(x, q) /\ Numbered(x, q)
      BY <2>1, <2>3, EndNow DEF EndHolds, Numbered
    <2>5. i \in Ids /\ chan[x][q] \in Object
      BY <1>1, <2>2, <2>4 DEF Types, Object
    <2>6. CASE UNCHANGED <<chan, channels>>
      BY <2>6, LivesOn
    <2>7. CASE /\ chan' = [chan EXCEPT ![x][q].st = "open"]
               /\ channels' = [channels EXCEPT ![x][i] = q]
      <3>1. PICK c : c = [chan[x][q] EXCEPT !.st = "open"]
        OBVIOUS
      <3>2. c \in Object /\ c.id = i
        BY <2>2, <2>5, <3>1 DEF Object, ChannelState
      <3>3. chan' = [chan EXCEPT ![x][q] = c]
        BY <2>7, <3>1
      <3>4. \A w \in Opens : Made(x, w) => chan[x][w].id # i
        BY <2>2, <2>3, <2>4 DEF TablesOK, Numbered
      <3>5. \/ c.st = "none" /\ channels' = channels
            \/ /\ c.id = i /\ channels' = [channels EXCEPT ![x][i] = q]
               /\ \A w \in Opens : Made(x, w) => chan[x][w].id # i
        BY <2>7, <3>2, <3>4
      <3> QED BY <1>1, <2>4, <2>5, <3>2, <3>3, <3>5, LivesEntered
    <2> QED BY <1>4, <2>1, <2>2, <2>6, <2>7 DEF Decide
  <1> QED BY <1>2, <1>3, <1>4

\* The flags of an object q change, or it is closed; it may leave the map.
LEMMA ReplacedLives ==
    ASSUME SessionInv, NEW x \in Side, NEW q \in Opens, NEW c \in Object, Made(x, q),
           chan' = [chan EXCEPT ![x][q] = c], c.id = chan[x][q].id,
           chan[x][q].exit_status => c.exit_status,
           c.st = chan[x][q].st \/ (chan[x][q].st = "open" /\ c.st = "closed"),
           \/ channels' = channels
           \/ /\ channels' = [channels EXCEPT ![x][c.id] = 0]
              /\ Collect(x, q) \/ (ReadClose(x) /\ wire[x][1].num = q),
           NEW s \in Side, NEW r \in Opens
    PROVE  Lives(s, r)
  <1>1. /\ chan \in [Side -> [Opens -> Object]] /\ channels \in [Side -> [Ids -> Opens \cup {0}]]
        /\ chan[s][r].id \in Ids /\ c.id \in Ids /\ r # 0
    <2>1. chan \in [Side -> [Opens -> Object]] /\ channels \in [Side -> [Ids -> Opens \cup {0}]]
      BY DEF SessionInv, Types
    <2>2. chan[s][r] \in Object
      BY <2>1
    <2>3. \A d \in Object : d.id \in Ids
      BY DEF Object
    <2> QED BY <2>1, <2>2, <2>3, NumberFacts
  <1>2. chan'[s][r] = IF s = x /\ r = q THEN c ELSE chan[s][r]
    BY <1>1
  <1>3. CASE s # x
    <2>1. channels'[s] = channels[s] /\ chan'[s][r] = chan[s][r]
      BY <1>1, <1>2, <1>3
    <2> QED BY <2>1, LivesOn
  <1>4. CASE s = x /\ r # q /\ ~Made(s, r)
    BY <1>2, <1>4 DEF Lives, Made
  <1>5. CASE s = x /\ r # q /\ Made(s, r)
    <2>1. chan[s][r].id # c.id
      BY <1>5, EndNow DEF TablesOK, Numbered
    <2>2. chan'[s][r] = chan[s][r] /\ channels'[s][chan[s][r].id] = channels[s][chan[s][r].id]
      BY <1>1, <1>2, <1>5, <2>1
    <2> QED BY <2>2 DEF Lives, Made, Unmapped
  <1>6. CASE s = x /\ r = q /\ channels' = channels
    <2>1. chan'[s][r] = c /\ channels'[s] = channels[s]
      BY <1>2, <1>6
    <2> QED BY <1>6, <2>1, LivesOn
  <1>7. CASE s = x /\ r = q /\ channels' # channels
    <2>1. chan'[s][r] = c /\ channels'[s][c.id] = 0
      BY <1>1, <1>2, <1>7
    <2> QED BY <1>1, <1>7, <2>1 DEF Lives, Made, Unmapped
  <1> QED BY <1>3, <1>4, <1>5, <1>6, <1>7

LEMMA ClosedStatus ==
    ASSUME NEW c \in Object
    PROVE  Closed(c).exit_status = c.exit_status
  BY DEF Object, Closed

\* A channel is closed, or _event_pending called.
LEMMA ThreadLives ==
    ASSUME SessionInv, NEW t \in Threads, EventPending(t) \/ Close(t),
           NEW s \in Side, NEW r \in Opens
    PROVE  Lives(s, r)
  <1>1. PICK x : x = Home[t]
    OBVIOUS
  <1>2. PICK q : q = own[t]
    OBVIOUS
  <1>3. q # 0 /\ channels' = channels
    BY <1>2, HeldNow DEF EventPending, Close, HoldsOpen, ThreadHolds, RequestPc
  <1>4. x \in Side /\ q \in Opens /\ Made(x, q) /\ chan[x][q] \in Object
    BY <1>1, <1>2, <1>3, HeldNow DEF Addressable, Types
  <1>5. CASE EventPending(t)
    <2>1. PICK c : c = [chan[x][q] EXCEPT !.event = FALSE, !.event_ready = FALSE]
      OBVIOUS
    <2>2. c \in Object /\ c.id = chan[x][q].id /\ c.st = chan[x][q].st
          /\ c.exit_status = chan[x][q].exit_status
      BY <1>4, <2>1 DEF Object
    <2>3. chan' = [chan EXCEPT ![x][q].event = FALSE, ![x][q].event_ready = FALSE]
      BY <1>1, <1>2, <1>5 DEF EventPending
    <2>4. chan' = [chan EXCEPT ![x][q] = c]
      <3>1. chan \in [Side -> [Opens -> Object]]
        BY DEF SessionInv, Types
      <3> QED BY <1>4, <2>1, <2>3, <3>1
    <2> QED BY <1>3, <1>4, <2>2, <2>4, ReplacedLives
  <1>6. CASE Close(t)
    <2>1. PICK c : c = Closed(chan[x][q])
      OBVIOUS
    <2>2. c \in Object /\ c.id = chan[x][q].id /\ c.st = "closed" /\ chan[x][q].st = "open"
          /\ c.exit_status = chan[x][q].exit_status
      BY <1>1, <1>2, <1>4, <1>6, <2>1, ClosedFacts, ClosedStatus DEF Close, HoldsOpen
    <2>3. chan' = [chan EXCEPT ![x][q] = c]
      BY <1>1, <1>2, <1>6, <2>1 DEF Close
    <2> QED BY <1>3, <1>4, <2>2, <2>3, ReplacedLives
  <1> QED BY <1>5, <1>6

\* An object that is let go of.
LEMMA CollectLives ==
    ASSUME SessionInv, NEW x \in Side, NEW q \in Opens, Collect(x, q),
           NEW s \in Side, NEW r \in Opens
    PROVE  Lives(s, r)
  <1>1. /\ Made(x, q) /\ chan[x][q] \in Object /\ chan \in [Side -> [Opens -> Object]]
        /\ channels' = [channels EXCEPT ![x][chan[x][q].id] = 0]
    BY DEF Collect, Made, SessionInv, Types
  <1>2. CASE chan[x][q].st = "open" /\ chan' = [chan EXCEPT ![x][q] = Closed(@)]
    <2>1. PICK c : c = Closed(chan[x][q])
      OBVIOUS
    <2>2. c \in Object /\ c.id = chan[x][q].id /\ c.st = "closed"
          /\ c.exit_status = chan[x][q].exit_status
      BY <1>1, <2>1, ClosedFacts, ClosedStatus
    <2>3. chan' = [chan EXCEPT ![x][q] = c]
      BY <1>2, <2>1
    <2> QED BY <1>1, <1>2, <2>2, <2>3, ReplacedLives
  <1>3. CASE chan' = chan
    <2>1. PICK c : c = chan[x][q]
      OBVIOUS
    <2>2. chan' = [chan EXCEPT ![x][q] = c]
      BY <1>1, <1>3, <2>1
    <2> QED BY <1>1, <2>1, <2>2, ReplacedLives
  <1> QED BY <1>2, <1>3 DEF Collect

\* A packet for one object is read.
LEMMA ReadLives ==
    ASSUME SessionInv, NEW x \in Side,
           ReadExitStatus(x) \/ ReadSuccess(x) \/ ReadFailure(x) \/ ReadClose(x),
           NEW s \in Side, NEW r \in Opens
    PROVE  Lives(s, r)
  <1>1. PICK ty \in ChannelType, q \in Opens :
            /\ ReadsFor(x, ty, q)
            /\ \/ /\ chan' = [chan EXCEPT ![x][q].exit_status = TRUE, ![x][q].status_event = TRUE]
                  /\ channels' = channels
               \/ /\ chan' = [chan EXCEPT ![x][q].event_ready = TRUE, ![x][q].event = TRUE]
                  /\ channels' = channels
               \/ /\ CloseInternal(x, q)
                  /\ \/ channels' = channels
                     \/ ReadClose(x) /\ channels' = [channels EXCEPT ![x][chan[x][q].id] = 0]
    <2>1. {"exit", "success", "failure", "close"} \subseteq ChannelType
      BY DEF ChannelType
    <2>2. CASE ReadExitStatus(x)
      BY <2>1, <2>2 DEF ReadExitStatus
    <2>3. CASE ReadSuccess(x)
      BY <2>1, <2>3 DEF ReadSuccess
    <2>4. CASE ReadFailure(x)
      BY <2>1, <2>4 DEF ReadFailure
    <2>5. CASE ReadClose(x)
      BY <2>1, <2>5, Zenon DEF ReadClose
    <2> QED BY <2>2, <2>3, <2>4, <2>5
  <1>2. q = Head(wire[x]).num /\ Addressable(x, q) /\ Reads(x, ty)
    BY <1>1, ReadsRight, Zenon DEF ReadsFor
  <1>3. q = wire[x][1].num /\ Made(x, q) /\ chan[x][q] \in Object /\ chan \in [Side -> [Opens -> Object]]
    BY <1>2, ReadsFacts DEF Addressable, SessionInv, Types
  <1>4. PICK c : /\ c \in Object /\ c.id = chan[x][q].id
                 /\ chan[x][q].exit_status => c.exit_status
                 /\ c.st = chan[x][q].st \/ (chan[x][q].st = "open" /\ c.st = "closed")
                 /\ chan' = [chan EXCEPT ![x][q] = c]
    <2>1. CASE chan' = [chan EXCEPT ![x][q].exit_status = TRUE, ![x][q].status_event = TRUE]
      <3>1. PICK c : c = [chan[x][q] EXCEPT !.exit_status = TRUE, !.status_event = TRUE]
        OBVIOUS
      <3>2. c \in Object /\ c.id = chan[x][q].id /\ c.st = chan[x][q].st /\ c.exit_status
        BY <1>3, <3>1 DEF Object
      <3>3. chan' = [chan EXCEPT ![x][q] = c]
        BY <1>3, <2>1, <3>1
      <3> QED BY <3>2, <3>3
    <2>2. CASE chan' = [chan EXCEPT ![x][q].event_ready = TRUE, ![x][q].event = TRUE]
      <3>1. PICK c : c = [chan[x][q] EXCEPT !.event_ready = TRUE, !.event = TRUE]
        OBVIOUS
      <3>2. c \in Object /\ c.id = chan[x][q].id /\ c.st = chan[x][q].st
            /\ c.exit_status = chan[x][q].exit_status
        BY <1>3, <3>1 DEF Object
      <3>3. chan' = [chan EXCEPT ![x][q] = c]
        BY <1>3, <2>2, <3>1
      <3> QED BY <3>2, <3>3
    <2>3. CASE chan[x][q].st = "open" /\ chan' = [chan EXCEPT ![x][q] = Closed(@)]
      <3>1. PICK c : c = Closed(chan[x][q])
        OBVIOUS
      <3>2. c \in Object /\ c.id = chan[x][q].id /\ c.st = "closed"
            /\ c.exit_status = chan[x][q].exit_status
        BY <1>3, <3>1, ClosedFacts, ClosedStatus
      <3>3. chan' = [chan EXCEPT ![x][q] = c]
        BY <2>3, <3>1
      <3> QED BY <2>3, <3>2, <3>3
    <2>4. CASE chan' = chan
      <3>1. PICK c : c = chan[x][q]
        OBVIOUS
      <3>2. chan' = [chan EXCEPT ![x][q] = c]
        BY <1>3, <2>4, <3>1
      <3> QED BY <1>3, <3>1, <3>2, Zenon
    <2> QED BY <1>1, <2>1, <2>2, <2>3, <2>4 DEF CloseInternal
  <1>5. \/ channels' = channels
        \/ /\ channels' = [channels EXCEPT ![x][c.id] = 0]
           /\ Collect(x, q) \/ (ReadClose(x) /\ wire[x][1].num = q)
    BY <1>1, <1>3, <1>4, Zenon
  <1> QED BY <1>3, <1>4, <1>5, ReplacedLives

\* The answer to an open call is read.
LEMMA AnswerLives ==
    ASSUME SessionInv, NEW x \in Side, OpenersWait(x), ReadOpenSuccess(x) \/ ReadOpenFailure(x),
           NEW s \in Side, NEW r \in Opens
    PROVE  Lives(s, r)
  <1>1. PICK m : m = Head(wire[x])
    OBVIOUS
  <1>2. /\ chan \in [Side -> [Opens -> Object]] /\ channels \in [Side -> [Ids -> Opens \cup {0}]]
        /\ chan[s][r].id \in Ids /\ r # 0
    <2>1. chan \in [Side -> [Opens -> Object]] /\ channels \in [Side -> [Ids -> Opens \cup {0}]]
      BY DEF SessionInv, Types
    <2>2. chan[s][r] \in Object
      BY <2>1
    <2>3. \A d \in Object : d.id \in Ids
      BY DEF Object
    <2> QED BY <2>1, <2>2, <2>3, NumberFacts
  <1>3. CASE ReadOpenSuccess(x)
    <2>1. PICK q : q = channels[x][m.to]
      OBVIOUS
    <2>2. Reads(x, "open_success") /\ channels' = channels
          /\ \/ q # 0 /\ chan' = [chan EXCEPT ![x][q].remote = m.from, ![x][q].st = "open"]
             \/ chan' = chan
      BY <1>1, <1>3, <2>1, Zenon DEF ReadOpenSuccess
    <2>3. /\ m = wire[x][1] /\ m.type = "open_success" /\ m \in Msg /\ PacketOK(x, m)
          /\ 1 \in 1 .. Len(wire[x])
      BY <1>1, <2>2, ReadsFacts
    <2>4. m.num \in Opens /\ Made(x, m.num) /\ chan[x][m.num].id = m.to /\ m.from \in Ids
      BY <2>3 DEF PacketOK, Msg
    <2>5. chan[x][m.num].st = "opening"
      BY <2>3, <2>4 DEF OpenersWait, OnWay
    <2>6. CASE chan' = chan
      BY <2>2, <2>6, LivesOn
    <2>7. CASE q # 0 /\ chan' = [chan EXCEPT ![x][q].remote = m.from, ![x][q].st = "open"]
      <3>1. q = m.num
        BY <2>1, <2>4, <2>7, NumberOfOne
      <3>2. CASE s = x /\ r = q
        <4>1. chan'[s][r] = [chan[s][r] EXCEPT !.remote = m.from, !.st = "open"]
          BY <1>2, <2>7, <3>2
        <4>2. chan[s][r] \in Object
          BY <1>2
        <4>3. /\ chan'[s][r].id = chan[s][r].id /\ chan'[s][r].st = "open"
              /\ chan'[s][r].exit_status = chan[s][r].exit_status
          BY <4>1, <4>2 DEF Object
        <4>4. ~Unmapped(s, r) /\ wire[s][1].num = r /\ ReadOpenSuccess(s)
          BY <1>3, <2>1, <2>3, <2>4, <3>1, <3>2 DEF Unmapped
        <4> QED BY <2>2, <2>5, <3>1, <3>2, <4>3, <4>4 DEF Lives, Made, Unmapped
      <3>3. CASE ~(s = x /\ r = q)
        <4>1. chan'[s][r] = chan[s][r]
          BY <1>2, <2>4, <2>7, <3>1, <3>3
        <4> QED BY <2>2, <4>1, LivesOn
      <3> QED BY <3>2, <3>3
    <2> QED BY <2>2, <2>6, <2>7
  <1>4. CASE ReadOpenFailure(x)
    <2>1. PICK e : e = channel_events[x][m.to]
      OBVIOUS
    <2>2. Reads(x, "open_failure") /\ chan' = chan
          /\ channels' = [channels EXCEPT ![x][m.to] = IF e # 0 THEN 0 ELSE @]
      BY <1>1, <1>4, <2>1 DEF ReadOpenFailure
    <2>3. m \in Msg /\ PacketOK(x, m) /\ m.to \in Ids
      BY <1>1, <2>2, ReadsFacts DEF Msg
    <2>4. CASE e = 0
      <3>1. channels' = channels
        BY <1>2, <2>2, <2>3, <2>4
      <3> QED BY <2>2, <3>1, LivesOn
    <2>5. CASE e # 0
      <3>1. e \in Opens /\ Made(x, e) /\ chan[x][e].id = m.to /\ chan[x][e].st = "opening"
        BY <2>1, <2>3, <2>5, EventOwner DEF OpenersWait
      <3>2. channels' = [channels EXCEPT ![x][m.to] = 0]
        BY <2>2, <2>5
      <3>3. CASE s = x /\ r = e
        <4>1. channels'[s][chan[s][r].id] = 0
          BY <1>2, <2>3, <3>1, <3>2, <3>3
        <4> QED BY <1>2, <2>2, <3>1, <3>3, <4>1 DEF Lives, Made, Unmapped
      <3>4. CASE s = x /\ r # e /\ Made(s, r)
        <4>1. chan[s][r].id # m.to
          BY <3>1, <3>4, EndNow DEF TablesOK, Numbered
        <4>2. channels'[s][chan[s][r].id] = channels[s][chan[s][r].id]
          BY <1>2, <2>3, <3>2, <4>1
        <4> QED BY <2>2, <4>2 DEF Lives, Made, Unmapped
      <3>5. CASE ~Made(s, r)
        BY <2>2, <3>5 DEF Lives, Made
      <3>6. CASE s # x
        <4>1. channels'[s] = channels[s]
          BY <1>2, <3>2, <3>6
        <4> QED BY <2>2, <4>1, LivesOn
      <3> QED BY <3>3, <3>4, <3>5, <3>6
    <2> QED BY <2>4, <2>5
  <1> QED BY <1>3, <1>4

\* While the session lasts nothing else happens to an object.
LEMMA LivesStep ==
    ASSUME SessionInv, EndsOver, Lasting, \A x \in Side : OpenersWait(x), [Next]_vars,
           NEW s \in Side, NEW r \in Opens
    PROVE  Lives(s, r)
  <1>1. CASE UNCHANGED <<chan, channels>>
    BY <1>1, LivesOn
  <1>2. ASSUME NEW t \in Threads, OwnStep(t) PROVE Lives(s, r)
    <2>1. ~CloseUnlink(t)
      BY ProcFacts DEF CloseUnlink, EndsOver, Lasting
    <2>2. CASE Register(t)
      BY <2>2, MakingLives
    <2>3. CASE EventPending(t) \/ Close(t)
      BY <2>3, ThreadLives
    <2>4. CASE ~(Register(t) \/ EventPending(t) \/ Close(t))
      <3>1. UNCHANGED <<chan, channels>>
        BY <1>2, <2>1, <2>4, Zenon DEF OwnStep, CallInProgress, SendOpen, OpenWait,
           OpenLookup, OpenRaises, AcceptReturns, SendGlobal, GlobalReturns, SendRequest,
           EventReturns, StatusReturns, OpenChannel, OpenTimeout, Accept, AcceptTimeout,
           GlobalRequest, Share, ExecCommand, RecvExitStatus, SendExitStatus,
           CloseTransport, SendClose, SendFails, tables
      <3> QED BY <1>1, <3>1
    <2> QED BY <2>2, <2>3, <2>4
  <1>3. ASSUME NEW x \in Side, SideStep(x) PROVE Lives(s, r)
    <2>1. ~RunUnlink(x)
      BY SideFacts DEF RunUnlink, EndsOver, Lasting
    <2>2. CASE ReadOpen(x) \/ Decide(x)
      BY <2>2, MakingLives
    <2>3. CASE \E q \in Opens : Collect(x, q)
      BY <2>3, CollectLives
    <2>4. CASE ReadExitStatus(x) \/ ReadSuccess(x) \/ ReadFailure(x) \/ ReadClose(x)
      BY <2>4, ReadLives
    <2>5. CASE ReadOpenSuccess(x) \/ ReadOpenFailure(x)
      BY <2>5, AnswerLives
    <2>6. CASE ~(ReadOpen(x) \/ Decide(x) \/ ReadExitStatus(x) \/ ReadSuccess(x)
                 \/ ReadFailure(x) \/ ReadClose(x) \/ ReadOpenSuccess(x) \/ ReadOpenFailure(x)
                 \/ \E q \in Opens : Collect(x, q))
      <3>1. UNCHANGED <<chan, channels>>
        BY <1>3, <2>1, <2>6, Zenon DEF SideStep, TransportThread, IgnoreDead, AnswerOpen,
           QueueIncoming, ReadGlobal, AnswerGlobal, ReadGlobalReply, ReadNewKeys, ReadRequest,
           AnswerRequest, EndLoop, EndRun, SendClose, SendFails, tables
      <3> QED BY <1>1, <3>1
    <2> QED BY <2>2, <2>3, <2>4, <2>5, <2>6
  <1>4. CASE UNCHANGED vars
    BY <1>1, <1>4 DEF vars, tables
  <1> QED BY <1>2, <1>3, <1>4, Steps

-----------------------------------------------------------------------------
(* Packets on their way *)

\* What is taken from the wire was on it, and so was all that is not of type ty2
\* when a packet of that type is sent.
LEMMA OnWayPasses ==
    ASSUME Types, Types', NEW s \in Side, NEW ty, NEW r, OnWay(s, ty, r)',
           Passes(wire[s], wire'[s], {ty}) \/ Taken(wire[s], wire'[s])
    PROVE  OnWay(s, ty, r)
  <1>1. wire[s] \in Seq(Msg) /\ wire'[s] \in Seq(Msg)
    BY DEF Types
  <1>2. PICK i \in 1 .. Len(wire'[s]) : wire'[s][i].type = ty /\ wire'[s][i].num = r
    BY DEF OnWay
  <1>3. CASE wire'[s] = wire[s]
    BY <1>3 DEF OnWay
  <1>4. CASE Taken(wire[s], wire'[s])
    <2>1. i + 1 \in 1 .. Len(wire[s]) /\ wire'[s][i] = wire[s][i + 1]
      BY <1>1, <1>2, <1>4 DEF Taken
    <2> QED BY <1>2, <2>1 DEF OnWay
  <1>5. CASE \E m \in Msg : m.type \notin {ty} /\ Added(wire[s], wire'[s], m)
    <2>1. PICK m \in Msg : m.type # ty /\ Added(wire[s], wire'[s], m)
      BY <1>5
    <2>2. i \in 1 .. Len(wire[s]) /\ wire'[s][i] = wire[s][i]
      BY <1>1, <1>2, <2>1 DEF Added
    <2> QED BY <1>2, <2>2 DEF OnWay
  <1> QED BY <1>3, <1>4, <1>5 DEF Passes

LEMMA OnWaySaid ==
    ASSUME Types, Types', NEW s \in Side, NEW ty, NEW r, OnWay(s, ty, r)',
           NEW x \in Side, NEW sy, NEW n, Says(x, sy, n)
    PROVE  OnWay(s, ty, r) \/ (s = Peer(x) /\ x = Peer(s) /\ ty = sy /\ r = n)
  <1>1. wire[s] \in Seq(Msg) /\ wire'[s] \in Seq(Msg) /\ Peer(x) \in Side /\ Side = {x, Peer(x)}
        /\ Peer(Peer(x)) = x
    BY SideFacts DEF Types
  <1>2. CASE wire'[s] = wire[s]
    BY <1>2 DEF OnWay
  <1>3. CASE s = Peer(x) /\ wire'[s] # wire[s]
    <2>1. PICK m \in Msg : m.type = sy /\ m.num = n /\ Added(wire[s], wire'[s], m)
      BY <1>3 DEF Says
    <2>2. PICK i \in 1 .. Len(wire'[s]) : wire'[s][i].type = ty /\ wire'[s][i].num = r
      BY DEF OnWay
    <2>3. (i \in 1 .. Len(wire[s]) /\ wire'[s][i] = wire[s][i]) \/ wire'[s][i] = m
      BY <1>1, <2>1, <2>2 DEF Added
    <2>4. OnWay(s, ty, r) \/ (ty = sy /\ r = n)
      BY <2>1, <2>2, <2>3 DEF OnWay
    <2> QED BY <1>1, <1>3, <2>4
  <1> QED BY <1>1, <1>2, <1>3 DEF Says

LEMMA OnWayHeard ==
    ASSUME Types, Types', NEW s \in Side, NEW ty, NEW r, OnWay(s, ty, r)',
           NEW x \in Side, NEW sy, Hears(x, sy)
    PROVE  OnWay(s, ty, r)
  <1>1. CASE wire'[s] = wire[s]
    BY <1>1 DEF OnWay
  <1>2. CASE Taken(wire[s], wire'[s])
    BY <1>2, OnWayPasses
  <1> QED BY <1>1, <1>2, SideFacts DEF Hears

\* A packet that has come onto the wire: who sent it.
LEMMA OpenSent ==
    ASSUME SessionInv, SessionInv', [Next]_vars, NEW s \in Side, NEW r,
           OnWay(s, "open", r)', ~OnWay(s, "open", r)
    PROVE  \E t \in Threads : SendOpen(t) /\ Home[t] = Peer(s) /\ cur[t] = r
  <1>1. Types /\ Types'
    BY DEF SessionInv
  <1>2. ASSUME NEW x \in Side, ReadOpen(x) PROVE FALSE
    BY <1>1, <1>2, Listens, OnWayHeard DEF ReadOpen
  <1>3. ASSUME NEW t \in Threads, SendOpen(t) PROVE Home[t] = Peer(s) /\ cur[t] = r
    <2>1. Home[t] \in Side /\ Says(Home[t], "open", cur[t])
      BY <1>3, SendOpenSays, ProcFacts
    <2> QED BY <1>1, <2>1, OnWaySaid
  <1>4. CASE ~Concerns({"open"})
    <2>1. AllPass({"open"})
      BY <1>4, Traffic
    <2> QED BY <1>1, <2>1, OnWayPasses DEF AllPass
  <1>5. CASE Concerns({"open"})
    <2>1. (\E x \in Side : ReadOpen(x)) \/ \E t \in Threads : SendOpen(t)
      BY <1>5 DEF Concerns, ChannelType
    <2> QED BY <1>2, <1>3, <2>1
  <1> QED BY <1>4, <1>5

LEMMA SuccessSent ==
    ASSUME SessionInv, SessionInv', [Next]_vars, NEW s \in Side, NEW r,
           OnWay(s, "open_success", r)', ~OnWay(s, "open_success", r)
    PROVE  AnswerOpen(Peer(s)) /\ pc[Peer(s)] = "accept_open" /\ cur[Peer(s)] = r
  <1>1. Types /\ Types'
    BY DEF SessionInv
  <1>2. ASSUME NEW x \in Side, ReadOpenSuccess(x) PROVE FALSE
    <2>1. Reads(x, "open_success")
      BY <1>2, Zenon DEF ReadOpenSuccess
    <2> QED BY <1>1, <2>1, Listens, OnWayHeard
  <1>3. ASSUME NEW x \in Side, AnswerOpen(x)
        PROVE  x = Peer(s) /\ pc[x] = "accept_open" /\ cur[x] = r
    <2>1. CASE pc[x] = "accept_open"
      <3>1. Says(x, "open_success", cur[x])
        BY <1>3, <2>1, AnswerOpenSays
      <3> QED BY <1>1, <2>1, <3>1, OnWaySaid
    <2>2. CASE pc[x] = "refuse_open"
      <3>1. Says(x, "open_failure", cur[x])
        BY <1>3, <2>2, AnswerOpenSays
      <3>2. "open_failure" # "open_success"
        OBVIOUS
      <3> QED BY <1>1, <3>1, <3>2, OnWaySaid
    <2> QED BY <1>3, <2>1, <2>2, AnswerOpenSays
  <1>4. CASE ~Concerns({"open_success"})
    <2>1. AllPass({"open_success"})
      BY <1>4, Traffic
    <2> QED BY <1>1, <2>1, OnWayPasses DEF AllPass
  <1>5. CASE Concerns({"open_success"})
    <2>1. \E x \in Side : ReadOpenSuccess(x) \/ AnswerOpen(x)
      BY <1>5 DEF Concerns, ChannelType
    <2> QED BY <1>2, <1>3, <2>1
  <1> QED BY <1>4, <1>5

LEMMA CloseSent ==
    ASSUME SessionInv, SessionInv', [Next]_vars, NEW s \in Side, NEW r,
           OnWay(s, "close", r)', ~OnWay(s, "close", r)
    PROVE  \/ \E p \in Procs : SendClose(p) /\ At(p) = Peer(s) /\ cur[p] = r
           \/ r \in Opens /\ Collect(Peer(s), r) /\ wire' # wire
  <1>1. Types /\ Types' /\ wire' # wire
    BY DEF SessionInv, OnWay
  <1>2. ASSUME NEW x \in Side, ReadClose(x) \/ IgnoreDead(x) PROVE FALSE
    <2>1. PICK ty : Reads(x, ty)
      BY <1>2, Zenon DEF ReadClose, IgnoreDead, ReadsFor
    <2> QED BY <1>1, <2>1, Listens, OnWayHeard
  <1>3. ASSUME NEW p \in Procs, SendClose(p) PROVE At(p) = Peer(s) /\ cur[p] = r
    <2>1. At(p) \in Side /\ Says(At(p), "close", cur[p])
      BY <1>3, CloseSays, ProcFacts
    <2> QED BY <1>1, <2>1, OnWaySaid
  <1>4. ASSUME NEW x \in Side, NEW q \in Opens, Collect(x, q) PROVE x = Peer(s) /\ q = r
    <2>1. Says(x, "close", q)
      BY <1>1, <1>4, CollectSays
    <2> QED BY <1>1, <2>1, OnWaySaid
  <1>5. CASE ~Concerns({"close"})
    <2>1. AllPass({"close"})
      BY <1>5, Traffic
    <2> QED BY <1>1, <2>1, OnWayPasses DEF AllPass
  <1>6. CASE Concerns({"close"})
    <2>1. \/ \E x \in Side : ReadClose(x) \/ IgnoreDead(x) \/ \E q \in Opens : Collect(x, q)
          \/ \E p \in Procs : SendClose(p)
      BY <1>6 DEF Concerns
    <2> QED BY <1>1, <1>2, <1>3, <1>4, <2>1
  <1> QED BY <1>5, <1>6
-----------------------------------------------------------------------------
(* The exit status *)

LEMMA EndsOverStep ==
    ASSUME SessionInv, EndsOver, [Next]_vars
    PROVE  EndsOver'
  <1> DEFINE E == {"ending", "unlinked", "ended"}
  <1>1. Types /\ pc \in [Procs -> Pc] /\ active \in [Side -> BOOLEAN]
    BY DEF SessionInv, Types
  <1>2. ASSUME NEW s \in Side, pc'[s] \in E, active'[s], active'[Peer(s)] PROVE FALSE
    <2>1. active[s] /\ active[Peer(s)] /\ Peer(s) \in Side /\ s \in Procs /\ s \notin Threads
          /\ At(s) = s
      BY <1>1, <1>2, ActiveBefore, SideFacts, ProcFacts
    <2>2. pc[s] \notin E
      BY <2>1 DEF EndsOver
    <2>3. SideStep(s)
      BY <1>1, <1>2, <2>2, Steps, SideStill, SideFacts
    <2>4. UNCHANGED pc \/ \E l : l \notin E /\ (Goto(s, l) \/ NotifyOne(s, l))
      BY <2>1, <2>2, <2>3, Zenon DEF SideStep, TransportThread, IgnoreDead, ReadOpen, Decide,
           AnswerOpen, QueueIncoming, ReadOpenSuccess, ReadOpenFailure, ReadGlobal, AnswerGlobal,
           ReadGlobalReply, ReadNewKeys, ReadRequest, AnswerRequest, ReadExitStatus, ReadSuccess, ReadFailure,
           ReadClose, EndLoop, RunUnlink, EndRun, CloseInternal, SendMessage, local, Collect,
           SendClose, SendFails
    <2> QED BY <1>1, <1>2, <2>1, <2>2, <2>4 DEF Goto, NotifyOne
  <1>3. ASSUME NEW t \in Threads, pc'[t] = "unlink", active'[Home[t]] PROVE FALSE
    <2>1. Home[t] \in Side /\ active[Home[t]] /\ t \in Procs /\ t \notin Side
      BY <1>1, <1>3, ActiveBefore, ProcFacts
    <2>2. pc[t] # "unlink"
      BY <2>1 DEF EndsOver
    <2>3. OwnStep(t)
      BY <1>1, <1>3, <2>2, Whose, MovesItself
    <2>4. ~CloseTransport(t)
      BY <1>1, <1>3, <2>1 DEF CloseTransport
    <2>5. UNCHANGED pc \/ \E l : l # "unlink" /\ Goto(t, l)
      BY <2>1, <2>3, <2>4, Zenon DEF OwnStep, CallInProgress, Register, SendOpen, OpenWait,
           OpenLookup, OpenRaises, AcceptReturns, SendGlobal, GlobalReturns, EventPending,
           SendRequest, EventReturns, StatusReturns, CloseUnlink, OpenChannel, OpenTimeout,
           Accept, AcceptTimeout, GlobalRequest, Share, ExecCommand, RecvExitStatus,
           SendExitStatus, Close, SendClose, SendFails, PopAccepted, local
    <2> QED BY <1>1, <1>3, <2>1, <2>2, <2>5 DEF Goto
  <1> QED BY <1>2, <1>3 DEF EndsOver

\* The one way an object stops to be "opening" while the session lasts.
LEMMA OpenedOnce ==
    ASSUME SessionInv, NEW s \in Side, NEW r \in Opens, Lives(s, r),
           chan[s][r].st = "opening", chan'[s][r].st # "opening"
    PROVE  /\ ReadOpenSuccess(s) /\ Hears(s, "open_success") /\ wire[s][1].num = r
           /\ wire[s][1].type = "open_success" /\ 1 \in 1 .. Len(wire[s])
           /\ OnWay(s, "open_success", r)
           /\ Made(Peer(s), r) /\ ~Coming(Peer(s), r)
           /\ wire[s][1].to = chan[s][r].id /\ ~Unmapped(s, r)
  <1>1. ReadOpenSuccess(s) /\ wire[s][1].num = r /\ ~Unmapped(s, r)
    BY DEF Lives
  <1>2. Reads(s, "open_success")
    BY <1>1, Zenon DEF ReadOpenSuccess
  <1>3. /\ Hears(s, "open_success") /\ PacketOK(s, wire[s][1])
        /\ wire[s][1].type = "open_success" /\ 1 \in 1 .. Len(wire[s])
    BY <1>2, Listens, ReadsFacts
  <1>4. Made(Peer(s), r) /\ chan[s][r].id = wire[s][1].to
    BY <1>1, <1>3 DEF PacketOK
  <1>5. ~Coming(Peer(s), r)
    BY <1>4, NextNumber, SideFacts
  <1>6. OnWay(s, "open_success", r)
    BY <1>1, <1>3 DEF OnWay
  <1> QED BY <1>1, <1>3, <1>4, <1>5, <1>6

\* How a thread gets to sending its OPEN.
LEMMA AtSendOpen ==
    ASSUME Types, [Next]_vars, NEW t \in Threads, pc'[t] = "send_open"
    PROVE  (pc[t] = "send_open" /\ cur'[t] = cur[t]) \/ Register(t)
  <1>1. t \in Procs /\ t \notin Side /\ pc \in [Procs -> Pc] /\ cur \in [Procs -> Nat]
    BY ProcFacts DEF Types
  <1>2. CASE Passive(t)
    BY <1>2, MovesItself
  <1>3. CASE OwnStep(t) /\ ~Register(t)
    <2>1. UNCHANGED <<pc, cur>> \/ \E l : l # "send_open" /\ Goto(t, l)
      BY <1>1, <1>3, Zenon DEF OwnStep, CallInProgress, SendOpen, OpenWait,
           OpenLookup, OpenRaises, AcceptReturns, SendGlobal, GlobalReturns, EventPending,
           SendRequest, EventReturns, StatusReturns, CloseUnlink, OpenChannel, OpenTimeout,
           Accept, AcceptTimeout, GlobalRequest, Share, ExecCommand, RecvExitStatus,
           SendExitStatus, Close, CloseTransport, SendClose, SendFails, PopAccepted, local
    <2> QED BY <1>1, <2>1 DEF Goto
  <1> QED BY <1>2, <1>3, Whose

\* How a transport thread gets to deciding about an OPEN, and to accepting it.
LEMMA AtAnswer ==
    ASSUME SessionInv, [Next]_vars, NEW x \in Side, pc'[x] \in {"decide", "accept_open"}
    PROVE  /\ ~AnswerOpen(x)
           /\ \/ pc[x] = pc'[x] /\ cur'[x] = cur[x]
              \/ ReadOpen(x) /\ pc'[x] = "decide" /\ cur'[x] = wire[x][1].num
              \/ Decide(x) /\ pc[x] = "decide" /\ cur'[x] = cur[x]
  <1> DEFINE A == {"decide", "accept_open"}
  <1>1. /\ x \in Procs /\ x \notin Threads /\ At(x) = x /\ Types
        /\ pc \in [Procs -> Pc] /\ cur \in [Procs -> Nat]
    BY ProcFacts DEF SessionInv, Types
  <1>2. ~AnswerOpen(x)
    <2>1. ASSUME AnswerOpen(x) PROVE \E l \in {"queue", "idle", "ending"} : Goto(x, l)
      BY <2>1 DEF AnswerOpen, SendMessage
    <2> QED BY <1>1, <2>1 DEF Goto
  <1>3. CASE (\E t \in Threads : OwnStep(t)) \/ SideStep(Peer(x)) \/ UNCHANGED vars
    BY <1>1, <1>2, <1>3, SideStill
  <1>4. CASE ReadOpen(x)
    <2>1. Reads(x, "open") /\ cur' = [cur EXCEPT ![x] = Head(wire[x]).num]
          /\ (Goto(x, "decide") \/ Goto(x, "refuse_open"))
      BY <1>4 DEF ReadOpen
    <2>2. Head(wire[x]) = wire[x][1]
      BY <2>1, ReadsFacts
    <2> QED BY <1>1, <1>2, <1>4, <2>1, <2>2 DEF Goto
  <1>5. CASE Decide(x)
    BY <1>1, <1>2, <1>5 DEF Decide
  <1>6. CASE SideStep(x) /\ ~ReadOpen(x) /\ ~Decide(x)
    <2>1. UNCHANGED <<pc, cur>> \/ \E l : l \notin A /\ (Goto(x, l) \/ NotifyOne(x, l))
      BY <1>1, <1>2, <1>6, Zenon DEF SideStep, TransportThread, IgnoreDead,
           QueueIncoming, ReadOpenSuccess, ReadOpenFailure, ReadGlobal, AnswerGlobal,
           ReadGlobalReply, ReadNewKeys, ReadRequest, AnswerRequest, ReadExitStatus, ReadSuccess, ReadFailure,
           ReadClose, EndLoop, RunUnlink, EndRun, CloseInternal, SendMessage, local, Collect,
           SendClose, SendFails
    <2> QED BY <1>1, <1>2, <2>1 DEF Goto, NotifyOne
  <1> QED BY <1>3, <1>4, <1>5, <1>6, Steps, SideFacts

\* Events are made by open_channel.
LEMMA EventsFrom ==
    ASSUME SessionInv, [Next]_vars, NEW s \in Side, NEW i \in Ids, channel_events'[s][i] # 0
    PROVE  \/ channel_events'[s][i] = channel_events[s][i]
           \/ \E t \in Threads : Register(t) /\ Home[t] = s /\ channel_events'[s][i] = cur[t]
  <1>1. channel_events \in [Side -> [Ids -> Opens \cup {0}]]
    BY DEF SessionInv, Types
  <1>2. ASSUME NEW t \in Threads, Register(t)
        PROVE  \/ channel_events'[s][i] = channel_events[s][i]
               \/ Home[t] = s /\ channel_events'[s][i] = cur[t]
    <2>1. PICK n : n = NextChannel(Home[t])
      OBVIOUS
    <2>2. channel_events' = [channel_events EXCEPT ![Home[t]][n] = cur[t]]
      BY <1>2, <2>1 DEF Register
    <2> QED BY <1>1, <2>2
  <1>3. ASSUME NEW x \in Side, ReadOpenSuccess(x) \/ ReadOpenFailure(x)
        PROVE  channel_events'[s][i] = channel_events[s][i]
    <2>1. PICK n : n = Head(wire[x]).to
      OBVIOUS
    <2>2. channel_events' = channel_events \/ channel_events' = [channel_events EXCEPT ![x][n] = 0]
      BY <1>3, <2>1, Zenon DEF ReadOpenSuccess, ReadOpenFailure, Fire
    <2> QED BY <1>1, <2>2
  <1>4. ASSUME NEW t \in Threads, OwnStep(t), ~Register(t) PROVE channel_events' = channel_events
    BY <1>4, Zenon DEF OwnStep, CallInProgress, SendOpen, OpenWait,
           OpenLookup, OpenRaises, AcceptReturns, SendGlobal, GlobalReturns, EventPending,
           SendRequest, EventReturns, StatusReturns, CloseUnlink, OpenChannel, OpenTimeout,
           Accept, AcceptTimeout, GlobalRequest, Share, ExecCommand, RecvExitStatus,
           SendExitStatus, Close, CloseTransport, SendClose, SendFails, waiting
  <1>5. ASSUME NEW x \in Side, SideStep(x), ~(ReadOpenSuccess(x) \/ ReadOpenFailure(x))
        PROVE  channel_events' = channel_events
    BY <1>5, Zenon DEF SideStep, TransportThread, IgnoreDead, ReadOpen, Decide, AnswerOpen,
           QueueIncoming, ReadGlobal, AnswerGlobal,
           ReadGlobalReply, ReadNewKeys, ReadRequest, AnswerRequest, ReadExitStatus, ReadSuccess, ReadFailure,
           ReadClose, EndLoop, RunUnlink, EndRun, Collect, SendClose, SendFails, waiting
  <1> QED BY <1>2, <1>3, <1>4, <1>5, Steps DEF vars, waiting

\* What happens to the OPEN_SUCCESS packets for s.
LEMMA SuccessTraffic ==
    ASSUME SessionInv, [Next]_vars, NEW s \in Side
    PROVE  \/ Passes(wire[s], wire'[s], {"open_success"})
           \/ Taken(wire[s], wire'[s])
           \/ /\ AnswerOpen(Peer(s)) /\ pc[Peer(s)] = "accept_open"
              /\ Says(Peer(s), "open_success", cur[Peer(s)])
  <1>1. CASE wire'[s] = wire[s]
    BY <1>1 DEF Passes
  <1>2. ASSUME NEW x \in Side, ReadOpenSuccess(x)
        PROVE  wire'[s] = wire[s] \/ Taken(wire[s], wire'[s])
    <2>1. Reads(x, "open_success")
      BY <1>2, Zenon DEF ReadOpenSuccess
    <2> QED BY <2>1, Listens, SideFacts DEF Hears
  <1>3. CASE AnswerOpen(s)
    <2>1. \E ty : Says(s, ty, cur[s])
      BY <1>3, AnswerOpenSays
    <2> QED BY <1>1, <2>1 DEF Says
  <1>4. CASE AnswerOpen(Peer(s))
    <2>1. CASE pc[Peer(s)] = "refuse_open"
      <3>1. Says(Peer(s), "open_failure", cur[Peer(s)])
        BY <1>4, <2>1, AnswerOpenSays, SideFacts
      <3>2. "open_failure" \notin {"open_success"}
        OBVIOUS
      <3>3. AllPass({"open_success"})
        BY <3>1, <3>2, SaysPasses, SideFacts
      <3> QED BY <3>3 DEF AllPass
    <2> QED BY <1>4, <2>1, AnswerOpenSays, SideFacts
  <1>5. CASE ~Concerns({"open_success"})
    BY <1>5, Traffic DEF AllPass
  <1>6. CASE Concerns({"open_success"})
    <2>1. \E x \in Side : ReadOpenSuccess(x) \/ AnswerOpen(x)
      BY <1>6 DEF Concerns, ChannelType
    <2> QED BY <1>1, <1>2, <1>3, <1>4, <2>1, SideFacts
  <1> QED BY <1>5, <1>6

\* Until its answer is read the object of an open call stays as it is.
LEMMA OpenersWaitStep ==
    ASSUME SessionInv, SessionInv', [Next]_vars, NEW s \in Side, OpenersWait(s),
           \A r \in Opens : Lives(s, r)
    PROVE  OpenersWait(s)'
  <1> DEFINE p == Peer(s)
  <1>1. /\ Types /\ Types' /\ p \in Side /\ Peer(p) = s /\ p # s
        /\ wire[s] \in Seq(Msg) /\ wire'[s] \in Seq(Msg)
    BY SideFacts DEF SessionInv, Types
  <1>2. ASSUME NEW r \in Opens, chan[s][r].st = "opening", chan'[s][r].st # "opening"
        PROVE  /\ ReadOpenSuccess(s) /\ Hears(s, "open_success") /\ wire[s][1].num = r
               /\ wire[s][1].type = "open_success" /\ 1 \in 1 .. Len(wire[s])
               /\ OnWay(s, "open_success", r)
               /\ Made(p, r) /\ ~Coming(p, r)
               /\ wire[s][1].to = chan[s][r].id /\ ~Unmapped(s, r)
    BY <1>2, OpenedOnce
  <1>3. ASSUME NEW t \in Threads, Register(t), Home[t] = s
        PROVE  chan'[s][cur[t]].st = "opening" /\ cur' = cur /\ cur[t] \in Opens
    <2>1. PICK n : n = NextChannel(s)
      OBVIOUS
    <2>2. PICK c : c = NewChannel(n, 0, "opening")
      OBVIOUS
    <2>3. chan' = [chan EXCEPT ![s][cur[t]] = c] /\ cur' = cur /\ pc[t] = "register"
      BY <1>3, <2>1, <2>2 DEF Register
    <2>4. cur[t] \in Opens
      BY <2>3, HeldNow, NumberFacts DEF CallOK, OpenPc, Types
    <2>5. c.st = "opening"
      BY <2>2 DEF NewChannel
    <2> QED BY <1>1, <2>3, <2>4, <2>5 DEF Types
  <1>4. ASSUME NEW t \in Threads, Home[t] = s, pc[t] = "send_open"
        PROVE  cur[t] \in Opens /\ Coming(p, cur[t]) /\ chan[s][cur[t]].st = "opening"
    <2>1. cur[t] \in Opens
      BY <1>4, HeldNow, NumberFacts DEF CallOK, OpenPc, Types
    <2> QED BY <1>1, <1>4, <2>1 DEF Coming, OpenersWait
  <1>5. ASSUME NEW t \in Threads, Home[t] = s, pc'[t] = "send_open"
        PROVE  chan'[s][cur'[t]].st = "opening"
    <2>1. CASE Register(t)
      BY <1>3, <1>5, <2>1
    <2>2. CASE pc[t] = "send_open" /\ cur'[t] = cur[t]
      BY <1>2, <1>4, <1>5, <2>2
    <2> QED BY <1>1, <1>5, <2>1, <2>2, AtSendOpen
  <1>6. ASSUME NEW r \in Opens, OnWay(p, "open", r)'
        PROVE  chan'[s][r].st = "opening"
    <2>1. CASE OnWay(p, "open", r)
      <3>1. Coming(p, r) /\ chan[s][r].st = "opening"
        BY <2>1 DEF OnWay, Coming, OpenersWait
      <3> QED BY <1>2, <3>1
    <2>2. CASE ~OnWay(p, "open", r)
      <3>1. PICK t \in Threads : SendOpen(t) /\ Home[t] = s /\ cur[t] = r
        BY <1>1, <1>6, <2>2, OpenSent
      <3>2. pc[t] = "send_open" /\ chan' = chan
        BY <3>1 DEF SendOpen, tables
      <3> QED BY <1>4, <3>1, <3>2
    <2> QED BY <2>1, <2>2
  <1>7. ASSUME NEW r \in Opens, pc'[p] \in {"decide", "accept_open"}, cur'[p] = r
        PROVE  chan'[s][r].st = "opening"
    <2>1. CASE pc[p] \in {"decide", "accept_open"} /\ cur[p] = r
      <3>1. chan[s][r].st = "opening"
        BY <2>1 DEF OpenersWait
      <3>2. pc[p] = "decide" => ~Made(p, r)
        BY <1>1, <2>1, EndNow DEF EndHolds
      <3>3. pc[p] = "accept_open" => ~OnWay(s, "open_success", r)
        BY <2>1 DEF OpenersWait
      <3> QED BY <1>2, <2>1, <3>1, <3>2, <3>3
    <2>2. CASE ReadOpen(p) /\ wire[p][1].num = r
      <3>1. Reads(p, "open")
        BY <2>2 DEF ReadOpen
      <3>2. wire[p][1].type = "open" /\ 1 \in 1 .. Len(wire[p])
        BY <1>1, <3>1, Listens, ReadsFacts DEF Hears
      <3>3. OnWay(p, "open", r)
        BY <2>2, <3>2 DEF OnWay
      <3>4. Coming(p, r) /\ chan[s][r].st = "opening"
        BY <3>3 DEF OnWay, Coming, OpenersWait
      <3> QED BY <1>2, <3>4
    <2>3. \/ pc[p] = pc'[p] /\ cur'[p] = cur[p]
          \/ ReadOpen(p) /\ cur'[p] = wire[p][1].num
          \/ pc[p] = "decide" /\ cur'[p] = cur[p]
      BY <1>1, <1>7, AtAnswer
    <2> QED BY <1>7, <2>1, <2>2, <2>3
  <1>8. ASSUME NEW r \in Opens, OnWay(s, "open_success", r)'
        PROVE  chan'[s][r].st = "opening"
    <2>1. CASE OnWay(s, "open_success", r)
      <3>1. chan[s][r].st = "opening"
        BY <2>1 DEF OpenersWait
      <3> SUFFICES ASSUME Hears(s, "open_success"), wire[s][1].num = r,
                          wire[s][1].type = "open_success", 1 \in 1 .. Len(wire[s])
                   PROVE  FALSE
        BY <1>2, <3>1
      <3>2. PICK i \in 1 .. Len(wire'[s]) : wire'[s][i].type = "open_success" /\ wire'[s][i].num = r
        BY <1>8 DEF OnWay
      <3>3. i + 1 \in 1 .. Len(wire[s]) /\ wire'[s][i] = wire[s][i + 1] /\ i + 1 # 1
        BY <1>1, <3>2 DEF Hears, Taken
      <3> QED BY <3>2, <3>3 DEF OpenersWait
    <2>2. CASE ~OnWay(s, "open_success", r)
      <3>1. AnswerOpen(p) /\ pc[p] = "accept_open" /\ cur[p] = r
        BY <1>8, <2>2, SuccessSent
      <3>2. chan' = chan
        BY <3>1 DEF AnswerOpen, tables
      <3> QED BY <3>1, <3>2 DEF OpenersWait
    <2> QED BY <2>1, <2>2
  <1>9. ASSUME NEW i \in 1 .. Len(wire'[s]), NEW j \in 1 .. Len(wire'[s]), i < j,
               wire'[s][i].type = "open_success", wire'[s][j].type = "open_success",
               wire'[s][i].num = wire'[s][j].num
        PROVE  FALSE
    <2>1. CASE wire'[s] = wire[s]
      <3>1. i = j
        BY <1>9, <2>1 DEF OpenersWait
      <3> QED BY <1>1, <1>9, <3>1
    <2>2. CASE Taken(wire[s], wire'[s])
      <3>1. i + 1 \in 1 .. Len(wire[s]) /\ wire'[s][i] = wire[s][i + 1]
        BY <1>1, <2>2 DEF Taken
      <3>2. j + 1 \in 1 .. Len(wire[s]) /\ wire'[s][j] = wire[s][j + 1]
        BY <1>1, <2>2 DEF Taken
      <3>3. i + 1 # j + 1
        BY <1>1, <1>9
      <3> QED BY <1>9, <3>1, <3>2, <3>3 DEF OpenersWait
    <2>3. ASSUME NEW m \in Msg, Added(wire[s], wire'[s], m),
                 m.type = "open_success" => ~OnWay(s, "open_success", m.num)
          PROVE  FALSE
      <3>1. /\ i \in 1 .. Len(wire[s]) /\ wire'[s][i] = wire[s][i] /\ i # j
            /\ (j \in 1 .. Len(wire[s]) /\ wire'[s][j] = wire[s][j]) \/ wire'[s][j] = m
        BY <1>1, <1>9, <2>3 DEF Added
      <3>2. CASE j \in 1 .. Len(wire[s]) /\ wire'[s][j] = wire[s][j]
        BY <1>9, <3>1, <3>2 DEF OpenersWait
      <3>3. CASE wire'[s][j] = m
        BY <1>9, <2>3, <3>1, <3>3 DEF OnWay
      <3> QED BY <3>1, <3>2, <3>3
    <2>4. CASE Passes(wire[s], wire'[s], {"open_success"})
      BY <2>1, <2>2, <2>3, <2>4 DEF Passes
    <2>5. CASE pc[p] = "accept_open" /\ Says(p, "open_success", cur[p])
      <3>1. ~OnWay(s, "open_success", cur[p])
        BY <2>5 DEF OpenersWait
      <3> QED BY <1>1, <2>1, <2>3, <2>5, <3>1 DEF Says
    <2> QED BY <2>2, <2>4, <2>5, SuccessTraffic
  <1>10. ASSUME NEW i \in 1 .. Len(wire'[s]), NEW j \in 1 .. Len(wire'[s]),
                wire'[s][i].type = "open_success", wire'[s][j].type = "open_success",
                wire'[s][i].num = wire'[s][j].num
         PROVE  i = j
    <2>1. i < j \/ j < i \/ i = j
      BY <1>1
    <2> QED BY <1>9, <1>10, <2>1
  <1>11. ASSUME pc'[p] = "accept_open", OnWay(s, "open_success", cur[p])'
         PROVE  FALSE
    <2>1. /\ ~AnswerOpen(p) /\ cur'[p] = cur[p]
          /\ pc[p] = "accept_open" \/ pc[p] = "decide"
      BY <1>1, <1>11, AtAnswer
    <2>2. ~OnWay(s, "open_success", cur[p])
      <3>1. CASE pc[p] = "accept_open"
        BY <3>1 DEF OpenersWait
      <3>2. CASE pc[p] = "decide"
        <4>1. ~Made(p, cur[p])
          BY <1>1, <3>2, EndNow DEF EndHolds
        <4> QED BY <4>1, EndNow DEF OnWay, WireOK, PacketOK
      <3> QED BY <2>1, <3>1, <3>2
    <2>3. PICK r : r = cur[p]
      OBVIOUS
    <2>4. OnWay(s, "open_success", r)' /\ ~OnWay(s, "open_success", r)
      BY <1>11, <2>1, <2>2, <2>3 DEF OnWay
    <2> QED BY <2>1, <2>4, SuccessSent
  <1>12. ASSUME NEW i \in Ids, channel_events'[s][i] # 0
         PROVE  chan'[s][channel_events'[s][i]].st = "opening"
    <2>1. PICK e : e = channel_events'[s][i]
      OBVIOUS
    <2>2. CASE e = channel_events[s][i]
      <3>1. e \in Opens /\ chan[s][e].id = i /\ chan[s][e].st = "opening"
        BY <1>12, <2>1, <2>2, EventOwner DEF OpenersWait
      <3> SUFFICES ASSUME ReadOpenSuccess(s), wire[s][1].to = i, ~Unmapped(s, e),
                          Hears(s, "open_success")
                   PROVE  FALSE
        BY <1>2, <2>1, <3>1
      <3>2. Head(wire[s]) = wire[s][1] /\ channels[s][i] # 0
        <4>1. Reads(s, "open_success")
          BY Zenon DEF ReadOpenSuccess
        <4> QED BY <3>1, <4>1, ReadsFacts, NumberFacts DEF Unmapped
      <3>3. channel_events' = [channel_events EXCEPT ![s][i] = 0]
        BY <3>2, Zenon DEF ReadOpenSuccess, Fire
      <3> QED BY <1>1, <1>12, <3>3 DEF Types
    <2>3. CASE \E t \in Threads : Register(t) /\ Home[t] = s /\ e = cur[t]
      BY <1>3, <2>1, <2>3
    <2> QED BY <1>12, <2>1, <2>2, <2>3, EventsFrom
  <1> QED BY <1>5, <1>6, <1>7, <1>8, <1>10, <1>11, <1>12 DEF OpenersWait

\* How a process gets to sending CLOSE: it has closed the object.
LEMMA AtClose ==
    ASSUME SessionInv, [Next]_vars, NEW p \in Procs, pc'[p] = "send_close"
    PROVE  \/ pc[p] = "send_close" /\ cur'[p] = cur[p]
           \/ \E r \in Opens : cur'[p] = r /\ chan'[At(p)][r].st = "closed"
  <1>1. /\ pc \in [Procs -> Pc] /\ cur \in [Procs -> Nat] /\ Types
        /\ chan \in [Side -> [Opens -> Object]]
    BY DEF SessionInv, Types
  <1>2. ASSUME p \in Threads PROVE \/ pc[p] = "send_close" /\ cur'[p] = cur[p]
                                   \/ \E r \in Opens : cur'[p] = r /\ chan'[At(p)][r].st = "closed"
    <2>1. CASE Passive(p)
      BY <1>1, <1>2, <2>1, MovesItself
    <2>2. CASE Close(p)
      <3>1. PICK r : r = own[p]
        OBVIOUS
      <3>2. PICK x : x = Home[p]
        OBVIOUS
      <3>3. /\ r \in Opens /\ x \in Side /\ At(p) = x
            /\ chan' = [chan EXCEPT ![x][r] = Closed(@)] /\ cur' = [cur EXCEPT ![p] = r]
        BY <1>2, <2>2, <3>1, <3>2, HeldNow, ProcFacts DEF Close, HoldsOpen, Addressable
      <3>4. chan[x][r] \in Object /\ chan'[x][r] = Closed(chan[x][r]) /\ cur'[p] = r
        BY <1>1, <3>3
      <3> QED BY <3>3, <3>4, ClosedFacts
    <2>3. CASE OwnStep(p) /\ ~Close(p)
      <3>1. p \notin Side
        BY <1>2, ProcFacts
      <3>2. UNCHANGED <<pc, cur>> \/ \E l : l # "send_close" /\ Goto(p, l)
        BY <2>3, <3>1, Zenon DEF OwnStep, CallInProgress, Register, SendOpen, OpenWait,
           OpenLookup, OpenRaises, AcceptReturns, SendGlobal, GlobalReturns, EventPending,
           SendRequest, EventReturns, StatusReturns, CloseUnlink, OpenChannel, OpenTimeout,
           Accept, AcceptTimeout, GlobalRequest, Share, ExecCommand, RecvExitStatus,
           SendExitStatus, CloseTransport, SendClose, SendFails, PopAccepted, local
      <3> QED BY <1>1, <3>2 DEF Goto
    <2> QED BY <1>2, <2>1, <2>2, <2>3, Whose
  <1>3. ASSUME p \in Side PROVE \/ pc[p] = "send_close" /\ cur'[p] = cur[p]
                                \/ \E r \in Opens : cur'[p] = r /\ chan'[At(p)][r].st = "closed"
    <2>1. CASE (\E t \in Threads : OwnStep(t)) \/ SideStep(Peer(p)) \/ UNCHANGED vars
      BY <1>1, <1>3, <2>1, SideStill
    <2>2. CASE ReadFailure(p) \/ ReadClose(p)
      <3>1. PICK r \in Opens : CloseInternal(p, r)
        BY <2>2 DEF ReadFailure, ReadClose
      <3>2. CASE UNCHANGED <<pc, cur>>
        BY <3>2
      <3>3. CASE chan' = [chan EXCEPT ![p][r] = Closed(@)] /\ cur' = [cur EXCEPT ![p] = r]
        <4>1. chan[p][r] \in Object /\ chan'[p][r] = Closed(chan[p][r]) /\ cur'[p] = r
          BY <1>1, <1>3, <3>3
        <4> QED BY <1>3, <4>1, ClosedFacts, ProcFacts
      <3> QED BY <3>1, <3>2, <3>3 DEF CloseInternal
    <2>3. CASE SideStep(p) /\ ~ReadFailure(p) /\ ~ReadClose(p)
      <3>1. p \notin Threads /\ At(p) = p
        BY <1>3, ProcFacts
      <3>2. UNCHANGED <<pc, cur>> \/ \E l : l # "send_close" /\ (Goto(p, l) \/ NotifyOne(p, l))
        BY <2>3, <3>1, Zenon DEF SideStep, TransportThread, IgnoreDead, ReadOpen, Decide,
           AnswerOpen, QueueIncoming, ReadOpenSuccess, ReadOpenFailure, ReadGlobal, AnswerGlobal,
           ReadGlobalReply, ReadNewKeys, ReadRequest, AnswerRequest, ReadExitStatus, ReadSuccess,
           EndLoop, RunUnlink, EndRun, SendMessage, local, Collect, SendClose, SendFails
      <3> QED BY <1>1, <3>1, <3>2 DEF Goto, NotifyOne
    <2> QED BY <1>3, <2>1, <2>2, <2>3, Steps, SideFacts
  <1> QED BY <1>2, <1>3, ProcFacts

\* Who sends CLOSE has closed its object.
LEMMA CloseSaidStep ==
    ASSUME SessionInv, SessionInv', [Next]_vars, NEW s \in Side, CloseSaid(s),
           \A r \in Opens : Lives(s, r)
    PROVE  CloseSaid(s)'
  <1>1. Peer(s) \in Side /\ Peer(Peer(s)) = s /\ chan \in [Side -> [Opens -> Object]]
    BY SideFacts DEF SessionInv, Types
  <1>2. \A r \in Opens : chan[s][r].st = "closed" => chan'[s][r].st = "closed"
    BY DEF Lives
  <1>3. ASSUME NEW r \in Opens, OnWay(Peer(s), "close", r)' PROVE chan'[s][r].st = "closed"
    <2>1. CASE OnWay(Peer(s), "close", r)
      BY <1>2, <2>1 DEF CloseSaid
    <2>2. CASE \E p \in Procs : SendClose(p) /\ At(p) = s /\ cur[p] = r
      BY <1>2, <2>2 DEF SendClose, CloseSaid
    <2>3. CASE Collect(s, r) /\ wire' # wire
      <3>1. chan' = [chan EXCEPT ![s][r] = Closed(@)]
        BY <2>3 DEF Collect
      <3>2. chan[s][r] \in Object /\ chan'[s][r] = Closed(chan[s][r])
        BY <1>1, <3>1
      <3> QED BY <3>2, ClosedFacts
    <2> QED BY <1>1, <1>3, <2>1, <2>2, <2>3, CloseSent
  <1>4. ASSUME NEW p \in Procs, At(p) = s, pc'[p] = "send_close"
        PROVE  chan'[s][cur'[p]].st = "closed"
    <2>1. CASE pc[p] = "send_close" /\ cur'[p] = cur[p]
      <3>1. Addressable(At(p), cur[p])
        <4>1. CASE p \in Threads
          BY <2>1, <4>1, HeldNow, ProcFacts DEF ThreadHolds
        <4>2. CASE p \in Side
          BY <2>1, <4>2, EndNow, ProcFacts DEF EndHolds
        <4> QED BY <4>1, <4>2, ProcFacts
      <3>2. cur[p] \in Opens /\ chan[s][cur[p]].st = "closed"
        BY <1>4, <2>1, <3>1 DEF Addressable, CloseSaid
      <3> QED BY <1>2, <2>1, <3>2
    <2> QED BY <1>4, <2>1, AtClose
  <1> QED BY <1>3, <1>4 DEF CloseSaid

\* Where a thread gets its channel from.
LEMMA OwnFrom ==
    ASSUME SessionInv, [Next]_vars, NEW t \in Threads, NEW s, s = Home[t], own'[t] # own[t]
    PROVE  \/ own'[t] # 0 /\ \E i \in Ids : own'[t] = channels[s][i]
           \/ \E i \in 1 .. Len(server_accepts[s]) : own'[t] = server_accepts[s][i]
           \/ \E u \in Threads : Home[u] = s /\ own'[t] = own[u]
  <1>1. own \in [Threads -> Opens \cup {0}] /\ Types /\ s \in Side /\ server_accepts[s] \in Seq(Opens)
    BY ProcFacts DEF SessionInv, Types
  <1>2. OwnStep(t)
    BY <1>1, Whose, MovesItself
  <1>3. CASE OpenLookup(t)
    <2>1. PICK q : q = channels[s][chan[s][cur[t]].id]
      OBVIOUS
    <2>2. pc[t] = "lookup" /\ (own' = own \/ (q # 0 /\ own' = [own EXCEPT ![t] = q]))
      BY <1>3, <2>1 DEF OpenLookup
    <2>3. cur[t] \in Opens
      BY <2>2, HeldNow, NumberFacts DEF CallOK, OpenPc, Types
    <2>4. chan[s][cur[t]].id \in Ids
      BY <1>1, <2>3 DEF Types, Object
    <2> QED BY <1>1, <2>1, <2>2, <2>4
  <1>4. CASE Share(t)
    BY <1>1, <1>4 DEF Share
  <1>5. CASE Accept(t) \/ AcceptReturns(t)
    <2>1. server_accepts[s] # <<>> /\ own' = [own EXCEPT ![t] = Head(server_accepts[s])]
      BY <1>5 DEF Accept, AcceptReturns, PopAccepted
    <2>2. 1 \in 1 .. Len(server_accepts[s]) /\ Head(server_accepts[s]) = server_accepts[s][1]
      BY <1>1, <2>1
    <2> QED BY <1>1, <2>1, <2>2
  <1>6. CASE ~(OpenLookup(t) \/ Share(t) \/ Accept(t) \/ AcceptReturns(t))
    <2>1. own' = own
      BY <1>2, <1>6, Zenon DEF OwnStep, CallInProgress, Register, SendOpen, OpenWait,
           OpenRaises, SendGlobal, GlobalReturns, EventPending,
           SendRequest, EventReturns, StatusReturns, CloseUnlink, OpenChannel, OpenTimeout,
           AcceptTimeout, GlobalRequest, ExecCommand, RecvExitStatus,
           SendExitStatus, Close, CloseTransport, SendClose, SendFails, local
    <2> QED BY <2>1
  <1> QED BY <1>3, <1>4, <1>5, <1>6

\* What is in the queue of accept has been there, or is put there.
LEMMA QueueFrom ==
    ASSUME SessionInv, [Next]_vars, NEW s \in Side, NEW i \in 1 .. Len(server_accepts'[s])
    PROVE  \/ \E j \in 1 .. Len(server_accepts[s]) : server_accepts'[s][i] = server_accepts[s][j]
           \/ pc[s] = "queue" /\ server_accepts'[s][i] = cur[s]
  <1>1. server_accepts \in [Side -> Seq(Opens)] /\ server_accepts[s] \in Seq(Opens)
    BY DEF SessionInv, Types
  <1>2. CASE server_accepts'[s] = server_accepts[s]
    BY <1>2
  <1>3. ASSUME NEW x \in Side, QueueIncoming(x)
        PROVE  \/ \E j \in 1 .. Len(server_accepts[s]) : server_accepts'[s][i] = server_accepts[s][j]
               \/ pc[s] = "queue" /\ server_accepts'[s][i] = cur[s]
    <2>1. server_accepts' = [server_accepts EXCEPT ![x] = Append(@, cur[x])] /\ pc[x] = "queue"
      BY <1>3 DEF QueueIncoming
    <2>2. CASE x # s
      BY <1>1, <1>2, <2>1, <2>2
    <2>3. CASE x = s
      <3>1. server_accepts'[s] = Append(server_accepts[s], cur[s]) /\ cur[s] \in Opens
        BY <1>1, <2>1, <2>3, EndNow DEF EndHolds
      <3> QED BY <1>1, <2>1, <2>3, <3>1
    <2> QED BY <2>2, <2>3
  <1>4. ASSUME NEW t \in Threads, Accept(t) \/ AcceptReturns(t)
        PROVE  \E j \in 1 .. Len(server_accepts[s]) : server_accepts'[s][i] = server_accepts[s][j]
    <2>1. CASE server_accepts' = server_accepts
      BY <1>2, <2>1
    <2>2. CASE server_accepts[Home[t]] # <<>> /\ PopAccepted(t)
      <3>1. server_accepts' = [server_accepts EXCEPT ![Home[t]] = Tail(@)] /\ Home[t] \in Side
        BY <2>2, ProcFacts DEF PopAccepted
      <3>2. CASE Home[t] # s
        BY <1>1, <1>2, <3>1, <3>2
      <3>3. CASE Home[t] = s
        <4>1. server_accepts'[s] = Tail(server_accepts[s]) /\ server_accepts[s] # <<>>
          BY <1>1, <2>2, <3>1, <3>3
        <4>2. i + 1 \in 1 .. Len(server_accepts[s]) /\ server_accepts'[s][i] = server_accepts[s][i + 1]
          BY <1>1, <4>1
        <4> QED BY <4>2
      <3> QED BY <3>2, <3>3
    <2> QED BY <1>4, <2>1, <2>2 DEF Accept, AcceptReturns
  <1>5. CASE /\ \A t \in Threads : ~Accept(t) /\ ~AcceptReturns(t)
             /\ \A x \in Side : ~QueueIncoming(x)
    <2>1. CASE Next
      <3>1. Undisturbed
        BY <1>5, <2>1, OthersUndisturbed DEF SessionInv
      <3> QED BY <1>2, <3>1 DEF Undisturbed
    <2>2. CASE UNCHANGED vars
      BY <1>2, <2>2 DEF vars
    <2> QED BY <2>1, <2>2
  <1> QED BY <1>3, <1>4, <1>5

\* How a transport thread gets to queueing a channel.
LEMMA AtQueue ==
    ASSUME SessionInv, [Next]_vars, NEW x \in Side, pc'[x] \in {"accept_open", "queue"}
    PROVE  /\ cur'[x] = cur[x]
           /\ pc[x] \in {"accept_open", "queue"} \/ (Decide(x) /\ pc[x] = "decide")
  <1>1. /\ x \in Procs /\ x \notin Threads /\ At(x) = x /\ Types
        /\ pc \in [Procs -> Pc] /\ cur \in [Procs -> Nat]
    BY ProcFacts DEF SessionInv, Types
  <1>2. CASE pc'[x] = "accept_open"
    BY <1>2, AtAnswer
  <1>3. CASE pc'[x] = "queue"
    <2>1. CASE (\E t \in Threads : OwnStep(t)) \/ SideStep(Peer(x)) \/ UNCHANGED vars
      BY <1>1, <1>3, <2>1, SideStill
    <2>2. CASE AnswerOpen(x)
      <3>1. (pc[x] = "accept_open" /\ UNCHANGED cur) \/ \E l \in {"idle", "ending"} : Goto(x, l)
        BY <2>2 DEF AnswerOpen, SendMessage
      <3> QED BY <1>1, <1>3, <3>1 DEF Goto
    <2>3. CASE SideStep(x) /\ ~AnswerOpen(x)
      <3>1. UNCHANGED <<pc, cur>> \/ \E l : l # "queue" /\ (Goto(x, l) \/ NotifyOne(x, l))
        BY <1>1, <2>3, Zenon DEF SideStep, TransportThread, IgnoreDead, ReadOpen, Decide,
           QueueIncoming, ReadOpenSuccess, ReadOpenFailure, ReadGlobal, AnswerGlobal,
           ReadGlobalReply, ReadNewKeys, ReadRequest, AnswerRequest, ReadExitStatus, ReadSuccess, ReadFailure,
           ReadClose, EndLoop, RunUnlink, EndRun, CloseInternal, SendMessage, local, Collect,
           SendClose, SendFails
      <3> QED BY <1>1, <1>3, <3>1 DEF Goto, NotifyOne
    <2> QED BY <2>1, <2>2, <2>3, Steps, SideFacts
  <1> QED BY <1>2, <1>3

\* An object that nobody can reach stays so.
LEMMA GoneStays ==
    ASSUME SessionInv, [Next]_vars, NEW s \in Side, NEW r \in Opens, Made(s, r), Gone(s, r),
           Unmapped(s, r)'
    PROVE  Gone(s, r)'
  <1>1. r # 0 /\ TablesOK(s)
    BY NumberFacts DEF SessionInv
  <1>2. ASSUME NEW t \in Threads, Home[t] = s PROVE own'[t] # r
    <2>1. CASE own'[t] = own[t]
      BY <1>2, <2>1 DEF Gone
    <2>2. CASE own'[t] # own[t]
      <3>1. ASSUME NEW i \in Ids, r = channels[s][i] PROVE FALSE
        <4>1. chan[s][r].id = i
          BY <1>1, <3>1 DEF TablesOK, Names
        <4> QED BY <3>1, <4>1 DEF Gone, Unmapped
      <3> QED BY <1>2, <2>2, <3>1, OwnFrom DEF Gone
    <2> QED BY <2>1, <2>2
  <1>3. ASSUME NEW i \in 1 .. Len(server_accepts'[s]) PROVE server_accepts'[s][i] # r
    BY QueueFrom DEF Gone
  <1>4. ASSUME pc'[s] \in {"accept_open", "queue"}, cur'[s] = r PROVE FALSE
    <2>1. pc[s] = "decide" /\ cur[s] = r
      BY <1>4, AtQueue DEF Gone
    <2> QED BY <2>1, EndNow DEF EndHolds
  <1> QED BY <1>2, <1>3, <1>4 DEF Gone

LEMMA DroppedStays ==
    ASSUME SessionInv, [Next]_vars, NEW s \in Side, NEW r \in Opens, Made(s, r), Dropped(s, r),
           Lives(s, r)
    PROVE  Dropped(s, r)'
  <1>1. Unmapped(s, r) /\ Unmapped(s, r)'
    BY DEF Dropped, Gone, Lives
  <1>2. CASE Gone(s, r)
    BY <1>1, <1>2, GoneStays DEF Dropped
  <1>3. CASE chan[s][r].st = "opening"
    <2>1. chan'[s][r].st = "opening"
      BY <1>1, <1>3, OpenedOnce
    <2> QED BY <1>1, <2>1 DEF Dropped
  <1> QED BY <1>2, <1>3 DEF Dropped

\* Whatever is collected was out of reach.
LEMMA CollectDrops ==
    ASSUME SessionInv, NEW s \in Side, NEW r \in Opens, Collect(s, r), Unmapped(s, r)'
    PROVE  Dropped(s, r)'
  <1>1. /\ own' = own /\ server_accepts' = server_accepts /\ pc' = pc /\ cur' = cur
        /\ \A p \in Procs : At(p) = s => ~Handles(p, r)
        /\ \A t \in Threads : Home[t] = s => own[t] # r
        /\ \A i \in DOMAIN server_accepts[s] : server_accepts[s][i] # r
    BY DEF Collect, local
  <1>2. server_accepts[s] \in Seq(Opens)
    BY DEF SessionInv, Types
  <1>3. ~(pc[s] \in {"accept_open", "queue"} /\ cur[s] = r)
    BY <1>1, ProcFacts DEF Handles
  <1>4. Gone(s, r)'
    BY <1>1, <1>2, <1>3 DEF Gone
  <1> QED BY <1>4 DEF Dropped

\* An object leaves the map because its peer has closed it, or because nobody
\* can reach it.
LEMMA DroppedStep ==
    ASSUME SessionInv, [Next]_vars, NEW s \in Side, DroppedOK(s), CloseSaid(Peer(s)),
           \A x \in Side : \A r \in Opens : Lives(x, r)
    PROVE  DroppedOK(s)'
  <1> SUFFICES ASSUME NEW r \in Opens, Made(s, r)', Unmapped(s, r)'
               PROVE  chan'[Peer(s)][r].st = "closed" \/ Dropped(s, r)'
    BY DEF DroppedOK
  <1>1. Peer(s) \in Side /\ Peer(Peer(s)) = s /\ Lives(s, r) /\ Lives(Peer(s), r)
    BY SideFacts
  <1>2. CASE Made(s, r) /\ Unmapped(s, r)
    <2>1. chan[Peer(s)][r].st = "closed" \/ Dropped(s, r)
      BY <1>2 DEF DroppedOK
    <2>2. chan[Peer(s)][r].st = "closed" => chan'[Peer(s)][r].st = "closed"
      BY <1>1 DEF Lives
    <2> QED BY <1>1, <1>2, <2>1, <2>2, DroppedStays
  <1>3. CASE Collect(s, r)
    BY <1>3, CollectDrops
  <1>4. CASE ReadClose(s) /\ wire[s][1].num = r
    <2>1. Reads(s, "close")
      BY <1>4, Zenon DEF ReadClose, ReadsFor
    <2>2. wire[s][1].type = "close" /\ 1 \in 1 .. Len(wire[s])
      BY <2>1, ReadsFacts
    <2>3. OnWay(s, "close", r)
      BY <1>4, <2>2 DEF OnWay
    <2>4. chan[Peer(s)][r].st = "closed"
      BY <1>1, <2>3 DEF CloseSaid
    <2> QED BY <1>1, <2>4 DEF Lives
  <1>5. CASE chan'[s][r].st = "opening"
    BY <1>5 DEF Dropped
  <1> QED BY <1>1, <1>2, <1>3, <1>4, <1>5 DEF Lives

\* Only send_exit_status makes an exit status timely.
LEMMA TimelyFrom ==
    ASSUME SessionInv, timely \in [Side -> SUBSET Opens], [Next]_vars, NEW x \in Side
    PROVE  /\ timely' \in [Side -> SUBSET Opens]
           /\ \A r \in timely'[x] :
                 \/ r \in timely[x]
                 \/ \E t \in Threads : /\ SendExitStatus(t) /\ Home[t] = x /\ own[t] = r
                                       /\ chan[x][r].st = "open"
  <1>1. CASE UNCHANGED timely
    BY <1>1
  <1>2. ASSUME NEW t \in Threads, SendExitStatus(t)
        PROVE  /\ timely' \in [Side -> SUBSET Opens]
               /\ \A r \in timely'[x] :
                     \/ r \in timely[x]
                     \/ Home[t] = x /\ own[t] = r /\ chan[x][r].st = "open"
    <2>1. PICK s : s = Home[t]
      OBVIOUS
    <2>2. PICK q : q = own[t]
      OBVIOUS
    <2>3. timely' = [timely EXCEPT ![s] = IF chan[s][q].st = "open" THEN @ \cup {q} ELSE @]
      BY <1>2, <2>1, <2>2 DEF SendExitStatus
    <2>4. q \in Opens /\ s \in Side
      BY <1>2, <2>1, <2>2, HeldNow DEF SendExitStatus
    <2> QED BY <2>1, <2>2, <2>3, <2>4
  <1>3. ASSUME NEW t \in Threads, OwnStep(t), ~SendExitStatus(t) PROVE UNCHANGED timely
    BY <1>3, Zenon DEF OwnStep, CallInProgress, Register, SendOpen, OpenWait, OpenLookup,
           OpenRaises, AcceptReturns, SendGlobal, GlobalReturns, EventPending, SendRequest,
           EventReturns, StatusReturns, CloseUnlink, OpenChannel, OpenTimeout, Accept,
           AcceptTimeout, GlobalRequest, Share, ExecCommand, RecvExitStatus, Close,
           CloseTransport, SendClose, SendFails, history
  <1>4. ASSUME NEW s \in Side, SideStep(s) PROVE UNCHANGED timely
    BY <1>4, Zenon DEF SideStep, TransportThread, IgnoreDead, ReadOpen, Decide, AnswerOpen,
           QueueIncoming, ReadOpenSuccess, ReadOpenFailure, ReadGlobal, AnswerGlobal,
           ReadGlobalReply, ReadNewKeys, ReadRequest, AnswerRequest, ReadExitStatus, ReadSuccess,
           ReadFailure, ReadClose, EndLoop, RunUnlink, EndRun, Collect, SendClose, SendFails,
           history
  <1> QED BY <1>1, <1>2, <1>3, <1>4, Steps DEF vars, history

\* An exit status that is read for a channel in the map is kept.
LEMMA ExitRead ==
    ASSUME SessionInv, [Next]_vars, NEW s \in Side, NEW r \in Opens, ~Unmapped(s, r),
           Taken(wire[s], wire'[s]), wire[s][1].type = "exit", wire[s][1].num = r
    PROVE  chan'[s][r].exit_status
  <1>1. /\ wire[s] \in Seq(Msg) /\ 1 \in 1 .. Len(wire[s])
        /\ chan \in [Side -> [Opens -> Object]]
    BY DEF SessionInv, Types, Taken
  <1>2. wire'[s] # wire[s] /\ \A m : ~Added(wire[s], wire'[s], m)
    BY <1>1 DEF Taken, Added
  <1>3. Concerns({"exit"})
    <2>1. ~Passes(wire[s], wire'[s], {"exit"})
      BY <1>2 DEF Passes
    <2> QED BY <2>1, Traffic DEF AllPass
  <1>4. \/ \E t \in Threads : SendExitStatus(t)
        \/ \E x \in Side : IgnoreDead(x) \/ ReadExitStatus(x)
    BY <1>3 DEF Concerns
  <1>5. ASSUME NEW t \in Threads, SendExitStatus(t) PROVE FALSE
    <2>1. Says(Home[t], "exit", own[t]) /\ Home[t] \in Side
      BY <1>5, RequestSays, ProcFacts
    <2> QED BY <1>2, <2>1, SideFacts DEF Says
  <1>6. ASSUME NEW x \in Side, IgnoreDead(x) \/ ReadExitStatus(x) PROVE x = s
    <2>1. PICK ty : Reads(x, ty)
      BY <1>6, Zenon DEF IgnoreDead, ReadExitStatus, ReadsFor
    <2>2. Hears(x, ty)
      BY <2>1, Listens
    <2> QED BY <1>2, <2>2, SideFacts DEF Hears
  <1>7. ~IgnoreDead(s)
    <2> SUFFICES ASSUME IgnoreDead(s) PROVE FALSE
      OBVIOUS
    <2>1. PICK ty \in ChannelType : Reads(s, ty)
      BY DEF IgnoreDead
    <2>2. channels[s][wire[s][1].to] = 0 /\ PacketOK(s, wire[s][1])
      BY <2>1, Listens DEF IgnoreDead
    <2>3. chan[s][r].id = wire[s][1].to
      BY <2>2 DEF PacketOK, ChannelType
    <2> QED BY <2>2, <2>3, NumberFacts DEF Unmapped
  <1>8. PICK q \in Opens : /\ ReadsFor(s, "exit", q)
                           /\ chan' = [chan EXCEPT ![s][q].exit_status = TRUE,
                                                   ![s][q].status_event = TRUE]
    BY <1>4, <1>5, <1>6, <1>7, Zenon DEF ReadExitStatus
  <1>9. q = r
    <2>1. "exit" \in ChannelType /\ Reads(s, "exit")
      BY <1>8, Zenon DEF ChannelType, ReadsFor
    <2>2. q = Head(wire[s]).num /\ wire[s][1] = Head(wire[s])
      BY <1>8, <2>1, ReadsRight, Listens
    <2> QED BY <2>2
  <1>10. chan'[s][r] = [chan[s][r] EXCEPT !.exit_status = TRUE, !.status_event = TRUE]
    BY <1>1, <1>8, <1>9
  <1>11. chan[s][r] \in Object
    BY <1>1
  <1> QED BY <1>10, <1>11 DEF Object

\* The exit status stays ahead of the CLOSE.
LEMMA ExitFirstStep ==
    ASSUME SessionInv, SessionInv', [Next]_vars, NEW s \in Side, NEW r \in Opens, ~Unmapped(s, r),
           ExitFirst(s, r)
    PROVE  ExitFirst(s, r)' \/ chan'[s][r].exit_status
  <1>1. wire[s] \in Seq(Msg) /\ wire'[s] \in Seq(Msg) /\ Len(wire[s]) \in Nat /\ Len(wire'[s]) \in Nat
    BY DEF SessionInv, Types
  <1>2. PICK i \in 1 .. Len(wire[s]) :
            /\ wire[s][i].type = "exit" /\ wire[s][i].num = r
            /\ \A j \in 1 .. Len(wire[s]) :
                  wire[s][j].type = "close" /\ wire[s][j].num = r => i < j
    BY DEF ExitFirst
  <1>3. Passes(wire[s], wire'[s], {})
    <2>1. ~Concerns({})
      BY DEF Concerns
    <2> QED BY <2>1, Traffic DEF AllPass
  <1>4. CASE wire'[s] = wire[s]
    BY <1>4 DEF ExitFirst
  <1>5. CASE \E m \in Msg : Added(wire[s], wire'[s], m)
    <2>1. /\ i \in 1 .. Len(wire'[s]) /\ wire'[s][i] = wire[s][i]
          /\ \A j \in 1 .. Len(wire'[s]) :
                (j \in 1 .. Len(wire[s]) /\ wire'[s][j] = wire[s][j]) \/ i < j
      BY <1>1, <1>5 DEF Added
    <2> QED BY <1>2, <2>1 DEF ExitFirst
  <1>6. CASE Taken(wire[s], wire'[s]) /\ i = 1
    BY <1>2, <1>6, ExitRead
  <1>7. CASE Taken(wire[s], wire'[s]) /\ i # 1
    <2>1. PICK k : k = i - 1
      OBVIOUS
    <2>2. k \in 1 .. Len(wire'[s]) /\ wire'[s][k] = wire[s][i]
      BY <1>1, <1>7, <2>1 DEF Taken
    <2>3. ASSUME NEW j \in 1 .. Len(wire'[s]), wire'[s][j].type = "close", wire'[s][j].num = r
          PROVE  k < j
      <3>1. j + 1 \in 1 .. Len(wire[s]) /\ wire'[s][j] = wire[s][j + 1]
        BY <1>1, <1>7 DEF Taken
      <3>2. i < j + 1
        BY <1>2, <2>3, <3>1
      <3> QED BY <1>1, <2>1, <3>2
    <2> QED BY <1>2, <2>2, <2>3 DEF ExitFirst
  <1> QED BY <1>3, <1>4, <1>5, <1>6, <1>7 DEF Passes

\* A timely exit status is on its way before the CLOSE, has come, or is for an
\* object that nobody can reach.
LEMMA ExitStepAt ==
    ASSUME SessionInv, SessionInv', [Next]_vars, Lasting, timely \in [Side -> SUBSET Opens],
           NEW s \in Side, ExitOK(s), DroppedOK(s), CloseSaid(Peer(s)),
           \A x \in Side : \A r \in Opens : Lives(x, r)
    PROVE  ExitOK(s)'
  <1> DEFINE p == Peer(s)
  <1>1. p \in Side /\ Peer(p) = s /\ chan \in [Side -> [Opens -> Object]] /\ wire[s] \in Seq(Msg)
    BY SideFacts DEF SessionInv, Types
  <1>2. ASSUME NEW x \in Side, NEW r \in Opens, Made(x, r) PROVE Made(x, r)'
    <2>1. chan[x][r].st \in {"opening", "open", "closed"} /\ Lives(x, r)
      BY <1>1, <1>2 DEF Made, Object, ChannelState
    <2> QED BY <2>1 DEF Lives, Made
  <1> SUFFICES ASSUME NEW r \in timely'[p]
               PROVE  /\ Made(s, r)' /\ Made(p, r)'
                      /\ \/ chan'[s][r].exit_status
                         \/ Dropped(s, r)'
                         \/ ~Unmapped(s, r)' /\ ExitFirst(s, r)'
    BY DEF ExitOK
  <1>3. timely'[p] \subseteq Opens /\ r \in Opens /\ Lives(s, r)
    BY <1>1, TimelyFrom
  <1>4. CASE r \in timely[p]
    <2>1. /\ Made(s, r) /\ Made(p, r)
          /\ \/ chan[s][r].exit_status
             \/ Dropped(s, r)
             \/ ~Unmapped(s, r) /\ ExitFirst(s, r)
      BY <1>4 DEF ExitOK
    <2>2. Made(s, r)' /\ Made(p, r)'
      BY <1>1, <1>2, <1>3, <2>1
    <2>3. CASE chan[s][r].exit_status
      BY <1>3, <2>1, <2>2, <2>3 DEF Lives
    <2>4. CASE Dropped(s, r)
      BY <1>3, <2>1, <2>2, <2>4, DroppedStays
    <2>5. CASE ~Unmapped(s, r) /\ ExitFirst(s, r)
      <3>1. CASE ~Unmapped(s, r)'
        BY <1>3, <2>2, <2>5, <3>1, ExitFirstStep
      <3>2. CASE Unmapped(s, r)'
        <4>1. \/ Collect(s, r)
              \/ ReadClose(s) /\ wire[s][1].num = r
              \/ chan'[s][r].st = "opening"
          BY <1>3, <2>2, <2>5, <3>2 DEF Lives
        <4>2. CASE Collect(s, r)
          BY <1>3, <2>2, <3>2, <4>2, CollectDrops
        <4>3. CASE ReadClose(s) /\ wire[s][1].num = r
          <5>1. Reads(s, "close")
            BY <4>3, Zenon DEF ReadClose, ReadsFor
          <5>2. wire[s][1].type = "close" /\ 1 \in 1 .. Len(wire[s])
            BY <5>1, ReadsFacts
          <5>3. PICK i \in 1 .. Len(wire[s]) : i < 1
            BY <2>5, <4>3, <5>2 DEF ExitFirst
          <5> QED BY <1>1, <5>3
        <4>4. CASE chan'[s][r].st = "opening"
          BY <2>2, <3>2, <4>4 DEF Dropped
        <4> QED BY <4>1, <4>2, <4>3, <4>4
      <3> QED BY <3>1, <3>2
    <2> QED BY <2>1, <2>3, <2>4, <2>5
  <1>5. CASE \E t \in Threads : /\ SendExitStatus(t) /\ Home[t] = p /\ own[t] = r
                                /\ chan[p][r].st = "open"
    <2>1. PICK t \in Threads : /\ SendExitStatus(t) /\ Home[t] = p /\ own[t] = r
                               /\ chan[p][r].st = "open"
      BY <1>5
    <2>2. Addressable(p, r)
      BY <1>3, <2>1, HeldNow, NumberFacts
    <2>3. Made(p, r) /\ Made(s, r)
      BY <1>1, <2>2 DEF Addressable, Knows
    <2>4. Made(s, r)' /\ Made(p, r)'
      BY <1>1, <1>2, <1>3, <2>3
    <2>5. CASE Unmapped(s, r)
      <3>1. Dropped(s, r)
        BY <1>3, <2>1, <2>3, <2>5 DEF DroppedOK
      <3> QED BY <1>3, <2>3, <2>4, <3>1, DroppedStays
    <2>6. CASE ~Unmapped(s, r)
      <3>1. ~Unmapped(s, r)'
        BY <2>1, <2>6 DEF SendExitStatus, tables, Unmapped
      <3>2. Says(p, "exit", r) /\ active[p]
        BY <1>1, <2>1, RequestSays DEF Lasting
      <3>3. PICK m \in Msg : m.type = "exit" /\ m.num = r /\ Added(wire[s], wire'[s], m)
        BY <1>1, <3>2 DEF Says
      <3>4. ~OnWay(s, "close", r)
        BY <1>1, <1>3, <2>1 DEF CloseSaid
      <3>5. Len(wire'[s]) \in 1 .. Len(wire'[s]) /\ wire'[s][Len(wire'[s])] = m
        BY <1>1, <3>3 DEF Added
      <3>6. \A j \in 1 .. Len(wire'[s]) :
              (j \in 1 .. Len(wire[s]) /\ wire'[s][j] = wire[s][j]) \/ wire'[s][j] = m
        BY <1>1, <3>3 DEF Added
      <3>7. \A j \in 1 .. Len(wire'[s]) : ~(wire'[s][j].type = "close" /\ wire'[s][j].num = r)
        BY <3>3, <3>4, <3>6 DEF OnWay
      <3>8. ExitFirst(s, r)'
        BY <3>3, <3>5, <3>7 DEF ExitFirst
      <3> QED BY <2>4, <3>1, <3>8
    <2> QED BY <2>5, <2>6
  <1> QED BY <1>1, <1>4, <1>5, TimelyFrom

LEMMA ExitInit == Init => ExitInv
  <1> SUFFICES ASSUME Init PROVE ExitInv
    OBVIOUS
  <1>1. /\ wire = [s \in Side |-> <<>>] /\ pc = [p \in Procs |-> "idle"]
        /\ chan = [s \in Side |-> [r \in Opens |-> NewChannel(0, 0, "none")]]
        /\ channel_events = [s \in Side |-> [i \in Ids |-> 0]]
        /\ timely = [s \in Side |-> {}]
    BY DEF Init
  <1>2. \A p \in Procs : pc[p] = "idle"
    BY <1>1
  <1>3. timely \in [Side -> SUBSET Opens] /\ EndsOver
    BY <1>1, <1>2, ProcFacts DEF EndsOver
  <1>4. ASSUME NEW s \in Side
        PROVE  OpenersWait(s) /\ CloseSaid(s) /\ DroppedOK(s) /\ ExitOK(s)
    <2>1. Peer(s) \in Side /\ s \in Procs /\ Peer(s) \in Procs
      BY SideFacts, ProcFacts
    <2>2. wire[s] = <<>> /\ wire[Peer(s)] = <<>> /\ Len(<<>>) = 0
      BY <1>1, <2>1
    <2>3. \A ty, r : ~OnWay(s, ty, r) /\ ~OnWay(Peer(s), ty, r)
      BY <2>2 DEF OnWay
    <2>4. OpenersWait(s)
      BY <1>1, <1>2, <2>1, <2>2, <2>3, ProcFacts DEF OpenersWait
    <2>5. CloseSaid(s)
      BY <1>2, <2>3 DEF CloseSaid
    <2>6. DroppedOK(s)
      BY <1>1 DEF DroppedOK, Made, NewChannel
    <2>7. ExitOK(s)
      BY <1>1, <2>1 DEF ExitOK
    <2> QED BY <2>4, <2>5, <2>6, <2>7
  <1> QED BY <1>3, <1>4 DEF ExitInv

LEMMA ExitStep ==
    ASSUME SessionInv, SessionInv', ExitInv, [Next]_vars
    PROVE  ExitInv'
  <1>1. /\ timely \in [Side -> SUBSET Opens] /\ EndsOver /\ Types
        /\ "client" \in Side
    BY DEF ExitInv, SessionInv, Side
  <1>2. timely' \in [Side -> SUBSET Opens] /\ EndsOver'
    BY <1>1, TimelyFrom, EndsOverStep
  <1>3. ASSUME Lasting', NEW s \in Side
        PROVE  (OpenersWait(s) /\ CloseSaid(s) /\ DroppedOK(s) /\ ExitOK(s))'
    <2>1. Lasting
      BY <1>1, <1>3, ActiveBefore DEF Lasting
    <2>2. \A x \in Side : OpenersWait(x) /\ CloseSaid(x) /\ DroppedOK(x) /\ ExitOK(x)
      BY <2>1 DEF ExitInv
    <2>3. \A x \in Side : \A r \in Opens : Lives(x, r)
      BY <1>1, <2>1, <2>2, LivesStep
    <2>4. Peer(s) \in Side
      BY SideFacts
    <2>5. OpenersWait(s)'
      BY <2>2, <2>3, OpenersWaitStep
    <2>6. CloseSaid(s)'
      BY <2>2, <2>3, CloseSaidStep
    <2>7. DroppedOK(s)'
      BY <2>2, <2>3, <2>4, DroppedStep
    <2>8. ExitOK(s)'
      BY <1>1, <2>1, <2>2, <2>3, <2>4, ExitStepAt
    <2> QED BY <2>5, <2>6, <2>7, <2>8
  <1> QED BY <1>2, <1>3 DEF ExitInv

\* An exit status sent before the CLOSE is kept by the other end once the channel
\* is closed at both, even when that end closed first, for as long as the session
\* lasts and somebody holds the channel (Channel.close, which leaves the object in
\* the map, _handle_close, _handle_request and send_exit_status).
THEOREM StatusKept == Spec => []ExitStatusKept
  <1>1. ExitInv => ExitStatusKept
    <2> SUFFICES ASSUME ExitInv, NEW s \in Side, NEW r \in timely[s],
                        \A q \in Side : active[q],
                        chan[Peer(s)][r].st = "closed", Unmapped(Peer(s), r),
                        NEW t \in Threads, Home[t] = Peer(s), own[t] = r
                 PROVE  chan[Peer(s)][r].exit_status
      BY DEF ExitStatusKept, Unmapped
    <2>1. Peer(s) \in Side /\ Peer(Peer(s)) = s
      BY SideFacts
    <2>2. ExitOK(Peer(s))
      BY <2>1 DEF ExitInv, Lasting
    <2> QED BY <2>1, <2>2 DEF ExitOK, Dropped, Gone
  <1>2. SessionInv /\ SessionInv' /\ ExitInv /\ [Next]_vars => ExitInv'
    BY ExitStep
  <1> QED BY <1>1, <1>2, ExitInit, NumbersAgree, PTL DEF Spec

=============================================================================
