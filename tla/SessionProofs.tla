--------------------------- MODULE SessionProofs ---------------------------
(***************************************************************************)
(* SessionInv is an inductive invariant of module Session.                 *)
(*                                                                         *)
(* Most steps are "ordinary": they give no channel number, so entries only *)
(* leave the tables and what is known stays known (Shrinks, Grows).  For   *)
(* them OrdinaryStep does the work, whatever is sent or read.  Five steps  *)
(* are not, and have a proof of their own: a call begins (Opening), takes  *)
(* its number (Registering), the peer takes up the OPEN (ReadsOpen) and    *)
(* makes its object (Decides), and the answer arrives (ReadsSuccess).      *)
(***************************************************************************)
EXTENDS SessionInvariant, FiniteSetTheorems, TLAPS

\* There are two ends, and each is the peer of the other.
LEMMA SideFacts ==
    ASSUME NEW s \in Side
    PROVE  Peer(s) \in Side /\ Peer(Peer(s)) = s /\ Peer(s) # s /\ Side = {s, Peer(s)}
  BY DEF Side, Peer

\* A process is an application thread of one end or the transport thread of one.
LEMMA ProcFacts ==
    /\ \A t \in Threads : t \in Procs /\ t \notin Side /\ Home[t] \in Side /\ At(t) = Home[t]
    /\ \A s \in Side : s \in Procs /\ s \notin Threads /\ At(s) = s
    /\ \A p \in Procs : At(p) \in Side /\ (p \in Threads \/ p \in Side)
  BY SessionAssumption DEF Procs, At

\* Call numbers begin at 1; there are more channel numbers than calls.
LEMMA NumberFacts ==
    /\ MaxOpens \in Nat /\ ChannelNumbers \in Nat /\ MaxOpens < ChannelNumbers
    /\ 0 \in Ids /\ Ids \subseteq Nat
    /\ 0 \notin Opens /\ Opens \subseteq Nat /\ Opens = 1 .. MaxOpens
  BY SessionAssumption DEF Ids, Opens

\* There are finitely many calls of open_channel.
LEMMA OpensFinite == IsFiniteSet(Opens)
  BY FS_Interval, NumberFacts

\* A counter that has not come round is its own remainder.
LEMMA ModSmall ==
    ASSUME NEW a \in Nat, NEW b \in Nat, a < b
    PROVE  a % b = a
  BY SMT

\* The first free number is the counter's, when no number from the counter on
\* was given away.
LEMMA NextIsCounter ==
    ASSUME NEW s \in Side, channel_counter[s] \in Nat,
           channel_counter[s] < ChannelNumbers,
           channels[s][channel_counter[s]] = 0
    PROVE  NextChannel(s) = channel_counter[s]
  <1> DEFINE after(k) == (channel_counter[s] + k) % ChannelNumbers
             P(n) == /\ channels[s][after(n)] = 0
                     /\ \A m \in 0 .. (n - 1) : channels[s][after(m)] # 0
             k == CHOOSE n \in 0 .. (ChannelNumbers - 1) : P(n)
  <1>1. after(0) = channel_counter[s]
    BY ModSmall, NumberFacts
  <1>2. 0 \in 0 .. (ChannelNumbers - 1) /\ P(0)
    BY <1>1, NumberFacts
  <1>3. k \in 0 .. (ChannelNumbers - 1) /\ P(k)
    BY <1>2
  <1>4. k = 0
    <2> HIDE DEF k
    <2>1. ~(k > 0)
      <3> SUFFICES ASSUME k > 0 PROVE FALSE
        OBVIOUS
      <3>1. 0 \in 0 .. (k - 1)
        BY <1>3
      <3> QED BY <1>1, <1>3, <3>1
    <2> QED BY <1>3, <2>1
  <1>5. NextChannel(s) = after(k)
    BY DEF NextChannel
  <1> QED BY <1>1, <1>4, <1>5

-----------------------------------------------------------------------------
(* What a step may do to the tables and the calls *)

\* Every step: objects keep their numbers, what is known stays known.
Grows ==
    /\ \A s \in Side : \A r \in Opens :
          /\ Made(s, r) => Made(s, r)' /\ chan'[s][r].id = chan[s][r].id
          /\ Knows(s, r) => Knows(s, r)'
          /\ Made(s, r) /\ Unmapped(s, r) => Unmapped(s, r)'
    /\ \A s \in Side : active'[s] => active[s]

\* Most steps at end s: no object gets a number, entries only leave the tables.
ShrinksAt(s) ==
    /\ \A r \in Opens :
          /\ chan'[s][r].id = chan[s][r].id
          /\ chan'[s][r].remote = chan[s][r].remote \/ Knows(s, r)'
          /\ Made(s, r)' <=> Made(s, r)
          /\ chan'[s][r].st = "open" => chan[s][r].st = "open" \/ Knows(s, r)'
    /\ \A i \in Ids :
          /\ channels'[s][i] \in {0, channels[s][i]}
          /\ channel_events'[s][i] \in {0, channel_events[s][i]}
    /\ active'[s] => active[s]
    /\ channel_counter'[s] = channel_counter[s]
    /\ channels_seen'[s] = channels_seen[s]
    /\ opens' \in {opens, opens + 1}

Shrinks == \A s \in Side : ShrinksAt(s)

\* The transport thread of s takes up no OPEN.
NoNewAnswer(s) ==
    /\ pc'[s] \in Answering => pc[s] \in Answering /\ cur'[s] = cur[s]
    /\ pc'[s] = "decide" => pc[s] = "decide"

\* ... or takes up one about a call that s has no object for.
AnswerApart(s) ==
    pc'[s] \in Answering =>
        \/ pc[s] \in Answering /\ cur'[s] = cur[s]
        \/ ~Made(s, cur'[s])

\* Thread t begins no open call, and registers none.
NoNewCall(t) ==
    pc'[t] \in OpenPc =>
        /\ pc[t] \in OpenPc /\ cur'[t] = cur[t]
        /\ \/ pc'[t] = pc[t]
           \/ pc'[t] = "opening" /\ pc[t] = "send_open"
           \/ pc'[t] = "lookup" /\ pc[t] = "opening" /\ cur[t] \in fired /\ active[Home[t]]
           \/ pc'[t] = "raise" /\ pc[t] # "register"

\* ... or goes on with its call, or begins one that has a new number.
Onward(t) ==
    pc'[t] \in OpenPc =>
        \/ /\ pc[t] \in OpenPc /\ cur'[t] = cur[t]
           /\ \/ pc'[t] \notin {"register", "send_open"}
              \/ pc[t] \in {"register", "send_open"}
        \/ cur'[t] = opens + 1

\* An event that is set is for a call that is resolved, or session s ends.
FiresOnly ==
    \A t \in Threads :
        pc[t] \in {"send_open", "opening"} /\ cur[t] \in fired' /\ active'[Home[t]] =>
            cur[t] \in fired \/ Resolved(Home[t], cur[t])'

\* A thread that begins no open call goes on with the one it has.
LEMMA GoesOn ==
    ASSUME NEW t \in Threads, NoNewCall(t)
    PROVE  Onward(t)
  BY DEF NoNewCall, Onward

\* Entries that only leave the tables take no knowledge away.
LEMMA ShrinksGrow ==
    ASSUME Types, Shrinks
    PROVE  Grows
  <1>1. ASSUME NEW s \in Side, NEW r \in Opens
        PROVE  /\ Made(s, r) => Made(s, r)' /\ chan'[s][r].id = chan[s][r].id
               /\ Knows(s, r) => Knows(s, r)'
               /\ Made(s, r) /\ Unmapped(s, r) => Unmapped(s, r)'
    <2>1. Peer(s) \in Side /\ r # 0 /\ chan[s][r].id \in Ids
      BY SideFacts, NumberFacts DEF Types, Object
    <2>2. ShrinksAt(s) /\ ShrinksAt(Peer(s))
      BY <2>1 DEF Shrinks
    <2> QED BY <2>1, <2>2 DEF ShrinksAt, Knows, Unmapped
  <1> QED BY <1>1 DEF Grows, Shrinks, ShrinksAt

\* The tables stay right when entries only leave them.
LEMMA TablesKept ==
    ASSUME Types, NEW s \in Side, TablesOK(s), ShrinksAt(s), NoNewAnswer(s)
    PROVE  TablesOK(s)'
  <1>1. \A r \in Opens : Numbered(s, r)' => Numbered(s, r)
    BY DEF Numbered, ShrinksAt, NoNewAnswer, Answering
  <1>2. opens \in Nat /\ opens' \in Nat /\ opens <= opens' /\ Opens \subseteq Nat
    BY NumberFacts DEF Types, ShrinksAt
  <1>3. /\ \A r \in Opens : Numbered(s, r)' => r <= opens' /\ chan'[s][r].id < channel_counter'[s]
        /\ \A q, r \in Opens :
              Numbered(s, q)' /\ Numbered(s, r)' /\ q # r => chan'[s][q].id # chan'[s][r].id
    BY <1>1, <1>2 DEF TablesOK, ShrinksAt
  <1>4. \A r \in Opens : Made(s, r)' => chan'[s][r].id \in channels_seen'[s]
    BY DEF TablesOK, ShrinksAt
  <1>5. Names(s, channels[s])' /\ Names(s, channel_events[s])'
    <2>1. \A i \in Ids : channels[s][i] \in Opens \cup {0} /\ channel_events[s][i] \in Opens \cup {0}
      BY DEF Types
    <2>2. Names(s, channels[s]) /\ Names(s, channel_events[s])
      BY DEF TablesOK
    <2> QED BY <2>1, <2>2 DEF ShrinksAt, Made, Names
  <1> QED BY <1>3, <1>4, <1>5 DEF TablesOK

\* No more calls are to come than before.
LEMMA CountStays ==
    ASSUME Types, NEW s \in Side, CountOK(s),
           opens' \in {opens, opens + 1}, channel_counter'[s] = channel_counter[s],
           \A r \in Opens :
              Coming(s, r)' => Coming(s, r) /\ ~Made(s, r)' /\ ~(pc'[s] \in Answering /\ cur'[s] = r)
    PROVE  CountOK(s)'
  <1> DEFINE Old == {r \in Opens : Coming(s, r)}
             New == {r \in Opens : Coming(s, r)'}
  <1>1. opens \in Nat /\ opens' \in Nat /\ opens <= opens' /\ Opens \subseteq Nat
    BY NumberFacts DEF Types
  <1>2. \A r \in Opens : Coming(s, r)' => r <= opens'
    BY <1>1 DEF CountOK
  <1>3. New \subseteq Old /\ IsFiniteSet(Old)
    BY FS_Subset, OpensFinite
  <1>4. Cardinality(New) <= Cardinality(Old) /\ Cardinality(New) \in Nat /\ Cardinality(Old) \in Nat
    BY <1>3, FS_Subset, FS_CardinalityType
  <1>5. channel_counter[s] + Cardinality(Old) <= opens /\ channel_counter[s] \in Nat
    BY DEF CountOK, Types
  <1> HIDE DEF Old, New
  <1>6. channel_counter'[s] + Cardinality(New) <= opens'
    BY <1>1, <1>4, <1>5
  <1> QED BY <1>2, <1>6 DEF CountOK, New

\* The count of calls to come stays right when no number is given.
LEMMA CountKept ==
    ASSUME Types, NEW s \in Side, CountOK(s), ShrinksAt(s), NoNewAnswer(s),
           \A r \in Opens : Coming(s, r)' => Coming(s, r)
    PROVE  CountOK(s)'
  <1>1. \A r \in Opens :
           Coming(s, r)' => Coming(s, r) /\ ~Made(s, r)' /\ ~(pc'[s] \in Answering /\ cur'[s] = r)
    BY DEF CountOK, ShrinksAt, NoNewAnswer
  <1> QED BY <1>1, CountStays DEF ShrinksAt

\* What is resolved or settled stays so.
LEMMA ResolvedStays ==
    ASSUME Grows, NEW s \in Side, NEW r \in Opens, Made(s, r)
    PROVE  /\ Resolved(s, r) => Resolved(s, r)'
           /\ Settled(s, r) => Settled(s, r)'
  BY DEF Grows, Resolved, Settled

\* A call in progress goes on.
LEMMA CallKept ==
    ASSUME SessionInv, Grows, FiresOnly, opens' \in {opens, opens + 1},
           NEW t \in Threads, NoNewCall(t),
           pc[t] \in OpenPc =>
             /\ \A i \in Ids : channel_events'[Peer(Home[t])][i] # cur[t]
             /\ ~(pc'[Home[t]] \in Answering /\ cur'[Home[t]] = cur[t])
    PROVE  CallOK(t)'
  <1> SUFFICES ASSUME pc'[t] \in OpenPc
               PROVE  CallOK(t)'
    BY DEF CallOK
  <1> DEFINE h == Home[t]
             r == cur[t]
  <1>1. /\ pc[t] \in OpenPc /\ cur'[t] = r
        /\ \/ pc'[t] = pc[t]
           \/ pc'[t] = "opening" /\ pc[t] = "send_open"
           \/ pc'[t] = "lookup" /\ pc[t] = "opening" /\ r \in fired /\ active[h]
           \/ pc'[t] = "raise" /\ pc[t] # "register"
    BY DEF NoNewCall
  <1>2. CallOK(t) /\ opens \in 0 .. MaxOpens /\ MaxOpens \in Nat
    BY NumberFacts DEF SessionInv, Types
  <1>3. r \in 1 .. opens /\ r \in Opens /\ h \in Side /\ Peer(h) \in Side
    BY <1>1, <1>2, NumberFacts, ProcFacts, SideFacts DEF CallOK
  <1>4. (\A i \in Ids : channel_events'[Peer(h)][i] # r) /\ ~(pc'[h] \in Answering /\ cur'[h] = r)
    BY <1>1
  <1>5. pc'[t] # "register" => pc[t] # "register"
    BY <1>1
  <1>6. pc[t] # "register" => Made(h, r) /\ Made(h, r)'
    BY <1>1, <1>2, <1>3 DEF CallOK, Grows
  <1>7. pc'[t] = "lookup" => Resolved(h, r)'
    BY <1>1, <1>2, <1>3, <1>6, ResolvedStays DEF CallOK
  <1>8. pc'[t] \in {"send_open", "opening"} /\ r \in fired' /\ active'[h] => Resolved(h, r)'
    <2> SUFFICES ASSUME pc'[t] \in {"send_open", "opening"}, r \in fired', active'[h]
                 PROVE  Resolved(h, r)'
      OBVIOUS
    <2>1. pc[t] \in {"send_open", "opening"} /\ active[h]
      BY <1>1, <1>3 DEF Grows
    <2>2. r \in fired \/ Resolved(h, r)'
      BY <2>1 DEF FiresOnly
    <2> QED BY <1>1, <1>2, <1>3, <1>6, <2>1, <2>2, ResolvedStays DEF CallOK
  <1> HIDE DEF h, r
  <1>9. cur'[t] \in 1 .. opens'
    BY <1>1, <1>2, <1>3
  <1> QED BY <1>1, <1>4, <1>5, <1>6, <1>7, <1>8, <1>9 DEF CallOK, h, r

\* The open calls stay right in a step that begins or registers none.
LEMMA CallsKept ==
    ASSUME SessionInv, Grows, Shrinks, FiresOnly,
           \A s \in Side : NoNewAnswer(s),
           \A t \in Threads : NoNewCall(t)
    PROVE  CallsDistinct' /\ \A t \in Threads : CallOK(t)'
  <1>1. CallsDistinct'
    BY DEF SessionInv, CallsDistinct, NoNewCall
  <1>2. ASSUME NEW t \in Threads
        PROVE  CallOK(t)'
    <2>1. CallOK(t) /\ Home[t] \in Side /\ Peer(Home[t]) \in Side
      BY ProcFacts, SideFacts DEF SessionInv
    <2>2. opens' \in {opens, opens + 1} /\ ShrinksAt(Peer(Home[t]))
      BY <2>1 DEF Shrinks, ShrinksAt
    <2>3. ASSUME pc[t] \in OpenPc
          PROVE  /\ \A i \in Ids : channel_events'[Peer(Home[t])][i] # cur[t]
                 /\ ~(pc'[Home[t]] \in Answering /\ cur'[Home[t]] = cur[t])
      <3>1. cur[t] \in 1 .. opens /\ opens \in Nat
        BY <2>1, <2>3 DEF CallOK, SessionInv, Types
      <3>2. cur[t] # 0
        BY <3>1
      <3> QED BY <2>1, <2>2, <2>3, <3>2 DEF CallOK, ShrinksAt, NoNewAnswer
    <2> QED BY <2>2, <2>3, CallKept
  <1> QED BY <1>1, <1>2

\* Who may address the peer may do so after a step.
LEMMA AddressableStays ==
    ASSUME Grows, NEW s \in Side, NEW r, Addressable(s, r), AnswerApart(s)
    PROVE  Addressable(s, r)'
  BY DEF Addressable, Grows, AnswerApart

\* An answer that goes on is apart from the calls of this end.
LEMMA AnswersApart ==
    ASSUME NEW s \in Side, NoNewAnswer(s)
    PROVE  AnswerApart(s)
  BY DEF NoNewAnswer, AnswerApart

\* What a process holds after the step, it may hold in the tables before it.
HoldsBefore ==
    /\ \A t \in Threads :
          /\ own'[t] # 0 => Addressable(Home[t], own'[t])
          /\ pc'[t] = "send_close" => Addressable(Home[t], cur'[t])
          /\ pc'[t] \in RequestPc => own'[t] # 0
    /\ \A s \in Side :
          /\ \A i \in 1 .. Len(server_accepts'[s]) : Addressable(s, server_accepts'[s][i])
          /\ pc'[s] \in {"send_close", "success", "failure"} => Addressable(s, cur'[s])
          /\ pc'[s] \in Answering \cup {"queue"} => cur'[s] \in Opens /\ Knows(s, cur'[s])
          /\ pc'[s] \in {"accept_open", "queue"} => Made(s, cur'[s])

\* Thread t holds what it held, or what it may hold.
LEMMA ThreadHoldsKept ==
    ASSUME Grows, NEW t \in Threads, AnswerApart(Home[t]),
           own'[t] # 0 => Addressable(Home[t], own'[t]),
           pc'[t] = "send_close" => Addressable(Home[t], cur'[t]),
           pc'[t] \in RequestPc => own'[t] # 0
    PROVE  ThreadHolds(t)'
  <1>1. Home[t] \in Side
    BY ProcFacts
  <1>2. ASSUME NEW r, Addressable(Home[t], r)
        PROVE  Addressable(Home[t], r)'
    BY <1>1, <1>2, AddressableStays
  <1>3. PICK o : o = own'[t]
    OBVIOUS
  <1>4. PICK c : c = cur'[t]
    OBVIOUS
  <1>5. o # 0 => Addressable(Home[t], o)'
    BY <1>2, <1>3
  <1>6. pc'[t] = "send_close" => Addressable(Home[t], c)'
    BY <1>2, <1>4
  <1> QED BY <1>3, <1>4, <1>5, <1>6 DEF ThreadHolds, Addressable, Knows, Made

\* The queue of s stays fine.
LEMMA QueueKept ==
    ASSUME Grows, NEW s \in Side, AnswerApart(s),
           \A i \in 1 .. Len(server_accepts'[s]) : Addressable(s, server_accepts'[s][i])
    PROVE  \A i \in 1 .. Len(server_accepts'[s]) : Addressable(s, server_accepts[s][i])'
  <1> SUFFICES ASSUME NEW i \in 1 .. Len(server_accepts'[s])
               PROVE  Addressable(s, server_accepts[s][i])'
    OBVIOUS
  <1>1. PICK r : r = server_accepts'[s][i]
    OBVIOUS
  <1>2. Addressable(s, r)'
    BY <1>1, AddressableStays
  <1> QED BY <1>1, <1>2 DEF Addressable, Knows, Made

\* The transport thread of s takes up no answer, and holds what it may hold.
LEMMA EndHoldsKept ==
    ASSUME SessionInv, Grows, NEW s \in Side, NoNewAnswer(s),
           \A i \in 1 .. Len(server_accepts'[s]) : Addressable(s, server_accepts'[s][i]),
           pc'[s] \in {"send_close", "success", "failure"} => Addressable(s, cur'[s]),
           pc'[s] \in Answering \cup {"queue"} => cur'[s] \in Opens /\ Knows(s, cur'[s]),
           pc'[s] \in {"accept_open", "queue"} => Made(s, cur'[s]),
           \A r \in Opens : chan'[s][r].st = "open" => chan[s][r].st = "open" \/ Knows(s, r)',
           pc[s] = "decide" => \A r \in Opens : cur[s] = r /\ ~Made(s, r) => ~Made(s, r)'
    PROVE  EndHolds(s)'
  <1>1. ASSUME NEW r, Addressable(s, r)
        PROVE  Addressable(s, r)'
    BY <1>1, AddressableStays, AnswersApart
  <1>2. \A i \in 1 .. Len(server_accepts'[s]) : Addressable(s, server_accepts[s][i])'
    BY AnswersApart, QueueKept
  <1>3. PICK c : c = cur'[s]
    OBVIOUS
  <1>4. pc'[s] \in {"send_close", "success", "failure"} => Addressable(s, c)'
    BY <1>1, <1>3
  <1>5. pc'[s] \in Answering \cup {"queue"} => c \in Opens /\ Knows(s, c)'
    BY <1>3 DEF Grows
  <1>6. pc'[s] \in {"accept_open", "queue"} => Made(s, c)'
    BY <1>3, <1>5 DEF Grows, Answering
  <1>7. pc'[s] = "decide" => ~Made(s, c)'
    <2> SUFFICES ASSUME pc'[s] = "decide"
                 PROVE  ~Made(s, c)'
      OBVIOUS
    <2>1. pc[s] = "decide" /\ c = cur[s] /\ c \in Opens
      BY <1>3, <1>5 DEF NoNewAnswer, Answering
    <2>2. ~Made(s, c)
      BY <2>1 DEF SessionInv, EndHolds
    <2> QED BY <2>1, <2>2
  <1>8. \A r \in Opens : chan'[s][r].st = "open" => Knows(s, r)'
    BY DEF Grows, SessionInv, EndHolds
  <1> QED BY <1>2, <1>3, <1>4, <1>5, <1>6, <1>7, <1>8 DEF EndHolds, Addressable, Knows, Made

\* Whoever holds an object may still address the peer with it.
LEMMA HoldsKept ==
    ASSUME SessionInv, Grows, Shrinks, HoldsBefore,
           \A s \in Side : NoNewAnswer(s)
    PROVE  /\ \A t \in Threads : ThreadHolds(t)'
           /\ \A s \in Side : EndHolds(s)'
  <1>1. ASSUME NEW t \in Threads
        PROVE  ThreadHolds(t)'
    BY ProcFacts, AnswersApart, ThreadHoldsKept DEF HoldsBefore
  <1>2. ASSUME NEW s \in Side
        PROVE  EndHolds(s)'
    <2>1. ShrinksAt(s)
      BY DEF Shrinks
    <2>2. /\ \A r \in Opens : chan'[s][r].st = "open" => chan[s][r].st = "open" \/ Knows(s, r)'
          /\ \A r \in Opens : cur[s] = r /\ ~Made(s, r) => ~Made(s, r)'
      BY <2>1 DEF ShrinksAt
    <2> QED BY <2>2, EndHoldsKept DEF HoldsBefore
  <1> QED BY <1>1, <1>2

-----------------------------------------------------------------------------
(* Packets *)

\* A packet on its way stays right.
LEMMA PacketKept ==
    ASSUME SessionInv, Grows, NEW s \in Side, NEW m, PacketOK(s, m),
           \A t \in Threads : Onward(t)
    PROVE  PacketOK(s, m)'
  <1>1. Peer(s) \in Side
    BY SideFacts
  <1>2. ASSUME NEW t \in Threads, m.type = "open", pc'[t] \in OpenPc, cur'[t] = m.num
        PROVE  Home[t] = Peer(s) /\ pc'[t] \notin {"register", "send_open"}
    <2>1. m.num \in Opens /\ m.num <= opens
      BY <1>1, <1>2 DEF PacketOK, SessionInv, TablesOK, Numbered
    <2>2. cur'[t] # opens + 1
      BY <1>2, <2>1, NumberFacts DEF SessionInv, Types
    <2>3. /\ pc[t] \in OpenPc /\ cur[t] = m.num
          /\ pc'[t] \notin {"register", "send_open"} \/ pc[t] \in {"register", "send_open"}
      BY <1>2, <2>2 DEF Onward
    <2> QED BY <1>2, <2>3 DEF PacketOK
  <1>3. m.type = "open" =>
          m.num \in Opens /\ Made(Peer(s), m.num)' /\ chan'[Peer(s)][m.num].id = m.from
    BY <1>1 DEF PacketOK, Grows
  <1>4. m.type \in ChannelType \cup {"open_success", "open_failure"} =>
          m.num \in Opens /\ Made(s, m.num)' /\ chan'[s][m.num].id = m.to
    BY DEF PacketOK, Grows
  <1>5. m.type = "open_success" =>
          Made(Peer(s), m.num)' /\ chan'[Peer(s)][m.num].id = m.from
    BY <1>1 DEF PacketOK, Grows
  <1> QED BY <1>2, <1>3, <1>4, <1>5 DEF PacketOK

\* The packets that wait for s are all old ones.
LEMMA WireSame ==
    ASSUME SessionInv, Grows, NEW s \in Side, WireOK(s), wire'[s] = wire[s],
           \A t \in Threads : Onward(t)
    PROVE  /\ WireOK(s)'
           /\ \A r \in Opens : Promised(s, r) => Promised(s, r)'
  <1>1. ASSUME NEW i \in 1 .. Len(wire[s])
        PROVE  PacketOK(s, wire[s][i])'
    <2>1. PICK m : m = wire[s][i]
      OBVIOUS
    <2>2. PacketOK(s, m)'
      BY <2>1, PacketKept DEF WireOK
    <2>3. m = wire'[s][i]
      BY <2>1
    <2> QED BY <2>2, <2>3 DEF PacketOK, Made
  <1>2. ASSUME NEW i \in 1 .. Len(wire[s]), wire[s][i].type \in ChannelType
        PROVE  Settled(s, wire[s][i].num)' \/ Announced(s, wire[s][i].num, i)'
    <2>1. PICK r : r = wire[s][i].num
      OBVIOUS
    <2>2. r \in Opens /\ Made(s, r)
      BY <1>2, <2>1 DEF WireOK, PacketOK
    <2>3. Settled(s, r) \/ Announced(s, r, i)
      BY <1>2, <2>1 DEF WireOK
    <2>4. Settled(s, r)' \/ Announced(s, r, i)'
      BY <2>2, <2>3, ResolvedStays DEF Announced
    <2>5. r = wire'[s][i].num
      BY <2>1
    <2> QED BY <2>4, <2>5 DEF Settled, Announced, Knows, Unmapped, Made
  <1> QED BY <1>1, <1>2 DEF WireOK, Promised

\* The first packet is read; an OPEN_SUCCESS settles its call.
LEMMA WireTaken ==
    ASSUME SessionInv, Types, Grows, NEW s \in Side, WireOK(s), wire[s] # <<>>,
           wire'[s] = Tail(wire[s]), NEW h, h = Head(wire[s]),
           h.type = "open_success" => Settled(s, h.num)',
           \A t \in Threads : Onward(t)
    PROVE  /\ WireOK(s)'
           /\ \A r \in Opens : Promised(s, r) => Promised(s, r)' \/ Settled(s, r)'
  <1>1. /\ Len(wire[s]) \in Nat /\ Len(wire[s]) > 0 /\ Head(wire[s]) = wire[s][1]
        /\ Len(wire'[s]) = Len(wire[s]) - 1
        /\ \A i \in 1 .. Len(wire'[s]) :
              i + 1 \in 1 .. Len(wire[s]) /\ wire'[s][i] = wire[s][i + 1]
    <2>1. wire[s] \in Seq(Msg)
      BY DEF Types
    <2> QED BY <2>1
  <1>2. ASSUME NEW i \in 1 .. Len(wire'[s])
        PROVE  PacketOK(s, wire[s][i])'
    <2>1. PICK m : m = wire[s][i + 1]
      OBVIOUS
    <2>2. PacketOK(s, m)'
      BY <1>1, <2>1, PacketKept DEF WireOK
    <2>3. m = wire'[s][i]
      BY <1>1, <2>1
    <2> QED BY <2>2, <2>3 DEF PacketOK, Made
  <1>3. ASSUME NEW r \in Opens, NEW j \in 1 .. Len(wire[s]),
               wire[s][j].type = "open_success", wire[s][j].num = r
        PROVE  \/ Settled(s, r)'
               \/ /\ j - 1 \in 1 .. Len(wire'[s])
                  /\ wire'[s][j - 1].type = "open_success" /\ wire'[s][j - 1].num = r
    <2>1. CASE j = 1
      BY <1>1, <1>3, <2>1
    <2>2. CASE j # 1
      <3>1. j - 1 \in 1 .. Len(wire'[s]) /\ (j - 1) + 1 = j
        BY <1>1, <2>2
      <3> QED BY <1>1, <1>3, <3>1
    <2> QED BY <2>1, <2>2
  <1>4. ASSUME NEW i \in 1 .. Len(wire'[s]), wire'[s][i].type \in ChannelType
        PROVE  Settled(s, wire[s][i].num)' \/ Announced(s, wire[s][i].num, i)'
    <2>1. PICK r : r = wire'[s][i].num
      OBVIOUS
    <2>2. /\ i + 1 \in 1 .. Len(wire[s]) /\ wire[s][i + 1].num = r
          /\ wire[s][i + 1].type \in ChannelType
      BY <1>1, <1>4, <2>1
    <2>3. r \in Opens /\ Made(s, r)
      BY <2>2 DEF WireOK, PacketOK
    <2>4. Settled(s, r) \/ Announced(s, r, i + 1)
      BY <2>2 DEF WireOK
    <2>5. CASE Settled(s, r)
      BY <2>1, <2>3, <2>5, ResolvedStays DEF Settled, Knows, Unmapped, Made
    <2>6. CASE Announced(s, r, i + 1)
      <3>1. PICK j \in 1 .. Len(wire[s]) :
                j < i + 1 /\ wire[s][j].type = "open_success" /\ wire[s][j].num = r
        BY <2>6 DEF Announced
      <3>2. Settled(s, r)' \/ Announced(s, r, i)'
        <4>1. j - 1 < i
          BY <3>1
        <4> QED BY <1>3, <2>3, <3>1, <4>1 DEF Announced
      <3> QED BY <2>1, <3>2 DEF Settled, Announced, Knows, Unmapped, Made
    <2> QED BY <2>4, <2>5, <2>6
  <1>5. ASSUME NEW i \in 1 .. Len(wire'[s]), NEW j \in 1 .. Len(wire'[s]), i # j,
               wire'[s][i].type = "open", wire'[s][j].type = "open"
        PROVE  wire'[s][i].num # wire'[s][j].num
    BY <1>1, <1>5 DEF WireOK
  <1>6. \A r \in Opens : Promised(s, r) => Promised(s, r)' \/ Settled(s, r)'
    BY <1>3 DEF Promised
  <1> QED BY <1>2, <1>4, <1>5, <1>6 DEF WireOK

\* One packet is added; if it is about a channel, its call is settled or the
\* OPEN_SUCCESS is before it.
LEMMA WireSent ==
    ASSUME Types, Grows, NEW s \in Side, WireOK(s), NEW m \in Msg,
           wire'[s] = Append(wire[s], m), PacketOK(s, m)',
           m.type \in ChannelType => Settled(s, m.num)' \/ Promised(s, m.num),
           m.type = "open" =>
             \A i \in 1 .. Len(wire[s]) :
                wire[s][i].type = "open" => wire[s][i].num # m.num,
           \A i \in 1 .. Len(wire[s]) : PacketOK(s, wire[s][i])'
    PROVE  /\ WireOK(s)'
           /\ \A r \in Opens : Promised(s, r) => Promised(s, r)'
           /\ m.type = "open_success" => Promised(s, m.num)'
  <1> DEFINE n == Len(wire[s])
  <1>1. /\ n \in Nat /\ Len(wire'[s]) = n + 1 /\ wire'[s][n + 1] = m
        /\ \A i \in 1 .. n : wire'[s][i] = wire[s][i]
    <2>1. wire[s] \in Seq(Msg)
      BY DEF Types
    <2> QED BY <2>1
  <1>2. ASSUME NEW i \in 1 .. n
        PROVE  i \in 1 .. Len(wire'[s]) /\ i < n + 1
    BY <1>1
  <1>3. ASSUME NEW i \in 1 .. Len(wire'[s])
        PROVE  PacketOK(s, wire[s][i])'
    <2>1. CASE i = n + 1
      BY <1>1, <2>1 DEF PacketOK, Made
    <2>2. CASE i \in 1 .. n
      BY <1>1, <2>2 DEF PacketOK, Made
    <2> QED BY <1>1, <2>1, <2>2
  <1>4. ASSUME NEW i \in 1 .. Len(wire'[s]), wire'[s][i].type \in ChannelType
        PROVE  Settled(s, wire[s][i].num)' \/ Announced(s, wire[s][i].num, i)'
    <2>1. PICK r : r = wire'[s][i].num
      OBVIOUS
    <2>2. Settled(s, r)' \/ Announced(s, r, i)'
      <3>1. CASE i = n + 1
        <4>1. Settled(s, r)' \/ Promised(s, r)
          BY <1>1, <1>4, <2>1, <3>1
        <4>2. Promised(s, r) => Announced(s, r, i)'
          BY <1>1, <1>2, <3>1 DEF Promised, Announced
        <4> QED BY <4>1, <4>2
      <3>2. CASE i \in 1 .. n
        <4>1. r \in Opens /\ Made(s, r)
          BY <1>1, <1>4, <2>1, <3>2 DEF WireOK, PacketOK
        <4>2. Settled(s, r) \/ Announced(s, r, i)
          BY <1>1, <1>4, <2>1, <3>2 DEF WireOK
        <4>3. Announced(s, r, i) => Announced(s, r, i)'
          BY <1>1, <1>2 DEF Announced
        <4> QED BY <4>1, <4>2, <4>3, ResolvedStays
      <3> QED BY <1>1, <3>1, <3>2
    <2> QED BY <2>1, <2>2 DEF Settled, Announced, Knows, Unmapped, Made
  <1>5. ASSUME NEW i \in 1 .. Len(wire'[s]), NEW j \in 1 .. Len(wire'[s]), i # j,
               wire'[s][i].type = "open", wire'[s][j].type = "open"
        PROVE  wire'[s][i].num # wire'[s][j].num
    <2>1. CASE i \in 1 .. n /\ j \in 1 .. n
      BY <1>1, <1>5, <2>1 DEF WireOK
    <2>2. CASE i \in 1 .. n /\ j = n + 1
      BY <1>1, <1>5, <2>2
    <2>3. CASE i = n + 1 /\ j \in 1 .. n
      BY <1>1, <1>5, <2>3
    <2> QED BY <1>1, <1>5, <2>1, <2>2, <2>3
  <1>6. \A r \in Opens : Promised(s, r) => Promised(s, r)'
    BY <1>1, <1>2 DEF Promised
  <1>7. m.type = "open_success" => Promised(s, m.num)'
    <2>1. n + 1 \in 1 .. Len(wire'[s])
      BY <1>1
    <2> QED BY <1>1, <2>1 DEF Promised
  <1> QED BY <1>3, <1>4, <1>5, <1>6, <1>7 DEF WireOK

\* What is open between the two ends stays so.
LEMMA AnswerKept ==
    ASSUME Types, NEW s \in Side, AnswerOK(s), Grows,
           \A r \in Opens : Promised(s, r) => Promised(s, r)' \/ Settled(s, r)',
           \A r \in Opens :
             Made(s, r)' /\ Made(Peer(s), r)' =>
               \/ Made(s, r) /\ Made(Peer(s), r)
               \/ Settled(s, r)'
               \/ pc'[Peer(s)] = "accept_open" /\ cur'[Peer(s)] = r,
           \A r \in Opens :
             pc[Peer(s)] = "accept_open" /\ cur[Peer(s)] = r =>
               \/ pc'[Peer(s)] = "accept_open" /\ cur'[Peer(s)] = r
               \/ ~active'[s] \/ ~active'[Peer(s)] \/ Promised(s, r)'
    PROVE  AnswerOK(s)'
  <1> SUFFICES ASSUME NEW r \in Opens, Made(s, r)', Made(Peer(s), r)'
               PROVE  \/ Settled(s, r)'
                      \/ ~active'[Peer(s)]
                      \/ Promised(s, r)'
                      \/ pc'[Peer(s)] = "accept_open" /\ cur'[Peer(s)] = r
    BY DEF AnswerOK
  <1>1. CASE Made(s, r) /\ Made(Peer(s), r)
    <2>1. \/ Settled(s, r) \/ ~active[Peer(s)] \/ Promised(s, r)
          \/ pc[Peer(s)] = "accept_open" /\ cur[Peer(s)] = r
      BY <1>1 DEF AnswerOK
    <2>2. Settled(s, r) => Settled(s, r)'
      BY <1>1, ResolvedStays
    <2>3. active'[Peer(s)] => active[Peer(s)]
      BY SideFacts DEF Grows
    <2>4. ~active'[s] => Settled(s, r)'
      BY DEF Settled
    <2> QED BY <2>1, <2>2, <2>3, <2>4
  <1> QED BY <1>1

-----------------------------------------------------------------------------
(* The ordinary steps: no open call begins, is registered, sent or answered *)

\* The transport thread of s leaves the answer unsent only if nobody is there.
StillAccepting(s) ==
    \A r \in Opens :
        pc[s] = "accept_open" /\ cur[s] = r =>
            \/ pc'[s] = "accept_open" /\ cur'[s] = r
            \/ ~active'[s] \/ ~active'[Peer(s)] \/ Promised(Peer(s), r)'

FiresMade == \A r \in fired' : r \in fired \/ \E s \in Side : Made(s, r)

Ordinary ==
    /\ Shrinks /\ FiresOnly /\ FiresMade /\ HoldsBefore
    /\ \A s \in Side : NoNewAnswer(s) /\ StillAccepting(s)
    /\ \A t \in Threads : NoNewCall(t)

Reading ==
    \E s \in Side : /\ wire[s] # <<>>
                    /\ wire' = [wire EXCEPT ![s] = Tail(@)]
                    /\ \E m \in Msg : /\ m = Head(wire[s])
                                      /\ m.type = "open_success" => Settled(s, m.num)'

\* The packets that s may send: one about no channel; one about a channel that
\* s may address; the answer to an OPEN; and an OPEN for a registered call.
Addresses(s, m) ==
    m.type \in ChannelType /\ Addressable(s, m.num) /\ m.to = chan[s][m.num].remote

AnswersOpen(s, m) ==
    /\ m.num \in Opens /\ Knows(s, m.num) /\ m.to = chan[s][m.num].remote
    /\ \/ m.type = "open_failure"
       \/ m.type = "open_success" /\ Made(s, m.num) /\ m.from = chan[s][m.num].id

Opened(s, m) ==
    /\ m.type = "open" /\ m.from = chan[s][m.num].id
    /\ \E t \in Threads : /\ Home[t] = s /\ cur[t] = m.num /\ cur'[t] = m.num
                          /\ pc[t] = "send_open" /\ pc'[t] = "opening"

Proper(s, m) ==
    \/ m.type \in {"global", "global_reply"}
    \/ Addresses(s, m) \/ AnswersOpen(s, m) \/ Opened(s, m)

Sending ==
    \E s \in Side : \E m \in Msg :
        /\ active[s]
        /\ wire' = [wire EXCEPT ![Peer(s)] = Append(@, m)]
        /\ Proper(s, m)

\* No call becomes one that is to come when none begins.
LEMMA ComingKept ==
    ASSUME NEW s \in Side,
           \A t \in Threads : NoNewCall(t),
           \A i \in 1 .. Len(wire'[s]) :
              wire'[s][i].type = "open" => Coming(s, wire'[s][i].num)
    PROVE  \A r \in Opens : Coming(s, r)' => Coming(s, r)
  <1> SUFFICES ASSUME NEW r \in Opens, Coming(s, r)'
               PROVE  Coming(s, r)
    OBVIOUS
  <1>1. CASE \E t \in Threads : /\ cur'[t] = r
                                /\ \/ pc'[t] = "register"
                                   \/ pc'[t] = "send_open" /\ Home[t] = Peer(s)
    <2>1. PICK t \in Threads : /\ cur'[t] = r
                               /\ \/ pc'[t] = "register"
                                  \/ pc'[t] = "send_open" /\ Home[t] = Peer(s)
      BY <1>1
    <2>2. pc[t] = pc'[t] /\ cur[t] = r
      BY <2>1 DEF NoNewCall, OpenPc
    <2> QED BY <2>1, <2>2 DEF Coming
  <1>2. CASE \E i \in 1 .. Len(wire'[s]) : wire'[s][i].type = "open" /\ wire'[s][i].num = r
    BY <1>2
  <1> QED BY <1>1, <1>2 DEF Coming

\* A packet that s may send is right for the peer.
LEMMA ProperPacket ==
    ASSUME SessionInv, Grows, NEW s \in Side, active[s], NEW m, Proper(s, m),
           \A t \in Threads : NoNewCall(t)
    PROVE  /\ PacketOK(Peer(s), m)'
           /\ m.type \in ChannelType => Settled(Peer(s), m.num)' \/ Promised(Peer(s), m.num)
           /\ m.type = "open" => Coming(Peer(s), m.num)
           /\ m.type = "open" => \A i \in 1 .. Len(wire[Peer(s)]) :
                wire[Peer(s)][i].type = "open" => wire[Peer(s)][i].num # m.num
  <1> DEFINE p == Peer(s)
  <1>1. p \in Side /\ Peer(p) = s
    BY SideFacts
  <1>2. CASE m.type \in {"global", "global_reply"}
    BY <1>2 DEF PacketOK, ChannelType
  <1>3. CASE Addresses(s, m)
    <2>1. /\ m.num \in Opens /\ Made(s, m.num) /\ Made(p, m.num)
          /\ m.to = chan[p][m.num].id
          /\ ~(pc[s] \in Answering /\ cur[s] = m.num)
      BY <1>3 DEF Addresses, Addressable, Knows
    <2>2. Made(p, m.num)' /\ chan'[p][m.num].id = m.to
      BY <1>1, <2>1 DEF Grows
    <2>3. m.type \notin {"open", "open_success", "open_failure"}
      BY <1>3 DEF Addresses, ChannelType
    <2>4. Settled(p, m.num) \/ Promised(p, m.num)
      BY <1>1, <2>1 DEF SessionInv, AnswerOK, Answering
    <2>5. Settled(p, m.num) => Settled(p, m.num)'
      BY <1>1, <2>1, ResolvedStays
    <2> QED BY <1>1, <2>1, <2>2, <2>3, <2>4, <2>5 DEF PacketOK
  <1>4. CASE AnswersOpen(s, m)
    <2>1. /\ m.num \in Opens /\ Made(p, m.num) /\ m.to = chan[p][m.num].id
          /\ m.type = "open_success" => Made(s, m.num) /\ m.from = chan[s][m.num].id
      BY <1>4 DEF AnswersOpen, Knows
    <2>2. /\ Made(p, m.num)' /\ chan'[p][m.num].id = m.to
          /\ m.type = "open_success" => Made(s, m.num)' /\ m.from = chan'[s][m.num].id
      BY <1>1, <2>1 DEF Grows
    <2>3. m.type \in {"open_failure", "open_success"} /\ m.type \notin ChannelType \cup {"open"}
      BY <1>4 DEF AnswersOpen, ChannelType
    <2> QED BY <1>1, <2>1, <2>2, <2>3 DEF PacketOK
  <1>5. CASE Opened(s, m)
    <2>1. PICK t \in Threads : /\ Home[t] = s /\ cur[t] = m.num /\ cur'[t] = m.num
                               /\ pc[t] = "send_open" /\ pc'[t] = "opening"
      BY <1>5 DEF Opened
    <2>2. m.type = "open" /\ m.from = chan[s][m.num].id /\ pc[t] \in OpenPc
      BY <1>5, <2>1 DEF Opened, OpenPc
    <2>3. m.num \in Opens /\ Made(s, m.num)
      BY <2>1, <2>2, NumberFacts DEF SessionInv, CallOK, Types
    <2>4. Made(s, m.num)' /\ chan'[s][m.num].id = m.from
      BY <2>2, <2>3 DEF Grows
    <2>5. ASSUME NEW u \in Threads, pc'[u] \in OpenPc, cur'[u] = m.num
          PROVE  Home[u] = s /\ pc'[u] \notin {"register", "send_open"}
      <3>1. pc[u] \in OpenPc /\ cur[u] = m.num
        BY <2>5 DEF NoNewCall
      <3>2. u = t
        BY <2>1, <2>2, <3>1 DEF SessionInv, CallsDistinct
      <3> QED BY <2>1, <3>2
    <2>6. m.type \notin ChannelType \cup {"open_success", "open_failure"}
      BY <2>2 DEF ChannelType
    <2>7. PacketOK(p, m)'
      BY <1>1, <2>3, <2>4, <2>5, <2>6 DEF PacketOK
    <2>8. Coming(p, m.num)
      BY <1>1, <2>1 DEF Coming
    <2>9. ASSUME NEW i \in 1 .. Len(wire[p]), wire[p][i].type = "open"
          PROVE  wire[p][i].num # m.num
      <3>1. PacketOK(p, wire[p][i])
        BY <1>1 DEF SessionInv, WireOK
      <3> QED BY <2>1, <2>2, <2>9, <3>1 DEF PacketOK
    <2> QED BY <2>6, <2>7, <2>8, <2>9
  <1> QED BY <1>2, <1>3, <1>4, <1>5 DEF Proper

\* A step that gives no number keeps the invariant.
LEMMA OrdinaryStep ==
    ASSUME SessionInv, Ordinary, Types', wire' = wire \/ Reading \/ Sending
    PROVE  SessionInv'
  <1>1. Types /\ Grows /\ Shrinks /\ \A t \in Threads : NoNewCall(t) /\ Onward(t)
    BY ShrinksGrow, GoesOn DEF SessionInv, Ordinary
  <1>2. CallsDistinct' /\ \A t \in Threads : CallOK(t)'
    BY <1>1, CallsKept DEF Ordinary
  <1>3. FiredOK'
    <2>1. \A r \in fired' : \E s \in Side : Made(s, r)
      BY DEF SessionInv, FiredOK, Ordinary, FiresMade
    <2>2. \A r \in fired' : r \in Opens
      BY DEF Types
    <2> QED BY <1>1, <2>1, <2>2 DEF FiredOK, Grows
  <1>4. (\A t \in Threads : ThreadHolds(t)') /\ \A s \in Side : EndHolds(s)'
    BY <1>1, HoldsKept DEF Ordinary
  <1>5. ASSUME NEW s \in Side
        PROVE  /\ WireOK(s)'
               /\ \A r \in Opens : Promised(s, r) => Promised(s, r)' \/ Settled(s, r)'
               /\ \A i \in 1 .. Len(wire'[s]) :
                     wire'[s][i].type = "open" => Coming(s, wire'[s][i].num)
    <2>1. wire \in [Side -> Seq(Msg)] /\ wire[s] \in Seq(Msg) /\ WireOK(s)
      BY <1>1 DEF Types, SessionInv
    <2>2. \A i \in 1 .. Len(wire[s]) : wire[s][i].type = "open" => Coming(s, wire[s][i].num)
      BY DEF Coming
    <2>3. CASE wire'[s] = wire[s]
      BY <1>1, <2>1, <2>2, <2>3, WireSame
    <2>4. CASE Reading /\ wire'[s] # wire[s]
      <3>1. PICK m \in Msg : /\ m = Head(wire[s])
                             /\ m.type = "open_success" => Settled(s, m.num)'
                             /\ wire[s] # <<>> /\ wire'[s] = Tail(wire[s])
        BY <2>1, <2>4 DEF Reading
      <3>2. \A i \in 1 .. Len(wire'[s]) :
                i + 1 \in 1 .. Len(wire[s]) /\ wire'[s][i] = wire[s][i + 1]
        BY <2>1, <3>1
      <3>3. /\ WireOK(s)'
            /\ \A r \in Opens : Promised(s, r) => Promised(s, r)' \/ Settled(s, r)'
        BY <1>1, <2>1, <3>1, WireTaken
      <3> QED BY <2>2, <3>2, <3>3
    <2>5. CASE Sending /\ wire'[s] # wire[s]
      <3>1. PICK x \in Side, m \in Msg :
                /\ active[x] /\ Proper(x, m)
                /\ wire' = [wire EXCEPT ![Peer(x)] = Append(@, m)]
        BY <2>5 DEF Sending
      <3>2. s = Peer(x)
        BY <2>1, <2>5, <3>1
      <3>3. wire'[s] = Append(wire[s], m)
        BY <2>1, <3>1, <3>2
      <3>4. /\ PacketOK(s, m)'
            /\ m.type \in ChannelType => Settled(s, m.num)' \/ Promised(s, m.num)
            /\ m.type = "open" => Coming(s, m.num)
            /\ m.type = "open" => \A i \in 1 .. Len(wire[s]) :
                  wire[s][i].type = "open" => wire[s][i].num # m.num
        BY <1>1, <3>1, <3>2, ProperPacket
      <3>5. ASSUME NEW i \in 1 .. Len(wire[s])
            PROVE  PacketOK(s, wire[s][i])'
        <4>1. PICK k : k = wire[s][i]
          OBVIOUS
        <4>2. PacketOK(s, k)'
          BY <1>1, <2>1, <4>1, PacketKept DEF WireOK
        <4>3. k = wire'[s][i]
          BY <2>1, <3>3, <4>1
        <4> QED BY <4>2, <4>3 DEF PacketOK, Made
      <3>6. \A i \in 1 .. Len(wire'[s]) :
                wire'[s][i].type = "open" => Coming(s, wire'[s][i].num)
        <4>1. \A i \in 1 .. Len(wire'[s]) :
                 wire'[s][i] = m \/ (i \in 1 .. Len(wire[s]) /\ wire'[s][i] = wire[s][i])
          BY <2>1, <3>3
        <4> QED BY <2>2, <3>4, <4>1
      <3>7. \A i \in 1 .. Len(wire[s]) : PacketOK(s, wire[s][i])'
        BY <3>5
      <3>8. WireOK(s)' /\ \A r \in Opens : Promised(s, r) => Promised(s, r)'
        BY <1>1, <2>1, <3>3, <3>4, <3>7, WireSent
      <3> QED BY <3>6, <3>8
    <2> QED BY <2>3, <2>4, <2>5
  <1>6. ASSUME NEW s \in Side
        PROVE  TablesOK(s)' /\ CountOK(s)' /\ AnswerOK(s)'
    <2>1. /\ TablesOK(s) /\ CountOK(s) /\ AnswerOK(s) /\ NoNewAnswer(s)
          /\ Peer(s) \in Side /\ Peer(Peer(s)) = s /\ ShrinksAt(s) /\ ShrinksAt(Peer(s))
      BY SideFacts DEF SessionInv, Ordinary, Shrinks
    <2>2. TablesOK(s)'
      BY <1>1, <2>1, TablesKept
    <2>3. CountOK(s)'
      BY <1>1, <1>5, <2>1, ComingKept, CountKept
    <2>4. \A r \in Opens :
             pc[Peer(s)] = "accept_open" /\ cur[Peer(s)] = r =>
               \/ pc'[Peer(s)] = "accept_open" /\ cur'[Peer(s)] = r
               \/ ~active'[s] \/ ~active'[Peer(s)] \/ Promised(s, r)'
      <3>1. StillAccepting(Peer(s))
        BY <2>1 DEF Ordinary
      <3> QED BY <2>1, <3>1 DEF StillAccepting
    <2>5. \A r \in Opens : Made(s, r)' /\ Made(Peer(s), r)' => Made(s, r) /\ Made(Peer(s), r)
      BY <2>1 DEF ShrinksAt
    <2>6. AnswerOK(s)'
      BY <1>1, <1>5, <2>1, <2>4, <2>5, AnswerKept
    <2> QED BY <2>2, <2>3, <2>6
  <1> QED BY <1>2, <1>3, <1>4, <1>5, <1>6 DEF SessionInv

\* The calls of all processes but p stay as they are; a waiter may be notified.
Elsewhere(p) ==
    /\ \A q \in Procs \ {p} :
          /\ cur'[q] = cur[q]
          /\ pc'[q] = pc[q] \/ (pc[q] = "accepting" /\ pc'[q] = "accept_woken")
    /\ \A u \in Threads \ {p} : own'[u] = own[u]

\* The queue of channels to accept holds what may be addressed.
QueueFine ==
    \A s \in Side : \A i \in 1 .. Len(server_accepts'[s]) : Addressable(s, server_accepts'[s][i])

\* The channels of an accept queue that stays as it is may be addressed.
LEMMA QueueSame ==
    ASSUME SessionInv, UNCHANGED server_accepts
    PROVE  QueueFine
  BY DEF SessionInv, EndHolds, QueueFine

\* A step of another process leaves what thread u holds alone.
LEMMA ThreadElsewhere ==
    ASSUME SessionInv, NEW p \in Procs, NEW u \in Threads, u # p, Elsewhere(p)
    PROVE  /\ own'[u] # 0 => Addressable(Home[u], own'[u])
           /\ pc'[u] = "send_close" => Addressable(Home[u], cur'[u])
           /\ pc'[u] \in RequestPc => own'[u] # 0
           /\ NoNewCall(u)
  <1>1. /\ own'[u] = own[u] /\ cur'[u] = cur[u]
        /\ pc'[u] = pc[u] \/ pc'[u] = "accept_woken"
    BY ProcFacts DEF Elsewhere
  <1>2. "accept_woken" \notin OpenPc /\ "accept_woken" \notin RequestPc
    BY DEF OpenPc, RequestPc
  <1>3. ThreadHolds(u)
    BY DEF SessionInv
  <1> QED BY <1>1, <1>2, <1>3 DEF NoNewCall, ThreadHolds

\* A step of another process leaves the transport thread of s alone.
LEMMA EndElsewhere ==
    ASSUME SessionInv, NEW p \in Procs, NEW s \in Side, s # p, Elsewhere(p)
    PROVE  /\ pc'[s] \in {"send_close", "success", "failure"} => Addressable(s, cur'[s])
           /\ pc'[s] \in Answering \cup {"queue"} => cur'[s] \in Opens /\ Knows(s, cur'[s])
           /\ pc'[s] \in {"accept_open", "queue"} => Made(s, cur'[s])
           /\ NoNewAnswer(s) /\ StillAccepting(s)
  <1>1. /\ cur'[s] = cur[s]
        /\ pc'[s] = pc[s] \/ (pc[s] = "accepting" /\ pc'[s] = "accept_woken")
    BY ProcFacts DEF Elsewhere
  <1>2. "accept_woken" \notin Answering
    BY DEF Answering
  <1>3. EndHolds(s)
    BY DEF SessionInv
  <1> QED BY <1>1, <1>2, <1>3 DEF NoNewAnswer, StillAccepting, EndHolds

\* An ordinary step of thread t.
LEMMA ThreadStep ==
    ASSUME SessionInv, NEW t \in Threads, Elsewhere(t), NoNewCall(t), QueueFine,
           own'[t] # 0 => Addressable(Home[t], own'[t]),
           pc'[t] = "send_close" => Addressable(Home[t], cur'[t]),
           pc'[t] \in RequestPc => own'[t] # 0
    PROVE  /\ HoldsBefore
           /\ \A s \in Side : NoNewAnswer(s) /\ StillAccepting(s)
           /\ \A u \in Threads : NoNewCall(u)
  <1>1. t \in Procs /\ \A s \in Side : s # t
    BY ProcFacts
  <1>2. \A u \in Threads :
           /\ own'[u] # 0 => Addressable(Home[u], own'[u])
           /\ pc'[u] = "send_close" => Addressable(Home[u], cur'[u])
           /\ pc'[u] \in RequestPc => own'[u] # 0
           /\ NoNewCall(u)
    BY <1>1, ThreadElsewhere
  <1>3. \A s \in Side :
           /\ pc'[s] \in {"send_close", "success", "failure"} => Addressable(s, cur'[s])
           /\ pc'[s] \in Answering \cup {"queue"} => cur'[s] \in Opens /\ Knows(s, cur'[s])
           /\ pc'[s] \in {"accept_open", "queue"} => Made(s, cur'[s])
           /\ NoNewAnswer(s) /\ StillAccepting(s)
    BY <1>1, EndElsewhere
  <1> QED BY <1>2, <1>3 DEF HoldsBefore, QueueFine

\* An ordinary step of the transport thread of x.
LEMMA EndStep ==
    ASSUME SessionInv, NEW x \in Side, Elsewhere(x), QueueFine, StillAccepting(x),
           pc'[x] \notin Answering \cup {"queue"},
           pc'[x] \in {"send_close", "success", "failure"} => Addressable(x, cur'[x])
    PROVE  /\ HoldsBefore
           /\ \A s \in Side : NoNewAnswer(s) /\ StillAccepting(s)
           /\ \A u \in Threads : NoNewCall(u)
  <1>1. x \in Procs /\ \A t \in Threads : t # x
    BY ProcFacts
  <1>2. \A u \in Threads :
           /\ own'[u] # 0 => Addressable(Home[u], own'[u])
           /\ pc'[u] = "send_close" => Addressable(Home[u], cur'[u])
           /\ pc'[u] \in RequestPc => own'[u] # 0
           /\ NoNewCall(u)
    BY <1>1, ThreadElsewhere
  <1>3. ASSUME NEW s \in Side
        PROVE
           /\ pc'[s] \in {"send_close", "success", "failure"} => Addressable(s, cur'[s])
           /\ pc'[s] \in Answering \cup {"queue"} => cur'[s] \in Opens /\ Knows(s, cur'[s])
           /\ pc'[s] \in {"accept_open", "queue"} => Made(s, cur'[s])
           /\ NoNewAnswer(s) /\ StillAccepting(s)
    <2>1. CASE s # x
      BY <1>1, <2>1, EndElsewhere
    <2>2. CASE s = x
      BY <2>2 DEF NoNewAnswer, Answering
    <2> QED BY <2>1, <2>2
  <1> QED BY <1>2, <1>3 DEF HoldsBefore, QueueFine

\* A step that leaves the tables as they are takes entries away at most.
LEMMA TablesSame ==
    ASSUME UNCHANGED <<tables, channel_events, opens>>, \A s \in Side : active'[s] => active[s]
    PROVE  Shrinks
  BY DEF tables, Shrinks, ShrinksAt, Made

\* A step that sets no event sets none too early.
LEMMA FiredSame ==
    ASSUME UNCHANGED fired
    PROVE  FiresOnly /\ FiresMade
  BY DEF FiresOnly, FiresMade

\* Process p goes to l.
LEMMA Goes ==
    ASSUME Types, NEW p \in Procs, NEW l \in Pc, Goto(p, l),
           UNCHANGED cur \/ \E n \in Nat : cur' = [cur EXCEPT ![p] = n],
           UNCHANGED own \/ \E o \in Opens \cup {0} : own' = [own EXCEPT ![p] = o]
    PROVE  /\ Elsewhere(p) /\ pc'[p] = l
           /\ pc' \in [Procs -> Pc] /\ cur' \in [Procs -> Nat]
           /\ own' \in [Threads -> Opens \cup {0}]
  <1>1. pc \in [Procs -> Pc] /\ cur \in [Procs -> Nat] /\ own \in [Threads -> Opens \cup {0}]
    BY DEF Types
  <1>2. pc' = [pc EXCEPT ![p] = l]
    BY DEF Goto
  <1>3. pc' \in [Procs -> Pc] /\ pc'[p] = l /\ \A q \in Procs \ {p} : pc'[q] = pc[q]
    BY <1>1, <1>2
  <1>4. cur' \in [Procs -> Nat] /\ \A q \in Procs \ {p} : cur'[q] = cur[q]
    BY <1>1
  <1>5. own' \in [Threads -> Opens \cup {0}] /\ \A q \in Threads \ {p} : own'[q] = own[q]
    BY <1>1
  <1> QED BY <1>3, <1>4, <1>5 DEF Elsewhere

\* A step of thread t that leaves the tables alone.
LEMMA QuietThread ==
    ASSUME SessionInv, NEW t \in Threads, NEW l \in Pc, Goto(t, l),
           UNCHANGED <<scenario, tables, channel_events, fired, opens>>,
           active' \in [Side -> BOOLEAN], \A s \in Side : active'[s] => active[s],
           wire' \in [Side -> Seq(Msg)], wire' = wire \/ Reading \/ Sending,
           asks' \in Nat,
           UNCHANGED cur \/ \E n \in Nat : cur' = [cur EXCEPT ![t] = n],
           UNCHANGED own \/ \E o \in Opens \cup {0} : own' = [own EXCEPT ![t] = o],
           server_accepts' \in [Side -> Seq(Opens)], QueueFine,
           NoNewCall(t),
           own'[t] # 0 => Addressable(Home[t], own'[t]),
           l = "send_close" => Addressable(Home[t], cur'[t]),
           l \in RequestPc => own'[t] # 0
    PROVE  SessionInv'
  <1>1. Types /\ t \in Procs
    BY ProcFacts DEF SessionInv
  <1>2. /\ Elsewhere(t) /\ pc'[t] = l
        /\ pc' \in [Procs -> Pc] /\ cur' \in [Procs -> Nat]
        /\ own' \in [Threads -> Opens \cup {0}]
    BY <1>1, Goes
  <1>3. Types'
    BY <1>1, <1>2 DEF Types, tables
  <1>4. Shrinks /\ FiresOnly /\ FiresMade
    BY TablesSame, FiredSame
  <1>5. /\ HoldsBefore
        /\ \A s \in Side : NoNewAnswer(s) /\ StillAccepting(s)
        /\ \A u \in Threads : NoNewCall(u)
    BY <1>2, ThreadStep
  <1>6. Ordinary
    BY <1>4, <1>5 DEF Ordinary
  <1> QED BY <1>3, <1>6, OrdinaryStep

\* The thread goes where it needs neither a call nor a channel.
LEMMA AwayFromOpen ==
    ASSUME NEW l \in {"idle", "accepting", "accept_woken", "send_global", "await", "status",
                      "unlink", "pend", "send_request", "event"},
           NEW t \in Threads, Types, Goto(t, l)
    PROVE  NoNewCall(t) /\ l \in Pc /\ l # "send_close"
  <1>1. pc'[t] = l
    BY ProcFacts DEF Goto, Types
  <1>2. l \notin OpenPc
    BY DEF OpenPc
  <1> QED BY <1>1, <1>2 DEF NoNewCall, Pc, OpenPc, AcceptPc, GlobalPc, RequestPc

\* What the invariant says of thread t.
LEMMA HeldNow ==
    ASSUME SessionInv, NEW t \in Threads
    PROVE  /\ own[t] # 0 => Addressable(Home[t], own[t])
           /\ own[t] \in Opens \cup {0} /\ Types
           /\ server_accepts \in [Side -> Seq(Opens)]
           /\ active \in [Side -> BOOLEAN] /\ wire \in [Side -> Seq(Msg)] /\ asks \in Nat
           /\ Home[t] \in Side /\ t \in Procs
           /\ cur[t] \in Nat /\ CallOK(t) /\ ThreadHolds(t)
  BY ProcFacts DEF SessionInv, Types, ThreadHolds

\* What open_channel does after the request was sent.
LEMMA OpenWaits ==
    ASSUME SessionInv, NEW t \in Threads,
           OpenWait(t) \/ OpenTimeout(t) \/ OpenRaises(t) \/ OpenLookup(t)
    PROVE  SessionInv'
  <1>1. /\ UNCHANGED <<scenario, tables, channel_events, fired, opens, active, wire, asks,
                       server_accepts>>
    BY DEF OpenWait, OpenTimeout, OpenRaises, OpenLookup, waiting, global
  <1>2. QueueFine
    BY <1>1, QueueSame
  <1>3. CASE OpenWait(t)
    <2>1. UNCHANGED <<cur, own>> /\ pc[t] = "opening"
      BY <1>3 DEF OpenWait
    <2>2. PICK l \in {"raise", "lookup"} :
              Goto(t, l) /\ (l = "lookup" => active[Home[t]] /\ cur[t] \in fired)
      BY <1>3 DEF OpenWait
    <2>3. pc'[t] = l /\ l \in Pc /\ l \in OpenPc /\ l \notin RequestPc
      BY <2>2, ProcFacts, HeldNow DEF Goto, Types, Pc, OpenPc, RequestPc
    <2>4. NoNewCall(t)
      BY <2>1, <2>2, <2>3 DEF NoNewCall, OpenPc
    <2> QED BY <1>1, <1>2, <2>1, <2>2, <2>3, <2>4, HeldNow, QuietThread
  <1>4. CASE OpenTimeout(t) \/ OpenRaises(t)
    <2>1. Goto(t, "idle") /\ UNCHANGED own /\ cur' = [cur EXCEPT ![t] = 0]
      BY <1>4 DEF OpenTimeout, OpenRaises
    <2>2. NoNewCall(t) /\ "idle" \in Pc /\ "idle" \notin RequestPc
      BY <2>1, AwayFromOpen, HeldNow DEF RequestPc
    <2> QED BY <1>1, <1>2, <2>1, <2>2, HeldNow, QuietThread
  <1>5. CASE OpenLookup(t)
    <2> DEFINE s == Home[t]
               r == channels[s][chan[s][cur[t]].id]
    <2>1. CASE r = 0
      <3>1. Goto(t, "raise") /\ UNCHANGED <<own, cur>> /\ pc[t] = "lookup"
        BY <1>5, <2>1 DEF OpenLookup
      <3>2. /\ pc'[t] = "raise" /\ "raise" \in Pc /\ "raise" \notin RequestPc
            /\ pc[t] \in OpenPc
        BY <3>1, ProcFacts, HeldNow DEF Goto, Types, Pc, OpenPc, RequestPc
      <3>3. NoNewCall(t)
        BY <3>1, <3>2 DEF NoNewCall
      <3> QED BY <1>1, <1>2, <3>1, <3>2, <3>3, HeldNow, QuietThread
    <2>2. CASE r # 0
      <3>1. /\ Goto(t, "idle") /\ pc[t] = "lookup"
            /\ own' = [own EXCEPT ![t] = r] /\ cur' = [cur EXCEPT ![t] = 0]
        BY <1>5, <2>2 DEF OpenLookup
      <3>2. NoNewCall(t) /\ "idle" \in Pc /\ "idle" \notin RequestPc
        BY <3>1, AwayFromOpen, HeldNow DEF RequestPc
      <3>3. /\ cur[t] \in 1 .. opens /\ Made(s, cur[t]) /\ Resolved(s, cur[t])
            /\ ~(pc[s] \in Answering /\ cur[s] = cur[t])
        BY <3>1, HeldNow DEF CallOK, OpenPc
      <3>4. cur[t] \in Opens /\ s \in Side /\ chan[s][cur[t]].id \in Ids
        BY <3>3, HeldNow, NumberFacts DEF Types, Object
      <3>5. r \in Opens /\ Made(s, r) /\ chan[s][r].id = chan[s][cur[t]].id
        <4>1. PICK j \in Ids : j = chan[s][cur[t]].id
          BY <3>4
        <4>2. channels[s][j] \in Opens \cup {0} /\ channels[s][j] = r
          BY <3>4, <4>1 DEF SessionInv, Types
        <4>3. Made(s, channels[s][j]) /\ chan[s][channels[s][j]].id = j
          BY <2>2, <3>4, <4>2 DEF SessionInv, TablesOK, Names
        <4> QED BY <2>2, <4>1, <4>2, <4>3
      <3>6. r = cur[t]
        BY <3>3, <3>4, <3>5 DEF SessionInv, TablesOK, Numbered
      <3>7. Addressable(s, r)
        BY <3>3, <3>4, <3>6 DEF Addressable, Resolved, Unmapped
      <3>8. own'[t] = r
        BY <3>1 DEF SessionInv, Types
      <3> HIDE DEF r
      <3> QED BY <1>1, <1>2, <3>1, <3>2, <3>5, <3>7, <3>8, HeldNow, QuietThread
    <2> QED BY <2>1, <2>2
  <1> QED BY <1>3, <1>4, <1>5

\* accept: a channel from the queue may be addressed.
LEMMA Accepting ==
    ASSUME SessionInv, NEW t \in Threads,
           Accept(t) \/ AcceptTimeout(t) \/ AcceptReturns(t)
    PROVE  SessionInv'
  <1>1. UNCHANGED <<scenario, tables, channel_events, fired, opens, active, wire, asks, cur>>
    BY DEF Accept, AcceptTimeout, AcceptReturns, waiting, global
  <1>2. CASE /\ UNCHANGED <<own, server_accepts>>
             /\ \E l \in {"idle", "accepting", "accept_woken"} : Goto(t, l)
    <2>1. PICK l \in {"idle", "accepting", "accept_woken"} : Goto(t, l)
      BY <1>2
    <2>2. NoNewCall(t) /\ l \in Pc /\ l # "send_close" /\ l \notin RequestPc
      BY <2>1, AwayFromOpen, HeldNow DEF RequestPc
    <2>3. QueueFine
      BY <1>2, QueueSame
    <2> QED BY <1>1, <1>2, <2>1, <2>2, <2>3, HeldNow, QuietThread
  <1>3. CASE server_accepts[Home[t]] # <<>> /\ PopAccepted(t)
    <2> DEFINE s == Home[t]
               o == Head(server_accepts[s])
    <2>1. /\ Goto(t, "idle") /\ own' = [own EXCEPT ![t] = o]
          /\ server_accepts' = [server_accepts EXCEPT ![s] = Tail(@)]
      BY <1>3 DEF PopAccepted
    <2>2. NoNewCall(t) /\ "idle" \in Pc /\ "idle" \notin RequestPc
      BY <2>1, AwayFromOpen, HeldNow DEF RequestPc
    <2>3. s \in Side /\ server_accepts[s] \in Seq(Opens) /\ server_accepts[s] # <<>>
      BY <1>3, HeldNow
    <2>4. /\ 1 \in 1 .. Len(server_accepts[s]) /\ o = server_accepts[s][1] /\ o \in Opens
          /\ Tail(server_accepts[s]) \in Seq(Opens)
          /\ \A i \in 1 .. Len(Tail(server_accepts[s])) :
                /\ i + 1 \in 1 .. Len(server_accepts[s])
                /\ Tail(server_accepts[s])[i] = server_accepts[s][i + 1]
      BY <2>3
    <2>5. \A x \in Side : \A i \in 1 .. Len(server_accepts[x]) : Addressable(x, server_accepts[x][i])
      BY DEF SessionInv, EndHolds
    <2>6. server_accepts' \in [Side -> Seq(Opens)] /\ own'[t] = o
      BY <2>1, <2>3, <2>4 DEF SessionInv, Types
    <2>7. QueueFine
      <3> SUFFICES ASSUME NEW x \in Side, NEW i \in 1 .. Len(server_accepts'[x])
                   PROVE  Addressable(x, server_accepts'[x][i])
        BY DEF QueueFine
      <3>1. CASE x = s
        <4>1. server_accepts'[x] = Tail(server_accepts[s])
          BY <2>1, <3>1, HeldNow
        <4> QED BY <2>4, <2>5, <3>1, <4>1
      <3>2. CASE x # s
        <4>1. server_accepts'[x] = server_accepts[x]
          BY <2>1, <3>2, HeldNow
        <4> QED BY <2>5, <4>1
      <3> QED BY <3>1, <3>2
    <2>8. Addressable(s, o)
      BY <2>3, <2>4, <2>5
    <2> HIDE DEF o
    <2> QED BY <1>1, <2>1, <2>2, <2>4, <2>6, <2>7, <2>8, HeldNow, QuietThread
  <1> QED BY <1>2, <1>3 DEF Accept, AcceptTimeout, AcceptReturns

\* _send_user_message of a packet that may be sent.
LEMMA SendsUser ==
    ASSUME SessionInv, NEW s \in Side, NEW m \in Msg, Proper(s, m), SendUserMessage(s, m)
    PROVE  wire' \in [Side -> Seq(Msg)] /\ (wire' = wire \/ Sending)
  <1>1. wire \in [Side -> Seq(Msg)] /\ Peer(s) \in Side
    BY SideFacts DEF SessionInv, Types
  <1>2. CASE active[s]
    <2>1. wire' = [wire EXCEPT ![Peer(s)] = Append(@, m)]
      BY <1>2 DEF SendUserMessage
    <2>2. Append(wire[Peer(s)], m) \in Seq(Msg)
      BY <1>1
    <2>3. wire' \in [Side -> Seq(Msg)]
      BY <1>1, <2>1, <2>2
    <2> QED BY <1>2, <2>1, <2>3 DEF Sending
  <1>3. CASE ~active[s]
    BY <1>1, <1>3 DEF SendUserMessage
  <1> QED BY <1>2, <1>3

\* A packet for a channel that may be addressed is a proper one.
LEMMA ChannelPacket ==
    ASSUME SessionInv, NEW s \in Side, NEW r, Addressable(s, r), NEW ty \in ChannelType
    PROVE  ToPeer(s, r, ty) \in Msg /\ Proper(s, ToPeer(s, r, ty))
  <1>1. r \in Opens /\ r \in Nat /\ chan[s][r].remote \in Ids
    BY NumberFacts DEF Addressable, SessionInv, Types, Object
  <1>2. ToPeer(s, r, ty) \in Msg
    BY <1>1, NumberFacts DEF ToPeer, Packet, Msg, PacketType
  <1>3. /\ ToPeer(s, r, ty).type = ty /\ ToPeer(s, r, ty).num = r
        /\ ToPeer(s, r, ty).to = chan[s][r].remote
    BY DEF ToPeer, Packet
  <1> QED BY <1>2, <1>3 DEF Proper, Addresses

\* A global request, and its answer, is about no channel.
LEMMA GlobalPacket ==
    ASSUME NEW s \in Side, NEW n \in Nat, NEW ok \in BOOLEAN, NEW ty \in {"global", "global_reply"}
    PROVE  Packet(ty, 0, 0, n, ok) \in Msg /\ Proper(s, Packet(ty, 0, 0, n, ok))
  <1>1. Packet(ty, 0, 0, n, ok) \in Msg
    BY NumberFacts DEF Packet, Msg, PacketType
  <1>2. Packet(ty, 0, 0, n, ok).type = ty
    BY DEF Packet
  <1> QED BY <1>1, <1>2 DEF Proper

\* The steps of global_request keep the invariant.
LEMMA Globals ==
    ASSUME SessionInv, NEW t \in Threads,
           GlobalRequest(t) \/ SendGlobal(t) \/ GlobalReturns(t)
    PROVE  SessionInv'
  <1>1. UNCHANGED <<scenario, tables, channel_events, fired, opens, active, own, server_accepts>>
    BY DEF GlobalRequest, SendGlobal, GlobalReturns, waiting
  <1>2. PICK l \in {"idle", "send_global", "await"} : Goto(t, l)
    BY DEF GlobalRequest, SendGlobal, GlobalReturns
  <1>3. NoNewCall(t) /\ l \in Pc /\ l # "send_close" /\ l \notin RequestPc
    BY <1>2, AwayFromOpen, HeldNow DEF RequestPc
  <1>4. QueueFine
    BY <1>1, QueueSame
  <1>5. asks' \in Nat
    <2>1. asks' = asks \/ asks' = asks + 1
      BY DEF GlobalRequest, SendGlobal, GlobalReturns, global
    <2> QED BY <2>1, HeldNow
  <1>6. UNCHANGED cur \/ \E n \in Nat : cur' = [cur EXCEPT ![t] = n]
    <2>1. CASE GlobalRequest(t)
      BY <1>5, <2>1 DEF GlobalRequest
    <2>2. CASE SendGlobal(t) \/ GlobalReturns(t)
      BY <2>2 DEF SendGlobal, GlobalReturns
    <2> QED BY <2>1, <2>2
  <1>7. wire' \in [Side -> Seq(Msg)] /\ (wire' = wire \/ Sending)
    <2>1. CASE SendGlobal(t)
      <3> DEFINE m == Packet("global", 0, 0, cur[t], TRUE)
      <3>1. m \in Msg /\ Proper(Home[t], m)
        BY GlobalPacket, HeldNow
      <3>2. SendUserMessage(Home[t], m)
        BY <2>1 DEF SendGlobal
      <3> HIDE DEF m
      <3> QED BY <3>1, <3>2, SendsUser, HeldNow
    <2>2. CASE ~SendGlobal(t)
      BY <2>2, HeldNow DEF GlobalRequest, GlobalReturns
    <2> QED BY <2>1, <2>2
  <1> QED BY <1>1, <1>2, <1>3, <1>4, <1>5, <1>6, <1>7, HeldNow, QuietThread

\* A thread that stays idle.
LEMMA StaysIdle ==
    ASSUME Types, NEW t \in Threads, pc[t] = "idle", UNCHANGED pc
    PROVE  Goto(t, "idle")
  <1>1. pc \in [Procs -> Pc]
    BY DEF Types
  <1> QED BY <1>1 DEF Goto

\* Requests, exit status and the like keep the invariant.
LEMMA Requesting ==
    ASSUME SessionInv, NEW t \in Threads,
           \/ Share(t) \/ ExecCommand(t) \/ SendRequest(t) \/ EventReturns(t)
           \/ RecvExitStatus(t) \/ StatusReturns(t) \/ SendExitStatus(t) \/ CloseTransport(t)
    PROVE  SessionInv'
  <1>1. UNCHANGED <<scenario, tables, channel_events, fired, opens, cur, server_accepts, asks>>
    BY DEF Share, ExecCommand, SendRequest, EventReturns, RecvExitStatus, StatusReturns,
           SendExitStatus, CloseTransport, waiting, global, local
  <1>2. QueueFine
    BY <1>1, QueueSame
  <1>3. PICK l \in {"idle", "pend", "event", "status", "unlink"} : Goto(t, l) /\
            (l \in RequestPc => own[t] # 0 /\ UNCHANGED own)
    <2>1. CASE Share(t) \/ SendExitStatus(t)
      BY <2>1, StaysIdle, HeldNow DEF Share, SendExitStatus, Calls, local, RequestPc
    <2>2. CASE ExecCommand(t)
      BY <2>2 DEF ExecCommand, HoldsOpen
    <2>3. CASE SendRequest(t)
      <3>1. pc[t] \in RequestPc
        BY <2>3 DEF SendRequest, RequestPc
      <3> QED BY <2>3, <3>1, HeldNow DEF SendRequest, ThreadHolds
    <2>4. CASE EventReturns(t) \/ RecvExitStatus(t) \/ StatusReturns(t) \/ CloseTransport(t)
      BY <2>4 DEF EventReturns, RecvExitStatus, StatusReturns, CloseTransport, RequestPc
    <2> QED BY <2>1, <2>2, <2>3, <2>4
  <1>4. NoNewCall(t) /\ l \in Pc /\ l # "send_close"
    BY <1>3, AwayFromOpen, HeldNow
  <1>5. /\ UNCHANGED own \/ \E o \in Opens \cup {0} : own' = [own EXCEPT ![t] = o]
        /\ own'[t] # 0 => Addressable(Home[t], own'[t])
    <2>1. CASE Share(t)
      <3>1. PICK u \in Threads : /\ Home[u] = Home[t] /\ own[u] # 0
                                 /\ own' = [own EXCEPT ![t] = own[u]]
        BY <2>1 DEF Share
      <3>2. Addressable(Home[t], own[u]) /\ own[u] \in Opens \cup {0}
        BY <3>1, HeldNow
      <3>3. own'[t] = own[u]
        BY <3>1 DEF SessionInv, Types
      <3> QED BY <3>1, <3>2, <3>3
    <2>2. CASE ~Share(t)
      <3>1. UNCHANGED own
        BY <2>2 DEF ExecCommand, SendRequest, EventReturns, RecvExitStatus, StatusReturns,
                    SendExitStatus, CloseTransport, local
      <3> QED BY <3>1, HeldNow
    <2> QED BY <2>1, <2>2
  <1>6. /\ active' \in [Side -> BOOLEAN] /\ \A s \in Side : active'[s] => active[s]
    <2>1. active' = active \/ active' = [active EXCEPT ![Home[t]] = FALSE]
      BY DEF Share, ExecCommand, SendRequest, EventReturns, RecvExitStatus, StatusReturns,
             SendExitStatus, CloseTransport
    <2> QED BY <2>1, HeldNow
  <1>7. wire' \in [Side -> Seq(Msg)] /\ (wire' = wire \/ Sending)
    <2>1. CASE SendRequest(t)
      <3>1. pc[t] \in RequestPc /\ SendUserMessage(Home[t], ToPeer(Home[t], own[t], "request"))
        BY <2>1 DEF SendRequest, RequestPc
      <3>2. Addressable(Home[t], own[t])
        BY <3>1, HeldNow DEF ThreadHolds
      <3>3. "request" \in ChannelType
        BY DEF ChannelType
      <3> QED BY <3>1, <3>2, <3>3, ChannelPacket, SendsUser, HeldNow
    <2>2. CASE SendExitStatus(t)
      <3>1. own[t] # 0 /\ SendUserMessage(Home[t], ToPeer(Home[t], own[t], "exit"))
        BY <2>2 DEF SendExitStatus
      <3>2. Addressable(Home[t], own[t]) /\ "exit" \in ChannelType
        BY <3>1, HeldNow DEF ChannelType
      <3> QED BY <3>1, <3>2, ChannelPacket, SendsUser, HeldNow
    <2>3. CASE ~SendRequest(t) /\ ~SendExitStatus(t)
      <3>1. UNCHANGED wire
        BY <2>3 DEF Share, ExecCommand, EventReturns, RecvExitStatus, StatusReturns,
                    CloseTransport
      <3> QED BY <3>1, HeldNow
    <2> QED BY <2>1, <2>2, <2>3
  <1>8. l \in RequestPc => own'[t] # 0
    BY <1>3
  <1> QED BY <1>1, <1>2, <1>3, <1>4, <1>5, <1>6, <1>7, <1>8, HeldNow, QuietThread
-----------------------------------------------------------------------------
(* Steps that set flags of an object, close it, or take it from the map *)

ObjectsKept ==
    /\ chan' \in [Side -> [Opens -> Object]]
    /\ \A s \in Side : \A r \in Opens :
          /\ chan'[s][r].id = chan[s][r].id
          /\ chan'[s][r].remote = chan[s][r].remote
          /\ Made(s, r)' <=> Made(s, r)
          /\ chan'[s][r].st = "open" => chan[s][r].st = "open"

\* _set_closed changes neither number of the object.
LEMMA ClosedFacts ==
    ASSUME NEW c \in Object
    PROVE  /\ Closed(c) \in Object /\ Closed(c).id = c.id /\ Closed(c).remote = c.remote
           /\ Closed(c).st = "closed"
  BY DEF Object, Closed, ChannelState

\* Objects that stay as they are keep their numbers.
LEMMA ObjectsSame ==
    ASSUME Types, UNCHANGED chan
    PROVE  ObjectsKept
  BY DEF ObjectsKept, Types, Made

\* An object whose flags change keeps its numbers.
LEMMA ObjectReplaced ==
    ASSUME Types, NEW s \in Side, NEW r \in Opens, NEW c \in Object,
           chan' = [chan EXCEPT ![s][r] = c],
           c.id = chan[s][r].id, c.remote = chan[s][r].remote,
           c.st = "none" <=> chan[s][r].st = "none",
           c.st = "open" => chan[s][r].st = "open"
    PROVE  ObjectsKept
  <1>1. chan \in [Side -> [Opens -> Object]]
    BY DEF Types
  <1>2. chan' \in [Side -> [Opens -> Object]]
    BY <1>1
  <1>3. /\ chan'[s][r] = c
        /\ \A x \in Side : \A q \in Opens : x # s \/ q # r => chan'[x][q] = chan[x][q]
    BY <1>1
  <1> QED BY <1>2, <1>3 DEF ObjectsKept, Made

\* An object that is closed keeps its numbers.
LEMMA ObjectClosed ==
    ASSUME Types, NEW s \in Side, NEW r \in Opens, chan[s][r].st # "none",
           chan' = [chan EXCEPT ![s][r] = Closed(@)]
    PROVE  ObjectsKept
  <1> DEFINE c == Closed(chan[s][r])
  <1>1. chan[s][r] \in Object
    BY DEF Types
  <1>2. /\ c \in Object /\ c.id = chan[s][r].id /\ c.remote = chan[s][r].remote
        /\ c.st = "closed"
    BY <1>1, ClosedFacts
  <1>3. chan' = [chan EXCEPT ![s][r] = c]
    OBVIOUS
  <1>4. (c.st = "none" <=> chan[s][r].st = "none") /\ (c.st = "open" => chan[s][r].st = "open")
    BY <1>2
  <1> HIDE DEF c
  <1> QED BY <1>2, <1>3, <1>4, ObjectReplaced

\* Unlinking all channels closes objects and empties the map, no more.
LEMMA Unlinked ==
    ASSUME Types, NEW s \in Side, UnlinkAll(s)
    PROVE  /\ ObjectsKept
           /\ channels' \in [Side -> [Ids -> Opens \cup {0}]]
           /\ \A x \in Side : \A i \in Ids : channels'[x][i] \in {0, channels[x][i]}
  <1>1. chan \in [Side -> [Opens -> Object]] /\ channels \in [Side -> [Ids -> Opens \cup {0}]]
    BY DEF Types
  <1> DEFINE gone == {r \in Opens : chan[s][r].st \in {"opening", "open"}
                                     /\ channels[s][chan[s][r].id] = r}
  <1>2. /\ chan' = [chan EXCEPT ![s] =
                      [r \in Opens |-> IF r \in gone THEN Closed(chan[s][r]) ELSE chan[s][r]]]
        /\ channels' = [channels EXCEPT ![s] =
                          [i \in Ids |-> IF channels[s][i] \in gone THEN 0 ELSE channels[s][i]]]
    BY DEF UnlinkAll
  <1>3. \A r \in gone : r \in Opens /\ chan[s][r].st # "none"
    OBVIOUS
  <1> HIDE DEF gone
  <1>4. \A r \in Opens :
           /\ r \in gone => chan'[s][r] = Closed(chan[s][r])
           /\ r \notin gone => chan'[s][r] = chan[s][r]
    BY <1>1, <1>2
  <1>5. \A x \in Side : x # s => chan'[x] = chan[x]
    BY <1>1, <1>2
  <1>6. \A c \in Object : /\ Closed(c) \in Object /\ Closed(c).id = c.id
                          /\ Closed(c).remote = c.remote /\ Closed(c).st = "closed"
    BY ClosedFacts
  <1>7. chan' \in [Side -> [Opens -> Object]]
    BY <1>1, <1>2, <1>6
  <1>8. ASSUME NEW x \in Side, NEW r \in Opens
        PROVE  /\ chan'[x][r].id = chan[x][r].id
               /\ chan'[x][r].remote = chan[x][r].remote
               /\ chan'[x][r].st = "none" <=> chan[x][r].st = "none"
               /\ chan'[x][r].st = "open" => chan[x][r].st = "open"
    <2>1. chan[x][r] \in Object
      BY <1>1
    <2>2. CASE x = s /\ r \in gone
      BY <1>3, <1>4, <1>6, <2>1, <2>2
    <2>3. CASE x # s \/ r \notin gone
      BY <1>4, <1>5, <2>3
    <2> QED BY <2>2, <2>3
  <1>9. /\ channels' \in [Side -> [Ids -> Opens \cup {0}]]
        /\ \A x \in Side : \A i \in Ids : channels'[x][i] \in {0, channels[x][i]}
    BY <1>1, <1>2
  <1> QED BY <1>7, <1>8, <1>9 DEF ObjectsKept, Made

\* Steps that change objects and take entries from the map are ordinary.
LEMMA TablesShrink ==
    ASSUME ObjectsKept,
           \A x \in Side : \A i \in Ids : channels'[x][i] \in {0, channels[x][i]},
           \A x \in Side : \A i \in Ids : channel_events'[x][i] \in {0, channel_events[x][i]},
           UNCHANGED <<channel_counter, channels_seen, opens>>,
           \A s \in Side : active'[s] => active[s]
    PROVE  Shrinks
  BY DEF Shrinks, ShrinksAt, ObjectsKept

\* The application's side of it.
LEMMA Closing ==
    ASSUME SessionInv, NEW t \in Threads,
           EventPending(t) \/ Close(t) \/ CloseUnlink(t)
    PROVE  SessionInv'
  <1>1. /\ UNCHANGED <<scenario, wire, active, channel_counter, channels_seen,
                       channel_events, fired, opens, server_accepts, own, asks>>
    BY DEF EventPending, Close, CloseUnlink, waiting, global
  <1>2. QueueFine
    BY <1>1, QueueSame
  <1>3. /\ ObjectsKept /\ channels' \in [Side -> [Ids -> Opens \cup {0}]]
        /\ \A x \in Side : \A i \in Ids : channels'[x][i] \in {0, channels[x][i]}
    <2>1. channels \in [Side -> [Ids -> Opens \cup {0}]]
      BY HeldNow DEF Types
    <2>2. CASE EventPending(t)
      <3> DEFINE h == Home[t]
                 o == own[t]
                 c == [chan[h][o] EXCEPT !.event = FALSE, !.event_ready = FALSE]
      <3>1. pc[t] \in RequestPc
        BY <2>2 DEF EventPending, RequestPc
      <3>2. h \in Side /\ o \in Opens /\ chan[h][o] \in Object
        BY <3>1, HeldNow DEF ThreadHolds, Types
      <3>3. /\ c \in Object /\ c.id = chan[h][o].id /\ c.remote = chan[h][o].remote
            /\ c.st = chan[h][o].st
        BY <3>2 DEF Object
      <3>4. chan' = [chan EXCEPT ![h][o] = c]
        BY <2>2 DEF EventPending
      <3>5. UNCHANGED channels
        BY <2>2 DEF EventPending
      <3> HIDE DEF h, o, c
      <3>6. ObjectsKept
        BY <3>2, <3>3, <3>4, ObjectReplaced, HeldNow
      <3> QED BY <2>1, <3>5, <3>6
    <2>3. CASE Close(t)
      <3>1. /\ own[t] # 0 /\ chan[Home[t]][own[t]].st = "open" /\ UNCHANGED channels
            /\ chan' = [chan EXCEPT ![Home[t]][own[t]] = Closed(@)]
        BY <2>3 DEF Close, HoldsOpen
      <3> QED BY <2>1, <3>1, ObjectClosed, HeldNow
    <2>4. CASE CloseUnlink(t)
      BY <2>4, Unlinked, HeldNow DEF CloseUnlink
    <2> QED BY <2>2, <2>3, <2>4
  <1>4. Shrinks /\ FiresOnly /\ FiresMade
    BY <1>1, <1>3, TablesShrink, FiredSame
  <1>5. /\ Elsewhere(t) /\ NoNewCall(t)
        /\ pc' \in [Procs -> Pc] /\ cur' \in [Procs -> Nat]
        /\ pc'[t] = "send_close" => Addressable(Home[t], cur'[t])
        /\ pc'[t] \in RequestPc => own'[t] # 0
    <2>1. CASE EventPending(t) \/ CloseUnlink(t)
      <3>1. PICK l \in {"send_request", "idle"} : Goto(t, l) /\ (l \in RequestPc => pc[t] \in RequestPc)
        BY <2>1 DEF EventPending, CloseUnlink, RequestPc
      <3>2. UNCHANGED cur
        BY <2>1 DEF EventPending, CloseUnlink
      <3>3. NoNewCall(t) /\ l \in Pc /\ l # "send_close"
        BY <3>1, AwayFromOpen, HeldNow
      <3>4. Elsewhere(t) /\ pc'[t] = l /\ pc' \in [Procs -> Pc] /\ cur' \in [Procs -> Nat]
        BY <1>1, <3>1, <3>2, <3>3, Goes, HeldNow
      <3> QED BY <1>1, <3>1, <3>3, <3>4, HeldNow DEF ThreadHolds
    <2>2. CASE Close(t)
      <3>1. /\ Goto(t, "send_close") /\ cur' = [cur EXCEPT ![t] = own[t]] /\ own[t] # 0
        BY <2>2 DEF Close, HoldsOpen
      <3>2. /\ "send_close" \in Pc /\ "send_close" \notin OpenPc
            /\ "send_close" \notin RequestPc /\ own[t] \in Opens /\ own[t] \in Nat
        BY <3>1, HeldNow, NumberFacts DEF Pc, OpenPc, RequestPc
      <3>3. Elsewhere(t) /\ pc'[t] = "send_close" /\ pc' \in [Procs -> Pc] /\ cur' \in [Procs -> Nat]
        BY <1>1, <3>1, <3>2, Goes, HeldNow
      <3>4. cur'[t] = own[t]
        BY <3>1, HeldNow DEF Types
      <3> QED BY <3>1, <3>2, <3>3, <3>4, HeldNow DEF NoNewCall
    <2> QED BY <2>1, <2>2
  <1>6. Types'
    BY <1>1, <1>3, <1>5, HeldNow DEF Types, ObjectsKept
  <1>7. /\ HoldsBefore
        /\ \A s \in Side : NoNewAnswer(s) /\ StillAccepting(s)
        /\ \A u \in Threads : NoNewCall(u)
    BY <1>1, <1>2, <1>5, HeldNow, ThreadStep
  <1> QED BY <1>1, <1>4, <1>6, <1>7, OrdinaryStep DEF Ordinary

\* What the invariant says of the transport thread of s.
LEMMA EndNow ==
    ASSUME SessionInv, NEW s \in Side
    PROVE  /\ Types /\ s \in Procs /\ s \notin Threads /\ Peer(s) \in Side
           /\ server_accepts \in [Side -> Seq(Opens)]
           /\ active \in [Side -> BOOLEAN] /\ wire \in [Side -> Seq(Msg)] /\ asks \in Nat
           /\ wire[s] \in Seq(Msg)
           /\ cur[s] \in Nat /\ own \in [Threads -> Opens \cup {0}] /\ EndHolds(s)
           /\ TablesOK(s) /\ WireOK(s)
  BY ProcFacts, SideFacts DEF SessionInv, Types

\* An ordinary step of the transport thread of s, which goes to l.
LEMMA AnyEnd ==
    ASSUME SessionInv, NEW s \in Side, NEW l,
           Elsewhere(s), pc'[s] = l, pc' \in [Procs -> Pc], cur' \in [Procs -> Nat],
           UNCHANGED <<scenario, own, opens, channel_counter, channels_seen>>,
           Shrinks, FiresOnly, FiresMade,
           fired' \subseteq Opens,
           chan' \in [Side -> [Opens -> Object]],
           channels' \in [Side -> [Ids -> Opens \cup {0}]],
           channel_events' \in [Side -> [Ids -> Opens \cup {0}]],
           active' \in [Side -> BOOLEAN],
           wire' \in [Side -> Seq(Msg)], wire' = wire \/ Reading \/ Sending,
           asks' \in Nat,
           server_accepts' \in [Side -> Seq(Opens)], QueueFine,
           l \notin Answering \cup {"queue"},
           pc[s] = "accept_open" => ~active'[s] \/ ~active'[Peer(s)],
           l \in {"send_close", "success", "failure"} => Addressable(s, cur'[s])
    PROVE  SessionInv'
  <1>1. Types /\ s \in Procs
    BY EndNow
  <1>2. Types'
    BY <1>1 DEF Types
  <1>3. StillAccepting(s)
    BY DEF StillAccepting
  <1>4. /\ HoldsBefore
        /\ \A x \in Side : NoNewAnswer(x) /\ StillAccepting(x)
        /\ \A u \in Threads : NoNewCall(u)
    BY <1>3, EndStep
  <1>5. Ordinary
    BY <1>4 DEF Ordinary
  <1> QED BY <1>2, <1>5, OrdinaryStep

\* A step of the transport thread of s that takes up no OPEN.
LEMMA QuietEnd ==
    ASSUME SessionInv, NEW s \in Side, NEW l \in Pc, Goto(s, l),
           UNCHANGED <<scenario, own, opens, channel_counter, channels_seen>>,
           Shrinks, FiresOnly, FiresMade,
           fired' \subseteq Opens,
           chan' \in [Side -> [Opens -> Object]],
           channels' \in [Side -> [Ids -> Opens \cup {0}]],
           channel_events' \in [Side -> [Ids -> Opens \cup {0}]],
           active' \in [Side -> BOOLEAN],
           wire' \in [Side -> Seq(Msg)], wire' = wire \/ Reading \/ Sending,
           asks' \in Nat,
           UNCHANGED cur \/ \E n \in Nat : cur' = [cur EXCEPT ![s] = n],
           server_accepts' \in [Side -> Seq(Opens)], QueueFine,
           l \notin Answering \cup {"queue"},
           pc[s] = "accept_open" => ~active'[s] \/ ~active'[Peer(s)],
           l \in {"send_close", "success", "failure"} => Addressable(s, cur'[s])
    PROVE  SessionInv'
  <1>1. Types /\ s \in Procs
    BY EndNow
  <1>2. Elsewhere(s) /\ pc'[s] = l /\ pc' \in [Procs -> Pc] /\ cur' \in [Procs -> Nat]
    BY <1>1, Goes
  <1> QED BY <1>2, AnyEnd

\* A step that leaves tables and events as they are.
LEMMA SameTables ==
    ASSUME SessionInv, UNCHANGED <<tables, channel_events, fired, opens, active>>
    PROVE  /\ Shrinks /\ FiresOnly /\ FiresMade /\ fired' \subseteq Opens
           /\ chan' \in [Side -> [Opens -> Object]]
           /\ channels' \in [Side -> [Ids -> Opens \cup {0}]]
           /\ channel_events' \in [Side -> [Ids -> Opens \cup {0}]]
           /\ active' \in [Side -> BOOLEAN]
           /\ UNCHANGED <<channel_counter, channels_seen>>
  BY TablesSame, FiredSame DEF SessionInv, Types, tables

\* CLOSE is sent, or a send fails.
LEMMA ClosePacket ==
    ASSUME SessionInv, NEW p \in Procs, SendClose(p) \/ SendFails(p)
    PROVE  SessionInv'
  <1>1. /\ UNCHANGED <<scenario, tables, channel_events, fired, opens, active, own,
                       server_accepts, asks>>
        /\ cur' = [cur EXCEPT ![p] = 0]
    BY DEF SendClose, SendFails, waiting, global
  <1>2. QueueFine
    BY <1>1, QueueSame
  <1>3. At(p) \in Side /\ 0 \in Nat
    BY ProcFacts
  <1>4. wire' \in [Side -> Seq(Msg)] /\ (wire' = wire \/ Sending)
    <2>1. CASE SendClose(p)
      <3>1. pc[p] = "send_close" /\ SendUserMessage(At(p), ToPeer(At(p), cur[p], "close"))
        BY <2>1 DEF SendClose
      <3>2. "close" \in ChannelType
        BY DEF ChannelType
      <3>3. ASSUME p \in Threads
            PROVE  Addressable(At(p), cur[p])
        <4>1. ThreadHolds(p) /\ At(p) = Home[p]
          BY <3>3, HeldNow, ProcFacts
        <4> QED BY <3>1, <4>1 DEF ThreadHolds
      <3>4. ASSUME p \in Side
            PROVE  Addressable(At(p), cur[p])
        <4>1. EndHolds(p) /\ At(p) = p
          BY <3>4, EndNow, ProcFacts
        <4> QED BY <3>1, <4>1 DEF EndHolds
      <3> QED BY <1>3, <3>1, <3>2, <3>3, <3>4, ProcFacts, ChannelPacket, SendsUser
    <2>2. CASE SendFails(p)
      BY <1>3, <2>2, EndNow DEF SendFails
    <2> QED BY <2>1, <2>2
  <1>5. CASE p \in Threads
    <2>1. Goto(p, "idle")
      BY <1>5, ProcFacts DEF SendClose, SendFails
    <2>2. NoNewCall(p) /\ "idle" \in Pc /\ "idle" \notin RequestPc
      BY <1>5, <2>1, AwayFromOpen, HeldNow DEF RequestPc
    <2> QED BY <1>1, <1>2, <1>3, <1>4, <1>5, <2>1, <2>2, HeldNow, QuietThread
  <1>6. CASE p \in Side
    <2>1. PICK l \in {"idle", "ending"} :
              Goto(p, l) /\ (pc[p] = "accept_open" => ~active[Peer(p)])
      BY <1>6, ProcFacts DEF SendClose, SendFails
    <2>2. l \in Pc /\ l \notin Answering \cup {"queue"}
      BY <2>1 DEF Pc, Answering
    <2> QED BY <1>1, <1>2, <1>3, <1>4, <1>6, <2>1, <2>2, SameTables, EndNow, QuietEnd
  <1> QED BY <1>5, <1>6, ProcFacts

\* __del__ of an object that nobody holds.
LEMMA Collecting ==
    ASSUME SessionInv, NEW s \in Side, NEW r \in Opens, Collect(s, r)
    PROVE  SessionInv'
  <1> DEFINE c == chan[s][r]
  <1>1. UNCHANGED <<scenario, active, channel_counter, channels_seen, channel_events, fired,
                    server_accepts, asks, pc, cur, own, opens>>
    BY DEF Collect, waiting, global, local
  <1>2. channels' = [channels EXCEPT ![s][c.id] = 0] /\ c.st # "none"
    BY DEF Collect
  <1>3. c \in Object /\ c.id \in Ids /\ channels \in [Side -> [Ids -> Opens \cup {0}]]
    BY DEF SessionInv, Types, Object
  <1>4. /\ channels' \in [Side -> [Ids -> Opens \cup {0}]]
        /\ \A x \in Side : \A i \in Ids : channels'[x][i] \in {0, channels[x][i]}
    BY <1>2, <1>3
  <1>5. ObjectsKept /\ wire' \in [Side -> Seq(Msg)] /\ (wire' = wire \/ Sending)
    <2>1. CASE /\ c.st = "open"
               /\ chan' = [chan EXCEPT ![s][r] = Closed(@)]
               /\ SendUserMessage(s, ToPeer(s, r, "close"))
      <3>1. ObjectsKept
        BY <2>1, ObjectClosed, EndNow
      <3>2. ~(pc[s] \in Answering /\ cur[s] = r)
        BY EndNow, ProcFacts DEF Collect, Handles, Answering
      <3>3. Addressable(s, r) /\ "close" \in ChannelType
        BY <2>1, <3>2, EndNow DEF Addressable, EndHolds, Made, ChannelType
      <3> QED BY <2>1, <3>1, <3>3, ChannelPacket, SendsUser
    <2>2. CASE UNCHANGED <<chan, wire>>
      BY <2>2, ObjectsSame, EndNow
    <2> QED BY <2>1, <2>2 DEF Collect
  <1>6. Shrinks /\ FiresOnly /\ FiresMade
    BY <1>1, <1>4, <1>5, TablesShrink, FiredSame
  <1>7. Types'
    BY <1>1, <1>4, <1>5, EndNow DEF Types, ObjectsKept
  <1>8. Elsewhere(s) /\ QueueFine
    BY <1>1, QueueSame DEF Elsewhere
  <1>9. HoldsBefore
    BY <1>1 DEF HoldsBefore, SessionInv, ThreadHolds, EndHolds
  <1>10. /\ \A x \in Side : NoNewAnswer(x) /\ StillAccepting(x)
         /\ \A u \in Threads : NoNewCall(u)
    BY <1>1 DEF NoNewAnswer, StillAccepting, NoNewCall
  <1> QED BY <1>5, <1>6, <1>7, <1>9, <1>10, OrdinaryStep DEF Ordinary
-----------------------------------------------------------------------------
(* The transport thread *)

\* What is known of the packet that s reads.
LEMMA ReadsFacts ==
    ASSUME SessionInv, NEW s \in Side, NEW ty, Reads(s, ty)
    PROVE  /\ wire' \in [Side -> Seq(Msg)] /\ wire'[s] = Tail(wire[s])
           /\ \A x \in Side : x # s => wire'[x] = wire[x]
           /\ ty # "open_success" => Reading
           /\ wire[s] # <<>> /\ Len(wire[s]) \in Nat /\ 1 \in 1 .. Len(wire[s])
           /\ Head(wire[s]) = wire[s][1] /\ Head(wire[s]) \in Msg
           /\ Head(wire[s]).type = ty /\ pc[s] = "idle" /\ active[s]
           /\ PacketOK(s, Head(wire[s]))
  <1>1. /\ wire' = [wire EXCEPT ![s] = Tail(@)] /\ wire[s] # <<>>
        /\ Head(wire[s]).type = ty /\ pc[s] = "idle" /\ active[s]
    BY DEF Reads
  <1>2. wire \in [Side -> Seq(Msg)] /\ wire[s] \in Seq(Msg) /\ WireOK(s)
    BY EndNow
  <1>3. /\ Len(wire[s]) \in Nat /\ 1 \in 1 .. Len(wire[s]) /\ Head(wire[s]) = wire[s][1]
        /\ Head(wire[s]) \in Msg /\ Tail(wire[s]) \in Seq(Msg)
    BY <1>1, <1>2
  <1>4. PacketOK(s, Head(wire[s]))
    BY <1>2, <1>3 DEF WireOK
  <1>5. wire' \in [Side -> Seq(Msg)] /\ wire'[s] = Tail(wire[s])
        /\ \A x \in Side : x # s => wire'[x] = wire[x]
    BY <1>1, <1>2, <1>3
  <1> QED BY <1>1, <1>3, <1>4, <1>5 DEF Reading

\* A number in the tables of s belongs to one call.
LEMMA NumberOfOne ==
    ASSUME SessionInv, NEW s \in Side, NEW r \in Opens, Made(s, r)
    PROVE  /\ chan[s][r].id \in Ids
           /\ channels[s][chan[s][r].id] \in {0, r}
           /\ channel_events[s][chan[s][r].id] \in {0, r}
  <1> DEFINE i == chan[s][r].id
  <1>1. /\ i \in Ids /\ TablesOK(s)
        /\ channels[s][i] \in Opens \cup {0} /\ channel_events[s][i] \in Opens \cup {0}
    BY DEF SessionInv, Types, Object
  <1>2. ASSUME NEW q \in Opens, Made(s, q), chan[s][q].id = i
        PROVE  q = r
    BY <1>1, <1>2 DEF TablesOK, Numbered
  <1>3. channels[s][i] # 0 => Made(s, channels[s][i]) /\ chan[s][channels[s][i]].id = i
    BY <1>1 DEF TablesOK, Names
  <1>4. channel_events[s][i] # 0 =>
          Made(s, channel_events[s][i]) /\ chan[s][channel_events[s][i]].id = i
    BY <1>1 DEF TablesOK, Names
  <1> HIDE DEF i
  <1> QED BY <1>1, <1>2, <1>3, <1>4 DEF i

\* A packet about a channel reaches the channel it was meant for, which may
\* be addressed.
LEMMA ReadsRight ==
    ASSUME SessionInv, NEW s \in Side, NEW ty \in ChannelType, NEW r \in Opens,
           ReadsFor(s, ty, r)
    PROVE  r = Head(wire[s]).num /\ Addressable(s, r)
  <1> DEFINE m == Head(wire[s])
  <1>1. Reads(s, ty) /\ r = channels[s][m.to] /\ r # 0
    BY DEF ReadsFor
  <1>2. /\ m = wire[s][1] /\ 1 \in 1 .. Len(wire[s]) /\ m.type = ty
        /\ pc[s] = "idle" /\ active[s] /\ PacketOK(s, m)
    BY <1>1, ReadsFacts
  <1>3. m.num \in Opens /\ Made(s, m.num) /\ chan[s][m.num].id = m.to
    BY <1>2 DEF PacketOK
  <1>4. r = m.num
    BY <1>1, <1>3, NumberOfOne
  <1>5. Settled(s, r) \/ Announced(s, r, 1)
    BY <1>2, <1>4, EndNow DEF WireOK
  <1>6. ~Announced(s, r, 1)
    BY DEF Announced
  <1>7. Knows(s, r)
    BY <1>1, <1>2, <1>3, <1>4, <1>5, <1>6 DEF Settled, Unmapped
  <1> QED BY <1>2, <1>3, <1>4, <1>7 DEF Addressable, Answering

\* Packets that change no table.
LEMMA ReadsQuietly ==
    ASSUME SessionInv, NEW s \in Side,
           IgnoreDead(s) \/ ReadGlobal(s) \/ ReadGlobalReply(s) \/ ReadRequest(s)
    PROVE  SessionInv'
  <1>1. /\ UNCHANGED <<scenario, tables, channel_events, fired, opens, active, own,
                       server_accepts, asks>>
    BY DEF IgnoreDead, ReadGlobal, ReadGlobalReply, ReadRequest, waiting, global, local
  <1>2. QueueFine
    BY <1>1, QueueSame
  <1>3. PICK ty \in ChannelType \cup {"global", "global_reply"} : Reads(s, ty)
    BY DEF IgnoreDead, ReadGlobal, ReadGlobalReply, ReadRequest, ReadsFor, ChannelType
  <1>4. ty # "open_success"
    BY DEF ChannelType
  <1>5. /\ wire' \in [Side -> Seq(Msg)] /\ Reading /\ pc[s] = "idle"
        /\ Head(wire[s]).num \in Nat
    BY <1>3, <1>4, ReadsFacts DEF Msg
  <1>6. \E l \in {"idle", "answer_global", "success", "failure"} :
            /\ Goto(s, l)
            /\ UNCHANGED cur \/ \E n \in Nat : cur' = [cur EXCEPT ![s] = n]
            /\ l \in {"success", "failure"} => Addressable(s, cur'[s])
    <2>1. CASE IgnoreDead(s) \/ ReadGlobalReply(s)
      <3>1. UNCHANGED <<pc, cur>>
        BY <2>1 DEF IgnoreDead, ReadGlobalReply, local
      <3>2. Goto(s, "idle")
        BY <1>5, <3>1, EndNow DEF Goto, Types
      <3> QED BY <3>1, <3>2
    <2>2. CASE ReadGlobal(s)
      BY <1>5, <2>2 DEF ReadGlobal
    <2>3. CASE ReadRequest(s)
      <3>1. PICK r \in Opens : /\ ReadsFor(s, "request", r)
                               /\ cur' = [cur EXCEPT ![s] = r]
                               /\ \E ok \in ServerAllows(s) :
                                     Goto(s, IF ok THEN "success" ELSE "failure")
        BY <2>3 DEF ReadRequest
      <3>2. Addressable(s, r) /\ r \in Nat
        BY <3>1, ReadsRight, NumberFacts DEF ChannelType
      <3>3. cur'[s] = r
        BY <3>1, EndNow DEF Types
      <3> QED BY <3>1, <3>2, <3>3
    <2> QED BY <2>1, <2>2, <2>3
  <1>7. PICK l \in {"idle", "answer_global", "success", "failure"} :
            /\ Goto(s, l)
            /\ UNCHANGED cur \/ \E n \in Nat : cur' = [cur EXCEPT ![s] = n]
            /\ l \in {"success", "failure"} => Addressable(s, cur'[s])
    BY <1>6
  <1>8. l \in Pc /\ l \notin Answering \cup {"queue"} /\ l # "send_close"
    BY DEF Pc, Answering
  <1> QED BY <1>1, <1>2, <1>5, <1>7, <1>8, SameTables, EndNow, QuietEnd

\* Packets that change one object: exit status, success of a request, its
\* failure, CLOSE.
LEMMA ReadsForObject ==
    ASSUME SessionInv, NEW s \in Side,
           ReadExitStatus(s) \/ ReadSuccess(s) \/ ReadFailure(s) \/ ReadClose(s)
    PROVE  SessionInv'
  <1>1. UNCHANGED <<scenario, active, channel_counter, channels_seen, channel_events, fired,
                    opens, own, server_accepts, asks>>
    BY DEF ReadExitStatus, ReadSuccess, ReadFailure, ReadClose, waiting, global, local
  <1>2. QueueFine
    BY <1>1, QueueSame
  <1>3. PICK ty \in ChannelType, r \in Opens :
            /\ ReadsFor(s, ty, r)
            /\ \/ /\ chan' = [chan EXCEPT ![s][r].exit_status = TRUE, ![s][r].status_event = TRUE]
                  /\ UNCHANGED <<channels, pc, cur>>
               \/ /\ chan' = [chan EXCEPT ![s][r].event_ready = TRUE, ![s][r].event = TRUE]
                  /\ UNCHANGED <<channels, pc, cur>>
               \/ /\ CloseInternal(s, r)
                  /\ \/ UNCHANGED channels
                     \/ channels' = [channels EXCEPT ![s][chan[s][r].id] = 0]
    BY DEF ReadExitStatus, ReadSuccess, ReadFailure, ReadClose, local, ChannelType
  <1>4. Reads(s, ty) /\ ty # "open_success"
    BY <1>3 DEF ReadsFor, ChannelType
  <1>5. wire' \in [Side -> Seq(Msg)] /\ Reading /\ pc[s] = "idle"
    BY <1>4, ReadsFacts
  <1>6. /\ Addressable(s, r) /\ chan[s][r] \in Object /\ chan[s][r].id \in Ids /\ r \in Nat
        /\ chan[s][r].st # "none"
    <2>1. Addressable(s, r)
      BY <1>3, ReadsRight
    <2>2. chan \in [Side -> [Opens -> Object]] /\ r \in Nat
      BY EndNow, NumberFacts DEF Types
    <2>3. chan[s][r] \in Object /\ chan[s][r].id \in Ids
      BY <2>2 DEF Object
    <2> QED BY <2>1, <2>2, <2>3 DEF Addressable, Made
  <1>7. /\ channels' \in [Side -> [Ids -> Opens \cup {0}]]
        /\ \A x \in Side : \A i \in Ids : channels'[x][i] \in {0, channels[x][i]}
    <2>1. channels \in [Side -> [Ids -> Opens \cup {0}]]
      BY EndNow DEF Types
    <2>2. UNCHANGED channels \/ channels' = [channels EXCEPT ![s][chan[s][r].id] = 0]
      BY <1>3
    <2> QED BY <1>6, <2>1, <2>2
  <1>8. ObjectsKept
    <2>1. CASE chan' = [chan EXCEPT ![s][r].exit_status = TRUE, ![s][r].status_event = TRUE]
      <3> DEFINE c == [chan[s][r] EXCEPT !.exit_status = TRUE, !.status_event = TRUE]
      <3>1. /\ c \in Object /\ c.id = chan[s][r].id /\ c.remote = chan[s][r].remote
            /\ c.st = chan[s][r].st
        BY <1>6 DEF Object
      <3>2. chan' = [chan EXCEPT ![s][r] = c]
        BY <2>1
      <3> HIDE DEF c
      <3> QED BY <3>1, <3>2, ObjectReplaced, EndNow
    <2>2. CASE chan' = [chan EXCEPT ![s][r].event_ready = TRUE, ![s][r].event = TRUE]
      <3> DEFINE c == [chan[s][r] EXCEPT !.event_ready = TRUE, !.event = TRUE]
      <3>1. /\ c \in Object /\ c.id = chan[s][r].id /\ c.remote = chan[s][r].remote
            /\ c.st = chan[s][r].st
        BY <1>6 DEF Object
      <3>2. chan' = [chan EXCEPT ![s][r] = c]
        BY <2>2
      <3> HIDE DEF c
      <3> QED BY <3>1, <3>2, ObjectReplaced, EndNow
    <2>3. CASE CloseInternal(s, r)
      BY <1>6, <2>3, ObjectClosed, ObjectsSame, EndNow DEF CloseInternal
    <2> QED BY <1>3, <2>1, <2>2, <2>3
  <1>9. /\ Shrinks /\ FiresOnly /\ FiresMade /\ fired' \subseteq Opens
        /\ chan' \in [Side -> [Opens -> Object]]
        /\ channel_events' \in [Side -> [Ids -> Opens \cup {0}]]
        /\ active' \in [Side -> BOOLEAN]
    BY <1>1, <1>7, <1>8, TablesShrink, FiredSame, EndNow DEF ObjectsKept, Types
  <1>10. \E l \in {"idle", "send_close"} :
            /\ Goto(s, l)
            /\ UNCHANGED cur \/ \E n \in Nat : cur' = [cur EXCEPT ![s] = n]
            /\ l = "send_close" => Addressable(s, cur'[s])
    <2>1. CASE UNCHANGED <<pc, cur>>
      <3>1. Goto(s, "idle")
        BY <1>5, <2>1, EndNow DEF Goto, Types
      <3> QED BY <2>1, <3>1
    <2>2. CASE Goto(s, "send_close") /\ cur' = [cur EXCEPT ![s] = r]
      <3>1. cur'[s] = r
        BY <2>2, EndNow DEF Types
      <3> QED BY <1>6, <2>2, <3>1
    <2> QED BY <1>3, <2>1, <2>2 DEF CloseInternal
  <1>11. PICK l \in {"idle", "send_close"} :
            /\ Goto(s, l)
            /\ UNCHANGED cur \/ \E n \in Nat : cur' = [cur EXCEPT ![s] = n]
            /\ l = "send_close" => Addressable(s, cur'[s])
    BY <1>10
  <1>12. l \in Pc /\ l \notin Answering \cup {"queue"} /\ l \notin {"success", "failure"}
    BY DEF Pc, Answering
  <1> QED BY <1>1, <1>2, <1>5, <1>7, <1>9, <1>11, <1>12, EndNow, QuietEnd

\* The call that an event of s is for is of a thread of s.
LEMMA EventOwner ==
    ASSUME SessionInv, NEW s \in Side, NEW i \in Ids, channel_events[s][i] # 0
    PROVE  /\ channel_events[s][i] \in Opens /\ Made(s, channel_events[s][i])
           /\ chan[s][channel_events[s][i]].id = i
           /\ \A t \in Threads :
                 pc[t] \in OpenPc /\ cur[t] = channel_events[s][i] => Home[t] = s
  <1>1. /\ channel_events[s][i] \in Opens /\ Made(s, channel_events[s][i])
        /\ chan[s][channel_events[s][i]].id = i
    BY EndNow DEF Types, TablesOK, Names
  <1>2. ASSUME NEW t \in Threads, pc[t] \in OpenPc, cur[t] = channel_events[s][i]
        PROVE  Home[t] = s
    <2>1. channel_events[Peer(Home[t])][i] # cur[t] /\ Home[t] \in Side
      BY <1>2, HeldNow DEF CallOK
    <2>2. Peer(Home[t]) # s
      BY <1>2, <2>1
    <2> QED BY <2>1, <2>2 DEF Side, Peer
  <1> QED BY <1>1, <1>2

\* OPEN_FAILURE: the call is woken and its object leaves the map.
LEMMA ReadsFailure ==
    ASSUME SessionInv, NEW s \in Side, ReadOpenFailure(s)
    PROVE  SessionInv'
  <1> DEFINE m == Head(wire[s])
             i == m.to
             e == channel_events[s][i]
  <1>1. /\ Reads(s, "open_failure")
        /\ channels' = [channels EXCEPT ![s][i] = IF e # 0 THEN 0 ELSE @]
        /\ fired' = fired \cup ({e} \ {0})
        /\ channel_events' = [channel_events EXCEPT ![s][i] = 0]
    BY DEF ReadOpenFailure, Fire
  <1>2. UNCHANGED <<scenario, active, chan, channel_counter, channels_seen, opens, own, pc, cur,
                    server_accepts, asks>>
    BY DEF ReadOpenFailure, global, local
  <1>3. /\ wire' \in [Side -> Seq(Msg)] /\ Reading /\ pc[s] = "idle" /\ i \in Ids
    <2>1. wire' \in [Side -> Seq(Msg)] /\ Reading /\ pc[s] = "idle" /\ m \in Msg
      BY <1>1, ReadsFacts
    <2> HIDE DEF m
    <2> QED BY <2>1 DEF Msg
  <1>4. QueueFine
    BY <1>2, QueueSame
  <1>5. /\ channels \in [Side -> [Ids -> Opens \cup {0}]]
        /\ channel_events \in [Side -> [Ids -> Opens \cup {0}]]
        /\ fired \subseteq Opens
    BY EndNow DEF Types
  <1> HIDE DEF m
  <1>6. /\ channels' \in [Side -> [Ids -> Opens \cup {0}]]
        /\ \A x \in Side : \A j \in Ids : channels'[x][j] \in {0, channels[x][j]}
        /\ e # 0 => channels'[s][i] = 0
    BY <1>1, <1>3, <1>5
  <1>7. /\ channel_events' \in [Side -> [Ids -> Opens \cup {0}]]
        /\ \A x \in Side : \A j \in Ids : channel_events'[x][j] \in {0, channel_events[x][j]}
    BY <1>1, <1>3, <1>5
  <1>8. Shrinks
    BY <1>2, <1>6, <1>7, TablesShrink, ObjectsSame, EndNow
  <1>9. FiresMade /\ fired' \subseteq Opens
    BY <1>1, <1>3, <1>5, EventOwner DEF FiresMade
  <1>10. FiresOnly
    <2> SUFFICES ASSUME NEW t \in Threads, pc[t] \in {"send_open", "opening"},
                        cur[t] \in fired', cur[t] \notin fired
                 PROVE  Resolved(Home[t], cur[t])'
      BY DEF FiresOnly
    <2>1. e # 0 /\ cur[t] = e /\ pc[t] \in OpenPc
      BY <1>1 DEF OpenPc
    <2>2. Home[t] = s /\ e \in Opens /\ chan[s][e].id = i
      BY <1>3, <2>1, EventOwner
    <2>3. 0 \notin Opens
      BY NumberFacts
    <2>4. channels'[s][chan'[s][e].id] # e
      BY <1>2, <1>6, <2>1, <2>2, <2>3
    <2>5. cur'[t] = e
      BY <1>2, <2>1
    <2> HIDE DEF e
    <2> QED BY <2>2, <2>4, <2>5 DEF Resolved, Unmapped
  <1>11. Goto(s, "idle") /\ "idle" \in Pc /\ "idle" \notin Answering \cup {"queue"}
    BY <1>2, <1>3, EndNow DEF Goto, Types, Pc, Answering
  <1> QED BY <1>2, <1>3, <1>4, <1>6, <1>7, <1>8, <1>9, <1>10, <1>11, EndNow, QuietEnd DEF Types

\* server_accept_cv.notify() by the transport thread.
LEMMA Notifies ==
    ASSUME SessionInv, NEW s \in Side, NEW l \in Pc, NotifyOne(s, l), UNCHANGED own,
           UNCHANGED cur \/ \E n \in Nat : cur' = [cur EXCEPT ![s] = n]
    PROVE  Elsewhere(s) /\ pc'[s] = l /\ pc' \in [Procs -> Pc] /\ cur' \in [Procs -> Nat]
  <1>1. Types /\ s \in Procs /\ pc \in [Procs -> Pc] /\ cur \in [Procs -> Nat]
    BY EndNow DEF Types
  <1>2. CASE Goto(s, l)
    BY <1>1, <1>2, Goes
  <1>3. CASE \E t \in Threads : /\ pc[t] = "accepting"
                                /\ pc' = [pc EXCEPT ![t] = "accept_woken", ![s] = l]
    <2>1. PICK t \in Threads : /\ pc[t] = "accepting"
                               /\ pc' = [pc EXCEPT ![t] = "accept_woken", ![s] = l]
      BY <1>3
    <2>2. t \in Procs /\ t # s /\ "accept_woken" \in Pc
      BY ProcFacts DEF Pc, AcceptPc
    <2>3. /\ pc' \in [Procs -> Pc] /\ pc'[s] = l
          /\ \A q \in Procs \ {s} :
                pc'[q] = pc[q] \/ (pc[q] = "accepting" /\ pc'[q] = "accept_woken")
      BY <1>1, <2>1, <2>2
    <2>4. cur' \in [Procs -> Nat] /\ \A q \in Procs \ {s} : cur'[q] = cur[q]
      BY <1>1
    <2> QED BY <2>3, <2>4 DEF Elsewhere
  <1> QED BY <1>2, <1>3 DEF NotifyOne

\* _queue_incoming_channel: the channel may be addressed.
LEMMA Queueing ==
    ASSUME SessionInv, NEW s \in Side, QueueIncoming(s)
    PROVE  SessionInv'
  <1>1. UNCHANGED <<scenario, wire, active, tables, channel_events, fired, opens, own, asks>>
    BY DEF QueueIncoming, waiting, global
  <1>2. /\ pc[s] = "queue" /\ NotifyOne(s, "idle") /\ cur' = [cur EXCEPT ![s] = 0]
        /\ server_accepts' = [server_accepts EXCEPT ![s] = Append(@, cur[s])]
    BY DEF QueueIncoming
  <1>3. "idle" \in Pc /\ "idle" \notin Answering \cup {"queue"} /\ "queue" \notin Answering
    BY DEF Pc, Answering
  <1>4. Elsewhere(s) /\ pc'[s] = "idle" /\ pc' \in [Procs -> Pc] /\ cur' \in [Procs -> Nat]
    BY <1>1, <1>2, <1>3, Notifies
  <1>5. Addressable(s, cur[s]) /\ cur[s] \in Opens
    BY <1>2, <1>3, EndNow DEF EndHolds, Addressable
  <1>6. server_accepts' \in [Side -> Seq(Opens)] /\ QueueFine
    <2>1. server_accepts \in [Side -> Seq(Opens)] /\ server_accepts[s] \in Seq(Opens)
      BY EndNow
    <2>2. /\ Append(server_accepts[s], cur[s]) \in Seq(Opens)
          /\ \A i \in 1 .. Len(Append(server_accepts[s], cur[s])) :
                \/ Append(server_accepts[s], cur[s])[i] = cur[s]
                \/ /\ i \in 1 .. Len(server_accepts[s])
                   /\ Append(server_accepts[s], cur[s])[i] = server_accepts[s][i]
      BY <1>5, <2>1
    <2>3. server_accepts' \in [Side -> Seq(Opens)]
      BY <1>2, <2>1, <2>2
    <2>4. \A x \in Side : \A i \in 1 .. Len(server_accepts[x]) : Addressable(x, server_accepts[x][i])
      BY DEF SessionInv, EndHolds
    <2>5. ASSUME NEW x \in Side, NEW i \in 1 .. Len(server_accepts'[x])
          PROVE  Addressable(x, server_accepts'[x][i])
      <3>1. CASE x = s
        <4>1. server_accepts'[x] = Append(server_accepts[s], cur[s])
          BY <1>2, <2>1, <3>1
        <4> QED BY <1>5, <2>2, <2>4, <3>1, <4>1
      <3>2. CASE x # s
        <4>1. server_accepts'[x] = server_accepts[x]
          BY <1>2, <2>1, <3>2
        <4> QED BY <2>4, <4>1
      <3> QED BY <3>1, <3>2
    <2> QED BY <2>3, <2>5 DEF QueueFine
  <1> QED BY <1>1, <1>2, <1>3, <1>4, <1>6, SameTables, EndNow, AnyEnd

\* _send_message of a packet that may be sent.
LEMMA SendsMessage ==
    ASSUME SessionInv, NEW s \in Side, NEW m \in Msg, Proper(s, m), NEW l, SendMessage(s, m, l)
    PROVE  /\ wire' \in [Side -> Seq(Msg)] /\ (wire' = wire \/ Sending)
           /\ Goto(s, l) \/ (Goto(s, "ending") /\ ~active[s])
  <1>1. wire \in [Side -> Seq(Msg)] /\ Peer(s) \in Side
    BY EndNow
  <1>2. CASE active[s] /\ wire' = [wire EXCEPT ![Peer(s)] = Append(@, m)] /\ Goto(s, l)
    <2>1. Append(wire[Peer(s)], m) \in Seq(Msg)
      BY <1>1
    <2>2. wire' \in [Side -> Seq(Msg)]
      BY <1>1, <1>2, <2>1
    <2> QED BY <1>2, <2>2 DEF Sending
  <1>3. CASE ~active[s] /\ UNCHANGED wire /\ Goto(s, "ending")
    BY <1>1, <1>3
  <1> QED BY <1>2, <1>3 DEF SendMessage

\* The answers to requests keep the invariant.
LEMMA Answers ==
    ASSUME SessionInv, NEW s \in Side, AnswerGlobal(s) \/ AnswerRequest(s)
    PROVE  SessionInv'
  <1>1. /\ UNCHANGED <<scenario, active, tables, channel_events, fired, opens, own,
                       server_accepts, asks>>
        /\ cur' = [cur EXCEPT ![s] = 0] /\ pc[s] # "accept_open"
    BY DEF AnswerGlobal, AnswerRequest, waiting, global
  <1>2. QueueFine
    BY <1>1, QueueSame
  <1>3. /\ wire' \in [Side -> Seq(Msg)] /\ (wire' = wire \/ Sending)
        /\ Goto(s, "idle") \/ Goto(s, "ending")
    <2>1. CASE AnswerGlobal(s)
      <3>1. PICK ok \in ServerAllows(s) :
                SendMessage(s, Packet("global_reply", 0, 0, cur[s], ok), "idle")
        BY <2>1 DEF AnswerGlobal
      <3> DEFINE m == Packet("global_reply", 0, 0, cur[s], ok)
      <3>2. ok \in BOOLEAN
        BY DEF ServerAllows
      <3>3. m \in Msg /\ Proper(s, m)
        BY <3>2, GlobalPacket, EndNow
      <3>4. SendMessage(s, m, "idle")
        BY <3>1
      <3> HIDE DEF m
      <3> QED BY <3>3, <3>4, SendsMessage
    <2>2. CASE AnswerRequest(s)
      <3>1. /\ pc[s] \in {"success", "failure"} /\ Goto(s, "idle")
            /\ SendUserMessage(s, ToPeer(s, cur[s], pc[s]))
        BY <2>2 DEF AnswerRequest
      <3>2. Addressable(s, cur[s]) /\ pc[s] \in ChannelType
        BY <3>1, EndNow DEF EndHolds, ChannelType
      <3> QED BY <3>1, <3>2, ChannelPacket, SendsUser
    <2> QED BY <2>1, <2>2
  <1>4. PICK l \in {"idle", "ending"} : Goto(s, l)
    BY <1>3
  <1>5. l \in Pc /\ l \notin Answering \cup {"queue"}
    BY DEF Pc, Answering
  <1> QED BY <1>1, <1>2, <1>3, <1>4, <1>5, SameTables, EndNow, QuietEnd

\* The end of run() keeps the invariant.
LEMMA Ends ==
    ASSUME SessionInv, NEW s \in Side, EndLoop(s) \/ RunUnlink(s) \/ EndRun(s)
    PROVE  SessionInv'
  <1>1. /\ UNCHANGED <<scenario, wire, channel_counter, channels_seen, channel_events, opens, own,
                       cur, server_accepts, asks>>
        /\ pc[s] # "accept_open"
    BY DEF EndLoop, RunUnlink, EndRun, waiting, global, tables
  <1>2. QueueFine
    BY <1>1, QueueSame
  <1>3. CASE EndLoop(s)
    <2>1. UNCHANGED <<tables, fired, active>> /\ Goto(s, "ending")
      BY <1>3 DEF EndLoop
    <2>2. "ending" \in Pc /\ "ending" \notin Answering \cup {"queue"}
      BY DEF Pc, Answering
    <2> QED BY <1>1, <1>2, <2>1, <2>2, SameTables, EndNow, QuietEnd
  <1>4. CASE RunUnlink(s)
    <2>1. UNCHANGED <<fired, active>> /\ Goto(s, "unlinked") /\ UnlinkAll(s)
      BY <1>4 DEF RunUnlink, waiting
    <2>2. "unlinked" \in Pc /\ "unlinked" \notin Answering \cup {"queue"}
      BY DEF Pc, Answering
    <2>3. /\ ObjectsKept /\ channels' \in [Side -> [Ids -> Opens \cup {0}]]
          /\ \A x \in Side : \A i \in Ids : channels'[x][i] \in {0, channels[x][i]}
      BY <2>1, Unlinked, EndNow
    <2>4. /\ Shrinks /\ FiresOnly /\ FiresMade /\ fired' \subseteq Opens
          /\ chan' \in [Side -> [Opens -> Object]]
          /\ channel_events' \in [Side -> [Ids -> Opens \cup {0}]]
          /\ active' \in [Side -> BOOLEAN]
      BY <1>1, <2>1, <2>3, TablesShrink, FiredSame, EndNow DEF ObjectsKept, Types
    <2> QED BY <1>1, <1>2, <2>1, <2>2, <2>3, <2>4, EndNow, QuietEnd
  <1>5. CASE EndRun(s)
    <2>1. "ended" \in Pc /\ "ended" \notin Answering \cup {"queue"}
      BY DEF Pc, Answering
    <2>2. UNCHANGED tables
      BY <1>5 DEF EndRun
    <2>3. CASE UNCHANGED <<active, fired>> /\ Goto(s, "ended")
      BY <1>1, <1>2, <2>1, <2>2, <2>3, SameTables, EndNow, QuietEnd
    <2>4. CASE /\ active' = [active EXCEPT ![s] = FALSE]
               /\ fired' = fired \cup ({channel_events[s][i] : i \in Ids} \ {0})
               /\ NotifyOne(s, "ended")
      <3>1. active' \in [Side -> BOOLEAN] /\ ~active'[s] /\ \A x \in Side : active'[x] => active[x]
        BY <2>4, EndNow
      <3>2. Shrinks
        BY <1>1, <2>2, <3>1, TablesSame
      <3>3. ASSUME NEW r \in fired', r \notin fired
            PROVE  r \in Opens /\ Made(s, r) /\
                   \A t \in Threads : pc[t] \in OpenPc /\ cur[t] = r => Home[t] = s
        <4>1. PICK i \in Ids : r = channel_events[s][i] /\ r # 0
          BY <2>4, <3>3
        <4> QED BY <4>1, EventOwner
      <3>4. FiresMade
        BY <3>3 DEF FiresMade
      <3>5. FiresOnly
        <4> SUFFICES ASSUME NEW t \in Threads, pc[t] \in {"send_open", "opening"},
                            cur[t] \in fired', active'[Home[t]], cur[t] \notin fired
                     PROVE  FALSE
          BY DEF FiresOnly
        <4>1. Home[t] = s
          BY <3>3 DEF OpenPc
        <4> QED BY <3>1, <4>1
      <3>6. fired' \subseteq Opens
        BY <3>3, EndNow DEF Types
      <3>7. /\ chan' \in [Side -> [Opens -> Object]]
            /\ channels' \in [Side -> [Ids -> Opens \cup {0}]]
            /\ channel_events' \in [Side -> [Ids -> Opens \cup {0}]]
        BY <1>1, <2>2, EndNow DEF Types, tables
      <3>8. /\ Elsewhere(s) /\ pc'[s] = "ended" /\ pc' \in [Procs -> Pc]
            /\ cur' \in [Procs -> Nat]
        BY <1>1, <2>1, <2>4, Notifies
      <3> QED BY <1>1, <1>2, <2>1, <3>1, <3>2, <3>4, <3>5, <3>6, <3>7, <3>8, EndNow, AnyEnd
    <2> QED BY <1>5, <2>3, <2>4 DEF EndRun
  <1> QED BY <1>3, <1>4, <1>5
-----------------------------------------------------------------------------
(* Opening a channel, from the first packet on *)

\* The OPEN is sent for a call that is registered.
LEMMA SendsOpen ==
    ASSUME SessionInv, NEW t \in Threads, SendOpen(t)
    PROVE  SessionInv'
  <1> DEFINE s == Home[t]
             m == Packet("open", 0, chan[s][cur[t]].id, cur[t], TRUE)
  <1>1. UNCHANGED <<scenario, tables, channel_events, fired, opens, active, own, cur,
                    server_accepts, asks>>
    BY DEF SendOpen, waiting, global
  <1>2. pc[t] = "send_open" /\ SendUserMessage(s, m) /\ Goto(t, "opening")
    BY DEF SendOpen
  <1>3. QueueFine
    BY <1>1, QueueSame
  <1>4. /\ "opening" \in Pc /\ "opening" \in OpenPc /\ "opening" \notin RequestPc
        /\ "send_open" \in OpenPc
    BY DEF Pc, OpenPc, RequestPc
  <1>5. pc'[t] = "opening" /\ NoNewCall(t)
    BY <1>1, <1>2, <1>4, ProcFacts, HeldNow DEF Goto, Types, NoNewCall
  <1>6. s \in Side /\ cur[t] \in Opens /\ cur[t] \in Nat /\ chan[s][cur[t]].id \in Ids
    <2>1. cur[t] \in 1 .. opens /\ opens \in 0 .. MaxOpens /\ s \in Side
      BY <1>2, <1>4, HeldNow DEF CallOK, Types
    <2>2. cur[t] \in Opens /\ cur[t] \in Nat
      BY <2>1, NumberFacts
    <2> QED BY <2>1, <2>2, HeldNow DEF Types, Object
  <1>7. m \in Msg
    BY <1>6, NumberFacts DEF Packet, Msg, PacketType
  <1>8. m.type = "open" /\ m.from = chan[s][m.num].id /\ m.num = cur[t]
    BY DEF Packet
  <1> HIDE DEF m
  <1>9. Proper(s, m)
    BY <1>1, <1>2, <1>5, <1>8 DEF Proper, Opened
  <1>10. wire' \in [Side -> Seq(Msg)] /\ (wire' = wire \/ Sending)
    BY <1>2, <1>6, <1>7, <1>9, SendsUser
  <1> QED BY <1>1, <1>2, <1>3, <1>4, <1>5, <1>10, HeldNow, QuietThread

\* The answer to an OPEN is sent, or the session has ended.
LEMMA AnswersOpens ==
    ASSUME SessionInv, NEW s \in Side, AnswerOpen(s)
    PROVE  SessionInv'
  <1> DEFINE r == cur[s]
             c == chan[s][r]
  <1>1. UNCHANGED <<scenario, tables, channel_events, fired, opens, active, own,
                    server_accepts, asks>>
    BY DEF AnswerOpen, global
  <1>2. QueueFine
    BY <1>1, QueueSame
  <1>3. pc[s] \in {"accept_open", "refuse_open"}
    BY DEF AnswerOpen
  <1>4. /\ r \in Opens /\ r \in Nat /\ Knows(s, r) /\ c.id \in Ids /\ c.remote \in Ids
        /\ pc[s] = "accept_open" => Made(s, r)
    <2>1. r \in Opens /\ Knows(s, r) /\ (pc[s] = "accept_open" => Made(s, r))
      BY <1>3, EndNow DEF EndHolds, Answering
    <2>2. c \in Object
      BY <2>1, EndNow DEF Types
    <2> QED BY <2>1, <2>2, NumberFacts DEF Object
  <1>5. CASE pc[s] = "refuse_open"
    <2> DEFINE m == Packet("open_failure", c.remote, 0, r, TRUE)
    <2>1. SendMessage(s, m, "idle") /\ cur' = [cur EXCEPT ![s] = 0]
      BY <1>5 DEF AnswerOpen
    <2>2. m \in Msg
      BY <1>4, NumberFacts DEF Packet, Msg, PacketType
    <2>3. m.type = "open_failure" /\ m.num = r /\ m.to = c.remote
      BY DEF Packet
    <2> HIDE DEF m
    <2>4. Proper(s, m)
      BY <1>4, <2>3 DEF Proper, AnswersOpen
    <2>5. /\ wire' \in [Side -> Seq(Msg)] /\ (wire' = wire \/ Sending)
          /\ Goto(s, "idle") \/ Goto(s, "ending")
      BY <2>1, <2>2, <2>4, SendsMessage
    <2>6. PICK l \in {"idle", "ending"} : Goto(s, l)
      BY <2>5
    <2>7. l \in Pc /\ l \notin Answering \cup {"queue"}
      BY DEF Pc, Answering
    <2> QED BY <1>1, <1>2, <1>5, <2>1, <2>5, <2>6, <2>7, SameTables, EndNow, QuietEnd
  <1>6. CASE pc[s] = "accept_open"
    <2> DEFINE m == Packet("open_success", c.remote, c.id, r, TRUE)
    <2>1. SendMessage(s, m, "queue") /\ UNCHANGED cur
      BY <1>6 DEF AnswerOpen
    <2>2. m \in Msg
      BY <1>4 DEF Packet, Msg, PacketType
    <2>3. m.type = "open_success" /\ m.num = r /\ m.to = c.remote /\ m.from = c.id
      BY DEF Packet
    <2> HIDE DEF m
    <2>4. Proper(s, m)
      BY <1>4, <1>6, <2>3 DEF Proper, AnswersOpen
    <2>5. /\ wire' \in [Side -> Seq(Msg)] /\ (wire' = wire \/ Sending)
          /\ Goto(s, "queue") \/ (Goto(s, "ending") /\ ~active[s])
      BY <2>1, <2>2, <2>4, SendsMessage
    <2>6. CASE ~active[s]
      <3>1. Goto(s, "ending")
        BY <2>1, <2>6 DEF SendMessage
      <3>2. "ending" \in Pc /\ "ending" \notin Answering \cup {"queue"}
        BY DEF Pc, Answering
      <3> QED BY <1>1, <1>2, <2>1, <2>5, <2>6, <3>1, <3>2, SameTables, EndNow, QuietEnd
    <2>7. CASE active[s]
      <3>1. Goto(s, "queue") /\ wire' = [wire EXCEPT ![Peer(s)] = Append(@, m)]
        BY <2>1, <2>7 DEF SendMessage
      <3>2. "queue" \in Pc /\ "queue" \notin Answering
        BY DEF Pc, Answering
      <3>3. Elsewhere(s) /\ pc'[s] = "queue" /\ pc' \in [Procs -> Pc] /\ cur' \in [Procs -> Nat]
        BY <1>1, <2>1, <3>1, <3>2, EndNow, Goes
      <3>4. Types'
        BY <1>1, <2>5, <3>3, EndNow DEF Types, tables
      <3>5. Promised(Peer(s), r)'
        <4>1. wire[Peer(s)] \in Seq(Msg) /\ wire'[Peer(s)] = Append(wire[Peer(s)], m)
          BY <3>1, EndNow
        <4>2. LET n == Len(wire[Peer(s)]) + 1
              IN  n \in 1 .. Len(wire'[Peer(s)]) /\ wire'[Peer(s)][n] = m
          BY <2>2, <4>1
        <4>3. PICK n \in 1 .. Len(wire'[Peer(s)]) : wire'[Peer(s)][n] = m
          BY <4>2
        <4>4. cur'[s] = r
          BY <2>1
        <4> HIDE DEF r
        <4> QED BY <2>3, <4>3, <4>4 DEF Promised, r
      <3>6. ASSUME NEW x \in Side
            PROVE  /\ pc'[x] \in {"send_close", "success", "failure"} => Addressable(x, cur'[x])
                   /\ pc'[x] \in Answering \cup {"queue"} => cur'[x] \in Opens /\ Knows(x, cur'[x])
                   /\ pc'[x] \in {"accept_open", "queue"} => Made(x, cur'[x])
                   /\ NoNewAnswer(x) /\ StillAccepting(x)
        <4>1. CASE x # s
          BY <3>3, <4>1, EndNow, EndElsewhere
        <4>2. CASE x = s
          <5>1. StillAccepting(x)
            BY <2>1, <3>5, <4>2 DEF StillAccepting
          <5> QED BY <1>4, <1>6, <2>1, <3>2, <3>3, <4>2, <5>1 DEF NoNewAnswer, Answering
        <4> QED BY <4>1, <4>2
      <3>7. \A u \in Threads :
               /\ own'[u] # 0 => Addressable(Home[u], own'[u])
               /\ pc'[u] = "send_close" => Addressable(Home[u], cur'[u])
               /\ pc'[u] \in RequestPc => own'[u] # 0
               /\ NoNewCall(u)
        BY <3>3, EndNow, ProcFacts, ThreadElsewhere
      <3>8. Ordinary
        BY <1>1, <1>2, <3>6, <3>7, SameTables DEF Ordinary, HoldsBefore, QueueFine
      <3> QED BY <2>5, <3>4, <3>8, OrdinaryStep
    <2> QED BY <2>6, <2>7
  <1> QED BY <1>3, <1>5, <1>6

\* OPEN_SUCCESS: the caller's object learns the number of the peer.
LEMMA ReadsSuccess ==
    ASSUME SessionInv, NEW s \in Side, ReadOpenSuccess(s)
    PROVE  SessionInv'
  <1>1. PICK m : m = Head(wire[s])
    OBVIOUS
  <1> DEFINE n == m.num
             i == m.to
             p == Peer(s)
  <1>2. /\ Reads(s, "open_success")
        /\ UNCHANGED <<scenario, active, channels, channel_counter, channels_seen, opens, own, pc,
                       cur, server_accepts, asks>>
    BY DEF ReadOpenSuccess, global, local
  <1>3. /\ wire' \in [Side -> Seq(Msg)] /\ wire' = [wire EXCEPT ![s] = Tail(@)] /\ wire[s] # <<>>
        /\ pc[s] = "idle" /\ m \in Msg /\ m.type = "open_success" /\ PacketOK(s, m)
    BY <1>1, <1>2, ReadsFacts DEF Reads
  <1>4. /\ n \in Opens /\ Made(s, n) /\ chan[s][n].id = i
        /\ Made(p, n) /\ chan[p][n].id = m.from
    BY <1>3 DEF PacketOK
  <1>5. i \in Ids /\ m.from \in Ids /\ p \in Side /\ p # s
    BY <1>3, SideFacts DEF Msg
  <1>6. channels[s][i] \in {0, n} /\ channel_events[s][i] \in {0, n}
    BY <1>4, NumberOfOne
  <1>7. QueueFine
    BY <1>2, QueueSame
  <1>8. Goto(s, "idle") /\ "idle" \in Pc /\ "idle" \notin Answering \cup {"queue"}
    BY <1>2, <1>3, EndNow DEF Goto, Types, Pc, Answering
  <1>9. 0 \notin Opens
    BY NumberFacts
  <1>10. CASE channels[s][i] = 0
    <2>1. UNCHANGED <<chan, fired, channel_events>>
      BY <1>1, <1>10 DEF ReadOpenSuccess
    <2>2. Settled(s, n)'
      BY <1>2, <1>4, <1>9, <1>10, <2>1 DEF Settled, Unmapped
    <2>3. Reading
      BY <1>1, <1>3, <2>2 DEF Reading
    <2>4. UNCHANGED tables
      BY <1>2, <2>1 DEF tables
    <2> QED BY <1>2, <1>3, <1>7, <1>8, <2>1, <2>3, <2>4, SameTables, EndNow, QuietEnd
  <1>11. CASE channels[s][i] = n
    <2> DEFINE c == [chan[s][n] EXCEPT !.remote = m.from, !.st = "open"]
    <2>1. /\ chan' = [chan EXCEPT ![s][n].remote = m.from, ![s][n].st = "open"]
          /\ fired' = fired \cup ({channel_events[s][i]} \ {0})
          /\ channel_events' = [channel_events EXCEPT ![s][i] = 0]
      BY <1>1, <1>4, <1>9, <1>11 DEF ReadOpenSuccess, Fire
    <2>2. chan' = [chan EXCEPT ![s][n] = c]
      BY <2>1
    <2>3. chan[s][n] \in Object /\ chan \in [Side -> [Opens -> Object]]
      <3>1. chan \in [Side -> [Opens -> Object]]
        BY EndNow DEF Types
      <3> QED BY <1>4, <3>1
    <2>4. c \in Object /\ c.id = i /\ c.remote = m.from /\ c.st = "open"
      BY <1>4, <1>5, <2>3 DEF Object, ChannelState
    <2> HIDE DEF c
    <2>5. /\ chan' \in [Side -> [Opens -> Object]] /\ chan'[s][n] = c
          /\ \A x \in Side : \A q \in Opens : x # s \/ q # n => chan'[x][q] = chan[x][q]
      BY <1>4, <2>2, <2>3, <2>4
    <2>6. Knows(s, n)'
      BY <1>4, <1>5, <2>4, <2>5 DEF Knows, Made
    <2>7. Reading
      BY <1>1, <1>3, <2>6 DEF Reading, Settled
    <2>8. /\ channel_events' \in [Side -> [Ids -> Opens \cup {0}]]
          /\ \A x \in Side : \A j \in Ids : channel_events'[x][j] \in {0, channel_events[x][j]}
      <3>1. channel_events \in [Side -> [Ids -> Opens \cup {0}]]
        BY EndNow DEF Types
      <3> QED BY <1>5, <2>1, <3>1
    <2>9. ASSUME NEW x \in Side, NEW q \in Opens
          PROVE  /\ chan'[x][q].id = chan[x][q].id
                 /\ chan'[x][q].remote = chan[x][q].remote \/ Knows(x, q)'
                 /\ Made(x, q)' <=> Made(x, q)
                 /\ chan'[x][q].st = "open" => chan[x][q].st = "open" \/ Knows(x, q)'
      <3>1. CASE x = s /\ q = n
        BY <1>4, <2>4, <2>5, <2>6, <3>1 DEF Made
      <3>2. CASE x # s \/ q # n
        BY <2>5, <3>2 DEF Made
      <3> QED BY <3>1, <3>2
    <2>10. Shrinks
      BY <1>2, <2>8, <2>9 DEF Shrinks, ShrinksAt
    <2>11. fired \subseteq Opens /\ fired' \subseteq Opens /\ FiresMade
      <3>1. fired \subseteq Opens
        BY EndNow DEF Types
      <3> QED BY <1>4, <1>6, <2>1, <3>1 DEF FiresMade
    <2>12. FiresOnly
      <3> SUFFICES ASSUME NEW t \in Threads, pc[t] \in {"send_open", "opening"},
                          cur[t] \in fired', cur[t] \notin fired
                   PROVE  Resolved(Home[t], cur[t])'
        BY DEF FiresOnly
      <3>1. cur[t] = n /\ channel_events[s][i] = n /\ n # 0 /\ pc[t] \in OpenPc
        BY <1>6, <2>1 DEF OpenPc
      <3>2. Home[t] = s
        BY <1>5, <3>1, EventOwner
      <3>3. cur'[t] = n
        BY <1>2, <3>1
      <3> HIDE DEF n
      <3> QED BY <2>6, <3>2, <3>3 DEF Resolved, Knows, Made
    <2>13. channels' \in [Side -> [Ids -> Opens \cup {0}]] /\ active' \in [Side -> BOOLEAN]
      BY <1>2, EndNow DEF Types
    <2> QED BY <1>2, <1>3, <1>7, <1>8, <2>5, <2>7, <2>8, <2>10, <2>11, <2>12, <2>13,
               EndNow, QuietEnd
  <1> QED BY <1>6, <1>10, <1>11

-----------------------------------------------------------------------------
(* Steps that give a channel number *)

\* The packets stay right in every step that sends none.
LEMMA PacketsStay ==
    ASSUME SessionInv, Grows, \A t \in Threads : Onward(t), wire' = wire \/ Reading,
           NEW s \in Side
    PROVE  /\ WireOK(s)'
           /\ \A r \in Opens : Promised(s, r) => Promised(s, r)' \/ Settled(s, r)'
  <1>1. Types /\ wire \in [Side -> Seq(Msg)] /\ wire[s] \in Seq(Msg) /\ WireOK(s)
    BY EndNow
  <1>2. CASE wire'[s] = wire[s]
    BY <1>1, <1>2, WireSame
  <1>3. CASE Reading /\ wire'[s] # wire[s]
    <2>1. PICK m \in Msg : /\ m = Head(wire[s])
                           /\ m.type = "open_success" => Settled(s, m.num)'
                           /\ wire[s] # <<>> /\ wire'[s] = Tail(wire[s])
      BY <1>1, <1>3 DEF Reading
    <2> QED BY <1>1, <2>1, WireTaken
  <1> QED BY <1>2, <1>3

\* A call that is to take a number of s takes the counter's, and the counter
\* does not come round.
LEMMA NextNumber ==
    ASSUME SessionInv, NEW s \in Side, NEW r \in Opens, Coming(s, r)
    PROVE  /\ NextChannel(s) = channel_counter[s]
           /\ channel_counter[s] \in Ids /\ channels[s][channel_counter[s]] = 0
           /\ channel_counter[s] + 1 <= MaxOpens
           /\ (channel_counter[s] + 1) % ChannelNumbers = channel_counter[s] + 1
           /\ r <= opens /\ ~Made(s, r) /\ ~(pc[s] \in Answering /\ cur[s] = r)
  <1> DEFINE n == channel_counter[s]
             Old == {q \in Opens : Coming(s, q)}
  <1>1. /\ CountOK(s) /\ TablesOK(s) /\ n \in Nat /\ opens \in Nat /\ opens <= MaxOpens
        /\ channels \in [Side -> [Ids -> Opens \cup {0}]]
    BY NumberFacts DEF SessionInv, Types
  <1>2. r \in Old /\ IsFiniteSet(Old)
    BY FS_Subset, OpensFinite
  <1>3. Cardinality(Old) \in Nat /\ Cardinality(Old) # 0
    BY <1>2, FS_CardinalityType, FS_EmptySet
  <1>4. n + Cardinality(Old) <= opens
    BY <1>1 DEF CountOK
  <1>5. r <= opens /\ ~Made(s, r) /\ ~(pc[s] \in Answering /\ cur[s] = r)
    BY <1>1 DEF CountOK
  <1> HIDE DEF Old
  <1>6. n + 1 <= MaxOpens /\ n + 1 \in Nat /\ n + 1 < ChannelNumbers /\ n < ChannelNumbers
    BY <1>1, <1>3, <1>4, NumberFacts
  <1>7. n \in Ids
    BY <1>1, <1>6, NumberFacts DEF Ids
  <1>8. channels[s][n] = 0
    <2> SUFFICES ASSUME channels[s][n] # 0
                 PROVE  FALSE
      OBVIOUS
    <2>1. channels[s][n] \in Opens /\ Made(s, channels[s][n]) /\ chan[s][channels[s][n]].id = n
      BY <1>1, <1>7 DEF TablesOK, Names
    <2>2. chan[s][channels[s][n]].id < n
      BY <1>1, <2>1 DEF TablesOK, Numbered
    <2> QED BY <1>1, <2>1, <2>2
  <1>9. NextChannel(s) = n
    BY <1>1, <1>6, <1>8, NextIsCounter
  <1>10. (n + 1) % ChannelNumbers = n + 1
    BY <1>6, NumberFacts, ModSmall
  <1> QED BY <1>5, <1>6, <1>7, <1>8, <1>9, <1>10

\* The call takes the number, or is refused one: one call less is to come.
LEMMA CountTaken ==
    ASSUME SessionInv, NEW s \in Side, NEW r \in Opens, Coming(s, r), ~Coming(s, r)',
           \A q \in Opens : Coming(s, q)' => Coming(s, q),
           channel_counter'[s] \in {channel_counter[s], channel_counter[s] + 1},
           UNCHANGED opens,
           \A q \in Opens :
              Coming(s, q)' => ~Made(s, q)' /\ ~(pc'[s] \in Answering /\ cur'[s] = q)
    PROVE  CountOK(s)'
  <1> DEFINE n == channel_counter[s]
             Old == {q \in Opens : Coming(s, q)}
             New == {q \in Opens : Coming(s, q)'}
  <1>1. CountOK(s) /\ n \in Nat /\ opens \in Nat
    BY DEF SessionInv, Types
  <1>2. r \in Old /\ IsFiniteSet(Old)
    BY FS_Subset, OpensFinite
  <1>3. New \subseteq Old \ {r}
    OBVIOUS
  <1>4. n + Cardinality(Old) <= opens
    BY <1>1 DEF CountOK
  <1>5. \A q \in Opens : Coming(s, q)' => q <= opens'
    BY <1>1 DEF CountOK
  <1> HIDE DEF Old, New
  <1>6. IsFiniteSet(Old \ {r}) /\ Cardinality(Old \ {r}) = Cardinality(Old) - 1
    BY <1>2, FS_RemoveElement
  <1>7. /\ Cardinality(New) <= Cardinality(Old \ {r})
        /\ Cardinality(New) \in Nat /\ Cardinality(Old) \in Nat
    BY <1>2, <1>3, <1>6, FS_Subset, FS_CardinalityType
  <1>8. channel_counter'[s] + Cardinality(New) <= opens'
    BY <1>1, <1>4, <1>6, <1>7
  <1> QED BY <1>5, <1>8 DEF CountOK, New

\* The events that are set belong to calls that have an object.
LEMMA FiredStays ==
    ASSUME SessionInv, Grows, UNCHANGED fired
    PROVE  FiredOK'
  <1>1. \A r \in fired : r \in Opens
    BY DEF SessionInv, Types
  <1> QED BY <1>1 DEF SessionInv, FiredOK, Grows

\* Every number of a call that either end has heard of is a call's that began.
LEMMA Begun ==
    ASSUME SessionInv, NEW s \in Side
    PROVE  /\ opens \in Nat /\ opens <= MaxOpens
           /\ \A r \in Opens : Made(s, r) => r <= opens
           /\ pc[s] \in Answering => cur[s] \in Opens /\ cur[s] <= opens
           /\ \A i \in Ids : channel_events[s][i] <= opens
           /\ \A t \in Threads : pc[t] \in OpenPc => cur[t] \in 1 .. opens
  <1>1. /\ opens \in Nat /\ opens <= MaxOpens /\ Peer(s) \in Side
        /\ \A i \in Ids : channel_events[s][i] \in Opens \cup {0}
    BY NumberFacts, SideFacts DEF SessionInv, Types
  <1>2. \A x \in Side : \A r \in Opens : Made(x, r) => r <= opens
    BY DEF SessionInv, TablesOK, Numbered
  <1>3. pc[s] \in Answering => cur[s] \in Opens /\ cur[s] <= opens
    BY <1>1, <1>2 DEF SessionInv, EndHolds, Knows
  <1>4. \A i \in Ids : channel_events[s][i] <= opens
    BY <1>1, <1>2 DEF SessionInv, TablesOK, Names
  <1>5. \A t \in Threads : pc[t] \in OpenPc => cur[t] \in 1 .. opens
    BY DEF SessionInv, CallOK
  <1> QED BY <1>1, <1>2, <1>3, <1>4, <1>5

\* open_channel begins: the call has a number that nobody has heard of.
LEMMA Opening ==
    ASSUME SessionInv, NEW t \in Threads, OpenChannel(t)
    PROVE  SessionInv'
  <1> DEFINE n == opens + 1
  <1>1. UNCHANGED <<scenario, wire, active, tables, channel_events, fired, server_accepts, asks, own>>
    BY DEF OpenChannel, waiting, global
  <1>2. /\ opens < scenario.opens /\ opens' = n /\ cur' = [cur EXCEPT ![t] = n]
        /\ Goto(t, "register")
    BY DEF OpenChannel
  <1>3. Types /\ scenario.opens \in 0 .. MaxOpens /\ opens \in Nat /\ MaxOpens \in Nat
    BY SessionAssumption, NumberFacts DEF SessionInv, Types, Scenario
  <1>4. n \in Opens /\ n \in Nat /\ opens' \in 0 .. MaxOpens /\ n # 0
    BY <1>2, <1>3 DEF Opens
  <1>5. "register" \in Pc /\ "register" \in OpenPc /\ "register" \notin RequestPc
    BY DEF Pc, OpenPc, RequestPc
  <1>6. /\ Elsewhere(t) /\ pc'[t] = "register" /\ pc' \in [Procs -> Pc]
        /\ cur' \in [Procs -> Nat] /\ cur'[t] = n
    <2>1. t \in Procs /\ cur \in [Procs -> Nat]
      BY <1>3, ProcFacts DEF Types
    <2>2. Elsewhere(t) /\ pc'[t] = "register" /\ pc' \in [Procs -> Pc] /\ cur' \in [Procs -> Nat]
      BY <1>1, <1>2, <1>3, <1>4, <1>5, <2>1, Goes
    <2> QED BY <1>2, <2>1, <2>2
  <1>7. Types'
    BY <1>1, <1>3, <1>4, <1>6 DEF Types, tables
  <1>8. Shrinks
    BY <1>1, <1>2 DEF Shrinks, ShrinksAt, tables, Made
  <1>9. Grows
    BY <1>3, <1>8, ShrinksGrow
  <1>10. \A u \in Threads : u # t =>
            /\ own'[u] # 0 => Addressable(Home[u], own'[u])
            /\ pc'[u] = "send_close" => Addressable(Home[u], cur'[u])
            /\ pc'[u] \in RequestPc => own'[u] # 0
            /\ NoNewCall(u)
    BY <1>6, ProcFacts, ThreadElsewhere
  <1>11. \A x \in Side :
            /\ pc'[x] \in {"send_close", "success", "failure"} => Addressable(x, cur'[x])
            /\ pc'[x] \in Answering \cup {"queue"} => cur'[x] \in Opens /\ Knows(x, cur'[x])
            /\ pc'[x] \in {"accept_open", "queue"} => Made(x, cur'[x])
            /\ NoNewAnswer(x) /\ StillAccepting(x)
    BY <1>6, ProcFacts, EndElsewhere
  <1>12. \A u \in Threads : Onward(u)
    BY <1>6, <1>10, GoesOn DEF Onward
  <1> HIDE DEF n
  <1>13. CallsDistinct'
    <2>1. \A u \in Threads : pc[u] \in OpenPc => cur[u] # n
      BY <1>3, Begun, SideFacts DEF n, Side
    <2>2. \A u \in Threads : u # t /\ pc'[u] \in OpenPc => pc[u] \in OpenPc /\ cur'[u] = cur[u]
      BY <1>10 DEF NoNewCall
    <2> QED BY <1>6, <2>1, <2>2 DEF SessionInv, CallsDistinct
  <1>14. ASSUME NEW x \in Side
         PROVE  /\ \A r \in Opens : Made(x, r) => r # n
                /\ ~(pc'[x] \in Answering /\ cur'[x] = n)
                /\ \A i \in Ids : channel_events'[x][i] # n
    <2>1. pc'[x] \in Answering => pc[x] \in Answering /\ cur'[x] = cur[x]
      BY <1>11 DEF NoNewAnswer
    <2>2. opens \in Nat /\ Opens \subseteq Nat /\ \A i \in Ids : channel_events[x][i] \in Nat
      BY <1>3, NumberFacts DEF Types
    <2> QED BY <1>1, <2>1, <2>2, Begun DEF n
  <1>15. ASSUME NEW u \in Threads
         PROVE  CallOK(u)'
    <2>1. Home[u] \in Side /\ Peer(Home[u]) \in Side
      BY ProcFacts, SideFacts
    <2>2. CASE u = t
      <3>1. cur'[u] \in 1 .. opens'
        BY <1>2, <1>3, <1>6, <2>2 DEF n
      <3>2. /\ \A i \in Ids : channel_events'[Peer(Home[u])][i] # cur'[u]
            /\ ~(pc'[Home[u]] \in Answering /\ cur'[Home[u]] = cur'[u])
        BY <1>6, <1>14, <2>1, <2>2
      <3> QED BY <1>6, <2>2, <3>1, <3>2 DEF CallOK
    <2>3. CASE u # t
      <3>1. NoNewCall(u) /\ FiresOnly /\ opens' \in {opens, opens + 1}
        BY <1>1, <1>2, <1>10, <2>3, FiredSame DEF n
      <3>2. CallOK(u)
        BY DEF SessionInv
      <3>3. pc[u] \in OpenPc =>
               /\ \A i \in Ids : channel_events'[Peer(Home[u])][i] # cur[u]
               /\ ~(pc'[Home[u]] \in Answering /\ cur'[Home[u]] = cur[u])
        BY <1>1, <1>11, <2>1, <3>2 DEF CallOK, NoNewAnswer
      <3> QED BY <1>9, <3>1, <3>3, CallKept
    <2> QED BY <2>2, <2>3
  <1>16. \A u \in Threads : ThreadHolds(u)'
    <2>1. t \in Threads /\ own'[t] # 0 => Addressable(Home[t], own'[t])
      BY <1>1, HeldNow
    <2> QED BY <1>5, <1>6, <1>9, <1>10, <1>11, <2>1, ProcFacts, AnswersApart, ThreadHoldsKept
  <1>17. ASSUME NEW x \in Side
         PROVE  EndHolds(x)' /\ TablesOK(x)' /\ WireOK(x)' /\ AnswerOK(x)'
    <2>1. ShrinksAt(x) /\ ShrinksAt(Peer(x)) /\ Peer(x) \in Side /\ Peer(Peer(x)) = x
      BY <1>8, SideFacts DEF Shrinks
    <2>2. TablesOK(x)'
      BY <1>3, <1>11, <2>1, TablesKept DEF SessionInv
    <2>3. EndHolds(x)'
      <3>1. \A i \in 1 .. Len(server_accepts'[x]) : Addressable(x, server_accepts'[x][i])
        BY <1>1, QueueSame DEF QueueFine
      <3> QED BY <1>9, <1>11, <2>1, <3>1, EndHoldsKept DEF ShrinksAt
    <2>4. WireOK(x)' /\ \A r \in Opens : Promised(x, r) => Promised(x, r)' \/ Settled(x, r)'
      BY <1>1, <1>9, <1>12, PacketsStay
    <2>5. AnswerOK(x)'
      <3>1. AnswerOK(x) /\ StillAccepting(Peer(x))
        BY <1>11, <2>1 DEF SessionInv
      <3>2. \A r \in Opens : Made(x, r)' /\ Made(Peer(x), r)' => Made(x, r) /\ Made(Peer(x), r)
        BY <2>1 DEF ShrinksAt
      <3> QED BY <1>3, <1>9, <2>1, <2>4, <3>1, <3>2, AnswerKept DEF StillAccepting
    <2> QED BY <2>2, <2>3, <2>4, <2>5
  <1>18. ASSUME NEW x \in Side
         PROVE  CountOK(x)'
    <2> DEFINE Old == {r \in Opens : Coming(x, r)}
               New == {r \in Opens : Coming(x, r)'}
    <2>1. CountOK(x) /\ channel_counter[x] \in Nat /\ channel_counter'[x] = channel_counter[x]
      BY <1>1, <1>3 DEF SessionInv, Types, tables
    <2>2. ASSUME NEW r \in Opens, Coming(x, r)', r # n
          PROVE  Coming(x, r)
      <3>1. CASE \E u \in Threads : /\ cur'[u] = r
                                    /\ \/ pc'[u] = "register"
                                       \/ pc'[u] = "send_open" /\ Home[u] = Peer(x)
        <4>1. PICK u \in Threads : /\ cur'[u] = r
                                   /\ \/ pc'[u] = "register"
                                      \/ pc'[u] = "send_open" /\ Home[u] = Peer(x)
          BY <3>1
        <4>2. u # t
          BY <1>6, <2>2, <4>1
        <4>3. pc[u] = pc'[u] /\ cur[u] = r
          BY <1>10, <4>1, <4>2 DEF NoNewCall, OpenPc
        <4> QED BY <4>1, <4>3 DEF Coming
      <3>2. CASE \E i \in 1 .. Len(wire'[x]) : wire'[x][i].type = "open" /\ wire'[x][i].num = r
        BY <1>1, <3>2 DEF Coming
      <3> QED BY <2>2, <3>1, <3>2 DEF Coming
    <2>3. New \subseteq Old \cup {n} /\ IsFiniteSet(Old)
      BY <2>2, FS_Subset, OpensFinite
    <2>4. channel_counter[x] + Cardinality(Old) <= opens
      BY <2>1 DEF CountOK
    <2>5. \A r \in Opens :
             Coming(x, r)' => r <= opens' /\ ~Made(x, r)' /\ ~(pc'[x] \in Answering /\ cur'[x] = r)
      <3> SUFFICES ASSUME NEW r \in Opens, Coming(x, r)'
                   PROVE  r <= opens' /\ ~Made(x, r)' /\ ~(pc'[x] \in Answering /\ cur'[x] = r)
        OBVIOUS
      <3>1. Made(x, r)' => Made(x, r)
        BY <1>8 DEF Shrinks, ShrinksAt
      <3>2. CASE r = n
        BY <1>2, <1>4, <1>14, <3>1, <3>2
      <3>3. CASE r # n
        <4>1. r <= opens /\ ~Made(x, r) /\ ~(pc[x] \in Answering /\ cur[x] = r)
          BY <2>1, <2>2, <3>3 DEF CountOK
        <4>2. r <= opens'
          BY <1>2, <1>3, <4>1, NumberFacts DEF n
        <4> QED BY <1>11, <3>1, <4>1, <4>2 DEF NoNewAnswer
      <3> QED BY <3>2, <3>3
    <2> HIDE DEF Old, New
    <2>6. /\ Cardinality(Old \cup {n}) <= Cardinality(Old) + 1 /\ IsFiniteSet(Old \cup {n})
          /\ Cardinality(Old \cup {n}) \in Nat /\ Cardinality(Old) \in Nat
      <3>1. /\ IsFiniteSet(Old \cup {n}) /\ Cardinality(Old) \in Nat
            /\ \/ Cardinality(Old \cup {n}) = Cardinality(Old)
               \/ Cardinality(Old \cup {n}) = Cardinality(Old) + 1
        BY <2>3, FS_AddElement, FS_CardinalityType
      <3> QED BY <3>1
    <2>7. Cardinality(New) <= Cardinality(Old \cup {n}) /\ Cardinality(New) \in Nat
      BY <2>3, <2>6, FS_Subset, FS_CardinalityType
    <2>8. channel_counter'[x] + Cardinality(New) <= opens'
      BY <1>2, <1>3, <2>1, <2>4, <2>6, <2>7 DEF n
    <2> QED BY <2>5, <2>8 DEF CountOK, New
  <1>19. FiredOK'
    BY <1>1, <1>9, FiredStays
  <1> QED BY <1>7, <1>13, <1>15, <1>16, <1>17, <1>18, <1>19 DEF SessionInv

\* The object c of open call r is entered at end s.
Entered(s, r, c) ==
    /\ chan' = [chan EXCEPT ![s][r] = c]
    /\ \A x \in Side : \A i \in Ids :
          \/ channels'[x][i] = channels[x][i]
          \/ x = s /\ i = c.id /\ channels'[x][i] = r /\ c.st # "none"
    /\ \A x \in Side : \A i \in Ids :
          \/ channel_events'[x][i] = channel_events[x][i]
          \/ x = s /\ i = c.id /\ channel_events'[x][i] = r /\ c.st # "none"
    /\ channel_counter'[s] \in {channel_counter[s], channel_counter[s] + 1}
    /\ channels_seen[s] \subseteq channels_seen'[s]
    /\ c.st # "none" => c.id \in channels_seen'[s]
    /\ \A x \in Side : x # s => /\ channel_counter'[x] = channel_counter[x]
                                /\ channels_seen'[x] = channels_seen[x]
    /\ UNCHANGED <<active, opens, fired>>
    /\ \A q \in Opens : q # r /\ Numbered(s, q)' => Numbered(s, q)
    /\ Numbered(s, r)' => /\ c.id < channel_counter'[s]
                          /\ \A q \in Opens : q # r /\ Numbered(s, q) => chan[s][q].id # c.id

\* Nothing else changes, and the tables stay right.
LEMMA EnteredFacts ==
    ASSUME SessionInv, NEW s \in Side, NEW r \in Opens, NEW c \in Object, Entered(s, r, c),
           ~Made(s, r), r <= opens, Knows(s, r) => Knows(s, r)'
    PROVE  /\ Grows /\ TablesOK(s)' /\ ShrinksAt(Peer(s)) /\ FiredOK'
           /\ chan' \in [Side -> [Opens -> Object]] /\ chan'[s][r] = c
           /\ \A x \in Side : \A q \in Opens : x # s \/ q # r => chan'[x][q] = chan[x][q]
  <1>1. chan \in [Side -> [Opens -> Object]] /\ Types /\ TablesOK(s)
    BY EndNow DEF Types
  <1>2. /\ chan' \in [Side -> [Opens -> Object]] /\ chan'[s][r] = c
        /\ \A x \in Side : \A q \in Opens : x # s \/ q # r => chan'[x][q] = chan[x][q]
    BY <1>1 DEF Entered
  <1>3. Peer(s) \in Side /\ Peer(s) # s /\ Peer(Peer(s)) = s /\ \A x \in Side : x = s \/ x = Peer(s)
    BY SideFacts
  <1>4. \A q \in Opens : Made(s, q) => q # r /\ Numbered(s, q)
    BY DEF Numbered
  <1>5. \A x \in Side : \A q \in Opens : Made(x, q) => Made(x, q)' /\ chan'[x][q] = chan[x][q]
    BY <1>2 DEF Made
  <1>6. ASSUME NEW x \in Side, NEW q \in Opens, Knows(x, q)
        PROVE  Knows(x, q)'
    <2>1. CASE x = s /\ q = r
      BY <1>6, <2>1
    <2>2. CASE x # s \/ q # r
      BY <1>2, <1>3, <1>5, <1>6, <2>2 DEF Knows
    <2> QED BY <2>1, <2>2
  <1>7. ASSUME NEW x \in Side, NEW q \in Opens, Made(x, q), Unmapped(x, q)
        PROVE  Unmapped(x, q)'
    <2>1. chan[x][q].id \in Ids /\ chan'[x][q] = chan[x][q]
      BY <1>1, <1>5, <1>7 DEF Object
    <2>2. CASE channels'[x][chan[x][q].id] = channels[x][chan[x][q].id]
      BY <1>7, <2>1, <2>2 DEF Unmapped
    <2>3. CASE x = s /\ channels'[x][chan[x][q].id] = r
      BY <1>7, <2>1, <2>3 DEF Unmapped
    <2> QED BY <2>1, <2>2, <2>3 DEF Entered
  <1>8. Grows
    BY <1>5, <1>6, <1>7 DEF Grows, Entered
  <1>9. ShrinksAt(Peer(s))
    BY <1>2, <1>3 DEF ShrinksAt, Entered, Made
  <1>10. TablesOK(s)'
    <2>1. opens \in Nat /\ channel_counter[s] \in Nat /\ Opens \subseteq Nat /\ Ids \subseteq Nat
      BY <1>1, NumberFacts DEF Types
    <2>2. \A q \in Opens : q # r /\ Numbered(s, q)' => Numbered(s, q) /\ chan'[s][q] = chan[s][q]
      BY <1>2 DEF Entered
    <2>3. \A q \in Opens : chan[s][q].id \in Nat
      BY <1>1, <2>1 DEF Object
    <2>4. ASSUME NEW q \in Opens, Numbered(s, q)'
          PROVE  q <= opens' /\ chan'[s][q].id < channel_counter'[s]
      <3>1. CASE q = r
        BY <1>2, <2>4, <3>1 DEF Entered
      <3>2. CASE q # r
        <4>1. q <= opens /\ chan[s][q].id < channel_counter[s] /\ chan'[s][q] = chan[s][q]
          BY <1>1, <2>2, <2>4, <3>2 DEF TablesOK
        <4> QED BY <2>1, <2>3, <4>1 DEF Entered
      <3> QED BY <3>1, <3>2
    <2>5. ASSUME NEW q \in Opens, NEW k \in Opens, Numbered(s, q)', Numbered(s, k)', q # k
          PROVE  chan'[s][q].id # chan'[s][k].id
      <3>1. CASE q = r
        BY <1>2, <2>2, <2>5, <3>1 DEF Entered
      <3>2. CASE k = r
        BY <1>2, <2>2, <2>5, <3>2 DEF Entered
      <3>3. CASE q # r /\ k # r
        BY <1>1, <2>2, <2>5, <3>3 DEF TablesOK
      <3> QED BY <3>1, <3>2, <3>3
    <2>6. ASSUME NEW q \in Opens, Made(s, q)'
          PROVE  chan'[s][q].id \in channels_seen'[s]
      <3>1. CASE q = r
        BY <1>2, <2>6, <3>1 DEF Entered, Made
      <3>2. CASE q # r
        BY <1>1, <1>2, <2>6, <3>2 DEF Entered, Made, TablesOK
      <3> QED BY <3>1, <3>2
    <2>7. Names(s, channels[s])'
      <3> SUFFICES ASSUME NEW i \in Ids, channels'[s][i] # 0
                   PROVE  chan'[s][channels'[s][i]].st # "none" /\ chan'[s][channels'[s][i]].id = i
        BY DEF Names, Made
      <3>1. CASE channels'[s][i] = channels[s][i]
        <4>1. channels[s][i] \in Opens /\ Made(s, channels[s][i]) /\ chan[s][channels[s][i]].id = i
          BY <1>1, <3>1 DEF TablesOK, Names, Types
        <4> QED BY <1>5, <3>1, <4>1 DEF Made
      <3>2. CASE i = c.id /\ channels'[s][i] = r /\ c.st # "none"
        BY <1>2, <3>2
      <3> QED BY <3>1, <3>2 DEF Entered
    <2>8. Names(s, channel_events[s])'
      <3> SUFFICES ASSUME NEW i \in Ids, channel_events'[s][i] # 0
                   PROVE  /\ chan'[s][channel_events'[s][i]].st # "none"
                          /\ chan'[s][channel_events'[s][i]].id = i
        BY DEF Names, Made
      <3>1. CASE channel_events'[s][i] = channel_events[s][i]
        <4>1. /\ channel_events[s][i] \in Opens /\ Made(s, channel_events[s][i])
              /\ chan[s][channel_events[s][i]].id = i
          BY <1>1, <3>1 DEF TablesOK, Names, Types
        <4> QED BY <1>5, <3>1, <4>1 DEF Made
      <3>2. CASE i = c.id /\ channel_events'[s][i] = r /\ c.st # "none"
        BY <1>2, <3>2
      <3> QED BY <3>1, <3>2 DEF Entered
    <2> QED BY <2>4, <2>5, <2>6, <2>7, <2>8 DEF TablesOK
  <1>11. FiredOK'
    BY <1>8, FiredStays DEF Entered
  <1> QED BY <1>2, <1>8, <1>9, <1>10, <1>11

\* A fresh Channel object has the numbers and the state it was made with.
LEMMA NewChannelFacts ==
    ASSUME NEW i \in Ids, NEW j \in Ids, NEW l \in ChannelState
    PROVE  /\ NewChannel(i, j, l) \in Object /\ NewChannel(i, j, l).id = i
           /\ NewChannel(i, j, l).remote = j /\ NewChannel(i, j, l).st = l
  BY DEF NewChannel, Object

\* open_channel takes the lock: the call gets its number, object and event.
LEMMA Registering ==
    ASSUME SessionInv, NEW t \in Threads, Register(t)
    PROVE  SessionInv'
  <1> DEFINE s == Home[t]
             p == Peer(s)
             r == cur[t]
             n == channel_counter[s]
             c == NewChannel(n, 0, "opening")
  <1>1. UNCHANGED <<scenario, wire, active, fired, server_accepts, asks, cur, own, opens>>
    BY DEF Register, global
  <1>2. /\ s \in Side /\ p \in Side /\ p # s /\ Peer(p) = s /\ t \in Procs
        /\ \A x \in Side : x = s \/ x = p
    BY ProcFacts, SideFacts
  <1>3. pc[t] = "register" /\ "register" \in OpenPc /\ Goto(t, "send_open")
    BY DEF Register, OpenPc
  <1>4. CallOK(t) /\ r \in 1 .. opens /\ r \in Opens
    <2>1. CallOK(t) /\ r \in 1 .. opens /\ opens \in 0 .. MaxOpens
      BY <1>3, HeldNow DEF CallOK, Types
    <2> QED BY <2>1, NumberFacts
  <1>5. Coming(s, r) /\ Coming(p, r)
    BY <1>3 DEF Coming
  <1>6. /\ NextChannel(s) = n /\ n \in Ids /\ channels[s][n] = 0 /\ (n + 1) % ChannelNumbers = n + 1
        /\ r <= opens /\ ~Made(s, r) /\ ~(pc[s] \in Answering /\ cur[s] = r) /\ ~Made(p, r)
    BY <1>2, <1>4, <1>5, NextNumber
  <1>7. /\ channel_counter' = [channel_counter EXCEPT ![s] = n + 1]
        /\ chan' = [chan EXCEPT ![s][r] = c]
        /\ channels' = [channels EXCEPT ![s][n] = r]
        /\ channels_seen' = [channels_seen EXCEPT ![s] = @ \cup {n}]
        /\ channel_events' = [channel_events EXCEPT ![s][n] = r]
    BY <1>6 DEF Register
  <1>8. c \in Object /\ c.id = n /\ c.st = "opening"
    BY <1>6, NumberFacts, NewChannelFacts DEF ChannelState
  <1>9. "send_open" \in Pc /\ "send_open" \in OpenPc /\ "send_open" \notin RequestPc
    BY DEF Pc, OpenPc, RequestPc
  <1>10. /\ Elsewhere(t) /\ pc'[t] = "send_open" /\ pc' \in [Procs -> Pc]
         /\ cur' \in [Procs -> Nat]
    BY <1>1, <1>2, <1>3, <1>9, Goes, HeldNow
  <1>11. /\ Types /\ n \in Nat /\ channel_counter \in [Side -> Nat]
         /\ channels \in [Side -> [Ids -> Opens \cup {0}]]
         /\ channel_events \in [Side -> [Ids -> Opens \cup {0}]]
         /\ channels_seen \in [Side -> SUBSET Ids] /\ chan \in [Side -> [Opens -> Object]]
    BY <1>2, HeldNow DEF Types
  <1>12. \A u \in Threads : u # t =>
            /\ own'[u] # 0 => Addressable(Home[u], own'[u])
            /\ pc'[u] = "send_close" => Addressable(Home[u], cur'[u])
            /\ pc'[u] \in RequestPc => own'[u] # 0
            /\ NoNewCall(u)
    BY <1>2, <1>10, ThreadElsewhere
  <1>13. \A x \in Side :
            /\ pc'[x] \in {"send_close", "success", "failure"} => Addressable(x, cur'[x])
            /\ pc'[x] \in Answering \cup {"queue"} => cur'[x] \in Opens /\ Knows(x, cur'[x])
            /\ pc'[x] \in {"accept_open", "queue"} => Made(x, cur'[x])
            /\ NoNewAnswer(x) /\ StillAccepting(x)
    BY <1>2, <1>10, ProcFacts, EndElsewhere
  <1> HIDE DEF c
  <1>14. Entered(s, r, c)
    <2>1. /\ \A x \in Side : \A i \in Ids :
                channels'[x][i] = channels[x][i] \/ (x = s /\ i = n /\ channels'[x][i] = r)
          /\ \A x \in Side : \A i \in Ids :
                \/ channel_events'[x][i] = channel_events[x][i]
                \/ (x = s /\ i = n /\ channel_events'[x][i] = r)
      BY <1>2, <1>6, <1>7, <1>11
    <2>2. /\ channel_counter'[s] = n + 1 /\ channels_seen'[s] = channels_seen[s] \cup {n}
          /\ \A x \in Side : x # s => /\ channel_counter'[x] = channel_counter[x]
                                      /\ channels_seen'[x] = channels_seen[x]
      BY <1>2, <1>7, <1>11
    <2>3. ASSUME NEW q \in Opens, q # r, Numbered(s, q)'
          PROVE  Numbered(s, q)
      <3>1. chan'[s][q] = chan[s][q]
        BY <1>2, <1>4, <1>7, <1>11, <2>3
      <3> QED BY <1>1, <1>2, <1>13, <2>3, <3>1 DEF Numbered, Made, NoNewAnswer, Answering
    <2>4. \A q \in Opens : Numbered(s, q) => chan[s][q].id # n
      <3>1. \A q \in Opens : Numbered(s, q) => chan[s][q].id < n
        BY <1>2 DEF SessionInv, TablesOK
      <3> QED BY <1>11, <3>1
    <2>5. n < n + 1
      BY <1>11
    <2> HIDE DEF n
    <2> QED BY <1>1, <1>7, <1>8, <2>1, <2>2, <2>3, <2>4, <2>5 DEF Entered, n
  <1>15. ~Knows(s, r)
    BY <1>6 DEF Knows
  <1>16. /\ Grows /\ TablesOK(s)' /\ ShrinksAt(p) /\ FiredOK'
         /\ chan' \in [Side -> [Opens -> Object]] /\ chan'[s][r] = c
         /\ \A x \in Side : \A q \in Opens : x # s \/ q # r => chan'[x][q] = chan[x][q]
    BY <1>2, <1>4, <1>6, <1>8, <1>14, <1>15, EnteredFacts
  <1>17. Types'
    <2>1. /\ channel_counter' \in [Side -> Nat]
          /\ channels' \in [Side -> [Ids -> Opens \cup {0}]]
          /\ channel_events' \in [Side -> [Ids -> Opens \cup {0}]]
          /\ channels_seen' \in [Side -> SUBSET Ids]
      BY <1>2, <1>4, <1>6, <1>7, <1>11
    <2> QED BY <1>1, <1>10, <1>11, <1>16, <2>1 DEF Types
  <1>18. /\ \A u \in Threads : Onward(u)
         /\ \A u \in Threads : u # t /\ pc[u] \in OpenPc => cur[u] # r
    <2>1. Onward(t)
      BY <1>1, <1>3 DEF Onward
    <2> QED BY <1>3, <1>12, <2>1, GoesOn DEF SessionInv, CallsDistinct
  <1>19. CallsDistinct'
    <2>1. \A u \in Threads : pc'[u] \in OpenPc => pc[u] \in OpenPc /\ cur'[u] = cur[u]
      BY <1>1, <1>3, <1>12 DEF NoNewCall
    <2> QED BY <2>1 DEF SessionInv, CallsDistinct
  <1>20. ASSUME NEW u \in Threads
         PROVE  CallOK(u)'
    <2>1. CASE u = t
      <3>1. r \notin fired
        BY <1>2, <1>6 DEF SessionInv, FiredOK
      <3>2. \A i \in Ids : channel_events'[p][i] # r
        BY <1>2, <1>3, <1>4, <1>14 DEF CallOK, Entered
      <3>3. ~(pc'[s] \in Answering /\ cur'[s] = r)
        BY <1>2, <1>6, <1>13 DEF NoNewAnswer
      <3>4. chan'[s][r].st # "none"
        BY <1>8, <1>16
      <3>5. cur'[t] = r
        BY <1>1
      <3> HIDE DEF s, p, r
      <3> QED BY <1>1, <1>4, <1>10, <2>1, <3>1, <3>2, <3>3, <3>4, <3>5 DEF CallOK, Made, s, p
    <2>2. CASE u # t
      <3>1. NoNewCall(u) /\ FiresOnly /\ opens' \in {opens, opens + 1}
        BY <1>1, <1>12, <2>2, FiredSame
      <3>2. CallOK(u) /\ Home[u] \in Side /\ Peer(Home[u]) \in Side
        BY ProcFacts, SideFacts DEF SessionInv
      <3>3. pc[u] \in OpenPc =>
               /\ \A i \in Ids : channel_events'[Peer(Home[u])][i] # cur[u]
               /\ ~(pc'[Home[u]] \in Answering /\ cur'[Home[u]] = cur[u])
        BY <1>13, <1>14, <1>18, <2>2, <3>2 DEF CallOK, NoNewAnswer, Entered
      <3> QED BY <1>16, <3>1, <3>3, CallKept
    <2> QED BY <2>1, <2>2
  <1>21. \A u \in Threads : ThreadHolds(u)'
    <2>1. own'[t] # 0 => Addressable(Home[t], own'[t])
      BY <1>1, HeldNow
    <2> QED BY <1>9, <1>10, <1>12, <1>13, <1>16, <2>1, ProcFacts, AnswersApart, ThreadHoldsKept
  <1>22. ASSUME NEW x \in Side
         PROVE  EndHolds(x)' /\ WireOK(x)' /\ AnswerOK(x)'
    <2>1. \A i \in 1 .. Len(server_accepts'[x]) : Addressable(x, server_accepts'[x][i])
      BY <1>1, QueueSame DEF QueueFine
    <2>2. \A q \in Opens : chan'[x][q].st = "open" => chan[x][q].st = "open"
      BY <1>8, <1>16
    <2>3. \A q \in Opens : x # s \/ q # r => (Made(x, q)' <=> Made(x, q))
      BY <1>16 DEF Made
    <2>4. pc[x] = "decide" => \A q \in Opens : cur[x] = q /\ ~Made(x, q) => ~Made(x, q)'
      BY <1>6, <2>3 DEF Answering
    <2>5. EndHolds(x)'
      BY <1>13, <1>16, <2>1, <2>2, <2>4, EndHoldsKept
    <2>6. WireOK(x)' /\ \A q \in Opens : Promised(x, q) => Promised(x, q)' \/ Settled(x, q)'
      BY <1>1, <1>16, <1>18, PacketsStay
    <2>7. AnswerOK(x)'
      <3>1. AnswerOK(x) /\ Peer(x) \in Side /\ Peer(Peer(x)) = x /\ StillAccepting(Peer(x))
        BY <1>13, SideFacts DEF SessionInv
      <3>2. chan'[p][r].st = "none"
        BY <1>2, <1>4, <1>6, <1>16 DEF Made
      <3>3. \A q \in Opens : Made(x, q)' /\ Made(Peer(x), q)' => Made(x, q) /\ Made(Peer(x), q)
        <4>1. ASSUME NEW q \in Opens, Made(x, q)', Made(Peer(x), q)'
              PROVE  q # r
          BY <1>2, <3>2, <4>1 DEF Made
        <4> QED BY <1>16, <3>1, <4>1 DEF Made
      <3> QED BY <1>11, <1>16, <2>6, <3>1, <3>3, AnswerKept DEF StillAccepting
    <2> QED BY <2>5, <2>6, <2>7
  <1>23. TablesOK(p)'
    BY <1>2, <1>11, <1>13, <1>16, TablesKept DEF SessionInv
  <1>24. \A u \in Threads : pc'[u] \in {"register", "send_open"} =>
            cur'[u] = cur[u] /\ (pc[u] = pc'[u] \/ (u = t /\ pc[u] = "register"))
    <2>1. {"register", "send_open"} \subseteq OpenPc
      BY DEF OpenPc
    <2> QED BY <1>1, <1>3, <1>10, <1>12, <2>1 DEF NoNewCall
  <1>25. \A x \in Side : \A q \in Opens : Coming(x, q)' => Coming(x, q)
    <2> SUFFICES ASSUME NEW x \in Side, NEW q \in Opens, Coming(x, q)'
                 PROVE  Coming(x, q)
      OBVIOUS
    <2> QED BY <1>1, <1>24 DEF Coming
  <1>26. ~Coming(s, r)'
    <2> SUFFICES ASSUME Coming(s, r)'
                 PROVE  FALSE
      OBVIOUS
    <2>1. ASSUME NEW u \in Threads, cur'[u] = r,
                 pc'[u] = "register" \/ (pc'[u] = "send_open" /\ Home[u] = p)
          PROVE  FALSE
      <3>1. u # t
        BY <1>2, <1>10, <2>1
      <3>2. cur[u] = r /\ pc[u] \in OpenPc
        BY <1>24, <2>1, <3>1 DEF OpenPc
      <3> QED BY <1>18, <3>1, <3>2
    <2>2. ASSUME NEW i \in 1 .. Len(wire[s]), wire[s][i].type = "open", wire[s][i].num = r
          PROVE  FALSE
      <3>1. PacketOK(s, wire[s][i])
        BY <1>2 DEF SessionInv, WireOK
      <3> QED BY <1>3, <2>2, <3>1 DEF PacketOK
    <2>3. cur'[t] = r
      BY <1>1
    <2> HIDE DEF r, s, p
    <2> QED BY <1>1, <2>1, <2>2, <2>3 DEF Coming, r, p
  <1>27. CountOK(p)'
    BY <1>2, <1>11, <1>13, <1>16, <1>25, CountKept DEF SessionInv
  <1>28. CountOK(s)'
    <2>1. channel_counter'[s] = n + 1
      BY <1>2, <1>7, <1>11
    <2>2. ASSUME NEW q \in Opens, Coming(s, q)'
          PROVE  ~Made(s, q)' /\ ~(pc'[s] \in Answering /\ cur'[s] = q)
      <3>1. q # r /\ Coming(s, q)
        BY <1>1, <1>2, <1>25, <1>26, <2>2
      <3>2. ~Made(s, q) /\ ~(pc[s] \in Answering /\ cur[s] = q)
        BY <1>2, <3>1, NextNumber
      <3> QED BY <1>2, <1>13, <1>16, <3>1, <3>2 DEF Made, NoNewAnswer
    <2>3. \A q \in Opens : Coming(s, q)' => Coming(s, q)
      BY <1>2, <1>25
    <2>4. ~Coming(s, r)'
      BY <1>26
    <2>5. PICK k \in Opens : k = r /\ Coming(s, k) /\ ~Coming(s, k)'
      BY <1>1, <1>4, <1>5, <2>4
    <2> QED BY <1>1, <1>2, <2>1, <2>2, <2>3, <2>5, CountTaken
  <1>29. \A x \in Side : TablesOK(x)' /\ CountOK(x)'
    BY <1>2, <1>16, <1>23, <1>27, <1>28
  <1> QED BY <1>16, <1>17, <1>19, <1>20, <1>21, <1>22, <1>29 DEF SessionInv

\* The transport thread of s has taken up the OPEN of call r.
LEMMA EndAnswers ==
    ASSUME SessionInv, Grows, NEW s \in Side, AnswerApart(s), UNCHANGED server_accepts,
           pc'[s] \in Answering, NEW r \in Opens, cur'[s] = r, Knows(s, r)',
           pc'[s] = "accept_open" => Made(s, r)',
           pc'[s] = "decide" => ~Made(s, r)',
           \A q \in Opens : chan'[s][q].st = "open" => chan[s][q].st = "open" \/ Knows(s, q)'
    PROVE  EndHolds(s)'
  <1>1. \A i \in 1 .. Len(server_accepts'[s]) : Addressable(s, server_accepts[s][i])'
    BY QueueSame, QueueKept DEF QueueFine
  <1>2. \A q \in Opens : chan'[s][q].st = "open" => Knows(s, q)'
    BY DEF Grows, SessionInv, EndHolds
  <1>3. pc'[s] \notin {"send_close", "success", "failure", "queue"}
    BY DEF Answering
  <1> QED BY <1>1, <1>2, <1>3 DEF EndHolds, Knows, Made

\* The transport thread takes up an OPEN: nobody else has numbered it.
LEMMA ReadsOpen ==
    ASSUME SessionInv, NEW s \in Side, ReadOpen(s)
    PROVE  SessionInv'
  <1> DEFINE p == Peer(s)
  <1>1. PICK m : m = Head(wire[s])
    OBVIOUS
  <1>2. PICK r : r = m.num
    OBVIOUS
  <1>3. PICK n : n = channel_counter[s]
    OBVIOUS
  <1>4. UNCHANGED <<scenario, active, channels, channels_seen, channel_events, fired,
                    server_accepts, asks, own, opens>>
    BY DEF ReadOpen, waiting, global
  <1>5. /\ Reads(s, "open") /\ cur' = [cur EXCEPT ![s] = r]
    BY <1>1, <1>2 DEF ReadOpen
  <1>6. /\ wire' \in [Side -> Seq(Msg)] /\ wire'[s] = Tail(wire[s]) /\ wire'[p] = wire[p] /\ Reading
        /\ Len(wire[s]) \in Nat /\ 1 \in 1 .. Len(wire[s]) /\ m = wire[s][1] /\ m \in Msg
        /\ m.type = "open" /\ pc[s] = "idle" /\ PacketOK(s, m)
    BY <1>1, <1>5, ReadsFacts, SideFacts
  <1>7. /\ p \in Side /\ p # s /\ Peer(p) = s /\ s \in Procs /\ (\A x \in Side : x = s \/ x = p)
        /\ wire[s] \in Seq(Msg)
    BY ProcFacts, SideFacts, EndNow
  <1>8. /\ r \in Opens /\ r \in Nat /\ Made(p, r) /\ chan[p][r].id = m.from
        /\ \A t \in Threads :
              pc[t] \in OpenPc /\ cur[t] = r => Home[t] = p /\ pc[t] \notin {"register", "send_open"}
    BY <1>2, <1>6, NumberFacts DEF PacketOK
  <1>9. Coming(s, r)
    BY <1>2, <1>6 DEF Coming
  <1>10. /\ NextChannel(s) = n /\ n \in Ids /\ (n + 1) % ChannelNumbers = n + 1
         /\ r <= opens /\ ~Made(s, r)
    BY <1>3, <1>8, <1>9, NextNumber
  <1>11. m.from \in Ids /\ 0 \in Ids
    BY <1>6, NumberFacts DEF Msg
  <1>12. PICK i \in Ids, l \in {"decide", "refuse_open"} :
            /\ chan' = [chan EXCEPT ![s][r] = NewChannel(i, m.from, "none")]
            /\ Goto(s, l)
            /\ \/ l = "decide" /\ i = n /\ channel_counter' = [channel_counter EXCEPT ![s] = n + 1]
               \/ l = "refuse_open" /\ UNCHANGED channel_counter
    BY <1>1, <1>2, <1>10, <1>11 DEF ReadOpen
  <1> DEFINE c == NewChannel(i, m.from, "none")
  <1>13. c \in Object /\ c.id = i /\ c.remote = m.from /\ c.st = "none"
    BY <1>11, NewChannelFacts DEF ChannelState
  <1> HIDE DEF c
  <1>14. l \in Pc /\ l \in Answering
    BY DEF Pc, Answering
  <1>15. /\ Elsewhere(s) /\ pc'[s] = l /\ pc' \in [Procs -> Pc] /\ cur' \in [Procs -> Nat]
         /\ cur'[s] = r
    <2>1. cur \in [Procs -> Nat] /\ Types
      BY EndNow DEF Types
    <2>2. Elsewhere(s) /\ pc'[s] = l /\ pc' \in [Procs -> Pc] /\ cur' \in [Procs -> Nat]
      BY <1>4, <1>5, <1>7, <1>8, <1>12, <1>14, <2>1, Goes
    <2> QED BY <1>5, <1>7, <2>1, <2>2
  <1>16. /\ Types /\ n \in Nat /\ channel_counter \in [Side -> Nat]
         /\ chan \in [Side -> [Opens -> Object]]
    BY <1>3, EndNow DEF Types
  <1>17. \A u \in Threads :
            /\ own'[u] # 0 => Addressable(Home[u], own'[u])
            /\ pc'[u] = "send_close" => Addressable(Home[u], cur'[u])
            /\ pc'[u] \in RequestPc => own'[u] # 0
            /\ NoNewCall(u)
    BY <1>7, <1>15, ProcFacts, ThreadElsewhere
  <1>18. /\ pc'[p] \in {"send_close", "success", "failure"} => Addressable(p, cur'[p])
         /\ pc'[p] \in Answering \cup {"queue"} => cur'[p] \in Opens /\ Knows(p, cur'[p])
         /\ pc'[p] \in {"accept_open", "queue"} => Made(p, cur'[p])
         /\ NoNewAnswer(p) /\ StillAccepting(p)
    BY <1>7, <1>15, EndElsewhere
  <1>19. StillAccepting(s)
    BY <1>6 DEF StillAccepting
  <1>20. /\ chan' = [chan EXCEPT ![s][r] = c] /\ chan'[s][r] = c
         /\ \A x \in Side : \A q \in Opens : x # s \/ q # r => chan'[x][q] = chan[x][q]
    BY <1>8, <1>12, <1>16 DEF c
  <1>21. Knows(s, r)'
    BY <1>7, <1>8, <1>13, <1>20 DEF Knows, Made
  <1>22. /\ channel_counter' \in [Side -> Nat]
         /\ channel_counter'[s] = IF l = "decide" THEN n + 1 ELSE n
         /\ \A x \in Side : x # s => channel_counter'[x] = channel_counter[x]
    BY <1>3, <1>12, <1>16
  <1>23. Entered(s, r, c)
    <2>1. \A q \in Opens : q # r /\ Numbered(s, q)' => Numbered(s, q)
      BY <1>15, <1>20 DEF Numbered, Made
    <2>2. Numbered(s, r)' => l = "decide" /\ i = n
      BY <1>12, <1>13, <1>15, <1>20 DEF Numbered, Made
    <2>3. \A q \in Opens : Numbered(s, q) => chan[s][q].id # n
      <3>1. \A q \in Opens : Numbered(s, q) => chan[s][q].id < n
        BY <1>3 DEF SessionInv, TablesOK
      <3> QED BY <1>16, <3>1
    <2>4. n < n + 1 /\ channel_counter'[s] \in {channel_counter[s], channel_counter[s] + 1}
      BY <1>3, <1>16, <1>22
    <2>5. Numbered(s, r)' => c.id < channel_counter'[s]
      BY <1>13, <1>22, <2>2, <2>4
    <2> QED BY <1>4, <1>13, <1>20, <1>22, <2>1, <2>2, <2>3, <2>4, <2>5 DEF Entered
  <1>24. /\ Grows /\ TablesOK(s)' /\ ShrinksAt(p) /\ FiredOK'
         /\ chan' \in [Side -> [Opens -> Object]]
    BY <1>8, <1>10, <1>13, <1>21, <1>23, EnteredFacts
  <1>25. Types'
    BY <1>4, <1>6, <1>15, <1>16, <1>22, <1>24 DEF Types
  <1>26. AnswerApart(s) /\ AnswerApart(p)
    BY <1>7, <1>10, <1>15, <1>18, AnswersApart DEF AnswerApart
  <1>27. (\A u \in Threads : Onward(u)) /\ CallsDistinct'
    BY <1>17, GoesOn DEF SessionInv, CallsDistinct, NoNewCall
  <1>28. ASSUME NEW u \in Threads
         PROVE  CallOK(u)' /\ ThreadHolds(u)'
    <2>1. NoNewCall(u) /\ FiresOnly /\ opens' \in {opens, opens + 1}
      BY <1>4, <1>17, FiredSame
    <2>2. CallOK(u) /\ Home[u] \in Side
      BY ProcFacts DEF SessionInv
    <2>3. pc[u] \in OpenPc =>
             /\ \A j \in Ids : channel_events'[Peer(Home[u])][j] # cur[u]
             /\ ~(pc'[Home[u]] \in Answering /\ cur'[Home[u]] = cur[u])
      <3> SUFFICES ASSUME pc[u] \in OpenPc
                   PROVE  /\ \A j \in Ids : channel_events'[Peer(Home[u])][j] # cur[u]
                          /\ ~(pc'[Home[u]] \in Answering /\ cur'[Home[u]] = cur[u])
        OBVIOUS
      <3>1. \A j \in Ids : channel_events'[Peer(Home[u])][j] # cur[u]
        BY <1>4, <2>2 DEF CallOK
      <3>2. CASE Home[u] = s
        BY <1>7, <1>8, <1>15, <3>1, <3>2
      <3>3. CASE Home[u] = p
        BY <1>18, <2>2, <3>1, <3>3 DEF CallOK, NoNewAnswer
      <3> QED BY <1>7, <2>2, <3>2, <3>3
    <2>4. CallOK(u)'
      BY <1>24, <2>1, <2>3, CallKept
    <2>5. ThreadHolds(u)'
      BY <1>7, <1>17, <1>24, <1>26, <2>2, ThreadHoldsKept
    <2> QED BY <2>4, <2>5
  <1>29. EndHolds(p)'
    <2>1. \A j \in 1 .. Len(server_accepts'[p]) : Addressable(p, server_accepts'[p][j])
      BY <1>4, <1>7, QueueSame DEF QueueFine
    <2> QED BY <1>7, <1>18, <1>24, <2>1, EndHoldsKept DEF ShrinksAt
  <1>30. EndHolds(s)'
    <2>1. chan'[s][r].st = "none" /\ ~Made(s, r)'
      BY <1>13, <1>20 DEF Made
    <2>2. \A q \in Opens : chan'[s][q].st = "open" => chan[s][q].st = "open"
      BY <1>20, <2>1
    <2>3. l # "accept_open"
      OBVIOUS
    <2> QED BY <1>4, <1>8, <1>14, <1>15, <1>21, <1>24, <1>26, <2>1, <2>2, <2>3, EndAnswers
  <1>31. ASSUME NEW x \in Side
         PROVE  WireOK(x)' /\ AnswerOK(x)'
    <2>1. WireOK(x)' /\ \A q \in Opens : Promised(x, q) => Promised(x, q)' \/ Settled(x, q)'
      BY <1>6, <1>24, <1>27, PacketsStay
    <2>2. \A y \in Side : \A q \in Opens : Made(y, q)' => Made(y, q)
      BY <1>13, <1>20 DEF Made
    <2>3. AnswerOK(x) /\ Peer(x) \in Side /\ Peer(Peer(x)) = x /\ StillAccepting(Peer(x))
      BY <1>7, <1>18, <1>19, SideFacts DEF SessionInv
    <2>4. AnswerOK(x)'
      BY <1>16, <1>24, <2>1, <2>2, <2>3, AnswerKept DEF StillAccepting
    <2> QED BY <2>1, <2>4
  <1>32. TablesOK(p)'
    BY <1>7, <1>16, <1>18, <1>24, TablesKept DEF SessionInv
  <1>33. \A j \in 1 .. Len(wire'[s]) : j + 1 \in 1 .. Len(wire[s]) /\ wire'[s][j] = wire[s][j + 1]
    BY <1>6, <1>7
  <1>34. \A x \in Side : \A q \in Opens : Coming(x, q)' => Coming(x, q)
    <2>1. \A j \in 1 .. Len(wire'[s]) : wire'[s][j].type = "open" => Coming(s, wire'[s][j].num)
      BY <1>33 DEF Coming
    <2>2. \A j \in 1 .. Len(wire'[p]) : wire'[p][j].type = "open" => Coming(p, wire'[p][j].num)
      BY <1>6 DEF Coming
    <2> QED BY <1>7, <1>17, <2>1, <2>2, ComingKept
  <1>35. ~Coming(s, r)'
    <2>1. ASSUME NEW u \in Threads, cur'[u] = r, pc'[u] \in {"register", "send_open"}
          PROVE  FALSE
      <3>1. pc'[u] \in OpenPc
        BY <2>1 DEF OpenPc
      <3>2. cur[u] = r /\ pc[u] = pc'[u]
        BY <1>17, <2>1, <3>1 DEF NoNewCall
      <3> QED BY <1>8, <2>1, <3>1, <3>2
    <2>2. ASSUME NEW j \in 1 .. Len(wire'[s]), wire'[s][j].type = "open", wire'[s][j].num = r
          PROVE  FALSE
      <3>1. /\ j + 1 \in 1 .. Len(wire[s]) /\ j + 1 # 1
            /\ wire[s][j + 1].type = "open" /\ wire[s][j + 1].num = r
        BY <1>33, <2>2
      <3> QED BY <1>2, <1>6, <3>1, EndNow DEF WireOK
    <2> QED BY <2>1, <2>2 DEF Coming
  <1>36. CountOK(p)'
    BY <1>7, <1>16, <1>18, <1>24, <1>34, CountKept DEF SessionInv
  <1>37. CountOK(s)'
    <2>1. ASSUME NEW q \in Opens, Coming(s, q)'
          PROVE  ~Made(s, q)' /\ ~(pc'[s] \in Answering /\ cur'[s] = q)
      <3>1. q # r /\ Coming(s, q)
        BY <1>34, <1>35, <2>1
      <3>2. ~Made(s, q)
        BY <3>1, NextNumber
      <3> QED BY <1>15, <1>20, <3>1, <3>2 DEF Made
    <2>2. channel_counter'[s] \in {channel_counter[s], channel_counter[s] + 1} /\ UNCHANGED opens
      BY <1>3, <1>4, <1>22
    <2> QED BY <1>8, <1>9, <1>34, <1>35, <2>1, <2>2, CountTaken
  <1>38. \A x \in Side : TablesOK(x)' /\ CountOK(x)' /\ EndHolds(x)'
    BY <1>7, <1>24, <1>29, <1>30, <1>32, <1>36, <1>37
  <1> QED BY <1>24, <1>25, <1>27, <1>28, <1>31, <1>38 DEF SessionInv

\* The server object is asked: the channel is refused, or gets its object.
LEMMA Decides ==
    ASSUME SessionInv, NEW s \in Side, Decide(s)
    PROVE  SessionInv'
  <1> DEFINE p == Peer(s)
  <1>1. PICK r : r = cur[s]
    OBVIOUS
  <1>2. PICK i : i = chan[s][r].id
    OBVIOUS
  <1>3. UNCHANGED <<scenario, wire, active, channel_counter, channel_events, fired,
                    server_accepts, asks, cur, own, opens>>
    BY DEF Decide, waiting, global
  <1>4. /\ p \in Side /\ p # s /\ Peer(p) = s /\ s \in Procs /\ (\A x \in Side : x = s \/ x = p)
        /\ pc[s] = "decide" /\ "decide" \in Answering
    BY ProcFacts, SideFacts DEF Decide, Answering
  <1>5. r \in Opens /\ Knows(s, r) /\ ~Made(s, r) /\ Numbered(s, r)
    BY <1>1, <1>4, EndNow DEF EndHolds, Numbered
  <1>6. /\ Types /\ chan \in [Side -> [Opens -> Object]] /\ channels \in [Side -> [Ids -> Opens \cup {0}]]
        /\ channels_seen \in [Side -> SUBSET Ids] /\ cur \in [Procs -> Nat]
    BY EndNow DEF Types
  <1>7. PICK l \in {"accept_open", "refuse_open"} :
            /\ Goto(s, l)
            /\ l = "refuse_open" => UNCHANGED <<chan, channels, channels_seen>>
            /\ l = "accept_open" =>
                 /\ chan' = [chan EXCEPT ![s][r].st = "open"]
                 /\ channels' = [channels EXCEPT ![s][i] = r]
                 /\ channels_seen' = [channels_seen EXCEPT ![s] = @ \cup {i}]
    BY <1>1, <1>2 DEF Decide
  <1>8. l \in Pc /\ l \in Answering /\ l # "decide"
    BY DEF Pc, Answering
  <1>9. Elsewhere(s) /\ pc'[s] = l /\ pc' \in [Procs -> Pc] /\ cur' \in [Procs -> Nat] /\ cur'[s] = r
    BY <1>1, <1>3, <1>4, <1>6, <1>7, <1>8, Goes
  <1>10. \A u \in Threads :
            /\ own'[u] # 0 => Addressable(Home[u], own'[u])
            /\ pc'[u] = "send_close" => Addressable(Home[u], cur'[u])
            /\ pc'[u] \in RequestPc => own'[u] # 0
            /\ NoNewCall(u)
    BY <1>4, <1>9, ProcFacts, ThreadElsewhere
  <1>11. /\ pc'[p] \in {"send_close", "success", "failure"} => Addressable(p, cur'[p])
         /\ pc'[p] \in Answering \cup {"queue"} => cur'[p] \in Opens /\ Knows(p, cur'[p])
         /\ pc'[p] \in {"accept_open", "queue"} => Made(p, cur'[p])
         /\ NoNewAnswer(p) /\ StillAccepting(p)
    BY <1>4, <1>9, EndElsewhere
  <1>12. NoNewAnswer(s) /\ StillAccepting(s) /\ \A x \in Side : NoNewAnswer(x) /\ StillAccepting(x)
    BY <1>1, <1>4, <1>8, <1>9, <1>11 DEF NoNewAnswer, StillAccepting
  <1>13. QueueFine
    BY <1>3, QueueSame
  <1>14. CASE l = "refuse_open"
    <2>1. UNCHANGED tables
      BY <1>3, <1>7, <1>14 DEF tables
    <2>2. Types'
      BY <1>3, <1>6, <1>9, <2>1 DEF Types, tables
    <2>3. HoldsBefore
      BY <1>4, <1>5, <1>8, <1>9, <1>10, <1>11, <1>13, <1>14 DEF HoldsBefore, QueueFine
    <2>4. Ordinary
      BY <1>3, <1>10, <1>12, <2>1, <2>3, SameTables DEF Ordinary
    <2> QED BY <1>3, <2>2, <2>4, OrdinaryStep
  <1>15. CASE l = "accept_open"
    <2> DEFINE c == [chan[s][r] EXCEPT !.st = "open"]
    <2>1. /\ chan[s][r] \in Object /\ i \in Ids
      BY <1>2, <1>5, <1>6 DEF Object
    <2>2. c \in Object /\ c.id = i /\ c.remote = chan[s][r].remote /\ c.st = "open"
      BY <1>2, <2>1 DEF Object, ChannelState
    <2>3. chan' = [chan EXCEPT ![s][r] = c]
      BY <1>7, <1>15
    <2> HIDE DEF c
    <2>4. /\ chan'[s][r] = c
          /\ \A x \in Side : \A q \in Opens : x # s \/ q # r => chan'[x][q] = chan[x][q]
      BY <1>5, <1>6, <2>3
    <2>5. Knows(s, r)'
      BY <1>4, <1>5, <2>2, <2>4 DEF Knows, Made
    <2>6. Entered(s, r, c)
      <3>1. \A x \in Side : \A j \in Ids :
               channels'[x][j] = channels[x][j] \/ (x = s /\ j = i /\ channels'[x][j] = r)
        <4>1. channels' = [channels EXCEPT ![s][i] = r]
          BY <1>7, <1>15
        <4> QED BY <1>6, <2>1, <4>1
      <3>2. /\ channels_seen'[s] = channels_seen[s] \cup {i}
            /\ \A x \in Side : x # s => channels_seen'[x] = channels_seen[x]
        <4>1. channels_seen' = [channels_seen EXCEPT ![s] = @ \cup {i}]
          BY <1>7, <1>15
        <4> QED BY <1>6, <4>1
      <3>3. \A q \in Opens : q # r /\ Numbered(s, q)' => Numbered(s, q)
        BY <1>8, <1>9, <2>4 DEF Numbered, Made
      <3>4. i < channel_counter[s] /\ \A q \in Opens : q # r /\ Numbered(s, q) => chan[s][q].id # i
        BY <1>2, <1>5, EndNow DEF TablesOK
      <3> QED BY <1>3, <2>2, <2>3, <3>1, <3>2, <3>3, <3>4 DEF Entered
    <2>7. r <= opens
      BY <1>5, EndNow DEF TablesOK
    <2>8. /\ Grows /\ TablesOK(s)' /\ ShrinksAt(p) /\ FiredOK'
          /\ chan' \in [Side -> [Opens -> Object]]
      BY <1>5, <2>2, <2>5, <2>6, <2>7, EnteredFacts
    <2>9. Types'
      <3>1. channels' \in [Side -> [Ids -> Opens \cup {0}]]
        <4>1. channels' = [channels EXCEPT ![s][i] = r]
          BY <1>7, <1>15
        <4> QED BY <1>5, <1>6, <2>1, <4>1
      <3>2. channels_seen' \in [Side -> SUBSET Ids]
        <4>1. channels_seen' = [channels_seen EXCEPT ![s] = @ \cup {i}]
          BY <1>7, <1>15
        <4>2. channels_seen[s] \cup {i} \in SUBSET Ids
          BY <1>6, <2>1
        <4> QED BY <1>6, <4>1, <4>2
      <3> QED BY <1>3, <1>6, <1>9, <2>8, <3>1, <3>2 DEF Types
    <2>10. (\A u \in Threads : Onward(u)) /\ CallsDistinct'
      BY <1>10, GoesOn DEF SessionInv, CallsDistinct, NoNewCall
    <2>11. ASSUME NEW u \in Threads
           PROVE  CallOK(u)' /\ ThreadHolds(u)'
      <3>1. NoNewCall(u) /\ FiresOnly /\ opens' \in {opens, opens + 1}
        BY <1>3, <1>10, FiredSame
      <3>2. CallOK(u) /\ Home[u] \in Side
        BY ProcFacts DEF SessionInv
      <3>3. pc[u] \in OpenPc =>
               /\ \A j \in Ids : channel_events'[Peer(Home[u])][j] # cur[u]
               /\ ~(pc'[Home[u]] \in Answering /\ cur'[Home[u]] = cur[u])
        BY <1>3, <1>12, <3>2 DEF CallOK, NoNewAnswer
      <3>4. CallOK(u)'
        BY <2>8, <3>1, <3>3, CallKept
      <3>5. ThreadHolds(u)'
        BY <1>10, <1>12, <2>8, <3>2, AnswersApart, ThreadHoldsKept
      <3> QED BY <3>4, <3>5
    <2>12. EndHolds(p)'
      BY <1>4, <1>11, <1>13, <2>8, EndHoldsKept DEF ShrinksAt, QueueFine
    <2>13. EndHolds(s)'
      <3>1. Made(s, r)' /\ \A q \in Opens : chan'[s][q].st = "open" =>
                                chan[s][q].st = "open" \/ Knows(s, q)'
        BY <2>2, <2>4, <2>5 DEF Made
      <3> QED BY <1>3, <1>5, <1>8, <1>9, <1>12, <2>5, <2>8, <3>1, AnswersApart, EndAnswers
    <2>14. ASSUME NEW x \in Side
           PROVE  WireOK(x)' /\ AnswerOK(x)'
      <3>1. WireOK(x)' /\ \A q \in Opens : Promised(x, q) => Promised(x, q)' \/ Settled(x, q)'
        BY <1>3, <2>8, <2>10, PacketsStay
      <3>2. AnswerOK(x) /\ Peer(x) \in Side /\ Peer(Peer(x)) = x /\ StillAccepting(Peer(x))
        BY <1>12, SideFacts DEF SessionInv
      <3>3. ASSUME NEW q \in Opens, Made(x, q)', Made(Peer(x), q)'
            PROVE  \/ Made(x, q) /\ Made(Peer(x), q)
                   \/ Settled(x, q)'
                   \/ pc'[Peer(x)] = "accept_open" /\ cur'[Peer(x)] = q
        <4>1. CASE q # r
          BY <2>4, <3>2, <3>3, <4>1 DEF Made
        <4>2. CASE q = r /\ x = s
          BY <2>5, <4>2 DEF Settled
        <4>3. CASE q = r /\ x = p
          BY <1>4, <1>9, <1>15, <4>3
        <4> QED BY <1>4, <4>1, <4>2, <4>3
      <3>4. AnswerOK(x)'
        BY <1>6, <2>8, <3>1, <3>2, <3>3, AnswerKept DEF StillAccepting
      <3> QED BY <3>1, <3>4
    <2>15. TablesOK(p)'
      BY <1>4, <1>6, <1>11, <2>8, TablesKept DEF SessionInv
    <2>16. \A x \in Side : \A q \in Opens : Coming(x, q)' => Coming(x, q)
      <3>1. \A x \in Side : \A j \in 1 .. Len(wire'[x]) :
               wire'[x][j].type = "open" => Coming(x, wire'[x][j].num)
        BY <1>3 DEF Coming
      <3> QED BY <1>10, <3>1, ComingKept
    <2>17. CountOK(p)'
      BY <1>4, <1>6, <1>11, <2>8, <2>16, CountKept DEF SessionInv
    <2>18. CountOK(s)'
      <3>1. ASSUME NEW q \in Opens, Coming(s, q)'
            PROVE  Coming(s, q) /\ ~Made(s, q)' /\ ~(pc'[s] \in Answering /\ cur'[s] = q)
        <4>1. Coming(s, q)
          BY <2>16, <3>1
        <4>2. ~Made(s, q) /\ ~(pc[s] \in Answering /\ cur[s] = q)
          BY <4>1, NextNumber
        <4>3. q # r
          BY <1>1, <1>4, <4>2
        <4> QED BY <1>9, <2>4, <4>1, <4>2, <4>3 DEF Made
      <3>2. opens' \in {opens, opens + 1} /\ channel_counter'[s] = channel_counter[s] /\ CountOK(s)
        BY <1>3 DEF SessionInv
      <3> QED BY <1>6, <3>1, <3>2, CountStays
    <2>19. \A x \in Side : TablesOK(x)' /\ CountOK(x)' /\ EndHolds(x)'
      BY <1>4, <2>8, <2>12, <2>13, <2>15, <2>17, <2>18
    <2> QED BY <2>8, <2>9, <2>10, <2>11, <2>14, <2>19 DEF SessionInv
  <1> QED BY <1>14, <1>15
-----------------------------------------------------------------------------
(* The invariant, and what it means *)

\* The tables are empty in the beginning.
LEMMA SessionInit == Init => SessionInv
  <1> SUFFICES ASSUME Init
               PROVE  SessionInv
    OBVIOUS
  <1>1. /\ wire = [s \in Side |-> <<>>] /\ pc = [p \in Procs |-> "idle"]
        /\ cur = [p \in Procs |-> 0] /\ own = [t \in Threads |-> 0] /\ opens = 0
        /\ server_accepts = [s \in Side |-> <<>>] /\ fired = {}
        /\ channels = [s \in Side |-> [i \in Ids |-> 0]]
        /\ channel_events = [s \in Side |-> [i \in Ids |-> 0]]
        /\ channel_counter = [s \in Side |-> 0] /\ channels_seen = [s \in Side |-> {}]
        /\ active = [s \in Side |-> TRUE] /\ asks = 0 /\ scenario \in Scenarios
        /\ chan = [s \in Side |-> [r \in Opens |-> NewChannel(0, 0, "none")]]
    BY DEF Init
  <1>2. NewChannel(0, 0, "none") \in Object /\ NewChannel(0, 0, "none").st = "none"
    BY NumberFacts, NewChannelFacts DEF ChannelState
  <1>3. "idle" \in Pc
    BY DEF Pc
  <1>4. Types
    BY <1>1, <1>2, <1>3, NumberFacts DEF Types
  <1>5. /\ \A s \in Side : \A r \in Opens : chan[s][r].st = "none"
        /\ \A p \in Procs : pc[p] = "idle"
        /\ \A s \in Side : wire[s] = <<>> /\ Len(wire[s]) = 0
        /\ \A s \in Side : server_accepts[s] = <<>> /\ Len(server_accepts[s]) = 0
        /\ \A t \in Threads : own[t] = 0
        /\ \A s \in Side : \A i \in Ids : channels[s][i] = 0 /\ channel_events[s][i] = 0
    BY <1>1, <1>2
  <1>6. /\ "idle" \notin OpenPc \cup RequestPc \cup Answering
        /\ \A t \in Threads : pc[t] = "idle"
        /\ \A s \in Side : pc[s] = "idle"
    BY <1>5, ProcFacts DEF OpenPc, RequestPc, Answering
  <1>7. CallsDistinct /\ FiredOK /\ \A t \in Threads : CallOK(t) /\ ThreadHolds(t)
    BY <1>1, <1>5, <1>6 DEF CallsDistinct, FiredOK, CallOK, ThreadHolds
  <1>8. \A s \in Side : \A r \in Opens : ~Made(s, r) /\ ~Numbered(s, r) /\ ~Coming(s, r)
    BY <1>5, <1>6 DEF Made, Numbered, Coming
  <1>9. \A s \in Side : TablesOK(s) /\ EndHolds(s) /\ WireOK(s) /\ AnswerOK(s)
    BY <1>5, <1>6, <1>8 DEF TablesOK, Names, EndHolds, WireOK, AnswerOK
  <1>10. ASSUME NEW s \in Side
         PROVE  CountOK(s)
    <2>1. {r \in Opens : Coming(s, r)} = {}
      BY <1>8
    <2>2. Cardinality({r \in Opens : Coming(s, r)}) = 0
      BY <2>1, FS_EmptySet
    <2> QED BY <1>1, <1>8, <2>2 DEF CountOK
  <1> QED BY <1>4, <1>7, <1>9, <1>10 DEF SessionInv

\* Nothing that the invariant speaks of changes.
LEMMA NothingMoves ==
    ASSUME SessionInv,
           UNCHANGED <<scenario, wire, active, tables, channel_events, fired, server_accepts, asks,
                       pc, cur, own, opens>>
    PROVE  SessionInv'
  <1>1. Types'
    BY DEF SessionInv, Types, tables
  <1>2. HoldsBefore
    BY DEF HoldsBefore, SessionInv, ThreadHolds, EndHolds
  <1>3. /\ \A x \in Side : NoNewAnswer(x) /\ StillAccepting(x)
        /\ \A u \in Threads : NoNewCall(u)
    BY DEF NoNewAnswer, StillAccepting, NoNewCall
  <1> QED BY <1>1, <1>2, <1>3, SameTables, OrdinaryStep DEF Ordinary

\* The end of a re-key only sets completion_event.
LEMMA NewKeys ==
    ASSUME SessionInv, NEW s \in Side, ReadNewKeys(s)
    PROVE  SessionInv'
  BY NothingMoves DEF ReadNewKeys, waiting, local

\* Every step keeps the invariant: one lemma for each group of actions.
LEMMA SessionStep == SessionInv /\ [Next]_vars => SessionInv'
  <1> SUFFICES ASSUME SessionInv, [Next]_vars
               PROVE  SessionInv'
    OBVIOUS
  <1>1. CASE UNCHANGED vars
    BY <1>1, NothingMoves DEF vars, waiting, local, global
  <1>2. ASSUME NEW s \in Side, TransportThread(s)
        PROVE  SessionInv'
    BY <1>2, ReadsQuietly, NewKeys, ReadsOpen, Decides, AnswersOpens, Queueing, ReadsSuccess, ReadsFailure,
       Answers, ReadsForObject, Ends DEF TransportThread
  <1>3. ASSUME NEW s \in Side, NEW r \in Opens, Collect(s, r)
        PROVE  SessionInv'
    BY <1>3, Collecting
  <1>4. ASSUME NEW p \in Procs, SendClose(p) \/ SendFails(p)
        PROVE  SessionInv'
    BY <1>4, ClosePacket
  <1>5. ASSUME NEW t \in Threads, CallInProgress(t)
        PROVE  SessionInv'
    BY <1>5, Registering, SendsOpen, OpenWaits, Accepting, Globals, Closing, Requesting
       DEF CallInProgress
  <1>6. ASSUME NEW t \in Threads,
               \/ OpenChannel(t) \/ OpenTimeout(t)
               \/ Accept(t) \/ AcceptTimeout(t)
               \/ GlobalRequest(t)
               \/ Share(t) \/ ExecCommand(t) \/ RecvExitStatus(t)
               \/ SendExitStatus(t) \/ Close(t) \/ CloseTransport(t)
        PROVE  SessionInv'
    BY <1>6, Opening, OpenWaits, Accepting, Globals, Closing, Requesting
  <1> QED BY <1>1, <1>2, <1>3, <1>4, <1>5, <1>6 DEF Next

\* What the tables, the packets and the calls of both ends say of an open
\* call agrees with the numbers the two ends gave it (open_channel,
\* _parse_channel_open and the rest of transport.py that uses _channels).
THEOREM NumbersAgree == Spec => []SessionInv
  BY SessionInit, SessionStep, PTL DEF Spec

=============================================================================
