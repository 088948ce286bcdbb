--------------------------- MODULE ChannelProofs ---------------------------
(***************************************************************************)
(* For every window size, packet size, set of threads and set of faults:   *)
(* the type invariant of Channel; and, when each end has at most one       *)
(* writer, one reader and one combine_stderr switch, WindowRespected and   *)
(* the refinement of BoundedStream; and, when the writer of an end is the  *)
(* one that ends it, EmptyReadIsFinal.                                     *)
(***************************************************************************)
EXTENDS ChannelInvariant, TLAPS

\* The two ends are each other's peer.
LEMMA PeerFacts ==
    ASSUME NEW s \in Side
    PROVE  Peer(s) \in Side /\ Peer(s) # s /\ Peer(Peer(s)) = s
  BY DEF Side, Peer

\* Every process belongs to an end; a transport thread is no application
\* thread.
LEMMA AtFacts ==
    /\ \A p \in Procs : At(p) \in Side
    /\ \A t \in Threads : t \in Procs /\ t \notin Side /\ At(t) = Home[t] /\ Home[t] \in Side
    /\ \A s \in Side : s \in Procs /\ s \notin Threads /\ At(s) = s
  BY ChannelAssumption DEF Procs, At

\* A packet of another type at the end of the wire does not matter to a chain.
LEMMA ChainAppendOther ==
    ASSUME NEW w \in Seq(Msg), NEW m \in Msg, NEW T, NEW lo \in Nat, NEW hi \in Nat,
           Chain(w, T, lo, hi), m.type \notin T
    PROVE  Chain(Append(w, m), T, lo, hi)
  BY DEF Chain

\* The next stretch of bytes extends a chain.
LEMMA ChainAppend ==
    ASSUME NEW w \in Seq(Msg), NEW m \in Msg, NEW T, NEW lo \in Nat, NEW hi \in Nat,
           Chain(w, T, lo, hi), m.upto = hi + m.size
    PROVE  Chain(Append(w, m), T, lo, hi + m.size)
  <1> DEFINE v == Append(w, m)
  <1>1. /\ v \in Seq(Msg) /\ Len(v) = Len(w) + 1 /\ Len(w) \in Nat
        /\ \A i \in 1 .. Len(w) : v[i] = w[i]
        /\ v[Len(w) + 1] = m
    OBVIOUS
  <1>2. /\ m.size \in Nat /\ m.upto \in Nat
        /\ \A i \in 1 .. Len(w) : w[i].size \in Nat /\ w[i].upto \in Nat
    <2>1. \A i \in 1 .. Len(w) : w[i] \in Msg
      OBVIOUS
    <2> QED BY <2>1 DEF Msg
  <1> HIDE DEF v
  <1>3. ASSUME NEW i \in 1 .. Len(v), v[i].type \in T
        PROVE  lo + v[i].size <= v[i].upto /\ v[i].upto <= hi + m.size
    <2>1. CASE i \in 1 .. Len(w)
      <3>1. v[i] = w[i] /\ w[i].size \in Nat /\ w[i].upto \in Nat
        BY <1>1, <1>2, <2>1
      <3>2. lo + w[i].size <= w[i].upto /\ w[i].upto <= hi
        BY <1>3, <2>1, <3>1 DEF Chain
      <3> QED BY <3>1, <3>2, <1>2
    <2>2. CASE i = Len(w) + 1
      <3>1. v[i] = m /\ lo <= hi
        BY <1>1, <2>2 DEF Chain
      <3> QED BY <3>1, <1>2
    <2> QED BY <2>1, <2>2, <1>1
  <1>4. ASSUME NEW i \in 1 .. Len(v), NEW j \in 1 .. Len(v), i < j,
               v[i].type \in T, v[j].type \in T
        PROVE  v[i].upto + v[j].size <= v[j].upto
    <2>1. i \in 1 .. Len(w) /\ v[i] = w[i]
      BY <1>1, <1>4
    <2>2. CASE j \in 1 .. Len(w)
      BY <1>1, <1>4, <2>1, <2>2 DEF Chain
    <2>3. CASE j = Len(w) + 1
      <3>1. v[j] = m /\ w[i].upto <= hi
        BY <1>1, <1>4, <2>1, <2>3 DEF Chain
      <3> QED BY <3>1, <2>1, <1>2
    <2> QED BY <2>2, <2>3, <1>1
  <1>5. lo <= hi + m.size
    BY <1>2 DEF Chain
  <1> QED BY <1>3, <1>4, <1>5 DEF Chain, v

\* The elements of a tail are those of the sequence, one place further on.
LEMMA TailFacts ==
    ASSUME NEW w \in Seq(Msg), w # <<>>
    PROVE  /\ Tail(w) \in Seq(Msg) /\ Head(w) = w[1] /\ Len(w) \in Nat \ {0}
           /\ Len(Tail(w)) = Len(w) - 1
           /\ \A i \in 1 .. Len(w) : w[i] \in Msg /\ w[i].size \in Nat /\ w[i].upto \in Nat
           /\ \A i \in 1 .. Len(Tail(w)) : i + 1 \in 1 .. Len(w) /\ Tail(w)[i] = w[i + 1]
  <1>1. \A i \in 1 .. Len(w) : w[i] \in Msg
    OBVIOUS
  <1>2. \A i \in 1 .. Len(w) : w[i].size \in Nat /\ w[i].upto \in Nat
    BY <1>1 DEF Msg
  <1> QED BY <1>1, <1>2

\* Consecutive packets of a chain leave no room for an overlap.
LEMMA LeTrans ==
    ASSUME NEW a \in Nat, NEW b \in Nat, NEW c \in Nat, NEW d \in Nat, NEW e \in Nat,
           a + b <= c, c + d <= e
    PROVE  a + b + d <= e
  OBVIOUS

\* Taking the first packet off the wire moves the lower end of its chain.
LEMMA ChainTail ==
    ASSUME NEW w \in Seq(Msg), w # <<>>, NEW T, NEW lo \in Nat, NEW hi \in Nat,
           Chain(w, T, lo, hi), Head(w).type \in T
    PROVE  Chain(Tail(w), T, lo + Head(w).size, hi)
  <1> DEFINE v == Tail(w)
  <1>1. /\ Head(w) = w[1] /\ Len(w) \in Nat \ {0} /\ Len(v) = Len(w) - 1
        /\ \A i \in 1 .. Len(w) : w[i].size \in Nat /\ w[i].upto \in Nat
        /\ \A i \in 1 .. Len(v) : i + 1 \in 1 .. Len(w) /\ v[i] = w[i + 1]
    BY TailFacts
  <1> HIDE DEF v
  <1>2. lo + w[1].size <= w[1].upto /\ w[1].upto <= hi
    BY <1>1 DEF Chain
  <1>3. ASSUME NEW i \in 1 .. Len(v), v[i].type \in T
        PROVE  lo + w[1].size + v[i].size <= v[i].upto /\ v[i].upto <= hi
    <2>1. v[i] = w[i + 1] /\ i + 1 \in 1 .. Len(w) /\ 1 \in 1 .. Len(w) /\ 1 < i + 1
      BY <1>1
    <2>2. w[1].upto + w[i + 1].size <= w[i + 1].upto /\ w[i + 1].upto <= hi
      BY <1>1, <1>3, <2>1 DEF Chain
    <2>3. /\ w[1].size \in Nat /\ w[1].upto \in Nat
          /\ w[i + 1].size \in Nat /\ w[i + 1].upto \in Nat
      BY <1>1, <2>1
    <2>4. lo + w[1].size + w[i + 1].size <= w[i + 1].upto
      BY <1>2, <2>2, <2>3, LeTrans
    <2> QED BY <2>1, <2>2, <2>4
  <1>4. ASSUME NEW i \in 1 .. Len(v), NEW j \in 1 .. Len(v), i < j,
               v[i].type \in T, v[j].type \in T
        PROVE  v[i].upto + v[j].size <= v[j].upto
    <2>1. /\ v[i] = w[i + 1] /\ v[j] = w[j + 1] /\ i + 1 < j + 1
          /\ i + 1 \in 1 .. Len(w) /\ j + 1 \in 1 .. Len(w)
      BY <1>1, <1>4
    <2> QED BY <1>4, <2>1 DEF Chain
  <1>5. lo + w[1].size <= hi
    BY <1>1, <1>2
  <1> QED BY <1>1, <1>3, <1>4, <1>5 DEF Chain, v

\* ... and leaves every chain from the old lower end a chain.
LEMMA ChainTailOther ==
    ASSUME NEW w \in Seq(Msg), w # <<>>, NEW T, NEW lo \in Nat, NEW hi \in Nat,
           Chain(w, T, lo, hi)
    PROVE  Chain(Tail(w), T, lo, hi)
  BY TailFacts DEF Chain
-----------------------------------------------------------------------------
\* What notify_all leaves of pc: only waiting senders of that end move.
LEMMA NotifyAllFacts ==
    ASSUME TypeOK, NEW s \in Side
    PROVE  /\ NotifyAll(s) \in [Procs -> Pc]
           /\ \A p \in Procs :
                 /\ pc[p] # "wait" => NotifyAll(s)[p] = pc[p]
                 /\ NotifyAll(s)[p] # pc[p] => NotifyAll(s)[p] = "woken"
  BY DEF NotifyAll, TypeOK, Pc

\* Every action preserves the type invariant.
LEMMA TypeStep ==
    ASSUME TypeOK, [Next]_vars
    PROVE  TypeOK'
  <1> USE DEF flags, buffers, windows, pending, history
  <1>1. ASSUME NEW p \in Procs, Xmit(p)
        PROVE  TypeOK'
    <2> DEFINE s == At(p)
    <2>1. s \in Side /\ Peer(s) \in Side
      BY AtFacts, PeerFacts
    <2> HIDE DEF s
    <2>2. /\ pc[p] \in Transmit /\ held[p] \in Nat
          /\ sent[s] \in Nat /\ granted[s] \in Nat /\ wire[Peer(s)] \in Seq(Msg)
      BY <1>1, <2>1 DEF Xmit, TypeOK
    <2>3. Packet(s, pc[p], held[p]) \in Msg
      BY <2>2 DEF Packet, Msg, MsgType, Transmit, DataType
    <2>4. wire' \in [Side -> Seq(Msg)]
      <3>1. Append(wire[Peer(s)], Packet(s, pc[p], held[p])) \in Seq(Msg)
        BY <2>2, <2>3
      <3>2. CASE wire' = wire
        BY <3>2 DEF TypeOK
      <3>3. CASE wire' = [wire EXCEPT
                            ![Peer(s)] = Append(@, Packet(s, pc[p], held[p]))]
        BY <2>1, <3>1, <3>3 DEF TypeOK
      <3> QED BY <1>1, <3>2, <3>3 DEF Xmit, s
    <2>5. sent' \in [Side -> Nat] /\ granted' \in [Side -> Nat]
      <3>1. CASE sent' = sent /\ granted' = granted
        BY <3>1 DEF TypeOK
      <3>2. CASE /\ sent' = [sent EXCEPT
                            ![s] = @ + (IF pc[p] \in DataType THEN held[p] ELSE 0)]
                 /\ granted' = [granted EXCEPT
                            ![s] = @ + (IF pc[p] = "adjust" THEN held[p] ELSE 0)]
        <4>1. sent[s] + (IF pc[p] \in DataType THEN held[p] ELSE 0) \in Nat
          BY <2>2
        <4>2. granted[s] + (IF pc[p] = "adjust" THEN held[p] ELSE 0) \in Nat
          BY <2>2
        <4> QED BY <3>2, <4>1, <4>2 DEF TypeOK
      <3> QED BY <1>1, <3>1, <3>2 DEF Xmit, s
    <2>6. pc' \in [Procs -> Pc] /\ held' \in [Procs -> Nat]
      BY <1>1 DEF Xmit, TypeOK, Pc, Transmit
    <2> QED BY <1>1, <2>4, <2>5, <2>6 DEF Xmit, TypeOK
  <1>2. ASSUME NEW p \in Procs, Feed(p)
        PROVE  TypeOK'
    <2>1. At(p) \in Side
      BY AtFacts
    <2>2. /\ in_buffer[At(p)] + held[p] \in Nat
          /\ in_stderr_buffer[At(p)] + held[p] \in Nat
      BY <2>1 DEF TypeOK
    <2>3. in_buffer' \in [Side -> Nat] /\ in_stderr_buffer' \in [Side -> Nat]
      <3>1. CASE /\ in_buffer' = [in_buffer EXCEPT ![At(p)] = @ + held[p]]
                 /\ in_stderr_buffer' = in_stderr_buffer
        BY <2>2, <3>1 DEF TypeOK
      <3>2. CASE /\ in_stderr_buffer' = [in_stderr_buffer EXCEPT ![At(p)] = @ + held[p]]
                 /\ in_buffer' = in_buffer
        BY <2>2, <3>2 DEF TypeOK
      <3> QED BY <1>2, <3>1, <3>2 DEF Feed
    <2> QED BY <1>2, <2>3 DEF Feed, TypeOK, Pc
  <1>3. ASSUME NEW s \in Side, TransportThread(s)
        PROVE  TypeOK'
    <2>1. ASSUME NEW ty, Receives(s, ty)
          PROVE  /\ wire' \in [Side -> Seq(Msg)]
                 /\ Head(wire[s]) \in Msg /\ Head(wire[s]).size \in Nat
      <3>1. wire[s] \in Seq(Msg) /\ wire[s] # <<>>
        BY <2>1 DEF Receives, TypeOK
      <3>2. Head(wire[s]) \in Msg /\ Tail(wire[s]) \in Seq(Msg)
        BY <3>1
      <3> QED BY <2>1, <3>1, <3>2 DEF Receives, TypeOK, Msg
    <2>2. CASE HandleDead(s)
      BY <2>1, <2>2 DEF HandleDead, TypeOK
    <2>3. CASE HandleData(s)
      <3>1. wire' \in [Side -> Seq(Msg)] /\ Head(wire[s]).size \in Nat
        BY <2>1, <2>3 DEF HandleData
      <3>2. /\ in_buffer[s] + Head(wire[s]).size \in Nat
            /\ delivered[s] + Head(wire[s]).size \in Nat
        <4>1. in_buffer[s] \in Nat /\ delivered[s] \in Nat
          BY DEF TypeOK
        <4> QED BY <3>1, <4>1
      <3>3. in_buffer' \in [Side -> Nat] /\ delivered' \in [Side -> Nat]
        BY <2>3, <3>2 DEF HandleData, TypeOK
      <3> QED BY <2>3, <3>1, <3>3 DEF HandleData, TypeOK
    <2>4. CASE HandleExtended(s)
      <3>1. wire' \in [Side -> Seq(Msg)] /\ Head(wire[s]).size \in Nat
        BY <2>1, <2>4 DEF HandleExtended
      <3>2. s \in Procs /\ delivered[s] + Head(wire[s]).size \in Nat
        <4>1. s \in Procs
          BY AtFacts
        <4>2. delivered[s] \in Nat
          BY DEF TypeOK
        <4> QED BY <3>1, <4>1, <4>2
      <3>3. delivered' \in [Side -> Nat] /\ held' \in [Procs -> Nat]
        BY <2>4, <3>1, <3>2 DEF HandleExtended, TypeOK
      <3> QED BY <2>4, <3>1, <3>2, <3>3 DEF HandleExtended, TypeOK, Pc
    <2>5. CASE HandleWindowAdjust(s)
      <3>1. wire' \in [Side -> Seq(Msg)] /\ Head(wire[s]).size \in Nat
        BY <2>1, <2>5 DEF HandleWindowAdjust
      <3>2. NotifyAll(s) \in [Procs -> Pc]
        BY NotifyAllFacts
      <3>3. /\ out_window_size[s] + Head(wire[s]).size \in Nat
            /\ credited[s] + Head(wire[s]).size \in Nat
        <4>1. out_window_size[s] \in Nat /\ credited[s] \in Nat
          BY DEF TypeOK
        <4> QED BY <3>1, <4>1
      <3>4. out_window_size' \in [Side -> Nat] /\ credited' \in [Side -> Nat]
        BY <2>5, <3>3 DEF HandleWindowAdjust, TypeOK
      <3> QED BY <2>5, <3>1, <3>2, <3>4 DEF HandleWindowAdjust, TypeOK
    <2>6. CASE HandleEof(s)
      BY <2>1, <2>6 DEF HandleEof, TypeOK
    <2>7. CASE HandleClose(s)
      <3>1. wire' \in [Side -> Seq(Msg)]
        BY <2>1, <2>7 DEF HandleClose
      <3>2. NotifyAll(s) \in [Procs -> Pc] /\ s \in Procs
        BY NotifyAllFacts, AtFacts
      <3> QED BY <2>7, <3>1, <3>2
              DEF HandleClose, CloseInternal, SetClosed, TypeOK, Pc, Transmit
    <2>8. CASE LoseConnection(s)
      BY <2>8 DEF LoseConnection, TypeOK
    <2>9. CASE Unlink(s)
      <3>1. NotifyAll(s) \in [Procs -> Pc]
        BY NotifyAllFacts
      <3> QED BY <2>9, <3>1 DEF Unlink, SetClosed, TypeOK
    <2> QED BY <1>3, <2>2, <2>3, <2>4, <2>5, <2>6, <2>7, <2>8, <2>9
            DEF TransportThread
  <1>4. ASSUME NEW s \in Side, CloseTransport(s)
        PROVE  TypeOK'
    BY <1>4 DEF CloseTransport, TypeOK
  <1>5. ASSUME NEW t \in Threads, NEW n \in Nat, NEW k \in DataType, Allocate(t, k, n)
        PROVE  /\ out_window_size' \in [Side -> Nat]
               /\ held' \in [Procs -> Nat]
               /\ pc' \in [Procs -> Pc]
    <2>1. Home[t] \in Side /\ t \in Procs /\ MaxPacket \in Nat
      BY AtFacts, ChannelAssumption
    <2> DEFINE size == Smaller(Smaller(n, out_window_size[Home[t]]), MaxPacket)
    <2>2. size \in Nat /\ out_window_size[Home[t]] - size \in Nat
      <3>1. out_window_size[Home[t]] \in Nat
        BY <2>1 DEF TypeOK
      <3> QED BY <2>1, <3>1 DEF Smaller
    <2> HIDE DEF size
    <2>3. /\ out_window_size' = [out_window_size EXCEPT ![Home[t]] = @ - size]
          /\ held' = [held EXCEPT ![t] = size]
          /\ pc' = [pc EXCEPT ![t] = k]
      BY <1>5 DEF Allocate, size
    <2> QED BY <2>1, <2>2, <2>3 DEF TypeOK, Pc, Transmit
  <1>6. ASSUME NEW t \in Threads, Writing(t)
        PROVE  TypeOK'
    <2>1. PICK m \in {"send", "send_stderr"}, n \in SendSizes : Send(t, m, n)
      BY <1>6 DEF Writing
    <2>2. SendKind(m) \in DataType /\ n \in Nat /\ t \in Procs
      BY ChannelAssumption, AtFacts DEF SendKind, DataType
    <2>3. CASE /\ Allocate(t, SendKind(m), n)
               /\ UNCHANGED pending
      <3>1. /\ out_window_size' \in [Side -> Nat]
            /\ held' \in [Procs -> Nat]
            /\ pc' \in [Procs -> Pc]
        BY <1>5, <2>2, <2>3
      <3> QED BY <2>1, <2>3, <3>1 DEF Send, TypeOK
    <2>4. CASE /\ pc' = [pc EXCEPT ![t] = "wait"]
               /\ want' = [want EXCEPT ![t] = n]
               /\ kind' = [kind EXCEPT ![t] = SendKind(m)]
               /\ UNCHANGED <<out_window_size, held>>
      BY <2>1, <2>2, <2>4 DEF Send, TypeOK, Pc
    <2> QED BY <2>1, <2>3, <2>4 DEF Send
  <1>7. ASSUME NEW t \in Threads, SendResume(t)
        PROVE  TypeOK'
    <2>1. kind[t] \in DataType /\ want[t] \in Nat /\ t \in Procs
      BY AtFacts DEF TypeOK
    <2>2. CASE Allocate(t, kind[t], want[t])
      <3>1. /\ out_window_size' \in [Side -> Nat]
            /\ held' \in [Procs -> Nat]
            /\ pc' \in [Procs -> Pc]
        BY <1>5, <2>1, <2>2
      <3> QED BY <1>7, <3>1 DEF SendResume, TypeOK
    <2>3. CASE /\ \E c \in {"idle", "wait"} : pc' = [pc EXCEPT ![t] = c]
               /\ UNCHANGED <<out_window_size, held>>
      <3>1. pc' \in [Procs -> Pc]
        BY <2>1, <2>3 DEF TypeOK, Pc
      <3> QED BY <1>7, <2>3, <3>1 DEF SendResume, TypeOK
    <2> QED BY <1>7, <2>2, <2>3 DEF SendResume
  <1>8. ASSUME NEW t \in Threads, SendTimeout(t)
        PROVE  TypeOK'
    BY <1>8 DEF SendTimeout, TypeOK, Pc
  <1>9. ASSUME NEW t \in Threads, CheckAddWindow(t)
        PROVE  TypeOK'
    <2> DEFINE s == Home[t]
               total == in_window_sofar[s] + held[t]
    <2>1. s \in Side /\ t \in Procs
      BY AtFacts
    <2>2. total \in Nat
      BY <2>1 DEF TypeOK
    <2>3. AckFor(total) \in Nat /\ SofarAfter(total) \in Nat
      BY <2>2 DEF AckFor, SofarAfter
    <2> HIDE DEF total
    <2> QED BY <1>9, <2>1, <2>3 DEF CheckAddWindow, total, TypeOK, Pc, Transmit
  <1>10. ASSUME NEW t \in Threads, Reading(t)
         PROVE  TypeOK'
    <2>1. PICK n \in RecvSizes : Recv(t, n) \/ RecvStderr(t, n)
      BY <1>10 DEF Reading
    <2>2. n \in Nat /\ t \in Procs /\ Home[t] \in Side
      BY ChannelAssumption, AtFacts
    <2>3. CASE Recv(t, n)
      <3> DEFINE k == Smaller(n, in_buffer[Home[t]])
      <3>1. /\ k \in Nat /\ in_buffer[Home[t]] - k \in Nat /\ read[Home[t]] + k \in Nat
        <4>1. in_buffer[Home[t]] \in Nat /\ read[Home[t]] \in Nat
          BY <2>2 DEF TypeOK
        <4> QED BY <2>2, <4>1 DEF Smaller
      <3> HIDE DEF k
      <3>2. /\ in_buffer' \in [Side -> Nat] /\ read' \in [Side -> Nat]
            /\ held' \in [Procs -> Nat]
        BY <2>2, <2>3, <3>1 DEF Recv, k, TypeOK
      <3> QED BY <2>2, <2>3, <3>2 DEF Recv, TypeOK, Pc
    <2>4. CASE RecvStderr(t, n)
      <3> DEFINE k == Smaller(n, in_stderr_buffer[Home[t]])
      <3>1. /\ k \in Nat /\ in_stderr_buffer[Home[t]] - k \in Nat
            /\ read[Home[t]] + k \in Nat
        <4>1. in_stderr_buffer[Home[t]] \in Nat /\ read[Home[t]] \in Nat
          BY <2>2 DEF TypeOK
        <4> QED BY <2>2, <4>1 DEF Smaller
      <3> HIDE DEF k
      <3>2. /\ in_stderr_buffer' \in [Side -> Nat] /\ read' \in [Side -> Nat]
            /\ held' \in [Procs -> Nat]
        BY <2>2, <2>4, <3>1 DEF RecvStderr, k, TypeOK
      <3> QED BY <2>2, <2>4, <3>2 DEF RecvStderr, TypeOK, Pc
    <2> QED BY <2>1, <2>3, <2>4
  <1>11. ASSUME NEW t \in Threads, Close(t)
         PROVE  TypeOK'
    <2>1. NotifyAll(Home[t]) \in [Procs -> Pc] /\ t \in Procs
      BY NotifyAllFacts, AtFacts
    <2> QED BY <1>11, <2>1 DEF Close, CloseInternal, SetClosed, TypeOK, Pc, Transmit
  <1>12. ASSUME NEW t \in Threads, ShutdownWrite(t)
         PROVE  TypeOK'
    BY <1>12 DEF ShutdownWrite, TypeOK, Pc, Transmit
  <1>13. ASSUME NEW t \in Threads, ShutdownRead(t)
         PROVE  TypeOK'
    BY <1>13 DEF ShutdownRead, TypeOK
  <1>14. ASSUME NEW t \in Threads, NEW combine \in BOOLEAN, SetCombineStderr(t, combine)
         PROVE  TypeOK'
    <2>1. Home[t] \in Side /\ t \in Procs
      BY AtFacts
    <2> DEFINE s == Home[t]
               data == IF combine /\ ~combine_stderr[s] THEN in_stderr_buffer[s] ELSE 0
    <2>2. data \in Nat /\ in_stderr_buffer[s] - data \in Nat
      BY <2>1 DEF TypeOK
    <2> HIDE DEF data
    <2>3. in_stderr_buffer' \in [Side -> Nat] /\ held' \in [Procs -> Nat]
      BY <1>14, <2>1, <2>2 DEF SetCombineStderr, data, TypeOK
    <2> QED BY <1>14, <2>1, <2>3 DEF SetCombineStderr, TypeOK, Pc
  <1>15. CASE UNCHANGED vars
    BY <1>15 DEF vars, TypeOK
  <1> QED
    BY <1>1, <1>2, <1>3, <1>4, <1>6, <1>7, <1>8, <1>9, <1>10, <1>11, <1>12,
       <1>13, <1>14, <1>15 DEF Next, CallInProgress

\* Every state of the two channel ends is well typed: no window, buffer or
\* counter of Channel or BufferedPipe ever goes below zero, whatever the
\* threads do.
THEOREM TypeCorrect == Spec => []TypeOK
  <1>1. Init => TypeOK
    BY ChannelAssumption, AtFacts DEF Init, TypeOK, Pc, DataType
  <1>2. TypeOK /\ [Next]_vars => TypeOK'
    BY TypeStep
  <1> QED BY <1>1, <1>2, PTL DEF Spec
-----------------------------------------------------------------------------
(* The books.  Frame(a): of all processes only a takes a step; waiting     *)
(* senders may be woken.                                                   *)

Frame(a) ==
    \A p \in Procs \ {a} :
        /\ held'[p] = held[p]
        /\ pc'[p] = pc[p] \/ (pc[p] = "wait" /\ pc'[p] = "woken")

\* Each action is a step of one process.
LEMMA TransportFrame ==
    ASSUME TypeOK, NEW s \in Side, TransportThread(s) \/ CloseTransport(s)
    PROVE  Frame(s)
  <1> USE DEF flags, buffers, windows, pending, history, Frame
  <1>1. /\ NotifyAll(s) \in [Procs -> Pc]
        /\ \A p \in Procs : \/ NotifyAll(s)[p] = pc[p]
                            \/ pc[p] = "wait" /\ NotifyAll(s)[p] = "woken"
    BY NotifyAllFacts
  <1>2. CASE HandleDead(s)
    BY <1>2 DEF HandleDead
  <1>3. CASE HandleData(s)
    BY <1>3 DEF HandleData
  <1>4. CASE HandleExtended(s)
    BY <1>4 DEF HandleExtended, TypeOK
  <1>5. CASE HandleWindowAdjust(s)
    BY <1>1, <1>5 DEF HandleWindowAdjust
  <1>6. CASE HandleEof(s)
    BY <1>6 DEF HandleEof
  <1>7. CASE HandleClose(s)
    BY <1>1, <1>7 DEF HandleClose, CloseInternal
  <1>8. CASE LoseConnection(s)
    BY <1>8 DEF LoseConnection
  <1>9. CASE Unlink(s)
    BY <1>1, <1>9 DEF Unlink
  <1>10. CASE CloseTransport(s)
    BY <1>10 DEF CloseTransport
  <1> QED BY <1>2, <1>3, <1>4, <1>5, <1>6, <1>7, <1>8, <1>9, <1>10
          DEF TransportThread

LEMMA ThreadFrame ==
    ASSUME TypeOK, NEW t \in Threads,
           \/ CallInProgress(t) \/ SendTimeout(t) \/ Writing(t) \/ Reading(t)
           \/ Close(t) \/ ShutdownWrite(t) \/ ShutdownRead(t)
           \/ \E combine \in BOOLEAN : SetCombineStderr(t, combine)
    PROVE  Frame(t)
  <1> USE DEF flags, buffers, windows, pending, history, Frame
  <1>1. /\ NotifyAll(Home[t]) \in [Procs -> Pc]
        /\ \A p \in Procs : \/ NotifyAll(Home[t])[p] = pc[p]
                            \/ pc[p] = "wait" /\ NotifyAll(Home[t])[p] = "woken"
    BY NotifyAllFacts, AtFacts
  <1>2. CASE SendResume(t)
    BY <1>2 DEF SendResume, Allocate, TypeOK
  <1>3. CASE CheckAddWindow(t)
    BY <1>3 DEF CheckAddWindow, TypeOK
  <1>4. CASE SendTimeout(t)
    BY <1>4 DEF SendTimeout, TypeOK
  <1>5. CASE Writing(t)
    BY <1>5 DEF Writing, Send, Allocate, TypeOK
  <1>6. CASE Reading(t)
    BY <1>6 DEF Reading, Recv, RecvStderr, TypeOK
  <1>7. CASE Close(t)
    BY <1>1, <1>7 DEF Close, CloseInternal
  <1>8. CASE ShutdownWrite(t)
    BY <1>8 DEF ShutdownWrite, TypeOK
  <1>9. CASE ShutdownRead(t)
    BY <1>9 DEF ShutdownRead
  <1>10. CASE \E combine \in BOOLEAN : SetCombineStderr(t, combine)
    BY <1>10 DEF SetCombineStderr, TypeOK
  <1> QED BY <1>2, <1>3, <1>4, <1>5, <1>6, <1>7, <1>8, <1>9, <1>10
          DEF CallInProgress

LEMMA ProcessFrame ==
    ASSUME TypeOK, NEW p \in Procs, Xmit(p) \/ Feed(p)
    PROVE  Frame(p)
  BY DEF Xmit, Feed, Frame, TypeOK

\* A step of a that touches none of a book's counters keeps the book, if a
\* does not come away with bytes that belong into it.
LEMMA SentBookFrame ==
    ASSUME TypeOK, NEW a \in Procs, Frame(a), NEW s \in Side, SentBook(s),
           sent'[s] = sent[s], Accepted(s)' = Accepted(s),
           a \in Threads => pc'[a] \notin DataType
    PROVE  SentBook(s)'
  <1>1. ASSUME NEW t \in Threads, Home[t] = s
        PROVE  sent'[s] + InHand(t, DataType)' <= Accepted(s)'
    <2>1. CASE t = a
      BY <2>1 DEF SentBook, InHand, TypeOK
    <2>2. CASE t # a
      <3>1. InHand(t, DataType)' = InHand(t, DataType)
        BY <2>2, AtFacts DEF Frame, InHand, DataType
      <3> QED BY <1>1, <3>1 DEF SentBook
    <2> QED BY <2>1, <2>2
  <1> QED BY <1>1 DEF SentBook

LEMMA ReadBookFrame ==
    ASSUME TypeOK, NEW a \in Procs, Frame(a), NEW s \in Side, ReadBook(s),
           read'[s] = read[s], in_buffer'[s] = in_buffer[s],
           in_stderr_buffer'[s] = in_stderr_buffer[s], delivered'[s] = delivered[s],
           \/ pc'[a] \notin {"feed", "feed_stderr"}
           \/ pc'[a] = pc[a] /\ held'[a] = held[a]
    PROVE  ReadBook(s)'
  <1> DEFINE F == {"feed", "feed_stderr"}
             rest == read[s] + in_buffer[s] + in_stderr_buffer[s]
  <1>0. rest \in Nat /\ s \in Procs /\ delivered[s] \in Nat
    <2>1. /\ read[s] \in Nat /\ in_buffer[s] \in Nat /\ in_stderr_buffer[s] \in Nat
          /\ delivered[s] \in Nat
      BY DEF TypeOK
    <2> QED BY <2>1, AtFacts
  <1>1. ASSUME NEW p \in Procs, NEW S \in {F, {"feed"}}
        PROVE  /\ InHand(p, S) \in Nat /\ InHand(p, S)' \in Nat
               /\ InHand(p, S)' <= InHand(p, S)
    <2>1. CASE p = a
      BY <2>1 DEF InHand, TypeOK
    <2>2. CASE p # a
      <3>1. held[p] \in Nat
        BY DEF TypeOK
      <3>2. "wait" \notin S /\ "woken" \notin S
        OBVIOUS
      <3>3. held'[p] = held[p] /\ (pc'[p] \in S <=> pc[p] \in S)
        BY <2>2, <3>2 DEF Frame
      <3> QED BY <3>1, <3>3 DEF InHand
    <2> QED BY <2>1, <2>2
  <1>2. /\ InHand(s, F) \in Nat /\ InHand(s, F)' \in Nat
        /\ InHand(s, F)' <= InHand(s, F)
    BY <1>0, <1>1
  <1>3. rest + InHand(s, F) <= delivered[s]
    BY DEF ReadBook
  <1>4. rest + InHand(s, F)' <= delivered[s]
    BY <1>0, <1>2, <1>3
  <1>5. ASSUME NEW t \in Threads, Home[t] = s
        PROVE  rest + InHand(s, F)' + InHand(t, {"feed"})' <= delivered[s]
    <2>1. rest + InHand(s, F) + InHand(t, {"feed"}) <= delivered[s]
      BY <1>5 DEF ReadBook
    <2>2. /\ InHand(t, {"feed"}) \in Nat /\ InHand(t, {"feed"})' \in Nat
          /\ InHand(t, {"feed"})' <= InHand(t, {"feed"})
      BY <1>1, AtFacts
    <2> QED BY <1>0, <1>2, <2>1, <2>2
  <1> QED BY <1>4, <1>5 DEF ReadBook

LEMMA GrantBookFrame ==
    ASSUME TypeOK, NEW a \in Procs, Frame(a), NEW s \in Side, GrantBook(s),
           granted'[s] = granted[s], in_window_sofar'[s] = in_window_sofar[s],
           read'[s] = read[s],
           a \in Threads => pc'[a] \notin {"credit", "adjust"}
    PROVE  GrantBook(s)'
  <1> DEFINE C == {"credit", "adjust"}
  <1>1. ASSUME NEW t \in Threads, Home[t] = s
        PROVE  granted[s] + in_window_sofar[s] + InHand(t, C)' <= read[s]
    <2>1. CASE t = a
      BY <2>1 DEF GrantBook, InHand, TypeOK
    <2>2. CASE t # a
      <3>1. InHand(t, C)' = InHand(t, C)
        BY <2>2, AtFacts DEF Frame, InHand
      <3> QED BY <1>1, <3>1 DEF GrantBook
    <2> QED BY <2>1, <2>2
  <1> QED BY <1>1 DEF GrantBook

\* The wire after one packet was taken off it.
LEMMA ChainsReceive ==
    ASSUME TypeOK, NEW s \in Side, NEW ty, Receives(s, ty),
           NEW u \in Side, NEW T, NEW lo \in [Side -> Nat], NEW hi \in [Side -> Nat],
           Chain(wire[u], T, lo[u], hi[Peer(u)])
    PROVE  /\ Chain(wire'[u], T, lo[u], hi[Peer(u)])
           /\ u = s /\ ty \in T => Chain(wire'[u], T, lo[u] + Head(wire[s]).size, hi[Peer(u)])
           /\ Head(wire[s]).size \in Nat
  <1>1. /\ wire[s] \in Seq(Msg) /\ wire[s] # <<>> /\ Head(wire[s]).type = ty
        /\ wire' = [wire EXCEPT ![s] = Tail(@)]
    BY DEF Receives, TypeOK
  <1>2. Peer(u) \in Side /\ lo[u] \in Nat /\ hi[Peer(u)] \in Nat
    BY PeerFacts
  <1>3. Head(wire[s]).size \in Nat
    <2>1. Head(wire[s]) \in Msg
      BY <1>1
    <2> QED BY <2>1 DEF Msg
  <1>4. CASE u # s
    <2>1. wire'[u] = wire[u]
      BY <1>1, <1>4 DEF TypeOK
    <2> QED BY <1>3, <1>4, <2>1
  <1>5. CASE u = s
    <2>1. wire'[u] = Tail(wire[u])
      BY <1>1, <1>5 DEF TypeOK
    <2>2. Chain(Tail(wire[u]), T, lo[u], hi[Peer(u)])
      BY <1>1, <1>2, <1>5, ChainTailOther
    <2>3. ty \in T => Chain(Tail(wire[u]), T, lo[u] + Head(wire[s]).size, hi[Peer(u)])
      BY <1>1, <1>2, <1>5, ChainTail
    <2> QED BY <1>3, <2>1, <2>2, <2>3
  <1> QED BY <1>4, <1>5

\* Every action preserves where its process may be.
LEMMA PcStep ==
    ASSUME TypeOK, PcOK, Next
    PROVE  PcOK'
  <1> USE DEF flags, buffers, windows, pending, history
  <1>1. ASSUME NEW a \in Procs, Frame(a), want' = want,
               a \in Threads =>
                 /\ pc'[a] \in {"wait", "woken", "data", "ext"} => Sends(a)
                 /\ pc'[a] \in {"wait", "woken"} => want[a] > 0
                 /\ pc'[a] \in {"credit", "adjust"} => Reads(a)
                 /\ pc'[a] = "feed" => Combines(a)
                 /\ pc'[a] # "feed_stderr",
               a \in Side => pc'[a] \in {"idle", "feed", "feed_stderr", "eof_close", "close"}
        PROVE  PcOK'
    BY <1>1, AtFacts DEF PcOK, Frame, Sends, Reads, Combines
  <1>2. ASSUME NEW p \in Procs, Xmit(p)
        PROVE  PcOK'
    <2>1. pc'[p] \in {"idle", "close"} /\ want' = want
      BY <1>2 DEF Xmit, TypeOK
    <2> QED BY <1>1, <1>2, <2>1, ProcessFrame
  <1>3. ASSUME NEW p \in Procs, Feed(p)
        PROVE  PcOK'
    <2>1. pc'[p] = "idle" /\ want' = want
      BY <1>3 DEF Feed, TypeOK
    <2> QED BY <1>1, <1>3, <2>1, ProcessFrame
  <1>4. ASSUME NEW s \in Side, TransportThread(s) \/ CloseTransport(s)
        PROVE  PcOK'
    <2>1. s \in Procs /\ s \notin Threads
      BY AtFacts
    <2>2. pc[s] \in {"idle", "feed", "feed_stderr", "eof_close", "close"}
      BY DEF PcOK
    <2>3. NotifyAll(s) \in [Procs -> Pc] /\ NotifyAll(s)[s] = pc[s]
      BY <2>1, <2>2, NotifyAllFacts
    <2>4. /\ want' = want
          /\ pc'[s] \in {"idle", "feed", "feed_stderr", "eof_close", "close"}
      <3>1. CASE HandleExtended(s)
        BY <2>1, <3>1 DEF HandleExtended, TypeOK
      <3>2. CASE HandleClose(s)
        BY <2>1, <2>2, <2>3, <3>2 DEF HandleClose, CloseInternal
      <3>3. CASE HandleWindowAdjust(s) \/ Unlink(s)
        BY <2>2, <2>3, <3>3 DEF HandleWindowAdjust, Unlink
      <3>4. CASE \/ HandleDead(s) \/ HandleData(s) \/ HandleEof(s)
                 \/ LoseConnection(s) \/ CloseTransport(s)
        BY <2>2, <3>4 DEF HandleDead, HandleData, HandleEof, LoseConnection, CloseTransport
      <3> QED BY <1>4, <3>1, <3>2, <3>3, <3>4 DEF TransportThread
    <2> QED BY <1>1, <1>4, <2>1, <2>4, TransportFrame
  <1>5. ASSUME NEW t \in Threads, Writing(t)
        PROVE  PcOK'
    <2>1. PICK m \in {"send", "send_stderr"}, n \in SendSizes : Send(t, m, n)
      BY <1>5 DEF Writing
    <2>2. t \in Procs /\ n > 0 /\ Sends(t) /\ SendKind(m) \in {"data", "ext"}
      BY <2>1, AtFacts, ChannelAssumption DEF Send, Idle, Sends, SendKind
    <2>3. CASE UNCHANGED want /\ pc'[t] = SendKind(m)
      BY <1>1, <1>5, <2>2, <2>3, AtFacts, ThreadFrame
    <2>4. CASE want' = [want EXCEPT ![t] = n] /\ pc'[t] = "wait"
      <3>1. Frame(t)
        BY <1>5, ThreadFrame
      <3>2. \A u \in Threads : u # t => want'[u] = want[u]
        BY <2>4 DEF TypeOK
      <3>3. want'[t] = n
        BY <2>4 DEF TypeOK
      <3> QED BY <2>2, <2>4, <3>1, <3>2, <3>3, AtFacts
              DEF PcOK, Frame, Sends, Reads, Combines
    <2>5. \/ UNCHANGED want /\ pc'[t] = SendKind(m)
          \/ want' = [want EXCEPT ![t] = n] /\ pc'[t] = "wait"
      BY <2>1, <2>2 DEF Send, Allocate, TypeOK
    <2> QED BY <2>3, <2>4, <2>5
  <1>6. ASSUME NEW t \in Threads, SendResume(t)
        PROVE  PcOK'
    <2>1. pc[t] = "woken" /\ Sends(t) /\ want[t] > 0 /\ kind[t] \in {"data", "ext"} /\ t \in Procs
      BY <1>6, AtFacts DEF SendResume, PcOK, TypeOK, DataType
    <2>2. want' = want /\ pc'[t] \in {"idle", "wait", "data", "ext"}
      BY <1>6, <2>1 DEF SendResume, Allocate, TypeOK
    <2> QED BY <1>1, <1>6, <2>1, <2>2, AtFacts, ThreadFrame DEF CallInProgress
  <1>7. ASSUME NEW t \in Threads, CheckAddWindow(t)
        PROVE  PcOK'
    <2>1. Reads(t) /\ t \in Procs
      BY <1>7, AtFacts DEF CheckAddWindow, PcOK
    <2>2. want' = want /\ pc'[t] \in {"idle", "adjust"}
      BY <1>7, <2>1 DEF CheckAddWindow, TypeOK
    <2> QED BY <1>1, <1>7, <2>1, <2>2, AtFacts, ThreadFrame DEF CallInProgress
  <1>8. ASSUME NEW t \in Threads, Reading(t)
        PROVE  PcOK'
    <2>1. Reads(t) /\ t \in Procs /\ want' = want /\ pc'[t] = "credit"
      BY <1>8, AtFacts DEF Reading, Recv, RecvStderr, Idle, Reads, TypeOK
    <2> QED BY <1>1, <1>8, <2>1, AtFacts, ThreadFrame
  <1>9. ASSUME NEW t \in Threads,
               SendTimeout(t) \/ Close(t) \/ ShutdownWrite(t) \/ ShutdownRead(t)
        PROVE  PcOK'
    <2>1. t \in Procs /\ NotifyAll(Home[t]) \in [Procs -> Pc]
      BY AtFacts, NotifyAllFacts
    <2>2. want' = want /\ pc'[t] \in {"idle", "eof", "eof_close", "close"}
      BY <1>9, <2>1 DEF SendTimeout, Close, CloseInternal, ShutdownWrite, ShutdownRead,
                        Idle, TypeOK
    <2> QED BY <1>1, <1>9, <2>1, <2>2, AtFacts, ThreadFrame
  <1>10. ASSUME NEW t \in Threads, NEW combine \in BOOLEAN, SetCombineStderr(t, combine)
         PROVE  PcOK'
    <2>1. t \in Procs /\ Combines(t)
      BY <1>10, AtFacts DEF SetCombineStderr, Idle, Combines
    <2>2. want' = want /\ pc'[t] \in {"idle", "feed"}
      BY <1>10, <2>1 DEF SetCombineStderr, TypeOK
    <2> QED BY <1>1, <1>10, <2>1, <2>2, AtFacts, ThreadFrame
  <1> QED BY <1>2, <1>3, <1>4, <1>5, <1>6, <1>7, <1>8, <1>9, <1>10
          DEF Next, CallInProgress
-----------------------------------------------------------------------------
\* The books of both ends, as the step proofs use them.
Books ==
    \A s \in Side : SentBook(s) /\ ReadBook(s) /\ GrantBook(s)

Chains ==
    \A s \in Side : DataChain(s) /\ AdjustChain(s)

\* A step of a that touches neither the wire nor a counter of the books.
LEMMA QuietStep ==
    ASSUME TypeOK, Books, Chains, NEW a \in Procs, Frame(a),
           UNCHANGED <<wire, in_buffer, in_stderr_buffer, windows,
                       sent, delivered, read, granted, credited>>,
           a \in Threads => pc'[a] \notin {"data", "ext", "credit", "adjust"},
           pc'[a] \notin {"feed", "feed_stderr"}
    PROVE  Books' /\ Chains'
  <1>1. ASSUME NEW s \in Side
        PROVE  SentBook(s)' /\ ReadBook(s)' /\ GrantBook(s)'
    <2>1. Accepted(s)' = Accepted(s)
      BY DEF Accepted, windows
    <2>2. SentBook(s) /\ ReadBook(s) /\ GrantBook(s)
      BY DEF Books
    <2>3. SentBook(s)'
      BY <2>1, <2>2, SentBookFrame DEF DataType
    <2>4. ReadBook(s)'
      BY <2>2, ReadBookFrame
    <2>5. GrantBook(s)'
      BY <2>2, GrantBookFrame DEF windows
    <2> QED BY <2>3, <2>4, <2>5
  <1>2. Chains'
    BY DEF Chains, DataChain, AdjustChain, Chain
  <1> QED BY <1>1, <1>2 DEF Books

\* Taking a packet of a type without bytes off the wire, or dropping one.
LEMMA ReceiveOther ==
    ASSUME TypeOK, Chains, NEW s \in Side, NEW ty, Receives(s, ty),
           UNCHANGED <<sent, delivered, granted, credited>>
    PROVE  Chains'
  <1>1. ASSUME NEW u \in Side
        PROVE  DataChain(u)' /\ AdjustChain(u)'
    <2>1. /\ delivered \in [Side -> Nat] /\ sent \in [Side -> Nat]
          /\ credited \in [Side -> Nat] /\ granted \in [Side -> Nat]
      BY DEF TypeOK
    <2>2. /\ Chain(wire[u], DataType, delivered[u], sent[Peer(u)])
          /\ Chain(wire[u], {"adjust"}, credited[u], granted[Peer(u)])
      BY DEF Chains, DataChain, AdjustChain
    <2>3. Chain(wire'[u], DataType, delivered[u], sent[Peer(u)])
      BY <2>1, <2>2, ChainsReceive
    <2>4. Chain(wire'[u], {"adjust"}, credited[u], granted[Peer(u)])
      BY <2>1, <2>2, ChainsReceive
    <2> QED BY <2>3, <2>4 DEF DataChain, AdjustChain
  <1> QED BY <1>1 DEF Chains

\* The transport thread's steps keep the books.
LEMMA TransportBooks ==
    ASSUME TypeOK, TypeOK', PcOK, PcOK', Books, Chains, NEW s \in Side,
           TransportThread(s) \/ CloseTransport(s)
    PROVE  Books' /\ Chains'
  <1> USE DEF flags, buffers, pending, history
  <1>1. s \in Procs /\ s \notin Threads /\ Frame(s)
    BY AtFacts, TransportFrame
  <1>2. ASSUME UNCHANGED <<in_buffer, in_stderr_buffer, windows, sent, delivered,
                           read, granted, credited>>,
               \/ pc'[s] \notin {"feed", "feed_stderr"}
               \/ pc'[s] = pc[s] /\ held'[s] = held[s]
        PROVE  Books'
    <2>1. ASSUME NEW u \in Side
          PROVE  SentBook(u)' /\ ReadBook(u)' /\ GrantBook(u)'
      <3>1. Accepted(u)' = Accepted(u)
        BY <1>2 DEF Accepted, windows
      <3>2. SentBook(u) /\ ReadBook(u) /\ GrantBook(u)
        BY DEF Books
      <3>3. SentBook(u)'
        BY <1>1, <1>2, <3>1, <3>2, SentBookFrame
      <3>4. ReadBook(u)'
        BY <1>1, <1>2, <3>2, ReadBookFrame
      <3>5. GrantBook(u)'
        BY <1>1, <1>2, <3>2, GrantBookFrame DEF windows
      <3> QED BY <3>3, <3>4, <3>5
    <2> QED BY <2>1 DEF Books
  <1>3. NotifyAll(s) \in [Procs -> Pc] /\ (pc[s] = "idle" => NotifyAll(s)[s] = "idle")
    BY <1>1, NotifyAllFacts
  <1>4. CASE HandleDead(s)
    <2>1. Chains'
      BY <1>4, ReceiveOther DEF HandleDead
    <2>2. pc'[s] = "idle"
      BY <1>4 DEF HandleDead, Receives
    <2> QED BY <1>2, <1>4, <2>1, <2>2 DEF HandleDead
  <1>5. CASE HandleEof(s)
    <2>1. Chains'
      BY <1>5, ReceiveOther DEF HandleEof
    <2>2. pc'[s] = "idle"
      BY <1>5 DEF HandleEof, Receives
    <2> QED BY <1>2, <1>5, <2>1, <2>2 DEF HandleEof
  <1>6. CASE HandleClose(s)
    <2>1. Chains'
      BY <1>6, ReceiveOther DEF HandleClose
    <2>2. pc'[s] \in {"idle", "close", "eof_close"}
      BY <1>1, <1>3, <1>6 DEF HandleClose, CloseInternal, Receives
    <2> QED BY <1>2, <1>6, <2>1, <2>2 DEF HandleClose
  <1>7. CASE LoseConnection(s) \/ CloseTransport(s) \/ Unlink(s)
    <2>1. /\ UNCHANGED <<wire, in_buffer, in_stderr_buffer, windows, sent, delivered,
                         read, granted, credited>>
          /\ held' = held
      BY <1>7 DEF LoseConnection, CloseTransport, Unlink
    <2>2. pc'[s] = pc[s]
      <3>1. pc[s] # "wait"
        BY DEF PcOK
      <3>2. NotifyAll(s)[s] = pc[s]
        BY <1>1, <3>1, NotifyAllFacts
      <3> QED BY <1>7, <3>2 DEF LoseConnection, CloseTransport, Unlink
    <2>3. Books'
      BY <1>2, <2>1, <2>2
    <2>4. Chains'
      BY <2>1 DEF Chains, DataChain, AdjustChain, Chain
    <2> QED BY <2>3, <2>4
  <1>8. /\ delivered \in [Side -> Nat] /\ sent \in [Side -> Nat]
        /\ credited \in [Side -> Nat] /\ granted \in [Side -> Nat]
        /\ \A u \in Side : /\ Chain(wire[u], DataType, delivered[u], sent[Peer(u)])
                           /\ Chain(wire[u], {"adjust"}, credited[u], granted[Peer(u)])
                           /\ SentBook(u) /\ ReadBook(u) /\ GrantBook(u)
    BY DEF TypeOK, Books, Chains, DataChain, AdjustChain
  <1>9. CASE HandleData(s) \/ HandleExtended(s)
    <2> DEFINE k == Head(wire[s]).size
    <2>1. PICK ty \in DataType : Receives(s, ty)
      BY <1>9 DEF HandleData, HandleExtended, DataType
    <2>2. /\ delivered' = [delivered EXCEPT ![s] = @ + k]
          /\ UNCHANGED <<sent, read, granted, credited, windows>>
      BY <1>9 DEF HandleData, HandleExtended, windows
    <2>3. k \in Nat
      BY <1>8, <2>1, ChainsReceive
    <2>4. ASSUME NEW u \in Side
          PROVE  DataChain(u)' /\ AdjustChain(u)'
      <3>1. /\ Chain(wire'[u], DataType, delivered[u], sent[Peer(u)])
            /\ u = s => Chain(wire'[u], DataType, delivered[u] + k, sent[Peer(u)])
        BY <1>8, <2>1, ChainsReceive
      <3>2. Chain(wire'[u], {"adjust"}, credited[u], granted[Peer(u)])
        BY <1>8, <2>1, ChainsReceive
      <3>3. delivered'[u] = IF u = s THEN delivered[u] + k ELSE delivered[u]
        BY <1>8, <2>2
      <3> QED BY <2>2, <3>1, <3>2, <3>3 DEF DataChain, AdjustChain
    <2>5. ASSUME NEW u \in Side
          PROVE  SentBook(u)' /\ GrantBook(u)'
      <3>1. Accepted(u)' = Accepted(u)
        BY <2>2 DEF Accepted, windows
      <3> QED BY <1>1, <1>8, <2>2, <3>1, SentBookFrame, GrantBookFrame DEF windows
    <2>6. ASSUME NEW u \in Side, u # s
          PROVE  ReadBook(u)'
      <3>1. /\ read'[u] = read[u] /\ in_buffer'[u] = in_buffer[u]
            /\ in_stderr_buffer'[u] = in_stderr_buffer[u] /\ delivered'[u] = delivered[u]
        <4>1. CASE HandleData(s)
          BY <2>6, <4>1 DEF HandleData, TypeOK
        <4>2. CASE HandleExtended(s)
          BY <2>6, <4>2 DEF HandleExtended, TypeOK
        <4> QED BY <1>9, <4>1, <4>2
      <3>2. u \in Procs /\ u \notin Threads /\ (\A t \in Threads : t \in Procs /\ t # s)
        BY AtFacts
      <3>3. \A p \in Procs \ {s} : /\ InHand(p, {"feed"})' = InHand(p, {"feed"})
                                   /\ InHand(p, {"feed", "feed_stderr"})'
                                      = InHand(p, {"feed", "feed_stderr"})
        BY <1>1 DEF Frame, InHand
      <3> QED BY <1>8, <2>6, <3>1, <3>2, <3>3 DEF ReadBook
    <2>7. ReadBook(s)'
      <3> DEFINE F == {"feed", "feed_stderr"}
      <3>1. \A t \in Threads : InHand(t, {"feed"})' = InHand(t, {"feed"})
        BY <1>1, AtFacts DEF Frame, InHand
      <3>2. pc[s] = "idle"
        BY <2>1 DEF Receives
      <3>3. InHand(s, F) = 0
        BY <3>2 DEF InHand
      <3>4. /\ in_buffer'[s] + in_stderr_buffer'[s] + InHand(s, F)'
               = in_buffer[s] + in_stderr_buffer[s] + k
            /\ in_buffer'[s] \in Nat /\ in_stderr_buffer'[s] \in Nat /\ InHand(s, F)' \in Nat
            /\ in_buffer[s] \in Nat /\ in_stderr_buffer[s] \in Nat
        <4>1. CASE HandleData(s)
          <5>1. in_buffer[s] \in Nat /\ in_stderr_buffer[s] \in Nat
            BY DEF TypeOK
          <5>2. in_buffer'[s] = in_buffer[s] + k /\ in_stderr_buffer'[s] = in_stderr_buffer[s]
            BY <4>1 DEF HandleData, TypeOK
          <5>3. InHand(s, F)' = 0
            BY <3>2, <4>1 DEF HandleData, InHand
          <5> HIDE DEF k
          <5> QED BY <2>3, <5>1, <5>2, <5>3
        <4>2. CASE HandleExtended(s)
          BY <1>1, <2>3, <4>2 DEF HandleExtended, InHand, TypeOK
        <4> QED BY <1>9, <4>1, <4>2
      <3>5. /\ delivered'[s] = delivered[s] + k /\ read'[s] = read[s]
            /\ delivered[s] \in Nat /\ read[s] \in Nat
        BY <2>2 DEF TypeOK
      <3> HIDE DEF k, F
      <3>6. read'[s] + in_buffer'[s] + in_stderr_buffer'[s] + InHand(s, F)' <= delivered'[s]
        BY <1>8, <2>3, <3>3, <3>4, <3>5 DEF ReadBook, F
      <3>7. ASSUME NEW t \in Threads, Home[t] = s
            PROVE  read'[s] + in_buffer'[s] + in_stderr_buffer'[s] + InHand(s, F)'
                     + InHand(t, {"feed"})' <= delivered'[s]
        <4>1. InHand(t, {"feed"})' = InHand(t, {"feed"}) /\ InHand(t, {"feed"}) \in Nat
          BY <3>1, AtFacts DEF InHand, TypeOK
        <4>2. read[s] + in_buffer[s] + in_stderr_buffer[s] + InHand(s, F)
                + InHand(t, {"feed"}) <= delivered[s]
          BY <1>8, <3>7 DEF ReadBook, F
        <4> QED BY <2>3, <3>3, <3>4, <3>5, <4>1, <4>2
      <3> QED BY <3>6, <3>7 DEF ReadBook, F
    <2> QED BY <2>4, <2>5, <2>6, <2>7 DEF Books, Chains
  <1>10. CASE HandleWindowAdjust(s)
    <2> DEFINE k == Head(wire[s]).size
    <2>1. Receives(s, "adjust")
      BY <1>10 DEF HandleWindowAdjust
    <2>2. /\ credited' = [credited EXCEPT ![s] = @ + k]
          /\ out_window_size' = [out_window_size EXCEPT ![s] = @ + k]
          /\ UNCHANGED <<sent, read, granted, delivered, in_window_sofar,
                         in_buffer, in_stderr_buffer>>
      BY <1>10 DEF HandleWindowAdjust
    <2>3. k \in Nat
      BY <1>8, <2>1, ChainsReceive
    <2>4. ASSUME NEW u \in Side
          PROVE  DataChain(u)' /\ AdjustChain(u)'
      <3>1. Chain(wire'[u], DataType, delivered[u], sent[Peer(u)])
        BY <1>8, <2>1, ChainsReceive
      <3>2. /\ Chain(wire'[u], {"adjust"}, credited[u], granted[Peer(u)])
            /\ u = s => Chain(wire'[u], {"adjust"}, credited[u] + k, granted[Peer(u)])
        BY <1>8, <2>1, ChainsReceive
      <3>3. credited'[u] = IF u = s THEN credited[u] + k ELSE credited[u]
        BY <1>8, <2>2
      <3> QED BY <2>2, <3>1, <3>2, <3>3 DEF DataChain, AdjustChain
    <2>5. ASSUME NEW u \in Side
          PROVE  SentBook(u)' /\ ReadBook(u)' /\ GrantBook(u)'
      <3>1. Accepted(u)' = Accepted(u)
        <4>1. /\ credited[u] \in Nat /\ out_window_size[u] \in Nat /\ Window \in Nat
              /\ credited'[u] = IF u = s THEN credited[u] + k ELSE credited[u]
              /\ out_window_size'[u] = IF u = s THEN out_window_size[u] + k
                                                ELSE out_window_size[u]
          <5>1. credited[u] \in Nat /\ out_window_size[u] \in Nat
            BY DEF TypeOK
          <5>2. credited'[u] = IF u = s THEN credited[u] + k ELSE credited[u]
            BY <2>2 DEF TypeOK
          <5>3. out_window_size'[u] = IF u = s THEN out_window_size[u] + k
                                                ELSE out_window_size[u]
            BY <2>2 DEF TypeOK
          <5> QED BY <5>1, <5>2, <5>3, ChannelAssumption
        <4> HIDE DEF k
        <4> QED BY <2>3, <4>1 DEF Accepted
      <3>2. pc'[s] = "idle"
        BY <1>3, <1>10 DEF HandleWindowAdjust, Receives
      <3>3. SentBook(u)'
        BY <1>1, <1>8, <2>2, <3>1, SentBookFrame
      <3>4. ReadBook(u)'
        BY <1>1, <1>8, <2>2, <3>2, ReadBookFrame
      <3>5. GrantBook(u)'
        BY <1>1, <1>8, <2>2, GrantBookFrame
      <3> QED BY <3>3, <3>4, <3>5
    <2> QED BY <2>4, <2>5 DEF Books, Chains
  <1> QED BY <1>4, <1>5, <1>6, <1>7, <1>9, <1>10 DEF TransportThread

\* Transmitting a packet keeps the books: what the thread held is now sent
\* or granted, and the packet continues the chain of its sort.
LEMMA XmitBooks ==
    ASSUME TypeOK, TypeOK', PcOK, OneThreadPerRole, Books, Chains,
           NEW p \in Procs, Xmit(p)
    PROVE  Books' /\ Chains'
  <1> USE DEF flags, buffers, pending
  <1> DEFINE s == At(p)
             h == held[p]
             m == Packet(s, pc[p], h)
  <1>1. /\ s \in Side /\ Peer(s) \in Side /\ h \in Nat /\ pc[p] \in Transmit
        /\ sent[s] \in Nat /\ granted[s] \in Nat
    BY AtFacts, PeerFacts DEF Xmit, TypeOK
  <1>2. /\ Frame(p) /\ pc'[p] \in {"idle", "close"}
        /\ UNCHANGED <<in_buffer, in_stderr_buffer, windows, delivered, read, credited>>
    <2>1. UNCHANGED <<in_buffer, in_stderr_buffer, windows, delivered, read, credited>>
      BY DEF Xmit
    <2>2. pc' = [pc EXCEPT ![p] = IF @ = "eof_close" THEN "close" ELSE "idle"]
      BY DEF Xmit
    <2>3. pc \in [Procs -> Pc]
      BY DEF TypeOK
    <2>4. pc'[p] \in {"idle", "close"}
      BY <2>2, <2>3
    <2> QED BY <2>1, <2>4, ProcessFrame
  <1>3. p \in Side => pc[p] \notin DataType \cup {"adjust"}
    BY DEF PcOK, DataType
  <1>4. ASSUME transport[s] # "running"
        PROVE  Books' /\ Chains'
    <2>1. UNCHANGED <<wire, sent, granted>>
      BY <1>4 DEF Xmit
    <2> QED BY <1>2, <2>1, QuietStep
  <1>5. ASSUME transport[s] = "running"
        PROVE  Books' /\ Chains'
    <2> DEFINE d == IF pc[p] \in DataType THEN h ELSE 0
               g == IF pc[p] = "adjust" THEN h ELSE 0
    <2>1. /\ wire' = [wire EXCEPT ![Peer(s)] = Append(@, m)]
          /\ sent' = [sent EXCEPT ![s] = @ + d]
          /\ granted' = [granted EXCEPT ![s] = @ + g]
      BY <1>5 DEF Xmit
    <2>2. d \in Nat /\ g \in Nat
      BY <1>1
    <2>3. /\ m \in Msg /\ m.size = h
          /\ (m.type \in DataType <=> pc[p] \in DataType)
          /\ (m.type = "adjust" <=> pc[p] = "adjust")
          /\ (pc[p] \in DataType => m.upto = sent[s] + h)
          /\ (pc[p] = "adjust" => m.upto = granted[s] + h)
      BY <1>1 DEF Packet, Msg, MsgType, Transmit, DataType
    <2> HIDE DEF s, h, m, d, g
    <2>4. ASSUME NEW u \in Side
          PROVE  /\ sent'[u] = IF u = s THEN sent[u] + d ELSE sent[u]
                 /\ granted'[u] = IF u = s THEN granted[u] + g ELSE granted[u]
                 /\ wire'[u] = IF u = Peer(s) THEN Append(wire[u], m) ELSE wire[u]
      <3>1. /\ sent \in [Side -> Nat] /\ granted \in [Side -> Nat]
            /\ wire \in [Side -> Seq(Msg)]
        BY DEF TypeOK
      <3>2. sent'[u] = IF u = s THEN sent[u] + d ELSE sent[u]
        BY <2>1, <3>1
      <3>3. granted'[u] = IF u = s THEN granted[u] + g ELSE granted[u]
        BY <2>1, <3>1
      <3>4. wire'[u] = IF u = Peer(s) THEN Append(wire[u], m) ELSE wire[u]
        BY <2>1, <3>1
      <3> QED BY <3>2, <3>3, <3>4
    <2>5. ASSUME NEW u \in Side
          PROVE  SentBook(u)'
      <3>1. Accepted(u)' = Accepted(u) /\ Accepted(u) \in Int /\ sent[u] \in Nat
        BY <1>2, ChannelAssumption DEF Accepted, windows, TypeOK
      <3>2. SentBook(u)
        BY DEF Books
      <3>3. CASE u # s \/ d = 0
        <4>1. sent'[u] = sent[u]
          BY <2>4, <3>1, <3>3
        <4> QED BY <1>2, <3>1, <3>2, <4>1, SentBookFrame DEF DataType
      <3>4. CASE u = s /\ d # 0
        <4>1. /\ pc[p] \in DataType /\ d = h /\ p \in Threads /\ Home[p] = u /\ Sends(p)
          BY <1>3, <3>4, AtFacts DEF d, s, PcOK, DataType, Procs
        <4>2. sent[u] + h <= Accepted(u)
          BY <3>2, <4>1 DEF SentBook, InHand, h
        <4>3. sent'[u] = sent[u] + h
          BY <2>4, <3>4, <4>1
        <4>4. ASSUME NEW t \in Threads, Home[t] = u
              PROVE  InHand(t, DataType)' = 0
          <5>1. CASE t = p
            BY <1>2, <5>1 DEF InHand, DataType
          <5>2. CASE t # p
            <6>1. ~Sends(t)
              BY <4>1, <4>4, <5>2 DEF OneThreadPerRole
            <6>2. pc[t] \notin {"wait", "data", "ext"}
              BY <6>1 DEF PcOK
            <6> QED BY <1>2, <5>2, <6>2, AtFacts DEF Frame, InHand, DataType
          <5> QED BY <5>1, <5>2
        <4> QED BY <1>1, <3>1, <4>2, <4>3, <4>4 DEF SentBook
      <3> QED BY <3>3, <3>4
    <2>6. ASSUME NEW u \in Side
          PROVE  ReadBook(u)'
      <3>1. ReadBook(u)
        BY DEF Books
      <3> QED BY <1>2, <3>1, ReadBookFrame
    <2>7. ASSUME NEW u \in Side
          PROVE  GrantBook(u)'
      <3> DEFINE C == {"credit", "adjust"}
      <3>1. GrantBook(u) /\ granted[u] \in Nat /\ in_window_sofar[u] \in Nat /\ read[u] \in Nat
        BY DEF Books, TypeOK
      <3>2. in_window_sofar'[u] = in_window_sofar[u] /\ read'[u] = read[u]
        BY <1>2 DEF windows
      <3>3. CASE u # s \/ g = 0
        <4>1. granted'[u] = granted[u]
          BY <2>4, <3>1, <3>3
        <4> QED BY <1>2, <3>1, <3>2, <4>1, GrantBookFrame
      <3>4. CASE u = s /\ g # 0
        <4>1. /\ pc[p] = "adjust" /\ g = h /\ p \in Threads /\ Home[p] = u /\ Reads(p)
          BY <1>3, <3>4, AtFacts DEF g, s, PcOK, Procs
        <4>2. granted[u] + in_window_sofar[u] + h <= read[u]
          BY <3>1, <4>1 DEF GrantBook, InHand, h
        <4>3. granted'[u] = granted[u] + h
          BY <2>4, <3>4, <4>1
        <4>4. ASSUME NEW t \in Threads, Home[t] = u
              PROVE  InHand(t, C)' = 0
          <5>1. CASE t = p
            BY <1>2, <5>1 DEF InHand
          <5>2. CASE t # p
            <6>1. ~Reads(t)
              BY <4>1, <4>4, <5>2 DEF OneThreadPerRole
            <6>2. pc[t] \notin C
              BY <6>1 DEF PcOK
            <6> QED BY <1>2, <5>2, <6>2, AtFacts DEF Frame, InHand
          <5> QED BY <5>1, <5>2
        <4> QED BY <1>1, <3>1, <3>2, <4>2, <4>3, <4>4 DEF GrantBook
      <3> QED BY <3>3, <3>4
    <2>8. ASSUME NEW u \in Side
          PROVE  DataChain(u)' /\ AdjustChain(u)'
      <3>1. /\ wire[u] \in Seq(Msg) /\ delivered[u] \in Nat /\ credited[u] \in Nat
            /\ Peer(u) \in Side /\ sent[Peer(u)] \in Nat /\ granted[Peer(u)] \in Nat
            /\ (u = Peer(s) <=> Peer(u) = s)
        BY <1>1, PeerFacts DEF TypeOK
      <3>2. /\ Chain(wire[u], DataType, delivered[u], sent[Peer(u)])
            /\ Chain(wire[u], {"adjust"}, credited[u], granted[Peer(u)])
        BY DEF Chains, DataChain, AdjustChain
      <3>3. CASE u # Peer(s)
        <4>1. /\ wire'[u] = wire[u] /\ sent'[Peer(u)] = sent[Peer(u)]
              /\ granted'[Peer(u)] = granted[Peer(u)]
          BY <2>4, <3>1, <3>3
        <4> QED BY <1>2, <3>2, <4>1 DEF DataChain, AdjustChain
      <3>4. CASE u = Peer(s)
        <4>1. /\ wire'[u] = Append(wire[u], m) /\ Peer(u) = s
              /\ sent'[Peer(u)] = sent[s] + d /\ granted'[Peer(u)] = granted[s] + g
          BY <2>4, <3>1, <3>4
        <4>2. Chain(wire'[u], DataType, delivered[u], sent[s] + d)
          <5>1. CASE pc[p] \in DataType
            <6>1. d = m.size /\ m.upto = sent[s] + m.size
              BY <2>3, <5>1 DEF d
            <6> QED BY <1>1, <2>3, <3>1, <3>2, <4>1, <6>1, ChainAppend
          <5>2. CASE pc[p] \notin DataType
            <6>1. d = 0 /\ m.type \notin DataType /\ sent[s] + 0 = sent[s]
              BY <1>1, <2>3, <5>2 DEF d
            <6> QED BY <1>1, <2>3, <3>1, <3>2, <4>1, <6>1, ChainAppendOther
          <5> QED BY <5>1, <5>2
        <4>3. Chain(wire'[u], {"adjust"}, credited[u], granted[s] + g)
          <5>1. CASE pc[p] = "adjust"
            <6>1. g = m.size /\ m.upto = granted[s] + m.size
              BY <2>3, <5>1 DEF g
            <6> QED BY <1>1, <2>3, <3>1, <3>2, <4>1, <6>1, ChainAppend
          <5>2. CASE pc[p] # "adjust"
            <6>1. g = 0 /\ m.type \notin {"adjust"} /\ granted[s] + 0 = granted[s]
              BY <1>1, <2>3, <5>2 DEF g
            <6> QED BY <1>1, <2>3, <3>1, <3>2, <4>1, <6>1, ChainAppendOther
          <5> QED BY <5>1, <5>2
        <4> QED BY <1>2, <4>1, <4>2, <4>3 DEF DataChain, AdjustChain
      <3> QED BY <3>3, <3>4
    <2> QED BY <2>5, <2>6, <2>7, <2>8 DEF Books, Chains
  <1> QED BY <1>4, <1>5

\* Feeding a buffer moves bytes from a process's hand into it.
LEMMA FeedBooks ==
    ASSUME TypeOK, TypeOK', PcOK, OneThreadPerRole, Books, Chains,
           NEW p \in Procs, Feed(p)
    PROVE  Books' /\ Chains'
  <1> USE DEF flags, pending, history
  <1> DEFINE F == {"feed", "feed_stderr"}
             s == At(p)
             h == held[p]
  <1>1. /\ s \in Side /\ h \in Nat /\ Frame(p) /\ pc[p] \in F /\ pc'[p] = "idle"
        /\ UNCHANGED <<wire, windows, sent, delivered, read, granted, credited>>
    <2>1. s \in Side /\ h \in Nat /\ Frame(p)
      BY AtFacts, ProcessFrame DEF TypeOK
    <2>2. pc[p] \in F /\ pc'[p] = "idle"
      BY DEF Feed, TypeOK
    <2> QED BY <2>1, <2>2 DEF Feed
  <1>2. Chains'
    BY <1>1 DEF Chains, DataChain, AdjustChain, Chain
  <1>3. ASSUME NEW u \in Side
        PROVE  SentBook(u)' /\ GrantBook(u)'
    <2>1. Accepted(u)' = Accepted(u) /\ SentBook(u) /\ GrantBook(u)
      BY <1>1 DEF Accepted, windows, Books
    <2> QED BY <1>1, <2>1, SentBookFrame, GrantBookFrame DEF DataType, windows
  <1>4. ASSUME NEW u \in Side, u # s
        PROVE  ReadBook(u)'
    <2>1. in_buffer'[u] = in_buffer[u] /\ in_stderr_buffer'[u] = in_stderr_buffer[u]
      BY <1>4 DEF Feed, TypeOK
    <2>2. ReadBook(u)
      BY DEF Books
    <2> QED BY <1>1, <2>1, <2>2, ReadBookFrame
  <1>5. ReadBook(s)'
    <2> DEFINE known == read[s] + in_buffer[s] + in_stderr_buffer[s]
    <2>1. /\ read[s] \in Nat /\ in_buffer[s] \in Nat /\ in_stderr_buffer[s] \in Nat
          /\ delivered[s] \in Nat /\ s \in Procs
      BY <1>1, AtFacts DEF TypeOK
    <2>2. /\ in_buffer'[s] \in Nat /\ in_stderr_buffer'[s] \in Nat
          /\ in_buffer'[s] + in_stderr_buffer'[s] = in_buffer[s] + in_stderr_buffer[s] + h
      <3>1. CASE pc[p] = "feed"
        <4>1. in_buffer'[s] = in_buffer[s] + h /\ in_stderr_buffer'[s] = in_stderr_buffer[s]
          BY <1>1, <3>1 DEF Feed, TypeOK
        <4> HIDE DEF h
        <4> QED BY <1>1, <2>1, <4>1
      <3>2. CASE pc[p] = "feed_stderr"
        <4>1. in_buffer'[s] = in_buffer[s] /\ in_stderr_buffer'[s] = in_stderr_buffer[s] + h
          BY <1>1, <3>2 DEF Feed, TypeOK
        <4> HIDE DEF h
        <4> QED BY <1>1, <2>1, <4>1
      <3> QED BY <1>1, <3>1, <3>2
    <2>3. ReadBook(s)
      BY <1>1 DEF Books
    <2>4. CASE p \in Side
      <3>1. p = s /\ (\A t \in Threads : t \in Procs /\ t # p)
        BY <2>4, AtFacts
      <3>2. InHand(s, F) = h /\ InHand(s, F)' = 0
        BY <1>1, <3>1 DEF InHand
      <3>3. \A t \in Threads : /\ InHand(t, {"feed"})' = InHand(t, {"feed"})
                               /\ InHand(t, {"feed"}) \in Nat
        BY <1>1, <3>1 DEF Frame, InHand, TypeOK
      <3> HIDE DEF s, h, F
      <3>4. read'[s] + in_buffer'[s] + in_stderr_buffer'[s] + InHand(s, F)' <= delivered'[s]
        BY <1>1, <2>1, <2>2, <2>3, <3>2 DEF ReadBook, F
      <3>5. ASSUME NEW t \in Threads, Home[t] = s
            PROVE  read'[s] + in_buffer'[s] + in_stderr_buffer'[s] + InHand(s, F)'
                     + InHand(t, {"feed"})' <= delivered'[s]
        <4>1. read[s] + in_buffer[s] + in_stderr_buffer[s] + InHand(s, F)
                + InHand(t, {"feed"}) <= delivered[s]
          BY <2>3, <3>5 DEF ReadBook, F
        <4> QED BY <1>1, <2>1, <2>2, <3>2, <3>3, <4>1
      <3> QED BY <3>4, <3>5 DEF ReadBook, F
    <2>5. CASE p \in Threads
      <3>1. /\ s = Home[p] /\ s # p /\ pc[p] = "feed" /\ Combines(p)
        BY <1>1, <2>5, AtFacts DEF PcOK
      <3>2. InHand(p, {"feed"}) = h /\ InHand(p, {"feed"})' = 0
        BY <1>1, <3>1 DEF InHand
      <3>3. InHand(s, F)' = InHand(s, F) /\ InHand(s, F) \in Nat
        BY <1>1, <2>1, <3>1 DEF Frame, InHand, TypeOK
      <3>4. ASSUME NEW t \in Threads, Home[t] = s
            PROVE  InHand(t, {"feed"})' = 0
        <4>1. CASE t = p
          BY <3>2, <4>1
        <4>2. CASE t # p
          <5>1. ~Combines(t)
            BY <2>5, <3>1, <3>4, <4>2 DEF OneThreadPerRole
          <5>2. pc[t] # "feed"
            BY <5>1 DEF PcOK
          <5> QED BY <1>1, <4>2, <5>2, AtFacts DEF Frame, InHand
        <4> QED BY <4>1, <4>2
      <3> HIDE DEF s, h, F
      <3>5. read[s] + in_buffer[s] + in_stderr_buffer[s] + InHand(s, F) + h <= delivered[s]
        BY <2>3, <2>5, <3>1, <3>2 DEF ReadBook, F
      <3>6. read'[s] + in_buffer'[s] + in_stderr_buffer'[s] + InHand(s, F)' <= delivered'[s]
        BY <1>1, <2>1, <2>2, <3>3, <3>5
      <3>7. ASSUME NEW t \in Threads, Home[t] = s
            PROVE  read'[s] + in_buffer'[s] + in_stderr_buffer'[s] + InHand(s, F)'
                     + InHand(t, {"feed"})' <= delivered'[s]
        BY <1>1, <2>1, <2>2, <3>3, <3>4, <3>5, <3>7
      <3> QED BY <3>6, <3>7 DEF ReadBook, F
    <2> QED BY <2>4, <2>5 DEF Procs
  <1> QED BY <1>2, <1>3, <1>4, <1>5 DEF Books

\* Allocating window for a packet: the bytes are accepted and in hand.
LEMMA AllocateBooks ==
    ASSUME TypeOK, PcOK, Books, Chains, NEW t \in Threads, Frame(t),
           NEW k \in DataType, NEW n \in Nat, Allocate(t, k, n),
           UNCHANGED <<wire, in_buffer, in_stderr_buffer, in_window_sofar,
                       sent, delivered, read, granted, credited>>
    PROVE  Books' /\ Chains'
  <1> DEFINE s == Home[t]
             size == Smaller(Smaller(n, out_window_size[s]), MaxPacket)
  <1>1. /\ s \in Side /\ t \in Procs /\ out_window_size[s] \in Nat /\ MaxPacket \in Nat
        /\ Window \in Nat
    BY AtFacts, ChannelAssumption DEF TypeOK
  <1>2. size \in Nat /\ size <= out_window_size[s]
    BY <1>1 DEF Smaller
  <1> HIDE DEF size
  <1>3. /\ out_window_size' = [out_window_size EXCEPT ![s] = @ - size]
        /\ held'[t] = size /\ pc'[t] = k /\ k \in {"data", "ext"}
    BY <1>1 DEF Allocate, size, TypeOK, DataType
  <1>4. Chains'
    BY DEF Chains, DataChain, AdjustChain, Chain
  <1>5. ASSUME NEW u \in Side
        PROVE  ReadBook(u)' /\ GrantBook(u)'
    <2>1. ReadBook(u) /\ GrantBook(u)
      BY DEF Books
    <2> QED BY <1>1, <1>3, <2>1, ReadBookFrame, GrantBookFrame
  <1>6. ASSUME NEW u \in Side
        PROVE  SentBook(u)'
    <2>1. SentBook(u) /\ sent[u] \in Nat /\ Accepted(u) \in Int
      BY <1>1 DEF Books, Accepted, TypeOK
    <2>2. Accepted(u)' = IF u = s THEN Accepted(u) + size ELSE Accepted(u)
      <3>1. /\ credited[u] \in Nat /\ out_window_size[u] \in Nat
            /\ out_window_size'[u] = IF u = s THEN out_window_size[u] - size
                                              ELSE out_window_size[u]
        BY <1>3 DEF TypeOK
      <3> QED BY <1>1, <1>2, <3>1 DEF Accepted
    <2>3. ASSUME NEW v \in Threads, Home[v] = u
          PROVE  sent[u] + InHand(v, DataType)' <= Accepted(u)'
      <3>1. CASE v = t
        <4>1. u = s /\ InHand(v, DataType)' = size
          BY <1>3, <2>3, <3>1 DEF InHand
        <4>2. sent[u] <= Accepted(u)
          BY <2>1 DEF SentBook
        <4> QED BY <1>2, <2>1, <2>2, <4>1, <4>2
      <3>2. CASE v # t
        <4>1. InHand(v, DataType)' = InHand(v, DataType) /\ InHand(v, DataType) \in Nat
          BY <3>2, AtFacts DEF Frame, InHand, DataType, TypeOK
        <4>2. sent[u] + InHand(v, DataType) <= Accepted(u)
          BY <2>1, <2>3 DEF SentBook
        <4> QED BY <1>2, <2>1, <2>2, <4>1, <4>2
      <3> QED BY <3>1, <3>2
    <2>4. sent[u] <= Accepted(u)'
      BY <1>2, <2>1, <2>2 DEF SentBook
    <2> QED BY <2>3, <2>4 DEF SentBook
  <1> QED BY <1>4, <1>5, <1>6 DEF Books

\* _check_add_window: bytes read are withheld in in_window_sofar, turned
\* into a WINDOW_ADJUST, or dropped with the channel.
LEMMA CheckAddWindowBooks ==
    ASSUME TypeOK, TypeOK', PcOK, OneThreadPerRole, Books, Chains,
           NEW t \in Threads, CheckAddWindow(t)
    PROVE  Books' /\ Chains'
  <1> USE DEF flags, buffers, pending, history
  <1> DEFINE s == Home[t]
             C == {"credit", "adjust"}
             total == in_window_sofar[s] + held[t]
  <1>1. s \in Side /\ t \in Procs /\ Frame(t) /\ Reads(t) /\ pc[t] = "credit"
    BY AtFacts, ThreadFrame DEF CallInProgress, CheckAddWindow, PcOK
  <1>2. /\ UNCHANGED <<wire, in_buffer, in_stderr_buffer, out_window_size,
                       sent, delivered, read, granted, credited>>
        /\ pc'[t] \in {"idle", "adjust"}
    BY <1>1 DEF CheckAddWindow, TypeOK
  <1>3. Chains'
    BY <1>2 DEF Chains, DataChain, AdjustChain, Chain
  <1>4. ASSUME NEW u \in Side
        PROVE  SentBook(u)' /\ ReadBook(u)'
    <2>1. Accepted(u)' = Accepted(u) /\ SentBook(u) /\ ReadBook(u)
      BY <1>2 DEF Accepted, Books
    <2> QED BY <1>1, <1>2, <2>1, SentBookFrame, ReadBookFrame DEF DataType
  <1>5. ASSUME NEW u \in Side, u # s
        PROVE  GrantBook(u)'
    <2>1. in_window_sofar'[u] = in_window_sofar[u]
      BY <1>5 DEF CheckAddWindow, TypeOK
    <2>2. GrantBook(u)
      BY DEF Books
    <2>3. \A v \in Threads : Home[v] = u => InHand(v, C)' = InHand(v, C)
      BY <1>1, <1>5, AtFacts DEF Frame, InHand
    <2> QED BY <1>2, <2>1, <2>2, <2>3 DEF GrantBook
  <1>6. GrantBook(s)'
    <2>1. /\ GrantBook(s) /\ in_window_sofar[s] \in Nat /\ held[t] \in Nat
          /\ granted[s] \in Nat /\ read[s] \in Nat
      BY <1>1 DEF Books, TypeOK
    <2>2. granted[s] + in_window_sofar[s] + held[t] <= read[s]
      BY <1>1, <2>1 DEF GrantBook, InHand
    <2>3. /\ in_window_sofar'[s] \in Nat /\ InHand(t, C)' \in Nat
          /\ in_window_sofar'[s] + InHand(t, C)' <= in_window_sofar[s] + held[t]
      <3>1. CASE closed[s] \/ eof_received[s]
        <4>1. in_window_sofar'[s] = in_window_sofar[s] /\ pc'[t] = "idle"
          BY <1>1, <3>1 DEF CheckAddWindow, TypeOK
        <4>2. InHand(t, C)' = 0
          BY <4>1 DEF InHand
        <4> QED BY <2>1, <4>1, <4>2
      <3>2. CASE ~(closed[s] \/ eof_received[s]) /\ total <= in_window_threshold
        <4>1. in_window_sofar'[s] = total /\ pc'[t] = "idle"
          BY <1>1, <3>2 DEF CheckAddWindow, AckFor, SofarAfter, TypeOK
        <4>2. InHand(t, C)' = 0
          BY <4>1 DEF InHand
        <4> QED BY <2>1, <4>1, <4>2
      <3>3. CASE ~(closed[s] \/ eof_received[s]) /\ ~(total <= in_window_threshold)
        <4>1. in_window_sofar'[s] = 0 /\ held'[t] = total
          BY <1>1, <3>3 DEF CheckAddWindow, AckFor, SofarAfter, TypeOK
        <4>2. InHand(t, C)' \in {0, total}
          BY <4>1 DEF InHand
        <4> QED BY <2>1, <4>1, <4>2
      <3> QED BY <3>1, <3>2, <3>3
    <2>4. ASSUME NEW v \in Threads, Home[v] = s
          PROVE  granted[s] + in_window_sofar'[s] + InHand(v, C)' <= read[s]
      <3>1. CASE v = t
        BY <2>1, <2>2, <2>3, <3>1
      <3>2. CASE v # t
        <4>1. ~Reads(v)
          BY <1>1, <2>4, <3>2 DEF OneThreadPerRole
        <4>2. pc[v] \notin C
          BY <4>1 DEF PcOK
        <4>3. InHand(v, C)' = 0
          BY <1>1, <3>2, <4>2, AtFacts DEF Frame, InHand
        <4> QED BY <2>1, <2>2, <2>3, <4>3
      <3> QED BY <3>1, <3>2
    <2>5. granted[s] + in_window_sofar'[s] <= read[s]
      BY <2>1, <2>2, <2>3
    <2> QED BY <1>2, <2>4, <2>5 DEF GrantBook
  <1> QED BY <1>3, <1>4, <1>5, <1>6 DEF Books

\* recv and recv_stderr take bytes out of a buffer into the reader's hand.
LEMMA ReadingBooks ==
    ASSUME TypeOK, TypeOK', PcOK, Books, Chains, NEW t \in Threads, Reading(t)
    PROVE  Books' /\ Chains'
  <1> USE DEF flags, pending
  <1> DEFINE s == Home[t]
             C == {"credit", "adjust"}
             F == {"feed", "feed_stderr"}
  <1>1. s \in Side /\ t \in Procs /\ Frame(t) /\ Window \in Nat
    BY AtFacts, ThreadFrame, ChannelAssumption
  <1>2. PICK k \in Nat :
           /\ held'[t] = k /\ pc'[t] = "credit"
           /\ read' = [read EXCEPT ![s] = @ + k]
           /\ UNCHANGED <<wire, windows, sent, delivered, granted, credited>>
           /\ \/ /\ k <= in_buffer[s] /\ in_buffer' = [in_buffer EXCEPT ![s] = @ - k]
                 /\ in_stderr_buffer' = in_stderr_buffer
              \/ /\ k <= in_stderr_buffer[s]
                 /\ in_stderr_buffer' = [in_stderr_buffer EXCEPT ![s] = @ - k]
                 /\ in_buffer' = in_buffer
    <2>1. PICK n \in RecvSizes : Recv(t, n) \/ RecvStderr(t, n)
      BY DEF Reading
    <2>2. n \in Nat /\ in_buffer[s] \in Nat /\ in_stderr_buffer[s] \in Nat
      BY <1>1, ChannelAssumption DEF TypeOK
    <2>3. CASE Recv(t, n)
      <3> DEFINE k == Smaller(n, in_buffer[s])
      <3>1. k \in Nat /\ k <= in_buffer[s]
        BY <2>2 DEF Smaller
      <3>2. /\ held'[t] = k /\ pc'[t] = "credit"
            /\ read' = [read EXCEPT ![s] = @ + k]
            /\ UNCHANGED <<wire, windows, sent, delivered, granted, credited>>
            /\ in_buffer' = [in_buffer EXCEPT ![s] = @ - k]
            /\ in_stderr_buffer' = in_stderr_buffer
        BY <1>1, <2>3 DEF Recv, TypeOK
      <3> HIDE DEF k
      <3> QED BY <3>1, <3>2
    <2>4. CASE RecvStderr(t, n)
      <3> DEFINE k == Smaller(n, in_stderr_buffer[s])
      <3>1. k \in Nat /\ k <= in_stderr_buffer[s]
        BY <2>2 DEF Smaller
      <3>2. /\ held'[t] = k /\ pc'[t] = "credit"
            /\ read' = [read EXCEPT ![s] = @ + k]
            /\ UNCHANGED <<wire, windows, sent, delivered, granted, credited>>
            /\ in_stderr_buffer' = [in_stderr_buffer EXCEPT ![s] = @ - k]
            /\ in_buffer' = in_buffer
        BY <1>1, <2>4 DEF RecvStderr, TypeOK
      <3> HIDE DEF k
      <3> QED BY <3>1, <3>2
    <2> QED BY <2>1, <2>3, <2>4
  <1>3. Chains'
    BY <1>2 DEF Chains, DataChain, AdjustChain, Chain
  <1>4. ASSUME NEW u \in Side
        PROVE  /\ read[u] \in Nat /\ in_buffer[u] \in Nat /\ in_stderr_buffer[u] \in Nat
               /\ in_buffer'[u] \in Nat /\ in_stderr_buffer'[u] \in Nat /\ read'[u] \in Nat
               /\ read'[u] + in_buffer'[u] + in_stderr_buffer'[u]
                  = read[u] + in_buffer[u] + in_stderr_buffer[u]
               /\ read'[u] = IF u = s THEN read[u] + k ELSE read[u]
    <2>1. /\ read[u] \in Nat /\ in_buffer[u] \in Nat /\ in_stderr_buffer[u] \in Nat
          /\ in_buffer'[u] \in Nat /\ in_stderr_buffer'[u] \in Nat /\ read'[u] \in Nat
      BY DEF TypeOK
    <2>2. read'[u] = IF u = s THEN read[u] + k ELSE read[u]
      <3>1. read \in [Side -> Nat]
        BY DEF TypeOK
      <3> QED BY <1>2, <3>1
    <2>3. \/ /\ in_buffer'[u] = IF u = s THEN in_buffer[u] - k ELSE in_buffer[u]
             /\ in_stderr_buffer'[u] = in_stderr_buffer[u]
          \/ /\ in_stderr_buffer'[u] = IF u = s THEN in_stderr_buffer[u] - k
                                                ELSE in_stderr_buffer[u]
             /\ in_buffer'[u] = in_buffer[u]
      <3>1. DOMAIN in_buffer = Side /\ DOMAIN in_stderr_buffer = Side
        BY DEF TypeOK
      <3>2. CASE /\ in_buffer' = [in_buffer EXCEPT ![s] = @ - k]
                 /\ in_stderr_buffer' = in_stderr_buffer
        BY <3>1, <3>2
      <3>3. CASE /\ in_stderr_buffer' = [in_stderr_buffer EXCEPT ![s] = @ - k]
                 /\ in_buffer' = in_buffer
        BY <3>1, <3>3
      <3> QED BY <1>2, <3>2, <3>3
    <2> QED BY <1>2, <2>1, <2>2, <2>3
  <1>5. ASSUME NEW u \in Side
        PROVE  SentBook(u)'
    <2>1. Accepted(u)' = Accepted(u) /\ SentBook(u)
      BY <1>2 DEF Accepted, windows, Books
    <2> QED BY <1>1, <1>2, <2>1, SentBookFrame DEF DataType
  <1>6. ASSUME NEW u \in Side
        PROVE  ReadBook(u)'
    <2>1. ReadBook(u) /\ delivered[u] \in Nat /\ delivered'[u] = delivered[u] /\ u \in Procs /\ u # t
      BY <1>2, AtFacts DEF Books, TypeOK
    <2>2. InHand(u, F)' = InHand(u, F) /\ InHand(u, F) \in Nat
      BY <1>1, <2>1 DEF Frame, InHand, TypeOK
    <2>3. ASSUME NEW v \in Threads
          PROVE  /\ InHand(v, {"feed"})' \in Nat /\ InHand(v, {"feed"}) \in Nat
                 /\ InHand(v, {"feed"})' <= InHand(v, {"feed"})
      <3>1. v \in Procs /\ held[v] \in Nat /\ held'[v] \in Nat
        BY AtFacts DEF TypeOK
      <3>2. CASE v = t
        BY <1>2, <3>1, <3>2 DEF InHand
      <3>3. CASE v # t
        BY <1>1, <3>1, <3>3 DEF Frame, InHand
      <3> QED BY <3>2, <3>3
    <2>4. /\ read'[u] + in_buffer'[u] + in_stderr_buffer'[u]
             = read[u] + in_buffer[u] + in_stderr_buffer[u]
          /\ read[u] + in_buffer[u] + in_stderr_buffer[u] \in Nat
      BY <1>4
    <2>5. read[u] + in_buffer[u] + in_stderr_buffer[u] + InHand(u, F) <= delivered[u]
      BY <2>1 DEF ReadBook
    <2>6. ASSUME NEW v \in Threads, Home[v] = u
          PROVE  read[u] + in_buffer[u] + in_stderr_buffer[u] + InHand(u, F)
                   + InHand(v, {"feed"})' <= delivered[u]
      <3>1. read[u] + in_buffer[u] + in_stderr_buffer[u] + InHand(u, F)
              + InHand(v, {"feed"}) <= delivered[u]
        BY <2>1, <2>6 DEF ReadBook
      <3> QED BY <2>1, <2>2, <2>3, <2>4, <3>1
    <2> QED BY <2>1, <2>2, <2>4, <2>5, <2>6 DEF ReadBook
  <1>7. ASSUME NEW u \in Side
        PROVE  GrantBook(u)'
    <2>1. /\ GrantBook(u) /\ granted[u] \in Nat /\ in_window_sofar[u] \in Nat
          /\ granted'[u] = granted[u] /\ in_window_sofar'[u] = in_window_sofar[u]
      BY <1>2 DEF Books, TypeOK, windows
    <2>2. granted[u] + in_window_sofar[u] <= read[u]
      BY <2>1 DEF GrantBook
    <2>3. ASSUME NEW v \in Threads, Home[v] = u
          PROVE  granted[u] + in_window_sofar[u] + InHand(v, C)' <= read'[u]
      <3>1. CASE v = t
        <4>1. InHand(v, C)' = k /\ read'[u] = read[u] + k
          BY <1>2, <1>4, <2>3, <3>1 DEF InHand
        <4> QED BY <1>2, <1>4, <2>1, <2>2, <4>1
      <3>2. CASE v # t
        <4>1. InHand(v, C)' = InHand(v, C) /\ InHand(v, C) \in Nat
          BY <1>1, <3>2, AtFacts DEF Frame, InHand, TypeOK
        <4>2. granted[u] + in_window_sofar[u] + InHand(v, C) <= read[u]
          BY <2>1, <2>3 DEF GrantBook
        <4> QED BY <1>2, <1>4, <2>1, <4>1, <4>2
      <3> QED BY <3>1, <3>2
    <2>4. granted[u] + in_window_sofar[u] <= read'[u]
      BY <1>2, <1>4, <2>1, <2>2
    <2> QED BY <2>1, <2>3, <2>4 DEF GrantBook
  <1> QED BY <1>3, <1>5, <1>6, <1>7 DEF Books

\* set_combine_stderr takes the stderr buffer into the caller's hand.
LEMMA CombineBooks ==
    ASSUME TypeOK, TypeOK', PcOK, OneThreadPerRole, Books, Chains,
           NEW t \in Threads, NEW combine \in BOOLEAN, SetCombineStderr(t, combine)
    PROVE  Books' /\ Chains'
  <1> USE DEF flags, pending, history
  <1> DEFINE s == Home[t]
             F == {"feed", "feed_stderr"}
             d == IF combine /\ ~combine_stderr[s] THEN in_stderr_buffer[s] ELSE 0
  <1>1. s \in Side /\ t \in Procs /\ Frame(t) /\ Combines(t)
    BY AtFacts, ThreadFrame DEF SetCombineStderr, Idle, Combines
  <1>2. /\ UNCHANGED <<wire, in_buffer, windows, sent, delivered, read, granted, credited>>
        /\ in_stderr_buffer' = [in_stderr_buffer EXCEPT ![s] = @ - d]
        /\ held'[t] = d /\ pc'[t] \in {"idle", "feed"}
    BY <1>1 DEF SetCombineStderr, TypeOK
  <1>3. d \in Nat /\ d <= in_stderr_buffer[s]
    <2>1. in_stderr_buffer[s] \in Nat
      BY <1>1 DEF TypeOK
    <2>2. CASE combine /\ ~combine_stderr[s]
      BY <2>1, <2>2
    <2>3. CASE ~(combine /\ ~combine_stderr[s])
      BY <2>1, <2>3
    <2> QED BY <2>2, <2>3
  <1> HIDE DEF d
  <1>4. Chains'
    BY <1>2 DEF Chains, DataChain, AdjustChain, Chain
  <1>5. ASSUME NEW u \in Side
        PROVE  SentBook(u)' /\ GrantBook(u)'
    <2>1. Accepted(u)' = Accepted(u) /\ SentBook(u) /\ GrantBook(u)
      BY <1>2 DEF Accepted, windows, Books
    <2> QED BY <1>1, <1>2, <2>1, SentBookFrame, GrantBookFrame DEF DataType, windows
  <1>6. ASSUME NEW u \in Side
        PROVE  ReadBook(u)'
    <2>1. /\ read[u] \in Nat /\ in_buffer[u] \in Nat /\ in_stderr_buffer[u] \in Nat
          /\ delivered[u] \in Nat /\ u \in Procs /\ u # t /\ ReadBook(u)
      BY AtFacts DEF TypeOK, Books
    <2>2. in_stderr_buffer'[u] = IF u = s THEN in_stderr_buffer[u] - d ELSE in_stderr_buffer[u]
      BY <1>2 DEF TypeOK
    <2>3. InHand(u, F)' = InHand(u, F) /\ InHand(u, F) \in Nat
      BY <1>1, <2>1 DEF Frame, InHand, TypeOK
    <2>4. read[u] + in_buffer[u] + in_stderr_buffer[u] + InHand(u, F) <= delivered[u]
      BY <2>1 DEF ReadBook
    <2>5. ASSUME NEW v \in Threads, Home[v] = u
          PROVE  read[u] + in_buffer[u] + in_stderr_buffer'[u] + InHand(u, F)
                   + InHand(v, {"feed"})' <= delivered[u]
      <3>1. CASE v = t
        <4>1. InHand(v, {"feed"})' \in {0, d} /\ u = s
          BY <1>2, <2>5, <3>1 DEF InHand
        <4> QED BY <1>3, <2>1, <2>2, <2>3, <2>4, <4>1
      <3>2. CASE v # t
        <4>1. InHand(v, {"feed"})' = InHand(v, {"feed"}) /\ InHand(v, {"feed"}) \in Nat
          BY <1>1, <3>2, AtFacts DEF Frame, InHand, TypeOK
        <4>2. read[u] + in_buffer[u] + in_stderr_buffer[u] + InHand(u, F)
                + InHand(v, {"feed"}) <= delivered[u]
          BY <2>1, <2>5 DEF ReadBook
        <4> QED BY <1>3, <2>1, <2>2, <2>3, <4>1, <4>2
      <3> QED BY <3>1, <3>2
    <2>6. read[u] + in_buffer[u] + in_stderr_buffer'[u] + InHand(u, F) <= delivered[u]
      BY <1>3, <2>1, <2>2, <2>3, <2>4
    <2> QED BY <1>2, <2>3, <2>5, <2>6 DEF ReadBook
  <1> QED BY <1>4, <1>5, <1>6 DEF Books

\* Every action preserves the inductive invariant.
LEMMA FlowStep ==
    ASSUME OneThreadPerRole, FlowInv, [Next]_vars
    PROVE  FlowInv'
  <1> USE DEF flags, buffers, pending, history
  <1>1. TypeOK /\ PcOK /\ Books /\ Chains
    BY DEF FlowInv, Books, Chains
  <1>2. TypeOK'
    BY <1>1, TypeStep
  <1>3. SUFFICES PcOK' /\ Books' /\ Chains'
    BY <1>2 DEF FlowInv, Books, Chains
  <1>4. CASE UNCHANGED vars
    BY <1>1, <1>4 DEF vars, windows, PcOK, Books, Chains, SentBook, ReadBook, GrantBook,
                      DataChain, AdjustChain, Chain, InHand, Accepted
  <1>5. CASE Next
    <2>1. PcOK'
      BY <1>1, <1>5, PcStep
    <2>2. ASSUME NEW p \in Procs, Xmit(p)
          PROVE  Books' /\ Chains'
      BY <1>1, <1>2, <2>2, XmitBooks
    <2>3. ASSUME NEW p \in Procs, Feed(p)
          PROVE  Books' /\ Chains'
      BY <1>1, <1>2, <2>3, FeedBooks
    <2>4. ASSUME NEW s \in Side, TransportThread(s) \/ CloseTransport(s)
          PROVE  Books' /\ Chains'
      BY <1>1, <1>2, <2>1, <2>4, TransportBooks
    <2>5. ASSUME NEW t \in Threads, Writing(t)
          PROVE  Books' /\ Chains'
      <3>1. PICK m \in {"send", "send_stderr"}, n \in SendSizes : Send(t, m, n)
        BY <2>5 DEF Writing
      <3>2. /\ t \in Procs /\ n \in Nat /\ SendKind(m) \in DataType /\ Frame(t)
            /\ UNCHANGED <<wire, in_buffer, in_stderr_buffer, in_window_sofar,
                           sent, delivered, read, granted, credited>>
        <4>1. n \in Nat /\ SendKind(m) \in DataType
          BY ChannelAssumption DEF SendKind, DataType
        <4>2. t \in Procs /\ Frame(t)
          BY <1>1, <2>5, AtFacts, ThreadFrame
        <4> QED BY <3>1, <4>1, <4>2 DEF Send
      <3>3. CASE Allocate(t, SendKind(m), n)
        BY <1>1, <3>2, <3>3, AllocateBooks
      <3>4. CASE pc' = [pc EXCEPT ![t] = "wait"] /\ UNCHANGED <<out_window_size, held>>
        <4>1. pc'[t] = "wait"
          BY <1>1, <3>2, <3>4 DEF TypeOK
        <4> QED BY <1>1, <3>2, <3>4, <4>1, QuietStep DEF windows
      <3> QED BY <3>1, <3>3, <3>4 DEF Send
    <2>6. ASSUME NEW t \in Threads, SendResume(t)
          PROVE  Books' /\ Chains'
      <3>1. /\ t \in Procs /\ want[t] \in Nat /\ kind[t] \in DataType /\ Frame(t)
            /\ UNCHANGED <<wire, in_buffer, in_stderr_buffer, in_window_sofar,
                           sent, delivered, read, granted, credited>>
        <4>1. want[t] \in Nat /\ kind[t] \in DataType
          BY <1>1 DEF TypeOK
        <4>2. t \in Procs /\ Frame(t)
          BY <1>1, <2>6, AtFacts, ThreadFrame DEF CallInProgress
        <4> QED BY <2>6, <4>1, <4>2 DEF SendResume
      <3>2. CASE Allocate(t, kind[t], want[t])
        BY <1>1, <3>1, <3>2, AllocateBooks
      <3>3. CASE /\ \E c \in {"idle", "wait"} : pc' = [pc EXCEPT ![t] = c]
                 /\ UNCHANGED <<out_window_size, held>>
        <4>1. pc'[t] \in {"idle", "wait"}
          BY <1>1, <3>1, <3>3 DEF TypeOK
        <4> QED BY <1>1, <3>1, <3>3, <4>1, QuietStep DEF windows
      <3> QED BY <2>6, <3>2, <3>3 DEF SendResume
    <2>7. ASSUME NEW t \in Threads, CheckAddWindow(t)
          PROVE  Books' /\ Chains'
      BY <1>1, <1>2, <2>7, CheckAddWindowBooks
    <2>8. ASSUME NEW t \in Threads, Reading(t)
          PROVE  Books' /\ Chains'
      BY <1>1, <1>2, <2>8, ReadingBooks
    <2>9. ASSUME NEW t \in Threads,
                 SendTimeout(t) \/ Close(t) \/ ShutdownWrite(t) \/ ShutdownRead(t)
          PROVE  Books' /\ Chains'
      <3>1. /\ t \in Procs /\ Frame(t) /\ NotifyAll(Home[t]) \in [Procs -> Pc]
        BY <1>1, <2>9, AtFacts, ThreadFrame, NotifyAllFacts
      <3>2. pc'[t] \in {"idle", "eof", "eof_close", "close"}
        BY <1>1, <2>9, <3>1 DEF SendTimeout, Close, CloseInternal, ShutdownWrite,
                                ShutdownRead, Idle, TypeOK
      <3>3. UNCHANGED <<wire, in_buffer, in_stderr_buffer, windows,
                        sent, delivered, read, granted, credited>>
        BY <2>9 DEF SendTimeout, Close, ShutdownWrite, ShutdownRead
      <3> QED BY <1>1, <3>1, <3>2, <3>3, QuietStep
    <2>10. ASSUME NEW t \in Threads, NEW combine \in BOOLEAN, SetCombineStderr(t, combine)
           PROVE  Books' /\ Chains'
      BY <1>1, <1>2, <2>10, CombineBooks
    <2>11. Books' /\ Chains'
      BY <1>5, <2>2, <2>3, <2>4, <2>5, <2>6, <2>7, <2>8, <2>9, <2>10
      DEF Next, CallInProgress
    <2> QED BY <2>1, <2>11
  <1> QED BY <1>4, <1>5

LEMMA FlowInit ==
    ASSUME Init
    PROVE  FlowInv
  <1>1. TypeOK
    BY ChannelAssumption, AtFacts DEF Init, TypeOK, Pc, DataType
  <1>2. PcOK
    BY AtFacts DEF Init, PcOK
  <1>3. ASSUME NEW s \in Side
        PROVE  SentBook(s) /\ ReadBook(s) /\ GrantBook(s) /\ DataChain(s) /\ AdjustChain(s)
    <2>1. Peer(s) \in Side /\ Window \in Nat /\ s \in Procs /\ (\A t \in Threads : t \in Procs)
      BY PeerFacts, AtFacts, ChannelAssumption
    <2> QED BY <2>1 DEF Init, SentBook, ReadBook, GrantBook, DataChain, AdjustChain, Chain,
                        InHand, Accepted
  <1> QED BY <1>1, <1>2, <1>3 DEF FlowInv

\* What the books say about one direction: the bytes accepted by the sender
\* and not yet read are at least those in the reader's buffers, and fit into
\* the window together with what the sender may still send.
LEMMA BooksBalance ==
    ASSUME FlowInv, NEW s \in Side
    PROVE  /\ Unread(s) \in Nat
           /\ Unread(s) + out_window_size[s] <= Window
           /\ in_buffer[Peer(s)] + in_stderr_buffer[Peer(s)] <= Unread(s)
  <1> DEFINE p == Peer(s)
             F == {"feed", "feed_stderr"}
  <1>1. p \in Side /\ Peer(p) = s /\ p \in Procs /\ Window \in Nat
    BY PeerFacts, AtFacts, ChannelAssumption
  <1>2. /\ TypeOK /\ SentBook(s) /\ ReadBook(p) /\ GrantBook(p) /\ DataChain(p) /\ AdjustChain(s)
    BY <1>1 DEF FlowInv
  <1>3. /\ sent[s] \in Nat /\ delivered[p] \in Nat /\ read[p] \in Nat /\ granted[p] \in Nat
        /\ credited[s] \in Nat /\ out_window_size[s] \in Nat /\ in_buffer[p] \in Nat
        /\ in_stderr_buffer[p] \in Nat /\ in_window_sofar[p] \in Nat /\ InHand(p, F) \in Nat
    BY <1>1, <1>2 DEF TypeOK, InHand
  <1>4. sent[s] <= Accepted(s) /\ delivered[p] <= sent[s] /\ credited[s] <= granted[p]
    BY <1>1, <1>2 DEF SentBook, DataChain, AdjustChain, Chain
  <1>5. read[p] + in_buffer[p] + in_stderr_buffer[p] + InHand(p, F) <= delivered[p]
    BY <1>2 DEF ReadBook
  <1>6. granted[p] + in_window_sofar[p] <= read[p]
    BY <1>2 DEF GrantBook
  <1>7. Accepted(s) = Window + credited[s] - out_window_size[s]
    BY DEF Accepted
  <1>8. Unread(s) = Accepted(s) - read[p]
    BY DEF Unread
  <1> HIDE DEF p, F
  <1>9. Unread(s) \in Nat /\ Unread(s) + out_window_size[s] <= Window
    BY <1>1, <1>3, <1>4, <1>5, <1>6, <1>7, <1>8
  <1>10. in_buffer[p] + in_stderr_buffer[p] <= Unread(s)
    BY <1>1, <1>3, <1>4, <1>5, <1>7, <1>8
  <1> QED BY <1>9, <1>10 DEF p

\* The books of both directions balance at every step of every thread: no
\* byte accepted by send is counted twice by the reader, and no byte of window
\* is granted twice by _check_add_window, for every window and packet size.
THEOREM BooksKept ==
    ASSUME OneThreadPerRole
    PROVE  Spec => []FlowInv
  <1>1. Init => FlowInv
    BY FlowInit
  <1>2. FlowInv /\ [Next]_vars => FlowInv'
    BY FlowStep
  <1> QED BY <1>1, <1>2, PTL DEF Spec

\* The receiver never holds more unread bytes than the window it advertised,
\* for every window, packet size and interleaving, whatever is closed, shut
\* down or lost on the way (_wait_for_send_window against _check_add_window).
THEOREM WindowSafe ==
    ASSUME OneThreadPerRole
    PROVE  Spec => []WindowRespected
  <1>1. FlowInv => WindowRespected
    <2> SUFFICES ASSUME FlowInv, NEW s \in Side
                 PROVE  in_buffer[s] + in_stderr_buffer[s] <= Window
      BY DEF WindowRespected
    <2>1. Peer(s) \in Side /\ Peer(Peer(s)) = s /\ Window \in Nat
      BY PeerFacts, ChannelAssumption
    <2>2. /\ Unread(Peer(s)) \in Nat
          /\ Unread(Peer(s)) + out_window_size[Peer(s)] <= Window
          /\ in_buffer[s] + in_stderr_buffer[s] <= Unread(Peer(s))
      BY <2>1, BooksBalance
    <2>3. /\ out_window_size[Peer(s)] \in Nat /\ in_buffer[s] \in Nat
          /\ in_stderr_buffer[s] \in Nat
      BY <2>1 DEF FlowInv, TypeOK
    <2> QED BY <2>1, <2>2, <2>3
  <1> QED BY <1>1, BooksKept, PTL

\* The refinement mapping, as state functions.
Used == [s \in Side |-> Unread(s)]
Ended == [s \in Side |-> eof_sent[s] \/ closed[s]]

\* A step that leaves both state functions alone is a stutter of the stream.
LEMMA StreamStutter ==
    ASSUME \A s \in Side : Unread(s)' = Unread(s), UNCHANGED <<closed, eof_sent>>
    PROVE  UNCHANGED <<Used, Ended>>
  BY DEF Used, Ended

\* The bytes that _wait_for_send_window allocates are put into the stream.
LEMMA StreamPut ==
    ASSUME FlowInv, NEW t \in Threads, NEW k, NEW n \in Nat \ {0}, Allocate(t, k, n),
           out_window_size[Home[t]] > 0, MayWrite(Home[t]),
           UNCHANGED <<closed, eof_sent, read, credited>>
    PROVE  Stream!Put(Home[t])
  <1> DEFINE s == Home[t]
             size == Smaller(Smaller(n, out_window_size[s]), MaxPacket)
  <1>1. s \in Side /\ Window \in Nat /\ MaxPacket \in Nat \ {0}
    BY AtFacts, ChannelAssumption
  <1>2. \A u \in Side : out_window_size[u] \in Nat /\ credited[u] \in Nat /\ read[u] \in Nat
    BY DEF FlowInv, TypeOK
  <1>3. size \in 1 .. out_window_size[s]
    BY <1>1, <1>2 DEF Smaller
  <1>4. out_window_size' = [out_window_size EXCEPT ![s] = @ - size]
    BY DEF Allocate
  <1> HIDE DEF size
  <1>5. Unread(s) \in Nat /\ Unread(s) + out_window_size[s] <= Window
    BY <1>1, BooksBalance
  <1>6. size \in 1 .. (Window - Unread(s))
    BY <1>1, <1>2, <1>3, <1>5
  <1>7. ASSUME NEW u \in Side
        PROVE  Unread(u)' = IF u = s THEN Unread(u) + size ELSE Unread(u)
    <2>1. out_window_size'[u] = IF u = s THEN out_window_size[u] - size ELSE out_window_size[u]
      BY <1>4 DEF FlowInv, TypeOK
    <2>2. Peer(u) \in Side /\ size \in Int
      BY <1>3, PeerFacts
    <2> QED BY <1>1, <1>2, <2>1, <2>2 DEF Unread, Accepted
  <1>8. Used' = [Used EXCEPT ![s] = @ + size]
    BY <1>1, <1>7 DEF Used
  <1>9. ~Ended[s] /\ Used[s] = Unread(s) /\ Ended' = Ended
    BY <1>1 DEF Ended, Used, MayWrite
  <1> QED BY <1>6, <1>8, <1>9 DEF Stream!Put, Used, Ended

\* The k bytes a read returns are taken out of the peer's stream.
LEMMA StreamGet ==
    ASSUME FlowInv, NEW s \in Side, NEW k \in Nat,
           k <= in_buffer[s] + in_stderr_buffer[s],
           read' = [read EXCEPT ![s] = @ + k],
           UNCHANGED <<closed, eof_sent, windows, credited>>
    PROVE  Stream!Get(Peer(s)) \/ UNCHANGED <<Used, Ended>>
  <1> DEFINE p == Peer(s)
  <1>1. p \in Side /\ Peer(p) = s /\ Window \in Nat
    BY PeerFacts, ChannelAssumption
  <1>2. \A u \in Side : /\ out_window_size[u] \in Nat /\ credited[u] \in Nat /\ read[u] \in Nat
                        /\ in_buffer[u] \in Nat /\ in_stderr_buffer[u] \in Nat
    BY DEF FlowInv, TypeOK
  <1>3. Unread(p) \in Nat /\ in_buffer[s] + in_stderr_buffer[s] <= Unread(p)
    BY <1>1, BooksBalance
  <1>4. k <= Unread(p)
    BY <1>2, <1>3
  <1>5. ASSUME NEW u \in Side
        PROVE  Unread(u)' = IF u = p THEN Unread(u) - k ELSE Unread(u)
    <2>1. Peer(u) \in Side /\ (Peer(u) = s <=> u = p)
      BY PeerFacts, <1>1
    <2>2. read'[Peer(u)] = IF u = p THEN read[Peer(u)] + k ELSE read[Peer(u)]
      BY <2>1 DEF FlowInv, TypeOK
    <2> QED BY <1>1, <1>2, <2>1, <2>2 DEF Unread, Accepted, windows
  <1>6. CASE k = 0
    <2>1. \A u \in Side : Unread(u) \in Nat
      BY BooksBalance
    <2> QED BY <1>5, <1>6, <2>1, StreamStutter
  <1>7. CASE k > 0
    <2>1. Used' = [Used EXCEPT ![p] = @ - k] /\ Used[p] = Unread(p)
      BY <1>1, <1>5 DEF Used
    <2>2. k \in 1 .. Unread(p)
      BY <1>3, <1>4, <1>7
    <2>3. Ended' = Ended
      BY DEF Ended
    <2> QED BY <2>1, <2>2, <2>3 DEF Stream!Get, Used, Ended
  <1> QED BY <1>6, <1>7

\* Closing or shutting down writing shuts the stream of that end.
LEMMA StreamShut ==
    ASSUME TypeOK, NEW s \in Side,
           closed' = [closed EXCEPT ![s] = TRUE] \/ UNCHANGED closed,
           eof_sent' = [eof_sent EXCEPT ![s] = TRUE] \/ UNCHANGED eof_sent,
           UNCHANGED <<windows, credited, read>>
    PROVE  Stream!Shut(s) \/ UNCHANGED <<Used, Ended>>
  <1>1. Used' = Used
    BY DEF Used, Unread, Accepted, windows
  <1>2. CASE UNCHANGED <<closed, eof_sent>>
    BY <1>1, <1>2 DEF Ended
  <1>3. CASE \/ closed' = [closed EXCEPT ![s] = TRUE]
             \/ eof_sent' = [eof_sent EXCEPT ![s] = TRUE]
    <2>1. Ended' = [Ended EXCEPT ![s] = TRUE]
      BY <1>3 DEF Ended, TypeOK
    <2> QED BY <1>1, <2>1 DEF Stream!Shut, Used, Ended
  <1> QED BY <1>2, <1>3

\* Every step of the channel is a step of one stream, or a stutter of both.
LEMMA StreamStep ==
    ASSUME FlowInv, [Next]_vars
    PROVE  [Stream!Next]_<<Used, Ended>>
  <1> USE DEF flags, windows, pending, history
  <1>1. TypeOK /\ PcOK
    BY DEF FlowInv
  <1>2. ASSUME NEW s \in Side, Stream!Put(s) \/ Stream!Get(s) \/ Stream!Shut(s)
        PROVE  Stream!Next
    BY <1>2 DEF Stream!Next
  <1>3. ASSUME UNCHANGED <<out_window_size, credited, read, closed, eof_sent>>
        PROVE  UNCHANGED <<Used, Ended>>
    BY <1>3 DEF Used, Ended, Unread, Accepted
  <1>4. CASE UNCHANGED vars
    BY <1>3, <1>4 DEF vars
  <1>5. ASSUME NEW p \in Procs, Xmit(p) \/ Feed(p)
        PROVE  UNCHANGED <<Used, Ended>>
    BY <1>3, <1>5 DEF Xmit, Feed
  <1>6. ASSUME NEW s \in Side, TransportThread(s) \/ CloseTransport(s)
        PROVE  [Stream!Next]_<<Used, Ended>>
    <2>1. CASE HandleWindowAdjust(s)
      <3>1. wire[s] \in Seq(Msg) /\ wire[s] # <<>>
        BY <1>1, <2>1 DEF HandleWindowAdjust, Receives, TypeOK
      <3>2. Head(wire[s]) \in Msg
        BY <3>1
      <3>3. Head(wire[s]).size \in Nat
        BY <3>2 DEF Msg
      <3>4. ASSUME NEW u \in Side
            PROVE  Unread(u)' = Unread(u)
        <4>1. /\ out_window_size[u] \in Nat /\ credited[u] \in Nat
              /\ read[Peer(u)] \in Nat /\ Window \in Nat
          BY <1>1, PeerFacts, ChannelAssumption DEF TypeOK
        <4>2. /\ out_window_size'[u] = IF u = s THEN out_window_size[u] + Head(wire[s]).size
                                       ELSE out_window_size[u]
              /\ credited'[u] = IF u = s THEN credited[u] + Head(wire[s]).size
                                ELSE credited[u]
              /\ read' = read
          BY <1>1, <2>1 DEF HandleWindowAdjust, TypeOK
        <4> QED BY <3>3, <4>1, <4>2 DEF Unread, Accepted
      <3> QED BY <2>1, <3>4, StreamStutter DEF HandleWindowAdjust
    <2>2. CASE HandleClose(s) \/ Unlink(s)
      <3>1. /\ closed' = [closed EXCEPT ![s] = TRUE] \/ UNCHANGED closed
            /\ eof_sent' = [eof_sent EXCEPT ![s] = TRUE] \/ UNCHANGED eof_sent
            /\ UNCHANGED <<windows, credited, read>>
        BY <2>2 DEF HandleClose, Unlink, CloseInternal, SetClosed
      <3> QED BY <1>1, <1>2, <3>1, StreamShut
    <2>3. CASE HandleDead(s) \/ HandleData(s) \/ HandleExtended(s) \/ HandleEof(s)
               \/ LoseConnection(s) \/ CloseTransport(s)
      BY <1>3, <2>3 DEF HandleDead, HandleData, HandleExtended, HandleEof,
                        LoseConnection, CloseTransport
    <2> QED BY <1>6, <2>1, <2>2, <2>3 DEF TransportThread
  <1>7. ASSUME NEW t \in Threads, Writing(t)
        PROVE  [Stream!Next]_<<Used, Ended>>
    <2>1. PICK m \in {"send", "send_stderr"}, n \in SendSizes : Send(t, m, n)
      BY <1>7 DEF Writing
    <2>2. Home[t] \in Side /\ n \in Nat \ {0}
      BY AtFacts, ChannelAssumption
    <2>3. CASE out_window_size[Home[t]] > 0 /\ Allocate(t, SendKind(m), n)
      BY <1>2, <2>1, <2>2, <2>3, StreamPut DEF Send
    <2>4. CASE UNCHANGED <<out_window_size, held>>
      BY <1>3, <2>1, <2>4 DEF Send
    <2> QED BY <2>1, <2>3, <2>4 DEF Send
  <1>8. ASSUME NEW t \in Threads, SendResume(t)
        PROVE  [Stream!Next]_<<Used, Ended>>
    <2>1. Home[t] \in Side /\ want[t] \in Nat \ {0}
      <3>1. want[t] \in Nat
        BY <1>1 DEF TypeOK
      <3>2. want[t] > 0
        BY <1>1, <1>8 DEF SendResume, PcOK
      <3> QED BY <3>1, <3>2, AtFacts
    <2>2. CASE /\ MayWrite(Home[t]) /\ out_window_size[Home[t]] > 0
               /\ Allocate(t, kind[t], want[t])
      BY <1>2, <1>8, <2>1, <2>2, StreamPut DEF SendResume
    <2>3. CASE UNCHANGED <<out_window_size, held>>
      BY <1>3, <1>8, <2>3 DEF SendResume
    <2> QED BY <1>8, <2>2, <2>3 DEF SendResume
  <1>9. ASSUME NEW t \in Threads, Reading(t)
        PROVE  [Stream!Next]_<<Used, Ended>>
    <2> DEFINE s == Home[t]
    <2>1. PICK n \in RecvSizes : Recv(t, n) \/ RecvStderr(t, n)
      BY <1>9 DEF Reading
    <2>2. /\ s \in Side /\ Peer(s) \in Side /\ n \in Nat
          /\ in_buffer[s] \in Nat /\ in_stderr_buffer[s] \in Nat
      BY <1>1, AtFacts, PeerFacts, ChannelAssumption DEF TypeOK
    <2>3. UNCHANGED <<closed, eof_sent, windows, credited>>
      BY <2>1 DEF Recv, RecvStderr
    <2>4. CASE Recv(t, n)
      <3> DEFINE k == Smaller(n, in_buffer[s])
      <3>1. k \in Nat /\ k <= in_buffer[s] + in_stderr_buffer[s]
        BY <2>2 DEF Smaller
      <3>2. read' = [read EXCEPT ![s] = @ + k]
        BY <2>4 DEF Recv
      <3> HIDE DEF k
      <3> QED BY <1>2, <2>2, <2>3, <3>1, <3>2, StreamGet
    <2>5. CASE RecvStderr(t, n)
      <3> DEFINE k == Smaller(n, in_stderr_buffer[s])
      <3>1. k \in Nat /\ k <= in_buffer[s] + in_stderr_buffer[s]
        BY <2>2 DEF Smaller
      <3>2. read' = [read EXCEPT ![s] = @ + k]
        BY <2>5 DEF RecvStderr
      <3> HIDE DEF k
      <3> QED BY <1>2, <2>2, <2>3, <3>1, <3>2, StreamGet
    <2> QED BY <2>1, <2>4, <2>5
  <1>10. ASSUME NEW t \in Threads, Close(t) \/ ShutdownWrite(t)
         PROVE  [Stream!Next]_<<Used, Ended>>
    <2>1. Home[t] \in Side
      BY AtFacts
    <2>2. /\ closed' = [closed EXCEPT ![Home[t]] = TRUE] \/ UNCHANGED closed
          /\ eof_sent' = [eof_sent EXCEPT ![Home[t]] = TRUE] \/ UNCHANGED eof_sent
          /\ UNCHANGED <<windows, credited, read>>
      BY <1>10 DEF Close, ShutdownWrite, CloseInternal, SetClosed
    <2> QED BY <1>1, <1>2, <2>1, <2>2, StreamShut
  <1>11. ASSUME NEW t \in Threads,
                \/ CheckAddWindow(t) \/ SendTimeout(t) \/ ShutdownRead(t)
                \/ \E combine \in BOOLEAN : SetCombineStderr(t, combine)
         PROVE  UNCHANGED <<Used, Ended>>
    BY <1>3, <1>11 DEF CheckAddWindow, SendTimeout, ShutdownRead, SetCombineStderr
  <1> QED
    BY <1>4, <1>5, <1>6, <1>7, <1>8, <1>9, <1>10, <1>11 DEF Next, CallInProgress

\* Each direction of the channel implements a bounded stream that is shut
\* once and for all: send never accepts more than the peer's window has room
\* for, recv returns only accepted bytes, and nothing is accepted after
\* shutdown_write or close, whatever the interleaving.
THEOREM StreamRefined ==
    ASSUME OneThreadPerRole
    PROVE  Spec => ImplementsStream
  <1>1. Init => Stream!Init
    <2> SUFFICES ASSUME Init PROVE Stream!Init
      OBVIOUS
    <2>1. Window \in Nat /\ \A s \in Side : Peer(s) \in Side
      BY PeerFacts, ChannelAssumption
    <2>2. \A s \in Side : Unread(s) = 0 /\ (eof_sent[s] \/ closed[s]) = FALSE
      BY <2>1 DEF Init, Unread, Accepted
    <2> QED BY <2>2, Zenon DEF Stream!Init
  <1>2. FlowInv /\ [Next]_vars
        => [Stream!Next]_<<[s \in Side |-> Unread(s)],
                           [s \in Side |-> eof_sent[s] \/ closed[s]]>>
    BY StreamStep DEF Used, Ended
  <1> QED BY <1>1, <1>2, BooksKept, PTL DEF Spec, ImplementsStream, Stream!Spec
-----------------------------------------------------------------------------
(* The end of a stream.                                                    *)

\* Taking the first packet off a wire.
LEMMA ReceiveWire ==
    ASSUME TypeOK, NEW s \in Side, NEW ty \in MsgType, Receives(s, ty)
    PROVE  /\ \A q \in Side \ {s} : wire'[q] = wire[q]
           /\ 1 \in 1 .. Len(wire[s]) /\ wire[s][1] = Head(wire[s]) /\ wire[s][1].type = ty
           /\ pc[s] = "idle"
           /\ \A i \in 1 .. Len(wire'[s]) :
                 i + 1 \in 1 .. Len(wire[s]) /\ wire'[s][i] = wire[s][i + 1]
  <1> DEFINE w == wire[s]
  <1>1. w \in Seq(Msg) /\ w # <<>>
    BY DEF TypeOK, Receives
  <1>2. wire'[s] = Tail(w) /\ (\A q \in Side \ {s} : wire'[q] = wire[q])
    BY DEF TypeOK, Receives
  <1>3. Head(w).type = ty /\ pc[s] = "idle"
    BY DEF Receives
  <1> HIDE DEF w
  <1>4. 1 \in 1 .. Len(w) /\ w[1] = Head(w)
    BY <1>1
  <1>5. \A i \in 1 .. Len(Tail(w)) : i + 1 \in 1 .. Len(w) /\ Tail(w)[i] = w[i + 1]
    BY <1>1
  <1> QED BY <1>2, <1>3, <1>4, <1>5 DEF w

\* What Xmit does to the wires: one gets a packet at its end, or none does.
LEMMA XmitWire ==
    ASSUME TypeOK, NEW p \in Procs, Xmit(p), NEW s \in Side
    PROVE  \/ wire'[s] = wire[s]
           \/ /\ s = Peer(At(p)) /\ Len(wire[s]) \in Nat /\ Len(wire'[s]) = Len(wire[s]) + 1
              /\ \A i \in 1 .. Len(wire[s]) : wire'[s][i] = wire[s][i]
              /\ wire'[s][Len(wire[s]) + 1].type =
                    IF pc[p] = "eof_close" THEN "eof" ELSE pc[p]
  <1> DEFINE w == wire[s]
             m == Packet(At(p), pc[p], held[p])
  <1>1. w \in Seq(Msg) /\ At(p) \in Side /\ Peer(At(p)) \in Side
    BY AtFacts, PeerFacts DEF TypeOK
  <1>2. wire'[s] = w \/ (s = Peer(At(p)) /\ wire'[s] = Append(w, m))
    <2>1. wire' = wire \/ wire' = [wire EXCEPT ![Peer(At(p))] = Append(@, m)]
      BY DEF Xmit
    <2> QED BY <1>1, <2>1 DEF TypeOK
  <1>3. m.type = IF pc[p] = "eof_close" THEN "eof" ELSE pc[p]
    BY DEF Packet
  <1> HIDE DEF w, m
  <1>4. /\ Len(w) \in Nat /\ Len(Append(w, m)) = Len(w) + 1
        /\ \A i \in 1 .. Len(w) : Append(w, m)[i] = w[i]
        /\ Append(w, m)[Len(w) + 1] = m
    BY <1>1
  <1> QED BY <1>2, <1>3, <1>4 DEF w

\* A step of a keeps what an end has announced if it takes nothing back, and a
\* announces only what is noted.
LEMMA AnnouncedFrame ==
    ASSUME NEW a \in Procs, Frame(a), NEW s \in Side, Announced(s),
           closed[s] => closed'[s], eof_sent[s] => eof_sent'[s],
           At(a) = s => /\ pc'[a] \in {"eof", "eof_close"} => eof_sent'[s]
                        /\ pc'[a] \in {"eof_close", "close"} => closed'[s],
           \A i \in 1 .. Len(wire'[Peer(s)]) :
              /\ wire'[Peer(s)][i].type = "eof" => eof_sent'[s]
              /\ wire'[Peer(s)][i].type = "close" => closed'[s]
    PROVE  Announced(s)'
  BY DEF Announced, Frame

\* Neither closed nor eof_sent is ever reset.
LEMMA FlagsStay ==
    ASSUME TypeOK, Next, NEW s \in Side
    PROVE  (closed[s] => closed'[s]) /\ (eof_sent[s] => eof_sent'[s])
  <1> USE DEF flags, buffers, windows, pending, history
  <1>1. ASSUME NEW p \in Procs, Xmit(p) \/ Feed(p) PROVE closed' = closed /\ eof_sent' = eof_sent
    BY <1>1 DEF Xmit, Feed
  <1>2. ASSUME NEW q \in Side, TransportThread(q) \/ CloseTransport(q)
        PROVE  (closed[s] => closed'[s]) /\ (eof_sent[s] => eof_sent'[s])
    <2>1. CASE HandleClose(q)
      BY <2>1 DEF HandleClose, CloseInternal, SetClosed, TypeOK
    <2>2. CASE Unlink(q)
      BY <2>2 DEF Unlink, SetClosed, TypeOK
    <2>3. CASE \/ HandleDead(q) \/ HandleData(q) \/ HandleExtended(q) \/ HandleWindowAdjust(q)
               \/ HandleEof(q) \/ LoseConnection(q) \/ CloseTransport(q)
      BY <2>3 DEF HandleDead, HandleData, HandleExtended, HandleWindowAdjust, HandleEof,
                  LoseConnection, CloseTransport
    <2> QED BY <1>2, <2>1, <2>2, <2>3 DEF TransportThread
  <1>3. ASSUME NEW t \in Threads, Close(t) \/ ShutdownWrite(t)
        PROVE  (closed[s] => closed'[s]) /\ (eof_sent[s] => eof_sent'[s])
    BY <1>3 DEF Close, ShutdownWrite, CloseInternal, SetClosed, TypeOK
  <1>4. ASSUME NEW t \in Threads,
               \/ CallInProgress(t) \/ SendTimeout(t) \/ Writing(t) \/ Reading(t)
               \/ ShutdownRead(t) \/ \E combine \in BOOLEAN : SetCombineStderr(t, combine)
        PROVE  closed' = closed /\ eof_sent' = eof_sent
    BY <1>4 DEF CallInProgress, SendResume, CheckAddWindow, SendTimeout, Writing, Send, Reading,
                Recv, RecvStderr, ShutdownRead, SetCombineStderr
  <1> QED BY <1>1, <1>2, <1>3, <1>4 DEF Next

\* When nobody calls set_combine_stderr, nothing moves between the two pipes.
LEMMA NoFeedStep ==
    ASSUME NobodyCombines, TypeOK, PcOK, NoFeed, TypeOK', PcOK', Next
    PROVE  NoFeed'
  <1> USE DEF flags, buffers, windows, pending, history
  <1>1. \A t \in Threads : pc'[t] # "feed"
    BY DEF NobodyCombines, PcOK
  <1>2. combine_stderr' = combine_stderr
    <2>1. \A t \in Threads, combine \in BOOLEAN : ~SetCombineStderr(t, combine)
      BY DEF NobodyCombines, Combines, SetCombineStderr, Idle
    <2>2. ASSUME NEW p \in Procs, Xmit(p) \/ Feed(p) PROVE combine_stderr' = combine_stderr
      BY <2>2 DEF Xmit, Feed
    <2>3. ASSUME NEW s \in Side, TransportThread(s) \/ CloseTransport(s)
          PROVE  combine_stderr' = combine_stderr
      BY <2>3 DEF TransportThread, CloseTransport, HandleDead, HandleData, HandleExtended,
                  HandleWindowAdjust, HandleEof, HandleClose, LoseConnection, Unlink
    <2>4. ASSUME NEW t \in Threads,
                 \/ CallInProgress(t) \/ SendTimeout(t) \/ Writing(t) \/ Reading(t)
                 \/ Close(t) \/ ShutdownWrite(t) \/ ShutdownRead(t)
          PROVE  combine_stderr' = combine_stderr
      BY <2>4 DEF CallInProgress, SendResume, CheckAddWindow, SendTimeout, Writing, Send,
                  Reading, Recv, RecvStderr, Close, ShutdownWrite, ShutdownRead
    <2> QED BY <2>1, <2>2, <2>3, <2>4 DEF Next
  <1>3. ASSUME NEW q \in Side PROVE pc'[q] # "feed"
    <2>1. /\ q \in Procs /\ q \notin Threads /\ pc[q] # "feed"
          /\ pc[q] # "wait" /\ ~combine_stderr[q]
      BY AtFacts DEF NoFeed, PcOK
    <2>2. ASSUME NEW a \in Procs, a # q, Frame(a) PROVE pc'[q] # "feed"
      BY <2>1, <2>2 DEF Frame
    <2>3. ASSUME NEW p \in Procs, Xmit(p) \/ Feed(p) PROVE pc'[q] # "feed"
      <3>1. CASE p # q
        BY <2>2, <2>3, <3>1, ProcessFrame
      <3>2. CASE p = q
        <4>1. Xmit(q) => pc'[q] \in {"idle", "close"}
          BY <2>1 DEF Xmit, TypeOK
        <4>2. Feed(q) => pc'[q] = "idle"
          BY <2>1 DEF Feed, TypeOK
        <4> QED BY <2>3, <3>2, <4>1, <4>2
      <3> QED BY <3>1, <3>2
    <2>4. ASSUME NEW s \in Side, TransportThread(s) \/ CloseTransport(s) PROVE pc'[q] # "feed"
      <3>1. CASE s # q
        BY <2>2, <2>4, <3>1, TransportFrame, AtFacts
      <3>2. CASE s = q
        <4>1. NotifyAll(q) \in [Procs -> Pc] /\ NotifyAll(q)[q] = pc[q]
          BY <2>1, NotifyAllFacts
        <4>2. CASE HandleExtended(q)
          BY <2>1, <4>2 DEF HandleExtended, TypeOK
        <4>3. CASE HandleClose(q)
          BY <2>1, <4>1, <4>3 DEF HandleClose, CloseInternal
        <4>4. CASE HandleWindowAdjust(q) \/ Unlink(q)
          BY <2>1, <4>1, <4>4 DEF HandleWindowAdjust, Unlink
        <4>5. CASE \/ HandleDead(q) \/ HandleData(q) \/ HandleEof(q)
                   \/ LoseConnection(q) \/ CloseTransport(q)
          BY <2>1, <4>5 DEF HandleDead, HandleData, HandleEof, LoseConnection, CloseTransport
        <4> QED BY <2>4, <3>2, <4>2, <4>3, <4>4, <4>5 DEF TransportThread
      <3> QED BY <3>1, <3>2
    <2>5. ASSUME NEW t \in Threads,
                 \/ CallInProgress(t) \/ SendTimeout(t) \/ Writing(t) \/ Reading(t)
                 \/ Close(t) \/ ShutdownWrite(t) \/ ShutdownRead(t)
                 \/ \E combine \in BOOLEAN : SetCombineStderr(t, combine)
          PROVE  pc'[q] # "feed"
      BY <2>1, <2>2, <2>5, ThreadFrame, AtFacts
    <2> QED BY <2>3, <2>4, <2>5 DEF Next
  <1> QED BY <1>1, <1>2, <1>3 DEF NoFeed, Procs

\* Whatever process steps: an EOF or a CLOSE is noted before it is on its way.
LEMMA AnnouncedStep ==
    ASSUME TypeOK, PcOK, \A q \in Side : Announced(q), Next, NEW s \in Side
    PROVE  Announced(s)'
  <1> USE DEF flags, buffers, windows, pending, history
  <1>1. Announced(s) /\ (closed[s] => closed'[s]) /\ (eof_sent[s] => eof_sent'[s])
    BY FlagsStay
  <1>2. Peer(s) \in Side
    BY PeerFacts
  <1>3. ASSUME NEW i \in 1 .. Len(wire[Peer(s)])
        PROVE  /\ wire[Peer(s)][i].type = "eof" => eof_sent'[s]
               /\ wire[Peer(s)][i].type = "close" => closed'[s]
    BY <1>1 DEF Announced
  <1>4. ASSUME NEW a \in Procs, Frame(a), wire'[Peer(s)] = wire[Peer(s)],
               At(a) = s => /\ pc'[a] \in {"eof", "eof_close"} => eof_sent'[s]
                            /\ pc'[a] \in {"eof_close", "close"} => closed'[s]
        PROVE  Announced(s)'
    <2>1. \A i \in 1 .. Len(wire'[Peer(s)]) :
            /\ wire'[Peer(s)][i].type = "eof" => eof_sent'[s]
            /\ wire'[Peer(s)][i].type = "close" => closed'[s]
      BY <1>3, <1>4
    <2> QED BY <1>1, <1>4, <2>1, AnnouncedFrame
  <1>5. ASSUME NEW p \in Procs, Xmit(p) PROVE Announced(s)'
    <2>1. Frame(p) /\ pc'[p] \in {"idle", "close"} /\ (pc'[p] = "close" => pc[p] = "eof_close")
      BY <1>5, ProcessFrame DEF Xmit, TypeOK
    <2>2. At(p) = s => /\ pc[p] \in {"eof", "eof_close"} => eof_sent'[s]
                       /\ pc[p] \in {"eof_close", "close"} => closed'[s]
      BY <1>1 DEF Announced
    <2>3. \A i \in 1 .. Len(wire'[Peer(s)]) :
            /\ wire'[Peer(s)][i].type = "eof" => eof_sent'[s]
            /\ wire'[Peer(s)][i].type = "close" => closed'[s]
      <3>1. CASE wire'[Peer(s)] = wire[Peer(s)]
        BY <1>3, <3>1
      <3>2. CASE /\ Peer(s) = Peer(At(p)) /\ Len(wire[Peer(s)]) \in Nat
                 /\ Len(wire'[Peer(s)]) = Len(wire[Peer(s)]) + 1
                 /\ \A i \in 1 .. Len(wire[Peer(s)]) : wire'[Peer(s)][i] = wire[Peer(s)][i]
                 /\ wire'[Peer(s)][Len(wire[Peer(s)]) + 1].type =
                      IF pc[p] = "eof_close" THEN "eof" ELSE pc[p]
        <4>1. At(p) = s
          BY <3>2, AtFacts DEF Peer, Side
        <4>2. ASSUME NEW i \in 1 .. Len(wire'[Peer(s)])
              PROVE  i \in 1 .. Len(wire[Peer(s)]) \/ i = Len(wire[Peer(s)]) + 1
          BY <3>2
        <4>3. LET type == wire'[Peer(s)][Len(wire[Peer(s)]) + 1].type
              IN  (type = "eof" => eof_sent'[s]) /\ (type = "close" => closed'[s])
          BY <2>2, <3>2, <4>1
        <4> QED BY <1>3, <3>2, <4>2, <4>3
      <3> QED BY <1>2, <1>5, <3>1, <3>2, XmitWire
    <2> QED BY <1>1, <2>1, <2>2, <2>3, AnnouncedFrame
  <1>6. ASSUME NEW p \in Procs, Feed(p) PROVE Announced(s)'
    <2>1. pc'[p] = "idle" /\ wire' = wire
      BY <1>6 DEF Feed, TypeOK
    <2> QED BY <1>4, <1>6, <2>1, ProcessFrame
  <1>7. ASSUME NEW q \in Side, TransportThread(q) \/ CloseTransport(q) PROVE Announced(s)'
    <2>1. q \in Procs /\ At(q) = q /\ Frame(q)
      BY <1>7, AtFacts, TransportFrame
    <2>2. pc[q] # "wait" /\ NotifyAll(q) \in [Procs -> Pc] /\ NotifyAll(q)[q] = pc[q]
      <3>1. pc[q] # "wait"
        BY DEF PcOK
      <3> QED BY <2>1, <3>1, NotifyAllFacts
    <2>3. q = s => /\ pc[q] \in {"eof", "eof_close"} => eof_sent'[s]
                   /\ pc[q] \in {"eof_close", "close"} => closed'[s]
      BY <1>1, <2>1 DEF Announced
    <2>4. q = s => /\ pc'[q] \in {"eof", "eof_close"} => eof_sent'[s]
                   /\ pc'[q] \in {"eof_close", "close"} => closed'[s]
      <3>1. CASE HandleExtended(q)
        BY <2>1, <3>1 DEF HandleExtended, TypeOK
      <3>2. CASE HandleClose(q)
        BY <2>1, <2>2, <2>3, <3>2 DEF HandleClose, CloseInternal, SetClosed, TypeOK
      <3>3. CASE HandleWindowAdjust(q) \/ Unlink(q)
        BY <2>2, <2>3, <3>3 DEF HandleWindowAdjust, Unlink
      <3>4. CASE \/ HandleDead(q) \/ HandleData(q) \/ HandleEof(q)
                 \/ LoseConnection(q) \/ CloseTransport(q)
        BY <2>3, <3>4 DEF HandleDead, HandleData, HandleEof, LoseConnection, CloseTransport
      <3> QED BY <1>7, <3>1, <3>2, <3>3, <3>4 DEF TransportThread
    <2>5. ASSUME NEW i \in 1 .. Len(wire'[Peer(s)])
          PROVE  /\ wire'[Peer(s)][i].type = "eof" => eof_sent'[s]
                 /\ wire'[Peer(s)][i].type = "close" => closed'[s]
      <3>1. wire' = wire \/ \E ty \in MsgType : Receives(q, ty)
        BY <1>7 DEF TransportThread, CloseTransport, HandleDead, HandleData, HandleExtended,
                    HandleWindowAdjust, HandleEof, HandleClose, LoseConnection, Unlink, MsgType,
                    DataType
      <3>2. CASE wire'[Peer(s)] = wire[Peer(s)]
        BY <1>3, <2>5, <3>2
      <3>3. CASE q = Peer(s) /\ \E ty \in MsgType : Receives(q, ty)
        <4>1. i + 1 \in 1 .. Len(wire[q]) /\ wire'[q][i] = wire[q][i + 1]
          BY <2>5, <3>3, ReceiveWire
        <4> QED BY <1>3, <3>3, <4>1
      <3> QED BY <1>2, <3>1, <3>2, <3>3, ReceiveWire
    <2> QED BY <1>1, <2>1, <2>4, <2>5, AnnouncedFrame
  <1>8. ASSUME NEW t \in Threads,
               \/ CallInProgress(t) \/ SendTimeout(t) \/ Writing(t) \/ Reading(t)
               \/ Close(t) \/ ShutdownWrite(t) \/ ShutdownRead(t)
               \/ \E combine \in BOOLEAN : SetCombineStderr(t, combine)
        PROVE  Announced(s)'
    <2>1. t \in Procs /\ At(t) = Home[t] /\ Home[t] \in Side /\ Frame(t)
      BY <1>8, AtFacts, ThreadFrame
    <2>2. wire' = wire
      BY <1>8 DEF CallInProgress, SendResume, CheckAddWindow, SendTimeout, Writing, Send, Reading,
                  Recv, RecvStderr, Close, ShutdownWrite, ShutdownRead, SetCombineStderr
    <2>3. Home[t] = s => /\ pc'[t] \in {"eof", "eof_close"} => eof_sent'[s]
                         /\ pc'[t] \in {"eof_close", "close"} => closed'[s]
      <3>1. CASE Close(t)
        BY <2>1, <3>1, NotifyAllFacts DEF Close, CloseInternal, SetClosed, TypeOK
      <3>2. CASE ShutdownWrite(t)
        BY <2>1, <3>2 DEF ShutdownWrite, TypeOK
      <3>3. CASE ShutdownRead(t)
        BY <1>1, <2>1, <3>3 DEF ShutdownRead, Announced
      <3>4. CASE CallInProgress(t) \/ SendTimeout(t)
        <4>1. CASE SendResume(t)
          BY <2>1, <4>1 DEF SendResume, Allocate, TypeOK, DataType
        <4>2. CASE CheckAddWindow(t) \/ SendTimeout(t)
          BY <2>1, <4>2 DEF CheckAddWindow, SendTimeout, TypeOK
        <4> QED BY <3>4, <4>1, <4>2 DEF CallInProgress
      <3>5. CASE Writing(t)
        BY <2>1, <3>5 DEF Writing, Send, Allocate, SendKind, TypeOK
      <3>6. CASE Reading(t) \/ \E combine \in BOOLEAN : SetCombineStderr(t, combine)
        BY <2>1, <3>6 DEF Reading, Recv, RecvStderr, SetCombineStderr, TypeOK
      <3> QED BY <1>8, <3>1, <3>2, <3>3, <3>4, <3>5, <3>6
    <2> QED BY <1>4, <2>1, <2>2, <2>3
  <1> QED BY <1>5, <1>6, <1>7, <1>8 DEF Next

\* A step keeps the end of the stream of s if it gives the wire no data behind an
\* EOF, and the pipes nothing once they have ended.
LEMMA EndFrame ==
    ASSUME NEW a \in Procs, Frame(a), NEW s \in Side, EndOK(s), closed[s] => closed'[s],
           ~closed'[s] =>
             /\ eof_sent'[Peer(s)] =>
                  /\ eof_sent[Peer(s)]
                     \/ \A t \in Threads : Home[t] = Peer(s) => pc[t] \notin DataType
                  /\ a \in Threads /\ Home[a] = Peer(s) => pc'[a] \notin DataType
             /\ eof_sent[Peer(s)] => eof_sent'[Peer(s)]
             /\ EofLast(wire'[s])
             /\ pipe_closed[s] => pipe_closed'[s] /\ NoData(wire'[s])
             /\ pipe_closed'[s] =>
                  /\ pipe_closed[s] \/ (eof_sent[Peer(s)] /\ NoData(wire'[s]))
                  /\ pc'[s] # "feed_stderr"
             /\ ended'[s] # {} => pipe_closed'[s]
             /\ "out" \in ended'[s] => in_buffer'[s] = 0
             /\ "err" \in ended'[s] => in_stderr_buffer'[s] = 0
    PROVE  EndOK(s)'
  <1> SUFFICES ASSUME ~closed'[s] PROVE EndOK(s)'
    BY DEF EndOK
  <1>1. ASSUME eof_sent'[Peer(s)], NEW t \in Threads, Home[t] = Peer(s)
        PROVE  pc'[t] \notin DataType
    <2>1. pc[t] \notin DataType
      BY <1>1 DEF EndOK
    <2>2. CASE t = a
      BY <1>1, <2>2
    <2>3. CASE t # a
      BY <2>1, <2>3, AtFacts DEF Frame, DataType
    <2> QED BY <2>2, <2>3
  <1>2. pipe_closed'[s] => eof_sent'[Peer(s)] /\ NoData(wire'[s]) /\ pc'[s] # "feed_stderr"
    BY DEF EndOK
  <1> QED BY <1>1, <1>2 DEF EndOK, EofLast, NoData

\* A step that leaves the wires, the flags and what has ended alone.
LEMMA EndQuiet ==
    ASSUME NEW a \in Procs, Frame(a), NEW s \in Side, EndOK(s),
           closed[s] => closed'[s], eof_sent'[Peer(s)] = eof_sent[Peer(s)],
           wire'[s] = wire[s], pipe_closed'[s] = pipe_closed[s] \/ closed'[s],
           ended'[s] = ended[s],
           a \in Threads /\ Home[a] = Peer(s) /\ eof_sent[Peer(s)] => pc'[a] \notin DataType,
           pc'[s] = pc[s] \/ pc'[s] # "feed_stderr",
           ~closed[s] /\ pipe_closed[s] =>
             in_buffer'[s] <= in_buffer[s] /\ in_stderr_buffer'[s] <= in_stderr_buffer[s],
           in_buffer'[s] \in Nat, in_stderr_buffer'[s] \in Nat
    PROVE  EndOK(s)'
  <1>1. ~closed'[s] =>
          /\ ~closed[s] /\ EofLast(wire'[s]) /\ pipe_closed'[s] = pipe_closed[s]
          /\ pipe_closed[s] => NoData(wire'[s]) /\ pc'[s] # "feed_stderr"
          /\ ended'[s] # {} => pipe_closed'[s]
    BY DEF EndOK, EofLast, NoData
  <1>2. ~closed'[s] => /\ "out" \in ended'[s] => in_buffer'[s] = 0
                       /\ "err" \in ended'[s] => in_stderr_buffer'[s] = 0
    BY <1>1 DEF EndOK
  <1> QED BY <1>1, <1>2, EndFrame

\* The packets of a wire of which the first is taken.
LEMMA EndReceive ==
    ASSUME TypeOK, NEW q \in Side, NEW ty \in MsgType, Receives(q, ty), NEW s \in Side, EndOK(s)
    PROVE  ~closed[s] =>
             /\ EofLast(wire'[s])
             /\ NoData(wire[s]) => NoData(wire'[s])
             /\ q = s /\ ty = "eof" => NoData(wire'[s])
             /\ q = s /\ ty \in DataType => ~pipe_closed[s]
  <1> SUFFICES ASSUME ~closed[s] PROVE
             /\ EofLast(wire'[s])
             /\ NoData(wire[s]) => NoData(wire'[s])
             /\ q = s /\ ty = "eof" => NoData(wire'[s])
             /\ q = s /\ ty \in DataType => ~pipe_closed[s]
    OBVIOUS
  <1>1. EofLast(wire[s]) /\ (pipe_closed[s] => NoData(wire[s]))
    BY DEF EndOK
  <1>2. CASE q # s
    <2>1. wire'[s] = wire[s]
      BY <1>2, ReceiveWire
    <2> QED BY <1>1, <1>2, <2>1 DEF EofLast, NoData
  <1>3. CASE q = s
    <2>1. /\ 1 \in 1 .. Len(wire[s]) /\ wire[s][1].type = ty
          /\ \A i \in 1 .. Len(wire'[s]) :
                i + 1 \in 1 .. Len(wire[s]) /\ wire'[s][i] = wire[s][i + 1]
      BY <1>3, ReceiveWire
    <2>2. NoData(wire[s]) => NoData(wire'[s])
      BY <2>1 DEF NoData
    <2>3. ty \in DataType => ~pipe_closed[s]
      BY <1>1, <2>1 DEF NoData
    <2>4. EofLast(wire'[s])
      <3> SUFFICES ASSUME NEW i \in 1 .. Len(wire'[s]), NEW j \in 1 .. Len(wire'[s]), i < j,
                          wire'[s][i].type = "eof"
                   PROVE  wire'[s][j].type \notin DataType
        BY DEF EofLast
      <3>1. /\ i + 1 \in 1 .. Len(wire[s]) /\ wire'[s][i] = wire[s][i + 1]
            /\ j + 1 \in 1 .. Len(wire[s]) /\ wire'[s][j] = wire[s][j + 1]
        BY <2>1
      <3>2. i + 1 < j + 1
        OBVIOUS
      <3> QED BY <1>1, <3>1, <3>2 DEF EofLast
    <2>5. ty = "eof" => NoData(wire'[s])
      <3> SUFFICES ASSUME ty = "eof", NEW i \in 1 .. Len(wire'[s])
                   PROVE  wire'[s][i].type \notin DataType
        BY DEF NoData
      <3>1. i + 1 \in 1 .. Len(wire[s]) /\ wire'[s][i] = wire[s][i + 1]
        BY <2>1
      <3>2. 1 < i + 1
        OBVIOUS
      <3> QED BY <1>1, <2>1, <3>1, <3>2 DEF EofLast
    <2> QED BY <2>2, <2>3, <2>4, <2>5
  <1> QED BY <1>2, <1>3

\* The packet that Xmit gives the wire is no data behind an EOF.
LEMMA EndXmit ==
    ASSUME TypeOK, PcOK, NEW s \in Side, EndOK(s), Announced(Peer(s)), NEW p \in Procs, Xmit(p)
    PROVE  EndOK(s)'
  <1> USE DEF flags, buffers, windows, pending, history
  <1>1. /\ Frame(p) /\ pc'[p] \in {"idle", "close"} /\ closed' = closed /\ eof_sent' = eof_sent
        /\ pipe_closed' = pipe_closed /\ ended' = ended
        /\ in_buffer' = in_buffer /\ in_stderr_buffer' = in_stderr_buffer
    BY ProcessFrame DEF Xmit, TypeOK
  <1>2. Peer(s) \in Side /\ Peer(Peer(s)) = s /\ s \in Procs
    BY PeerFacts, AtFacts
  <1>3. ~closed[s] /\ eof_sent[Peer(s)] /\ At(p) = Peer(s) => pc[p] \notin DataType
    BY AtFacts DEF EndOK, PcOK, Procs, DataType
  <1>4. ASSUME ~closed[s]
        PROVE  EofLast(wire'[s]) /\ (pipe_closed[s] => NoData(wire'[s]))
    <2>1. CASE wire'[s] = wire[s]
      BY <1>4, <2>1 DEF EndOK, EofLast, NoData
    <2>2. CASE /\ s = Peer(At(p)) /\ Len(wire[s]) \in Nat /\ Len(wire'[s]) = Len(wire[s]) + 1
               /\ \A i \in 1 .. Len(wire[s]) : wire'[s][i] = wire[s][i]
               /\ wire'[s][Len(wire[s]) + 1].type =
                      IF pc[p] = "eof_close" THEN "eof" ELSE pc[p]
      <3>1. At(p) = Peer(s)
        BY <2>2, AtFacts DEF Peer, Side
      <3>2. eof_sent[Peer(s)] => wire'[s][Len(wire[s]) + 1].type \notin DataType
        BY <1>3, <1>4, <2>2, <3>1 DEF DataType
      <3>3. \A i \in 1 .. Len(wire[s]) : wire[s][i].type = "eof" => eof_sent[Peer(s)]
        BY <1>2 DEF Announced
      <3>4. EofLast(wire[s]) /\ (pipe_closed[s] => eof_sent[Peer(s)] /\ NoData(wire[s]))
        BY <1>4 DEF EndOK
      <3>5. EofLast(wire'[s])
        <4> SUFFICES ASSUME NEW i \in 1 .. Len(wire'[s]), NEW j \in 1 .. Len(wire'[s]), i < j,
                            wire'[s][i].type = "eof"
                     PROVE  wire'[s][j].type \notin DataType
          BY DEF EofLast
        <4>1. /\ i \in 1 .. Len(wire[s])
              /\ j \in 1 .. Len(wire[s]) \/ j = Len(wire[s]) + 1
          BY <2>2
        <4>2. wire[s][i].type = "eof"
          BY <2>2, <4>1
        <4>3. CASE j \in 1 .. Len(wire[s])
          <5>1. wire[s][j].type \notin DataType
            BY <3>4, <4>1, <4>2, <4>3 DEF EofLast
          <5> QED BY <2>2, <4>3, <5>1
        <4>4. CASE j = Len(wire[s]) + 1
          BY <3>2, <3>3, <4>1, <4>2, <4>4
        <4> QED BY <4>1, <4>3, <4>4
      <3>6. pipe_closed[s] => NoData(wire'[s])
        BY <2>2, <3>2, <3>4 DEF NoData
      <3> QED BY <3>5, <3>6
    <2> QED BY <2>1, <2>2, XmitWire
  <1>5. pc'[s] # "feed_stderr" \/ pc'[s] = pc[s]
    BY <1>1, <1>2 DEF Frame
  <1>6. p \in Threads => pc'[p] \notin DataType
    BY <1>1 DEF DataType
  <1>7. ~closed[s] => /\ pipe_closed[s] => pc[s] # "feed_stderr"
                      /\ ended[s] # {} => pipe_closed[s]
                      /\ "out" \in ended[s] => in_buffer[s] = 0
                      /\ "err" \in ended[s] => in_stderr_buffer[s] = 0
    BY DEF EndOK
  <1> QED BY <1>1, <1>4, <1>5, <1>6, <1>7, EndFrame

\* A Feed that was under way finds the pipes open.
LEMMA EndFeed ==
    ASSUME TypeOK, PcOK, NoFeed, TypeOK', NEW s \in Side, EndOK(s), NEW p \in Procs, Feed(p)
    PROVE  EndOK(s)'
  <1> USE DEF flags, buffers, windows, pending, history
  <1>1. /\ Frame(p) /\ pc[p] = "feed_stderr" /\ pc'[p] = "idle" /\ wire' = wire
        /\ closed' = closed /\ eof_sent' = eof_sent /\ pipe_closed' = pipe_closed
        /\ ended' = ended
    <2>1. Frame(p)
      BY ProcessFrame
    <2>2. pc[p] = "feed_stderr"
      BY DEF Feed, NoFeed
    <2>3. pc'[p] = "idle"
      BY DEF Feed, TypeOK
    <2>4. /\ wire' = wire /\ closed' = closed /\ eof_sent' = eof_sent
          /\ pipe_closed' = pipe_closed /\ ended' = ended
      BY DEF Feed
    <2> QED BY <2>1, <2>2, <2>3, <2>4
  <1>2. p \in Side /\ p \notin Threads /\ At(p) = p /\ s \in Procs
    BY <1>1, AtFacts DEF PcOK, Procs
  <1>3. p = s /\ ~closed[s] => ~pipe_closed[s]
    BY <1>1 DEF EndOK
  <1>4. p # s => in_buffer'[s] = in_buffer[s] /\ in_stderr_buffer'[s] = in_stderr_buffer[s]
    <2>1. in_stderr_buffer' = [in_stderr_buffer EXCEPT ![p] = @ + held[p]] /\ in_buffer' = in_buffer
      BY <1>1, <1>2 DEF Feed
    <2>2. DOMAIN in_stderr_buffer = Side
      BY DEF TypeOK
    <2> QED BY <1>2, <2>1, <2>2
  <1>5. /\ in_buffer'[s] \in Nat /\ in_stderr_buffer'[s] \in Nat
        /\ in_buffer[s] \in Nat /\ in_stderr_buffer[s] \in Nat
    BY DEF TypeOK
  <1>6. pc'[s] = pc[s] \/ pc'[s] # "feed_stderr"
    BY <1>1, <1>2 DEF Frame
  <1> QED BY <1>1, <1>2, <1>3, <1>4, <1>5, <1>6, EndQuiet

\* Steps of a transport thread.
LEMMA EndTransport ==
    ASSUME TypeOK, PcOK, NoFeed, TypeOK', \A q \in Side : Announced(q) /\ EndOK(q),
           NEW q \in Side, TransportThread(q) \/ CloseTransport(q), NEW s \in Side
    PROVE  EndOK(s)'
  <1> USE DEF flags, buffers, windows, pending, history
  <1>1. /\ q \in Procs /\ q \notin Threads /\ s \in Procs /\ s \notin Threads
        /\ Peer(s) \in Side /\ Peer(s) # s /\ Peer(Peer(s)) = s /\ Frame(q)
    BY AtFacts, PeerFacts, TransportFrame
  <1>2. EndOK(s) /\ Announced(s) /\ in_buffer'[s] \in Nat /\ in_stderr_buffer'[s] \in Nat
    BY DEF TypeOK
  <1>3. ~closed[s] => /\ pipe_closed[s] => eof_sent[Peer(s)] /\ NoData(wire[s]) /\ pc[s] # "feed_stderr"
                      /\ ended[s] # {} => pipe_closed[s]
                      /\ "out" \in ended[s] => in_buffer[s] = 0
                      /\ "err" \in ended[s] => in_stderr_buffer[s] = 0
    BY <1>2 DEF EndOK
  <1>4. pc[s] # "wait" /\ pc[q] # "wait" /\ (q # s => pc'[s] = pc[s])
    BY <1>1 DEF PcOK, Frame
  <1>5. NotifyAll(q) \in [Procs -> Pc] /\ NotifyAll(q)[q] = pc[q]
    BY <1>1, <1>4, NotifyAllFacts
  <1>6. CASE HandleDead(q) \/ HandleWindowAdjust(q)
    <2>1. PICK ty \in MsgType : Receives(q, ty)
      BY <1>6 DEF HandleDead, HandleWindowAdjust, MsgType
    <2>2. /\ closed' = closed /\ eof_sent' = eof_sent /\ pipe_closed' = pipe_closed
          /\ ended' = ended /\ in_buffer' = in_buffer /\ in_stderr_buffer' = in_stderr_buffer
          /\ pc'[q] = pc[q]
      BY <1>5, <1>6 DEF HandleDead, HandleWindowAdjust
    <2>3. pc'[s] = pc[s]
      BY <1>4, <2>2
    <2>4. ~closed[s] => EofLast(wire'[s]) /\ (pipe_closed[s] => NoData(wire'[s]))
      BY <1>2, <1>3, <2>1, EndReceive
    <2> QED BY <1>1, <1>2, <1>3, <2>2, <2>3, <2>4, EndFrame
  <1>7. CASE HandleData(q)
    <2>1. Receives(q, "data") /\ "data" \in MsgType /\ "data" \in DataType
      BY <1>7 DEF HandleData, MsgType, DataType
    <2>2. /\ closed' = closed /\ eof_sent' = eof_sent /\ pipe_closed' = pipe_closed
          /\ ended' = ended /\ in_stderr_buffer' = in_stderr_buffer /\ pc' = pc
          /\ s # q => in_buffer'[s] = in_buffer[s]
      BY <1>7 DEF HandleData, TypeOK
    <2>3. ~closed[s] => /\ EofLast(wire'[s]) /\ (pipe_closed[s] => NoData(wire'[s]))
                        /\ q = s => ~pipe_closed[s]
      BY <1>2, <1>3, <2>1, EndReceive
    <2> QED BY <1>1, <1>2, <1>3, <2>2, <2>3, EndFrame
  <1>8. CASE HandleExtended(q)
    <2>1. Receives(q, "ext") /\ "ext" \in MsgType /\ "ext" \in DataType
      BY <1>8 DEF HandleExtended, MsgType, DataType
    <2>2. /\ closed' = closed /\ eof_sent' = eof_sent /\ pipe_closed' = pipe_closed
          /\ ended' = ended /\ in_buffer' = in_buffer /\ in_stderr_buffer' = in_stderr_buffer
      BY <1>8 DEF HandleExtended
    <2>3. ~closed[s] => /\ EofLast(wire'[s]) /\ (pipe_closed[s] => NoData(wire'[s]))
                        /\ q = s => ~pipe_closed[s]
      BY <1>2, <1>3, <2>1, EndReceive
    <2> QED BY <1>1, <1>2, <1>3, <1>4, <2>2, <2>3, EndFrame
  <1>9. CASE HandleEof(q)
    <2>1. Receives(q, "eof") /\ "eof" \in MsgType
      BY <1>9 DEF HandleEof, MsgType
    <2>2. /\ closed' = closed /\ eof_sent' = eof_sent /\ pc' = pc
          /\ ended' = ended /\ in_buffer' = in_buffer /\ in_stderr_buffer' = in_stderr_buffer
          /\ s # q => pipe_closed'[s] = pipe_closed[s]
          /\ pipe_closed[s] => pipe_closed'[s]
      BY <1>9 DEF HandleEof, TypeOK
    <2>3. ~closed[s] => /\ EofLast(wire'[s]) /\ (pipe_closed[s] => NoData(wire'[s]))
                        /\ q = s => NoData(wire'[s])
      BY <1>2, <1>3, <2>1, EndReceive
    <2>4. q = s => eof_sent[Peer(s)] /\ pc[s] = "idle"
      <3>1. /\ 1 \in 1 .. Len(wire[q]) /\ wire[q][1].type = "eof" /\ pc[q] = "idle"
        BY <2>1, ReceiveWire
      <3>2. Announced(Peer(s))
        BY <1>1
      <3> QED BY <1>1, <3>1, <3>2 DEF Announced
    <2> QED BY <1>1, <1>2, <1>3, <2>2, <2>3, <2>4, EndFrame
  <1>10. CASE HandleClose(q)
    <2>1. Receives(q, "close") /\ "close" \in MsgType
      BY <1>10 DEF HandleClose, MsgType
    <2>2. /\ ended' = ended /\ in_buffer' = in_buffer /\ in_stderr_buffer' = in_stderr_buffer
          /\ closed'[q]
          /\ s # q => /\ closed'[s] = closed[s] /\ pipe_closed'[s] = pipe_closed[s]
      <3>1. CASE closed[q] /\ UNCHANGED <<closed, pipe_closed, eof_sent, pc>>
        BY <1>10, <3>1 DEF HandleClose
      <3>2. CASE CloseInternal(q, q)
        <4>1. closed' = [closed EXCEPT ![q] = TRUE] /\ pipe_closed' = [pipe_closed EXCEPT ![q] = TRUE]
          BY <3>2 DEF CloseInternal, SetClosed
        <4>2. /\ closed \in [Side -> BOOLEAN] /\ pipe_closed \in [Side -> BOOLEAN]
          BY DEF TypeOK
        <4>3. ended' = ended /\ in_buffer' = in_buffer /\ in_stderr_buffer' = in_stderr_buffer
          BY <1>10 DEF HandleClose
        <4> QED BY <4>1, <4>2, <4>3
      <3> QED BY <1>10, <3>1, <3>2 DEF HandleClose
    <2>3. s # q => closed[s]
      <3>1. 1 \in 1 .. Len(wire[q]) /\ wire[q][1].type = "close"
        BY <2>1, ReceiveWire
      <3>2. s # q => Peer(s) = q
        BY DEF Peer, Side
      <3> QED BY <1>2, <3>1, <3>2 DEF Announced
    <2>4. closed'[s]
      BY <2>2, <2>3
    <2> QED BY <2>4 DEF EndOK
  <1>11. CASE Unlink(q)
    <2>1. /\ wire' = wire /\ eof_sent' = eof_sent /\ ended' = ended
          /\ in_buffer' = in_buffer /\ in_stderr_buffer' = in_stderr_buffer
          /\ pc'[q] = pc[q] /\ (closed[s] => closed'[s])
          /\ pipe_closed'[s] = pipe_closed[s] \/ closed'[s]
      <3>1. CASE SetClosed(q) /\ pc' = NotifyAll(q)
        BY <1>5, <1>11, <3>1 DEF Unlink, SetClosed, TypeOK
      <3>2. CASE UNCHANGED <<closed, pipe_closed, linked, pc>>
        BY <1>11, <3>2 DEF Unlink
      <3> QED BY <1>11, <3>1, <3>2 DEF Unlink
    <2>2. pc'[s] = pc[s]
      BY <1>4, <2>1
    <2> QED BY <1>1, <1>2, <2>1, <2>2, EndQuiet
  <1>12. CASE LoseConnection(q) \/ CloseTransport(q)
    BY <1>1, <1>2, <1>12, EndQuiet DEF LoseConnection, CloseTransport
  <1> QED BY <1>6, <1>7, <1>8, <1>9, <1>10, <1>11, <1>12 DEF TransportThread

\* Steps of an application thread: a writer does not allocate after its EOF, the
\* EOF is made when it holds no data, and b"" is read from an empty, closed pipe.
LEMMA EndThread ==
    ASSUME WriterEnds, NobodyCombines, TypeOK, PcOK, TypeOK', NEW s \in Side, EndOK(s),
           NEW t \in Threads,
           \/ CallInProgress(t) \/ SendTimeout(t) \/ Writing(t) \/ Reading(t)
           \/ Close(t) \/ ShutdownWrite(t) \/ ShutdownRead(t)
           \/ \E combine \in BOOLEAN : SetCombineStderr(t, combine)
    PROVE  EndOK(s)'
  <1> USE DEF flags, buffers, windows, pending, history
  <1>1. /\ t \in Procs /\ t # s /\ s \in Procs /\ s \notin Threads /\ Home[t] \in Side
        /\ Peer(s) \in Side /\ Peer(s) # s /\ Frame(t)
    BY AtFacts, PeerFacts, ThreadFrame
  <1>2. /\ in_buffer'[s] \in Nat /\ in_stderr_buffer'[s] \in Nat
        /\ in_buffer[s] \in Nat /\ in_stderr_buffer[s] \in Nat
    BY DEF TypeOK
  <1>3. pc'[s] = pc[s]
    <2>1. pc[s] # "wait"
      BY DEF PcOK
    <2> QED BY <1>1, <2>1 DEF Frame
  <1>4. ~closed[s] => /\ EofLast(wire[s])
                      /\ pipe_closed[s] => eof_sent[Peer(s)] /\ NoData(wire[s]) /\ pc[s] # "feed_stderr"
                      /\ ended[s] # {} => pipe_closed[s]
                      /\ "out" \in ended[s] => in_buffer[s] = 0
                      /\ "err" \in ended[s] => in_stderr_buffer[s] = 0
    BY DEF EndOK
  <1>5. wire' = wire
    BY DEF CallInProgress, SendResume, CheckAddWindow, SendTimeout, Writing, Send, Reading,
           Recv, RecvStderr, Close, ShutdownWrite, ShutdownRead, SetCombineStderr
  <1>6. CASE CallInProgress(t) \/ SendTimeout(t) \/ Writing(t)
    <2>1. /\ closed' = closed /\ eof_sent' = eof_sent /\ pipe_closed' = pipe_closed
          /\ ended' = ended /\ in_buffer' = in_buffer /\ in_stderr_buffer' = in_stderr_buffer
      BY <1>6 DEF CallInProgress, SendResume, CheckAddWindow, SendTimeout, Writing, Send
    <2>2. Home[t] = Peer(s) /\ eof_sent[Peer(s)] => pc'[t] \notin DataType
      <3>1. CASE SendResume(t)
        BY <1>1, <3>1 DEF SendResume, MayWrite, DataType, TypeOK
      <3>2. CASE CheckAddWindow(t) \/ SendTimeout(t)
        <4>1. pc'[t] \in {"adjust", "idle"}
          BY <1>1, <3>2 DEF CheckAddWindow, SendTimeout, TypeOK
        <4> QED BY <4>1 DEF DataType
      <3>3. CASE Writing(t)
        BY <3>3 DEF Writing, Send, MayWrite
      <3> QED BY <1>6, <3>1, <3>2, <3>3 DEF CallInProgress
    <2> QED BY <1>1, <1>2, <1>3, <1>5, <2>1, <2>2, EndQuiet
  <1>7. CASE Reading(t)
    <2>1. PICK n \in RecvSizes : Recv(t, n) \/ RecvStderr(t, n)
      BY <1>7 DEF Reading
    <2>2. n \in Nat /\ n > 0
      BY ChannelAssumption
    <2>3. /\ closed' = closed /\ eof_sent' = eof_sent /\ pipe_closed' = pipe_closed
          /\ pc'[t] = "credit"
      BY <1>1, <2>1 DEF Recv, RecvStderr, TypeOK
    <2>4. ~closed[s] =>
            /\ ended'[s] # {} => pipe_closed[s]
            /\ "out" \in ended'[s] => in_buffer'[s] = 0
            /\ "err" \in ended'[s] => in_stderr_buffer'[s] = 0
      <3>1. CASE Home[t] # s
        <4>1. ended'[s] = ended[s] /\ in_buffer'[s] = in_buffer[s]
              /\ in_stderr_buffer'[s] = in_stderr_buffer[s]
          <5>1. CASE Recv(t, n)
            <6>1. ended'[s] = ended[s]
              <7>1. ended' = [ended EXCEPT ![Home[t]] = IF Smaller(n, in_buffer[Home[t]]) = 0
                                                        THEN @ \cup {"out"} ELSE @]
                BY <5>1 DEF Recv
              <7>2. DOMAIN ended = Side
                BY DEF TypeOK
              <7> QED BY <1>1, <3>1, <7>1, <7>2
            <6>2. in_buffer'[s] = in_buffer[s] /\ in_stderr_buffer' = in_stderr_buffer
              <7>1. in_buffer' = [in_buffer EXCEPT ![Home[t]] = @ - Smaller(n, in_buffer[Home[t]])]
                    /\ in_stderr_buffer' = in_stderr_buffer
                BY <5>1 DEF Recv
              <7>2. DOMAIN in_buffer = Side
                BY DEF TypeOK
              <7> QED BY <1>1, <3>1, <7>1, <7>2
            <6> QED BY <6>1, <6>2
          <5>2. CASE RecvStderr(t, n)
            <6>1. ended'[s] = ended[s]
              <7>1. ended' = [ended EXCEPT ![Home[t]] = IF Smaller(n, in_stderr_buffer[Home[t]]) = 0
                                                        THEN @ \cup {"err"} ELSE @]
                BY <5>2 DEF RecvStderr
              <7>2. DOMAIN ended = Side
                BY DEF TypeOK
              <7> QED BY <1>1, <3>1, <7>1, <7>2
            <6>2. in_stderr_buffer'[s] = in_stderr_buffer[s] /\ in_buffer' = in_buffer
              <7>1. in_stderr_buffer' = [in_stderr_buffer EXCEPT ![Home[t]] = @ - Smaller(n, in_stderr_buffer[Home[t]])]
                    /\ in_buffer' = in_buffer
                BY <5>2 DEF RecvStderr
              <7>2. DOMAIN in_stderr_buffer = Side
                BY DEF TypeOK
              <7> QED BY <1>1, <3>1, <7>1, <7>2
            <6> QED BY <6>1, <6>2
          <5> QED BY <2>1, <5>1, <5>2
        <4> QED BY <1>4, <4>1
      <3>2. CASE Home[t] = s /\ Recv(t, n)
        <4> DEFINE k == Smaller(n, in_buffer[s])
        <4>1. /\ in_buffer'[s] = in_buffer[s] - k /\ in_stderr_buffer' = in_stderr_buffer
              /\ ended'[s] = IF k = 0 THEN ended[s] \cup {"out"} ELSE ended[s]
              /\ in_buffer[s] > 0 \/ pipe_closed[s]
          BY <1>1, <3>2 DEF Recv, PipeReady, TypeOK
        <4>2. k \in Nat /\ k <= in_buffer[s] /\ (k = 0 => in_buffer[s] = 0)
          BY <1>2, <2>2 DEF Smaller
        <4> HIDE DEF k
        <4> QED BY <1>2, <1>4, <4>1, <4>2
      <3>3. CASE Home[t] = s /\ RecvStderr(t, n)
        <4> DEFINE k == Smaller(n, in_stderr_buffer[s])
        <4>1. /\ in_stderr_buffer'[s] = in_stderr_buffer[s] - k /\ in_buffer' = in_buffer
              /\ ended'[s] = IF k = 0 THEN ended[s] \cup {"err"} ELSE ended[s]
              /\ in_stderr_buffer[s] > 0 \/ pipe_closed[s]
          BY <1>1, <3>3 DEF RecvStderr, PipeReady, TypeOK
        <4>2. k \in Nat /\ k <= in_stderr_buffer[s] /\ (k = 0 => in_stderr_buffer[s] = 0)
          BY <1>2, <2>2 DEF Smaller
        <4> HIDE DEF k
        <4> QED BY <1>2, <1>4, <4>1, <4>2
      <3> QED BY <2>1, <3>1, <3>2, <3>3
    <2>5. pc'[t] \notin DataType
      BY <2>3 DEF DataType
    <2> QED BY <1>1, <1>3, <1>4, <1>5, <2>3, <2>4, <2>5, EndFrame
  <1>8. CASE Close(t) \/ ShutdownWrite(t)
    <2>1. /\ ended' = ended /\ in_buffer' = in_buffer /\ in_stderr_buffer' = in_stderr_buffer
          /\ Home[t] = s => closed'[s] \/ (closed'[s] = closed[s] /\ pipe_closed'[s] = pipe_closed[s])
          /\ Home[t] # s => closed'[s] = closed[s] /\ pipe_closed'[s] = pipe_closed[s]
          /\ closed[s] => closed'[s]
      <3>1. CASE Close(t)
        <4>1. closed' = [closed EXCEPT ![Home[t]] = TRUE]
              /\ pipe_closed' = [pipe_closed EXCEPT ![Home[t]] = TRUE]
          BY <3>1 DEF Close, CloseInternal, SetClosed
        <4>2. /\ closed \in [Side -> BOOLEAN] /\ pipe_closed \in [Side -> BOOLEAN]
          BY DEF TypeOK
        <4>3. ended' = ended /\ in_buffer' = in_buffer /\ in_stderr_buffer' = in_stderr_buffer
          BY <3>1 DEF Close
        <4> QED BY <1>1, <4>1, <4>2, <4>3
      <3>2. CASE ShutdownWrite(t)
        BY <3>2 DEF ShutdownWrite
      <3> QED BY <1>8, <3>1, <3>2
    <2>2. /\ Home[t] # Peer(s) => eof_sent'[Peer(s)] = eof_sent[Peer(s)]
          /\ eof_sent[Peer(s)] => eof_sent'[Peer(s)]
      BY <1>1, <1>8 DEF Close, ShutdownWrite, CloseInternal, TypeOK
    <2>3. pc'[t] \notin DataType
      <3>1. NotifyAll(Home[t]) \in [Procs -> Pc]
        BY <1>1, NotifyAllFacts
      <3>2. pc'[t] \in {"close", "eof_close", "eof"}
        BY <1>1, <1>8, <3>1 DEF Close, ShutdownWrite, CloseInternal, TypeOK
      <3> QED BY <3>2 DEF DataType
    <2>4. Home[t] = Peer(s) => \A u \in Threads : Home[u] = Peer(s) => pc[u] \notin DataType
      <3>1. pc[t] = "idle" /\ Ends(t)
        BY <1>8 DEF Close, ShutdownWrite, Idle, Ends
      <3>2. \A u \in Threads : pc[u] \in DataType => Sends(u)
        BY DEF PcOK, DataType
      <3> QED BY <3>1, <3>2 DEF WriterEnds, DataType
    <2> QED BY <1>1, <1>3, <1>4, <1>5, <2>1, <2>2, <2>3, <2>4, EndFrame
  <1>9. CASE ShutdownRead(t)
    <2>1. /\ closed' = closed /\ eof_sent' = eof_sent /\ pipe_closed' = pipe_closed
          /\ ended' = ended /\ in_buffer' = in_buffer /\ in_stderr_buffer' = in_stderr_buffer
          /\ pc'[t] = "idle"
      BY <1>9 DEF ShutdownRead, Idle
    <2>2. pc'[t] \notin DataType
      BY <2>1 DEF DataType
    <2> QED BY <1>1, <1>2, <1>3, <1>5, <2>1, <2>2, EndQuiet
  <1>10. CASE \E combine \in BOOLEAN : SetCombineStderr(t, combine)
    BY <1>10 DEF NobodyCombines, Combines, SetCombineStderr, Idle
  <1> QED BY <1>6, <1>7, <1>8, <1>9, <1>10

LEMMA EndInvStep ==
    ASSUME WriterEnds, NobodyCombines, EndInv, [Next]_vars
    PROVE  EndInv'
  <1>1. TypeOK /\ PcOK /\ NoFeed /\ (\A s \in Side : Announced(s) /\ EndOK(s))
    BY DEF EndInv
  <1>2. CASE Next
    <2>1. TypeOK' /\ PcOK'
      BY <1>1, <1>2, TypeStep, PcStep
    <2>2. NoFeed'
      BY <1>1, <1>2, <2>1, NoFeedStep
    <2>3. ASSUME NEW s \in Side PROVE Announced(s)' /\ EndOK(s)'
      <3>1. Announced(s)'
        BY <1>1, <1>2, AnnouncedStep
      <3>2. ASSUME NEW p \in Procs, Xmit(p) PROVE EndOK(s)'
        BY <1>1, <3>2, EndXmit, PeerFacts
      <3>3. ASSUME NEW p \in Procs, Feed(p) PROVE EndOK(s)'
        BY <1>1, <2>1, <3>3, EndFeed
      <3>4. ASSUME NEW q \in Side, TransportThread(q) \/ CloseTransport(q) PROVE EndOK(s)'
        BY <1>1, <2>1, <3>4, EndTransport
      <3>5. ASSUME NEW t \in Threads,
                   \/ CallInProgress(t) \/ SendTimeout(t) \/ Writing(t) \/ Reading(t)
                   \/ Close(t) \/ ShutdownWrite(t) \/ ShutdownRead(t)
                   \/ \E combine \in BOOLEAN : SetCombineStderr(t, combine)
            PROVE  EndOK(s)'
        BY <1>1, <2>1, <3>5, EndThread
      <3> QED BY <1>2, <3>1, <3>2, <3>3, <3>4, <3>5 DEF Next
    <2> QED BY <2>1, <2>2, <2>3 DEF EndInv
  <1>3. CASE UNCHANGED vars
    <2> USE DEF vars, flags, buffers, windows, pending, history
    <2>1. TypeOK' /\ PcOK' /\ NoFeed'
      BY <1>1, <1>3 DEF TypeOK, PcOK, NoFeed
    <2>2. ASSUME NEW s \in Side PROVE Announced(s)' /\ EndOK(s)'
      BY <1>1, <1>3 DEF Announced, EndOK, EofLast, NoData
    <2> QED BY <2>1, <2>2 DEF EndInv
  <1> QED BY <1>2, <1>3

LEMMA EndInvInit == Init => EndInv
  <1> SUFFICES ASSUME Init PROVE EndInv
    OBVIOUS
  <1>1. TypeOK
    BY ChannelAssumption, AtFacts DEF Init, TypeOK, Pc, DataType
  <1>2. PcOK /\ NoFeed
    BY AtFacts DEF Init, PcOK, NoFeed
  <1>3. ASSUME NEW s \in Side PROVE Announced(s) /\ EndOK(s)
    BY PeerFacts, AtFacts DEF Init, Announced, EndOK, EofLast, NoData, DataType
  <1> QED BY <1>1, <1>2, <1>3 DEF EndInv

LEMMA EndInvFinal == EndInv => EmptyReadIsFinal
  <1> SUFFICES ASSUME EndInv, NEW s \in Side, ended[s] # {}, ~closed[s]
               PROVE  /\ ~DataUnderWay(s)
                      /\ "out" \in ended[s] => in_buffer[s] = 0
                      /\ "err" \in ended[s] => in_stderr_buffer[s] = 0
    BY DEF EmptyReadIsFinal
  <1>1. TypeOK /\ PcOK /\ NoFeed /\ EndOK(s)
    BY DEF EndInv
  <1>2. /\ pipe_closed[s] /\ eof_sent[Peer(s)] /\ NoData(wire[s]) /\ pc[s] # "feed_stderr"
        /\ \A t \in Threads : Home[t] = Peer(s) => pc[t] \notin DataType
        /\ "out" \in ended[s] => in_buffer[s] = 0
        /\ "err" \in ended[s] => in_stderr_buffer[s] = 0
    BY <1>1 DEF EndOK
  <1>3. \A i \in DOMAIN wire[s] : wire[s][i].type \notin DataType
    <2>1. wire[s] \in Seq(Msg)
      BY <1>1 DEF TypeOK
    <2>2. DOMAIN wire[s] = 1 .. Len(wire[s])
      BY <2>1
    <2> QED BY <1>2, <2>2 DEF NoData
  <1>4. ASSUME NEW p \in Procs
        PROVE  /\ ~(At(p) = Peer(s) /\ pc[p] \in DataType)
               /\ ~(At(p) = s /\ pc[p] \in {"feed", "feed_stderr"})
    <2>1. pc[p] # "feed"
      BY <1>1 DEF NoFeed
    <2>2. CASE p \in Threads
      BY <1>1, <1>2, <2>1, <2>2, AtFacts DEF PcOK
    <2>3. CASE p \in Side
      BY <1>1, <1>2, <2>1, <2>3, AtFacts DEF PcOK, DataType
    <2> QED BY <2>2, <2>3 DEF Procs
  <1> QED BY <1>2, <1>3, <1>4 DEF DataUnderWay

\* recv and recv_stderr return b"" only after everything the peer's send accepted:
\* for every window, number of readers and schedule of WINDOW_ADJUSTs, and whatever
\* transport is lost, provided the thread that shuts down or closes is the one that
\* writes at its end, and nobody switches combine_stderr (_send_eof, _handle_eof,
\* BufferedPipe.read; the send of channel.py:1206 and the _feed of channel.py:581,
\* both after the lock is released, are why the two are needed).
THEOREM EmptyReadFinal ==
    ASSUME WriterEnds, NobodyCombines
    PROVE  Spec => []EmptyReadIsFinal
  <1>1. EndInv /\ [Next]_vars => EndInv'
    BY EndInvStep
  <1> QED BY <1>1, EndInvInit, EndInvFinal, PTL DEF Spec
=============================================================================
