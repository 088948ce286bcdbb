-------------------------- MODULE ChannelInvariant --------------------------
(***************************************************************************)
(* The inductive invariant behind WindowRespected and ImplementsStream.    *)
(* It keeps the books of one direction of the channel: bytes accepted,     *)
(* sent, delivered, read, granted back and credited, each at most the one  *)
(* before it, with what is between two of them accounted for.              *)
(***************************************************************************)
EXTENDS ChannelStream

Sends(t)    == "send" \in Calls[t] \/ "send_stderr" \in Calls[t]
Reads(t)    == "recv" \in Calls[t] \/ "recv_stderr" \in Calls[t]
Combines(t) == "set_combine_stderr" \in Calls[t]

\* At each end at most one thread writes, one reads and one switches
\* combine_stderr (they may be the same thread).
OneThreadPerRole ==
    \A t, u \in Threads :
        Home[t] = Home[u] => /\ Sends(t) /\ Sends(u) => t = u
                             /\ Reads(t) /\ Reads(u) => t = u
                             /\ Combines(t) /\ Combines(u) => t = u

\* Where a thread can be depends on the methods it calls; a transport thread
\* never waits for window and never reads.
PcOK ==
    /\ \A t \in Threads :
          /\ pc[t] \in {"wait", "woken", "data", "ext"} => Sends(t)
          /\ pc[t] \in {"wait", "woken"} => want[t] > 0
          /\ pc[t] \in {"credit", "adjust"} => Reads(t)
          /\ pc[t] = "feed" => Combines(t)
          /\ pc[t] # "feed_stderr"
    /\ \A s \in Side : pc[s] \in {"idle", "feed", "feed_stderr", "eof_close", "close"}

\* The packets of the types T in w carry disjoint stretches of the bytes
\* between lo and hi, in order.
Chain(w, T, lo, hi) ==
    /\ lo <= hi
    /\ \A i \in 1 .. Len(w) :
          w[i].type \in T => lo + w[i].size <= w[i].upto /\ w[i].upto <= hi
    /\ \A i, j \in 1 .. Len(w) :
          i < j /\ w[i].type \in T /\ w[j].type \in T
            => w[i].upto + w[j].size <= w[j].upto

InHand(p, pcs) == IF pc[p] \in pcs THEN held[p] ELSE 0

\* What is sent, or about to be, was accepted.
SentBook(s) ==
    /\ sent[s] <= Accepted(s)
    /\ \A t \in Threads :
          Home[t] = s => sent[s] + InHand(t, DataType) <= Accepted(s)

\* What was read or is buffered, or about to be, was delivered.
ReadBook(s) ==
    LET known == read[s] + in_buffer[s] + in_stderr_buffer[s]
                 + InHand(s, {"feed", "feed_stderr"})
    IN  /\ known <= delivered[s]
        /\ \A t \in Threads :
              Home[t] = s => known + InHand(t, {"feed"}) <= delivered[s]

\* What was granted back, or is about to be, was read.
GrantBook(s) ==
    /\ granted[s] + in_window_sofar[s] <= read[s]
    /\ \A t \in Threads :
          Home[t] = s =>
            granted[s] + in_window_sofar[s] + InHand(t, {"credit", "adjust"})
              <= read[s]

DataChain(s) == Chain(wire[s], DataType, delivered[s], sent[Peer(s)])
AdjustChain(s) == Chain(wire[s], {"adjust"}, credited[s], granted[Peer(s)])

\* The books of both directions balance at every step of every thread.
FlowInv ==
    /\ TypeOK
    /\ PcOK
    /\ \A s \in Side : /\ SentBook(s)
                       /\ ReadBook(s)
                       /\ GrantBook(s)
                       /\ DataChain(s)
                       /\ AdjustChain(s)
-----------------------------------------------------------------------------
(* The end of a stream: the invariant behind EmptyReadIsFinal.             *)

Ends(t) == "close" \in Calls[t] \/ "shutdown_write" \in Calls[t]

\* The thread that ends what an end sends is the one that writes there.
WriterEnds == \A t, u \in Threads : Home[t] = Home[u] /\ Sends(t) /\ Ends(u) => t = u

NobodyCombines == \A t \in Threads : ~Combines(t)
NoFeed ==
    /\ \A s \in Side : ~combine_stderr[s]
    /\ \A p \in Procs : pc[p] # "feed"

\* What an end announces, or is about to, it has noted before.
Announced(s) ==
    /\ \A p \in Procs : At(p) = s =>
          /\ pc[p] \in {"eof", "eof_close"} => eof_sent[s]
          /\ pc[p] \in {"eof_close", "close"} => closed[s]
    /\ \A i \in 1 .. Len(wire[Peer(s)]) :
          /\ wire[Peer(s)][i].type = "eof" => eof_sent[s]
          /\ wire[Peer(s)][i].type = "close" => closed[s]

\* No data in w behind an EOF.
EofLast(w) ==
    \A i, j \in 1 .. Len(w) : i < j /\ w[i].type = "eof" => w[j].type \notin DataType
NoData(w) == \A i \in 1 .. Len(w) : w[i].type \notin DataType

\* Until s closes the channel, the peer's EOF is the last of its data.
EndOK(s) ==
    ~closed[s] =>
      /\ eof_sent[Peer(s)] =>
            \A t \in Threads : Home[t] = Peer(s) => pc[t] \notin DataType
      /\ EofLast(wire[s])
      /\ pipe_closed[s] =>
            eof_sent[Peer(s)] /\ NoData(wire[s]) /\ pc[s] # "feed_stderr"
      /\ ended[s] # {} => pipe_closed[s]
      /\ "out" \in ended[s] => in_buffer[s] = 0
      /\ "err" \in ended[s] => in_stderr_buffer[s] = 0

EndInv ==
    /\ TypeOK /\ PcOK /\ NoFeed
    /\ \A s \in Side : Announced(s) /\ EndOK(s)
=============================================================================
