----------------------------- MODULE MCChannel -----------------------------
(***************************************************************************)
(* Instances of Channel for TLC, and the invariant that needs sums.        *)
(***************************************************************************)
EXTENDS ChannelInvariant, FiniteSetsExt

\* Two writers and a reader for each stream, one of which also switches
\* combine_stderr: flow control under concurrent use.
FlowHome == [w1 |-> "server", w2 |-> "server", out |-> "client", err |-> "client"]
FlowCalls == [w1 |-> {"send"}, w2 |-> {"send_stderr"}, out |-> {"recv"},
              err |-> {"recv_stderr", "set_combine_stderr", "shutdown_read"}]

\* Both ends end the channel, each end by the thread that also writes there;
\* the client's transport may be closed at any time.
EndHome == [w |-> "server", r |-> "client", c |-> "client"]
EndCalls == [w |-> {"send", "shutdown_write", "close"},
             r |-> {"recv"},
             c |-> {"close", "shutdown_write"}]

Bytes(s, pcs) ==
    MapThenSumSet(LAMBDA p : held[p], {p \in Procs : At(p) = s /\ pc[p] \in pcs})
WireBytes(s, types) ==
    MapThenSumSet(LAMBDA i : wire[s][i].size,
                  {i \in DOMAIN wire[s] : wire[s][i].type \in types})

\* While the receiving end p of a direction is open, every byte of its window
\* is accounted for exactly once: still in the sender's window, allocated but
\* not transmitted, on the wire, buffered, in a reader's or feeder's hands,
\* withheld in in_window_sofar, or on its way back in a WINDOW_ADJUST.  No
\* interleaving loses or doubles window space.
CreditConserved ==
    \A s \in Side :
        LET p == Peer(s)
        IN  /\ \A q \in Side : linked[q] /\ transport[q] = "running"
            /\ ~closed[p] /\ ~eof_received[p]
            => out_window_size[s] + Bytes(s, DataType) + WireBytes(p, DataType)
               + in_buffer[p] + in_stderr_buffer[p]
               + Bytes(p, {"feed", "feed_stderr", "credit", "adjust"})
               + in_window_sofar[p] + WireBytes(s, {"adjust"})
               = Window
=============================================================================
