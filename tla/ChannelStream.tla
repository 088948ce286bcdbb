--------------------------- MODULE ChannelStream ---------------------------
(***************************************************************************)
(* The channel implements a pair of bounded streams.                       *)
(***************************************************************************)
EXTENDS Channel

Unread(s) == Accepted(s) - read[Peer(s)]

Stream == INSTANCE BoundedStream WITH
    Ends <- Side,
    used <- [s \in Side |-> Unread(s)],
    shut <- [s \in Side |-> eof_sent[s] \/ closed[s]]

\* Each direction of the channel is a bounded stream: what send accepts and
\* recv has not returned fits into the peer's window, recv returns only what
\* was accepted, and nothing is accepted after shutdown_write or close.
ImplementsStream == Stream!Spec
=============================================================================
