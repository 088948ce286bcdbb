--------------------------- MODULE BoundedStream ---------------------------
(***************************************************************************)
(* What a channel promises its users in each direction, without packets,   *)
(* locks or windows on the wire: a byte stream of capacity Window that the *)
(* writing end can shut once and for all.  Stream s carries bytes from end *)
(* s to the other end.  "used" counts the bytes that were accepted and not *)
(* yet returned to a reader.                                               *)
(***************************************************************************)
EXTENDS Integers

CONSTANTS Ends, Window

VARIABLES used, shut

Init ==
    /\ used = [s \in Ends |-> 0]
    /\ shut = [s \in Ends |-> FALSE]

\* k bytes are accepted from a writer; never beyond the capacity, never
\* after the stream was shut.
Put(s) ==
    /\ ~shut[s]
    /\ \E k \in 1 .. (Window - used[s]) : used' = [used EXCEPT ![s] = @ + k]
    /\ UNCHANGED shut

\* k bytes are returned to a reader; only bytes that were accepted.
Get(s) ==
    /\ \E k \in 1 .. used[s] : used' = [used EXCEPT ![s] = @ - k]
    /\ UNCHANGED shut

Shut(s) ==
    /\ shut' = [shut EXCEPT ![s] = TRUE]
    /\ UNCHANGED used

Next == \E s \in Ends : Put(s) \/ Get(s) \/ Shut(s)

Spec == Init /\ [][Next]_<<used, shut>>
=============================================================================
