----------------------------- MODULE MCSession -----------------------------
(***************************************************************************)
(* Instances of Session for TLC.  In each of them the threads c1, c2 of    *)
(* the client and s1, s2 of the server do something else.                  *)
(***************************************************************************)
EXTENDS Session

PairsHome == [c1 |-> "client", c2 |-> "client", s1 |-> "server", s2 |-> "server"]
Use(c1, c2, s1, s2) == [c1 |-> c1, c2 |-> c2, s1 |-> s1, s2 |-> s2]

\* A command is run on a channel; either end may close it, the client from a
\* second thread.
Work ==
    [calls |-> Use({"open_channel", "exec_command", "recv_exit_status"},
                   {"share", "close"},
                   {"accept", "send_exit_status", "close"}, {}),
     timed |-> {}, opens |-> 1, asks |-> 0, rekeys |-> FALSE]

\* One thread opens one channel after the other.
Again ==
    [calls |-> Use({"open_channel", "close"}, {}, {"accept", "close"}, {}),
     timed |-> {}, opens |-> 2, asks |-> 0, rekeys |-> FALSE]

\* Two threads open at the client, and one gives up.
Openers ==
    [calls |-> Use({"open_channel"}, {"open_channel"}, {"accept"}, {}),
     timed |-> {"c1"}, opens |-> 2, asks |-> 0, rekeys |-> FALSE]

\* Two threads accept at the server, and one gives up.
Acceptors ==
    [calls |-> Use({"open_channel"}, {}, {"accept"}, {"accept"}),
     timed |-> {"s1"}, opens |-> 2, asks |-> 0, rekeys |-> FALSE]

\* Both ends open.
Mutual ==
    [calls |-> Use({"open_channel"}, {"accept"}, {"open_channel"}, {}),
     timed |-> {"s1"}, opens |-> 2, asks |-> 0, rekeys |-> FALSE]

\* Global requests, one after the other.
Asking ==
    [calls |-> Use({"global_request"}, {}, {"global_request"}, {}),
     timed |-> {}, opens |-> 0, asks |-> 2, rekeys |-> FALSE]

\* Calls are pending when a transport is closed, at the other end or at their
\* own.
Ending ==
    [calls |-> Use({"open_channel", "exec_command"}, {}, {"accept"},
                   {"close_transport"}),
     timed |-> {}, opens |-> 1, asks |-> 0, rekeys |-> FALSE]
Leaving ==
    [calls |-> Use({"open_channel"}, {"close_transport"}, {"accept"}, {}),
     timed |-> {}, opens |-> 1, asks |-> 0, rekeys |-> FALSE]
Parting ==
    [calls |-> Use({"global_request"}, {"close_transport"}, {}, {"close_transport"}),
     timed |-> {}, opens |-> 0, asks |-> 1, rekeys |-> TRUE]

\* A global request while keys are exchanged.
Rekeying == [Asking EXCEPT !.rekeys = TRUE]

AllScenarios ==
    {Work, Again, Openers, Acceptors, Mutual, Asking, Ending, Leaving, Parting}
OnlyWork == {Work}
OnlyRekeying == {Rekeying}
=============================================================================
