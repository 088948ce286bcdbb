------------------------------ MODULE MCRekey ------------------------------
(***************************************************************************)
(* Instances of Rekey for TLC: one application thread at each end.         *)
(***************************************************************************)
EXTENDS RekeyInvariant

PairHome == [c |-> "client", s |-> "server"]

Limits == [auto |-> TRUE, callers |-> {}, hasty |-> FALSE, kinds |-> {"data"}]
OneCaller(t) == [auto |-> FALSE, callers |-> {t}, hasty |-> FALSE, kinds |-> {"data"}]
Requests == [auto |-> FALSE, callers |-> {}, hasty |-> FALSE, kinds |-> Kind]

\* Both ends call renegotiate_keys; one end calls it while the threads send
\* requests.
BothCallers == [auto |-> FALSE, callers |-> {"c", "s"}, hasty |-> TRUE, kinds |-> {}]
CallerAndRequests ==
    [auto |-> FALSE, callers |-> {"c"}, hasty |-> FALSE, kinds |-> {"channel_request"}]

AllScenarios ==
    {Limits, OneCaller("c"), OneCaller("s"), Requests, BothCallers, CallerAndRequests}
OnlyCallerAndRequests == {CallerAndRequests}

\* Two threads of the client: one calls renegotiate_keys in haste, the other
\* sends.
ClientHome == [c |-> "client", d |-> "client"]
OnlyHasty == {[OneCaller("c") EXCEPT !.hasty = TRUE]}
=============================================================================
