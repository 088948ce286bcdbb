----------------------------- MODULE MCConnect -----------------------------
(* Connect for TLC: two types of keys with two keys each. *)
EXTENDS Connect

K(t, i) == [type |-> t, id |-> i]
MCKeyTypes == <<"ed", "rsa">>
MCServers == {{K("ed", 1), K("rsa", 1)}, {K("rsa", 2)}}
MCInitialServing ==
    [h \in {"h1", "h2"} |-> IF h = "h1" THEN {K("rsa", 2)} ELSE {K("ed", 1), K("rsa", 1)}]

\* Files: there is none; one with a line for two hosts and one that load skips.
MCHosts == {"h1", "h2", "alias"}
MCTargets == {"h1", "h2"}
MCNoFile == [lines |-> <<>>, exists |-> FALSE]
MCFile == [lines |-> <<[hosts |-> <<"h2">>, key |-> Skipped],
                       [hosts |-> <<"h1", "alias">>, key |-> K("rsa", 1)]>>, exists |-> TRUE]
MCInitialFiles == {MCNoFile, MCFile}
MCSystemLines == <<[hosts |-> <<"h2">>, key |-> K("ed", 1)]>>
MCAdditions == {[hosts |-> <<"alias">>, key |-> K("ed", 2)]}

Plan(attempts, password) ==
    [todo |-> attempts, password |-> password, strategy |-> FALSE, sock |-> FALSE,
     gss |-> FALSE]
MCPlans ==
    {Plan(<<"file", "file">>, FALSE),
     [Plan(<<"ask_agent", "home">>, TRUE) EXCEPT !.sock = TRUE],
     [Plan(<<"gss_mic">>, FALSE) EXCEPT !.gss = TRUE, !.sock = TRUE],
     [Plan(<<"source">>, FALSE) EXCEPT !.strategy = TRUE, !.sock = TRUE]}
MCKeyPlan == {Plan(<<"pkey">>, FALSE)}
MCPartialTypes == {{"password"}, {"publickey"}}
=============================================================================
