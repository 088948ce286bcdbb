------------------------------- MODULE MCAuth -------------------------------
(***************************************************************************)
(* Instances of Auth for TLC.                                              *)
(***************************************************************************)
EXTENDS AuthInvariant

Use(modern, methods, users, timed, opens, lossy) ==
    [modern |-> modern, methods |-> methods, users |-> users, timed |-> timed,
     opens |-> opens, lossy |-> lossy]

\* Methods one after the other; a channel is asked for at any time.
Steps == {Use(m, Method, {"ann"}, FALSE, TRUE, FALSE) : m \in BOOLEAN}

\* Attempts are given up, and their answers come late.
Hasty == {Use(m, {"password", "keyboard-interactive"}, {"ann"}, TRUE, FALSE, FALSE) :
            m \in BOOLEAN}

\* The user name changes.
Changing == {Use(m, {"password", "publickey"}, Users, FALSE, TRUE, FALSE) :
               m \in BOOLEAN}

\* The connection is lost.
Lossy == {Use(m, {"password"}, {"ann"}, m, FALSE, TRUE) : m \in BOOLEAN}

AllScenarios == Steps \cup Hasty \cup Changing \cup Lossy
OnlyModern == {Use(TRUE, {"password"}, {"ann"}, TRUE, FALSE, FALSE)}
=============================================================================
