------------------------------- MODULE MCSftp -------------------------------
(* Sftp for TLC: a file of a few bytes, requests of at most a few. *)
EXTENDS Sftp

MCReadvLists ==
    {<<[offset |-> 2, length |-> 1], [offset |-> 0, length |-> 1]>>}

\* A block that prefetch may have fetched.
Fetched == {<<[offset |-> 3, length |-> 1]>>}
=============================================================================
