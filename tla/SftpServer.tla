----------------------------- MODULE SftpServer -----------------------------
(***************************************************************************)
(* The SFTP server (sftp_server.py, sftp_handle.py): one thread that reads *)
(* a request, processes it and answers, and its tables of open handles.    *)
(*                                                                         *)
(* One remote file is followed.  A byte of it is represented by its        *)
(* offset, so the bytes of a read say where they really come from.  What   *)
(* an SFTPServerInterface does (external) is a choice among the answers    *)
(* its methods may give.                                                   *)
(***************************************************************************)
EXTENDS Integers, Sequences, FiniteSets, TLC, Functions

CONSTANTS
    InitialSize,   \* bytes in the file when the session starts
    Entries,       \* entries of the directory that is listed
    Batch,         \* entries per READDIR answer (16 in the code)
    Faulty,        \* the operations on a handle that may raise IOError
    MaxFaults      \* bound on the calls of the interface that fail

ASSUME ServerAssumption ==
    /\ InitialSize \in Nat /\ Entries \in Nat /\ Batch \in Nat \ {0}
    /\ Faulty \subseteq {"read", "write"} /\ MaxFaults \in Nat

VARIABLES
    requests,      \* packets on the way to the server
    responses,     \* packets on the way to the client
    serving,       \* "new", "running" or "ended"
    next_handle,
    file_table,    \* handle -> what the server keeps of an open file
    folder_table,  \* handle -> entries of the listing not yet sent
    size,          \* the file's size
    faults         \* calls of the SFTPServerInterface that failed

serverVars == <<serving, next_handle, file_table, folder_table, size, faults>>
tables == <<next_handle, file_table, folder_table>>
-----------------------------------------------------------------------------
NoHandle == 0
NoTell == -1

\* An open file: opened with O_APPEND or not, the position SFTPHandle believes
\* the file is at (__tell) and the position it really is at.
FileHandle == [append : BOOLEAN, tell : Nat \cup {NoTell}, ospos : Nat]

\* Answers.
Status(n, code)  == [type |-> "status", num |-> n, code |-> code]
Handle(n, h)     == [type |-> "handle", num |-> n, handle |-> h]
Data(n, bytes)   == [type |-> "data", num |-> n, bytes |-> bytes]
Name(n, count)   == [type |-> "name", num |-> n, count |-> count]
Attrs(n, length) == [type |-> "attrs", num |-> n, length |-> length]

\* The server takes the next request, of one of the types in T.
Takes(T) ==
    /\ serving = "running"
    /\ requests # <<>>
    /\ Head(requests).type \in T
    /\ requests' = Tail(requests)

Respond(answer) == responses' = Append(responses, answer)

\* The SFTPServerInterface does what it is asked, or fails, as its methods do
\* until an application overrides them.  "failure" stands for every error: the
\* codes of convert_errno, SFTP_OP_UNSUPPORTED and the one start_subsystem sends
\* when processing raises all become an IOError of the caller (_convert_status).
Works == UNCHANGED faults
Fails == faults < MaxFaults /\ faults' = faults + 1

Smallest(a, b) == IF a < b THEN a ELSE b
Largest(a, b) == IF a < b THEN b ELSE a

\* The bytes at positions from .. upto - 1.
Bytes(from, upto) == [i \in 1 .. Largest(upto - from, 0) |-> from + i - 1]
-----------------------------------------------------------------------------
(* SFTPHandle *)

\* Where an operation at an offset takes place: the handle seeks unless the
\* position it remembers is the offset asked for.
Seeked(f, offset) ==
    LET tell == IF f.tell = NoTell THEN f.ospos ELSE f.tell
    IN  IF offset # tell THEN offset ELSE f.ospos

\* The handle after n bytes were moved at the offset asked for, from start on.
Moved(f, offset, start, n) ==
    [append |-> f.append, tell |-> offset + n, ospos |-> start + n]

\* In append mode write does not seek; the data goes to the end of the file,
\* and a remembered position is only counted on.
Appended(f, n) ==
    [append |-> f.append, ospos |-> size + n,
     tell |-> IF f.tell = NoTell THEN NoTell ELSE f.tell + n]

\* Mutant: an IOError leaves the remembered position as it was.
FailedRemembers(f, offset) == {[f EXCEPT !.ospos = Seeked(f, offset)]}

\* An IOError makes the handle forget its position.  It may come before or
\* after the seek.
Failed(f, offset) ==
    {[f EXCEPT !.tell = NoTell, !.ospos = p] : p \in {f.ospos, Seeked(f, offset)}}

\* _get_next_files: the next batch of a listing.
NextFiles(left) == Smallest(left, Batch)
-----------------------------------------------------------------------------
(* start_subsystem and _process *)

\* _send_server_version: nothing but INIT opens a session.
ServeInit ==
    /\ serving = "new" /\ requests # <<>>
    /\ requests' = Tail(requests)
    /\ IF Head(requests).type = "init"
         THEN /\ Respond([type |-> "version", num |-> 0])
              /\ serving' = "running"
         ELSE /\ serving' = "ended" /\ UNCHANGED responses
    /\ UNCHANGED <<tables, size, faults>>

\* A table with one more entry, under the next handle's name.
Entered(table, entry) ==
    [h \in DOMAIN table \cup {next_handle} |-> IF h = next_handle THEN entry ELSE table[h]]

\* _send_handle_response: a new name for every handle that is opened.
ServeOpen ==
    /\ Takes({"open"})
    /\ LET r == Head(requests)
       IN  \/ /\ file_table' = Entered(file_table, [append |-> r.append, tell |-> NoTell,
                                                 ospos |-> 0])
              /\ size' = IF r.trunc THEN 0 ELSE size
              /\ next_handle' = next_handle + 1
              /\ Respond(Handle(r.num, next_handle))
              /\ Works
           \/ /\ Fails
              /\ Respond(Status(r.num, "failure"))
              /\ UNCHANGED <<next_handle, file_table, size>>
    /\ UNCHANGED <<serving, folder_table>>

\* A request that names a handle the server does not have.
UnknownHandle(r) == r.handle \notin DOMAIN file_table
BadHandle(r) == Respond(Status(r.num, "bad_message")) /\ UNCHANGED <<file_table, size, faults>>

ServeClose ==
    /\ Takes({"close"})
    /\ LET r == Head(requests)
           known == r.handle \in DOMAIN file_table \cup DOMAIN folder_table
       IN  /\ folder_table' = Restrict(folder_table, DOMAIN folder_table \ {r.handle})
           /\ file_table' = Restrict(file_table, DOMAIN file_table \ {r.handle})
           /\ Respond(Status(r.num, IF known THEN "ok" ELSE "bad_message"))
    /\ UNCHANGED <<serving, next_handle, size, faults>>

ServeRead ==
    /\ Takes({"read"})
    /\ LET r == Head(requests)
           f == file_table[r.handle]
           start == Seeked(f, r.offset)
           data == Bytes(start, Smallest(start + r.length, size))
       IN  IF UnknownHandle(r) THEN BadHandle(r) ELSE
           \/ /\ file_table' = [file_table EXCEPT
                                  ![r.handle] = Moved(f, r.offset, start, Len(data))]
              /\ Respond(IF data = <<>> THEN Status(r.num, "eof") ELSE Data(r.num, data))
              /\ Works /\ UNCHANGED size
           \/ /\ "read" \in Faulty /\ Fails
              /\ \E g \in Failed(f, r.offset) :
                    file_table' = [file_table EXCEPT ![r.handle] = g]
              /\ Respond(Status(r.num, "failure"))
              /\ UNCHANGED size
    /\ UNCHANGED <<serving, next_handle, folder_table>>

ServeWrite ==
    /\ Takes({"write"})
    /\ LET r == Head(requests)
           f == file_table[r.handle]
           start == IF f.append THEN size ELSE Seeked(f, r.offset)
       IN  IF UnknownHandle(r) THEN BadHandle(r) ELSE
           \/ /\ file_table' = [file_table EXCEPT ![r.handle] =
                                  IF f.append THEN Appended(f, r.length)
                                  ELSE Moved(f, r.offset, start, r.length)]
              /\ size' = Largest(size, start + r.length)
              /\ Respond(Status(r.num, "ok"))
              /\ Works
           \/ /\ "write" \in Faulty /\ Fails
              /\ \E g \in Failed(f, r.offset) :
                    file_table' = [file_table EXCEPT ![r.handle] = g]
              /\ Respond(Status(r.num, "failure"))
              /\ UNCHANGED size
    /\ UNCHANGED <<serving, next_handle, folder_table>>

\* STAT, LSTAT and FSTAT: attributes or a code.
ServeStat ==
    /\ Takes({"stat", "fstat"})
    /\ LET r == Head(requests)
       IN  IF r.type = "fstat" /\ UnknownHandle(r)
             THEN Respond(Status(r.num, "bad_message")) /\ UNCHANGED faults
             ELSE \/ Works /\ Respond(Attrs(r.num, size))
                  \/ Fails /\ Respond(Status(r.num, "failure"))
    /\ UNCHANGED <<serving, tables, size>>

\* FSETSTAT, which may empty the file: for an unknown handle the code sends a
\* packet whose type is the number of the code BAD_MESSAGE, which is that of READ,
\* and not a status.
ServeFsetstat ==
    /\ Takes({"fsetstat"})
    /\ LET r == Head(requests)
       IN  IF UnknownHandle(r)
             THEN Respond([type |-> "read", num |-> r.num]) /\ UNCHANGED <<faults, size>>
             ELSE \/ Works /\ Respond(Status(r.num, "ok")) /\ size' \in {size, 0}
                  \/ Fails /\ Respond(Status(r.num, "failure")) /\ UNCHANGED size
    /\ UNCHANGED <<serving, tables>>

\* REMOVE, RENAME, MKDIR, RMDIR, SYMLINK, SETSTAT and posix-rename, of other
\* paths than the file's: a code.
ServePath ==
    /\ Takes({"path", "change"})
    /\ \/ Works /\ Respond(Status(Head(requests).num, "ok"))
       \/ Fails /\ Respond(Status(Head(requests).num, "failure"))
    /\ UNCHANGED <<serving, tables, size>>

\* READLINK and REALPATH: one name, or a code.
ServeName ==
    /\ Takes({"name"})
    /\ \/ Works /\ Respond(Name(Head(requests).num, 1))
       \/ Fails /\ Respond(Status(Head(requests).num, "failure"))
    /\ UNCHANGED <<serving, tables, size>>

\* _open_folder: the listing is taken once and kept with its handle.
ServeOpendir ==
    /\ Takes({"opendir"})
    /\ LET r == Head(requests)
       IN  \/ /\ folder_table' = Entered(folder_table, Entries)
              /\ next_handle' = next_handle + 1
              /\ Respond(Handle(r.num, next_handle))
              /\ Works
           \/ /\ Fails
              /\ Respond(Status(r.num, "failure"))
              /\ UNCHANGED <<next_handle, folder_table>>
    /\ UNCHANGED <<serving, file_table, size>>

\* _read_folder: batch after batch, then EOF.
ServeReaddir ==
    /\ Takes({"readdir"})
    /\ LET r == Head(requests)
           left == folder_table[r.handle]
       IN  IF r.handle \notin DOMAIN folder_table
             THEN Respond(Status(r.num, "bad_message")) /\ UNCHANGED folder_table
             ELSE /\ folder_table' = [folder_table EXCEPT
                                        ![r.handle] = left - NextFiles(left)]
                  /\ Respond(IF NextFiles(left) = 0 THEN Status(r.num, "eof")
                             ELSE Name(r.num, NextFiles(left)))
    /\ UNCHANGED <<serving, next_handle, file_table, size, faults>>

\* start_subsystem returns at the end of the channel; finish_subsystem closes
\* the handles that were left open.
ServerEnds(down) ==
    /\ serving # "ended" /\ down /\ requests = <<>>
    /\ serving' = "ended"
    /\ file_table' = <<>> /\ folder_table' = <<>>
    /\ UNCHANGED <<requests, responses, next_handle, size, faults>>

Serve ==
    \/ ServeInit \/ ServeOpen \/ ServeClose \/ ServeRead \/ ServeWrite
    \/ ServeStat \/ ServeFsetstat \/ ServePath \/ ServeName
    \/ ServeOpendir \/ ServeReaddir

ServerInit ==
    /\ requests = <<>> /\ responses = <<>>
    /\ serving = "new"
    /\ next_handle = 1
    /\ file_table = <<>> /\ folder_table = <<>>
    /\ size = InitialSize /\ faults = 0

\* A handle that does not append is where SFTPHandle believes it is, or
\* SFTPHandle knows that it does not know: after any sequence of reads, writes
\* and failures of either, the next operation takes place at the offset asked
\* for.
HandleTellTrue ==
    \A h \in DOMAIN file_table :
        LET f == file_table[h] IN f.append \/ f.tell \in {NoTell, f.ospos}
=============================================================================
