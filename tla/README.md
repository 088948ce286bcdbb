# A TLA+ model of paramiko

paramiko is an implementation of SSH 2 in Python, client and server. This
directory holds TLA+ modules that model its concurrent core, the TLC
configurations that check them on small instances, and TLAPS proofs of the
results that matter most. `PROJECT.json` is the machine-readable index: which
definition models which lines, which run checks which property, which plausible
bug ("mutant") breaks it.

## The system

Every connection is a `Transport` (transport.py): a thread that reads packets
from the socket through a `Packetizer` (packet.py) and dispatches them to
handlers. Application threads call methods of the transport, of its `Channel`s
(channel.py), or of clients built on channels (SFTP). They share state with the
transport thread under a handful of locks and events, and that is where the
difficulty of this code is.

| Component | State | Operations | Talks to | What is hard | What makes it correct |
|---|---|---|---|---|---|
| Channel | window sizes, two `BufferedPipe`s, `closed`, `eof_sent`, `eof_received`, `combine_stderr` | send, recv, close, shutdown; handlers for DATA, EXTENDED_DATA, WINDOW_ADJUST, EOF, CLOSE | transport (`_send_user_message`), application threads | packets are sent after the lock is released; blocked senders and readers; both ends close at once; loss of the transport | window respected and never lost; each direction is a bounded stream; the end of the stream is final; every blocked call returns |
| Channel requests | `event`, `event_ready`, `status_event`, `exit_status` | exec_command and others; `_handle_request`, `_request_success`, `_request_failed` | transport, `ServerInterface` | an event is cleared while another thread closes | every request returns, with its own answer |
| Key exchange | `local_kex_init`, `in_kex`, `clear_to_send`, `_expected_packet`, `K`, `H`, `completion_event` | `_send_kex_init`, `_negotiate_keys`, kex engines, `_activate_*`, `_parse_newkeys`, `renegotiate_keys` | packetizer, every sender | both ends start at once; user traffic; limits reached in the middle of an exchange; blocking in the transport thread | both ends switch to the same keys at the same packet; the session survives; the pause ends |
| Packetizer | keys, sequence numbers, re-key counters, `need_rekey` | send_message, read_message | socket, transport | counters updated by two threads | a limit that is reached is acted on, once |
| Transport: channels | `_channels`, `channel_events`, `server_accepts`, `saved_exception`, `completion_event`, `global_response` | open_channel, accept, global_request, close, end of `run` | channels, server interface | shared events and exceptions; timeouts and late answers | each caller gets its own answer; nobody waits for ever after the end |
| Authentication | `auth_event`, `authenticated`, `auth_username`, `auth_fail_count`, `saved_exception` | auth_*, server `_parse_userauth_*` | transport, `ServerInterface` | answer before the event exists; methods in sequence | no service without success; each attempt returns |
| Handshake | `_expected_packet`, KEXINIT payloads, agreed algorithms, `H`, `session_id`, sequence numbers, timers | start_client, start_server, `_check_banner`, `_parse_kex_init`, kex engines (groups, ECDH, group exchange, GSSAPI) | packetizer, application waiting in start_* | both ends choose and hash on their own; message numbers shared by engines; peers that stall | both ends agree or both fail; keys only after proof of the host key; start_* ends |
| SSHClient, host keys, agent | `_system_host_keys`, `_host_keys`, the known_hosts file, policy, `_agent` | load_*, save_host_keys, connect, `_auth`, `AuthStrategy.authenticate` | transport, file shared with other programs | merging of files; read, truncate, write; partial success | a trusted key is not silently replaced; a save loses no host |
| SFTP client | `_expecting`, `request_number`, positions and buffers of a file, prefetch tables | requests, pipelined writes, prefetch, readv | channel | prefetch thread and caller share one stream; only the caller reads answers | answers matched to requests; what is read is the file; calls return |
| SFTP server | file and folder tables, `SFTPHandle.__tell` | one handler per request | `SFTPServerInterface` | remembered positions, failures, handles after close | each request gets one answer, at the offset asked for |
| BufferedFile | buffers, positions | read, write, flush, seek | SFTP file | partial reads, failed flushes | same bytes as an unbuffered file |
| Pipes for select | flags, a system pipe | set, clear | channel | concurrent set and clear | readiness agrees with the data |
| Encodings, config | none | pure functions | - | boundaries | agree with a reference definition |

Keys, certificates, the GSSAPI libraries, compression, the Windows agents and the proxy
command wrap libraries or I/O and carry no protocol state. `PROJECT.json` lists
every component with its status, and under "hazards" each place where something
can go wrong that a test would hardly reach.

## The modules

    Channel <- ChannelStream (INSTANCE BoundedStream) <- ChannelInvariant <- MCChannel
                                                                          <- ChannelProofs
    Rekey <- RekeyInvariant <- MCRekey
                            <- RekeyProofs
    Session <- MCSession
            <- SessionInvariant <- SessionProofs <- SessionTheorems
    Auth <- AuthInvariant <- MCAuth
                          <- AuthProofs
    Handshake <- HandshakeInvariant <- MCHandshake
                                    <- HandshakeProofs
    Connect <- MCConnect
            <- ConnectProofs
    SftpServer <- Sftp <- MCSftp
                       <- SftpProofs

`Handshake` is how a session starts, `Rekey` what later exchanges do to its
traffic; `Auth` is the authentication that `Connect` drives; `Session` opens the
channels that `Channel` fills with data; `Sftp` composes the client with
`SftpServer` over such a channel, as a reliable stream that may end.

### Channel

One open channel with both its ends, both directions of the wire, the transport
thread of each end and any number of application threads. State variables have
the names of the attributes of `Channel` and are functions of the end. A step is
what the code does in one critical section; in particular

* `Send` and `SendResume` are `_send` with `_wait_for_send_window`. They leave
  the thread with `pc` "data" or "ext" and the allocated bytes in `held`;
  `Xmit` is the `_send_user_message` that follows without the lock.
* `Recv` and `RecvStderr` are `BufferedPipe.read`, `CheckAddWindow` is the
  `_check_add_window` that follows, `Xmit` sends the WINDOW_ADJUST.
* `SetCombineStderr` moves the buffered stderr bytes out under the lock, `Feed`
  appends them later; `HandleExtended` reads `combine_stderr` without the lock
  and its `Feed` comes later as well.
* `Close`, `ShutdownWrite` and `HandleClose` hand EOF and CLOSE to their thread,
  which transmits them one by one.
* `CloseTransport`, `LoseConnection` and `Unlink` are the end of the session:
  the application closes it, the peer is gone, `_unlink` of the channel.

Data is a number of bytes. The variables `ended`, `sent`, `delivered`, `read`,
`granted`, `credited`, and `upto` in packets, are history: no guard reads
them except the bound `MaxBytes` (through `Accepted`).

`BoundedStream` says what a channel promises in each direction: a stream of
capacity `Window` from which only what was put is taken, and which can be shut
once. `ChannelStream` maps the channel to it: `used` is what `send` accepted and
`recv` has not returned, `shut` is `eof_sent` or `closed`.

Left out: `sendall` and the file objects (loops around `send` and `recv`),
`settimeout(0.0)` (raises at once), opening (both ends start `active`, with the
same window), the pipe of `fileno`, requests, and extended data of an unknown
type. `recv` that times out changes nothing. A woken sender whose `wait` ran out
of time raises in `SendTimeout`.

### Rekey

Two transports from their first KEXINIT on. `todo[p]` is the sequence of steps
that a procedure still has to take in thread `p`: `_send_kex_init` is "clear",
"mark", "kexinit"; the server's answer to the client's value is "kexreply",
"newkeys", "activate", "ext_info", "expect_newkeys". Other threads run between
any two. `_parse_newkeys` is `ReadNewKeys` (with `ActivateInbound`), which sets
`completion_event`, then "leave_kex" and "reopen", which set `clear_to_send`: a
caller that the event releases runs in between. `global_request` makes a new event
(`GlobalRequest`) before it sends (`SendGlobalRequest`); its answer sets it, as the
end of an exchange does. Keys are the pair of KEXINIT numbers that went into the exchange hash;
a packet carries the keys it was written with and is rejected ("Mismatched MAC")
when the reader's differ. `Rejected` gathers all reasons for which the transport
thread ends the session on a packet.

A `scenario`, chosen in `Init`, says how the session is used: whether the limits
can be reached, which threads call `renegotiate_keys`, whether they do so in haste,
as soon as start_client or an earlier call has returned, or when `_parse_newkeys` is
over, and what is sent. `Careful` describes the use under which the code keeps its
promises: one cause of re-keying, no haste, and no message that wants an answer
while keys are exchanged. The findings below are the other uses: `BlocksInKex` is
what the code says of every session, `QuietDuringKex` the same of careful ones.

Abstracted: cryptography, the choice of algorithms and sequence numbers (module
`Handshake`), the byte limit (the packet limit stands for both), compression,
the banner, timers. Any engine with one message each way (curve25519, ECDH,
groups 1, 14, 16) has this shape; group exchange has one more round trip.

### Session

Two transports that have finished the key exchange, with the channels between
them: `open_channel`, `accept`, `global_request`, `exec_command` (get_pty,
invoke_shell and invoke_subsystem take the same steps), the exit status, `Channel.close`,
`Transport.close`, and the handlers of all their packets in the transport thread.
`pc[p]` says what thread `p` is about to do; an end's name is also the name of
its transport thread.

* `OpenChannel` is the test of `active`, `Register` the part of `open_channel`
  under the lock, `OpenWait`, `OpenTimeout`, `OpenLookup` the loop and what
  follows it, `OpenRaises` the call of `get_exception`. `ReadOpen` and `Decide`
  are `_parse_channel_open`: the number is reserved first, the channel entered
  after the server object was asked.
* `Accept` is one critical section up to `wait`; `AcceptReturns` comes after a
  notification (`NotifyOne` picks any waiter) or `AcceptTimeout`.
* `ExecCommand` is the test of `open_only`, `EventPending`, `SendRequest` and
  `EventReturns` what follows, each a step of its own because no lock is held.
* `Collect` is garbage collection: the map of channels has weak references, and
  a channel nobody holds is closed and forgotten at any moment.
* `EndLoop`, `RunUnlink` and `EndRun` are the end of `run`; `SendFails` is a
  write to a peer that is gone.

Each call of `open_channel` and `global_request` has a number, which the packets
carry for the properties only (`num`): the code finds a channel by its channel
number, and a global request by nothing. A `scenario` says which thread calls
what, and who waits with a timeout.

Abstracted: data, windows and EOF (module `Channel`), key exchange (`Rekey`: here
`_send_user_message` never waits, and all that is left of a re-key is that its end
sets whatever `completion_event` there is: `ReadNewKeys`, where `scenario.rekeys`),
the kinds of channels, and the contents of
requests. The callbacks of the server object give any answer. A channel number
does not come round again (`SessionAssumption`).

### Auth

One client and one server that have exchanged keys. The application thread of
the client makes attempts one after the other; both transport threads handle
packets, a handler in one step. `scenario.modern` says which client it is:

* `Transport`: `Create` makes an `AuthHandler` for each attempt, `RequestAuth`
  asks for the service, and `ReadServiceAccept` sends the request when the
  service is granted.
* `ServiceRequestingTransport`: `EnsureSession` and `ServiceAwaited` ask for the
  service once, `SendAuthRequest` sends the request and `NewEvent` makes the
  event, as two steps because no lock covers both.

`WaitEnded`, `WaitTimeout`, `WaitSuccess` and `WaitFailure` are the ways out of
`wait_for_response`; `Fallback` is the attempt with keyboard-interactive inside
`auth_password`. At the server, `ReadRequest` and `ReadInfoResponse` end in
`SendAuthResult`, `InteractiveQuery` or `DisconnectNoMoreAuth`; `ReadOpen` is
`_ensure_authed` for a channel that the application asks for at any time.

The server object gives any verdict, any list of methods that can continue, and
any question. Attempts are numbered; the numbers in packets, and the variables
`asked`, `verdict`, `evaluated`, `handled` and `served`, are history. Left out:
GSSAPI, banners, changing a password, a client that has its own event
(`auth_password(..., event)`), several application threads.

### Handshake

Two transports from start_client and start_server on. `tr[s]` is the `Transport`
of end `s`, with its packetizer and engine, as a record with the names of the
attributes; `app[s]` is the application's thread in start_client, start_server or
connect. One step of a transport thread is one packet read and handled, with
everything sent on the way: `NegotiateKeys` with `ParseKexInit` and `StartKex`,
one action for each message of each engine, `ParseNewkeys`, `ParseExtInfo`.
`CheckBanner` reads one line. The thread waits in `LookActive` and `LookEvent`,
two looks because the code makes two.

Algorithms are names; each end chooses by itself from the two KEXINITs
(`Candidates`, `Choice`). An ephemeral value is the end and the number of the
exchange that made it, the exchange hash is the tuple of what is hashed, keys are
that tuple with the algorithms. So two ends have the same keys exactly when they
hashed the same things. A packet carries the keys and the sequence number it was
written with. A `Setup`, chosen in `Init`, is what the applications and the
machine decide: lists, disabled algorithms, strict mode, versions, lines before
the banner, host keys, sizes and moduli, rounds of a GSSAPI context, a pinned
host key.

`Ephemeral` is the check that a value, a point or a token sent to an engine is one:
only an end that runs another engine fails it, and that happens, since the sizes of
an old group-exchange request have the message number of `KEXDH_INIT`.

`VerifyKey` checks the signature with any algorithm of the key's type, as the code
does: the agreed one is not compared with it. `Outbound` sends NEWKEYS, resets the
number and switches the cipher in one step: a packet that another thread sends in
between is not covered. `Renegotiate` comes between exchanges only; `Rekey` has the
calls that meet one.

Left out: start_client with an event of the caller's, GSSAPI's HOSTKEY and ERROR
messages, the other checks of numeric ranges (an end that runs this code passes
them), IGNORE and DEBUG packets, parsing of the moduli file, lists that differ by
direction (this code sends the same).

### Connect

`SSHClient`s of several processes, the known_hosts file they share with another
program, and servers whose keys may change. `LoadSystemHostKeys`, `LoadHostKeys`,
`Connect`, `Dial`, `StartClient`, `CheckHostKey` and `MissingHostKey` are connect
up to authentication; `Reload`, `Truncate`, `Write` are the three things
save_host_keys does to the file (of two clients that write at once, the lines of the
last one are left). `HostKeys` is a sequence of entries with the operators `Lookup`,
`KeyFor`, `CheckKey`, `Add`, `LoadLine` and `LinesOf`; `LoadLine` has the loop that
removes from the list it iterates over. A line may also be one that load skips
(`Skipped`: a comment, an unknown type, a key that cannot be parsed), which the next
save deletes, or one at which it raises (`Broken`, `LinesRead`), after which the file
is never saved.

`todo` is what `_auth`, or an `AuthStrategy`, has still to try, in its order;
`AttemptAccepted`, `AttemptFails`, `AttemptRaises`, `AskAgent` and `Finally` are the
outcomes. What the server answers is free (module `Auth` says how it comes
about). `Restart` ends the process at any time and starts another; when it was
writing the file, what is left of it is any part that may have gone out (`Remains`).
`OtherProgram` adds a line at any time, or only while no client saves
(`OthersWait`). `known` (what was in the file, since a save last broke off),
`accepted` and `contested` (the keys that a load named while another one counted)
are history.

Left out: hashing of host names, ports, config files, how key files are read.

### SftpServer and Sftp

`SftpServer` is the server's thread: one action per request of `_process`, the
tables of handles, and `SFTPHandle` with the position it remembers (`tell`) beside
the one the file really has (`ospos`). A byte of the file is represented by its
offset. What the application's `SFTPServerInterface` does is free, within
`MaxFaults` failures.

`Sftp` is the client. The user's thread makes calls, one at a time: `UserCalls`
begins one, `InCall` carries it on (`pc` is the point in the code, `call` the local
variables). `AsyncRequest` is what `_async_request` does under the lock,
`SendPacket` what comes after; `SendPart` is a send that takes a part of the packet
only (`cut`), and when another thread then sends, a request is `torn`. What the
server makes of the bytes is not modelled, except that it ends (`Garbage`) or waits. `TakesAnswer` is one round of `_read_response`, and
`Returns`, `AnswerDropped`, `AnswerSaved` and `AnswerData` with `Store` are what
becomes of the answer. A prefetch thread numbers, sends and records each request
in three steps. `CallRead` and the `Fill` actions are `BufferedFile.read` over
`_read` and `_read_prefetch`; `CallWrite`, `FlushChunk`, `Written`, `Drain`,
`Advance` and `FlushDone` are write and flush over `_write`. `Forget` is garbage
collection of a closed file: its expected answers go with it.

`end` in `ret`, `lost` and `vain` are history. Calls are kept waiting for ever by
four things, which the runs tell apart: a torn request; a prefetch request answered
with a status, whose extent stays in the table (`Stranded`); a readv that has found
nothing new to ask for (`vain`); the answer of a pipelined write dropped by another
wait (`WriteDropped`).

Left out: read to the end, readline, text and line buffering, get and put,
chdir, listdir_iter, check-file, attributes, prefetch without a size, calls made
after the channel has gone down.

## The runs

| Run | Instance | Shows |
|---|---|---|
| `channel_flow` | two writers at the server, one for each type of data; a reader for each of stdout and stderr at the client, the latter also switching `combine_stderr` and shutting down reading; window 10, packets of 5 (181,249 states) | `WindowRespected`, `CreditConserved` (every byte of the window is in exactly one place), `TypeOK` (no counter goes below zero) |
| `channel_lifecycle` | a writer that shuts down and closes, a reader, a closer at the other end, and a transport that may stop; window 2 (78,303) | `SenderReleased`, `CloseCompletes`, `EndReachesReader`, `EmptyReadIsFinal`, `ImplementsStream`, and `FlowInv`, the inductive invariant of the proofs |
| `rekey` | one application thread at each end, six scenarios, re-key after 2 packets (166,898) | `SessionSurvives`, `QuietDuringKex`, `SwitchedOnReturn`, `PauseEnds`, `RekeyHappens` |
| `rekey_request` | a channel request meets a re-key | *violated*: the transport thread waits for itself |
| `session` | two threads at each end, nine scenarios, two channels or global requests (62,420) | `WellAddressed` (late packets meet their own channel or none), `NoLostWakeup`, `ExitStatusKept`, `OpenReturnsOwn`, `RaisesOwn`, `GlobalAnswerOwn`, `CallsReturn`, `RequestEnds` |
| `session_request_race` | one thread runs a command, another closes the channel | *violated*: `exec_command` never returns |
| `auth` | both kinds of client; all methods, two users, timeouts, questions, loss of the connection, in eight scenarios; three attempts, disconnection after two failures (525,993) | `GrantedOnly`, `ClientAgrees`, `JudgedOnce`, `OwnAnswer`, `AttemptReturns`, `TypeOK` |
| `auth_event_race` | one `ServiceRequestingTransport`, password | *violated*: "Authentication timeout" though the answer came |
| `handshake` | 26 setups, 11 that agree and 15 that do not, each with two exchanges and a peer that may stall before its banner (12,862) | `InStep` (what is read next was written with the reader's keys and number), `KeysProven`, `CompatibleSucceeds`, `HandshakeEnds` |
| `connect` | one client object at a time, processes that end at any moment, two hosts and an alias, two key types, a file with a line that load skips, three calls of connect, policies that change, one change of a server, another program's line (5,578,442) | `TrustPinned`, `HostsKept` (what a new process loads after a save) |
| `sftp` | one file of 4 bytes in modes r+ and a, requests of at most 3, buffers of 2, reads of 1 and 3, one prefetch thread, pipelining on and off, four calls, one failure, loss of the channel (1,102,009) | `ReadExact`, `AnsweredOnce`, `HandleTellTrue`, `CallsReturn` |
| `sftp_pipelined_error` | a pipelined file, one failing write | *violated*: close tells nobody |

**Bounds.** `Window = 10` makes the threshold (a tenth) 1, so that credit is
withheld; with packets of 5 two writers fill the window, block, are woken
together, and compete. `MaxBytes = 16` lets the window be used up and refilled.
`Window = 2` with sends of 3 makes a sender block after its first send. Both
readers and the sizes 4 and 20 give partial and complete reads. In `rekey`, two
packets reach the limit at once, also between the two NEWKEYS of an exchange;
`MaxSends = 2` lets each end send before, during and after an exchange, and
traffic triggers re-keys from both ends at the same time. A thread calls
`renegotiate_keys` again while the KEXINITs made are fewer than `MaxKexInits = 3`. The overflow limit 7
is the least one that a well-behaved peer stays under with this traffic (with 6
`SessionSurvives` fails), so the margin of the real constants is not what keeps
the session alive. In `session`, two channels are the least with which a packet
can go astray, an exception be another call's, and a notification be lost; nine
scenarios, each with the threads its question needs, take the place of one with
all methods in all threads, which is out of reach. Three channel numbers are one
more than are used. In `auth`, three attempts are the least with which an answer
can be late for one attempt and early for another; two failures instead of ten
reach the limit with an attempt to spare; two questions let the server ask again
after an answer.

In `handshake`, setups are chosen so that the orders of the two ends differ in
every category, each engine is taken, each engine fails in each way it can, and
the second exchange of a session is like the first or not (`session_id` and `H`
then differ). Sizes of primes 2 to 5 leave room on either side of the range; two
lines stand for the hundred a banner may take. In `connect`, two keys of one type
and one of another are the least with which a key can change, be added by someone
else, or be offered in another order; three connects let a key be learnt, met again
and met changed; two key files let the loop over files go on after the first was
accepted; a line with two hosts is what the loop of `load` stumbles over.

In `sftp`, a file of 4 bytes with requests of 3 and a prefetch one past the end takes
two requests, so that with `MaxConcurrent = 2` the limit is reached. An open, a
prefetch and reads of 1 and 3 make four calls: the first read cuts the fetched block
by its buffer of 2, the second is put together from that buffer, the piece that was
put back and the next block. A write of 4 takes two requests, which is past
`PipelineLimit = 1` (the code has 100), so that a pipelined file reads the answers of
its writes, also after another call has dropped one.

**Deadlock** is not checked, except in `connect`, where a process can always be started
again: an application may stop calling at any time.

**Fairness.** Weak fairness of each transport thread, of each call that has
begun, and of transmissions: they are threads of a running interpreter and wait
with a time limit in a loop or on conditions that the model represents. In
`Channel`, threads that read are assumed to keep reading, which is what flow
control asks of them; nobody is obliged to send, close, shut down or renegotiate.
A thread blocked in `_wait_for_send_window` is enabled only by a notification. In
`Auth`, a timeout comes when the scenario has one (`auth_timeout` is set by
default); nobody has to make an attempt, and the connection need not fail. In
`Handshake`, timers go off, threads that can read do. `Connect` has no fairness and
no liveness property: start_client without a timeout and the agent's recv
(agent.py:110) are waits without a limit. In `Sftp` the user's thread goes on with its call, prefetch threads go on (they poll),
and the server serves what has arrived.

## The proofs

`ChannelProofs` proves, for all values of the constants that satisfy
`ChannelAssumption` (which every run evaluates):

* `TypeCorrect`: `Spec => []TypeOK`, for any number of threads and any use. The
  content is that no subtraction goes below zero: not the window, not a pipe.
* `BooksKept`: `Spec => []FlowInv`, the invariant itself.
* `WindowSafe`: `Spec => []WindowRespected`.
* `StreamRefined`: `Spec => ImplementsStream`.
* `EmptyReadFinal`: `Spec => []EmptyReadIsFinal`.

`BooksKept`, `WindowSafe` and `StreamRefined` assume `OneThreadPerRole`: at each
end at most one thread writes, one reads, one switches `combine_stderr`. With several, what threads hold has to
be summed, which needs induction over the set of threads; `channel_flow` checks
two writers and two readers instead.

The invariant is `FlowInv` (module `ChannelInvariant`). `WindowRespected` is far
from inductive: it relates two counters at one end and says nothing of the bytes
on the wire or in a thread's hands. `FlowInv` keeps the books of one direction as
a chain of inequalities between history counters,

    credited <= granted <= read <= delivered <= sent <= accepted = Window + credited - out_window_size

each link with what lies between the two counters: `GrantBook` the withheld
bytes, `ReadBook` the two pipes, `SentBook` the allocated bytes, and `DataChain`
and `AdjustChain` the packets on the wire, which carry disjoint stretches of the
count in order (`Chain`). From the ends of the chain, unread bytes are at most
`Window`. The proof has one lemma for each action and conjunct it can disturb,
and lemmas on how `Chain` behaves under `Append` and `Tail`.

`EmptyReadFinal` has any number of readers and assumes two other things about the
use of the channel, both because of a step that the code takes after it has released
the lock: the thread that ends what an end sends is the one that writes there
(`WriterEnds`; the send of channel.py:1206 may follow another thread's EOF), and
nobody switches `combine_stderr` (`NobodyCombines`; the `_feed` of channel.py:581 may
follow the EOF it overtook). `channel_lifecycle` satisfies both. The invariant is
`EndInv`: an end has noted an EOF or CLOSE before it is on its way (`Announced`), no
data is behind an EOF (`EofLast`), and as long as an end has not closed the channel
itself, its pipes are closed only when the peer's EOF has come and nothing is under
way any more (`EndOK`).

`RekeyProofs` proves, for all values of the constants that satisfy
`RekeyAssumption`:

* `QuietKept`: `Spec => []QuietDuringKex`.
* `KeysSwitched`: `Spec => SwitchedOnReturn`.

They are about careful sessions, in which a thread that re-keys is not hasty.
Both come from `RekeyInv` (module `RekeyInvariant`), which has two parts. The
first is about one end (`EndOK`, `SendingOK`): our KEXINIT is out until the peer's
NEWKEYS, and so long `clear_to_send` is clear and in_kex keeps the limits from
starting another exchange; what an end has sent is open (a KEXINIT without NEWKEYS
after it) only while it may not send. EXT_INFO, the packet after our NEWKEYS, must
not reach the limit by itself, hence `REKEY_PACKETS` of at least 2 (the code has
2^29). The second part is about both ends, since one thing is not local: no exchange
may complete, and set `clear_to_send`, while a caller of `renegotiate_keys` is
between clearing it and sending its KEXINIT. `FirstOK` says that until then there
has been one KEXINIT from each end (`FirstOf`), and that an end whose peer's
NEWKEYS has arrived is in no exchange; `OwnOK` says that after it there is one
exchange, the caller's, at one place at a time (`OneRound`), and that
`completion_event` is set only by it. Many steps do not disturb the second part
(`Plain`, `Busy`); making, sending and reading KEXINIT and NEWKEYS have their own
arguments. `SettlingOK` says where an end is between the event and the reopening of
the gate, and `AskingOK` that a thread in global_request leaves the event of another
use alone.

`SessionProofs` proves `NumbersAgree`, that `SessionInv` (module
`SessionInvariant`) holds in every reachable state, and `SessionTheorems` what
follows, for all values of the constants that satisfy `SessionAssumption`:

* `Addressed`: `Spec => []WellAddressed`.
* `OpensOwn`: `Spec => OpenReturnsOwn`.
* `WakeupKept`: `Spec => []NoLostWakeup`.
* `AnswerIsOwn`: `Spec => GlobalAnswerOwn` (in scenarios without re-keys).
* `StatusKept`: `Spec => []ExitStatusKept`.

`WellAddressed` is about packets, which carry numbers; the invariant relates the
number that each end gave to an open call with what the tables (`TablesOK`), the
packets (`PacketOK`), the threads and the calls of both ends say of it: a number is
given to one call only, the peer knows it or will be told, and what an end sends
after its OPEN or the answer to it comes after it on the wire (`WireOK`).

For `AnswerIsOwn`, `GlobalInv` says that at an end with one requester a global
request is under way in one place at a time, on the wire, with the peer's transport
thread or on its way back (`UnderWay`, `InTurn`), and that it is the one that the
requester awaits (`Awaited`).

For `StatusKept`, `ExitInv` follows the exit status while both ends last. An object
leaves the map only because the peer has closed the channel, because nobody can
reach the object any more, or because it was never opened (`DroppedOK`); CLOSE is on the wire only when its sender
has closed the channel (`CloseSaid`). So an exit status that was in time stays ahead
of the CLOSE (`ExitFirst`) until it is read into an object that is still in the map.
That an object lives as long as that needs that the object of an open call stays
as it is until the one answer is read (`OpenersWait`), and that channels are
unlinked all at once only when an end is over (`EndsOver`).

`ConnectProofs` proves, for all values of the constants that satisfy
`ConnectAssumption`:

* `KeysPinned`: `Spec => []TrustPinned`.

It needs what `HostKeys.load`, `add` and `save_host_keys` compute for
tables of any length. `PinInv` says that the key a client once went on with is the
one that counts in its table for that host and type, also when a load contests it;
tables only grow at their end (`Extends`), and the first entry counts; what a process
that ends leaves of the file is a table too (`RemainsTable`). The lemmas about the recursive functions
are inductions over the number of entries, each in the form of a least
counterexample, which the provers can handle without a predicate as a parameter.

`AuthProofs` proves, for all values of the constants that satisfy
`AuthAssumption`:

* `AuthTypeCorrect`: `Spec => []TypeOK`.
* `OneUserGranted`: `Spec => []GrantedOnly`.
* `NoFalseSuccess`: `Spec => []ClientAgrees`.
* `NotJudgedTwice`: `Spec => []JudgedOnce`.
* `AnswersOwn`: `Spec => OwnAnswer`.

The first three follow from one invariant, `AuthInv` (module `AuthInvariant`). `GrantedOnly`
speaks of the verdicts of the server and `ClientAgrees` of the beliefs of the
client; between the two lie packets that may be arbitrarily late, so the
invariant says of each packet on the wire what makes it harmless (`PacketOK`):
a request carries the user of an attempt that has begun, a question or answer is
about the user noted, success was granted. These stay true because attempts keep
their user and the server takes nothing back (`Stable`). `LimitOK` and
`ExceptionOK` are what `TypeOK` needs to be inductive: a server at the limit
handles no packet, and the exception that ends a session is saved only then. Each
action has a lemma; three lemmas say what a thread cannot disturb. The last two are
about sessions in which no attempt is given up and follow from `PatientInv`: client
and server take turns, so at most one packet is under way (`OneFlies`), it is about
the attempt that waits (`FlightsOK`), and what the server has judged and the client
has been told depends on the stage of the attempt (`CountOK`, `StageOK`).

`SftpProofs` proves, for all values of the constants that satisfy
`ServerAssumption` and `SftpAssumption`:

* `HandleTold`: `Spec => []HandleTellTrue`, for any number of prefetch threads,
  calls, requests and failures.
* `NoAnswerLost`: `Spec => []AnsweredOnce` (while the channel is up and no request is
  torn), with requests that go out in parts.

The invariant of the first is `TableInv`: the property, and that entries of the table are
records of three fields. The point is `SeekedIsOffset`: for an entry that satisfies
the property, a seek ends at the offset asked for whether the position was
remembered, forgotten, or the same; so a transfer moves both positions alike
(`MovedGood`), and a failure on either side of the seek forgets (`FailedGood`).
The rest is that no step of the client touches the table (`CallsKeep`,
`InCallKeeps`, `OthersKeep`). That of the second is `NumberInv`: numbers not yet
given out are nowhere, an expected one is in exactly one place (`OnePlace`: in the
hands of the thread that will send it, whole or the rest of it, or once in one of
the two streams), and at
each stage of a call only the threads that may hold a packet do (`StageOK`).

`HandshakeProofs` proves, for all values of the constants that satisfy
`HandshakeAssumption` (any set of set-ups, any number of exchanges, ends that may
stall at any of the places of `StallAt`):

* `InStepTheorem`: `Spec => []InStep`.
* `KeysProvenTheorem`: `Spec => []KeysProven`.

Both follow from `HandshakeInv` (module `HandshakeInvariant`). An end is in one of
four phases (`Phase`): no exchange under way, KEXINIT sent, engine started, NEWKEYS
sent; the two ends are never more than a message apart (`PhasesOK`), and from the
phases follows what is on the wires: a KEXINIT and a NEWKEYS at most in each
direction (`InitWire`, `NewkeysWire`), and one message of an engine in both
together (`OneEngine`, `EngineToServer`, `EngineToClient`). The two ends choose the
same algorithms by themselves (`Algs`, `AgreedOK`) with one exception: a server
without moduli drops group exchange when it makes its first KEXINIT, the list it
sent still names it, so the ends may run different engines; `KexOK` says that then the
server has answered nothing, and `Ephemeral` that it refuses what the client sends.
Packets before a NEWKEYS fit the reader's keys, those after it the writer's new
ones, with numbers from zero in strict mode (`Stream`, `Fits`); those behind the
version line are numbered from zero (`Banner`). `HashOK`, `KeyOK`, `OutOK`, `HostOK` say
which hashes and keys the ends have in common in which phases; `FirstOK`, that the
session id is the hash of the first exchange, is needed since the MIC of a GSSAPI
exchange is over the session id. What `Keep` computes for lists of any length
is proved by least counterexample, as for `Connect`. TLC checked `HandshakeInv` on the
instance of `handshake`, with ends that may also stall after the banner, before it was
proved.

Only model-checked: every liveness property (fairness is beyond the prover);
`CreditConserved` (sums over sets); `ReadExact` (what sequences of buffers hold) and
`HostsKept` (what a table holds after a file was written and read again);
`RaisesOwn`, which would need the order of the answers to an OPEN and of what ends
the session, also at an end whose peer is already over;
`SessionSurvives`, which depends on how much traffic fits under the overflow
limit; and `CompatibleSucceeds`, which says which set-ups succeed.

## Findings

Each is a run that TLC ends with a violation; `PROJECT.json` quotes the line it
contradicts.

* A transport thread that has to answer while its own KEXINIT is out blocks
  itself (`rekey_request`).
* A close that comes between `open_only` and `_event_pending` leaves
  `exec_command` waiting for ever (`session_request_race`).
* `AuthOnlyHandler` makes its event after it has sent the request
  (`auth_event_race`).
* The failure of a pipelined SFTP write is dropped, and close does not raise it
  (`sftp_pipelined_error`).

The following properties state what the repository says as well, and TLC refutes each
on an instance like that of the module's run with the changes given. The passing
runs check what is left: the same with the case excluded by name.

| Property | What it takes its words from | Instance | What TLC shows |
|---|---|---|---|
| `BlocksInKex` (Rekey) | "block if we're in key negotiation" (transport.py:1968) | `Threads = {"c", "d"}`, `Home <- ClientHome`, `Scenarios <- OnlyHasty`, `MaxSends = 1` | `_parse_newkeys` sets the event before the gate (transport.py:2914): a caller that is released and re-keys at once finds the gate opened behind its KEXINIT, and a message of another thread follows it. `QuietDuringKex` is about sessions without such haste |
| `AnswerReceived` (Session) | "should not return until a response is received" (transport.py:1289) | `Scenarios <- OnlyRekeying` | the end of a re-key releases `global_request`, which returns an old answer or none. `GlobalAnswerOwn` is about sessions without re-keys |
| `HandshakeTimed` (Handshake) | "how long (seconds) to wait for the handshake to finish" (transport.py:569) | `StallAt = {"loop"}` | the first packet ends the timer (transport.py:2280): a peer that stops after its KEXINIT is waited for without a limit. The run has peers that stop before |
| `LoadReplaces` (Connect) | "replacing any existing entries" (hostkeys.py:82), "new replacing old if there are conflicts" (client.py:118) | `Plans <- MCKeyPlan`, `MaxConnects = 1`, `MaxSwaps = 0` | old entries win (hostkeys.py:104). `TrustPinned` makes no claim where a load names another key |
| `SavesMerge` (Connect) | "in case other SSH clients have written to the known_hosts file meanwhile" (client.py:139) | `Clients = {c1, c2}`, `Policies = {"autoadd"}`, `Additions = {}`, else as before | two clients that save at once lose a host (client.py:144). `HostsKept` is checked for one |
| `ConnectAuthenticates` (Connect) | "Connect to an SSH server and authenticate to it" (client.py:244) | as for `LoadReplaces` | connect returns after a partial success that asks for anything but a password or questions (client.py:719) |
| `PacketsWhole` (Sftp) | "this method may be called from other threads (prefetch)" (sftp_client.py:860) | `Modes = {"r+"}`, `InitialSize = 6`, `WriteSizes = {3}`, `MaxCalls = 3` | a request is written by several sends under no lock, and another thread's comes between them (sftp.py:172). The other properties say "not torn" |
| `ReadsReturn` (Sftp) | read returns data, "or an empty string if EOF was encountered" (file.py:170) | `Modes = {"r"}`, `InitialSize = 6`, `MAX_REQUEST_SIZE = 6`, `ReadSizes = {1}`, `Offsets = {0}`, `ReadvLists <- Fetched`, `PastEnd = {0}`, `MaxCalls = 6`, `MaxAsides = 0`, `MaxFaults = 0` | readv with nothing new to ask for sets `prefetch_done` to False for good (sftp_file.py:539), and a read of other bytes waits. `CallsReturn` excludes `vain` |
| `WritesReturn` (Sftp) | answers are "collected as they come in" (sftp_file.py:420) | `Modes = {"w"}`, `BufSize = 0`, `WriteSizes = {1}`, `Offsets = {0}`, `PipelineLimit = 3`, `Workers = {}`, `MaxFaults = 0`, `MaxCalls = 6` | a write after pipelining is switched off waits for an answer that another wait has dropped (sftp_file.py:208). `CallsReturn` excludes `WriteDropped` |

More weaknesses are built into the models, and the properties or the instances
leave room for them.

In `Channel`: a `send` blocked for window is not woken when another thread shuts
down writing (channel.py:1238), and data of a `send` that runs beside
`shutdown_write` can follow the EOF (channel.py:1206); in `channel_lifecycle` the
thread that writes is the one that shuts down.
In `Rekey`: `renegotiate_keys` at both ends at once can make one end send two
KEXINITs and the session end (transport.py:2353); `Careful` excludes it.
In `Session`: `accept(None)` is not woken by `Transport.close` (transport.py:1331);
two concurrent openers share one `saved_exception`, two callers of `global_request`
one answer.
In `Auth`: the wait of `ensure_session` does not notice the end of the session
(transport.py:3366); after a timeout the answers to the attempt given up are taken
for those to the next one; an exception in the interactive handler ends the
session; `auth_none` of `ServiceRequestingTransport` raises `TypeError`.

In `Handshake`:

* A failure between the looks at `active` and at the event lets start_client
  return normally from a failed negotiation (transport.py:768).
* A server without moduli still offers group exchange in its first KEXINIT
  (transport.py:2416); one that changes the sizes asked for hashes the changed ones
  (kex_gex.py:131), so the signature fails.
* `KexGSSGroup1` hashes `str(hm)` at the client, a TypeError (kex_gss.py:230); a second
  round of tokens is not expected; the MIC is over `session_id`, so a re-key fails.
* `Transport.connect` skips the host key check when `gss_kex` was asked for, also
  when another exchange was agreed on (transport.py:1425).

In `Connect`:

* A process that ends while it saves leaves a part of the file (client.py:144), and a
  line that is cut in its key makes every later load raise; `known` starts again there.
* A save deletes the lines that load skips (hostkeys.py:94): `HostsKept` is about the
  others.
* With AutoAddPolicy and a known_hosts file that does not exist, connect raises and
  the file is never made (client.py:142).
* `Agent()` may raise out of `_auth` (client.py:745).

In `Sftp` and `SftpServer`:

* A prefetch request answered with EOF or an error ends another read, keeps its
  extent, and can stop the prefetch thread (sftp_file.py:568).
* Read and write without a seek in between use each other's positions: with
  `Mixed = TRUE`, `ReadExact` is violated, as for any buffered file.
* An append handle that also reads remembers a wrong position (sftp_handle.py:143);
  a failed flush keeps what was written (file.py:94); listdir_attr leaves a handle
  open after an error (sftp_client.py:246); FSETSTAT of an unknown handle is answered
  with a wrong packet type (sftp_server.py:492).

## Not modelled

* `Pipe` (pipe.py): `OrPipe.clear` and `set` run under different locks (pipe.py:132);
  the pipe itself belongs to the operating system.
* `sendall`, whose loop does not end after `shutdown_write` (channel.py:843); the
  wrap of channel numbers at 2^24 (transport.py:1954), beyond what TLC can follow; an
  entry added to `channel_events` while the end of run() iterates (transport.py:2317:
  `EndRun` is one step).
* Keepalive and partial reads and writes of the packetizer (packet.py:656); what an
  SFTP server makes of the bytes of a torn request (sftp.py:204).
* check-file of the SFTP server (sftp_server.py:348).
* Keys, certificates, encodings, configuration, proxy command, compression: parsers
  and wrappers without state that changes.
* GSSAPI authentication, agent forwarding, X11: handlers that copy bytes or call
  libraries.

## Plan

1. Proofs: `RaisesOwn` of `Session`, `CompatibleSucceeds` from
   `HandshakeInv` and what each end accepts, `SessionSurvives` up to the overflow
   limit; `WindowSafe` without `OneThreadPerRole`.
2. An abstract specification for `Session`: a table of calls, each answered at
   most once and by the peer's decision on it.
3. `Pipe`, and GSSAPI in `Auth`.
