------------------------------ MODULE Connect ------------------------------
(***************************************************************************)
(* SSHClient: connect with its check of the server's host key and its      *)
(* authentication (client.py, auth_strategy.py, agent.py), and the known   *)
(* hosts behind the check (hostkeys.py), in memory and in a file that the  *)
(* clients of several processes share.                                     *)
(*                                                                         *)
(* A host name is a model value (hashed or not: the names an entry matches *)
(* are what matters), a key is its type and which key of the type it is.   *)
(* What Transport.auth_* answer is the server's choice; Auth models how    *)
(* such an answer comes about.                                             *)
(***************************************************************************)
EXTENDS Integers, Sequences, FiniteSets, SequencesExt

CONSTANTS
    Clients, Hosts,
    Targets,        \* the hosts that are connected to; the others are aliases
    KeyTypes,       \* key types in the order Transport prefers them
    KeyIds,         \* keys there are of a type
    Servers,        \* the sets of keys a server at a host may hold ...
    InitialServing, \* ... and does at the start
    SystemLines,    \* lines of the file load_system_host_keys reads
    InitialFiles,   \* what the known_hosts file may hold at the start
    Additions,      \* lines another program may add to the file between saves
    Policies,       \* missing-host-key policies: "reject", "autoadd", "warning"
    Plans,          \* what connect is given to authenticate with
    PartialTypes,   \* methods a server may ask for after a partial success
    MaxAgentKeys,
    OthersWait,     \* whether other programs leave the file alone during a save
    MaxConnects, MaxSwaps   \* bounds: calls of connect, changes of servers

Key == [type : Range(KeyTypes), id : KeyIds]

\* In place of a key: what HostKeyEntry.from_line makes nothing of (a comment, too
\* few fields, an unknown type, a key it cannot parse), and data that is not base64.
Skipped == [type |-> "skipped"]
Broken == [type |-> "broken"]

\* A line of a known_hosts file; an entry of HostKeys has the same fields.
Line == [hosts : Seq(Hosts), key : Key \cup {Skipped, Broken}]

\* The attempts of _auth in their order, and a source of an AuthStrategy.
Attempt == {"gss_keyex", "gss_mic", "pkey", "file", "ask_agent", "agent", "home", "source"}

ASSUME ConnectAssumption ==
    /\ KeyTypes \in Seq(Range(KeyTypes))
    /\ Servers \subseteq (SUBSET Key) \ {{}}
    /\ Targets \subseteq Hosts /\ InitialServing \in [Targets -> Servers]
    /\ SystemLines \in Seq(Line) /\ Additions \subseteq Line
    /\ InitialFiles \subseteq [lines : Seq(Line), exists : BOOLEAN]
    /\ Policies \subseteq {"reject", "autoadd", "warning"}
    /\ \A p \in Plans : /\ p.todo \in Seq(Attempt \ {"agent"})
                        /\ {p.password, p.strategy, p.sock, p.gss} \subseteq BOOLEAN
    /\ MaxAgentKeys \in Nat /\ MaxConnects \in Nat /\ MaxSwaps \in Nat
    /\ OthersWait \in BOOLEAN

VARIABLES
    serving,        \* the keys of the server each host's name leads to
    file,           \* the known_hosts file: its lines, whether it exists
    system,         \* _system_host_keys of each client
    host_keys,      \* _host_keys of each client
    filename,       \* whether _host_keys_filename is set
    policy,
    agent,          \* keys of the client's Agent, or NoAgent
    transport,      \* the client's Transport: "none", "up", "down"
    pc,             \* where the client is in connect
    call,           \* the host, the plan, and the addresses refused so far
    server_key,     \* the key of the server it talks to
    todo, two_factor,   \* attempts left; a second factor is asked for
    ret,            \* how the last connect ended, after which answer
    contested,      \* {<<host, key>>}: keys a load named while another one counted
    accepted,       \* keys per host the client knew as it went on to authenticate
    known,          \* hosts and types that were in the file, since a save last broke off
    connects, swaps

hostkeys == <<system, host_keys, filename, policy>>
progress == <<call, server_key, todo, two_factor>>
history == <<contested, accepted, known, connects, swaps>>
vars == <<serving, file, hostkeys, agent, transport, pc, progress, ret, history>>
-----------------------------------------------------------------------------
NoAgent == -1
NoKey == [type |-> "none"]
NoCall == [host |-> "none"]
NoRet == [how |-> "none"]
TwoFactorTypes == {"keyboard-interactive", "password"}

(* HostKeys *)

\* lookup: the entries for a host, by their places.
Lookup(entries, h) == {i \in DOMAIN entries : h \in Range(entries[i].hosts)}

\* SubDict.__getitem__: the first entry of a type counts.
KeyFor(entries, h, type) ==
    LET same == {i \in Lookup(entries, h) : entries[i].key.type = type}
    IN  IF same = {} THEN NoKey ELSE entries[Min(same)].key

CheckKey(entries, h, key) == KeyFor(entries, h, key.type) = key

\* add: replaces the key of the entry that has the host and the type.
Add(entries, h, key) ==
    LET at == {i \in Lookup(entries, h) : entries[i].key.type = key.type}
    IN  IF at = {} THEN Append(entries, [hosts |-> <<h>>, key |-> key])
        ELSE [entries EXCEPT ![Min(at)].key = key]

\* load, for one line.  The names under which the key is known already are
\* taken off the line, in a loop over the list that it takes them from, which
\* passes over the name behind each.
LoadLine(entries, line) ==
    LET off[i \in 0 .. Len(line.hosts)] ==
            i # 0 /\ ~off[i - 1] /\ CheckKey(entries, line.hosts[i], line.key)
        left == FlattenSeq([i \in DOMAIN line.hosts |->
                              IF off[i] THEN <<>> ELSE <<line.hosts[i]>>])
    IN  IF line.key = Skipped \/ left = <<>> THEN entries
        ELSE Append(entries, [hosts |-> left, key |-> line.key])

\* The lines that load comes to: InvalidHostKey, for data that is not base64, is no
\* SSHException and ends it.
LinesRead(lines) ==
    LET broken == {i \in DOMAIN lines : lines[i].key = Broken}
    IN  IF broken = {} THEN lines ELSE SubSeq(lines, 1, Min(broken) - 1)

Load(entries, lines) ==
    LET some == LinesRead(lines)
        after[n \in 0 .. Len(some)] ==
            IF n = 0 THEN entries ELSE LoadLine(after[n - 1], some[n])
    IN  after[Len(some)]

\* keys: the hosts in the order of the entries; a host counts where it is first.
Names(entries) == FlattenSeq([i \in DOMAIN entries |-> entries[i].hosts])

\* What save_host_keys writes: a line for each host and each entry of it, with
\* the key that counts for the entry's type.
LinesOf(entries) ==
    LET names == Names(entries)
        linesOf(h) ==
            FlattenSeq([j \in DOMAIN entries |->
                          IF j \notin Lookup(entries, h) THEN <<>>
                          ELSE <<[hosts |-> <<h>>,
                                  key |-> KeyFor(entries, h, entries[j].key.type)]>>])
    IN  FlattenSeq([i \in DOMAIN names |->
                      IF \E j \in 1 .. (i - 1) : names[j] = names[i] THEN <<>>
                      ELSE linesOf(names[i])])

\* The hosts and types a file knows, by the lines that load understands.
Pairs(lines) ==
    UNION {{<<h, l.key.type>> : h \in Range(l.hosts)} :
             l \in {x \in Range(LinesRead(lines)) : x.key # Skipped}}

\* The keys that lines name for a host, of a type; and those that a load of them
\* names for hosts of which another key counts.
Named(lines, h, t) ==
    {l.key : l \in {x \in Range(LinesRead(lines)) : h \in Range(x.hosts) /\ x.key.type = t}}

Contest(entries, lines) ==
    UNION {{<<x[1], k>> : k \in Named(lines, x[1], x[2])} :
             x \in {y \in Hosts \X Range(KeyTypes) :
                      /\ KeyFor(entries, y[1], y[2]) # NoKey
                      /\ ~(Named(lines, y[1], y[2]) \subseteq {KeyFor(entries, y[1], y[2])})}}
-----------------------------------------------------------------------------
(* Setting up *)

Idle(c) == pc[c] = "idle"

\* load_system_host_keys.
LoadSystemHostKeys(c) ==
    /\ Idle(c)
    /\ system[c] = <<>> /\ SystemLines # <<>>
    /\ system' = [system EXCEPT ![c] = Load(@, SystemLines)]
    /\ UNCHANGED <<serving, file, host_keys, filename, policy, agent, transport, pc,
                   progress, ret, history>>

\* load_host_keys: the name is remembered even when the file cannot be read, and
\* so are the entries before a line that raises.
LoadHostKeys(c) ==
    /\ Idle(c)
    /\ ~filename[c]
    /\ filename' = [filename EXCEPT ![c] = TRUE]
    /\ host_keys' = [host_keys EXCEPT ![c] = Load(@, file.lines)]
    /\ contested' = [contested EXCEPT ![c] = @ \cup Contest(host_keys[c], file.lines)]
    /\ UNCHANGED <<serving, file, system, policy, agent, transport, pc, progress, ret,
                   accepted, known, connects, swaps>>

SetMissingHostKeyPolicy(c, p) ==
    /\ Idle(c)
    /\ policy[c] # p
    /\ policy' = [policy EXCEPT ![c] = p]
    /\ UNCHANGED <<serving, file, system, host_keys, filename, agent, transport, pc,
                   progress, ret, history>>
-----------------------------------------------------------------------------
(* connect: to the transport *)

\* Connecting ends with an exception; the transport stays as it is.
Raise(c) ==
    /\ pc' = [pc EXCEPT ![c] = "idle"]
    /\ ret' = [ret EXCEPT ![c] = [how |-> "raised"]]
    /\ call' = [call EXCEPT ![c] = NoCall]
    /\ todo' = [todo EXCEPT ![c] = <<>>]
    /\ two_factor' = [two_factor EXCEPT ![c] = FALSE]
    /\ server_key' = [server_key EXCEPT ![c] = NoKey]

\* A transport of an earlier connect is there until another takes its place.
Connect(c, h, plan) ==
    /\ Idle(c)
    /\ connects[c] < MaxConnects
    /\ connects' = [connects EXCEPT ![c] = @ + 1]
    /\ call' = [call EXCEPT ![c] = [host |-> h, plan |-> plan, refused |-> 0]]
    /\ ret' = [ret EXCEPT ![c] = NoRet]
    /\ pc' = [pc EXCEPT ![c] = IF plan.sock THEN "start" ELSE "dial"]
    /\ transport' = [transport EXCEPT ![c] = IF plan.sock THEN "up" ELSE @]
    /\ UNCHANGED <<serving, file, hostkeys, agent, server_key, todo, two_factor,
                   contested, accepted, known, swaps>>

\* One address after the other; two of them here, one for each family.
Addresses == 2
Dial(c) ==
    /\ pc[c] = "dial"
    /\ \/ /\ pc' = [pc EXCEPT ![c] = "start"]
          /\ transport' = [transport EXCEPT ![c] = "up"]
          /\ UNCHANGED <<progress, ret>>
       \/ /\ call[c].refused + 1 < Addresses
          /\ call' = [call EXCEPT ![c].refused = @ + 1]
          /\ UNCHANGED <<pc, transport, server_key, todo, two_factor, ret>>
       \/ Raise(c) /\ UNCHANGED transport
    /\ UNCHANGED <<serving, file, hostkeys, agent, history>>

\* The keys that speak for the host: the system's if it knows the host.
OurServerKeys(c) ==
    IF Lookup(system[c], call[c].host) # {} THEN system[c] ELSE host_keys[c]

HostKnown(c) == Lookup(OurServerKeys(c), call[c].host) # {}

\* The order key types are offered in: that of the first known key leads.
Preferred(c, type) ==
    LET ours == OurServerKeys(c)
    IN  IF HostKnown(c) /\ type = ours[Min(Lookup(ours, call[c].host))].key.type THEN 0
        ELSE CHOOSE i \in DOMAIN KeyTypes : KeyTypes[i] = type

\* The server's key of the first type it has.
Presented(c) ==
    CHOOSE k \in serving[call[c].host] :
        \A l \in serving[call[c].host] : Preferred(c, k.type) <= Preferred(c, l.type)

\* start_client: the key exchange, after which the server's key is proved; a
\* GSSAPI exchange proves the host without one.  It fails, or its time is up and
\* get_remote_server_key fails while the transport goes on.
StartClient(c) ==
    /\ pc[c] = "start"
    /\ \/ /\ pc' = [pc EXCEPT ![c] = IF call[c].plan.gss THEN "auth" ELSE "hostkey"]
          /\ server_key' = [server_key EXCEPT
                              ![c] = IF call[c].plan.gss THEN NoKey ELSE Presented(c)]
          /\ todo' = [todo EXCEPT ![c] = call[c].plan.todo]
          /\ UNCHANGED <<transport, call, two_factor, ret>>
       \/ /\ Raise(c)
          /\ \E after \in {"up", "down"} : transport' = [transport EXCEPT ![c] = after]
    /\ UNCHANGED <<serving, file, hostkeys, agent, history>>
-----------------------------------------------------------------------------
(* connect: the host key *)

\* Authentication begins with the server whose key is known by now.
Trust(c) ==
    /\ accepted' = [accepted EXCEPT ![c][call[c].host] = @ \cup {server_key[c]}]
    /\ pc' = [pc EXCEPT ![c] = "auth"]

\* Mutant: the key that is known is not compared.
KeyDiffersInType(c) ==
    KeyFor(OurServerKeys(c), call[c].host, server_key[c].type) = NoKey

\* BadHostKeyException: another key, or none of that type.
KeyDiffers(c) ==
    KeyFor(OurServerKeys(c), call[c].host, server_key[c].type) # server_key[c]

CheckHostKey(c) ==
    /\ pc[c] = "hostkey" /\ HostKnown(c)
    /\ IF KeyDiffers(c)
         THEN Raise(c) /\ UNCHANGED accepted
         ELSE Trust(c) /\ UNCHANGED <<progress, ret>>
    /\ UNCHANGED <<serving, file, hostkeys, agent, transport, contested, known, connects,
                   swaps>>

\* missing_host_key of RejectPolicy, WarningPolicy and AutoAddPolicy.
MissingHostKey(c) ==
    /\ pc[c] = "hostkey" /\ ~HostKnown(c)
    /\ \/ /\ policy[c] = "reject"
          /\ Raise(c)
          /\ UNCHANGED <<host_keys, accepted>>
       \/ /\ policy[c] = "warning"
          /\ pc' = [pc EXCEPT ![c] = "auth"]
          /\ UNCHANGED <<host_keys, accepted, progress, ret>>
       \/ /\ policy[c] = "autoadd"
          /\ host_keys' = [host_keys EXCEPT ![c] = Add(@, call[c].host, server_key[c])]
          /\ IF filename[c]
               THEN pc' = [pc EXCEPT ![c] = "reload"] /\ UNCHANGED accepted
               ELSE Trust(c)
          /\ UNCHANGED <<progress, ret>>
    /\ UNCHANGED <<serving, file, system, filename, policy, agent, transport, contested,
                   known, connects, swaps>>

\* Mutant: the file is not read again.
ReloadNothing(c) ==
    /\ pc[c] = "reload"
    /\ pc' = [pc EXCEPT ![c] = "truncate"]
    /\ UNCHANGED <<serving, file, hostkeys, agent, transport, progress, ret, history>>

\* save_host_keys reads the file again, which must exist and be without a line
\* that raises, ...
Reload(c) ==
    /\ pc[c] = "reload"
    /\ host_keys' = [host_keys EXCEPT ![c] = Load(@, file.lines)]
    /\ contested' = [contested EXCEPT ![c] = @ \cup Contest(host_keys[c], file.lines)]
    /\ IF file.exists /\ LinesRead(file.lines) = file.lines
         THEN /\ pc' = [pc EXCEPT ![c] = "truncate"]
              /\ UNCHANGED <<progress, ret>>
         ELSE Raise(c)
    /\ UNCHANGED <<serving, file, system, filename, policy, agent, transport, accepted,
                   known, connects, swaps>>

\* ... empties it ...
Truncate(c) ==
    /\ pc[c] = "truncate"
    /\ file' = [lines |-> <<>>, exists |-> TRUE]
    /\ pc' = [pc EXCEPT ![c] = "write"]
    /\ UNCHANGED <<serving, hostkeys, agent, transport, progress, ret, history>>

\* ... and writes it (of two that write at once, the last one's lines are left); then
\* the key is accepted.
Write(c) ==
    /\ pc[c] = "write"
    /\ file' = [file EXCEPT !.lines = LinesOf(host_keys[c])]
    /\ known' = known \cup Pairs(file'.lines)
    /\ Trust(c)
    /\ UNCHANGED <<serving, hostkeys, agent, transport, progress, ret, contested,
                   connects, swaps>>
-----------------------------------------------------------------------------
(* connect: authentication (_auth, AuthStrategy.authenticate) *)

\* connect returns, after this answer of the server's to an attempt.
Return(c, attempt, types) ==
    /\ pc' = [pc EXCEPT ![c] = "idle"]
    /\ ret' = [ret EXCEPT ![c] = [how |-> "returned", after |-> attempt, next |-> types]]
    /\ call' = [call EXCEPT ![c] = NoCall]
    /\ todo' = [todo EXCEPT ![c] = <<>>]
    /\ two_factor' = [two_factor EXCEPT ![c] = FALSE]
    /\ server_key' = [server_key EXCEPT ![c] = NoKey]

\* The key files behind this one are still tried after it was accepted: the
\* loop that is left is the one over key classes.
FilesNext(s) ==
    SubSeq(s, 1, IF \E i \in DOMAIN s : s[i] # "file"
                   THEN Min({i \in DOMAIN s : s[i] # "file"}) - 1 ELSE Len(s))

\* Whether _auth goes on after the answer to a key: it needs the second factor.
SecondFactor(attempt, types) ==
    IF attempt \in {"pkey", "file", "agent", "home"} THEN types \cap TwoFactorTypes ELSE {}

\* Answers to an attempt: success, or partial success and what comes next.
Answers == {{}} \cup PartialTypes

\* Auth goes on with the next attempt, or past them.
Attempts(c) == pc[c] = "auth" /\ todo[c] # <<>> /\ Head(todo[c]) # "ask_agent"

AttemptAccepted(c, types) ==
    /\ Attempts(c)
    /\ transport[c] = "up"
    /\ LET attempt == Head(todo[c])
       IN  IF SecondFactor(attempt, types) = {}
             THEN Return(c, attempt, types)
             ELSE /\ two_factor' = [two_factor EXCEPT ![c] = TRUE]
                  /\ todo' = [todo EXCEPT ![c] = IF attempt = "file" THEN FilesNext(Tail(@))
                                                 ELSE <<>>]
                  /\ UNCHANGED <<pc, call, server_key, ret>>
    /\ UNCHANGED <<serving, file, hostkeys, agent, transport, history>>

\* The attempt fails with an exception that is saved for the end.
AttemptFails(c) ==
    /\ Attempts(c)
    /\ todo' = [todo EXCEPT ![c] = Tail(@)]
    /\ UNCHANGED <<serving, file, hostkeys, agent, transport, pc, call, server_key,
                   two_factor, ret, history>>

\* An exception that _auth does not catch: a key file that cannot be read, or
\* what ended the transport thread.  AuthStrategy and the GSSAPI attempts catch all.
AttemptRaises(c) ==
    /\ Attempts(c)
    /\ Head(todo[c]) \in {"pkey", "file", "agent", "home"}
    /\ Head(todo[c]) # "file" => transport[c] = "down"
    /\ Raise(c)
    /\ UNCHANGED <<serving, file, hostkeys, agent, transport, history>>

\* Agent(): made once for the client, with the keys it has then.  An agent
\* that gives another answer ends connect.
AskAgent(c) ==
    /\ pc[c] = "auth" /\ todo[c] # <<>> /\ Head(todo[c]) = "ask_agent"
    /\ \/ /\ \E n \in IF agent[c] = NoAgent THEN 0 .. MaxAgentKeys ELSE {agent[c]} :
                /\ agent' = [agent EXCEPT ![c] = n]
                /\ todo' = [todo EXCEPT ![c] = [i \in 1 .. n |-> "agent"] \o Tail(@)]
          /\ UNCHANGED <<pc, call, server_key, two_factor, ret>>
       \/ /\ agent[c] = NoAgent
          /\ Raise(c)
          /\ UNCHANGED agent
    /\ UNCHANGED <<serving, file, hostkeys, transport, history>>

\* At the end: the password, if there is one, or a second factor the user is
\* asked for; or nothing is left.
Finally(c) ==
    /\ pc[c] = "auth" /\ todo[c] = <<>>
    /\ \/ /\ ~call[c].plan.strategy /\ call[c].plan.password /\ transport[c] = "up"
          /\ \E types \in Answers : Return(c, "password", types)
       \/ /\ ~call[c].plan.strategy /\ ~call[c].plan.password /\ two_factor[c]
          /\ transport[c] = "up"
          /\ \E types \in Answers : Return(c, "keyboard-interactive", types)
       \/ Raise(c)
    /\ UNCHANGED <<serving, file, hostkeys, agent, transport, history>>
-----------------------------------------------------------------------------
(* Around it *)

\* The transport stops by itself, while connect uses it.
TransportStops(c) ==
    /\ transport[c] = "up" /\ pc[c] = "auth"
    /\ transport' = [transport EXCEPT ![c] = "down"]
    /\ UNCHANGED <<serving, file, hostkeys, agent, pc, progress, ret, history>>

Close(c) ==
    /\ Idle(c)
    /\ transport[c] # "none"
    /\ transport' = [transport EXCEPT ![c] = "none"]
    /\ agent' = [agent EXCEPT ![c] = NoAgent]
    /\ UNCHANGED <<serving, file, hostkeys, pc, progress, ret, history>>

\* What the file may hold when the process ends while it is written: the lines
\* that went out, of which the last may be cut.
Remains(c) ==
    LET lines == LinesOf(host_keys[c])
        end   == {<<>>} \cup {<<[hosts |-> <<>>, key |-> k]>> : k \in {Skipped, Broken}}
    IN  {SubSeq(lines, 1, n) \o e : n \in 0 .. Len(lines), e \in end}

\* The process ends, at any time, and another one starts: what is in memory is gone.
Restart(c) ==
    /\ connects[c] > 0
    /\ IF pc[c] = "write"
         THEN /\ \E lines \in Remains(c) : file' = [file EXCEPT !.lines = lines]
              /\ known' = Pairs(file'.lines)
         ELSE UNCHANGED <<file, known>>
    /\ system' = [system EXCEPT ![c] = <<>>]
    /\ host_keys' = [host_keys EXCEPT ![c] = <<>>]
    /\ filename' = [filename EXCEPT ![c] = FALSE]
    /\ policy' = [policy EXCEPT ![c] = "reject"]
    /\ agent' = [agent EXCEPT ![c] = NoAgent]
    /\ transport' = [transport EXCEPT ![c] = "none"]
    /\ pc' = [pc EXCEPT ![c] = "idle"]
    /\ call' = [call EXCEPT ![c] = NoCall]
    /\ server_key' = [server_key EXCEPT ![c] = NoKey]
    /\ todo' = [todo EXCEPT ![c] = <<>>]
    /\ two_factor' = [two_factor EXCEPT ![c] = FALSE]
    /\ ret' = [ret EXCEPT ![c] = NoRet]
    /\ contested' = [contested EXCEPT ![c] = {}]
    /\ accepted' = [accepted EXCEPT ![c] = [h \in Hosts |-> {}]]
    /\ UNCHANGED <<serving, connects, swaps>>

\* Another program adds a line to the file.  (Nothing keeps it from doing so while
\* a client saves; OthersWait is for what holds when it does not.)
OtherProgram(line) ==
    /\ file.exists /\ line \notin Range(file.lines)
    /\ OthersWait => \A c \in Clients : pc[c] \notin {"truncate", "write"}
    /\ file' = [file EXCEPT !.lines = Append(@, line)]
    /\ known' = known \cup Pairs(<<line>>)
    /\ UNCHANGED <<serving, hostkeys, agent, transport, pc, progress, ret, contested,
                   accepted, connects, swaps>>

\* Another server answers at a host, for whatever reason.
Swap(h, s) ==
    /\ swaps < MaxSwaps /\ serving[h] # s
    /\ serving' = [serving EXCEPT ![h] = s]
    /\ swaps' = swaps + 1
    /\ UNCHANGED <<file, hostkeys, agent, transport, pc, progress, ret, contested,
                   accepted, known, connects>>
-----------------------------------------------------------------------------
Init ==
    /\ serving = InitialServing
    /\ file \in InitialFiles
    /\ system = [c \in Clients |-> <<>>]
    /\ host_keys = [c \in Clients |-> <<>>]
    /\ filename = [c \in Clients |-> FALSE]
    /\ policy = [c \in Clients |-> "reject"]
    /\ agent = [c \in Clients |-> NoAgent]
    /\ transport = [c \in Clients |-> "none"]
    /\ pc = [c \in Clients |-> "idle"]
    /\ call = [c \in Clients |-> NoCall]
    /\ server_key = [c \in Clients |-> NoKey]
    /\ todo = [c \in Clients |-> <<>>]
    /\ two_factor = [c \in Clients |-> FALSE]
    /\ ret = [c \in Clients |-> NoRet]
    /\ contested = [c \in Clients |-> {}]
    /\ accepted = [c \in Clients |-> [h \in Hosts |-> {}]]
    /\ known = Pairs(file.lines)
    /\ connects = [c \in Clients |-> 0] /\ swaps = 0

\* The steps of a connect that has been called.
InConnect(c) ==
    \/ Dial(c) \/ StartClient(c)
    \/ CheckHostKey(c) \/ MissingHostKey(c) \/ Reload(c) \/ Truncate(c) \/ Write(c)
    \/ \E types \in Answers : AttemptAccepted(c, types)
    \/ AttemptFails(c) \/ AttemptRaises(c) \/ AskAgent(c) \/ Finally(c)

Next ==
    \/ \E c \in Clients :
          \/ LoadSystemHostKeys(c) \/ LoadHostKeys(c)
          \/ \E p \in Policies : SetMissingHostKeyPolicy(c, p)
          \/ \E h \in Targets, plan \in Plans : Connect(c, h, plan)
          \/ InConnect(c)
          \/ TransportStops(c) \/ Close(c) \/ Restart(c)
    \/ \E line \in Additions : OtherProgram(line)
    \/ \E h \in Targets, s \in Servers : Swap(h, s)

Spec == Init /\ [][Next]_vars
-----------------------------------------------------------------------------
(* Properties *)

\* Trust on first use.  Once a client has gone on to authenticate to a server whose
\* key it knew or added (AutoAddPolicy), it does so with no server that shows
\* another key of that type for the host, unless a file that it loads names another
\* one: over policies that are changed, keys learnt and saved, a file that is read
\* again and others that write it.  (As long as the client object lives and the
\* system's keys do not speak for the host.)
TrustPinned ==
    \A c \in Clients, h \in Hosts :
        Lookup(system[c], h) = {} =>
            \A k, l \in accepted[c][h] :
                k.type = l.type => k = l \/ \E x \in contested[c] : x[1] = h /\ x[2].type = k.type

\* What a save leaves behind: a new process that loads the file finds every host
\* and key type that was in a line of it which load understands, whoever wrote it,
\* and for each the key that counts for the client that saved: when no other writes
\* the file meanwhile.
HostsKept ==
    [][\A c \in Clients :
          pc[c] = "write" /\ pc'[c] = "auth" =>
              LET loaded == Load(<<>>, file'.lines)
              IN  /\ known \subseteq Pairs(loaded)
                  /\ \A h \in Hosts, t \in Range(KeyTypes) :
                        KeyFor(loaded, h, t) = KeyFor(host_keys[c], h, t)
      ]_vars

\* load_host_keys: "Each new set of host keys will be merged with the existing set
\* (new replacing old if there are conflicts)".  Where there was a conflict, a key
\* that a load named counts, not the one from before.  (In the code it is that one.)
LoadReplaces ==
    \A c \in Clients : \A x \in contested[c] :
        <<x[1], KeyFor(host_keys[c], x[1], x[2].type)>> \in contested[c]

\* save_host_keys reads the file again "in case other SSH clients have written to
\* the known_hosts file meanwhile": no host and type that was ever in the file at
\* rest is gone from it when it is at rest again.  (True of one client at a time.)
SavesMerge ==
    (\A c \in Clients : pc[c] \notin {"truncate", "write"}) => known \subseteq Pairs(file.lines)

\* connect: "Connect to an SSH server and authenticate to it".  When it returns, the
\* server asks for nothing more.  (Not so after a partial success of other types than
\* TwoFactorTypes.)
ConnectAuthenticates == \A c \in Clients : ret[c].how = "returned" => ret[c].next = {}
=============================================================================
