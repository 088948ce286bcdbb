------------------------------- MODULE Rekey -------------------------------
(***************************************************************************)
(* Key exchange and re-keying (paramiko/transport.py, packet.py and the    *)
(* kex engines) between two Transports, from the first KEXINIT on.         *)
(*                                                                         *)
(* Each end has a transport thread (Transport.run), which is named after   *)
(* the end, and application threads, which send messages through           *)
(* _send_user_message and may call renegotiate_keys.  What the code does   *)
(* under clear_to_send_lock or under the packetizer's write lock is one    *)
(* step.  A procedure that takes several steps is a sequence of operations *)
(* that its thread still has to do ("todo"); other threads run in between. *)
(*                                                                         *)
(* Cryptography is abstracted to what it tells apart: a KEXINIT is known   *)
(* by its number (it holds a random cookie), the keys by the pair of       *)
(* KEXINITs that went into the exchange hash, and a packet can be read     *)
(* only with the keys it was written with.  Of the two limits that ask for *)
(* a re-key, packets and bytes, the one on packets is modelled.            *)
(***************************************************************************)
EXTENDS Integers, Sequences, FiniteSets

CONSTANTS
    Threads,      \* the application threads
    Home,         \* the end each of them belongs to
    Scenarios,    \* how the session is used, see Scenario
    REKEY_PACKETS,
    REKEY_PACKETS_OVERFLOW_MAX,
    MaxSends,     \* bound: how many messages each thread sends
    MaxKexInits   \* bound: a thread calls renegotiate_keys again below it

Side == {"client", "server"}
Peer(s) == IF s = "client" THEN "server" ELSE "client"

\* What an application thread may send: a message that needs no answer
\* (CHANNEL_DATA), a channel request or a global request that wants a reply.
Kind == {"data", "channel_request", "global_request"}

\* What a session may not carry between a KEXINIT and the NEWKEYS after it.
Payload == Kind \cup {"channel_success", "request_success"}

\* Is the session long enough to reach the limits; which threads call
\* renegotiate_keys, and do they call it in haste, as soon as start_client or an
\* earlier call has returned; what do the threads send.
Scenario == [auto : BOOLEAN, callers : SUBSET Threads, hasty : BOOLEAN,
             kinds : SUBSET Kind]

\* (The code's REKEY_PACKETS is 2^29: EXT_INFO alone does not reach it.)
ASSUME RekeyAssumption ==
    /\ IsFiniteSet(Threads)
    /\ Threads \cap Side = {}
    /\ Home \in [Threads -> Side]
    /\ Scenarios \subseteq Scenario
    /\ REKEY_PACKETS \in Nat \ {0, 1}
    /\ REKEY_PACKETS_OVERFLOW_MAX \in Nat \ {0}
    /\ MaxSends \in Nat
    /\ MaxKexInits \in Nat

Procs == Threads \cup Side
At(p) == IF p \in Side THEN p ELSE Home[p]

VARIABLES
    scenario,
    wire,              \* wire[s]: packets on their way to s
    active,            \* Transport.active
    clear_to_send, in_kex,
    local_kex_init,    \* number of the KEXINIT we sent, 0 for None
    remote_kex_init,   \* number of the KEXINIT we received, 0 for None
    kexinits,          \* how many KEXINITs an end has made
    expected,          \* _expected_packet
    completion,        \* completion_event is set
    exchanged,         \* K and H: the keys to activate next, NoKey for None
    out_key, in_key,   \* the keys in use
    need_rekey, init_count, sent_packets, received_packets,
    received_packets_overflow,
    todo,              \* what a process still has to do
    mine,              \* the KEXINIT a process has made
    left,              \* how many messages a thread may still send
    asking             \* threads in global_request, before they send

kex   == <<local_kex_init, remote_kex_init, kexinits, exchanged>>
gate  == <<clear_to_send, in_kex>>
count == <<need_rekey, init_count, sent_packets, received_packets,
           received_packets_overflow>>
keys  == <<out_key, in_key>>
sends == <<left, asking>>
vars  == <<scenario, wire, active, gate, kex, expected, completion, keys,
           count, todo, mine, sends>>

NoKey == <<0, 0>>

\* run() begins with our own KEXINIT and then expects the peer's.
Init ==
    /\ scenario \in Scenarios
    /\ wire = [s \in Side |-> <<>>]
    /\ active = [s \in Side |-> TRUE]
    /\ clear_to_send = [s \in Side |-> FALSE]
    /\ in_kex = [s \in Side |-> FALSE]
    /\ local_kex_init = [s \in Side |-> 0]
    /\ remote_kex_init = [s \in Side |-> 0]
    /\ kexinits = [s \in Side |-> 0]
    /\ expected = [s \in Side |-> {}]
    /\ completion = [s \in Side |-> FALSE]
    /\ exchanged = [s \in Side |-> NoKey]
    /\ out_key = [s \in Side |-> NoKey]
    /\ in_key = [s \in Side |-> NoKey]
    /\ need_rekey = [s \in Side |-> FALSE]
    /\ init_count = [s \in Side |-> {}]
    /\ sent_packets = [s \in Side |-> 0]
    /\ received_packets = [s \in Side |-> 0]
    /\ received_packets_overflow = [s \in Side |-> 0]
    /\ todo = [p \in Procs |-> IF p \in Side
                               THEN <<"clear", "mark", "kexinit", "expect_kexinit">>
                               ELSE <<>>]
    /\ mine = [p \in Procs |-> 0]
    /\ left = [t \in Threads |-> MaxSends]
    /\ asking = {}

Doing(p, op) == active[At(p)] /\ todo[p] # <<>> /\ Head(todo[p]) = op
Done(p) == todo' = [todo EXCEPT ![p] = Tail(@)]
-----------------------------------------------------------------------------
(* Packetizer *)

\* send_message: the packet is written with the current keys; the packet
\* that reaches the limit asks for a re-key, once.
SendMessage(s, type, val) ==
    LET n == sent_packets[s] + 1
        trigger == scenario.auto /\ n >= REKEY_PACKETS /\ ~need_rekey[s]
    IN  /\ wire' = [wire EXCEPT ![Peer(s)] =
                      Append(@, [type |-> type, val |-> val, key |-> out_key[s]])]
        /\ sent_packets' = [sent_packets EXCEPT ![s] = n]
        /\ need_rekey' = [need_rekey EXCEPT ![s] = @ \/ trigger]
        /\ received_packets_overflow' = [received_packets_overflow EXCEPT
                                           ![s] = IF trigger THEN 0 ELSE @]
        /\ UNCHANGED <<init_count, received_packets>>

\* "wait until the reset happens in both directions before clearing rekey
\* flag": init_count, and the flag given what it was, after a switch of d.
InitCountAfter(s, d) ==
    IF init_count[s] \cup {d} = {"in", "out"} THEN {} ELSE init_count[s] \cup {d}
\* Mutant: the flag is never cleared.
NeedKept(s, d, need) == need

NeedAfter(s, d, need) == need /\ InitCountAfter(s, d) # {}

\* read_message: does the packet that has just been read ask for a re-key;
\* is the peer "ignoring rekey requests".
AsksRekey(s) ==
    need_rekey[s] \/ (scenario.auto /\ received_packets[s] + 1 >= REKEY_PACKETS)
Ignoring(s) ==
    need_rekey[s] /\ received_packets_overflow[s] + 1 >= REKEY_PACKETS_OVERFLOW_MAX

CountReceived(s) ==
    /\ received_packets' = [received_packets EXCEPT ![s] = @ + 1]
    /\ need_rekey' = [need_rekey EXCEPT ![s] = AsksRekey(s)]
    /\ received_packets_overflow' = [received_packets_overflow EXCEPT
           ![s] = IF need_rekey[s] THEN @ + 1 ELSE IF AsksRekey(s) THEN 0 ELSE @]
    /\ UNCHANGED <<init_count, sent_packets>>
-----------------------------------------------------------------------------
(* _send_kex_init, in the transport thread or in a caller of               *)
(* renegotiate_keys *)

\* Mutant: clear_to_send is left set.
ClearNothing(p) ==
    /\ Doing(p, "clear")
    /\ Done(p)
    /\ UNCHANGED <<scenario, wire, active, gate, kex, expected, completion, keys,
                   count, mine, sends>>

Clear(p) ==
    /\ Doing(p, "clear")
    /\ clear_to_send' = [clear_to_send EXCEPT ![At(p)] = FALSE]
    /\ Done(p)
    /\ UNCHANGED <<scenario, wire, active, in_kex, kex, expected, completion,
                   keys, count, mine, sends>>

\* in_kex is set, the KEXINIT is made and saved as local_kex_init.
Mark(p) ==
    LET s == At(p)
    IN  /\ Doing(p, "mark")
        /\ in_kex' = [in_kex EXCEPT ![s] = TRUE]
        /\ kexinits' = [kexinits EXCEPT ![s] = @ + 1]
        /\ local_kex_init' = [local_kex_init EXCEPT ![s] = kexinits'[s]]
        /\ mine' = [mine EXCEPT ![p] = kexinits'[s]]
        /\ Done(p)
        /\ UNCHANGED <<scenario, wire, active, clear_to_send, remote_kex_init,
                       exchanged, expected, completion, keys, count, sends>>

SendKexInit(p) ==
    /\ Doing(p, "kexinit")
    /\ SendMessage(At(p), "kexinit", <<mine[p]>>)
    /\ Done(p)
    /\ UNCHANGED <<scenario, active, gate, kex, expected, completion, keys,
                   mine, sends>>
-----------------------------------------------------------------------------
(* Application threads *)

\* The transport thread is in the rest of _parse_newkeys.
Settling(s) ==
    todo[s] # <<>> /\ Head(todo[s]) \in {"leave_kex", "reopen"}

\* _send_user_message, for a process of end s: sent under clear_to_send_lock
\* when clear_to_send is set.
SendUserMessage(s, type) ==
    /\ clear_to_send[s]
    /\ SendMessage(s, type, <<>>)

UserSends(t, kind) ==
    LET s == Home[t]
    IN  /\ active[s]
        /\ left[t] > 0
        /\ kind \in scenario.kinds \ {"global_request"}
        /\ todo[t] = <<>> /\ t \notin asking
        /\ SendUserMessage(s, kind)
        /\ left' = [left EXCEPT ![t] = @ - 1]
        /\ UNCHANGED <<scenario, active, gate, kex, expected, completion, keys,
                       todo, mine, asking>>

\* global_request makes a new completion_event, then sends.  (Its wait for the
\* answer is in module Session.)
GlobalRequest(t) ==
    LET s == Home[t]
    IN  /\ active[s]
        /\ left[t] > 0
        /\ "global_request" \in scenario.kinds
        /\ in_key[s] # NoKey
        /\ todo[t] = <<>> /\ t \notin asking
        /\ completion' = [completion EXCEPT ![s] = FALSE]
        /\ left' = [left EXCEPT ![t] = @ - 1]
        /\ asking' = asking \cup {t}
        /\ UNCHANGED <<scenario, wire, active, gate, kex, expected, keys, count,
                       todo, mine>>

SendGlobalRequest(t) ==
    /\ active[Home[t]]
    /\ t \in asking
    /\ SendUserMessage(Home[t], "global_request")
    /\ asking' = asking \ {t}
    /\ UNCHANGED <<scenario, active, gate, kex, expected, completion, keys,
                   todo, mine, left>>

\* renegotiate_keys, called only in a session that is up (start_client and
\* start_server return when the first NEWKEYS has set completion_event): once by
\* each thread, when _parse_newkeys has returned; or in haste.
Renegotiate(t) ==
    LET s == Home[t]
    IN  /\ active[s]
        /\ t \in scenario.callers
        /\ todo[t] = <<>> /\ t \notin asking
        /\ in_key[s] # NoKey
        /\ \/ mine[t] = 0 /\ ~Settling(s)
           \/ scenario.hasty /\ kexinits[s] < MaxKexInits
        /\ completion' = [completion EXCEPT ![s] = FALSE]
        /\ todo' = [todo EXCEPT ![t] = <<"clear", "mark", "kexinit", "await">>]
        /\ UNCHANGED <<scenario, wire, active, gate, kex, expected, keys, count,
                       mine, sends>>

\* It returns when completion_event is set.
RenegotiateReturns(t) ==
    /\ Doing(t, "await")
    /\ completion[Home[t]]
    /\ Done(t)
    /\ UNCHANGED <<scenario, wire, active, gate, kex, expected, completion, keys,
                   count, mine, sends>>
-----------------------------------------------------------------------------
(* Transport.run: the loop, and the end of the session *)

\* Mutant: in_kex is not looked at.
LoopTopEager(s) ==
    /\ active[s]
    /\ todo[s] = <<>>
    /\ todo' = [todo EXCEPT ![s] =
                  IF need_rekey[s]
                  THEN <<"clear", "mark", "kexinit", "read">> ELSE <<"read">>]
    /\ UNCHANGED <<scenario, wire, active, gate, kex, expected, completion, keys,
                   count, mine, sends>>

\* "while self.active: if need_rekey and not in_kex: _send_kex_init"
LoopTop(s) ==
    /\ active[s]
    /\ todo[s] = <<>>
    /\ todo' = [todo EXCEPT ![s] =
                  IF need_rekey[s] /\ ~in_kex[s]
                  THEN <<"clear", "mark", "kexinit", "read">> ELSE <<"read">>]
    /\ UNCHANGED <<scenario, wire, active, gate, kex, expected, completion, keys,
                   count, mine, sends>>

\* read_all times out between two packets: NeedRekeyException.  (While in_kex
\* is set, the loop comes straight back to the read.)
ReadTimeout(s) ==
    /\ Doing(s, "read")
    /\ wire[s] = <<>>
    /\ need_rekey[s] /\ ~in_kex[s]
    /\ Done(s)
    /\ UNCHANGED <<scenario, wire, active, gate, kex, expected, completion, keys,
                   count, mine, sends>>

\* An exception ends run().
Fail(s) ==
    /\ active' = [active EXCEPT ![s] = FALSE]
    /\ UNCHANGED <<scenario, wire, gate, kex, expected, completion, keys, count,
                   todo, mine, sends>>

\* What the kex engine makes of the two KEXINITs: the client's comes first.
ExchangeHash(s) ==
    IF s = "client" THEN <<local_kex_init[s], remote_kex_init[s]>>
    ELSE <<remote_kex_init[s], local_kex_init[s]>>

\* The packet m cannot be handled: it was written with other keys ("Mismatched
\* MAC"), came in spite of our rekey request, is not the one expected, its
\* signature is not over our exchange hash (_verify_key), or there are no keys
\* to switch to.
Rejected(s, m) ==
    \/ m.key # in_key[s]
    \/ Ignoring(s)
    \/ expected[s] # {} /\ m.type \notin expected[s]
    \/ m.type = "kexreply" /\ expected[s] # {} /\ m.val # ExchangeHash(s)
    \/ m.type = "newkeys" /\ exchanged[s] = NoKey

ReadFails(s) ==
    /\ Doing(s, "read")
    /\ wire[s] # <<>>
    /\ Rejected(s, Head(wire[s]))
    /\ Fail(s)

\* The peer's session has ended and closed the socket: EOFError.
ReadEof(s) ==
    /\ Doing(s, "read")
    /\ wire[s] = <<>>
    /\ ~active[Peer(s)]
    /\ Fail(s)

\* The transport thread reads a packet of type ty that it can handle.
Reads(s, ty) ==
    /\ Doing(s, "read")
    /\ wire[s] # <<>>
    /\ Head(wire[s]).type = ty
    /\ ~Rejected(s, Head(wire[s]))
    /\ wire' = [wire EXCEPT ![s] = Tail(@)]

\* ... and goes on with the operations ops.
ReadThen(s, ty, ops) ==
    /\ Reads(s, ty)
    /\ CountReceived(s)
    /\ todo' = [todo EXCEPT ![s] = ops]
-----------------------------------------------------------------------------
(* Key exchange *)

\* MSG_KEXINIT: _negotiate_keys begins by stopping user messages.
ReadKexInit(s) ==
    /\ ReadThen(s, "kexinit", <<"clear", "negotiate", "start_kex">>)
    /\ remote_kex_init' = [remote_kex_init EXCEPT ![s] = Head(wire[s]).val[1]]
    /\ expected' = [expected EXCEPT ![s] = {}]
    /\ UNCHANGED <<scenario, active, gate, local_kex_init, kexinits, exchanged,
                   completion, keys, mine, sends>>

\* Mutant: the peer's KEXINIT is not answered.
NegotiateSilently(s) ==
    /\ Doing(s, "negotiate")
    /\ Done(s)
    /\ UNCHANGED <<scenario, wire, active, gate, kex, expected, completion, keys,
                   count, mine, sends>>

\* "remote side wants to renegotiate": answer unless our KEXINIT is out.
Negotiate(s) ==
    /\ Doing(s, "negotiate")
    /\ todo' = [todo EXCEPT ![s] =
                  (IF local_kex_init[s] = 0 THEN <<"clear", "mark", "kexinit">> ELSE <<>>)
                  \o Tail(@)]
    /\ UNCHANGED <<scenario, wire, active, gate, kex, expected, completion, keys,
                   count, mine, sends>>

\* kex_engine.start_kex: the client sends its value, the server expects it.
StartKex(s) ==
    /\ Doing(s, "start_kex")
    /\ \/ /\ s = "client"
          /\ SendMessage(s, "kexdh", <<>>)
          /\ expected' = [expected EXCEPT ![s] = {"kexreply"}]
       \/ /\ s = "server"
          /\ expected' = [expected EXCEPT ![s] = {"kexdh"}]
          /\ UNCHANGED <<wire, count>>
    /\ Done(s)
    /\ UNCHANGED <<scenario, active, gate, kex, completion, keys, mine, sends>>

\* kex_engine.parse_next: the server answers, then both switch their outbound
\* keys (_activate_outbound).  The server also sends EXT_INFO.
ReadKexDh(s) ==
    /\ ReadThen(s, "kexdh", <<"kexreply", "newkeys", "activate", "ext_info",
                              "expect_newkeys">>)
    /\ expected[s] # {}
    /\ exchanged' = [exchanged EXCEPT ![s] = ExchangeHash(s)]
    /\ expected' = [expected EXCEPT ![s] = {}]
    /\ UNCHANGED <<scenario, active, gate, local_kex_init, remote_kex_init,
                   kexinits, completion, keys, mine, sends>>

ReadKexReply(s) ==
    /\ ReadThen(s, "kexreply", <<"newkeys", "activate", "expect_newkeys">>)
    /\ expected[s] # {}
    /\ exchanged' = [exchanged EXCEPT ![s] = ExchangeHash(s)]
    /\ expected' = [expected EXCEPT ![s] = {}]
    /\ UNCHANGED <<scenario, active, gate, local_kex_init, remote_kex_init,
                   kexinits, completion, keys, mine, sends>>

\* Packets the transport thread sends with _send_message, whatever
\* clear_to_send says.
SendDirect(s) ==
    /\ \E type \in {"kexreply", "newkeys", "ext_info", "request_success",
                   "unimplemented"} :
          /\ Doing(s, type)
          /\ SendMessage(s, type, exchanged[s])
    /\ Done(s)
    /\ UNCHANGED <<scenario, active, gate, kex, expected, completion, keys,
                   mine, sends>>

\* Mutant: completion_event is set as soon as we have sent our NEWKEYS.
ActivateOutboundCompletes(s) ==
    LET need == NeedAfter(s, "out", need_rekey[s])
    IN  /\ Doing(s, "activate")
        /\ out_key' = [out_key EXCEPT ![s] = exchanged[s]]
        /\ sent_packets' = [sent_packets EXCEPT ![s] = 0]
        /\ init_count' = [init_count EXCEPT ![s] = InitCountAfter(s, "out")]
        /\ need_rekey' = [need_rekey EXCEPT ![s] = need]
        /\ in_kex' = [in_kex EXCEPT ![s] = @ /\ need]
        /\ completion' = [completion EXCEPT ![s] = TRUE]
        /\ Done(s)
        /\ UNCHANGED <<scenario, wire, active, clear_to_send, kex, expected,
                       in_key, received_packets, received_packets_overflow,
                       mine, sends>>

\* The second half of _activate_outbound, after NEWKEYS was sent.
ActivateOutbound(s) ==
    LET need == NeedAfter(s, "out", need_rekey[s])
    IN  /\ Doing(s, "activate")
        /\ out_key' = [out_key EXCEPT ![s] = exchanged[s]]
        /\ sent_packets' = [sent_packets EXCEPT ![s] = 0]
        /\ init_count' = [init_count EXCEPT ![s] = InitCountAfter(s, "out")]
        /\ need_rekey' = [need_rekey EXCEPT ![s] = need]
        /\ in_kex' = [in_kex EXCEPT ![s] = @ /\ need]
        /\ Done(s)
        /\ UNCHANGED <<scenario, wire, active, clear_to_send, kex, expected,
                       completion, in_key, received_packets,
                       received_packets_overflow, mine, sends>>

\* _expect_packet(MSG_KEXINIT) or _expect_packet(MSG_NEWKEYS)
Expect(s) ==
    /\ \/ /\ Doing(s, "expect_kexinit")
          /\ expected' = [expected EXCEPT ![s] = {"kexinit"}]
       \/ /\ Doing(s, "expect_newkeys")
          /\ expected' = [expected EXCEPT ![s] = {"newkeys"}]
    /\ Done(s)
    /\ UNCHANGED <<scenario, wire, active, gate, kex, completion, keys, count,
                   mine, sends>>

\* _activate_inbound: new keys and new counts for what comes in.
ActivateInbound(s) ==
    /\ in_key' = [in_key EXCEPT ![s] = exchanged[s]]
    /\ received_packets' = [received_packets EXCEPT ![s] = 0]
    /\ received_packets_overflow' = [received_packets_overflow EXCEPT ![s] = 0]
    /\ init_count' = [init_count EXCEPT ![s] = InitCountAfter(s, "in")]
    /\ need_rekey' = [need_rekey EXCEPT ![s] = NeedAfter(s, "in", AsksRekey(s))]

\* _parse_newkeys then forgets the exchange and sets the event.  (One step:
\* whatever another thread does in between it could as well have done before or
\* after.)
ReadNewKeys(s) ==
    /\ Reads(s, "newkeys")
    /\ ActivateInbound(s)
    /\ local_kex_init' = [local_kex_init EXCEPT ![s] = 0]
    /\ remote_kex_init' = [remote_kex_init EXCEPT ![s] = 0]
    /\ exchanged' = [exchanged EXCEPT ![s] = NoKey]
    /\ completion' = [completion EXCEPT ![s] = TRUE]
    /\ expected' = [expected EXCEPT ![s] = {}]
    /\ todo' = [todo EXCEPT ![s] = <<"leave_kex", "reopen">>]
    /\ UNCHANGED <<scenario, active, gate, kexinits, out_key, sent_packets, mine, sends>>

\* "it's now okay to send data again (if this was a re-key)"
LeaveKex(s) ==
    /\ Doing(s, "leave_kex")
    /\ in_kex' = [in_kex EXCEPT ![s] = @ /\ need_rekey[s]]
    /\ Done(s)
    /\ UNCHANGED <<scenario, wire, active, clear_to_send, kex, expected, completion,
                   keys, count, mine, sends>>

Reopen(s) ==
    /\ Doing(s, "reopen")
    /\ clear_to_send' = [clear_to_send EXCEPT ![s] = TRUE]
    /\ Done(s)
    /\ UNCHANGED <<scenario, wire, active, in_kex, kex, expected, completion,
                   keys, count, mine, sends>>
-----------------------------------------------------------------------------
(* Other packets *)

\* A channel request is answered by Channel._handle_request with
\* _send_user_message, a global request by _parse_global_request with
\* _send_message; both run in the transport thread.
ReadRequest(s) ==
    /\ \/ ReadThen(s, "channel_request", <<"channel_success">>)
       \/ ReadThen(s, "global_request", <<"request_success">>)
    /\ UNCHANGED <<scenario, active, gate, kex, expected, completion, keys,
                   mine, sends>>

\* "Oops, unhandled type": a packet of the kex engine that no exchange waits
\* for.
ReadUnhandled(s) ==
    /\ expected[s] = {}
    /\ \E ty \in {"kexdh", "kexreply"} : ReadThen(s, ty, <<"unimplemented">>)
    /\ UNCHANGED <<scenario, active, gate, kex, expected, completion, keys,
                   mine, sends>>

ReadOther(s) ==
    /\ \E ty \in {"data", "channel_success", "ext_info", "unimplemented"} :
          ReadThen(s, ty, <<>>)
    /\ UNCHANGED <<scenario, active, gate, kex, expected, completion, keys,
                   mine, sends>>

\* _parse_request_success sets the event of whoever waits.
ReadGlobalReply(s) ==
    /\ ReadThen(s, "request_success", <<>>)
    /\ completion' = [completion EXCEPT ![s] = TRUE]
    /\ UNCHANGED <<scenario, active, gate, kex, expected, keys, mine, sends>>

SendChannelReply(s) ==
    /\ Doing(s, "channel_success")
    /\ SendUserMessage(s, "channel_success")
    /\ Done(s)
    /\ UNCHANGED <<scenario, active, gate, kex, expected, completion, keys,
                   mine, sends>>

\* "Key-exchange timed out waiting for key negotiation": 30 seconds without
\* clear_to_send.  In the transport thread the exception ends the session.
ReplyTimesOut(s) ==
    /\ Doing(s, "channel_success")
    /\ ~clear_to_send[s]
    /\ Fail(s)
-----------------------------------------------------------------------------
TransportThread(s) ==
    \/ LoopTop(s) \/ ReadTimeout(s) \/ ReadFails(s) \/ ReadEof(s)
    \/ ReadKexInit(s) \/ Negotiate(s) \/ StartKex(s)
    \/ ReadKexDh(s) \/ ReadKexReply(s) \/ SendDirect(s)
    \/ ActivateOutbound(s) \/ Expect(s) \/ ReadNewKeys(s)
    \/ LeaveKex(s) \/ Reopen(s)
    \/ ReadRequest(s) \/ ReadUnhandled(s) \/ ReadOther(s) \/ ReadGlobalReply(s)
    \/ SendChannelReply(s) \/ ReplyTimesOut(s)

SendsKexInit(p) == Clear(p) \/ Mark(p) \/ SendKexInit(p)

Next ==
    \/ \E p \in Procs : SendsKexInit(p)
    \/ \E s \in Side : TransportThread(s)
    \/ \E t \in Threads :
          \/ \E kind \in Kind : UserSends(t, kind)
          \/ GlobalRequest(t)
          \/ SendGlobalRequest(t)
          \/ Renegotiate(t)
          \/ RenegotiateReturns(t)

Spec == Init /\ [][Next]_vars

(***************************************************************************)
(* Fairness: both transport threads and the threads inside                 *)
(* renegotiate_keys go on.  Nobody is obliged to send or to renegotiate.   *)
(***************************************************************************)
Fairness ==
    /\ \A p \in Procs : WF_vars(SendsKexInit(p))
    /\ \A s \in Side : WF_vars(TransportThread(s))
    /\ \A t \in Threads : WF_vars(RenegotiateReturns(t))

FairSpec == Spec /\ Fairness
-----------------------------------------------------------------------------

\* How a session can be used without danger to it: there is at most one
\* reason for a re-key (the limits, or one thread that calls
\* renegotiate_keys, not in haste), and no message that wants an answer meets a
\* re-key.
Careful ==
    \/ scenario.callers = {} /\ scenario.kinds \subseteq {"data"}
    \/ /\ ~scenario.auto
       /\ Cardinality(scenario.callers) <= 1
       /\ scenario.callers # {} => ~scenario.hasty /\ scenario.kinds \subseteq {"data"}

\* Whatever the order in which the threads of a careful session run, no end
\* rejects what the other one sends: no mismatched MAC, no packet that was
\* not expected, no failed signature, no wait for clear_to_send in the
\* transport thread.
SessionSurvives == Careful => \A s \in Side : active[s]

\* _send_user_message "block[s] if we're in key negotiation": on the wire, no
\* message of an application or answer to one comes between the KEXINIT and
\* the NEWKEYS of an end.
BlocksInKex ==
    \A s \in Side : \A i, j \in DOMAIN wire[s] :
        /\ i < j
        /\ wire[s][i].type = "kexinit"
        /\ wire[s][j].type \in Payload
        => \E k \in i .. j : wire[s][k].type = "newkeys"

\* ... and in a careful session, where also no answer of the transport thread
\* does, this holds whatever the order of the threads.
QuietDuringKex == Careful => BlocksInKex

\* renegotiate_keys "returns when the session has switched to new keys": the
\* exchange that its own KEXINIT started is complete in both directions.
SwitchedOnReturn ==
    [][\A t \in Threads :
          Careful /\ RenegotiateReturns(t) =>
            LET s == Home[t]
                own == IF s = "client" THEN 1 ELSE 2
            IN  in_key[s][own] = mine[t] /\ out_key[s] = in_key[s]]_vars

\* "Negotiating new keys causes a pause in traffic": a pause, so user messages
\* are let through again at both ends.
PauseEnds == \A s \in Side : Careful /\ ~clear_to_send[s] ~> clear_to_send[s]

\* A limit that was reached is acted on: new keys in both directions.
RekeyHappens == \A s \in Side : Careful /\ need_rekey[s] ~> ~need_rekey[s]

\* "We release self.lock before calling _send_user_message. Otherwise, we can
\* deadlock during re-keying": with the lock released, re-keying does not
\* deadlock, and user messages flow again at both ends.
NoRekeyDeadlock == \A s \in Side : ~clear_to_send[s] ~> clear_to_send[s]
=============================================================================
