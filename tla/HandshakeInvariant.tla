------------------------- MODULE HandshakeInvariant -------------------------
(***************************************************************************)
(* Why the two ends of a session stay in step: an inductive invariant of   *)
(* Handshake.                                                              *)
(*                                                                         *)
(* An end goes through four phases in each exchange, and the two are never *)
(* more than one message apart (PhasesOK).  What is on the wires follows   *)
(* from the phases: a KEXINIT and a NEWKEYS at most, and one message of an *)
(* engine in both directions together.                                     *)
(***************************************************************************)
EXTENDS Handshake

C == tr["client"]
V == tr["server"]

Fields ==
    {"stage", "active", "lines", "timer", "expected", "preferred_kex", "made",
     "local_kex_init", "remote_kex_init", "agreed", "strict", "remote_ext_info",
     "bits", "p", "old_style", "e", "f", "H", "session_id", "host_key", "gss_kex_used",
     "seqno_out", "seqno_in", "out_key", "in_key", "initial_kex_done", "event",
     "saved_exception"}

EngineTypes == {30, 31, 32, 33, 34, 40, 41}
BannerTypes == {LINE, VERSION}
IsSeq(q) == q \in Seq(Range(q))

Shape ==
    /\ setup \in Setups
    /\ tr = [s \in Side |-> tr[s]] /\ wire = [s \in Side |-> wire[s]]
    /\ app = [s \in Side |-> app[s]]
    /\ \A s \in Side :
        /\ DOMAIN tr[s] = Fields /\ IsSeq(wire[s])
        /\ tr[s].made \in Nat /\ tr[s].seqno_in \in Nat /\ tr[s].seqno_out \in Nat
        /\ tr[s].strict \in BOOLEAN /\ tr[s].preferred_kex \in Seq(STRING)

\* How far s is: no exchange under way, KEXINIT sent, engine started, NEWKEYS sent.
Phase(s) ==
    IF tr[s].local_kex_init = NoInit THEN 0
    ELSE IF tr[s].remote_kex_init = NoInit THEN 1
    ELSE IF NEWKEYS \in tr[s].expected THEN 3 ELSE 2

\* The phases of client and server in the same exchange; an end may be an
\* exchange ahead, with its KEXINIT.
SamePairs == {<<0, 0>>, <<1, 1>>, <<1, 2>>, <<2, 1>>, <<2, 2>>, <<2, 3>>, <<3, 3>>,
              <<3, 0>>, <<0, 3>>}
PhasesOK ==
    \/ <<Phase("client"), Phase("server")>> \in SamePairs /\ C.made = V.made
    \/ Phase("client") = 1 /\ Phase("server") \in {0, 3} /\ C.made = V.made + 1
    \/ Phase("server") = 1 /\ Phase("client") \in {0, 3} /\ V.made = C.made + 1

StageOK(s) ==
    /\ (tr[s].stage = "new") = (app[s] = "idle")
    /\ tr[s].active => tr[s].stage \notin {"new", "down"}
    /\ tr[s].stage \in {"new", "banner"} =>
        /\ tr[s].made = 0 /\ Phase(s) = 0 /\ ~tr[s].initial_kex_done
        /\ tr[s].seqno_in = 0 /\ tr[s].seqno_out = 0
        /\ tr[s].in_key = NoKeys /\ tr[s].out_key = NoKeys

\* What an engine waits for, at first and at some time.
Further == {KEXGSS_CONTINUE, KEXGSS_COMPLETE, KEXGSS_ERROR}
FirstTypes(s, kex) ==
    IF s = "client" THEN CASE kex \in {"group", "ecdh"} -> {KEXDH_REPLY}
                           [] kex = "gex" -> {GEX_GROUP}
                           [] kex = "gss" -> AnswersToInit
                           [] kex = "gss_gex" -> {KEXGSS_GROUP}
    ELSE CASE kex \in {"group", "ecdh"} -> {KEXDH_INIT}
           [] kex = "gex" -> {GEX_REQUEST, GEX_REQUEST_OLD}
           [] kex = "gss" -> {KEXGSS_INIT}
           [] kex = "gss_gex" -> {KEXGSS_GROUPREQ}
LaterTypes(s, kex) ==
    IF s = "client" THEN CASE kex = "gex" -> {{GEX_REPLY}}
                           [] kex = "gss_gex" -> {AnswersToInit}
                           [] OTHER -> {}
    ELSE CASE kex = "gex" -> {{GEX_INIT}}
           [] kex = "gss" -> {Further}
           [] kex = "gss_gex" -> {{KEXGSS_INIT}, Further}
           [] OTHER -> {}

ExpectedOK(s) ==
    /\ Phase(s) = 0 => tr[s].expected = {} /\ tr[s].remote_kex_init = NoInit
    /\ Phase(s) = 1 => tr[s].expected \subseteq {KEXINIT}
    /\ Phase(s) = 2 => \/ tr[s].expected = FirstTypes(s, tr[s].agreed.kex)
                       \/ tr[s].expected \in LaterTypes(s, tr[s].agreed.kex)
    /\ Phase(s) = 3 => tr[s].expected = {NEWKEYS}
    /\ Phase("client") = 1 /\ Phase("server") = 2 => V.expected = FirstTypes("server", V.agreed.kex)

\* What both ends make of their lists.
Strict == setup.strict["client"] /\ setup.strict["server"]
Algs == [c \in Directional |-> Keep(Preferred("client", c), Range(Preferred("server", c)))[1]]
KeyAlg == Keep(AvailableKeys("client"), Range(AvailableKeys("server")))[1]
ClientKex == FilterAlgorithm("client", "kex", setup.preferred["client"]["kex"])
ServerKex == FilterAlgorithm("server", "kex", V.preferred_kex)

LocalOK(s) ==
    LET own == tr[s].local_kex_init
    IN  own # NoInit =>
          /\ own.n = tr[s].made /\ own.n # 0
          /\ own.strict = setup.strict[s] /\ own.ext_info = (s = "client")
          /\ own.keys = AvailableKeys(s)
          /\ own.c2s = [c \in Directional |-> Preferred(s, c)]
          /\ own.s2c = [c \in Directional |-> Preferred(s, c)]
          /\ IF s = "client" THEN own.kex = ClientKex
             ELSE Range(own.kex) \ {"gex"} = Range(ServerKex) \ {"gex"}
                  /\ Range(ServerKex) \subseteq Range(own.kex)

AgreedOK(s) ==
    /\ s = "client" => tr[s].preferred_kex = setup.preferred[s]["kex"]
    /\ tr[s].strict => Strict
    /\ Phase(s) = 2 => tr[s].remote_kex_init = tr[Peer(s)].local_kex_init
    /\ Phase(s) \in {2, 3} =>
        /\ tr[s].strict = Strict
        /\ tr[s].agreed.local = Algs /\ tr[s].agreed.remote = Algs
        /\ tr[s].agreed.keys = KeyAlg /\ KeyAlg \in Range(AvailableKeys("server"))
        /\ tr[s].agreed.kex \in Kex
    /\ s = "client" /\ Phase(s) = 2 =>
         tr[s].agreed.kex = Keep(ClientKex, Range(V.local_kex_init.kex))[1]
    /\ s = "server" /\ Phase(s) \in {2, 3} => tr[s].agreed.kex = Keep(ClientKex, Range(ServerKex))[1]

\* Only a server that has dropped group exchange runs another engine.
KexOK ==
    Phase("client") = 2 /\ Phase("server") \in {2, 3} /\ C.agreed.kex # V.agreed.kex =>
        /\ C.agreed.kex = "gex" /\ Phase("server") = 2
        /\ V.expected = FirstTypes("server", V.agreed.kex)
-----------------------------------------------------------------------------
(* The wires: of KEXINIT, NEWKEYS and CLOSED there is one at most.         *)

Once(s, type) ==
    \A i, j \in DOMAIN wire[s] : wire[s][i].type = type /\ wire[s][j].type = type => i = j

InitWire(s) ==
    /\ Once(s, KEXINIT)
    /\ \A i \in DOMAIN wire[s] : wire[s][i].type = KEXINIT =>
        /\ wire[s][i].val = tr[Peer(s)].local_kex_init
        /\ Phase(s) \in {0, 1, 3}
        /\ Phase(Peer(s)) = 1 \/ (Phase(Peer(s)) = 2 /\ Phase(s) = 1)

\* s has not switched to the keys that the other end writes with.
Behind(s) == <<Phase(s), Phase(Peer(s))>> \in {<<2, 3>>, <<3, 3>>, <<3, 0>>, <<3, 1>>}

NewkeysWire(s) ==
    /\ Once(s, NEWKEYS)
    /\ \A i \in DOMAIN wire[s] : wire[s][i].type = NEWKEYS =>
        /\ Behind(s) /\ (s = "server" => Phase(s) = 3)
        /\ tr[Peer(s)].strict = Strict
        /\ tr[Peer(s)].out_key = <<tr[Peer(s)].H, Algs>>

ClosedWire(s) ==
    \A i \in DOMAIN wire[s] : wire[s][i].type = CLOSED =>
        i = Len(wire[s]) /\ ~tr[Peer(s)].active /\ app[Peer(s)] # "idle"

\* The messages of the engines.
ClientSends(kex) ==
    CASE kex \in {"group", "ecdh", "gss"} -> {30}
      [] kex = "gex" -> {30, 32, 34}
      [] kex = "gss_gex" -> {30, 40}
IsEngine(m) == m.type \in EngineTypes

OneEngine ==
    \A s, t \in Side : \A i \in DOMAIN wire[s], j \in DOMAIN wire[t] :
        IsEngine(wire[s][i]) /\ IsEngine(wire[t][j]) => s = t /\ i = j

EngineToServer ==
    \A i \in DOMAIN wire["server"] :
        LET m == wire["server"][i]
        IN  IsEngine(m) =>
              /\ Phase("client") = 2 /\ Phase("server") \in {1, 2}
              /\ m.type \in ClientSends(C.agreed.kex)
              /\ C.agreed.kex = "gex" =>
                   \/ m.type = GEX_REQUEST
                   \/ m.type = GEX_REQUEST_OLD /\ ~Ephemeral(m.val)
                   \/ m.type = GEX_INIT /\ Phase("server") = 2 /\ V.agreed.kex = "gex"

\* An answer that ends the server's part: it has hashed what it signs.
Signed(m) == m.val.sig.over = V.H /\ m.val.key \in setup.server_keys
Miced(m) == m.val.mic = V.session_id /\ (V.made = 1 => V.session_id = V.H)
AnswerOK(m, kex) ==
    \/ kex \in {"group", "ecdh"} /\ m.type = KEXDH_REPLY /\ Phase("server") = 3 /\ Signed(m)
    \/ kex = "gex" /\ m.type = GEX_GROUP /\ Phase("server") = 2
    \/ kex = "gex" /\ m.type = GEX_REPLY /\ Phase("server") = 3 /\ Signed(m)
    \/ kex \in {"gss", "gss_gex"} /\ m.type = KEXGSS_CONTINUE
    \/ kex = "gss_gex" /\ m.type = KEXGSS_GROUP /\ Phase("server") = 2
    \/ kex \in {"gss", "gss_gex"} /\ m.type = KEXGSS_COMPLETE /\ Phase("server") = 3 /\ Miced(m)

EngineToClient ==
    \A i \in DOMAIN wire["client"] :
        LET m == wire["client"][i]
        IN  IsEngine(m) => /\ Phase("client") = 2 /\ Phase("server") \in {2, 3}
                           /\ C.agreed.kex = V.agreed.kex
                           /\ AnswerOK(m, C.agreed.kex)
-----------------------------------------------------------------------------
(* Hashes and keys.                                                        *)

HashOK ==
    Phase("client") = 3 \/ (Phase("server") = 3 /\ Phase("client") # 2) => C.H = V.H

KeyOK(s) == ~Behind(s) => tr[s].in_key = tr[Peer(s)].out_key

OutOK == (C.out_key = NoKeys /\ C.H = NoHash) \/ C.out_key = <<C.H, Algs>>

HostOK ==
    /\ C.gss_kex_used => C.host_key = NullHostKey
    /\ Phase("client") \in {1, 2} => ~C.gss_kex_used
    /\ C.out_key # NoKeys => C.host_key \in setup.server_keys \cup {NullHostKey}
    /\ C.made = 0 \/ (C.made = 1 /\ Phase("client") \in {1, 2}) => C.host_key = NoKey

\* The session id is the hash of the first exchange.
FirstOK ==
    /\ V.session_id # NoHash => V.session_id[1].n = 1
    /\ Phase("server") = 3 => V.session_id # NoHash
    /\ Phase("client") = 3 \/ C.made >= 2 \/ (C.made = 1 /\ Phase("client") = 0) =>
         V.session_id # NoHash
    /\ V.made = 0 => V.session_id = NoHash
    /\ V.made = 1 /\ Phase("server") \in {1, 2} /\ KEXGSS_CONTINUE \notin V.expected =>
         V.session_id = NoHash
-----------------------------------------------------------------------------
(* The packets on a wire, one after the other.                             *)

\* What a packet in place i of q has, q being on its way to an end that reads with
\* in_key and seqno_in, from one that writes with out_key.
Fits(q, in_key, seqno_in, out_key, strict, i, key, seq) ==
    /\ (\A j \in 1..(i - 1) : q[j].type # NEWKEYS) => key = in_key /\ seq = seqno_in + i - 1
    /\ \A j \in 1..(i - 1) : q[j].type = NEWKEYS =>
         key = out_key /\ seq = IF strict THEN i - j - 1 ELSE seqno_in + i - 1

\* Every packet fits, and the next one will while the end that sends is open.
Stream(q, in_key, seqno_in, out_key, seqno_out, strict, open) ==
    /\ \A i \in DOMAIN q :
        /\ q[i].type \notin BannerTypes
        /\ q[i].type # CLOSED => Fits(q, in_key, seqno_in, out_key, strict, i, q[i].key, q[i].seq)
    /\ open => Fits(q, in_key, seqno_in, out_key, strict, Len(q) + 1, out_key, seqno_out)

StreamOK(s) ==
    tr[s].stage = "loop" =>
        /\ app[Peer(s)] # "idle"
        /\ Stream(wire[s], tr[s].in_key, tr[s].seqno_in, tr[Peer(s)].out_key,
                  tr[Peer(s)].seqno_out, Strict, tr[Peer(s)].active)

\* The packets behind the version line are numbered from zero.
Banner(q, seqno_out, open) ==
    \A i \in DOMAIN q : q[i].type = VERSION =>
        /\ \A j \in DOMAIN q : j > i =>
            /\ q[j].type \notin BannerTypes
            /\ q[j].type # CLOSED => q[j].key = NoKeys /\ q[j].seq = j - i - 1
        /\ open => seqno_out = Len(q) - i

BannerOK(s) ==
    /\ app[Peer(s)] = "idle" => wire[s] = <<>>
    /\ tr[s].stage \in {"new", "banner"} =>
         Banner(wire[s], tr[Peer(s)].seqno_out, tr[Peer(s)].active)
-----------------------------------------------------------------------------
EndOK(s) ==
    /\ StageOK(s) /\ ExpectedOK(s) /\ LocalOK(s) /\ AgreedOK(s)
WireOK(s) ==
    /\ InitWire(s) /\ NewkeysWire(s) /\ ClosedWire(s) /\ KeyOK(s)
    /\ StreamOK(s) /\ BannerOK(s)

HandshakeInv ==
    /\ Shape /\ PhasesOK
    /\ \A s \in Side : EndOK(s) /\ WireOK(s)
    /\ KexOK /\ OneEngine /\ EngineToServer /\ EngineToClient
    /\ HashOK /\ OutOK /\ HostOK /\ FirstOK
=============================================================================
