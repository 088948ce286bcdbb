----------------------------- MODULE Handshake -----------------------------
(***************************************************************************)
(* From start_client and start_server to the first NEWKEYS, and through    *)
(* later exchanges: the version lines, the choice of algorithms, and each  *)
(* key-exchange engine (transport.py, kex_group1.py, kex_ecdh_nist.py,     *)
(* kex_gex.py, kex_gss.py, primes.py, and what they use of ssh_gss.py).    *)
(*                                                                         *)
(* Each end has a transport thread, which reads one packet per step, and   *)
(* an application thread inside start_client, start_server or connect.     *)
(* An algorithm is a name and a preference a sequence of names.  A secret  *)
(* number or an ephemeral key is known by the end that made it and by when *)
(* it did; the exchange hash is the tuple of what goes into it, K being a  *)
(* function of the rest; keys are known by that hash and the algorithms    *)
(* they are for.  A value out of its range (e, f, a point off the curve)   *)
(* only comes from an end that runs another engine.  How the application's *)
(* messages wait for an exchange, and exchanges that start twice, are in   *)
(* Rekey.                                                                  *)
(***************************************************************************)
EXTENDS Integers, Sequences, FiniteSets, SequencesExt

CONSTANTS
    Setups,          \* how the two ends are set up, see Setup
    BannerLines,     \* lines _check_banner reads at most (100)
    MinBits, MaxBits,    \* sizes KexGex and KexGSSGex accept for a prime
    StallAt,         \* where a transport thread may stop for good
    MaxExchanges     \* bound: KEXINITs an end sends

Side == {"client", "server"}
Peer(s) == IF s = "client" THEN "server" ELSE "client"
Directional == {"ciphers", "macs", "compression"}
Category == Directional \cup {"kex", "keys"}

\* The engines of _kex_info; SecurityOptions refuses other names.
Kex == {"group", "ecdh", "gex", "gss", "gss_gex"}

\* A host key: its type and which key of that type it is.
NoKey == [type |-> "none", id |-> 0]

\* What the two applications, and the machine, decide before the start.
\*   preferred, disabled   the algorithms of each end
\*   strict                strict_kex of each end
\*   version, lines        the version each end announces, lines it sends before
\*   server_keys           what add_server_key was called with
\*   bits                  the range a client asks for; old: in the old form
\*   moduli                the sizes in the moduli file, loaded: there is one
\*   rounds                messages a GSS-API context takes to be established
\*   hostkey, gss_kex      arguments of connect
\*   timeout               whether start_client is given one
Setup(st) ==
    /\ \A s \in Side : \A c \in Category :
        /\ st.preferred[s][c] \in Seq(STRING) /\ IsInjective(st.preferred[s][c])
        /\ st.disabled[s][c] \subseteq Range(st.preferred[s][c])
    /\ \A s \in Side : Range(st.preferred[s]["kex"]) \subseteq Kex
    /\ st.strict \in [Side -> BOOLEAN] /\ st.lines \in [Side -> Nat]
    /\ st.version \in [Side -> {"2.0", "1.99", "1.5"}]
    /\ st.moduli \subseteq Nat /\ st.loaded \in BOOLEAN
    /\ st.rounds \in 1..2
    /\ {st.gss_kex, st.timeout, st.bits.old} \subseteq BOOLEAN

ASSUME HandshakeAssumption ==
    /\ \A st \in Setups : Setup(st)
    /\ BannerLines \in Nat \ {0} /\ MinBits \in Nat /\ MaxBits \in Nat
    /\ StallAt \subseteq {"banner", "loop"} /\ MaxExchanges \in Nat

\* Message numbers.  The engines share 30 to 34.
CLOSED == 0
VERSION == 1
LINE == 2
EXT_INFO == 7
KEXINIT == 20
NEWKEYS == 21
KEXDH_INIT == 30
KEXDH_REPLY == 31
GEX_REQUEST_OLD == 30
GEX_GROUP == 31
GEX_INIT == 32
GEX_REPLY == 33
GEX_REQUEST == 34
KEXGSS_INIT == 30
KEXGSS_CONTINUE == 31
KEXGSS_COMPLETE == 32
KEXGSS_HOSTKEY == 33
KEXGSS_ERROR == 34
KEXGSS_GROUPREQ == 40
KEXGSS_GROUP == 41

VARIABLES
    setup,
    tr,       \* tr[s]: the Transport of s, with its packetizer and its engine
    wire,     \* wire[s]: packets on their way to s
    app       \* app[s]: where the application of s is in start_client, ...

vars == <<setup, tr, wire, app>>

NoInit == [n |-> 0]
NoHash == <<>>
NoKeys == <<NoHash>>

\* Transport.__init__.
NewTransport(s) ==
    [stage |-> "new", active |-> FALSE, lines |-> 0, timer |-> FALSE, expected |-> {},
     preferred_kex |-> setup.preferred[s]["kex"], made |-> 0,
     local_kex_init |-> NoInit, remote_kex_init |-> NoInit, agreed |-> <<>>,
     strict |-> FALSE, remote_ext_info |-> FALSE,
     bits |-> <<>>, p |-> 0, old_style |-> FALSE, e |-> <<>>, f |-> <<>>,
     H |-> NoHash, session_id |-> NoHash, host_key |-> NoKey, gss_kex_used |-> FALSE,
     seqno_out |-> 0, seqno_in |-> 0, out_key |-> NoKeys, in_key |-> NoKeys,
     initial_kex_done |-> FALSE, event |-> FALSE, saved_exception |-> "none"]

Init ==
    /\ setup \in Setups
    /\ tr = [s \in Side |-> NewTransport(s)]
    /\ wire = [s \in Side |-> <<>>]
    /\ app = [s \in Side |-> "idle"]
-----------------------------------------------------------------------------
(* The algorithms of an end and what it makes of the other's.              *)

\* list(filter(S.__contains__, seq)), as a recursive function.
Keep(seq, S) ==
    LET kept[i \in 0..Len(seq)] ==
            IF i = 0 THEN <<>>
            ELSE IF seq[i] \in S THEN Append(kept[i - 1], seq[i]) ELSE kept[i - 1]
    IN  kept[Len(seq)]

FilterAlgorithm(s, c, preferred) == Keep(preferred, Range(preferred) \ setup.disabled[s][c])

Preferred(s, c) == FilterAlgorithm(s, c, setup.preferred[s][c])

\* preferred_keys: every name, then the certificate form of every name.  For
\* the key a client insists on, connect has replaced the list.
NamesOf(type) == IF type = "rsa" THEN <<"rsa-sha2-512", "ssh-rsa">> ELSE <<type>>
Pinned(s) == s = "client" /\ setup.hostkey # NoKey

PreferredKeys(s) ==
    LET listed == IF Pinned(s) THEN NamesOf(setup.hostkey.type)
                  ELSE setup.preferred[s]["keys"]
        names == FilterAlgorithm(s, "keys", listed)
        Variants(cert) == [i \in DOMAIN names |-> [name |-> names[i], cert |-> cert]]
    IN  Variants(FALSE) \o Variants(TRUE)

\* add_server_key: an RSA key is found under each of its algorithms' names.
server_key_dict ==
    [name \in UNION {Range(NamesOf(k.type)) : k \in setup.server_keys} |->
        CHOOSE k \in setup.server_keys : name \in Range(NamesOf(k.type))]

GetServerKey(T) ==
    IF T.agreed.keys.name \in DOMAIN server_key_dict /\ ~T.agreed.keys.cert
    THEN server_key_dict[T.agreed.keys.name] ELSE NoKey

\* Mutant of AvailableKeys: a server lists types it has no key of.
AvailableKeysAll(s) == PreferredKeys(s)

AvailableKeys(s) ==
    IF s = "client" THEN PreferredKeys(s)
    ELSE Keep(PreferredKeys(s), {[name |-> n, cert |-> FALSE] : n \in DOMAIN server_key_dict})

\* What a KEXINIT lists.  The kex algorithms are taken before a server without
\* moduli drops group exchange from its preferences.
KexInit(s, T) ==
    [n |-> T.made + 1,
     kex |-> FilterAlgorithm(s, "kex", T.preferred_kex),
     ext_info |-> s = "client", strict |-> setup.strict[s],
     keys |-> AvailableKeys(s),
     c2s |-> [c \in Directional |-> Preferred(s, c)],
     s2c |-> [c \in Directional |-> Preferred(s, c)]]

WithoutGex(kex) == Keep(kex, Range(kex) \ {"gex"})

SendKexInit(s, T) ==
    LET lists == KexInit(s, T)
    IN  [T EXCEPT !.preferred_kex = IF s = "server" /\ ~setup.loaded
                                    THEN WithoutGex(@) ELSE @,
                  !.gss_kex_used = FALSE,
                  !.made = @ + 1, !.local_kex_init = lists]

\* The first name of the client's list that the server's list has.
Choice(s, own, remote) ==
    IF s = "server" THEN Keep(remote, Range(own)) ELSE Keep(own, Range(remote))

\* _parse_kex_init: the candidates in each category.
Candidates(s, T, m) ==
    LET out == IF s = "client" THEN m.c2s ELSE m.s2c
        in == IF s = "client" THEN m.s2c ELSE m.c2s
    IN  [kex |-> Choice(s, FilterAlgorithm(s, "kex", T.preferred_kex), m.kex),
         keys |-> Choice(s, AvailableKeys(s), m.keys),
         local |-> [c \in Directional |-> Choice(s, Preferred(s, c), out[c])],
         remote |-> [c \in Directional |-> Choice(s, Preferred(s, c), in[c])]]

AllFound(found) ==
    /\ found.kex # <<>> /\ found.keys # <<>>
    /\ \A c \in Directional : found.local[c] # <<>> /\ found.remote[c] # <<>>

ParseKexInit(s, T, found, m) ==
    [T EXCEPT !.agreed = [kex |-> found.kex[1], keys |-> found.keys[1],
                          local |-> [c \in Directional |-> found.local[c][1]],
                          remote |-> [c \in Directional |-> found.remote[c][1]]],
              !.remote_ext_info = m.ext_info,
              !.strict = IF m.strict THEN setup.strict[s] ELSE @,
              !.remote_kex_init = m]
-----------------------------------------------------------------------------
(* Packets.  A packet carries its sequence number and the keys it was      *)
(* written with: the MAC covers the one and fails with others.             *)

Packets(T, msgs) ==
    [i \in DOMAIN msgs |-> [type |-> msgs[i].type, val |-> msgs[i].val,
                            seq |-> T.seqno_out + i - 1, key |-> T.out_key]]

Msg(type, val) == [type |-> type, val |-> val]

Readable(T, m) ==
    m.type \in {CLOSED, VERSION, LINE} \/ (m.key = T.in_key /\ m.seq = T.seqno_in)

\* s reads a packet of some type, which it expects if it expects any, with
\* an engine of one of some kinds.
Running(s) == tr[s].active /\ tr[s].stage # "stalled"
Read(s) == Head(wire[s])

Takes(s, type) ==
    /\ Running(s) /\ tr[s].stage = "loop" /\ wire[s] # <<>>
    /\ Read(s).type = type /\ Readable(tr[s], Read(s))
    /\ tr[s].expected = {} \/ type \in tr[s].expected

TakesKex(s, type, engines) ==
    Takes(s, type) /\ type \in tr[s].expected /\ tr[s].agreed.kex \in engines

\* The rest of a handler: the packets it sends, and what Transport is then.
Leaves(s, T, packets) ==
    /\ tr' = [tr EXCEPT ![s] = T]
    /\ wire' = [wire EXCEPT ![s] = Tail(@), ![Peer(s)] = @ \o packets]
    /\ UNCHANGED <<setup, app>>

\* ... that sends some messages and expects others.
Continue(s, T, msgs, types) ==
    Leaves(s, [T EXCEPT !.expected = types, !.seqno_in = @ + 1,
                        !.seqno_out = @ + Len(msgs)], Packets(T, msgs))

\* ... that raises: the end of run.
Raises(s, why) ==
    /\ tr' = [tr EXCEPT ![s].active = FALSE, ![s].stage = "down", ![s].event = TRUE,
                        ![s].saved_exception = why]
    /\ wire' = [wire EXCEPT ![s] = <<>>,
                  ![Peer(s)] = Append(@, [type |-> CLOSED, val |-> why, seq |-> 0,
                                          key |-> NoKeys])]
    /\ UNCHANGED <<setup, app>>

\* Mutant of SeqnoOut: the number goes on.
SeqnoOutGoesOn(T, n) == n

\* The number of the first packet after a NEWKEYS: reset_seqno_out in strict mode.
SeqnoOut(T, n) == IF T.strict THEN 0 ELSE n

\* ... that ends in _activate_outbound, the last messages of the old keys sent.
\* A server answers ext-info-c with the new keys at once.
Outbound(s, T, msgs) ==
    LET old == Packets(T, Append(msgs, Msg(NEWKEYS, 0)))
        new == [T EXCEPT !.seqno_out = SeqnoOut(T, @ + Len(old)),
                         !.out_key = <<T.H, T.agreed.local>>]
        ext == IF s = "server" /\ T.remote_ext_info
               THEN Packets(new, <<Msg(EXT_INFO, 0)>>) ELSE <<>>
    IN  Leaves(s, [new EXCEPT !.expected = {NEWKEYS}, !.seqno_in = @ + 1,
                              !.seqno_out = @ + Len(ext)], old \o ext)

SetKH(T, h) ==
    [T EXCEPT !.H = h, !.session_id = IF @ = NoHash THEN h ELSE @]

\* A signature names the key that made it, the algorithm and what is signed.
SignData(T, h) == [by |-> GetServerKey(T), alg |-> T.agreed.keys, over |-> h]

\* Mutant of VerifyKey: what was signed is not compared with H.
VerifyKeyAny(T, host_key, sig) ==
    /\ sig.by = host_key
    /\ {T.agreed.keys.name, sig.alg.name} \subseteq Range(NamesOf(host_key.type))

\* _verify_key: the host key, read as one of the agreed type, made the signature,
\* with any algorithm of its type: it is not compared with the agreed one.
VerifyKey(T, host_key, sig) ==
    /\ sig.by = host_key /\ sig.over = T.H
    /\ {T.agreed.keys.name, sig.alg.name} \subseteq Range(NamesOf(host_key.type))
-----------------------------------------------------------------------------
(* The start of a session.                                                 *)

StartThread(s) ==
    /\ app[s] = "idle"
    /\ app' = [app EXCEPT ![s] = "waiting"]
    /\ tr' = [tr EXCEPT ![s].active = TRUE, ![s].stage = "banner"]
    /\ wire' = [wire EXCEPT ![Peer(s)] = @ \o
                  [i \in 1..(setup.lines[s] + 1) |->
                     [type |-> IF i <= setup.lines[s] THEN LINE ELSE VERSION,
                      val |-> setup.version[s], seq |-> 0, key |-> NoKeys]]]
    /\ UNCHANGED setup

start_client == StartThread("client")
start_server == StartThread("server")

\* Mutant of BannerRead: start_handshake is not called.
BannerReadNoTimer(s) ==
    \E T \in {SendKexInit(s, [tr[s] EXCEPT !.stage = "loop"])} :
        Leaves(s, [T EXCEPT !.expected = {KEXINIT}, !.seqno_out = @ + 1],
               Packets(T, <<Msg(KEXINIT, T.local_kex_init)>>))

\* The version line is there: run starts the timer, sends KEXINIT and expects one.
BannerRead(s) ==
    \E T \in {SendKexInit(s, [tr[s] EXCEPT !.stage = "loop", !.timer = TRUE])} :
        Leaves(s, [T EXCEPT !.expected = {KEXINIT}, !.seqno_out = @ + 1],
               Packets(T, <<Msg(KEXINIT, T.local_kex_init)>>))

CheckBanner(s) ==
    /\ Running(s) /\ tr[s].stage = "banner" /\ wire[s] # <<>>
    /\ \/ Read(s).type = VERSION /\ Read(s).val # "1.5" /\ BannerRead(s)
       \/ Read(s).type = VERSION /\ Read(s).val = "1.5" /\ Raises(s, "incompatible")
       \/ Read(s).type = LINE /\ tr[s].lines + 1 = BannerLines /\ Raises(s, "banner")
       \/ /\ Read(s).type = LINE /\ tr[s].lines + 1 < BannerLines
          /\ Leaves(s, [tr[s] EXCEPT !.lines = @ + 1], <<>>)

BannerTimeout(s) ==
    /\ Running(s) /\ tr[s].stage = "banner" /\ wire[s] = <<>>
    /\ Raises(s, "timeout")

\* The timer of start_handshake has expired before complete_handshake.
HandshakeTimeout(s) ==
    /\ Running(s) /\ tr[s].stage = "loop" /\ tr[s].timer
    /\ Raises(s, "timeout")

ReadClosed(s) ==
    /\ Running(s) /\ tr[s].stage # "new" /\ wire[s] # <<>> /\ Read(s).type = CLOSED
    /\ Raises(s, "eof")

\* A packet that the keys or the number do not fit, or that is not expected.
ReadUnexpected(s) ==
    /\ Running(s) /\ tr[s].stage = "loop" /\ wire[s] # <<>> /\ Read(s).type # CLOSED
    /\ \/ ~Readable(tr[s], Read(s))
       \/ tr[s].expected # {} /\ Read(s).type \notin tr[s].expected
    /\ Raises(s, "unexpected")
-----------------------------------------------------------------------------
(* The engines: what start_kex sends and expects, and the handlers behind  *)
(* parse_next.                                                             *)

\* What an engine makes at random, in the exchange that is under way.
Fresh(s, T) == <<s, T.made>>

\* What every exchange hash begins with: both KEXINITs and the host key.
Common(s, T, host_key) ==
    IF s = "client" THEN <<T.local_kex_init, T.remote_kex_init, host_key>>
    ELSE <<T.remote_kex_init, T.local_kex_init, host_key>>

\* The range check of e, the decoding of a point and of a token: a value that an
\* engine made passes, the size in an old-style request for a group does not.
Ephemeral(val) == val[1] \in Side

Starts(T, msgs, types) == [T |-> T, msgs |-> msgs, types |-> types]

\* KexGroup1 and the groups derived from it.
StartGroup(s, T) ==
    IF s = "server" THEN Starts([T EXCEPT !.f = Fresh(s, T)], <<>>, {KEXDH_INIT})
    ELSE Starts([T EXCEPT !.e = Fresh(s, T)], <<Msg(KEXDH_INIT, Fresh(s, T))>>,
                {KEXDH_REPLY})

GroupHash(s, T, host_key, e, f) == Common(s, T, host_key) \o <<"group", e, f>>

ParseKexdhInit(s) ==
    /\ s = "server" /\ TakesKex(s, KEXDH_INIT, {"group"})
    /\ LET T == tr[s]
           key == GetServerKey(T)
           H == GroupHash(s, T, key, Read(s).val, T.f)
       IN  IF ~Ephemeral(Read(s).val) THEN Raises(s, "range")
           ELSE Outbound(s, SetKH([T EXCEPT !.e = Read(s).val], H),
                    <<Msg(KEXDH_REPLY, [key |-> key, f |-> T.f, sig |-> SignData(T, H)])>>)

ParseKexdhReply(s) ==
    /\ s = "client" /\ TakesKex(s, KEXDH_REPLY, {"group"})
    /\ LET m == Read(s).val
           T == SetKH([tr[s] EXCEPT !.f = m.f], GroupHash(s, tr[s], m.key, tr[s].e, m.f))
       IN  IF VerifyKey(T, m.key, m.sig) THEN Outbound(s, [T EXCEPT !.host_key = m.key], <<>>)
           ELSE Raises(s, "signature")

\* KexNistp256 and the curves derived from it: the hash has the points.
StartEcdh(s, T) ==
    IF s = "server" THEN Starts([T EXCEPT !.f = Fresh(s, T)], <<>>, {KEXDH_INIT})
    ELSE Starts([T EXCEPT !.e = Fresh(s, T)], <<Msg(KEXDH_INIT, Fresh(s, T))>>,
                {KEXDH_REPLY})

EcdhHash(s, T, host_key, Q_C, Q_S) == Common(s, T, host_key) \o <<"ecdh", Q_C, Q_S>>

ParseKexecdhInit(s) ==
    /\ s = "server" /\ TakesKex(s, KEXDH_INIT, {"ecdh"})
    /\ LET T == tr[s]
           K_S == GetServerKey(T)
           H == EcdhHash(s, T, K_S, Read(s).val, T.f)
       IN  IF ~Ephemeral(Read(s).val) THEN Raises(s, "range")
           ELSE Outbound(s, SetKH([T EXCEPT !.e = Read(s).val], H),
                    <<Msg(KEXDH_REPLY, [key |-> K_S, f |-> T.f, sig |-> SignData(T, H)])>>)

ParseKexecdhReply(s) ==
    /\ s = "client" /\ TakesKex(s, KEXDH_REPLY, {"ecdh"})
    /\ LET m == Read(s).val
           T == SetKH([tr[s] EXCEPT !.f = m.f], EcdhHash(s, tr[s], m.key, tr[s].e, m.f))
       IN  IF VerifyKey(T, m.key, m.sig) THEN Outbound(s, [T EXCEPT !.host_key = m.key], <<>>)
           ELSE Raises(s, "signature")
-----------------------------------------------------------------------------
(* Group exchange: the client asks for a size, the server picks a prime.   *)

AtLeast(sizes) == CHOOSE b \in sizes : \A c \in sizes : b <= c
AtMost(sizes) == CHOOSE b \in sizes : \A c \in sizes : b >= c

\* ModulusPack.get_modulus; all that is kept of a prime is its size.
GetModulus(min, prefer, max) ==
    LET above == {b \in setup.moduli : b >= prefer /\ b <= max}
        within == {b \in setup.moduli : b >= min /\ b <= max}
    IN  IF above # {} THEN AtLeast(above)
        ELSE IF within # {} THEN AtMost(within)
        ELSE IF min > AtLeast(setup.moduli) THEN AtMost(setup.moduli)
        ELSE AtLeast(setup.moduli)

\* A preferred size within the limits of the server.
Smoosh(bits) == IF bits > MaxBits THEN MaxBits ELSE IF bits < MinBits THEN MinBits ELSE bits

\* The range a server makes of a request, and then hashes.
SaneRange(b) ==
    LET prefer == Smoosh(b.prefer)
    IN  [min |-> IF b.min > prefer THEN prefer ELSE b.min, prefer |-> prefer,
         max |-> IF b.max < prefer THEN prefer ELSE b.max]

Ask == [min |-> setup.bits.min, prefer |-> setup.bits.prefer, max |-> setup.bits.max]

StartGex(s, T) ==
    IF s = "server" THEN Starts(T, <<>>, {GEX_REQUEST, GEX_REQUEST_OLD})
    ELSE Starts([T EXCEPT !.bits = Ask, !.old_style = setup.bits.old],
                <<IF setup.bits.old THEN Msg(GEX_REQUEST_OLD, <<"bits", setup.bits.prefer>>)
                  ELSE Msg(GEX_REQUEST, Ask)>>, {GEX_GROUP})

\* The answer to a request once the range is settled.
SendGroup(s, T, group, init) ==
    IF ~setup.loaded \/ setup.moduli = {} THEN Raises(s, "moduli")
    ELSE LET p == GetModulus(T.bits.min, T.bits.prefer, T.bits.max)
         IN  Continue(s, [T EXCEPT !.p = p], <<Msg(group, p)>>, {init})

ParseGexRequest(s) ==
    /\ TakesKex(s, GEX_REQUEST, {"gex"})
    /\ SendGroup(s, [tr[s] EXCEPT !.bits = SaneRange(Read(s).val)], GEX_GROUP, GEX_INIT)

ParseGexRequestOld(s) ==
    /\ TakesKex(s, GEX_REQUEST_OLD, {"gex"})
    /\ SendGroup(s, [tr[s] EXCEPT !.old_style = TRUE,
                                  !.bits = [min |-> MinBits, max |-> MaxBits,
                                            prefer |-> Smoosh(Read(s).val[2])]],
                 GEX_GROUP, GEX_INIT)

ParseGexGroup(s) ==
    /\ TakesKex(s, GEX_GROUP, {"gex"})
    /\ LET p == Read(s).val
           e == Fresh(s, tr[s])
       IN  IF p < MinBits \/ p > MaxBits THEN Raises(s, "group")
           ELSE Continue(s, [tr[s] EXCEPT !.p = p, !.e = e], <<Msg(GEX_INIT, e)>>, {GEX_REPLY})

GexHash(s, T, host_key, e, f) ==
    Common(s, T, host_key)
      \o (IF T.old_style THEN <<T.bits.prefer>> ELSE <<T.bits.min, T.bits.prefer, T.bits.max>>)
      \o <<T.p, e, f>>

ParseGexInit(s) ==
    /\ TakesKex(s, GEX_INIT, {"gex"})
    /\ LET T == tr[s]
           f == Fresh(s, T)
           key == GetServerKey(T)
           H == GexHash(s, T, key, Read(s).val, f)
       IN  Outbound(s, SetKH([T EXCEPT !.e = Read(s).val, !.f = f], H),
                    <<Msg(GEX_REPLY, [key |-> key, f |-> f, sig |-> SignData(T, H)])>>)

ParseGexReply(s) ==
    /\ TakesKex(s, GEX_REPLY, {"gex"})
    /\ LET m == Read(s).val
           T == SetKH([tr[s] EXCEPT !.f = m.f], GexHash(s, tr[s], m.key, tr[s].e, m.f))
       IN  IF VerifyKey(T, m.key, m.sig) THEN Outbound(s, [T EXCEPT !.host_key = m.key], <<>>)
           ELSE Raises(s, "signature")
-----------------------------------------------------------------------------
(* GSS-API key exchange.  The server proves itself with a MIC, made by a   *)
(* security context both ends have, instead of a host key.                 *)

NullHostKey == [type |-> "null", id |-> 0]

\* ssh_get_mic and ssh_check_mic of an exchange; ssh_accept_sec_context.
GetMic(session_id) == session_id
CheckMic(mic, session_id) == mic = session_id
Established == setup.rounds = 1

AnswersToInit == {KEXGSS_HOSTKEY, KEXGSS_CONTINUE, KEXGSS_COMPLETE, KEXGSS_ERROR}

StartGssGroup(s, T) ==
    IF s = "server" THEN Starts([T EXCEPT !.f = Fresh(s, T)], <<>>, {KEXGSS_INIT})
    ELSE Starts([T EXCEPT !.e = Fresh(s, T)], <<Msg(KEXGSS_INIT, Fresh(s, T))>>, AnswersToInit)

\* The server's last word, or a further round.
GssAnswer(s, T) ==
    \/ Established /\ Outbound(s, [T EXCEPT !.gss_kex_used = TRUE],
                        <<Msg(KEXGSS_COMPLETE, [f |-> T.f, mic |-> GetMic(T.session_id)])>>)
    \/ ~Established /\ Continue(s, T, <<Msg(KEXGSS_CONTINUE, 0)>>,
                                {KEXGSS_CONTINUE, KEXGSS_COMPLETE, KEXGSS_ERROR})

ParseGssInit(s) ==
    /\ s = "server" /\ TakesKex(s, KEXGSS_INIT, {"gss"})
    /\ IF ~Ephemeral(Read(s).val) THEN Raises(s, "range")
       ELSE GssAnswer(s, SetKH([tr[s] EXCEPT !.e = Read(s).val, !.host_key = NullHostKey],
                               GroupHash(s, tr[s], NullHostKey, Read(s).val, tr[s].f)))

\* sha1(str(hm)): the hash of a str is a TypeError.
ParseGssComplete(s) ==
    /\ s = "client" /\ TakesKex(s, KEXGSS_COMPLETE, {"gss"})
    /\ Raises(s, "type_error")

\* The client's parse_next has no place for it in KexGSSGroup1; in KexGSSGex the
\* answer goes to a method that Transport does not have.
ParseGssContinue(s) ==
    /\ s = "client" /\ TakesKex(s, KEXGSS_CONTINUE, {"gss", "gss_gex"})
    /\ Raises(s, "gss")

StartGssGex(s, T) ==
    IF s = "server" THEN Starts(T, <<>>, {KEXGSS_GROUPREQ})
    ELSE Starts([T EXCEPT !.bits = Ask], <<Msg(KEXGSS_GROUPREQ, Ask)>>, {KEXGSS_GROUP})

ParseGssGroupreq(s) ==
    /\ TakesKex(s, KEXGSS_GROUPREQ, {"gss_gex"})
    /\ SendGroup(s, [tr[s] EXCEPT !.bits = SaneRange(Read(s).val)], KEXGSS_GROUP, KEXGSS_INIT)

ParseGssGroup(s) ==
    /\ TakesKex(s, KEXGSS_GROUP, {"gss_gex"})
    /\ LET p == Read(s).val
           e == Fresh(s, tr[s])
       IN  IF p < MinBits \/ p > MaxBits THEN Raises(s, "group")
           ELSE Continue(s, [tr[s] EXCEPT !.p = p, !.e = e], <<Msg(KEXGSS_INIT, e)>>,
                         AnswersToInit)

ParseGssGexInit(s) ==
    /\ TakesKex(s, KEXGSS_INIT, {"gss_gex"})
    /\ LET T == [tr[s] EXCEPT !.e = Read(s).val, !.f = Fresh(s, tr[s]),
                              !.host_key = NullHostKey]
       IN  GssAnswer(s, SetKH(T, GexHash(s, T, NullHostKey, T.e, T.f)))

ParseGssGexComplete(s) ==
    /\ TakesKex(s, KEXGSS_COMPLETE, {"gss_gex"})
    /\ LET m == Read(s).val
           key == IF tr[s].host_key = NoKey THEN NullHostKey ELSE tr[s].host_key
           T == SetKH([tr[s] EXCEPT !.f = m.f, !.host_key = key],
                      GexHash(s, tr[s], key, tr[s].e, m.f))
       IN  IF CheckMic(m.mic, T.H) THEN Outbound(s, [T EXCEPT !.gss_kex_used = TRUE], <<>>)
           ELSE Raises(s, "mic")
-----------------------------------------------------------------------------
(* KEXINIT, NEWKEYS and what may follow; the application.                  *)

StartKex(s, T) ==
    LET new == [T EXCEPT !.bits = <<>>, !.p = 0, !.old_style = FALSE, !.e = <<>>, !.f = <<>>]
    IN  CASE T.agreed.kex = "group" -> StartGroup(s, new)
          [] T.agreed.kex = "ecdh" -> StartEcdh(s, new)
          [] T.agreed.kex = "gex" -> StartGex(s, new)
          [] T.agreed.kex = "gss" -> StartGssGroup(s, new)
          [] T.agreed.kex = "gss_gex" -> StartGssGex(s, new)

\* In strict mode the first packet of a session is its KEXINIT.
OutOfOrder(s, m) ==
    /\ m.val.strict /\ setup.strict[s]
    /\ ~tr[s].initial_kex_done /\ m.seq # 0

\* _negotiate_keys; the timer of the handshake ends with it.
NegotiateKeys(s) ==
    /\ Takes(s, KEXINIT)
    /\ \E own \in {IF tr[s].local_kex_init = NoInit THEN SendKexInit(s, tr[s]) ELSE tr[s]} :
       \E found \in {Candidates(s, own, Read(s).val)} :
         LET reply == IF tr[s].local_kex_init = NoInit
                      THEN <<Msg(KEXINIT, own.local_kex_init)>> ELSE <<>>
             k == StartKex(s, ParseKexInit(s, own, found, Read(s).val))
         IN  IF OutOfOrder(s, Read(s)) \/ ~AllFound(found) THEN Raises(s, "incompatible")
             ELSE Continue(s, [k.T EXCEPT !.timer = FALSE], reply \o k.msgs, k.types)

ParseNewkeys(s) ==
    /\ Takes(s, NEWKEYS)
    /\ Leaves(s, [tr[s] EXCEPT !.in_key = <<tr[s].H, tr[s].agreed.remote>>,
                               !.expected = {}, !.timer = FALSE,
                               !.seqno_in = IF tr[s].strict THEN 0 ELSE @ + 1,
                               !.local_kex_init = NoInit, !.remote_kex_init = NoInit,
                               !.initial_kex_done = TRUE, !.event = TRUE], <<>>)

ParseExtInfo(s) ==
    /\ Takes(s, EXT_INFO)
    /\ Leaves(s, [tr[s] EXCEPT !.expected = {}, !.seqno_in = @ + 1], <<>>)

\* The loop of start_client and start_server looks at active, then at the event.
LookActive(s) ==
    /\ app[s] = "waiting"
    /\ app' = [app EXCEPT ![s] = IF tr[s].active THEN "looked" ELSE "raised"]
    /\ UNCHANGED <<setup, tr, wire>>

LookEvent(s) ==
    /\ app[s] = "looked"
    /\ app' = [app EXCEPT ![s] = IF tr[s].event THEN "returned" ELSE "waiting"]
    /\ UNCHANGED <<setup, tr, wire>>

\* start_client returns without a word when its time is up.
StartGivesUp ==
    /\ app["client"] = "looked" /\ setup.timeout /\ ~tr["client"].event
    /\ app' = [app EXCEPT !["client"] = "gave_up"]
    /\ UNCHANGED <<setup, tr, wire>>

\* The rest of connect, when it was given a host key: get_remote_server_key and
\* the comparison, which a connect with gss_kex leaves out.
CheckHostKey ==
    LET T == tr["client"]
        good == T.active /\ T.initial_kex_done /\ T.host_key = setup.hostkey
    IN  /\ app["client"] = "returned" /\ setup.hostkey # NoKey
        /\ app' = [app EXCEPT !["client"] =
                     IF good \/ setup.gss_kex THEN "connected" ELSE "raised"]
        /\ UNCHANGED <<setup, tr, wire>>

\* renegotiate_keys, called between two exchanges.
Renegotiate(s) ==
    /\ app[s] \in {"returned", "connected"} /\ Running(s)
    /\ tr[s].initial_kex_done /\ tr[s].local_kex_init = NoInit /\ tr[s].made < MaxExchanges
    /\ \E T \in {SendKexInit(s, tr[s])} :
           /\ tr' = [tr EXCEPT ![s] = [T EXCEPT !.seqno_out = @ + 1]]
           /\ wire' = [wire EXCEPT ![Peer(s)] =
                         @ \o Packets(T, <<Msg(KEXINIT, T.local_kex_init)>>)]
    /\ UNCHANGED <<setup, app>>

\* The machine of s answers no more, its connection stays open.
Stall(s) ==
    /\ tr[s].active /\ tr[s].stage \in StallAt
    /\ tr' = [tr EXCEPT ![s].stage = "stalled"]
    /\ UNCHANGED <<setup, wire, app>>

Engine(s) ==
    \/ ParseKexdhInit(s) \/ ParseKexdhReply(s) \/ ParseKexecdhInit(s) \/ ParseKexecdhReply(s)
    \/ ParseGexRequest(s) \/ ParseGexRequestOld(s) \/ ParseGexGroup(s)
    \/ ParseGexInit(s) \/ ParseGexReply(s)
    \/ ParseGssInit(s) \/ ParseGssContinue(s) \/ ParseGssComplete(s)
    \/ ParseGssGroupreq(s) \/ ParseGssGroup(s) \/ ParseGssGexInit(s) \/ ParseGssGexComplete(s)

Thread(s) ==
    \/ CheckBanner(s) \/ NegotiateKeys(s) \/ Engine(s) \/ ParseNewkeys(s)
    \/ ParseExtInfo(s) \/ ReadClosed(s) \/ ReadUnexpected(s)

Timers(s) == BannerTimeout(s) \/ HandshakeTimeout(s)
Waiter(s) == LookActive(s) \/ LookEvent(s)

Next ==
    \/ start_client \/ start_server \/ StartGivesUp \/ CheckHostKey
    \/ \E s \in Side : Thread(s) \/ Timers(s) \/ Waiter(s) \/ Renegotiate(s) \/ Stall(s)

\* Threads that can run do, and timers go off.
Fairness ==
    \A s \in Side : WF_vars(Thread(s)) /\ WF_vars(Timers(s)) /\ WF_vars(Waiter(s))

Spec == Init /\ [][Next]_vars /\ Fairness
-----------------------------------------------------------------------------
(* Properties.                                                             *)

\* The two ends choose algorithms and make keys each by itself.  Through every
\* switch of keys, and with the numbers starting over in strict mode, the packet
\* an end reads next was written with the algorithms, the keys and the number
\* that it reads with (_parse_kex_init, _activate_outbound, _activate_inbound).
InStep ==
    \A s \in Side : (tr[s].stage = "loop" /\ wire[s] # <<>>) => Readable(tr[s], Read(s))

\* A client sends with new keys only when the server has them as well, and has
\* shown that it holds the host key of the agreed type or the security context.
KeysProven ==
    LET c == tr["client"]
        v == tr["server"]
    IN  (c.active /\ c.out_key # NoKeys) =>
            /\ c.out_key[1] \in {v.H, v.out_key[1], v.in_key[1]}
            /\ IF c.gss_kex_used THEN c.host_key = NullHostKey
               ELSE c.host_key \in setup.server_keys \cup {NullHostKey}

\* What the two ends have in common, computed from how they are set up: the
\* algorithms (by name), and the kex algorithm the client likes best.
Lists(s, c) ==
    Range(FilterAlgorithm(s, c, IF c = "keys" /\ Pinned(s) THEN NamesOf(setup.hostkey.type)
                                 ELSE setup.preferred[s][c]))
Shared(c) ==
    Lists("client", c) \cap Lists("server", c)
      \cap (IF c = "keys" THEN DOMAIN server_key_dict ELSE Lists("server", c))
BestKex == Keep(setup.preferred["client"]["kex"], Shared("kex"))[1]

\* Group exchange works with moduli (a server without them lists it all the same
\* in its first KEXINIT), for a range the server takes as it is and with a prime
\* of an acceptable size; GSS-API only with groups of the server's choice, a context
\* of one round and a single exchange (the MIC is made over the session id).
GexWorks ==
    /\ setup.moduli # {} /\ setup.loaded
    /\ setup.bits.old \/ SaneRange(Ask) = Ask
    /\ Smoosh(Ask.prefer) = Ask.prefer
    /\ MinBits <= AtLeast(setup.moduli) /\ AtMost(setup.moduli) <= MaxBits
KexWorks ==
    CASE BestKex \in {"group", "ecdh"} -> TRUE
      [] BestKex = "gex" -> GexWorks
      [] BestKex = "gss" -> FALSE
      [] BestKex = "gss_gex" -> GexWorks /\ ~setup.bits.old /\ setup.rounds = 1
                                /\ \A s \in Side : tr[s].made <= 1
Compatible ==
    /\ \A s \in Side : setup.version[s] # "1.5" /\ setup.lines[s] < BannerLines
    /\ \A c \in Category : Shared(c) # {}
    /\ KexWorks

\* Two ends that have something of everything in common do not fail, in the
\* handshake or in a later exchange, unless a timer of one of them goes off.
CompatibleSucceeds ==
    Compatible => \A s \in Side : \/ tr[s].saved_exception \in {"none", "timeout"}
                                  \/ /\ tr[s].saved_exception = "eof"
                                     /\ tr[Peer(s)].saved_exception = "timeout"

\* start_client and start_server come back, with a result or an exception, also
\* when the other end stops before its KEXINIT (_check_banner, handshake_timeout).
HandshakeEnds ==
    \A s \in Side : (app[s] \in {"waiting", "looked"})
                      ~> (app[s] \notin {"waiting", "looked"} \/ tr[s].stage = "stalled")

\* handshake_timeout is "how long (seconds) to wait for the handshake to finish
\* after SSH banner sent" (transport.py:569-570): a thread that has sent its own
\* banner and read the peer's ends the first exchange or the session, also when
\* the peer stops in the middle of it.  (The timer is off after its KEXINIT.)
HandshakeTimed ==
    \A s \in Side : (tr[s].stage = "loop" /\ ~tr[s].initial_kex_done)
                      ~> (tr[s].initial_kex_done \/ ~tr[s].active \/ tr[s].stage = "stalled")
=============================================================================
