---------------------------- MODULE MCHandshake ----------------------------
(* Handshake for TLC: sizes of primes are small numbers, 2 to 5 are allowed. *)
EXTENDS HandshakeInvariant

Key(t, i) == [type |-> t, id |-> i]
Both(x) == [s \in Side |-> x]
None == [c \in Category |-> {}]

\* Lists in which the two ends' orders differ and neither has all of the other's.
Lists2(kex, keys, ciphers) ==
    [kex |-> kex, keys |-> keys, ciphers |-> ciphers, macs |-> <<"m1", "m2">>,
     compression |-> <<"none", "zlib">>]
Plain(ckex, skex) ==
    [preferred |-> [client |-> Lists2(ckex, <<"ed", "rsa-sha2-512", "ssh-rsa">>, <<"c1", "c2", "c3">>),
                    server |-> Lists2(skex, <<"ssh-rsa", "ed", "rsa-sha2-512">>, <<"c4", "c3", "c2">>)],
     disabled |-> Both(None), strict |-> Both(TRUE), version |-> Both("2.0"),
     lines |-> Both(0), server_keys |-> {Key("rsa", 1)},
     bits |-> [min |-> 2, prefer |-> 3, max |-> 5, old |-> FALSE],
     moduli |-> {2, 4}, loaded |-> TRUE, rounds |-> 1,
     hostkey |-> NoKey, gss_kex |-> FALSE, timeout |-> FALSE]

Group == Plain(<<"ecdh", "group">>, <<"group", "gex">>)
Ecdh == Plain(<<"ecdh", "group">>, <<"group", "ecdh">>)
Gex == Plain(<<"gex", "ecdh">>, <<"ecdh", "gex">>)
Gss == Plain(<<"gss", "ecdh">>, <<"gss">>)
GssGex == Plain(<<"gss_gex", "ecdh">>, <<"gss_gex">>)
Bits(min, prefer, max, old) == [min |-> min, prefer |-> prefer, max |-> max, old |-> old]

\* Setups that agree ...
Good ==
    {Group, Ecdh, Gex, GssGex,
     [Group EXCEPT !.disabled["client"]["ciphers"] = {"c2"}, !.strict["client"] = FALSE,
                   !.lines["server"] = 1, !.version["server"] = "1.99"],
     [Ecdh EXCEPT !.server_keys = {Key("ed", 1), Key("rsa", 1)}, !.hostkey = Key("ed", 1),
                  !.strict["server"] = FALSE],
     [Ecdh EXCEPT !.hostkey = Key("rsa", 2), !.timeout = TRUE],
     [Ecdh EXCEPT !.disabled["server"]["kex"] = {"ecdh"}, !.loaded = FALSE,
                  !.disabled["client"]["keys"] = {"rsa-sha2-512"}],
     [Gex EXCEPT !.bits = Bits(2, 3, 5, TRUE)],
     [Gex EXCEPT !.bits = Bits(2, 3, 3, FALSE)],
     [GssGex EXCEPT !.hostkey = Key("rsa", 1), !.gss_kex = TRUE]}

\* ... and that do not: no algorithm, line, key, prime or hash in common.
Bad ==
    {Gss, [Gss EXCEPT !.rounds = 2], [GssGex EXCEPT !.rounds = 2],
     [GssGex EXCEPT !.moduli = {6}], [GssGex EXCEPT !.bits.prefer = 6],
     [GssGex EXCEPT !.loaded = FALSE],
     [Gex EXCEPT !.bits.prefer = 6], [Gex EXCEPT !.moduli = {1, 6}],
     [Gex EXCEPT !.moduli = {}], [Gex EXCEPT !.loaded = FALSE],
     [Gex EXCEPT !.loaded = FALSE, !.bits.old = TRUE],
     [Group EXCEPT !.disabled["server"]["macs"] = {"m1", "m2"}],
     [Group EXCEPT !.hostkey = Key("ed", 1)],
     [Group EXCEPT !.version["client"] = "1.5"],
     [Group EXCEPT !.lines["server"] = 2]}

MCSetups == Good \cup Bad
=============================================================================
