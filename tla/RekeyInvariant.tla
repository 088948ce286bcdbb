-------------------------- MODULE RekeyInvariant ---------------------------
(***************************************************************************)
(* The inductive invariant behind QuietDuringKex and SwitchedOnReturn.     *)
(*                                                                         *)
(* EndOK is about one end: what the state of an exchange says about        *)
(* clear_to_send, in_kex and the packets the end has sent.  One thing it   *)
(* rests on is not local: no exchange of an end may complete while a       *)
(* caller of renegotiate_keys at that end is between clearing              *)
(* clear_to_send and sending its KEXINIT.  FirstOK and OwnOK say why:      *)
(* as long as the caller has not sent its KEXINIT there has been one from  *)
(* each end, and then there is one more exchange.                          *)
(***************************************************************************)
EXTENDS Rekey, Functions

Type ==
    Payload \cup {"kexinit", "kexdh", "kexreply", "newkeys", "ext_info", "unimplemented"}
Key == Nat \X Nat
Packet == {m \in [type : Type, val : Seq(Nat), key : Key] :
             m.type = "kexinit" => Len(m.val) = 1}

\* What a process has still to do.
Ahead(p) == Range(todo[p])

\* _send_kex_init, followed by op.
KexInitThen(op) ==
    {<<"clear", "mark", "kexinit", op>>, <<"mark", "kexinit", op>>, <<"kexinit", op>>,
     <<op>>}

\* An end has sent or is sending its KEXINIT, or answers one.
OpeningTodo ==
    KexInitThen("expect_kexinit") \cup KexInitThen("read") \cup KexInitThen("start_kex")
      \cup {<<"clear", "negotiate", "start_kex">>, <<"negotiate", "start_kex">>}

\* An end has the keys, and sends NEWKEYS.
SwitchingTodo ==
    {<<"kexreply", "newkeys", "activate", "ext_info", "expect_newkeys">>,
     <<"newkeys", "activate", "ext_info", "expect_newkeys">>,
     <<"activate", "ext_info", "expect_newkeys">>,
     <<"ext_info", "expect_newkeys">>,
     <<"newkeys", "activate", "expect_newkeys">>,
     <<"activate", "expect_newkeys">>,
     <<"expect_newkeys">>}

AnsweringTodo == {<<"unimplemented">>, <<"channel_success">>, <<"request_success">>}

\* An end has read NEWKEYS.
SettlingTodo == {<<"leave_kex", "reopen">>, <<"reopen">>}

SideTodo == OpeningTodo \cup SwitchingTodo \cup SettlingTodo \cup AnsweringTodo \cup {<<>>}
CallerTodo == KexInitThen("await") \cup {<<>>}

Typed ==
    /\ scenario \in Scenarios
    /\ wire \in [Side -> Seq(Packet)]
    /\ active \in [Side -> BOOLEAN]
    /\ clear_to_send \in [Side -> BOOLEAN]
    /\ in_kex \in [Side -> BOOLEAN]
    /\ local_kex_init \in [Side -> Nat]
    /\ remote_kex_init \in [Side -> Nat]
    /\ kexinits \in [Side -> Nat]
    /\ expected \in [Side -> SUBSET Type]
    /\ completion \in [Side -> BOOLEAN]
    /\ exchanged \in [Side -> Key]
    /\ out_key \in [Side -> Key]
    /\ in_key \in [Side -> Key]
    /\ need_rekey \in [Side -> BOOLEAN]
    /\ init_count \in [Side -> SUBSET {"in", "out"}]
    /\ sent_packets \in [Side -> Nat]
    /\ received_packets \in [Side -> Nat]
    /\ received_packets_overflow \in [Side -> Nat]
    /\ DOMAIN todo = Procs
    /\ \A s \in Side : todo[s] \in SideTodo
    /\ \A t \in Threads : todo[t] \in CallerTodo
    /\ mine \in [Procs -> Nat]
    /\ left \in [Threads -> Nat]
-----------------------------------------------------------------------------
(* Packets on a wire *)

Has(w, ty) == \E i \in DOMAIN w : w[i].type = ty

\* A KEXINIT is not followed by NEWKEYS.
Open(w) ==
    \E i \in DOMAIN w :
        /\ w[i].type = "kexinit"
        /\ \A k \in DOMAIN w : k > i => w[k].type # "newkeys"

OneKexInit(w) ==
    \A i, j \in DOMAIN w : w[i].type = "kexinit" /\ w[j].type = "kexinit" => i = j

\* QuietDuringKex, of one direction.
Quiet(w) ==
    \A i, j \in DOMAIN w :
        i < j /\ w[i].type = "kexinit" /\ w[j].type \in Payload
          => \E k \in i .. j : w[k].type = "newkeys"

\* A KEXINIT has a number, none of which is 0.
Numbers(w) == \A i \in DOMAIN w : w[i].type = "kexinit" => w[i].val[1] # 0
-----------------------------------------------------------------------------
(* One end *)

\* A process that is sending a KEXINIT meets no keys to switch to, and once it
\* has cleared clear_to_send, the flag stays clear.
SendingOK(p) ==
    "kexinit" \in Ahead(p) =>
        /\ exchanged[At(p)] = NoKey
        /\ "clear" \notin Ahead(p) => ~clear_to_send[At(p)]
        /\ "mark" \notin Ahead(p) => mine[p] # 0

\* From our KEXINIT to the peer's NEWKEYS.
OpeningOK(s) ==
    /\ local_kex_init[s] # 0 => ~clear_to_send[s]
    /\ in_key[s] = NoKey => local_kex_init[s] # 0 \/ "mark" \in Ahead(s)
    /\ clear_to_send[s] => in_key[s] # NoKey
    /\ "start_kex" \in Ahead(s) =>
          /\ remote_kex_init[s] # 0
          /\ Ahead(s) \cap {"mark", "negotiate"} = {} => local_kex_init[s] # 0
    /\ expected[s] \cap {"kexdh", "kexreply"} # {} =>
          local_kex_init[s] # 0 /\ remote_kex_init[s] # 0

\* From the moment there are keys to switch to: no KEXINIT is sent, neither
\* because of the limits (in_kex, or no need) nor as an answer.
SwitchingOK(s) ==
    /\ "expect_newkeys" \in Ahead(s) => exchanged[s] # NoKey
    /\ exchanged[s] # NoKey =>
          /\ local_kex_init[s] # 0 /\ remote_kex_init[s] # 0
          /\ \/ "expect_newkeys" \in Ahead(s)
             \/ Ahead(s) \subseteq {"read"} /\ expected[s] = {"newkeys"}
    /\ local_kex_init[s] # 0 /\ (exchanged[s] = NoKey \/ "activate" \in Ahead(s)) => in_kex[s]
    /\ exchanged[s] # NoKey /\ "activate" \notin Ahead(s) => in_kex[s] \/ ~need_rekey[s]
    /\ "ext_info" \in Ahead(s) /\ "activate" \notin Ahead(s) => sent_packets[s] = 0

\* What s has sent.
SentOK(s) ==
    LET w == wire[Peer(s)]
    IN  /\ Numbers(w)
        /\ Quiet(w)
        /\ Open(w) => ~clear_to_send[s]
        /\ exchanged[s] # NoKey /\ "newkeys" \notin Ahead(s) => ~Open(w)

EndOK(s) == OpeningOK(s) /\ SwitchingOK(s) /\ SentOK(s)

\* Until clear_to_send is set again, nobody begins another exchange.
SettlingOK(s) ==
    "reopen" \in Ahead(s) =>
        /\ local_kex_init[s] = 0
        /\ exchanged[s] = NoKey
        /\ in_key[s] # NoKey
        /\ ~clear_to_send[s]
        /\ ~Open(wire[Peer(s)])
        /\ \A t \in Threads : Home[t] = s => "kexinit" \notin Ahead(t)
-----------------------------------------------------------------------------
(* Both ends *)

\* No exchange is under way at s.
Idle(s) ==
    /\ Ahead(s) \subseteq {"read", "unimplemented", "channel_success", "request_success",
                          "leave_kex", "reopen"}
    /\ expected[s] = {}
    /\ exchanged[s] = NoKey
    /\ remote_kex_init[s] = 0

\* s has read a KEXINIT.
Met(s) == remote_kex_init[s] # 0 \/ in_key[s] # NoKey

\* No second KEXINIT has been sent.
First ==
    /\ ~scenario.auto
    /\ \A t \in scenario.callers :
          "kexinit" \in Ahead(t) \/ (todo[t] = <<>> /\ mine[t] = 0)

\* The one KEXINIT to s is to be sent, on its way, or read.
FirstOf(s) ==
    /\ "kexinit" \in Ahead(s) => "expect_kexinit" \in Ahead(s)
    /\ "negotiate" \in Ahead(s) => local_kex_init[s] # 0
    /\ "kexinit" \in Ahead(Peer(s)) => ~Has(wire[s], "kexinit") /\ ~Met(s)
    /\ Has(wire[s], "kexinit") => ~Met(s)
    /\ OneKexInit(wire[s])
    /\ in_key[s] # NoKey => Idle(s)
    /\ Has(wire[s], "newkeys") \/ in_key[s] # NoKey => Met(Peer(s))
    /\ Has(wire[s], "global_request") \/ "request_success" \in Ahead(s) =>
          in_key[Peer(s)] # NoKey

FirstOK ==
    First =>
      /\ \A s \in Side : FirstOf(s)
      /\ \A t \in scenario.callers :
            "kexinit" \in Ahead(t) =>
              /\ in_key[Home[t]] # NoKey
              /\ ~completion[Home[t]]
              /\ "mark" \notin Ahead(t) => local_kex_init[Home[t]] = mine[t]

\* The caller t has sent its KEXINIT.
Second(t) ==
    /\ ~scenario.auto
    /\ t \in scenario.callers
    /\ mine[t] # 0
    /\ todo[t] \in {<<"await">>, <<>>}

\* s answers, or will answer, a KEXINIT.
Answers(s) ==
    "kexinit" \in Ahead(s) \/ ("negotiate" \in Ahead(s) /\ local_kex_init[s] = 0)

\* The exchange that t started is at one place: its KEXINIT is on its way, is
\* being answered, the answer is on its way, has been read, or all is done.
OneRound(s) ==
    LET p == Peer(s)
    IN  /\ Has(wire[p], "kexinit") =>
             ~Answers(p) /\ ~Has(wire[s], "kexinit") /\ remote_kex_init[s] = 0 /\ ~completion[s]
        /\ Answers(p) =>
             ~Has(wire[s], "kexinit") /\ remote_kex_init[s] = 0 /\ ~completion[s]
        /\ Has(wire[s], "kexinit") => remote_kex_init[s] = 0 /\ ~completion[s]
        /\ OneKexInit(wire[p]) /\ OneKexInit(wire[s])
        /\ ~Answers(s)

OwnPart(s) == IF s = "client" THEN 1 ELSE 2

OwnOK(t) ==
    LET s == Home[t]
    IN  /\ OneRound(s)
        /\ completion[s] =>
             Idle(s) /\ in_key[s][OwnPart(s)] = mine[t] /\ out_key[s] = in_key[s]
        /\ ~completion[s] =>
             /\ local_kex_init[s] = mine[t]
             /\ exchanged[s] # NoKey =>
                  /\ exchanged[s][OwnPart(s)] = mine[t]
                  /\ "activate" \notin Ahead(s) => out_key[s] = exchanged[s]

\* Nobody sends what the scenario does not allow; without limits to reach and
\* callers nobody asks for new keys.
UseOK ==
    /\ \A t \in Threads \ scenario.callers : todo[t] = <<>>
    /\ \A t \in Threads : "await" \in Ahead(t) /\ "kexinit" \notin Ahead(t) => mine[t] # 0
    /\ ~scenario.auto =>
          \A s \in Side : ~need_rekey[s] /\ ("kexinit" \in Ahead(s) => "read" \notin Ahead(s))
    /\ scenario.kinds \subseteq {"data"} =>
          \A s \in Side : /\ ~Has(wire[s], "global_request")
                          /\ ~Has(wire[s], "request_success")
                          /\ "request_success" \notin Ahead(s)

CarefulInv ==
    /\ UseOK
    /\ \A p \in Procs : SendingOK(p)
    /\ \A s \in Side : EndOK(s)
    /\ FirstOK
    /\ \A t \in Threads : Second(t) => OwnOK(t)

AskingOK == asking # {} => "global_request" \in scenario.kinds

RekeyInv ==
    /\ Typed
    /\ AskingOK
    /\ Careful => CarefulInv /\ \A s \in Side : SettlingOK(s)
=============================================================================
