----------------------------- MODULE AuthProofs -----------------------------
(***************************************************************************)
(* For every set of users and scenarios, every limit of failures and every *)
(* number of attempts: the type invariant of Auth, that only a user whom   *)
(* the server has accepted is served, whatever the order and the delay of  *)
(* packets, and that an attempt which is waited for is judged once and     *)
(* gets its own answer.                                                    *)
(***************************************************************************)
EXTENDS AuthInvariant, TLAPS

Typed(w) == w \in [Side -> Seq(Msg)]

\* What never changes back: attempts that have begun keep their user, the
\* server keeps the user name it has noted and what it has granted.
Stable ==
    /\ call.num \in Nat /\ call'.num \in Nat /\ call.num <= call'.num
    /\ \A n \in 1 .. call.num : asked'[n] = asked[n]
    /\ auth_username # "unset" => auth_username' = auth_username
    /\ authenticated => authenticated'

\* Packets that the code makes have the fields it gives them.
LEMMA PacketFacts ==
    ASSUME NEW ty \in MsgType, NEW n \in Attempts \cup {0}
    PROVE  /\ Packet(ty, n) \in Msg
           /\ Packet(ty, n).type = ty /\ Packet(ty, n).num = n
  BY DEF Packet, Msg

LEMMA RequestFacts ==
    ASSUME NEW n \in Attempts \cup {0}, NEW u \in Users \cup {"unset"},
           NEW me \in Method \cup {"unset"}
    PROVE  /\ Request(n, u, me) \in Msg
           /\ Request(n, u, me).type = "request"
           /\ Request(n, u, me).num = n /\ Request(n, u, me).user = u
  BY DEF Request, Packet, Msg, MsgType

LEMMA FailureFacts ==
    ASSUME NEW n \in Attempts \cup {0}, NEW partial \in BOOLEAN,
           NEW permitted \in BOOLEAN, NEW fallback \in BOOLEAN
    PROVE  /\ Failure(n, partial, permitted, fallback) \in Msg
           /\ Failure(n, partial, permitted, fallback).type = "failure"
           /\ Failure(n, partial, permitted, fallback).num = n
  BY DEF Failure, Packet, Msg, MsgType

\* A packet that is sent is the only new one on the wire.
LEMMA SendWire ==
    ASSUME Typed(wire), NEW s \in Side, NEW m \in Msg, Send(s, m)
    PROVE  /\ Typed(wire')
           /\ \A x \in Side : OnWire(x)' \subseteq OnWire(x) \cup {m}
  <1>1. Peer(s) \in Side
    BY DEF Side, Peer
  <1>2. wire' = [wire EXCEPT ![Peer(s)] = Append(@, m)]
    BY DEF Send
  <1>3. Typed(wire')
    BY <1>1, <1>2 DEF Typed
  <1>4. ASSUME NEW x \in Side, NEW i \in 1 .. Len(wire'[x])
        PROVE  wire'[x][i] \in OnWire(x) \cup {m}
    BY <1>1, <1>2, <1>4 DEF Typed, OnWire
  <1> QED BY <1>3, <1>4 DEF OnWire

\* Handling a packet takes it from the wire; what the handler sends is new.
LEMMA ReplyAllWire ==
    ASSUME Typed(wire), NEW s \in Side, wire[s] # <<>>, NEW ms \in Seq(Msg),
           ReplyAll(s, ms)
    PROVE  /\ Typed(wire')
           /\ \A x \in Side :
                 OnWire(x)' \subseteq OnWire(x) \cup {ms[i] : i \in 1 .. Len(ms)}
  <1>1. Peer(s) \in Side /\ Peer(s) # s
    BY DEF Side, Peer
  <1>2. /\ wire'[s] = Tail(wire[s]) /\ wire'[Peer(s)] = wire[Peer(s)] \o ms
        /\ wire' = [wire EXCEPT ![s] = Tail(@), ![Peer(s)] = @ \o ms]
    BY <1>1 DEF ReplyAll, Typed
  <1>3. Typed(wire')
    <2>1. /\ Tail(wire[s]) \in Seq(Msg)
          /\ wire[Peer(s)] \o ms \in Seq(Msg)
      BY <1>1 DEF Typed
    <2> QED BY <1>1, <1>2, <2>1 DEF Typed
  <1>4. Side = {s, Peer(s)}
    BY DEF Side, Peer
  <1>5. ASSUME NEW i \in 1 .. Len(wire'[s])
        PROVE  wire'[s][i] \in OnWire(s)
    BY <1>2, <1>5 DEF Typed, OnWire
  <1>6. ASSUME NEW i \in 1 .. Len(wire'[Peer(s)])
        PROVE  wire'[Peer(s)][i] \in OnWire(Peer(s)) \cup {ms[j] : j \in 1 .. Len(ms)}
    BY <1>1, <1>2, <1>6 DEF Typed, OnWire
  <1>7. OnWire(s)' \subseteq OnWire(s)
    BY <1>5 DEF OnWire
  <1>8. OnWire(Peer(s))' \subseteq OnWire(Peer(s)) \cup {ms[j] : j \in 1 .. Len(ms)}
    BY <1>6 DEF OnWire
  <1>9. ASSUME NEW x \in Side
        PROVE  OnWire(x)' \subseteq OnWire(x) \cup {ms[j] : j \in 1 .. Len(ms)}
    <2>1. CASE x = s
      BY <1>7, <2>1
    <2>2. CASE x = Peer(s)
      BY <1>8, <2>2
    <2> QED BY <1>4, <2>1, <2>2
  <1> QED BY <1>3, <1>9

LEMMA ReplyWire ==
    ASSUME Typed(wire), NEW s \in Side, wire[s] # <<>>, NEW m \in Msg, Reply(s, m)
    PROVE  /\ Typed(wire')
           /\ \A x \in Side : OnWire(x)' \subseteq OnWire(x) \cup {m}
  <1> DEFINE ms == <<m>>
  <1>1. ms \in Seq(Msg) /\ {ms[i] : i \in 1 .. Len(ms)} = {m}
    OBVIOUS
  <1>2. ReplyAll(s, ms)
    BY DEF Reply
  <1> HIDE DEF ms
  <1> QED BY <1>1, <1>2, ReplyAllWire

LEMMA ConsumeWire ==
    ASSUME Typed(wire), NEW s \in Side, wire[s] # <<>>, Consume(s)
    PROVE  Typed(wire') /\ \A x \in Side : OnWire(x)' \subseteq OnWire(x)
  <1>1. wire' = [wire EXCEPT ![s] = Tail(@)]
    BY DEF Consume
  <1>2. Typed(wire')
    BY <1>1 DEF Typed
  <1>3. ASSUME NEW x \in Side, NEW i \in 1 .. Len(wire'[x])
        PROVE  wire'[x][i] \in OnWire(x)
    BY <1>1, <1>3 DEF Typed, OnWire
  <1> QED BY <1>2, <1>3 DEF OnWire

\* The packet that is handled comes from the wire.
LEMMA HeadWire ==
    ASSUME Typed(wire), NEW s \in Side, NEW ty, Reads(s, ty), WireOK
    PROVE  /\ wire[s] # <<>> /\ Head(wire[s]) \in Msg /\ active[s]
           /\ Head(wire[s]).type = ty /\ PacketOK(Head(wire[s]))
  <1>1. wire[s] # <<>> /\ Head(wire[s]) \in Msg /\ Head(wire[s]) \in OnWire(s)
    BY DEF Typed, Reads, OnWire
  <1> QED BY <1>1 DEF Reads, WireOK

\* A packet, but for two types, is about an attempt.
LEMMA PacketAbout ==
    ASSUME NEW m \in Msg, PacketOK(m), call \in Call,
           m.type \notin {"disconnect", "open"}
    PROVE  m.num \in Attempts /\ m.num \in 1 .. call.num
  <1>1. m.num \in 1 .. call.num
    BY DEF PacketOK
  <1>2. call.num \in Attempts \cup {0}
    BY DEF Call
  <1> QED BY <1>1, <1>2, AuthAssumption DEF Attempts

\* What is true of a packet stays true of it.
LEMMA PacketKept ==
    ASSUME Stable, NEW m \in Msg, PacketOK(m)
    PROVE  PacketOK(m)'
  <1>1. m.type \notin {"disconnect", "open"} =>
           m.num \in 1 .. call'.num /\ asked'[m.num] = asked[m.num]
    BY DEF Stable, PacketOK
  <1>2. m.type = "request" => m.user # "unset" /\ asked'[m.num] = m.user
    BY <1>1 DEF PacketOK
  <1>3. m.type \in {"info_request", "info_response"} =>
           auth_username' # "unset" /\ asked'[m.num] = auth_username'
    BY <1>1 DEF PacketOK, Stable
  <1>4. m.type = "success" => authenticated'
    BY Zenon DEF PacketOK, Stable
  <1> QED BY <1>1, <1>2, <1>3, <1>4 DEF PacketOK

\* So the packets on the wire are right when the new ones are.
LEMMA WireKept ==
    ASSUME WireOK, Typed(wire), Stable, NEW new,
           \A s \in Side : OnWire(s)' \subseteq OnWire(s) \cup new,
           \A m \in new : PacketOK(m)'
    PROVE  WireOK'
  <1>1. ASSUME NEW s \in Side, NEW m \in OnWire(s)
        PROVE  PacketOK(m)'
    <2>1. m \in Msg
      BY DEF Typed, OnWire
    <2>2. PacketOK(m)
      BY DEF WireOK
    <2> QED BY <2>1, <2>2, PacketKept
  <1> QED BY <1>1 DEF WireOK

\* The same when the wire is left alone.
LEMMA WireUnchanged ==
    ASSUME Typed(wire), WireOK, Stable, UNCHANGED wire
    PROVE  Typed(wire') /\ WireOK'
  <1> DEFINE new == {}
  <1>1. \A s \in Side : OnWire(s)' \subseteq OnWire(s) \cup new
    BY DEF OnWire
  <1>2. \A m \in new : PacketOK(m)'
    OBVIOUS
  <1> HIDE DEF new
  <1>3. WireOK'
    BY <1>1, <1>2, WireKept
  <1> QED BY <1>3
-----------------------------------------------------------------------------
(* What the steps of one thread cannot disturb *)

\* The application thread touches nothing of the server, and an attempt keeps
\* its user.
LEMMA ApplicationKeeps ==
    ASSUME AuthInv, AttemptTypes', Stable,
           UNCHANGED <<scenario, active, server, verdict, evaluated, served>>
    PROVE  /\ scenario' \in Scenarios /\ active' \in [Side -> BOOLEAN]
           /\ ServerTypes' /\ LimitOK' /\ VerdictOK' /\ GrantOK'
  <1>1. scenario' \in Scenarios /\ active' \in [Side -> BOOLEAN] /\ ServerTypes'
    BY DEF AuthInv, TypeOK, ServerTypes, server
  <1>2. LimitOK'
    BY DEF AuthInv, LimitOK, server
  <1>3. VerdictOK'
    <2> SUFFICES ASSUME NEW n \in Attempts, verdict[n] # {}
                 PROVE  n <= call'.num /\ auth_username # "unset" /\ asked'[n] = auth_username
      BY DEF VerdictOK, server
    <2>1. n \in 1 .. call.num /\ auth_username # "unset" /\ asked[n] = auth_username
      BY DEF AuthInv, VerdictOK, Stable, Attempts
    <2> QED BY <2>1 DEF Stable
  <1>4. GrantOK'
    BY DEF AuthInv, GrantOK, server
  <1> QED BY <1>1, <1>2, <1>3, <1>4

\* The transport thread of the client only looks at the attempt.
LEMMA ClientThreadKeeps ==
    ASSUME AuthInv, active'["server"] = active["server"],
           UNCHANGED <<scenario, pc, call, outcome, opened, server, asked, verdict,
                       evaluated, served>>
    PROVE  /\ scenario' \in Scenarios /\ AttemptTypes' /\ ServerTypes' /\ Stable
           /\ CallOK' /\ LimitOK' /\ VerdictOK' /\ GrantOK'
  <1>1. scenario' \in Scenarios /\ AttemptTypes' /\ ServerTypes'
    BY DEF AuthInv, TypeOK, ServerTypes, AttemptTypes, server
  <1>2. Stable
    BY DEF Stable, server, AuthInv, TypeOK, AttemptTypes, ServerTypes, Call, Attempts
  <1>3. CallOK' /\ LimitOK' /\ VerdictOK'
    BY DEF AuthInv, CallOK, LimitOK, VerdictOK, server
  <1>4. GrantOK'
    BY DEF AuthInv, GrantOK, server
  <1> QED BY <1>1, <1>2, <1>3, <1>4

\* The server touches nothing of the client, and keeps what it has granted.
LEMMA ServerThreadKeeps ==
    ASSUME AuthInv, ServerTypes', UNCHANGED <<scenario, client, asked, handled>>,
           active'["client"] = active["client"],
           auth_username # "unset" => auth_username' = auth_username,
           authenticated => authenticated'
    PROVE  /\ scenario' \in Scenarios /\ AttemptTypes' /\ HandlerTypes' /\ Stable
           /\ CallOK' /\ HandlerOK' /\ ExceptionOK' /\ ClientAgrees'
  <1>1. scenario' \in Scenarios /\ AttemptTypes' /\ HandlerTypes'
    BY DEF AuthInv, TypeOK, HandlerTypes, AttemptTypes, client
  <1>2. Stable
    BY DEF Stable, client, AuthInv, TypeOK, AttemptTypes, ServerTypes, Call, Attempts
  <1>3. CallOK' /\ HandlerOK'
    BY DEF AuthInv, CallOK, HandlerOK, client
  <1>4. ExceptionOK'
    BY DEF AuthInv, ExceptionOK, client
  <1>5. ClientAgrees'
    BY DEF AuthInv, ClientAgrees, client
  <1> QED BY <1>1, <1>2, <1>3, <1>4, <1>5

\* The parts make the invariant.
LEMMA Assemble ==
    ASSUME scenario' \in Scenarios, Typed(wire'), active' \in [Side -> BOOLEAN],
           AttemptTypes', HandlerTypes', ServerTypes', WireOK', CallOK', HandlerOK',
           ExceptionOK', LimitOK', VerdictOK', GrantOK', ClientAgrees'
    PROVE  AuthInv'
  BY DEF AuthInv, TypeOK, Typed
-----------------------------------------------------------------------------
(* The application thread *)

LEMMA NextAttempt ==
    ASSUME NEW k \in Attempts \cup {0}, k < MaxAttempts
    PROVE  k \in Nat /\ k + 1 \in Attempts /\ k + 1 \notin 1 .. k
  BY AuthAssumption DEF Attempts

\* A step of an attempt that sends nothing and makes none of the others.
LEMMA SilentStep ==
    ASSUME AuthInv, AttemptTypes', HandlerTypes', CallOK', HandlerOK', ExceptionOK',
           ClientAgrees', Stable,
           UNCHANGED <<scenario, wire, active, server, verdict, evaluated, served>>
    PROVE  AuthInv'
  <1>1. Typed(wire') /\ WireOK'
    BY WireUnchanged DEF AuthInv, TypeOK, Typed
  <1> QED BY <1>1, ApplicationKeeps, Assemble

\* A step that sends packet m to the server.
LEMMA SendingStep ==
    ASSUME AuthInv, AttemptTypes', HandlerTypes', CallOK', HandlerOK', ExceptionOK',
           ClientAgrees', Stable, NEW m \in Msg, Send("client", m), PacketOK(m)',
           UNCHANGED <<scenario, active, server, verdict, evaluated, served>>
    PROVE  AuthInv'
  <1>1. Typed(wire') /\ \A x \in Side : OnWire(x)' \subseteq OnWire(x) \cup {m}
    BY SendWire DEF AuthInv, TypeOK, Typed, Side
  <1>2. WireOK'
    <2> DEFINE new == {m}
    <2>1. \A x \in new : PacketOK(x)'
      OBVIOUS
    <2>2. \A x \in Side : OnWire(x)' \subseteq OnWire(x) \cup new
      BY <1>1
    <2> HIDE DEF new
    <2> QED BY <2>1, <2>2, WireKept DEF AuthInv, TypeOK, Typed
  <1> QED BY <1>1, <1>2, ApplicationKeeps, Assemble

\* An attempt gets its user; nothing is known of it yet.
LEMMA BeginInv ==
    ASSUME AuthInv, NEW me \in Method, NEW u \in Users, Begin(me, u)
    PROVE  AuthInv'
  <1>1. call \in Call /\ call.num \in Attempts \cup {0} /\ AttemptTypes /\ HandlerTypes
    BY DEF AuthInv, TypeOK, AttemptTypes, Call
  <1>2. call.num \in Nat /\ call.num + 1 \in Attempts /\ call.num + 1 \notin 1 .. call.num
    BY <1>1, NextAttempt DEF Begin
  <1>3. /\ call'.num = call.num + 1 /\ call'.user = u /\ call' \in Call
        /\ asked' = [asked EXCEPT ![call.num + 1] = u]
        /\ asked' \in [Attempts -> Users \cup {"unset"}]
        /\ asked'[call.num + 1] = u
        /\ pc' \in {"ensure", "create"}
    BY <1>1, <1>2 DEF Begin, Call, AttemptTypes
  <1>4. AttemptTypes' /\ HandlerTypes'
    BY <1>1, <1>3 DEF Begin, AttemptTypes, HandlerTypes
  <1>5. \A n \in 1 .. call.num : asked'[n] = asked[n]
    BY <1>1, <1>2, <1>3 DEF AttemptTypes
  <1>6. Stable
    BY <1>2, <1>3, <1>5 DEF Stable, Begin, server
  <1>7. CallOK'
    BY <1>2, <1>3, AuthAssumption DEF CallOK
  <1>8. HandlerOK'
    BY <1>2, <1>3, <1>5 DEF AuthInv, HandlerOK, Begin
  <1>9. ExceptionOK' /\ ClientAgrees'
    BY DEF AuthInv, ExceptionOK, ClientAgrees, Begin, server
  <1> QED BY <1>4, <1>6, <1>7, <1>8, <1>9, SilentStep DEF Begin

\* Most steps leave the attempts and the server alone.
LEMMA StableStep ==
    ASSUME AuthInv, UNCHANGED <<call, asked, server>>
    PROVE  Stable
  BY DEF Stable, server, AuthInv, TypeOK, AttemptTypes, Call, Attempts

LEMMA CreateInv ==
    ASSUME AuthInv, Create
    PROVE  AuthInv'
  <1>1. Stable
    BY StableStep DEF Create, history
  <1>2. AttemptTypes' /\ handler' \in Handler /\ handler'.user = "unset"
        /\ handler'.num = call.num /\ handler'.authenticated = FALSE
    BY DEF Create, AuthInv, TypeOK, AttemptTypes, history, NewHandler, Handler, Call
  <1>3. HandlerTypes'
    BY <1>2 DEF Create, AuthInv, TypeOK, HandlerTypes, history
  <1>4. CallOK' /\ HandlerOK'
    BY <1>2 DEF Create, AuthInv, CallOK, HandlerOK, history
  <1>5. ExceptionOK' /\ ClientAgrees'
    BY <1>2 DEF Create, AuthInv, ExceptionOK, ClientAgrees, server
  <1> QED BY <1>1, <1>2, <1>3, <1>4, <1>5, SilentStep DEF Create, history

LEMMA RequestAuthInv ==
    ASSUME AuthInv, RequestAuth
    PROVE  AuthInv'
  <1>1. Stable
    BY StableStep DEF RequestAuth, history
  <1>2. /\ pc = "request" /\ pc' = "wait" /\ call \in Call /\ handler \in Handler
        /\ call.num \in Attempts /\ asked[call.num] = call.user
        /\ handler.num = call.num
    BY DEF RequestAuth, AuthInv, CallOK, HandlerOK, TypeOK, AttemptTypes, HandlerTypes
  <1>3. handler' = [handler EXCEPT !.user = call.user, !.method = call.method,
                                   !.auth_event = call.num]
    BY DEF RequestAuth
  <1>4. /\ handler' \in Handler /\ handler'.num = call.num /\ handler'.user = call.user
        /\ handler'.authenticated = handler.authenticated
    BY <1>2, <1>3 DEF Handler, Call
  <1>5. AttemptTypes' /\ HandlerTypes'
    BY <1>2, <1>4 DEF RequestAuth, AuthInv, TypeOK, AttemptTypes, HandlerTypes, history
  <1>6. call.num \in 1 .. call.num
    BY <1>2 DEF Attempts
  <1>7. CallOK' /\ HandlerOK'
    BY <1>2, <1>4, <1>6 DEF RequestAuth, AuthInv, CallOK, HandlerOK, history
  <1>8. ExceptionOK' /\ ClientAgrees'
    BY <1>4 DEF RequestAuth, AuthInv, ExceptionOK, ClientAgrees, server
  <1>9. PICK m \in Msg : /\ m = Packet("service_request", call.num)
                         /\ m.type = "service_request" /\ m.num = call.num
    BY <1>2, PacketFacts DEF MsgType
  <1>10. Send("client", m)
    BY <1>9 DEF RequestAuth
  <1>11. PacketOK(m)'
    <2>1. call' = call
      BY DEF RequestAuth
    <2> QED BY <1>6, <1>9, <2>1 DEF PacketOK
  <1>12. UNCHANGED <<scenario, active, server, verdict, evaluated, served>>
    BY DEF RequestAuth, history
  <1> QED BY <1>1, <1>5, <1>7, <1>8, <1>9, <1>10, <1>11, <1>12, SendingStep

LEMMA EnsureSessionInv ==
    ASSUME AuthInv, EnsureSession
    PROVE  AuthInv'
  <1>1. Stable
    BY StableStep DEF EnsureSession, history
  <1>2. AttemptTypes' /\ HandlerTypes'
    BY DEF EnsureSession, AuthInv, TypeOK, AttemptTypes, HandlerTypes, history
  <1>3. CallOK' /\ HandlerOK'
    BY DEF EnsureSession, AuthInv, CallOK, HandlerOK, history
  <1>4. ExceptionOK' /\ ClientAgrees'
    BY DEF EnsureSession, AuthInv, ExceptionOK, ClientAgrees, server
  <1>5. CASE UNCHANGED wire
    BY <1>1, <1>2, <1>3, <1>4, <1>5, SilentStep DEF EnsureSession, history
  <1>6. CASE Send("client", Packet("service_request", call.num))
    <2>1. call.num \in Attempts
      BY DEF EnsureSession, AuthInv, CallOK
    <2>2. PICK m \in Msg : /\ m = Packet("service_request", call.num)
                           /\ m.type = "service_request" /\ m.num = call.num
      BY <2>1, PacketFacts DEF MsgType
    <2>3. Send("client", m)
      BY <1>6, <2>2
    <2>4. PacketOK(m)'
      <3>1. call' = call /\ call.num \in 1 .. call.num
        BY <2>1 DEF EnsureSession, Attempts
      <3> QED BY <2>2, <3>1 DEF PacketOK
    <2>5. UNCHANGED <<scenario, active, server, verdict, evaluated, served>>
      BY DEF EnsureSession, history
    <2> QED BY <1>1, <1>2, <1>3, <1>4, <2>2, <2>3, <2>4, <2>5, SendingStep
  <1> QED BY <1>5, <1>6 DEF EnsureSession

LEMMA ServiceAwaitedInv ==
    ASSUME AuthInv, ServiceAwaited
    PROVE  AuthInv'
  <1>1. Stable
    BY StableStep DEF ServiceAwaited, history
  <1>2. AttemptTypes' /\ handler' \in Handler /\ handler'.user = "unset"
        /\ handler'.num = call.num /\ handler'.authenticated = FALSE
    BY DEF ServiceAwaited, AuthInv, TypeOK, AttemptTypes, history, NewHandler, Handler, Call
  <1>3. HandlerTypes'
    BY <1>2 DEF ServiceAwaited, AuthInv, TypeOK, HandlerTypes, history
  <1>4. CallOK' /\ HandlerOK'
    BY <1>2 DEF ServiceAwaited, AuthInv, CallOK, HandlerOK, history
  <1>5. ExceptionOK' /\ ClientAgrees'
    BY <1>2 DEF ServiceAwaited, AuthInv, ExceptionOK, ClientAgrees, server
  <1> QED BY <1>1, <1>2, <1>3, <1>4, <1>5, SilentStep DEF ServiceAwaited, history

LEMMA NewEventInv ==
    ASSUME AuthInv, NewEvent
    PROVE  AuthInv'
  <1>1. Stable
    BY StableStep DEF NewEvent, history
  <1>2. handler \in Handler /\ call \in Call
        /\ handler' = [handler EXCEPT !.auth_event = call.num]
    BY DEF NewEvent, AuthInv, TypeOK, AttemptTypes, HandlerTypes
  <1>3. /\ handler' \in Handler /\ handler'.num = handler.num
        /\ handler'.user = handler.user
        /\ handler'.authenticated = handler.authenticated
    BY <1>2 DEF Handler, Call
  <1>4. AttemptTypes' /\ HandlerTypes'
    BY <1>3 DEF NewEvent, AuthInv, TypeOK, AttemptTypes, HandlerTypes, history
  <1>5. CallOK' /\ HandlerOK'
    BY <1>3 DEF NewEvent, AuthInv, CallOK, HandlerOK, history
  <1>6. ExceptionOK' /\ ClientAgrees'
    BY <1>3 DEF NewEvent, AuthInv, ExceptionOK, ClientAgrees, server
  <1> QED BY <1>1, <1>4, <1>5, <1>6, SilentStep DEF NewEvent, history

\* The request itself, or the error of a "none" request.
LEMMA SendAuthRequestInv ==
    ASSUME AuthInv, SendAuthRequest
    PROVE  AuthInv'
  <1>1. Stable
    BY StableStep DEF SendAuthRequest, history
  <1>2. /\ call \in Call /\ handler \in Handler /\ call.num \in Attempts
        /\ asked[call.num] = call.user /\ call.user # "unset"
        /\ call.num \in 1 .. call.num
    BY DEF SendAuthRequest, AuthInv, CallOK, TypeOK, AttemptTypes, HandlerTypes, Attempts
  <1>3. handler' = [handler EXCEPT !.num = call.num, !.user = call.user,
                                   !.method = call.method]
    BY DEF SendAuthRequest
  <1>4. /\ handler' \in Handler /\ handler'.num = call.num /\ handler'.user = call.user
        /\ handler'.authenticated = handler.authenticated
    BY <1>2, <1>3 DEF Handler, Call
  <1>5. AttemptTypes' /\ HandlerTypes'
    BY <1>4 DEF SendAuthRequest, AuthInv, TypeOK, AttemptTypes, HandlerTypes, history
  <1>6. CallOK' /\ HandlerOK'
    BY <1>2, <1>4 DEF SendAuthRequest, AuthInv, CallOK, HandlerOK, history
  <1>7. ExceptionOK' /\ ClientAgrees'
    BY <1>4 DEF SendAuthRequest, AuthInv, ExceptionOK, ClientAgrees, server
  <1>8. UNCHANGED <<scenario, active, server, verdict, evaluated, served, call, asked>>
    BY DEF SendAuthRequest, history
  <1>9. CASE UNCHANGED wire
    BY <1>1, <1>5, <1>6, <1>7, <1>8, <1>9, SilentStep
  <1>10. CASE Send("client", Request(call.num, call.user, call.method))
    <2>1. call.user \in Users \cup {"unset"} /\ call.method \in Method \cup {"unset"}
      BY <1>2 DEF Call
    <2>2. PICK m \in Msg :
             /\ m = Request(call.num, call.user, call.method)
             /\ m.type = "request" /\ m.num = call.num /\ m.user = call.user
      BY <1>2, <2>1, RequestFacts
    <2>3. Send("client", m)
      BY <1>10, <2>2
    <2>4. PacketOK(m)'
      <3>1. call' = call /\ asked' = asked
        BY <1>8
      <3>2. m.num \in 1 .. call'.num /\ m.user # "unset" /\ asked'[m.num] = m.user
        BY <1>2, <2>2, <3>1
      <3> QED BY <2>2, <3>2 DEF PacketOK
    <2> QED BY <1>1, <1>5, <1>6, <1>7, <1>8, <2>2, <2>3, <2>4, SendingStep
  <1> QED BY <1>9, <1>10 DEF SendAuthRequest

\* An attempt returns: with success only when the server has granted it.
LEMMA ReturnStep ==
    ASSUME AuthInv, pc' = "idle",
           outcome' \in Verdict \cup {"unset", "bad", "timeout", "ended", "error"},
           outcome' = "success" => authenticated,
           saved_exception' \in {saved_exception, NoException},
           UNCHANGED <<scenario, wire, active, call, handler, accepted, fired,
                       opened, server, history>>
    PROVE  AuthInv'
  <1>1. Stable
    BY StableStep DEF history
  <1>2. NoException \in Exception /\ NoException.kind # "end"
    BY DEF NoException, Exception
  <1>3. AttemptTypes' /\ HandlerTypes'
    BY <1>2 DEF AuthInv, TypeOK, AttemptTypes, HandlerTypes, history
  <1>4. CallOK' /\ HandlerOK'
    BY DEF AuthInv, CallOK, HandlerOK, history
  <1>5. ExceptionOK'
    BY <1>2 DEF AuthInv, ExceptionOK
  <1>6. ClientAgrees'
    BY DEF AuthInv, ClientAgrees, server
  <1> QED BY <1>1, <1>3, <1>4, <1>5, <1>6, SilentStep DEF history

LEMMA SessionGoneInv ==
    ASSUME AuthInv, SessionGone
    PROVE  AuthInv'
  <1>1. pc' = "idle" /\ outcome' \in {"ended", "bad"}
    BY DEF SessionGone, Return
  <1> QED BY <1>1, ReturnStep DEF SessionGone, Return, Verdict

LEMMA WaitEndedInv ==
    ASSUME AuthInv, WaitEnded
    PROVE  AuthInv'
  <1>1. pc' = "idle" /\ outcome' \in {"ended", "bad"}
    BY DEF WaitEnded, Return
  <1> QED BY <1>1, ReturnStep DEF WaitEnded, Return, Verdict

LEMMA WaitTimeoutInv ==
    ASSUME AuthInv, WaitTimeout
    PROVE  AuthInv'
  <1>1. pc' = "idle" /\ outcome' \in {"timeout", "bad"}
    BY DEF WaitTimeout, Return
  <1> QED BY <1>1, ReturnStep DEF WaitTimeout, Return, Verdict

\* The handler is authenticated because the server is.
LEMMA WaitSuccessInv ==
    ASSUME AuthInv, WaitSuccess
    PROVE  AuthInv'
  <1>1. pc' = "idle" /\ outcome' = "success"
    BY DEF WaitSuccess, Return
  <1>2. authenticated
    BY DEF AuthInv, ClientAgrees, WaitSuccess
  <1> QED BY <1>1, <1>2, ReturnStep DEF WaitSuccess, Return, Verdict

\* The attempt with the password goes on as another one of the same user.
LEMMA FallbackInv ==
    ASSUME AuthInv, WaitFailure, Fallback(saved_exception)
    PROVE  AuthInv'
  <1>1. /\ call \in Call /\ call.num \in Attempts \cup {0} /\ call.user # "unset"
        /\ call.user \in Users \cup {"unset"} /\ AttemptTypes /\ HandlerTypes
    BY DEF WaitFailure, AuthInv, TypeOK, AttemptTypes, Call, CallOK
  <1>2. call.num \in Nat /\ call.num + 1 \in Attempts /\ call.num + 1 \notin 1 .. call.num
    BY <1>1, NextAttempt DEF Fallback
  <1>3. call' = [call EXCEPT !.num = @ + 1, !.nested = TRUE,
                             !.method = "keyboard-interactive"]
    BY DEF Fallback
  <1>4. call' \in Call /\ call'.num = call.num + 1 /\ call'.user = call.user
    BY <1>1, <1>2, <1>3 DEF Call, Method
  <1>5. /\ asked' = [asked EXCEPT ![call.num + 1] = call.user]
        /\ asked' \in [Attempts -> Users \cup {"unset"}]
        /\ asked'[call.num + 1] = call.user
        /\ pc' \in {"ensure", "create"} /\ outcome' = outcome
    BY <1>1, <1>2 DEF Fallback, AttemptTypes
  <1>6. NoException \in Exception /\ NoException.kind # "end"
        /\ saved_exception' = NoException
    BY DEF NoException, Exception, WaitFailure
  <1>7. AttemptTypes' /\ HandlerTypes'
    BY <1>1, <1>4, <1>5, <1>6 DEF WaitFailure, AttemptTypes, HandlerTypes
  <1>8. \A n \in 1 .. call.num : asked'[n] = asked[n]
    BY <1>1, <1>2, <1>5 DEF AttemptTypes
  <1>9. Stable
    BY <1>2, <1>4, <1>8 DEF Stable, WaitFailure, server
  <1>10. CallOK'
    BY <1>1, <1>2, <1>4, <1>5 DEF CallOK
  <1>11. HandlerOK'
    BY <1>2, <1>4, <1>5, <1>8 DEF AuthInv, HandlerOK, WaitFailure
  <1>12. ExceptionOK'
    BY <1>6 DEF ExceptionOK
  <1>13. ClientAgrees'
    BY <1>5 DEF AuthInv, ClientAgrees, WaitFailure, server
  <1>14. UNCHANGED <<scenario, wire, active, server, verdict, evaluated, served>>
    BY DEF WaitFailure
  <1> QED BY <1>7, <1>9, <1>10, <1>11, <1>12, <1>13, <1>14, SilentStep

LEMMA WaitFailureInv ==
    ASSUME AuthInv, WaitFailure
    PROVE  AuthInv'
  <1>1. CASE Fallback(saved_exception)
    BY <1>1, FallbackInv
  <1> DEFINE o == IF saved_exception.kind = "none" THEN "failed" ELSE saved_exception.kind
  <1>2. CASE Return(o) /\ UNCHANGED asked
    <2>1. o \in {"failed", "bad", "partial"}
      BY DEF WaitFailure, AuthInv, ExceptionOK, TypeOK, HandlerTypes, Exception
    <2>2. pc' = "idle" /\ outcome' \in {"failed", "bad", "partial"} /\ UNCHANGED call
      <3> HIDE DEF o
      <3> QED BY <1>2, <2>1 DEF Return
    <2>3. /\ saved_exception' = NoException
          /\ UNCHANGED <<scenario, wire, active, handler, accepted, fired, opened,
                         server, history>>
      BY <1>2 DEF WaitFailure, history
    <2> QED BY <2>2, <2>3, ReturnStep DEF Verdict
  <1> QED BY <1>1, <1>2 DEF WaitFailure

LEMMA OpenInv ==
    ASSUME AuthInv, Open
    PROVE  AuthInv'
  <1>1. Stable
    BY StableStep DEF Open, history
  <1>2. AttemptTypes' /\ HandlerTypes'
    BY DEF Open, AuthInv, TypeOK, AttemptTypes, HandlerTypes, history
  <1>3. CallOK' /\ HandlerOK'
    BY DEF Open, AuthInv, CallOK, HandlerOK, history
  <1>4. ExceptionOK' /\ ClientAgrees'
    BY DEF Open, AuthInv, ExceptionOK, ClientAgrees, server
  <1>5. PICK m \in Msg : m = Packet("open", 0) /\ m.type = "open"
    BY PacketFacts DEF MsgType
  <1>6. Send("client", m) /\ PacketOK(m)'
    BY <1>5 DEF Open, PacketOK
  <1>7. UNCHANGED <<scenario, active, server, verdict, evaluated, served>>
    BY DEF Open, history
  <1> QED BY <1>1, <1>2, <1>3, <1>4, <1>5, <1>6, <1>7, SendingStep

-----------------------------------------------------------------------------
(* The transport thread of the client *)

\* Setting the event of the handler adds to the attempts that have fired.
LEMMA FiredTyped ==
    ASSUME HandlerTypes
    PROVE  fired \cup ({handler.auth_event} \ {0}) \in SUBSET Attempts
  BY DEF HandlerTypes, Handler

\* The session ends at the client.
LEMMA EndClientStep ==
    ASSUME AuthInv, NEW e \in Exception, EndClient(e), Typed(wire'),
           \A s \in Side : OnWire(s)' \subseteq OnWire(s),
           UNCHANGED <<scenario, pc, call, handler, accepted, outcome, opened,
                       server, history>>
    PROVE  AuthInv'
  <1>1. /\ active' = [active EXCEPT !["client"] = FALSE]
        /\ fired' = fired \cup ({handler.auth_event} \ {0})
        /\ saved_exception' = e
    BY DEF EndClient
  <1>2. /\ active' \in [Side -> BOOLEAN] /\ active'["server"] = active["server"]
        /\ active'["client"] = FALSE
    BY <1>1 DEF AuthInv, TypeOK, Side
  <1>3. /\ scenario' \in Scenarios /\ AttemptTypes' /\ ServerTypes' /\ Stable
        /\ CallOK' /\ LimitOK' /\ VerdictOK' /\ GrantOK'
    BY <1>2, ClientThreadKeeps DEF history
  <1>4. HandlerTypes'
    BY <1>1, FiredTyped DEF AuthInv, TypeOK, HandlerTypes, history
  <1>5. HandlerOK'
    BY DEF AuthInv, HandlerOK, history
  <1>6. ExceptionOK'
    BY <1>2 DEF ExceptionOK
  <1>7. ClientAgrees'
    BY DEF AuthInv, ClientAgrees, server
  <1>8. WireOK'
    <2> DEFINE new == {}
    <2>1. /\ \A m \in new : PacketOK(m)'
          /\ \A s \in Side : OnWire(s)' \subseteq OnWire(s) \cup new
      OBVIOUS
    <2> HIDE DEF new
    <2> QED BY <1>3, <2>1, WireKept DEF AuthInv, TypeOK, Typed
  <1> QED BY <1>2, <1>3, <1>4, <1>5, <1>6, <1>7, <1>8, Assemble

LEMMA EndTyped == SessionEnd \in Exception
  BY DEF SessionEnd, Exception

LEMMA ClientEofInv ==
    ASSUME AuthInv, SeesEof("client")
    PROVE  AuthInv'
  <1>1. EndClient(SessionEnd) /\ UNCHANGED wire
    BY DEF SeesEof
  <1>2. Typed(wire') /\ \A s \in Side : OnWire(s)' \subseteq OnWire(s)
    BY <1>1 DEF AuthInv, TypeOK, Typed, OnWire
  <1> QED BY <1>1, <1>2, EndTyped, EndClientStep DEF SeesEof

LEMMA ReadDisconnectInv ==
    ASSUME AuthInv, ReadDisconnect
    PROVE  AuthInv'
  <1>1. Typed(wire) /\ WireOK /\ saved_exception \in Exception
    BY DEF AuthInv, TypeOK, Typed, HandlerTypes
  <1>2. wire["client"] # <<>>
    BY <1>1, HeadWire DEF ReadDisconnect, Side
  <1>3. Typed(wire') /\ \A s \in Side : OnWire(s)' \subseteq OnWire(s)
    BY <1>1, <1>2, ConsumeWire DEF ReadDisconnect, Side
  <1>4. PICK e \in Exception : e = saved_exception
    BY <1>1
  <1>5. EndClient(e)
    BY <1>4 DEF ReadDisconnect
  <1> QED BY <1>3, <1>5, EndClientStep DEF ReadDisconnect

\* A packet is handled and answered with m; the session goes on.
LEMMA ClientReplyStep ==
    ASSUME AuthInv, NEW ty, Reads("client", ty), NEW m \in Msg, Reply("client", m),
           PacketOK(m)', HandlerTypes', HandlerOK', ClientAgrees',
           UNCHANGED <<scenario, active, pc, call, outcome, opened, saved_exception,
                       server, asked, verdict, evaluated, served>>
    PROVE  AuthInv'
  <1>1. Typed(wire) /\ WireOK /\ active \in [Side -> BOOLEAN]
    BY DEF AuthInv, TypeOK, Typed
  <1>2. wire["client"] # <<>>
    BY <1>1, HeadWire DEF Side
  <1>3. Typed(wire') /\ \A s \in Side : OnWire(s)' \subseteq OnWire(s) \cup {m}
    BY <1>1, <1>2, ReplyWire DEF Side
  <1>4. /\ scenario' \in Scenarios /\ AttemptTypes' /\ ServerTypes' /\ Stable
        /\ CallOK' /\ LimitOK' /\ VerdictOK' /\ GrantOK'
    BY ClientThreadKeeps
  <1>5. ExceptionOK'
    BY DEF AuthInv, ExceptionOK
  <1>6. WireOK'
    <2> DEFINE new == {m}
    <2>1. /\ \A x \in new : PacketOK(x)'
          /\ \A s \in Side : OnWire(s)' \subseteq OnWire(s) \cup new
      BY <1>3
    <2> HIDE DEF new
    <2> QED BY <1>1, <1>4, <2>1, WireKept
  <1> QED BY <1>1, <1>3, <1>4, <1>5, <1>6, Assemble

\* A packet is handled without an answer; the session goes on.
LEMMA ClientReadStep ==
    ASSUME AuthInv, NEW ty, Reads("client", ty), Consume("client"),
           HandlerTypes', HandlerOK', ExceptionOK', ClientAgrees',
           UNCHANGED <<scenario, active, pc, call, outcome, opened,
                       server, asked, verdict, evaluated, served>>
    PROVE  AuthInv'
  <1>1. Typed(wire) /\ WireOK /\ active \in [Side -> BOOLEAN]
    BY DEF AuthInv, TypeOK, Typed
  <1>2. wire["client"] # <<>>
    BY <1>1, HeadWire DEF Side
  <1>3. Typed(wire') /\ \A s \in Side : OnWire(s)' \subseteq OnWire(s)
    BY <1>1, <1>2, ConsumeWire DEF Side
  <1>4. /\ scenario' \in Scenarios /\ AttemptTypes' /\ ServerTypes' /\ Stable
        /\ CallOK' /\ LimitOK' /\ VerdictOK' /\ GrantOK'
    BY ClientThreadKeeps
  <1>5. WireOK'
    <2> DEFINE new == {}
    <2>1. /\ \A x \in new : PacketOK(x)'
          /\ \A s \in Side : OnWire(s)' \subseteq OnWire(s) \cup new
      BY <1>3
    <2> HIDE DEF new
    <2> QED BY <1>1, <1>4, <2>1, WireKept
  <1> QED BY <1>1, <1>3, <1>4, <1>5, Assemble

LEMMA ReadServiceAcceptInv ==
    ASSUME AuthInv, ReadServiceAccept
    PROVE  AuthInv'
  <1>1. /\ Typed(wire) /\ WireOK /\ handler \in Handler /\ Reads("client", "service_accept")
        /\ wire["client"] # <<>>
    BY HeadWire DEF AuthInv, TypeOK, Typed, HandlerTypes, ReadServiceAccept, Reads
  <1>2. UNCHANGED <<scenario, pc, call, handler, outcome, opened, server, history>>
    BY DEF ReadServiceAccept
  <1>3. HandlerOK' /\ ClientAgrees'
    BY <1>2 DEF AuthInv, HandlerOK, ClientAgrees, history, server
  <1>4. CASE accepted' = TRUE /\ Consume("client")
             /\ UNCHANGED <<active, fired, saved_exception>>
    <2>1. HandlerTypes' /\ ExceptionOK'
      BY <1>2, <1>4 DEF AuthInv, TypeOK, HandlerTypes, ExceptionOK, history
    <2> QED BY <1>1, <1>2, <1>3, <1>4, <2>1, ClientReadStep DEF history
  <1>5. CASE /\ handler.user # "unset"
             /\ Reply("client", Request(handler.num, handler.user, handler.method))
             /\ UNCHANGED <<active, fired, saved_exception, accepted>>
    <2>1. /\ handler.num \in Attempts \cup {0} /\ handler.user \in Users \cup {"unset"}
          /\ handler.method \in Method \cup {"unset"}
          /\ handler.num \in 1 .. call.num /\ asked[handler.num] = handler.user
      BY <1>1, <1>5 DEF Handler, AuthInv, HandlerOK
    <2>2. PICK m \in Msg :
             /\ m = Request(handler.num, handler.user, handler.method)
             /\ m.type = "request" /\ m.num = handler.num /\ m.user = handler.user
      BY <2>1, RequestFacts
    <2>3. Reply("client", m)
      BY <1>5, <2>2
    <2>4. PacketOK(m)'
      <3>1. call' = call /\ asked' = asked
        BY <1>2 DEF history
      <3>2. m.num \in 1 .. call'.num /\ m.user # "unset" /\ asked'[m.num] = m.user
        BY <1>5, <2>1, <2>2, <3>1
      <3> QED BY <2>2, <3>2 DEF PacketOK
    <2>5. HandlerTypes'
      BY <1>2, <1>5 DEF AuthInv, TypeOK, HandlerTypes, history
    <2> QED BY <1>1, <1>2, <1>3, <1>5, <2>2, <2>3, <2>4, <2>5, ClientReplyStep DEF history
  <1>6. CASE Consume("client") /\ EndClient(SessionEnd) /\ UNCHANGED accepted
    <2>1. Typed(wire') /\ \A s \in Side : OnWire(s)' \subseteq OnWire(s)
      BY <1>1, <1>6, ConsumeWire DEF Side
    <2> QED BY <1>2, <1>6, <2>1, EndTyped, EndClientStep
  <1> QED BY <1>4, <1>5, <1>6 DEF ReadServiceAccept

\* Success is believed because it is true of the packet.
LEMMA ReadSuccessInv ==
    ASSUME AuthInv, ReadSuccess
    PROVE  AuthInv'
  <1>1. /\ Typed(wire) /\ WireOK /\ handler \in Handler /\ HandlerTypes
        /\ Reads("client", "success") /\ call \in Call
    BY DEF AuthInv, TypeOK, Typed, HandlerTypes, AttemptTypes, ReadSuccess
  <1>2. PICK m \in Msg : /\ m = Head(wire["client"])
                         /\ m.type = "success" /\ PacketOK(m)
    BY <1>1, HeadWire DEF Side
  <1>3. authenticated /\ m.num \in Attempts
    BY <1>1, <1>2, PacketAbout DEF PacketOK
  <1>4. handler' = [handler EXCEPT !.authenticated = TRUE]
    BY DEF ReadSuccess
  <1>5. handler' \in Handler /\ handler'.num = handler.num /\ handler'.user = handler.user
    BY <1>1, <1>4 DEF Handler
  <1>6. fired' \in SUBSET Attempts /\ handled' \in SUBSET Attempts
    BY <1>1, <1>2, <1>3, FiredTyped DEF ReadSuccess, Trigger, HandlerTypes
  <1>7. HandlerTypes'
    BY <1>1, <1>5, <1>6 DEF ReadSuccess, HandlerTypes
  <1>8. HandlerOK' /\ ExceptionOK'
    BY <1>5 DEF AuthInv, HandlerOK, ExceptionOK, ReadSuccess
  <1>9. ClientAgrees'
    BY <1>3 DEF ClientAgrees, ReadSuccess, server
  <1> QED BY <1>1, <1>7, <1>8, <1>9, ClientReadStep DEF ReadSuccess

LEMMA ReadFailureInv ==
    ASSUME AuthInv, ReadFailure
    PROVE  AuthInv'
  <1>1. /\ Typed(wire) /\ WireOK /\ handler \in Handler /\ HandlerTypes
        /\ Reads("client", "failure") /\ call \in Call
    BY DEF AuthInv, TypeOK, Typed, HandlerTypes, AttemptTypes, ReadFailure
  <1>2. PICK m \in Msg : /\ m = Head(wire["client"])
                         /\ m.type = "failure" /\ PacketOK(m)
    BY <1>1, HeadWire DEF Side
  <1>3. m.num \in Attempts
    BY <1>1, <1>2, PacketAbout DEF PacketOK
  <1>4. handler' = [handler EXCEPT !.authenticated = FALSE, !.user = "unset"]
    BY DEF ReadFailure
  <1>5. /\ handler' \in Handler /\ handler'.num = handler.num /\ handler'.user = "unset"
        /\ handler'.authenticated = FALSE
    BY <1>1, <1>4 DEF Handler
  <1>6. fired' \in SUBSET Attempts /\ handled' \in SUBSET Attempts
    BY <1>1, <1>2, <1>3, FiredTyped DEF ReadFailure, Trigger, HandlerTypes
  <1>7. saved_exception' \in Exception
        /\ (saved_exception' = saved_exception \/ saved_exception'.kind \in {"bad", "partial"})
    BY <1>1, <1>2, <1>3 DEF ReadFailure, HandlerTypes, Exception, Msg
  <1>8. HandlerTypes'
    BY <1>1, <1>5, <1>6, <1>7 DEF ReadFailure, HandlerTypes
  <1>9. HandlerOK' /\ ExceptionOK'
    BY <1>5, <1>7 DEF AuthInv, HandlerOK, ExceptionOK, ReadFailure
  <1>10. ClientAgrees'
    BY <1>5 DEF AuthInv, ClientAgrees, ReadFailure, server
  <1> QED BY <1>1, <1>8, <1>9, <1>10, ClientReadStep DEF ReadFailure

LEMMA ReadInfoRequestInv ==
    ASSUME AuthInv, ReadInfoRequest
    PROVE  AuthInv'
  <1>1. /\ Typed(wire) /\ WireOK /\ Reads("client", "info_request") /\ call \in Call
        /\ wire["client"] # <<>>
    BY DEF AuthInv, TypeOK, Typed, AttemptTypes, ReadInfoRequest, Reads
  <1>2. UNCHANGED <<scenario, pc, call, handler, accepted, outcome, opened, server, history>>
    BY DEF ReadInfoRequest
  <1>3. HandlerOK' /\ ClientAgrees'
    BY <1>2 DEF AuthInv, HandlerOK, ClientAgrees, history, server
  <1>4. PICK h \in Msg : /\ h = Head(wire["client"])
                         /\ h.type = "info_request" /\ PacketOK(h)
    BY <1>1, HeadWire DEF Side
  <1>5. h.num \in Attempts /\ h.num \in 1 .. call.num /\ auth_username # "unset"
        /\ asked[h.num] = auth_username
    BY <1>1, <1>4, PacketAbout DEF PacketOK
  <1>6. CASE /\ Reply("client", Packet("info_response", h.num))
             /\ UNCHANGED <<active, fired, saved_exception>>
    <2>1. PICK m \in Msg : /\ m = Packet("info_response", h.num)
                           /\ m.type = "info_response" /\ m.num = h.num
      BY <1>5, PacketFacts DEF MsgType
    <2>2. Reply("client", m)
      BY <1>6, <2>1
    <2>3. PacketOK(m)'
      <3>1. call' = call /\ asked' = asked /\ auth_username' = auth_username
        BY <1>2 DEF history, server
      <3>2. m.num \in 1 .. call'.num /\ auth_username' # "unset"
            /\ asked'[m.num] = auth_username'
        BY <1>5, <2>1, <3>1
      <3> QED BY <2>1, <3>2 DEF PacketOK
    <2>4. HandlerTypes'
      BY <1>2, <1>6 DEF AuthInv, TypeOK, HandlerTypes, history
    <2> QED BY <1>1, <1>2, <1>3, <1>6, <2>1, <2>2, <2>3, <2>4, ClientReplyStep DEF history
  <1>7. CASE Consume("client") /\ EndClient(SessionEnd)
    <2>1. Typed(wire') /\ \A s \in Side : OnWire(s)' \subseteq OnWire(s)
      BY <1>1, <1>7, ConsumeWire DEF Side
    <2> QED BY <1>2, <1>7, <2>1, EndTyped, EndClientStep
  <1> QED BY <1>4, <1>6, <1>7 DEF ReadInfoRequest

-----------------------------------------------------------------------------
(* The transport thread of the server *)

\* A step of the server that puts the packets of "new" on the wire.
LEMMA ServerStep ==
    ASSUME AuthInv, NEW new, Typed(wire'),
           \A s \in Side : OnWire(s)' \subseteq OnWire(s) \cup new,
           \A m \in new : PacketOK(m)',
           active' \in [Side -> BOOLEAN], active'["client"] = active["client"],
           UNCHANGED <<scenario, client, asked, handled>>,
           auth_username # "unset" => auth_username' = auth_username,
           authenticated => authenticated',
           ServerTypes', LimitOK', VerdictOK', GrantOK'
    PROVE  AuthInv'
  <1>1. /\ scenario' \in Scenarios /\ AttemptTypes' /\ HandlerTypes' /\ Stable
        /\ CallOK' /\ HandlerOK' /\ ExceptionOK' /\ ClientAgrees'
    BY ServerThreadKeeps
  <1>2. WireOK'
    BY <1>1, WireKept DEF AuthInv, TypeOK, Typed
  <1> QED BY <1>1, <1>2, Assemble

LEMMA ServerEofInv ==
    ASSUME AuthInv, SeesEof("server")
    PROVE  AuthInv'
  <1>1. /\ active' = [active EXCEPT !["server"] = FALSE]
        /\ UNCHANGED <<scenario, wire, client, server, history>>
    BY DEF SeesEof, client
  <1>2. /\ active' \in [Side -> BOOLEAN] /\ active'["client"] = active["client"]
        /\ active'["server"] = FALSE
    BY <1>1 DEF AuthInv, TypeOK, Side
  <1>3. ServerTypes' /\ LimitOK' /\ VerdictOK' /\ GrantOK'
    <2>1. ServerTypes'
      BY <1>1 DEF AuthInv, TypeOK, ServerTypes, server, history
    <2>2. VerdictOK'
      BY <1>1 DEF AuthInv, VerdictOK, server, history, client
    <2>3. LimitOK' /\ GrantOK'
      BY <1>1, <1>2 DEF AuthInv, LimitOK, GrantOK, server, history
    <2> QED BY <2>1, <2>2, <2>3
  <1> DEFINE new == {}
  <1>4. /\ Typed(wire')
        /\ \A m \in new : PacketOK(m)'
        /\ \A s \in Side : OnWire(s)' \subseteq OnWire(s) \cup new
    BY <1>1 DEF OnWire, AuthInv, TypeOK, Typed
  <1> HIDE DEF new
  <1>5. UNCHANGED <<scenario, client, asked, handled, auth_username, authenticated>>
    BY <1>1 DEF history, server
  <1> QED BY <1>2, <1>3, <1>4, <1>5, ServerStep

\* A packet is handled that changes nothing but the wire.
LEMMA ReadServiceRequestInv ==
    ASSUME AuthInv, ReadServiceRequest
    PROVE  AuthInv'
  <1>1. /\ Typed(wire) /\ WireOK /\ Reads("server", "service_request") /\ call \in Call
        /\ wire["server"] # <<>>
    BY DEF AuthInv, TypeOK, Typed, AttemptTypes, ReadServiceRequest, Reads
  <1>2. UNCHANGED <<scenario, active, client, server, history>>
    BY DEF ReadServiceRequest
  <1>3. PICK h \in Msg : /\ h = Head(wire["server"])
                         /\ h.type = "service_request" /\ PacketOK(h)
    BY <1>1, HeadWire DEF Side
  <1>4. h.num \in Attempts /\ h.num \in 1 .. call.num
    BY <1>1, <1>3, PacketAbout
  <1>5. PICK m \in Msg : /\ m = Packet("service_accept", h.num)
                         /\ m.type = "service_accept" /\ m.num = h.num
    BY <1>4, PacketFacts DEF MsgType
  <1>6. Reply("server", m)
    BY <1>3, <1>5 DEF ReadServiceRequest
  <1>7. Typed(wire') /\ \A s \in Side : OnWire(s)' \subseteq OnWire(s) \cup {m}
    BY <1>1, <1>6, ReplyWire DEF Side
  <1>8. PacketOK(m)'
    <2>1. call' = call
      BY <1>2 DEF client
    <2> QED BY <1>4, <1>5, <2>1 DEF PacketOK
  <1>9. ServerTypes' /\ LimitOK' /\ VerdictOK' /\ GrantOK'
    <2>1. ServerTypes'
      BY <1>2 DEF AuthInv, TypeOK, ServerTypes, server, history
    <2>2. VerdictOK'
      BY <1>2 DEF AuthInv, VerdictOK, server, history, client
    <2>3. LimitOK' /\ GrantOK'
      BY <1>2 DEF AuthInv, LimitOK, GrantOK, server, history
    <2> QED BY <2>1, <2>2, <2>3
  <1>10. active' \in [Side -> BOOLEAN]
    BY <1>2 DEF AuthInv, TypeOK
  <1> DEFINE new == {m}
  <1>11. /\ \A x \in new : PacketOK(x)'
         /\ \A s \in Side : OnWire(s)' \subseteq OnWire(s) \cup new
    BY <1>7, <1>8
  <1> HIDE DEF new
  <1> QED BY <1>2, <1>7, <1>9, <1>10, <1>11, ServerStep DEF history, server

LEMMA ReadOpenInv ==
    ASSUME AuthInv, ReadOpen
    PROVE  AuthInv'
  <1>1. Typed(wire) /\ wire["server"] # <<>>
    BY DEF AuthInv, TypeOK, Typed, ReadOpen, Reads
  <1>2. Typed(wire') /\ \A s \in Side : OnWire(s)' \subseteq OnWire(s)
    BY <1>1, ConsumeWire DEF ReadOpen, Side
  <1>3. /\ UNCHANGED <<scenario, active, client, server, asked, verdict, evaluated, handled>>
        /\ served' = authenticated
    BY DEF ReadOpen
  <1>4. ServerTypes' /\ LimitOK' /\ VerdictOK' /\ GrantOK'
    <2>1. ServerTypes'
      BY <1>3 DEF AuthInv, TypeOK, ServerTypes, server
    <2>2. VerdictOK'
      BY <1>3 DEF AuthInv, VerdictOK, server, client
    <2>3. LimitOK' /\ GrantOK'
      BY <1>3 DEF AuthInv, LimitOK, GrantOK, server
    <2> QED BY <2>1, <2>2, <2>3
  <1>5. active' \in [Side -> BOOLEAN]
    BY <1>3 DEF AuthInv, TypeOK
  <1> DEFINE new == {}
  <1>6. /\ \A x \in new : PacketOK(x)'
        /\ \A s \in Side : OnWire(s)' \subseteq OnWire(s) \cup new
    BY <1>2
  <1> HIDE DEF new
  <1> QED BY <1>2, <1>3, <1>4, <1>5, <1>6, ServerStep DEF server

\* The disconnection after a failure too many is a packet like others.
LEMMA Answers ==
    ASSUME NEW m \in Msg, PacketOK(m)', NEW over,
           over \in {<<>>, <<Packet("disconnect", 0)>>}
    PROVE  LET ms == <<m>> \o over
           IN  ms \in Seq(Msg) /\ \A x \in {ms[i] : i \in 1 .. Len(ms)} : PacketOK(x)'
  <1>1. PICK d \in Msg : d = Packet("disconnect", 0) /\ d.type = "disconnect"
    BY PacketFacts DEF MsgType
  <1>2. PacketOK(d)'
    BY <1>1 DEF PacketOK
  <1> DEFINE ms == <<m>> \o over
  <1>3. over \in Seq(Msg) /\ \A i \in 1 .. Len(over) : over[i] = d
    <2>1. CASE over = <<>>
      BY <2>1
    <2>2. CASE over = <<d>>
      BY <2>2
    <2> QED BY <1>1, <2>1, <2>2
  <1>4. ms \in Seq(Msg) /\ \A i \in 1 .. Len(ms) : ms[i] \in {m, d}
    BY <1>3
  <1> HIDE DEF ms
  <1>5. \A x \in {ms[i] : i \in 1 .. Len(ms)} : PacketOK(x)'
    BY <1>2, <1>4
  <1> QED BY <1>4, <1>5 DEF ms

\* The verdict on an attempt of the user whose name the server has noted.
LEMMA SendAuthResultInv ==
    ASSUME AuthInv, NEW n \in Attempts, n \in 1 .. call.num, NEW v \in Verdict,
           wire["server"] # <<>>, active["server"], SendAuthResult(n, v),
           UNCHANGED <<scenario, client>>,
           auth_username' \in Users, asked[n] = auth_username',
           auth_username # "unset" => auth_username' = auth_username
    PROVE  AuthInv'
  <1> DEFINE fails == auth_fail_count + (IF v = "failed" THEN 1 ELSE 0)
             over == IF fails >= FailLimit THEN <<Packet("disconnect", 0)>> ELSE <<>>
  <1>1. /\ TypeOK /\ ServerTypes /\ Typed(wire) /\ auth_username' # "unset"
        /\ auth_fail_count < FailLimit /\ auth_fail_count \in Nat /\ FailLimit \in Nat
    BY AuthAssumption DEF AuthInv, TypeOK, Typed, ServerTypes, LimitOK
  <1>2. fails \in 0 .. FailLimit
    BY <1>1
  <1>3. /\ verdict' = [verdict EXCEPT ![n] = @ \cup {v}]
        /\ evaluated' = [evaluated EXCEPT ![n] = @ + 1]
        /\ auth_fail_count' = fails
        /\ active' = [active EXCEPT !["server"] = fails < FailLimit]
        /\ UNCHANGED <<queries, asked, handled, served>>
    BY DEF SendAuthResult
  <1>4. authenticated' = (authenticated \/ v = "success")
    BY DEF SendAuthResult
  <1>5. call' = call
    BY DEF client
  <1>6. PICK m \in Msg : /\ m.type \in {"success", "failure"} /\ m.num = n
                         /\ m.type = "success" => v = "success"
                         /\ ReplyAll("server", <<m>> \o over)
    <2>1. CASE ReplyAll("server", <<Packet("success", n)>> \o over) /\ v = "success"
      <3> HIDE DEF over
      <3>1. PICK m \in Msg : m = Packet("success", n) /\ m.type = "success" /\ m.num = n
        BY PacketFacts DEF MsgType
      <3> QED BY <2>1, <3>1
    <2>2. ASSUME NEW permitted \in BOOLEAN, NEW fallback \in BOOLEAN,
                 ReplyAll("server", <<Failure(n, v = "partial", permitted, fallback)>> \o over)
          PROVE  \E m \in Msg : /\ m.type \in {"success", "failure"} /\ m.num = n
                                /\ m.type = "success" => v = "success"
                                /\ ReplyAll("server", <<m>> \o over)
      <3> HIDE DEF over
      <3>1. PICK b \in BOOLEAN : b = (v = "partial")
        OBVIOUS
      <3>2. PICK m \in Msg : /\ m = Failure(n, b, permitted, fallback)
                             /\ m.type = "failure" /\ m.num = n
        BY FailureFacts
      <3>3. ReplyAll("server", <<m>> \o over)
        BY <2>2, <3>1, <3>2
      <3> QED BY <3>2, <3>3
    <2> QED BY <2>1, <2>2 DEF SendAuthResult
  <1>7. PacketOK(m)'
    <2>1. m.type = "success" => authenticated'
      BY <1>4, <1>6
    <2> QED BY <1>5, <1>6, <2>1 DEF PacketOK
  <1>8. PICK o : o = over /\ o \in {<<>>, <<Packet("disconnect", 0)>>}
    OBVIOUS
  <1> HIDE DEF over
  <1>9. PICK ms : ms = <<m>> \o o
    OBVIOUS
  <1>10. ms \in Seq(Msg) /\ \A x \in {ms[i] : i \in 1 .. Len(ms)} : PacketOK(x)'
    BY <1>7, <1>8, <1>9, Answers
  <1>11. ReplyAll("server", ms)
    BY <1>6, <1>8, <1>9
  <1>12. /\ Typed(wire')
         /\ \A s \in Side : OnWire(s)' \subseteq OnWire(s) \cup {ms[i] : i \in 1 .. Len(ms)}
    BY <1>1, <1>10, <1>11, ReplyAllWire DEF Side
  <1>13. /\ active' \in [Side -> BOOLEAN] /\ active'["client"] = active["client"]
         /\ active'["server"] = (fails < FailLimit)
    BY <1>1, <1>3 DEF TypeOK, Side
  <1>14. LimitOK'
    BY <1>3, <1>13 DEF LimitOK
  <1>15. /\ verdict' \in [Attempts -> SUBSET Verdict]
         /\ evaluated' \in [Attempts -> Nat]
         /\ v \in verdict'[n]
         /\ \A k \in Attempts : verdict[k] \subseteq verdict'[k]
         /\ \A k \in Attempts : k # n => verdict'[k] = verdict[k]
    BY <1>1, <1>3 DEF ServerTypes
  <1>16. ServerTypes'
    <2>1. authenticated' \in BOOLEAN
      BY <1>4
    <2> HIDE DEF fails
    <2> QED BY <1>1, <1>2, <1>3, <1>15, <2>1 DEF ServerTypes
  <1>17. VerdictOK'
    <2> SUFFICES ASSUME NEW k \in Attempts, verdict'[k] # {}
                 PROVE  k <= call'.num /\ auth_username' # "unset" /\ asked'[k] = auth_username'
      BY DEF VerdictOK
    <2>1. CASE k = n
      BY <1>1, <1>3, <1>5, <2>1
    <2>2. CASE k # n
      <3>1. verdict[k] # {}
        BY <1>15, <2>2
      <3>2. k <= call.num /\ auth_username # "unset" /\ asked[k] = auth_username
        BY <3>1 DEF AuthInv, VerdictOK
      <3> QED BY <1>3, <1>5, <3>2
    <2> QED BY <2>1, <2>2
  <1>18. GrantOK'
    <2>1. served' => authenticated'
      BY <1>3, <1>4 DEF AuthInv, GrantOK
    <2>2. ASSUME authenticated'
          PROVE  \E k \in Attempts : "success" \in verdict'[k]
      <3>1. CASE v = "success"
        BY <1>15, <3>1
      <3>2. CASE authenticated
        BY <1>15, <3>2 DEF AuthInv, GrantOK
      <3> QED BY <1>4, <2>2, <3>1, <3>2
    <2> QED BY <2>1, <2>2 DEF GrantOK
  <1>19. authenticated => authenticated'
    BY <1>4
  <1> DEFINE new == {ms[i] : i \in 1 .. Len(ms)}
  <1>20. /\ \A x \in new : PacketOK(x)'
         /\ \A s \in Side : OnWire(s)' \subseteq OnWire(s) \cup new
    BY <1>10, <1>12
  <1> HIDE DEF new
  <1>21. UNCHANGED <<scenario, client, asked, handled>>
    BY <1>3
  <1> QED BY <1>12, <1>13, <1>14, <1>16, <1>17, <1>18, <1>19, <1>20, <1>21, ServerStep

\* The server answers with packet m, and its verdicts stay as they are.
LEMMA ServerReplyStep ==
    ASSUME AuthInv, NEW m \in Msg, Reply("server", m), PacketOK(m)',
           wire["server"] # <<>>, UNCHANGED <<scenario, client, history>>,
           active' \in [Side -> BOOLEAN], active'["client"] = active["client"],
           active'["server"] => active["server"],
           authenticated' = authenticated, auth_fail_count' = auth_fail_count,
           queries' \in 0 .. MaxQueries, auth_username' \in Users \cup {"unset"},
           auth_username # "unset" => auth_username' = auth_username
    PROVE  AuthInv'
  <1>1. Typed(wire)
    BY DEF AuthInv, TypeOK, Typed
  <1>2. Typed(wire') /\ \A s \in Side : OnWire(s)' \subseteq OnWire(s) \cup {m}
    BY <1>1, ReplyWire DEF Side
  <1>3. ServerTypes'
    BY DEF AuthInv, TypeOK, ServerTypes, history
  <1>4. LimitOK'
    BY DEF AuthInv, LimitOK
  <1>5. VerdictOK'
    BY DEF AuthInv, VerdictOK, history, client
  <1>6. GrantOK'
    BY DEF AuthInv, GrantOK, history
  <1> DEFINE new == {m}
  <1>7. /\ \A x \in new : PacketOK(x)'
        /\ \A s \in Side : OnWire(s)' \subseteq OnWire(s) \cup new
    BY <1>2
  <1> HIDE DEF new
  <1>8. UNCHANGED <<scenario, client, asked, handled>>
    BY DEF history
  <1> QED BY <1>2, <1>3, <1>4, <1>5, <1>6, <1>7, <1>8, ServerStep

\* A question is asked about attempt n, of the user noted.
LEMMA InteractiveQueryInv ==
    ASSUME AuthInv, NEW n \in Attempts, n \in 1 .. call.num, InteractiveQuery(n),
           wire["server"] # <<>>, UNCHANGED <<scenario, client>>,
           auth_username' \in Users, asked[n] = auth_username',
           auth_username # "unset" => auth_username' = auth_username
    PROVE  AuthInv'
  <1>1. PICK m \in Msg : /\ m = Packet("info_request", n)
                         /\ m.type = "info_request" /\ m.num = n
    BY PacketFacts DEF MsgType
  <1>2. Reply("server", m)
    BY <1>1 DEF InteractiveQuery
  <1>3. auth_username' # "unset" /\ call' = call /\ asked' = asked
    BY AuthAssumption DEF InteractiveQuery, client, history
  <1>4. PacketOK(m)'
    BY <1>1, <1>3 DEF PacketOK
  <1>5. queries' \in 0 .. MaxQueries
    BY AuthAssumption DEF InteractiveQuery, AuthInv, TypeOK, ServerTypes
  <1>6. /\ UNCHANGED <<active, authenticated, auth_fail_count, history>>
        /\ active' \in [Side -> BOOLEAN]
    BY DEF InteractiveQuery, AuthInv, TypeOK
  <1> QED BY <1>2, <1>4, <1>5, <1>6, ServerReplyStep

LEMMA DisconnectInv ==
    ASSUME AuthInv, DisconnectNoMoreAuth, wire["server"] # <<>>,
           UNCHANGED <<scenario, client>>, auth_username' \in Users \cup {"unset"},
           auth_username # "unset" => auth_username' = auth_username
    PROVE  AuthInv'
  <1>1. PICK m \in Msg : m = Packet("disconnect", 0) /\ m.type = "disconnect"
    BY PacketFacts DEF MsgType
  <1>2. Reply("server", m)
    BY <1>1 DEF DisconnectNoMoreAuth
  <1>3. PacketOK(m)'
    BY <1>1 DEF PacketOK
  <1>4. /\ UNCHANGED <<authenticated, auth_fail_count, history>>
        /\ queries' \in 0 .. MaxQueries
    BY DEF DisconnectNoMoreAuth, AuthInv, TypeOK, ServerTypes
  <1>5. /\ active' \in [Side -> BOOLEAN] /\ active'["client"] = active["client"]
        /\ active'["server"] = FALSE
    BY DEF DisconnectNoMoreAuth, AuthInv, TypeOK, Side
  <1> QED BY <1>2, <1>3, <1>4, <1>5, ServerReplyStep

LEMMA ReadRequestInv ==
    ASSUME AuthInv, ReadRequest
    PROVE  AuthInv'
  <1>1. /\ Typed(wire) /\ WireOK /\ Reads("server", "request") /\ call \in Call
        /\ ServerTypes /\ wire["server"] # <<>> /\ active["server"]
        /\ UNCHANGED <<scenario, client>>
    BY DEF AuthInv, TypeOK, Typed, AttemptTypes, ReadRequest, Reads
  <1>2. PICK h \in Msg : /\ h = Head(wire["server"])
                         /\ h.type = "request" /\ PacketOK(h)
    BY <1>1, HeadWire DEF Side
  <1>3. /\ h.num \in Attempts /\ h.num \in 1 .. call.num
        /\ h.user # "unset" /\ asked[h.num] = h.user /\ h.user \in Users
    <2>1. h.user \in Users \cup {"unset"}
      BY DEF Msg
    <2> QED BY <1>1, <1>2, <2>1, PacketAbout DEF PacketOK
  <1>4. CASE Consume("server") /\ UNCHANGED <<active, server, history>>
    <2>1. Typed(wire') /\ \A s \in Side : OnWire(s)' \subseteq OnWire(s)
      BY <1>1, <1>4, ConsumeWire DEF Side
    <2> DEFINE new == {}
    <2>2. /\ \A x \in new : PacketOK(x)'
          /\ \A s \in Side : OnWire(s)' \subseteq OnWire(s) \cup new
      BY <2>1
    <2> HIDE DEF new
    <2>3. ServerTypes'
      BY <1>1, <1>4 DEF ServerTypes, server, history
    <2>4. VerdictOK'
      BY <1>1, <1>4 DEF AuthInv, VerdictOK, server, history, client
    <2>5. LimitOK' /\ GrantOK'
      BY <1>4 DEF AuthInv, LimitOK, GrantOK, server, history
    <2>6. /\ active' \in [Side -> BOOLEAN] /\ active' = active
          /\ UNCHANGED <<asked, handled, auth_username, authenticated>>
      BY <1>4 DEF AuthInv, TypeOK, server, history
    <2> QED BY <1>1, <2>1, <2>2, <2>3, <2>4, <2>5, <2>6, ServerStep
  <1>5. CASE DisconnectNoMoreAuth /\ UNCHANGED auth_username
    BY <1>1, <1>5, DisconnectInv DEF ServerTypes
  <1>6. CASE auth_username \in {"unset", h.user} /\ auth_username' = h.user
    <2>1. /\ auth_username' \in Users /\ asked[h.num] = auth_username'
          /\ auth_username # "unset" => auth_username' = auth_username
      BY <1>3, <1>6
    <2>2. ASSUME NEW v \in Verdict, SendAuthResult(h.num, v)
          PROVE  AuthInv'
      BY <1>1, <1>3, <2>1, <2>2, SendAuthResultInv
    <2>3. CASE DisconnectNoMoreAuth
      BY <1>1, <2>1, <2>3, DisconnectInv
    <2>4. CASE InteractiveQuery(h.num)
      BY <1>1, <1>3, <2>1, <2>4, InteractiveQueryInv
    <2>5. CASE authenticated \/ auth_username \notin {"unset", h.user}
      BY <1>2, <1>4, <1>5, <1>6, <2>5 DEF ReadRequest
    <2> QED BY <1>2, <2>2, <2>3, <2>4, <2>5 DEF ReadRequest
  <1> QED BY <1>2, <1>4, <1>5, <1>6 DEF ReadRequest

LEMMA ReadInfoResponseInv ==
    ASSUME AuthInv, ReadInfoResponse
    PROVE  AuthInv'
  <1>1. /\ Typed(wire) /\ WireOK /\ Reads("server", "info_response") /\ call \in Call
        /\ ServerTypes /\ wire["server"] # <<>> /\ active["server"]
        /\ UNCHANGED <<scenario, client, auth_username>>
    BY DEF AuthInv, TypeOK, Typed, AttemptTypes, ReadInfoResponse, Reads
  <1>2. PICK h \in Msg : /\ h = Head(wire["server"])
                         /\ h.type = "info_response" /\ PacketOK(h)
    BY <1>1, HeadWire DEF Side
  <1>3. /\ h.num \in Attempts /\ h.num \in 1 .. call.num
        /\ asked[h.num] = auth_username' /\ auth_username' \in Users
    BY <1>1, <1>2, PacketAbout DEF PacketOK, ServerTypes
  <1>4. ASSUME NEW v \in Verdict, SendAuthResult(h.num, v)
        PROVE  AuthInv'
    BY <1>1, <1>3, <1>4, SendAuthResultInv
  <1>5. CASE InteractiveQuery(h.num)
    BY <1>1, <1>3, <1>5, InteractiveQueryInv
  <1> QED BY <1>2, <1>4, <1>5 DEF ReadInfoResponse
-----------------------------------------------------------------------------
(* The theorems *)

LEMMA InitInv ==
    ASSUME Init
    PROVE  AuthInv
  <1>1. TypeOK
    <2>1. AttemptTypes
      BY DEF Init, AttemptTypes, Call
    <2>2. HandlerTypes
      BY DEF Init, HandlerTypes, Handler, NewHandler, Exception, NoException
    <2>3. ServerTypes
      <3>1. 0 \in 0 .. FailLimit /\ 0 \in 0 .. MaxQueries
        BY AuthAssumption
      <3>2. /\ verdict \in [Attempts -> SUBSET Verdict]
            /\ evaluated \in [Attempts -> Nat]
        BY DEF Init
      <3> QED BY <3>1, <3>2 DEF Init, ServerTypes
    <2> QED BY <2>1, <2>2, <2>3 DEF Init, TypeOK
  <1>2. WireOK
    BY DEF Init, WireOK, OnWire
  <1>3. CallOK /\ HandlerOK
    BY DEF Init, CallOK, HandlerOK, NewHandler
  <1>4. ExceptionOK /\ LimitOK
    BY AuthAssumption DEF Init, ExceptionOK, LimitOK, NoException
  <1>5. VerdictOK /\ GrantOK /\ ClientAgrees
    BY DEF Init, VerdictOK, GrantOK, ClientAgrees, NewHandler
  <1> QED BY <1>1, <1>2, <1>3, <1>4, <1>5 DEF AuthInv

LEMMA NextInv ==
    ASSUME AuthInv, [Next]_vars
    PROVE  AuthInv'
  <1>1. CASE ClientThread
    <2>1. CASE EndRun("client")
      BY <2>1, ClientEofInv DEF EndRun
    <2> QED BY <1>1, <2>1, ReadDisconnectInv, ReadServiceAcceptInv, ReadSuccessInv,
               ReadFailureInv, ReadInfoRequestInv DEF ClientThread
  <1>2. CASE ServerThread
    <2>1. CASE EndRun("server")
      BY <2>1, ServerEofInv DEF EndRun
    <2> QED BY <1>2, <2>1, ReadServiceRequestInv, ReadRequestInv, ReadInfoResponseInv,
               ReadOpenInv DEF ServerThread
  <1>3. CASE AttemptGoesOn
    BY <1>3, CreateInv, RequestAuthInv, EnsureSessionInv, ServiceAwaitedInv,
       SendAuthRequestInv, NewEventInv, SessionGoneInv, WaitEndedInv, WaitTimeoutInv,
       WaitSuccessInv, WaitFailureInv DEF AttemptGoesOn
  <1>4. CASE Open
    BY <1>4, OpenInv
  <1>5. ASSUME NEW s \in Side, Lose(s)
        PROVE  AuthInv'
    <2>1. SeesEof(s) /\ s \in {"client", "server"}
      BY <1>5 DEF Lose, Side
    <2> QED BY <2>1, ClientEofInv, ServerEofInv
  <1>6. ASSUME NEW m \in Method, NEW u \in Users, Begin(m, u)
        PROVE  AuthInv'
    BY <1>6, BeginInv
  <1>7. CASE UNCHANGED vars
    BY <1>7 DEF vars, client, server, history, AuthInv, TypeOK, AttemptTypes,
       HandlerTypes, ServerTypes, WireOK, OnWire, PacketOK, CallOK, HandlerOK,
       ExceptionOK, LimitOK, VerdictOK, GrantOK, ClientAgrees
  <1> QED BY <1>1, <1>2, <1>3, <1>4, <1>5, <1>6, <1>7 DEF Next

LEMMA Invariance == Spec => []AuthInv
  <1>1. Init => AuthInv
    BY InitInv
  <1>2. AuthInv /\ [Next]_vars => AuthInv'
    BY NextInv
  <1> QED BY <1>1, <1>2, PTL DEF Spec

\* The state of an authentication is well typed: every answer that is handled
\* is about an attempt, the server never counts failures beyond the limit, and
\* no attempt ends with the exception of the transport thread while the session
\* is alive.
THEOREM AuthTypeCorrect == Spec => []TypeOK
  <1>1. AuthInv => TypeOK
    BY DEF AuthInv
  <1> QED BY <1>1, Invariance, PTL

\* However packets are delayed and attempts given up, a channel is opened only
\* after a success, and everything the server judged in the session was for one
\* user.
THEOREM OneUserGranted == Spec => []GrantedOnly
  <1>1. AuthInv => GrantedOnly
    BY DEF AuthInv, GrantOK, VerdictOK, GrantedOnly
  <1> QED BY <1>1, Invariance, PTL

\* A client that believes itself authenticated is: late answers to attempts it
\* has given up cannot make it believe more than the server granted.
THEOREM NoFalseSuccess == Spec => []ClientAgrees
  <1>1. AuthInv => ClientAgrees
    BY DEF AuthInv
  <1> QED BY <1>1, Invariance, PTL
-----------------------------------------------------------------------------
(* One packet at a time *)

\* A packet at a place of the wire, by its place.
LEMMA FlyingAt ==
    ASSUME NEW m
    PROVE  m \in Flying <=>
             m.type \in Talk /\ \E s \in Side : \E i \in 1 .. Len(wire[s]) : m = wire[s][i]
  BY DEF Flying, OnWire, Side

\* The same in the next state.
LEMMA FlyingNext ==
    ASSUME NEW m
    PROVE  m \in Flying' <=>
             m.type \in Talk /\ \E s \in Side : \E i \in 1 .. Len(wire'[s]) : m = wire'[s][i]
  BY DEF Flying, OnWire, Side

\* A packet about an attempt is sent while none is on its way.
LEMMA SendTalk ==
    ASSUME Typed(wire), NEW m \in Msg, Send("client", m), Flying = {}
    PROVE  OneFlies' /\ Flying' \subseteq {m}
  <1>1. wire' = [wire EXCEPT !["server"] = Append(@, m)]
    BY DEF Send, Peer
  <1>2. wire["client"] \in Seq(Msg) /\ wire["server"] \in Seq(Msg)
    BY DEF Typed, Side
  <1>3. /\ wire'["client"] = wire["client"]
        /\ Len(wire'["server"]) = Len(wire["server"]) + 1
        /\ wire'["server"][Len(wire["server"]) + 1] = m
        /\ \A i \in 1 .. Len(wire["server"]) : wire'["server"][i] = wire["server"][i]
    BY <1>1, <1>2 DEF Typed, Side
  <1>4. \A s \in Side : \A i \in 1 .. Len(wire[s]) : wire[s][i].type \notin Talk
    BY FlyingAt
  <1>5. ASSUME NEW s \in Side, NEW i \in 1 .. Len(wire'[s]), wire'[s][i].type \in Talk
        PROVE  s = "server" /\ i = Len(wire["server"]) + 1
    <2>1. CASE s = "client"
      BY <1>3, <1>4, <1>5, <2>1 DEF Side
    <2>2. CASE s = "server" /\ i # Len(wire["server"]) + 1
      <3>1. i \in 1 .. Len(wire["server"])
        BY <1>2, <1>3, <2>2
      <3> QED BY <1>3, <1>4, <1>5, <2>2, <3>1 DEF Side
    <2> QED BY <2>1, <2>2 DEF Side
  <1>6. OneFlies'
    BY <1>5 DEF OneFlies
  <1> QED BY <1>3, <1>5, <1>6, FlyingNext

\* Another packet is sent.
LEMMA SendOther ==
    ASSUME Typed(wire), NEW m \in Msg, m.type \notin Talk, Send("client", m), OneFlies
    PROVE  OneFlies' /\ Flying' \subseteq Flying
  <1>1. wire' = [wire EXCEPT !["server"] = Append(@, m)]
    BY DEF Send, Peer
  <1>2. wire["client"] \in Seq(Msg) /\ wire["server"] \in Seq(Msg)
    BY DEF Typed, Side
  <1>3. /\ wire'["client"] = wire["client"]
        /\ Len(wire'["server"]) = Len(wire["server"]) + 1
        /\ wire'["server"][Len(wire["server"]) + 1] = m
        /\ \A i \in 1 .. Len(wire["server"]) : wire'["server"][i] = wire["server"][i]
    BY <1>1, <1>2 DEF Typed, Side
  <1>4. ASSUME NEW s \in Side, NEW i \in 1 .. Len(wire'[s]), wire'[s][i].type \in Talk
        PROVE  i \in 1 .. Len(wire[s]) /\ wire[s][i] = wire'[s][i]
    <2>1. CASE s = "client"
      BY <1>3, <2>1
    <2>2. CASE s = "server"
      <3>1. i \in 1 .. Len(wire["server"])
        BY <1>2, <1>3, <1>4, <2>2
      <3> QED BY <1>3, <2>2, <3>1
    <2> QED BY <2>1, <2>2 DEF Side
  <1>5. OneFlies'
    <2> SUFFICES ASSUME NEW a \in Side, NEW b \in Side, NEW i \in 1 .. Len(wire'[a]),
                        NEW j \in 1 .. Len(wire'[b]),
                        wire'[a][i].type \in Talk, wire'[b][j].type \in Talk
                 PROVE  a = b /\ i = j
      BY DEF OneFlies
    <2>1. /\ i \in 1 .. Len(wire[a]) /\ wire[a][i].type \in Talk
          /\ j \in 1 .. Len(wire[b]) /\ wire[b][j].type \in Talk
      BY <1>4
    <2> QED BY <2>1 DEF OneFlies
  <1> QED BY <1>4, <1>5, FlyingNext, FlyingAt

\* A packet is taken from the wire.
LEMMA ConsumeFlies ==
    ASSUME Typed(wire), NEW s \in Side, wire[s] # <<>>, Consume(s), OneFlies
    PROVE  /\ OneFlies' /\ Flying' \subseteq Flying
           /\ Head(wire[s]).type \in Talk => Flying' = {}
  <1>1. wire' = [wire EXCEPT ![s] = Tail(@)] /\ wire[s] \in Seq(Msg)
    BY DEF Consume, Typed
  <1>2. /\ Len(wire'[s]) = Len(wire[s]) - 1 /\ Len(wire[s]) \in Nat /\ Len(wire[s]) >= 1
        /\ \A i \in 1 .. Len(wire'[s]) : wire'[s][i] = wire[s][i + 1]
        /\ \A t \in Side \ {s} : wire'[t] = wire[t]
        /\ Head(wire[s]) = wire[s][1]
    BY <1>1 DEF Typed
  <1>3. ASSUME NEW t \in Side, NEW i \in 1 .. Len(wire'[t])
        PROVE  \E j \in 1 .. Len(wire[t]) :
                  wire[t][j] = wire'[t][i] /\ j = IF t = s THEN i + 1 ELSE i
    <2>1. CASE t = s
      <3>1. i + 1 \in 1 .. Len(wire[s]) /\ wire'[s][i] = wire[s][i + 1]
        BY <1>2, <2>1
      <3> QED BY <2>1, <3>1
    <2>2. CASE t # s
      BY <1>2, <2>2
    <2> QED BY <2>1, <2>2
  <1>4. OneFlies'
    <2> SUFFICES ASSUME NEW a \in Side, NEW b \in Side, NEW i \in 1 .. Len(wire'[a]),
                        NEW j \in 1 .. Len(wire'[b]),
                        wire'[a][i].type \in Talk, wire'[b][j].type \in Talk
                 PROVE  a = b /\ i = j
      BY DEF OneFlies
    <2>1. PICK x \in 1 .. Len(wire[a]) : wire[a][x] = wire'[a][i] /\ x = IF a = s THEN i + 1 ELSE i
      BY <1>3
    <2>2. PICK y \in 1 .. Len(wire[b]) : wire[b][y] = wire'[b][j] /\ y = IF b = s THEN j + 1 ELSE j
      BY <1>3
    <2>3. a = b /\ x = y
      <3>1. wire[a][x].type \in Talk /\ wire[b][y].type \in Talk
        BY <2>1, <2>2
      <3> QED BY <3>1 DEF OneFlies
    <2>4. Len(wire'[a]) \in Nat /\ Len(wire'[b]) \in Nat
      BY <1>1, <1>2 DEF Typed
    <2> QED BY <2>1, <2>2, <2>3, <2>4
  <1>5. Flying' \subseteq Flying
    BY <1>3, FlyingNext, FlyingAt
  <1>6. ASSUME Head(wire[s]).type \in Talk, NEW m \in Flying'
        PROVE  FALSE
    <2>1. PICK t \in Side : \E i \in 1 .. Len(wire'[t]) : m = wire'[t][i] /\ m.type \in Talk
      BY <1>6, FlyingNext
    <2>2. PICK i \in 1 .. Len(wire'[t]) : m = wire'[t][i] /\ m.type \in Talk
      BY <2>1
    <2>3. PICK j \in 1 .. Len(wire[t]) : wire[t][j] = m /\ j = IF t = s THEN i + 1 ELSE i
      BY <1>3, <2>2
    <2>4. 1 \in 1 .. Len(wire[s]) /\ wire[s][1].type \in Talk
      BY <1>2, <1>6
    <2>5. t = s /\ j = 1
      BY <2>2, <2>3, <2>4 DEF OneFlies
    <2>6. Len(wire'[t]) \in Nat
      BY <1>2, <2>5
    <2> QED BY <2>3, <2>5, <2>6
  <1> QED BY <1>4, <1>5, <1>6

\* A packet about an attempt is answered with one such packet at most, in front.
LEMMA AnswerFlies ==
    ASSUME Typed(wire), NEW s \in Side, wire[s] # <<>>, NEW ms \in Seq(Msg), ReplyAll(s, ms),
           OneFlies, Head(wire[s]).type \in Talk,
           \A i \in 1 .. Len(ms) : ms[i].type \in Talk => i = 1
    PROVE  OneFlies' /\ Flying' \subseteq {ms[1]}
  <1> DEFINE p == Peer(s)
  <1>1. p \in Side /\ p # s /\ Side = {s, p} /\ wire[s] \in Seq(Msg) /\ wire[p] \in Seq(Msg)
    BY DEF Side, Peer, Typed
  <1>2. /\ wire'[s] = Tail(wire[s]) /\ wire'[p] = wire[p] \o ms
    BY <1>1 DEF ReplyAll, Typed
  <1>3. /\ Len(wire[s]) \in Nat /\ Len(wire[s]) >= 1 /\ Head(wire[s]) = wire[s][1]
        /\ Len(wire[p]) \in Nat /\ Len(ms) \in Nat
    BY <1>1
  <1>4. /\ Len(wire'[s]) = Len(wire[s]) - 1
        /\ \A i \in 1 .. Len(wire'[s]) : wire'[s][i] = wire[s][i + 1]
    BY <1>1, <1>2, <1>3
  <1>5. /\ Len(wire'[p]) = Len(wire[p]) + Len(ms)
        /\ \A i \in 1 .. Len(wire'[p]) :
              wire'[p][i] = IF i <= Len(wire[p]) THEN wire[p][i] ELSE ms[i - Len(wire[p])]
    BY <1>1, <1>2, <1>3
  <1>6. \A t \in Side : \A i \in 1 .. Len(wire[t]) :
           wire[t][i].type \in Talk => t = s /\ i = 1
    <2>1. 1 \in 1 .. Len(wire[s]) /\ wire[s][1].type \in Talk
      BY <1>3
    <2> QED BY <2>1 DEF OneFlies
  <1> HIDE DEF p
  <1>7. ASSUME NEW t \in Side, NEW i \in 1 .. Len(wire'[t]), wire'[t][i].type \in Talk
        PROVE  t = p /\ i = Len(wire[p]) + 1 /\ wire'[t][i] = ms[1]
    <2>1. CASE t = s
      <3>1. i + 1 \in 1 .. Len(wire[s]) /\ wire[s][i + 1].type \in Talk
        <4>1. i \in 1 .. Len(wire'[s]) /\ wire'[s][i] = wire[s][i + 1]
          BY <1>4, <1>7, <2>1
        <4>2. i + 1 \in 1 .. Len(wire[s])
          BY <1>3, <1>4, <4>1
        <4> QED BY <4>1, <4>2, <1>7, <2>1
      <3>2. i + 1 = 1
        BY <1>6, <3>1
      <3>3. i \in Nat /\ i >= 1
        BY <1>3, <1>4, <2>1
      <3> QED BY <3>2, <3>3
    <2>2. CASE t = p /\ i <= Len(wire[p])
      <3>1. i \in 1 .. Len(wire[p]) /\ wire[p][i].type \in Talk
        BY <1>3, <1>5, <1>7, <2>2
      <3> QED BY <1>1, <1>6, <3>1
    <2>3. CASE t = p /\ ~(i <= Len(wire[p]))
      <3>1. i - Len(wire[p]) \in 1 .. Len(ms) /\ wire'[t][i] = ms[i - Len(wire[p])]
        BY <1>3, <1>5, <2>3
      <3>2. i - Len(wire[p]) = 1
        BY <1>7, <3>1
      <3>3. i = Len(wire[p]) + 1
        BY <1>3, <1>5, <2>3, <3>2
      <3> QED BY <2>3, <3>1, <3>2, <3>3
    <2> QED BY <1>1, <2>1, <2>2, <2>3
  <1>8. OneFlies'
    BY <1>7 DEF OneFlies
  <1> QED BY <1>7, <1>8, FlyingNext

\* The wire is left alone.
LEMMA NothingFlies ==
    ASSUME UNCHANGED wire
    PROVE  (OneFlies => OneFlies') /\ Flying' = Flying
  BY DEF OneFlies, Flying, OnWire

\* Numbers of attempts.
LEMMA NumberFacts ==
    ASSUME AuthInv
    PROVE  /\ call.num \in Nat /\ call.num <= MaxAttempts /\ call.num \in Attempts \cup {0}
           /\ handler.auth_event \in Nat /\ handler.auth_event <= MaxAttempts
           /\ \A n \in Attempts : n \in Nat /\ n >= 1
           /\ \A n \in Attempts : n > call.num => verdict[n] = {}
  <1>1. call.num \in Attempts \cup {0} /\ handler.auth_event \in Attempts \cup {0}
    BY DEF AuthInv, TypeOK, AttemptTypes, HandlerTypes, Call, Handler
  <1>2. \A n \in Attempts : verdict[n] # {} => n <= call.num
    BY DEF AuthInv, VerdictOK
  <1> QED BY <1>1, <1>2, AuthAssumption DEF Attempts

\* Nothing is on its way while the application is not waiting.
LEMMA NoneFlies ==
    ASSUME Patient, active["client"],
           \/ pc \notin {"await_service", "new_event", "wait"}
           \/ pc = "await_service" /\ accepted
           \/ call.num \in fired
    PROVE  Flying = {}
  <1> SUFFICES ASSUME NEW m \in Flying PROVE FALSE
    OBVIOUS
  <1>1. FlightOK(m)
    BY DEF Patient, FlightsOK
  <1> QED BY <1>1 DEF FlightOK, Unanswered

\* The next attempt begins, with the first handler or behind the last one.
LEMMA NextBegins ==
    ASSUME AuthInv, Patient, Flying = {}, active["client"],
           call.num < MaxAttempts, call'.num = call.num + 1,
           saved_exception'.kind = "none", ~handler.authenticated,
           pc' = IF scenario.modern THEN "ensure" ELSE "create",
           UNCHANGED <<scenario, wire, active, handler, fired, evaluated, verdict>>
    PROVE  Patient'
  <1>1. /\ call.num \in Nat /\ call'.num \in Nat /\ call'.num > call.num
        /\ call'.num \in Attempts /\ \A n \in Attempts : n \in Nat
        /\ \A n \in Attempts : n > call.num => verdict[n] = {}
        /\ handler.auth_event \in Nat
    BY NumberFacts, AuthAssumption DEF Attempts
  <1>2. OneFlies' /\ FlightsOK'
    BY NothingFlies DEF Patient, FlightsOK
  <1>3. CountOK'
    BY <1>1 DEF Patient, CountOK
  <1>4. StageOK'
    BY <1>1 DEF StageOK, Unanswered, Patient, CountOK
  <1> QED BY <1>2, <1>3, <1>4 DEF Patient

\* An auth_* method is called.
LEMMA BeginPatient ==
    ASSUME AuthInv, Patient, NEW me, NEW u, Begin(me, u)
    PROVE  Patient'
  <1>1. Flying = {}
    BY NoneFlies DEF Begin
  <1>2. call'.num = call.num + 1
    BY DEF Begin
  <1>3. saved_exception'.kind = "none" /\ ~handler.authenticated
    BY DEF Begin, Patient, StageOK
  <1> QED BY <1>1, <1>2, <1>3, NextBegins DEF Begin

\* A step between attempts, or before a request is sent, that sends nothing.
LEMMA QuietStep ==
    ASSUME AuthInv, Patient, Flying = {}, StageOK',
           handler'.auth_event \in {0, handler.auth_event},
           UNCHANGED <<scenario, wire, active, call, fired, evaluated, verdict>>
    PROVE  Patient'
  <1>1. OneFlies' /\ FlightsOK'
    BY NothingFlies DEF Patient, FlightsOK
  <1>2. CountOK'
    BY NumberFacts DEF Patient, CountOK
  <1> QED BY <1>1, <1>2 DEF Patient

\* A new handler, before the request.
LEMMA HandlerPatient ==
    ASSUME AuthInv, Patient, Create \/ ServiceAwaited
    PROVE  Patient'
  <1>1. /\ handler' = NewHandler(call.num)
        /\ UNCHANGED <<scenario, wire, active, call, fired, evaluated, verdict, saved_exception>>
        /\ \/ pc = "create" /\ pc' = "request"
           \/ pc = "await_service" /\ accepted /\ pc' = "send_auth"
    BY DEF Create, ServiceAwaited, history
  <1>2. handler'.auth_event = 0 /\ ~handler'.authenticated
    BY <1>1 DEF NewHandler
  <1>3. StageOK'
    BY <1>1, <1>2 DEF Patient, StageOK, Unanswered
  <1>4. CASE active["client"]
    <2>1. Flying = {}
      BY <1>1, <1>4, NoneFlies
    <2> QED BY <1>1, <1>2, <1>3, <2>1, QuietStep
  <1>5. CASE ~active["client"]
    <2>1. FlightsOK'
      BY <1>1, <1>5, NothingFlies DEF Patient, FlightsOK, FlightOK
    <2>2. OneFlies' /\ CountOK'
      BY <1>1, <1>2, NothingFlies, NumberFacts DEF Patient, CountOK
    <2> QED BY <1>3, <2>1, <2>2 DEF Patient
  <1> QED BY <1>4, <1>5

\* The session has ended for the client: what flies stays what it is, and no
\* attempt begins.
LEMMA EndedStep ==
    ASSUME AuthInv, Patient, active' \in [Side -> BOOLEAN], ~active'["client"],
           OneFlies', Flying' \subseteq Flying,
           pc' \in {pc, "idle"},
           handler'.num = handler.num, handler'.auth_event = handler.auth_event,
           fired' \subseteq fired \cup {handler.auth_event},
           UNCHANGED <<scenario, call, evaluated, verdict>>
    PROVE  Patient'
  <1>1. FlightsOK'
    BY DEF Patient, FlightsOK, FlightOK, Told
  <1>2. CountOK'
    BY NumberFacts DEF Patient, CountOK
  <1>3. StageOK'
    BY DEF Patient, StageOK
  <1> QED BY <1>1, <1>2, <1>3 DEF Patient

\* An attempt ends with the session.
LEMMA EndedPatient ==
    ASSUME AuthInv, Patient, SessionGone \/ WaitEnded
    PROVE  Patient'
  <1>1. /\ ~active'["client"] /\ active' \in [Side -> BOOLEAN] /\ pc' = "idle"
        /\ UNCHANGED <<scenario, wire, handler, fired, call, evaluated, verdict>>
    BY DEF SessionGone, WaitEnded, Return, history, AuthInv, TypeOK
  <1> QED BY <1>1, EndedStep, NothingFlies DEF Patient

\* wait_for_response returns.
LEMMA WaitSuccessPatient ==
    ASSUME AuthInv, Patient, WaitSuccess
    PROVE  Patient'
  <1>1. /\ UNCHANGED <<scenario, wire, active, call, handler, fired, evaluated, verdict>>
        /\ pc' = "idle" /\ outcome' = "success" /\ active["client"] /\ call.num \in fired
    BY DEF WaitSuccess, Return, history
  <1>2. Flying = {}
    BY <1>1, NoneFlies
  <1>3. StageOK'
    BY <1>1 DEF StageOK
  <1> QED BY <1>1, <1>2, <1>3, QuietStep

\* wait_for_response raises, or auth_password falls back.
LEMMA WaitFailurePatient ==
    ASSUME AuthInv, Patient, WaitFailure
    PROVE  Patient'
  <1>1. /\ UNCHANGED <<scenario, wire, active, handler, fired, evaluated, verdict>>
        /\ saved_exception'.kind = "none" /\ ~handler.authenticated
        /\ active["client"] /\ call.num \in fired
    BY DEF WaitFailure, NoException
  <1>2. Flying = {}
    BY <1>1, NoneFlies
  <1>3. CASE pc' = "idle" /\ UNCHANGED call
    <2>1. StageOK'
      BY <1>1, <1>3 DEF StageOK
    <2> QED BY <1>1, <1>2, <1>3, <2>1, QuietStep
  <1>4. CASE Fallback(saved_exception)
    <2>1. call \in Call
      BY DEF AuthInv, TypeOK, AttemptTypes
    <2>2. /\ call.num < MaxAttempts /\ call'.num = call.num + 1 
          /\ pc' = IF scenario.modern THEN "ensure" ELSE "create"
      BY <1>4, <2>1 DEF Fallback, Call
    <2> QED BY <1>1, <1>2, <2>2, NextBegins
  <1> QED BY <1>3, <1>4 DEF WaitFailure, Return

\* A packet about the attempt that has none on its way is sent.
LEMMA SendingPatient ==
    ASSUME AuthInv, Patient, active["client"], NEW m \in Msg, Send("client", m), Flying = {},
           m.num = call.num, m.type \in Talk \ Answer, call.num \in Attempts,
           pc \in {"request", "ensure", "send_auth"},
           IF scenario.modern /\ m.type \in Service
             THEN pc' = "await_service" /\ ~accepted
             ELSE pc' \in {"new_event", "wait"} /\ handler'.num = call.num,
           handler'.authenticated = handler.authenticated,
           handler'.auth_event \in {handler.auth_event, call.num},
           UNCHANGED <<scenario, active, call, accepted, fired, saved_exception, evaluated,
                       verdict>>
    PROVE  Patient'
  <1>1. OneFlies' /\ Flying' \subseteq {m}
    BY SendTalk DEF AuthInv, TypeOK, Typed
  <1>2. Unanswered /\ evaluated[call.num] = 0 /\ verdict[call.num] = {}
    BY DEF Patient, StageOK
  <1>3. FlightOK(m)'
    BY <1>2 DEF FlightOK, Unanswered
  <1>4. FlightsOK'
    BY <1>1, <1>3 DEF FlightsOK
  <1>5. CountOK'
    BY NumberFacts DEF Patient, CountOK
  <1>6. StageOK'
    BY <1>2 DEF StageOK, Unanswered
  <1> QED BY <1>1, <1>4, <1>5, <1>6 DEF Patient

\* _request_auth asks for the service.
LEMMA RequestAuthPatient ==
    ASSUME AuthInv, Patient, RequestAuth
    PROVE  Patient'
  <1>1. /\ pc = "request" /\ pc' = "wait" /\ active["client"] /\ handler \in Handler
        /\ call.num \in Attempts /\ handler.num = call.num
        /\ UNCHANGED <<scenario, active, call, accepted, fired, saved_exception, evaluated,
                       verdict>>
    BY DEF RequestAuth, AuthInv, CallOK, HandlerOK, TypeOK, HandlerTypes, history
  <1>2. handler' = [handler EXCEPT !.user = call.user, !.method = call.method,
                                   !.auth_event = call.num]
    BY DEF RequestAuth
  <1>3. /\ handler'.num = call.num /\ handler'.authenticated = handler.authenticated
        /\ handler'.auth_event = call.num
    BY <1>1, <1>2 DEF Handler
  <1>4. PICK m \in Msg : /\ m = Packet("service_request", call.num)
                         /\ m.type = "service_request" /\ m.num = call.num
    BY <1>1, PacketFacts DEF MsgType
  <1>5. Send("client", m) /\ m.type \in Talk \ Answer
    BY <1>4 DEF RequestAuth, Talk, Service, Answer
  <1>6. Flying = {} /\ ~scenario.modern
    BY <1>1, NoneFlies DEF Patient, StageOK
  <1> QED BY <1>1, <1>3, <1>4, <1>5, <1>6, SendingPatient

\* ensure_session asks for the service once.
LEMMA EnsurePatient ==
    ASSUME AuthInv, Patient, EnsureSession
    PROVE  Patient'
  <1>1. /\ pc = "ensure" /\ active["client"] /\ call.num \in Attempts
        /\ UNCHANGED <<scenario, active, call, handler, accepted, fired, saved_exception,
                       evaluated, verdict>>
    BY DEF EnsureSession, AuthInv, CallOK, history
  <1>2. Flying = {} /\ scenario.modern
    BY <1>1, NoneFlies DEF Patient, StageOK
  <1>3. CASE pc' = "send_auth" /\ UNCHANGED wire
    <2>1. StageOK'
      BY <1>1, <1>3 DEF Patient, StageOK, Unanswered
    <2> QED BY <1>1, <1>2, <1>3, <2>1, QuietStep
  <1>4. CASE /\ ~accepted /\ pc' = "await_service"
             /\ Send("client", Packet("service_request", call.num))
    <2>1. PICK m \in Msg : /\ m = Packet("service_request", call.num)
                           /\ m.type = "service_request" /\ m.num = call.num
      BY <1>1, PacketFacts DEF MsgType
    <2>2. Send("client", m) /\ m.type \in Talk \ Answer /\ m.type \in Service
      BY <1>4, <2>1 DEF Talk, Service, Answer
    <2> QED BY <1>1, <1>2, <1>4, <2>1, <2>2, SendingPatient
  <1> QED BY <1>3, <1>4 DEF EnsureSession

\* send_auth_request sends the request itself.
LEMMA SendAuthPatient ==
    ASSUME AuthInv, Patient, SendAuthRequest
    PROVE  Patient'
  <1>1. /\ pc = "send_auth" /\ handler \in Handler /\ call \in Call /\ call.num \in Attempts
        /\ UNCHANGED <<scenario, active, call, accepted, fired, saved_exception, evaluated,
                       verdict>>
    BY DEF SendAuthRequest, AuthInv, CallOK, TypeOK, HandlerTypes, AttemptTypes, history
  <1>2. handler' = [handler EXCEPT !.num = call.num, !.user = call.user, !.method = call.method]
    BY DEF SendAuthRequest
  <1>3. /\ handler'.num = call.num /\ handler'.authenticated = handler.authenticated
        /\ handler'.auth_event = handler.auth_event
    BY <1>1, <1>2 DEF Handler
  <1>4. CASE pc' = "idle" /\ UNCHANGED wire
    <2>1. StageOK'
      BY <1>1, <1>3, <1>4 DEF Patient, StageOK, Unanswered
    <2>2. CASE active["client"]
      <3>1. Flying = {}
        BY <1>1, <2>2, NoneFlies
      <3> QED BY <1>1, <1>3, <1>4, <2>1, <3>1, QuietStep
    <2>3. CASE ~active["client"]
      <3>1. FlightsOK'
        BY <1>1, <1>4, <2>3, NothingFlies DEF Patient, FlightsOK, FlightOK
      <3>2. OneFlies' /\ CountOK'
        BY <1>1, <1>3, <1>4, NothingFlies DEF Patient, CountOK
      <3> QED BY <2>1, <3>1, <3>2 DEF Patient
    <2> QED BY <2>2, <2>3
  <1>5. CASE /\ active["client"] /\ pc' = "new_event"
             /\ Send("client", Request(call.num, call.user, call.method))
    <2>1. call.user \in Users \cup {"unset"} /\ call.method \in Method \cup {"unset"}
      BY <1>1 DEF Call
    <2>2. PICK m \in Msg : /\ m = Request(call.num, call.user, call.method)
                           /\ m.type = "request" /\ m.num = call.num
      BY <1>1, <2>1, RequestFacts
    <2>3. Send("client", m) /\ m.type \in Talk \ Answer /\ m.type \notin Service
      BY <1>5, <2>2 DEF Talk, Service, Answer
    <2>4. Flying = {}
      BY <1>1, <1>5, NoneFlies
    <2> QED BY <1>1, <1>3, <1>5, <2>2, <2>3, <2>4, SendingPatient
  <1> QED BY <1>4, <1>5 DEF SendAuthRequest

\* The event is made after the request was sent.
LEMMA NewEventPatient ==
    ASSUME AuthInv, Patient, NewEvent
    PROVE  Patient'
  <1>1. /\ pc = "new_event" /\ pc' = "wait" /\ handler \in Handler
        /\ UNCHANGED <<scenario, wire, active, call, accepted, fired, saved_exception,
                       outcome, evaluated, verdict>>
    BY DEF NewEvent, AuthInv, TypeOK, HandlerTypes, history
  <1>2. handler' = [handler EXCEPT !.auth_event = call.num]
    BY DEF NewEvent
  <1>3. /\ handler'.num = handler.num /\ handler'.authenticated = handler.authenticated
        /\ handler'.auth_event = call.num
    BY <1>1, <1>2 DEF Handler
  <1>4. ASSUME NEW m \in Flying
        PROVE  FlightOK(m)'
    BY <1>1, <1>3 DEF Patient, FlightsOK, FlightOK, Unanswered, Told
  <1>5. OneFlies' /\ FlightsOK'
    BY <1>1, <1>4, NothingFlies DEF FlightsOK, Patient
  <1>6. CountOK'
    BY <1>1, <1>3, NumberFacts DEF Patient, CountOK
  <1>7. StageOK'
    BY <1>1, <1>3 DEF Patient, StageOK, Taken
  <1> QED BY <1>5, <1>6, <1>7 DEF Patient

\* What is said of flights, numbers and stages stays when only other things change.
LEMMA RestKept ==
    ASSUME Patient, OneFlies', Flying' \subseteq Flying, active'["client"] = active["client"],
           UNCHANGED <<scenario, pc, call, handler, accepted, fired,
                       saved_exception, outcome, evaluated, verdict>>
    PROVE  Patient'
  <1>1. ASSUME NEW m \in Flying
        PROVE  FlightOK(m)'
    BY DEF Patient, FlightsOK, FlightOK, Unanswered, Told
  <1>2. FlightsOK'
    BY <1>1 DEF FlightsOK
  <1>3. CountOK'
    BY DEF Patient, CountOK
  <1>4. StageOK'
    BY DEF Patient, StageOK, Taken, Unanswered
  <1> QED BY <1>2, <1>3, <1>4 DEF Patient

\* A channel is asked for.
LEMMA OpenPatient ==
    ASSUME AuthInv, Patient, Open
    PROVE  Patient'
  <1>1. PICK m \in Msg : m = Packet("open", 0) /\ m.type = "open"
    BY PacketFacts DEF MsgType
  <1>2. Send("client", m) /\ m.type \notin Talk
    BY <1>1 DEF Open, Talk, Service, Answer
  <1>3. OneFlies' /\ Flying' \subseteq Flying
    BY <1>2, SendOther DEF AuthInv, TypeOK, Typed, Patient
  <1>4. UNCHANGED <<scenario, active, pc, call, handler, accepted, fired,
                    saved_exception, outcome, evaluated, verdict>>
    BY DEF Open, history
  <1> QED BY <1>3, <1>4, RestKept
-----------------------------------------------------------------------------
(* The transport thread of the client, while no attempt is given up *)

\* run() ends.
LEMMA EndClientPatient ==
    ASSUME AuthInv, Patient, NEW e, EndClient(e), OneFlies', Flying' \subseteq Flying,
           UNCHANGED <<scenario, pc, call, handler, evaluated, verdict>>
    PROVE  Patient'
  <1>1. active' \in [Side -> BOOLEAN] /\ ~active'["client"]
    BY DEF EndClient, AuthInv, TypeOK, Side
  <1>2. fired' \subseteq fired \cup {handler.auth_event}
    BY DEF EndClient
  <1> QED BY <1>1, <1>2, EndedStep

\* The connection is gone.
LEMMA ClientEofPatient ==
    ASSUME AuthInv, Patient, SeesEof("client")
    PROVE  Patient'
  <1>1. /\ EndClient(SessionEnd)
        /\ UNCHANGED <<scenario, wire, pc, call, handler, evaluated, verdict>>
    BY DEF SeesEof, history
  <1> QED BY <1>1, EndClientPatient, NothingFlies DEF Patient

\* The server has disconnected.
LEMMA DisconnectPatient ==
    ASSUME AuthInv, Patient, ReadDisconnect
    PROVE  Patient'
  <1>1. /\ EndClient(saved_exception) /\ Consume("client") /\ wire["client"] # <<>>
        /\ UNCHANGED <<scenario, pc, call, handler, evaluated, verdict>>
    BY DEF ReadDisconnect, Reads, history
  <1>2. OneFlies' /\ Flying' \subseteq Flying
    BY <1>1, ConsumeFlies DEF AuthInv, TypeOK, Typed, Side, Patient
  <1> QED BY <1>1, <1>2, EndClientPatient

\* The packet that is read is the one that flies.
LEMMA ReadFlies ==
    ASSUME AuthInv, Patient, NEW s \in Side, NEW ty \in Talk, Reads(s, ty)
    PROVE  /\ wire[s] # <<>> /\ Head(wire[s]) \in Msg /\ Head(wire[s]).type = ty
           /\ Head(wire[s]) \in Flying /\ FlightOK(Head(wire[s])) /\ Typed(wire)
           /\ active[s]
  <1>1. Typed(wire) /\ wire[s] # <<>> /\ Head(wire[s]).type = ty /\ active[s]
    BY DEF AuthInv, TypeOK, Typed, Reads
  <1>2. Head(wire[s]) \in Msg /\ Head(wire[s]) = wire[s][1] /\ 1 \in 1 .. Len(wire[s])
    BY <1>1 DEF Typed
  <1>3. PICK h : h = Head(wire[s])
    OBVIOUS
  <1>4. h \in Flying
    BY <1>1, <1>2, <1>3, FlyingAt
  <1>5. FlightOK(h)
    BY <1>4 DEF Patient, FlightsOK
  <1> QED BY <1>1, <1>2, <1>3, <1>4, <1>5

\* The service is granted: the request follows, or the flag is set.
LEMMA AcceptPatient ==
    ASSUME AuthInv, Patient, ReadServiceAccept
    PROVE  Patient'
  <1>1. /\ Reads("client", "service_accept") /\ "service_accept" \in Talk \cap Service
        /\ UNCHANGED <<scenario, pc, call, handler, outcome, evaluated, verdict>>
        /\ "client" \in Side
    BY DEF ReadServiceAccept, history, Talk, Service, Side
  <1>2. PICK h \in Msg : /\ h = Head(wire["client"]) /\ h.type = "service_accept"
                         /\ FlightOK(h) /\ Typed(wire) /\ wire["client"] # <<>>
                         /\ active["client"]
    BY <1>1, ReadFlies
  <1>3. CASE Consume("client")
    <2>1. OneFlies' /\ Flying' = {}
      BY <1>1, <1>2, <1>3, ConsumeFlies DEF Patient
    <2>2. CASE EndClient(SessionEnd)
      BY <1>1, <2>1, <2>2, EndClientPatient
    <2>3. CASE UNCHANGED <<active, fired, saved_exception>>
      <3>1. FlightsOK'
        BY <2>1 DEF FlightsOK
      <3>2. CountOK' /\ StageOK'
        BY <1>1, <2>3 DEF Patient, CountOK, StageOK, Unanswered, Taken
      <3> QED BY <2>1, <3>1, <3>2 DEF Patient
    <2> QED BY <1>3, <2>2, <2>3 DEF ReadServiceAccept
  <1>4. CASE /\ ~scenario.modern /\ UNCHANGED <<active, fired, saved_exception, accepted>>
             /\ Reply("client", Request(handler.num, handler.user, handler.method))
    <2>1. /\ handler.num \in Attempts \cup {0} /\ handler.user \in Users \cup {"unset"}
          /\ handler.method \in Method \cup {"unset"}
      BY DEF AuthInv, TypeOK, HandlerTypes, Handler
    <2>2. PICK m \in Msg : /\ m = Request(handler.num, handler.user, handler.method)
                           /\ m.type = "request" /\ m.num = handler.num
      BY <2>1, RequestFacts
    <2>3. pc \in {"new_event", "wait"} /\ handler.num = call.num
      BY <1>2, <1>4 DEF FlightOK, Patient, StageOK
    <2> DEFINE ms == <<m>>
    <2>4. ms \in Seq(Msg) /\ Len(ms) = 1 /\ ms[1] = m
      OBVIOUS
    <2>5. ReplyAll("client", ms)
      BY <1>4, <2>2 DEF Reply
    <2> HIDE DEF ms
    <2>6. OneFlies' /\ Flying' \subseteq {m}
      BY <1>1, <1>2, <2>4, <2>5, AnswerFlies DEF Patient
    <2>7. FlightOK(m)'
      BY <1>1, <1>2, <1>4, <2>2, <2>3 DEF FlightOK, Unanswered, Answer, Service
    <2>8. FlightsOK'
      BY <2>6, <2>7 DEF FlightsOK
    <2>9. CountOK' /\ StageOK'
      BY <1>1, <1>4 DEF Patient, CountOK, StageOK, Unanswered, Taken
    <2> QED BY <2>6, <2>8, <2>9 DEF Patient
  <1> QED BY <1>3, <1>4 DEF ReadServiceAccept

\* The answer is handled: it is the verdict that the client takes.
LEMMA AnswerPatient ==
    ASSUME AuthInv, Patient, ReadSuccess \/ ReadFailure
    PROVE  Patient'
  <1>1. PICK ty \in Answer :
          /\ Reads("client", ty)
          /\ (ty = "success" /\ ReadSuccess) \/ (ty = "failure" /\ ReadFailure)
    <2>1. CASE ReadSuccess
      <3>1. Reads("client", "success")
        BY <2>1 DEF ReadSuccess
      <3> QED BY <2>1, <3>1 DEF Answer
    <2>2. CASE ReadFailure
      <3>1. Reads("client", "failure")
        BY <2>2 DEF ReadFailure
      <3> QED BY <2>2, <3>1 DEF Answer
    <2> QED BY <2>1, <2>2
  <1>2. PICK h \in Msg : /\ h = Head(wire["client"]) /\ h.type = ty
                         /\ FlightOK(h) /\ Typed(wire) /\ wire["client"] # <<>>
                         /\ active["client"]
    BY <1>1, ReadFlies DEF Side, Talk
  <1>3. /\ Consume("client") /\ UNCHANGED <<scenario, active, pc, call, accepted, evaluated, verdict>>
        /\ fired' = fired \cup ({handler.auth_event} \ {0})
    BY DEF ReadSuccess, ReadFailure, Trigger
  <1>4. OneFlies' /\ Flying' = {}
    BY <1>1, <1>2, <1>3, ConsumeFlies DEF Side, Talk, Patient
  <1>5. /\ handler \in Handler
        /\ \/ handler' = [handler EXCEPT !.authenticated = TRUE]
           \/ handler' = [handler EXCEPT !.authenticated = FALSE, !.user = "unset"]
    BY DEF ReadSuccess, ReadFailure, AuthInv, TypeOK, HandlerTypes
  <1>6. handler'.num = handler.num /\ handler'.auth_event = handler.auth_event
    BY <1>5 DEF Handler
  <1>7. /\ pc \in {"new_event", "wait"} /\ saved_exception.kind = "none"
        /\ verdict[call.num] = {Told(h)}
    BY <1>1, <1>2 DEF FlightOK, Unanswered, Answer, Service
  <1>8. Taken' = Told(h)
    <2>1. CASE ty = "success" /\ ReadSuccess
      <3>1. handler' = [handler EXCEPT !.authenticated = TRUE]
        BY <2>1 DEF ReadSuccess
      <3>2. handler'.authenticated = TRUE
        BY <1>5, <3>1 DEF Handler
      <3> QED BY <1>2, <2>1, <3>2 DEF Taken, Told
    <2>2. CASE ty = "failure" /\ ReadFailure
      <3>1. /\ handler' = [handler EXCEPT !.authenticated = FALSE, !.user = "unset"]
            /\ h.partial => saved_exception'.kind = "partial"
            /\ ~h.partial => saved_exception'.kind \in {"bad", "none"}
        BY <1>2, <1>7, <2>2 DEF ReadFailure
      <3>2. handler'.authenticated = FALSE
        BY <1>5, <3>1 DEF Handler
      <3> QED BY <1>2, <2>2, <3>1, <3>2 DEF Taken, Told
    <2> QED BY <1>1, <2>1, <2>2
  <1>9. FlightsOK'
    BY <1>4 DEF FlightsOK
  <1>10. CountOK'
    BY <1>3, <1>6, NumberFacts DEF Patient, CountOK
  <1>11. StageOK'
    BY <1>3, <1>6, <1>7, <1>8 DEF Patient, StageOK
  <1> QED BY <1>4, <1>9, <1>10, <1>11 DEF Patient

\* A packet that flies is answered with one about the same attempt, which is not
\* a verdict.
LEMMA PassedOn ==
    ASSUME AuthInv, Patient, NEW s \in Side, wire[s] # <<>>, NEW h \in Msg, h = Head(wire[s]),
           h.type \in Talk \ Answer, FlightOK(h), Typed(wire), NEW m \in Msg, Reply(s, m),
           m.num = h.num, m.type \in Talk \ Answer, m.type \in Service <=> h.type \in Service,
           UNCHANGED <<scenario, pc, call, handler, accepted, fired, saved_exception,
                       outcome, evaluated, verdict>>,
           active'["client"] = active["client"]
    PROVE  Patient'
  <1> DEFINE ms == <<m>>
  <1>1. ms \in Seq(Msg) /\ Len(ms) = 1 /\ ms[1] = m
    OBVIOUS
  <1>2. ReplyAll(s, ms)
    BY DEF Reply
  <1> HIDE DEF ms
  <1>3. OneFlies' /\ Flying' \subseteq {m}
    BY <1>1, <1>2, AnswerFlies DEF Patient
  <1>4. FlightOK(m)'
    BY DEF FlightOK, Unanswered
  <1>5. FlightsOK'
    BY <1>3, <1>4 DEF FlightsOK
  <1>6. CountOK' /\ StageOK'
    BY DEF Patient, CountOK, StageOK, Unanswered, Taken
  <1> QED BY <1>3, <1>5, <1>6 DEF Patient

\* A question is answered.
LEMMA InfoRequestPatient ==
    ASSUME AuthInv, Patient, ReadInfoRequest
    PROVE  Patient'
  <1>1. /\ Reads("client", "info_request") /\ "info_request" \in Talk /\ "client" \in Side
        /\ UNCHANGED <<scenario, pc, call, handler, accepted, outcome, evaluated, verdict>>
    BY DEF ReadInfoRequest, history, Talk, Side
  <1>2. PICK h \in Msg : /\ h = Head(wire["client"]) /\ h.type = "info_request"
                         /\ FlightOK(h) /\ Typed(wire) /\ wire["client"] # <<>>
    BY <1>1, ReadFlies
  <1>3. CASE Consume("client") /\ EndClient(SessionEnd)
    <2>1. OneFlies' /\ Flying' \subseteq Flying
      BY <1>1, <1>2, <1>3, ConsumeFlies DEF Patient
    <2> QED BY <1>1, <1>3, <2>1, EndClientPatient
  <1>4. CASE /\ Reply("client", Packet("info_response", h.num))
             /\ UNCHANGED <<active, fired, saved_exception>>
    <2>1. PICK m \in Msg : /\ m = Packet("info_response", h.num)
                           /\ m.type = "info_response" /\ m.num = h.num
      <3>1. h.num \in Attempts \cup {0}
        BY DEF Msg
      <3> QED BY <3>1, PacketFacts DEF MsgType
    <2>2. /\ m.type \in Talk \ Answer /\ h.type \in Talk \ Answer
          /\ m.type \in Service <=> h.type \in Service
      BY <1>2, <2>1 DEF Talk, Service, Answer
    <2> QED BY <1>1, <1>2, <1>4, <2>1, <2>2, PassedOn
  <1> QED BY <1>2, <1>3, <1>4 DEF ReadInfoRequest
-----------------------------------------------------------------------------
(* The server, while no attempt is given up *)

\* The server sees the end of the connection.
LEMMA ServerEofPatient ==
    ASSUME AuthInv, Patient, SeesEof("server")
    PROVE  Patient'
  <1>1. /\ active'["client"] = active["client"]
        /\ UNCHANGED <<scenario, wire, pc, call, handler, accepted, fired,
                       saved_exception, outcome, evaluated, verdict>>
    BY DEF SeesEof, AuthInv, TypeOK, history, Side
  <1> QED BY <1>1, RestKept, NothingFlies DEF Patient

\* The server grants the service.
LEMMA ServiceRequestPatient ==
    ASSUME AuthInv, Patient, ReadServiceRequest
    PROVE  Patient'
  <1>1. /\ Reads("server", "service_request") /\ "service_request" \in Talk /\ "server" \in Side
        /\ UNCHANGED <<scenario, active, pc, call, handler, accepted, fired,
                       saved_exception, outcome, evaluated, verdict>>
    BY DEF ReadServiceRequest, client, history, Talk, Service, Side
  <1>2. PICK h \in Msg : /\ h = Head(wire["server"]) /\ h.type = "service_request"
                         /\ FlightOK(h) /\ Typed(wire) /\ wire["server"] # <<>>
    BY <1>1, ReadFlies
  <1>3. PICK m \in Msg : /\ m = Packet("service_accept", h.num)
                         /\ m.type = "service_accept" /\ m.num = h.num
    <2>1. h.num \in Attempts \cup {0}
      BY DEF Msg
    <2> QED BY <2>1, PacketFacts DEF MsgType
  <1>4. /\ m.type \in Talk \ Answer /\ h.type \in Talk \ Answer
        /\ m.type \in Service <=> h.type \in Service
    BY <1>2, <1>3 DEF Talk, Service, Answer
  <1>5. Reply("server", m)
    BY <1>2, <1>3 DEF ReadServiceRequest
  <1> QED BY <1>1, <1>2, <1>3, <1>4, <1>5, PassedOn

\* The server decides on a channel.
LEMMA OpenedPatient ==
    ASSUME AuthInv, Patient, ReadOpen
    PROVE  Patient'
  <1>1. /\ wire["server"] # <<>> /\ Consume("server")
        /\ UNCHANGED <<scenario, active, pc, call, handler, accepted, fired,
                       saved_exception, outcome, evaluated, verdict>>
    BY DEF ReadOpen, Reads, client
  <1>2. OneFlies' /\ Flying' \subseteq Flying
    BY <1>1, ConsumeFlies DEF AuthInv, TypeOK, Typed, Side, Patient
  <1> QED BY <1>1, <1>2, RestKept

\* An answer, and the disconnection behind it, are a list of packets.
LEMMA AnswerAndMore ==
    ASSUME NEW m \in Msg, NEW o \in {<<>>, <<Packet("disconnect", 0)>>}
    PROVE  /\ <<m>> \o o \in Seq(Msg) /\ (<<m>> \o o)[1] = m
           /\ \A i \in 1 .. Len(<<m>> \o o) : (<<m>> \o o)[i].type \in Talk => i = 1
  <1>1. PICK d \in Msg : d = Packet("disconnect", 0) /\ d.type = "disconnect"
    BY PacketFacts DEF MsgType
  <1>2. d.type \notin Talk
    BY <1>1 DEF Talk, Service, Answer
  <1>3. CASE o = <<>>
    BY <1>3
  <1>4. CASE o = <<d>>
    <2> DEFINE ms == <<m>> \o o
    <2>1. ms \in Seq(Msg) /\ Len(ms) = 2 /\ ms[1] = m /\ ms[2] = d
      BY <1>4
    <2> HIDE DEF ms
    <2>2. \A i \in 1 .. Len(ms) : i = 1 \/ ms[i] = d
      BY <2>1
    <2>3. \A i \in 1 .. Len(ms) : ms[i].type \in Talk => i = 1
      BY <1>2, <2>2
    <2> QED BY <2>1, <2>3 DEF ms
  <1> QED BY <1>1, <1>3, <1>4

\* The verdict on an attempt that had none.
LEMMA ResultPatient ==
    ASSUME AuthInv, Patient, NEW h \in Msg, h = Head(wire["server"]), FlightOK(h),
           h.type \in {"request", "info_response"}, wire["server"] # <<>>, Typed(wire),
           NEW v \in Verdict, h.num \in Attempts, SendAuthResult(h.num, v),
           UNCHANGED <<scenario, client>>
    PROVE  Patient'
  <1> DEFINE n == h.num
             fails == auth_fail_count + (IF v = "failed" THEN 1 ELSE 0)
             over == IF fails >= FailLimit THEN <<Packet("disconnect", 0)>> ELSE <<>>
  <1>1. PICK o : o = over /\ o \in {<<>>, <<Packet("disconnect", 0)>>}
    OBVIOUS
  <1>2. PICK m \in Msg : /\ ReplyAll("server", <<m>> \o over) /\ m.num = n
                         /\ m.type \in Answer /\ Told(m) = v
    <2>1. CASE v = "success"
      <3>1. PICK m \in Msg : m = Packet("success", n) /\ m.type = "success" /\ m.num = n
        BY PacketFacts DEF MsgType
      <3>2. ReplyAll("server", <<m>> \o over)
        BY <2>1, <3>1 DEF SendAuthResult
      <3> QED BY <2>1, <3>1, <3>2 DEF Answer, Told
    <2>2. CASE v # "success"
      <3>1. PICK permitted \in BOOLEAN, fallback \in BOOLEAN :
              ReplyAll("server", <<Failure(n, v = "partial", permitted, fallback)>> \o over)
        BY <2>2 DEF SendAuthResult
      <3>2. PICK partial \in BOOLEAN : partial = (v = "partial")
        OBVIOUS
      <3>3. PICK m \in Msg : /\ m = Failure(n, partial, permitted, fallback)
                             /\ m.type = "failure" /\ m.num = n /\ m.partial = partial
        <4>1. Failure(n, partial, permitted, fallback).partial = partial
          BY DEF Failure, Packet
        <4> QED BY <4>1, FailureFacts
      <3>4. ReplyAll("server", <<m>> \o over)
        BY <3>1, <3>2, <3>3
      <3>5. Told(m) = v
        BY <2>2, <3>2, <3>3 DEF Told, Verdict
      <3> QED BY <3>3, <3>4, <3>5 DEF Answer
    <2> QED BY <2>1, <2>2
  <1> HIDE DEF over, fails
  <1>3. PICK ms : ms = <<m>> \o o
    OBVIOUS
  <1>4. /\ ms \in Seq(Msg) /\ ms[1] = m
        /\ \A i \in 1 .. Len(ms) : ms[i].type \in Talk => i = 1
    BY <1>1, <1>3, AnswerAndMore
  <1>5. ReplyAll("server", ms) /\ h.type \in Talk /\ h.type \notin Answer /\ h.type \notin Service
    BY <1>1, <1>2, <1>3 DEF Talk, Service, Answer
  <1>6. OneFlies' /\ Flying' \subseteq {m}
    BY <1>4, <1>5, AnswerFlies DEF Side, Patient
  <1>7. /\ n = call.num /\ evaluated[n] = 0 /\ verdict[n] = {}
        /\ active["client"] => Unanswered /\ pc \in {"new_event", "wait"}
    BY <1>5 DEF FlightOK
  <1>8. /\ verdict' = [verdict EXCEPT ![n] = @ \cup {v}]
        /\ evaluated' = [evaluated EXCEPT ![n] = @ + 1]
        /\ active'["client"] = active["client"]
    BY DEF SendAuthResult, AuthInv, TypeOK, Side
  <1>9. /\ verdict'[n] = {v} /\ evaluated'[n] = 1
        /\ \A k \in Attempts \ {n} : verdict'[k] = verdict[k] /\ evaluated'[k] = evaluated[k]
    BY <1>7, <1>8 DEF AuthInv, TypeOK, ServerTypes
  <1>10. FlightOK(m)'
    BY <1>2, <1>7, <1>8, <1>9 DEF FlightOK, Unanswered, Told, client, Answer, Service
  <1>11. FlightsOK'
    BY <1>6, <1>10 DEF FlightsOK
  <1>12. CountOK'
    BY <1>7, <1>9, NumberFacts DEF Patient, CountOK, client
  <1>13. StageOK'
    BY <1>7, <1>8 DEF Patient, StageOK, Unanswered, client
  <1> QED BY <1>6, <1>11, <1>12, <1>13 DEF Patient

\* The packet is not answered with one about an attempt.
LEMMA DroppedPatient ==
    ASSUME AuthInv, Patient, OneFlies', Flying' = {}, active'["client"] = active["client"],
           UNCHANGED <<scenario, client, evaluated, verdict>>
    PROVE  Patient'
  BY RestKept DEF client

\* _disconnect_no_more_auth.
LEMMA NoMoreAuthPatient ==
    ASSUME AuthInv, Patient, DisconnectNoMoreAuth, wire["server"] # <<>>, Typed(wire),
           Head(wire["server"]).type \in Talk, UNCHANGED <<scenario, client>>
    PROVE  Patient'
  <1>1. PICK d \in Msg : d = Packet("disconnect", 0) /\ d.type = "disconnect"
    BY PacketFacts DEF MsgType
  <1>2. d.type \notin Talk
    BY <1>1 DEF Talk, Service, Answer
  <1> DEFINE ms == <<d>>
  <1>3. ms \in Seq(Msg) /\ Len(ms) = 1 /\ ms[1] = d
    OBVIOUS
  <1>4. ReplyAll("server", ms)
    BY <1>1 DEF DisconnectNoMoreAuth, Reply
  <1> HIDE DEF ms
  <1>5. OneFlies' /\ Flying' \subseteq {d}
    BY <1>3, <1>4, AnswerFlies DEF Side, Patient
  <1>6. Flying' = {}
    BY <1>2, <1>5, FlyingNext
  <1>7. active'["client"] = active["client"] /\ UNCHANGED <<evaluated, verdict>>
    BY DEF DisconnectNoMoreAuth, AuthInv, TypeOK, Side, history
  <1> QED BY <1>5, <1>6, <1>7, DroppedPatient

\* _interactive_query.
LEMMA QueryPatient ==
    ASSUME AuthInv, Patient, NEW h \in Msg, h = Head(wire["server"]), FlightOK(h),
           h.type \in {"request", "info_response"}, wire["server"] # <<>>, Typed(wire),
           h.num \in Attempts, InteractiveQuery(h.num), UNCHANGED <<scenario, client>>
    PROVE  Patient'
  <1>1. PICK m \in Msg : /\ m = Packet("info_request", h.num)
                         /\ m.type = "info_request" /\ m.num = h.num
    BY PacketFacts DEF MsgType
  <1>2. Reply("server", m) /\ UNCHANGED <<active, evaluated, verdict>>
    BY <1>1 DEF InteractiveQuery, history
  <1>3. /\ m.type \in Talk \ Answer /\ h.type \in Talk \ Answer
        /\ m.type \in Service <=> h.type \in Service
    BY <1>1 DEF Talk, Service, Answer
  <1> QED BY <1>1, <1>2, <1>3, PassedOn DEF client, Side

\* The server handles a request, or the answers to its questions.
LEMMA RequestPatient ==
    ASSUME AuthInv, Patient, ReadRequest \/ ReadInfoResponse
    PROVE  Patient'
  <1>1. PICK ty \in {"request", "info_response"} : Reads("server", ty)
    BY DEF ReadRequest, ReadInfoResponse
  <1>2. PICK h \in Msg : /\ h = Head(wire["server"]) /\ h.type = ty /\ FlightOK(h)
                         /\ Typed(wire) /\ wire["server"] # <<>>
    BY <1>1, ReadFlies DEF Side, Talk
  <1>3. h.num \in Attempts /\ h.type \in Talk
    <2>1. WireOK /\ call \in Call /\ "server" \in Side
      BY DEF AuthInv, TypeOK, AttemptTypes, Side
    <2>2. PacketOK(h)
      BY <1>1, <1>2, <2>1, HeadWire
    <2> QED BY <1>2, <2>1, <2>2, PacketAbout DEF Talk
  <1>4. UNCHANGED <<scenario, client>>
    BY DEF ReadRequest, ReadInfoResponse
  <1>5. CASE \E v \in Verdict : SendAuthResult(h.num, v)
    BY <1>2, <1>3, <1>4, <1>5, ResultPatient
  <1>6. CASE DisconnectNoMoreAuth
    BY <1>2, <1>3, <1>4, <1>6, NoMoreAuthPatient
  <1>7. CASE InteractiveQuery(h.num)
    BY <1>2, <1>3, <1>4, <1>7, QueryPatient
  <1>8. CASE Consume("server") /\ UNCHANGED <<active, history>>
    <2>1. OneFlies' /\ Flying' = {}
      BY <1>2, <1>3, <1>8, ConsumeFlies DEF Side, Patient
    <2> QED BY <1>4, <1>8, <2>1, DroppedPatient DEF history
  <1> QED BY <1>2, <1>5, <1>6, <1>7, <1>8 DEF ReadRequest, ReadInfoResponse
-----------------------------------------------------------------------------
(* The theorems about attempts that are not given up *)

\* Every step keeps one packet at a time.
LEMMA PatientStep ==
    ASSUME AuthInv, PatientInv, [Next]_vars
    PROVE  PatientInv'
  <1>1. scenario' = scenario
    <2>1. CASE ClientThread
      BY <2>1 DEF ClientThread, EndRun, SeesEof, ReadDisconnect, ReadServiceAccept,
                  ReadSuccess, ReadFailure, ReadInfoRequest
    <2>2. CASE ServerThread
      BY <2>2 DEF ServerThread, EndRun, SeesEof, ReadServiceRequest, ReadRequest,
                  ReadInfoResponse, ReadOpen
    <2>3. CASE AttemptGoesOn
      BY <2>3 DEF AttemptGoesOn, Create, RequestAuth, EnsureSession, ServiceAwaited,
                  SendAuthRequest, NewEvent, SessionGone, WaitEnded, WaitTimeout, WaitSuccess,
                  WaitFailure
    <2>4. CASE Open \/ \E s \in Side : Lose(s)
      BY <2>4 DEF Open, Lose, SeesEof
    <2>5. CASE \E m \in Method, u \in Users : Begin(m, u)
      BY <2>5 DEF Begin
    <2>6. CASE UNCHANGED vars
      BY <2>6 DEF vars
    <2> QED BY <2>1, <2>2, <2>3, <2>4, <2>5, <2>6 DEF Next
  <1> SUFFICES ASSUME ~scenario.timed, Patient
               PROVE  Patient'
    BY <1>1 DEF PatientInv
  <1>2. CASE ClientThread
    BY <1>2, ClientEofPatient, DisconnectPatient, AcceptPatient, AnswerPatient,
       InfoRequestPatient DEF ClientThread, EndRun
  <1>3. CASE ServerThread
    BY <1>3, ServerEofPatient, ServiceRequestPatient, RequestPatient, OpenedPatient
       DEF ServerThread, EndRun
  <1>4. CASE AttemptGoesOn
    BY <1>4, HandlerPatient, RequestAuthPatient, EnsurePatient, SendAuthPatient,
       NewEventPatient, EndedPatient, WaitSuccessPatient, WaitFailurePatient
       DEF AttemptGoesOn, WaitTimeout
  <1>5. CASE Open \/ \E s \in Side : Lose(s)
    BY <1>5, OpenPatient, ClientEofPatient, ServerEofPatient DEF Lose, Side
  <1>6. CASE \E m \in Method, u \in Users : Begin(m, u)
    BY <1>6, BeginPatient
  <1>7. CASE UNCHANGED vars
    <2>1. UNCHANGED <<scenario, wire, active, pc, call, handler, accepted, fired,
                      saved_exception, outcome, evaluated, verdict>>
      BY <1>7 DEF vars, client, history
    <2> QED BY <2>1, RestKept, NothingFlies DEF Patient
  <1> QED BY <1>2, <1>3, <1>4, <1>5, <1>6, <1>7 DEF Next

\* So there is never more than one.
LEMMA PatientInvariance == Spec => []PatientInv
  <1>1. Init => PatientInv
    <2> SUFFICES ASSUME Init PROVE Patient
      BY DEF PatientInv
    <2>1. wire["client"] = <<>> /\ wire["server"] = <<>>
      BY DEF Init, Side
    <2>2. OneFlies /\ FlightsOK
      BY <2>1 DEF OneFlies, FlightsOK, Flying, OnWire, Side
    <2>3. CountOK
      BY AuthAssumption DEF Init, CountOK, NewHandler, Attempts
    <2>4. StageOK
      BY DEF Init, StageOK, NewHandler, NoException
    <2> QED BY <2>2, <2>3, <2>4 DEF Patient
  <1>2. AuthInv /\ PatientInv /\ [Next]_vars => PatientInv'
    BY PatientStep
  <1> QED BY <1>1, <1>2, Invariance, PTL DEF Spec

\* Where no attempt is given up, the server object decides on each at most once,
\* so the failures counted against the limit are failures of the application.
THEOREM NotJudgedTwice == Spec => []JudgedOnce
  <1>1. PatientInv => JudgedOnce
    BY DEF PatientInv, Patient, CountOK, JudgedOnce
  <1> QED BY <1>1, PatientInvariance, PTL

\* Where no attempt is given up, what wait_for_response returns or raises is the
\* verdict of the server on this very attempt.
THEOREM AnswersOwn == Spec => OwnAnswer
  <1> DEFINE Own == pc = "wait" /\ pc' = "idle" /\ active["client"] /\ ~scenario.timed =>
                      verdict[call.num] =
                        {IF outcome' \in {"success", "partial"} THEN outcome' ELSE "failed"}
  <1>1. AuthInv /\ PatientInv /\ [Next]_vars => [Own]_vars
    <2> SUFFICES ASSUME AuthInv, PatientInv, [Next]_vars, pc = "wait", pc' = "idle",
                        active["client"], ~scenario.timed
                 PROVE  verdict[call.num] =
                          {IF outcome' \in {"success", "partial"} THEN outcome' ELSE "failed"}
      OBVIOUS
    <2>1. WaitSuccess \/ WaitFailure
      <3>1. ~ClientThread
        BY DEF ClientThread, EndRun, SeesEof, ReadDisconnect, ReadServiceAccept,
               ReadSuccess, ReadFailure, ReadInfoRequest
      <3>2. ~ServerThread
        BY DEF ServerThread, EndRun, SeesEof, ReadServiceRequest, ReadRequest,
               ReadInfoResponse, ReadOpen, client
      <3>3. ~(Create \/ RequestAuth \/ EnsureSession \/ ServiceAwaited \/ SendAuthRequest
               \/ NewEvent \/ SessionGone)
        BY DEF Create, RequestAuth, EnsureSession, ServiceAwaited, SendAuthRequest, NewEvent,
               SessionGone
      <3>4. ~(WaitEnded \/ WaitTimeout \/ Open \/ \E s \in Side : Lose(s))
        BY DEF WaitEnded, WaitTimeout, Open, Lose, SeesEof
      <3>5. ~(\E m \in Method, u \in Users : Begin(m, u)) /\ ~UNCHANGED vars
        BY DEF Begin, vars, client
      <3> QED BY <3>1, <3>2, <3>3, <3>4, <3>5 DEF Next, AttemptGoesOn
    <2>2. call.num \in fired /\ verdict[call.num] = {Taken}
      BY <2>1 DEF PatientInv, Patient, StageOK, WaitSuccess, WaitFailure
    <2>3. CASE WaitSuccess
      BY <2>2, <2>3 DEF WaitSuccess, Return, Taken
    <2>4. CASE WaitFailure
      <3>1. saved_exception.kind \in {"none", "bad", "partial", "end"}
        BY DEF AuthInv, TypeOK, HandlerTypes, Exception
      <3>2. ~Fallback(saved_exception)
        BY DEF Fallback
      <3>3. Return(IF saved_exception.kind = "none" THEN "failed" ELSE saved_exception.kind)
        BY <2>4, <3>2 DEF WaitFailure
      <3>4. ~handler.authenticated
        BY <2>4 DEF WaitFailure
      <3> QED BY <2>2, <3>1, <3>3, <3>4 DEF Return, Taken
    <2> QED BY <2>1, <2>3, <2>4
  <1> QED BY <1>1, Invariance, PatientInvariance, PTL DEF Spec, OwnAnswer
=============================================================================
