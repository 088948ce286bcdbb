-------------------------------- MODULE Auth --------------------------------
(***************************************************************************)
(* User authentication between two paramiko Transports (auth_handler.py,   *)
(* the auth_* methods of transport.py).                                    *)
(*                                                                         *)
(* One application thread of the client makes attempts one after the       *)
(* other; the transport thread of each end handles packets, a handler in   *)
(* one step.  The client is a Transport, where each attempt makes a new    *)
(* AuthHandler and asks for the service again, or a                        *)
(* ServiceRequestingTransport (scenario.modern), which does both once.     *)
(* Credentials are abstracted: the server object gives any verdict.        *)
(*                                                                         *)
(* Attempts are numbered; the numbers in packets are there for the         *)
(* properties only.                                                        *)
(***************************************************************************)
EXTENDS Integers, Sequences

CONSTANTS
    Users,        \* user names
    Scenarios,    \* how the client authenticates, see Scenario
    FailLimit,    \* failures after which the server disconnects (10)
    MaxAttempts,  \* bound: attempts of the application
    MaxQueries    \* bound: questions of the server in one session

Side == {"client", "server"}
Peer(s) == IF s = "client" THEN "server" ELSE "client"

Method == {"none", "password", "publickey", "keyboard-interactive"}

\* timed: auth_timeout may run out.  opens: the application also opens a
\* channel, at any time.  lossy: the connection may be lost.
Scenario == [modern : BOOLEAN, methods : SUBSET Method, users : SUBSET Users,
             timed : BOOLEAN, opens : BOOLEAN, lossy : BOOLEAN]

ASSUME AuthAssumption ==
    /\ "unset" \notin Users
    /\ Scenarios \subseteq Scenario
    /\ FailLimit \in Nat \ {0}
    /\ MaxAttempts \in Nat
    /\ MaxQueries \in Nat

Attempts == 1 .. MaxAttempts

VARIABLES
    scenario,
    wire,            \* wire[s]: packets on their way to s
    active,          \* Transport.active
    \* the client
    pc, call,        \* where the application thread is, and its attempt
    handler,         \* transport.auth_handler
    accepted,        \* _service_userauth_accepted
    fired,           \* the attempts whose event is set
    saved_exception,
    outcome,         \* how the last attempt ended
    opened,          \* whether the application has asked for a channel
    \* the server
    authenticated, auth_username, auth_fail_count, queries,
    \* history
    asked,           \* asked[n]: the user of attempt n
    verdict,         \* verdict[n]: the verdicts on attempt n
    evaluated,       \* evaluated[n]: how often the server object decided on it
    handled,         \* the attempts whose answer the client has handled
    served           \* a channel was opened

client  == <<pc, call, handler, accepted, fired, saved_exception, outcome,
             opened>>
server  == <<authenticated, auth_username, auth_fail_count, queries>>
history == <<asked, verdict, evaluated, handled, served>>
vars == <<scenario, wire, active, client, server, history>>

\* "num" is the attempt that made the handler or used it last.
Handler == [num : Attempts \cup {0}, user : Users \cup {"unset"},
            method : Method \cup {"unset"}, auth_event : Attempts \cup {0},
            authenticated : BOOLEAN]
NewHandler(n) == [num |-> n, user |-> "unset", method |-> "unset", auth_event |-> 0,
                  authenticated |-> FALSE]

\* nested: the attempt is the fallback in auth_password.
Call == [num : Attempts \cup {0}, method : Method \cup {"unset"},
         user : Users \cup {"unset"}, nested : BOOLEAN]

\* An exception: its kind and the attempt it is about.  "bad" is
\* BadAuthenticationType, fallback says that keyboard-interactive is allowed.
Exception == [kind : {"none", "bad", "partial", "end"}, num : Attempts \cup {0},
              fallback : BOOLEAN]
NoException == [kind |-> "none", num |-> 0, fallback |-> FALSE]
SessionEnd  == [kind |-> "end", num |-> 0, fallback |-> FALSE]

Verdict == {"success", "partial", "failed"}
MsgType == {"service_request", "service_accept", "request", "info_request",
            "info_response", "success", "failure", "disconnect", "open"}
\* Of a failure: partial; permitted, whether the list of methods has the one
\* that was used; fallback, whether it has keyboard-interactive.
Msg == [type : MsgType, num : Attempts \cup {0}, user : Users \cup {"unset"},
        method : Method \cup {"unset"}, partial : BOOLEAN, permitted : BOOLEAN,
        fallback : BOOLEAN]
Packet(type, num) ==
    [type |-> type, num |-> num, user |-> "unset", method |-> "unset", partial |-> FALSE,
     permitted |-> FALSE, fallback |-> FALSE]
Request(num, user, method) ==
    [Packet("request", num) EXCEPT !.user = user, !.method = method]
Failure(num, partial, permitted, fallback) ==
    [Packet("failure", num) EXCEPT !.partial = partial, !.permitted = permitted,
                                   !.fallback = fallback]

Init ==
    /\ scenario \in Scenarios
    /\ wire = [s \in Side |-> <<>>]
    /\ active = [s \in Side |-> TRUE]
    /\ pc = "idle"
    /\ call = [num |-> 0, method |-> "unset", user |-> "unset", nested |-> FALSE]
    /\ handler = NewHandler(0)
    /\ accepted = FALSE
    /\ fired = {}
    /\ saved_exception = NoException
    /\ outcome = "unset"
    /\ opened = FALSE
    /\ authenticated = FALSE
    /\ auth_username = "unset"
    /\ auth_fail_count = 0
    /\ queries = 0
    /\ asked = [n \in Attempts |-> "unset"]
    /\ verdict = [n \in Attempts |-> {}]
    /\ evaluated = [n \in Attempts |-> 0]
    /\ handled = {}
    /\ served = FALSE

Send(s, m) == wire' = [wire EXCEPT ![Peer(s)] = Append(@, m)]
-----------------------------------------------------------------------------
(* An attempt of the application *)

\* The auth_* method is called while the session is active.  The application
\* does not try again once it has succeeded.
Begin(m, u) ==
    /\ pc = "idle"
    /\ active["client"]
    /\ outcome # "success"
    /\ call.num < MaxAttempts
    /\ m \in scenario.methods /\ u \in scenario.users
    /\ call' = [num |-> call.num + 1, method |-> m, user |-> u, nested |-> FALSE]
    /\ asked' = [asked EXCEPT ![call.num + 1] = u]
    /\ pc' = IF scenario.modern THEN "ensure" ELSE "create"
    /\ UNCHANGED <<scenario, wire, active, handler, accepted, fired,
                   saved_exception, outcome, opened, server, verdict, evaluated,
                   handled, served>>

\* "self.auth_handler = AuthHandler(self)"
Create ==
    /\ pc = "create"
    /\ call.nested => active["client"]
    /\ handler' = NewHandler(call.num)
    /\ pc' = "request"
    /\ UNCHANGED <<scenario, wire, active, call, accepted, fired,
                   saved_exception, outcome, opened, server, history>>

\* Mutant: the event is left to be made later.
RequestAuthNoEvent ==
    /\ pc = "request"
    /\ active["client"]
    /\ handler' = [handler EXCEPT !.user = call.user, !.method = call.method]
    /\ Send("client", Packet("service_request", call.num))
    /\ pc' = "wait"
    /\ UNCHANGED <<scenario, active, call, accepted, fired,
                   saved_exception, outcome, opened, server, history>>

\* Mutant: the service is asked for twice.
RequestAuthTwice ==
    /\ pc = "request"
    /\ active["client"]
    /\ handler' = [handler EXCEPT !.user = call.user, !.method = call.method,
                                  !.auth_event = call.num]
    /\ wire' = [wire EXCEPT !["server"] =
                   @ \o [i \in 1 .. 2 |-> Packet("service_request", call.num)]]
    /\ pc' = "wait"
    /\ UNCHANGED <<scenario, active, call, accepted, fired,
                   saved_exception, outcome, opened, server, history>>

\* AuthHandler.auth_*: under the lock, the fields and _request_auth.
RequestAuth ==
    /\ pc = "request"
    /\ active["client"]
    /\ handler' = [handler EXCEPT !.user = call.user, !.method = call.method,
                                  !.auth_event = call.num]
    /\ Send("client", Packet("service_request", call.num))
    /\ pc' = "wait"
    /\ UNCHANGED <<scenario, active, call, accepted, fired,
                   saved_exception, outcome, opened, server, history>>

\* ensure_session: nothing to do, or the service is asked for.
EnsureSession ==
    /\ pc = "ensure"
    /\ active["client"]
    /\ \/ accepted /\ pc' = "send_auth" /\ UNCHANGED wire
       \/ /\ ~accepted
          /\ Send("client", Packet("service_request", call.num))
          /\ pc' = "await_service"
    /\ UNCHANGED <<scenario, active, call, handler, accepted, fired,
                   saved_exception, outcome, opened, server, history>>

\* The loop looks at the flag only, not at the session.
ServiceAwaited ==
    /\ pc = "await_service"
    /\ accepted
    /\ handler' = NewHandler(call.num)
    /\ pc' = "send_auth"
    /\ UNCHANGED <<scenario, wire, active, call, accepted, fired,
                   saved_exception, outcome, opened, server, history>>

\* send_auth_request.  For "none" there is no finish_message, and calling it
\* raises TypeError.
SendAuthRequest ==
    /\ pc = "send_auth"
    /\ handler' = [handler EXCEPT !.num = call.num, !.user = call.user,
                                  !.method = call.method]
    /\ \/ /\ call.method = "none"
          /\ pc' = "idle" /\ outcome' = "error"
          /\ UNCHANGED wire
       \/ /\ call.method # "none"
          /\ active["client"]
          /\ Send("client", Request(call.num, call.user, call.method))
          /\ pc' = "new_event"
          /\ UNCHANGED outcome
    /\ UNCHANGED <<scenario, active, call, accepted, fired,
                   saved_exception, opened, server, history>>

NewEvent ==
    /\ pc = "new_event"
    /\ handler' = [handler EXCEPT !.auth_event = call.num]
    /\ pc' = "wait"
    /\ UNCHANGED <<scenario, wire, active, call, accepted, fired,
                   saved_exception, outcome, opened, server, history>>
-----------------------------------------------------------------------------
(* wait_for_response *)

\* An attempt ends; the fallback raises the exception of the attempt with the
\* password when it fails.
Return(o) ==
    /\ outcome' = IF call.nested /\ o \notin {"success", "partial"} THEN "bad" ELSE o
    /\ pc' = "idle"
    /\ UNCHANGED call

\* The session has ended before the request is sent: "No existing session" in
\* a method that starts, EOFError from a write.
SessionGone ==
    /\ ~active["client"]
    /\ \/ /\ pc = "ensure" \/ (pc = "create" /\ call.nested)
          /\ Return("ended")
       \/ /\ pc = "request" \/ (pc = "send_auth" /\ call.method # "none")
          /\ outcome' = "ended" /\ pc' = "idle"
          /\ UNCHANGED call
    /\ UNCHANGED <<scenario, wire, active, handler, accepted, fired,
                   saved_exception, opened, server, history>>

\* "if not self.transport.is_active()": the saved exception is raised.  For
\* BadAuthenticationType auth_password would go on, finds no session and raises
\* it again.
WaitEnded ==
    /\ pc = "wait"
    /\ ~active["client"]
    /\ saved_exception' = NoException
    /\ Return(IF saved_exception.kind = "bad" THEN "bad" ELSE "ended")
    /\ UNCHANGED <<scenario, wire, active, handler, accepted, fired,
                   opened, server, history>>

WaitTimeout ==
    /\ pc = "wait"
    /\ active["client"] /\ call.num \notin fired
    /\ scenario.timed
    /\ Return("timeout")
    /\ UNCHANGED <<scenario, wire, active, handler, accepted, fired,
                   saved_exception, opened, server, history>>

\* The event is set and the handler is authenticated.
WaitSuccess ==
    /\ pc = "wait"
    /\ active["client"] /\ call.num \in fired
    /\ handler.authenticated
    /\ Return("success")
    /\ UNCHANGED <<scenario, wire, active, handler, accepted, fired,
                   saved_exception, opened, server, history>>

\* Mutant: get_exception does not forget the exception.
WaitFailureKeeps ==
    /\ pc = "wait"
    /\ active["client"] /\ call.num \in fired
    /\ ~handler.authenticated
    /\ Return(IF saved_exception.kind = "none" THEN "failed" ELSE saved_exception.kind)
    /\ UNCHANGED <<scenario, wire, active, handler, accepted, fired,
                   saved_exception, opened, server, history>>

\* auth_password goes on with keyboard-interactive where that is allowed, unless
\* the caller does not want it.
Fallback(e) ==
    /\ e.kind = "bad" /\ e.fallback
    /\ call.method = "password"
    /\ call.num < MaxAttempts
    /\ call' = [call EXCEPT !.num = @ + 1, !.nested = TRUE,
                            !.method = "keyboard-interactive"]
    /\ asked' = [asked EXCEPT ![call.num + 1] = call.user]
    /\ pc' = IF scenario.modern THEN "ensure" ELSE "create"
    /\ UNCHANGED outcome

\* The handler is not authenticated: the saved exception tells why, or there is
\* none.
WaitFailure ==
    LET e == saved_exception
    IN  /\ pc = "wait"
        /\ active["client"] /\ call.num \in fired
        /\ ~handler.authenticated
        /\ saved_exception' = NoException
        /\ \/ Fallback(e)
           \/ /\ Return(IF e.kind = "none" THEN "failed" ELSE e.kind)
              /\ UNCHANGED asked
        /\ UNCHANGED <<scenario, wire, active, handler, accepted, fired, opened,
                       server, verdict, evaluated, handled, served>>

\* open_channel, whatever the state of the authentication; only the server's
\* decision is followed.
Open ==
    /\ pc = "idle"
    /\ active["client"]
    /\ scenario.opens /\ ~opened
    /\ opened' = TRUE
    /\ Send("client", Packet("open", 0))
    /\ UNCHANGED <<scenario, active, pc, call, handler, accepted, fired,
                   saved_exception, outcome, server, history>>
-----------------------------------------------------------------------------
(* The transport threads *)

\* s handles a packet of type ty, and may send some.
Reads(s, ty) == active[s] /\ wire[s] # <<>> /\ Head(wire[s]).type = ty
Consume(s) == wire' = [wire EXCEPT ![s] = Tail(@)]
ReplyAll(s, ms) == wire' = [wire EXCEPT ![s] = Tail(@), ![Peer(s)] = @ \o ms]
Reply(s, m) == ReplyAll(s, <<m>>)

\* run() of the client ends with exception e: abort() sets the event.
EndClient(e) ==
    /\ active' = [active EXCEPT !["client"] = FALSE]
    /\ fired' = fired \cup ({handler.auth_event} \ {0})
    /\ saved_exception' = e

\* run() ends with EOFError.
SeesEof(s) ==
    /\ active[s]
    /\ \/ s = "client" /\ EndClient(SessionEnd)
       \/ /\ s = "server" /\ active' = [active EXCEPT ![s] = FALSE]
          /\ UNCHANGED <<fired, saved_exception>>
    /\ UNCHANGED <<scenario, wire, pc, call, handler, accepted, outcome, opened,
                   server, history>>

\* The other end has closed the connection, or it is lost.
EndRun(s) == ~active[Peer(s)] /\ SeesEof(s)
Lose(s)   == scenario.lossy /\ active[Peer(s)] /\ SeesEof(s)

\* MSG_DISCONNECT ends the loop, without an exception.
ReadDisconnect ==
    /\ Reads("client", "disconnect")
    /\ Consume("client")
    /\ EndClient(saved_exception)
    /\ UNCHANGED <<scenario, pc, call, handler, accepted, outcome, opened,
                   server, history>>

\* _parse_service_request of the server.
ReadServiceRequest ==
    LET m == Head(wire["server"])
    IN  /\ Reads("server", "service_request")
        /\ Reply("server", Packet("service_accept", m.num))
        /\ UNCHANGED <<scenario, active, client, server, history>>

\* _parse_service_accept: the request of the handler of the moment.  One that
\* has not got its fields yet, or has lost its user name with a failure, raises
\* an exception.
ReadServiceAccept ==
    /\ Reads("client", "service_accept")
    /\ \/ /\ scenario.modern
          /\ accepted' = TRUE
          /\ Consume("client")
          /\ UNCHANGED <<active, fired, saved_exception>>
       \/ /\ ~scenario.modern
          /\ handler.user # "unset"
          /\ Reply("client", Request(handler.num, handler.user, handler.method))
          /\ UNCHANGED <<active, fired, saved_exception, accepted>>
       \/ /\ ~scenario.modern
          /\ handler.user = "unset"
          /\ Consume("client")
          /\ EndClient(SessionEnd)
          /\ UNCHANGED accepted
    /\ UNCHANGED <<scenario, pc, call, handler, outcome, opened, server, history>>

\* Mutant: there is no limit to the failures.
SendAuthResultNoLimit(n, v) ==
    /\ verdict' = [verdict EXCEPT ![n] = @ \cup {v}]
    /\ evaluated' = [evaluated EXCEPT ![n] = @ + 1]
    /\ authenticated' = (authenticated \/ v = "success")
    /\ auth_fail_count' = auth_fail_count + (IF v = "failed" THEN 1 ELSE 0)
    /\ Reply("server", [Packet(IF v = "success" THEN v ELSE "failure", n) EXCEPT
                          !.partial = (v = "partial"), !.permitted = TRUE])
    /\ UNCHANGED <<active, queries, asked, handled, served>>

\* _send_auth_result for verdict v on attempt n, and the disconnection after
\* too many failures.
SendAuthResult(n, v) ==
    LET fails == auth_fail_count + (IF v = "failed" THEN 1 ELSE 0)
        over == IF fails >= FailLimit THEN <<Packet("disconnect", 0)>> ELSE <<>>
    IN  /\ verdict' = [verdict EXCEPT ![n] = @ \cup {v}]
        /\ evaluated' = [evaluated EXCEPT ![n] = @ + 1]
        /\ authenticated' = (authenticated \/ v = "success")
        /\ auth_fail_count' = fails
        /\ active' = [active EXCEPT !["server"] = fails < FailLimit]
        /\ \/ v = "success" /\ ReplyAll("server", <<Packet("success", n)>> \o over)
           \/ /\ v # "success"
              /\ \E permitted, fallback \in BOOLEAN :
                    ReplyAll("server", <<Failure(n, v = "partial", permitted, fallback)>>
                                         \o over)
        /\ UNCHANGED <<queries, asked, handled, served>>

\* _interactive_query
InteractiveQuery(n) ==
    /\ queries < MaxQueries
    /\ queries' = queries + 1
    /\ Reply("server", Packet("info_request", n))
    /\ UNCHANGED <<active, authenticated, auth_fail_count, history>>

\* _disconnect_no_more_auth
DisconnectNoMoreAuth ==
    /\ Reply("server", Packet("disconnect", 0))
    /\ active' = [active EXCEPT !["server"] = FALSE]
    /\ UNCHANGED <<authenticated, auth_fail_count, queries, history>>

\* Mutant: the user name may change between attempts.
ReadRequestAnyUser ==
    LET m == Head(wire["server"])
    IN  /\ Reads("server", "request")
        /\ ~authenticated
        /\ auth_username' = m.user
        /\ \E v \in Verdict : SendAuthResult(m.num, v)
        /\ UNCHANGED <<scenario, client>>

\* _parse_userauth_request: ignored once authenticated; another user name, or a
\* key that cannot be used, ends the session; else the server object decides.
ReadRequest ==
    LET m == Head(wire["server"])
    IN  /\ Reads("server", "request")
        /\ \/ /\ authenticated
              /\ Consume("server")
              /\ UNCHANGED <<active, server, history>>
           \/ /\ ~authenticated
              /\ auth_username \notin {"unset", m.user}
              /\ DisconnectNoMoreAuth
              /\ UNCHANGED auth_username
           \/ /\ ~authenticated
              /\ auth_username \in {"unset", m.user}
              /\ auth_username' = m.user
              /\ \/ \E v \in Verdict : SendAuthResult(m.num, v)
                 \/ m.method = "publickey" /\ DisconnectNoMoreAuth
                 \/ m.method = "keyboard-interactive" /\ InteractiveQuery(m.num)
        /\ UNCHANGED <<scenario, client>>

\* _parse_userauth_info_response
ReadInfoResponse ==
    LET m == Head(wire["server"])
    IN  /\ Reads("server", "info_response")
        /\ \/ \E v \in Verdict : SendAuthResult(m.num, v)
           \/ InteractiveQuery(m.num)
        /\ UNCHANGED <<scenario, client, auth_username>>

\* MSG_CHANNEL_OPEN passes _ensure_authed, or is refused.
ReadOpen ==
    /\ Reads("server", "open")
    /\ Consume("server")
    /\ served' = authenticated
    /\ UNCHANGED <<scenario, active, client, server, asked, verdict, evaluated,
                   handled>>

\* The event of the handler, if it has one, is set.
Trigger(n) ==
    /\ fired' = fired \cup ({handler.auth_event} \ {0})
    /\ handled' = handled \cup {n}

\* _parse_userauth_success
ReadSuccess ==
    /\ Reads("client", "success")
    /\ Consume("client")
    /\ handler' = [handler EXCEPT !.authenticated = TRUE]
    /\ Trigger(Head(wire["client"]).num)
    /\ UNCHANGED <<scenario, active, pc, call, accepted, saved_exception,
                   outcome, opened, server, asked, verdict, evaluated, served>>

\* Mutant: a partial success counts as a success.
ReadFailurePartial ==
    LET m == Head(wire["client"])
    IN  /\ Reads("client", "failure")
        /\ Consume("client")
        /\ handler' = [handler EXCEPT !.authenticated = m.partial]
        /\ Trigger(m.num)
        /\ UNCHANGED <<scenario, active, pc, call, accepted, saved_exception,
                       outcome, opened, server, asked, verdict, evaluated, served>>

\* _parse_userauth_failure
ReadFailure ==
    LET m == Head(wire["client"])
        e(kind) == [kind |-> kind, num |-> m.num, fallback |-> m.fallback]
    IN  /\ Reads("client", "failure")
        /\ Consume("client")
        /\ saved_exception' = IF m.partial THEN e("partial")
                              ELSE IF ~m.permitted THEN e("bad")
                              ELSE saved_exception
        /\ handler' = [handler EXCEPT !.authenticated = FALSE, !.user = "unset"]
        /\ Trigger(m.num)
        /\ UNCHANGED <<scenario, active, pc, call, accepted, outcome, opened,
                       server, asked, verdict, evaluated, served>>

\* _parse_userauth_info_request: an exception when the handler uses another
\* method, or when its interactive handler raises one, as that of the fallback
\* does when there is more than one question.
ReadInfoRequest ==
    LET m == Head(wire["client"])
    IN  /\ Reads("client", "info_request")
        /\ \/ /\ handler.method = "keyboard-interactive"
              /\ Reply("client", Packet("info_response", m.num))
              /\ UNCHANGED <<active, fired, saved_exception>>
           \/ /\ handler.method # "keyboard-interactive" \/ call.nested
              /\ Consume("client")
              /\ EndClient(SessionEnd)
        /\ UNCHANGED <<scenario, pc, call, handler, accepted, outcome, opened,
                       server, history>>
-----------------------------------------------------------------------------
ClientThread ==
    \/ EndRun("client") \/ ReadDisconnect \/ ReadServiceAccept
    \/ ReadSuccess \/ ReadFailure \/ ReadInfoRequest

ServerThread ==
    \/ EndRun("server") \/ ReadServiceRequest \/ ReadRequest
    \/ ReadInfoResponse \/ ReadOpen

\* The steps of an attempt that has begun.
AttemptGoesOn ==
    \/ Create \/ RequestAuth \/ EnsureSession \/ ServiceAwaited
    \/ SendAuthRequest \/ NewEvent \/ SessionGone
    \/ WaitEnded \/ WaitTimeout \/ WaitSuccess \/ WaitFailure

Next ==
    \/ ClientThread \/ ServerThread \/ AttemptGoesOn \/ Open
    \/ \E s \in Side : Lose(s)
    \/ \E m \in Method, u \in Users : Begin(m, u)

Spec == Init /\ [][Next]_vars

(***************************************************************************)
(* Fairness: the threads run, and time runs out where there is a timeout.  *)
(* A connection need not be lost, and nobody has to make an attempt.       *)
(***************************************************************************)
Fairness ==
    /\ WF_vars(ClientThread) /\ WF_vars(ServerThread)
    /\ WF_vars(AttemptGoesOn)

FairSpec == Spec /\ Fairness
-----------------------------------------------------------------------------
AttemptTypes ==
    /\ pc \in {"idle", "create", "request", "ensure", "await_service",
              "send_auth", "new_event", "wait"}
    /\ call \in Call
    /\ outcome \in Verdict \cup {"unset", "bad", "timeout", "ended", "error"}
    /\ opened \in BOOLEAN
    /\ asked \in [Attempts -> Users \cup {"unset"}]

HandlerTypes ==
    /\ handler \in Handler
    /\ accepted \in BOOLEAN
    /\ fired \in SUBSET Attempts
    /\ saved_exception \in Exception
    /\ handled \in SUBSET Attempts

ServerTypes ==
    /\ authenticated \in BOOLEAN
    /\ auth_username \in Users \cup {"unset"}
    /\ auth_fail_count \in 0 .. FailLimit
    /\ queries \in 0 .. MaxQueries
    /\ verdict \in [Attempts -> SUBSET Verdict]
    /\ evaluated \in [Attempts -> Nat]
    /\ served \in BOOLEAN

\* The state is what the classes can hold; in particular the server stops
\* counting failures at the limit, and every answer is about an attempt.
TypeOK ==
    /\ scenario \in Scenarios
    /\ wire \in [Side -> Seq(Msg)]
    /\ active \in [Side -> BOOLEAN]
    /\ AttemptTypes /\ HandlerTypes /\ ServerTypes

\* The server opens a channel only for a user whom the server object has
\* accepted, and all attempts it has judged in this session, with whatever
\* method, were for that same user.
GrantedOnly ==
    /\ served => authenticated
    /\ authenticated => \E n \in Attempts : "success" \in verdict[n]
    /\ \A n \in Attempts : verdict[n] # {} => asked[n] = auth_username

\* The client believes itself authenticated only when the server does too,
\* whatever late answers have come: nothing takes the success back.
ClientAgrees ==
    handler.authenticated \/ outcome = "success" => authenticated

\* The failures that lead to a disconnection are attempts of the application:
\* each is judged once, unless the application gave one up.
JudgedOnce ==
    ~scenario.timed => \A n \in Attempts : evaluated[n] <= 1

\* An attempt returns, or raises, what the server decided on this attempt and
\* not on another one, unless the application gave one up before.
OwnAnswer ==
    [][pc = "wait" /\ pc' = "idle" /\ active["client"] /\ ~scenario.timed =>
          verdict[call.num] =
            {IF outcome' \in {"success", "partial"} THEN outcome' ELSE "failed"}]_vars

\* Every attempt comes to an end: with the answer, with the session, or with
\* the timeout.  Two waits of ServiceRequestingTransport are left out: the one
\* for the service does not notice that the session has ended, and the one for
\* the answer needs a timeout.
AttemptReturns ==
    pc # "idle" /\ (scenario.modern => scenario.timed) ~>
        \/ pc = "idle"
        \/ pc = "await_service" /\ ~active["client"]

\* send_auth_request "will lock-n-block as necessary to both send, and wait for
\* response to, the USERAUTH_REQUEST": "Authentication timeout" is raised only
\* when there was no response.
TimeoutMeansNoAnswer ==
    [][pc = "wait" /\ pc' = "idle" /\ outcome' = "timeout" =>
          call.num \notin handled]_vars
=============================================================================
