--------------------------- MODULE AuthInvariant ---------------------------
(***************************************************************************)
(* The inductive invariant behind GrantedOnly and ClientAgrees: what the   *)
(* packets on the wire, the handler of the client and the verdicts of the  *)
(* server say of an attempt agrees with the user it was made for.          *)
(***************************************************************************)
EXTENDS Auth

OnWire(s) == {wire[s][i] : i \in 1 .. Len(wire[s])}

\* A packet is about an attempt that has begun; a request carries its user, a
\* question is asked of the user whose name the server has noted, and success
\* is sent only by a server that has granted it.
PacketOK(m) ==
    /\ m.type \notin {"disconnect", "open"} => m.num \in 1 .. call.num
    /\ m.type = "request" => m.user # "unset" /\ asked[m.num] = m.user
    /\ m.type \in {"info_request", "info_response"} =>
          auth_username # "unset" /\ asked[m.num] = auth_username
    /\ m.type = "success" => authenticated

WireOK == \A s \in Side : \A m \in OnWire(s) : PacketOK(m)

CallOK ==
    pc # "idle" =>
        call.num \in Attempts /\ call.user # "unset" /\ asked[call.num] = call.user

HandlerOK ==
    /\ handler.user # "unset" =>
          handler.num \in 1 .. call.num /\ asked[handler.num] = handler.user
    /\ pc = "request" => handler.num = call.num

\* The exception that ends the session is saved when the session has ended.
ExceptionOK == active["client"] => saved_exception.kind # "end"

\* A server that has counted too many failures handles no packet.
LimitOK == active["server"] => auth_fail_count < FailLimit

VerdictOK ==
    \A n \in Attempts :
        verdict[n] # {} =>
            n <= call.num /\ auth_username # "unset" /\ asked[n] = auth_username

GrantOK ==
    /\ served => authenticated
    /\ authenticated => \E n \in Attempts : "success" \in verdict[n]

AuthInv ==
    /\ TypeOK /\ WireOK /\ CallOK /\ HandlerOK /\ ExceptionOK /\ LimitOK
    /\ VerdictOK /\ GrantOK /\ ClientAgrees
-----------------------------------------------------------------------------
(***************************************************************************)
(* The inductive invariant behind JudgedOnce and OwnAnswer: while no       *)
(* attempt is given up, one packet at a time is about an attempt, and it   *)
(* is about the last one.                                                  *)
(***************************************************************************)
Service == {"service_request", "service_accept"}
Answer  == {"success", "failure"}
Talk    == Service \cup Answer \cup {"request", "info_request", "info_response"}

\* The packets about attempts that are on their way.
Flying == {m \in OnWire("client") \cup OnWire("server") : m.type \in Talk}

OneFlies ==
    \A s, t \in Side : \A i \in 1 .. Len(wire[s]), j \in 1 .. Len(wire[t]) :
        wire[s][i].type \in Talk /\ wire[t][j].type \in Talk => s = t /\ i = j

\* The verdict that a packet tells, and the one a client takes from its answer.
Told(m) == IF m.type = "success" THEN "success" ELSE IF m.partial THEN "partial" ELSE "failed"
Taken == IF handler.authenticated THEN "success"
         ELSE IF saved_exception.kind = "partial" THEN "partial" ELSE "failed"

\* Nothing of the current attempt's answer is known to the client.
Unanswered ==
    saved_exception.kind = "none" /\ ~handler.authenticated /\ call.num \notin fired

\* A packet is about the current attempt.  It tells the one verdict on it, or
\* there is none yet, and the client has not had the answer.
FlightOK(m) ==
    /\ m.num = call.num
    /\ m.type \in Answer => evaluated[m.num] = 1 /\ verdict[m.num] = {Told(m)}
    /\ m.type \notin Answer => evaluated[m.num] = 0 /\ verdict[m.num] = {}
    /\ active["client"] =>
          /\ Unanswered
          /\ IF scenario.modern /\ m.type \in Service
               THEN pc = "await_service" /\ ~accepted
               ELSE pc \in {"new_event", "wait"}

FlightsOK == \A m \in Flying : FlightOK(m)

\* What has not begun has not been judged, and nothing is judged twice.
CountOK ==
    /\ handler.auth_event <= call.num
    /\ \A n \in Attempts :
          /\ evaluated[n] <= 1
          /\ n > call.num => evaluated[n] = 0 /\ n \notin fired

\* Before the request of an attempt is sent, and once it has been answered.
StageOK ==
    /\ pc \in {"create", "request"} => ~scenario.modern
    /\ pc = "ensure" => scenario.modern
    /\ pc \in {"new_event", "wait"} => handler.num = call.num
    /\ active["client"] =>
          /\ pc \in {"create", "request", "ensure", "await_service", "send_auth"} =>
                Unanswered /\ evaluated[call.num] = 0 /\ verdict[call.num] = {}
          /\ pc = "idle" /\ outcome # "success" =>
                saved_exception.kind = "none" /\ ~handler.authenticated
          /\ pc \in {"new_event", "wait"} /\ call.num \in fired =>
                verdict[call.num] = {Taken}

Patient == OneFlies /\ FlightsOK /\ CountOK /\ StageOK

PatientInv == ~scenario.timed => Patient
=============================================================================
