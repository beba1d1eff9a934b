----------------------------- MODULE PluginCall -----------------------------
(***************************************************************************)
(* Request/response calls of the memory and orchestrator proxies through   *)
(* the generic Plugin service: each client goroutine makes one call, the   *)
(* router dispatches it to a skeleton while the process is still setting   *)
(* itself up, and either end may lose the other at any step.  gRPC does    *)
(* not retry a call, so a client that lost its peer cannot tell whether    *)
(* the call was executed.  The calls implement module RemoteCall.          *)
(***************************************************************************)
EXTENDS PluginRouter

CONSTANT Clients   \* goroutines that call through a proxy

VARIABLES
  cpc,       \* each client: "idle", "waiting" or "done"
  request,   \* [srv, port, method]: what it called, None before
  known,     \* history: the port was registered when the call was sent
  hpc,       \* the call at the server: "none", "inflight", "routed", "replied"
  ret,       \* what the real object returned, "unrun" if it did not run
  reply,     \* the ResultEnvelope, or GrpcStatus
  result     \* what the proxy returned

callVars == <<cpc, request, known, hpc, ret, reply, result>>
vars == <<routerVars, callVars>>

\* By what they return, the methods are of three kinds: an error only (Record,
\* Links, Unlink, Observe, Consolidate), a value and an error (Recall, Search),
\* and a value only (Context).
Methods(port) == {"void"} \cup IF port = "memory" THEN {"value"} ELSE {"context"}

\* nil, an error with a text or with an empty one, and a *BudgetError.
Rets == {"nil", "text", "blank", "budget"}

\* A ResultEnvelope: its Error text, and its payload.
Envelope(error, payload) == [error |-> error, payload |-> payload]

\* What gRPC answers for a server that has no Plugin service.
GrpcStatus == Envelope("Unimplemented", "status")

Requests == [srv: Servers, port: Ports, method: {"void", "value", "context"}]
Envelopes == [error: {"", "text", "budget", "unknownPort", "Unimplemented"},
              payload: {"empty", "value", "budget", "status"}]
Results == {"ok", "encode", "remote", "budget", "decode", "transport", "degraded"}

ASSUME CallAssumption == None \notin Requests /\ None \notin Envelopes /\ None \notin Results

-----------------------------------------------------------------------------
(* The errors on the wire (wire_error.go, fail). *)

\* Mutations: the kind of an error is not encoded; the Error text is left out.
encodeWireErrorFlat(err) == "empty"
failWithoutText(err) == Envelope("", IF err = "budget" THEN "budget" ELSE "empty")

encodeWireError(err) == IF err = "budget" THEN "budget" ELSE "empty"

fail(err) == Envelope(IF err = "blank" THEN "" ELSE err, encodeWireError(err))

decodeWireError(payload) == IF payload = "budget" THEN "budget" ELSE "remote"

\* What the proxy makes of an envelope.  A void method looks at the error alone,
\* the others decode the payload, and Context degrades to "" on any failure.
ProxyResult(method, env, decodes) ==
  LET res == IF env.error # "" THEN decodeWireError(env.payload)
             ELSE IF method = "void" THEN "ok"
             ELSE IF env.payload = "value" /\ decodes THEN "ok"
             ELSE "decode"
  IN  IF method = "context" /\ res # "ok" THEN "degraded" ELSE res

\* What the proxy returns when there is no envelope.
ProxyFails(method, why) == IF method = "context" THEN "degraded" ELSE why

-----------------------------------------------------------------------------
CallInit ==
  /\ cpc = [c \in Clients |-> "idle"]
  /\ request = [c \in Clients |-> None]
  /\ known = [c \in Clients |-> FALSE]
  /\ hpc = [c \in Clients |-> "none"]
  /\ ret = [c \in Clients |-> "unrun"]
  /\ reply = [c \in Clients |-> None]
  /\ result = [c \in Clients |-> None]

Registered(srv, port) == plugged[srv] \in Setups /\ ports[plugged[srv]][port] # None

\* The proxy's call: the arguments are encoded and the envelope is sent, to a
\* server that leaves the Plugin service to this package.
Call(c, srv, port, method) ==
  /\ cpc[c] = "idle"
  /\ srv \in serving /\ plugged[srv] # "direct"
  /\ request' = [request EXCEPT ![c] = [srv |-> srv, port |-> port, method |-> method]]
  /\ known' = [known EXCEPT ![c] = Registered(srv, port)]
  /\ \/ /\ cpc' = [cpc EXCEPT ![c] = "waiting"]
        /\ hpc' = [hpc EXCEPT ![c] = "inflight"]
        /\ UNCHANGED result
     \/ /\ cpc' = [cpc EXCEPT ![c] = "done"]
        /\ result' = [result EXCEPT ![c] = ProxyFails(method, "encode")]
        /\ UNCHANGED hpc
  /\ UNCHANGED <<ret, reply>>

\* The router's Call: the lookup under the read lock, or the refusal.
Route(c) ==
  /\ exited = "no" /\ hpc[c] = "inflight" /\ request[c].srv \in live
  /\ LET srv == request[c].srv IN
       \/ /\ Registered(srv, request[c].port)
          /\ hpc' = [hpc EXCEPT ![c] = "routed"]
          /\ UNCHANGED reply
       \/ /\ ~Registered(srv, request[c].port)
          /\ hpc' = [hpc EXCEPT ![c] = "replied"]
          /\ reply' = [reply EXCEPT ![c] = IF plugged[srv] \in Setups
                                             THEN fail("unknownPort") ELSE GrpcStatus]
  /\ UNCHANGED <<cpc, request, known, ret, result>>

\* The skeleton's Call: arguments that do not decode, or a method it does not
\* know, fail before the real object is reached.
SkeletonRefuses(c) ==
  /\ exited = "no" /\ hpc[c] = "routed"
  /\ request[c].method # "context"
  /\ hpc' = [hpc EXCEPT ![c] = "replied"]
  /\ reply' = [reply EXCEPT ![c] = fail("text")]
  /\ UNCHANGED <<cpc, request, known, ret, result>>

\* Mutation of SkeletonRuns: the call stays routed and may be run again.
SkeletonRunsAgain(c, err) ==
  /\ exited = "no" /\ hpc[c] = "routed"
  /\ request[c].method = "context" => err = "nil"
  /\ ret' = [ret EXCEPT ![c] = err]
  /\ UNCHANGED <<cpc, request, known, hpc, reply, result>>

\* The skeleton's Call: the real object runs once and its outcome is encoded.
SkeletonRuns(c, err) ==
  /\ exited = "no" /\ hpc[c] = "routed"
  /\ request[c].method = "context" => err = "nil"
  /\ ret' = [ret EXCEPT ![c] = err]
  /\ hpc' = [hpc EXCEPT ![c] = "replied"]
  /\ \E env \in IF err # "nil" THEN {fail(err)}
                ELSE IF request[c].method = "void" THEN {Envelope("", "empty")}
                ELSE {Envelope("", "value"), fail("text")} :
       reply' = [reply EXCEPT ![c] = env]
  /\ UNCHANGED <<cpc, request, known, result>>

\* Mutation of Return: a gRPC error is waited out.
ReturnIgnoresStatus(c) ==
  /\ cpc[c] = "waiting" /\ hpc[c] = "replied"
  /\ reply[c] # GrpcStatus
  /\ cpc' = [cpc EXCEPT ![c] = "done"]
  /\ \E decodes \in BOOLEAN :
       result' = [result EXCEPT ![c] = ProxyResult(request[c].method, reply[c], decodes)]
  /\ UNCHANGED <<request, known, hpc, ret, reply>>

\* The reply reaches the proxy.
Return(c) ==
  /\ cpc[c] = "waiting" /\ hpc[c] = "replied"
  /\ cpc' = [cpc EXCEPT ![c] = "done"]
  /\ \/ /\ reply[c] = GrpcStatus
        /\ result' = [result EXCEPT ![c] = ProxyFails(request[c].method, "transport")]
     \/ /\ reply[c] # GrpcStatus
        /\ \E decodes \in BOOLEAN :
             result' = [result EXCEPT ![c] = ProxyResult(request[c].method, reply[c], decodes)]
  /\ UNCHANGED <<request, known, hpc, ret, reply>>

\* The peer is down, the context is done, or Close released the connection; the
\* server may still go on with the call.
CallLost(c) ==
  /\ cpc[c] = "waiting"
  /\ cpc' = [cpc EXCEPT ![c] = "done"]
  /\ result' = [result EXCEPT ![c] = ProxyFails(request[c].method, "transport")]
  /\ UNCHANGED <<request, known, hpc, ret, reply>>

CallStep ==
  \E c \in Clients :
    \/ \E srv \in Servers, port \in Ports : \E method \in Methods(port) : Call(c, srv, port, method)
    \/ Route(c)
    \/ SkeletonRefuses(c)
    \/ \E err \in Rets : SkeletonRuns(c, err)
    \/ Return(c)
    \/ CallLost(c)

\* The handler of a call refers to its server, stopped or not, until it returns.
HandlersKeepServers ==
  \A c \in Clients : hpc[c] = "routed" => request[c].srv \in live'

Init == RouterInit /\ CallInit

Next ==
  \/ RouterStep /\ HandlersKeepServers /\ UNCHANGED callVars
  \/ CallStep /\ UNCHANGED routerVars

Spec == Init /\ [][Next]_vars

(***************************************************************************)
(* Fairness.  gRPC dispatches what arrives and delivers a reply or an      *)
(* error, an exited process or a stopped server being an error; the Go     *)
(* runtime runs the cleanup of an object it has collected.  Nothing makes  *)
(* the real object return, or the process set up, serve or drop a server.  *)
(***************************************************************************)
PeerGone(c) == exited # "no" \/ request[c].srv \notin live

Fairness ==
  /\ \A c \in Clients :
       /\ WF_vars(Route(c) /\ UNCHANGED routerVars)
       /\ WF_vars(Return(c) /\ UNCHANGED routerVars)
       /\ WF_vars(CallLost(c) /\ PeerGone(c) /\ UNCHANGED routerVars)
  /\ \A srv \in Servers : WF_vars(release(srv) /\ UNCHANGED callVars)

FairSpec == Spec /\ Fairness

-----------------------------------------------------------------------------
\* Every variable holds a value of its type.
TypeOK ==
  /\ RouterTypeOK
  /\ cpc \in [Clients -> {"idle", "waiting", "done"}]
  /\ request \in [Clients -> Requests \cup {None}]
  /\ known \in [Clients -> BOOLEAN]
  /\ hpc \in [Clients -> {"none", "inflight", "routed", "replied"}]
  /\ ret \in [Clients -> Rets \cup {"unrun"}]
  /\ reply \in [Clients -> Envelopes \cup {None}]
  /\ result \in [Clients -> Results \cup {None}]

\* The calls implement RemoteCall: through router, skeleton and lost peers, the
\* real object runs a call at most once, and only a run makes a success.
Abstract == INSTANCE RemoteCall WITH
  Callers <- Clients, Outcomes <- Rets, Good <- {"nil", "blank"},
  Failures <- Results \ {"ok"},
  stage <- cpc, ran <- ret,
  told <- [c \in Clients |-> IF result[c] = None THEN "nothing" ELSE result[c]]

ImplementsRemoteCall == Abstract!Spec

\* A call that returns without error was executed by the real object and succeeded
\* there: no refusal, failed decoding or lost peer passes for success.  Only an
\* error whose text is empty, from a method that returns nothing else, does: the
\* Error field of its envelope is the one of a success.
SuccessWasRun ==
  \A c \in Clients : result[c] = "ok" =>
    \/ ret[c] = "nil"
    \/ ret[c] = "blank" /\ request[c].method = "void"

\* A *BudgetError stays one across the wire (wire_error.go), and nothing else
\* becomes one: a caller that gets the plugin's answer sees the kind it had.
BudgetSurvives ==
  \A c \in Clients : cpc[c] = "done" =>
    /\ result[c] = "budget" => ret[c] = "budget"
    /\ ret[c] = "budget" => result[c] \in {"budget", "transport"}

\* A call sent after its port was registered on the server's router is never
\* refused for an unknown port or a missing service, however registrations of
\* other ports and routers go on meanwhile.
RegisteredPortAnswers ==
  \A c \in Clients : known[c] => reply[c] \notin {fail("unknownPort"), GrpcStatus}

-----------------------------------------------------------------------------
\* The reply is one that the server gives for what the real object returned.
ReplyFits(c) ==
  /\ ret[c] = "unrun" => reply[c] \in {fail("unknownPort"), fail("text"), GrpcStatus}
  /\ ret[c] \in {"text", "blank", "budget"} =>
       reply[c] = fail(ret[c]) /\ request[c].method # "context"
  /\ ret[c] = "nil" =>
       reply[c] \in IF request[c].method = "void" THEN {Envelope("", "empty")}
                    ELSE {Envelope("", "value"), fail("text")}

\* The result is one that the proxy gives for how far the call had come.
ResultFits(c) ==
  \/ hpc[c] = "none" /\ result[c] = ProxyFails(request[c].method, "encode")
  \/ hpc[c] # "none" /\ result[c] = ProxyFails(request[c].method, "transport")
  \/ /\ hpc[c] = "replied" /\ reply[c] # GrpcStatus
     /\ \E decodes \in BOOLEAN : result[c] = ProxyResult(request[c].method, reply[c], decodes)

\* One call: how far client and server have come, and what each has by then.
CallOK(c) ==
  /\ cpc[c] = "idle" => hpc[c] = "none" /\ request[c] = None
  /\ cpc[c] # "idle" => request[c] \in Requests
  /\ cpc[c] = "waiting" => hpc[c] # "none"
  /\ cpc[c] # "done" => result[c] = None
  /\ cpc[c] = "done" => ResultFits(c)
  /\ hpc[c] # "replied" => ret[c] = "unrun" /\ reply[c] = None
  /\ hpc[c] = "replied" => ReplyFits(c)
  /\ known[c] => /\ cpc[c] # "idle" /\ Registered(request[c].srv, request[c].port)
                 /\ reply[c] \notin {fail("unknownPort"), GrpcStatus}

\* The inductive invariant: the routers', and each call's own.
CallInv == TypeOK /\ RouterInv /\ \A c \in Clients : CallOK(c)

\* A proxy's call returns once the server has answered it, or is stopped and gone,
\* or the process is: "a peer being down surfaces as the gRPC error".
CallReturns ==
  \A c \in Clients :
    (cpc[c] = "waiting" /\ (hpc[c] = "replied" \/ PeerGone(c))) ~> (cpc[c] = "done")
=============================================================================
