--------------------------- MODULE PluginCallProofs ---------------------------
(***************************************************************************)
(* Machine-checked proofs about the routers of a plugin process and the    *)
(* calls through them (PluginRouter, PluginCall), for any servers,         *)
(* goroutines, ports and clients.                                          *)
(***************************************************************************)
EXTENDS PluginCall, TLAPS

(***************************************************************************)
(* The routers.                                                            *)
(***************************************************************************)

LEMMA InitRouter ==
  ASSUME RouterInit
  PROVE  RouterInv
<1>1. RouterTypeOK
  BY DEF RouterInit, RouterTypeOK
<1> QED
  BY <1>1, RouterAssumption DEF RouterInit, RouterInv, NoSecondRouter, WinnerServes

\* claim: a server that is live and not claimed has no router, and nobody holds it.
LEMMA ClaimStep ==
  ASSUME RouterInv, NEW s \in Setups, NEW srv \in Servers, claim(s, srv)
  PROVE  RouterInv'
<1>1. RouterTypeOK'
  <2>1. already' \subseteq Setups
    BY DEF claim, NoteService, RouterInv, RouterTypeOK
  <2>2. claims' \subseteq Servers /\ target' \in [Setups -> Servers \cup {None}]
    BY DEF claim, RouterInv, RouterTypeOK
  <2>3. spc' \in [Setups -> {"idle", "claimed", "refused", "router"}]
    BY DEF claim, RouterInv, RouterTypeOK
  <2> QED
    BY <2>1, <2>2, <2>3 DEF claim, RouterInv, RouterTypeOK
<1>2. UNCHANGED <<live, plugged, serving, exited, ports, won>> /\ claims \subseteq claims'
  BY DEF claim
<1>3. CASE srv \in claims
  <2>1. spc' = [spc EXCEPT ![s] = "refused"] /\ target' = target /\ claims' = claims
    BY <1>3 DEF claim
  <2>2. \A t \in Setups : spc'[t] = "claimed" => spc[t] = "claimed" /\ target'[t] = target[t]
    BY <2>1 DEF RouterInv, RouterTypeOK
  <2> QED
    BY <1>1, <1>2, <2>1, <2>2 DEF RouterInv, Holds, NoSecondRouter, WinnerServes
<1>4. CASE srv \notin claims
  <2>1. /\ spc' = [spc EXCEPT ![s] = "claimed"] /\ target' = [target EXCEPT ![s] = srv]
        /\ claims' = claims \cup {srv} /\ srv \in live
    BY <1>4 DEF claim
  <2>2. /\ spc'[s] = "claimed" /\ target'[s] = srv
        /\ \A t \in Setups \ {s} : spc'[t] = spc[t] /\ target'[t] = target[t]
    BY <2>1 DEF RouterInv, RouterTypeOK
  <2>3. plugged[srv] \notin Setups /\ \A t \in Setups : spc[t] = "claimed" => target[t] # srv
    BY <1>4, <2>1 DEF RouterInv, Holds
  <2> QED
    BY <1>1, <1>2, <2>1, <2>2, <2>3 DEF RouterInv, Holds, NoSecondRouter, WinnerServes
<1> QED
  BY <1>3, <1>4

\* The registration finds no other router: whoever claimed holds the server.
LEMMA RegisterStep ==
  ASSUME RouterInv, NEW s \in Setups, RegisterPluginServer(s)
  PROVE  RouterInv'
<1> DEFINE srv == target[s]
<1>1. spc[s] = "claimed" /\ srv \in claims /\ srv \in live /\ plugged[srv] \notin Setups
  BY DEF RegisterPluginServer, RouterInv, Holds
<1>2. srv \in Servers /\ plugged[srv] \in {None, "direct"}
  BY <1>1 DEF RouterInv, RouterTypeOK
<1>3. UNCHANGED <<claims, live, serving, target, ports, won, already>>
  BY DEF RegisterPluginServer
<1>4. CASE UNCHANGED <<plugged, spc>> /\ exited' \in {"serving", "direct", "directMeanwhile"}
  BY <1>3, <1>4 DEF RouterInv, RouterTypeOK, Holds, NoSecondRouter, WinnerServes
<1>5. CASE /\ plugged' = [plugged EXCEPT ![srv] = s] /\ spc' = [spc EXCEPT ![s] = "router"]
           /\ exited' = exited
  <2>1. RouterTypeOK'
    BY <1>2, <1>3, <1>5 DEF RouterInv, RouterTypeOK
  <2>2. /\ \A v \in Servers \ {srv} : plugged'[v] = plugged[v]
        /\ \A t \in Setups : spc'[t] = "claimed" => spc[t] = "claimed" /\ t # s
    BY <1>5 DEF RouterInv, RouterTypeOK
  <2>3. \A t \in Setups : spc'[t] = "claimed" => target[t] \in Servers /\ target[t] # srv
    BY <1>1, <2>2 DEF RouterInv, RouterTypeOK, Holds
  <2>4. \A t \in Setups : spc'[t] = "claimed" => Holds(t)'
    BY <1>3, <2>2, <2>3 DEF RouterInv, Holds
  <2>5. \A v \in live' : plugged'[v] \in Setups => v \in claims'
    BY <1>1, <1>3, <2>2 DEF RouterInv, RouterTypeOK
  <2> QED
    BY <1>3, <1>5, <2>1, <2>2, <2>4, <2>5 DEF RouterInv, NoSecondRouter, WinnerServes
<1> QED
  BY <1>1, <1>2, <1>4, <1>5 DEF RegisterPluginServer

\* add: a port that is taken is left to its owner.
LEMMA AddStep ==
  ASSUME RouterInv, NEW s \in Setups, NEW r \in Setups, NEW port \in Ports, add(s, r, port)
  PROVE  RouterInv'
<1>1. UNCHANGED <<claims, live, plugged, serving, exited, spc, target, already>>
  BY DEF add
<1>2. /\ ports' = [ports EXCEPT ![r][port] = s] /\ ports[r][port] = None
      /\ won' = [won EXCEPT ![s] = @ \cup {<<r, port>>}]
  BY DEF add
<1>3. /\ ports' \in [Setups -> [Ports -> Setups \cup {None}]]
      /\ won' \in [Setups -> SUBSET (Setups \X Ports)]
  BY <1>2 DEF RouterInv, RouterTypeOK
<1>4. RouterTypeOK'
  BY <1>1, <1>3 DEF RouterInv, RouterTypeOK
<1>5. ASSUME NEW t \in Setups, NEW rp \in won'[t]
      PROVE  ports'[rp[1]][rp[2]] = t
  <2>1. rp \in Setups \X Ports
    BY <1>3
  <2>2. CASE rp \in won[t]
    <3>1. ports[rp[1]][rp[2]] = t /\ t # None
      BY <2>2, RouterAssumption DEF RouterInv, WinnerServes
    <3>2. ~(rp[1] = r /\ rp[2] = port)
      BY <1>2, <3>1
    <3> QED
      BY <1>2, <2>1, <3>1, <3>2 DEF RouterInv, RouterTypeOK
  <2>3. CASE rp \notin won[t]
    <3>1. t = s /\ rp = <<r, port>>
      BY <1>2, <2>3 DEF RouterInv, RouterTypeOK
    <3> QED
      BY <1>2, <3>1 DEF RouterInv, RouterTypeOK
  <2> QED
    BY <2>2, <2>3
<1> QED
  BY <1>1, <1>4, <1>5 DEF RouterInv, Holds, NoSecondRouter, WinnerServes

LEMMA ProcessStep ==
  ASSUME RouterInv, NEW srv \in Servers,
         release(srv) \/ Serve(srv) \/ RegisterDirectly(srv) \/ Collect(srv)
  PROVE  RouterInv'
<1>1. CASE release(srv)
  BY <1>1 DEF release, RouterInv, RouterTypeOK, Holds, NoSecondRouter, WinnerServes
<1>2. CASE Serve(srv)
  BY <1>2 DEF Serve, RouterInv, RouterTypeOK, Holds, NoSecondRouter, WinnerServes
<1>3. CASE RegisterDirectly(srv)
  <2>1. RouterTypeOK'
    BY <1>3 DEF RegisterDirectly, RouterInv, RouterTypeOK
  <2>2. \A v \in Servers : plugged'[v] \in Setups => plugged'[v] = plugged[v]
    BY <1>3, RouterAssumption DEF RegisterDirectly, RouterInv, RouterTypeOK
  <2> QED
    BY <1>3, <2>1, <2>2
       DEF RegisterDirectly, RouterInv, RouterTypeOK, Holds, NoSecondRouter, WinnerServes
<1>4. CASE Collect(srv)
  BY <1>4 DEF Collect, RouterInv, RouterTypeOK, Holds, NoSecondRouter, WinnerServes
<1> QED
  BY <1>1, <1>2, <1>3, <1>4

LEMMA RouterStepKeeps ==
  ASSUME RouterInv, RouterStep
  PROVE  RouterInv'
BY ClaimStep, RegisterStep, AddStep, ProcessStep DEF RouterStep

\* A registration lasts: no step takes a router off its server or a skeleton off
\* its port.
LEMMA RegisteredStays ==
  ASSUME RouterInv, RouterStep, NEW srv \in Servers, NEW port \in Ports, Registered(srv, port)
  PROVE  Registered(srv, port)'
<1> DEFINE r == plugged[srv]
<1>1. r \in Setups /\ ports[r][port] # None /\ r # None
  BY RouterAssumption DEF Registered
<1>2. plugged'[srv] = r
  BY <1>1 DEF RouterStep, claim, RegisterPluginServer, add, release, Serve, RegisterDirectly,
              Collect, RouterInv, RouterTypeOK
<1>3. ports'[r][port] # None
  <2>1. CASE ports' = ports
    BY <1>1, <2>1
  <2>2. CASE \E s, q \in Setups, p \in Ports : add(s, q, p)
    BY <1>1, <2>2, RouterAssumption DEF add, RouterInv, RouterTypeOK
  <2> QED
    BY <2>1, <2>2 DEF RouterStep, claim, RegisterPluginServer, release, Serve,
                      RegisterDirectly, Collect
<1> QED
  BY <1>1, <1>2, <1>3 DEF Registered

-----------------------------------------------------------------------------
(***************************************************************************)
(* The envelopes.                                                          *)
(***************************************************************************)

\* fail and Envelope give well-typed envelopes, and only fail("blank") has an empty
\* text among the failures.
LEMMA FailType ==
  /\ \A err \in {"text", "blank", "budget", "unknownPort"} : fail(err) \in Envelopes
  /\ \A payload \in {"empty", "value"} : Envelope("", payload) \in Envelopes
  /\ GrpcStatus \in Envelopes
BY DEF fail, encodeWireError, Envelope, Envelopes, GrpcStatus

\* A refusal of the router is told from every other answer.
LEMMA RefusalsAreApart ==
  /\ \A err \in {"text", "blank", "budget"} : fail(err) \notin {fail("unknownPort"), GrpcStatus}
  /\ \A payload \in {"empty", "value"} :
       Envelope("", payload) \notin {fail("unknownPort"), GrpcStatus}
BY DEF fail, encodeWireError, Envelope, GrpcStatus

LEMMA ProxyTypes ==
  ASSUME NEW method, NEW env, NEW decodes \in BOOLEAN
  PROVE  /\ ProxyResult(method, env, decodes) \in Results \ {"encode", "transport"}
         /\ ProxyFails(method, "encode") \in Results \ {"ok", "budget", "transport"}
         /\ ProxyFails(method, "transport") \in Results \ {"ok", "budget", "encode"}
BY DEF ProxyResult, ProxyFails, decodeWireError, Results

-----------------------------------------------------------------------------
(***************************************************************************)
(* The calls.                                                              *)
(***************************************************************************)

LEMMA InitCall ==
  ASSUME Init
  PROVE  CallInv
<1>1. RouterInv
  BY InitRouter DEF Init
<1>2. TypeOK
  BY <1>1 DEF Init, CallInit, TypeOK, RouterInv
<1>3. \A c \in Clients : CallOK(c)
  BY DEF Init, CallInit, CallOK
<1> QED
  BY <1>1, <1>2, <1>3 DEF CallInv

\* While the process sets itself up, the calls keep what they have.
LEMMA RouterStepCalls ==
  ASSUME CallInv, RouterStep, UNCHANGED callVars
  PROVE  CallInv'
<1>1. RouterInv'
  BY RouterStepKeeps DEF CallInv
<1>2. TypeOK'
  BY <1>1 DEF CallInv, TypeOK, RouterInv, callVars
<1>3. ASSUME NEW c \in Clients
      PROVE  CallOK(c)'
  <2>1. CallOK(c)
    BY DEF CallInv
  <2>2. known[c] => Registered(request[c].srv, request[c].port)'
    <3> SUFFICES ASSUME known[c]
                 PROVE  Registered(request[c].srv, request[c].port)'
      OBVIOUS
    <3>1. request[c] \in Requests /\ Registered(request[c].srv, request[c].port)
      BY <2>1 DEF CallOK
    <3>2. request[c].srv \in Servers /\ request[c].port \in Ports
      BY <3>1 DEF Requests
    <3>3. Registered(request[c].srv, request[c].port)'
      BY <3>1, <3>2, RegisteredStays DEF CallInv, callVars, Registered
    <3> QED
      BY <3>3
  <2> QED
    BY <2>1, <2>2 DEF CallOK, ReplyFits, ResultFits, callVars
<1> QED
  BY <1>1, <1>2, <1>3 DEF CallInv

\* A step of client c leaves the calls of the others as they are.
LEMMA OtherCalls ==
  ASSUME CallInv, UNCHANGED routerVars, NEW c \in Clients, NEW d \in Clients \ {c},
         UNCHANGED <<cpc[d], request[d], known[d], hpc[d], ret[d], reply[d], result[d]>>
  PROVE  CallOK(d)'
BY DEF CallInv, CallOK, ReplyFits, ResultFits, Registered, routerVars

LEMMA IssueStep ==
  ASSUME CallInv, UNCHANGED routerVars, NEW c \in Clients, NEW srv \in Servers,
         NEW port \in Ports, NEW method \in Methods(port), Call(c, srv, port, method)
  PROVE  CallInv'
<1> DEFINE req == [srv |-> srv, port |-> port, method |-> method]
<1>1. RouterInv' /\ RouterTypeOK'
  BY DEF CallInv, RouterInv, RouterTypeOK, Holds, NoSecondRouter, WinnerServes, routerVars
<1>2. req \in Requests /\ req.srv = srv /\ req.port = port /\ req.method = method
  BY DEF Requests, Methods
<1>3. ProxyFails(method, "encode") \in Results
  BY ProxyTypes
<1>4. Registered(srv, port) \in BOOLEAN
  BY DEF Registered
<1>5. TypeOK'
  BY <1>1, <1>2, <1>3, <1>4 DEF CallInv, TypeOK, Call
<1>6. CallOK(c) /\ cpc[c] = "idle" /\ hpc[c] = "none" /\ ret[c] = "unrun" /\ reply[c] = None
  BY DEF CallInv, CallOK, Call
<1>7. /\ request'[c] = req /\ known'[c] = Registered(srv, port)
      /\ ret'[c] = ret[c] /\ reply'[c] = reply[c]
      /\ \/ cpc'[c] = "waiting" /\ hpc'[c] = "inflight" /\ result'[c] = result[c]
         \/ /\ cpc'[c] = "done" /\ hpc'[c] = "none"
            /\ result'[c] = ProxyFails(method, "encode")
  BY <1>6 DEF CallInv, TypeOK, Call
<1>8. CallOK(c)'
  <2>1. None \notin {fail("unknownPort"), GrpcStatus}
    BY FailType, CallAssumption
  <2>2. known'[c] => Registered(request[c].srv, request[c].port)'
    BY <1>2, <1>7 DEF Registered, routerVars
  <2> QED
    BY <1>2, <1>6, <1>7, <2>1, <2>2 DEF CallOK, ResultFits
<1>9. \A d \in Clients \ {c} : CallOK(d)'
  BY OtherCalls DEF CallInv, TypeOK, Call
<1> QED
  BY <1>1, <1>5, <1>8, <1>9 DEF CallInv

\* Only a call that is in flight, or routed, gets a reply.
LEMMA RouteStep ==
  ASSUME CallInv, UNCHANGED routerVars, NEW c \in Clients, Route(c)
  PROVE  CallInv'
<1>1. RouterInv' /\ RouterTypeOK'
  BY DEF CallInv, RouterInv, RouterTypeOK, Holds, NoSecondRouter, WinnerServes, routerVars
<1>2. /\ CallOK(c) /\ hpc[c] = "inflight" /\ cpc[c] # "idle"
      /\ ret[c] = "unrun" /\ reply[c] = None
  BY DEF CallInv, CallOK, Route
<1>3. /\ UNCHANGED <<cpc, request, known, ret, result>>
      /\ \/ hpc' = [hpc EXCEPT ![c] = "routed"] /\ reply' = reply
         \/ /\ ~Registered(request[c].srv, request[c].port)
            /\ hpc' = [hpc EXCEPT ![c] = "replied"]
            /\ \E env \in {fail("unknownPort"), GrpcStatus} : reply' = [reply EXCEPT ![c] = env]
  BY DEF Route
<1>4. TypeOK'
  <2>1. fail("unknownPort") \in Envelopes /\ GrpcStatus \in Envelopes
    BY FailType
  <2>2. /\ hpc' \in [Clients -> {"none", "inflight", "routed", "replied"}]
        /\ reply' \in [Clients -> Envelopes \cup {None}]
    BY <1>3, <2>1 DEF CallInv, TypeOK
  <2> QED
    BY <1>1, <1>3, <2>2 DEF CallInv, TypeOK
<1>5. \/ hpc'[c] = "routed" /\ reply'[c] = None
      \/ /\ ~Registered(request[c].srv, request[c].port)
         /\ hpc'[c] = "replied" /\ reply'[c] \in {fail("unknownPort"), GrpcStatus}
  BY <1>2, <1>3 DEF CallInv, TypeOK
<1>6. ResultFits(c) => ResultFits(c)'
  BY <1>2, <1>3, <1>5 DEF ResultFits
<1>7. hpc'[c] = "replied" => ReplyFits(c)'
  BY <1>2, <1>3, <1>5 DEF ReplyFits
<1>8. CallOK(c)'
  <2>1. None \notin {fail("unknownPort"), GrpcStatus}
    BY FailType, CallAssumption
  <2>2. known[c] => Registered(request[c].srv, request[c].port)
    BY <1>2 DEF CallOK
  <2>3. Registered(request[c].srv, request[c].port)' = Registered(request[c].srv, request[c].port)
    BY <1>3 DEF Registered, routerVars
  <2> QED
    BY <1>2, <1>3, <1>5, <1>6, <1>7, <2>1, <2>2, <2>3 DEF CallOK
<1>9. \A d \in Clients \ {c} : CallOK(d)'
  BY <1>3, OtherCalls DEF CallInv, TypeOK
<1> QED
  BY <1>1, <1>4, <1>8, <1>9 DEF CallInv

LEMMA SkeletonStep ==
  ASSUME CallInv, UNCHANGED routerVars, NEW c \in Clients,
         SkeletonRefuses(c) \/ \E err \in Rets : SkeletonRuns(c, err)
  PROVE  CallInv'
<1>1. RouterInv' /\ RouterTypeOK'
  BY DEF CallInv, RouterInv, RouterTypeOK, Holds, NoSecondRouter, WinnerServes, routerVars
<1>2. /\ CallOK(c) /\ hpc[c] = "routed" /\ cpc[c] # "idle"
      /\ ret[c] = "unrun" /\ reply[c] = None
  BY DEF CallInv, CallOK, SkeletonRefuses, SkeletonRuns
<1>3. PICK err \in Rets \cup {"unrun"}, env \in Envelopes :
        /\ ret' = [ret EXCEPT ![c] = err] /\ reply' = [reply EXCEPT ![c] = env]
        /\ \/ err = "unrun" /\ env = fail("text")
           \/ /\ err \in Rets \ {"nil"} /\ env = fail(err) /\ request[c].method # "context"
           \/ /\ err = "nil"
              /\ env \in IF request[c].method = "void" THEN {Envelope("", "empty")}
                         ELSE {Envelope("", "value"), fail("text")}
  <2>1. CASE SkeletonRefuses(c)
    <3>1. ret' = [ret EXCEPT ![c] = "unrun"]
      BY <1>2, <2>1 DEF SkeletonRefuses, CallInv, TypeOK
    <3> QED
      BY <2>1, <3>1, FailType DEF SkeletonRefuses
  <2>2. CASE \E err \in Rets : SkeletonRuns(c, err)
    <3>1. PICK err \in Rets : SkeletonRuns(c, err)
      BY <2>2
    <3>2. CASE err # "nil"
      BY <3>1, <3>2, FailType DEF SkeletonRuns, Rets
    <3>3. CASE err = "nil"
      BY <3>1, <3>3, FailType DEF SkeletonRuns
    <3> QED
      BY <3>2, <3>3
  <2> QED
    BY <2>1, <2>2
<1>4. UNCHANGED <<cpc, request, known, result>> /\ hpc' = [hpc EXCEPT ![c] = "replied"]
  BY DEF SkeletonRefuses, SkeletonRuns
<1>5. TypeOK'
  BY <1>1, <1>3, <1>4 DEF CallInv, TypeOK
<1>6. hpc'[c] = "replied" /\ ret'[c] = err /\ reply'[c] = env
  BY <1>3, <1>4 DEF CallInv, TypeOK
<1>7. env \notin {fail("unknownPort"), GrpcStatus}
  BY <1>3, RefusalsAreApart DEF Rets
<1>8. ReplyFits(c)'
  BY <1>3, <1>4, <1>6 DEF ReplyFits, Rets
<1>9. ResultFits(c) => ResultFits(c)'
  BY <1>2, <1>4, <1>6 DEF ResultFits
<1>10. CallOK(c)'
  BY <1>2, <1>4, <1>6, <1>7, <1>8, <1>9 DEF CallOK, Registered, routerVars
<1>11. \A d \in Clients \ {c} : CallOK(d)'
  BY <1>3, <1>4, OtherCalls DEF CallInv, TypeOK
<1> QED
  BY <1>1, <1>5, <1>10, <1>11 DEF CallInv

LEMMA FinishStep ==
  ASSUME CallInv, UNCHANGED routerVars, NEW c \in Clients, Return(c) \/ CallLost(c)
  PROVE  CallInv'
<1>1. RouterInv' /\ RouterTypeOK'
  BY DEF CallInv, RouterInv, RouterTypeOK, Holds, NoSecondRouter, WinnerServes, routerVars
<1>2. CallOK(c) /\ cpc[c] = "waiting" /\ hpc[c] # "none"
  BY DEF CallInv, CallOK, Return, CallLost
<1>3. /\ UNCHANGED <<request, known, hpc, ret, reply>>
      /\ cpc' = [cpc EXCEPT ![c] = "done"]
  BY DEF Return, CallLost
<1>4. PICK res \in Results :
        /\ result' = [result EXCEPT ![c] = res]
        /\ \/ res = ProxyFails(request[c].method, "transport")
           \/ /\ hpc[c] = "replied" /\ reply[c] # GrpcStatus
              /\ \E decodes \in BOOLEAN : res = ProxyResult(request[c].method, reply[c], decodes)
  BY ProxyTypes DEF Return, CallLost
<1>5. TypeOK'
  BY <1>1, <1>3, <1>4 DEF CallInv, TypeOK
<1>6. cpc'[c] = "done" /\ result'[c] = res
  BY <1>3, <1>4 DEF CallInv, TypeOK
<1>7. ResultFits(c)'
  BY <1>2, <1>3, <1>4, <1>6 DEF ResultFits
<1>8. CallOK(c)'
  BY <1>2, <1>3, <1>6, <1>7 DEF CallOK, ReplyFits, Registered, routerVars
<1>9. \A d \in Clients \ {c} : CallOK(d)'
  BY <1>3, <1>4, OtherCalls DEF CallInv, TypeOK
<1> QED
  BY <1>1, <1>5, <1>8, <1>9 DEF CallInv

\* The inductive invariant holds of every behaviour.
THEOREM Invariance == Spec => []CallInv
<1>1. ASSUME CallInv, [Next]_vars
      PROVE  CallInv'
  <2>1. CASE UNCHANGED vars
    <3>1. RouterInv' /\ TypeOK'
      BY <1>1, <2>1 DEF vars, routerVars, callVars, CallInv, TypeOK, RouterInv, RouterTypeOK,
                        Holds, NoSecondRouter, WinnerServes
    <3>2. \A c \in Clients : CallOK(c)'
      BY <1>1, <2>1 DEF vars, routerVars, callVars, CallInv, CallOK, ReplyFits, ResultFits,
                        Registered
    <3> QED
      BY <3>1, <3>2 DEF CallInv
  <2>2. CASE RouterStep /\ UNCHANGED callVars
    BY <1>1, <2>2, RouterStepCalls
  <2>3. CASE CallStep /\ UNCHANGED routerVars
    BY <1>1, <2>3, IssueStep, RouteStep, SkeletonStep, FinishStep DEF CallStep
  <2> QED
    BY <1>1, <2>1, <2>2, <2>3 DEF Next
<1> QED
  BY InitCall, <1>1, PTL DEF Spec

-----------------------------------------------------------------------------
(***************************************************************************)
(* What the invariant says.                                                *)
(***************************************************************************)

\* Every variable of PluginRouter and PluginCall keeps its type.
THEOREM TypeCorrect == Spec => []TypeOK
<1>1. CallInv => TypeOK
  BY DEF CallInv
<1> QED
  BY Invariance, <1>1, PTL

\* NewPluginRouter: any number of goroutines on any servers, collected and created
\* in any order, never take the process down with a second registration.
THEOREM RoutersNeverMeet == Spec => []NoSecondRouter
<1>1. CallInv => NoSecondRouter
  BY DEF CallInv, RouterInv
<1> QED
  BY Invariance, <1>1, PTL

\* add: whoever got a nil error keeps the port.
THEOREM WinnersServe == Spec => []WinnerServes
<1>1. CallInv => WinnerServes
  BY DEF CallInv, RouterInv
<1> QED
  BY Invariance, <1>1, PTL

\* A reply that the proxy takes for success was given for a run that succeeded, or
\* for a blank error of a void method.
LEMMA OkWasRun ==
  ASSUME NEW c \in Clients, CallOK(c), ret[c] \in Rets \cup {"unrun"},
         hpc[c] = "replied", NEW decodes \in BOOLEAN,
         ProxyResult(request[c].method, reply[c], decodes) = "ok"
  PROVE  ret[c] = "nil" \/ (ret[c] = "blank" /\ request[c].method = "void")
<1>1. ReplyFits(c)
  BY DEF CallOK
<1>2. reply[c].error = "" /\ (request[c].method # "void" => reply[c].payload = "value")
  BY DEF ProxyResult, decodeWireError
<1>3. /\ \A err \in {"text", "budget", "unknownPort"} : fail(err).error # ""
      /\ GrpcStatus.error # ""
  BY DEF fail, Envelope, GrpcStatus
<1>4. fail("blank").payload # "value"
  BY DEF fail, Envelope, encodeWireError
<1>5. ret[c] \notin {"unrun", "text", "budget"}
  BY <1>1, <1>2, <1>3 DEF ReplyFits
<1>6. ret[c] = "blank" => request[c].method = "void"
  BY <1>1, <1>2, <1>4 DEF ReplyFits
<1> QED
  BY <1>5, <1>6 DEF Rets

\* The proxies: no refusal, failed decoding or lost peer passes for success.
THEOREM SuccessIsARun == Spec => []SuccessWasRun
<1>1. ASSUME CallInv, NEW c \in Clients, result[c] = "ok"
      PROVE  ret[c] = "nil" \/ (ret[c] = "blank" /\ request[c].method = "void")
  <2>1. CallOK(c) /\ ret[c] \in Rets \cup {"unrun"} /\ cpc[c] \in {"idle", "waiting", "done"}
    BY <1>1 DEF CallInv, TypeOK
  <2>2. result[c] # None
    BY <1>1, CallAssumption DEF Results
  <2>3. cpc[c] = "done" /\ ResultFits(c)
    BY <2>1, <2>2 DEF CallOK
  <2>4. /\ ProxyFails(request[c].method, "encode") # "ok"
        /\ ProxyFails(request[c].method, "transport") # "ok"
    BY DEF ProxyFails
  <2>5. PICK decodes \in BOOLEAN :
          hpc[c] = "replied" /\ result[c] = ProxyResult(request[c].method, reply[c], decodes)
    BY <1>1, <2>3, <2>4 DEF ResultFits
  <2> QED
    BY <1>1, <2>1, <2>5, OkWasRun
<1>2. CallInv => SuccessWasRun
  BY <1>1 DEF SuccessWasRun
<1> QED
  BY Invariance, <1>2, PTL

\* wire_error.go: a *BudgetError that the plugin's answer carries arrives as one,
\* and no other outcome does.
THEOREM BudgetErrorSurvives == Spec => []BudgetSurvives
<1>1. ASSUME CallInv, NEW c \in Clients, cpc[c] = "done"
      PROVE  /\ result[c] = "budget" => ret[c] = "budget"
             /\ ret[c] = "budget" => result[c] \in {"budget", "transport"}
  <2>1. CallOK(c) /\ ret[c] \in Rets \cup {"unrun"}
    BY <1>1 DEF CallInv, TypeOK
  <2>2. ResultFits(c) /\ (hpc[c] = "replied" => ReplyFits(c))
    BY <1>1, <2>1 DEF CallOK
  <2>3. ASSUME result[c] = "budget"
        PROVE  ret[c] = "budget"
    <3>1. hpc[c] = "replied" /\ reply[c].payload = "budget"
      BY <2>2, <2>3 DEF ResultFits, ProxyFails, ProxyResult, decodeWireError
    <3>2. /\ \A err \in {"text", "blank", "unknownPort"} : fail(err).payload # "budget"
          /\ GrpcStatus.payload # "budget"
          /\ \A payload \in {"empty", "value"} : Envelope("", payload).payload # "budget"
      BY DEF fail, Envelope, GrpcStatus, encodeWireError
    <3> QED
      BY <2>1, <2>2, <3>1, <3>2 DEF ReplyFits, Rets
  <2>4. ASSUME ret[c] = "budget"
        PROVE  result[c] \in {"budget", "transport"}
    <3>1. hpc[c] = "replied" /\ reply[c] = fail("budget") /\ request[c].method # "context"
      BY <2>1, <2>2, <2>4 DEF CallOK, ReplyFits
    <3>2. reply[c].error # "" /\ reply[c].payload = "budget"
      BY <3>1 DEF fail, Envelope, encodeWireError
    <3> QED
      BY <2>2, <3>1, <3>2 DEF ResultFits, ProxyFails, ProxyResult, decodeWireError
  <2> QED
    BY <2>3, <2>4
<1>2. CallInv => BudgetSurvives
  BY <1>1 DEF BudgetSurvives
<1> QED
  BY Invariance, <1>2, PTL

\* The router's Call: a port that was registered when the call was sent is still
\* registered when the call is looked up.
THEOREM RegisteredPortsAnswer == Spec => []RegisteredPortAnswers
<1>1. CallInv => RegisteredPortAnswers
  BY DEF CallInv, CallOK, RegisteredPortAnswers
<1> QED
  BY Invariance, <1>1, PTL

-----------------------------------------------------------------------------
(***************************************************************************)
(* The refinement.                                                         *)
(***************************************************************************)

\* What a client has been told, in the terms of RemoteCall.
Told == [c \in Clients |-> IF result[c] = None THEN "nothing" ELSE result[c]]

\* A step that gives client c a result tells c, and nobody else.
LEMMA ToldOne ==
  ASSUME CallInv, NEW c \in Clients, NEW res \in Results, result' = [result EXCEPT ![c] = res]
  PROVE  Told' = [Told EXCEPT ![c] = res]
BY CallAssumption DEF CallInv, TypeOK, Told

\* A finished call succeeds on a good run, or fails.
LEMMA FinishRefines ==
  ASSUME CallInv, NEW c \in Clients, Return(c) \/ CallLost(c)
  PROVE  Abstract!Next
<1>1. CallOK(c) /\ cpc[c] = "waiting" /\ ret[c] \in Rets \cup {"unrun"}
  BY DEF CallInv, TypeOK, Return, CallLost
<1>2. cpc' = [cpc EXCEPT ![c] = "done"] /\ ret' = ret
  BY DEF Return, CallLost
<1>3. PICK res \in Results :
        /\ result' = [result EXCEPT ![c] = res]
        /\ res = "ok" => ret[c] \in {"nil", "blank"}
  <2>1. CASE result' = [result EXCEPT ![c] = ProxyFails(request[c].method, "transport")]
    BY <2>1, ProxyTypes
  <2>2. CASE /\ hpc[c] = "replied"
             /\ \E decodes \in BOOLEAN :
                  result' = [result EXCEPT ![c] = ProxyResult(request[c].method, reply[c], decodes)]
    BY <1>1, <2>2, ProxyTypes, OkWasRun
  <2> QED
    BY <2>1, <2>2 DEF Return, CallLost
<1>4. Told' = [Told EXCEPT ![c] = res]
  BY <1>3, ToldOne
<1>5. CASE res = "ok"
  <2>1. Abstract!Succeed(c)
    BY <1>1, <1>2, <1>3, <1>4, <1>5 DEF Abstract!Succeed, Told
  <2> QED
    BY <2>1 DEF Abstract!Next
<1>6. CASE res # "ok"
  <2>1. Abstract!Fail(c)
    BY <1>1, <1>2, <1>4, <1>6 DEF Abstract!Fail, Told
  <2> QED
    BY <2>1 DEF Abstract!Next
<1> QED
  BY <1>5, <1>6

\* The call itself: it is issued, or fails at once.
LEMMA IssueRefines ==
  ASSUME CallInv, NEW c \in Clients, NEW srv \in Servers, NEW port \in Ports,
         NEW method \in Methods(port), Call(c, srv, port, method)
  PROVE  Abstract!Next
<1>1. cpc[c] = "idle" /\ ret' = ret
  BY DEF Call
<1>2. CASE cpc' = [cpc EXCEPT ![c] = "waiting"] /\ result' = result
  <2>1. Abstract!Issue(c)
    BY <1>1, <1>2 DEF Abstract!Issue
  <2> QED
    BY <2>1 DEF Abstract!Next
<1>3. CASE /\ cpc' = [cpc EXCEPT ![c] = "done"]
           /\ result' = [result EXCEPT ![c] = ProxyFails(method, "encode")]
  <2>1. ProxyFails(method, "encode") \in Results \ {"ok"}
    BY ProxyTypes
  <2>2. Told' = [Told EXCEPT ![c] = ProxyFails(method, "encode")]
    BY <1>3, <2>1, ToldOne
  <2>3. Abstract!Fail(c)
    BY <1>1, <1>3, <2>1, <2>2 DEF Abstract!Fail, Told
  <2> QED
    BY <2>3 DEF Abstract!Next
<1> QED
  BY <1>2, <1>3 DEF Call

\* The real object's run is the one run of the call.
LEMMA RunRefines ==
  ASSUME CallInv, NEW c \in Clients, NEW err \in Rets, SkeletonRuns(c, err)
  PROVE  Abstract!Next
<1>1. cpc[c] # "idle" /\ ret[c] = "unrun"
  BY DEF SkeletonRuns, CallInv, CallOK
<1>2. Abstract!Execute(c)
  BY <1>1 DEF SkeletonRuns, Abstract!Execute
<1> QED
  BY <1>2 DEF Abstract!Next

\* The calls implement RemoteCall: through any interleaving of registrations,
\* routing, runs and lost peers the real object runs a call at most once, and only
\* a good run makes a success.
THEOREM CallsImplementRemoteCall == Spec => ImplementsRemoteCall
<1>1. ASSUME Init
      PROVE  Abstract!Init
  BY <1>1 DEF Init, CallInit, Abstract!Init
<1>2. ASSUME CallInv, [Next]_vars
      PROVE  [Abstract!Next]_(Abstract!callVars)
  <2>1. CASE UNCHANGED <<cpc, ret, result>>
    BY <2>1 DEF Abstract!callVars
  <2>2. CASE CallStep
    BY <1>2, <2>1, <2>2, IssueRefines, RunRefines, FinishRefines
       DEF CallStep, Route, SkeletonRefuses
  <2> QED
    BY <1>2, <2>1, <2>2 DEF Next, vars, callVars
<1> QED
  BY Invariance, <1>1, <1>2, PTL DEF Spec, ImplementsRemoteCall, Abstract!Spec
=============================================================================
