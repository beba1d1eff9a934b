---------------------------- MODULE PluginRouter ----------------------------
(***************************************************************************)
(* The routers of a plugin process (plugin_router.go): goroutines create   *)
(* them concurrently, at most one per gRPC server, and add skeletons to    *)
(* them, one per port.  The claim on a server is kept under a weak pointer *)
(* and released by a cleanup once the server is garbage.                   *)
(*                                                                         *)
(* gRPC is external: RegisterService ends the process when the server      *)
(* serves already or has the service already, and a server that nothing    *)
(* refers to is collected.                                                 *)
(***************************************************************************)
CONSTANTS
  Servers,   \* gRPC servers of the process
  Setups,    \* goroutines that set them up; each creates at most one router
  Ports,     \* "memory" and "orchestrator"
  None       \* no router, no skeleton, no server

ASSUME RouterAssumption ==
  /\ None \notin Setups \cup Servers
  /\ "direct" \notin Setups \cup {None}

VARIABLES
  claims,     \* pluginServerClaims: servers that have a router
  live,       \* servers something still refers to
  plugged,    \* what answers each server's Plugin service: None, "direct", or the
              \* goroutine whose router does
  serving,    \* live servers whose Serve has been called
  exited,     \* why the process is gone, "no" while it runs
  spc,        \* where each goroutine is in NewPluginRouter
  target,     \* the server it claimed there
  ports,      \* each router's map from ports to the skeleton's owner
  won,        \* history: <<router, port>> pairs whose add returned nil, by owner
  already     \* history: goroutines whose server had the Plugin service, registered
              \* directly, when they claimed it

routerVars == <<claims, live, plugged, serving, exited, spc, target, ports, won, already>>

RouterInit ==
  /\ claims = {}
  /\ live = Servers
  /\ plugged = [srv \in Servers |-> None]
  /\ serving = {}
  /\ exited = "no"
  /\ spc = [s \in Setups |-> "idle"]
  /\ target = [s \in Setups |-> None]
  /\ ports = [s \in Setups |-> [port \in Ports |-> None]]
  /\ won = [s \in Setups |-> {}]
  /\ already = {}

-----------------------------------------------------------------------------
\* Whether the server has the Plugin service when NewPluginRouter claims it.
NoteService(s, srv) ==
  already' = IF plugged[srv] = "direct" THEN already \cup {s} ELSE already

\* Mutation of claim: an existing claim is not noticed.
claimUnchecked(s, srv) ==
  /\ exited = "no"
  /\ spc[s] = "idle" /\ srv \in live
  /\ target' = [target EXCEPT ![s] = srv]
  /\ NoteService(s, srv)
  /\ spc' = [spc EXCEPT ![s] = "claimed"]
  /\ claims' = claims \cup {srv}
  /\ UNCHANGED <<live, plugged, serving, exited, ports, won>>

\* claim, under the claims' mutex.
claim(s, srv) ==
  /\ exited = "no"
  /\ spc[s] = "idle" /\ srv \in live
  /\ \/ /\ srv \in claims
        /\ spc' = [spc EXCEPT ![s] = "refused"]
        /\ UNCHANGED <<claims, target, already>>
     \/ /\ srv \notin claims
        /\ spc' = [spc EXCEPT ![s] = "claimed"]
        /\ claims' = claims \cup {srv}
        /\ target' = [target EXCEPT ![s] = srv]
        /\ NoteService(s, srv)
  /\ UNCHANGED <<live, plugged, serving, exited, ports, won>>

\* The rest of NewPluginRouter, after the mutex is released.
RegisterPluginServer(s) ==
  /\ exited = "no"
  /\ spc[s] = "claimed"
  /\ LET srv == target[s] IN
       \/ /\ srv \in serving
          /\ exited' = "serving"
          /\ UNCHANGED <<plugged, spc>>
       \/ /\ srv \notin serving /\ plugged[srv] # None
          /\ exited' = IF plugged[srv] # "direct" THEN "twoRouters"
                       ELSE IF s \in already THEN "direct" ELSE "directMeanwhile"
          /\ UNCHANGED <<plugged, spc>>
       \/ /\ srv \notin serving /\ plugged[srv] = None
          /\ plugged' = [plugged EXCEPT ![srv] = s]
          /\ spc' = [spc EXCEPT ![s] = "router"]
          /\ UNCHANGED exited
  /\ UNCHANGED <<claims, live, serving, target, ports, won, already>>

\* Mutations of add: a taken port is overwritten; the map is made anew.
addOverwrites(s, r, port) ==
  /\ exited = "no"
  /\ spc[r] = "router"
  /\ ports' = [ports EXCEPT ![r][port] = s]
  /\ won' = [won EXCEPT ![s] = @ \cup {<<r, port>>}]
  /\ UNCHANGED <<claims, live, plugged, serving, exited, spc, target, already>>

addAnew(s, r, port) ==
  /\ exited = "no"
  /\ spc[r] = "router"
  /\ ports[r][port] = None
  /\ ports' = [ports EXCEPT ![r] = [q \in Ports |-> IF q = port THEN s ELSE None]]
  /\ won' = [won EXCEPT ![s] = @ \cup {<<r, port>>}]
  /\ UNCHANGED <<claims, live, plugged, serving, exited, spc, target, already>>

\* add, under the router's lock: goroutine s registers its skeleton on router r.
\* On a port that is taken it returns ErrPortRegistered and changes nothing.
add(s, r, port) ==
  /\ exited = "no"
  /\ spc[r] = "router"
  /\ ports[r][port] = None
  /\ ports' = [ports EXCEPT ![r][port] = s]
  /\ won' = [won EXCEPT ![s] = @ \cup {<<r, port>>}]
  /\ UNCHANGED <<claims, live, plugged, serving, exited, spc, target, already>>

\* Mutations of release: the claim on a live server is given up; the cleanup deletes
\* a key that is not in the map.
releaseLive(srv) ==
  /\ exited = "no"
  /\ srv \in claims
  /\ claims' = claims \ {srv}
  /\ UNCHANGED <<live, plugged, serving, exited, spc, target, ports, won, already>>

releaseOther(srv) ==
  /\ exited = "no"
  /\ srv \in claims /\ srv \notin live
  /\ UNCHANGED routerVars

\* The cleanup of a collected server.
release(srv) ==
  /\ exited = "no"
  /\ srv \in claims /\ srv \notin live
  /\ claims' = claims \ {srv}
  /\ UNCHANGED <<live, plugged, serving, exited, spc, target, ports, won, already>>

-----------------------------------------------------------------------------
(* The rest of the process. *)

Serve(srv) ==
  /\ exited = "no"
  /\ srv \in live /\ srv \notin serving
  /\ serving' = serving \cup {srv}
  /\ UNCHANGED <<claims, live, plugged, exited, spc, target, ports, won, already>>

\* pb.RegisterPluginServer without a router.
RegisterDirectly(srv) ==
  /\ exited = "no"
  /\ srv \in live /\ srv \notin serving /\ plugged[srv] = None
  /\ plugged' = [plugged EXCEPT ![srv] = "direct"]
  /\ UNCHANGED <<claims, live, serving, exited, spc, target, ports, won, already>>

\* A server that is in no goroutine's hands is collected: it was dropped before it
\* served, or stopped and dropped.
Collect(srv) ==
  /\ exited = "no"
  /\ srv \in live
  /\ \A s \in Setups : target[s] = srv => spc[s] # "claimed"
  /\ live' = live \ {srv}
  /\ serving' = serving \ {srv}
  /\ UNCHANGED <<claims, plugged, exited, spc, target, ports, won, already>>

RouterStep ==
  \/ \E s \in Setups, srv \in Servers : claim(s, srv)
  \/ \E s \in Setups : RegisterPluginServer(s)
  \/ \E s, r \in Setups, port \in Ports : add(s, r, port)
  \/ \E srv \in Servers : \/ release(srv)
                          \/ Serve(srv)
                          \/ RegisterDirectly(srv)
                          \/ Collect(srv)

RouterSpec == RouterInit /\ [][RouterStep]_routerVars

-----------------------------------------------------------------------------
\* Every variable holds a value of its type.
RouterTypeOK ==
  /\ claims \subseteq Servers /\ live \subseteq Servers /\ serving \subseteq Servers
  /\ plugged \in [Servers -> Setups \cup {None, "direct"}]
  /\ exited \in {"no", "serving", "direct", "directMeanwhile", "twoRouters"}
  /\ spc \in [Setups -> {"idle", "claimed", "refused", "router"}]
  /\ target \in [Setups -> Servers \cup {None}]
  /\ ports \in [Setups -> [Ports -> Setups \cup {None}]]
  /\ won \in [Setups -> SUBSET (Setups \X Ports)]
  /\ already \subseteq Setups

\* Two routers never meet on one server: concurrent calls of NewPluginRouter,
\* and calls after the cleanup of a collected server, end in an error return and
\* never in gRPC's exit on a second registration.
NoSecondRouter == exited # "twoRouters"

\* A nil error of RegisterMemorySkeleton or RegisterOrchestratorSkeleton is for
\* good: the router goes on serving that port with that skeleton.
WinnerServes ==
  \A s \in Setups : \A rp \in won[s] : ports[rp[1]][rp[2]] = s

\* A goroutine between the mutex and the registration holds the claim on a live
\* server that no router answers for yet.
Holds(s) ==
  /\ target[s] \in claims /\ target[s] \in live
  /\ plugged[target[s]] \notin Setups

\* The inductive invariant of the routers: claimants hold different servers, and a
\* live server with a router is claimed, so nobody else gets to claim it.
RouterInv ==
  /\ RouterTypeOK
  /\ \A s \in Setups : spc[s] = "claimed" => Holds(s)
  /\ \A s, t \in Setups :
       spc[s] = "claimed" /\ spc[t] = "claimed" /\ target[s] = target[t] => s = t
  /\ \A srv \in live : plugged[srv] \in Setups => srv \in claims
  /\ NoSecondRouter
  /\ WinnerServes

\* The claims do not outlive their servers: again and again, every claim left is on a
\* live server, so the map does not grow with the servers of a long-lived process.
ClaimsReleased == []<>(claims \subseteq live \/ exited # "no")

\* errors.go: ErrPluginServiceRegistered "is returned by NewPluginRouter when the
\* server already serves the Plugin service": the process does not end over a service
\* that was registered before NewPluginRouter was called.  A registration that comes
\* between the claim and the router's own is not what the line speaks of.
RegisteredServiceRefused == exited # "direct"
=============================================================================
