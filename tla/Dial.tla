-------------------------------- MODULE Dial --------------------------------
(***************************************************************************)
(* How a host comes to a connection with a plugin process: TLSConfig       *)
(* (tls.go) on both ends, dialConn and requireLoopback                     *)
(* (remote_registry.go) on the host's.  Operators set any of the three TLS *)
(* fields on either end, certificates are rotated or broken at any moment, *)
(* also between two reads of one load, and either process restarts, with   *)
(* another configuration if its operator likes.                            *)
(*                                                                         *)
(* A generation stands for one CA and the certificates it signed; a CA     *)
(* file may bundle several.                                                *)
(***************************************************************************)
CONSTANTS
  Gens,       \* generations of certificates
  Broken,     \* contents of a file that is missing or does not parse
  Addrs,      \* gRPC addresses of registry entries
  HostPort,   \* those that split into host and port
  Loopback,   \* those whose host is "localhost" or a loopback IP
  None        \* nothing loaded, no address

\* What a CA file with a usable certificate holds.
Bundles == SUBSET Gens \ {{}}

\* Transport credentials: the own certificate, the CAs a peer's may be of, and
\* whether the peer's certificate is asked for and verified.
Creds == [cert: Gens, pool: Bundles, verifies: BOOLEAN]

ASSUME DialAssumption ==
  /\ Broken \notin Gens /\ None \notin Gens \cup Creds \cup Addrs
  /\ Loopback \subseteq HostPort /\ HostPort \subseteq Addrs

Sides == {"host", "plugin"}
Fields == {"ca", "cert", "key"}

VARIABLES
  cfg,      \* the TLSConfig of each side: the fields that are set
  tpc,      \* where each side is in choosing its credentials
  cert,     \* the key pair loadCertAndPool has loaded
  creds,    \* the transport credentials, None for plaintext
  dial,     \* what the host's Dial call returned: "none" before, "open", or an error
  addr,     \* the address it dialed
  link      \* the connection behind the proxy

vars == <<cfg, tpc, cert, creds, dial, addr, link>>

\* Results of the loading that are errors, and results of Dial that are.
LoadErrors == {"ErrTLSNotConfigured", "TLSHalfConfiguredError", "keypair", "unreadableCA",
               "CAFileError"}
DialErrors == {"context", "address", "PlaintextDialError", "target"}

Init ==
  /\ cfg \in [Sides -> SUBSET Fields]
  /\ tpc = [s \in Sides |-> "idle"]
  /\ cert = [s \in Sides |-> None]
  /\ creds = [s \in Sides |-> None]
  /\ dial = "none"
  /\ addr = None
  /\ link = "none"

-----------------------------------------------------------------------------
(* TLSConfig. *)

\* Mutation of Enabled: only a complete configuration counts as one.
EnabledWhenComplete(c) == c = Fields

Enabled(c) == c # {}

\* Validate's verdict: nothing or everything is set.
Valid(c) == Enabled(c) => c = Fields

\* A caller that finds TLS not Enabled goes on without credentials.
UsePlaintext(s) ==
  /\ tpc[s] = "idle"
  /\ ~Enabled(cfg[s])
  /\ tpc' = [tpc EXCEPT ![s] = "ready"]
  /\ UNCHANGED <<cfg, cert, creds, dial, addr, link>>

\* ServerCredentials or ClientCredentials is called, on whatever configuration.
UseTLS(s) ==
  /\ tpc[s] = "idle"
  /\ tpc' = [tpc EXCEPT ![s] = "loading"]
  /\ UNCHANGED <<cfg, cert, creds, dial, addr, link>>

\* Mutation of LoadKeyPair: the error of LoadX509KeyPair is not looked at.
LoadKeyPairUnchecked(s) ==
  /\ tpc[s] = "loading" /\ cfg[s] = Fields
  /\ \E c \in Gens \cup {Broken} : cert' = [cert EXCEPT ![s] = c]
  /\ tpc' = [tpc EXCEPT ![s] = "readCA"]
  /\ UNCHANGED <<cfg, creds, dial, addr, link>>

\* loadCertAndPool up to LoadX509KeyPair, which wants a key of that certificate.
LoadKeyPair(s) ==
  /\ tpc[s] = "loading"
  /\ \/ /\ ~Enabled(cfg[s])
        /\ tpc' = [tpc EXCEPT ![s] = "ErrTLSNotConfigured"]
        /\ UNCHANGED cert
     \/ /\ ~Valid(cfg[s])
        /\ tpc' = [tpc EXCEPT ![s] = "TLSHalfConfiguredError"]
        /\ UNCHANGED cert
     \/ /\ Enabled(cfg[s]) /\ Valid(cfg[s])
        /\ \E c, k \in Gens \cup {Broken} :
             \/ /\ c # k \/ c = Broken
                /\ tpc' = [tpc EXCEPT ![s] = "keypair"]
                /\ UNCHANGED cert
             \/ /\ c = k /\ c # Broken
                /\ tpc' = [tpc EXCEPT ![s] = "readCA"]
                /\ cert' = [cert EXCEPT ![s] = c]
  /\ UNCHANGED <<cfg, creds, dial, addr, link>>

\* Mutation of Credentials: the server does not ask for the client's certificate.
CredentialsOneSided(s, c, pool) == [cert |-> c, pool |-> pool, verifies |-> s = "host"]

\* The tls.Config of either side: ServerCredentials sets ClientAuth to
\* RequireAndVerifyClientCert, and a client verifies the server by default.
Credentials(s, c, pool) == [cert |-> c, pool |-> pool, verifies |-> TRUE]

\* The rest of loadCertAndPool: the CA file cannot be read, holds no certificate, or
\* is the pool.
ReadCA(s) ==
  /\ tpc[s] = "readCA"
  /\ \/ /\ \E e \in {"unreadableCA", "CAFileError"} : tpc' = [tpc EXCEPT ![s] = e]
        /\ UNCHANGED creds
     \/ /\ tpc' = [tpc EXCEPT ![s] = "ready"]
        /\ \E pool \in Bundles : creds' = [creds EXCEPT ![s] = Credentials(s, cert[s], pool)]
  /\ UNCHANGED <<cfg, cert, dial, addr, link>>

-----------------------------------------------------------------------------
(* Dialing. *)

\* Mutation of requireLoopback: any address with a port will do.
requireLoopbackAnyHost(a) == IF a \in HostPort THEN "nil" ELSE "address"

requireLoopback(a) ==
  IF a \notin HostPort THEN "address"
  ELSE IF a \in Loopback THEN "nil" ELSE "PlaintextDialError"

\* dialConn, behind DialMemory, DialOrchestrator and DialBackend.  NewClient does
\* not connect; it refuses a target it cannot parse.
DialEntry(a) ==
  /\ tpc["host"] = "ready" /\ dial # "open"
  /\ addr' = a
  /\ \/ dial' = "context"
     \/ /\ creds["host"] = None /\ requireLoopback(a) # "nil"
        /\ dial' = requireLoopback(a)
     \/ /\ creds["host"] = None => requireLoopback(a) = "nil"
        /\ dial' \in {"open", "target"}
  /\ UNCHANGED <<cfg, tpc, cert, creds, link>>

\* The proxy's Close.
CloseProxy ==
  /\ dial = "open"
  /\ dial' = "none" /\ addr' = None /\ link' = "none"
  /\ UNCHANGED <<cfg, tpc, cert, creds>>

-----------------------------------------------------------------------------
(* gRPC and the operators. *)

Trusts(c, peer) == c.verifies => peer.cert \in c.pool

Handshake(h, p) ==
  IF h = None /\ p = None THEN "plain"
  ELSE IF h = None \/ p = None THEN "refused"
  ELSE IF Trusts(h, p) /\ Trusts(p, h) THEN "mtls" ELSE "refused"

\* gRPC connects, or connects again, when the proxy is used.
Connect ==
  /\ dial = "open" /\ tpc["plugin"] = "ready" /\ link \in {"none", "refused"}
  /\ link' = Handshake(creds["host"], creds["plugin"])
  /\ UNCHANGED <<cfg, tpc, cert, creds, dial, addr>>

\* A process restarts under a configuration of its operator's choice.
Restart(s) ==
  /\ tpc[s] # "idle"
  /\ tpc' = [tpc EXCEPT ![s] = "idle"]
  /\ cert' = [cert EXCEPT ![s] = None]
  /\ creds' = [creds EXCEPT ![s] = None]
  /\ \E c \in SUBSET Fields : cfg' = [cfg EXCEPT ![s] = c]
  /\ link' = "none"
  /\ \/ s = "host" /\ dial' = "none" /\ addr' = None
     \/ s = "plugin" /\ UNCHANGED <<dial, addr>>

Next ==
  \/ \E s \in Sides : UsePlaintext(s) \/ UseTLS(s) \/ LoadKeyPair(s) \/ ReadCA(s) \/ Restart(s)
  \/ \E a \in Addrs : DialEntry(a)
  \/ CloseProxy
  \/ Connect

Spec == Init /\ [][Next]_vars

-----------------------------------------------------------------------------
\* Every variable holds a value of its type.
TypeOK ==
  /\ cfg \in [Sides -> SUBSET Fields]
  /\ tpc \in [Sides -> {"idle", "loading", "readCA", "ready"} \cup LoadErrors]
  /\ cert \in [Sides -> Gens \cup {None}]
  /\ creds \in [Sides -> Creds \cup {None}]
  /\ dial \in {"none", "open"} \cup DialErrors
  /\ addr \in Addrs \cup {None}
  /\ link \in {"none", "plain", "mtls", "refused"}

\* "A typo can never downgrade an intended-secure link to plaintext" (Validate): a
\* plaintext connection exists only between processes whose operators set no TLS
\* field at all, whatever was restarted, rotated or broken on the way to it.
NoDowngrade == link = "plain" => \A s \in Sides : cfg[s] = {}

\* "Dialing with nil credentials is refused for any non-loopback address": no
\* proxy without credentials ever leads off the machine.
PlaintextStaysLocal == dial = "open" /\ creds["host"] = None => addr \in Loopback

\* An encrypted connection is authenticated in both directions: each end holds a
\* certificate of a CA that the other end has loaded, also when the files were
\* rotated while either end was loading them.
MutualTrust ==
  link = "mtls" =>
    /\ creds["host"].cert \in creds["plugin"].pool
    /\ creds["plugin"].cert \in creds["host"].pool

\* DialMemory: it returns "a wrapped address error when the address has no port".
NoPortRefused == dial = "open" => addr \in HostPort

-----------------------------------------------------------------------------
\* The inductive invariant: who has no credentials when ready has no TLS field
\* set, and a connection was made by the two ends as they are now.
DialInv ==
  /\ TypeOK
  /\ \A s \in Sides : tpc[s] = "readCA" => cfg[s] = Fields /\ cert[s] \in Gens
  /\ \A s \in Sides : creds[s] # None =>
       tpc[s] = "ready" /\ cfg[s] = Fields /\ creds[s].verifies
  /\ \A s \in Sides : tpc[s] = "ready" /\ creds[s] = None => cfg[s] = {}
  /\ dial = "open" => tpc["host"] = "ready"
  /\ link # "none" => dial = "open" /\ tpc["plugin"] = "ready"
                      /\ link = Handshake(creds["host"], creds["plugin"])
  /\ PlaintextStaysLocal
=============================================================================
