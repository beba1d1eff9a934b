----------------------------- MODULE DialProofs -----------------------------
(***************************************************************************)
(* Machine-checked proofs about credentials and dialing (Dial), for any    *)
(* set of certificate generations and addresses.                           *)
(***************************************************************************)
EXTENDS Dial, TLAPS

\* The parts of DialInv, for the steps below.
Loaded == \A s \in Sides : tpc[s] = "readCA" => cfg[s] = Fields /\ cert[s] \in Gens

Secured ==
  \A s \in Sides : creds[s] # None =>
    tpc[s] = "ready" /\ cfg[s] = Fields /\ creds[s].verifies

Plain == \A s \in Sides : tpc[s] = "ready" /\ creds[s] = None => cfg[s] = {}

Dialed == dial = "open" => tpc["host"] = "ready"

Linked ==
  link # "none" => /\ dial = "open" /\ tpc["plugin"] = "ready"
                   /\ link = Handshake(creds["host"], creds["plugin"])

\* DialInv is the conjunction of its parts.
LEMMA DialInvParts ==
  DialInv <=> TypeOK /\ Loaded /\ Secured /\ Plain /\ Dialed /\ Linked /\ PlaintextStaysLocal
BY DEF DialInv, Loaded, Secured, Plain, Dialed, Linked

\* The same for the next state.
LEMMA DialInvPartsNext ==
  DialInv' <=> TypeOK' /\ Loaded' /\ Secured' /\ Plain' /\ Dialed' /\ Linked' /\ PlaintextStaysLocal'
BY DEF DialInv, Loaded, Secured, Plain, Dialed, Linked

\* A process that starts has neither credentials nor connections.
LEMMA InitDial == Init => DialInv
BY DEF Init, DialInv, TypeOK, PlaintextStaysLocal, Sides

\* Choosing plaintext, or starting to load, opens nothing.
LEMMA ChooseStep ==
  ASSUME DialInv, NEW s \in Sides, UsePlaintext(s) \/ UseTLS(s)
  PROVE  DialInv'
<1> USE DialInvParts
<1>1. TypeOK'
  BY DEF TypeOK, UsePlaintext, UseTLS
<1>2. Loaded' /\ Secured' /\ Plain'
  BY DEF TypeOK, Loaded, Secured, Plain, UsePlaintext, UseTLS, Enabled
<1>3. Dialed' /\ Linked' /\ PlaintextStaysLocal'
  BY DEF TypeOK, Dialed, Linked, PlaintextStaysLocal, UsePlaintext, UseTLS, Sides
<1> QED
  BY <1>1, <1>2, <1>3, DialInvPartsNext

\* Loading the key pair goes on only under a complete configuration.
LEMMA LoadStep ==
  ASSUME DialInv, NEW s \in Sides, LoadKeyPair(s)
  PROVE  DialInv'
<1> USE DialInvParts
<1>1. TypeOK'
  BY DEF TypeOK, LoadKeyPair, LoadErrors
<1>2. Loaded' /\ Secured' /\ Plain'
  BY DEF TypeOK, Loaded, Secured, Plain, LoadKeyPair, Enabled, Valid
<1>3. Dialed' /\ Linked' /\ PlaintextStaysLocal'
  BY DEF TypeOK, Dialed, Linked, PlaintextStaysLocal, LoadKeyPair, Sides
<1> QED
  BY <1>1, <1>2, <1>3, DialInvPartsNext

\* Reading the CA ends in an error or in credentials that verify the peer.
LEMMA ReadStep ==
  ASSUME DialInv, NEW s \in Sides, ReadCA(s)
  PROVE  DialInv'
<1> USE DialInvParts
<1>0. cert[s] \in Gens
  BY DEF Loaded, ReadCA
<1>1. ASSUME NEW pool \in Bundles
      PROVE  /\ Credentials(s, cert[s], pool) \in Creds
             /\ Credentials(s, cert[s], pool).verifies
             /\ Credentials(s, cert[s], pool) # None
  <2>1. Credentials(s, cert[s], pool) \in Creds
    BY <1>0 DEF Credentials, Creds
  <2>2. Credentials(s, cert[s], pool).verifies
    BY DEF Credentials
  <2>3. Credentials(s, cert[s], pool) # None
    BY <2>1, DialAssumption
  <2> QED
    BY <2>1, <2>2, <2>3
<1>2. creds[s] = None
  BY DEF Secured, ReadCA
<1>3. \/ /\ \E e \in {"unreadableCA", "CAFileError"} : tpc' = [tpc EXCEPT ![s] = e]
         /\ UNCHANGED creds
      \/ /\ tpc' = [tpc EXCEPT ![s] = "ready"]
         /\ \E pool \in Bundles : creds' = [creds EXCEPT ![s] = Credentials(s, cert[s], pool)]
  BY DEF ReadCA
<1>4. TypeOK'
  BY <1>1, <1>3 DEF TypeOK, ReadCA, LoadErrors
<1>5. Loaded' /\ Secured' /\ Plain'
  BY <1>1, <1>2, <1>3 DEF TypeOK, Loaded, Secured, Plain, ReadCA
<1>6. Dialed' /\ Linked' /\ PlaintextStaysLocal'
  BY <1>3 DEF TypeOK, Dialed, Linked, PlaintextStaysLocal, ReadCA, Sides
<1> QED
  BY <1>4, <1>5, <1>6, DialInvPartsNext

\* A restart takes the credentials and the connection with it.
LEMMA RestartStep ==
  ASSUME DialInv, NEW s \in Sides, Restart(s)
  PROVE  DialInv'
<1> USE DialInvParts
<1>1. TypeOK'
  BY DEF TypeOK, Restart
<1>2. Loaded' /\ Secured' /\ Plain'
  BY DEF TypeOK, Loaded, Secured, Plain, Restart
<1>3. Dialed' /\ Linked' /\ PlaintextStaysLocal'
  BY DEF TypeOK, Dialed, Linked, PlaintextStaysLocal, Restart, Sides
<1> QED
  BY <1>1, <1>2, <1>3, DialInvPartsNext

\* Dialing, connecting and closing leave the credentials alone.
LEMMA ConnectionStep ==
  ASSUME DialInv, (\E a \in Addrs : DialEntry(a)) \/ CloseProxy \/ Connect
  PROVE  DialInv'
<1> USE DialInvParts
<1>1. TypeOK'
  BY DEF TypeOK, DialEntry, requireLoopback, DialErrors, CloseProxy, Connect, Handshake
<1>2. Loaded' /\ Secured' /\ Plain'
  BY DEF Loaded, Secured, Plain, DialEntry, CloseProxy, Connect
<1>3. Dialed' /\ Linked'
  BY DEF Dialed, Linked, DialEntry, CloseProxy, Connect
<1>4. PlaintextStaysLocal'
  BY DEF PlaintextStaysLocal, DialEntry, requireLoopback, CloseProxy, Connect
<1> QED
  BY <1>1, <1>2, <1>3, <1>4, DialInvPartsNext

\* DialInv is inductive, so it holds in every reachable state.
THEOREM DialInvariance == Spec => []DialInv
<1>1. ASSUME DialInv, [Next]_vars PROVE DialInv'
  <2>1. CASE UNCHANGED vars
    BY <1>1, <2>1 DEF vars, DialInv, TypeOK, PlaintextStaysLocal
  <2>2. CASE Next
    BY <1>1, <2>2, ChooseStep, LoadStep, ReadStep, RestartStep, ConnectionStep DEF Next
  <2> QED
    BY <1>1, <2>1, <2>2
<1> QED
  BY InitDial, <1>1, PTL DEF Spec

\* Validate's promise, for the whole system: no TLS field set on either end of a
\* plaintext connection.
THEOREM NeverDowngraded == Spec => []NoDowngrade
<1>1. DialInv => NoDowngrade
  BY DEF DialInv, TypeOK, NoDowngrade, Handshake, Sides
<1> QED
  BY <1>1, DialInvariance, PTL

\* dialConn's promise: a proxy without credentials is a proxy to this machine.
THEOREM PlaintextIsLocal == Spec => []PlaintextStaysLocal
<1>1. DialInv => PlaintextStaysLocal
  BY DEF DialInv
<1> QED
  BY <1>1, DialInvariance, PTL

\* TLS between the two ends is mutual.
THEOREM TrustIsMutual == Spec => []MutualTrust
<1>1. DialInv => MutualTrust
  BY DEF DialInv, TypeOK, MutualTrust, Handshake, Trusts, Sides
<1> QED
  BY <1>1, DialInvariance, PTL
=============================================================================
