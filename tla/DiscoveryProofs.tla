--------------------------- MODULE DiscoveryProofs ---------------------------
(***************************************************************************)
(* Machine-checked proofs about announcements and the registry they feed   *)
(* (Announcements, Discovery), for any plugins, watchers, keys, foreign    *)
(* messages and clocks.                                                    *)
(***************************************************************************)
EXTENDS Discovery, TLAPS

(***************************************************************************)
(* The operators of Announcements.                                         *)
(***************************************************************************)

\* openAnnouncement's test of the issue time: although Sub saturates and Abs has
\* no negation for the smallest duration, an announcement is fresh exactly when
\* its issue time lies within the window on either side of the clock.
THEOREM FreshIsTheWindow ==
  ASSUME NEW now \in Int, NEW issued \in Int
  PROVE  fresh(now, issued) <=> issued \in (now - AnnounceWindow)..(now + AnnounceWindow)
BY AnnounceAssumption DEF fresh, Sub, Abs

\* What is opened passed every check of openAnnouncement.
LEMMA OpenedPassed ==
  ASSUME NEW key, NEW m \in Message, openAnnouncement(key, m, 0) = "opened"
  PROVE  /\ usable(key) /\ ~m.oversized /\ m.envelope /\ m.mac = key
         /\ m.body # Garbage /\ m.body \in Announcement
         /\ m.issued \in (-AnnounceWindow)..AnnounceWindow
<1>1. m.issued \in Int /\ m.body \in Announcement \cup {Garbage}
  BY DEF Message
<1>2. /\ usable(key) /\ ~m.oversized /\ m.envelope /\ m.mac = key
      /\ fresh(0, m.issued) /\ m.body # Garbage
  BY DEF openAnnouncement
<1>3. m.issued \in (0 - AnnounceWindow)..(0 + AnnounceWindow)
  BY <1>1, <1>2, FreshIsTheWindow
<1> QED
  BY <1>1, <1>2, <1>3, AnnounceAssumption

\* A refused message is reported with one of the documented errors.
LEMMA OpenReports ==
  ASSUME NEW key, NEW m \in Message, openAnnouncement(key, m, 0) # "opened"
  PROVE  openAnnouncement(key, m, 0) \in WatchErrors \cup RejectErrors
BY DEF openAnnouncement, WatchErrors, RejectErrors

\* So is a refused announcement.
LEMMA ObserveReports ==
  ASSUME NEW ann, NEW allowed, observe(ann, allowed) # "recorded"
  PROVE  observe(ann, allowed) \in RejectErrors
BY DEF observe, RejectErrors

\* observe records what is usable and admitted, and nothing else.
LEMMA RecordedPassed ==
  ASSUME NEW ann, NEW allowed, observe(ann, allowed) = "recorded"
  PROVE  Usable(ann) /\ ann.addr \in allowed
BY DEF observe

\* A key is key material or the zero key.
LEMMA KeyType ==
  ASSUME NEW secret \in Secrets
  PROVE  ParseAnnounceKey(secret) \in Secrets \cup {NoKey}
BY DEF ParseAnnounceKey

\* A sealed announcement is a message.
LEMMA SealType ==
  ASSUME NEW p \in Plugins, NEW now \in Int
  PROVE  sealAnnouncement(PluginKey(p), AnnOf[p], now, p \in BigManifest) \in Message
<1>1. SecretOf[p] \in Secrets /\ AnnOf[p] \in Announcement
  BY DiscoveryAssumption
<1>2. PluginKey(p) \in Secrets \cup {NoKey}
  BY <1>1, KeyType DEF PluginKey
<1> QED
  BY <1>1, <1>2 DEF sealAnnouncement, Message

-----------------------------------------------------------------------------
(***************************************************************************)
(* What a callback may have opened.                                        *)
(***************************************************************************)

\* A message that others publish and a watcher opens is of no use to the registry
\* and is no plugin's announcement.
LEMMA ForeignOpened ==
  ASSUME NEW w \in Watchers, NEW m \in Foreign, openAnnouncement(WatchKey(w), m, 0) = "opened"
  PROVE  ~Usable(m.body) /\ \A p \in Plugins : m.body # AnnOf[p]
<1>1. m \in Message
  BY DiscoveryAssumption
<1> QED
  BY <1>1, OpenedPassed, ForeignAssumption DEF WatchKey

\* A message of process p that a watcher opens comes from a process that is not
\* gone for longer than the window and the skew, and p is vouched for.
LEMMA SealedOpened ==
  ASSUME TypeOK, NEW w \in Watchers, NEW m \in Message, NEW p \in Plugins, SealedBy(m, p),
         openAnnouncement(WatchKey(w), m, 0) = "opened"
  PROVE  m.body = AnnOf[p] /\ Vouched(AnnOf[p]) /\ quiet[p] < QuietCap
<1>1. /\ usable(WatchKey(w)) /\ ~m.oversized /\ m.mac = WatchKey(w)
      /\ m.issued \in (-AnnounceWindow)..AnnounceWindow
  BY OpenedPassed
<1>2. Vouched(AnnOf[p])
  BY <1>1 DEF SealedBy, Vouched
<1>3. quiet[p] \in Int
  BY AnnounceAssumption, DiscoveryAssumption DEF TypeOK, QuietCap
<1>4. ~(m.issued <= Oldest)
  BY <1>1, AnnounceAssumption DEF Oldest
<1>5. m.issued + quiet[p] <= MaxSkew
  BY <1>4 DEF SealedBy
<1>6. quiet[p] < QuietCap
  BY <1>1, <1>3, <1>5, AnnounceAssumption, DiscoveryAssumption DEF QuietCap
<1> QED
  BY <1>2, <1>6 DEF SealedBy

\* What any watcher opens, from a plugin or from elsewhere, is an announcement, and
\* it is vouched for if the registry can use it.
LEMMA OpenedVouched ==
  ASSUME DiscoveryInv, NEW w \in Watchers, NEW m \in wire \cup Foreign,
         openAnnouncement(WatchKey(w), m, 0) = "opened"
  PROVE  m.body \in Announcement /\ (Usable(m.body) => Vouched(m.body))
<1>1. m \in Message
  BY DiscoveryAssumption DEF DiscoveryInv, TypeOK
<1>2. m.body \in Announcement
  BY <1>1, OpenedPassed
<1>3. CASE m \in Foreign
  BY <1>2, <1>3, ForeignOpened
<1>4. CASE m \in wire
  <2>1. PICK p \in Plugins : SealedBy(m, p)
    BY <1>4 DEF DiscoveryInv
  <2>2. m.body = AnnOf[p] /\ Vouched(AnnOf[p])
    BY <1>1, <2>1, SealedOpened DEF DiscoveryInv
  <2> QED
    BY <1>2, <2>2
<1> QED
  BY <1>3, <1>4

-----------------------------------------------------------------------------
(***************************************************************************)
(* The steps.  Each lemma is one group of actions; SealedStays says which  *)
(* steps leave a sealed message sealed, VouchedStays that a voucher lasts. *)
(***************************************************************************)

LEMMA InitDiscovery ==
  ASSUME Init
  PROVE  DiscoveryInv
<1>1. TypeOK
  BY AnnounceAssumption, DiscoveryAssumption DEF Init, TypeOK, QuietCap
<1>2. RegistryTruthful /\ AllowlistSeesAuthentic
  BY DEF Init, RegistryTruthful, AllowlistSeesAuthentic
<1> QED
  BY <1>1, <1>2 DEF Init, DiscoveryInv

\* No process goes back to "off".
LEMMA VouchedStays ==
  ASSUME NEW ann, Vouched(ann), \A p \in Plugins : state[p] # "off" => state'[p] # "off"
  PROVE  Vouched(ann)'
BY DEF Vouched

\* The invariant after a step that leaves the host alone.
LEMMA HostUnchanged ==
  ASSUME DiscoveryInv, UNCHANGED <<job, allow, entries>>,
         \A p \in Plugins : state[p] # "off" => state'[p] # "off"
  PROVE  RegistryTruthful' /\ AllowlistSeesAuthentic'
<1>1. AllowlistSeesAuthentic'
  BY VouchedStays DEF DiscoveryInv, AllowlistSeesAuthentic
<1>2. RegistryTruthful'
  BY VouchedStays DEF DiscoveryInv, RegistryTruthful
<1> QED
  BY <1>1, <1>2

LEMMA LifeStep ==
  ASSUME DiscoveryInv, NEW p \in Plugins, Boot(p) \/ Exit(p)
  PROVE  DiscoveryInv'
<1>1. UNCHANGED <<quiet, wire, sub, job, allow, entries>> /\ report' = "none"
  BY DEF Boot, Exit
<1>2. state' \in [Plugins -> {"off", "up", "gone"}]
  BY DEF DiscoveryInv, TypeOK, Boot, Exit
<1>3. \A q \in Plugins : state[q] # "off" => state'[q] # "off"
  BY DEF DiscoveryInv, TypeOK, Boot, Exit
<1>4. TypeOK'
  BY <1>1, <1>2 DEF DiscoveryInv, TypeOK
<1>5. \A m \in wire' : \E q \in Plugins : SealedBy(m, q)'
  BY <1>1, <1>3 DEF DiscoveryInv, SealedBy
<1>6. \A q \in Plugins : state'[q] # "gone" => quiet'[q] = 0
  BY <1>1 DEF DiscoveryInv, TypeOK, Boot, Exit
<1> QED
  BY <1>1, <1>3, <1>4, <1>5, <1>6, HostUnchanged DEF DiscoveryInv

LEMMA NetworkStep ==
  ASSUME DiscoveryInv,
         (\E p \in Plugins : Announce(p)) \/ (\E m \in wire : Lose(m))
  PROVE  DiscoveryInv'
<1>1. UNCHANGED <<state, quiet, sub, job, allow, entries>> /\ report' = "none"
  BY DEF Announce, Lose
<1>2. \A m \in wire' :
        \/ m \in wire
        \/ \E p \in Plugins, now \in (-MaxSkew)..MaxSkew :
             /\ state[p] = "up" /\ usable(PluginKey(p))
             /\ m = sealAnnouncement(PluginKey(p), AnnOf[p], now, p \in BigManifest)
  BY DEF Announce, Lose
<1>3. ASSUME NEW m \in wire'
      PROVE  m \in Message /\ m.issued <= MaxSkew /\ \E p \in Plugins : SealedBy(m, p)'
  <2>1. CASE m \in wire
    BY <1>1, <2>1 DEF DiscoveryInv, TypeOK, SealedBy
  <2>2. CASE \E p \in Plugins, now \in (-MaxSkew)..MaxSkew :
               /\ state[p] = "up" /\ usable(PluginKey(p))
               /\ m = sealAnnouncement(PluginKey(p), AnnOf[p], now, p \in BigManifest)
    <3>1. PICK p \in Plugins, now \in (-MaxSkew)..MaxSkew :
               /\ state[p] = "up" /\ usable(PluginKey(p))
               /\ m = sealAnnouncement(PluginKey(p), AnnOf[p], now, p \in BigManifest)
      BY <2>2
    <3>2. now \in Int /\ now <= MaxSkew
      BY DiscoveryAssumption
    <3>3. m \in Message
      BY <3>1, <3>2, SealType
    <3>4. quiet[p] = 0 /\ m.issued = now
      BY <3>1 DEF DiscoveryInv, sealAnnouncement
    <3>5. SealedBy(m, p)'
      BY <1>1, <3>1, <3>2, <3>4 DEF SealedBy, sealAnnouncement
    <3> QED
      BY <3>2, <3>3, <3>4, <3>5
  <2> QED
    BY <1>2, <2>1, <2>2
<1>4. TypeOK'
  BY <1>1, <1>3 DEF DiscoveryInv, TypeOK
<1> QED
  BY <1>1, <1>3, <1>4, HostUnchanged DEF DiscoveryInv

\* A message that ages by one keeps up with a process that is gone for one more
\* tick, so the bound on their sum holds until the message is too old to open.
LEMMA OlderSealed ==
  ASSUME DiscoveryInv, Tick, NEW m \in wire, NEW p \in Plugins, SealedBy(m, p)
  PROVE  /\ Older(m) \in Message /\ Older(m).issued <= MaxSkew
         /\ SealedBy(Older(m), p)'
<1>1. m \in Message /\ m.issued \in Int /\ m.issued <= MaxSkew
  BY DEF DiscoveryInv, TypeOK, Message
<1>2. /\ Older(m) \in Message
      /\ Older(m).oversized = m.oversized /\ Older(m).envelope = m.envelope
      /\ Older(m).mac = m.mac /\ Older(m).body = m.body
      /\ Older(m).issued = IF m.issued > Oldest THEN m.issued - 1 ELSE m.issued
  BY <1>1, AnnounceAssumption DEF Older, Message, Oldest
<1>3. Oldest \in Int /\ MaxSkew \in Int /\ quiet[p] \in Int
  BY AnnounceAssumption, DiscoveryAssumption DEF Oldest, DiscoveryInv, TypeOK, QuietCap
<1>4. quiet'[p] \in Int /\ quiet'[p] <= quiet[p] + 1 /\ state' = state
  BY <1>3 DEF Tick
<1>5. Older(m).issued <= Oldest \/ Older(m).issued + quiet'[p] <= MaxSkew
  BY <1>1, <1>2, <1>3, <1>4 DEF SealedBy
<1> QED
  BY <1>1, <1>2, <1>3, <1>4, <1>5 DEF SealedBy

LEMMA TickStep ==
  ASSUME DiscoveryInv, Tick
  PROVE  DiscoveryInv'
<1>1. UNCHANGED <<state, sub, job, allow, entries>> /\ report' = "none"
  BY DEF Tick
<1>2. quiet' \in [Plugins -> 0..QuietCap]
  BY AnnounceAssumption, DiscoveryAssumption DEF Tick, DiscoveryInv, TypeOK, QuietCap
<1>3. ASSUME NEW n \in wire'
      PROVE  n \in Message /\ n.issued <= MaxSkew /\ \E p \in Plugins : SealedBy(n, p)'
  <2>1. PICK m \in wire : n = Older(m)
    BY DEF Tick
  <2>2. PICK p \in Plugins : SealedBy(m, p)
    BY DEF DiscoveryInv
  <2> QED
    BY <2>1, <2>2, OlderSealed
<1>4. TypeOK'
  BY <1>1, <1>2, <1>3 DEF DiscoveryInv, TypeOK
<1>5. \A p \in Plugins : state'[p] # "gone" => quiet'[p] = 0
  BY <1>1 DEF Tick, DiscoveryInv
<1> QED
  BY <1>1, <1>3, <1>4, <1>5, HostUnchanged DEF DiscoveryInv

LEMMA SubscriptionStep ==
  ASSUME DiscoveryInv, NEW w \in Watchers, Watch(w) \/ Unsubscribe(w)
  PROVE  DiscoveryInv'
<1>1. UNCHANGED <<state, quiet, wire, job, allow, entries>>
  BY DEF Watch, Unsubscribe
<1>2. sub' \in [Watchers -> {"none", "on", "off"}]
  BY DEF DiscoveryInv, TypeOK, Watch, Unsubscribe
<1>3. report' \in {"none"} \cup WatchErrors
  BY DEF Watch, Unsubscribe, WatchErrors
<1>4. TypeOK'
  BY <1>1, <1>2, <1>3 DEF DiscoveryInv, TypeOK
<1> QED
  BY <1>1, <1>4, HostUnchanged DEF DiscoveryInv, SealedBy

LEMMA ReceiveStep ==
  ASSUME DiscoveryInv, NEW w \in Watchers, NEW m \in wire \cup Foreign, Receive(w, m)
  PROVE  DiscoveryInv'
<1>1. UNCHANGED <<state, quiet, wire, sub, allow, entries>>
  BY DEF Receive
<1>2. m \in Message
  BY DiscoveryAssumption DEF DiscoveryInv, TypeOK
<1>3. report' \in {"none"} \cup WatchErrors \cup RejectErrors
  BY <1>2, OpenReports DEF Receive
<1>4. \/ job' = job
      \/ /\ openAnnouncement(WatchKey(w), m, 0) = "opened"
         /\ job' = [job EXCEPT ![w] = m.body]
  BY DEF Receive
<1>5. \A v \in Watchers : job'[v] = job[v] \/ (job'[v] \in Announcement /\ (Usable(job'[v]) => Vouched(job'[v])))
  BY <1>4, OpenedVouched DEF DiscoveryInv, TypeOK
<1>6. job' \in [Watchers -> Announcement \cup {NoJob}]
  BY <1>4, OpenedVouched DEF DiscoveryInv, TypeOK
<1>7. TypeOK'
  BY <1>1, <1>3, <1>6 DEF DiscoveryInv, TypeOK
<1>8. AllowlistSeesAuthentic'
  <2> SUFFICES ASSUME NEW v \in Watchers, job'[v] # NoJob, Usable(job'[v])
               PROVE  Vouched(job[v])'
    BY DEF AllowlistSeesAuthentic, Usable
  <2>1. Vouched(job'[v])
    BY <1>5 DEF DiscoveryInv, AllowlistSeesAuthentic
  <2> QED
    BY <1>1, <2>1 DEF Vouched
<1>9. RegistryTruthful'
  BY <1>1 DEF DiscoveryInv, RegistryTruthful, Vouched
<1> QED
  BY <1>1, <1>7, <1>8, <1>9 DEF DiscoveryInv, SealedBy

LEMMA ObserveStep ==
  ASSUME DiscoveryInv, NEW w \in Watchers, Observe(w)
  PROVE  DiscoveryInv'
<1>1. UNCHANGED <<state, quiet, wire, sub, allow>>
  BY DEF Observe
<1>2. /\ job' \in [Watchers -> Announcement \cup {NoJob}]
      /\ \A v \in Watchers : job'[v] = job[v] \/ job'[v] = NoJob
      /\ job[w] \in Announcement /\ job[w] # NoJob
  BY DEF Observe, DiscoveryInv, TypeOK
<1>3. report' \in {"none"} \cup RejectErrors
  BY ObserveReports DEF Observe
<1>4. \/ entries' = entries
      \/ /\ observe(job[w], allow) = "recorded"
         /\ entries' = [i \in DOMAIN entries \cup {job[w].id} |->
                          IF i = job[w].id THEN job[w] ELSE entries[i]]
  BY DEF Observe
<1>5. \A i \in DOMAIN entries' :
        \/ i \in DOMAIN entries /\ entries'[i] = entries[i]
        \/ /\ observe(job[w], allow) = "recorded"
           /\ i = job[w].id /\ entries'[i] = job[w]
  BY <1>4
<1>6. TypeOK'
  BY <1>1, <1>2, <1>3, <1>5 DEF DiscoveryInv, TypeOK
<1>7. AllowlistSeesAuthentic'
  BY <1>1, <1>2 DEF DiscoveryInv, AllowlistSeesAuthentic, Vouched
<1>8. RegistryTruthful'
  <2> SUFFICES ASSUME NEW i \in DOMAIN entries'
               PROVE  /\ entries'[i].id = i
                      /\ Vouched(entries'[i])
                      /\ Usable(entries'[i]) /\ entries'[i].addr \in allow
    BY <1>1 DEF RegistryTruthful, Vouched, Usable
  <2>1. CASE i \in DOMAIN entries /\ entries'[i] = entries[i]
    BY <2>1 DEF DiscoveryInv, RegistryTruthful
  <2>2. CASE observe(job[w], allow) = "recorded" /\ i = job[w].id /\ entries'[i] = job[w]
    BY <1>2, <2>2, RecordedPassed DEF DiscoveryInv, AllowlistSeesAuthentic
  <2> QED
    BY <1>5, <2>1, <2>2
<1> QED
  BY <1>1, <1>6, <1>7, <1>8 DEF DiscoveryInv, SealedBy

-----------------------------------------------------------------------------
\* The inductive invariant holds of every behaviour.
THEOREM Invariance == Spec => []DiscoveryInv
<1>1. ASSUME DiscoveryInv, [Next]_vars
      PROVE  DiscoveryInv'
  <2>1. CASE UNCHANGED vars
    <3>1. TypeOK' /\ AllowlistSeesAuthentic' /\ RegistryTruthful'
      BY <1>1, <2>1 DEF vars, DiscoveryInv, TypeOK, AllowlistSeesAuthentic, RegistryTruthful, Vouched
    <3> QED
      BY <1>1, <2>1, <3>1 DEF vars, DiscoveryInv, SealedBy
  <2>2. CASE Next
    BY <1>1, <2>2, LifeStep, NetworkStep, TickStep, SubscriptionStep, ReceiveStep, ObserveStep
       DEF Next
  <2> QED
    BY <1>1, <2>1, <2>2
<1> QED
  BY InitDiscovery, <1>1, PTL DEF Spec

\* Every variable of Discovery keeps its type.
THEOREM TypeCorrect == Spec => []TypeOK
<1>1. DiscoveryInv => TypeOK
  BY DEF DiscoveryInv
<1> QED
  BY Invariance, <1>1, PTL

\* RemoteRegistry: whatever is published on the subject, and in whatever order the
\* watchers' callbacks and the subscriptions' ends interleave, an entry is the
\* announcement of a process that ran with a watcher's key, at an admitted address.
THEOREM RegistryIsTruthful == Spec => []RegistryTruthful
<1>1. DiscoveryInv => RegistryTruthful
  BY DEF DiscoveryInv
<1> QED
  BY Invariance, <1>1, PTL

\* Watch: the allowlist is only asked about addresses that a key holder announced.
THEOREM AllowlistIsProtected == Spec => []AllowlistSeesAuthentic
<1>1. DiscoveryInv => AllowlistSeesAuthentic
  BY DEF DiscoveryInv
<1> QED
  BY Invariance, <1>1, PTL

\* AnnounceWindow: no message of a process that has been gone for the window plus
\* the skew is opened, for any window and any skew.
THEOREM ReplayIsBounded == Spec => ReplayBounded
<1>1. ASSUME DiscoveryInv, [Next]_vars, NEW w \in Watchers, NEW p \in Plugins,
             job[w] = NoJob, job'[w] = AnnOf[p]
      PROVE  quiet[p] < QuietCap
  <2>1. job'[w] # NoJob
    BY <1>1, DiscoveryAssumption
  <2>2. job' # job
    BY <1>1, <2>1
  <2>3. \A v \in Watchers : ~Observe(v)
    BY <1>1, <2>1 DEF Observe, DiscoveryInv, TypeOK
  <2>4. PICK v \in Watchers, m \in wire \cup Foreign : Receive(v, m)
    BY <1>1, <2>2, <2>3 DEF Next, vars, Boot, Exit, Announce, Lose, Tick, Watch, Unsubscribe
  <2>5. v = w /\ openAnnouncement(WatchKey(w), m, 0) = "opened" /\ m.body = AnnOf[p]
    BY <1>1, <2>1, <2>4 DEF Receive, DiscoveryInv, TypeOK
  <2>6. m \in wire
    BY <2>5, ForeignOpened
  <2>7. PICK q \in Plugins : SealedBy(m, q)
    BY <1>1, <2>6 DEF DiscoveryInv
  <2>8. AnnOf[q] = AnnOf[p] /\ quiet[q] < QuietCap
    BY <1>1, <2>5, <2>6, <2>7, SealedOpened DEF DiscoveryInv, TypeOK
  <2>9. q = p
    BY <2>8, DiscoveryAssumption
  <2> QED
    BY <2>8, <2>9
<1>2. DiscoveryInv /\ [Next]_vars =>
        [\A w \in Watchers, p \in Plugins :
           job[w] = NoJob /\ job'[w] = AnnOf[p] => quiet[p] < QuietCap]_vars
  BY <1>1
<1> QED
  BY Invariance, <1>2, PTL DEF Spec, ReplayBounded
=============================================================================
