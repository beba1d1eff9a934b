------------------------------ MODULE Discovery ------------------------------
(***************************************************************************)
(* Discovery: plugin processes announce themselves again and again over    *)
(* NATS, which may delay, lose or repeat any message; the watchers of a    *)
(* host open each message and record what passes in one RemoteRegistry,    *)
(* which the host queries.                                                 *)
(*                                                                         *)
(* Time is relative to the watchers' clock, which always reads 0: a tick   *)
(* moves every issue time one into the past.                               *)
(***************************************************************************)
EXTENDS Announcements, FiniteSets

CONSTANTS
  Plugins,      \* plugin processes
  AnnOf,        \* the announcement of each, its per-process id included
  BigManifest,  \* plugins whose sealed announcement exceeds 32 KiB
  SecretOf,     \* the secret each plugin process was given
  Watchers,     \* subscriptions of the registry
  WatchSecret,  \* the secret each was given
  Foreign,      \* messages of other publishers on the subject
  AllowLists,   \* what the registry's allowlist may admit, {} without WithAddrAllow
  NoJob,        \* a subscription goroutine between two messages
  MaxSkew,      \* bound: how far plugin clocks are from the watchers'
  MaxWire       \* bound: announcements in flight at a time

ASSUME DiscoveryAssumption ==
  /\ AnnOf \in [Plugins -> Announcement]
  /\ \A p, q \in Plugins : AnnOf[p].id = AnnOf[q].id => p = q
  /\ BigManifest \subseteq Plugins
  /\ SecretOf \in [Plugins -> Secrets]
  /\ WatchSecret \in [Watchers -> Secrets]
  /\ Foreign \subseteq Message
  /\ AllowLists \subseteq SUBSET Addrs
  /\ NoJob \notin Announcement
  /\ MaxSkew \in Nat /\ MaxWire \in Nat \ {0}

\* Only the plugin processes hold the watchers' keys: a well-formed message that
\* others publish under them is an old one, or one no plugin would send.
ASSUME ForeignAssumption ==
  \A m \in Foreign, w \in Watchers :
    /\ ~m.oversized /\ m.envelope /\ m.body # Garbage
    /\ m.mac = ParseAnnounceKey(WatchSecret[w])
    /\ m.issued \in (-AnnounceWindow)..AnnounceWindow
    => ~Usable(m.body) /\ \A p \in Plugins : m.body # AnnOf[p]

VARIABLES
  state,      \* "off", "up" or "gone": the life of each plugin process
  quiet,      \* ticks since each plugin process is gone, capped
  wire,       \* announcements on the subject that may still be delivered
  sub,        \* each watcher's subscription: "none", "on" or "off"
  job,        \* the announcement each watcher's callback has opened, or NoJob
  report,     \* the error the last step gave to onRejected or returned from Watch
  allow,      \* the addresses its allowlist admits
  entries     \* the registry's map, by instance id

vars == <<state, quiet, wire, sub, job, report, allow, entries>>

WatchErrors == {"ErrNilHook", "ErrNoAnnounceKey", "nats"}
RejectErrors ==
  {"ErrOversizedAnnouncement", "ErrMalformedAnnouncement", "ErrUnauthenticatedAnnouncement",
   "ErrStaleAnnouncement", "ErrUnusableAnnouncement", "ErrAddrRefused"}

PluginKey(p) == ParseAnnounceKey(SecretOf[p])
WatchKey(w) == ParseAnnounceKey(WatchSecret[w])

\* Issue times beyond the window are all alike: they are kept at its far edge.
Oldest == -(AnnounceWindow + 1)

\* Once this quiet, a process has left no announcement that is still fresh.
QuietCap == AnnounceWindow + MaxSkew + 1

Init ==
  /\ state = [p \in Plugins |-> "off"]
  /\ quiet = [p \in Plugins |-> 0]
  /\ wire = {}
  /\ sub = [w \in Watchers |-> "none"]
  /\ job = [w \in Watchers |-> NoJob]
  /\ report = "none"
  /\ allow \in AllowLists
  /\ entries = <<>>

-----------------------------------------------------------------------------
(* Plugin processes and the network. *)

Boot(p) ==
  /\ state[p] = "off"
  /\ state' = [state EXCEPT ![p] = "up"]
  /\ report' = "none"
  /\ UNCHANGED <<quiet, wire, sub, job, allow, entries>>

Exit(p) ==
  /\ state[p] = "up"
  /\ state' = [state EXCEPT ![p] = "gone"]
  /\ report' = "none"
  /\ UNCHANGED <<quiet, wire, sub, job, allow, entries>>

\* Announce: refused without a key, otherwise sealed with the process's clock and
\* published; a wire that is full loses a message for it.
Announce(p) ==
  /\ state[p] = "up"
  /\ usable(PluginKey(p))
  /\ \E now \in (-MaxSkew)..MaxSkew, lost \in SUBSET wire :
       /\ wire' = (wire \ lost) \cup {sealAnnouncement(PluginKey(p), AnnOf[p], now, p \in BigManifest)}
       /\ Cardinality(wire') <= MaxWire
  /\ report' = "none"
  /\ UNCHANGED <<state, quiet, sub, job, allow, entries>>

Lose(m) ==
  /\ wire' = wire \ {m}
  /\ report' = "none"
  /\ UNCHANGED <<state, quiet, sub, job, allow, entries>>

Older(m) == [m EXCEPT !.issued = IF @ > Oldest THEN @ - 1 ELSE @]

Tick ==
  /\ wire' = {Older(m) : m \in wire}
  /\ quiet' = [p \in Plugins |->
                 IF state[p] = "gone" /\ quiet[p] < QuietCap THEN quiet[p] + 1 ELSE quiet[p]]
  /\ report' = "none"
  /\ UNCHANGED <<state, sub, job, allow, entries>>

-----------------------------------------------------------------------------
(* The host: subscriptions, and the registry they feed. *)

\* Watch, through subscribeAnnouncements: no subscription without both hooks and
\* a key, and none when NATS refuses it.
Watch(w) ==
  /\ sub[w] = "none"
  /\ \/ /\ usable(WatchKey(w))
        /\ sub' = [sub EXCEPT ![w] = "on"]
        /\ report' = "none"
     \/ /\ report' \in {"ErrNilHook", IF usable(WatchKey(w)) THEN "nats" ELSE "ErrNoAnnounceKey"}
        /\ UNCHANGED sub
  /\ UNCHANGED <<state, quiet, wire, job, allow, entries>>

\* The subscription goroutine takes one message at a time and opens it; what
\* passes goes on to observe, the rest to onRejected.
Receive(w, m) ==
  /\ sub[w] = "on"
  /\ job[w] = NoJob
  /\ LET res == openAnnouncement(WatchKey(w), m, 0) IN
       \/ /\ res = "opened"
          /\ job' = [job EXCEPT ![w] = m.body]
          /\ report' = "none"
       \/ /\ res # "opened"
          /\ report' = res
          /\ UNCHANGED job
  /\ UNCHANGED <<state, quiet, wire, sub, allow, entries>>

\* observe: the gates, then the write under the registry's lock.  The callback
\* finishes even when the subscription has ended meanwhile.
Observe(w) ==
  /\ job[w] # NoJob
  /\ LET ann == job[w]
         res == observe(ann, allow)
     IN  \/ /\ res = "recorded"
            /\ entries' = [i \in DOMAIN entries \cup {ann.id} |->
                             IF i = ann.id THEN ann ELSE entries[i]]
            /\ report' = "none"
         \/ /\ res # "recorded"
            /\ report' = res
            /\ UNCHANGED entries
  /\ job' = [job EXCEPT ![w] = NoJob]
  /\ UNCHANGED <<state, quiet, wire, sub, allow>>

Unsubscribe(w) ==
  /\ sub[w] = "on"
  /\ sub' = [sub EXCEPT ![w] = "off"]
  /\ report' = "none"
  /\ UNCHANGED <<state, quiet, wire, job, allow, entries>>

\* byCategory, behind Memories, Orchestrators and Backends.
byCategory(category) ==
  {entries[i] : i \in {j \in DOMAIN entries : entries[j].category = category}}

Next ==
  \/ \E p \in Plugins : Boot(p) \/ Exit(p) \/ Announce(p)
  \/ \E m \in wire : Lose(m)
  \/ Tick
  \/ \E w \in Watchers : \/ Watch(w)
                         \/ \E m \in wire \cup Foreign : Receive(w, m)
                         \/ Observe(w)
                         \/ Unsubscribe(w)

Spec == Init /\ [][Next]_vars

(***************************************************************************)
(* Fairness.  A running plugin re-announces, and not always at a moment    *)
(* when a watcher's callback is busy; NATS may lose messages, but not all  *)
(* of an endless supply; callbacks run to their end.                       *)
(***************************************************************************)
\* The pairs that can find each other: one usable key, and a manifest in the limit.
Pairs ==
  {pw \in (Plugins \ BigManifest) \X Watchers :
     PluginKey(pw[1]) = WatchKey(pw[2]) /\ usable(WatchKey(pw[2]))}

Fairness ==
  /\ \A w \in Watchers : WF_vars(Observe(w))
  /\ \A pw \in Pairs :
       LET p == pw[1]  w == pw[2] IN
         /\ SF_vars(job[w] = NoJob /\ Announce(p))
         /\ SF_vars(\E m \in wire : m.body = AnnOf[p] /\ fresh(0, m.issued) /\ Receive(w, m))

FairSpec == Spec /\ Fairness

-----------------------------------------------------------------------------
\* Every variable holds a value of its type.
TypeOK ==
  /\ state \in [Plugins -> {"off", "up", "gone"}]
  /\ quiet \in [Plugins -> 0..QuietCap]
  /\ \A m \in wire : m \in Message /\ m.issued <= MaxSkew
  /\ sub \in [Watchers -> {"none", "on", "off"}]
  /\ job \in [Watchers -> Announcement \cup {NoJob}]
  /\ report \in {"none"} \cup WatchErrors \cup RejectErrors
  /\ allow \in AllowLists
  /\ \A i \in DOMAIN entries : entries[i] \in Announcement

\* A plugin process that has announced itself, within the size a watcher reads,
\* under the key of a watcher.
Vouched(ann) ==
  \E p \in Plugins \ BigManifest, w \in Watchers :
    /\ AnnOf[p] = ann /\ state[p] # "off"
    /\ PluginKey(p) = WatchKey(w) /\ usable(WatchKey(w))

\* The registry tells the truth: an entry is, field for field, the announcement
\* of a process that ran with a watcher's key and a manifest within the limit,
\* however the messages of others claimed the same id, and its address passed the
\* allowlist.
RegistryTruthful ==
  \A i \in DOMAIN entries :
    /\ entries[i].id = i
    /\ Vouched(entries[i])
    /\ Usable(entries[i]) /\ entries[i].addr \in allow

\* "An unsigned message never reaches the allowlist" (Watch): the allowlist is
\* only ever asked about addresses that a key holder announced, also after the
\* subscription that opened them has ended.
AllowlistSeesAuthentic ==
  \A w \in Watchers : job[w] # NoJob /\ Usable(job[w]) => Vouched(job[w])

\* "A captured one stays replayable only briefly" (AnnounceWindow): once a
\* process has been gone for the window plus its clock's lead, no message of it,
\* however delayed or repeated, is opened again.
ReplayBounded ==
  [][\A w \in Watchers, p \in Plugins :
       job[w] = NoJob /\ job'[w] = AnnOf[p] => quiet[p] < QuietCap]_vars

\* A process that keeps running with a watcher's key and a usable, admitted
\* address is found, although the network may lose announcements, as long as the
\* watcher stays subscribed: re-announcing makes up for the missing replay.
Findable(p, w) ==
  state[p] = "up" /\ sub[w] = "on" /\ observe(AnnOf[p], allow) = "recorded"

Discovered ==
  \A pw \in Pairs :
    LET p == pw[1]  w == pw[2] IN
      Findable(p, w) ~> (~Findable(p, w) \/ AnnOf[p] \in byCategory(AnnOf[p].category))

-----------------------------------------------------------------------------
\* A message as process p sealed it, at a time when it ran: p's clock was at most
\* MaxSkew ahead then, and the message has aged for as long as p is gone.
SealedBy(m, p) ==
  /\ usable(PluginKey(p)) /\ state[p] # "off"
  /\ m.envelope /\ m.mac = PluginKey(p) /\ m.body = AnnOf[p]
  /\ m.oversized = (p \in BigManifest)
  /\ m.issued <= Oldest \/ m.issued + quiet[p] <= MaxSkew

\* The inductive invariant: everything on the wire was sealed by a process that
\* ran, only a process that is gone has aged, what a callback has opened is vouched
\* for, and so is every entry.
DiscoveryInv ==
  /\ TypeOK
  /\ \A p \in Plugins : state[p] # "gone" => quiet[p] = 0
  /\ \A m \in wire : \E p \in Plugins : SealedBy(m, p)
  /\ AllowlistSeesAuthentic
  /\ RegistryTruthful

\* README, "Discovery and trust": the shape of the envelope and of the
\* announcement is checked before authentication and freshness, so a message
\* whose announcement does not decode is refused as malformed.
ShapeBeforeAuthentication ==
  [][\A w \in Watchers, m \in Foreign :
       Receive(w, m) /\ ~m.oversized /\ (~m.envelope \/ m.body = Garbage) =>
         report' = "ErrMalformedAnnouncement"]_vars
=============================================================================
