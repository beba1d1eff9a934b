---------------------------- MODULE Announcements ----------------------------
(***************************************************************************)
(* The checks an announcement passes on its way into a registry            *)
(* (announce.go, and observe in remote_registry.go), as operators.         *)
(*                                                                         *)
(* Byte strings are abstracted to what the checks tell apart.  A MAC is    *)
(* the key it was computed under: it verifies under that key only, for the *)
(* body and the issue time it travels with.                                *)
(***************************************************************************)
EXTENDS Integers

CONSTANTS
  Secrets,        \* byte strings offered as key material
  WeakSecrets,    \* those shorter than 32 bytes or all zero
  NoKey,          \* the zero AnnounceKey
  Ids,            \* instance ids and categories, Blank being the empty string
  Categories,
  Blank,
  Addrs,          \* gRPC addresses
  HostPort,       \* those that split into a non-empty host and port
  Garbage,        \* a body that does not decode strictly
  AnnounceWindow, \* ticks an issue time may lie from the receiver's clock
  MaxDuration     \* the largest time.Duration

ASSUME AnnounceAssumption ==
  /\ WeakSecrets \subseteq Secrets /\ NoKey \notin Secrets
  /\ HostPort \subseteq Addrs
  /\ AnnounceWindow \in Nat
  /\ MaxDuration \in Nat /\ AnnounceWindow < MaxDuration

Announcement == [id: Ids, category: Categories, addr: Addrs]

\* What a subscription receives: the payload's size, whether the envelope decodes
\* strictly, and the envelope's three fields.
Message == [oversized: BOOLEAN, envelope: BOOLEAN, mac: Secrets \cup {NoKey},
            issued: Int, body: Announcement \cup {Garbage}]

ParseAnnounceKey(secret) == IF secret \in WeakSecrets THEN NoKey ELSE secret

usable(key) == key # NoKey

\* Mutation of sealAnnouncement: the MAC is made under the zero key.
sealAnnouncementZeroKey(key, ann, now, big) ==
  [oversized |-> big, envelope |-> TRUE, mac |-> NoKey, issued |-> now, body |-> ann]

sealAnnouncement(key, ann, now, big) ==
  [oversized |-> big, envelope |-> TRUE, mac |-> key, issued |-> now, body |-> ann]

-----------------------------------------------------------------------------
(* Freshness, in Go's saturating arithmetic on durations. *)

\* time.Time.Sub: the difference, or the nearest duration there is.
Sub(now, t) ==
  IF now - t > MaxDuration THEN MaxDuration
  ELSE IF now - t < -MaxDuration - 1 THEN -MaxDuration - 1
  ELSE now - t

\* time.Duration.Abs: the smallest duration has no negation.
Abs(d) ==
  IF d >= 0 THEN d ELSE IF d = -MaxDuration - 1 THEN MaxDuration ELSE -d

\* Mutations of fresh: only issue times ahead of the clock are bounded; the edges
\* of the window are outside.
freshSwapped(now, issued) == Sub(issued, now) <= AnnounceWindow
freshStrict(now, issued) == Abs(Sub(now, issued)) < AnnounceWindow

fresh(now, issued) == Abs(Sub(now, issued)) <= AnnounceWindow

-----------------------------------------------------------------------------
\* Mutation of openAnnouncement: the MAC is not compared.
openAnnouncementAnyMac(key, m, now) ==
  IF ~usable(key)               THEN "ErrNoAnnounceKey"
  ELSE IF m.oversized           THEN "ErrOversizedAnnouncement"
  ELSE IF ~m.envelope           THEN "ErrMalformedAnnouncement"
  ELSE IF ~fresh(now, m.issued) THEN "ErrStaleAnnouncement"
  ELSE IF m.body = Garbage      THEN "ErrMalformedAnnouncement"
  ELSE "opened"

\* The result of openAnnouncement: "opened", or the error of the first check that
\* fails.  The body is decoded only once it is authentic and fresh.
openAnnouncement(key, m, now) ==
  IF ~usable(key)               THEN "ErrNoAnnounceKey"
  ELSE IF m.oversized           THEN "ErrOversizedAnnouncement"
  ELSE IF ~m.envelope           THEN "ErrMalformedAnnouncement"
  ELSE IF m.mac # key           THEN "ErrUnauthenticatedAnnouncement"
  ELSE IF ~fresh(now, m.issued) THEN "ErrStaleAnnouncement"
  ELSE IF m.body = Garbage      THEN "ErrMalformedAnnouncement"
  ELSE "opened"

\* Whether observe looks at the address gate at all.
Usable(ann) == ann.id # Blank /\ ann.category # Blank /\ ann.addr \in HostPort

\* The result of observe for a registry whose allowlist admits the addresses in
\* allow: none of them when it was built without WithAddrAllow.
observe(ann, allow) ==
  IF ~Usable(ann)                THEN "ErrUnusableAnnouncement"
  ELSE IF ann.addr \notin allow  THEN "ErrAddrRefused"
  ELSE "recorded"
=============================================================================
