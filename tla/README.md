# Herrscher transport: specification and proofs

TLA+ models of the transport library under `src/`: the code that lets a Herrscher
host find plugin processes over NATS and use their backends, memories and
orchestrators over gRPC as if they were local objects. The models are checked with
TLC on small instances, and every safety property, with both refinements, is proved with
TLAPS for every instance as well. The two tools the repository keeps for its own build,
the code generator and the comment checker, are part of both.

## 1. The system

| Component | State | Operations | Talks to |
|---|---|---|---|
| Backend skeleton (`backend_stream.go`) | per turn: `sendLock`, `sendErr`, `closed` | stream handler, `onEvent` from any goroutine of the backend | stream to the proxy |
| Backend proxy (`backend_stream.go`) | per turn: the stream, its context | `Respond`, `Close` | stream to the skeleton, the host's `onEvent` |
| Announcements (`announce.go`) | none (keys) | `ParseAnnounceKey`, `Announce`, `openAnnouncement`, `WatchAnnouncements` | NATS subject `plugins.announce` |
| Remote registry (`remote_registry.go`) | map by instance id, allowlist | `Watch`, `observe`, queries by category | announcements, dialing |
| Plugin router (`plugin_router.go`) | process-wide claims on servers; per router a map of ports | `NewPluginRouter`, `add`, `Call`, cleanup | gRPC server, skeletons |
| Memory and orchestrator proxies and skeletons | none | one unary call per method | router, wire errors |
| Wire errors (`wire_error.go`, `fail`) | none | encode, decode | every unary call |
| Dialing and TLS (`remote_registry.go`, `tls.go`) | none | `Dial*`, `TLSConfig` | registry entries, gRPC |
| Generated code (`proto/`) | none | `RegisterPluginServer`, envelopes | gRPC |
| `tools/protogen` | the generated files, from run to run | compile, order, run two plugins, check, write | `.proto` sources, `go tool` plugins, signals |
| `tools/commentcheck` | per run: parsed files by directory, findings | walk, check, sort, print | the tree it checks, `go.mod` |

What is hard in this code:

* **Concurrent and late events.** A backend may call `onEvent` from several
  goroutines and keep calling after `Respond` has returned. gRPC forbids concurrent
  `SendMsg` calls and any send after the handler's end; the terminal frame is sent
  outside `sendLock`, so everything rests on the order of `closed`, `sendErr` and the lock.
* **Accepted is not delivered.** `SendMsg` returns once a frame is buffered. A
  crash or a dropped connection loses any suffix, and until the server's transport
  notices, it accepts frames that go nowhere.
* **Flow control.** A send blocks while it holds `sendLock`; the handler needs the
  same lock to finish.
* **Unreliable discovery.** NATS loses, delays and repeats announcements; clocks are
  skewed; anybody may publish on the subject.
* **Set-up races.** Routers, ports, `Serve` and the garbage collector interleave, and
  gRPC answers a misuse by ending the process.
* **Credentials read piecemeal.** Three files are read one after the other while an
  operator may be replacing them, on two machines, and plaintext is the default.
* **Ambiguous calls.** A unary call whose peer is lost may or may not have run.
* **Files in place.** `protogen` reads its source twice, runs two processes and then
  overwrites the old files one by one, while signals arrive and sources are edited.
* **A checker that must not be talked round.** `commentcheck` takes exemptions from the
  tree it checks, and goes through it in the random order of a Go map.

`PROJECT.json` lists these hazards line by line, with the properties that watch them.

## 2. Modules

| Module | Models | Kind |
|---|---|---|
| `GrpcStream` | one server-streaming call, as the code relies on it (external) | component |
| `BackendSkeleton` | `backendRespondHandler`, `respond`, `onEvent` | component |
| `BackendProxy` | `Respond`, `openRespondStream`, `applyBackendFrame`, `receiveFailure`, `Close` | component |
| `BackendTurn` | skeleton, stream and proxy together; properties and inductive invariant | composition |
| `Turn` | what a turn promises the host | abstract specification |
| `BackendTurnProofs` | TLAPS proofs | proofs |
| `AnyServer` | the proxy against an arbitrary peer | composition |
| `AnyServerProofs` | TLAPS proofs | proofs |
| `MCBackendTurn` | symmetry of the emitters | model checking |
| `Announcements` | the checks of `openAnnouncement` and `observe`, freshness arithmetic | operators |
| `Discovery` | plugins, NATS, watchers, registry | component |
| `DiscoveryProofs` | TLAPS proofs | proofs |
| `MCDiscovery` | plugins, keys and foreign messages of an instance | model checking |
| `PluginRouter` | claims, routers, ports | component |
| `PluginCall` | proxies, router dispatch, skeletons, wire errors | composition |
| `RemoteCall` | what a unary call promises its caller | abstract specification |
| `PluginCallProofs` | TLAPS proofs about routers and calls | proofs |
| `Dial` | `TLSConfig`, `dialConn`, `requireLoopback`, the `Dial` functions | component |
| `DialProofs` | TLAPS proofs | proofs |
| `Protogen` | `tools/protogen`, run after run | component |
| `ProtogenProofs` | TLAPS proofs | proofs |
| `MCProtogen` | paths a plugin may return | model checking |
| `CommentPolicy` | the rules of `comments.go`, `docs.go`, `directives.go` | operators |
| `CommentCheck` | a run of `tools/commentcheck`; the documented rules as a reference | component |
| `CommentCheckProofs` | TLAPS proofs | proofs |
| `SequenceFacts` | lemmas about sequences that the proofs share | proofs |
| `MCCommentCheck` | trees and command lines of an instance | model checking |

Operators marked as mutations (`CloseTurnUnlocked`, `freshStrict`, ...) are not part
of any specification. Each is a definition with one plausible mistake in it; putting
it in the place of the original breaks the property it is paired with in
`PROJECT.json`. They document what each property protects against.

### 2.1 The backend turn

`BackendTurn` has three kinds of processes.

* *Handler* (`hpc`): `idle` (before the request is read), `running` (inside
  `real.Respond`), `closing` (waiting for the critical section that sets `closed`),
  `replying` (the terminal frame), then `returned` or `refused`; `crashed` at any time.
* *Emitters* (`epc`): goroutines of the backend inside `onEvent`, `idle`, `locking`
  (waiting for `sendLock`) or `sending` (inside `SendMsg`, holding it). `onEvent` stays
  callable once it exists, so late calls are part of the model. An event may fail to
  encode (`EmitDropped`) or to send (`EmitSends`). So may the terminal frame:
  `EncodeReply`, whose failure ends the handler with an error, is taken with the closing
  step, since nothing another process sees lies between them, and `SendReply` sends.
* *Host* (`cpc`): `Respond` from `start` through `recv` to `done`, with `outcome` telling
  which `return` ended it; the deferred `cancel` is part of every return after
  `context.WithCancel`.

The stream keeps its history (`sent`, `recvd`) and the number of frames that can still
arrive (`reach`). `LinkBreaks` cuts `reach` to any point between what was received and
what was sent. `gone` is the server transport's knowledge that the stream is dead;
between a break and `NoticeGone`, sends succeed and are lost. `Window` is flow control.
`StreamFails` includes a next frame over the client's receive limit.

Frames are abstracted to four fields: whether the payload decodes, the event, `done`,
and whether the error text is empty. The error text's emptiness is kept because the
proxy decides by it alone.

`promised` is a history variable: the events whose `onEvent` call returned while
`real.Respond` was still running. These are the events a backend may believe delivered
when it returns, and `NoSilentGap` says an answered turn has replayed all of them.

`Turn` is the promise to the host: events are accepted until the turn closes, replayed
as a prefix, and the turn is answered only when it is closed and everything accepted
was replayed; it may fail at any moment before. The mapping reads accepted events off
`sent`, replayed ones off `seen` (off `recvd` when the host passed no hook) and the
verdict off `outcome`.

### 2.2 Discovery

`Announcements` writes the checks as operators in the order of the code. A MAC is
represented by the key it was made with: it verifies under this key only, together
with the body and issue time it travels with. `fresh` is written with Go's saturating
`time.Time.Sub` and `time.Duration.Abs`, over a small `MaxDuration`.

`Discovery` keeps time relative to the watchers' clock, so that a tick ages every
message instead of moving a clock. A plugin stamps with any clock within `MaxSkew`.
Messages stay deliverable until lost and may be received any number of times; at most
`MaxWire` are in flight, and a further one displaces others. `report` is the error the
last step handed to `onRejected` or returned from `Watch`; `allow` is the allowlist,
fixed when the registry is made. A
watcher's callback takes two steps, opening a message and `observe`, so other
subscriptions and `Unsubscribe` come between. `Foreign` are messages of other
publishers; `ForeignAssumption` says they do not hold the watchers' keys: a well-formed
fresh message under such a key is not one the registry could use.

Entries are never removed, in the model as in the code: `RegistryTruthful` therefore
speaks of processes that have run, not of processes that are alive.

### 2.3 Router and calls

`PluginRouter`: `claim` is the critical section of `pluginClaims.claim`,
`RegisterPluginServer` the rest of `NewPluginRouter`, and the gap between them is open
to everybody. `exited` records why gRPC ended the process; where a direct registration
was the reason, the history variable `already` tells one that NewPluginRouter found
when it claimed the server (`direct`) from one that slipped in between the claim and the
router's own (`directMeanwhile`). `Collect` takes a server that never served, or one that
was stopped and dropped; either leaves its claim behind until `release` runs.

`PluginCall` adds clients. The eight methods are three kinds by what they return.
`known` records whether the port was registered when the call was sent; `ret` what the
real object returned. `CallLost` is a lost peer, a done context or `Close`, at any step,
while the server goes on. A running handler refers to its server, so that one is not
collected (`HandlersKeepServers`); a call sent to a stopped server, through a registry
entry that never expires, is not dispatched and is lost (`PeerGone`). A `*BudgetError` is taken to have a text and to encode as JSON.

`RemoteCall` is the promise: a call is issued, executed at most once, and then succeeds,
only if the execution was good, or fails, which it may do whether or not it was
executed. The mapping reads the stages off `cpc`, the execution off `ret` and the verdict
off `result`; dispatch, refusals and encoding are stutters. A client never issues a call
again: neither the proxies nor gRPC, as the code configures it, retry one.

### 2.4 Dialing

`Dial` has two processes, a host and a plugin, each with a `TLSConfig` of any subset of
the three fields. A caller goes on without credentials only when TLS is not `Enabled`,
as the package's doc says; it may also call the constructors on any configuration.
`LoadKeyPair` and `ReadCA` are the two reads of `loadCertAndPool`; each read sees any
generation of certificates or a broken file, since files may change between reads. A
certificate is represented by the generation of the CA that signed it, a CA file by the
generations it holds, one or several (`Bundles`); one that cannot be read and one that
holds no certificate are errors of their own. `DialEntry` is
`dialConn` in its order: the context, the loopback rule for nil credentials,
`grpc.NewClient`. `Connect` is gRPC's handshake when the proxy is used, and either
process may restart under another configuration.

### 2.5 protogen

`Protogen` follows `generate` call by call. `OpenProto` and `Compile` are protocompile's
readings of the file and of its imports, with edits between them, so a compilation is
known by the versions of the sources at its first and its last reading: a pair of
different versions is a compilation that may mix them. The content of a generated file is
the compilation it comes from, `Absent`, or `Torn` (truncated and not yet written). `stack`,
`visited` and `ordered` are the activations and variables of `visit`, one step per call
or return, over any acyclic graph of imports. A plugin returns any sequence of paths,
duplicates and wrong names included. `checkOutputs` compares base names only, as the code
does, and `WriteFile` is one turn of the loop in `writeFiles`, which no longer looks at
the context. Runs follow each other on the same files; `Edit`, `Signal` (caught, cancels
the context) and `Kill` come between any two steps. `began` and `before` remember the
sources and files a run started from.

What the code gives up is visible in the statement of the properties: exit code 74 and a
killed run may leave torn and mixed files, and `ExitZeroIsWhole` says that the next run
that succeeds repairs the files asked for, not files at paths no plugin returns any more.
Nor does it say that the sources were of one version: an edit of several files between the
compiler's readings can be half in the request, and then all generated files have that half.

### 2.6 commentcheck

`CommentPolicy` has one operator per function of the checker. A comment group has a
place (package doc, doc of a node, in a function body, elsewhere), an owner (the path of
declarations, types and fields down to the node it documents, or its function), and
lines; a line is an ordinary text, a `//nolint`, an example output, or a `//go:`
directive with words. Words are classes: a flag with or without a value, `go`, `run`,
`tool`, a module at a version, a package of the tree, a pattern that matches a file, and
so on. The flag scanners, the tool blocks of `go.mod` and the precedence of the rules in
`strayComments` are kept.

`CommentCheck` is the run: `Walk` is the function given to `filepath.WalkDir`,
`CheckDirectory(d)` one turn of the loop over the map, for any directory left, and
`RootEnds` the sort. The order of the paths is a constant of its own, since the order of
a walk differs from it. `slices.SortFunc` is not stable, so `SortFunc` is any permutation
in which nothing compares less than what stands before it. `Groups`, `Nodes` and
`CommentLines` say what Go's parser can make of a file.

The properties compare this with a reference of three parts:

* `Documented` is the doc comment at the head of `tools/commentcheck/main.go`: no
  `//nolint`, and the package doc or the doc of an exported identifier (`ExportedDoc`),
  known directives outside bodies, or the Output comment that closes a runnable example
  of a test file. It makes no exception for test files, as that doc makes none.
* `KeptInTests` is what `comments_test.go` demands of test files
  (`TestATestFileKeepsOnlyExampleDocsDirectivesAndClosingOutputs`): they keep example
  docs, directives and closing outputs only. The doc comment does not say this; section 6.
* `Excused` is the doc comment's sentence on generated files.

`Obeys` is both of the first two, and is what `NothingHidden` asks of a comment that is
not listed; `FindingsAreReal` names them apart. The reference says what an exported
identifier, a runnable example and the last comment of a body are by quantifiers over the
tree (`Exported`, `RunnableExample`, `ClosingOutput`), not by the descent of `docs.go`. It
shares with the code what the doc only calls "known directives in their exact form": the
list and forms of `isKnownDirective`, with the reading of flags and of `go.mod`. Docs
inside a parenthesised type or a function type are not reached by the code, and the
reference does not count them as docs of package level identifiers either. A function
carries its place in the file (`decl`), so two examples of one shape are two.

## 3. Runs

| Run | Instance | Shows |
|---|---|---|
| `turn_safety` | 2 emitters, 2 events each, window 2 | `SendExclusive`, `FramingSound`, `ReplayInOrder`, `NoSilentGap`, `OutcomeFaithful`, `IndInv`, refinement of `Turn` |
| `turn_liveness` | 2 emitters, 1 event each, window 1 | `NeverHangs`, `EmittersReleased`, `HandlerReturns` |
| `any_server` | any 2 frames of a foreign peer, 2 event payloads | `ReplyOnlyFromDone`, `SeenIsConsumed`, `RespondReturns` |
| `discovery` | 2 plugins (one over the size limit), 2 watchers (one with a weak key), 10 foreign messages, 3 allowlists, window 1, skew 1, 2 messages in flight | `RegistryTruthful`, `AllowlistSeesAuthentic`, `DiscoveryInv`, `ReplayBounded`, `Discovered` |
| `plugin_call` | 2 servers, 2 goroutines, 2 ports, 1 client | `NoSecondRouter`, `WinnerServes`, `ClaimsReleased`, `SuccessWasRun`, `BudgetSurvives`, `RegisteredPortAnswers`, `CallInv`, `CallReturns`, refinement of `RemoteCall` |
| `protogen` | 4 `.proto` files, 3 output paths, 2 wanted names, up to 2 files a plugin, 1 edit | `ExitZeroIsWhole`, `FailureTouchesNothing`, `DependencyOrder`, `ProtogenInv`, `RunEnds` |
| `commentcheck` | 4 command lines over trees of up to 3 files in 2 directories | `NothingHidden`, `FindingsAreReal`, `ReportOrdered`, `CommentInv` |
| `dial` | all configurations, 2 generations, 3 kinds of address | `NoDowngrade`, `PlaintextStaysLocal`, `MutualTrust`, `DialInv` |
| `turn_blank_error`, `discovery_shape`, `router_direct`, `dial_no_port` | smallest | violations, section 6 |

`IndInv`, `DialInv`, `DiscoveryInv`, `CallInv`, `ProtogenInv` and `CommentInv` are the
inductive invariants of section 4; each contains the type invariant of its module.

Why the bounds are enough. The safety results do not rest on them: they are proved for
every instance, and the runs are there to find mistakes early and to show that the
models reach what the properties are about. For liveness, and for that reach: *Turn*:
two emitters are needed for overlapping sends and for one failing while another
succeeds, two events each for order and for a late call after an early one; a window of
two lets frames be in flight while more are sent. For liveness a window of one makes
every second send block. *Discovery*: window and skew of one give issue times on both
edges of the window, inside and outside; `MaxDuration` 4 with foreign issue times of -9
and 9 saturates in both directions. `MaxWire` 2 keeps an old and a new announcement of a
plugin, or one of each plugin, in flight at once. Only one watcher has a usable key: two
of them share nothing but the map, and the instance with both is beyond a few minutes;
the proofs are for any number. *Router and call*: two goroutines race
on one server or work on two, before and after collection, and register on each other's
routers; a claimed server is also stopped and collected under a waiting call; calls share
nothing but the router, whose steps interleave with one call in
every way. *Protogen*: four files are the fewest with a diamond of imports, and all
acyclic graphs of four are tried; two files from each plugin give missing, extra and
duplicate names and one path from both plugins; one edit between any two steps, the
compiler's readings among them, makes two versions and a mixture of them, and runs repeat without bound. *Commentcheck*: the rules look at one comment
at a time, except for the last comment of a body and for generators, so trees of one
comment of every kind, two comments in bodies, and two files for the generators meet
every branch; three files in two directories mix walk order, path order and map order.
*Dial*: two generations make every mixture of old and new files, and one address of each
kind is enough since one is dialed at a time.

### Fairness

* Turn: goroutines that can run do (WF). The critical section of the handler and the
  first step of `onEvent` have strong fairness, because a `sync.Mutex` in starvation
  mode hands itself to the longest waiter. gRPC resets the server side of a dead stream
  (`NoticeGone`, WF). Nothing is assumed of the backend (it need not return or emit),
  of the host's cancellation or of the network; hence `NeverHangs` starts from a break,
  a cancellation or a returned backend. `EmittersReleased` needs the host to read on or
  to return: `RespondStep` includes the host's `onEvent`, which is assumed to return.
* AnyServer: only `Respond` itself.
* Discovery: a running plugin re-announces, and not always just while a watcher's
  callback is busy (strong fairness of announcing to an idle watcher); NATS does not lose
  every message of an endless supply (strong fairness of receiving a fresh one, beside
  the foreign messages); callbacks end, as the docs of `Watch` require of the hooks.
* Call: gRPC dispatches, delivers replies, and fails the calls of an exited process or to
  a stopped server (`PeerGone`); the runtime runs the cleanup of a collected object. Nothing makes the real object return.
  `ClaimsReleased` says that again and again all claims left are on live servers.
* Protogen: the run is scheduled and its plugins, which read a finite input, return.
  No fairness is assumed of signals, kills, edits or of starting another run.
* Commentcheck: none; its properties are invariants.

The `plugin_call` run switches off deadlock checking: a process that has been ended
by gRPC, or that has nothing left to set up, stops.

## 4. Proofs

`BackendTurnProofs` proves, for any set of emitters, any `MaxCalls` and any positive
`Window`, from `StreamAssumption` (`NoEvent` is not an event, the window is positive)
and `MaxCallsAssumption`:

| Theorem | Statement |
|---|---|
| `TypeCorrect` | `Spec => []TypeOK` |
| `Invariance` | `Spec => []IndInv` |
| `SendsAreExclusive` | `Spec => []SendExclusive` |
| `FramingIsSound` | `Spec => []FramingSound` |
| `ReplaysInOrder` | `Spec => []ReplayInOrder` |
| `NoEventLost` | `Spec => []NoSilentGap` |
| `OutcomeIsFaithful` | `Spec => []OutcomeFaithful` |
| `ImplementsTurn` | `Spec => AbstractTurn` |

None of the properties is inductive by itself. The argument:

1. `LockInv`: an emitter in `SendMsg` holds the lock and the turn is not closed; `closed`
   separates `closing` from `replying`; a handler that replies has seen no failed event.
   Setting `closed` needs the free lock, so at that moment nobody sends, and later
   nobody starts. This gives `SendExclusive`.
2. `WireInv`: the wire is events followed by at most one Done frame; a Done frame exists
   only after the turn is closed without a failed event; status OK comes only behind it.
   With it, the proxy's `decode`, `invalidFrame` and `hangup` returns are unreachable.
3. `PromiseInv`: while no event has failed, every promised event is on the wire.
4. `ReplayInv`: what the host has seen equals the wire up to what it consumed; an answer
   means that it consumed everything, a Done frame last.

2, 3 and 4 give `NoSilentGap`: an answered turn consumed a Done frame, so no event had
failed, so every promised event is on the wire, before the Done frame, and was replayed.

The proof has one lemma per process (`PluginInd`, `HostInd`) with one step per action.
`ImplementsTurn` uses `IndInv` in every step: `SendReply` leaves the abstract turn
unchanged because a Done frame is not counted as an event; `ReceiveFrame` is `Replay`,
`Answer` or, for nothing in this system, `Fail`; the other returns are `Fail`.

`DialProofs` proves, for any generations and addresses, from `DialAssumption`:
`DialInvariance` (`Spec => []DialInv`), `NeverDowngraded` (`NoDowngrade`),
`PlaintextIsLocal` (`PlaintextStaysLocal`) and `TrustIsMutual` (`MutualTrust`).
`NoDowngrade` is not inductive: that both ends of a plaintext link have nothing set
needs that an end that is ready without credentials has an empty configuration, that
credentials exist only under a complete one, and that a link is the handshake of the
ends as they are now, since a restart, which may change a configuration, ends it.

`AnyServerProofs`, for any number of frames (`StreamAssumption`, `MaxFramesAssumption`):

| Theorem | Statement |
|---|---|
| `Invariance` | `Spec => []TurnInv` |
| `RepliesComeFromDone` | `Spec => []ReplyOnlyFromDone` |
| `HostSeesWhatWasConsumed` | `Spec => []SeenIsConsumed` |

`TurnInv` is defined beside its proof: all frames consumed before the last were events,
each was seen at its place, and an outcome that a frame decides is `applyBackendFrame` of
the last one. A peer only adds frames behind those, so nothing it does disturbs this.

`DiscoveryProofs`, for any plugins, watchers, keys, foreign messages, window, skew and
wire, from `AnnounceAssumption` (the window is below the largest duration, and no
secret is the mark for a missing key), `DiscoveryAssumption` (instance ids differ, and types) and
`ForeignAssumption` (section 2.2):

| Theorem | Statement |
|---|---|
| `FreshIsTheWindow` | `fresh(now, issued) <=> issued \in (now - AnnounceWindow)..(now + AnnounceWindow)`, for all integers |
| `Invariance` | `Spec => []DiscoveryInv` |
| `TypeCorrect` | `Spec => []TypeOK` |
| `RegistryIsTruthful` | `Spec => []RegistryTruthful` |
| `AllowlistIsProtected` | `Spec => []AllowlistSeesAuthentic` |
| `ReplayIsBounded` | `Spec => ReplayBounded` (an action property) |

`DiscoveryInv`: every message of a plugin on the wire was sealed by a process that ran,
and its issue time plus the time its process has been gone stays below the skew. What a
callback opens is such a message or a foreign one; the first is vouched for, the second
fails a check or is nothing the registry could use. Both together bound replays: a
message that is opened is within the window (`FreshIsTheWindow`), so its process has not
been gone for longer than window and skew.

`PluginCallProofs`, for any servers, goroutines, ports and clients, from
`RouterAssumption` and `CallAssumption` (the stand-ins for "none" and for a direct
registration are not goroutines, servers, requests, envelopes or results):

| Theorem | Statement |
|---|---|
| `Invariance` | `Spec => []CallInv` |
| `TypeCorrect` | `Spec => []TypeOK` |
| `RoutersNeverMeet` | `Spec => []NoSecondRouter` |
| `WinnersServe` | `Spec => []WinnerServes` |
| `SuccessIsARun` | `Spec => []SuccessWasRun` |
| `BudgetErrorSurvives` | `Spec => []BudgetSurvives` |
| `RegisteredPortsAnswer` | `Spec => []RegisteredPortAnswers` |
| `CallsImplementRemoteCall` | `Spec => ImplementsRemoteCall` |

`RouterInv`: two goroutines between `claim` and the registration are at different servers,
whose claims they hold, and a live server that has a router is claimed. A claim is
released only for a collected server, so the gap between claim and registration is safe.
`CallOK`, per client, ties the reply and the result to how far the call came: a reply of
a skeleton encodes what the real object returned, a result decodes the reply or is an
error of its own. The refinement uses it where a result is returned: success is mapped to
a good execution because the envelope was that of one.

`ProtogenProofs`, for any number of `.proto` files with any acyclic imports, any paths,
wanted names, plugin responses and edits, from `ProtogenAssumption`:

| Theorem | Statement |
|---|---|
| `Invariance` | `Spec => []ProtogenInv` |
| `TypeCorrect` | `Spec => []TypeOK` |
| `ZeroMeansWhole` | `Spec => []ExitZeroIsWhole` |
| `EarlyFailuresTouchNothing` | `Spec => []FailureTouchesNothing` |
| `DescriptorsAreOrdered` | `Spec => []DependencyOrder` |

`WriteInv`: until the writes begin the files are as before; all files of a run come
from its one compilation, whose readings lie within the run; during the writes, those before the next one are written.
`OrderInv` is the depth-first search: what is visited is listed or on the stack, what is
listed comes once and behind its imports, an activation is through with imports that are
listed, but for the one the next activation is about, and file numbers rise along the
stack, so a listed file never waits for one below it. Each visited file carries a path of
imports from the first (`ReachedBy`), which is what makes the list no longer than needed.
That the list is complete when the stack is empty needs that a set which holds the first
file and is closed under imports holds every file reached.

`CommentCheckProofs`, for any trees of any files, any comments, any `go.mod` and any
command lines, from `CommentAssumption` (a path is in a tree once, and types):

| Theorem | Statement |
|---|---|
| `RulesAreTheDocumented` | `~file.test`: `GroupFindings(file, j) = <<>> <=> Documented(file, j)` |
| `TestFilesKeepLess` | `file.test`: `GroupFindings(file, j) = <<>> <=> Documented(file, j) /\ KeptInTests(file, j)` |
| `DocumentedYetRefused` | the plain package doc of a test file is `Documented`, and `GroupFindings(file, j) # <<>>` |
| `Invariance` | `Spec => []CommentInv` |
| `NothingIsHidden` | `Spec => []NothingHidden` |
| `FindingsAreFounded` | `Spec => []FindingsAreReal` |
| `ReportIsOrdered` | `Spec => []ReportOrdered` |
| `TypeCorrect` | `Spec => []TypeOK` |

The first three are about the operators alone: the nested conditions of `strayComments`
and the descent of `docs.go` against the sentences of the command's doc, where test files
are told apart because that doc does not speak of their rule. They follow from one lemma,
`FindingsBreakRules`. `FindingsAreFounded` has the same exception as the property it proves.
`RootInv` says that, under the root at hand, an entry the walk has passed is reported or
waits in the map, that a directory taken from the map is reported, and that findings are
at different places; `StraysInv` carries this over the finished roots, `OneRootInv` the
order. Distinct places are what the order of the report needs: `compareFindings` says
nothing of findings at one place, and an unstable sort could print them either way.

**Induction.** The installed provers cannot use the library's induction theorems.
`SequenceFacts` states that a nonempty set of naturals has a least element
(`LeastNatural`), and the proofs reason from a least counterexample instead: about
paths of imports, and about `FlattenSeq`, whose recursive function is first shown to
exist (`JoinsExists`) and to satisfy its equation (`FlattenUnfolds`). `FlattenFacts`
gives what the proofs need: what is in a flattened sequence, and when it is free of
repetitions.

**What the proofs corrected.** In `Discovery`, the type invariant bounded issue times
wrongly when `MaxSkew` exceeds the window by more than one, and the invariant needs
that only a process that is gone has aged. `PluginRouter` has to assume that its mark for
a direct registration is no goroutine. In `CommentPolicy` the value of a flag could be
taken for the name of a tool. `CommentCheck` had a stable sort, which Go does not promise.

**Only model-checked.** Every liveness property: `NeverHangs`, `EmittersReleased`,
`HandlerReturns`, `RespondReturns`, `Discovered`, `ClaimsReleased`, `CallReturns` and
`RunEnds`; fairness and `ENABLED` are outside the prover's reach. The four violations of
section 6 are counterexamples, which need no proof.

## 5. Not modelled

* The contents of prompts, replies, nodes and manifests; JSON itself. Whether a value
  encodes or decodes is a nondeterministic choice wherever the code checks for it.
* TLS handshakes, HMAC, NATS and gRPC internals.
* Redaction of keys in logs: `String`, `GoString` and `LogValue` return a constant.
* The generated code beyond `RegisterPluginServer` and the result envelope: reflection
  tables, getters and dispatch stubs, which keep no state of the system.
* The texts and notices of `errors.go`; its errors appear by name.
* Scripts and continuous integration.
* protogen: the compiler and the plugins themselves; a grandchild of `go tool` that keeps
  the output pipe open after a signal, for which `command.Run` would wait.
* commentcheck: Go's parser, quoting and path syntax, the search for the nearest `go.mod`
  (one is given), `//line` directives, which would move a finding's position (`AtLines`
  takes the place of a comment for its position), and files that change while a run reads them.
* Panics of the real backend (a crash of the plugin process covers them).

## 6. Findings

* `turn_blank_error`: a backend error with an empty text arrives as a successful reply;
  the frame has no other mark of failure. The unary methods that return only an error
  have the same defect; `SuccessWasRun` names it as its one exception.
* `discovery_shape`: the README's order of checks puts the announcement's shape before
  authentication; the code authenticates first. A malformed, unauthenticated message is
  reported with another error than documented.
* `router_direct`: `ErrPluginServiceRegistered` is documented for any server that serves
  the Plugin service already, but is returned only when a router claimed it; on a service
  that was registered directly before the call, the process exits. A registration between
  the claim and the router's own ends the process too; no line promises otherwise, and the
  property does not count it.
* `dial_no_port`: `DialMemory` and its siblings document an address error for an address
  without a port; with TLS credentials the address is not looked at and a proxy is
  returned.

One disagreement is proved instead of shown by a run of its own: the doc comment of
`commentcheck` (`tools/commentcheck/main.go:4-5`) allows "the package doc, the docs of
exported package level identifiers", and the code (`comments.go:17-20`) refuses both in
`_test.go` files, examples aside. The tests want the code's rule, so it is the doc that
leaves it out. `DocumentedYetRefused` is the proof, `FindingsAreReal` states the exception.

## 7. Plan

Modelled and checked: every component but the ones of section 5. Proved: every invariant
and every action property the runs check, and both refinements. What is left:

1. Readability of the long proofs: shared facts of `CommentCheckProofs` and
   `ProtogenProofs` as lemmas of their own.
2. More action properties with proofs, where the code makes a promise about steps: the
   files a run of protogen may change, entries of the registry that are replaced.
3. `TurnInv` of `AnyServer` as an invariant of its run.
