----------------------------- MODULE BackendTurn -----------------------------
(***************************************************************************)
(* One backend turn end to end: BackendProxy.Respond on the host, the      *)
(* skeleton's respond in the plugin process, and the gRPC stream between   *)
(* them, with connections that drop, plugins that crash and hosts that     *)
(* give up at any step.                                                    *)
(***************************************************************************)
EXTENDS BackendSkeleton, BackendProxy

vars == <<streamVars, skeletonVars, proxyVars>>

Init == StreamInit /\ SkeletonInit /\ ProxyInit

Plugin == SkeletonStep /\ UNCHANGED proxyVars
Host == (RespondStep \/ HostStep) /\ UNCHANGED skeletonVars
Network == (LinkBreaks \/ NoticeGone) /\ UNCHANGED <<skeletonVars, proxyVars>>

\* Nothing is left to do: the host has its result and no goroutine of the
\* turn is alive in the plugin.
Finished ==
  /\ cpc = "done"
  /\ hpc \in {"idle", "returned", "refused", "crashed"}
  /\ hpc # "crashed" => \A e \in Emitters : epc[e] = "idle"
  /\ UNCHANGED vars

Next == Plugin \/ Host \/ Network \/ Finished

Spec == Init /\ [][Next]_vars

(***************************************************************************)
(* Fairness.  The Go scheduler runs every goroutine that can run, a        *)
(* sync.Mutex hands itself to a starving waiter, and gRPC resets the       *)
(* server side of a dead stream.  Nothing makes the real backend return    *)
(* from Respond or call onEvent, the host cancel, or a connection drop.    *)
(***************************************************************************)
Fairness ==
  /\ WF_vars(RespondStep /\ UNCHANGED skeletonVars)
  /\ WF_vars(NoticeGone /\ UNCHANGED <<skeletonVars, proxyVars>>)
  /\ WF_vars((HandleRequest \/ RecvRequestFails) /\ UNCHANGED proxyVars)
  /\ SF_vars(CloseTurn /\ UNCHANGED proxyVars)
  /\ WF_vars(SendReply /\ UNCHANGED proxyVars)
  /\ \A e \in Emitters :
       /\ SF_vars((EmitDropped(e) \/ EmitLocks(e)) /\ UNCHANGED proxyVars)
       /\ WF_vars(EmitSends(e) /\ UNCHANGED proxyVars)

FairSpec == Spec /\ Fairness

-----------------------------------------------------------------------------
\* Every variable holds a value of its type, and the stream's positions are
\* ordered: what RecvMsg returned is within what can reach the client, which is
\* within what SendMsg accepted.
TypeOK == StreamTypeOK /\ SkeletonTypeOK /\ ProxyTypeOK

\* gRPC allows one SendMsg at a time on a stream, and none once the handler has
\* returned.  The terminal frame is sent outside sendLock and the backend's
\* goroutines may outlive Respond, so this rests on `closed` (respond).
SendExclusive ==
  /\ \A e, f \in Emitters : epc[e] = "sending" /\ epc[f] = "sending" => e = f
  /\ \A e \in Emitters : epc[e] = "sending" => hpc \notin {"replying", "returned", "refused"}

\* A host that talks to this skeleton never meets a frame it cannot read, and
\* never an orderly end of the stream without the Done frame: those returns of
\* Respond are for foreign peers only.
FramingSound == outcome \notin {"decode", "invalidFrame", "hangup"}

\* Respond "replays each event through onEvent in order": what the host has seen
\* is the wire's sequence of events from its start, without gap or repetition.
ReplayInOrder ==
  hook => /\ Len(seen) <= Len(sent)
          /\ \A i \in 1..Len(seen) : seen[i] = sent[i].event

\* A turn that ends with the backend's answer lost no event: every event whose
\* onEvent call had returned before real.Respond did was replayed to the host.
\* An event that fails to encode or send must fail the whole turn instead.
NoSilentGap ==
  outcome \in {"reply", "remoteError"} /\ hook =>
    \A ev \in promised : \E i \in 1..Len(seen) : seen[i] = ev

\* The host's result is the backend's: an answer is reported only for a
\* Respond that returned, an error text as an error and never as a reply.
OutcomeFaithful ==
  outcome \in {"reply", "remoteError"} =>
    /\ hpc \in {"returned", "crashed"} /\ closed
    /\ outcome = "remoteError" <=> respErr = "text"

\* TestBackendStreamSurfacesRespondError: a Respond that returned an error
\* surfaces as one.  It fails for an error with an empty text, which errString
\* maps to the Error field of a success.
RemoteErrorSurfaces == outcome = "reply" => respErr = "nil"

-----------------------------------------------------------------------------
(* The inductive invariant behind the safety properties. *)

\* Who may be in SendMsg: an emitter only while it holds sendLock and before the
\* turn is closed, and `closed` tells on which side of CloseTurn the handler is.
LockInv ==
  /\ \A e \in Emitters : epc[e] = "sending" => sendLock = "held" /\ ~closed
  /\ \A e, f \in Emitters : epc[e] = "sending" /\ epc[f] = "sending" => e = f
  /\ \A e \in Emitters : epc[e] # "idle" => hpc \notin {"idle", "refused"} /\ calls[e] > 0
  /\ closed => hpc \in {"replying", "returned", "crashed"}
  /\ hpc \in {"replying", "returned"} => closed
  /\ hpc = "replying" => ~sendErr

IsEventAt(i) ==
  \E ev \in Emitters \X (1..MaxCalls) : sent[i] = EventFrame(ev)

IsDoneAt(i) ==
  /\ i = Len(sent)
  /\ sent[i] = DoneFrame(errString(respErr))
  /\ hpc \in {"returned", "crashed"} /\ closed /\ ~sendErr

\* The wire holds events, then at most one Done frame, which closes a turn in
\* which no event failed; and an OK status never ends a stream without it.
WireInv ==
  /\ \A i \in 1..Len(sent) : IsEventAt(i) \/ IsDoneAt(i)
  /\ trailer = "OK" => /\ reach = Len(sent)
                       /\ Len(sent) > 0 /\ IsDoneAt(Len(sent))

\* The events of returned onEvent calls are on the wire, or the turn has failed.
PromiseInv ==
  ~sendErr => \A ev \in promised : \E i \in 1..Len(sent) : sent[i].event = ev

\* How many events the host has consumed.
Replayed == IF outcome \in {"reply", "remoteError"} THEN recvd - 1 ELSE recvd

\* What the host has seen mirrors what it consumed, and only a Done frame, the
\* last frame of all, has ended a turn with an answer.
ReplayInv ==
  /\ outcome \in Outcomes \ {"decode", "invalidFrame", "hangup"}
  /\ outcome = "none" <=> cpc # "done"
  /\ \A i \in 1..Replayed : IsEventAt(i)
  /\ hook => Len(seen) = Replayed /\ \A i \in 1..Replayed : seen[i] = sent[i].event
  /\ outcome \in {"reply", "remoteError"} =>
       /\ recvd = Len(sent) /\ recvd > 0 /\ IsDoneAt(recvd)
       /\ outcome = "remoteError" <=> respErr = "text"

\* The conjunction is inductive: it holds in Init and every step of the turn,
\* of whatever process, preserves it.
IndInv == TypeOK /\ LockInv /\ WireInv /\ PromiseInv /\ ReplayInv

-----------------------------------------------------------------------------
\* The turn as the abstract specification sees it: the events on the wire, and
\* the ones the host has taken off it.
WireEvents(n) == [i \in 1..n |-> sent[i].event]

EventCount(n) == IF n > 0 /\ sent[n].done THEN n - 1 ELSE n

AbsAccepted == WireEvents(EventCount(Len(sent)))
AbsReplayed == IF hook THEN seen ELSE WireEvents(EventCount(recvd))
AbsVerdict ==
  CASE outcome = "none"                      -> "none"
    [] outcome \in {"reply", "remoteError"} -> "answered"
    [] OTHER                                 -> "failed"

Abstract == INSTANCE Turn WITH
  Event <- Emitters \X (1..MaxCalls),
  accepted <- AbsAccepted, closed <- closed,
  replayed <- AbsReplayed, verdict <- AbsVerdict

\* The turn implements the abstract one: it answers only when the skeleton takes
\* no more events and every event it took has been replayed, in order.
AbstractTurn == Abstract!Init /\ [][Abstract!Next]_(Abstract!vars)

\* Respond never hangs: once the stream is dead, the host has cancelled, or the
\* backend has returned, the host gets its result (the hangup path of Respond).
NeverHangs ==
  (link = "broken" \/ ctxDone \/ hpc \notin {"idle", "running"}) ~> (cpc = "done")

\* No goroutine of the backend stays inside onEvent: a send blocked by flow
\* control ends when the host reads on, or when its deferred cancel or a dead
\* link resets the stream.
EmittersReleased ==
  \A e \in Emitters : (epc[e] # "idle") ~> (epc[e] = "idle" \/ hpc = "crashed")

\* A handler whose backend has returned ends, even when an emitter holds
\* sendLock in a blocked SendMsg at that moment.
HandlerReturns == (hpc \in {"closing", "replying"}) ~> (hpc \in {"returned", "crashed"})
=============================================================================
