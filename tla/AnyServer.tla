------------------------------ MODULE AnyServer ------------------------------
(***************************************************************************)
(* BackendProxy.Respond against a peer that is not the skeleton: it sends  *)
(* any frames whatever, payloads that do not decode included, and ends the *)
(* stream with any status at any point.                                    *)
(***************************************************************************)
EXTENDS BackendProxy

CONSTANT MaxFrames   \* bound: frames the peer sends

ASSUME MaxFramesAssumption == MaxFrames \in Nat

vars == <<streamVars, proxyVars>>

Init == StreamInit /\ ProxyInit

AnyFrame == [json: BOOLEAN, event: (Emitters \X {1}) \cup {NoEvent}, done: BOOLEAN, error: BOOLEAN]

PeerSends ==
  /\ request # "none" /\ trailer = "open"
  /\ Len(sent) < MaxFrames
  /\ \E f \in AnyFrame : SendMsgOK(f)
  /\ UNCHANGED <<request, recvd, link, trailer, ctxDone, gone>>

PeerEnds ==
  /\ request # "none" /\ trailer = "open" /\ link = "up"
  /\ \E status \in {"OK", "error"} : ReturnStatus(status)
  /\ UNCHANGED <<request, sent, recvd, reach, link, ctxDone, gone>>

Peer == (PeerSends \/ PeerEnds) /\ UNCHANGED proxyVars
Host == RespondStep \/ HostStep
Network == (LinkBreaks \/ NoticeGone) /\ UNCHANGED proxyVars
Finished == cpc = "done" /\ UNCHANGED vars

Next == Peer \/ Host \/ Network \/ Finished

Spec == Init /\ [][Next]_vars /\ WF_vars(RespondStep)

-----------------------------------------------------------------------------
\* Whether a frame is an event to Respond, and whether it is a clean Done frame.
IsEvent(f) == f.json /\ f.event # NoEvent
IsReply(f) == f.json /\ f.event = NoEvent /\ f.done /\ ~f.error

\* Respond returns a nil error exactly when it consumed events and then one clean
\* Done frame: no other frame, no end of stream and no cancellation passes for
\* the answer, and nothing was dropped or skipped before it.
ReplyOnlyFromDone ==
  (outcome = "reply") <=>
    /\ recvd > 0
    /\ IsReply(sent[recvd])
    /\ \A i \in 1..(recvd - 1) : IsEvent(sent[i])

\* Whatever ends the turn, the host has seen exactly the events Respond consumed
\* before the frame or the failure that ended it.
SeenIsConsumed ==
  hook => LET n == IF outcome \in {"decode", "invalidFrame", "remoteError", "reply"}
                     THEN recvd - 1 ELSE recvd
          IN  Len(seen) = n /\ \A i \in 1..n : IsEvent(sent[i]) /\ seen[i] = sent[i].event

\* Once a foreign peer ends the stream, the link breaks or the host cancels,
\* Respond returns, whatever frames are still queued.
RespondReturns == (trailer # "open" \/ link = "broken" \/ ctxDone) ~> (cpc = "done")
=============================================================================
