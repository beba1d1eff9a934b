--------------------------- MODULE AnyServerProofs ---------------------------
(***************************************************************************)
(* Machine-checked proofs about Respond against any peer (AnyServer), for  *)
(* any frames, any number of them and any flow-control window.             *)
(***************************************************************************)
EXTENDS AnyServer, SequenceTheorems, TLAPS

\* The outcomes that a frame decides; the others come from the stream.
FrameOutcomes == {"decode", "invalidFrame", "remoteError", "reply"}

\* How many frames were consumed before the end of the turn.
Consumed == IF outcome \in FrameOutcomes THEN recvd - 1 ELSE recvd

\* The inductive invariant: everything consumed before the end was an event, each
\* seen by the host in its place; before "recv" nothing was; and an outcome that a
\* frame decides is what applyBackendFrame makes of the last one.
TurnInv ==
  /\ StreamTypeOK /\ ProxyTypeOK
  /\ cpc # "done" => outcome = "none"
  /\ outcome \in FrameOutcomes =>
       recvd > 0 /\ recvd <= Len(sent) /\ applyBackendFrame(sent[recvd]) = outcome
  /\ \A i \in 1..Consumed : IsEvent(sent[i])
  /\ hook => Len(seen) = Consumed /\ \A i \in 1..Consumed : seen[i] = sent[i].event

-----------------------------------------------------------------------------
(***************************************************************************)
(* applyBackendFrame.                                                      *)
(***************************************************************************)

\* applyBackendFrame goes on exactly on events, returns a nil error exactly on a
\* clean Done frame, and otherwise ends in one of the frame errors.
LEMMA ApplyFacts ==
  ASSUME NEW f \in Frame
  PROVE  /\ applyBackendFrame(f) = "continue" <=> IsEvent(f)
         /\ applyBackendFrame(f) = "reply" <=> IsReply(f)
         /\ applyBackendFrame(f) \in FrameOutcomes \cup {"continue"}
<1>1. f.json \in BOOLEAN /\ f.done \in BOOLEAN /\ f.error \in BOOLEAN
  BY DEF Frame
<1> QED
  BY <1>1 DEF applyBackendFrame, IsEvent, IsReply, FrameOutcomes

LEMMA FramesOfAnyPeer == AnyFrame \subseteq Frame
BY DEF AnyFrame, Frame, Events

-----------------------------------------------------------------------------
(***************************************************************************)
(* The steps.                                                              *)
(***************************************************************************)

LEMMA InitTurn ==
  ASSUME Init
  PROVE  TurnInv
<1>1. StreamTypeOK
  <2>1. sent = <<>> /\ recvd = 0 /\ reach = 0
    BY DEF Init, StreamInit
  <2>2. sent \in Seq(Frame) /\ Len(sent) = 0
    BY <2>1, EmptySeq
  <2>3. request = "none" /\ link = "up" /\ trailer = "open"
    BY DEF Init, StreamInit
  <2>4. ctxDone = FALSE /\ gone = FALSE
    BY DEF Init, StreamInit
  <2>5. recvd \in Nat /\ reach \in Nat /\ recvd <= reach /\ reach <= Len(sent)
    BY <2>1, <2>2
  <2> QED
    BY <2>2, <2>3, <2>4, <2>5 DEF StreamTypeOK
<1>2. ProxyTypeOK
  BY EmptySeq DEF Init, ProxyInit, ProxyTypeOK, Outcomes
<1>3. Consumed = 0 /\ Len(seen) = 0 /\ outcome = "none"
  BY EmptySeq DEF Init, StreamInit, ProxyInit, Consumed, FrameOutcomes
<1> QED
  BY <1>1, <1>2, <1>3 DEF TurnInv, FrameOutcomes

\* A peer only adds frames behind the ones that were consumed.
LEMMA PeerStep ==
  ASSUME TurnInv, Peer
  PROVE  TurnInv'
<1>1. UNCHANGED <<cpc, outcome, hook, seen, recvd, request, link, ctxDone, gone>>
  BY DEF Peer, PeerSends, PeerEnds, proxyVars
<1>2. CASE PeerSends
  <2>1. PICK f \in Frame : SendMsgOK(f)
    BY <1>2, FramesOfAnyPeer DEF PeerSends
  <2>2. /\ sent' \in Seq(Frame) /\ Len(sent') = Len(sent) + 1
        /\ \A i \in 1..Len(sent) : sent'[i] = sent[i]
        /\ reach' \in Nat /\ recvd <= reach' /\ reach' <= Len(sent')
    BY <2>1 DEF SendMsgOK, TurnInv, StreamTypeOK
  <2>3. StreamTypeOK' /\ ProxyTypeOK'
    BY <1>1, <1>2, <2>2 DEF PeerSends, TurnInv, StreamTypeOK, ProxyTypeOK
  <2>4. /\ recvd \in Nat /\ recvd <= Len(sent) /\ Len(sent) \in Nat
        /\ Consumed' = Consumed /\ \A i \in 1..Consumed : i \in 1..Len(sent)
    BY <1>1 DEF TurnInv, StreamTypeOK, Consumed
  <2> QED
    BY <1>1, <2>2, <2>3, <2>4 DEF TurnInv, IsEvent
<1>3. CASE PeerEnds
  <2>1. StreamTypeOK' /\ ProxyTypeOK'
    BY <1>1, <1>3 DEF PeerEnds, ReturnStatus, TurnInv, StreamTypeOK, ProxyTypeOK
  <2> QED
    BY <1>1, <1>3, <2>1 DEF PeerEnds, TurnInv, Consumed, IsEvent
<1> QED
  BY <1>2, <1>3 DEF Peer

\* Breaking, cancelling and noticing touch neither the consumed frames nor Respond.
LEMMA OutsideStep ==
  ASSUME TurnInv, Network \/ HostStep \/ UNCHANGED vars
  PROVE  TurnInv'
<1>1. UNCHANGED <<cpc, outcome, hook, seen, recvd, request, sent>>
  BY DEF Network, HostStep, HostCancels, Close, LinkBreaks, NoticeGone, vars, proxyVars, streamVars
<1>2. StreamTypeOK' /\ ProxyTypeOK'
  <2>1. CASE LinkBreaks
    BY <1>1, <2>1 DEF LinkBreaks, TurnInv, StreamTypeOK, ProxyTypeOK
  <2>2. CASE NoticeGone \/ HostCancels \/ UNCHANGED vars
    BY <1>1, <2>2 DEF NoticeGone, HostCancels, vars, streamVars, TurnInv, StreamTypeOK, ProxyTypeOK
  <2> QED
    BY <2>1, <2>2 DEF Network, HostStep, Close
<1> QED
  BY <1>1, <1>2 DEF TurnInv, Consumed, IsEvent

\* Sending the prompt, and every way the stream ends the turn, consume nothing.
LEMMA StreamStep ==
  ASSUME TurnInv,
         EncodePromptFails \/ SendPrompt \/ CloseSend \/ OpenFails \/ ReceiveFails
  PROVE  TurnInv'
<1>1. UNCHANGED <<hook, seen, recvd, sent, reach, link, trailer, gone>>
  BY DEF EncodePromptFails, SendPrompt, CloseSend, OpenFails, ReceiveFails, streamVars
<1>2. /\ outcome = "none"
      /\ \/ cpc' # "done" /\ outcome' = "none"
         \/ cpc' = "done" /\ outcome' \in {"encode", "open", "hangup", "transport"}
  BY DEF TurnInv, EncodePromptFails, SendPrompt, CloseSend, OpenFails, ReceiveFails, Return
<1>3. StreamTypeOK'
  BY <1>1 DEF TurnInv, StreamTypeOK, EncodePromptFails, SendPrompt, CloseSend, OpenFails,
              ReceiveFails, Return, streamVars
<1>4. ProxyTypeOK'
  BY <1>1 DEF TurnInv, ProxyTypeOK, Outcomes, EncodePromptFails, SendPrompt, CloseSend, OpenFails,
              ReceiveFails, Return
<1>5. Consumed' = recvd /\ Consumed = recvd /\ outcome' \notin FrameOutcomes
  BY <1>1, <1>2 DEF Consumed, FrameOutcomes
<1> QED
  BY <1>1, <1>2, <1>3, <1>4, <1>5 DEF TurnInv, IsEvent

\* One frame: an event is seen and the loop goes on; any other ends the turn.
LEMMA FrameStep ==
  ASSUME TurnInv, ReceiveFrame
  PROVE  TurnInv'
<1> DEFINE f == sent[recvd + 1]
           res == applyBackendFrame(f)
<1>1. UNCHANGED <<hook, request, sent, reach, link, trailer, gone>>
  BY DEF ReceiveFrame
<1>2. /\ cpc = "recv" /\ outcome = "none" /\ recvd' = recvd + 1
      /\ recvd \in Nat /\ reach \in Nat /\ Len(sent) \in Nat
      /\ recvd + 1 <= reach /\ recvd + 1 <= Len(sent)
  BY DEF ReceiveFrame, FrameReady, TurnInv, StreamTypeOK
<1>3. f \in Frame
  BY <1>2 DEF TurnInv, StreamTypeOK
<1>4. Consumed = recvd
  BY <1>2 DEF Consumed, FrameOutcomes
<1>5. CASE res = "continue"
  <2>1. /\ seen' = IF hook THEN Append(seen, f.event) ELSE seen
        /\ UNCHANGED <<cpc, outcome, ctxDone>>
    BY <1>5 DEF ReceiveFrame, NextFrame
  <2>2. IsEvent(f) /\ f.event \in Events
    BY <1>3, <1>5, ApplyFacts DEF IsEvent, Frame
  <2>3. StreamTypeOK'
    BY <1>1, <1>2, <2>1 DEF TurnInv, StreamTypeOK
  <2>4. ProxyTypeOK'
    BY <1>1, <2>1, <2>2 DEF TurnInv, ProxyTypeOK
  <2>5. Consumed' = recvd + 1
    BY <1>2, <2>1 DEF Consumed, FrameOutcomes
  <2>6. \A i \in 1..Consumed' : IsEvent(sent[i])
    BY <1>2, <1>4, <2>2, <2>5 DEF TurnInv
  <2>7. ASSUME hook
        PROVE  Len(seen') = Consumed' /\ \A i \in 1..Consumed' : seen'[i] = sent[i].event
    <3>1. seen \in Seq(Events) /\ Len(seen) = recvd /\ seen' = Append(seen, f.event)
      BY <1>4, <2>1, <2>7 DEF TurnInv, ProxyTypeOK
    <3>2. Len(seen') = recvd + 1 /\ seen'[recvd + 1] = f.event
      BY <1>2, <2>2, <3>1
    <3>3. \A i \in 1..recvd : seen'[i] = seen[i]
      BY <1>2, <2>2, <3>1
    <3> QED
      BY <1>2, <1>4, <2>5, <2>7, <3>2, <3>3 DEF TurnInv
  <2> QED
    BY <1>1, <1>2, <2>1, <2>3, <2>4, <2>6, <2>7 DEF TurnInv, IsEvent, FrameOutcomes
<1>6. CASE res # "continue"
  <2>1. cpc' = "done" /\ outcome' = res /\ ctxDone' = TRUE /\ seen' = seen
    BY <1>6 DEF ReceiveFrame, NextFrame, Return
  <2>2. res \in FrameOutcomes
    BY <1>3, <1>6, ApplyFacts
  <2>3. StreamTypeOK'
    BY <1>1, <1>2, <2>1 DEF TurnInv, StreamTypeOK
  <2>4. ProxyTypeOK'
    BY <1>1, <2>1, <2>2 DEF TurnInv, ProxyTypeOK, Outcomes, FrameOutcomes
  <2>5. Consumed' = recvd
    BY <1>2, <2>1, <2>2 DEF Consumed
  <2> QED
    BY <1>1, <1>2, <1>4, <2>1, <2>3, <2>4, <2>5 DEF TurnInv, IsEvent
<1> QED
  BY <1>5, <1>6

\* The inductive invariant holds of every behaviour.
THEOREM Invariance == Spec => []TurnInv
<1>1. ASSUME TurnInv, [Next]_vars
      PROVE  TurnInv'
  BY <1>1, PeerStep, OutsideStep, StreamStep, FrameStep
     DEF Next, Host, RespondStep, Finished
<1> QED
  BY InitTurn, <1>1, PTL DEF Spec

-----------------------------------------------------------------------------
\* Respond: whatever frames a peer sends and however the stream ends, the nil error
\* is returned exactly for events followed by one clean Done frame.
THEOREM RepliesComeFromDone == Spec => []ReplyOnlyFromDone
<1>1. ASSUME TurnInv
      PROVE  ReplyOnlyFromDone
  <2>1. recvd \in Nat /\ Len(sent) \in Nat /\ recvd <= Len(sent)
    BY <1>1 DEF TurnInv, StreamTypeOK
  <2>2. recvd > 0 => sent[recvd] \in Frame
    BY <1>1, <2>1 DEF TurnInv, StreamTypeOK
  <2>3. ASSUME outcome = "reply"
        PROVE  recvd > 0 /\ IsReply(sent[recvd]) /\ \A i \in 1..(recvd - 1) : IsEvent(sent[i])
    BY <1>1, <2>2, <2>3, ApplyFacts DEF TurnInv, Consumed, FrameOutcomes
  <2>4. ASSUME recvd > 0, IsReply(sent[recvd])
        PROVE  outcome = "reply"
    <3>1. ~IsEvent(sent[recvd])
      BY <2>4 DEF IsReply, IsEvent
    <3>2. outcome \in FrameOutcomes
      BY <1>1, <2>1, <2>4, <3>1 DEF TurnInv, Consumed
    <3> QED
      BY <1>1, <2>2, <2>4, <3>2, ApplyFacts DEF TurnInv
  <2> QED
    BY <2>3, <2>4 DEF ReplyOnlyFromDone
<1> QED
  BY Invariance, <1>1, PTL

\* Respond: the host has seen exactly the events consumed, in their order.
THEOREM HostSeesWhatWasConsumed == Spec => []SeenIsConsumed
<1>1. TurnInv => SeenIsConsumed
  BY DEF TurnInv, SeenIsConsumed, Consumed, FrameOutcomes
<1> QED
  BY Invariance, <1>1, PTL
=============================================================================
