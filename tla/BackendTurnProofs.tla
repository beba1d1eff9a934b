-------------------------- MODULE BackendTurnProofs --------------------------
(***************************************************************************)
(* Machine-checked proofs about one backend turn (BackendTurn), for any    *)
(* set of emitters, any number of onEvent calls and any flow-control       *)
(* window.                                                                 *)
(***************************************************************************)
EXTENDS BackendTurn, SequenceTheorems, TLAPS

\* The frames respond builds are frames, and neither is taken for the other.
LEMMA FrameFacts ==
  /\ \A ev \in Events : EventFrame(ev) \in Frame /\ EventFrame(ev).event = ev
                        /\ EventFrame(ev).event # NoEvent
                        /\ EventFrame(ev).json /\ ~EventFrame(ev).done
  /\ \A b \in BOOLEAN : DoneFrame(b) \in Frame /\ DoneFrame(b).event = NoEvent
                        /\ DoneFrame(b).json /\ DoneFrame(b).done
                        /\ DoneFrame(b).error = b
BY StreamAssumption DEF Frame, EventFrame, DoneFrame, Events

\* The event of a call in progress is an event.
LEMMA CurrentIsEvent ==
  ASSUME SkeletonTypeOK, NEW e \in Emitters
  PROVE  Current(e) \in Events
BY MaxCallsAssumption DEF SkeletonTypeOK, Current, Events

\* SendMsg only ever extends the wire, by one frame.
LEMMA SendAppends ==
  ASSUME StreamTypeOK, NEW f \in Frame, SendMsgOK(f)
  PROVE  /\ sent' \in Seq(Frame)
         /\ Len(sent') = Len(sent) + 1
         /\ \A i \in 1..Len(sent) : sent'[i] = sent[i]
         /\ sent'[Len(sent) + 1] = f
         /\ reach' \in Nat /\ recvd <= reach' /\ reach' <= Len(sent')
         /\ link = "up" => reach' = Len(sent')
BY DEF StreamTypeOK, SendMsgOK

-----------------------------------------------------------------------------
\* The initial states are well typed.
LEMMA InitTypeOK == Init => TypeOK
<1> SUFFICES ASSUME Init PROVE TypeOK
  OBVIOUS
<1>1. StreamTypeOK
  <2>1. sent = <<>> /\ recvd = 0 /\ reach = 0
    BY DEF Init, StreamInit
  <2>2. sent \in Seq(Frame) /\ Len(sent) = 0
    BY <2>1, EmptySeq
  <2>3. request = "none" /\ link = "up" /\ trailer = "open"
    BY DEF Init, StreamInit
  <2>4. ctxDone = FALSE /\ gone = FALSE
    BY DEF Init, StreamInit
  <2>5. recvd \in Nat /\ reach \in Nat /\ recvd <= reach /\ reach <= Len(sent)
    BY <2>1, <2>2
  <2> QED BY <2>2, <2>3, <2>4, <2>5 DEF StreamTypeOK
<1>2. SkeletonTypeOK
  <2>1. epc \in [Emitters -> {"idle", "locking", "sending"}] /\ promised \in SUBSET Events
    BY DEF Init, SkeletonInit
  <2>2. 0 \in 0..MaxCalls
    BY MaxCallsAssumption
  <2>3. calls \in [Emitters -> 0..MaxCalls]
    BY <2>2 DEF Init, SkeletonInit
  <2>4. sendErr \in BOOLEAN /\ closed \in BOOLEAN
    BY DEF Init, SkeletonInit
  <2> QED BY <2>1, <2>3, <2>4 DEF Init, SkeletonInit, SkeletonTypeOK, RespErrs
<1>3. ProxyTypeOK
  BY DEF Init, ProxyInit, ProxyTypeOK, Outcomes
<1> QED BY <1>1, <1>2, <1>3 DEF TypeOK

\* A dropped connection keeps the stream well typed.
LEMMA LinkBreaksType ==
  ASSUME StreamTypeOK, LinkBreaks
  PROVE  StreamTypeOK'
BY DEF StreamTypeOK, LinkBreaks

\* The skeleton's steps keep every variable in its type.
LEMMA PluginType ==
  ASSUME TypeOK, Plugin
  PROVE  TypeOK'
<1> USE DEF TypeOK
<1>0. ProxyTypeOK'
  BY DEF Plugin, ProxyTypeOK, proxyVars
<1>1. CASE HandleRequest
  BY <1>0, <1>1 DEF HandleRequest, ReturnStatus, StreamTypeOK, SkeletonTypeOK
<1>2. CASE RecvRequestFails
  BY <1>0, <1>2 DEF RecvRequestFails, ReturnStatus, StreamTypeOK, SkeletonTypeOK
<1>3. ASSUME NEW err \in RespErrs, BackendReturns(err)
      PROVE  TypeOK'
  BY <1>0, <1>3 DEF BackendReturns, streamVars, StreamTypeOK, SkeletonTypeOK
<1>4. CASE CloseTurn
  BY <1>0, <1>4 DEF CloseTurn, EncodeReply, ReturnStatus, StreamTypeOK, SkeletonTypeOK
<1>5. CASE SendReply
  <2>1. SkeletonTypeOK'
    BY <1>5 DEF SendReply, SkeletonTypeOK
  <2>2. DoneFrame(errString(respErr)) \in Frame
    BY FrameFacts DEF errString
  <2>3. StreamTypeOK'
    BY <1>5, <2>2, SendAppends DEF SendReply, SendMsgFails, ReturnStatus, StreamTypeOK
  <2> QED BY <1>0, <2>1, <2>3
<1>6. ASSUME NEW e \in Emitters, EmitCall(e)
      PROVE  TypeOK'
  <2>1. StreamTypeOK'
    BY <1>6 DEF EmitCall, streamVars, StreamTypeOK
  <2>2. SkeletonTypeOK'
    BY <1>6, MaxCallsAssumption DEF EmitCall, SkeletonTypeOK
  <2> QED BY <1>0, <2>1, <2>2
<1>7. ASSUME NEW e \in Emitters, EmitDropped(e)
      PROVE  TypeOK'
  <2>1. StreamTypeOK'
    BY <1>7 DEF EmitDropped, streamVars, StreamTypeOK
  <2>2. SkeletonTypeOK'
    BY <1>7, CurrentIsEvent DEF EmitDropped, OnEventReturns, SkeletonTypeOK
  <2> QED BY <1>0, <2>1, <2>2
<1>8. ASSUME NEW e \in Emitters, EmitLocks(e)
      PROVE  TypeOK'
  <2>1. StreamTypeOK'
    BY <1>8 DEF EmitLocks, streamVars, StreamTypeOK
  <2>2. SkeletonTypeOK'
    BY <1>8 DEF EmitLocks, SkeletonTypeOK
  <2> QED BY <1>0, <2>1, <2>2
<1>9. ASSUME NEW e \in Emitters, EmitSends(e)
      PROVE  TypeOK'
  <2>1. EventFrame(Current(e)) \in Frame
    BY CurrentIsEvent, FrameFacts
  <2>2. StreamTypeOK'
    BY <1>9, <2>1, SendAppends DEF EmitSends, SendMsgFails, StreamTypeOK
  <2>3. SkeletonTypeOK'
    BY <1>9, CurrentIsEvent DEF EmitSends, OnEventReturns, SkeletonTypeOK
  <2> QED BY <1>0, <2>2, <2>3
<1>10. CASE PluginCrashes
  <2>1. StreamTypeOK'
    BY <1>10, LinkBreaksType DEF PluginCrashes, streamVars, StreamTypeOK
  <2>2. SkeletonTypeOK'
    BY <1>10 DEF PluginCrashes, SkeletonTypeOK
  <2> QED BY <1>0, <2>1, <2>2
<1> QED
  BY <1>1, <1>2, <1>3, <1>4, <1>5, <1>6, <1>7, <1>8, <1>9, <1>10 DEF Plugin, SkeletonStep

\* So do the steps of Respond and of the host around it.
LEMMA HostType ==
  ASSUME TypeOK, Host
  PROVE  TypeOK'
<1> USE DEF TypeOK
<1>0. SkeletonTypeOK'
  BY DEF Host, SkeletonTypeOK, skeletonVars
<1>1. CASE EncodePromptFails
  BY <1>0, <1>1 DEF EncodePromptFails, streamVars, StreamTypeOK, ProxyTypeOK, Outcomes
<1>2. CASE SendPrompt
  BY <1>0, <1>2 DEF SendPrompt, StreamTypeOK, ProxyTypeOK
<1>3. CASE CloseSend
  BY <1>0, <1>3 DEF CloseSend, streamVars, StreamTypeOK, ProxyTypeOK
<1>4. CASE OpenFails
  BY <1>0, <1>4 DEF OpenFails, Return, StreamTypeOK, ProxyTypeOK, Outcomes
<1>5. CASE ReceiveFrame
  <2>1. NextFrame \in Frame
    BY <1>5 DEF ReceiveFrame, FrameReady, NextFrame, StreamTypeOK
  <2>2. NextFrame.event \in Events \cup {NoEvent} /\ NextFrame.json \in BOOLEAN
        /\ NextFrame.done \in BOOLEAN /\ NextFrame.error \in BOOLEAN
    BY <2>1 DEF Frame
  <2>3. StreamTypeOK'
    <3>1. UNCHANGED <<request, sent, reach, link, trailer, gone>> /\ recvd' = recvd + 1
      BY <1>5 DEF ReceiveFrame
    <3>2. ctxDone' \in BOOLEAN
      BY <1>5 DEF ReceiveFrame, Return, StreamTypeOK
    <3> QED BY <1>5, <3>1, <3>2 DEF ReceiveFrame, FrameReady, StreamTypeOK
  <2>4. applyBackendFrame(NextFrame) \in Outcomes \cup {"continue"}
    BY <2>2 DEF applyBackendFrame, Outcomes
  <2>5. applyBackendFrame(NextFrame) = "continue" => NextFrame.event \in Events
    BY <2>2 DEF applyBackendFrame
  <2>6. ProxyTypeOK'
    BY <1>5, <2>4, <2>5 DEF ReceiveFrame, Return, ProxyTypeOK
  <2> QED BY <1>0, <2>3, <2>6
<1>6. CASE ReceiveFails
  BY <1>0, <1>6 DEF ReceiveFails, Return, StreamTypeOK, ProxyTypeOK, Outcomes
<1>7. CASE HostCancels
  BY <1>0, <1>7 DEF HostCancels, proxyVars, StreamTypeOK, ProxyTypeOK
<1>8. CASE Close
  BY <1>0, <1>8, LinkBreaksType DEF Close, proxyVars, ProxyTypeOK
<1> QED
  BY <1>1, <1>2, <1>3, <1>4, <1>5, <1>6, <1>7, <1>8 DEF Host, RespondStep, HostStep

\* Every step of the turn keeps every variable in its type.
LEMMA StepTypeOK == TypeOK /\ [Next]_vars => TypeOK'
<1> SUFFICES ASSUME TypeOK, [Next]_vars
             PROVE  TypeOK'
  OBVIOUS
<1>1. CASE Network
  <2>1. StreamTypeOK'
    BY <1>1, LinkBreaksType DEF Network, NoticeGone, StreamTypeOK, TypeOK
  <2>2. SkeletonTypeOK' /\ ProxyTypeOK'
    BY <1>1 DEF Network, skeletonVars, proxyVars, SkeletonTypeOK, ProxyTypeOK, TypeOK
  <2> QED BY <2>1, <2>2 DEF TypeOK
<1>2. CASE Finished \/ UNCHANGED vars
  BY <1>2 DEF Finished, vars, streamVars, skeletonVars, proxyVars, TypeOK,
              StreamTypeOK, SkeletonTypeOK, ProxyTypeOK
<1> QED BY <1>1, <1>2, PluginType, HostType DEF Next

\* In every reachable state of a turn the variables are well typed, and what the
\* host has received is within what can reach it, which is within what was sent.
THEOREM TypeCorrect == Spec => []TypeOK
BY InitTypeOK, StepTypeOK, PTL DEF Spec

-----------------------------------------------------------------------------
(* The inductive invariant.  Its proof follows the step structure of Next;  *)
(* three lemmas collect what steps of several processes have in common.     *)

\* A step that leaves the wire and the host alone keeps the replay consistent,
\* as long as a turn that is over stays over.
LEMMA ReplayKept ==
  ASSUME ReplayInv,
         UNCHANGED <<sent, recvd, proxyVars>>,
         \A i \in 1..Len(sent) : IsDoneAt(i) => IsDoneAt(i)',
         respErr' = respErr \/ hpc = "running",
         TypeOK
  PROVE  ReplayInv'
BY DEF ReplayInv, Replayed, IsEventAt, IsDoneAt, proxyVars, TypeOK, StreamTypeOK

\* Neither does a step that adds a frame to a turn that is not over.
LEMMA ReplayGrows ==
  ASSUME ReplayInv, TypeOK,
         UNCHANGED <<recvd, proxyVars>>,
         hpc \notin {"returned", "crashed"} \/ ~closed,
         Len(sent') = Len(sent) + 1,
         \A i \in 1..Len(sent) : sent'[i] = sent[i]
  PROVE  ReplayInv'
<1>1. outcome \notin {"reply", "remoteError"}
  BY DEF ReplayInv, IsDoneAt
<1>2. Replayed = recvd /\ Replayed' = recvd
  BY <1>1 DEF Replayed, proxyVars
<1>3. \A i \in 1..recvd : i \in 1..Len(sent)
  BY DEF TypeOK, StreamTypeOK
<1> QED
  BY <1>1, <1>2, <1>3 DEF ReplayInv, IsEventAt, proxyVars

\* A dropped connection loses frames in flight, never the order on the wire.
LEMMA LinkBreaksWire ==
  ASSUME WireInv, LinkBreaks, TypeOK,
         UNCHANGED <<respErr, sendErr, closed>>,
         hpc' \in {hpc, "crashed"}
  PROVE  WireInv'
BY DEF WireInv, LinkBreaks, IsEventAt, IsDoneAt, TypeOK, StreamTypeOK

\* Every step of the plugin process preserves the invariant.
LEMMA PluginInd ==
  ASSUME IndInv, Plugin
  PROVE  IndInv'
<1>0. TypeOK /\ LockInv /\ WireInv /\ PromiseInv /\ ReplayInv /\ TypeOK' /\ UNCHANGED proxyVars
  BY PluginType DEF IndInv, Plugin
<1>1. CASE HandleRequest \/ RecvRequestFails
  <2> USE <1>0, <1>1 DEF HandleRequest, RecvRequestFails, ReturnStatus
  <2>1. LockInv'
    BY DEF LockInv, TypeOK, SkeletonTypeOK
  <2>2. WireInv' /\ \A i \in 1..Len(sent) : IsDoneAt(i) => IsDoneAt(i)'
    BY DEF WireInv, IsEventAt, IsDoneAt
  <2>3. PromiseInv'
    BY DEF PromiseInv
  <2>4. ReplayInv'
    BY <2>2, ReplayKept
  <2> QED BY <2>1, <2>2, <2>3, <2>4 DEF IndInv
<1>2. ASSUME NEW err \in RespErrs, BackendReturns(err)
      PROVE  IndInv'
  <2> USE <1>0, <1>2 DEF BackendReturns, streamVars
  <2>1. LockInv'
    BY DEF LockInv, TypeOK, SkeletonTypeOK
  <2>2. WireInv' /\ \A i \in 1..Len(sent) : IsDoneAt(i) => IsDoneAt(i)'
    BY DEF WireInv, IsEventAt, IsDoneAt
  <2>3. PromiseInv'
    BY DEF PromiseInv
  <2>4. ReplayInv'
    BY <2>2, ReplayKept
  <2> QED BY <2>1, <2>2, <2>3, <2>4 DEF IndInv
<1>3. CASE CloseTurn
  <2> USE <1>0, <1>3 DEF CloseTurn, EncodeReply, ReturnStatus
  <2>1. LockInv'
    BY DEF LockInv, TypeOK, SkeletonTypeOK
  <2>2. WireInv' /\ \A i \in 1..Len(sent) : IsDoneAt(i) => IsDoneAt(i)'
    BY DEF WireInv, IsEventAt, IsDoneAt
  <2>3. PromiseInv'
    BY DEF PromiseInv
  <2>4. ReplayInv'
    BY <2>2, ReplayKept
  <2> QED BY <2>1, <2>2, <2>3, <2>4 DEF IndInv
<1>4. CASE SendReply
  <2> USE <1>0, <1>4 DEF SendReply
  <2>1. LockInv'
    BY DEF LockInv, TypeOK, SkeletonTypeOK
  <2>2. CASE SendMsgOK(DoneFrame(errString(respErr))) /\ ReturnStatus("OK")
    <3>1. DoneFrame(errString(respErr)) \in Frame
      BY FrameFacts DEF errString
    <3>2. /\ Len(sent') = Len(sent) + 1
          /\ \A i \in 1..Len(sent) : sent'[i] = sent[i]
          /\ sent'[Len(sent')] = DoneFrame(errString(respErr))
          /\ link = "up" => reach' = Len(sent')
      BY <2>2, <3>1, SendAppends DEF TypeOK
    <3>3. closed /\ ~sendErr
      BY DEF LockInv
    <3>4. WireInv'
      <4>1. IsDoneAt(Len(sent))'
        BY <3>2, <3>3 DEF IsDoneAt
      <4>2. \A i \in 1..Len(sent) : IsEventAt(i)'
        BY <3>2 DEF WireInv, IsEventAt, IsDoneAt
      <4>3. trailer # "OK"
        BY DEF WireInv, IsDoneAt
      <4> QED BY <2>2, <3>2, <4>1, <4>2, <4>3 DEF ReturnStatus, WireInv, TypeOK, StreamTypeOK
    <3>5. PromiseInv'
      BY <3>2 DEF PromiseInv, TypeOK, StreamTypeOK
    <3>6. ReplayInv'
      BY <3>2, ReplayGrows
    <3> QED BY <2>1, <3>4, <3>5, <3>6 DEF IndInv
  <2>3. CASE SendMsgFails /\ ReturnStatus("error")
    <3>1. WireInv' /\ \A i \in 1..Len(sent) : IsDoneAt(i) => IsDoneAt(i)'
      BY <2>3 DEF SendMsgFails, ReturnStatus, WireInv, IsEventAt, IsDoneAt
    <3>2. PromiseInv'
      BY <2>3 DEF SendMsgFails, PromiseInv
    <3>3. ReplayInv'
      BY <2>3, <3>1, ReplayKept DEF SendMsgFails
    <3> QED BY <2>1, <3>1, <3>2, <3>3 DEF IndInv
  <2> QED BY <2>2, <2>3
<1>5. ASSUME NEW e \in Emitters, EmitCall(e) \/ EmitLocks(e)
      PROVE  IndInv'
  <2> USE <1>0, <1>5 DEF EmitCall, EmitLocks, OnEventExists, streamVars
  <2>1. LockInv'
    BY DEF LockInv, TypeOK, SkeletonTypeOK
  <2>2. WireInv' /\ \A i \in 1..Len(sent) : IsDoneAt(i) => IsDoneAt(i)'
    BY DEF WireInv, IsEventAt, IsDoneAt
  <2>3. PromiseInv'
    BY DEF PromiseInv
  <2>4. ReplayInv'
    BY <2>2, ReplayKept
  <2> QED BY <2>1, <2>2, <2>3, <2>4 DEF IndInv
<1>6. ASSUME NEW e \in Emitters, EmitDropped(e)
      PROVE  IndInv'
  <2> USE <1>0, <1>6 DEF EmitDropped, OnEventReturns, OnEventExists, streamVars
  <2>1. LockInv'
    BY DEF LockInv, TypeOK, SkeletonTypeOK
  <2>2. WireInv' /\ \A i \in 1..Len(sent) : IsDoneAt(i) => IsDoneAt(i)'
    BY DEF WireInv, IsEventAt, IsDoneAt
  <2>3. PromiseInv'
    \* the event of a call that returns unsent is missed only if the turn has failed
    BY DEF PromiseInv, LockInv
  <2>4. ReplayInv'
    BY <2>2, ReplayKept
  <2> QED BY <2>1, <2>2, <2>3, <2>4 DEF IndInv
<1>7. ASSUME NEW e \in Emitters, EmitSends(e)
      PROVE  IndInv'
  <2> USE <1>0, <1>7 DEF EmitSends, OnEventReturns, OnEventExists
  <2>1. LockInv'
    BY DEF LockInv, TypeOK, SkeletonTypeOK
  <2>2. ~closed
    BY DEF LockInv
  <2>3. CASE SendMsgOK(EventFrame(Current(e))) /\ UNCHANGED sendErr
    <3>1. Current(e) \in Events /\ EventFrame(Current(e)) \in Frame
          /\ EventFrame(Current(e)).event = Current(e)
      BY CurrentIsEvent, FrameFacts DEF TypeOK
    <3>2. Current(e) \in Emitters \X (1..MaxCalls)
      BY MaxCallsAssumption DEF Current, LockInv, TypeOK, SkeletonTypeOK
    <3>3. /\ Len(sent') = Len(sent) + 1
          /\ \A i \in 1..Len(sent) : sent'[i] = sent[i]
          /\ sent'[Len(sent')] = EventFrame(Current(e))
      BY <2>3, <3>1, SendAppends DEF TypeOK
    <3>4. WireInv'
      <4>1. IsEventAt(Len(sent))'
        BY <3>2, <3>3 DEF IsEventAt
      <4>2. \A i \in 1..Len(sent) : IsEventAt(i)'
        BY <2>2, <3>3 DEF WireInv, IsEventAt, IsDoneAt
      <4>3. trailer' # "OK"
        BY <2>2 DEF WireInv, IsDoneAt
      <4> QED BY <3>3, <4>1, <4>2, <4>3 DEF WireInv, TypeOK, StreamTypeOK
    <3>5. PromiseInv'
      <4>1. \E i \in 1..Len(sent') : sent'[i].event = Current(e)
        BY <3>1, <3>3 DEF TypeOK, StreamTypeOK
      <4>2. ~sendErr' => \A ev \in promised : \E i \in 1..Len(sent') : sent'[i].event = ev
        BY <2>3, <3>3 DEF PromiseInv, TypeOK, StreamTypeOK
      <4> QED BY <4>1, <4>2 DEF PromiseInv
    <3>6. ReplayInv'
      BY <2>2, <3>3, ReplayGrows
    <3> QED BY <2>1, <3>4, <3>5, <3>6 DEF IndInv
  <2>4. CASE SendMsgFails /\ sendErr' = TRUE
    <3>1. WireInv' /\ \A i \in 1..Len(sent) : IsDoneAt(i) => IsDoneAt(i)'
      BY <2>2, <2>4 DEF SendMsgFails, WireInv, IsEventAt, IsDoneAt
    <3>2. PromiseInv'
      BY <2>4 DEF PromiseInv
    <3>3. ReplayInv'
      BY <2>4, <3>1, ReplayKept DEF SendMsgFails
    <3> QED BY <2>1, <3>1, <3>2, <3>3 DEF IndInv
  <2> QED BY <2>3, <2>4
<1>8. CASE PluginCrashes
  <2> USE <1>0, <1>8 DEF PluginCrashes
  <2>1. LockInv'
    BY DEF LockInv, TypeOK, SkeletonTypeOK
  <2>2. sent' = sent /\ recvd' = recvd
    BY DEF LinkBreaks, streamVars
  <2>3. WireInv'
    <3>1. CASE LinkBreaks
      BY <3>1, LinkBreaksWire
    <3>2. CASE UNCHANGED streamVars
      BY <3>2 DEF streamVars, WireInv, IsEventAt, IsDoneAt
    <3> QED BY <3>1, <3>2
  <2>4. PromiseInv'
    BY <2>2 DEF PromiseInv
  <2>5. \A i \in 1..Len(sent) : IsDoneAt(i) => IsDoneAt(i)'
    BY <2>2 DEF IsDoneAt
  <2>6. ReplayInv'
    BY <2>2, <2>5, ReplayKept
  <2> QED BY <2>1, <2>3, <2>4, <2>6 DEF IndInv
<1> QED
  BY <1>1, <1>2, <1>3, <1>4, <1>5, <1>6, <1>7, <1>8 DEF Plugin, SkeletonStep

\* What the host's steps leave alone: the skeleton and the wire.
LEMMA HostFrame ==
  ASSUME IndInv, Host
  PROVE  LockInv' /\ PromiseInv' /\ WireInv'
<1>0. TypeOK /\ LockInv /\ WireInv /\ PromiseInv /\ UNCHANGED skeletonVars
  BY DEF IndInv, Host
<1>1. sent' = sent
  BY DEF Host, RespondStep, HostStep, EncodePromptFails, SendPrompt, CloseSend, OpenFails,
         ReceiveFrame, ReceiveFails, HostCancels, Close, LinkBreaks, streamVars
<1>2. LockInv' /\ PromiseInv'
  BY <1>0, <1>1 DEF LockInv, PromiseInv, skeletonVars
<1>3. WireInv'
  <2>1. CASE Close
    BY <1>0, <2>1, LinkBreaksWire DEF Close, skeletonVars
  <2>2. CASE RespondStep \/ HostCancels
    <3>1. reach' = reach /\ trailer' = trailer
      BY <2>2 DEF RespondStep, EncodePromptFails, SendPrompt, CloseSend, OpenFails,
                  ReceiveFrame, ReceiveFails, HostCancels, streamVars
    <3> QED BY <1>0, <1>1, <3>1 DEF WireInv, IsEventAt, IsDoneAt, skeletonVars
  <2> QED BY <2>1, <2>2 DEF Host, HostStep
<1> QED BY <1>2, <1>3

\* Every step of Respond and of the host around it preserves the invariant.
LEMMA HostInd ==
  ASSUME IndInv, Host
  PROVE  IndInv'
<1>0. TypeOK /\ LockInv /\ WireInv /\ PromiseInv /\ ReplayInv /\ UNCHANGED skeletonVars
  BY DEF IndInv, Host
<1> SUFFICES ReplayInv'
  BY HostType, HostFrame, <1>0 DEF IndInv
<1>1. \A i \in 1..Len(sent) : sent' = sent => (IsDoneAt(i) <=> IsDoneAt(i)')
  BY <1>0 DEF IsDoneAt, skeletonVars
<1>2. ASSUME cpc # "done", cpc' = "done",
             outcome' \in {"encode", "open", "transport"},
             UNCHANGED <<sent, recvd, hook, seen>>
      PROVE  ReplayInv'
  BY <1>0, <1>2 DEF ReplayInv, Replayed, IsEventAt, Outcomes
<1>3. CASE EncodePromptFails \/ OpenFails
  BY <1>2, <1>3 DEF EncodePromptFails, OpenFails, Return, streamVars
<1>4. CASE SendPrompt \/ CloseSend
  BY <1>0, <1>4 DEF SendPrompt, CloseSend, streamVars, ReplayInv, Replayed, IsEventAt
<1>5. CASE ReceiveFrame
  <2> USE <1>0, <1>5 DEF ReceiveFrame
  <2>1. recvd + 1 \in 1..Len(sent) /\ recvd \in Nat /\ Len(sent) \in Nat /\ sent' = sent
    BY DEF FrameReady, TypeOK, StreamTypeOK
  <2>2. outcome = "none" /\ Replayed = recvd
    BY DEF ReplayInv, Replayed
  <2>3. CASE IsEventAt(recvd + 1)
    <3>1. PICK ev \in Emitters \X (1..MaxCalls) : NextFrame = EventFrame(ev)
      BY <2>3 DEF IsEventAt, NextFrame
    <3>2. ev \in Events
      BY MaxCallsAssumption DEF Events
    <3>3. NextFrame.json /\ NextFrame.event = ev /\ NextFrame.event # NoEvent
      BY <3>1, <3>2, FrameFacts
    <3>4. applyBackendFrame(NextFrame) = "continue"
      BY <3>3 DEF applyBackendFrame
    <3>5. /\ seen' = IF hook THEN Append(seen, NextFrame.event) ELSE seen
          /\ UNCHANGED <<cpc, outcome, hook>> /\ recvd' = recvd + 1
      BY <3>4
    <3>6. Replayed' = recvd + 1
      BY <2>2, <3>5 DEF Replayed
    <3>7. \A i \in 1..(recvd + 1) : IsEventAt(i)'
      BY <2>1, <2>2, <2>3 DEF ReplayInv, IsEventAt
    <3>8. hook => /\ Len(seen') = recvd + 1
                  /\ \A i \in 1..(recvd + 1) : seen'[i] = sent[i].event
      BY <2>1, <2>2, <3>2, <3>3, <3>5 DEF ReplayInv, NextFrame, TypeOK, ProxyTypeOK
    <3> QED BY <2>1, <2>2, <3>5, <3>6, <3>7, <3>8 DEF ReplayInv
  <2>4. CASE IsDoneAt(recvd + 1)
    <3>1. recvd + 1 = Len(sent) /\ NextFrame = DoneFrame(errString(respErr))
      BY <2>4 DEF IsDoneAt, NextFrame
    <3>2. applyBackendFrame(NextFrame) = IF respErr = "text" THEN "remoteError" ELSE "reply"
      BY <3>1, FrameFacts DEF applyBackendFrame, errString
    <3>3. /\ cpc' = "done" /\ outcome' \in {"reply", "remoteError"}
          /\ outcome' = "remoteError" <=> respErr = "text"
          /\ UNCHANGED <<seen, hook>> /\ recvd' = recvd + 1
      BY <3>2 DEF Return
    <3>4. Replayed' = recvd
      BY <2>1, <3>3 DEF Replayed
    <3>5. IsDoneAt(recvd)'
      BY <1>1, <2>1, <2>4, <3>3 DEF IsDoneAt, skeletonVars
    <3>6. respErr' = respErr
      BY DEF skeletonVars
    <3> QED BY <2>1, <2>2, <3>1, <3>3, <3>4, <3>5, <3>6 DEF ReplayInv, IsEventAt, Outcomes
  <2> QED BY <2>1, <2>3, <2>4 DEF WireInv
<1>6. CASE ReceiveFails
  <2>1. ~StreamEOF
    \* an OK trailer sits behind the Done frame, and reading that ends the loop
    <3> SUFFICES ASSUME StreamEOF PROVE FALSE
      OBVIOUS
    <3>1. recvd = Len(sent) /\ recvd > 0 /\ IsDoneAt(recvd)
      BY <1>0 DEF StreamEOF, WireInv
    <3>2. IsEventAt(recvd)
      BY <1>0, <1>6, <3>1 DEF ReceiveFails, ReplayInv, Replayed, TypeOK, StreamTypeOK
    <3>3. PICK ev \in Emitters \X (1..MaxCalls) : sent[recvd] = EventFrame(ev)
      BY <3>2 DEF IsEventAt
    <3>4. ev \in Events
      BY MaxCallsAssumption DEF Events
    <3> QED BY <3>1, <3>3, <3>4, FrameFacts DEF IsDoneAt, errString
  <2> QED BY <1>2, <1>6, <2>1 DEF ReceiveFails, Return
<1>7. CASE HostCancels \/ Close
  BY <1>0, <1>1, <1>7, ReplayKept DEF HostCancels, Close, LinkBreaks, skeletonVars
<1> QED
  BY <1>3, <1>4, <1>5, <1>6, <1>7 DEF Host, RespondStep, HostStep

\* Init establishes the invariant and every step of the turn preserves it.
LEMMA InitInd == Init => IndInv
<1> SUFFICES ASSUME Init PROVE IndInv
  OBVIOUS
<1>1. TypeOK
  BY InitTypeOK
<1>2. sent = <<>> /\ Len(sent) = 0
  BY <1>1 DEF Init, StreamInit
<1>3. LockInv
  BY DEF Init, SkeletonInit, LockInv
<1>4. WireInv /\ PromiseInv
  BY <1>2 DEF Init, StreamInit, SkeletonInit, WireInv, PromiseInv
<1>5. ReplayInv
  <2>1. seen = <<>> /\ Len(seen) = 0
    BY DEF Init, ProxyInit
  <2>2. Replayed = 0 /\ recvd = 0
    BY DEF Init, StreamInit, ProxyInit, Replayed
  <2> QED BY <2>1, <2>2 DEF Init, ProxyInit, ReplayInv, Outcomes
<1> QED BY <1>1, <1>3, <1>4, <1>5 DEF IndInv

\* Every step of the turn preserves it.
LEMMA StepInd == IndInv /\ [Next]_vars => IndInv'
<1> SUFFICES ASSUME IndInv, [Next]_vars
             PROVE  IndInv'
  OBVIOUS
<1>0. TypeOK /\ LockInv /\ WireInv /\ PromiseInv /\ ReplayInv /\ TypeOK'
  BY StepTypeOK DEF IndInv
<1>1. CASE Network
  <2>1. UNCHANGED <<sent, recvd, skeletonVars, proxyVars>>
    BY <1>1 DEF Network, LinkBreaks, NoticeGone
  <2>2. LockInv' /\ PromiseInv'
    BY <1>0, <2>1 DEF LockInv, PromiseInv, skeletonVars
  <2>3. WireInv'
    <3>1. CASE LinkBreaks
      BY <1>0, <2>1, <3>1, LinkBreaksWire DEF skeletonVars
    <3>2. CASE NoticeGone
      BY <1>0, <2>1, <3>2 DEF NoticeGone, WireInv, IsEventAt, IsDoneAt, skeletonVars
    <3> QED BY <1>1, <3>1, <3>2 DEF Network
  <2>4. \A i \in 1..Len(sent) : IsDoneAt(i) => IsDoneAt(i)'
    BY <2>1 DEF IsDoneAt, skeletonVars
  <2>5. ReplayInv'
    BY <1>0, <2>1, <2>4, ReplayKept DEF skeletonVars
  <2> QED BY <1>0, <2>2, <2>3, <2>5 DEF IndInv
<1>2. CASE Finished \/ UNCHANGED vars
  <2> USE <1>0, <1>2 DEF Finished, vars, streamVars, skeletonVars
  <2>1. LockInv' /\ PromiseInv'
    BY DEF LockInv, PromiseInv
  <2>2. WireInv' /\ \A i \in 1..Len(sent) : IsDoneAt(i) => IsDoneAt(i)'
    BY DEF WireInv, IsEventAt, IsDoneAt
  <2>3. ReplayInv'
    BY <2>2, ReplayKept
  <2> QED BY <2>1, <2>2, <2>3 DEF IndInv
<1> QED BY <1>1, <1>2, PluginInd, HostInd DEF Next

\* The invariant of the turn holds in every reachable state.
THEOREM Invariance == Spec => []IndInv
BY InitInd, StepInd, PTL DEF Spec

-----------------------------------------------------------------------------
(* The properties the runs check, for every instance. *)

\* At most one goroutine is in SendMsg at a time, and none after the handler of
\* respond has returned, however long the backend's goroutines go on.
THEOREM SendsAreExclusive == Spec => []SendExclusive
<1>1. IndInv => SendExclusive
  BY DEF IndInv, LockInv, SendExclusive
<1> QED BY <1>1, Invariance, PTL

\* With this skeleton at the other end, Respond never ends on a frame it cannot
\* read, nor on an orderly end of the stream without the Done frame.
THEOREM FramingIsSound == Spec => []FramingSound
<1>1. IndInv => FramingSound
  BY DEF IndInv, ReplayInv, FramingSound
<1> QED BY <1>1, Invariance, PTL

\* The host's onEvent sees the events of the wire in order, from the first one,
\* each once.
THEOREM ReplaysInOrder == Spec => []ReplayInOrder
<1>1. IndInv => ReplayInOrder
  BY DEF IndInv, TypeOK, StreamTypeOK, ReplayInv, Replayed, ReplayInOrder
<1> QED BY <1>1, Invariance, PTL

\* A turn that ends with the backend's answer has replayed every event whose
\* onEvent call returned while the backend was responding.
THEOREM NoEventLost == Spec => []NoSilentGap
<1>1. IndInv => NoSilentGap
  <2> SUFFICES ASSUME IndInv, outcome \in {"reply", "remoteError"}, hook,
                      NEW ev \in promised
               PROVE  \E i \in 1..Len(seen) : seen[i] = ev
    BY DEF NoSilentGap
  <2>1. recvd = Len(sent) /\ recvd > 0 /\ IsDoneAt(recvd) /\ Len(seen) = recvd - 1
    BY DEF IndInv, ReplayInv, Replayed
  <2>2. PICK i \in 1..Len(sent) : sent[i].event = ev
    BY <2>1 DEF IndInv, PromiseInv, IsDoneAt
  <2>3. ev \in Events /\ ev # NoEvent
    BY StreamAssumption DEF IndInv, TypeOK, SkeletonTypeOK
  <2>4. sent[recvd].event = NoEvent
    BY <2>1, FrameFacts DEF IsDoneAt, errString
  <2>5. i \in 1..(recvd - 1)
    BY <2>1, <2>2, <2>3, <2>4 DEF IndInv, TypeOK, StreamTypeOK
  <2>6. seen[i] = sent[i].event
    BY <2>5 DEF IndInv, ReplayInv, Replayed
  <2> QED BY <2>1, <2>2, <2>5, <2>6
<1> QED BY <1>1, Invariance, PTL

\* An answer is reported only for a Respond that returned, as an error exactly
\* when the backend's error has a text.
THEOREM OutcomeIsFaithful == Spec => []OutcomeFaithful
<1>1. IndInv => OutcomeFaithful
  BY DEF IndInv, ReplayInv, IsDoneAt, OutcomeFaithful
<1> QED BY <1>1, Invariance, PTL

-----------------------------------------------------------------------------
(* The turn implements its abstract specification. *)

\* A frame read as an event is not a Done frame, and the other way round.
LEMMA FrameKinds ==
  /\ \A i \in 1..Len(sent) : IsEventAt(i) =>
       ~sent[i].done /\ sent[i].event \in Emitters \X (1..MaxCalls)
  /\ \A i \in 1..Len(sent) : IsDoneAt(i) => sent[i].done
<1>1. Emitters \X (1..MaxCalls) \subseteq Events
  BY MaxCallsAssumption DEF Events
<1> QED BY <1>1, FrameFacts DEF IsEventAt, IsDoneAt, errString

\* In terms of the wire, the host has replayed its first Replayed events, with
\* an onEvent or without.
LEMMA ReplayedView == IndInv => AbsReplayed = WireEvents(Replayed)
<1> SUFFICES ASSUME IndInv PROVE AbsReplayed = WireEvents(Replayed)
  OBVIOUS
<1>0. TypeOK /\ ReplayInv
  BY DEF IndInv
<1>1. recvd \in Nat /\ Len(sent) \in Nat /\ recvd <= Len(sent) /\ Replayed \in Nat /\ Replayed <= recvd
  BY <1>0 DEF TypeOK, StreamTypeOK, ReplayInv, Replayed
<1>2. CASE hook
  <2>1. Len(seen) = Replayed /\ \A i \in 1..Replayed : seen[i] = sent[i].event
    BY <1>0, <1>2 DEF ReplayInv
  <2>2. seen = [i \in 1..Len(seen) |-> seen[i]]
    BY <1>0 DEF TypeOK, ProxyTypeOK
  <2> QED BY <1>2, <2>1, <2>2 DEF AbsReplayed, WireEvents
<1>3. CASE ~hook
  <2>1. EventCount(recvd) = Replayed
    <3>1. CASE outcome \in {"reply", "remoteError"}
      BY <1>0, <1>1, <3>1, FrameKinds DEF ReplayInv, Replayed, EventCount
    <3>2. CASE outcome \notin {"reply", "remoteError"}
      BY <1>0, <1>1, <3>2, FrameKinds DEF ReplayInv, Replayed, EventCount
    <3> QED BY <3>1, <3>2
  <2> QED BY <1>3, <2>1 DEF AbsReplayed
<1> QED BY <1>2, <1>3

\* A step that changes neither the wire's events nor what the host has of them
\* is a stutter of the abstract turn, or its closing.
LEMMA QuietStep ==
  ASSUME UNCHANGED <<sent, recvd, hook, seen, outcome>>, closed' = closed \/ closed'
  PROVE  [Abstract!Next]_(Abstract!vars)
<1>1. UNCHANGED <<AbsAccepted, AbsReplayed, AbsVerdict>>
  BY DEF AbsAccepted, AbsReplayed, AbsVerdict, WireEvents, EventCount
<1>2. CASE closed' = closed
  BY <1>1, <1>2 DEF Abstract!vars
<1>3. CASE closed' = TRUE
  BY <1>1, <1>3 DEF Abstract!Next, Abstract!CloseTurn
<1> QED BY <1>2, <1>3

\* The skeleton's steps, seen abstractly: an event frame is an accepted event,
\* everything else is a stutter or the closing of the turn.
LEMMA PluginRefines ==
  ASSUME IndInv, Plugin
  PROVE  [Abstract!Next]_(Abstract!vars)
<1>0. TypeOK /\ LockInv /\ WireInv /\ ReplayInv /\ UNCHANGED proxyVars
  BY DEF IndInv, Plugin
<1>1. ASSUME NEW f \in Frame, SendMsgOK(f), UNCHANGED <<recvd, closed>>,
             hpc \notin {"returned", "crashed"} \/ ~closed
      PROVE  /\ AbsAccepted = WireEvents(Len(sent))
             /\ AbsAccepted' = IF f.done THEN AbsAccepted ELSE Append(AbsAccepted, f.event)
             /\ UNCHANGED <<AbsReplayed, AbsVerdict>>
  <2>1. /\ Len(sent) \in Nat /\ recvd \in Nat /\ recvd <= Len(sent)
        /\ Len(sent') = Len(sent) + 1
        /\ \A i \in 1..Len(sent) : sent'[i] = sent[i]
        /\ sent'[Len(sent) + 1] = f
    BY <1>0, <1>1, SendAppends DEF TypeOK, StreamTypeOK
  <2>2. \A i \in 1..Len(sent) : IsEventAt(i)
    BY <1>0, <1>1 DEF WireInv, IsDoneAt
  <2>3. EventCount(Len(sent)) = Len(sent)
    BY <2>1, <2>2, FrameKinds DEF EventCount
  <2>4. AbsAccepted = WireEvents(Len(sent))
    BY <2>3 DEF AbsAccepted
  <2>5. EventCount(Len(sent))' = IF f.done THEN Len(sent) ELSE Len(sent) + 1
    BY <2>1 DEF EventCount
  <2>6. AbsAccepted' = [i \in 1..EventCount(Len(sent))' |-> sent'[i].event]
    BY DEF AbsAccepted, WireEvents
  <2>7. ASSUME f.done PROVE AbsAccepted' = AbsAccepted
    BY <2>1, <2>4, <2>5, <2>6, <2>7 DEF WireEvents
  <2>8. ASSUME ~f.done PROVE AbsAccepted' = Append(AbsAccepted, f.event)
    <3>1. AbsAccepted' = [i \in 1..(Len(sent) + 1) |-> IF i = Len(sent) + 1 THEN f.event ELSE sent[i].event]
      BY <2>1, <2>5, <2>6, <2>8
    <3>2. AbsAccepted = [i \in 1..Len(sent) |-> sent[i].event] /\ Len(AbsAccepted) = Len(sent)
      BY <2>1, <2>4 DEF WireEvents
    <3>3. Append(AbsAccepted, f.event) =
            [i \in 1..(Len(sent) + 1) |-> IF i = Len(sent) + 1 THEN f.event ELSE sent[i].event]
      BY <2>1, <3>2
    <3> QED BY <3>1, <3>3
  <2>9. UNCHANGED <<AbsReplayed, AbsVerdict>>
    <3>1. EventCount(recvd)' = EventCount(recvd) /\ EventCount(recvd) <= recvd /\ EventCount(recvd) \in Nat
      BY <1>1, <2>1 DEF EventCount
    <3>2. WireEvents(EventCount(recvd))' = WireEvents(EventCount(recvd))
      BY <2>1, <3>1 DEF WireEvents
    <3> QED BY <1>0, <3>2 DEF AbsReplayed, AbsVerdict, proxyVars
  <2> QED BY <2>4, <2>7, <2>8, <2>9
<1>2. CASE SendReply
  <2>1. CASE SendMsgOK(DoneFrame(errString(respErr)))
    <3>1. DoneFrame(errString(respErr)) \in Frame /\ DoneFrame(errString(respErr)).done
      BY FrameFacts DEF errString
    <3>2. UNCHANGED <<AbsAccepted, AbsReplayed, AbsVerdict, closed>>
      BY <1>1, <1>2, <2>1, <3>1 DEF SendReply
    <3> QED BY <3>2 DEF Abstract!vars
  <2>2. CASE SendMsgFails
    BY <1>0, <1>2, <2>2, QuietStep DEF SendReply, SendMsgFails, proxyVars
  <2> QED BY <1>2, <2>1, <2>2 DEF SendReply
<1>3. ASSUME NEW e \in Emitters, EmitSends(e)
      PROVE  [Abstract!Next]_(Abstract!vars)
  <2>1. CASE SendMsgOK(EventFrame(Current(e)))
    <3>1. ~closed /\ Current(e) \in Emitters \X (1..MaxCalls)
      BY <1>0, <1>3, MaxCallsAssumption
         DEF EmitSends, LockInv, Current, TypeOK, SkeletonTypeOK
    <3>2. /\ EventFrame(Current(e)) \in Frame
          /\ ~EventFrame(Current(e)).done
          /\ EventFrame(Current(e)).event = Current(e)
      BY <1>0, CurrentIsEvent, FrameFacts DEF TypeOK
    <3>3. /\ AbsAccepted' = Append(AbsAccepted, Current(e))
          /\ UNCHANGED <<closed, AbsReplayed, AbsVerdict>>
      BY <1>1, <1>3, <2>1, <3>1, <3>2 DEF EmitSends
    <3> QED BY <3>1, <3>3 DEF Abstract!Next, Abstract!Accept
  <2>2. CASE SendMsgFails
    BY <1>0, <1>3, <2>2, QuietStep DEF EmitSends, SendMsgFails, proxyVars
  <2> QED BY <1>3, <2>1, <2>2 DEF EmitSends
<1>4. ASSUME \/ HandleRequest \/ RecvRequestFails \/ CloseTurn \/ PluginCrashes
             \/ \E err \in RespErrs : BackendReturns(err)
             \/ \E e \in Emitters : EmitCall(e) \/ EmitDropped(e) \/ EmitLocks(e)
      PROVE  [Abstract!Next]_(Abstract!vars)
  <2>1. UNCHANGED <<sent, recvd>> /\ (closed' = closed \/ closed')
    BY <1>4 DEF HandleRequest, RecvRequestFails, CloseTurn, EncodeReply, PluginCrashes, BackendReturns,
                EmitCall, EmitDropped, EmitLocks, LinkBreaks, streamVars
  <2> QED BY <1>0, <2>1, QuietStep DEF proxyVars
<1> QED BY <1>2, <1>3, <1>4 DEF Plugin, SkeletonStep

\* The steps of Respond, seen abstractly: an event frame is a replay, the Done
\* frame the answer, every other return a failure.
LEMMA HostRefines ==
  ASSUME IndInv, Host, IndInv'
  PROVE  [Abstract!Next]_(Abstract!vars)
<1>0. TypeOK /\ WireInv /\ ReplayInv /\ UNCHANGED skeletonVars /\ closed' = closed
  BY DEF IndInv, Host, skeletonVars
<1>1. AbsReplayed = WireEvents(Replayed)
  BY ReplayedView
<1>2. (IndInv => AbsReplayed = WireEvents(Replayed))'
  BY ReplayedView, PTL
<1>3. AbsReplayed' = WireEvents(Replayed)'
  BY <1>2
<1>4. ASSUME cpc # "done", outcome' \in {"encode", "open", "transport", "hangup"},
             UNCHANGED <<sent, recvd, hook, seen>>
      PROVE  [Abstract!Next]_(Abstract!vars)
  <2>1. UNCHANGED <<AbsAccepted, AbsReplayed>>
    BY <1>4 DEF AbsAccepted, AbsReplayed, WireEvents, EventCount
  <2>2. AbsVerdict = "none" /\ AbsVerdict' = "failed"
    BY <1>0, <1>4 DEF ReplayInv, AbsVerdict
  <2> QED BY <1>0, <2>1, <2>2 DEF Abstract!Next, Abstract!Fail
<1>5. CASE EncodePromptFails \/ OpenFails \/ ReceiveFails
  BY <1>4, <1>5 DEF EncodePromptFails, OpenFails, ReceiveFails, Return, streamVars
<1>6. CASE SendPrompt \/ CloseSend \/ HostCancels \/ Close
  BY <1>0, <1>6, QuietStep
     DEF SendPrompt, CloseSend, HostCancels, Close, LinkBreaks, streamVars, proxyVars
<1>7. CASE ReceiveFrame
  <2>1. sent' = sent /\ recvd' = recvd + 1 /\ hook' = hook
    BY <1>7 DEF ReceiveFrame
  <2>2. recvd \in Nat /\ Len(sent) \in Nat /\ recvd + 1 \in 1..Len(sent)
    BY <1>7, <1>0 DEF ReceiveFrame, FrameReady, TypeOK, StreamTypeOK
  <2>3. outcome = "none" /\ AbsVerdict = "none" /\ Replayed = recvd
    BY <1>0, <1>7 DEF ReceiveFrame, ReplayInv, AbsVerdict, Replayed
  <2>4. AbsAccepted' = AbsAccepted
    BY <2>1 DEF AbsAccepted, WireEvents, EventCount
  <2>5. CASE outcome' = "none"
    <3>1. AbsVerdict' = AbsVerdict /\ Replayed' = recvd + 1
      BY <2>1, <2>3, <2>5 DEF AbsVerdict, Replayed
    <3>2. \A i \in 1..(recvd + 1) : IsEventAt(i)
      BY <2>1, <3>1 DEF IndInv, ReplayInv, IsEventAt
    <3>3. EventCount(Len(sent)) \in Nat /\ recvd + 1 <= EventCount(Len(sent))
      BY <2>2, <3>2, FrameKinds DEF EventCount
    <3>4. Len(AbsAccepted) = EventCount(Len(sent)) /\ AbsAccepted[recvd + 1] = sent[recvd + 1].event
      BY <2>2, <3>3 DEF AbsAccepted, WireEvents
    <3>5. AbsReplayed = [i \in 1..recvd |-> sent[i].event] /\ Len(AbsReplayed) = recvd
      BY <1>1, <2>2, <2>3 DEF WireEvents
    <3>6. AbsReplayed' = [i \in 1..(recvd + 1) |-> sent[i].event]
      BY <1>3, <2>1, <3>1 DEF WireEvents
    <3>7. AbsReplayed' = Append(AbsReplayed, AbsAccepted[recvd + 1])
      BY <2>2, <3>4, <3>5, <3>6
    <3>8. Abstract!Replay
      BY <1>0, <2>2, <2>3, <2>4, <3>1, <3>3, <3>4, <3>5, <3>7 DEF Abstract!Replay
    <3> QED BY <3>8 DEF Abstract!Next
  <2>6. CASE outcome' # "none"
    <3>1. outcome' \in {"reply", "remoteError"}
      <4>1. ReplayInv'
        BY DEF IndInv
      <4>2. outcome' \in {"none", "decode", "invalidFrame", "remoteError", "reply"}
        <5>1. NextFrame \in Frame
          BY <1>0, <2>2 DEF NextFrame, TypeOK, StreamTypeOK
        <5>2. NextFrame.event \in Events \cup {NoEvent} /\ NextFrame.json \in BOOLEAN
              /\ NextFrame.done \in BOOLEAN /\ NextFrame.error \in BOOLEAN
          BY <5>1 DEF Frame
        <5>3. applyBackendFrame(NextFrame) \in {"continue", "decode", "invalidFrame", "remoteError", "reply"}
          BY <5>2 DEF applyBackendFrame
        <5> QED BY <1>7, <2>3, <5>3 DEF ReceiveFrame, Return
      <4> QED BY <2>6, <4>1, <4>2 DEF ReplayInv
    <3>2. recvd + 1 = Len(sent) /\ sent[recvd + 1].done /\ closed /\ Replayed' = recvd
      <4>1. recvd' = Len(sent') /\ IsDoneAt(recvd)'
        BY <3>1 DEF IndInv, ReplayInv
      <4>2. IsDoneAt(recvd + 1)
        BY <1>0, <2>1, <4>1 DEF IsDoneAt, skeletonVars
      <4> QED BY <2>1, <2>2, <3>1, <4>1, <4>2, FrameKinds DEF IsDoneAt, Replayed
    <3>3. AbsAccepted = WireEvents(recvd)
      BY <2>2, <3>2 DEF AbsAccepted, EventCount
    <3>4. AbsReplayed = WireEvents(recvd)
      BY <1>1, <2>3
    <3>5. AbsReplayed' = AbsReplayed
      BY <1>3, <2>1, <3>2, <3>4 DEF WireEvents
    <3>6. AbsVerdict' = "answered"
      BY <3>1 DEF AbsVerdict
    <3>7. Abstract!Answer
      BY <1>0, <2>3, <2>4, <3>2, <3>3, <3>4, <3>5, <3>6 DEF Abstract!Answer
    <3> QED BY <3>7 DEF Abstract!Next
  <2> QED BY <2>5, <2>6
<1> QED
  BY <1>5, <1>6, <1>7 DEF Host, RespondStep, HostStep

\* The turn implements its abstract specification: events are replayed in the
\* order they were accepted, and the answer comes after the last of them.
THEOREM ImplementsTurn == Spec => AbstractTurn
<1>1. Init => Abstract!Init
  <2> SUFFICES ASSUME Init PROVE Abstract!Init
    OBVIOUS
  <2>1. sent = <<>> /\ Len(sent) = 0 /\ recvd = 0 /\ seen = <<>> /\ outcome = "none"
    BY DEF Init, StreamInit, ProxyInit
  <2>2. WireEvents(0) = <<>>
    BY DEF WireEvents
  <2> QED BY <2>1, <2>2 DEF Abstract!Init, AbsAccepted, AbsReplayed, AbsVerdict, EventCount,
                            Init, SkeletonInit
<1>2. IndInv /\ IndInv' /\ [Next]_vars => [Abstract!Next]_(Abstract!vars)
  <2> SUFFICES ASSUME IndInv, IndInv', [Next]_vars
               PROVE  [Abstract!Next]_(Abstract!vars)
    OBVIOUS
  <2>1. CASE Network
    BY <2>1, QuietStep DEF Network, LinkBreaks, NoticeGone, skeletonVars, proxyVars
  <2>2. CASE Finished \/ UNCHANGED vars
    BY <2>2, QuietStep DEF Finished, vars, streamVars, skeletonVars, proxyVars
  <2> QED BY <2>1, <2>2, PluginRefines, HostRefines DEF Next
<1> QED BY <1>1, <1>2, Invariance, PTL DEF Spec, AbstractTurn
=============================================================================
