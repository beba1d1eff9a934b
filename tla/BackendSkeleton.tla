--------------------------- MODULE BackendSkeleton ---------------------------
(***************************************************************************)
(* The server side of one backend turn (backend_stream.go, respond): the   *)
(* gRPC handler goroutine that runs the real backend, and the goroutines   *)
(* of that backend, which call onEvent concurrently and may go on calling  *)
(* it after Respond has returned.                                          *)
(***************************************************************************)
EXTENDS GrpcStream

CONSTANT MaxCalls   \* bound: onEvent calls per emitter

ASSUME MaxCallsAssumption == MaxCalls \in Nat

VARIABLES
  hpc,        \* where the handler goroutine is
  respErr,    \* the error real.Respond returned
  sendLock,   \* the mutex that serialises the sends
  sendErr,    \* an event could not be encoded or sent
  closed,     \* respond has stopped taking events
  epc,        \* where each emitter is
  calls,      \* onEvent calls each emitter has made
  promised    \* history: events whose onEvent call returned while real.Respond ran

skeletonVars == <<hpc, respErr, sendLock, sendErr, closed, epc, calls, promised>>

\* nil, an error with a text, and an error whose Error() is the empty string.
RespErrs == {"nil", "text", "blank"}

\* Mutation of errString: the backend's error is never put in the frame.
errStringDropped(err) == FALSE

\* Whether errString(err) is non-empty.
errString(err) == err = "text"

\* The event of the onEvent call emitter e is in.
Current(e) == <<e, calls[e]>>

SkeletonInit ==
  /\ hpc = "idle"
  /\ respErr = "nil"
  /\ sendLock = "free"
  /\ sendErr = FALSE
  /\ closed = FALSE
  /\ epc = [e \in Emitters |-> "idle"]
  /\ calls = [e \in Emitters |-> 0]
  /\ promised = {}

-----------------------------------------------------------------------------
(* The handler goroutine. *)

\* RecvMsg and the checks before Respond.  An "unservable" envelope is one that
\* RecvMsg refuses (too large), names another port, or holds no prompt.
HandleRequest ==
  /\ hpc = "idle"
  /\ \/ /\ request = "prompt"
        /\ hpc' = "running"
        /\ UNCHANGED trailer
     \/ /\ request = "unservable"
        /\ hpc' = "refused"
        /\ ReturnStatus("error")
  /\ UNCHANGED <<respErr, sendLock, sendErr, closed, epc, calls, promised>>
  /\ UNCHANGED <<request, sent, recvd, reach, link, ctxDone, gone>>

\* RecvMsg failed: the stream died before the envelope was read.
RecvRequestFails ==
  /\ hpc = "idle"
  /\ request # "none"
  /\ gone
  /\ hpc' = "refused"
  /\ ReturnStatus("error")
  /\ UNCHANGED <<respErr, sendLock, sendErr, closed, epc, calls, promised>>
  /\ UNCHANGED <<request, sent, recvd, reach, link, ctxDone, gone>>

\* real.Respond returns; its goroutines may still be inside onEvent.
BackendReturns(err) ==
  /\ hpc = "running"
  /\ hpc' = "closing"
  /\ respErr' = err
  /\ UNCHANGED <<sendLock, sendErr, closed, epc, calls, promised>>
  /\ UNCHANGED streamVars

\* Marshal of the terminal frame, and the return when it fails.
EncodeReply ==
  \/ hpc' = "replying" /\ UNCHANGED trailer
  \/ hpc' = "returned" /\ ReturnStatus("error")

\* Mutations of CloseTurn: a failed event ends the handler with a nil error, or is
\* overlooked; `closed` is never set; the lock is not taken.
CloseTurnReturnsNil ==
  /\ hpc = "closing"
  /\ sendLock = "free"
  /\ closed' = TRUE
  /\ \/ sendErr /\ hpc' = "returned" /\ ReturnStatus("OK")
     \/ ~sendErr /\ EncodeReply
  /\ UNCHANGED <<respErr, sendLock, sendErr, epc, calls, promised>>
  /\ UNCHANGED <<request, sent, recvd, reach, link, ctxDone, gone>>

CloseTurnIgnoresSendErr ==
  /\ hpc = "closing"
  /\ sendLock = "free"
  /\ closed' = TRUE
  /\ EncodeReply
  /\ UNCHANGED <<respErr, sendLock, sendErr, epc, calls, promised>>
  /\ UNCHANGED <<request, sent, recvd, reach, link, ctxDone, gone>>

CloseTurnLeavesOpen ==
  /\ hpc = "closing"
  /\ sendLock = "free"
  /\ \/ sendErr /\ hpc' = "returned" /\ ReturnStatus("error")
     \/ ~sendErr /\ EncodeReply
  /\ UNCHANGED <<respErr, sendLock, sendErr, closed, epc, calls, promised>>
  /\ UNCHANGED <<request, sent, recvd, reach, link, ctxDone, gone>>

CloseTurnUnlocked ==
  /\ hpc = "closing"
  /\ closed' = TRUE
  /\ \/ sendErr /\ hpc' = "returned" /\ ReturnStatus("error")
     \/ ~sendErr /\ EncodeReply
  /\ UNCHANGED <<respErr, sendLock, sendErr, epc, calls, promised>>
  /\ UNCHANGED <<request, sent, recvd, reach, link, ctxDone, gone>>

\* The critical section after Respond, the return on a failed event, and otherwise
\* the encoding of the terminal frame, which concerns nobody else.
CloseTurn ==
  /\ hpc = "closing"
  /\ sendLock = "free"
  /\ closed' = TRUE
  /\ \/ /\ sendErr
        /\ hpc' = "returned"
        /\ ReturnStatus("error")
     \/ /\ ~sendErr
        /\ EncodeReply
  /\ UNCHANGED <<respErr, sendLock, sendErr, epc, calls, promised>>
  /\ UNCHANGED <<request, sent, recvd, reach, link, ctxDone, gone>>

\* The terminal frame, sent outside the lock, and the end of the handler.
SendReply ==
  /\ hpc = "replying"
  /\ hpc' = "returned"
  /\ \/ /\ SendMsgOK(DoneFrame(errString(respErr)))
        /\ ReturnStatus("OK")
     \/ /\ SendMsgFails
        /\ ReturnStatus("error")
  /\ UNCHANGED <<respErr, sendLock, sendErr, closed, epc, calls, promised>>
  /\ UNCHANGED <<request, recvd, link, ctxDone, gone>>

-----------------------------------------------------------------------------
(* An emitter: one goroutine of the backend inside onEvent. *)

\* onEvent exists from the moment real.Respond is called, and never expires.
OnEventExists == hpc \in {"running", "closing", "replying", "returned"}

EmitCall(e) ==
  /\ OnEventExists
  /\ epc[e] = "idle"
  /\ calls[e] < MaxCalls
  /\ epc' = [epc EXCEPT ![e] = "locking"]
  /\ calls' = [calls EXCEPT ![e] = @ + 1]
  /\ UNCHANGED <<hpc, respErr, sendLock, sendErr, closed, promised>>
  /\ UNCHANGED streamVars

\* onEvent returns to emitter e.
OnEventReturns(e) ==
  /\ epc' = [epc EXCEPT ![e] = "idle"]
  /\ promised' = IF hpc = "running" THEN promised \cup {Current(e)} ELSE promised

\* Mutation of EmitDropped: an event that does not encode leaves the lock taken.
EmitDroppedKeepsLock(e) ==
  /\ OnEventExists
  /\ epc[e] = "locking"
  /\ sendLock = "free"
  /\ \/ (closed \/ sendErr) /\ UNCHANGED <<sendErr, sendLock>>
     \/ ~closed /\ ~sendErr /\ sendErr' = TRUE /\ sendLock' = "held"
  /\ OnEventReturns(e)
  /\ UNCHANGED <<hpc, respErr, closed, calls>>
  /\ UNCHANGED streamVars

\* The lock is taken and given back without a send: the turn is over, an
\* earlier event failed, or this one does not encode.
EmitDropped(e) ==
  /\ OnEventExists
  /\ epc[e] = "locking"
  /\ sendLock = "free"
  /\ \/ (closed \/ sendErr) /\ UNCHANGED sendErr
     \/ ~closed /\ ~sendErr /\ sendErr' = TRUE
  /\ OnEventReturns(e)
  /\ UNCHANGED <<hpc, respErr, sendLock, closed, calls>>
  /\ UNCHANGED streamVars

\* Mutation of EmitLocks: `closed` is not looked at.
EmitLocksAfterClose(e) ==
  /\ OnEventExists
  /\ epc[e] = "locking"
  /\ sendLock = "free"
  /\ ~sendErr
  /\ sendLock' = "held"
  /\ epc' = [epc EXCEPT ![e] = "sending"]
  /\ UNCHANGED <<hpc, respErr, sendErr, closed, calls, promised>>
  /\ UNCHANGED streamVars

\* The lock is taken and held for the whole of SendMsg.
EmitLocks(e) ==
  /\ OnEventExists
  /\ epc[e] = "locking"
  /\ sendLock = "free"
  /\ ~closed /\ ~sendErr
  /\ sendLock' = "held"
  /\ epc' = [epc EXCEPT ![e] = "sending"]
  /\ UNCHANGED <<hpc, respErr, sendErr, closed, calls, promised>>
  /\ UNCHANGED streamVars

\* Mutation of EmitSends: a failed send leaves the lock taken.
EmitSendsKeepsLock(e) ==
  /\ OnEventExists
  /\ epc[e] = "sending"
  /\ \/ SendMsgOK(EventFrame(Current(e))) /\ sendLock' = "free" /\ UNCHANGED sendErr
     \/ SendMsgFails /\ sendErr' = TRUE /\ UNCHANGED sendLock
  /\ OnEventReturns(e)
  /\ UNCHANGED <<hpc, respErr, closed, calls>>
  /\ UNCHANGED <<request, recvd, link, trailer, ctxDone, gone>>

\* SendMsg returns, the lock is released and onEvent returns.
EmitSends(e) ==
  /\ OnEventExists
  /\ epc[e] = "sending"
  /\ \/ SendMsgOK(EventFrame(Current(e))) /\ UNCHANGED sendErr
     \/ SendMsgFails /\ sendErr' = TRUE
  /\ sendLock' = "free"
  /\ OnEventReturns(e)
  /\ UNCHANGED <<hpc, respErr, closed, calls>>
  /\ UNCHANGED <<request, recvd, link, trailer, ctxDone, gone>>

-----------------------------------------------------------------------------
\* The plugin process dies: every goroutine of the turn and the link with it.
PluginCrashes ==
  /\ hpc # "crashed"
  /\ hpc' = "crashed"
  /\ LinkBreaks \/ (link = "broken" /\ UNCHANGED streamVars)
  /\ UNCHANGED <<respErr, sendLock, sendErr, closed, epc, calls, promised>>

SkeletonStep ==
  \/ HandleRequest
  \/ RecvRequestFails
  \/ \E err \in RespErrs : BackendReturns(err)
  \/ CloseTurn
  \/ SendReply
  \/ \E e \in Emitters : \/ EmitCall(e)
                         \/ EmitDropped(e)
                         \/ EmitLocks(e)
                         \/ EmitSends(e)
  \/ PluginCrashes

SkeletonTypeOK ==
  /\ hpc \in {"idle", "running", "closing", "replying", "returned", "refused", "crashed"}
  /\ respErr \in RespErrs
  /\ sendLock \in {"free", "held"}
  /\ sendErr \in BOOLEAN
  /\ closed \in BOOLEAN
  /\ epc \in [Emitters -> {"idle", "locking", "sending"}]
  /\ calls \in [Emitters -> 0..MaxCalls]
  /\ promised \in SUBSET Events
=============================================================================
