---------------------------- MODULE BackendProxy ----------------------------
(***************************************************************************)
(* The client side of one backend turn (backend_stream.go, Respond): the   *)
(* host's goroutine opens the stream, sends the prompt and replays every   *)
(* event frame through the host's onEvent until a frame, or a failure of   *)
(* the stream, ends the turn.                                              *)
(***************************************************************************)
EXTENDS GrpcStream

VARIABLES
  cpc,        \* where Respond is
  outcome,    \* which return statement ended it, "none" before
  hook,       \* the host passed a non-nil onEvent
  seen        \* events the host's onEvent was called with, in order

proxyVars == <<cpc, outcome, hook, seen>>

Outcomes == {"none", "encode", "open", "transport", "hangup", "decode",
             "invalidFrame", "remoteError", "reply"}

ProxyInit ==
  /\ cpc = "start"
  /\ outcome = "none"
  /\ hook \in BOOLEAN
  /\ seen = <<>>

\* Mutation of Return: the deferred cancel is missing.
ReturnWithoutCancel(res) ==
  /\ cpc' = "done"
  /\ outcome' = res
  /\ UNCHANGED ctxDone

\* A return after context.WithCancel: the deferred cancel runs.
Return(res) ==
  /\ cpc' = "done"
  /\ outcome' = res
  /\ ctxDone' = TRUE

\* encodeArgs fails before there is a context to cancel.
EncodePromptFails ==
  /\ cpc = "start"
  /\ cpc' = "done"
  /\ outcome' = "encode"
  /\ UNCHANGED <<hook, seen>>
  /\ UNCHANGED streamVars

-----------------------------------------------------------------------------
(* openRespondStream. *)

\* NewStream and SendMsg succeed; the payload is one the server can serve or not.
SendPrompt ==
  /\ cpc = "start"
  /\ link = "up" /\ ~ctxDone
  /\ request' \in {"prompt", "unservable"}
  /\ cpc' = "closeSend"
  /\ UNCHANGED <<outcome, hook, seen>>
  /\ UNCHANGED <<sent, recvd, reach, link, trailer, ctxDone, gone>>

CloseSend ==
  /\ cpc = "closeSend"
  /\ cpc' = "recv"
  /\ UNCHANGED <<outcome, hook, seen>>
  /\ UNCHANGED streamVars

\* NewStream, SendMsg or CloseSend returns an error.
OpenFails ==
  /\ cpc \in {"start", "closeSend"}
  /\ Return("open")
  /\ UNCHANGED <<hook, seen>>
  /\ UNCHANGED <<request, sent, recvd, reach, link, trailer, gone>>

-----------------------------------------------------------------------------
(* The receive loop. *)

\* Mutations of applyBackendFrame: Done is looked at before the event; a payload
\* that does not decode is not noticed.
applyBackendFrameDoneFirst(f) ==
  IF ~f.json THEN "decode"
  ELSE IF f.done THEN IF f.error THEN "remoteError" ELSE "reply"
  ELSE IF f.event # NoEvent THEN "continue" ELSE "invalidFrame"

applyBackendFrameUndecoded(f) ==
  IF f.event # NoEvent THEN "continue"
  ELSE IF ~f.done THEN "invalidFrame"
  ELSE IF f.error THEN "remoteError" ELSE "reply"

\* What applyBackendFrame makes of a frame: "continue", or the return it ends in.
\* A frame that holds an event is an event, whatever else it holds.
applyBackendFrame(f) ==
  CASE ~f.json                                    -> "decode"
    [] f.json /\ f.event # NoEvent                -> "continue"
    [] f.json /\ f.event = NoEvent /\ ~f.done     -> "invalidFrame"
    [] f.json /\ f.event = NoEvent /\ f.done      ->
         IF f.error THEN "remoteError" ELSE "reply"

\* Mutation of ReceiveFrame: onEvent runs on a goroutine of its own, and may
\* overtake the ones before.
ReceiveFrameConcurrently ==
  /\ cpc = "recv"
  /\ FrameReady
  /\ recvd' = recvd + 1
  /\ LET res == applyBackendFrame(NextFrame) IN
       \/ /\ res = "continue"
          /\ seen' \in IF hook THEN {Append(seen, NextFrame.event), <<NextFrame.event>> \o seen}
                               ELSE {seen}
          /\ UNCHANGED <<cpc, outcome, ctxDone>>
       \/ res # "continue" /\ Return(res) /\ UNCHANGED seen
  /\ UNCHANGED hook
  /\ UNCHANGED <<request, sent, reach, link, trailer, gone>>

ReceiveFrame ==
  /\ cpc = "recv"
  /\ FrameReady
  /\ recvd' = recvd + 1
  /\ LET res == applyBackendFrame(NextFrame) IN
       \/ /\ res = "continue"
          /\ seen' = IF hook THEN Append(seen, NextFrame.event) ELSE seen
          /\ UNCHANGED <<cpc, outcome, ctxDone>>
       \/ /\ res # "continue"
          /\ Return(res)
          /\ UNCHANGED seen
  /\ UNCHANGED hook
  /\ UNCHANGED <<request, sent, reach, link, trailer, gone>>

\* Every frame was read and the stream ended with status OK: RecvMsg is io.EOF.
StreamEOF == recvd = reach /\ trailer = "OK"

\* RecvMsg's other errors: an error status or a dead link behind the last frame,
\* the context, or a next frame larger than the client accepts.
StreamFails ==
  \/ recvd = reach /\ trailer = "error"
  \/ recvd = reach /\ trailer = "open" /\ link = "broken"
  \/ ctxDone
  \/ FrameReady

\* Mutation of ReceiveFails: io.EOF is not taken for an error.
ReceiveFailsButEOF ==
  /\ cpc = "recv"
  /\ StreamFails /\ Return("transport")
  /\ UNCHANGED <<hook, seen>>
  /\ UNCHANGED <<request, sent, recvd, reach, link, trailer, gone>>

\* RecvMsg returns an error: receiveFailure tells io.EOF from the others.
ReceiveFails ==
  /\ cpc = "recv"
  /\ \/ StreamEOF /\ Return("hangup")
     \/ StreamFails /\ Return("transport")
  /\ UNCHANGED <<hook, seen>>
  /\ UNCHANGED <<request, sent, recvd, reach, link, trailer, gone>>

-----------------------------------------------------------------------------
(* The host. *)

\* The context the host passed to Respond is cancelled or times out.
HostCancels ==
  /\ ~ctxDone
  /\ ctxDone' = TRUE
  /\ UNCHANGED proxyVars
  /\ UNCHANGED <<request, sent, recvd, reach, link, trailer, gone>>

\* Close releases the client connection, a running turn's stream with it.
Close == LinkBreaks /\ UNCHANGED proxyVars

RespondStep ==
  \/ EncodePromptFails
  \/ SendPrompt
  \/ CloseSend
  \/ OpenFails
  \/ ReceiveFrame
  \/ ReceiveFails

HostStep == HostCancels \/ Close

ProxyTypeOK ==
  /\ cpc \in {"start", "closeSend", "recv", "done"}
  /\ outcome \in Outcomes
  /\ hook \in BOOLEAN
  /\ seen \in Seq(Events)
=============================================================================
