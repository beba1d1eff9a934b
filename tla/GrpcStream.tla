----------------------------- MODULE GrpcStream -----------------------------
(***************************************************************************)
(* One server-streaming gRPC call, as backend_stream.go uses it.  gRPC is  *)
(* external: this module states what the transport code relies on.         *)
(*                                                                         *)
(* The stream keeps its whole history: `sent` holds every frame a SendMsg  *)
(* of the server accepted and `recvd` counts the ones a RecvMsg of the     *)
(* client returned.  Frames are never reordered or duplicated, but an      *)
(* accepted frame is not a delivered one: when the link breaks, the frames *)
(* beyond `reach` are lost, and until the server's transport notices the   *)
(* loss it still accepts frames that go nowhere.                           *)
(***************************************************************************)
EXTENDS Naturals, Sequences

CONSTANTS
  Emitters,   \* goroutines of the real backend that call onEvent
  NoEvent,    \* the nil *contracts.BackendEvent of a frame
  Window      \* frames the flow control lets the server run ahead

\* The n-th onEvent call of emitter e carries the event <<e, n>>.
Events == Emitters \X Nat

ASSUME StreamAssumption ==
  /\ NoEvent \notin Events
  /\ Window \in Nat \ {0}

VARIABLES
  request,    \* the MethodEnvelope on the stream, "none" until it is sent
  sent,       \* frames accepted by the server's SendMsg, in order
  recvd,      \* how many of them the client's RecvMsg returned
  reach,      \* how many of them can still reach the client
  link,       \* "up", or "broken" by a crash or a dropped connection
  trailer,    \* the status that ends the stream, "open" before
  ctxDone,    \* the client's context is done
  gone        \* the server's transport knows that the stream is dead

streamVars == <<request, sent, recvd, reach, link, trailer, ctxDone, gone>>

-----------------------------------------------------------------------------
(***************************************************************************)
(* backendFrame.  `json` says whether the payload decodes at all and       *)
(* `error` whether the Error string is non-empty: the proxy tells errors   *)
(* from success by that alone.                                             *)
(***************************************************************************)
Frame == [json: BOOLEAN, event: Events \cup {NoEvent}, done: BOOLEAN, error: BOOLEAN]

EventFrame(ev) == [json |-> TRUE, event |-> ev, done |-> FALSE, error |-> FALSE]

DoneFrame(err) == [json |-> TRUE, event |-> NoEvent, done |-> TRUE, error |-> err]

StreamInit ==
  /\ request = "none"
  /\ sent = <<>>
  /\ recvd = 0
  /\ reach = 0
  /\ link = "up"
  /\ trailer = "open"
  /\ ctxDone = FALSE
  /\ gone = FALSE

(***************************************************************************)
(* The server's SendMsg returns nil: the frame is in the send buffer.  It  *)
(* blocks while the client is Window frames behind.                        *)
(***************************************************************************)
SendMsgOK(f) ==
  /\ ~gone
  /\ Len(sent) - recvd < Window
  /\ sent' = Append(sent, f)
  /\ reach' = IF link = "up" THEN Len(sent) + 1 ELSE reach

\* The server's SendMsg returns an error: the stream is dead.
SendMsgFails == gone /\ UNCHANGED <<sent, reach>>

\* The handler returned: its status follows the frames, if the link is up.
ReturnStatus(status) ==
  trailer' = IF link = "up" THEN status ELSE trailer

\* The frame the client's RecvMsg would return next.
FrameReady == recvd < reach
NextFrame == sent[recvd + 1]

\* The connection drops: any suffix of what is in flight is lost, and the
\* trailer, which comes last, is lost with any frame before it.
LinkBreaks ==
  /\ link = "up"
  /\ link' = "broken"
  /\ reach' \in recvd..reach
  /\ trailer' \in IF reach' = reach THEN {trailer, "open"} ELSE {"open"}
  /\ UNCHANGED <<request, sent, recvd, ctxDone, gone>>

\* The reset of a cancelled or broken stream reaches the server's transport.
NoticeGone ==
  /\ link = "broken" \/ ctxDone
  /\ ~gone
  /\ gone' = TRUE
  /\ UNCHANGED <<request, sent, recvd, reach, link, trailer, ctxDone>>

StreamTypeOK ==
  /\ request \in {"none", "prompt", "unservable"}
  /\ sent \in Seq(Frame)
  /\ recvd \in Nat /\ reach \in Nat
  /\ recvd <= reach /\ reach <= Len(sent)
  /\ link \in {"up", "broken"}
  /\ trailer \in {"open", "OK", "error"}
  /\ ctxDone \in BOOLEAN
  /\ gone \in BOOLEAN
=============================================================================
