-------------------------------- MODULE Turn --------------------------------
(***************************************************************************)
(* What one backend turn over the transport promises the host, whatever    *)
(* the network and the plugin do: the events it replays are, in order, a   *)
(* prefix of the ones the plugin side accepted, and the turn is answered   *)
(* only once the plugin side has stopped accepting and all of them have    *)
(* been replayed.  Until then the turn may fail at any moment.             *)
(***************************************************************************)
EXTENDS Naturals, Sequences

CONSTANT Event

VARIABLES
  accepted,   \* events the turn has taken from the backend, in order
  closed,     \* it takes no more
  replayed,   \* events handed to the host, in order
  verdict     \* "none", "answered" or "failed"

vars == <<accepted, closed, replayed, verdict>>

Init ==
  /\ accepted = <<>>
  /\ closed = FALSE
  /\ replayed = <<>>
  /\ verdict = "none"

Accept ==
  /\ ~closed
  /\ \E ev \in Event : accepted' = Append(accepted, ev)
  /\ UNCHANGED <<closed, replayed, verdict>>

CloseTurn ==
  /\ closed' = TRUE
  /\ UNCHANGED <<accepted, replayed, verdict>>

Replay ==
  /\ verdict = "none"
  /\ Len(replayed) < Len(accepted)
  /\ replayed' = Append(replayed, accepted[Len(replayed) + 1])
  /\ UNCHANGED <<accepted, closed, verdict>>

Answer ==
  /\ verdict = "none"
  /\ closed
  /\ replayed = accepted
  /\ verdict' = "answered"
  /\ UNCHANGED <<accepted, closed, replayed>>

Fail ==
  /\ verdict = "none"
  /\ verdict' = "failed"
  /\ UNCHANGED <<accepted, closed, replayed>>

Next == Accept \/ CloseTurn \/ Replay \/ Answer \/ Fail

Spec == Init /\ [][Next]_vars
=============================================================================
