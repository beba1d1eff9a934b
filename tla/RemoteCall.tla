----------------------------- MODULE RemoteCall -----------------------------
(***************************************************************************)
(* What a request/response call through a proxy promises, whatever carries *)
(* it: the real object runs the call at most once, perhaps after the       *)
(* caller has given up, and the caller learns of success only from a run   *)
(* that succeeded.                                                         *)
(***************************************************************************)
CONSTANTS
  Callers,
  Outcomes,   \* what the real object may return
  Good,       \* the outcomes a caller may take for success
  Failures    \* what a caller may be told otherwise

VARIABLES
  stage,      \* each caller: "idle", "waiting" or "done"
  ran,        \* what the real object returned for it, "unrun" before
  told        \* what the caller was told, "nothing" before

callVars == <<stage, ran, told>>

Init ==
  /\ stage = [c \in Callers |-> "idle"]
  /\ ran = [c \in Callers |-> "unrun"]
  /\ told = [c \in Callers |-> "nothing"]

Issue(c) ==
  /\ stage[c] = "idle"
  /\ stage' = [stage EXCEPT ![c] = "waiting"]
  /\ UNCHANGED <<ran, told>>

\* The one run of the call; the caller may be gone.
Execute(c) ==
  /\ stage[c] # "idle" /\ ran[c] = "unrun"
  /\ \E out \in Outcomes : ran' = [ran EXCEPT ![c] = out]
  /\ UNCHANGED <<stage, told>>

Succeed(c) ==
  /\ stage[c] = "waiting" /\ ran[c] \in Good
  /\ stage' = [stage EXCEPT ![c] = "done"]
  /\ told' = [told EXCEPT ![c] = "ok"]
  /\ UNCHANGED ran

\* A failure says nothing about whether the call ran.
Fail(c) ==
  /\ stage[c] # "done"
  /\ stage' = [stage EXCEPT ![c] = "done"]
  /\ \E why \in Failures : told' = [told EXCEPT ![c] = why]
  /\ UNCHANGED ran

Next == \E c \in Callers : Issue(c) \/ Execute(c) \/ Succeed(c) \/ Fail(c)

Spec == Init /\ [][Next]_callVars
=============================================================================
