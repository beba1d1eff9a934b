----------------------------- MODULE MCDiscovery -----------------------------
(* Discovery on small instances. *)
EXTENDS Discovery, TLC

CONSTANTS p1, p2, w1, w2, k1, k2, weak, local, remote, noport, memory

Ann(i, a) == [id |-> i, category |-> memory, addr |-> a]

\* p1 and p2 hold the key of w1; p2's manifest is too large.
MCAnnOf == [p \in Plugins |-> Ann(p, local)]
MCSecretOf == [p \in Plugins |-> k1]
MCWatchSecret == [w \in Watchers |-> IF w = w2 THEN weak ELSE k1]

Msg(big, env, mac, issued, body) ==
  [oversized |-> big, envelope |-> env, mac |-> mac, issued |-> issued, body |-> body]

\* What else may appear on the subject: one message for each check, among them
\* two that claim a plugin's id at another address under another key.
MCForeign ==
  { Msg(TRUE,  TRUE,  k1,    0,  Ann(p1, remote)),
    Msg(FALSE, FALSE, k1,    0,  Ann(p1, remote)),
    Msg(FALSE, TRUE,  k2,    0,  Ann(p1, remote)),
    Msg(FALSE, TRUE,  k2,    0,  Ann(p2, remote)),
    Msg(FALSE, TRUE,  NoKey, 0,  Garbage),
    Msg(FALSE, TRUE,  k1,    -9, Ann(p1, remote)),
    Msg(FALSE, TRUE,  k1,    9,  Ann(p1, remote)),
    Msg(FALSE, TRUE,  k1,    0,  Garbage),
    Msg(FALSE, TRUE,  k1,    0,  Ann(Blank, local)),
    Msg(FALSE, TRUE,  k1,    0,  Ann(p1, noport)) }
=============================================================================
