----------------------------- MODULE MCTelephone -----------------------------
(* Three invocations: a call, a call or follow-up, a follow-up or hangup.   *)
EXTENDS Telephone, TLC

CONSTANTS s1, p1, p2, p3, r1, r2

MCSessionOf == (p1 :> s1) @@ (p2 :> s1) @@ (p3 :> s1)
MCCommandsOf ==
  (p1 :> {"call"}) @@ (p2 :> {"call", "reply"}) @@ (p3 :> {"reply", "hangup"})
=============================================================================
