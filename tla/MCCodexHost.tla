----------------------------- MODULE MCCodexHost -----------------------------
(* A new task and a follow-up, one request and two decisions about it. *)
EXTENDS CodexHost

CONSTANTS c1, f1, f2, s1, s2, q1, q2, k1, k2

AboutFirst == [k \in Keys |-> q1]
=============================================================================
