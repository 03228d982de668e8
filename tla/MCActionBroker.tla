--------------------------- MODULE MCActionBroker ---------------------------
(* Instances of the action broker for TLC.                                  *)
EXTENDS ActionBroker, TLC

CONSTANTS h, a, p,        \* a hook request, an ask, a request the policy allows
          k1, k2,         \* submissions of devices
          c1, c2          \* connections

\* Every submission is about the ask, or about the hook.
TargetAsk == [k \in Keys |-> a]
TargetHook == [k \in Keys |-> h]
ConnSymmetry == Permutations(Conns)
=============================================================================
