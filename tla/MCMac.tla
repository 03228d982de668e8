--------------------------------- MODULE MCMac ---------------------------------
(***************************************************************************)
(* What the bridge has around the tasks, each part on its own, in one run. *)
(***************************************************************************)
EXTENDS OnTheMac

CONSTANTS f1, j1

FirstFile == [t \in Tasks |-> f1]
OneRepo == [p \in Places |-> "r"]
OwnTops == [p \in Places |-> p]

\* Two jobs of any two kinds: which of them is the first does not matter.
JobKinds == <<"plugin", "cli", "remove", "off">>
AnyTwo ==
  {[j \in Jobs |-> JobKinds[IF j = j1 THEN a ELSE b]] :
     a \in DOMAIN JobKinds, b \in DOMAIN JobKinds}
TwoKinds ==
  {k \in AnyTwo : \E a, b \in DOMAIN JobKinds :
     a <= b /\ \A j \in Jobs : k[j] = JobKinds[IF j = j1 THEN a ELSE b]}

=============================================================================
