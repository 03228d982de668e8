-------------------------------- MODULE MCPages --------------------------------
(***************************************************************************)
(* What the web pages have around the tasks, each part on its own, in one  *)
(* run.                                                                    *)
(***************************************************************************)
EXTENDS OnThePage

CONSTANTS m1, m2, t1

AllKinds == {"archive", "dismiss", "profile", "policy", "settings"}
TwoKinds == {"progress", "result"}
TwoOwners == [t \in Things |-> IF t = t1 THEN m1 ELSE m2]

=============================================================================
