------------------------------ MODULE MCDiscovery ------------------------------
(* A transcript, the processes that write it and the hooks of its agent. *)
EXTENDS Discovery, TLC

CONSTANTS t

MCProvider == [f \in {t} |-> "claude"]
MCSessionOf == <<t, t>>
MCEvidence == <<{"id", "path"}, {"path"}>>
MCTold == {"PermissionRequest"}
MCText == <<<<Item("prompt"), Call("c1", "test")>>,
            <<Output("c1", "one"), Item("end_turn")>>,
            <<Item("session_meta")>>>>
=============================================================================
