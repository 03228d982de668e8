--------------------------- MODULE MCTaskCommands ---------------------------
(* Small instances of TaskCommands for TLC. *)
EXTENDS TaskCommands

CONSTANTS c, c2, f,  \* two new tasks and a follow-up
          s1, s2     \* a known session, or one an agent may create

MCKind == [k \in Keys |-> IF k = f THEN "follow_up" ELSE "create"]
MCCodex == [k \in Keys |-> "codex"]
MCMixed == [k \in Keys |-> IF k = c THEN "claude" ELSE "codex"]
MCTarget == [k \in Keys |-> s1]
MCKnown == {s1}
=============================================================================
