--------------------------- MODULE CommandLedger ---------------------------
(***************************************************************************)
(* What the task-command subsystem promises a user, with no store, runner  *)
(* or network in it.  Every command is an independent ledger entry: the    *)
(* user's act grants one submission of the prompt to an agent, a retry     *)
(* grants one more, and nothing else ever does -- not a crash, not a       *)
(* restart, not a frame delivered twice.  TaskCommands implements it.      *)
(***************************************************************************)
EXTENDS Naturals

CONSTANT Keys          \* the commands, by device-scoped idempotency key

VARIABLES
  status,              \* [Keys -> Status]
  granted,             \* [Keys -> Nat]: requests of the user on record
  prompts              \* [Keys -> Nat]: prompts handed to an agent so far

vars == <<status, granted, prompts>>

(***************************************************************************)
(* "uncertain" is the state the code's recovery message speaks of: the     *)
(* prompt was handed over, or may have been, and the outcome is unknown.   *)
(***************************************************************************)
Status == {"none", "waiting", "starting", "uncertain", "done", "failed", "withdrawn"}

Init ==
  /\ status = [k \in Keys |-> "none"]
  /\ granted = [k \in Keys |-> 0]
  /\ prompts = [k \in Keys |-> 0]

Same(k) == status'[k] = status[k] /\ granted'[k] = granted[k] /\ prompts'[k] = prompts[k]

(* One entry moves from a status to another, its counters untouched. *)
Move(k, from, to) ==
  /\ status[k] \in from
  /\ status'[k] \in to
  /\ granted'[k] = granted[k]
  /\ prompts'[k] = prompts[k]

(* A request goes on record: the submission, which may be refused, or a retry. *)
Grant(k) ==
  /\ \/ status[k] = "none" /\ status'[k] \in {"waiting", "failed"}
     \/ status[k] = "failed" /\ status'[k] = "waiting"
  /\ granted'[k] = granted[k] + 1
  /\ prompts'[k] = prompts[k]

Withdraw(k)  == Move(k, {"waiting"}, {"withdrawn"})
Start(k)     == Move(k, {"waiting"}, {"starting"})
Interrupt(k) == Move(k, {"starting"}, {"uncertain"})
GiveUp(k)    == Move(k, {"starting", "uncertain"}, {"failed"})
Complete(k)  == Move(k, {"uncertain"}, {"done"})

Prompt(k) ==
  /\ status[k] = "starting"
  /\ status'[k] = "uncertain"
  /\ granted'[k] = granted[k]
  /\ prompts'[k] = prompts[k] + 1

Step(k) ==
  \/ Grant(k)     \/ Withdraw(k)
  \/ Start(k)     \/ Prompt(k)    \/ Interrupt(k)
  \/ GiveUp(k)    \/ Complete(k)

(* The entries are independent, so a step may move any number of them. *)
Next ==
  /\ status' \in [Keys -> Status]
  /\ granted' \in [Keys -> Nat]
  /\ prompts' \in [Keys -> Nat]
  /\ \A k \in Keys : Step(k) \/ Same(k)

Spec == Init /\ [][Next]_vars

-----------------------------------------------------------------------------
TypeOK ==
  /\ status \in [Keys -> Status]
  /\ granted \in [Keys -> Nat]
  /\ prompts \in [Keys -> Nat]

(* A grant not yet spent: the entry can still hand its prompt over. *)
Open(k) == status[k] \in {"waiting", "starting"}

(***************************************************************************)
(* Every prompt an agent received was paid for by a grant of its own, and  *)
(* an entry that can still run keeps one grant in reserve.                 *)
(***************************************************************************)
PromptsPaidFor ==
  \A k \in Keys : prompts[k] + (IF Open(k) THEN 1 ELSE 0) <= granted[k]
=============================================================================
