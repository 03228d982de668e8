-------------------------- MODULE ApprovalOutcome --------------------------
(* What the approval machinery of Zimlo promises an agent that asks for     *)
(* permission or input, without the broker, its timers and its handlers:    *)
(* each request is open, then decided once or closed; an agent is handed a  *)
(* decision only when it is the one decision recorded for its own request,  *)
(* and once an agent was told "no_decision", none is ever recorded.         *)
EXTENDS Naturals

CONSTANTS
    Requests,  \* the requests of the agents
    Deciders   \* who may decide one: the submissions of devices, the policy

VARIABLES
    phase,     \* the recorded state of each request
    decider,   \* the decider recorded for it
    outcome    \* what its agent was told

vars == <<phase, decider, outcome>>

Init == /\ phase = [r \in Requests |-> "absent"]
        /\ decider = [r \in Requests |-> "nothing"]
        /\ outcome = [r \in Requests |-> "nothing"]

\* A request is put before the devices.
Open(r) == /\ phase[r] = "absent"
           /\ phase' = [phase EXCEPT ![r] = "pending"]
           /\ UNCHANGED <<decider, outcome>>

\* One decider settles it, unless its agent was already turned away.
Decide(r, d) == /\ phase[r] = "pending"
                /\ outcome[r] = "nothing"
                /\ phase' = [phase EXCEPT ![r] = "resolved"]
                /\ decider' = [decider EXCEPT ![r] = d]
                /\ UNCHANGED outcome

\* It is closed with no decision: the time is up, the agent left, a restart.
\* A restart closes every open request at once.
Close(S) == /\ S \subseteq {r \in Requests : phase[r] = "pending"}
            /\ phase' = [r \in Requests |->
                            IF r \in S THEN "expired" ELSE phase[r]]
            /\ UNCHANGED <<decider, outcome>>

\* The agent receives the recorded decision.
Deliver(r) == /\ outcome[r] = "nothing"
              /\ phase[r] = "resolved"
              /\ outcome' = [outcome EXCEPT ![r] = decider[r]]
              /\ UNCHANGED <<phase, decider>>

\* The agent is told that nobody decided; a recorded decision forbids it.
Refuse(r) == /\ outcome[r] = "nothing"
             /\ phase[r] \in {"pending", "expired"}
             /\ outcome' = [outcome EXCEPT ![r] = "cancel"]
             /\ UNCHANGED <<phase, decider>>

Next == \/ \E r \in Requests : Open(r) \/ Deliver(r) \/ Refuse(r)
        \/ \E r \in Requests, d \in Deciders : Decide(r, d)
        \/ \E S \in SUBSET Requests : Close(S)

Spec == Init /\ [][Next]_vars
=============================================================================
