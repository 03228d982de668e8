---------------------------- MODULE ActionBroker ----------------------------
(* The action broker of the bridge: a request of an agent (a command to     *)
(* approve, a question to answer) becomes a row that the devices see and a  *)
(* resolver, kept in memory, that the agent's handler waits on. A decision  *)
(* of a device, the expiry timer, the end of the app-server session, the    *)
(* hook's disconnect and the shutdown race for that resolver.               *)
(*                                                                          *)
(* Sources: action_broker.rs, its callers codex_approval.rs,                *)
(* codex_app_server.rs, local_socket.rs and action_dispatch.rs, and the     *)
(* store's actions.rs. Every call of the store is a step of its own, as the *)
(* store is an actor that the tasks of the bridge await; the steps between  *)
(* two awaits of one task are one action.                                   *)
(*                                                                          *)
(* Left out: titles, details, contexts and the values of the decisions, the *)
(* push notifications and the audit rows of the trust policy, and the       *)
(* session's "waiting" label that the handlers set and clear for display.   *)
EXTENDS Naturals, FiniteSets

CONSTANTS
    Hooks,       \* requests that come from a hook process over the socket
    Asks,        \* requests that come from the app-server of a Codex turn
    Safe,        \* those the project's trust policy allows by itself
    Keys,        \* "device:idempotencyKey" of the decisions of the devices
    Target,      \* the request each of them is about
    Acceptable,  \* those with a known decision and the right phrase
    Conns,       \* the connections of the devices
    MaxSends,    \* bound: how often a device sends the frame of one key
    MaxRestarts  \* bound: how often the bridge restarts

Requests == Hooks \cup Asks
Deciders == Keys \cup {"policy"}

ASSUME HooksAreNotAsks == Hooks \cap Asks = {}
ASSUME SafeAreRequests == Safe \subseteq Requests
ASSUME TargetsAreRequests == Target \in [Keys -> Requests]
ASSUME AcceptableAreKeys == Acceptable \subseteq Keys
ASSUME KeysAreNotWords ==
    Keys \cap {"nothing", "cancel", "policy"} = {}
ASSUME BoundsAreNumbers == MaxSends \in Nat /\ MaxRestarts \in Nat

VARIABLES
    \* the store, which survives a restart
    row,        \* state of each action: absent, pending, resolved, expired
    results,    \* idempotency: the stored result of each key
    \* the memory of the bridge
    resolvers,  \* actions whose resolver is still in the broker's map
    timer,      \* the expiry task of each action
    sent,       \* what the resolver's one-shot channel was given
    up,         \* where the handler of each request is
    tracked,    \* server_actions: asks the session's end must expire
    leaving,    \* actions for which expire was called, not yet run
    expiring,   \* actions whose expire waits for the store
    session,    \* the app-server session: open, closing, closed
    stopping,   \* cancel_all ran, the process is about to exit
    pc, key,    \* each connection: where its decide is, and for which key
    \* the world
    overdue,    \* actions whose expires_at has passed
    sends,      \* frames sent so far for each key
    restarts,
    \* history
    winner,     \* who moved the row to resolved
    answer,     \* what the agent was told
    replied     \* the answers each key's frames got

store == <<row, results, winner>>
broker == <<resolvers, timer, sent>>
upstream == <<up, tracked, leaving, expiring, session, answer>>
devices == <<pc, key, sends, replied>>
world == <<overdue, restarts, stopping>>
vars == <<row, results, resolvers, timer, sent, up, tracked, leaving,
          expiring, session, stopping, pc, key, overdue, sends, restarts,
          winner, answer, replied>>

-----------------------------------------------------------------------------
(* The store's tables, and the resolver.                                    *)

\* (Mutant: the UPDATE without its condition on the state.)
ExpireAnyRow(r) == row' = [row EXCEPT ![r] = "expired"]

\* UPDATE ... SET state = 'expired' ... WHERE state IN ('pending', ...)
ExpireRow(r) == row' = [row EXCEPT ![r] =
                           IF row[r] = "pending" THEN "expired" ELSE row[r]]

\* INSERT OR IGNORE: the first result stored under a key stays.
StoreResult(k, result) ==
    results' = [results EXCEPT ![k] =
                   IF results[k] = "none" THEN result ELSE results[k]]

\* The handler still listens to the receiving end of its channel.
Listening(r) == up[r] \in {"stored", "ticket", "waiting"}

\* A value sent to a handler that is gone is dropped, and nobody is told.
Send(r, value) == sent' = [sent EXCEPT ![r] =
                              IF Listening(r) THEN value ELSE sent[r]]

\* abort() stops a timer that sleeps; it may be late for one that has woken.
Abort(r) == \E late \in BOOLEAN :
    /\ late => r \in overdue
    /\ timer' = [timer EXCEPT ![r] =
                    IF timer[r] = "armed" /\ ~late THEN "off" ELSE timer[r]]

\* Removing the resolver, aborting its timer and answering "no_decision".
TakeAndDecline(r) ==
    IF r \in resolvers
    THEN /\ resolvers' = resolvers \ {r}
         /\ Abort(r)
         /\ Send(r, "cancel")
    ELSE UNCHANGED broker

-----------------------------------------------------------------------------
Init == /\ row = [r \in Requests |-> "absent"]
        /\ results = [k \in Keys |-> "none"]
        /\ resolvers = {}
        /\ timer = [r \in Requests |-> "off"]
        /\ sent = [r \in Requests |-> "nothing"]
        /\ up = [r \in Requests |-> "idle"]
        /\ tracked = {} /\ leaving = {} /\ expiring = {}
        /\ session = "open"
        /\ stopping = FALSE
        /\ pc = [c \in Conns |-> "idle"]
        /\ key = [c \in Conns |-> "nothing"]
        /\ overdue = {}
        /\ sends = [k \in Keys |-> 0]
        /\ restarts = 0
        /\ winner = [r \in Requests |-> "nothing"]
        /\ answer = [r \in Requests |-> "nothing"]
        /\ replied = [k \in Keys |-> {}]

-----------------------------------------------------------------------------
(* The handler of a request: ActionBroker::create and what its callers do.  *)

MayArrive(r) == /\ up[r] = "idle"
                /\ ~stopping
                /\ r \in Asks => session = "open"

\* (Mutant: the timer runs only for callers that pass a timeout, the hooks.)
CreateUntimed(r) ==
    /\ MayArrive(r) /\ r \notin Safe
    /\ row' = [row EXCEPT ![r] = "pending"]
    /\ timer' = timer
    /\ up' = [up EXCEPT ![r] = "stored"]
    /\ UNCHANGED <<results, winner, resolvers, sent, tracked, leaving, expiring,
                   session, answer, devices, world>>

\* create, no policy applies: upsert the pending row and start the timer.
CreatePending(r) ==
    /\ MayArrive(r) /\ r \notin Safe
    /\ row' = [row EXCEPT ![r] = "pending"]
    /\ timer' = [timer EXCEPT ![r] = "armed"]
    /\ up' = [up EXCEPT ![r] = "stored"]
    /\ UNCHANGED <<results, winner, resolvers, sent, tracked, leaving, expiring,
                   session, answer, devices, world>>

\* create, a policy applies: automatic_resolution upserts the row as pending...
PolicyPending(r) ==
    /\ MayArrive(r) /\ r \in Safe
    /\ row' = [row EXCEPT ![r] = "pending"]
    /\ up' = [up EXCEPT ![r] = "policy"]
    /\ UNCHANGED <<results, winner, broker, tracked, leaving, expiring, session,
                   answer, devices, world>>

\* ...then as resolved, whatever it is by then, and returns the decision
\* through a channel of its own.
PolicyResolve(r) ==
    /\ up[r] = "policy"
    /\ row' = [row EXCEPT ![r] = "resolved"]
    /\ winner' = [winner EXCEPT ![r] = "policy"]
    /\ sent' = [sent EXCEPT ![r] = "policy"]
    /\ up' = [up EXCEPT ![r] = "ticket"]
    /\ UNCHANGED <<results, resolvers, timer, tracked, leaving, expiring, session,
                   answer, devices, world>>

\* create returns the ticket once the resolver is in the map.
Register(r) ==
    /\ up[r] = "stored"
    /\ resolvers' = resolvers \cup {r}
    /\ up' = [up EXCEPT ![r] = "ticket"]
    /\ UNCHANGED <<store, timer, sent, tracked, leaving, expiring, session, answer,
                   devices, world>>

\* (Mutant: hooks are entered in server_actions too.)
WaitTracksAll(r) ==
    /\ up[r] = "ticket"
    /\ tracked' = tracked \cup {r}
    /\ up' = [up EXCEPT ![r] = "waiting"]
    /\ UNCHANGED <<store, broker, leaving, expiring, session, answer, devices,
                   world>>

\* An ask is entered in server_actions before its handler waits; the hook's
\* handler waits at once, on the ticket and on the hook's connection.
Wait(r) ==
    /\ up[r] = "ticket"
    /\ tracked' = IF r \in Asks THEN tracked \cup {r} ELSE tracked
    /\ up' = [up EXCEPT ![r] = "waiting"]
    /\ UNCHANGED <<store, broker, leaving, expiring, session, answer, devices,
                   world>>

\* set_waiting or the event fails in the store: the handler returns an error
\* to the app-server and drops its ticket, the action stays as it is.
HandlerFails(r) ==
    /\ up[r] = "ticket" /\ r \in Asks
    /\ tracked' = tracked \cup {r}
    /\ up' = [up EXCEPT ![r] = "gone"]
    /\ UNCHANGED <<store, broker, leaving, expiring, session, answer, devices,
                   world>>

\* ticket.result() is ready: the agent gets the decision, or the refusal.
Answer(r) ==
    /\ up[r] = "waiting"
    /\ sent[r] # "nothing"
    /\ answer' = [answer EXCEPT ![r] = sent[r]]
    /\ up' = [up EXCEPT ![r] = "answered"]
    /\ tracked' = tracked \ {r}
    /\ UNCHANGED <<store, broker, leaving, expiring, session, devices, world>>

-----------------------------------------------------------------------------
(* Those that call ActionBroker::expire.                                    *)

\* serverRequest/resolved: the app-server no longer needs the answer.
UpstreamResolved(r) ==
    /\ session = "open" /\ r \in tracked
    /\ (leaving \cup expiring) \cap Asks = {}
    /\ tracked' = tracked \ {r}
    /\ leaving' = leaving \cup {r}
    /\ UNCHANGED <<store, broker, up, expiring, session, answer, devices, world>>

\* The hook process hangs up: select! drops the ticket, then expires it.
HookDisconnects(r) ==
    /\ up[r] = "waiting" /\ r \in Hooks
    /\ up' = [up EXCEPT ![r] = "gone"]
    /\ leaving' = leaving \cup {r}
    /\ UNCHANGED <<store, broker, tracked, expiring, session, answer, devices,
                   world>>

\* close: the turn ended, failed or was stopped. It expires what is tracked...
CloseBegin ==
    /\ session = "open"
    /\ (leaving \cup expiring) \cap Asks = {}
    /\ session' = "closing"
    /\ leaving' = leaving \cup tracked
    /\ tracked' = {}
    /\ UNCHANGED <<store, broker, up, expiring, answer, devices, world>>

\* ...and then aborts the handlers that still run.
CloseEnd ==
    /\ session = "closing"
    /\ (leaving \cup expiring) \cap Asks = {}
    /\ session' = "closed"
    /\ up' = [r \in Requests |->
                 IF r \in Asks /\ up[r] \notin {"idle", "answered"}
                 THEN "gone" ELSE up[r]]
    /\ tracked' = {}
    /\ UNCHANGED <<store, broker, leaving, expiring, answer, devices, world>>

\* The next turn starts an app-server of its own.
OpenSession ==
    /\ session = "closed" /\ ~stopping
    /\ session' = "open"
    /\ UNCHANGED <<store, broker, up, tracked, leaving, expiring, answer, devices,
                   world>>

\* expire: remove the resolver if it is still there, abort, answer None...
Expire(r) ==
    /\ r \in leaving
    /\ leaving' = leaving \ {r}
    /\ expiring' = expiring \cup {r}
    /\ TakeAndDecline(r)
    /\ UNCHANGED <<store, up, tracked, session, answer, devices, world>>

\* ...and expire the row.
ExpireInStore(r) ==
    /\ r \in expiring
    /\ expiring' = expiring \ {r}
    /\ ExpireRow(r)
    /\ UNCHANGED <<results, winner, broker, up, tracked, leaving, session, answer,
                   devices, world>>

\* cancel_all at shutdown, after the turns have been closed.
CancelAll ==
    /\ ~stopping
    /\ session = "closed"
    /\ stopping' = TRUE
    /\ sent' = [r \in Requests |->
                   IF r \in resolvers /\ Listening(r) THEN "cancel" ELSE sent[r]]
    /\ \E late \in SUBSET overdue :
          timer' = [r \in Requests |->
                       IF r \in resolvers \ late THEN "off" ELSE timer[r]]
    /\ expiring' = expiring \cup resolvers
    /\ resolvers' = {}
    /\ UNCHANGED <<store, up, tracked, leaving, session, answer, devices, overdue,
                   restarts>>

-----------------------------------------------------------------------------
(* The timer, expire_from_timer, and time.                                  *)

\* expires_at passes. The timeout (1 ms at least, 8 minutes for most) is
\* taken to outlast the moment between the row and the resolver's insertion.
TimePasses(r) ==
    /\ row[r] # "absent"
    /\ r \notin overdue
    /\ up[r] \notin {"stored", "policy"}
    /\ overdue' = overdue \cup {r}
    /\ UNCHANGED <<store, broker, upstream, devices, restarts, stopping>>

TimerFires(r) ==
    /\ timer[r] = "armed" /\ r \in overdue
    /\ timer' = [timer EXCEPT ![r] = "expiring"]
    /\ IF r \in resolvers
       THEN resolvers' = resolvers \ {r} /\ Send(r, "cancel")
       ELSE UNCHANGED <<resolvers, sent>>
    /\ UNCHANGED <<store, upstream, devices, world>>

TimerExpiresRow(r) ==
    /\ timer[r] = "expiring"
    /\ timer' = [timer EXCEPT ![r] = "off"]
    /\ ExpireRow(r)
    /\ UNCHANGED <<results, winner, resolvers, sent, upstream, devices, world>>

-----------------------------------------------------------------------------
(* ActionBroker::decide, run by the connection that received the frame.     *)

Go(c, label) == pc' = [pc EXCEPT ![c] = label]
Idle(c) == /\ Go(c, "idle")
           /\ key' = [key EXCEPT ![c] = "nothing"]
Reply(c, result) == /\ replied' = [replied EXCEPT ![key[c]] = @ \cup {result}]
                    /\ Idle(c)

\* A device that has seen the action sends its decision, again after a
\* reconnect as long as it has no answer, over whichever connection it has.
Receive(c, k) ==
    /\ pc[c] = "idle"
    /\ row[Target[k]] # "absent"
    /\ sends[k] < MaxSends
    /\ sends' = [sends EXCEPT ![k] = @ + 1]
    /\ key' = [key EXCEPT ![c] = k]
    /\ Go(c, "prior")
    /\ UNCHANGED <<store, broker, upstream, replied, world>>

\* get_action_result: an earlier result of the key is the answer.
Prior(c) ==
    /\ pc[c] = "prior"
    /\ IF results[key[c]] # "none"
       THEN Reply(c, results[key[c]])
       ELSE Go(c, "check") /\ UNCHANGED <<key, replied>>
    /\ UNCHANGED <<store, broker, upstream, sends, world>>

\* get_action and the checks on what it returned.
Check(c) ==
    LET r == Target[key[c]] IN
    /\ pc[c] = "check"
    /\ Go(c, IF row[r] # "pending" THEN "refuse"
             ELSE IF r \in overdue THEN "expire"
             ELSE IF key[c] \notin Acceptable THEN "refuse"
             ELSE "take")
    /\ UNCHANGED <<store, broker, upstream, key, sends, replied, world>>

\* The deadline has passed: expire the action first...
DecideExpires(c) ==
    /\ pc[c] = "expire"
    /\ TakeAndDecline(Target[key[c]])
    /\ Go(c, "expire_row")
    /\ UNCHANGED <<store, upstream, key, sends, replied, world>>

\* ...in the store too, then refuse.
DecideExpiresRow(c) ==
    /\ pc[c] = "expire_row"
    /\ ExpireRow(Target[key[c]])
    /\ Go(c, "refuse")
    /\ UNCHANGED <<results, winner, broker, upstream, key, sends, replied, world>>

\* (Mutant: the resolver is looked up in the map, not removed.)
TakePeeks(c) ==
    /\ pc[c] = "take"
    /\ Go(c, IF Target[key[c]] \in resolvers THEN "resolve" ELSE "refuse")
    /\ UNCHANGED <<store, resolvers, timer, sent, upstream, key, sends, replied,
                   world>>

\* (Mutant: the decision is sent before the store has recorded it.)
TakeSends(c) ==
    LET r == Target[key[c]] IN
    /\ pc[c] = "take"
    /\ IF r \in resolvers
       THEN /\ resolvers' = resolvers \ {r}
            /\ Abort(r)
            /\ Send(r, key[c])
            /\ Go(c, "resolve")
       ELSE /\ UNCHANGED <<resolvers, timer, sent>>
            /\ Go(c, "refuse")
    /\ UNCHANGED <<store, upstream, key, sends, replied, world>>

\* Whoever removes the resolver owns the answer; the others are refused.
Take(c) ==
    LET r == Target[key[c]] IN
    /\ pc[c] = "take"
    /\ IF r \in resolvers
       THEN /\ resolvers' = resolvers \ {r}
            /\ Abort(r)
            /\ Go(c, "resolve")
       ELSE /\ UNCHANGED <<resolvers, timer>>
            /\ Go(c, "refuse")
    /\ UNCHANGED <<store, sent, upstream, key, sends, replied, world>>

\* (Mutant: the UPDATE without its condition on the state.)
ResolveAnyRow(c) ==
    LET r == Target[key[c]] IN
    /\ pc[c] = "resolve"
    /\ row' = [row EXCEPT ![r] = "resolved"]
    /\ winner' = [winner EXCEPT ![r] = key[c]]
    /\ StoreResult(key[c], "accepted")
    /\ Go(c, "send")
    /\ UNCHANGED <<broker, upstream, key, sends, replied, world>>

\* resolve_action: one transaction moves the row and stores the result. The
\* UPDATE touches a pending row only.
Resolve(c) ==
    LET r == Target[key[c]] IN
    /\ pc[c] = "resolve"
    /\ row[r] = "pending"
    /\ row' = [row EXCEPT ![r] = "resolved"]
    /\ winner' = [winner EXCEPT ![r] = key[c]]
    /\ StoreResult(key[c], "accepted")
    /\ Go(c, "send")
    /\ UNCHANGED <<broker, upstream, key, sends, replied, world>>

\* (Mutant: Ok(_) in the place of Ok(Some(_)).)
ResolveTooLateAccepts(c) ==
    LET r == Target[key[c]] IN
    /\ pc[c] = "resolve"
    /\ row[r] # "pending"
    /\ Send(r, key[c])
    /\ Reply(c, "accepted")
    /\ UNCHANGED <<store, resolvers, timer, upstream, sends, world>>

\* The row was expired meanwhile: answer None, then refuse.
ResolveTooLate(c) ==
    LET r == Target[key[c]] IN
    /\ pc[c] = "resolve"
    /\ row[r] # "pending"
    /\ Send(r, "cancel")
    /\ Go(c, "refuse")
    /\ UNCHANGED <<store, resolvers, timer, upstream, key, sends, replied, world>>

\* The transaction fails and is rolled back: answer None, expire, no reply.
ResolveFails(c) ==
    /\ pc[c] = "resolve"
    /\ Send(Target[key[c]], "cancel")
    /\ Go(c, "error")
    /\ UNCHANGED <<store, resolvers, timer, upstream, key, sends, replied, world>>

ErrorExpiresRow(c) ==
    /\ pc[c] = "error"
    /\ ExpireRow(Target[key[c]])
    /\ Idle(c)
    /\ UNCHANGED <<results, winner, broker, upstream, sends, replied, world>>

\* The decision goes to the handler, if it still listens; the device is told
\* it was accepted either way.
Deliver(c) ==
    /\ pc[c] = "send"
    /\ Send(Target[key[c]], key[c])
    /\ Reply(c, "accepted")
    /\ UNCHANGED <<store, resolvers, timer, upstream, sends, world>>

\* save_failure: the answer is what the table holds, this failure or before.
SaveFailure(c) ==
    /\ pc[c] = "refuse"
    /\ StoreResult(key[c], "rejected")
    /\ Reply(c, results'[key[c]])
    /\ UNCHANGED <<row, winner, broker, upstream, sends, world>>

-----------------------------------------------------------------------------
\* (Mutant: recovery leaves the rows of the earlier process open.)
RestartKeepsRows ==
    /\ restarts < MaxRestarts
    /\ restarts' = restarts + 1
    /\ resolvers' = {} /\ tracked' = {} /\ leaving' = {} /\ expiring' = {}
    /\ timer' = [r \in Requests |-> "off"]
    /\ up' = [r \in Requests |->
                 IF up[r] \in {"idle", "answered"} THEN up[r] ELSE "gone"]
    /\ session' = "open"
    /\ stopping' = FALSE
    /\ pc' = [c \in Conns |-> "idle"]
    /\ key' = [c \in Conns |-> "nothing"]
    /\ UNCHANGED <<row, results, winner, sent, answer, sends, replied, overdue>>

\* The process ends, by a crash or after cancel_all, and starts again: the
\* memory is gone, open rows are expired before anything else runs, and the
\* handlers of the earlier process ended with it.
Restart ==
    /\ restarts < MaxRestarts
    /\ restarts' = restarts + 1
    /\ row' = [r \in Requests |->
                  IF row[r] = "pending" THEN "expired" ELSE row[r]]
    /\ resolvers' = {} /\ tracked' = {} /\ leaving' = {} /\ expiring' = {}
    /\ timer' = [r \in Requests |-> "off"]
    /\ up' = [r \in Requests |->
                 IF up[r] \in {"idle", "answered"} THEN up[r] ELSE "gone"]
    /\ session' = "open"
    /\ stopping' = FALSE
    /\ pc' = [c \in Conns |-> "idle"]
    /\ key' = [c \in Conns |-> "nothing"]
    /\ UNCHANGED <<results, winner, sent, answer, sends, replied, overdue>>

Handler(r) == \/ CreatePending(r) \/ PolicyPending(r) \/ PolicyResolve(r)
              \/ Register(r) \/ Wait(r) \/ HandlerFails(r) \/ Answer(r)

Expiry(r) == \/ UpstreamResolved(r) \/ HookDisconnects(r)
             \/ Expire(r) \/ ExpireInStore(r)
             \/ TimePasses(r) \/ TimerFires(r) \/ TimerExpiresRow(r)

Decide(c) == \/ Prior(c) \/ Check(c) \/ DecideExpires(c) \/ DecideExpiresRow(c)
             \/ Take(c) \/ Resolve(c) \/ ResolveTooLate(c) \/ ResolveFails(c)
             \/ ErrorExpiresRow(c) \/ Deliver(c) \/ SaveFailure(c)

Next == \/ \E r \in Requests : Handler(r) \/ Expiry(r)
        \/ \E c \in Conns : Decide(c)
        \/ \E c \in Conns, k \in Keys : Receive(c, k)
        \/ CloseBegin \/ CloseEnd \/ OpenSession \/ CancelAll \/ Restart

Spec == Init /\ [][Next]_vars

\* Tasks that are ready run, and the clock moves; nobody owes a decision, a
\* disconnect, a close or a restart.
Fairness ==
    /\ \A r \in Requests :
          /\ WF_vars(Register(r)) /\ WF_vars(Wait(r)) /\ WF_vars(Answer(r))
          /\ WF_vars(PolicyResolve(r))
          /\ WF_vars(Expire(r)) /\ WF_vars(ExpireInStore(r))
          /\ WF_vars(TimePasses(r))
          /\ WF_vars(TimerFires(r)) /\ WF_vars(TimerExpiresRow(r))
    /\ \A c \in Conns : WF_vars(Decide(c))
    /\ WF_vars(CloseEnd)

FairSpec == Spec /\ Fairness

-----------------------------------------------------------------------------
(* Safety.                                                                  *)

RowStates == {"absent", "pending", "resolved", "expired"}
Stages == {"idle", "policy", "stored", "ticket", "waiting", "answered", "gone"}
Labels == {"idle", "prior", "check", "expire", "expire_row", "take",
           "resolve", "send", "error", "refuse"}

\* The shape of the broker's state: only asks are tracked for the end of their
\* session, a connection has a key while it decides.
TypeOK ==
    /\ row \in [Requests -> RowStates]
    /\ results \in [Keys -> {"none", "accepted", "rejected"}]
    /\ resolvers \subseteq Requests
    /\ timer \in [Requests -> {"off", "armed", "expiring"}]
    /\ sent \in [Requests -> Deciders \cup {"nothing", "cancel"}]
    /\ up \in [Requests -> Stages]
    /\ tracked \subseteq Asks
    /\ leaving \subseteq Requests /\ expiring \subseteq Requests
    /\ session \in {"open", "closing", "closed"}
    /\ stopping \in BOOLEAN
    /\ pc \in [Conns -> Labels]
    /\ key \in [Conns -> Keys \cup {"nothing"}]
    /\ \A c \in Conns : pc[c] = "idle" <=> key[c] = "nothing"
    /\ overdue \subseteq Requests
    /\ sends \in [Keys -> 0..MaxSends]
    /\ restarts \in 0..MaxRestarts
    /\ winner \in [Requests -> Deciders \cup {"nothing"}]
    /\ answer \in [Requests -> Deciders \cup {"nothing", "cancel"}]
    /\ replied \in [Keys -> SUBSET {"accepted", "rejected"}]

\* Each action resolves to its own upstream request only, and to one decision:
\* what an agent is told is the acceptable decision of the one key that moved
\* its row, whatever the order of the decisions, expiries and restarts.
OwnDecisionOnly ==
    \A r \in Requests :
        answer[r] \notin {"nothing", "cancel"} =>
            /\ row[r] = "resolved" /\ winner[r] = answer[r]
            /\ \/ answer[r] = "policy" /\ r \in Safe
               \/ answer[r] \in Acceptable /\ Target[answer[r]] = r

\* An agent that was refused stays refused: its action is never recorded as
\* decided, and a device is never told that a decision on it was accepted.
RefusedStaysRefused ==
    \A r \in Requests :
        answer[r] = "cancel" =>
            /\ row[r] # "resolved"
            /\ \A k \in Keys : Target[k] = r => "accepted" \notin replied[k]

\* Of all the keys that decide one action, from whatever devices and in
\* whatever order, a device hears "accepted" for the winner only.
OneAcceptedKey ==
    \A k \in Keys : "accepted" \in replied[k] => winner[Target[k]] = k

\* An agent that waits is never left alone: its resolver is in the map under a
\* running timer, or the one who removed it is about to answer, or it has.
WaiterIsWatched ==
    \A r \in Requests :
        up[r] = "waiting" /\ sent[r] = "nothing" =>
            \/ r \in resolvers /\ timer[r] = "armed"
            \/ \E c \in Conns : pc[c] \in {"resolve", "send"} /\ Target[key[c]] = r

\* A row that is settled stays as it is: a late decision does not revive an
\* expired action, a late expiry does not undo a decision.
SettledIsFinal ==
    [][\A r \in Requests : row[r] \in {"resolved", "expired"} => row'[r] = row[r]]_vars

\* A prompt on a device is never an orphan: an open row has a resolver and a
\* timer, or a handler about to register it, or somebody about to settle it. So
\* no row that an earlier process showed is still open after a restart. (The
\* exception is a row of the policy whose handler is aborted half-way.)
OpenIsOwned ==
    \A r \in Requests \ Safe :
        row[r] = "pending" =>
            \/ timer[r] \in {"armed", "expiring"}
            \/ r \in expiring
            \/ \E c \in Conns : /\ pc[c] \in {"resolve", "error", "expire_row"}
                               /\ Target[key[c]] = r

\* Together: an agent acts on the decision of the key that won its own row and
\* of no other, a refused agent's row says so, nobody but the winner is told
\* "accepted", and neither an agent nor an open row is left without somebody
\* who will settle it.
BrokerIsSafe ==
    /\ TypeOK /\ OwnDecisionOnly /\ RefusedStaysRefused /\ OneAcceptedKey
    /\ WaiterIsWatched /\ OpenIsOwned

\* What the broker promises its agents, see ApprovalOutcome.
Promise == INSTANCE ApprovalOutcome
    WITH phase <- row, decider <- winner, outcome <- answer
PromiseSpec == Promise!Spec

-----------------------------------------------------------------------------
(* Liveness.                                                                *)

\* Every agent that waits hears something, or is gone: no lost wake-up.
WaitersHear == \A r \in Requests : up[r] = "waiting" ~> up[r] # "waiting"

-----------------------------------------------------------------------------
(* What the tests and the messages of the code say, and the code does not.  *)

\* "Decision submitted to the original request": a key that is told so had its
\* decision handed to the handler of the request.
AcceptedIsDelivered ==
    \A k \in Keys : "accepted" \in replied[k] => sent[Target[k]] = k

\* A replay of a key is answered as the key was answered.
ReplayIsSame == \A k \in Keys : replied[k] # {"accepted", "rejected"}
=============================================================================
