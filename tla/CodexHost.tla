------------------------------ MODULE CodexHost ------------------------------
(***************************************************************************)
(* The reference runtime's host of agents: the queue of task commands      *)
(* (task-command-service.ts), the turns it runs in a Codex app-server or a *)
(* Claude process (resume-service.ts, codex-app-server.ts), the requests   *)
(* an app-server makes of the user during a turn, and the broker that puts *)
(* them before the devices and reminds them (action-broker.ts,             *)
(* runtime.ts).                                                            *)
(*                                                                         *)
(* One process, one thread: what a callback does up to its next await is   *)
(* one step.  A rejection nobody handles ends the process, and the service *)
(* starts again; what it knew only in memory is gone.                      *)
(***************************************************************************)
EXTENDS Naturals, FiniteSets

CONSTANTS
  Creates,     \* task.create commands
  FollowUps,   \* task.follow_up and session.message commands
  Found,       \* sessions known at the start
  Fresh,       \* sessions that new threads may get
  Claude,      \* the sessions of Claude; the others are Codex threads
  Nowhere,     \* no session
  Asks,        \* requests app-servers make, by the action made for them
  Safe,        \* those the project's trust policy allows
  Nobody,      \* no command, no key
  Keys,        \* idempotency keys of decisions
  Target,      \* the action each is about
  MaxRestarts  \* bound: ends of the process

Commands == Creates \union FollowUps
Sessions == Found \union Fresh

ASSUME CommandsDiffer == Creates \intersect FollowUps = {} /\ Nobody \notin Commands
ASSUME SessionsDiffer == Found \intersect Fresh = {} /\ Nowhere \notin Sessions
ASSUME ClaudeIsOfSessions == Claude \subseteq Sessions
ASSUME SafeAreAsks == Safe \subseteq Asks
ASSUME KeysAreTargeted ==
  Target \in [Keys -> Asks] /\ {Nobody, "policy", "cancel", "nothing"} \intersect Keys = {}
ASSUME MaxRestartsIsNatural == MaxRestarts \in Nat

VARIABLES
  up,        \* the process runs
  command,   \* state of each command's row: none, queued, running, ...
  at,        \* the session of each command's row
  stage,     \* where the dispatch of each command is
  lease,     \* sessions a follow-up's turn holds
  session,   \* each session's row: its process, and whether it looks busy
  row,       \* state of each action's row: none, pending, resolved, expired
  by,        \* the command whose app-server asked
  resolver,  \* actions with a resolver in memory
  reminder,  \* actions with a reminder timer
  results,   \* the stored result of each decision's key: none, ok, no
  winner,    \* history: who decided an action
  answer,    \* history: what was written to the app-server
  restarts   \* ends of the process

commandVars == <<command, at, stage, lease>>
askVars == <<row, by, resolver, reminder, winner, answer>>
vars == <<up, command, at, stage, lease, session, row, by, resolver, reminder,
          results, winner, answer, restarts>>

\* The stages of a dispatch: waiting for materials; the process starting,
\* up to the thread; the turn requested, and perhaps completed before the
\* request is answered; the turn running; the app-server closing after a
\* completed turn, a failed one, or an exception.
Stages == {"off", "materials", "starting", "begun", "early", "turn",
           "done", "failed", "broken"}

Absent == [known |-> FALSE, pid |-> "none", busy |-> FALSE]

TypeOK ==
  /\ up \in BOOLEAN
  /\ command \in [Commands -> {"none", "queued", "running", "completed",
                               "failed", "canceled"}]
  /\ at \in [Commands -> Sessions \union {Nowhere}]
  /\ stage \in [Commands -> Stages]
  /\ lease \subseteq Sessions
  /\ session \in [Sessions -> [known : BOOLEAN, busy : BOOLEAN,
                               pid : {"none", "terminal", "agent"}]]
  /\ row \in [Asks -> {"none", "pending", "resolved", "expired"}]
  /\ by \in [Asks -> Commands \union {Nobody}]
  /\ resolver \subseteq Asks /\ reminder \subseteq Asks
  /\ results \in [Keys -> {"none", "ok", "no"}]
  /\ winner \in [Asks -> Keys \union {Nobody, "policy"}]
  /\ answer \in [Asks -> Keys \union {"nothing", "policy", "cancel"}]
  /\ restarts \in 0..MaxRestarts

Init ==
  /\ up = TRUE
  /\ command = [c \in Commands |-> "none"]
  /\ at = [c \in Commands |-> Nowhere]
  /\ stage = [c \in Commands |-> "off"]
  /\ lease = {}
  /\ session = [s \in Sessions |-> [Absent EXCEPT !.known = s \in Found]]
  /\ row = [q \in Asks |-> "none"]
  /\ by = [q \in Asks |-> Nobody]
  /\ resolver = {} /\ reminder = {}
  /\ results = [k \in Keys |-> "none"]
  /\ winner = [q \in Asks |-> Nobody]
  /\ answer = [q \in Asks |-> "nothing"]
  /\ restarts = 0

-----------------------------------------------------------------------------
(* The queue.                                                              *)

\* A follow-up waits for its session.
Held(c) ==
  c \in FollowUps /\ (session[at[c]].pid # "none" \/ session[at[c]].busy)

\* dispatchQueued: with the rows as they are now, every queued command that
\* is not held is taken, and its row says running at once.
DispatchQueued(now) ==
  LET taken == {c \in Commands : now[c] = "queued" /\ stage[c] = "off" /\ ~Held(c)'}
  IN  /\ command' = [c \in Commands |-> IF c \in taken THEN "running" ELSE now[c]]
      /\ stage' = [c \in Commands |-> IF c \in taken THEN "materials" ELSE stage[c]]

\* create and followUp: an invalid target makes the row failed.
Enqueue(c) ==
  /\ up /\ command[c] = "none"
  /\ IF c \in Creates THEN UNCHANGED at
     ELSE \E s \in Sessions : session[s].known /\ at' = [at EXCEPT ![c] = s]
  /\ UNCHANGED session
  /\ \E state \in {"queued", "failed"} :
       DispatchQueued([command EXCEPT ![c] = state])
  /\ UNCHANGED <<up, lease, results, restarts>>
  /\ UNCHANGED askVars

\* The timer, every two seconds.
Tick ==
  /\ up
  /\ UNCHANGED <<at, session>>
  /\ DispatchQueued(command)
  /\ command' # command
  /\ UNCHANGED <<up, lease, results, restarts>>
  /\ UNCHANGED askVars

\* retry, of a command whose target is valid still.
Retry(c) ==
  /\ up /\ command[c] = "failed"
  /\ UNCHANGED <<at, session>>
  /\ DispatchQueued([command EXCEPT ![c] = "queued"])
  /\ UNCHANGED <<up, lease, results, restarts>>
  /\ UNCHANGED askVars

\* (Mutant: a running command may be canceled too.)
CancelRunning(c) ==
  /\ up /\ command[c] \in {"queued", "running"}
  /\ command' = [command EXCEPT ![c] = "canceled"]
  /\ UNCHANGED <<up, at, stage, lease, session, results, restarts>>
  /\ UNCHANGED askVars

\* cancel: of a queued command only.
Cancel(c) ==
  /\ up /\ command[c] = "queued"
  /\ command' = [command EXCEPT ![c] = "canceled"]
  /\ UNCHANGED <<up, at, stage, lease, session, results, restarts>>
  /\ UNCHANGED askVars

-----------------------------------------------------------------------------
(* The ends of a dispatch.                                                 *)

\* beginSession, and a session a new thread gets.
Begin(s, pid) == session' = [session EXCEPT ![s] = [known |-> TRUE, pid |-> pid, busy |-> TRUE]]

\* finishSession: idle or failed, and whoever's process it showed.
Finish(s) == session' = [session EXCEPT ![s].pid = "none", ![s].busy = FALSE]

\* The command's last row, and its lease.
Ends(c, result) ==
  /\ command' = [command EXCEPT ![c] = result]
  /\ stage' = [stage EXCEPT ![c] = "off"]
  /\ lease' = IF c \in FollowUps THEN lease \ {at[c]} ELSE lease
  /\ UNCHANGED at

\* The process is gone and with it all it knew; its children end with it.
Down ==
  /\ up' = FALSE
  /\ stage' = [c \in Commands |-> "off"]
  /\ lease' = {}
  /\ resolver' = {} /\ reminder' = {}
  /\ restarts' = restarts + 1

OpenAsks(c) == {q \in resolver : by[q] = c}

\* broker.expire: the row is closed, and the waiting handler goes on to
\* write "cancel".
Expired(S) == row' = [q \in Asks |-> IF q \in S THEN "expired" ELSE row[q]]

\* upsertAction, and what the handler that waits writes to the app-server.
Saves(q, state) == row' = [row EXCEPT ![q] = state]
Writes(q, what) == answer' = [answer EXCEPT ![q] = what]

\* The app-server is closed: what it still asks is expired, and the handlers
\* of that write to a server that is no more, which nobody handles.
Closes(c, next) ==
  IF OpenAsks(c) = {}
  THEN /\ stage' = [stage EXCEPT ![c] = next]
       /\ UNCHANGED <<up, command, at, lease, restarts>>
       /\ UNCHANGED askVars
  ELSE /\ restarts < MaxRestarts
       /\ Down
       /\ Expired(OpenAsks(c))
       /\ UNCHANGED <<command, at, by, winner, answer>>

-----------------------------------------------------------------------------
(* A dispatch.                                                             *)

\* waitForMaterials gives up: one failed, or 30 seconds are over.
MaterialsMissing(c) ==
  /\ stage[c] = "materials"
  /\ command' = [command EXCEPT ![c] = "failed"]
  /\ stage' = [stage EXCEPT ![c] = "off"]
  /\ UNCHANGED <<up, at, lease, session, results, restarts>>
  /\ UNCHANGED askVars

\* createTask: the process is started.
StartsNew(c) ==
  /\ c \in Creates /\ stage[c] = "materials"
  /\ stage' = [stage EXCEPT ![c] = "starting"]
  /\ UNCHANGED <<up, command, at, lease, session, results, restarts>>
  /\ UNCHANGED askVars

\* (Mutant: the session is not asked for its lease.)
MayResumeAnyway(s) == session[s].pid = "none"

\* sendMessage: the session is looked at again.
MayResume(s) == session[s].pid = "none" /\ s \notin lease

\* A Codex session is marked busy at once, a Claude one when its process is.
Resumes(c) ==
  /\ c \in FollowUps /\ stage[c] = "materials"
  /\ IF MayResume(at[c])
     THEN /\ lease' = lease \union {at[c]}
          /\ stage' = [stage EXCEPT ![c] = "starting"]
          /\ IF at[c] \in Claude THEN UNCHANGED session ELSE Begin(at[c], "none")
          /\ UNCHANGED command
     ELSE /\ command' = [command EXCEPT ![c] = "failed"]
          /\ stage' = [stage EXCEPT ![c] = "off"]
          /\ UNCHANGED <<lease, session>>
  /\ UNCHANGED <<up, at, results, restarts>>
  /\ UNCHANGED askVars

IsClaude(c) == at[c] \in Claude

\* runNewThread, up to the thread's answer; or the first line of Claude's
\* that names its session: the session appears, and the row names it.
ThreadStarted(c) ==
  /\ c \in Creates /\ stage[c] = "starting"
  /\ \E s \in Fresh :
       /\ ~session[s].known
       /\ Begin(s, IF s \in Claude THEN "agent" ELSE "none")
       /\ at' = [at EXCEPT ![c] = s]
       /\ stage' = [stage EXCEPT ![c] = IF s \in Claude THEN "turn" ELSE "begun"]
  /\ UNCHANGED <<up, command, lease, results, restarts>>
  /\ UNCHANGED askVars

\* runTurn: the thread is idle and resumed; or Claude's process is started.
ThreadResumed(c) ==
  /\ c \in FollowUps /\ stage[c] = "starting"
  /\ IF IsClaude(c)
     THEN Begin(at[c], "agent") /\ stage' = [stage EXCEPT ![c] = "turn"]
     ELSE UNCHANGED session /\ stage' = [stage EXCEPT ![c] = "begun"]
  /\ UNCHANGED <<up, command, at, lease, results, restarts>>
  /\ UNCHANGED askVars

\* No binary, no thread, an active thread, an error or a time-out, before
\* there is anything to ask about.
StartFails(c) ==
  /\ stage[c] = "starting"
  /\ IF c \in Creates \/ ~IsClaude(c)
     THEN stage' = [stage EXCEPT ![c] = "broken"]
          /\ UNCHANGED <<command, at, lease, session>>
     ELSE Ends(c, "failed") /\ Finish(at[c])
  /\ UNCHANGED <<up, results, restarts>>
  /\ UNCHANGED askVars

\* The turn is completed before its request is answered.
CompletesEarly(c) ==
  /\ stage[c] = "begun"
  /\ stage' = [stage EXCEPT ![c] = "early"]
  /\ session' = [session EXCEPT ![at[c]].busy = FALSE]
  /\ UNCHANGED <<up, command, at, lease, results, restarts>>
  /\ UNCHANGED askVars

\* turn/start is answered with the turn's id.
TurnStarts(c) ==
  /\ stage[c] = "begun"
  /\ stage' = [stage EXCEPT ![c] = "turn"]
  /\ UNCHANGED <<up, command, at, lease, session, results, restarts>>
  /\ UNCHANGED askVars

\* A request of an app-server fails or times out.
RequestFails(c) ==
  /\ stage[c] \in {"begun", "early"}
  /\ Closes(c, "broken")
  /\ UNCHANGED <<session, results>>

\* turn/completed, or both it and the answer: finishSession, then close.
TurnEnds(c) ==
  /\ stage[c] \in {"turn", "early"} /\ ~IsClaude(c)
  /\ Finish(at[c])
  /\ \E next \in {"done", "failed"} : Closes(c, next)
  /\ UNCHANGED results

\* Claude's process exits, with its code.
ClaudeExits(c) ==
  /\ stage[c] = "turn" /\ IsClaude(c)
  /\ Finish(at[c])
  /\ \E result \in {"completed", "failed"} : Ends(c, result)
  /\ UNCHANGED <<up, results, restarts>>
  /\ UNCHANGED askVars

\* handleExit: requests and the turn's waiter are rejected, so the dispatch
\* runs to its end; then, with a request of its own open, the process ends.
AppServerExits(c) ==
  /\ stage[c] \in {"begun", "early", "turn"} /\ ~IsClaude(c)
  /\ IF c \in FollowUps THEN Finish(at[c]) ELSE UNCHANGED session
  /\ IF OpenAsks(c) = {}
     THEN /\ Ends(c, "failed")
          /\ UNCHANGED <<up, restarts>>
          /\ UNCHANGED askVars
     ELSE /\ restarts < MaxRestarts
          /\ Down
          /\ command' = [command EXCEPT ![c] = "failed"]
          /\ Expired(OpenAsks(c))
          /\ UNCHANGED <<at, by, winner, answer>>
  /\ UNCHANGED results

\* The app-server has exited or was killed: the command's result.
Closed(c) ==
  /\ stage[c] \in {"done", "failed", "broken"}
  /\ Ends(c, IF stage[c] = "done" THEN "completed" ELSE "failed")
  /\ IF c \in FollowUps /\ stage[c] = "broken" THEN Finish(at[c]) ELSE UNCHANGED session
  /\ UNCHANGED <<up, results, restarts>>
  /\ UNCHANGED askVars

-----------------------------------------------------------------------------
(* What an app-server asks.                                                *)

\* The requests that may be made are those of a turn.
Asking(c) == stage[c] \in {"begun", "turn"} /\ ~IsClaude(c)

\* create: the policy answers a safe request at once, with the row written.
\* Any other is pending, with a resolver and a reminder, and the session
\* waits.
Ask(q, c) ==
  /\ row[q] = "none" /\ Asking(c)
  /\ by' = [by EXCEPT ![q] = c]
  /\ IF q \in Safe
     THEN /\ Saves(q, "resolved")
          /\ winner' = [winner EXCEPT ![q] = "policy"]
          /\ Writes(q, "policy")
          /\ UNCHANGED <<resolver, reminder>>
     ELSE /\ Saves(q, "pending")
          /\ resolver' = resolver \union {q}
          /\ reminder' \in {reminder, reminder \union {q}}
          /\ UNCHANGED <<winner, answer>>
  /\ session' = [session EXCEPT ![at[c]].busy = TRUE]
  /\ UNCHANGED <<up, results, restarts>>
  /\ UNCHANGED commandVars

\* (Mutant: a decision's resolver is left in the map.)
DecideLeavesResolver(k, fits) ==
  /\ up /\ results[k] = "none"
  /\ LET q == Target[k]
         ok == fits /\ q \in resolver
     IN  /\ row[q] # "none"
         /\ results' = [results EXCEPT ![k] = IF ok THEN "ok" ELSE "no"]
         /\ IF ok
            THEN /\ Saves(q, "resolved")
                 /\ winner' = [winner EXCEPT ![q] = k]
                 /\ Writes(q, k)
                 /\ reminder' = reminder \ {q}
                 /\ UNCHANGED resolver
            ELSE UNCHANGED <<row, winner, answer, resolver, reminder>>
  /\ UNCHANGED <<up, by, session, restarts>>
  /\ UNCHANGED commandVars

\* decide, of a key's first frame: of a known decision with its phrase, by a
\* device that may approve, for an action that waits; every answer is kept,
\* and a frame with the same key gets it again.
Decide(k, fits) ==
  /\ up /\ results[k] = "none"
  /\ LET q == Target[k]
         ok == fits /\ q \in resolver /\ row[q] = "pending"
     IN  /\ row[q] # "none"
         /\ results' = [results EXCEPT ![k] = IF ok THEN "ok" ELSE "no"]
         /\ IF ok
            THEN /\ Saves(q, "resolved")
                 /\ winner' = [winner EXCEPT ![q] = k]
                 /\ Writes(q, k)
                 /\ resolver' = resolver \ {q}
                 /\ reminder' = reminder \ {q}
            ELSE UNCHANGED <<row, winner, answer, resolver, reminder>>
  /\ UNCHANGED <<up, by, session, restarts>>
  /\ UNCHANGED commandVars

\* The action's time is over, or the app-server says that it was settled
\* elsewhere: the row is expired and "cancel" is written.
Expire(q) ==
  /\ q \in resolver
  /\ Expired({q})
  /\ resolver' = resolver \ {q}
  /\ reminder' = reminder \ {q}
  /\ Writes(q, "cancel")
  /\ UNCHANGED <<up, by, winner, session, results, restarts>>
  /\ UNCHANGED commandVars

\* The reminder's time has come: the devices hear of a row that waits still.
Remind(q) ==
  /\ q \in reminder
  /\ reminder' = reminder \ {q}
  /\ UNCHANGED <<up, row, by, resolver, winner, answer, session, results, restarts>>
  /\ UNCHANGED commandVars

-----------------------------------------------------------------------------
(* The world.                                                              *)

\* A terminal takes a session, or leaves it.
Terminal(s) ==
  /\ up /\ session[s].known
  /\ session' = [session EXCEPT ![s] =
       IF @.pid = "terminal" THEN [@ EXCEPT !.pid = "none", !.busy = FALSE]
       ELSE [@ EXCEPT !.pid = "terminal", !.busy = TRUE]]
  /\ UNCHANGED <<up, results, restarts>>
  /\ UNCHANGED commandVars
  /\ UNCHANGED askVars

\* A hook of the agent at work in the session reports its Stop or its end,
\* or that it waits.
HookReports(s) ==
  /\ up
  /\ \E c \in Commands : at[c] = s /\ stage[c] \in {"begun", "early", "turn"}
  /\ session' = [session EXCEPT ![s].busy = ~@]
  /\ UNCHANGED <<up, results, restarts>>
  /\ UNCHANGED commandVars
  /\ UNCHANGED askVars

\* The process is killed.
Crash ==
  /\ up /\ restarts < MaxRestarts
  /\ Down
  /\ UNCHANGED <<command, at, session, row, by, winner, answer, results>>

\* (Mutant: rows that wait are not expired.)
StartKeepsActions ==
  /\ ~up /\ up' = TRUE
  /\ command' = [c \in Commands |-> IF command[c] = "running" THEN "queued" ELSE command[c]]
  /\ UNCHANGED <<at, stage, lease, session, row, by, resolver, reminder, results,
                 winner, answer, restarts>>

\* The service starts: the store queues what ran, and expires what waited.
Start ==
  /\ ~up /\ up' = TRUE
  /\ command' = [c \in Commands |-> IF command[c] = "running" THEN "queued" ELSE command[c]]
  /\ Expired({q \in Asks : row[q] = "pending"})
  /\ UNCHANGED <<at, stage, lease, session, by, resolver, reminder, results,
                 winner, answer, restarts>>

-----------------------------------------------------------------------------

Dispatches(c) ==
  \/ MaterialsMissing(c) \/ StartsNew(c) \/ Resumes(c) \/ ThreadStarted(c)
  \/ ThreadResumed(c) \/ StartFails(c) \/ CompletesEarly(c) \/ TurnStarts(c)
  \/ RequestFails(c) \/ TurnEnds(c) \/ ClaudeExits(c) \/ AppServerExits(c)
  \/ Closed(c)

Next ==
  \/ Tick \/ Crash \/ Start
  \/ \E c \in Commands : Enqueue(c) \/ Retry(c) \/ Cancel(c) \/ Dispatches(c)
  \/ \E q \in Asks : Expire(q) \/ Remind(q)
  \/ \E q \in Asks, c \in Commands : Ask(q, c)
  \/ \E k \in Keys, fits \in BOOLEAN : Decide(k, fits)
  \/ \E s \in Sessions : Terminal(s) \/ HookReports(s)

Spec == Init /\ [][Next]_vars

\* Timers go off, requests are answered or time out, and an agent's turn
\* ends, as no step of its command is for ever: it exits if nothing else.
Fairness ==
  /\ WF_vars(Start)
  /\ \A c \in Commands : WF_vars(Dispatches(c))
  /\ \A q \in Asks : WF_vars(Expire(q))

FairSpec == Spec /\ Fairness

-----------------------------------------------------------------------------
(* Properties.                                                             *)

Turning(c) == stage[c] \in {"starting", "begun", "early", "turn", "done", "failed", "broken"}

\* Two follow-ups never have a process at work in one session, whatever
\* the session's row says meanwhile: hooks, terminals and a turn's own end
\* change what the queue goes by (ARCHITECTURE.md:97, resume-service.ts:21).
FollowUpsTakeTurns ==
  \A c, d \in FollowUps : c # d /\ Turning(c) /\ Turning(d) => at[c] # at[d]

\* Of a whole host: no session has two processes of the host's at work.
OneTurnLease ==
  \A c, d \in Commands : c # d /\ Turning(c) /\ Turning(d)
    => at[c] = Nowhere \/ at[c] # at[d]

\* A withdrawn command never runs, and a command that is dispatched is
\* shown as running: no cancel, retry, restart or late end of an earlier
\* dispatch parts the row from the process (task-command-service.ts:113).
RunsAsShown ==
  /\ \A c \in Commands : stage[c] # "off" => command[c] = "running"
  /\ up => \A c \in Commands : command[c] = "running" => stage[c] # "off"

CanceledIsLast ==
  [][\A c \in Commands : command[c] = "canceled" => command'[c] = "canceled"]_vars

\* An agent acts on a decision only when that decision is the one on record
\* for its own request, one key at most was told ok, and a request whose
\* resolver died with an earlier process is never decided or reminded of
\* (ARCHITECTURE.md:102).
DecidedOnce ==
  /\ \A q \in Asks :
       /\ answer[q] \in Keys \union {"policy"} => row[q] = "resolved" /\ winner[q] = answer[q]
       /\ answer[q] = "cancel" => row[q] = "expired"
  /\ \A k \in Keys : results[k] = "ok" => winner[Target[k]] = k
  /\ up => resolver = {q \in Asks : row[q] = "pending"}
  /\ reminder \subseteq resolver

\* Both: the rows say what the processes do, and what was decided.
RowsTellTheTruth == RunsAsShown /\ DecidedOnce

\* A dispatched command comes to an end, or is queued anew by a restart.
DispatchEnds == \A c \in Commands : (stage[c] # "off") ~> (stage[c] = "off")

\* Every request is answered, or its app-server is gone.
AskersHear ==
  \A q \in Asks : (row[q] = "pending") ~> (row[q] # "pending")

=============================================================================
