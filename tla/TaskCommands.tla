---------------------------- MODULE TaskCommands ----------------------------
(***************************************************************************)
(* The durable task-command queue of the Rust runtime, from the outbox of  *)
(* a paired client to the agent process:                                   *)
(*                                                                         *)
(*   client outbox --wire--> request handlers --> SQLite rows --> runner   *)
(*                                                    ^             |      *)
(*                             recovery on restart ---+          agent     *)
(*                                                                         *)
(* A row's life is queued -> dispatching -> running -> completed | failed, *)
(* or queued -> canceled; a retry requeues a failed row.  The store actor  *)
(* executes one statement (or transaction) at a time, so every store call  *)
(* is one step; a handler or the runner that awaits between two calls is   *)
(* split there, and everybody else may run in the gap.                     *)
(*                                                                         *)
(* A command is named by its device-scoped idempotency key: the unique key *)
(* makes rows and keys one to one.  Prompt texts, error texts, timestamps  *)
(* and the SQLite errors of a failing disk are left out.                   *)
(***************************************************************************)
EXTENDS Naturals, FiniteSets

CONSTANTS
  Keys,            \* idempotency keys, one per command
  Sessions,        \* agent sessions, known ones and ones still to be created
  Kind,            \* [Keys -> {"create", "follow_up"}]
  Provider,        \* [Keys -> {"codex", "claude"}]
  Target,          \* [Keys -> Sessions]: the session a follow-up continues
  Known,           \* the sessions whose rows exist when the runtime starts
  NoSession, NoKey,
  MaxIntents,      \* bound: acts of the user (submit, retry) per command
  MaxRequeues,     \* bound: retries the store accepts per command
  MaxCopies,       \* bound: copies of one frame sent and not fully handled
  MaxCrashes,      \* bound: crashes or stops of the runtime
  MaxMoves         \* bound: events of the outside world (see Move)

Kinds == {"create", "follow_up"}
Providers == {"codex", "claude"}

ASSUME RequestsAssumption ==
  /\ Kind \in [Keys -> Kinds]
  /\ Provider \in [Keys -> Providers]
  /\ Target \in [Keys -> Sessions]
  /\ Known \subseteq Sessions
  /\ IsFiniteSet(Keys)
  /\ NoSession \notin Sessions
  /\ NoKey \notin Keys

ASSUME BoundsAssumption ==
  {MaxIntents, MaxRequeues, MaxCopies, MaxCrashes, MaxMoves} \subseteq Nat

Ops == {"enqueue", "retry", "cancel"}
EntryStates == {"none", "queued", "sent"}
CommandStates ==
  {"none", "queued", "dispatching", "running", "completed", "failed", "canceled"}
RowStates == {"absent", "idle", "busy", "turn", "failed"}
Verdicts == {"valid", "invalid"}

VARIABLES
  \* --- the client and the network
  outbox,          \* [Ops -> [Keys -> EntryStates]]: unacknowledged commands
  wire,            \* [Ops -> [Keys -> Nat]]: copies sent and not handled
  intents,         \* [Keys -> Nat]: times the user asked for this command to run
  withdrawn,       \* keys whose cancel was answered ok
  \* --- the store
  state,           \* [Keys -> CommandStates]
  attached,        \* [Keys -> Sessions \cup {NoSession}]: session_id
  rank,            \* [Keys -> Nat]: created_at
  requeues,        \* [Keys -> Nat]: retries the store accepted
  row,             \* [Sessions -> RowStates]: the session rows
  clear,           \* sessions with a certain correlation and a cwd
  gate,            \* [Keys -> {"pending","ready","failed"}]: its materials
  \* --- the runtime's volatile state
  checked,         \* [Keys -> [Verdicts -> Nat]]: retry handlers past their check
  pc, cur,         \* the runner: where it is, and the command it holds
  snap,            \* the session list run_once began with
  todo,            \* queued commands of this pass, not looked at yet
  result,          \* what the executor returned
  crashes,
  \* --- the outside world
  occupied,        \* sessions a person is using in a terminal or an app
  prompts,         \* [Keys -> Nat]: prompts handed to an agent
  moves            \* events of the outside world so far

clientVars == <<outbox, wire, intents, withdrawn>>
rowVars == <<state, attached, rank, requeues>>
sessionVars == <<row, clear>>
runnerVars == <<pc, cur, snap, todo, result>>
worldVars == <<occupied, prompts, moves>>
vars == <<clientVars, rowVars, sessionVars, gate, checked, runnerVars, crashes, worldVars>>

(***************************************************************************)
(* Where run_once is, by the await it waits at; "down" when the process is *)
(* not running.                                                            *)
(***************************************************************************)
BeforePrompt == {"prepare", "materials", "exec", "attach_codex", "turn"}
AfterPrompt == {"spawned", "attach_claude", "output"}
PCs == {"down", "idle", "listed", "scan", "claimed", "finish"}
         \cup BeforePrompt \cup AfterPrompt

NoSnap == [active |-> {}, usable |-> {}]
NoResult == [ok |-> FALSE, session |-> NoSession]
Results == [ok : BOOLEAN, session : Sessions \cup {NoSession}]

TypeOK ==
  /\ outbox \in [Ops -> [Keys -> EntryStates]]
  /\ wire \in [Ops -> [Keys -> Nat]]
  /\ intents \in [Keys -> Nat]
  /\ withdrawn \subseteq Keys
  /\ state \in [Keys -> CommandStates]
  /\ attached \in [Keys -> Sessions \cup {NoSession}]
  /\ rank \in [Keys -> Nat]
  /\ requeues \in [Keys -> Nat]
  /\ row \in [Sessions -> RowStates]
  /\ clear \subseteq Sessions
  /\ gate \in [Keys -> {"pending", "ready", "failed"}]
  /\ checked \in [Keys -> [Verdicts -> Nat]]
  /\ pc \in PCs
  /\ cur \in Keys \cup {NoKey}
  /\ snap \in [active : SUBSET Sessions, usable : SUBSET Sessions]
  /\ todo \subseteq Keys
  /\ result \in Results
  /\ crashes \in Nat
  /\ occupied \subseteq Sessions
  /\ prompts \in [Keys -> Nat]
  /\ moves \in Nat

(* A paired device, an empty queue, the service just started. *)
Init ==
  /\ outbox = [o \in Ops |-> [k \in Keys |-> "none"]]
  /\ wire = [o \in Ops |-> [k \in Keys |-> 0]]
  /\ intents = [k \in Keys |-> 0]
  /\ withdrawn = {}
  /\ state = [k \in Keys |-> "none"]
  /\ attached = [k \in Keys |-> NoSession]
  /\ rank = [k \in Keys |-> 0]
  /\ requeues = [k \in Keys |-> 0]
  /\ row = [s \in Sessions |-> IF s \in Known THEN "idle" ELSE "absent"]
  /\ clear = Sessions
  /\ gate \in [Keys -> {"pending", "ready"}]
  /\ checked = [k \in Keys |-> [v \in Verdicts |-> 0]]
  /\ pc = "idle"
  /\ cur = NoKey
  /\ snap = NoSnap
  /\ todo = {}
  /\ result = NoResult
  /\ crashes = 0
  /\ occupied = {}
  /\ prompts = [k \in Keys |-> 0]
  /\ moves = 0

-----------------------------------------------------------------------------
(* The client: apps/web commandOutbox.ts and useBridge.ts *)

(***************************************************************************)
(* Replies name a command, and every outbox entry that the reply satisfies *)
(* is dropped: task.command.updated settles the submission and any retry   *)
(* of that command, whichever of the two it answers.                       *)
(***************************************************************************)
Acknowledge(k, ops) ==
  outbox' = [o \in Ops |-> IF o \in ops THEN [outbox[o] EXCEPT ![k] = "none"]
                                        ELSE outbox[o]]
Updated == {"enqueue", "retry"}
Unheard == UNCHANGED outbox

(* The user submits a task or a follow-up: a fresh key, persisted first. *)
UserSubmit(k) ==
  /\ intents[k] = 0
  /\ MaxIntents > 0
  /\ intents' = [intents EXCEPT ![k] = 1]
  /\ outbox' = [outbox EXCEPT !["enqueue"][k] = "queued"]
  /\ UNCHANGED <<wire, withdrawn, rowVars, sessionVars, gate, checked, runnerVars,
                 crashes, worldVars>>

(***************************************************************************)
(* Retry on a command that shows as failed (the client's copy may be older *)
(* than a retry already accepted); an unconfirmed one is not queued twice. *)
(***************************************************************************)
UserRetry(k) ==
  /\ state[k] = "failed" \/ requeues[k] > 0
  /\ outbox["retry"][k] = "none"
  /\ intents[k] < MaxIntents
  /\ intents' = [intents EXCEPT ![k] = @ + 1]
  /\ outbox' = [outbox EXCEPT !["retry"][k] = "queued"]
  /\ UNCHANGED <<wire, withdrawn, rowVars, sessionVars, gate, checked, runnerVars,
                 crashes, worldVars>>

(***************************************************************************)
(* Withdraw: an entry never sent is dropped here; a sent one is replaced   *)
(* by a cancel with its key; a confirmed one is canceled while it shows as *)
(* queued, which it may no longer be.                                      *)
(***************************************************************************)
UserCancel(k) ==
  /\ \/ /\ outbox["enqueue"][k] = "queued"
        /\ outbox' = [outbox EXCEPT !["enqueue"][k] = "none"]
     \/ /\ outbox["enqueue"][k] = "sent"
        /\ outbox' = [outbox EXCEPT !["enqueue"][k] = "none", !["cancel"][k] = "queued"]
     \/ /\ outbox["enqueue"][k] = "none" /\ state[k] # "none"
        /\ outbox["cancel"][k] = "none"
        /\ outbox' = [outbox EXCEPT !["cancel"][k] = "queued"]
  /\ UNCHANGED <<wire, intents, withdrawn, rowVars, sessionVars, gate, checked,
                 runnerVars, crashes, worldVars>>

(***************************************************************************)
(* An entry is sent when it is queued on an open connection, and sent      *)
(* again on every later connection until it is acknowledged.  The frames   *)
(* of the previous connection may still be waiting to be handled.          *)
(***************************************************************************)
Pending(o, k) ==
  wire[o][k] + (IF o = "retry" THEN checked[k]["valid"] + checked[k]["invalid"] ELSE 0)

Send(o, k) ==
  /\ outbox[o][k] # "none"
  /\ Pending(o, k) < MaxCopies
  /\ wire' = [wire EXCEPT ![o][k] = @ + 1]
  /\ outbox' = [outbox EXCEPT ![o][k] = "sent"]
  /\ UNCHANGED <<intents, withdrawn, rowVars, sessionVars, gate, checked, runnerVars,
                 crashes, worldVars>>

(* Mutant: the same frame is counted as lost twice. *)
LoseFrameTwice(o, k) ==
  /\ wire' = [wire EXCEPT ![o][k] = @ - 1]
  /\ UNCHANGED <<outbox, intents, withdrawn, rowVars, sessionVars, gate, checked,
                 runnerVars, crashes, worldVars>>

(* A connection dies with the frame. *)
LoseFrame(o, k) ==
  /\ wire[o][k] > 0
  /\ wire' = [wire EXCEPT ![o][k] = @ - 1]
  /\ UNCHANGED <<outbox, intents, withdrawn, rowVars, sessionVars, gate, checked,
                 runnerVars, crashes, worldVars>>

-----------------------------------------------------------------------------
(* The store: zimlo-store/src/task_commands.rs *)

(* Mutant: the UPDATE has lost its "AND state = ?". *)
TransitionUnchecked(k, expected, next) == state' = [state EXCEPT ![k] = next]

(* transition(): compare-and-set on the state of one row. *)
Transition(k, expected, next) ==
  /\ state[k] = expected
  /\ state' = [state EXCEPT ![k] = next]

(* Mutant: a replayed submission revives a canceled row (an upsert). *)
InsertRevives(k, initial, session) ==
  IF state[k] \in {"none", "canceled"}
  THEN /\ state' = [state EXCEPT ![k] = initial]
       /\ attached' = [attached EXCEPT ![k] = session]
       /\ rank' = [rank EXCEPT ![k] = Cardinality({j \in Keys : state[j] # "none"})]
  ELSE UNCHANGED <<state, attached, rank>>

(* insert(): the unique key makes a second insert a read. *)
Insert(k, initial, session) ==
  IF state[k] = "none"
  THEN /\ state' = [state EXCEPT ![k] = initial]
       /\ attached' = [attached EXCEPT ![k] = session]
       /\ rank' = [rank EXCEPT ![k] = Cardinality({j \in Keys : state[j] # "none"})]
  ELSE UNCHANGED <<state, attached, rank>>

Exists(s) == row[s] # "absent"

-----------------------------------------------------------------------------
(* The request handlers: zimlo-bridge/src/task_enqueue.rs, task_commands.rs *)

Up == pc # "down"

(* The handler takes one frame off the wire. *)
Receive(o, k) ==
  /\ Up
  /\ wire[o][k] > 0
  /\ wire' = [wire EXCEPT ![o][k] = @ - 1]

(* A reply that reaches the client settles entries; one that is lost, none. *)
Reply(k, ops) == Acknowledge(k, ops) \/ Unheard

FollowUpInvalid(s) == ~ (Exists(s) /\ s \in clear)

(* task.create: the workspace must be a trusted one, or the row is born failed. *)
HandleCreate(k, trusted) ==
  /\ Kind[k] = "create"
  /\ Receive("enqueue", k)
  /\ Insert(k, IF trusted THEN "queued" ELSE "failed", NoSession)
  /\ Reply(k, Updated)
  /\ UNCHANGED <<intents, withdrawn, requeues, sessionVars, gate, checked, runnerVars,
                 crashes, worldVars>>

(* task.follow_up and session.message. *)
HandleFollowUp(k) ==
  /\ Kind[k] = "follow_up"
  /\ Receive("enqueue", k)
  /\ Insert(k, IF FollowUpInvalid(Target[k]) THEN "failed" ELSE "queued",
               IF Exists(Target[k]) THEN Target[k] ELSE NoSession)
  /\ Reply(k, Updated)
  /\ UNCHANGED <<intents, withdrawn, requeues, sessionVars, gate, checked, runnerVars,
                 crashes, worldVars>>

(***************************************************************************)
(* task.command.cancel: one transaction.  A key the store has never seen   *)
(* is answered ok.                                                         *)
(***************************************************************************)
HandleCancel(k) ==
  /\ Receive("cancel", k)
  /\ \/ /\ state[k] = "none"
        /\ withdrawn' = withdrawn \cup {k}
        /\ Reply(k, {"cancel"})
        /\ UNCHANGED state
     \/ /\ state[k] = "canceled"
        /\ withdrawn' = withdrawn \cup {k}
        /\ Reply(k, Ops)
        /\ UNCHANGED state
     \/ /\ Transition(k, "queued", "canceled")
        /\ withdrawn' = withdrawn \cup {k}
        /\ Reply(k, Ops)
     \/ /\ state[k] \notin {"none", "queued", "canceled"}
        /\ Reply(k, Ops)
        /\ UNCHANGED <<state, withdrawn>>
  /\ UNCHANGED <<intents, attached, rank, requeues, sessionVars, gate, checked,
                 runnerVars, crashes, worldVars>>

(***************************************************************************)
(* retry_invalid(): a create whose session is already known is not rerun;  *)
(* otherwise what the command refers to is looked up again.                *)
(***************************************************************************)
RetryInvalid(k, trusted) ==
  IF Kind[k] = "create"
  THEN attached[k] # NoSession \/ ~ trusted
  ELSE attached[k] = NoSession \/ FollowUpInvalid(attached[k])

(* task.command.retry, up to its last await: the row is read and judged. *)
RetryRead(k, trusted) ==
  /\ Receive("retry", k)
  /\ \/ /\ state[k] = "failed"
        /\ checked' = [checked EXCEPT
                ![k][IF RetryInvalid(k, trusted) THEN "invalid" ELSE "valid"] = @ + 1]
        /\ UNCHANGED outbox
     \/ /\ state[k] # "failed"
        /\ Reply(k, Updated)
        /\ UNCHANGED checked
  /\ UNCHANGED <<intents, withdrawn, rowVars, sessionVars, gate, runnerVars, crashes,
                 worldVars>>

(***************************************************************************)
(* ... and the rest: the verdict is applied to the row as it is now.  The  *)
(* store requeues a failed row and leaves any other alone; an invalid      *)
(* retry only rewrites the error text, and answers nothing useful when the *)
(* row is no longer failed (InvalidMutation).                              *)
(***************************************************************************)
RetryWrite(k, verdict) ==
  /\ checked[k][verdict] > 0
  /\ checked' = [checked EXCEPT ![k][verdict] = @ - 1]
  /\ \/ /\ verdict = "valid"
        /\ requeues[k] < MaxRequeues
        /\ Transition(k, "failed", "queued")
        /\ requeues' = [requeues EXCEPT ![k] = @ + 1]
        /\ Reply(k, Updated)
     \/ /\ verdict = "valid" /\ state[k] # "failed"
        /\ Reply(k, Updated)
        /\ UNCHANGED <<state, requeues>>
     \/ /\ verdict = "invalid" /\ state[k] = "failed"
        /\ Reply(k, Updated)
        /\ UNCHANGED <<state, requeues>>
     \/ /\ verdict = "invalid" /\ state[k] # "failed"
        /\ Unheard
        /\ UNCHANGED <<state, requeues>>
  /\ UNCHANGED <<wire, intents, withdrawn, attached, rank, sessionVars, gate,
                 runnerVars, crashes, worldVars>>

-----------------------------------------------------------------------------
(* The runner: zimlo-bridge/src/task_runner.rs *)

clientAndWorld == <<clientVars, checked, crashes, occupied, moves>>

(***************************************************************************)
(* run_once(): the session list is read once, before the queue.  Two facts *)
(* of it are used: which sessions are active (session_is_active) and which *)
(* ones can be followed up (validate_follow_up).                           *)
(***************************************************************************)
Active(s) == row[s] \in {"busy", "turn"}

RunnerSessions ==
  /\ pc = "idle"
  /\ pc' = "listed"
  /\ snap' = [active |-> {s \in Sessions : Active(s)},
              usable |-> {s \in Sessions : ~ FollowUpInvalid(s)}]
  /\ UNCHANGED <<clientAndWorld, rowVars, sessionVars, gate, cur, todo, result, prompts>>

RunnerQueue ==
  /\ pc = "listed"
  /\ pc' = "scan"
  /\ todo' = {k \in Keys : state[k] = "queued"}
  /\ UNCHANGED <<clientAndWorld, rowVars, sessionVars, gate, cur, snap, result, prompts>>

Oldest(k) == k \in todo /\ \A j \in todo : rank[k] <= rank[j]

(***************************************************************************)
(* next_eligible_command(): the queue is walked oldest first; a follow-up  *)
(* to an active session is passed over, and so is a command that another   *)
(* actor took out of the queue since it was listed.                        *)
(***************************************************************************)
RunnerSkip(k) ==
  /\ pc = "scan"
  /\ Oldest(k)
  /\ \/ Kind[k] = "follow_up" /\ attached[k] \in snap.active
     \/ state[k] # "queued"
  /\ todo' = todo \ {k}
  /\ UNCHANGED <<clientAndWorld, rowVars, sessionVars, gate, pc, cur, snap, result, prompts>>

RunnerClaim(k) ==
  /\ pc = "scan"
  /\ Oldest(k)
  /\ ~ (Kind[k] = "follow_up" /\ attached[k] \in snap.active)
  /\ Transition(k, "queued", "dispatching")
  /\ pc' = "claimed"
  /\ cur' = k
  /\ todo' = {}
  /\ UNCHANGED <<clientAndWorld, attached, rank, requeues, sessionVars, gate, snap,
                 result, prompts>>

RunnerNothing ==
  /\ pc = "scan"
  /\ todo = {}
  /\ pc' = "idle"
  /\ snap' = NoSnap
  /\ UNCHANGED <<clientAndWorld, rowVars, sessionVars, gate, cur, todo, result, prompts>>

RunnerMark ==
  /\ pc = "claimed"
  /\ Transition(cur, "dispatching", "running")
  /\ pc' = "prepare"
  /\ UNCHANGED <<clientAndWorld, attached, rank, requeues, sessionVars, gate, cur, snap,
                 todo, result, prompts>>

(* The command is over for run_once; finish() comes next. *)
Settle(ok, session) ==
  /\ pc' = "finish"
  /\ result' = [ok |-> ok, session |-> session]

(* prepare(): a follow-up is validated on that same old session list. *)
RunnerPrepare ==
  /\ pc = "prepare"
  /\ IF Kind[cur] = "follow_up" /\ attached[cur] \notin snap.usable
     THEN Settle(FALSE, NoSession)
     ELSE pc' = "materials" /\ UNCHANGED result
  /\ UNCHANGED <<clientAndWorld, rowVars, sessionVars, gate, cur, snap, todo, prompts>>

(* Mutant: without the deadline, an upload that never ends is waited for. *)
MaterialsNoDeadline ==
  /\ pc = "materials"
  /\ \/ gate[cur] = "ready" /\ pc' = "exec" /\ UNCHANGED result
     \/ gate[cur] = "failed" /\ Settle(FALSE, NoSession)
  /\ UNCHANGED <<clientAndWorld, rowVars, sessionVars, gate, cur, snap, todo, prompts>>

(***************************************************************************)
(* wait_for_materials(): up to 30 s of polling.  Ready files let the       *)
(* command through; a failed upload, or the deadline while one is missing, *)
(* fails it.                                                               *)
(***************************************************************************)
RunnerMaterials ==
  /\ pc = "materials"
  /\ \/ gate[cur] = "ready" /\ pc' = "exec" /\ UNCHANGED result
     \/ gate[cur] # "ready" /\ Settle(FALSE, NoSession)
  /\ UNCHANGED <<clientAndWorld, rowVars, sessionVars, gate, cur, snap, todo, prompts>>

(* Mutant: only the session is looked at, not the outcome. *)
FinishIgnoresOutcome ==
  LET valid == result.session = NoSession \/ Exists(result.session)
  IN  /\ pc = "finish"
      /\ Transition(cur, "running", IF valid THEN "completed" ELSE "failed")
      /\ attached' = [attached EXCEPT
             ![cur] = IF valid /\ result.session # NoSession THEN result.session ELSE @]
      /\ pc' = "idle"
      /\ cur' = NoKey
      /\ result' = NoResult
      /\ snap' = NoSnap
      /\ UNCHANGED <<clientAndWorld, rank, requeues, sessionVars, gate, todo, prompts>>

(***************************************************************************)
(* The end of run_once: a session the store does not know voids a success, *)
(* then finish() compares-and-sets running -> completed | failed, keeping  *)
(* the session it had when the executor returns none.                      *)
(***************************************************************************)
RunnerFinish ==
  LET valid == result.session = NoSession \/ Exists(result.session)
      ok == result.ok /\ valid
  IN  /\ pc = "finish"
      /\ Transition(cur, "running", IF ok THEN "completed" ELSE "failed")
      /\ attached' = [attached EXCEPT
             ![cur] = IF valid /\ result.session # NoSession THEN result.session ELSE @]
      /\ pc' = "idle"
      /\ cur' = NoKey
      /\ result' = NoResult
      /\ snap' = NoSnap
      /\ UNCHANGED <<clientAndWorld, rank, requeues, sessionVars, gate, todo, prompts>>

-----------------------------------------------------------------------------
(* The executors: codex_executor.rs, claude_executor.rs *)

execFrame == <<clientAndWorld, rank, requeues, clear, gate, cur, snap, todo>>

HandOver(k) == prompts' = [prompts EXCEPT ![k] = @ + 1]

(* Codex, new task: a thread without a turn yet, and its session row. *)
CodexCreate(s) ==
  /\ pc = "exec" /\ Kind[cur] = "create" /\ Provider[cur] = "codex"
  /\ row[s] = "absent"
  /\ row' = [row EXCEPT ![s] = "turn"]
  /\ result' = [ok |-> FALSE, session |-> s]
  /\ pc' = "attach_codex"
  /\ UNCHANGED <<execFrame, state, attached, prompts>>

(***************************************************************************)
(* Codex, follow-up: ensure_resumable() asks the app server whether the    *)
(* thread is in use, and only then takes the session.                      *)
(***************************************************************************)
CodexResume ==
  LET s == attached[cur]
  IN  /\ pc = "exec" /\ Kind[cur] = "follow_up" /\ Provider[cur] = "codex"
      /\ Exists(s)
      /\ s \notin occupied
      /\ row' = [row EXCEPT ![s] = "turn"]
      /\ result' = [ok |-> FALSE, session |-> s]
      /\ pc' = "turn"
      /\ UNCHANGED <<execFrame, state, attached, prompts>>

(* turn/start *)
CodexTurn ==
  /\ pc = "turn"
  /\ HandOver(cur)
  /\ pc' = "output"
  /\ UNCHANGED <<execFrame, state, attached, row, result>>

(***************************************************************************)
(* Claude: the prompt is an argument of the process, so spawning it hands  *)
(* the prompt over.  A new task has no session until the process reports   *)
(* one; a follow-up resumes its own.                                       *)
(***************************************************************************)
ClaudeSpawn ==
  /\ pc = "exec" /\ Provider[cur] = "claude"
  /\ HandOver(cur)
  /\ \/ /\ Kind[cur] = "create"
        /\ pc' = "spawned"
        /\ UNCHANGED <<row, result>>
     \/ /\ Kind[cur] = "follow_up"
        /\ Exists(attached[cur])
        /\ row' = [row EXCEPT ![attached[cur]] = "turn"]
        /\ result' = [ok |-> FALSE, session |-> attached[cur]]
        /\ pc' = "output"
  /\ UNCHANGED <<execFrame, state, attached>>

ClaudeSession(s) ==
  /\ pc = "spawned"
  /\ row[s] = "absent"
  /\ row' = [row EXCEPT ![s] = "turn"]
  /\ result' = [ok |-> FALSE, session |-> s]
  /\ pc' = "attach_claude"
  /\ UNCHANGED <<execFrame, state, attached, prompts>>

(* attach_task_command_session(): running -> running, with the session. *)
Attach ==
  /\ pc \in {"attach_codex", "attach_claude"}
  /\ Transition(cur, "running", "running")
  /\ attached' = [attached EXCEPT ![cur] = result.session]
  /\ pc' = IF pc = "attach_codex" THEN "turn" ELSE "output"
  /\ UNCHANGED <<execFrame, row, result, prompts>>

(* The turn ends: finish_session() and the executor's answer. *)
TurnEnds(ok) ==
  /\ pc = "output"
  /\ row' = [row EXCEPT ![result.session] = IF ok THEN "idle" ELSE "failed"]
  /\ Settle(ok, result.session)
  /\ UNCHANGED <<execFrame, state, attached, prompts>>

(***************************************************************************)
(* Anything else the agent or its process does: no binary, no cwd, a       *)
(* refused resume, a protocol error.  The error path takes the session     *)
(* from the command row and marks it failed, whoever is using it.          *)
(***************************************************************************)
ExecutorFails ==
  LET s == attached[cur]
  IN  /\ pc \in {"exec", "spawned", "turn", "output"}
      /\ row' = IF s # NoSession /\ Exists(s) THEN [row EXCEPT ![s] = "failed"] ELSE row
      /\ Settle(FALSE, s)
      /\ UNCHANGED <<execFrame, state, attached, prompts>>

-----------------------------------------------------------------------------
(* The process, discovery and the outside world *)

(***************************************************************************)
(* The process stops: agents are children and go with it, connections and  *)
(* handlers are gone, rows stay.                                           *)
(***************************************************************************)
Crash ==
  /\ Up
  /\ crashes < MaxCrashes
  /\ crashes' = crashes + 1
  /\ pc' = "down"
  /\ cur' = NoKey
  /\ todo' = {}
  /\ snap' = NoSnap
  /\ result' = NoResult
  /\ checked' = [k \in Keys |-> [v \in Verdicts |-> 0]]
  /\ wire' = [o \in Ops |-> [k \in Keys |-> 0]]
  /\ UNCHANGED <<outbox, intents, withdrawn, rowVars, sessionVars, gate, worldVars>>

(* Mutant: recovery puts everything that was under way back in the queue. *)
RecoveredAll(st) == IF st \in {"dispatching", "running"} THEN "queued" ELSE st

(* The two UPDATEs of task_commands in recover_runtime_state(). *)
Recovered(st) ==
  CASE st = "dispatching" -> "queued"
    [] st = "running" -> "failed"
    [] OTHER -> st

(***************************************************************************)
(* recover_runtime_state(), when the database is opened for writing:       *)
(* claimed commands go back to the queue, running ones are failed and wait *)
(* for the user, sessions Zimlo ran a turn in are failed.  A busy row may  *)
(* have been a managed session too.                                        *)
(***************************************************************************)
Restart ==
  /\ pc = "down"
  /\ pc' = "idle"
  /\ state' = [k \in Keys |-> Recovered(state[k])]
  /\ \E managed \in SUBSET {s \in Sessions : row[s] = "busy"} :
       row' = [s \in Sessions |-> IF row[s] = "turn" \/ s \in managed THEN "failed"
                                  ELSE row[s]]
  /\ UNCHANGED <<clientAndWorld, attached, rank, requeues, clear, gate, cur, snap, todo,
                 result, prompts>>

Move == moves < MaxMoves /\ moves' = moves + 1

(* A person starts or stops using a session outside Zimlo. *)
Occupy(s) ==
  /\ Move
  /\ Exists(s)
  /\ s \notin occupied
  /\ occupied' = occupied \cup {s}
  /\ UNCHANGED <<clientVars, rowVars, sessionVars, gate, checked, runnerVars, crashes, prompts>>

Vacate(s) ==
  /\ s \in occupied
  /\ occupied' = occupied \ {s}
  /\ UNCHANGED <<clientVars, rowVars, sessionVars, gate, checked, runnerVars, crashes, prompts,
                 moves>>

(* Mutant: a session whose process has gone stays busy. *)
ScanNeverClears(s) ==
  /\ Up
  /\ s \in occupied
  /\ row[s] # "busy"
  /\ row' = [row EXCEPT ![s] = "busy"]
  /\ UNCHANGED <<clientVars, rowVars, clear, gate, checked, runnerVars, crashes, worldVars>>

(***************************************************************************)
(* scan_processes() and clear_inactive_processes(): a session with a       *)
(* process is running, a busy one without is idle.  An app server does not *)
(* count as a session process, so the row of a running turn may be cleared *)
(* too.                                                                    *)
(***************************************************************************)
Scan(s) ==
  /\ Up
  /\ \/ s \in occupied /\ row[s] # "busy" /\ row' = [row EXCEPT ![s] = "busy"]
     \/ s \notin occupied /\ row[s] \in {"busy", "turn"} /\ row' = [row EXCEPT ![s] = "idle"]
  /\ UNCHANGED <<clientVars, rowVars, clear, gate, checked, runnerVars, crashes, worldVars>>

(* A process session's correlation may be doubtful for a while. *)
Correlate(s) ==
  /\ Move
  /\ Up
  /\ Exists(s)
  /\ clear' = IF s \in clear THEN clear \ {s} ELSE clear \cup {s}
  /\ UNCHANGED <<clientVars, rowVars, row, gate, checked, runnerVars, crashes, occupied, prompts>>

(* The upload of a command's materials ends well or badly, and may be redone. *)
Upload(k, outcome) ==
  /\ Move
  /\ Up
  /\ gate[k] # "ready"
  /\ gate[k] # outcome
  /\ gate' = [gate EXCEPT ![k] = outcome]
  /\ UNCHANGED <<clientVars, rowVars, sessionVars, checked, runnerVars, crashes, occupied, prompts>>

-----------------------------------------------------------------------------
Client(k) ==
  UserSubmit(k) \/ UserRetry(k) \/ UserCancel(k) \/ \E o \in Ops : Send(o, k) \/ LoseFrame(o, k)

Handlers(k) ==
  \/ \E trusted \in BOOLEAN : HandleCreate(k, trusted) \/ RetryRead(k, trusted)
  \/ HandleFollowUp(k)
  \/ HandleCancel(k)
  \/ \E verdict \in Verdicts : RetryWrite(k, verdict)

Runner ==
  \/ RunnerSessions \/ RunnerQueue \/ RunnerNothing
  \/ \E k \in Keys : RunnerSkip(k) \/ RunnerClaim(k)
  \/ RunnerMark \/ RunnerPrepare \/ RunnerMaterials \/ RunnerFinish

Executor ==
  \/ \E s \in Sessions : CodexCreate(s) \/ ClaudeSession(s)
  \/ CodexResume \/ CodexTurn \/ ClaudeSpawn \/ Attach
  \/ \E ok \in BOOLEAN : TurnEnds(ok)
  \/ ExecutorFails

World ==
  \/ \E s \in Sessions : Occupy(s) \/ Vacate(s) \/ Scan(s) \/ Correlate(s)
  \/ \E k \in Keys, outcome \in {"ready", "failed"} : Upload(k, outcome)

Next ==
  \/ \E k \in Keys : Client(k) \/ Handlers(k)
  \/ Runner \/ Executor \/ World
  \/ Crash \/ Restart

Spec == Init /\ [][Next]_vars

-----------------------------------------------------------------------------
(* Safety *)

(***************************************************************************)
(* The lease: while the service is up, the rows in dispatching and running *)
(* are exactly the one the runner holds, in the state the runner expects.  *)
(* So no command is stranded in a working state by a cancel, a retry, a    *)
(* replayed submission or a crash, and the compare-and-sets of             *)
(* mark_running and finish always find their row: the None of the first,   *)
(* which would strand the command, and the InvalidMutation of the second,  *)
(* which would end the runner, do not happen.                              *)
(***************************************************************************)
Holding == BeforePrompt \cup AfterPrompt \cup {"finish"}

LeaseHeld ==
  /\ pc = "claimed" => cur \in Keys /\ state[cur] = "dispatching"
  /\ pc \in Holding => cur \in Keys /\ state[cur] = "running"
  /\ pc # "down" =>
       \A k \in Keys : state[k] \in {"dispatching", "running"} =>
                         k = cur /\ pc \in Holding \cup {"claimed"}

(***************************************************************************)
(* At most one prompt per authorisation: an agent gets a command's prompt  *)
(* once for its insertion and once more per retry the store accepted, and  *)
(* a command that can still run has not used its last one up.  Crash       *)
(* recovery, which requeues what was claimed, never repeats a prompt.      *)
(***************************************************************************)
CanRun(k) ==
  \/ state[k] \in {"queued", "dispatching"}
  \/ state[k] = "running" /\ cur = k /\ pc \in BeforePrompt

PromptsAuthorised ==
  \A k \in Keys : prompts[k] + (IF CanRun(k) THEN 1 ELSE 0) <= requeues[k] + 1

(***************************************************************************)
(* A withdrawal that reached a queued command is final: no replayed        *)
(* submission, pending retry or restart brings the command back, and no    *)
(* pass of the runner that listed it before hands it over.                 *)
(***************************************************************************)
CanceledIsFinal ==
  [][\A k \in Keys : state[k] = "canceled" =>
        state'[k] = "canceled" /\ prompts'[k] = prompts[k]]_vars

(***************************************************************************)
(* A completed command points at the session it ran in, that session has a *)
(* row, and the prompt did go out: clients open the session from it.       *)
(***************************************************************************)
CompletedHasSession ==
  \A k \in Keys : state[k] = "completed" =>
      attached[k] # NoSession /\ Exists(attached[k]) /\ prompts[k] > 0

(***************************************************************************)
(* What the user sees of a command, as a ledger entry.                     *)
(***************************************************************************)
LedgerStatus(k) ==
  CASE state[k] = "none" -> "none"
    [] state[k] \in {"queued", "dispatching"} -> "waiting"
    [] state[k] = "running" -> IF CanRun(k) THEN "starting" ELSE "uncertain"
    [] state[k] = "completed" -> "done"
    [] state[k] = "failed" -> "failed"
    [] state[k] = "canceled" -> "withdrawn"

(* The user's requests on record: the insertion and the accepted retries. *)
LedgerGranted(k) == requeues[k] + (IF state[k] = "none" THEN 0 ELSE 1)

Ledger == INSTANCE CommandLedger WITH
  status <- [k \in Keys |-> LedgerStatus(k)],
  granted <- [k \in Keys |-> LedgerGranted(k)]

(***************************************************************************)
(* Together: over frames sent twice, retries, crashes and recoveries a     *)
(* prompt goes out only as often as somebody asked for it, one command at  *)
(* a time, and what is called completed can be opened.                     *)
(***************************************************************************)
QueueIsSafe == TypeOK /\ LeaseHeld /\ PromptsAuthorised /\ CompletedHasSession

(***************************************************************************)
(* The queue implements the ledger: every step of a client, handler, the   *)
(* runner, an agent, a crash or a restart is a ledger step or none.        *)
(***************************************************************************)
LedgerSpec == Ledger!Spec

-----------------------------------------------------------------------------
(* Liveness *)

(***************************************************************************)
(* The runner polls every 100 ms and waits 30 s for materials, discovery   *)
(* scans every 2 s, and the supervisor restarts a stopped service.  That   *)
(* an agent's turn ends is assumed of the agent: no executor has a timeout *)
(* around it.  Clients and users owe nothing.                              *)
(***************************************************************************)
Fairness ==
  /\ WF_vars(Runner)
  /\ WF_vars(Executor)
  /\ WF_vars(Restart)
  /\ \A s \in Sessions : WF_vars(Scan(s))

FairSpec == Spec /\ Fairness

Ended(k) == state[k] \in {"completed", "failed", "canceled"}

(* A queued new task always comes to an end, whatever is queued before it. *)
CreateSettles ==
  \A k \in Keys : Kind[k] = "create" => (state[k] = "queued" ~> Ended(k))

(***************************************************************************)
(* A queued follow-up comes to an end once people leave the sessions       *)
(* alone: a row left busy by a dead process does not hold it back forever. *)
(***************************************************************************)
FollowUpSettles ==
  <>[](occupied = {}) =>
    \A k \in Keys : Kind[k] = "follow_up" => (state[k] = "queued" ~> Ended(k))

-----------------------------------------------------------------------------
(* What the documentation says and the code does not keep *)

(***************************************************************************)
(* One execution per intent: a command's prompt goes out at most once per  *)
(* act of the user, whatever the network does to the frames.  A replayed   *)
(* retry breaks it: the retry handler never looks at its idempotency key.  *)
(***************************************************************************)
ExecutesOncePerIntent == \A k \in Keys : prompts[k] <= intents[k]

(***************************************************************************)
(* A withdrawal that was answered ok is kept.  The answer for a key that   *)
(* the store has not seen is ok too, and the submission may still arrive.  *)
(***************************************************************************)
WithdrawnNeverRuns ==
  [][\A k \in withdrawn : prompts'[k] = prompts[k]]_vars

(***************************************************************************)
(* Claude is resumed only in a session that the store shows as free at     *)
(* that moment.  The check is made on the list read before the materials   *)
(* were waited for.                                                        *)
(***************************************************************************)
ClaudeResumesFreeSession ==
  [][\A k \in Keys :
        Kind[k] = "follow_up" /\ Provider[k] = "claude" /\ prompts'[k] # prompts[k]
          => row[attached[k]] # "busy"]_vars

(***************************************************************************)
(* A new task whose session is known is not run again by a retry.  The     *)
(* retry handler decides on a row it read earlier.                         *)
(***************************************************************************)
CreatedTaskNotRequeued ==
  [][\A k \in Keys :
        Kind[k] = "create" /\ attached[k] # NoSession /\ state[k] = "failed"
          => state'[k] # "queued"]_vars
=============================================================================
