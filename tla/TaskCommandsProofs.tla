------------------------- MODULE TaskCommandsProofs -------------------------
(***************************************************************************)
(* Proofs about TaskCommands, for every set of commands and sessions and   *)
(* every value of the bounds.                                              *)
(* Section 1 shows that a step keeps the types, section 2 that it keeps    *)
(* the safety invariants (the two need each other: an executor step is     *)
(* only well typed because the lease names the command it works for),      *)
(* section 3 that a canceled command is left alone, section 4 that every   *)
(* step is a step of CommandLedger, and section 5 that any such ledger     *)
(* keeps its prompts within its grants.                                    *)
(***************************************************************************)
EXTENDS TaskCommands, FiniteSetTheorems, TLAPS

-----------------------------------------------------------------------------
(* 1. Types *)

(***************************************************************************)
(* A rank is the number of rows at that moment: Keys is finite.            *)
(***************************************************************************)
LEMMA RankType ==
  \A S \in SUBSET Keys : Cardinality(S) \in Nat
BY RequestsAssumption, FS_Subset, FS_CardinalityType

LEMMA TypeInit == Init => TypeOK
BY RequestsAssumption, BoundsAssumption
   DEF Init, TypeOK, Ops, EntryStates, CommandStates, RowStates, Verdicts, PCs, NoSnap,
       NoResult, Results

LEMMA ClientType ==
  ASSUME TypeOK, NEW k \in Keys, Client(k)
  PROVE  TypeOK'
<1> USE DEF TypeOK, Ops, EntryStates, clientVars, rowVars, sessionVars, runnerVars, worldVars
<1>1. CASE UserSubmit(k)
  BY <1>1 DEF UserSubmit
<1>2. CASE UserRetry(k)
  BY <1>2 DEF UserRetry
<1>3. CASE UserCancel(k)
  <2>1. outbox' \in [Ops -> [Keys -> EntryStates]]
    <3>1. CASE outbox' = [outbox EXCEPT !["enqueue"][k] = "none"]
      BY <3>1
    <3>2. CASE outbox' = [outbox EXCEPT !["enqueue"][k] = "none", !["cancel"][k] = "queued"]
      <4> DEFINE w == [outbox EXCEPT !["enqueue"][k] = "none"]
      <4>1. w \in [Ops -> [Keys -> EntryStates]]
        OBVIOUS
      <4>2. outbox' = [w EXCEPT !["cancel"][k] = "queued"]
        BY <3>2
      <4> QED BY <4>1, <4>2
    <3>3. CASE outbox' = [outbox EXCEPT !["cancel"][k] = "queued"]
      BY <3>3
    <3> QED BY <1>3, <3>1, <3>2, <3>3 DEF UserCancel
  <2> QED BY <2>1, <1>3 DEF UserCancel
<1>4. ASSUME NEW o \in Ops, Send(o, k) PROVE TypeOK'
  BY <1>4 DEF Send
<1>5. ASSUME NEW o \in Ops, LoseFrame(o, k) PROVE TypeOK'
  BY <1>5 DEF LoseFrame
<1> QED BY <1>1, <1>2, <1>3, <1>4, <1>5 DEF Client

(***************************************************************************)
(* What the pieces of a handler do to the type of the variables they set.  *)
(***************************************************************************)
LEMMA ReplyType ==
  ASSUME TypeOK, NEW k \in Keys, NEW ops, Reply(k, ops)
  PROVE  outbox' \in [Ops -> [Keys -> EntryStates]]
BY DEF TypeOK, Reply, Acknowledge, Unheard, EntryStates

LEMMA ReceiveType ==
  ASSUME TypeOK, NEW k \in Keys, NEW o \in Ops, Receive(o, k)
  PROVE  wire' \in [Ops -> [Keys -> Nat]]
BY DEF TypeOK, Receive

LEMMA InsertType ==
  ASSUME TypeOK, NEW k \in Keys, NEW initial \in CommandStates,
         NEW session \in Sessions \cup {NoSession}, Insert(k, initial, session)
  PROVE  /\ state' \in [Keys -> CommandStates]
         /\ attached' \in [Keys -> Sessions \cup {NoSession}]
         /\ rank' \in [Keys -> Nat]
<1>1. Cardinality({j \in Keys : state[j] # "none"}) \in Nat
  BY RankType
<1> DEFINE n == Cardinality({j \in Keys : state[j] # "none"})
<1>2. CASE state[k] = "none"
  <2>1. /\ state' = [state EXCEPT ![k] = initial]
        /\ attached' = [attached EXCEPT ![k] = session]
        /\ rank' = [rank EXCEPT ![k] = n]
    BY <1>2 DEF Insert
  <2> HIDE DEF n
  <2> QED BY <1>1, <2>1 DEF TypeOK, n
<1>3. CASE state[k] # "none"
  BY <1>3 DEF TypeOK, Insert
<1> QED BY <1>2, <1>3

LEMMA HandlerType ==
  ASSUME TypeOK, NEW k \in Keys, Handlers(k)
  PROVE  TypeOK'
<1> USE DEF clientVars, rowVars, sessionVars, runnerVars, worldVars
<1>1. ASSUME NEW trusted \in BOOLEAN, HandleCreate(k, trusted) PROVE TypeOK'
  <2>1. wire' \in [Ops -> [Keys -> Nat]]
    BY <1>1, ReceiveType DEF HandleCreate, Ops
  <2>2. outbox' \in [Ops -> [Keys -> EntryStates]]
    BY <1>1, ReplyType DEF HandleCreate
  <2>3. /\ state' \in [Keys -> CommandStates]
        /\ attached' \in [Keys -> Sessions \cup {NoSession}]
        /\ rank' \in [Keys -> Nat]
    BY <1>1, InsertType DEF HandleCreate, CommandStates
  <2> QED BY <1>1, <2>1, <2>2, <2>3 DEF HandleCreate, TypeOK
<1>2. CASE HandleFollowUp(k)
  <2>1. wire' \in [Ops -> [Keys -> Nat]]
    BY <1>2, ReceiveType DEF HandleFollowUp, Ops
  <2>2. outbox' \in [Ops -> [Keys -> EntryStates]]
    BY <1>2, ReplyType DEF HandleFollowUp
  <2>3. /\ state' \in [Keys -> CommandStates]
        /\ attached' \in [Keys -> Sessions \cup {NoSession}]
        /\ rank' \in [Keys -> Nat]
    BY <1>2, InsertType, RequestsAssumption DEF HandleFollowUp, CommandStates
  <2> QED BY <1>2, <2>1, <2>2, <2>3 DEF HandleFollowUp, TypeOK
<1>3. CASE HandleCancel(k)
  <2>1. wire' \in [Ops -> [Keys -> Nat]]
    BY <1>3, ReceiveType DEF HandleCancel, Ops
  <2>2. outbox' \in [Ops -> [Keys -> EntryStates]]
    BY <1>3, ReplyType DEF HandleCancel
  <2>3. state' \in [Keys -> CommandStates] /\ withdrawn' \subseteq Keys
    BY <1>3 DEF HandleCancel, CommandStates, Transition, TypeOK
  <2> QED BY <1>3, <2>1, <2>2, <2>3 DEF HandleCancel, TypeOK
<1>4. ASSUME NEW trusted \in BOOLEAN, RetryRead(k, trusted) PROVE TypeOK'
  <2>1. wire' \in [Ops -> [Keys -> Nat]]
    BY <1>4, ReceiveType DEF RetryRead, Ops
  <2>2. outbox' \in [Ops -> [Keys -> EntryStates]]
    BY <1>4, ReplyType DEF RetryRead, TypeOK
  <2>3. checked' \in [Keys -> [Verdicts -> Nat]]
    <3> DEFINE v == IF RetryInvalid(k, trusted) THEN "invalid" ELSE "valid"
    <3>1. v \in Verdicts
      BY DEF Verdicts
    <3>2. checked' = [checked EXCEPT ![k][v] = @ + 1] \/ checked' = checked
      BY <1>4 DEF RetryRead
    <3> HIDE DEF v
    <3>3. checked \in [Keys -> [Verdicts -> Nat]]
      BY DEF TypeOK
    <3>4. [checked EXCEPT ![k][v] = @ + 1] \in [Keys -> [Verdicts -> Nat]]
      BY <3>1, <3>3
    <3> QED BY <3>2, <3>3, <3>4
  <2> QED BY <1>4, <2>1, <2>2, <2>3 DEF RetryRead, TypeOK
<1>5. ASSUME NEW verdict \in Verdicts, RetryWrite(k, verdict) PROVE TypeOK'
  <2>1. outbox' \in [Ops -> [Keys -> EntryStates]]
    BY <1>5, ReplyType DEF RetryWrite, Unheard, TypeOK
  <2>2. checked' \in [Keys -> [Verdicts -> Nat]]
    BY <1>5 DEF RetryWrite, TypeOK, Verdicts
  <2>3. state' \in [Keys -> CommandStates] /\ requeues' \in [Keys -> Nat]
    <3>1. \/ /\ state' = [state EXCEPT ![k] = "queued"]
             /\ requeues' = [requeues EXCEPT ![k] = @ + 1]
          \/ UNCHANGED <<state, requeues>>
      BY <1>5 DEF RetryWrite, Transition
    <3>2. /\ [state EXCEPT ![k] = "queued"] \in [Keys -> CommandStates]
          /\ [requeues EXCEPT ![k] = @ + 1] \in [Keys -> Nat]
      BY DEF TypeOK, CommandStates
    <3> QED BY <3>1, <3>2 DEF TypeOK
  <2> QED BY <1>5, <2>1, <2>2, <2>3 DEF RetryWrite, TypeOK
<1> QED BY <1>1, <1>2, <1>3, <1>4, <1>5 DEF Handlers

LEMMA NoResultType ==
  [ok |-> FALSE, session |-> NoSession] \in Results
BY DEF Results

LEMMA RunnerType ==
  ASSUME TypeOK, LeaseHeld, Runner
  PROVE  TypeOK'
<1> USE DEF TypeOK, clientAndWorld, clientVars, rowVars, sessionVars, PCs, BeforePrompt,
  AfterPrompt
<1>1. CASE RunnerSessions
  BY <1>1 DEF RunnerSessions
<1>2. CASE RunnerQueue
  BY <1>2 DEF RunnerQueue
<1>3. CASE RunnerNothing
  BY <1>3 DEF RunnerNothing, NoSnap
<1>4. ASSUME NEW k \in Keys, RunnerSkip(k) PROVE TypeOK'
  BY <1>4 DEF RunnerSkip
<1>5. ASSUME NEW k \in Keys, RunnerClaim(k) PROVE TypeOK'
  BY <1>5 DEF RunnerClaim, Transition, CommandStates
<1>6. CASE RunnerMark
  BY <1>6 DEF RunnerMark, Transition, CommandStates
<1>7. CASE RunnerPrepare
  <2>1. \/ result' = [ok |-> FALSE, session |-> NoSession] /\ pc' = "finish"
        \/ result' = result /\ pc' = "materials"
    BY <1>7 DEF RunnerPrepare, Settle
  <2>2. result' \in Results /\ pc' \in PCs
    BY <2>1, NoResultType
  <2> QED BY <1>7, <2>2 DEF RunnerPrepare
<1>8. CASE RunnerMaterials
  <2>1. \/ result' = [ok |-> FALSE, session |-> NoSession] /\ pc' = "finish"
        \/ result' = result /\ pc' = "exec"
    BY <1>8 DEF RunnerMaterials, Settle
  <2>2. result' \in Results /\ pc' \in PCs
    BY <2>1, NoResultType
  <2> QED BY <1>8, <2>2 DEF RunnerMaterials
<1>9. CASE RunnerFinish
  BY <1>9 DEF RunnerFinish, Transition, CommandStates, NoResult, NoSnap, Results
<1> QED BY <1>1, <1>2, <1>3, <1>4, <1>5, <1>6, <1>7, <1>8, <1>9 DEF Runner

LEMMA ExecutorType ==
  ASSUME TypeOK, LeaseHeld, Executor
  PROVE  TypeOK'
<1>0. /\ pc \in Holding => cur \in Keys
      /\ pc \in Holding => attached[cur] \in Sessions \cup {NoSession}
  BY DEF LeaseHeld, TypeOK
<1> USE DEF TypeOK, Holding, execFrame, clientAndWorld, clientVars, PCs, BeforePrompt,
  AfterPrompt, RowStates, Results
<1>1. ASSUME NEW s \in Sessions, CodexCreate(s) PROVE TypeOK'
  BY <1>1 DEF CodexCreate
<1>2. ASSUME NEW s \in Sessions, ClaudeSession(s) PROVE TypeOK'
  BY <1>2 DEF ClaudeSession
<1>3. CASE CodexResume
  BY <1>0, <1>3 DEF CodexResume, Exists
<1>4. CASE CodexTurn
  BY <1>0, <1>4 DEF CodexTurn, HandOver
<1>5. CASE ClaudeSpawn
  <2>1. cur \in Keys /\ prompts' = [prompts EXCEPT ![cur] = @ + 1]
    BY <1>0, <1>5 DEF ClaudeSpawn, HandOver
  <2>2. prompts' \in [Keys -> Nat]
    BY <2>1
  <2>3. CASE Kind[cur] = "create"
    BY <1>5, <2>2, <2>3 DEF ClaudeSpawn
  <2>4. CASE Kind[cur] = "follow_up"
    <3>1. attached[cur] \in Sessions \cup {NoSession}
      BY <2>1
    <3>2. /\ row' = [row EXCEPT ![attached[cur]] = "turn"]
          /\ result' = [ok |-> FALSE, session |-> attached[cur]]
          /\ pc' = "output"
      BY <1>5, <2>4 DEF ClaudeSpawn
    <3>3. row' \in [Sessions -> RowStates] /\ result' \in Results /\ pc' \in PCs
      BY <3>1, <3>2
    <3> QED BY <1>5, <2>2, <3>3 DEF ClaudeSpawn
  <2> QED BY <1>5, <2>3, <2>4 DEF ClaudeSpawn
<1>6. CASE Attach
  BY <1>6 DEF Attach, Transition, CommandStates
<1>7. ASSUME NEW ok \in BOOLEAN, TurnEnds(ok) PROVE TypeOK'
  BY <1>7 DEF TurnEnds, Settle
<1>8. CASE ExecutorFails
  BY <1>0, <1>8 DEF ExecutorFails, Settle
<1> QED BY <1>1, <1>2, <1>3, <1>4, <1>5, <1>6, <1>7, <1>8 DEF Executor

LEMMA WorldType ==
  ASSUME TypeOK, World
  PROVE  TypeOK'
<1> USE DEF TypeOK, clientVars, rowVars, sessionVars, runnerVars, worldVars
<1>1. ASSUME NEW s \in Sessions, Occupy(s) \/ Vacate(s) \/ Scan(s) \/ Correlate(s)
      PROVE  TypeOK'
  BY <1>1 DEF Occupy, Vacate, Scan, Correlate, Move, RowStates
<1>2. ASSUME NEW k \in Keys, NEW outcome \in {"ready", "failed"}, Upload(k, outcome)
      PROVE  TypeOK'
  BY <1>2 DEF Upload, Move
<1> QED BY <1>1, <1>2 DEF World

LEMMA ProcessType ==
  ASSUME TypeOK, Crash \/ Restart
  PROVE  TypeOK'
<1>1. CASE Crash
  BY <1>1 DEF Crash, TypeOK, clientVars, rowVars, sessionVars, worldVars, PCs, NoSnap,
     NoResult, Results
<1>2. CASE Restart
  BY <1>2 DEF Restart, TypeOK, clientAndWorld, clientVars, PCs, Recovered, CommandStates,
     RowStates
<1> QED BY <1>1, <1>2

(***************************************************************************)
(* Types are kept by every step that starts with the lease in order.       *)
(***************************************************************************)
LEMMA TypeNext == TypeOK /\ LeaseHeld /\ [Next]_vars => TypeOK'
<1> SUFFICES ASSUME TypeOK, LeaseHeld, [Next]_vars PROVE TypeOK'
  OBVIOUS
<1>1. CASE UNCHANGED vars
  BY <1>1 DEF TypeOK, vars, clientVars, rowVars, sessionVars, runnerVars, worldVars
<1> QED
  BY <1>1, ClientType, HandlerType, RunnerType, ExecutorType, WorldType, ProcessType DEF Next


-----------------------------------------------------------------------------
(* 2. The safety invariants *)

(* A key without a row was neither prompted nor retried. *)
Unspent == \A k \in Keys : state[k] = "none" => prompts[k] = 0 /\ requeues[k] = 0

(***************************************************************************)
(* A command never points at a session without a row.                      *)
(***************************************************************************)
AttachedKnown == \A k \in Keys : attached[k] # NoSession => Exists(attached[k])

(***************************************************************************)
(* What the runner carries between two awaits: the session it works in has *)
(* a row, a follow-up past prepare() has one, and past the hand-over, and  *)
(* at a success, the prompt went out.                                      *)
(***************************************************************************)
SessionKnown ==
  /\ result.session # NoSession => Exists(result.session)
  /\ pc \in {"attach_codex", "attach_claude", "turn", "output"} => result.session # NoSession
  /\ pc \in {"materials", "exec"} /\ Kind[cur] = "follow_up" => attached[cur] # NoSession
  /\ pc \in AfterPrompt => prompts[cur] > 0
  /\ pc = "finish" /\ result.ok => result.session # NoSession /\ prompts[cur] > 0

(***************************************************************************)
(* The inductive invariant. LeaseHeld, PromptsAuthorised and               *)
(* CompletedHasSession are what is promised; the other three are what      *)
(* makes them inductive.                                                   *)
(***************************************************************************)
Safe ==
  /\ LeaseHeld /\ Unspent /\ PromptsAuthorised
  /\ AttachedKnown /\ SessionKnown /\ CompletedHasSession

IInv == TypeOK /\ Safe

(***************************************************************************)
(* All that Safe depends on.                                               *)
(***************************************************************************)
core == <<state, attached, requeues, row, pc, cur, result, prompts>>

LEMMA SafeInit == Init => Safe
BY RequestsAssumption
   DEF Init, Safe, LeaseHeld, Unspent, PromptsAuthorised, AttachedKnown, SessionKnown,
       CompletedHasSession,
       CanRun, Exists, Holding, BeforePrompt, AfterPrompt, NoResult

LEMMA SafeQuiet ==
  ASSUME IInv, UNCHANGED core
  PROVE  Safe'
BY DEF IInv, Safe, core, LeaseHeld, Unspent, PromptsAuthorised, AttachedKnown, SessionKnown,
       CompletedHasSession, CanRun, Exists

LEMMA SafeClient ==
  ASSUME IInv, NEW k \in Keys, Client(k)
  PROVE  Safe'
<1>1. UNCHANGED core
  BY DEF Client, UserSubmit, UserRetry, UserCancel, Send, LoseFrame, core, rowVars,
         sessionVars, runnerVars, worldVars
<1> QED BY <1>1, SafeQuiet

LEMMA SafeWorld ==
  ASSUME IInv, World
  PROVE  Safe'
<1>1. ASSUME NEW s \in Sessions, Scan(s)
      PROVE  Safe'
  <2>1. /\ \A r \in Sessions : Exists(r) => Exists(r)'
        /\ UNCHANGED <<state, attached, requeues, pc, cur, result, prompts>>
    BY <1>1 DEF Scan, Exists, IInv, TypeOK, rowVars, runnerVars, worldVars
  <2>2. result.session \in Sessions \cup {NoSession}
    BY DEF IInv, TypeOK, Results
  <2>3. \A k \in Keys : attached[k] \in Sessions \cup {NoSession}
    BY DEF IInv, TypeOK
  <2> QED BY <2>1, <2>2, <2>3 DEF IInv, Safe, LeaseHeld, Unspent, PromptsAuthorised,
    AttachedKnown, SessionKnown,
       CompletedHasSession, CanRun
<1>2. ASSUME ~ \E s \in Sessions : Scan(s)
      PROVE  UNCHANGED core
  BY <1>2 DEF World, Occupy, Vacate, Correlate, Upload, core, rowVars, sessionVars, runnerVars
<1> QED BY <1>1, <1>2, SafeQuiet

LEMMA SafeHandlers ==
  ASSUME IInv, NEW k \in Keys, Handlers(k)
  PROVE  Safe'
<1>0. UNCHANGED <<row, pc, cur, result, prompts>>
  BY DEF Handlers, HandleCreate, HandleFollowUp, HandleCancel, RetryRead, RetryWrite, rowVars,
         sessionVars, runnerVars, worldVars
<1>1. ASSUME NEW initial \in {"queued", "failed"}, NEW session, Insert(k, initial, session),
             session # NoSession => Exists(session), UNCHANGED requeues
      PROVE  Safe'
  <2>1. CASE state[k] # "none"
    BY <1>0, <1>1, <2>1, SafeQuiet DEF Insert, core
  <2>2. CASE state[k] = "none"
    <3>1. /\ state' = [state EXCEPT ![k] = initial]
          /\ attached' = [attached EXCEPT ![k] = session]
      BY <1>1, <2>2 DEF Insert
    <3> USE DEF IInv, TypeOK, Safe
    <3>2. LeaseHeld'
      BY <1>0, <2>2, <3>1 DEF LeaseHeld
    <3>3. Unspent' /\ PromptsAuthorised'
      BY <1>0, <1>1, <2>2, <3>1 DEF Unspent, PromptsAuthorised, CanRun
    <3>4. AttachedKnown'
      BY <1>0, <1>1, <3>1 DEF AttachedKnown, Exists
    <3>5. SessionKnown' /\ CompletedHasSession'
      <4>1. cur \in Keys => cur # k \/ pc \notin {"materials", "exec"}
        BY <2>2 DEF LeaseHeld, Holding, BeforePrompt
      <4> QED BY <1>0, <1>1, <2>2, <3>1, <4>1 DEF SessionKnown, CompletedHasSession, Exists
    <3> QED BY <3>2, <3>3, <3>4, <3>5
  <2> QED BY <2>1, <2>2
<1>2. ASSUME NEW trusted \in BOOLEAN, HandleCreate(k, trusted) PROVE Safe'
  BY <1>1, <1>2 DEF HandleCreate
<1>3. CASE HandleFollowUp(k)
  BY <1>1, <1>3 DEF HandleFollowUp
<1>4. CASE HandleCancel(k)
  <2>1. CASE UNCHANGED state
    BY <1>0, <1>4, <2>1, SafeQuiet DEF HandleCancel, core
  <2>2. CASE Transition(k, "queued", "canceled")
    BY <1>0, <1>4, <2>2 DEF HandleCancel, Transition, IInv, TypeOK, Safe, LeaseHeld, Unspent,
      PromptsAuthorised, AttachedKnown, SessionKnown,
       CompletedHasSession, CanRun, Exists
  <2> QED BY <1>4, <2>1, <2>2 DEF HandleCancel
<1>5. ASSUME NEW trusted \in BOOLEAN, RetryRead(k, trusted) PROVE Safe'
  BY <1>0, <1>5, SafeQuiet DEF RetryRead, core, rowVars
<1>6. ASSUME NEW verdict \in Verdicts, RetryWrite(k, verdict) PROVE Safe'
  <2>1. CASE UNCHANGED <<state, requeues>>
    BY <1>0, <1>6, <2>1, SafeQuiet DEF RetryWrite, core
  <2>2. CASE Transition(k, "failed", "queued") /\ requeues' = [requeues EXCEPT ![k] = @ + 1]
    BY <1>0, <1>6, <2>2 DEF RetryWrite, Transition, IInv, TypeOK, Safe, LeaseHeld, Unspent,
      PromptsAuthorised, AttachedKnown, SessionKnown,
       CompletedHasSession, CanRun, Exists
  <2> QED BY <1>6, <2>1, <2>2 DEF RetryWrite
<1> QED BY <1>2, <1>3, <1>4, <1>5, <1>6 DEF Handlers

LEMMA SafeRunner ==
  ASSUME IInv, Runner
  PROVE  Safe'
<1> USE DEF IInv, TypeOK, Safe, LeaseHeld, Unspent, PromptsAuthorised, AttachedKnown,
  SessionKnown,
       CompletedHasSession, CanRun, Exists, Holding, BeforePrompt, AfterPrompt, rowVars,
         sessionVars
<1>1. CASE RunnerSessions
  BY <1>1 DEF RunnerSessions
<1>2. CASE RunnerQueue
  BY <1>2 DEF RunnerQueue
<1>3. CASE RunnerNothing
  BY <1>3 DEF RunnerNothing
<1>4. ASSUME NEW k \in Keys, RunnerSkip(k) PROVE Safe'
  BY <1>4 DEF RunnerSkip
<1>5. ASSUME NEW k \in Keys, RunnerClaim(k) PROVE Safe'
  BY <1>5 DEF RunnerClaim, Transition
<1>6. CASE RunnerMark
  BY <1>6 DEF RunnerMark, Transition
<1>7. CASE RunnerPrepare
  <2>1. CASE Kind[cur] = "follow_up" /\ attached[cur] \notin snap.usable
    BY <1>7, <2>1 DEF RunnerPrepare, Settle
  <2>2. CASE ~ (Kind[cur] = "follow_up" /\ attached[cur] \notin snap.usable)
    <3>1. Kind[cur] = "follow_up" => attached[cur] # NoSession
      BY <2>2, RequestsAssumption
    <3> QED BY <1>7, <2>2, <3>1 DEF RunnerPrepare
  <2> QED BY <2>1, <2>2
<1>8. CASE RunnerMaterials
  BY <1>8 DEF RunnerMaterials, Settle
<1>9. CASE RunnerFinish
  BY <1>9 DEF RunnerFinish, Transition, NoResult
<1> QED BY <1>1, <1>2, <1>3, <1>4, <1>5, <1>6, <1>7, <1>8, <1>9 DEF Runner

(***************************************************************************)
(* An await of the runner or an executor that only moves the runner on,    *)
(* hands the prompt over or creates and updates session rows.              *)
(***************************************************************************)
LEMMA SafeAgentStep ==
  ASSUME IInv, pc \in Holding, pc' \in Holding,
         UNCHANGED <<state, attached, requeues, cur>>,
         \A s \in Sessions : Exists(s) => Exists(s)',
         \/ UNCHANGED prompts /\ (pc' \in BeforePrompt => pc \in BeforePrompt)
         \/ pc \in BeforePrompt /\ pc' \notin BeforePrompt /\ HandOver(cur),
         SessionKnown'
  PROVE  Safe'
<1> USE DEF IInv, TypeOK, Safe, HandOver
<1>1. LeaseHeld'
  BY DEF LeaseHeld, Holding, BeforePrompt, AfterPrompt
<1>2. Unspent' /\ PromptsAuthorised'
  BY DEF LeaseHeld, Unspent, PromptsAuthorised, CanRun
<1>3. CompletedHasSession'
  BY DEF CompletedHasSession, LeaseHeld
<1>4. AttachedKnown'
  BY DEF AttachedKnown
<1> QED BY <1>1, <1>2, <1>3, <1>4

LEMMA SafeExecutor ==
  ASSUME IInv, Executor
  PROVE  Safe'
<1>0. pc \in Holding => /\ cur \in Keys
                        /\ attached[cur] \in Sessions \cup {NoSession}
                        /\ prompts[cur] \in Nat
  BY DEF IInv, Safe, LeaseHeld, TypeOK
<1> USE DEF Holding, BeforePrompt, AfterPrompt, execFrame
<1>1. ASSUME NEW s \in Sessions, CodexCreate(s) \/ ClaudeSession(s) PROVE Safe'
  <2>1. \A r \in Sessions : Exists(r) => Exists(r)'
    BY <1>1 DEF CodexCreate, ClaudeSession, Exists, IInv, TypeOK
  <2>2. SessionKnown'
    <3>1. /\ row' = [row EXCEPT ![s] = "turn"]
          /\ result' = [ok |-> FALSE, session |-> s]
          /\ pc' = "attach_codex" \/ (pc' = "attach_claude" /\ pc = "spawned")
          /\ UNCHANGED <<attached, cur, prompts>>
      <4>1. CASE CodexCreate(s)
        <5>1. pc' = "attach_codex" /\ UNCHANGED <<attached, cur, prompts>>
          BY <4>1 DEF CodexCreate
        <5>2. /\ row' = [row EXCEPT ![s] = "turn"]
              /\ result' = [ok |-> FALSE, session |-> s]
          BY <4>1 DEF CodexCreate
        <5> QED BY <5>1, <5>2
      <4>2. CASE ClaudeSession(s)
        BY <4>2 DEF ClaudeSession
      <4> QED BY <1>1, <4>1, <4>2
    <3> QED BY <3>1, RequestsAssumption DEF SessionKnown, Exists, IInv, TypeOK, Safe
  <2> QED BY <1>1, <2>1, <2>2, SafeAgentStep DEF CodexCreate, ClaudeSession
<1>3. CASE CodexResume
  <2>1. \A r \in Sessions : Exists(r) => Exists(r)'
    BY <1>3 DEF CodexResume, Exists, IInv, TypeOK
  <2>2. attached[cur] \in Sessions
    BY <1>0, <1>3 DEF CodexResume, IInv, Safe, SessionKnown
  <2>3. SessionKnown'
    BY <1>3, <2>2, RequestsAssumption DEF CodexResume, SessionKnown, Exists, IInv, TypeOK
  <2> QED BY <1>3, <2>1, <2>3, SafeAgentStep DEF CodexResume
<1>4. CASE CodexTurn
  <2>1. SessionKnown'
    BY <1>0, <1>4 DEF CodexTurn, HandOver, SessionKnown, Exists, IInv, TypeOK, Safe
  <2> QED BY <1>4, <2>1, SafeAgentStep DEF CodexTurn, Exists
<1>6. CASE Attach
  <2> USE DEF IInv, TypeOK, Safe, LeaseHeld
  <2>1. LeaseHeld' /\ Unspent' /\ PromptsAuthorised'
    BY <1>6 DEF Attach, Transition, Unspent, PromptsAuthorised, CanRun
  <2>2. SessionKnown' /\ CompletedHasSession'
    BY <1>6 DEF Attach, Transition, SessionKnown, CompletedHasSession, Exists
  <2>3. AttachedKnown'
    BY <1>6 DEF Attach, Transition, SessionKnown, AttachedKnown, Exists
  <2> QED BY <2>1, <2>2, <2>3
<1>7. ASSUME NEW ok \in BOOLEAN, TurnEnds(ok) PROVE Safe'
  <2>1. \A r \in Sessions : Exists(r) => Exists(r)'
    BY <1>7 DEF TurnEnds, Exists, IInv, TypeOK
  <2>2. SessionKnown'
    BY <1>7, <2>1 DEF TurnEnds, Settle, SessionKnown, Exists, IInv, TypeOK, Safe, Results
  <2> QED BY <1>7, <2>1, <2>2, SafeAgentStep DEF TurnEnds, Settle
<1>8. CASE ExecutorFails
  <2>1. \A r \in Sessions : Exists(r) => Exists(r)'
    BY <1>8 DEF ExecutorFails, Exists, IInv, TypeOK
  <2>2. SessionKnown'
    <3>1. /\ pc' = "finish"
          /\ result' = [ok |-> FALSE, session |-> attached[cur]]
          /\ UNCHANGED <<attached, cur, prompts>>
      BY <1>8 DEF ExecutorFails, Settle
    <3>2. attached[cur] # NoSession => Exists(attached[cur])'
      BY <1>0, <1>8, <2>1 DEF IInv, Safe, AttachedKnown, ExecutorFails
    <3> QED BY <3>1, <3>2 DEF SessionKnown
  <2> QED BY <1>8, <2>1, <2>2, SafeAgentStep DEF ExecutorFails, Settle
<1>5. CASE ClaudeSpawn
  <2>1. \A r \in Sessions : Exists(r) => Exists(r)'
    BY <1>5 DEF ClaudeSpawn, Exists, IInv, TypeOK
  <2>2. prompts'[cur] > 0
    BY <1>0, <1>5 DEF ClaudeSpawn, HandOver, IInv, TypeOK
  <2>3. SessionKnown'
    <3>1. CASE Kind[cur] = "create"
      BY <1>5, <2>2, <3>1 DEF ClaudeSpawn, SessionKnown, Exists, IInv, TypeOK, Safe
    <3>2. CASE Kind[cur] = "follow_up"
      <4>1. attached[cur] \in Sessions /\ Exists(attached[cur])
        BY <1>0, <1>5, <3>2 DEF ClaudeSpawn, IInv, Safe, SessionKnown
      <4>2. /\ pc' = "output"
            /\ result' = [ok |-> FALSE, session |-> attached[cur]]
            /\ UNCHANGED <<attached, cur>>
        BY <1>5, <3>2 DEF ClaudeSpawn
      <4> QED BY <2>1, <2>2, <4>1, <4>2, RequestsAssumption DEF SessionKnown
    <3> QED BY <1>5, <3>1, <3>2 DEF ClaudeSpawn
  <2> QED BY <1>5, <2>1, <2>3, SafeAgentStep DEF ClaudeSpawn
<1> QED BY <1>1, <1>3, <1>4, <1>5, <1>6, <1>7, <1>8 DEF Executor

LEMMA SafeProcess ==
  ASSUME IInv, Crash \/ Restart
  PROVE  Safe'
<1> USE DEF IInv, TypeOK, Safe
<1>1. CASE Crash
  BY <1>1 DEF Crash, rowVars, sessionVars, worldVars, NoResult, LeaseHeld, Unspent,
       PromptsAuthorised, AttachedKnown, SessionKnown, CompletedHasSession, CanRun, Exists,
         Holding,
       BeforePrompt, AfterPrompt
<1>2. CASE Restart
  <2> USE <1>2 DEF Restart, clientAndWorld
  <2>1. \A k \in Keys : state'[k] = Recovered(state[k])
    OBVIOUS
  <2>2. \A s \in Sessions : Exists(s) => Exists(s)'
    BY DEF Exists
  <2>3. LeaseHeld'
    BY <2>1 DEF LeaseHeld, Recovered, Holding, BeforePrompt, AfterPrompt
  <2>4. Unspent' /\ PromptsAuthorised'
    BY <2>1 DEF Unspent, PromptsAuthorised, CanRun, Recovered
  <2>5. SessionKnown'
    BY <2>2 DEF SessionKnown, Results, AfterPrompt
  <2>6. AttachedKnown' /\ CompletedHasSession'
    BY <2>1, <2>2 DEF AttachedKnown, CompletedHasSession, Recovered
  <2> QED BY <2>3, <2>4, <2>5, <2>6
<1> QED BY <1>1, <1>2

LEMMA SafeNext == IInv /\ [Next]_vars => Safe'
<1> SUFFICES ASSUME IInv, [Next]_vars PROVE Safe'
  OBVIOUS
<1>1. CASE UNCHANGED vars
  BY <1>1, SafeQuiet DEF core, vars, clientVars, rowVars, sessionVars, runnerVars, worldVars
<1> QED
  BY <1>1, SafeClient, SafeHandlers, SafeRunner, SafeExecutor, SafeWorld, SafeProcess DEF Next

(***************************************************************************)
(* IInv holds in every reachable state.                                    *)
(***************************************************************************)
THEOREM Invariance == Spec => []IInv
<1>1. Init => IInv
  BY TypeInit, SafeInit DEF IInv
<1>2. IInv /\ [Next]_vars => IInv'
  BY TypeNext, SafeNext DEF IInv, Safe
<1> QED BY <1>1, <1>2, PTL DEF Spec

(***************************************************************************)
(* Every variable keeps its type, in particular the runner never works     *)
(* without a command.                                                      *)
(***************************************************************************)
THEOREM TypeCorrect == Spec => []TypeOK
BY Invariance, PTL DEF IInv

(***************************************************************************)
(* While the service is up, the rows in dispatching and running are        *)
(* exactly the one the serial runner of task_runner.rs holds, in the state *)
(* its next compare-and-set expects.                                       *)
(***************************************************************************)
THEOREM LeaseHolds == Spec => []LeaseHeld
BY Invariance, PTL DEF IInv, Safe

(***************************************************************************)
(* No agent gets a prompt more often than the command was inserted plus    *)
(* retried: neither replayed frames nor the recovery of                    *)
(* recover_runtime_state() repeat one.                                     *)
(***************************************************************************)
THEOREM PromptsArePaidFor == Spec => []PromptsAuthorised
BY Invariance, PTL DEF IInv, Safe

(***************************************************************************)
(* A command that finish() completed points at a session with a row, and   *)
(* its prompt went out.                                                    *)
(***************************************************************************)
THEOREM CompletedIsOpenable == Spec => []CompletedHasSession
BY Invariance, PTL DEF IInv, Safe

(***************************************************************************)
(* All of it: what the run of a follow-up checks of the queue's state.     *)
(***************************************************************************)
THEOREM QueueKeepsSafe == Spec => []QueueIsSafe
<1>1. TypeOK /\ LeaseHeld /\ PromptsAuthorised /\ CompletedHasSession => QueueIsSafe
  BY DEF QueueIsSafe
<1> QED
  BY <1>1, TypeCorrect, LeaseHolds, PromptsArePaidFor, CompletedIsOpenable, PTL

-----------------------------------------------------------------------------
(* 3. Withdrawn commands *)

(***************************************************************************)
(* Nobody but the insert of a new row, the claim, the retry and recovery   *)
(* write a command's state without holding it, and none of them starts     *)
(* from canceled.                                                          *)
(***************************************************************************)
LEMMA CanceledStep ==
  ASSUME IInv, [Next]_vars, NEW k \in Keys, state[k] = "canceled"
  PROVE  state'[k] = "canceled" /\ prompts'[k] = prompts[k]
<1>1. cur \in Keys /\ pc \in Holding \cup {"claimed"} => cur # k
  BY DEF IInv, Safe, LeaseHeld
<1>2. CASE UNCHANGED <<state, prompts>>
  BY <1>2
<1>3. CASE \E j \in Keys : Client(j) \/ Handlers(j)
  <2>1. PICK j \in Keys : Client(j) \/ Handlers(j)
    BY <1>3
  <2>2. CASE Client(j)
    BY <2>2 DEF Client, UserSubmit, UserRetry, UserCancel, Send, LoseFrame, rowVars, worldVars
  <2>3. CASE (\E trusted \in BOOLEAN : HandleCreate(j, trusted)) \/ HandleFollowUp(j)
    BY <2>3 DEF HandleCreate, HandleFollowUp, Insert, rowVars, worldVars, IInv, TypeOK
  <2>4. CASE HandleCancel(j)
    BY <2>4 DEF HandleCancel, Transition, rowVars, worldVars, IInv, TypeOK
  <2>5. CASE \/ \E trusted \in BOOLEAN : RetryRead(j, trusted)
             \/ \E verdict \in Verdicts : RetryWrite(j, verdict)
    BY <2>5 DEF RetryRead, RetryWrite, Transition, rowVars, worldVars, IInv, TypeOK
  <2> QED BY <2>1, <2>2, <2>3, <2>4, <2>5 DEF Handlers
<1>4. CASE Runner
  BY <1>4 DEF Runner, RunnerSessions, RunnerQueue, RunnerNothing, RunnerSkip, RunnerClaim,
     RunnerMark, RunnerPrepare, RunnerMaterials, RunnerFinish, Transition, rowVars, IInv, TypeOK
<1>5. CASE Executor
  BY <1>1, <1>5 DEF Executor, CodexCreate, ClaudeSession, CodexResume, CodexTurn, ClaudeSpawn,
     Attach, TurnEnds, ExecutorFails, Transition, HandOver, IInv, TypeOK, Safe, LeaseHeld,
       Holding,
     BeforePrompt, AfterPrompt
<1>6. CASE World
  BY <1>6 DEF World, Occupy, Vacate, Scan, Correlate, Upload, rowVars, worldVars
<1>7. CASE Crash \/ Restart
  BY <1>7 DEF Crash, Restart, Recovered, rowVars, worldVars, IInv, TypeOK
<1> QED
  BY <1>2, <1>3, <1>4, <1>5, <1>6, <1>7 DEF Next, vars, rowVars, worldVars

(***************************************************************************)
(* A command the cancel handler withdrew stays withdrawn, and its prompt   *)
(* is never handed over, in every behaviour.                               *)
(***************************************************************************)
THEOREM CanceledStaysCanceled == Spec => CanceledIsFinal
<1>1. IInv /\ [Next]_vars =>
        [\A k \in Keys : state[k] = "canceled" =>
            state'[k] = "canceled" /\ prompts'[k] = prompts[k]]_vars
  BY CanceledStep
<1> QED BY <1>1, Invariance, PTL DEF Spec, CanceledIsFinal

-----------------------------------------------------------------------------
(* 4. The ledger *)

(***************************************************************************)
(* An entry whose row and counters are untouched is the same ledger entry. *)
(***************************************************************************)
LEMMA LedgerSame ==
  ASSUME IInv, NEW k \in Keys,
         state'[k] = state[k], requeues'[k] = requeues[k], prompts'[k] = prompts[k],
         CanRun(k)' <=> CanRun(k)
  PROVE  Ledger!Same(k)
<1>1. state[k] \in CommandStates
  BY DEF IInv, TypeOK
<1> QED BY <1>1 DEF Ledger!Same, LedgerStatus, LedgerGranted, CommandStates

LEMMA LedgerPrompt ==
  ASSUME IInv, pc \in BeforePrompt, HandOver(cur), pc' \notin BeforePrompt, UNCHANGED <<state,
         requeues>>
  PROVE  Ledger!Prompt(cur)
BY DEF Ledger!Prompt, LedgerStatus, LedgerGranted, HandOver, CanRun, IInv, Safe, LeaseHeld,
  TypeOK, Holding

LEMMA LedgerGrant ==
  ASSUME IInv, NEW k \in Keys, state[k] = "none", state'[k] \in {"queued", "failed"},
         requeues'[k] = requeues[k], prompts'[k] = prompts[k]
  PROVE  Ledger!Grant(k)
BY DEF Ledger!Grant, LedgerStatus, LedgerGranted, IInv, TypeOK

LEMMA LedgerHandlers ==
  ASSUME IInv, NEW k \in Keys, Handlers(k), NEW j \in Keys
  PROVE  Ledger!Step(j) \/ Ledger!Same(j)
<1>0. UNCHANGED <<pc, cur, prompts>>
  BY DEF Handlers, HandleCreate, HandleFollowUp, HandleCancel, RetryRead, RetryWrite, worldVars,
         runnerVars
<1>1. CASE j # k
  <2>1. state'[j] = state[j] /\ requeues'[j] = requeues[j]
    BY <1>1 DEF Handlers, HandleCreate, HandleFollowUp, HandleCancel, RetryRead, RetryWrite,
       Insert, Transition, rowVars, IInv, TypeOK
  <2> QED BY <1>0, <2>1, LedgerSame DEF CanRun
<1>2. CASE j = k
  <2>1. \/ UNCHANGED <<state, requeues>>
        \/ /\ state[k] = "none" /\ state'[k] \in {"queued", "failed"}
           /\ requeues' = requeues
        \/ /\ state[k] = "queued" /\ state'[k] = "canceled"
           /\ requeues' = requeues
        \/ /\ state[k] = "failed" /\ state'[k] = "queued"
           /\ requeues' = [requeues EXCEPT ![k] = @ + 1]
    BY DEF Handlers, HandleCreate, HandleFollowUp, HandleCancel, RetryRead, RetryWrite,
       Insert, Transition, rowVars, IInv, TypeOK
  <2>2. CASE UNCHANGED <<state, requeues>>
    BY <1>0, <1>2, <2>2, LedgerSame DEF CanRun
  <2>3. CASE state[k] = "none" /\ state'[k] \in {"queued", "failed"} /\ requeues' = requeues
    BY <1>0, <1>2, <2>3, LedgerGrant DEF Ledger!Step
  <2>4. CASE state[k] = "queued" /\ state'[k] = "canceled" /\ requeues' = requeues
    <3>1. Ledger!Withdraw(k)
      BY <1>0, <2>4 DEF Ledger!Withdraw, Ledger!Move, LedgerStatus, LedgerGranted
    <3> QED BY <1>2, <3>1 DEF Ledger!Step
  <2>5. CASE /\ state[k] = "failed" /\ state'[k] = "queued"
             /\ requeues' = [requeues EXCEPT ![k] = @ + 1]
    <3>1. Ledger!Grant(k)
      BY <1>0, <2>5 DEF Ledger!Grant, LedgerStatus, LedgerGranted, IInv, TypeOK
    <3> QED BY <1>2, <3>1 DEF Ledger!Step
  <2> QED BY <2>1, <2>2, <2>3, <2>4, <2>5
<1> QED BY <1>1, <1>2

(***************************************************************************)
(* While the runner works for one command, no other row is in a working    *)
(* state, so the others are not affected by where it is.                   *)
(***************************************************************************)
LEMMA LedgerOthers ==
  ASSUME IInv, cur \in Keys, pc # "down", NEW j \in Keys, j # cur,
         cur' = cur \/ cur' = NoKey,
         state'[j] = state[j], requeues'[j] = requeues[j], prompts'[j] = prompts[j]
  PROVE  Ledger!Same(j)
<1>1. state[j] \notin {"dispatching", "running"}
  BY DEF IInv, Safe, LeaseHeld
<1> QED BY <1>1, LedgerSame DEF CanRun

(***************************************************************************)
(* An await before the hand-over that goes on, or gives up: the ledger     *)
(* entry stays, or its outcome becomes uncertain.                          *)
(***************************************************************************)
LEMMA LedgerSettle ==
  ASSUME IInv, cur \in Keys, state[cur] = "running", pc \in BeforePrompt,
         pc' \in BeforePrompt \cup {"finish"}, UNCHANGED <<state, requeues, prompts, cur>>,
         NEW j \in Keys
  PROVE  Ledger!Step(j) \/ Ledger!Same(j)
<1>1. CASE pc' = "finish" /\ j = cur
  <2>1. Ledger!Interrupt(j)
    BY <1>1 DEF Ledger!Interrupt, Ledger!Move, LedgerStatus, LedgerGranted, CanRun, BeforePrompt
  <2> QED BY <2>1 DEF Ledger!Step
<1>2. CASE pc' # "finish" \/ j # cur
  BY <1>2, LedgerSame DEF CanRun
<1> QED BY <1>1, <1>2

LEMMA LedgerRunner ==
  ASSUME IInv, Runner, NEW j \in Keys
  PROVE  Ledger!Step(j) \/ Ledger!Same(j)
<1>1. CASE RunnerSessions \/ RunnerQueue \/ RunnerNothing \/ \E k \in Keys : RunnerSkip(k)
  <2>1. UNCHANGED <<state, requeues, prompts>>
    BY <1>1 DEF RunnerSessions, RunnerQueue, RunnerNothing, RunnerSkip, rowVars
  <2>2. pc \notin BeforePrompt /\ pc' \notin BeforePrompt
    BY <1>1 DEF RunnerSessions, RunnerQueue, RunnerNothing, RunnerSkip, BeforePrompt
  <2> QED BY <2>1, <2>2, LedgerSame DEF CanRun
<1>2. ASSUME NEW k \in Keys, RunnerClaim(k)
      PROVE  Ledger!Same(j)
  <2>1. /\ state[k] = "queued" /\ state' = [state EXCEPT ![k] = "dispatching"]
        /\ UNCHANGED <<requeues, prompts>>
        /\ pc \notin BeforePrompt /\ pc' \notin BeforePrompt
    BY <1>2 DEF RunnerClaim, Transition, BeforePrompt
  <2>2. CASE j # k
    BY <2>1, <2>2, LedgerSame DEF CanRun, IInv, TypeOK
  <2>3. CASE j = k
    BY <2>1, <2>3 DEF Ledger!Same, LedgerStatus, LedgerGranted, IInv, TypeOK
  <2> QED BY <2>2, <2>3
<1>3. CASE RunnerMark
  <2>0. cur \in Keys
    BY <1>3 DEF RunnerMark, IInv, Safe, LeaseHeld
  <2>1. CASE j # cur
    BY <1>3, <2>0, <2>1, LedgerOthers DEF RunnerMark, Transition, IInv, TypeOK
  <2>2. Ledger!Start(cur)
    BY <1>3, <2>0 DEF RunnerMark, Transition, Ledger!Start, Ledger!Move, LedgerStatus,
       LedgerGranted, CanRun, BeforePrompt, IInv, TypeOK
  <2> QED BY <2>1, <2>2 DEF Ledger!Step
<1>4. CASE RunnerPrepare \/ RunnerMaterials
  <2>0. /\ cur \in Keys /\ state[cur] = "running"
        /\ pc \in BeforePrompt /\ pc' \in BeforePrompt \cup {"finish"}
        /\ UNCHANGED <<state, requeues, prompts, cur>>
    BY <1>4 DEF RunnerPrepare, RunnerMaterials, Settle, rowVars, IInv, Safe, LeaseHeld, Holding,
       BeforePrompt
  <2> QED BY <2>0, LedgerSettle
<1>5. CASE RunnerFinish
  <2>0. /\ cur \in Keys /\ state[cur] = "running" /\ pc = "finish"
        /\ UNCHANGED <<requeues, prompts>>
        /\ \/ state' = [state EXCEPT ![cur] = "completed"]
           \/ state' = [state EXCEPT ![cur] = "failed"]
    BY <1>5 DEF RunnerFinish, Transition, IInv, Safe, LeaseHeld, Holding
  <2>1. CASE j # cur
    BY <1>5, <2>0, <2>1, LedgerOthers DEF RunnerFinish, IInv, TypeOK
  <2>2. Ledger!GiveUp(cur) \/ Ledger!Complete(cur)
    BY <2>0 DEF Ledger!GiveUp, Ledger!Complete, Ledger!Move, LedgerStatus, LedgerGranted,
      CanRun,
       BeforePrompt, IInv, TypeOK
  <2> QED BY <2>1, <2>2 DEF Ledger!Step
<1> QED BY <1>1, <1>2, <1>3, <1>4, <1>5 DEF Runner

LEMMA LedgerExecutor ==
  ASSUME IInv, Executor, NEW j \in Keys
  PROVE  Ledger!Step(j) \/ Ledger!Same(j)
<1>1. CASE CodexTurn \/ ClaudeSpawn
  <2>0. /\ cur \in Keys /\ pc \in BeforePrompt /\ pc' \notin BeforePrompt /\ pc # "down"
        /\ HandOver(cur) /\ UNCHANGED <<state, requeues, cur>>
    BY <1>1 DEF CodexTurn, ClaudeSpawn, execFrame, BeforePrompt, IInv, Safe, LeaseHeld, Holding
  <2>1. CASE j # cur
    BY <2>0, <2>1, LedgerOthers DEF HandOver, IInv, TypeOK
  <2> QED BY <2>0, <2>1, LedgerPrompt DEF Ledger!Step
<1>2. CASE Attach
  <2>1. state'[j] = state[j] /\ UNCHANGED <<requeues, prompts, cur>>
    BY <1>2 DEF Attach, Transition, execFrame, IInv, TypeOK
  <2>2. pc \in BeforePrompt <=> pc' \in BeforePrompt
    BY <1>2 DEF Attach, BeforePrompt
  <2> QED BY <2>1, <2>2, LedgerSame DEF CanRun
<1>3. CASE \/ CodexResume \/ ExecutorFails
           \/ \E s \in Sessions : CodexCreate(s)
  <2>0. /\ cur \in Keys /\ state[cur] = "running" /\ pc # "down"
        /\ UNCHANGED <<state, requeues, prompts, cur>>
        /\ \/ pc \in BeforePrompt /\ pc' \in BeforePrompt \cup {"finish"}
           \/ pc \notin BeforePrompt /\ pc' \notin BeforePrompt
    BY <1>3 DEF CodexResume, ExecutorFails, CodexCreate, Settle, execFrame, IInv, Safe,
      LeaseHeld,
       Holding, BeforePrompt, AfterPrompt
  <2> QED BY <2>0, LedgerSettle, LedgerSame DEF CanRun
<1>4. CASE \/ \E ok \in BOOLEAN : TurnEnds(ok)
           \/ \E s \in Sessions : ClaudeSession(s)
  <2>1. /\ pc \notin BeforePrompt /\ pc' \notin BeforePrompt
        /\ UNCHANGED <<state, requeues, prompts>>
    BY <1>4 DEF TurnEnds, ClaudeSession, Settle, execFrame, BeforePrompt
  <2> QED BY <2>1, LedgerSame DEF CanRun
<1> QED BY <1>1, <1>2, <1>3, <1>4 DEF Executor

LEMMA LedgerProcess ==
  ASSUME IInv, Crash \/ Restart, NEW j \in Keys
  PROVE  Ledger!Step(j) \/ Ledger!Same(j)
<1>1. CASE Crash
  <2>0. UNCHANGED <<state, requeues, prompts>> /\ pc' = "down"
    BY <1>1 DEF Crash, rowVars, worldVars
  <2>1. CASE state[j] = "running" /\ CanRun(j)
    <3>1. Ledger!Interrupt(j)
      BY <2>0, <2>1 DEF Ledger!Interrupt, Ledger!Move, LedgerStatus, LedgerGranted, CanRun,
         BeforePrompt
    <3> QED BY <3>1 DEF Ledger!Step
  <2>2. CASE ~ (state[j] = "running" /\ CanRun(j))
    BY <2>0, <2>2, LedgerSame DEF CanRun, BeforePrompt
  <2> QED BY <2>1, <2>2
<1>2. CASE Restart
  <2>0. /\ state'[j] = Recovered(state[j]) /\ UNCHANGED <<requeues, prompts>>
        /\ pc = "down" /\ pc' = "idle"
    BY <1>2 DEF Restart
  <2>1. CASE state[j] = "running"
    <3>1. Ledger!GiveUp(j)
      BY <2>0, <2>1 DEF Ledger!GiveUp, Ledger!Move, LedgerStatus, LedgerGranted, CanRun,
         BeforePrompt, Recovered
    <3> QED BY <3>1 DEF Ledger!Step
  <2>2. CASE state[j] # "running"
    <3>1. CASE state[j] = "dispatching"
      BY <2>0, <3>1 DEF Ledger!Same, LedgerStatus, LedgerGranted, Recovered
    <3>2. CASE state[j] # "dispatching"
      BY <2>0, <2>2, <3>2, LedgerSame DEF CanRun, Recovered
    <3> QED BY <3>1, <3>2
  <2> QED BY <2>1, <2>2
<1> QED BY <1>1, <1>2

LEMMA LedgerEntries ==
  ASSUME IInv, [Next]_vars, NEW j \in Keys
  PROVE  Ledger!Step(j) \/ Ledger!Same(j)
<1>1. CASE UNCHANGED vars
  BY <1>1, LedgerSame DEF vars, rowVars, runnerVars, worldVars, CanRun
<1>2. ASSUME NEW k \in Keys, Client(k)
      PROVE  Ledger!Same(j)
  <2>1. UNCHANGED <<state, requeues, prompts, pc, cur>>
    BY <1>2 DEF Client, UserSubmit, UserRetry, UserCancel, Send, LoseFrame, rowVars, runnerVars,
       worldVars
  <2> QED BY <2>1, LedgerSame DEF CanRun
<1>3. CASE World
  <2>1. UNCHANGED <<state, requeues, prompts, pc, cur>>
    BY <1>3 DEF World, Occupy, Vacate, Scan, Correlate, Upload, rowVars, runnerVars, worldVars
  <2> QED BY <2>1, LedgerSame DEF CanRun
<1> QED
  BY <1>1, <1>2, <1>3, LedgerHandlers, LedgerRunner, LedgerExecutor, LedgerProcess DEF Next

(***************************************************************************)
(* The queue, its handlers, runner, executors, crashes and restarts        *)
(* implement CommandLedger under the refinement mapping of TaskCommands:   *)
(* every behaviour is a behaviour of the ledger.                           *)
(***************************************************************************)
THEOREM ImplementsLedger == Spec => LedgerSpec
<1>1. Init => Ledger!Init
  BY DEF Init, Ledger!Init, LedgerStatus, LedgerGranted
<1>2. IInv /\ IInv' /\ [Next]_vars => [Ledger!Next]_(Ledger!vars)
  <2> SUFFICES ASSUME IInv, IInv', [Next]_vars
               PROVE  Ledger!Next
    OBVIOUS
  <2>1. \A j \in Keys : Ledger!Step(j) \/ Ledger!Same(j)
    BY LedgerEntries
  <2>2. /\ [k \in Keys |-> LedgerStatus(k)]' \in [Keys -> Ledger!Status]
        /\ [k \in Keys |-> LedgerGranted(k)]' \in [Keys -> Nat]
        /\ prompts' \in [Keys -> Nat]
    <3>1. TypeOK'
      BY DEF IInv
    <3>2. ASSUME NEW k \in Keys
          PROVE  LedgerStatus(k)' \in Ledger!Status /\ LedgerGranted(k)' \in Nat
      <4>1. state'[k] \in CommandStates /\ requeues'[k] \in Nat
        BY <3>1 DEF TypeOK
      <4> QED BY <4>1 DEF LedgerStatus, LedgerGranted, Ledger!Status, CommandStates
    <3> QED BY <3>1, <3>2 DEF TypeOK
  <2> QED BY <2>1, <2>2 DEF Ledger!Next
<1> QED BY <1>1, <1>2, Invariance, PTL DEF Spec, LedgerSpec, Ledger!Spec

-----------------------------------------------------------------------------
(* 5. The ledger's own promise *)

(***************************************************************************)
(* One entry's step keeps its prompts within its grants.                   *)
(***************************************************************************)
LEMMA EntryStep ==
  ASSUME Ledger!TypeOK, NEW k \in Keys, Ledger!Step(k) \/ Ledger!Same(k),
         prompts[k] + (IF Ledger!Open(k) THEN 1 ELSE 0) <= LedgerGranted(k)
  PROVE  prompts'[k] + (IF Ledger!Open(k)' THEN 1 ELSE 0) <= LedgerGranted(k)'
<1> USE DEF Ledger!TypeOK, Ledger!Open
<1>1. CASE Ledger!Same(k)
  BY <1>1 DEF Ledger!Same
<1>2. CASE Ledger!Grant(k)
  BY <1>2 DEF Ledger!Grant
<1>3. CASE Ledger!Prompt(k)
  BY <1>3 DEF Ledger!Prompt
<1>4. CASE \/ Ledger!Withdraw(k) \/ Ledger!Start(k) \/ Ledger!Interrupt(k)
           \/ Ledger!GiveUp(k) \/ Ledger!Complete(k)
  BY <1>4 DEF Ledger!Withdraw, Ledger!Start, Ledger!Interrupt, Ledger!GiveUp, Ledger!Complete,
              Ledger!Move
<1> QED BY <1>1, <1>2, <1>3, <1>4 DEF Ledger!Step

(***************************************************************************)
(* In any ledger, whatever order the user's acts, the prompts and the      *)
(* interruptions come in, every prompt is paid for by a grant.  With       *)
(* ImplementsLedger this gives PromptsArePaidFor a second time.            *)
(***************************************************************************)
THEOREM LedgerPays == LedgerSpec => [](Ledger!TypeOK /\ Ledger!PromptsPaidFor)
<1>1. Ledger!Init => Ledger!TypeOK /\ Ledger!PromptsPaidFor
  BY DEF Ledger!Init, Ledger!TypeOK, Ledger!PromptsPaidFor, Ledger!Status, Ledger!Open
<1>2. Ledger!TypeOK /\ Ledger!PromptsPaidFor /\ [Ledger!Next]_(Ledger!vars)
        => (Ledger!TypeOK /\ Ledger!PromptsPaidFor)'
  <2> SUFFICES ASSUME Ledger!TypeOK, Ledger!PromptsPaidFor, [Ledger!Next]_(Ledger!vars)
               PROVE  Ledger!TypeOK' /\ Ledger!PromptsPaidFor'
    OBVIOUS
  <2>1. CASE UNCHANGED Ledger!vars
    BY <2>1 DEF Ledger!vars, Ledger!TypeOK, Ledger!PromptsPaidFor, Ledger!Open
  <2>2. CASE Ledger!Next
    <3>1. Ledger!TypeOK'
      BY <2>2 DEF Ledger!Next, Ledger!TypeOK
    <3>2. Ledger!PromptsPaidFor'
      BY <2>2, EntryStep DEF Ledger!Next, Ledger!PromptsPaidFor
    <3> QED BY <3>1, <3>2
  <2> QED BY <2>1, <2>2
<1> QED BY <1>1, <1>2, PTL DEF LedgerSpec, Ledger!Spec
=============================================================================
