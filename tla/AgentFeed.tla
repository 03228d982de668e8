------------------------------ MODULE AgentFeed ------------------------------
(***************************************************************************)
(* The feed agents write to with the tools feed.post, feed.skip and        *)
(* signal.transition (agent-tools.ts): which session a call belongs to     *)
(* (store.ts), the turn's editorial decision (hook-server.ts), the posts   *)
(* with their dedupe keys and the merging of progress, the state of the    *)
(* agents' tasks, and the pushes that tell of results and failures         *)
(* (runtime.ts).                                                           *)
(*                                                                         *)
(* All agents are of one provider and work in one directory, so nothing    *)
(* but what the bridge knows of their processes tells them apart.  A run   *)
(* is an agent's own session, or the session "tool:<task>" the bridge      *)
(* makes for a task it cannot attribute; the task's name stands for it.    *)
(* A task is never named like a provider's session.                        *)
(***************************************************************************)
EXTENDS Naturals, SequencesExt

CONSTANTS
  Agents,      \* the agents' sessions
  Tasks,       \* the task ids they report about
  Keys,        \* dedupe keys
  Nobody,      \* no agent, no task
  Kinds,       \* kinds of posts that occur
  States,      \* states of tasks that occur
  MaxPosts,    \* bound: posts in the feed
  MaxTurns,    \* bound: turns that begin
  MaxRestarts  \* bound: ends of the bridge

ASSUME RunsDiffer == Agents \intersect Tasks = {} /\ Nobody \notin Agents \union Tasks
ASSUME KindsOfPosts ==
  Kinds \subseteq {"progress", "decision", "attention", "result", "failure"}
ASSUME StatesOfTasks ==
  States \subseteq {"running", "waiting_input", "reviewing", "user_review",
                    "failed", "completed"}
ASSUME BoundsAreNatural == MaxPosts \in Nat /\ MaxTurns \in Nat /\ MaxRestarts \in Nat

VARIABLES
  shown,      \* agents whose session row has their process id
  toolPid,    \* the process a tool session's row names, for each task
  checkpoint, \* the feed checkpoint, for each run
  posts,      \* the feed's posts by the time they were created
  task,       \* state and run, for each task
  alarm,      \* the runtime's failure bookkeeping, for each task
  push,       \* the status push that waits, for each run
  voice,      \* history: what was said of a task's failure: silent, due, told
  lost,       \* history: failed tasks whose timers a restart ended
  turns,      \* turns begun
  restarts    \* ends of the bridge

vars == <<shown, toolPid, checkpoint, posts, task, alarm, push, voice, lost,
          turns, restarts>>

Runs == Agents \union Tasks

\* No checkpoint, and the one a turn or a decision makes: the task it was
\* decided for, whether it is open, whether it names its session, and the
\* turn since which posts count.
NoCheckpoint == [made |-> FALSE, task |-> Nobody, open |-> FALSE,
                 joined |-> FALSE, begun |-> 0]

Quiet == [timer |-> FALSE, fed |-> FALSE, notified |-> FALSE]
NoPush == [kind |-> "none", about |-> {}]

TypeOK ==
  /\ shown \subseteq Agents
  /\ toolPid \in [Tasks -> Agents \union {Nobody}]
  /\ checkpoint \in [Runs -> [made : BOOLEAN, task : Tasks \union {Nobody},
                              open : BOOLEAN, joined : BOOLEAN,
                              begun : 0..MaxTurns]]
  /\ posts \in Seq([run : Runs, task : Tasks, kind : Kinds, key : Keys,
                    turn : 0..MaxTurns, late : BOOLEAN])
  /\ Len(posts) <= MaxPosts
  /\ task \in [Tasks -> [state : States \union {"none"},
                         run : Runs \union {Nobody}]]
  /\ alarm \in [Tasks -> [timer : BOOLEAN, fed : BOOLEAN, notified : BOOLEAN]]
  /\ push \in [Runs -> [kind : {"none", "result", "failure"},
                        about : SUBSET Tasks]]
  /\ voice \in [Tasks -> {"silent", "due", "told"}]
  /\ lost \subseteq Tasks
  /\ turns \in 0..MaxTurns
  /\ restarts \in 0..MaxRestarts

Init ==
  /\ shown = {}
  /\ toolPid = [t \in Tasks |-> Nobody]
  /\ checkpoint = [r \in Runs |-> NoCheckpoint]
  /\ posts = << >>
  /\ task = [t \in Tasks |-> [state |-> "none", run |-> Nobody]]
  /\ alarm = [t \in Tasks |-> Quiet]
  /\ push = [r \in Runs |-> NoPush]
  /\ voice = [t \in Tasks |-> "silent"]
  /\ lost = {}
  /\ turns = 0
  /\ restarts = 0

-----------------------------------------------------------------------------
(* Whose call it is.                                                       *)

Bound(t) == {a \in Agents : checkpoint[a].joined /\ checkpoint[a].task = t}
OpenTurns == {a \in Agents : checkpoint[a].joined /\ checkpoint[a].open}
Busy == shown \union {t \in Tasks : toolPid[t] # Nobody}

\* Not known by its task or its process: the one open turn, else the one
\* session of the directory with a process, else the task's tool session.
Guess(t) ==
  CASE Cardinality(OpenTurns) = 1 -> OpenTurns
    [] Cardinality(OpenTurns) # 1 /\ Cardinality(Busy) = 1 /\ Busy \subseteq Agents ->
         Busy
    [] OTHER -> {t}

\* findSessionForAgentTool: the runs a call of agent a about task t may be
\* filed under. Of the rows that name its process the one last active
\* counts, and a tool session's row is no answer.
FindSession(a, t) ==
  IF Bound(t) # {}
  THEN {r \in Bound(t) : \A q \in Bound(t) : checkpoint[q].begun <= checkpoint[r].begun}
  ELSE (IF a \in shown THEN {a} ELSE {})
       \union (IF a \notin shown \/ \E u \in Tasks : toolPid[u] = a
               THEN Guess(t) ELSE {})

\* The tool session is made or renewed with the caller's process.
ResolveSession(a, t, r) ==
  /\ r \in FindSession(a, t)
  /\ toolPid' = IF r = t THEN [toolPid EXCEPT ![t] = a] ELSE toolPid

-----------------------------------------------------------------------------
(* Turns and their decision.                                               *)

\* A hook reports the session's start or the user's prompt.
BeginTurn(a) ==
  /\ turns < MaxTurns
  /\ turns' = turns + 1
  /\ checkpoint' = [checkpoint EXCEPT ![a] =
       [made |-> TRUE, task |-> Nobody, open |-> TRUE, joined |-> TRUE,
        begun |-> turns']]
  /\ UNCHANGED <<shown, toolPid, posts, task, alarm, push, voice, lost, restarts>>

\* (Mutant: the checkpoint a decision makes is stamped a turn ahead.)
RecordDecisionAhead(r, t) ==
  checkpoint' = [checkpoint EXCEPT ![r] =
    IF @.made THEN [@ EXCEPT !.task = t, !.open = FALSE]
    ELSE [made |-> TRUE, task |-> t, open |-> FALSE, joined |-> FALSE,
          begun |-> turns + 1]]

\* recordFeedDecision: a decision without a turn makes a checkpoint that
\* names no session.
RecordDecision(r, t) ==
  checkpoint' = [checkpoint EXCEPT ![r] =
    IF @.made THEN [@ EXCEPT !.task = t, !.open = FALSE]
    ELSE [made |-> TRUE, task |-> t, open |-> FALSE, joined |-> FALSE,
          begun |-> turns]]

\* The Stop hook decides an undecided turn.
FinalizeStop(a) ==
  /\ checkpoint[a].open \/ ~checkpoint[a].made
  /\ RecordDecision(a, checkpoint[a].task)
  /\ UNCHANGED <<shown, toolPid, posts, task, alarm, push, voice, lost, turns,
                 restarts>>

\* feed.skip.
Skip(a, t) ==
  \E r \in Runs :
    /\ ResolveSession(a, t, r)
    /\ RecordDecision(r, t)
    /\ UNCHANGED <<shown, posts, task, alarm, push, voice, lost, turns, restarts>>

-----------------------------------------------------------------------------
(* Tasks, failures and pushes.                                             *)

\* (Mutant: a task that recovers keeps the mark of its failure post.)
AfterUpdateKeepsFed(x, was, now) ==
  IF now # "failed" THEN [Quiet EXCEPT !.fed = x.fed]
  ELSE IF was = "failed" THEN x
  ELSE [timer |-> x.timer \/ ~x.fed, fed |-> FALSE, notified |-> FALSE]

\* (Mutant: the timer is started also after a failure post.)
AfterUpdateAlwaysTimes(x, was, now) ==
  IF now # "failed" THEN Quiet
  ELSE IF was = "failed" THEN x
  ELSE [timer |-> TRUE, fed |-> FALSE, notified |-> FALSE]

\* updateTask: a task that fails without a failure post gets a timer.
AfterUpdate(x, was, now) ==
  IF now # "failed" THEN Quiet
  ELSE IF was = "failed" THEN x
  ELSE [timer |-> x.timer \/ ~x.fed, fed |-> FALSE, notified |-> FALSE]

\* postFeed: a new failure post takes the place of the timer, and of the
\* push when the timer has sent it already.
AfterPost(x, kind) ==
  IF kind = "failure" THEN [timer |-> FALSE, fed |-> TRUE, notified |-> FALSE] ELSE x

Pushes(x, kind) == kind = "result" \/ (kind = "failure" /\ ~x.notified)

\* scheduleStatusPush: one push waits for a session, and failure prevails.
SchedulePush(kind, t, r) ==
  push' = [push EXCEPT ![r] =
    [kind |-> IF "failure" \in {@.kind, kind} THEN "failure" ELSE kind,
     about |-> IF kind = "failure" THEN @.about \union {t} ELSE @.about]]

\* What is known of t's failure once it is in a state, x telling whether a
\* push about it has just been scheduled.
Speaks(t, state, x) ==
  /\ voice' = [voice EXCEPT ![t] =
       IF state \notin {"failed", "none"} THEN "silent"
       ELSE IF x THEN "due" ELSE @]
  /\ lost' = IF state \notin {"failed", "none"} THEN lost \ {t} ELSE lost

-----------------------------------------------------------------------------
(* Posts.                                                                  *)

KindFor(state) ==
  CASE state = "waiting_input" -> "attention"
    [] state = "user_review" -> "result"
    [] state = "failed" -> "failure"
    [] OTHER -> "any"

\* FeedPostInputSchema: the kinds a post that sets the state may have.
Fits(kind, state) ==
  /\ KindFor(state) \in {"any", kind}
  /\ state = "completed" => kind = "result"

Of(r, key) == {i \in DOMAIN posts : posts[i].run = r /\ posts[i].key = key}

\* (Mutant: no progress is recent.)
RecentNever(r, t) == {}

\* The progress of the task within the last ten minutes.
Recent(r, t) ==
  {i \in DOMAIN posts :
     posts[i].run = r /\ posts[i].task = t /\ posts[i].kind = "progress" /\ ~posts[i].late}

\* insertFeedPost: a known key changes nothing; progress takes the place of
\* the newest recent progress, with its own key and time; anything else is
\* inserted.
InsertFeedPost(r, t, kind, key) ==
  LET new == [run |-> r, task |-> t, kind |-> kind, key |-> key,
              turn |-> turns, late |-> FALSE]
      merged == kind = "progress" /\ Recent(r, t) # {}
      newest == CHOOSE i \in Recent(r, t) : \A j \in Recent(r, t) : j <= i
  IN  IF Of(r, key) # {} THEN UNCHANGED posts
      ELSE IF merged THEN posts' = Append(RemoveAt(posts, newest), new)
      ELSE Len(posts) < MaxPosts /\ posts' = Append(posts, new)

Inserts(r, t, kind, key) ==
  Of(r, key) = {} /\ ~(kind = "progress" /\ Recent(r, t) # {})

\* feed.post, with or without the task's new state.
Post(a, t, kind, key, state) ==
  /\ Fits(kind, state)
  /\ \E r \in Runs :
       LET inserts == Inserts(r, t, kind, key)
           posted == IF inserts THEN AfterPost(alarm[t], kind) ELSE alarm[t]
           pushes == inserts /\ Pushes(alarm[t], kind)
       IN  /\ ResolveSession(a, t, r)
           /\ InsertFeedPost(r, t, kind, key)
           /\ RecordDecision(r, t)
           /\ IF pushes THEN SchedulePush(kind, t, r) ELSE UNCHANGED push
           /\ IF state = "none" THEN task' = task /\ alarm' = [alarm EXCEPT ![t] = posted]
              ELSE /\ task' = [task EXCEPT ![t] = [state |-> state, run |-> r]]
                   /\ alarm' = [alarm EXCEPT ![t] =
                                  AfterUpdate(posted, task[t].state, state)]
           /\ Speaks(t, state, pushes /\ kind = "failure")
  /\ UNCHANGED <<shown, turns, restarts>>

\* The kind of the run's latest post since its turn began.
LatestKind(r) ==
  LET these == {i \in DOMAIN posts : posts[i].run = r /\ posts[i].turn >= checkpoint[r].begun}
  IN  IF these = {} THEN "none"
      ELSE posts[CHOOSE i \in these : \A j \in these : j <= i].kind

\* signal.transition.
Transition(a, t, state) ==
  \E r \in Runs :
    /\ ResolveSession(a, t, r)
    /\ KindFor(state) \in {"any", LatestKind(r)}
    /\ state = "completed" => checkpoint[r].made /\ ~checkpoint[r].open
    /\ task' = [task EXCEPT ![t] = [state |-> state, run |-> r]]
    /\ alarm' = [alarm EXCEPT ![t] = AfterUpdate(@, task[t].state, state)]
    /\ Speaks(t, state, FALSE)
    /\ UNCHANGED <<shown, checkpoint, posts, push, turns, restarts>>

\* A transition without its post or decision is refused, and has made the
\* tool session all the same.
TransitionRefused(a, t, state) ==
  /\ t \in FindSession(a, t)
  /\ \/ KindFor(state) \notin {"any", LatestKind(t)}
     \/ state = "completed" /\ (checkpoint[t].open \/ ~checkpoint[t].made)
  /\ toolPid[t] # a
  /\ ResolveSession(a, t, t)
  /\ UNCHANGED <<shown, checkpoint, posts, task, alarm, push, voice, lost, turns,
                 restarts>>

-----------------------------------------------------------------------------
(* Time, processes and restarts.                                           *)

\* Five seconds after the task failed.
FallbackFires(t) ==
  /\ alarm[t].timer
  /\ IF task[t].state = "failed" /\ ~alarm[t].fed
     THEN /\ alarm' = [alarm EXCEPT ![t].timer = FALSE, ![t].notified = TRUE]
          /\ SchedulePush("failure", t, task[t].run)
          /\ voice' = [voice EXCEPT ![t] = "due"]
     ELSE /\ alarm' = [alarm EXCEPT ![t].timer = FALSE]
          /\ UNCHANGED <<push, voice>>
  /\ UNCHANGED <<shown, toolPid, checkpoint, posts, task, lost, turns, restarts>>

\* Two seconds after the first of the statuses it tells of.
StatusPushFires(r) ==
  /\ push[r].kind # "none"
  /\ push' = [push EXCEPT ![r] = NoPush]
  /\ voice' = [t \in Tasks |-> IF t \in push[r].about /\ voice[t] = "due"
                               THEN "told" ELSE voice[t]]
  /\ UNCHANGED <<shown, toolPid, checkpoint, posts, task, alarm, lost, turns,
                 restarts>>

\* Ten minutes have passed since the first n posts were created.
WindowPasses(n) ==
  /\ n \in DOMAIN posts /\ ~posts[n].late
  /\ posts' = [i \in DOMAIN posts |-> [posts[i] EXCEPT !.late = @ \/ i <= n]]
  /\ UNCHANGED <<shown, toolPid, checkpoint, task, alarm, push, voice, lost,
                 turns, restarts>>

\* Discovery finds an agent's process, or finds it gone.
ProcessSeen(a) ==
  /\ a \notin shown
  /\ shown' = shown \union {a}
  /\ UNCHANGED <<toolPid, checkpoint, posts, task, alarm, push, voice, lost,
                 turns, restarts>>

ProcessGone(a) ==
  /\ a \in shown \/ \E t \in Tasks : toolPid[t] = a
  /\ shown' = shown \ {a}
  /\ toolPid' = [t \in Tasks |-> IF toolPid[t] = a THEN Nobody ELSE toolPid[t]]
  /\ UNCHANGED <<checkpoint, posts, task, alarm, push, voice, lost, turns,
                 restarts>>

\* The bridge ends and starts again: timers and marks are memory, and open
\* checkpoints are closed as skipped.
Restart ==
  /\ restarts < MaxRestarts
  /\ restarts' = restarts + 1
  /\ checkpoint' = [r \in Runs |-> [checkpoint[r] EXCEPT !.open = FALSE]]
  /\ alarm' = [t \in Tasks |-> Quiet]
  /\ push' = [r \in Runs |-> NoPush]
  /\ voice' = [t \in Tasks |-> "silent"]
  /\ lost' = {t \in Tasks : task[t].state = "failed"}
  /\ UNCHANGED <<shown, toolPid, posts, task, turns>>

-----------------------------------------------------------------------------

Calls(a, t) ==
  \/ Skip(a, t)
  \/ \E kind \in Kinds, key \in Keys, state \in States \union {"none"} :
       Post(a, t, kind, key, state)
  \/ \E state \in States : Transition(a, t, state) \/ TransitionRefused(a, t, state)

Next ==
  \/ \E a \in Agents : BeginTurn(a) \/ FinalizeStop(a) \/ ProcessSeen(a) \/ ProcessGone(a)
  \/ \E a \in Agents, t \in Tasks : Calls(a, t)
  \/ \E t \in Tasks : FallbackFires(t)
  \/ \E r \in Runs : StatusPushFires(r)
  \/ \E n \in 1..MaxPosts : WindowPasses(n)
  \/ Restart

Spec == Init /\ [][Next]_vars

\* Timers of a running process go off.
Fairness ==
  /\ \A t \in Tasks : WF_vars(FallbackFires(t))
  /\ \A r \in Runs : WF_vars(StatusPushFires(r))

FairSpec == Spec /\ Fairness

-----------------------------------------------------------------------------
(* Properties.                                                             *)

\* A reader sees one card at a time of a task's progress: within the ten
\* minutes a run has one progress post of a task, and no two posts of a run
\* share a dedupe key, in whatever order posts, retries, merges and the
\* window's end come (store.ts:690).
CalmFeed ==
  \A i, j \in DOMAIN posts :
    i # j /\ posts[i].run = posts[j].run
      => /\ posts[i].key # posts[j].key
         /\ ~(/\ posts[i].kind = "progress" /\ posts[j].kind = "progress"
              /\ posts[i].task = posts[j].task
              /\ ~posts[i].late /\ ~posts[j].late)

\* One failure is not told twice by a running bridge: the timer that speaks
\* for an agent that posts nothing never waits once a failure push about
\* the task has been scheduled since it last left the failed state, whether
\* the post came before the state or after it (runtime.ts:124,152,260).
OneAlarm == \A t \in Tasks : alarm[t].timer => voice[t] = "silent"

\* Both: a task is neither told twice of one failure nor shown on two cards.
FeedIsCalm == CalmFeed /\ OneAlarm

\* A task that fails is told of, by its post or by the timer, unless it
\* recovers first or the bridge restarts: no order of posts, repeated keys
\* and state changes leaves a failure unsaid.
FailureIsHeard ==
  \A t \in Tasks :
    (task[t].state = "failed") ~>
      (voice[t] = "told" \/ task[t].state # "failed" \/ t \in lost)

\* The tool's own rule: a task enters a state that asks for the user's eyes
\* only with the post that tells of it (agent-tools.ts:354).
StateHasItsPost ==
  \A t \in Tasks :
    KindFor(task[t].state) # "any" =>
      \E i \in DOMAIN posts : posts[i].task = t /\ posts[i].kind = KindFor(task[t].state)

=============================================================================
