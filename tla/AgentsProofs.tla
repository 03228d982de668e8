--------------------------- MODULE AgentsProofs ---------------------------
(***************************************************************************)
(* Proofs about what the bridge makes of its agents.                       *)
(*                                                                         *)
(* Sections 1 and 2, for all agents, tasks and keys and any number of      *)
(* posts, turns and restarts: a reader of the feed sees one card at a time *)
(* of a task's progress and no key twice, and one failure is not told      *)
(* twice.  The feed stays calm by induction on its own: what is merged     *)
(* takes the place of the only recent progress there is.  The alarm does   *)
(* not: a failure post may come before the state, so it rests on the       *)
(* runtime's mark that a task was fed, which holds until the task fails.   *)
(*                                                                         *)
(* Section 3, for all transcripts, lines, processes and hooks: a session   *)
(* is offered for a reply only while its row shows no process.  The row    *)
(* is what a line leaves item by item, a read line by line and a listing   *)
(* process by process, so each is an induction over what was read: up to   *)
(* a number, with the set of the numbers for which the claim holds.        *)
(***************************************************************************)
EXTENDS AgentFeed, Discovery, SequenceTheorems, WellFoundedInduction, TLAPS

-----------------------------------------------------------------------------
(* 1. The feed is calm. *)

Cards == [run : Runs, task : Tasks, kind : Kinds, key : Keys, turn : Nat, late : BOOLEAN]

FeedInv == posts \in Seq(Cards) /\ turns \in Nat /\ CalmFeed

(***************************************************************************)
(* What is left when one element is taken out of a sequence: the others,   *)
(* at their places before it and one place lower behind it.                *)
(***************************************************************************)
LEMMA Removal ==
  ASSUME NEW S, NEW s \in Seq(S), NEW n \in 1..Len(s)
  PROVE  /\ RemoveAt(s, n) \in Seq(S)
         /\ Len(RemoveAt(s, n)) = Len(s) - 1
         /\ \A i \in 1..(Len(s) - 1) :
              RemoveAt(s, n)[i] = IF i < n THEN s[i] ELSE s[i + 1]
<1> DEFINE before == SubSeq(s, 1, n - 1)
           behind == SubSeq(s, n + 1, Len(s))
<1>1. /\ Len(s) \in Nat /\ n - 1 \in Int /\ n + 1 \in Int /\ 1 \in Int
      /\ \A i \in 1..Len(s) : s[i] \in S
      BY LenProperties, ElementOfSeq
<1>2. /\ before \in Seq(S)
      /\ Len(before) = n - 1
      /\ \A i \in 1..(n - 1) : before[i] = s[i]
  <2>1. \A i \in 1..(n - 1) : s[i] \in S
        BY <1>1
  <2>2. /\ before \in Seq(S)
        /\ Len(before) = IF 1 <= n - 1 THEN (n - 1) - 1 + 1 ELSE 0
        /\ \A i \in 1..((n - 1) - 1 + 1) : before[i] = s[1 + i - 1]
        BY <1>1, <2>1, SubSeqProperties
  <2> QED BY <1>1, <2>2
<1>3. /\ behind \in Seq(S)
      /\ Len(behind) = Len(s) - n
      /\ \A i \in 1..(Len(s) - n) : behind[i] = s[n + i]
  <2>1. \A i \in (n + 1)..Len(s) : s[i] \in S
        BY <1>1
  <2>2. /\ behind \in Seq(S)
        /\ Len(behind) = IF n + 1 <= Len(s) THEN Len(s) - (n + 1) + 1 ELSE 0
        /\ \A i \in 1..(Len(s) - (n + 1) + 1) : behind[i] = s[(n + 1) + i - 1]
        BY <1>1, <2>1, SubSeqProperties
  <2> QED BY <1>1, <2>2
<1>4. RemoveAt(s, n) = before \o behind
      BY DEF RemoveAt
<1>5. /\ before \o behind \in Seq(S)
      /\ Len(before \o behind) = Len(before) + Len(behind)
      /\ \A i \in 1..(Len(before) + Len(behind)) :
           (before \o behind)[i] = IF i <= Len(before) THEN before[i]
                                   ELSE behind[i - Len(before)]
      BY <1>2, <1>3, ConcatProperties
<1> HIDE DEF before, behind
<1> QED BY <1>1, <1>2, <1>3, <1>4, <1>5

(***************************************************************************)
(* A known key leaves the feed alone, progress takes the place of what it  *)
(* continues, and what is added has a key of its own.                      *)
(***************************************************************************)
LEMMA PostKeepsCalm ==
  ASSUME FeedInv, NEW r \in Runs, NEW t \in Tasks, NEW kind \in Kinds, NEW key \in Keys,
         InsertFeedPost(r, t, kind, key)
  PROVE  posts' \in Seq(Cards) /\ CalmFeed'
<1> DEFINE new == [run |-> r, task |-> t, kind |-> kind, key |-> key,
                   turn |-> turns, late |-> FALSE]
           newest == CHOOSE i \in Recent(r, t) : \A j \in Recent(r, t) : j <= i
<1>0. /\ posts \in Seq(Cards) /\ new \in Cards /\ Len(posts) \in Nat
      /\ DOMAIN posts = 1..Len(posts)
      /\ \A i \in 1..Len(posts) : posts[i] \in Cards
      BY LenProperties, ElementOfSeq DEF FeedInv, Cards
<1>1. CASE Of(r, key) # {}
      BY <1>1 DEF InsertFeedPost, FeedInv, CalmFeed
<1>2. CASE Of(r, key) = {} /\ ~(kind = "progress" /\ Recent(r, t) # {})
  <2>1. posts' = Append(posts, new)
        BY <1>2 DEF InsertFeedPost
  <2>2. /\ posts' \in Seq(Cards) /\ Len(posts') = Len(posts) + 1
        /\ \A i \in 1..Len(posts) : posts'[i] = posts[i]
        /\ posts'[Len(posts) + 1] = new
        BY <1>0, <2>1
  <2>3. ASSUME NEW i \in 1..Len(posts), posts[i].run = r
        PROVE  /\ posts[i].key # key
               /\ ~(kind = "progress" /\ posts[i].kind = "progress"
                    /\ posts[i].task = t /\ ~posts[i].late)
        BY <1>0, <1>2, <2>3 DEF Of, Recent
  <2>4. DOMAIN posts' = 1..(Len(posts) + 1)
        BY <2>2, LenProperties
  <2>5. CalmFeed'
        BY <1>0, <2>2, <2>3, <2>4 DEF FeedInv, CalmFeed
  <2> QED BY <2>2, <2>5
<1>3. CASE Of(r, key) = {} /\ kind = "progress" /\ Recent(r, t) # {}
  <2>1. posts' = Append(RemoveAt(posts, newest), new)
        BY <1>3 DEF InsertFeedPost
  <2>2. PICK n \in Recent(r, t) : TRUE
        BY <1>3
  <2>3. \A m \in Recent(r, t) : m = n
        BY <2>2 DEF Recent, FeedInv, CalmFeed
  <2>4. newest = n /\ n \in 1..Len(posts)
        BY <1>0, <2>2, <2>3 DEF Recent
  <2> DEFINE rest == RemoveAt(posts, n)
  <2>5. /\ rest \in Seq(Cards) /\ Len(rest) = Len(posts) - 1
        /\ \A i \in 1..(Len(posts) - 1) :
             rest[i] = IF i < n THEN posts[i] ELSE posts[i + 1]
        BY <1>0, <2>4, Removal
  <2>6. posts' = Append(rest, new)
        BY <2>1, <2>4
  <2> HIDE DEF rest
  <2>7. /\ posts' \in Seq(Cards) /\ Len(posts') = Len(posts)
        /\ \A i \in 1..(Len(posts) - 1) : posts'[i] = rest[i]
        /\ posts'[Len(posts)] = new
        /\ DOMAIN posts' = 1..Len(posts)
    <3>1. /\ posts' \in Seq(Cards) /\ Len(posts') = Len(rest) + 1
          /\ \A i \in 1..Len(rest) : posts'[i] = rest[i]
          /\ posts'[Len(rest) + 1] = new
      <4>1. new \in Cards
            BY <1>0
      <4> HIDE DEF new
      <4> QED BY <2>5, <2>6, <4>1
    <3>2. DOMAIN posts' = 1..Len(posts')
          BY <3>1, LenProperties
    <3> QED BY <1>0, <2>5, <3>1, <3>2
  <2> DEFINE was(i) == IF i < n THEN i ELSE i + 1
  <2>8. /\ \A i \in 1..(Len(posts) - 1) :
             was(i) \in 1..Len(posts) /\ was(i) # n /\ posts'[i] = posts[was(i)]
        /\ \A i, j \in 1..(Len(posts) - 1) : i # j => was(i) # was(j)
        BY <1>0, <2>4, <2>5, <2>7
  <2> HIDE DEF was
  <2>9. ASSUME NEW i \in 1..Len(posts), i # n, posts[i].run = r
        PROVE  /\ posts[i].key # key
               /\ ~(posts[i].kind = "progress" /\ posts[i].task = t /\ ~posts[i].late)
        BY <1>0, <1>3, <2>3, <2>9 DEF Of, Recent
  <2>10. ASSUME NEW i \in 1..Len(posts), NEW j \in 1..Len(posts), i # j,
                posts'[i].run = posts'[j].run
         PROVE  /\ posts'[i].key # posts'[j].key
                /\ ~(/\ posts'[i].kind = "progress" /\ posts'[j].kind = "progress"
                     /\ posts'[i].task = posts'[j].task
                     /\ ~posts'[i].late /\ ~posts'[j].late)
    <3>0. new.run = r /\ new.key = key /\ new.task = t
          OBVIOUS
    <3> HIDE DEF new
    <3>1. CASE i < Len(posts) /\ j < Len(posts)
          BY <1>0, <2>8, <2>10, <3>1 DEF FeedInv, CalmFeed
    <3>2. CASE i = Len(posts) /\ j < Len(posts)
      <4>1. /\ j \in 1..(Len(posts) - 1) /\ posts'[i] = new
            /\ was(j) \in 1..Len(posts) /\ was(j) # n /\ posts'[j] = posts[was(j)]
            BY <1>0, <2>7, <2>8, <3>2
      <4> QED BY <2>9, <2>10, <3>0, <4>1
    <3>3. CASE j = Len(posts) /\ i < Len(posts)
      <4>1. /\ i \in 1..(Len(posts) - 1) /\ posts'[j] = new
            /\ was(i) \in 1..Len(posts) /\ was(i) # n /\ posts'[i] = posts[was(i)]
            BY <1>0, <2>7, <2>8, <3>3
      <4> QED BY <2>9, <2>10, <3>0, <4>1
    <3>4. \/ i < Len(posts) /\ j < Len(posts)
          \/ i = Len(posts) /\ j < Len(posts)
          \/ j = Len(posts) /\ i < Len(posts)
      <4>1. Len(posts) \in Nat
            BY <1>0
      <4> QED BY <2>10, <4>1
    <3> QED BY <3>1, <3>2, <3>3, <3>4
  <2>11. CalmFeed'
         BY <2>7, <2>10 DEF CalmFeed
  <2> QED BY <2>7, <2>11
<1> QED BY <1>1, <1>2, <1>3

\* Only a post and the end of a window touch the feed.
LEMMA FeedStep == FeedInv /\ [Next]_vars => FeedInv'
<1> SUFFICES ASSUME FeedInv, [Next]_vars PROVE FeedInv'
    OBVIOUS
<1>1. CASE UNCHANGED <<posts, turns>>
      BY <1>1 DEF FeedInv, CalmFeed
<1>2. ASSUME NEW a \in Agents, BeginTurn(a) PROVE FeedInv'
      BY <1>2 DEF BeginTurn, FeedInv, CalmFeed
<1>3. ASSUME NEW a \in Agents, NEW t \in Tasks, NEW kind \in Kinds, NEW key \in Keys,
             NEW state \in States \union {"none"}, Post(a, t, kind, key, state)
      PROVE  FeedInv'
  <2>1. PICK r \in Runs : InsertFeedPost(r, t, kind, key)
        BY <1>3 DEF Post
  <2>2. turns' = turns
        BY <1>3 DEF Post
  <2> QED BY <2>1, <2>2, PostKeepsCalm DEF FeedInv
<1>4. ASSUME NEW n \in 1..MaxPosts, WindowPasses(n) PROVE FeedInv'
  <2>1. /\ turns' = turns
        /\ posts' = [i \in DOMAIN posts |-> [posts[i] EXCEPT !.late = @ \/ i <= n]]
        BY <1>4 DEF WindowPasses
  <2>2. /\ posts \in Seq(Cards) /\ Len(posts) \in Nat /\ DOMAIN posts = 1..Len(posts)
        /\ \A i \in 1..Len(posts) : posts[i] \in Cards
        BY LenProperties, ElementOfSeq DEF FeedInv
  <2>3. posts' \in Seq(Cards) /\ DOMAIN posts' = 1..Len(posts)
    <3>1. \A i \in 1..Len(posts) : [posts[i] EXCEPT !.late = @ \/ i <= n] \in Cards
          BY <2>2 DEF Cards
    <3> QED BY <2>1, <2>2, <3>1
  <2>4. \A i \in 1..Len(posts) :
          /\ posts'[i].run = posts[i].run /\ posts'[i].key = posts[i].key
          /\ posts'[i].kind = posts[i].kind /\ posts'[i].task = posts[i].task
          /\ posts[i].late => posts'[i].late
        BY <2>1, <2>2 DEF Cards
  <2>5. CalmFeed'
        BY <2>2, <2>3, <2>4 DEF FeedInv, CalmFeed
  <2> QED BY <2>1, <2>3, <2>5 DEF FeedInv
<1>5. CASE \/ \E a \in Agents : FinalizeStop(a) \/ ProcessSeen(a) \/ ProcessGone(a)
           \/ \E a \in Agents, t \in Tasks :
                \/ Skip(a, t)
                \/ \E state \in States : Transition(a, t, state) \/ TransitionRefused(a, t, state)
           \/ \E t \in Tasks : FallbackFires(t)
           \/ \E r \in Runs : StatusPushFires(r)
           \/ Restart
      BY <1>1, <1>5, ZenonT(60)
      DEF FinalizeStop, ProcessSeen, ProcessGone, Skip, Transition, TransitionRefused,
          FallbackFires, StatusPushFires, Restart
<1>6. CASE UNCHANGED vars
      BY <1>1, <1>6 DEF vars
<1> QED BY <1>2, <1>3, <1>4, <1>5, <1>6 DEF Next, Calls

-----------------------------------------------------------------------------
(* 2. One alarm for one failure. *)

\* Once something is said of a task's failure no timer waits, and a task that
\* is yet to fail has the mark of its failure post.
AlarmOf(t) ==
  voice[t] # "silent" => /\ ~alarm[t].timer
                         /\ task[t].state # "failed" => alarm[t].fed

AlarmTypes ==
  /\ task \in [Tasks -> [state : States \union {"none"}, run : Runs \union {Nobody}]]
  /\ alarm \in [Tasks -> [timer : BOOLEAN, fed : BOOLEAN, notified : BOOLEAN]]
  /\ voice \in [Tasks -> {"silent", "due", "told"}]

AlarmInv == AlarmTypes /\ \A t \in Tasks : AlarmOf(t)

\* What the runtime notes of a failure has the type of its notes.
LEMMA Notes ==
  ASSUME NEW x \in [timer : BOOLEAN, fed : BOOLEAN, notified : BOOLEAN], NEW kind,
         NEW was, NEW now
  PROVE  /\ AfterPost(x, kind) \in [timer : BOOLEAN, fed : BOOLEAN, notified : BOOLEAN]
         /\ AfterUpdate(x, was, now) \in [timer : BOOLEAN, fed : BOOLEAN, notified : BOOLEAN]
BY DEF AfterPost, AfterUpdate, Quiet

LEMMA AlarmStep == AlarmInv /\ [Next]_vars => AlarmInv'
<1> SUFFICES ASSUME AlarmInv, [Next]_vars PROVE AlarmInv'
    OBVIOUS
<1> USE DEF AlarmInv
<1>1. CASE UNCHANGED <<task, alarm, voice>>
      BY <1>1 DEF AlarmTypes, AlarmOf
<1>2. ASSUME NEW a \in Agents, NEW t \in Tasks, NEW kind \in Kinds, NEW key \in Keys,
             NEW state \in States \union {"none"}, Post(a, t, kind, key, state)
      PROVE  AlarmInv'
  <2>1. PICK r \in Runs :
          LET inserts == Inserts(r, t, kind, key)
              posted == IF inserts THEN AfterPost(alarm[t], kind) ELSE alarm[t]
              pushes == inserts /\ Pushes(alarm[t], kind)
          IN  /\ IF state = "none" THEN task' = task /\ alarm' = [alarm EXCEPT ![t] = posted]
                 ELSE /\ task' = [task EXCEPT ![t] = [state |-> state, run |-> r]]
                      /\ alarm' = [alarm EXCEPT ![t] =
                                     AfterUpdate(posted, task[t].state, state)]
              /\ Speaks(t, state, pushes /\ kind = "failure")
        BY <1>2 DEF Post
  <2> DEFINE posted == IF Inserts(r, t, kind, key) THEN AfterPost(alarm[t], kind) ELSE alarm[t]
             pushes == Inserts(r, t, kind, key) /\ Pushes(alarm[t], kind)
  <2>2. state = "failed" => kind = "failure"
        BY <1>2 DEF Post, Fits, KindFor
  <2>3. /\ alarm[t] \in [timer : BOOLEAN, fed : BOOLEAN, notified : BOOLEAN]
        /\ posted \in [timer : BOOLEAN, fed : BOOLEAN, notified : BOOLEAN]
        /\ AfterUpdate(posted, task[t].state, state)
             \in [timer : BOOLEAN, fed : BOOLEAN, notified : BOOLEAN]
    <3>1. alarm[t] \in [timer : BOOLEAN, fed : BOOLEAN, notified : BOOLEAN]
          BY DEF AlarmTypes
    <3> QED BY <3>1, Notes
  <2>4. /\ pushes /\ kind = "failure" => ~posted.timer /\ posted.fed
        /\ ~pushes \/ kind # "failure" =>
             /\ alarm[t].fed => posted.fed
             /\ posted.timer => alarm[t].timer
        BY DEF AfterPost, Pushes
  <2>5. /\ voice' = [voice EXCEPT ![t] =
             IF state \notin {"failed", "none"} THEN "silent"
             ELSE IF pushes /\ kind = "failure" THEN "due" ELSE @]
        BY <2>1 DEF Speaks
  <2> HIDE DEF posted, pushes
  <2>6. CASE state = "none"
    <3>1. task' = task /\ alarm' = [alarm EXCEPT ![t] = posted]
          BY <2>1, <2>6 DEF posted
    <3>2. AlarmTypes'
          BY <2>3, <2>5, <3>1 DEF AlarmTypes
    <3>3. ASSUME NEW u \in Tasks PROVE AlarmOf(u)'
          BY <2>4, <2>5, <2>6, <3>1, <3>3 DEF AlarmTypes, AlarmOf
    <3> QED BY <3>2, <3>3
  <2>7. CASE state # "none"
    <3>1. /\ task' = [task EXCEPT ![t] = [state |-> state, run |-> r]]
          /\ alarm' = [alarm EXCEPT ![t] = AfterUpdate(posted, task[t].state, state)]
          BY <2>1, <2>7 DEF posted
    <3>2. AlarmTypes'
          BY <2>3, <2>5, <3>1 DEF AlarmTypes
    <3>3. ASSUME NEW u \in Tasks, u # t PROVE AlarmOf(u)'
          BY <2>5, <3>1, <3>3 DEF AlarmTypes, AlarmOf
    <3>4. AlarmOf(t)'
      <4>1. CASE state = "failed"
        <5>1. /\ voice'[t] = IF pushes /\ kind = "failure" THEN "due" ELSE voice[t]
              /\ task'[t].state = "failed"
              /\ alarm'[t] = AfterUpdate(posted, task[t].state, "failed")
              BY <2>5, <3>1, <4>1 DEF AlarmTypes
        <5> QED BY <2>3, <2>4, <5>1 DEF AlarmOf, AfterUpdate
      <4>2. CASE state # "failed"
            BY <2>5, <2>7, <4>2 DEF AlarmTypes, AlarmOf
      <4> QED BY <4>1, <4>2
    <3> QED BY <3>2, <3>3, <3>4
  <2> QED BY <2>6, <2>7
<1>3. ASSUME NEW a \in Agents, NEW t \in Tasks, NEW state \in States, Transition(a, t, state)
      PROVE  AlarmInv'
  <2>1. PICK r \in Runs :
          /\ task' = [task EXCEPT ![t] = [state |-> state, run |-> r]]
          /\ alarm' = [alarm EXCEPT ![t] = AfterUpdate(@, task[t].state, state)]
          /\ Speaks(t, state, FALSE)
        BY <1>3 DEF Transition
  <2>2. /\ voice' = [voice EXCEPT ![t] =
             IF state \notin {"failed", "none"} THEN "silent" ELSE @]
        BY <2>1 DEF Speaks
  <2>3. /\ alarm[t] \in [timer : BOOLEAN, fed : BOOLEAN, notified : BOOLEAN]
        /\ AfterUpdate(alarm[t], task[t].state, state)
             \in [timer : BOOLEAN, fed : BOOLEAN, notified : BOOLEAN]
    <3>1. alarm[t] \in [timer : BOOLEAN, fed : BOOLEAN, notified : BOOLEAN]
          BY DEF AlarmTypes
    <3> QED BY <3>1, Notes
  <2>4. AlarmTypes'
        BY <2>1, <2>2, <2>3 DEF AlarmTypes
  <2>5. ASSUME NEW u \in Tasks, u # t PROVE AlarmOf(u)'
        BY <2>1, <2>2, <2>5 DEF AlarmTypes, AlarmOf
  <2>6. AlarmOf(t)'
    <3>1. CASE state = "failed"
      <4>1. /\ voice'[t] = voice[t] /\ task'[t].state = "failed"
            /\ alarm'[t] = AfterUpdate(alarm[t], task[t].state, "failed")
            BY <2>1, <2>2, <3>1 DEF AlarmTypes
      <4> QED BY <2>3, <4>1 DEF AlarmOf, AfterUpdate
    <3>2. CASE state # "failed"
          BY <2>2, <3>2, StatesOfTasks DEF AlarmTypes, AlarmOf
    <3> QED BY <3>1, <3>2
  <2> QED BY <2>4, <2>5, <2>6
<1>4. ASSUME NEW t \in Tasks, FallbackFires(t) PROVE AlarmInv'
  <2>1. CASE task[t].state = "failed" /\ ~alarm[t].fed
    <3>1. /\ alarm' = [alarm EXCEPT ![t].timer = FALSE, ![t].notified = TRUE]
          /\ voice' = [voice EXCEPT ![t] = "due"] /\ task' = task
          BY <1>4, <2>1 DEF FallbackFires
    <3>2. AlarmTypes'
          BY <3>1 DEF AlarmTypes
    <3>3. ASSUME NEW u \in Tasks PROVE AlarmOf(u)'
          BY <2>1, <3>1 DEF AlarmTypes, AlarmOf
    <3> QED BY <3>2, <3>3
  <2>2. CASE ~(task[t].state = "failed" /\ ~alarm[t].fed)
    <3>1. alarm' = [alarm EXCEPT ![t].timer = FALSE] /\ voice' = voice /\ task' = task
          BY <1>4, <2>2 DEF FallbackFires
    <3>2. AlarmTypes'
          BY <3>1 DEF AlarmTypes
    <3>3. ASSUME NEW u \in Tasks PROVE AlarmOf(u)'
          BY <3>1 DEF AlarmTypes, AlarmOf
    <3> QED BY <3>2, <3>3
  <2> QED BY <2>1, <2>2
<1>5. ASSUME NEW r \in Runs, StatusPushFires(r) PROVE AlarmInv'
      BY <1>5 DEF StatusPushFires, AlarmTypes, AlarmOf
<1>6. CASE Restart
      BY <1>6 DEF Restart, Quiet, AlarmTypes, AlarmOf
<1>7. CASE \/ \E a \in Agents :
                BeginTurn(a) \/ FinalizeStop(a) \/ ProcessSeen(a) \/ ProcessGone(a)
           \/ \E a \in Agents, t \in Tasks :
                Skip(a, t) \/ \E state \in States : TransitionRefused(a, t, state)
           \/ \E n \in 1..MaxPosts : WindowPasses(n)
      BY <1>1, <1>7
      DEF BeginTurn, FinalizeStop, ProcessSeen, ProcessGone, Skip, TransitionRefused,
          WindowPasses
<1>8. CASE UNCHANGED vars
      BY <1>1, <1>8 DEF vars
<1> QED BY <1>2, <1>3, <1>4, <1>5, <1>6, <1>7, <1>8 DEF Next, Calls

-----------------------------------------------------------------------------
(* 3. Both. *)

\* In every behaviour no card of a task's progress stands beside another, no
\* key comes twice, and no timer waits for a failure that was told.
THEOREM FeedStaysCalm == Spec => []FeedIsCalm
<1>1. Init => FeedInv /\ AlarmInv
      BY DEF Init, FeedInv, CalmFeed, AlarmInv, AlarmTypes, AlarmOf, Quiet
<1>2. FeedInv /\ AlarmInv => FeedIsCalm
      BY DEF FeedInv, AlarmInv, AlarmOf, FeedIsCalm, OneAlarm
<1> QED BY <1>1, <1>2, FeedStep, AlarmStep, PTL DEF Spec

-----------------------------------------------------------------------------
(* 3. Sessions that are offered for a reply. *)

\* The order of the numbers.
Below == {p \in Nat \X Nat : p[1] < p[2]}

\* A set of numbers that is not empty has a least one.
LEMMA LeastNumber ==
  ASSUME NEW T \in SUBSET Nat, T # {}
  PROVE \E n \in T : \A m \in T : n <= m
<1>1. IsWellFoundedOn(Below, Nat)
  BY NatLessThanWellFounded, Zenon DEF OpToRel, Below
<1>2. \E n \in T : \A m \in T : ~(<<m, n>> \in Below)
  BY <1>1, WFMin, Zenon
<1>3. \A n, m \in T : ~(<<m, n>> \in Below) => n <= m
  BY DEF Below
<1>4. QED BY <1>2, <1>3

\* Induction up to a number.
LEMMA UpTo ==
  ASSUME NEW N \in Nat, NEW T, 0 \in T, \A n \in 0..N : n < N /\ n \in T => n + 1 \in T
  PROVE \A n \in 0..N : n \in T
<1>1. SUFFICES ASSUME NEW k \in 0..N, k \notin T PROVE FALSE
  OBVIOUS
<1> DEFINE Others == {m \in 0..N : m \notin T}
<1>2. Others \in SUBSET Nat /\ Others # {}
  BY <1>1
<1> HIDE DEF Others
<1>3. PICK n \in Others : \A m \in Others : n <= m
  BY <1>2, LeastNumber, Zenon
<1>4. n \in 0..N /\ n \notin T
  BY <1>3 DEF Others
<1>5. n # 0 /\ n - 1 \in 0..N /\ n - 1 < N /\ ~(n <= n - 1)
  BY <1>4
<1>6. n - 1 \in T
  BY <1>3, <1>5 DEF Others
<1>7. n - 1 + 1 = n
  BY <1>4
<1>8. QED BY <1>4, <1>5, <1>6, <1>7


-----------------------------------------------------------------------------

\* A row that is offered shows no process.
Calm(r) == r = Absent \/ (r \in Rows /\ (r.reply => r.pid = NoPid))
CalmRows == {r \in Rows \union {Absent} : Calm(r)}

SessionsInv ==
  alive \subseteq Pids /\ listing \subseteq Pids /\ row \in [Sessions -> CalmRows]

\* No event offers what is not free, and none removes the row.
LEMMA IngestKeeps ==
  ASSUME NEW r \in CalmRows, r # Absent, NEW kind
  PROVE IngestEvent(r, kind) \in CalmRows \ {Absent}
  BY DEF IngestEvent, CalmRows, Calm, Rows, Absent

\* A line offers a session that no process runs.
LEMMA EnsureKeeps ==
  ASSUME NEW r \in CalmRows
  PROVE EnsureSession(r) \in CalmRows \ {Absent}
  BY DEF EnsureSession, CalmRows, Calm, Rows, Absent, Row, NoPid

\* A hook offers nothing.
LEMMA HookKeeps ==
  ASSUME NEW r \in CalmRows, NEW hook
  PROVE HookRow(r, hook) \in CalmRows \ {Absent}
  BY DEF HookRow, CalmRows, Calm, Rows, Absent, Row, NoPid

\* A line, item by item.
LEMMA ParseKeeps ==
  ASSUME NEW f, NEW parsed, NEW line \in Seq(Items), NEW isNew, parsed.row \in CalmRows
  PROVE ParseLine(f, parsed, line, isNew).row \in CalmRows
<1> DEFINE first == [row |-> EnsureSession(parsed.row), open |-> parsed.open]
           OneMore(prev, i) ==
                 LET kind == IF isNew THEN EventOf(f, line[i], prev.open) ELSE "none"
                 IN [row |-> IngestEvent(prev.row, kind),
                     open |-> OpenAfter(line[i], prev.open)]
           Reached == {n \in Nat :
             \E g : g = [i \in 0..n |-> IF i = 0 THEN first ELSE OneMore(g[i - 1], i)]}
<1>1. Len(line) \in Nat
  OBVIOUS
<1>2. \A prev, i : prev.row \in CalmRows \ {Absent} => OneMore(prev, i).row \in CalmRows \ {Absent}
  BY IngestKeeps
<1>3. first.row \in CalmRows \ {Absent}
  BY EnsureKeeps
<1> HIDE DEF OneMore, first
<1>4. 0 \in Reached
  <2>1. [p \in 0..0 |-> first] =
         [p \in 0..0 |-> IF p = 0 THEN first
                        ELSE OneMore([q \in 0..0 |-> first][p - 1], p)]
    OBVIOUS
  <2>2. QED BY <2>1
<1>5. ASSUME NEW n \in 0..Len(line), n < Len(line), n \in Reached PROVE n + 1 \in Reached
  <2>1. PICK g : g = [i \in 0..n |-> IF i = 0 THEN first ELSE OneMore(g[i - 1], i)]
    BY <1>5
  <2> DEFINE h == [i \in 0..n+1 |-> IF i = n + 1 THEN OneMore(g[i - 1], i) ELSE g[i]]
  <2>2. \A i \in 0..n : h[i] = g[i]
    OBVIOUS
  <2>3. \A i \in 0..n+1 : h[i] = IF i = 0 THEN first ELSE OneMore(h[i - 1], i)
    BY <2>1, <2>2
  <2>4. h = [i \in 0..n+1 |-> IF i = 0 THEN first ELSE OneMore(h[i - 1], i)]
    BY <2>3
  <2>5. n + 1 \in Nat
    OBVIOUS
  <2>6. QED BY <2>4, <2>5, Zenon
<1> HIDE DEF Reached
<1>6. \A n \in 0..Len(line) : n \in Reached
  BY <1>1, <1>4, <1>5, UpTo, Zenon
<1>7. Len(line) \in Reached
  BY <1>1, <1>6
<1>8. PICK g : /\ g = [i \in 0..Len(line) |-> IF i = 0 THEN first ELSE OneMore(g[i - 1], i)]
               /\ ParseLine(f, parsed, line, isNew) = g[Len(line)]
  BY <1>7, Zenon DEF ParseLine, OneMore, first, Reached
<1> DEFINE T == {n \in 0..Len(line) : g[n].row \in CalmRows \ {Absent}}
<1>9. 0 \in T
  BY <1>1, <1>3, <1>8
<1>10. ASSUME NEW n \in 0..Len(line), n < Len(line), n \in T PROVE n + 1 \in T
  <2>1. g[n + 1] = OneMore(g[n], n + 1)
    BY <1>1, <1>8, <1>10
  <2>2. QED BY <1>1, <1>2, <1>10, <2>1
<1> HIDE DEF T
<1>11. \A n \in 0..Len(line) : n \in T
  BY <1>1, <1>9, <1>10, UpTo, Zenon
<1>12. QED BY <1>1, <1>8, <1>11 DEF T

\* The processes of a listing, one after the other.
LEMMA ObservedKeeps ==
  ASSUME SessionsInv
  PROVE Observed.rows \in [Sessions -> CalmRows]
<1> DEFINE first == [rows |-> row, active |-> {}]
           OneMore(prev, p) == IF p \in listing THEN Observe(prev, p) ELSE prev
           Reached == {n \in Nat :
             \E g : g = [p \in 0..n |-> IF p = 0 THEN first ELSE OneMore(g[p - 1], p)]}
<1>1. LastPid \in Nat
  BY ProcessesAreNumbers
<1>2. \A prev, p : prev.rows \in [Sessions -> CalmRows] => OneMore(prev, p).rows \in [Sessions -> CalmRows]
  <2>1. ASSUME NEW prev, NEW p, prev.rows \in [Sessions -> CalmRows], p \in Pids
        PROVE Observe(prev, p).rows \in [Sessions -> CalmRows]
    <3>1. Row(p, "running", FALSE, TRUE) \in CalmRows
      BY <2>1 DEF Row, CalmRows, Rows, Calm
    <3> HIDE DEF CalmRows
    <3>2. QED BY <2>1, <3>1 DEF Observe
  <2>2. listing \subseteq Pids
    BY DEF SessionsInv
  <2>3. QED BY <2>1, <2>2
<1>3. first.rows \in [Sessions -> CalmRows]
  BY DEF SessionsInv
<1> HIDE DEF OneMore, first
<1>4. 0 \in Reached
  <2>1. [p \in 0..0 |-> first] =
         [p \in 0..0 |-> IF p = 0 THEN first
                        ELSE OneMore([q \in 0..0 |-> first][p - 1], p)]
    OBVIOUS
  <2>2. QED BY <2>1
<1>5. ASSUME NEW n \in 0..LastPid, n < LastPid, n \in Reached PROVE n + 1 \in Reached
  <2>1. PICK g : g = [i \in 0..n |-> IF i = 0 THEN first ELSE OneMore(g[i - 1], i)]
    BY <1>5
  <2> DEFINE h == [i \in 0..n+1 |-> IF i = n + 1 THEN OneMore(g[i - 1], i) ELSE g[i]]
  <2>2. \A i \in 0..n : h[i] = g[i]
    OBVIOUS
  <2>3. \A i \in 0..n+1 : h[i] = IF i = 0 THEN first ELSE OneMore(h[i - 1], i)
    BY <2>1, <2>2
  <2>4. h = [i \in 0..n+1 |-> IF i = 0 THEN first ELSE OneMore(h[i - 1], i)]
    BY <2>3
  <2>5. n + 1 \in Nat
    OBVIOUS
  <2>6. QED BY <2>4, <2>5, Zenon
<1> HIDE DEF Reached
<1>6. \A n \in 0..LastPid : n \in Reached
  BY <1>1, <1>4, <1>5, UpTo, Zenon
<1>7. LastPid \in Reached
  BY <1>1, <1>6
<1>8. PICK g : /\ g = [p \in 0..LastPid |-> IF p = 0 THEN first ELSE OneMore(g[p - 1], p)]
               /\ Observed = g[LastPid]
  BY <1>7, Zenon DEF Observed, OneMore, first, Reached
<1> DEFINE T == {n \in 0..LastPid : g[n].rows \in [Sessions -> CalmRows]}
<1>9. 0 \in T
  BY <1>1, <1>3, <1>8
<1>10. ASSUME NEW n \in 0..LastPid, n < LastPid, n \in T PROVE n + 1 \in T
  <2>1. g[n + 1] = OneMore(g[n], n + 1)
    BY <1>1, <1>8, <1>10
  <2>2. QED BY <1>1, <1>2, <1>10, <2>1
<1> HIDE DEF T
<1>11. \A n \in 0..LastPid : n \in T
  BY <1>1, <1>9, <1>10, UpTo, Zenon
<1>12. QED BY <1>1, <1>8, <1>11 DEF T

\* The lines of a read, one after the other.
LEMMA ParsesKeeps ==
  ASSUME SessionsInv, NEW r, Parses(r)
  PROVE row' \in [Sessions -> CalmRows]
<1> DEFINE f == r.file
           start == IF r.prior = -1 \/ r.till < r.prior THEN 0 ELSE r.prior
           end == IF r.till < size[f] THEN r.till ELSE size[f]
           lines == Lines(start, end)
           first == [row |-> row[f], open |-> calls[f]]
           OneMore(prev, n) ==
             IF n \notin lines THEN prev ELSE ParseLine(f, prev, Text[n], IsNew(f, n))
           Reached == {n \in Nat :
             \E g : g = [i \in 0..n |-> IF i = 0 THEN first ELSE OneMore(g[i - 1], i)]}
<1> SUFFICES ASSUME f \in Sessions PROVE row' \in [Sessions -> CalmRows]
  BY DEF Parses, Upsert, SessionsInv
<1>1. MaxLines \in Nat
  BY LinesHaveSizes
<1> HIDE DEF lines
<1>2. \A prev, n : n \in 1..MaxLines /\ prev.row \in CalmRows => OneMore(prev, n).row \in CalmRows
  BY ParseKeeps, LinesHaveItems
<1>3. first.row \in CalmRows
  BY DEF SessionsInv
<1> HIDE DEF f, first
<1>8. \E g : /\ g = [n \in 0..MaxLines |-> IF n = 0 THEN first ELSE OneMore(g[n - 1], n)]
             /\ row' = [row EXCEPT ![f] = EnsureSession(g[MaxLines].row)]
  <2> HIDE DEF OneMore
  <2>1. 0 \in Reached
    <3>1. [p \in 0..0 |-> first] =
           [p \in 0..0 |-> IF p = 0 THEN first
                          ELSE OneMore([q \in 0..0 |-> first][p - 1], p)]
      OBVIOUS
    <3>2. QED BY <3>1
  <2>2. ASSUME NEW n \in 0..MaxLines, n < MaxLines, n \in Reached PROVE n + 1 \in Reached
    <3>1. PICK g : g = [i \in 0..n |-> IF i = 0 THEN first ELSE OneMore(g[i - 1], i)]
      BY <2>2
    <3> DEFINE h == [i \in 0..n+1 |-> IF i = n + 1 THEN OneMore(g[i - 1], i) ELSE g[i]]
    <3>2. \A i \in 0..n : h[i] = g[i]
      OBVIOUS
    <3>3. \A i \in 0..n+1 : h[i] = IF i = 0 THEN first ELSE OneMore(h[i - 1], i)
      BY <3>1, <3>2
    <3>4. h = [i \in 0..n+1 |-> IF i = 0 THEN first ELSE OneMore(h[i - 1], i)]
      BY <3>3
    <3>5. n + 1 \in Nat
      OBVIOUS
    <3>6. QED BY <3>4, <3>5, Zenon
  <2> HIDE DEF Reached
  <2>3. \A n \in 0..MaxLines : n \in Reached
    BY <1>1, <2>1, <2>2, UpTo, Zenon
  <2>4. MaxLines \in Reached
    BY <1>1, <2>3
  <2> DEFINE a == CHOOSE g :
                    g = [n \in 0..MaxLines |-> IF n = 0 THEN first ELSE OneMore(g[n - 1], n)]
  <2>5. a = [n \in 0..MaxLines |-> IF n = 0 THEN first ELSE OneMore(a[n - 1], n)]
    BY <2>4, Zenon DEF Reached
  <2>6. row' = [row EXCEPT ![f] = EnsureSession(a[MaxLines].row)]
    BY Zenon DEF Parses, Upsert, OneMore, f, first, lines
  <2>7. QED BY <2>5, <2>6, Zenon
<1>9. PICK g : /\ g = [n \in 0..MaxLines |-> IF n = 0 THEN first ELSE OneMore(g[n - 1], n)]
               /\ row' = [row EXCEPT ![f] = EnsureSession(g[MaxLines].row)]
  BY <1>8
<1> HIDE DEF OneMore
<1> DEFINE T == {n \in 0..MaxLines : g[n].row \in CalmRows}
<1>10. 0 \in T
  BY <1>1, <1>3, <1>9
<1>11. ASSUME NEW n \in 0..MaxLines, n < MaxLines, n \in T PROVE n + 1 \in T
  <2>1. g[n + 1] = OneMore(g[n], n + 1)
    BY <1>1, <1>9, <1>11
  <2>2. QED BY <1>1, <1>2, <1>11, <2>1
<1> HIDE DEF T
<1>12. \A n \in 0..MaxLines : n \in T
  BY <1>1, <1>10, <1>11, UpTo, Zenon
<1>13. EnsureSession(g[MaxLines].row) \in CalmRows
  BY <1>1, <1>12, EnsureKeeps DEF T
<1>14. QED BY <1>9, <1>13 DEF SessionsInv

(***************************************************************************)
(* A session is offered for a reply only while its row shows no process    *)
(* that runs it, whatever transcripts, listings, hooks and restarts wrote  *)
(* it, in any order (discovery-service.ts:191-306, store.ts:606).          *)
(***************************************************************************)
THEOREM OfferedAreFree == DiscoverySpec => []FreeToReply
<1>1. DiscoveryInit => SessionsInv
  BY DEF DiscoveryInit, SessionsInv, CalmRows, Calm, Absent
<1>2. SessionsInv /\ [DiscoveryNext]_discoveryVars => SessionsInv'
  <2> SUFFICES ASSUME SessionsInv, [DiscoveryNext]_discoveryVars PROVE SessionsInv'
    OBVIOUS
  <2>1. ASSUME NEW f \in Files, NEW hook, Hook(f, hook) PROVE SessionsInv'
    <3>1. IngestEvent(HookRow(row[f], hook), HookKind(hook)) \in CalmRows
      BY IngestKeeps, HookKeeps DEF SessionsInv, Sessions
    <3>2. QED BY <2>1, <3>1 DEF Hook, Upsert, SessionsInv, memory
  <2>2. ASSUME NEW r, Parses(r) PROVE SessionsInv'
    BY <2>2, ParsesKeeps DEF SessionsInv, Parses, world
  <2>3. ASSUME ScanEnds PROVE SessionsInv'
    <3>1. row' \in [Sessions -> CalmRows]
      <4>1. Absent \in CalmRows /\ Row(NoPid, "idle", TRUE, FALSE) \in CalmRows
        BY DEF Absent, Row, CalmRows, Rows, Calm
      <4>2. QED BY <2>3, <4>1, ObservedKeeps DEF ScanEnds, ClearInactive
    <3>2. QED BY <2>3, <3>1 DEF ScanEnds, SessionsInv, world
  <2>4. ASSUME NEW p \in Pids, ProcessTurns(p) PROVE SessionsInv'
    BY <2>4 DEF ProcessTurns, SessionsInv, memory, store
  <2>5. ASSUME ScanBegins \/ ListingFails \/ StartsAgain PROVE SessionsInv'
    BY <2>5 DEF ScanBegins, ListingFails, StartsAgain, SessionsInv, world, store
  <2>6. ASSUME NEW f \in Files, Writes(f) \/ Rotates(f) \/ Refresh(f) \/ Tail2s(f) PROVE SessionsInv'
    BY <2>6 DEF Writes, Rotates, Refresh, Tail2s, SessionsInv, world, store, memory
  <2>7. ASSUME NEW r, Opens(r) PROVE SessionsInv'
    BY <2>7 DEF Opens, SessionsInv, world, store
  <2>8. ASSUME UNCHANGED discoveryVars PROVE SessionsInv'
    BY <2>8 DEF discoveryVars, SessionsInv
  <2>9. QED BY <2>1, <2>2, <2>3, <2>4, <2>5, <2>6, <2>7, <2>8 DEF DiscoveryNext, Reads
<1>3. SessionsInv => FreeToReply
  BY DEF SessionsInv, FreeToReply, Offered, Shows, CalmRows, Calm
<1>4. QED BY <1>1, <1>2, <1>3, PTL DEF DiscoverySpec
=============================================================================
