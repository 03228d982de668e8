---------------------------- MODULE OnTheMacProofs ----------------------------
(***************************************************************************)
(* Proofs about what the bridge has around the tasks, for every number of  *)
(* processes, jobs, files, views, sessions, posts and rows, and every      *)
(* bound.  Each section is about one part: it states an inductive          *)
(* invariant, shows that it holds at first, that every step keeps it and   *)
(* that it implies the part's property, and ends in the theorem about the  *)
(* part's own specification.  Section 6 carries all of them over to the    *)
(* specification in which the parts are looked at together.                *)
(*                                                                         *)
(*  1. Service: at most one process is past the lock, because who names    *)
(*     the lock is alone with it and what is about to be removed is        *)
(*     nobody's.  It needs Prompt, without which it is false.              *)
(*  2. Integrations: where a job is tells what it has done to the plugin,  *)
(*     its entry and the hooks.  It needs Serial and Sound.                *)
(*  3. Materials and their views: uploads the bucket is asked to delete    *)
(*     are on disk; slots and entries that load are counted.               *)
(*  4. Projects: identities, locations and what refers to them agree in    *)
(*     every step of the backfill, and what is temporary is old.           *)
(*  5. Upgrades: where a start is tells which migrations are done, and a   *)
(*     row that the third one has seen stays readable.                     *)
(***************************************************************************)
EXTENDS OnTheMac, FiniteSetTheorems, TLAPS

-----------------------------------------------------------------------------
(* 1. The bridge's process. *)

\* A start that has not ended has tries left.
TriesLeft == \A p \in Starts : stage[p] # "gone" => tries[p] < MaxTries

\* Who is past the lock has it; who is about to name it is alone with it.
LockIsTheirs ==
  /\ \A p \in Starts : stage[p] \in Holding => lock = p
  /\ \A p \in Starts : stage[p] = "name" =>
       lock = "bare" /\ \A q \in Starts \ {p} : stage[q] # "name"

\* What is about to be removed is nobody's.
StealsFromNone ==
  (\E q \in Starts : stage[q] = "steal")
  => \A p \in Starts : stage[p] \notin Holding \union {"name"}

\* Who listens, and whom the descriptor names.
SocketIsTheirs == \A p \in Starts : stage[p] \in Working \ {"open"} => socket = p
PortIsHeld ==
  port \in Starts =>
    stage[port] \in (Working \ {"open", "hooked"}) \union {"clearing", "closing"}
DescriptorIsTrue ==
  descriptor \in Starts =>
    /\ stage[descriptor] \in {"described", "ready", "clearing", "gone"}
    /\ stage[descriptor] # "gone" => socket = descriptor

ServiceInv ==
  /\ ServiceTypeOK /\ TriesLeft
  /\ LockIsTheirs /\ StealsFromNone
  /\ SocketIsTheirs /\ PortIsHeld /\ DescriptorIsTrue


\* Nothing has started.
LEMMA ServiceInitially == ServiceInit => ServiceInv
<1> SUFFICES ASSUME ServiceInit PROVE ServiceInv
    OBVIOUS
<1> USE NoOneIsNoStart, ServiceBounds
<1> USE DEF ServiceInit, Holding, Working, Ending
<1>1. ServiceTypeOK
  <2>1. stage \in [Starts -> {"idle"}] /\ tries \in [Starts -> 0..MaxTries]
        OBVIOUS
  <2>2. reused \subseteq {p \in Starts : stage[p] = "gone"}
        OBVIOUS
  <2>3. stage \in [Starts -> {"idle", "lock", "name", "look", "steal", "gone"} \union Holding]
        BY <2>1
  <2> QED BY <2>1, <2>2, <2>3 DEF ServiceTypeOK
<1>2. TriesLeft /\ LockIsTheirs
      BY DEF TriesLeft, LockIsTheirs
<1>3. StealsFromNone /\ SocketIsTheirs /\ PortIsHeld /\ DescriptorIsTrue
      BY DEF StealsFromNone, SocketIsTheirs, PortIsHeld, DescriptorIsTrue
<1> QED BY <1>1, <1>2, <1>3 DEF ServiceInv

\* Every step keeps the invariant if owners are named promptly and stale locks go at
\* once: a lock that is made is nobody's, and who removes one takes nobody's away.
LEMMA ServiceStep ==
  ASSUME Prompt = TRUE, ServiceInv, [ServiceNext]_serviceVars
  PROVE  ServiceInv'
<1> USE NoOneIsNoStart, ServiceBounds
<1> USE DEF Goes, ServiceInv, ServiceTypeOK, TriesLeft, LockIsTheirs, StealsFromNone,
            SocketIsTheirs,
            PortIsHeld, DescriptorIsTrue, Holding, Working, Ending
<1>1. ASSUME NEW p \in Starts, Begin(p) PROVE ServiceInv'
  <2> USE <1>1 DEF Begin, Begins
  <2>1. ServiceTypeOK'
        OBVIOUS
  <2>2. TriesLeft'
        OBVIOUS
  <2>3. LockIsTheirs'
        OBVIOUS
  <2>4. StealsFromNone' /\ SocketIsTheirs'
        OBVIOUS
  <2>5. PortIsHeld' /\ DescriptorIsTrue'
        OBVIOUS
  <2> QED
        BY <2>1, <2>2, <2>3, <2>4, <2>5
<1>2. ASSUME NEW p \in Starts, MakeLock(p) PROVE ServiceInv'
  <2>1. \A q \in Starts : stage[q] # "steal"
        BY <1>2 DEF MakeLock, NobodySteals
  <2>2. CASE lock = NoOne
    <3>1. stage' = [stage EXCEPT ![p] = "name"] /\ lock' = "bare"
          BY <1>2, <2>2 DEF MakeLock
    <3>2. UNCHANGED <<tries, socket, port, descriptor, reused, manual, awaits, agent>>
          BY <1>2 DEF MakeLock
    <3>3. stage[p] = "lock" /\ \A q \in Starts : stage[q] \notin Holding \union {"name"}
          BY <1>2, <2>2 DEF MakeLock
    <3>4. ServiceTypeOK' /\ TriesLeft'
          BY <3>1, <3>2, <3>3
    <3>5. LockIsTheirs' /\ StealsFromNone'
          BY <2>1, <3>1, <3>2, <3>3
    <3>6. SocketIsTheirs' /\ PortIsHeld' /\ DescriptorIsTrue'
          BY <3>1, <3>2, <3>3
    <3> QED BY <3>4, <3>5, <3>6
  <2>3. CASE lock # NoOne
        BY <1>2, <2>1, <2>3 DEF MakeLock
  <2> QED BY <2>2, <2>3
<1>3. ASSUME NEW p \in Starts, NameLock(p) PROVE ServiceInv'
      BY <1>3 DEF NameLock
<1>4. ASSUME NEW p \in Starts, Look(p) PROVE ServiceInv'
      BY <1>4 DEF Look, OwnerIsUnknown, NobodySteals, Alive
<1>5. ASSUME NEW p \in Starts, Steal(p) PROVE ServiceInv'
      BY <1>5 DEF Steal
<1>6. ASSUME NEW p \in Starts, TakeSocket(p) PROVE ServiceInv'
      BY <1>6 DEF TakeSocket
<1>7. ASSUME NEW p \in Starts, Bind(p) PROVE ServiceInv'
      BY <1>7 DEF Bind
<1>8. ASSUME NEW p \in Starts, Describe(p) PROVE ServiceInv'
      BY <1>8 DEF Describe
<1>9. ASSUME NEW p \in Starts, Ready(p) PROVE ServiceInv'
      BY <1>9 DEF Ready
<1>10. ASSUME NEW p \in Starts, Fail(p) PROVE ServiceInv'
      BY <1>10 DEF Fail
<1>11. ASSUME NEW p \in Starts, ClearDescriptor(p) PROVE ServiceInv'
      BY <1>11 DEF ClearDescriptor
<1>12. ASSUME NEW p \in Starts, Close(p) PROVE ServiceInv'
      BY <1>12 DEF Close
<1>13. ASSUME NEW p \in Starts, Release(p) PROVE ServiceInv'
      BY <1>13 DEF Release
<1>14. ASSUME NEW p \in Starts, Reuse(p) PROVE ServiceInv'
      BY <1>14 DEF Reuse
<1>15. ASSUME NEW p \in Starts, Interrupt(p) PROVE ServiceInv'
      BY <1>15 DEF Interrupt, Signalled
<1>16. CASE Stop
      BY <1>16 DEF Stop, Signalled, Alive
<1>17. CASE StopFindsNone
      BY <1>17 DEF StopFindsNone
<1>18. CASE Stopped
      BY ZenonT(40), <1>18 DEF Stopped
<1>19. CASE AgentAsks
  <2>2. CASE Reachable
        BY <1>19, <2>2 DEF AgentAsks
  <2>3. CASE ~Reachable
    <3>1. PICK p \in Starts : Begins(p)
          BY <1>19, <2>3 DEF AgentAsks
    <3>2. UNCHANGED <<tries, lock, socket, port, descriptor, reused, awaits>>
          BY <1>19 DEF AgentAsks
    <3>3. agent' = "waits"
          BY <1>19, <2>3 DEF AgentAsks
    <3> QED BY <3>1, <3>2, <3>3 DEF Begins
  <2> QED BY <2>2, <2>3
<1>20. CASE AgentSees
      BY <1>20 DEF AgentSees
<1>21. CASE UNCHANGED serviceVars
      BY <1>21 DEF serviceVars
<1> QED BY <1>1, <1>2, <1>3, <1>4, <1>5, <1>6, <1>7, <1>8, <1>9, <1>10, <1>11, <1>12, <1>13,
           <1>14, <1>15, <1>16, <1>17, <1>18, <1>19, <1>20, <1>21 DEF ServiceNext

\* Two past the lock would both have it; a descriptor's live process is past it, and
\* whoever has the port too, so they are one, whose socket it is.
LEMMA ServiceSuffices == ServiceInv => ServiceIsSafe
<1> SUFFICES ASSUME ServiceInv PROVE ServiceIsSafe
    OBVIOUS
<1> USE NoOneIsNoStart
<1> USE DEF ServiceInv, LockIsTheirs, SocketIsTheirs, PortIsHeld, DescriptorIsTrue, Holding,
            Working,
            Ending
<1>1. OneBridge
      BY DEF OneBridge
<1>2. descriptor \notin reused => Ownership # "unverifiable"
  <2>1. CASE descriptor = NoOne
        BY <2>1 DEF Ownership
  <2>2. CASE descriptor \in Starts
        BY <2>2 DEF Ownership, Alive
  <2> QED BY <2>1, <2>2 DEF ServiceTypeOK
<1>3. ASSUME Operational PROVE Reachable
  <2>1. Alive(descriptor) /\ lock = descriptor /\ port # NoOne
        BY <1>3 DEF Operational, Ownership, Healthy, Alive
  <2>2. stage[descriptor] # "gone"
    <3>1. port \in Starts
          BY <2>1 DEF ServiceTypeOK
    <3>2. stage[port] # "gone" /\ lock = port
          BY <3>1
    <3> QED BY <2>1, <3>2
  <2> QED BY <2>1, <2>2 DEF Alive, Reachable
<1> QED BY <1>1, <1>2, <1>3 DEF ServiceIsSafe, VerifiedOrNothing

\* Under prompt naming and removal one bridge at most is at work, with its socket, and
\* what a status says is so.
THEOREM ServiceKeeps ==
  ASSUME Prompt = TRUE
  PROVE  ServiceSpec => []ServiceIsSafe
<1>1. ServiceInv /\ [ServiceNext]_serviceVars => ServiceInv'
      BY ServiceStep
<1>2. ServiceSpec => []ServiceInv
      BY <1>1, ServiceInitially, PTL DEF ServiceSpec
<1> QED BY <1>2, ServiceSuffices, PTL

-----------------------------------------------------------------------------
(* 2. The way into Codex. *)

\* The steps of an install: before its plugin is in place, and after.
Preparing == {"stage", "aside", "place"}
Placing == {"list", "drop", "migrate", "remove", "add", "unhook"}

\* What a job has done so far, at each of its steps.
KindIsTrue(j) ==
  /\ at[j] \in Preparing \union Placing \union {"undo"} => kind[j] \in {"plugin", "cli"}
  /\ at[j] \in {"hook", "unlist", "relist"} => kind[j] = "cli"
  /\ at[j] = "strip" => kind[j] = "off"
  /\ at[j] = "clean" => kind[j] = "remove"
HomeIsTrue(j) ==
  /\ at[j] \in {"idle", "stage", "aside"} => saved[j] = "none" /\ j \notin placed
  /\ at[j] \in {"stage", "aside"} => plugin = before[j]
  /\ at[j] = "place" => plugin = "none" /\ saved[j] = before[j] /\ j \notin placed
  /\ at[j] = "list" => saved[j] = before[j] /\ j \in placed
  /\ at[j] \in Placing => plugin = "new"
  /\ at[j] \in Placing \ {"list"} => listed
  /\ at[j] = "undo" =>
       \/ plugin = before[j] /\ saved[j] = "none" /\ j \notin placed
       \/ plugin = "none" /\ saved[j] = before[j] /\ j \notin placed
       \/ saved[j] = before[j] /\ j \in placed
HooksAreTrue(j) ==
  /\ at[j] = "unhook" /\ j \in able => runtime = "new"
  /\ at[j] = "hook" => plugin = "none" \/ hooks = "none"
  /\ at[j] \in {"unlist", "relist"} => (plugin = "none") # (hooks = "none")

\* One job runs at a time.
OneRuns == \A i, j \in Running : i = j

IntegrationInv ==
  /\ IntegrationTypeOK /\ OneRuns
  /\ \A j \in Jobs : KindIsTrue(j) /\ HomeIsTrue(j) /\ HooksAreTrue(j)

\* No job has begun.
LEMMA IntegrationInitially == IntegrationInit => IntegrationInv
<1> SUFFICES ASSUME IntegrationInit PROVE IntegrationInv
    OBVIOUS
<1> USE DEF IntegrationInit
<1>1. IntegrationTypeOK
      BY DEF IntegrationTypeOK, Versions, Answers
<1>2. OneRuns
      BY DEF OneRuns, Running
<1>3. ASSUME NEW j \in Jobs PROVE KindIsTrue(j) /\ HomeIsTrue(j) /\ HooksAreTrue(j)
      BY DEF KindIsTrue, HomeIsTrue, HooksAreTrue, Preparing, Placing
<1> QED BY <1>1, <1>2, <1>3 DEF IntegrationInv

\* Where a job that does not run is, it is not in any of the steps.
Resting == {"idle", "done", "failed", "cut"}

\* While a job moves, every other one rests.
LEMMA OthersRest ==
  ASSUME Serial = TRUE, IntegrationInv, NEW j \in Jobs, at[j] \notin Resting \/ MayBegin(j),
         NEW i \in Jobs, i # j
  PROVE  at[i] \in Resting
BY DEF IntegrationInv, OneRuns, Running, MayBegin, Resting

\* What a job's step leaves to show once the others rest.
Alone(j) ==
  /\ at[j] \notin Resting \/ MayBegin(j)
  /\ \E s : GoesTo(j, s)
  /\ \A i \in Jobs \ {j} :
       kind'[i] = kind[i] /\ saved'[i] = saved[i] /\ (i \in placed' <=> i \in placed)

\* It is enough to look at the job that moves.
LEMMA JobMoves ==
  ASSUME Serial = TRUE, IntegrationInv, NEW j \in Jobs, Alone(j), IntegrationTypeOK',
         KindIsTrue(j)', HomeIsTrue(j)', HooksAreTrue(j)'
  PROVE  IntegrationInv'
<1>1. \A i \in Jobs \ {j} : at[i] \in Resting /\ at'[i] = at[i]
      BY OthersRest DEF Alone, GoesTo, IntegrationInv, IntegrationTypeOK
<1>2. OneRuns'
      BY <1>1 DEF OneRuns, Running, Resting
<1>3. ASSUME NEW i \in Jobs \ {j} PROVE KindIsTrue(i)' /\ HomeIsTrue(i)' /\ HooksAreTrue(i)'
      BY <1>1 DEF Alone, KindIsTrue, HomeIsTrue, HooksAreTrue, Preparing, Placing, Resting,
                  IntegrationInv
<1> QED BY <1>2, <1>3 DEF IntegrationInv

JobSteps(j) ==
  \/ BeginPlugin(j) \/ BeginCli(j) \/ BeginOff(j) \/ BeginRemove(j)
  \/ Stage(j) \/ MoveAside(j) \/ Place(j) \/ List(j) \/ DropSaved(j) \/ Migrate(j)
  \/ FileFails(j) \/ Undo(j) \/ RemoveRuntime(j) \/ AddRuntime(j) \/ RuntimeFails(j)
  \/ Unhook(j) \/ Hook(j) \/ Unlist(j) \/ Relist(j) \/ Strip(j) \/ Clean(j) \/ Cut(j)

\* Every step of a job leaves what the next one relies on.
LEMMA JobKeeps ==
  ASSUME Serial = TRUE, Sound = TRUE, IntegrationInv, NEW j \in Jobs, JobSteps(j)
  PROVE  IntegrationInv'
<1> DEFINE Kept == /\ IntegrationTypeOK' /\ Alone(j)
                   /\ KindIsTrue(j)' /\ HomeIsTrue(j)' /\ HooksAreTrue(j)'
<1>1. Kept
  <2> USE DEF IntegrationInv, IntegrationTypeOK, Versions, Answers, Alone, KindIsTrue,
              HomeIsTrue,
              HooksAreTrue, Preparing, Placing, Resting, Running, GoesTo, codexHome, jobs,
              probes
  <2>1. CASE BeginPlugin(j)
    <3> USE <2>1 DEF BeginPlugin, MayBegin, Looked, Holds
    <3>1. IntegrationTypeOK'
          OBVIOUS
    <3>2. Alone(j)
          OBVIOUS
    <3>3. KindIsTrue(j)'
          OBVIOUS
    <3>4. HomeIsTrue(j)' /\ HooksAreTrue(j)'
          OBVIOUS
    <3> QED
          BY <3>1, <3>2, <3>3, <3>4
  <2>2. CASE BeginCli(j)
        BY <2>2 DEF BeginCli, MayBegin, PluginOwnsHooks
  <2>3. CASE BeginOff(j)
        BY <2>3 DEF BeginOff, MayBegin
  <2>4. CASE BeginRemove(j)
        BY <2>4 DEF BeginRemove, MayBegin, Invalidated
  <2>5. CASE Stage(j)
        BY <2>5 DEF Stage
  <2>6. CASE MoveAside(j)
        BY <2>6 DEF MoveAside
  <2>7. CASE Place(j)
        BY <2>7 DEF Place
  <2>8. CASE List(j)
        BY <2>8 DEF List
  <2>9. CASE DropSaved(j)
        BY <2>9 DEF DropSaved
  <2>10. CASE Migrate(j)
        BY ZenonT(40), <2>10 DEF Migrate
  <2>11. CASE FileFails(j)
        BY <2>11 DEF FileFails
  <2>12. CASE Undo(j)
        BY <2>12 DEF Undo
  <2>13. CASE RemoveRuntime(j)
        BY <2>13 DEF RemoveRuntime
  <2>14. CASE AddRuntime(j)
        BY <2>14 DEF AddRuntime, Invalidated
  <2>15. CASE RuntimeFails(j)
        BY <2>15 DEF RuntimeFails, Invalidated
  <2>16. CASE Unhook(j)
        BY <2>16 DEF Unhook
  <2>17. CASE Hook(j)
        BY <2>17 DEF Hook, Invalidated, PluginOwnsHooks
  <2>18. CASE Unlist(j)
        BY <2>18 DEF Unlist
  <2>19. CASE Relist(j)
        BY ZenonT(40), <2>19 DEF Relist, Invalidated
  <2>20. CASE Strip(j)
        BY <2>20 DEF Strip
  <2>21. CASE Clean(j)
        BY <2>21 DEF Clean, Invalidated
  <2>22. CASE Cut(j)
        BY <2>22 DEF Cut, Running
  <2> QED BY <2>1, <2>2, <2>3, <2>4, <2>5, <2>6, <2>7, <2>8, <2>9, <2>10, <2>11, <2>12, <2>13,
             <2>14, <2>15, <2>16, <2>17, <2>18, <2>19, <2>20, <2>21, <2>22 DEF JobSteps
<1> QED BY <1>1, JobMoves

\* The probes touch nothing a job relies on.
LEMMA IntegrationStep ==
  ASSUME Serial = TRUE, Sound = TRUE, IntegrationInv, [IntegrationNext]_integrationVars
  PROVE  IntegrationInv'
<1> USE DEF IntegrationInv, IntegrationTypeOK, OneRuns, KindIsTrue, HomeIsTrue, HooksAreTrue,
            Preparing, Placing, Running, Answers, codexHome, jobs, probes
<1>1. CASE Ask \/ Answer
      BY <1>1 DEF Ask, Answer, Holds
<1>2. CASE Cached \/ Forget
      BY <1>2 DEF Cached, Forget
<1>3. ASSUME NEW j \in Jobs, JobSteps(j) PROVE IntegrationInv'
      BY <1>3, JobKeeps
<1>4. CASE UNCHANGED integrationVars
      BY <1>4 DEF integrationVars
<1> QED BY <1>1, <1>2, <1>3, <1>4 DEF IntegrationNext, JobSteps

\* What no step does.
Unhooks ==
  hooks # "none" /\ hooks' = "none"
  => runtime' = "new" \/ \E j \in Jobs : at'[j] # at[j] /\ (kind[j] = "off" \/ j \notin able)
EndsWell(j) ==
  at[j] # "done" /\ at'[j] = "done" =>
    /\ kind[j] \in {"plugin", "cli"} => (plugin' = "none") # (hooks' = "none")
    /\ kind[j] = "plugin" /\ j \in able => Installed'
FailsWell(j) ==
  at[j] = "undo" /\ at'[j] = "failed"
  => plugin' \in {before[j], plugin} /\ (before[j] # "none" => plugin' # "none")

\* No step of a job unhooks a working Codex, ends with two sets of hooks or none, or
\* loses the plugin it found.
LEMMA JobIsSafe ==
  ASSUME Serial = TRUE, Sound = TRUE, IntegrationInv, NEW j \in Jobs, JobSteps(j)
  PROVE  Unhooks /\ \A i \in Jobs : EndsWell(i) /\ FailsWell(i)
<1>1. \A i \in Jobs \ {j} : at'[i] = at[i]
  <2>1. \E s : GoesTo(j, s)
        BY DEF JobSteps, BeginPlugin, BeginCli, BeginOff, BeginRemove, Stage, MoveAside, Place,
           List, DropSaved, Migrate, FileFails, Undo, RemoveRuntime, AddRuntime, RuntimeFails,
           Unhook, Hook, Unlist, Relist, Strip, Clean, Cut
  <2> QED BY <2>1 DEF GoesTo, IntegrationInv, IntegrationTypeOK
<1>2. Unhooks /\ EndsWell(j) /\ FailsWell(j)
  <2> USE DEF IntegrationInv, IntegrationTypeOK, Versions, KindIsTrue, HomeIsTrue, HooksAreTrue,
              Preparing, Placing, GoesTo, Unhooks, EndsWell, FailsWell, Installed, codexHome,
              jobs, probes
  <2>1. CASE BeginPlugin(j)
        BY <2>1 DEF BeginPlugin, MayBegin, Looked, Holds
  <2>2. CASE BeginCli(j)
        BY <2>2 DEF BeginCli, MayBegin, PluginOwnsHooks
  <2>3. CASE BeginOff(j)
        BY <2>3 DEF BeginOff, MayBegin
  <2>4. CASE BeginRemove(j)
        BY <2>4 DEF BeginRemove, MayBegin, Invalidated
  <2>5. CASE Stage(j)
        BY <2>5 DEF Stage
  <2>6. CASE MoveAside(j)
        BY <2>6 DEF MoveAside
  <2>7. CASE Place(j)
        BY <2>7 DEF Place
  <2>8. CASE List(j)
        BY <2>8 DEF List
  <2>9. CASE DropSaved(j)
        BY <2>9 DEF DropSaved
  <2>10. CASE Migrate(j)
        BY <2>10 DEF Migrate
  <2>11. CASE FileFails(j)
        BY <2>11 DEF FileFails
  <2>12. CASE Undo(j)
        BY <2>12 DEF Undo
  <2>13. CASE RemoveRuntime(j)
        BY <2>13 DEF RemoveRuntime
  <2>14. CASE AddRuntime(j)
        BY <2>14 DEF AddRuntime, Invalidated
  <2>15. CASE RuntimeFails(j)
        BY <2>15 DEF RuntimeFails, Invalidated
  <2>16. CASE Unhook(j)
        BY <2>16 DEF Unhook
  <2>17. CASE Hook(j)
        BY <2>17 DEF Hook, Invalidated, PluginOwnsHooks
  <2>18. CASE Unlist(j)
        BY <2>18 DEF Unlist
  <2>19. CASE Relist(j)
        BY <2>19 DEF Relist, Invalidated
  <2>20. CASE Strip(j)
        BY <2>20 DEF Strip
  <2>21. CASE Clean(j)
        BY <2>21 DEF Clean, Invalidated
  <2>22. CASE Cut(j)
        BY <2>22 DEF Cut, Running
  <2> QED BY <2>1, <2>2, <2>3, <2>4, <2>5, <2>6, <2>7, <2>8, <2>9, <2>10, <2>11, <2>12, <2>13,
             <2>14, <2>15, <2>16, <2>17, <2>18, <2>19, <2>20, <2>21, <2>22 DEF JobSteps
<1> QED BY <1>1, <1>2 DEF EndsWell, FailsWell

\* The same of every step.
LEMMA StepIsSafe ==
  ASSUME Serial = TRUE, Sound = TRUE, IntegrationInv, [IntegrationNext]_integrationVars
  PROVE  Unhooks /\ \A j \in Jobs : EndsWell(j) /\ FailsWell(j)
<1>1. ASSUME hooks' = hooks, at' = at
      PROVE Unhooks /\ \A j \in Jobs : EndsWell(j) /\ FailsWell(j)
      BY <1>1 DEF Unhooks, EndsWell, FailsWell
<1>2. CASE Ask \/ Answer \/ Cached \/ Forget \/ UNCHANGED integrationVars
      BY <1>1, <1>2 DEF Ask, Answer, Cached, Forget, integrationVars
<1>3. ASSUME NEW j \in Jobs, JobSteps(j)
      PROVE  Unhooks /\ \A i \in Jobs : EndsWell(i) /\ FailsWell(i)
      BY <1>3, JobIsSafe
<1> QED BY <1>2, <1>3 DEF IntegrationNext, JobSteps

\* Jobs that come one at a time and read sound files never do what the three properties
\* forbid, wherever they fail or are cut.
THEOREM InstallsAreKeptSafe ==
  ASSUME Serial = TRUE, Sound = TRUE
  PROVE  IntegrationSpec => InstallsAreSafe
<1>1. IntegrationInv /\ [IntegrationNext]_integrationVars => IntegrationInv'
      BY IntegrationStep
<1>2. IntegrationInv /\ [IntegrationNext]_integrationVars
      => /\ [Unhooks]_integrationVars
         /\ [\A j \in Jobs : EndsWell(j)]_integrationVars
         /\ [\A j \in Jobs : FailsWell(j)]_integrationVars
      BY StepIsSafe
<1>3. IntegrationSpec => /\ [][Unhooks]_integrationVars
                         /\ [][\A j \in Jobs : EndsWell(j)]_integrationVars
                         /\ [][\A j \in Jobs : FailsWell(j)]_integrationVars
      BY <1>1, <1>2, IntegrationInitially, PTL DEF IntegrationSpec
<1> QED BY <1>3 DEF InstallsAreSafe, NeverUnhooked, OneSetOfHooks, FailedInstallsUndone,
           Unhooks,
                     EndsWell, FailsWell

-----------------------------------------------------------------------------
(* 3. Materials and their views. *)

\* A ready row has its file, and only a file that passed; the bucket is only asked to
\* delete what the Mac has.
RowsHaveFiles == \A f \in Files : row[f] = "ready" => f \in disk \intersect good
DeletesKept == deleting \subseteq disk
MaterialsInv == TypeOK /\ KeptSomewhere /\ RowsHaveFiles /\ DeletesKept

\* Nothing is picked.
LEMMA MaterialsInitially == Init => MaterialsInv
BY BoundsAreNatural DEF Init, MaterialsInv, TypeOK, KeptSomewhere, RowsHaveFiles, DeletesKept,
   Idle

\* Whatever is lost, repeated or restarted: the bucket is asked to delete only what is on
\* disk, and what is on disk stays.
LEMMA MaterialsStep == MaterialsInv /\ [Next]_vars => MaterialsInv'
<1> SUFFICES ASSUME MaterialsInv, [Next]_vars PROVE MaterialsInv'
    OBVIOUS
<1> USE BoundsAreNatural, TasksNameFiles
<1> USE DEF MaterialsInv, TypeOK, KeptSomewhere, RowsHaveFiles, DeletesKept, Passes, Idle,
            fileVars, deviceVars, macVars, cloudVars
<1>1. CASE Drop
  <2>1. drops' \in 0..MaxDrops
        BY <1>1 DEF Drop
  <2> QED BY <1>1, <2>1 DEF Drop
<1>2. CASE Reconnect
      BY <1>2 DEF Reconnect
<1>3. CASE Restart
  <2>1. drops' \in 0..MaxDrops /\ restarts' \in 0..MaxRestarts
        BY <1>3 DEF Restart
  <2>2. job' \in [Files -> [Slots -> {"off", "fetching", "have", "missing"}]]
        BY <1>3 DEF Restart
  <2> QED BY <1>3, <2>1, <2>2 DEF Restart
<1>4. ASSUME NEW f \in Files, Pick(f) PROVE MaterialsInv'
      BY <1>4 DEF Pick
<1>5. ASSUME NEW f \in Files, PutRemote(f) PROVE MaterialsInv'
      BY <1>5 DEF PutRemote
<1>6. ASSUME NEW f \in Files, PutLocal(f) PROVE MaterialsInv'
      BY <1>6 DEF PutLocal
<1>7. ASSUME NEW f \in Files, Prepared(f) PROVE MaterialsInv'
      BY <1>7 DEF Prepared
<1>8. ASSUME NEW f \in Files, UploadFails(f) PROVE MaterialsInv'
      BY <1>8 DEF UploadFails
<1>9. ASSUME NEW f \in Files, Register(f) PROVE MaterialsInv'
  <2>1. CASE row[f] = "ready"
        BY <1>9, <2>1 DEF Register
  <2>2. CASE row[f] # "ready" /\ f \in local
        BY <1>9, <2>2 DEF Register, Keep, FailsCheck, Tell, Staged
  <2>3. CASE row[f] # "ready" /\ f \notin local
    <3>1. PICK i \in Slots : job' = [job EXCEPT ![f][i] = "fetching"]
          BY <1>9, <2>3 DEF Register
    <3>2. job' \in [Files -> [Slots -> {"off", "fetching", "have", "missing"}]]
          BY <3>1
    <3> QED BY <1>9, <2>3, <3>2 DEF Register
  <2> QED BY <2>1, <2>2, <2>3
<1>10. ASSUME NEW f \in Files, Delete(f) PROVE MaterialsInv'
      BY <1>10 DEF Delete
<1>11. ASSUME NEW f \in Files, ExpireUpload(f) PROVE MaterialsInv'
      BY <1>11 DEF ExpireUpload
<1>12. ASSUME NEW f \in Files, NEW i \in Slots, Fetch(f, i) PROVE MaterialsInv'
      BY <1>12 DEF Fetch, InBucket
<1>13. ASSUME NEW f \in Files, NEW i \in Slots, FetchFails(f, i) PROVE MaterialsInv'
      BY <1>13 DEF FetchFails
<1>14. ASSUME NEW f \in Files, NEW i \in Slots, Finish(f, i) PROVE MaterialsInv'
      BY <1>14 DEF Finish, Keep, FailsCheck, Tell
<1>15. ASSUME NEW t \in Tasks, Submit(t) PROVE MaterialsInv'
      BY <1>15 DEF Submit
<1>16. ASSUME NEW t \in Tasks, TaskStarts(t) PROVE MaterialsInv'
      BY <1>16 DEF TaskStarts
<1>17. ASSUME NEW t \in Tasks, TaskFails(t) PROVE MaterialsInv'
      BY <1>17 DEF TaskFails
<1>18. ASSUME NEW t \in Tasks, TaskRetried(t) PROVE MaterialsInv'
      BY <1>18 DEF TaskRetried
<1>19. CASE UNCHANGED vars
      BY <1>19 DEF vars
<1> QED BY <1>1, <1>2, <1>3, <1>4, <1>5, <1>6, <1>7, <1>8, <1>9, <1>10, <1>11, <1>12, <1>13,
           <1>14, <1>15, <1>16, <1>17, <1>18, <1>19 DEF Next

-----------------------------------------------------------------------------
\* What is at work, what is loaded, and where the cache's entries are.
Asking == {e \in Entries : loading[e] = "asking"}
ViewParts ==
  /\ view \in [Views -> Entries \union {NoEntry}]
  /\ cached \in [Files -> Entries \union {NoEntry}]
  /\ loading \in [Entries -> {"none", "queued", "asking", "loaded", "failed"}]
  /\ about \in [Entries -> Files]
  /\ active \in 0..Limit
LiveIsLoaded == live \subseteq {e \in Entries : loading[e] = "loaded"}

ViewsInv == ViewParts /\ SlotsBalance /\ NoURLIsLost /\ LiveIsLoaded

\* Nothing is looked at.
LEMMA ViewsInitially == ViewInit => ViewsInv
<1> SUFFICES ASSUME ViewInit PROVE ViewsInv
    OBVIOUS
<1>1. {e \in Entries : loading[e] = "asking"} = {} /\ Queued = {}
      BY DEF ViewInit, Queued
<1>2. SlotsBalance
      BY <1>1, FS_EmptySet DEF ViewInit, SlotsBalance
<1> QED BY <1>2, LimitIsPositive DEF ViewInit, ViewsInv, ViewParts, NoURLIsLost, LiveIsLoaded

\* A slot that ends goes to one entry that waits, or back.
LEMMA SlotIsGiven ==
  ASSUME ViewParts, SlotsBalance, NEW e \in Entries, loading[e] = "asking",
         NEW end \in {"loaded", "failed"}, GivesSlot({e}, end)
  PROVE  /\ SlotsBalance'
         /\ loading' \in [Entries -> {"none", "queued", "asking", "loaded", "failed"}]
         /\ active' \in 0..Limit
         /\ loading'[e] = end
         /\ \A x \in Entries : loading[x] = "loaded" => loading'[x] = "loaded"
<1>1. /\ IsFiniteSet(Asking) /\ e \in Asking /\ Queued \ {e} = Queued
      /\ active = Cardinality(Asking) /\ (Queued # {} => active = Limit)
      BY EntriesAreBounded, FS_Subset DEF Asking, SlotsBalance, Queued
<1>2. PICK next \in SUBSET Queued :
        /\ Cardinality(next) = IF Queued = {} THEN 0 ELSE 1
        /\ loading' = [x \in Entries |-> IF x \in {e} THEN end
                                         ELSE IF x \in next THEN "asking" ELSE loading[x]]
        /\ active' = IF next = {} THEN active - 1 ELSE active
      BY <1>1 DEF GivesSlot
<1>3. IsFiniteSet(Asking \ {e}) /\ Cardinality(Asking \ {e}) = active - 1
      BY <1>1, FS_RemoveElement
<1>4. Asking' = (Asking \ {e}) \union next /\ Queued' = Queued \ next
      BY <1>1, <1>2 DEF Asking, Queued, ViewParts
<1>5. active \in 0..Limit /\ active >= 1 /\ Limit \in Nat
      BY <1>1, FS_EmptySet, LimitIsPositive DEF ViewParts
<1>6. /\ loading' \in [Entries -> {"none", "queued", "asking", "loaded", "failed"}]
      /\ loading'[e] = end
      /\ \A x \in Entries : loading[x] = "loaded" => loading'[x] = "loaded"
      BY <1>2 DEF ViewParts, Queued
<1>7. CASE Queued = {}
  <2>1. next = {}
        BY <1>2, <1>7
  <2>2. Asking' = Asking \ {e} /\ Queued' = {} /\ active' = active - 1
        BY <1>2, <1>4, <1>7, <2>1
  <2>3. active' = Cardinality(Asking')
        BY <1>3, <2>2
  <2>4. SlotsBalance'
        BY <2>2, <2>3 DEF SlotsBalance, Asking
  <2> QED BY <1>5, <1>6, <2>2, <2>4
<1>8. CASE Queued # {}
  <2>1. PICK x : next = {x}
    <3>1. IsFiniteSet(next) /\ Cardinality(next) = 1
          BY <1>2, <1>8, EntriesAreBounded, FS_Subset DEF Queued
    <3> QED BY <3>1, FS_Singleton
  <2>2. x \notin Asking \ {e} /\ next # {}
        BY <1>2, <2>1 DEF Asking, Queued
  <2>3. Cardinality((Asking \ {e}) \union {x}) = (active - 1) + 1
        BY <1>3, <2>2, FS_AddElement
  <2>4. active' = active /\ active = Limit
        BY <1>1, <1>2, <1>8, <2>2
  <2>5. active' = Cardinality(Asking')
        BY <1>4, <1>5, <2>1, <2>3, <2>4
  <2>6. SlotsBalance'
        BY <2>4, <2>5 DEF SlotsBalance, Asking
  <2> QED BY <1>5, <1>6, <2>4, <2>6
<1> QED BY <1>7, <1>8

\* An entry that looks for a slot takes one, or waits when all are taken.
LEMMA SlotIsTaken ==
  ASSUME ViewParts, SlotsBalance, NEW e \in Entries, loading[e] = "none", TakesSlot(e)
  PROVE  /\ SlotsBalance'
         /\ loading' \in [Entries -> {"none", "queued", "asking", "loaded", "failed"}]
         /\ active' \in 0..Limit
         /\ \A x \in Entries : loading[x] = "loaded" => loading'[x] = "loaded"
<1>1. /\ IsFiniteSet(Asking) /\ e \notin Asking
      /\ active = Cardinality(Asking) /\ (Queued # {} => active = Limit)
      BY EntriesAreBounded, FS_Subset DEF Asking, SlotsBalance
<1>2. active \in 0..Limit /\ Limit \in Nat
      BY LimitIsPositive DEF ViewParts
<1>3. CASE active >= Limit
  <2>1. loading' = [loading EXCEPT ![e] = "queued"] /\ active' = active
        BY <1>3 DEF TakesSlot
  <2>2. active = Limit
        BY <1>2, <1>3
  <2>3. Asking' = Asking
        BY <2>1 DEF Asking, ViewParts
  <2>4. active' = Cardinality(Asking')
        BY <1>1, <2>1, <2>3
  <2>5. SlotsBalance'
        BY <2>1, <2>2, <2>4 DEF SlotsBalance, Asking
  <2> QED BY <1>2, <2>1, <2>5 DEF ViewParts
<1>4. CASE ~(active >= Limit)
  <2>1. loading' = [loading EXCEPT ![e] = "asking"] /\ active' = active + 1
        BY <1>4 DEF TakesSlot
  <2>2. active + 1 \in 0..Limit /\ Queued = {}
        BY <1>1, <1>2, <1>4
  <2>3. Asking' = Asking \union {e}
        BY <2>1 DEF Asking, ViewParts
  <2>4. Queued' = {}
        BY <2>1, <2>2 DEF Queued, ViewParts
  <2>5. Cardinality(Asking \union {e}) = active + 1
        BY <1>1, FS_AddElement
  <2>6. active' = Cardinality(Asking')
        BY <2>1, <2>3, <2>5
  <2>7. SlotsBalance'
        BY <2>4, <2>6 DEF SlotsBalance, Asking
  <2> QED BY <2>1, <2>2, <2>7 DEF ViewParts
<1> QED BY <1>3, <1>4

\* The cache's pruning revokes what it forgets.
LEMMA PruneKeeps ==
  ASSUME ViewParts, NEW count, NEW urls \in SUBSET Entries,
         NEW kept \in [Files -> Entries \union {NoEntry}],
         \A e \in urls : kept[about[e]] = e, Prune(count, urls, kept), UNCHANGED about
  PROVE  NoURLIsLost' /\ live' \subseteq urls /\ cached' \in [Files -> Entries \union {NoEntry}]
BY DEF ViewParts, Prune, Unread, NoURLIsLost

\* A view that comes or goes, and an entry that loads or fails, leave slots and URLs in
\* order.
LEMMA ViewsStep == ViewsInv /\ [ViewNext]_viewVars => ViewsInv'
<1> SUFFICES ASSUME ViewsInv, [ViewNext]_viewVars PROVE ViewsInv'
    OBVIOUS
<1> USE EntriesAreBounded DEF ViewsInv, pageVars, copyVars
<1>1. ASSUME NEW v \in Views, NEW f \in Files, Mount(v, f) PROVE ViewsInv'
  <2>1. CASE cached[f] # NoEntry
        BY <1>1, <2>1 DEF Mount, ViewParts, SlotsBalance, Queued, NoURLIsLost, LiveIsLoaded
  <2>2. CASE cached[f] = NoEntry
    <3>1. PICK e \in Entries :
            /\ loading[e] = "none" /\ about[e] = f
            /\ view' = [view EXCEPT ![v] = e]
            /\ cached' = [cached EXCEPT ![f] = e]
            /\ TakesSlot(e)
          BY <1>1, <2>2 DEF Mount
    <3>2. UNCHANGED <<about, live>>
          BY <1>1 DEF Mount
    <3>3. NoURLIsLost'
          BY <2>2, <3>1, <3>2 DEF ViewParts, NoURLIsLost, LiveIsLoaded
    <3> QED BY <3>1, <3>2, <3>3, SlotIsTaken DEF ViewParts, LiveIsLoaded
  <2> QED BY <2>1, <2>2
<1>2. ASSUME NEW v \in Views, LetGo(v) PROVE ViewsInv'
  <2> DEFINE f == about[view[v]]
             e == cached[f]
             left == [readers EXCEPT ![e] = IF @ > 0 THEN @ - 1 ELSE 0]
             aborts == left[e] = 0 /\ loading[e] \in {"queued", "asking"}
             kept == [cached EXCEPT ![f] = IF aborts THEN NoEntry ELSE @]
  <2>1. view[v] \in Entries /\ f \in Files
        BY <1>2 DEF LetGo, ViewParts
  <2>2. UNCHANGED <<loading, about, active>> /\ view' = [view EXCEPT ![v] = NoEntry]
        BY <1>2 DEF LetGo
  <2>3. SlotsBalance'
        BY <2>2 DEF SlotsBalance, Queued
  <2>4. CASE e = NoEntry
    <3>1. UNCHANGED <<cached, live>>
          BY <1>2, <2>4 DEF LetGo
    <3> QED BY <2>2, <2>3, <3>1 DEF ViewParts, NoURLIsLost, LiveIsLoaded
  <2>5. CASE e # NoEntry
    <3>1. Prune(left, live, kept)
          BY <1>2, <2>5 DEF LetGo
    <3>2. kept \in [Files -> Entries \union {NoEntry}] /\ \A x \in live : kept[about[x]] = x
          BY <2>1, <2>5 DEF ViewParts, NoURLIsLost, LiveIsLoaded
    <3>3. live \in SUBSET Entries
          BY DEF LiveIsLoaded
    <3> HIDE DEF kept, left
    <3>4. /\ NoURLIsLost' /\ live' \subseteq live
          /\ cached' \in [Files -> Entries \union {NoEntry}]
          BY <2>2, <3>1, <3>2, <3>3, PruneKeeps
    <3> QED BY <2>2, <2>3, <3>4 DEF ViewParts, LiveIsLoaded
  <2> QED BY <2>4, <2>5
<1>3. ASSUME NEW e \in Entries, LoadFails(e) PROVE ViewsInv'
  <2>1. loading[e] = "asking" /\ GivesSlot({e}, "failed") /\ UNCHANGED <<view, about, live>>
        /\ cached' = [f \in Files |-> IF cached[f] = e THEN NoEntry ELSE cached[f]]
        BY <1>3 DEF LoadFails
  <2>2. /\ SlotsBalance' /\ active' \in 0..Limit
        /\ loading' \in [Entries -> {"none", "queued", "asking", "loaded", "failed"}]
        /\ \A x \in Entries : loading[x] = "loaded" => loading'[x] = "loaded"
        BY <2>1, SlotIsGiven
  <2> QED BY <2>1, <2>2 DEF ViewParts, NoURLIsLost, LiveIsLoaded
<1>4. ASSUME NEW e \in Entries, Load(e) PROVE ViewsInv'
  <2>1. /\ loading[e] = "asking" /\ GivesSlot({e}, "loaded") /\ UNCHANGED <<view, about>>
        /\ Prune(readers, live \union {e}, cached) /\ cached[about[e]] = e
        BY <1>4 DEF Load, Aborted
  <2>2. /\ SlotsBalance' /\ active' \in 0..Limit
        /\ loading' \in [Entries -> {"none", "queued", "asking", "loaded", "failed"}]
        /\ loading'[e] = "loaded"
        /\ \A x \in Entries : loading[x] = "loaded" => loading'[x] = "loaded"
        BY <2>1, SlotIsGiven
  <2>3. \A x \in live \union {e} : cached[about[x]] = x
        BY <2>1 DEF NoURLIsLost
  <2>4. live \union {e} \in SUBSET Entries /\ cached \in [Files -> Entries \union {NoEntry}]
        BY DEF LiveIsLoaded, ViewParts
  <2>5. NoURLIsLost' /\ live' \subseteq live \union {e}
        /\ cached' \in [Files -> Entries \union {NoEntry}]
        BY <2>1, <2>3, <2>4, PruneKeeps
  <2> QED BY <2>1, <2>2, <2>5 DEF ViewParts, LiveIsLoaded
<1>5. ASSUME UNCHANGED pageVars PROVE ViewsInv'
      BY <1>5 DEF ViewParts, SlotsBalance, Queued, NoURLIsLost, LiveIsLoaded
<1>6. CASE \E e \in Entries : AskMac(e)
      BY <1>5, <1>6 DEF AskMac
<1>7. CASE \E f \in Files : Publish(f) \/ Erase(f)
      BY <1>5, <1>7 DEF Publish, Erase
<1>8. CASE UNCHANGED viewVars
      BY <1>5, <1>8 DEF viewVars
<1> QED BY <1>1, <1>2, <1>3, <1>4, <1>6, <1>7, <1>8 DEF ViewNext

\* A step is one of the upload's or one of the views', and leaves the other part alone.
LEMMA AllSplits ==
  [AllNext]_<<vars, viewVars>> => [Next]_vars /\ [ViewNext]_viewVars
<1> SUFFICES ASSUME [AllNext]_<<vars, viewVars>> PROVE [Next]_vars /\ [ViewNext]_viewVars
    OBVIOUS
<1>1. CASE ViewNext
      BY <1>1 DEF ViewNext, Mount, LetGo, LoadFails, AskMac, Load, Publish, Erase
<1>2. CASE AllNext /\ ~ViewNext
      BY <1>2 DEF AllNext, Next
<1> QED BY <1>1, <1>2

\* Nothing that was shown as saved is lost, and no slot or URL is left behind.
THEOREM MaterialsKeep == AllSpec => []MaterialsAreKept
<1>1. AllInit => MaterialsInv /\ ViewsInv
      BY MaterialsInitially, ViewsInitially DEF AllInit
<1>2. MaterialsInv /\ ViewsInv /\ [AllNext]_<<vars, viewVars>> => (MaterialsInv /\ ViewsInv)'
      BY AllSplits, MaterialsStep, ViewsStep
<1>3. MaterialsInv /\ ViewsInv => MaterialsAreKept
      BY DEF MaterialsInv, ViewsInv, MaterialsAreKept, NothingIsLeftBehind
<1> QED BY <1>1, <1>2, <1>3, PTL DEF AllSpec

-----------------------------------------------------------------------------
(* 4. Projects. *)

\* No identity is given twice, and only the older bridge's project may lack one.
IdentitiesDiffer ==
  /\ \A m, n \in Live : identity[m] = identity[n] => m = n \/ Legacy \in {m, n}
  /\ \A n \in Ids : identity[n] = NoKey => n = Legacy

\* A project has a location, its newest is one of them, and locations are of projects.
LocationsStand ==
  /\ \A n \in Live : newest[n] # Nowhere /\ home[newest[n]] = n
  /\ \A n \in Ids : identity[n] = Unmade => newest[n] = Nowhere
  /\ \A p \in Places : home[p] # None => home[p] \in Live

\* What is temporary is the older bridge's, and so is all there is then.
TemporaryIsOld ==
  (\E p \in Temporary : home[p] # None)
  => /\ backfilled /\ starting \in {"sessions", "clean"}
     /\ \A s \in Sessions : owner[s] = Legacy
     /\ \A x \in Notes : note[x].of # Nowhere => note[x].under = Legacy

\* What rows refer to exists.
RowsRefer ==
  /\ \A s \in Sessions : owner[s] # None => owner[s] \in Live
  /\ \A x \in Notes : note[x].under # None => note[x].under \in Live
  /\ \A o \in Orders :
       order[o].state = "queued" => order[o].at \in Live \union {None, OldWorkspace}

\* From the posts' backfill on, a post is under a project if its session is.
NotesFollow ==
  backfilled \/ starting \notin {"sessions", "posts"} =>
    \A x \in Notes :
      note[x].of # Nowhere /\ owner[note[x].of] # None => note[x].under # None

ProjectsInv ==
  /\ ProjectTypeOK /\ IdentitiesDiffer /\ LocationsStand
  /\ TemporaryIsOld /\ RowsRefer /\ NotesFollow

\* A key is none of the marks that stand where there is none.
LEMMA KeysAreNoMarks ==
  ASSUME NEW k \in Keys
  PROVE  k \notin {Unmade, Gone, NoKey, Unasked, NoContext}
<1>1. k[1] \in {"remote", "commit", "path"}
      BY DEF Keys
<1> QED BY <1>1 DEF Unmade, Gone, NoKey, Unasked, NoContext

\* Ids are positive, and neither of the two numbers that are none is one.
LEMMA IdsAreNumbers ==
  Ids \subseteq Nat \ {0} /\ Legacy \in Ids /\ None \notin Ids /\ OldWorkspace \notin Ids
BY ProjectBounds DEF Ids, Legacy, None, OldWorkspace

\* The marks differ from each other.
LEMMA MarksDiffer == Unmade # Gone /\ Unmade # NoKey /\ Gone # NoKey /\ NoContext # Unasked
<1>1. Unmade[1] = "unmade" /\ Gone[1] = "gone" /\ NoKey[1] = "null"
      BY DEF Unmade, Gone, NoKey
<1>2. NoContext[1] = "none" /\ Unasked[1] = "unasked"
      BY DEF NoContext, Unasked
<1> QED BY <1>1, <1>2

\* What git says of a place is a key or nothing.
LEMMA ContextIsKey ==
  ASSUME ProjectTypeOK, NEW p \in Places, NEW c \in Context(p)
  PROVE  /\ c \in Keys \union {NoContext}
         /\ Location(p, c) \in Places /\ KeyOf(p, c) \in Keys
         /\ [knows EXCEPT ![p] = c] \in [Places -> Keys \union {Unasked, NoContext}]
<1>1. Root[p] \in Places
      BY ProjectAssumption
<1>2. Truth(p) \in Keys \union {NoContext} /\ GitSays(p) \subseteq Keys \union {NoContext}
      BY <1>1 DEF Truth, GitSays, Keys
<1>3. c \in Keys \union {NoContext}
      BY <1>2 DEF Context, ProjectTypeOK
<1>4. <<"path", p>> \in Keys
      BY DEF Keys
<1> QED BY <1>1, <1>3, <1>4 DEF Location, KeyOf, ProjectTypeOK

\* The types of the three tables of projects.
RowsOK ==
  /\ identity \in [Ids -> Keys \union {Unmade, Gone, NoKey}]
  /\ home \in [Places -> Ids \union {None}]
  /\ newest \in [Ids -> Places \union {Nowhere}]

\* The project that is found exists, or is new and nobody else's.
LEMMA FoundIsSound ==
  ASSUME ProjectTypeOK, LocationsStand, NEW p \in Places, NEW c \in Context(p),
         NEW n \in Found(p, c)
  PROVE  /\ n \in Live \/ n = None \/ (n \in Fresh /\ Persistable(p, c))
         /\ Persistable(p, c) /\ n # None =>
              /\ home[Location(p, c)] \in {None, n}
              /\ n \in Live \/ Matches(KeyOf(p, c)) = {}
<1>1. Location(p, c) \in Places
      BY ContextIsKey
<1>2. CASE Ephemeral(p)
      BY <1>2 DEF Found, OrNone, Matches, Persistable
<1>3. CASE ~Ephemeral(p) /\ ~Persistable(p, c)
      BY <1>3 DEF Found
<1>4. CASE ~Ephemeral(p) /\ Persistable(p, c)
  <2>1. n \in LET l == Location(p, c) IN
              IF home[l] # None THEN {home[l]}
              ELSE IF Matches(KeyOf(p, c)) # {} THEN Matches(KeyOf(p, c)) ELSE Fresh
        BY <1>4 DEF Found
  <2> QED BY <1>1, <1>4, <2>1 DEF Matches, LocationsStand
<1> QED BY <1>2, <1>3, <1>4

\* The row and the location ensureProjectForCwd writes take no other project's away, name
\* no temporary place, and leave the project it returns alive.
LEMMA PlaceIsKept ==
  ASSUME ProjectTypeOK, IdentitiesDiffer, LocationsStand,
         NEW p \in Places, NEW c \in Context(p), NEW n \in Found(p, c), KeepsPlace(p, c, n)
  PROVE  /\ RowsOK' /\ IdentitiesDiffer' /\ LocationsStand'
         /\ Live \subseteq Live'
         /\ n \in Live' \union {None}
         /\ \A q \in Temporary : home'[q] # None => home[q] # None
<1> DEFINE l == Location(p, c)
           k == KeyOf(p, c)
<1>1. l \in Places /\ k \in Keys
      BY ContextIsKey
<1>2. /\ n \in Live \/ n = None \/ (n \in Fresh /\ Persistable(p, c))
      /\ Persistable(p, c) /\ n # None =>
           home[l] \in {None, n} /\ (n \in Live \/ Matches(k) = {})
      BY FoundIsSound
<1>3. Live \subseteq Ids /\ None \notin Ids /\ k \notin {Unmade, Gone, NoKey}
      BY <1>1, IdsAreNumbers, KeysAreNoMarks DEF Live
<1>4. CASE n = None \/ ~Persistable(p, c)
  <2>1. UNCHANGED <<identity, home, newest>>
        BY <1>4 DEF KeepsPlace, rowVars
  <2> QED BY <1>2, <1>4, <2>1 DEF RowsOK, ProjectTypeOK, IdentitiesDiffer, LocationsStand, Live
<1>5. CASE n # None /\ Persistable(p, c)
  <2>1. /\ identity' = [identity EXCEPT ![n] = IF @ \in {Unmade, NoKey} THEN k ELSE @]
        /\ home' = [home EXCEPT ![l] = n]
        /\ newest' = [newest EXCEPT ![n] = l] \/ (newest[n] # Nowhere /\ newest' = newest)
        BY <1>5 DEF KeepsPlace
  <2>2. n \in Ids /\ (n \in Live \/ (n \in Fresh /\ Matches(k) = {})) /\ home[l] \in {None, n}
        BY <1>2, <1>3, <1>5 DEF Fresh
  <2>3. n \in Fresh => identity[n] = Unmade /\ n # Legacy
        BY DEF Fresh
  <2> HIDE DEF l, k
  <2>4. RowsOK'
        BY <1>1, <2>1, <2>2 DEF RowsOK, ProjectTypeOK
  <2>5. /\ \A m \in Ids \ {n} : identity'[m] = identity[m]
        /\ identity'[n] = IF identity[n] \in {Unmade, NoKey} THEN k ELSE identity[n]
        BY <2>1, <2>2 DEF ProjectTypeOK
  <2>6. Live' = Live \union {n}
        BY <1>3, <2>2, <2>3, <2>5, MarksDiffer DEF Live
  <2>7. IdentitiesDiffer'
    <3>1. ASSUME NEW m \in Ids, identity'[m] = NoKey PROVE m = Legacy
          BY <1>3, <2>5, <3>1 DEF IdentitiesDiffer
    <3>2. ASSUME NEW a \in Live', NEW b \in Live', identity'[a] = identity'[b]
          PROVE  a = b \/ Legacy \in {a, b}
      <4>1. CASE identity[n] = Unmade
            BY <1>3, <2>2, <2>3, <2>5, <2>6, <3>2, <4>1 DEF IdentitiesDiffer, Live, Matches
      <4>2. CASE identity[n] # Unmade
            BY <1>3, <2>2, <2>3, <2>5, <2>6, <3>2, <4>2 DEF IdentitiesDiffer, Live
      <4> QED BY <4>1, <4>2
    <3> QED BY <3>1, <3>2 DEF IdentitiesDiffer
  <2>8. LocationsStand'
    <3>1. ASSUME NEW m \in Live' PROVE newest'[m] # Nowhere /\ home'[newest'[m]] = m
          BY <1>1, <1>3, <2>1, <2>2, <2>3, <2>6, <3>1, ProjectAssumption
             DEF LocationsStand, ProjectTypeOK
    <3>2. ASSUME NEW q \in Places, home'[q] # None PROVE home'[q] \in Live'
          BY <1>1, <2>1, <2>2, <2>6, <3>2 DEF LocationsStand, ProjectTypeOK
    <3>3. ASSUME NEW m \in Ids, identity'[m] = Unmade PROVE newest'[m] = Nowhere
          BY <1>3, <2>1, <2>2, <2>5, <3>3 DEF LocationsStand, ProjectTypeOK, Live
    <3> QED BY <3>1, <3>2, <3>3 DEF LocationsStand
  <2>9. ASSUME NEW q \in Temporary, home'[q] # None PROVE home[q] # None
    <3>1. q \in Places /\ l \notin Temporary
          BY <1>5, ProjectAssumption DEF Persistable, Ephemeral, l
    <3> QED BY <1>1, <2>1, <2>9, <3>1 DEF ProjectTypeOK
  <2> QED BY <2>4, <2>6, <2>7, <2>8, <2>9
<1> QED BY <1>4, <1>5

\* A new database, or what an older bridge has left.
LEMMA ProjectsInitially == ProjectInit => ProjectsInv
<1> SUFFICES ASSUME ProjectInit PROVE ProjectsInv
    OBVIOUS
<1>1. ProjectTypeOK
  <2>1. newest \in [Ids -> Places \union {Nowhere}]
    <3>1. CASE backfilled
      <4>1. \E p \in Places : home[p] = Legacy
            BY <3>1 DEF ProjectInit, OldRows
      <4> QED BY <4>1, <3>1 DEF ProjectInit
    <3>2. CASE ~backfilled
          BY <3>2 DEF ProjectInit
    <3> QED BY <3>1, <3>2
  <2>2. knows \in [Places -> Keys \union {Unasked, NoContext}]
        BY DEF ProjectInit
  <2>3. /\ identity \in [Ids -> Keys \union {Unmade, Gone, NoKey}]
        /\ home \in [Places -> Ids \union {None}]
        /\ owner \in [Sessions -> Ids \union {None}]
        BY IdsAreNumbers DEF ProjectInit
  <2>4. cwd \in [Sessions -> Places \union {Nowhere}]
        BY DEF ProjectInit
  <2>5. note \in [Notes -> [of : Sessions \union {Nowhere}, under : Ids \union {None}]]
        BY <2>3 DEF ProjectInit, Unwritten
  <2>6. order \in
           [Orders -> [at : Ids \union {None, OldWorkspace}, cwd : Places \union {Nowhere},
                       state : {"none", "queued", "failed"}]]
        BY IdsAreNumbers DEF ProjectInit, Unsent
  <2> QED BY <2>1, <2>2, <2>3, <2>4, <2>5, <2>6 DEF ProjectTypeOK, ProjectInit
<1>2. CASE ~backfilled
  <2>1. Live = {}
        BY <1>2 DEF ProjectInit, OldRows, Live
  <2>2. /\ \A p \in Places : home[p] = None
        /\ \A s \in Sessions : owner[s] = None
        /\ \A n \in Ids : identity[n] = Unmade /\ newest[n] = Nowhere
        BY <1>2 DEF ProjectInit, OldRows
  <2>3. RowsRefer
        BY <2>2, ProjectAssumption DEF ProjectInit, RowsRefer, Unwritten, Unsent
  <2>4. LocationsStand /\ IdentitiesDiffer
        BY <2>1, <2>2, MarksDiffer DEF LocationsStand, IdentitiesDiffer
  <2>5. TemporaryIsOld /\ NotesFollow
        BY <1>2, <2>2, ProjectAssumption DEF ProjectInit, TemporaryIsOld, NotesFollow
  <2> QED BY <1>1, <2>3, <2>4, <2>5 DEF ProjectsInv
<1>3. CASE backfilled
  <2>1. PICK p \in Places : home = [q \in Places |-> IF q = p THEN Legacy ELSE None]
        BY <1>3 DEF ProjectInit, OldRows
  <2>2. /\ identity = [n \in Ids |-> IF n = Legacy THEN NoKey ELSE Unmade]
        /\ owner = [s \in Sessions |-> Legacy]
        BY <1>3 DEF ProjectInit, OldRows
  <2>3. Live = {Legacy}
        BY <2>2, IdsAreNumbers, MarksDiffer DEF Live
  <2>4. newest[Legacy] \in Places /\ home[newest[Legacy]] = Legacy
        BY <1>3, <2>1, IdsAreNumbers DEF ProjectInit
  <2>5. \A n \in Ids \ {Legacy} : newest[n] = Nowhere
        BY DEF ProjectInit
  <2>6. RowsRefer
        BY <2>1, <2>2, <2>3 DEF ProjectInit, RowsRefer, Unwritten, Unsent
  <2>7. LocationsStand /\ IdentitiesDiffer
        BY <2>1, <2>2, <2>3, <2>4, <2>5, MarksDiffer, ProjectAssumption
           DEF LocationsStand, IdentitiesDiffer
  <2>8. TemporaryIsOld /\ NotesFollow
        BY <1>3, <2>2, IdsAreNumbers DEF ProjectInit, TemporaryIsOld, NotesFollow, Unwritten
  <2> QED BY <1>1, <2>6, <2>7, <2>8 DEF ProjectsInv
<1> QED BY <1>2, <1>3 DEF ProjectInit

\* A session that is seen: its place is kept, and it and its posts follow.
LEMMA UpsertKeeps ==
  ASSUME ProjectsInv, starting = "up", NEW s \in Sessions, NEW p \in Places \union {Nowhere},
         NEW h \in {None, owner[s]}, Upsert(s, p, h), UNCHANGED <<order, startVars>>
  PROVE  ProjectsInv'
<1> DEFINE Given(n) == IF Ephemeral(p) \/ h = None THEN n ELSE h
<1> USE DEF ProjectsInv
<1>1. PICK n \in Ids \union {None} :
        /\ RowsOK' /\ IdentitiesDiffer' /\ LocationsStand' /\ Live \subseteq Live'
        /\ n \in Live' \union {None}
        /\ \A q \in Temporary : home'[q] # None => home[q] # None
        /\ knows' \in [Places -> Keys \union {Unasked, NoContext}]
        /\ p = Nowhere => n = None
        /\ cwd' = [cwd EXCEPT ![s] = IF p = Nowhere THEN @ ELSE p]
        /\ owner' = [owner EXCEPT ![s] = IF p = Nowhere /\ Given(n) = None THEN @ ELSE Given(n)]
        /\ note' = [x \in Notes |->
             IF Given(n) # None /\ note[x].of = s /\ note[x].under = None
             THEN [note[x] EXCEPT !.under = Given(n)] ELSE note[x]]
  <2>1. CASE p = Nowhere
    <3>1. UNCHANGED <<knows, rowVars>>
          BY <2>1, ProjectAssumption DEF Upsert
    <3>2. /\ RowsOK' /\ IdentitiesDiffer' /\ LocationsStand' /\ Live = Live'
          /\ home' = home /\ knows' \in [Places -> Keys \union {Unasked, NoContext}]
          BY <3>1 DEF rowVars, RowsOK, ProjectTypeOK, IdentitiesDiffer, LocationsStand, Live
    <3>3. /\ cwd' = [cwd EXCEPT ![s] = IF p = Nowhere THEN @ ELSE p]
          /\ owner' = [owner EXCEPT ![s] = IF p = Nowhere /\ Given(None) = None THEN @
                                           ELSE Given(None)]
          /\ note' = [x \in Notes |->
               IF Given(None) # None /\ note[x].of = s /\ note[x].under = None
               THEN [note[x] EXCEPT !.under = Given(None)] ELSE note[x]]
          BY <2>1 DEF Upsert
    <3> QED BY <2>1, <3>2, <3>3
  <2>2. CASE p \in Places
    <3>0. PICK c \in Context(p) : \E n \in Found(p, c) :
            /\ Remember(p, c) /\ KeepsPlace(p, c, n)
            /\ cwd' = [cwd EXCEPT ![s] = IF p = Nowhere THEN @ ELSE p]
            /\ owner' = [owner EXCEPT ![s] =
                           IF p = Nowhere /\ Given(n) = None THEN @ ELSE Given(n)]
            /\ note' = [x \in Notes |->
                 IF Given(n) # None /\ note[x].of = s /\ note[x].under = None
                 THEN [note[x] EXCEPT !.under = Given(n)] ELSE note[x]]
          BY <2>2, ProjectAssumption DEF Upsert
    <3>1. PICK n \in Found(p, c) :
            /\ Remember(p, c) /\ KeepsPlace(p, c, n)
            /\ cwd' = [cwd EXCEPT ![s] = IF p = Nowhere THEN @ ELSE p]
            /\ owner' = [owner EXCEPT ![s] =
                           IF p = Nowhere /\ Given(n) = None THEN @ ELSE Given(n)]
            /\ note' = [x \in Notes |->
                 IF Given(n) # None /\ note[x].of = s /\ note[x].under = None
                 THEN [note[x] EXCEPT !.under = Given(n)] ELSE note[x]]
          BY <3>0
    <3>2. knows' \in [Places -> Keys \union {Unasked, NoContext}]
          BY <2>2, <3>1, ContextIsKey DEF Remember
    <3>3. /\ RowsOK' /\ IdentitiesDiffer' /\ LocationsStand' /\ Live \subseteq Live'
          /\ n \in Live' \union {None}
          /\ \A q \in Temporary : home'[q] # None => home[q] # None
          BY <2>2, <3>1, PlaceIsKept
    <3>4. Live' \subseteq Ids /\ p # Nowhere
          BY <2>2, ProjectAssumption DEF Live
    <3> QED BY <3>1, <3>2, <3>3, <3>4
  <2> QED BY <2>1, <2>2
<1> DEFINE g == Given(n)
<1>2. g \in Live' \union {None} /\ Live' \subseteq Ids
      BY <1>1 DEF RowsRefer, Live
<1>3. (p = Nowhere /\ g = None) \/ owner'[s] = g
      BY <1>1 DEF ProjectTypeOK
<1> HIDE DEF g
<1>4. /\ owner' \in [Sessions -> Ids \union {None}]
      /\ \A r \in Sessions \ {s} : owner'[r] = owner[r]
      /\ owner'[s] \in {g, owner[s]} /\ (owner'[s] # None /\ g = None => owner'[s] = owner[s])
      BY <1>1, <1>2, <1>3 DEF ProjectTypeOK, g
<1>5. note' = [x \in Notes |-> IF g # None /\ note[x].of = s /\ note[x].under = None
                               THEN [note[x] EXCEPT !.under = g] ELSE note[x]]
      BY <1>1 DEF g
<1>6. ProjectTypeOK'
  <2>1. note' \in [Notes -> [of : Sessions \union {Nowhere}, under : Ids \union {None}]]
        BY <1>2, <1>5 DEF ProjectTypeOK
  <2>2. cwd' \in [Sessions -> Places \union {Nowhere}]
        BY <1>1 DEF ProjectTypeOK
  <2> QED BY <1>1, <1>4, <2>1, <2>2 DEF ProjectTypeOK, RowsOK, startVars
<1>7. RowsRefer'
  <2>1. \A r \in Sessions : owner'[r] # None => owner'[r] \in Live'
        BY <1>1, <1>2, <1>4 DEF RowsRefer
  <2>2. \A x \in Notes : note'[x].under # None => note'[x].under \in Live'
        BY <1>1, <1>2, <1>5 DEF RowsRefer, ProjectTypeOK
  <2> QED BY <1>1, <2>1, <2>2 DEF RowsRefer, startVars
<1>8. TemporaryIsOld'
      BY <1>1 DEF TemporaryIsOld, startVars
<1>9. NotesFollow'
  <2>1. ASSUME NEW x \in Notes, note'[x].of # Nowhere, owner'[note'[x].of] # None
        PROVE  note'[x].under # None
    <3>1. note'[x].of = note[x].of /\ note[x].of \in Sessions
          BY <1>5, <2>1 DEF ProjectTypeOK
    <3>2. CASE note[x].of = s
          BY <1>1, <1>3, <1>4, <1>5, <2>1, <3>1, <3>2 DEF NotesFollow, ProjectTypeOK
    <3>3. CASE note[x].of # s
          BY <1>4, <1>5, <2>1, <3>1, <3>3 DEF NotesFollow
    <3> QED BY <3>2, <3>3
  <2> QED BY <2>1 DEF NotesFollow, startVars
<1> QED BY <1>1, <1>6, <1>7, <1>8, <1>9

\* The backfill of one session.
LEMMA BackfillKeeps ==
  ASSUME ProjectsInv, NEW s \in Sessions, BackfillsSession(s)
  PROVE  ProjectsInv'
<1> USE DEF ProjectsInv
<1>1. /\ starting = "sessions" /\ ~backfilled
      /\ todo' = todo \ {s}
      /\ UNCHANGED <<cwd, note, order, backfilled, starting>>
      BY DEF BackfillsSession
<1>2. CASE cwd[s] = Nowhere \/ owner[s] # None
  <2>1. UNCHANGED <<knows, identity, home, newest, owner>>
        BY <1>2 DEF BackfillsSession, rowVars
  <2> QED BY <1>1, <2>1 DEF ProjectTypeOK, IdentitiesDiffer, LocationsStand, TemporaryIsOld,
                            RowsRefer, NotesFollow, Live
<1>3. CASE ~(cwd[s] = Nowhere \/ owner[s] # None)
  <2>1. cwd[s] \in Places
        BY <1>3 DEF ProjectTypeOK
  <2>2. PICK c \in Context(cwd[s]) : \E n \in Found(cwd[s], c) :
          /\ Remember(cwd[s], c) /\ KeepsPlace(cwd[s], c, n)
          /\ owner' = [owner EXCEPT ![s] = n]
        BY <1>3 DEF BackfillsSession
  <2>3. PICK n \in Found(cwd[s], c) :
          /\ Remember(cwd[s], c) /\ KeepsPlace(cwd[s], c, n)
          /\ owner' = [owner EXCEPT ![s] = n]
        BY <2>2
  <2>4. knows' \in [Places -> Keys \union {Unasked, NoContext}]
        BY <2>1, <2>3, ContextIsKey DEF Remember
  <2>5. /\ RowsOK' /\ IdentitiesDiffer' /\ LocationsStand' /\ Live \subseteq Live'
        /\ n \in Live' \union {None} /\ Live' \subseteq Ids
        /\ \A q \in Temporary : home'[q] # None => home[q] # None
        BY <2>1, <2>3, PlaceIsKept DEF Live
  <2>6. ProjectTypeOK'
        BY <1>1, <2>3, <2>4, <2>5 DEF ProjectTypeOK, RowsOK
  <2>7. RowsRefer'
        BY <1>1, <2>3, <2>5 DEF RowsRefer, ProjectTypeOK
  <2>8. TemporaryIsOld' /\ NotesFollow'
        BY <1>1, <2>5 DEF TemporaryIsOld, NotesFollow
  <2> QED BY <2>5, <2>6, <2>7, <2>8
<1> QED BY <1>2, <1>3

\* The clean-up: what was temporary goes, and nobody refers to what went.
LEMMA CleanUpKeeps ==
  ASSUME ProjectsInv, CleansUp
  PROVE  ProjectsInv' /\ \A p \in Temporary : home'[p] = None
<1> DEFINE left == [p \in Places |-> IF Ephemeral(p) THEN None ELSE home[p]]
           gone == IF left = home THEN {} ELSE Orphans(left)
           Off(n) == IF n \in gone THEN None ELSE n
<1> USE DEF ProjectsInv
<1>1. /\ starting = "clean" /\ home' = left /\ starting' = "up"
      /\ identity' = [n \in Ids |-> IF n \in gone THEN Gone ELSE identity[n]]
      /\ owner' = [s \in Sessions |-> Off(owner[s])]
      /\ note' = [x \in Notes |-> [note[x] EXCEPT !.under = Off(@)]]
      /\ order' = [o \in Orders |-> [order[o] EXCEPT !.at = Off(@)]]
      /\ UNCHANGED <<knows, cwd, backfilled, todo>>
      BY DEF CleansUp
<1>2. /\ newest' \in [Ids -> Places \union {Nowhere}]
      /\ \A n \in Ids :
           IF newest[n] # Nowhere /\ left[newest[n]] = n THEN newest'[n] = newest[n]
           ELSE IF \E p \in Places : left[p] = n
           THEN newest'[n] # Nowhere /\ left[newest'[n]] = n
           ELSE newest'[n] = Nowhere
      BY DEF CleansUp
<1>3. /\ left \in [Places -> Ids \union {None}] /\ gone \subseteq Live /\ Live \subseteq Ids
      /\ \A p \in Places : left[p] \in {None, home[p]} /\ (p \in Temporary => left[p] = None)
      BY DEF ProjectTypeOK, Orphans, Live, Ephemeral
<1>4. \A n \in Live \ gone : \E p \in Places : left[p] = n
  <2>1. CASE left = home
        BY <2>1, ProjectAssumption DEF LocationsStand, ProjectTypeOK, Live
  <2>2. CASE left # home
        BY <2>2 DEF Orphans
  <2> QED BY <2>1, <2>2
<1>5. \A p \in Places : left[p] # None => left[p] \in Live \ gone
  <2>1. CASE left = home
        BY <2>1 DEF LocationsStand
  <2>2. CASE left # home
        BY <1>3, <2>2 DEF LocationsStand, Orphans
  <2> QED BY <2>1, <2>2
<1>7. gone # {} => \A s \in Sessions : owner[s] = Legacy
  <2>1. ASSUME left # home PROVE \E p \in Temporary : home[p] # None
        BY <2>1, ProjectAssumption DEF ProjectTypeOK, Ephemeral
  <2> QED BY <2>1 DEF TemporaryIsOld
<1>8. gone # {} => \A x \in Notes : note[x].of # Nowhere => note[x].under = Legacy
  <2>1. ASSUME left # home PROVE \E p \in Temporary : home[p] # None
        BY <2>1, ProjectAssumption DEF ProjectTypeOK, Ephemeral
  <2> QED BY <2>1 DEF TemporaryIsOld
<1> HIDE DEF left, gone
<1>9. Live' = Live \ gone
      BY <1>1, <1>3, MarksDiffer DEF Live
<1>10. IdentitiesDiffer'
      BY <1>1, <1>3, <1>9, MarksDiffer DEF IdentitiesDiffer
<1>11. LocationsStand'
  <2>1. ASSUME NEW n \in Live' PROVE newest'[n] # Nowhere /\ home'[newest'[n]] = n
        BY <1>1, <1>2, <1>3, <1>4, <1>9
  <2>2. ASSUME NEW n \in Ids, identity'[n] = Unmade PROVE newest'[n] = Nowhere
    <3>1. identity[n] = Unmade /\ n \notin Live
          BY <1>1, <1>3, <2>2, MarksDiffer DEF Live
    <3>2. newest[n] = Nowhere
          BY <3>1 DEF LocationsStand
    <3>3. \A p \in Places : left[p] # n
          BY <1>5, <3>1, IdsAreNumbers
    <3> QED BY <1>2, <3>2, <3>3
  <2> QED BY <1>1, <1>5, <1>9, <2>1, <2>2 DEF LocationsStand
<1>12. ProjectTypeOK'
  <2>1. /\ identity' \in [Ids -> Keys \union {Unmade, Gone, NoKey}]
        /\ home' \in [Places -> Ids \union {None}]
        /\ owner' \in [Sessions -> Ids \union {None}]
        BY <1>1, <1>3 DEF ProjectTypeOK
  <2>2. note' \in [Notes -> [of : Sessions \union {Nowhere}, under : Ids \union {None}]]
        BY <1>1 DEF ProjectTypeOK
  <2>3. order' \in
           [Orders -> [at : Ids \union {None, OldWorkspace}, cwd : Places \union {Nowhere},
                       state : {"none", "queued", "failed"}]]
        BY <1>1 DEF ProjectTypeOK
  <2> QED BY <1>1, <1>2, <2>1, <2>2, <2>3 DEF ProjectTypeOK
<1>13. RowsRefer'
      BY <1>1, <1>3, <1>9 DEF RowsRefer, ProjectTypeOK
<1>14. TemporaryIsOld'
      BY <1>1, <1>3, ProjectAssumption DEF TemporaryIsOld
<1>15. NotesFollow'
  <2>1. ASSUME NEW x \in Notes, note'[x].of # Nowhere, owner'[note'[x].of] # None
        PROVE  note'[x].under # None
    <3>1. /\ note[x].of \in Sessions /\ note'[x].of = note[x].of
          /\ note'[x].under = Off(note[x].under)
          BY <1>1, <2>1 DEF ProjectTypeOK
    <3>2. owner'[note[x].of] = Off(owner[note[x].of])
          BY <1>1, <3>1
    <3>3. note[x].of # Nowhere /\ owner[note[x].of] # None /\ owner[note[x].of] \notin gone
          BY <2>1, <3>1, <3>2
    <3>4. note[x].under # None
          BY <1>1, <3>1, <3>3 DEF NotesFollow
    <3> QED BY <1>7, <1>8, <3>1, <3>3, <3>4
  <2> QED BY <2>1 DEF NotesFollow
<1> QED BY <1>1, <1>3, <1>10, <1>11, <1>12, <1>13, <1>14, <1>15, ProjectAssumption

\* Every statement of the start, and everything that happens once it is up.
LEMMA ProjectsStep == ProjectsInv /\ [ProjectNext]_projectVars => ProjectsInv'
<1> SUFFICES ASSUME ProjectsInv, [ProjectNext]_projectVars PROVE ProjectsInv'
    OBVIOUS
<1> USE DEF ProjectsInv
<1>1. ASSUME UNCHANGED rowVars, ProjectTypeOK', TemporaryIsOld', RowsRefer', NotesFollow'
      PROVE  ProjectsInv'
      BY <1>1 DEF rowVars, IdentitiesDiffer, LocationsStand, Live
<1>2. ASSUME NEW s \in Sessions, NEW p \in Places \union {Nowhere}, Hears(s, p) \/ Follows(s, p)
      PROVE  ProjectsInv'
      BY <1>2, UpsertKeeps DEF Hears, Follows
<1>3. ASSUME NEW x \in Notes, NEW s \in Sessions, Publishes(x, s) PROVE ProjectsInv'
      BY <1>1, <1>3 DEF Publishes, rowVars, startVars, ProjectTypeOK, TemporaryIsOld, RowsRefer,
                        NotesFollow, Live
<1>4. ASSUME NEW s \in Sessions, BackfillsSession(s) PROVE ProjectsInv'
      BY <1>4, BackfillKeeps
<1>5. ASSUME NEW o \in Orders, NEW n \in Ids, Creates(o, n) PROVE ProjectsInv'
      BY <1>1, <1>5 DEF Creates, Workspace, rowVars, startVars, ProjectTypeOK, TemporaryIsOld,
                        RowsRefer, NotesFollow, Live
<1>6. ASSUME NEW o \in Orders, Fails(o) PROVE ProjectsInv'
      BY <1>1, <1>6 DEF Fails, rowVars, startVars, ProjectTypeOK, TemporaryIsOld, RowsRefer,
                        NotesFollow, Live
<1>7. ASSUME NEW o \in Orders, Retries(o) PROVE ProjectsInv'
      BY <1>1, <1>7 DEF Retries, Workspace, rowVars, startVars, ProjectTypeOK, TemporaryIsOld,
                        RowsRefer, NotesFollow, Live
<1>8. CASE Restarts
      BY <1>1, <1>8 DEF Restarts, rowVars, ProjectTypeOK, TemporaryIsOld, RowsRefer,
         NotesFollow, Live
<1>9. CASE SessionsAreDone
      BY <1>1, <1>9 DEF SessionsAreDone, rowVars, ProjectTypeOK, TemporaryIsOld, RowsRefer,
                        NotesFollow, Live
<1>10. CASE BackfillsPosts
      BY <1>1, <1>10 DEF BackfillsPosts, rowVars, ProjectTypeOK, TemporaryIsOld, RowsRefer,
                         NotesFollow, Live
<1>11. CASE BackfillsCommands
      BY <1>1, <1>11 DEF BackfillsCommands, rowVars, ProjectTypeOK, TemporaryIsOld, RowsRefer,
                         NotesFollow, LocationsStand, Live
<1>12. CASE MarksBackfilled
      BY <1>1, <1>12 DEF MarksBackfilled, rowVars, ProjectTypeOK, TemporaryIsOld, RowsRefer,
                         NotesFollow, Live
<1>13. CASE CleansUp
      BY <1>13, CleanUpKeeps
<1>14. CASE UNCHANGED projectVars
      BY <1>1, <1>14 DEF projectVars, rowVars, startVars, ProjectTypeOK, TemporaryIsOld,
         RowsRefer,
                         NotesFollow, Live
<1> QED BY <1>2, <1>3, <1>4, <1>5, <1>6, <1>7, <1>8, <1>9, <1>10, <1>11, <1>12, <1>13, <1>14
        DEF ProjectNext

\* When the bridge is up nothing temporary is left, so all the parts hold unconditionally.
LEMMA ProjectsSuffice == ProjectsInv => ProjectsAreWhole
BY ProjectAssumption DEF ProjectsInv, ProjectTypeOK, IdentitiesDiffer, LocationsStand,
   TemporaryIsOld, RowsRefer,
       NotesFollow, ProjectsAreWhole

\* Wherever git fails and the start is cut, the tables agree when the bridge is up.
THEOREM ProjectsStayWhole == ProjectSpec => []ProjectsAreWhole
<1>1. ProjectSpec => []ProjectsInv
      BY ProjectsInitially, ProjectsStep, PTL DEF ProjectSpec
<1> QED BY <1>1, ProjectsSuffice, PTL

-----------------------------------------------------------------------------
(* 5. The rows of an older bridge. *)

\* The steps in words.
AllSteps ==
  {"schema", "permissions", "mark", "feedV2", "feedV3", "interaction", "columns", "scrub"}

\* The steps are these eight.
LEMMA StepsAreAll == StepNames = AllSteps /\ Len(Steps) = 8 /\ DOMAIN Steps = 1..8
BY DEF StepNames, Steps, AllSteps

\* Each migration is followed by the next one.
LEMMA StepsGoOn ==
  ASSUME GoesOn
  PROVE  /\ bridge = "schema" => bridge' = "permissions"
         /\ bridge = "permissions" => bridge' = "mark"
         /\ bridge = "mark" => bridge' = "feedV2"
         /\ bridge = "feedV2" => bridge' = "feedV3"
         /\ bridge = "feedV3" => bridge' = "interaction"
         /\ bridge = "interaction" => bridge' = "columns"
         /\ bridge = "columns" => bridge' = "scrub"
         /\ bridge = "scrub" => bridge' = "new"
<1> DEFINE i(b) == CHOOSE j \in DOMAIN Steps : Steps[j] = b
<1>1. ASSUME NEW n \in 1..8 PROVE i(Steps[n]) = n
  <2>1. \A j \in 1..8 : Steps[j] = Steps[n] => j = n
        BY DEF Steps
  <2>2. \E j \in DOMAIN Steps : Steps[j] = Steps[n]
        BY StepsAreAll
  <2>3. i(Steps[n]) \in DOMAIN Steps /\ Steps[i(Steps[n])] = Steps[n]
        BY <2>2
  <2> QED BY <2>1, <2>3, StepsAreAll
<1>2. bridge' = IF i(bridge) = 8 THEN "new" ELSE Steps[i(bridge) + 1]
      BY StepsAreAll DEF GoesOn
<1>3. /\ Steps[1] = "schema" /\ Steps[2] = "permissions" /\ Steps[3] = "mark"
      /\ Steps[4] = "feedV2" /\ Steps[5] = "feedV3" /\ Steps[6] = "interaction"
      /\ Steps[7] = "columns" /\ Steps[8] = "scrub"
      BY DEF Steps
<1>4. /\ i("schema") = 1 /\ i("permissions") = 2 /\ i("mark") = 3 /\ i("feedV2") = 4
      /\ i("feedV3") = 5 /\ i("interaction") = 6 /\ i("columns") = 7 /\ i("scrub") = 8
      BY <1>1, <1>3
<1> HIDE DEF i
<1> QED BY <1>2, <1>3, <1>4

\* Whether a start is past a step, or the bridge is up.
UpOrIn(steps) == bridge \in steps \union {"new"}
PastSchema == UpOrIn(AllSteps \ {"schema"})
PastMark == UpOrIn({"feedV2", "feedV3", "interaction", "columns", "scrub"})
PastFeedV2 == UpOrIn({"feedV3", "interaction", "columns", "scrub"})
PastFeedV3 == UpOrIn({"interaction", "columns", "scrub"})
PastInteraction == UpOrIn({"columns", "scrub"})
PastColumns == UpOrIn({"scrub"})

\* What the third migration has seen is readable for good, and an instruction is a
\* post only until the second one.
RowIsSafe(x) ==
  /\ told[x] \in {"none", "clean"}
  /\ x \in said => (feedRows[x].by = "user") # (told[x] # "none")
  /\ feedRows[x].by = "user" => ~PastFeedV2 /\ told[x] = "none"
  /\ "feedV3" \in marks /\ feedRows[x] # Absent /\ ~feedRows[x].late =>
       feedRows[x].form = "v3" /\ feedRows[x].text = "clean"

\* What each migration has done stays done.
MarksHold ==
  /\ device.chosen => ~device.may /\ "permissions" \in marks
  /\ PastSchema => "content" \in columns
  /\ PastMark => "permissions" \in marks
  /\ PastFeedV2 => "feedV2" \in marks
  /\ PastFeedV3 => "feedV3" \in marks
  /\ PastInteraction => "interaction" \in marks
  /\ PastColumns => "results" \in columns
  /\ bridge = "new" => "scrub" \in marks

\* The three parts together.
UpgradeInv == UpgradeTypeOK /\ MarksHold /\ \A x \in Rows : RowIsSafe(x)

\* An older database has no marks.
LEMMA UpgradeInitially == UpgradeInit => UpgradeInv
BY DEF UpgradeInit, UpgradeInv, UpgradeTypeOK, MarksHold, RowIsSafe, Absent, Marks, UpOrIn,
       AllSteps, PastSchema, PastMark, PastFeedV2, PastFeedV3, PastInteraction, PastColumns

\* Every migration, and every row either bridge writes.
LEMMA UpgradeStep == UpgradeInv /\ [UpgradeNext]_upgradeVars => UpgradeInv'
<1> SUFFICES ASSUME UpgradeInv, [UpgradeNext]_upgradeVars PROVE UpgradeInv'
    OBVIOUS
<1> USE StepsAreAll DEF UpOrIn, AllSteps, PastSchema, PastMark, PastFeedV2, PastFeedV3,
        PastInteraction, PastColumns
<1>0. /\ UpgradeTypeOK /\ MarksHold
      /\ \A x \in Rows : RowIsSafe(x)
      /\ \A x \in Rows : feedRows[x] \in RowKinds \/ feedRows[x] = Absent
      BY DEF UpgradeInv, UpgradeTypeOK
<1>1. CASE StartsNew
      BY <1>0, <1>1
      DEF StartsNew, Steps, UpgradeInv, UpgradeTypeOK, MarksHold, RowIsSafe, RowKinds, Absent,
          Marks
<1>2. CASE StartsOld
      BY <1>0, <1>2
      DEF StartsOld, UpgradeInv, UpgradeTypeOK, MarksHold, RowIsSafe, RowKinds, Absent, Marks
<1>3. CASE Stops
      BY <1>0, <1>3
      DEF Stops, UpgradeInv, UpgradeTypeOK, MarksHold, RowIsSafe, RowKinds, Absent, Marks
<1>4. CASE Chooses
      BY <1>0, <1>4
      DEF Chooses, UpgradeInv, UpgradeTypeOK, MarksHold, RowIsSafe, RowKinds, Absent, Marks
<1>5. CASE InitializesSchema
      BY <1>0, <1>5, StepsGoOn
      DEF InitializesSchema, Reaches, UpgradeInv, UpgradeTypeOK, MarksHold, RowIsSafe,
          RowKinds, Absent, Marks
<1>6. CASE GrantsPermissions
      BY <1>0, <1>6, StepsGoOn
      DEF GrantsPermissions, Reaches, UpgradeInv, UpgradeTypeOK, MarksHold, RowIsSafe,
          RowKinds, Absent, Marks
<1>7. CASE MarksPermissions
      BY <1>0, <1>7, StepsGoOn
      DEF MarksPermissions, Reaches, UpgradeInv, UpgradeTypeOK, MarksHold, RowIsSafe, RowKinds,
          Absent, Marks
<1>8. CASE MigratesFeedV2
  <2>1. UpgradeTypeOK'
        BY <1>0, <1>8, StepsGoOn DEF MigratesFeedV2, Reaches, UpgradeTypeOK, RowKinds, Absent,
           Marks
  <2>2. MarksHold'
        BY <1>0, <1>8, StepsGoOn DEF MigratesFeedV2, Reaches, UpgradeTypeOK, MarksHold
  <2>3. ASSUME NEW x \in Rows PROVE RowIsSafe(x)'
    <3>1. /\ bridge = "feedV2" /\ bridge' = "feedV3" /\ said' = said
          /\ feedRows[x].form \in {"v1", "v2", "broken", "v3", "none"}
          /\ feedRows[x].by \in {"user", "agent", "none"}
          /\ ("feedV3" \in marks') = ("feedV3" \in marks)
          /\ RowIsSafe(x)
          BY <1>0, <1>8, StepsGoOn DEF MigratesFeedV2, Reaches, RowKinds, Absent
    <3>2. CASE feedRows[x].by = "user"
      <4>1. feedRows'[x] = Absent /\ told'[x] = "clean"
            BY <1>8, <3>1, <3>2 DEF MigratesFeedV2, RowIsSafe
      <4> QED BY <3>1, <4>1 DEF RowIsSafe, Absent
    <3>3. CASE feedRows[x].by # "user"
      <4>1. /\ told'[x] = told[x]
            /\ \/ feedRows'[x] = feedRows[x]
               \/ feedRows'[x] = [feedRows[x] EXCEPT !.form = "v2"]
                  /\ feedRows[x].form = "v1" /\ feedRows[x] \in RowKinds
            BY <1>0, <1>8, <3>3 DEF MigratesFeedV2, Absent
      <4>2. CASE feedRows'[x] = feedRows[x]
            BY <3>1, <3>3, <4>1, <4>2 DEF RowIsSafe
      <4>3. CASE feedRows'[x] # feedRows[x]
        <5>1. /\ feedRows'[x].by = feedRows[x].by /\ feedRows'[x].late = feedRows[x].late
              /\ feedRows[x].form = "v1" /\ feedRows[x] # Absent
              BY <4>1, <4>3 DEF RowKinds, Absent
        <5> QED BY <3>1, <3>3, <4>1, <5>1 DEF RowIsSafe
      <4> QED BY <4>2, <4>3
    <3> QED BY <3>2, <3>3
  <2> QED BY <2>1, <2>2, <2>3 DEF UpgradeInv
<1>9. CASE MigratesFeedV3
  <2>1. UpgradeTypeOK'
        BY ZenonT(40), <1>0, <1>9, StepsGoOn
           DEF MigratesFeedV3, Reaches, UpgradeTypeOK, RowKinds, Absent, Marks
  <2>2. MarksHold'
        BY <1>0, <1>9, StepsGoOn DEF MigratesFeedV3, Reaches, UpgradeTypeOK, MarksHold
  <2>3. ASSUME NEW x \in Rows PROVE RowIsSafe(x)'
        BY <1>0, <1>9, StepsGoOn DEF MigratesFeedV3, Reaches, UpgradeTypeOK, RowKinds, Absent,
           RowIsSafe
  <2> QED BY <2>1, <2>2, <2>3 DEF UpgradeInv
<1>10. CASE MigratesInteraction
      BY <1>0, <1>10, StepsGoOn
      DEF MigratesInteraction, Reaches, UpgradeInv, UpgradeTypeOK, MarksHold, RowIsSafe,
          RowKinds, Absent, Marks
<1>11. CASE AddsColumns
      BY <1>0, <1>11, StepsGoOn
      DEF AddsColumns, Reaches, UpgradeInv, UpgradeTypeOK, MarksHold, RowIsSafe, RowKinds,
          Absent, Marks
<1>12. CASE Scrubs
  <2>1. UpgradeTypeOK'
        BY ZenonT(40), <1>0, <1>12, StepsGoOn
           DEF Scrubs, Reaches, UpgradeTypeOK, RowKinds, Absent, Marks
  <2>2. MarksHold'
        BY <1>0, <1>12, StepsGoOn DEF Scrubs, Reaches, UpgradeTypeOK, MarksHold
  <2>3. ASSUME NEW x \in Rows PROVE RowIsSafe(x)'
        BY <1>0, <1>12, StepsGoOn DEF Scrubs, Reaches, UpgradeTypeOK, RowKinds, Absent,
           RowIsSafe
  <2> QED BY <2>1, <2>2, <2>3 DEF UpgradeInv
<1>13. ASSUME NEW z \in Rows, WritesOld(z) PROVE UpgradeInv'
  <2>1. UpgradeTypeOK'
        BY <1>0, <1>13 DEF WritesOld, UpgradeTypeOK, RowKinds, Absent, Marks
  <2>2. MarksHold'
        BY <1>0, <1>13 DEF WritesOld, UpgradeTypeOK, MarksHold
  <2>3. ASSUME NEW x \in Rows PROVE RowIsSafe(x)'
    <3>1. RowIsSafe(x) /\ bridge = "old" /\ UNCHANGED <<bridge, told, marks>>
          BY <1>0, <1>13 DEF WritesOld
    <3>2. CASE x # z
      <4>1. feedRows'[x] = feedRows[x] /\ (x \in said' => x \in said)
            BY <1>13, <3>2 DEF WritesOld
      <4> QED BY <3>1, <4>1 DEF RowIsSafe
    <3>3. CASE x = z
      <4>1. x \notin said /\ told[x] = "none"
            BY <1>13, <3>1, <3>3 DEF WritesOld, RowIsSafe, Absent
      <4> DEFINE done == "feedV3" \in marks
      <4>2. PICK b \in {"user", "agent"}, k \in {"v1", "v2", "broken"} :
              /\ said' = IF b = "user" THEN said \union {x} ELSE said
              /\ feedRows'[x] = [by |-> b, text |-> "raw", form |-> k, late |-> done]
            BY <1>0, <1>13, <3>3 DEF WritesOld, UpgradeTypeOK
      <4>3. "feedV3" \in marks' <=> done
            BY <3>1
      <4> HIDE DEF done
      <4>4. feedRows'[x].by = b /\ (done => feedRows'[x].late)
            BY <4>2
      <4>5. x \in said' <=> b = "user"
            BY <4>1, <4>2
      <4> QED BY <3>1, <4>1, <4>3, <4>4, <4>5 DEF RowIsSafe
    <3> QED BY <3>2, <3>3
  <2> QED BY <2>1, <2>2, <2>3 DEF UpgradeInv
<1>14. ASSUME NEW z \in Rows, WritesNew(z) PROVE UpgradeInv'
      BY <1>0, <1>14
      DEF WritesNew, UpgradeInv, UpgradeTypeOK, MarksHold, RowIsSafe, RowKinds, Absent, Marks
<1>15. CASE UNCHANGED upgradeVars
      BY <1>0, <1>15 DEF upgradeVars, UpgradeInv, UpgradeTypeOK, MarksHold, RowIsSafe
<1> QED BY <1>1, <1>2, <1>3, <1>4, <1>5, <1>6, <1>7, <1>8, <1>9, <1>10, <1>11, <1>12, <1>13,
           <1>14, <1>15 DEF UpgradeNext

\* A start that is up is past every migration.
LEMMA UpgradeSuffices == UpgradeInv => NothingIsLostInUpgrades
BY DEF UpgradeInv, MarksHold, RowIsSafe, UpgradeTypeOK, NothingIsLostInUpgrades, Served,
   PastSchema, PastMark, PastFeedV2,
       PastFeedV3, PastInteraction, PastColumns, UpOrIn, Marks, AllSteps

\* However starts die and people go back and forth, no instruction is lost, no row stays
\* unread and no permission comes back.
THEOREM UpgradesKeep == UpgradeSpec => []NothingIsLostInUpgrades
<1>1. UpgradeSpec => []UpgradeInv
      BY UpgradeInitially, UpgradeStep, PTL DEF UpgradeSpec
<1> QED BY <1>1, UpgradeSuffices, PTL

-----------------------------------------------------------------------------
(* 6. The parts together. *)

\* A step of the whole is a step of each part, or leaves the part as it is.
LEMMA MacHasService == [MacNext]_macPartVars => [ServiceNext]_serviceVars
<1>1. CASE UNCHANGED macPartVars
      BY <1>1 DEF macPartVars
<1>2. CASE MacNext
      BY <1>2 DEF MacNext, ServiceNext, OfProcess, OfService, OfIntegrations, OfStore,
         OfMaterials,
                  OfUploads, OfBoth, OfViews, OfProjects, OfUpgrades, materialVars
<1> QED BY <1>1, <1>2

\* The same of the installs,
LEMMA MacHasInstalls == [MacNext]_macPartVars => [IntegrationNext]_integrationVars
<1>1. CASE UNCHANGED macPartVars
      BY <1>1 DEF macPartVars
<1>2. CASE MacNext
      BY <1>2 DEF MacNext, IntegrationNext, OfProcess, OfService, OfIntegrations, OfStore,
         OfMaterials,
                  OfUploads, OfBoth, OfViews, OfProjects, OfUpgrades, materialVars
<1> QED BY <1>1, <1>2

\* of the materials and their views,
LEMMA MacHasMaterials == [MacNext]_macPartVars => [AllNext]_<<vars, viewVars>>
<1>1. CASE UNCHANGED macPartVars
      BY <1>1 DEF macPartVars, materialVars
<1>2. CASE MacNext
      BY <1>2 DEF MacNext, AllNext, ViewNext, OfProcess, OfService, OfIntegrations, OfStore,
         OfMaterials,
                  OfUploads, OfBoth, OfViews, OfProjects, OfUpgrades, materialVars
<1> QED BY <1>1, <1>2

\* of the projects,
LEMMA MacHasProjects == [MacNext]_macPartVars => [ProjectNext]_projectVars
<1>1. CASE UNCHANGED macPartVars
      BY <1>1 DEF macPartVars
<1>2. CASE MacNext
      BY <1>2 DEF MacNext, ProjectNext, OfProcess, OfService, OfIntegrations, OfStore,
         OfMaterials,
                  OfUploads, OfBoth, OfViews, OfProjects, OfUpgrades, materialVars
<1> QED BY <1>1, <1>2

\* and of the upgrades.
LEMMA MacHasUpgrades == [MacNext]_macPartVars => [UpgradeNext]_upgradeVars
<1>1. CASE UNCHANGED macPartVars
      BY <1>1 DEF macPartVars
<1>2. CASE MacNext
      BY <1>2 DEF MacNext, UpgradeNext, OfProcess, OfService, OfIntegrations, OfStore,
         OfMaterials,
                  OfUploads, OfBoth, OfViews, OfProjects, OfUpgrades, materialVars
<1> QED BY <1>1, <1>2


\* One bridge at a time, and true words about it, in every behaviour of the whole.
THEOREM MacServiceIsSafe ==
  ASSUME Prompt = TRUE
  PROVE  MacSpec => []ServiceIsSafe
<1>1. MacInit => ServiceInv
      BY ServiceInitially DEF MacInit
<1>2. ServiceInv /\ [MacNext]_macPartVars => ServiceInv'
      BY MacHasService, ServiceStep
<1> QED BY <1>1, <1>2, ServiceSuffices, PTL DEF MacSpec

\* Installs stay safe in every behaviour of the whole.
THEOREM MacInstallsAreSafe ==
  ASSUME Serial = TRUE, Sound = TRUE
  PROVE  MacSpec => InstallsAreSafe
<1>1. MacInit => IntegrationInv
      BY IntegrationInitially DEF MacInit
<1>2. IntegrationInv /\ [MacNext]_macPartVars => IntegrationInv'
      BY MacHasInstalls, IntegrationStep
<1>3. IntegrationInv /\ [MacNext]_macPartVars
      => /\ [Unhooks]_integrationVars
         /\ [\A j \in Jobs : EndsWell(j)]_integrationVars
         /\ [\A j \in Jobs : FailsWell(j)]_integrationVars
      BY MacHasInstalls, StepIsSafe
<1>4. MacSpec => /\ [][Unhooks]_integrationVars
                 /\ [][\A j \in Jobs : EndsWell(j)]_integrationVars
                 /\ [][\A j \in Jobs : FailsWell(j)]_integrationVars
      BY <1>1, <1>2, <1>3, PTL DEF MacSpec
<1> QED BY <1>4 DEF InstallsAreSafe, NeverUnhooked, OneSetOfHooks, FailedInstallsUndone,
           Unhooks,
                    EndsWell, FailsWell

\* Materials are kept and their views cleaned up after, in every behaviour of the whole.
THEOREM MacMaterialsAreKept == MacSpec => []MaterialsAreKept
<1>1. MacInit => MaterialsInv /\ ViewsInv
      BY MaterialsInitially, ViewsInitially DEF MacInit, AllInit
<1>2. MaterialsInv /\ ViewsInv /\ [MacNext]_macPartVars => (MaterialsInv /\ ViewsInv)'
      BY MacHasMaterials, AllSplits, MaterialsStep, ViewsStep
<1>3. MaterialsInv /\ ViewsInv => MaterialsAreKept
      BY DEF MaterialsInv, ViewsInv, MaterialsAreKept, NothingIsLeftBehind
<1> QED BY <1>1, <1>2, <1>3, PTL DEF MacSpec

\* Projects stay whole in every behaviour of the whole.
THEOREM MacProjectsAreWhole == MacSpec => []ProjectsAreWhole
<1>1. MacInit => ProjectsInv
      BY ProjectsInitially DEF MacInit
<1>2. ProjectsInv /\ [MacNext]_macPartVars => ProjectsInv'
      BY MacHasProjects, ProjectsStep
<1> QED BY <1>1, <1>2, ProjectsSuffice, PTL DEF MacSpec

\* Nothing is lost in upgrades in any behaviour of the whole.
THEOREM MacUpgradesKeep == MacSpec => []NothingIsLostInUpgrades
<1>1. MacInit => UpgradeInv
      BY UpgradeInitially DEF MacInit
<1>2. UpgradeInv /\ [MacNext]_macPartVars => UpgradeInv'
      BY MacHasUpgrades, UpgradeStep
<1> QED BY <1>1, <1>2, UpgradeSuffices, PTL DEF MacSpec

=============================================================================
