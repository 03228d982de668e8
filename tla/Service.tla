-------------------------------- MODULE Service --------------------------------
(***************************************************************************)
(* The life of the Mac's bridge process: `zimlo start` (index.ts) takes    *)
(* the service lock (service-instance.ts), the hook socket                 *)
(* (hook-server.ts) and the port (bridge.ts), writes its descriptor        *)
(* (service-state.ts), and gives all of it back when it stops; `zimlo      *)
(* stop` and `zimlo status` judge by these files (service-inspect.ts);     *)
(* `zimlo mcp` starts a bridge when it finds none (bridge-supervisor.ts).  *)
(*                                                                         *)
(* The lock is a directory, with its owner in a file that is written       *)
(* after it; a process that ends without a word leaves lock, socket and    *)
(* descriptor behind, for the next to judge, and its pid for others.       *)
(***************************************************************************)
EXTENDS Naturals, FiniteSets

CONSTANTS
  Starts,    \* processes that run `zimlo start`; each is its own pid
  NoOne,     \* none of them
  MaxTries,  \* tries for the lock: four in the code
  MaxReused, \* bound: pids that are given again
  Prompt     \* whether a lock's owner is named before others give the name
             \* up, and a lock is removed as soon as it was found stale

ASSUME NoOneIsNoStart == NoOne \notin Starts \union {"bare"} /\ "bare" \notin Starts
ASSUME ServiceBounds == MaxTries \in Nat \ {0} /\ MaxReused \in Nat /\ Prompt \in BOOLEAN

VARIABLES
  stage,       \* where each process is
  tries,       \* its tries for the lock
  lock,        \* no lock, a lock without a name, or its owner
  socket,      \* who listened at the hook socket's path last
  port,        \* who listens at the port
  descriptor,  \* whom service.json names
  reused,      \* pids of ended processes that others have by now
  manual,      \* the mark that the user stopped Zimlo
  awaits,      \* whose end `zimlo stop` waits for
  agent        \* what `zimlo mcp` is at: off, asks, waits, served, failed

serviceVars == <<stage, tries, lock, socket, port, descriptor, reused, manual, awaits, agent>>

\* A process holds the lock from its name's writing to its release.
Working == {"open", "hooked", "bound", "described", "ready"}
Ending == {"clearing", "closing", "releasing"}
Holding == Working \union Ending

ServiceTypeOK ==
  /\ stage \in [Starts -> {"idle", "lock", "name", "look", "steal", "gone"} \union Holding]
  /\ tries \in [Starts -> 0..MaxTries]
  /\ lock \in Starts \union {NoOne, "bare"}
  /\ {socket, port, descriptor, awaits} \subseteq Starts \union {NoOne}
  /\ manual \in BOOLEAN
  /\ reused \subseteq {p \in Starts : stage[p] = "gone"}
  /\ agent \in {"off", "waits", "served", "failed"}

ServiceInit ==
  /\ stage = [p \in Starts |-> "idle"]
  /\ tries = [p \in Starts |-> 0]
  /\ lock = NoOne /\ socket = NoOne /\ port = NoOne /\ descriptor = NoOne
  /\ reused = {} /\ manual = FALSE
  /\ awaits = NoOne /\ agent = "off"

\* processAlive: kill with signal 0.
Alive(p) == p \in Starts /\ (stage[p] \notin {"idle", "gone"} \/ p \in reused)

\* isBridgeSocketReachable: somebody accepts at the socket's path.
Reachable == socket \in Starts /\ stage[socket] \in (Working \ {"open"}) \union {"clearing"}

Goes(p, s) == stage' = [stage EXCEPT ![p] = s]

-----------------------------------------------------------------------------
(* The lock.                                                               *)

\* zimlo start clears the mark, whatever becomes of it.
Begins(p) ==
  /\ stage[p] = "idle"
  /\ Goes(p, "lock") /\ manual' = FALSE

Begin(p) ==
  /\ Begins(p)
  /\ UNCHANGED <<tries, lock, socket, port, descriptor, reused, awaits, agent>>

\* Nobody is between a stale lock's reading and its removal.
NobodySteals == Prompt => \A q \in Starts : stage[q] # "steal"

\* mkdir of the lock.
MakeLock(p) ==
  /\ stage[p] = "lock" /\ NobodySteals
  /\ IF lock = NoOne THEN lock' = "bare" /\ Goes(p, "name") ELSE Goes(p, "look") /\ UNCHANGED lock
  /\ UNCHANGED <<tries, socket, port, descriptor, reused, manual, awaits, agent>>

\* owner.json; the write fails when the directory has gone.
NameLock(p) ==
  /\ stage[p] = "name"
  /\ IF lock = NoOne THEN Goes(p, "gone") /\ UNCHANGED lock ELSE lock' = p /\ Goes(p, "open")
  /\ UNCHANGED <<tries, socket, port, descriptor, reused, manual, awaits, agent>>

\* readOwner, over its four tries.
OwnerIsUnknown == lock \notin Starts /\ (Prompt => \A q \in Starts : stage[q] # "name")

\* (Mutant: a lock that was there before is always stale.)
LookStale(p) ==
  /\ stage[p] = "look" /\ NobodySteals
  /\ Goes(p, "steal")
  /\ UNCHANGED <<tries, lock, socket, port, descriptor, reused, manual, awaits, agent>>

\* A live owner ends the attempt; a dead or unknown one has left the lock.
Look(p) ==
  /\ stage[p] = "look" /\ NobodySteals
  /\ \/ Alive(lock) /\ Goes(p, "gone")
     \/ (OwnerIsUnknown \/ (lock \in Starts /\ ~Alive(lock))) /\ Goes(p, "steal")
  /\ UNCHANGED <<tries, lock, socket, port, descriptor, reused, manual, awaits, agent>>

\* rm of the lock, whoever's it is by now, and the next try.
Steal(p) ==
  /\ stage[p] = "steal"
  /\ lock' = NoOne
  /\ tries' = [tries EXCEPT ![p] = @ + 1]
  /\ Goes(p, IF tries[p] + 1 = MaxTries THEN "gone" ELSE "lock")
  /\ UNCHANGED <<socket, port, descriptor, reused, manual, awaits, agent>>

-----------------------------------------------------------------------------
(* A start that has the lock.                                              *)

\* HookServer.start: the path is unlinked and listened at.
TakeSocket(p) ==
  /\ stage[p] = "open"
  /\ socket' = p /\ Goes(p, "hooked")
  /\ UNCHANGED <<tries, lock, port, descriptor, reused, manual, awaits, agent>>

\* BridgeServer.start listens at the port.
Bind(p) ==
  /\ stage[p] = "hooked" /\ port = NoOne
  /\ port' = p /\ Goes(p, "bound")
  /\ UNCHANGED <<tries, lock, socket, descriptor, reused, manual, awaits, agent>>

\* writeServiceDescriptor.
Describe(p) ==
  /\ stage[p] = "bound"
  /\ descriptor' = p /\ Goes(p, "described")
  /\ UNCHANGED <<tries, lock, socket, port, reused, manual, awaits, agent>>

\* The relay and discovery have started; from here signals are handled.
Ready(p) ==
  /\ stage[p] = "described"
  /\ Goes(p, "ready")
  /\ UNCHANGED <<tries, lock, socket, port, descriptor, reused, manual, awaits, agent>>

\* Any step may fail, at the port when it is another's.
Fail(p) ==
  /\ stage[p] \in Working \ {"ready"}
  /\ Goes(p, "clearing") \/ (stage[p] = "open" /\ Goes(p, "releasing"))
  /\ UNCHANGED <<tries, lock, socket, port, descriptor, reused, manual, awaits, agent>>

\* (Mutant: the lock is given back before the descriptor.)
ClearLockFirst(p) ==
  /\ stage[p] = "clearing"
  /\ lock' = IF lock = p THEN NoOne ELSE lock
  /\ Goes(p, "closing")
  /\ UNCHANGED <<tries, socket, port, descriptor, reused, manual, awaits, agent>>

\* stop: clearServiceDescriptor takes its own away and nobody else's.
ClearDescriptor(p) ==
  /\ stage[p] = "clearing"
  /\ descriptor' = IF descriptor = p THEN NoOne ELSE descriptor
  /\ Goes(p, "closing")
  /\ UNCHANGED <<tries, lock, socket, port, reused, manual, awaits, agent>>

\* stop: the socket's path is unlinked, whoever listens there, and the port
\* is closed.
Close(p) ==
  /\ stage[p] = "closing"
  /\ socket' = NoOne
  /\ port' = IF port = p THEN NoOne ELSE port
  /\ Goes(p, "releasing")
  /\ UNCHANGED <<tries, lock, descriptor, reused, manual, awaits, agent>>

\* lease.release, of a lock that has its token, and the process's end.
Release(p) ==
  /\ stage[p] = "releasing"
  /\ lock' = IF lock = p THEN NoOne ELSE lock
  /\ Goes(p, "gone")
  /\ UNCHANGED <<tries, socket, port, descriptor, reused, manual, awaits, agent>>

-----------------------------------------------------------------------------
(* Ends.                                                                   *)

\* What a signal does: it begins the stop of a bridge that is ready; before,
\* or a second time, it ends the process at once, and so does a crash.
Signalled(p) ==
  IF stage[p] = "ready" THEN Goes(p, "clearing") /\ UNCHANGED port
  ELSE Goes(p, "gone") /\ port' = IF port = p THEN NoOne ELSE port

\* Ctrl-C or a crash.
Interrupt(p) ==
  /\ stage[p] \notin {"idle", "gone"}
  /\ Signalled(p)
  /\ UNCHANGED <<tries, lock, socket, descriptor, reused, manual, awaits, agent>>

\* The system gives the pid to another process.
Reuse(p) ==
  /\ stage[p] = "gone" /\ p \notin reused
  /\ Cardinality(reused) < MaxReused
  /\ reused' = reused \union {p}
  /\ UNCHANGED <<stage, tries, lock, socket, port, descriptor, manual, awaits, agent>>

-----------------------------------------------------------------------------
(* zimlo stop, zimlo status, zimlo mcp.                                    *)

\* stopService: an owner who lives, and whom the descriptor does not deny,
\* gets a signal, unless its pid is another's, who gets it then.
Stop ==
  /\ awaits = NoOne /\ Alive(lock)
  /\ descriptor \in {NoOne, lock}
  /\ awaits' = lock
  /\ IF lock \in reused THEN UNCHANGED <<stage, port>> ELSE Signalled(lock)
  /\ UNCHANGED <<tries, lock, socket, descriptor, reused, manual, agent>>

\* stopService: no owner who lives, and no process the descriptor names.
StopFindsNone ==
  /\ awaits = NoOne /\ ~Alive(lock) /\ ~Alive(descriptor)
  /\ ~manual /\ manual' = TRUE
  /\ UNCHANGED <<stage, tries, lock, socket, port, descriptor, reused, awaits, agent>>

\* The process has ended, and the mark says who wanted it; or it is too slow.
Stopped ==
  /\ awaits # NoOne
  /\ manual' \in IF Alive(awaits) THEN {manual} ELSE {TRUE}
  /\ awaits' = NoOne
  /\ UNCHANGED <<stage, tries, lock, socket, port, descriptor, reused, agent>>

\* inspectService.
Ownership ==
  CASE descriptor = NoOne -> "not_running"
    [] descriptor # NoOne /\ ~Alive(descriptor) -> "stale"
    [] Alive(descriptor) /\ lock = descriptor -> "verified"
    [] OTHER -> "unverifiable"

\* fetchHealthz: somebody answers at the port.
Healthy == port # NoOne

\* isServiceOperational: what `zimlo status` says.
Operational == Ownership = "verified" /\ Healthy

\* ensureBridgeRunning: a bridge that answers is enough; else one is started.
AgentAsks ==
  /\ agent = "off"
  /\ IF Reachable THEN agent' = "served" /\ UNCHANGED <<stage, manual>>
     ELSE agent' = "waits" /\ \E p \in Starts : Begins(p)
  /\ UNCHANGED <<tries, lock, socket, port, descriptor, reused, awaits>>

\* The socket is asked again and again, for four seconds.
AgentSees ==
  /\ agent = "waits"
  /\ agent' \in IF Reachable THEN {"served", "failed"} ELSE {"failed"}
  /\ UNCHANGED <<stage, tries, lock, socket, port, descriptor, reused, manual, awaits>>

-----------------------------------------------------------------------------

ServiceNext ==
  \/ \E p \in Starts :
       \/ Begin(p) \/ MakeLock(p) \/ NameLock(p) \/ Look(p) \/ Steal(p)
       \/ TakeSocket(p) \/ Bind(p) \/ Describe(p) \/ Ready(p) \/ Fail(p)
       \/ ClearDescriptor(p) \/ Close(p) \/ Release(p)
       \/ Interrupt(p) \/ Reuse(p)
  \/ Stop \/ StopFindsNone \/ Stopped \/ AgentAsks \/ AgentSees

ServiceSpec == ServiceInit /\ [][ServiceNext]_serviceVars

-----------------------------------------------------------------------------
(* Properties.                                                             *)

\* One process at a time is past the lock, and while it serves, the hook
\* socket is its own: no start that fails, is refused or cleans up after a
\* dead owner takes it away (service-instance.ts:81, hook-server.ts:205-219).
OneBridge ==
  \A p \in Starts : stage[p] \in Holding =>
    /\ \A q \in Starts \ {p} : stage[q] \notin Holding
    /\ lock = p
    /\ stage[p] \in Working \ {"open"} => socket = p

\* No status is of a process whose ownership cannot be verified, as long as
\* the pid it names was not given again, and a bridge that is called
\* operational can be reached by the agents' hooks (service-inspect.ts:52-57,
\* 160-166).
VerifiedOrNothing ==
  /\ descriptor \notin reused => Ownership # "unverifiable"
  /\ Operational => Reachable

\* Both: whatever starts, stops and cleans up when, one bridge is at work and what is
\* said of it is so.
ServiceIsSafe == OneBridge /\ VerifiedOrNothing

\* Fails (service-inspect.ts:226-238): the pid of a lock that was left behind
\* may be another process's, who gets the signal.
StopsItsOwn == [][awaits' # awaits /\ awaits' # NoOne => awaits' \notin reused]_serviceVars

\* Fails (service-inspect.ts:254, index.ts:65): a start before its lock has a
\* name is not running for stop, which sets the mark it has just cleared.
MarkMeansStopped == manual => \A p \in Starts : stage[p] # "ready"

=============================================================================
