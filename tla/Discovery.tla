------------------------------- MODULE Discovery -------------------------------
(***************************************************************************)
(* How the reference runtime learns of sessions (discovery-service.ts): it *)
(* reads the agents' transcripts as they grow, lists the agents' processes *)
(* and hears their hooks (hook-server.ts); all three write the session's   *)
(* row (runtime.ts, store.ts).  Between two awaits the runtime runs alone, *)
(* so a step goes from one await to the next.                              *)
(*                                                                         *)
(* A transcript belongs to one provider session and both have one name.    *)
(* Its lines are as long as each other, and a size that no number of lines *)
(* has ends within one.  A working directory is always known.  A process   *)
(* is named by its pid.                                                    *)
(***************************************************************************)
EXTENDS Integers, Sequences, FiniteSets

CONSTANTS
  Files,        \* transcripts
  Provider,     \* the agent of a transcript
  LastPid,      \* processes of the agents are the numbers up to it
  SessionOf,    \* the session of a process
  Evidence,     \* what a listing tells of it: a subset of {id, path}
  Bearing,      \* processes that are sessions, not helpers of one
  Text,         \* the lines of a transcript
  Told,         \* the hooks that agents call
  LineSize,     \* the size of a line
  Chunk,        \* what one read takes, INCREMENTAL_BYTES
  MaxLines,     \* bound: lines of a transcript
  MaxRotations, \* bound: transcripts begun afresh
  MaxReads,     \* bound: ingestions of a transcript at a time
  MaxHooks,     \* bound: hooks called
  MaxStarts     \* bound: restarts of the bridge

ASSUME ProcessesAreNumbers == LastPid \in Nat

Pids == 1..LastPid

ASSUME ProcessesRunSessions ==
  /\ SessionOf \in [Pids -> Files]
  /\ Evidence \in [Pids -> SUBSET {"id", "path"}]
  /\ Bearing \subseteq Pids
ASSUME FilesHaveProviders == Provider \in [Files -> {"codex", "claude"}]
ASSUME LinesHaveSizes == MaxLines \in Nat /\ LineSize \in Nat \ {0} /\ Chunk \in Nat \ {0}

VARIABLES
  size,      \* a transcript's size; 0: there is none
  edition,   \* how often it was begun afresh
  alive,     \* processes that run
  known,     \* the size in the service's list of files; -1: not in it
  reads,     \* ingestions that wait for the file
  calls,     \* the parser's open tool calls: <<call, tool>>
  offset,    \* the store's offset; -1: none
  events,    \* lines whose events the store holds: <<edition, n>>
  row,       \* the store's sessions
  scanning,  \* scanningProcesses: a scan is on its way
  listing,   \* the processes it is about to be told
  hooks, starts

discoveryVars ==
  <<size, edition, alive, known, reads, calls, offset, events, row, scanning,
    listing, hooks, starts>>

world == <<size, edition, alive, hooks, starts>>
memory == <<known, reads, calls, scanning, listing>>
store == <<offset, events, row>>

Tools == {"input", "files", "test", "shell", "other"}

Absent == [absent |-> TRUE]
NoPid == 0

\* A session that only a process stands for is named by its pid.
Sessions == Files \union Pids

Row(pid, status, reply, live) ==
  [pid |-> pid, status |-> status, reply |-> reply, live |-> live]
Rows ==
  [pid : Pids \union {NoPid},
   status : {"idle", "running", "waiting", "completed", "failed", "ended"},
   reply : BOOLEAN, live : BOOLEAN]

\* An ingestion: the offset it found, the size it goes by once refresh has
\* put another candidate in the list, and how far it reads once it knows.
Read(f, prior) == [file |-> f, prior |-> prior, own |-> -1, till |-> -1]
Sizes == -1..(LineSize * MaxLines)

DiscoveryTypeOK ==
  /\ size \in [Files -> 0..(LineSize * MaxLines)]
  /\ edition \in [Files -> 0..MaxRotations]
  /\ alive \subseteq Pids
  /\ known \in [Files -> Sizes]
  /\ reads \subseteq [file : Files, prior : Sizes, own : Sizes, till : Sizes]
  /\ \A r \in reads : known[r.file] >= 0
  /\ \A f \in Files : \A call \in calls[f] : call[2] \in Tools
  /\ offset \in [Files -> Sizes]
  /\ events \in [Files -> SUBSET ((0..MaxRotations) \X (1..MaxLines))]
  /\ \A s \in Sessions : row[s] = Absent \/ row[s] \in Rows
  /\ scanning \in BOOLEAN /\ listing \subseteq Pids
  /\ hooks \in 0..MaxHooks /\ starts \in 0..MaxStarts

DiscoveryInit ==
  /\ size = [f \in Files |-> 0] /\ edition = [f \in Files |-> 0]
  /\ alive = {}
  /\ known = [f \in Files |-> -1]
  /\ reads = {}
  /\ calls = [f \in Files |-> {}]
  /\ offset = [f \in Files |-> -1]
  /\ events = [f \in Files |-> {}]
  /\ row = [s \in Sessions |-> Absent]
  /\ scanning = FALSE /\ listing = {}
  /\ hooks = 0 /\ starts = 0

-----------------------------------------------------------------------------
(* The agents.                                                             *)

\* A line, or a part of one.
Writes(f) ==
  /\ \E n \in 1..LineSize : size' = [size EXCEPT ![f] = @ + n]
  /\ size'[f] <= LineSize * MaxLines
  /\ UNCHANGED <<edition, alive, hooks, starts>>
  /\ UNCHANGED memory /\ UNCHANGED store

\* The transcript is begun afresh, or replaced by another.
Rotates(f) ==
  /\ size[f] > 0 /\ edition[f] < MaxRotations
  /\ edition' = [edition EXCEPT ![f] = @ + 1]
  /\ size' \in {[size EXCEPT ![f] = n] : n \in 1..size[f]}
  /\ UNCHANGED <<alive, hooks, starts>>
  /\ UNCHANGED memory /\ UNCHANGED store

ProcessTurns(p) ==
  /\ alive' = IF p \in alive THEN alive \ {p} ELSE alive \union {p}
  /\ UNCHANGED <<size, edition, hooks, starts>>
  /\ UNCHANGED memory /\ UNCHANGED store

-----------------------------------------------------------------------------
(* The session's row.                                                      *)

\* ingestEvent: what an event makes of the session's status.
IngestEvent(r, kind) ==
  IF kind \in {"needs_input", "needs_approval"} THEN [r EXCEPT !.status = "waiting"]
  ELSE IF kind = "session_ended" THEN [r EXCEPT !.status = "ended"]
  ELSE IF kind \in {"failed", "completed"} THEN [r EXCEPT !.status = kind] ELSE r

\* upsertSession.
Upsert(s, r) == row' = [row EXCEPT ![s] = r]

\* (Mutant: the session may be replied to, whoever runs it.)
EnsureSessionOffers(r) ==
  IF r = Absent THEN Row(NoPid, "idle", TRUE, FALSE)
  ELSE [r EXCEPT !.status = IF r.pid # NoPid THEN "running" ELSE @, !.reply = TRUE]

\* ensureSession: a session that a process runs is running and cannot be
\* replied to.
EnsureSession(r) ==
  IF r = Absent THEN Row(NoPid, "idle", TRUE, FALSE)
  ELSE [r EXCEPT !.status = IF r.pid # NoPid THEN "running" ELSE @,
                 !.reply = r.pid = NoPid]

\* eventKind: the event of a hook, if it is one.
HookKind(hook) ==
  CASE hook = "SessionStart" -> "session_started"
    [] hook = "SessionEnd" -> "session_ended"
    [] hook = "PermissionRequest" -> "needs_approval"
    [] hook = "AskUserQuestion" -> "needs_input"
    [] hook = "Stop" -> "completed"
    [] hook = "PostToolUseFailure" -> "failed"
    [] hook = "UserPromptSubmit" -> "user_instruction"
    [] OTHER -> "none"

\* handleRequest: the session is there and observed, and waits at once for a
\* person whom the hook is going to ask.
HookRow(r, hook) ==
  LET found == IF r = Absent THEN Row(NoPid, "running", FALSE, TRUE)
               ELSE [r EXCEPT !.live = TRUE]
  IN IF hook \in {"PermissionRequest", "AskUserQuestion"}
     THEN [found EXCEPT !.status = "waiting"] ELSE found

\* An agent's hook is called.
Hook(f, hook) ==
  /\ hooks < MaxHooks
  /\ hooks' = hooks + 1
  /\ Upsert(f, IngestEvent(HookRow(row[f], hook), HookKind(hook)))
  /\ UNCHANGED <<size, edition, alive, starts, offset, events>>
  /\ UNCHANGED memory

-----------------------------------------------------------------------------
(* Lines.  A line is a sequence of items: one for Codex, the blocks of a   *)
(* message for Claude.  An item that calls a tool, or brings what came of  *)
(* it, names the call.                                                     *)

Item(kind) == [kind |-> kind, call |-> "none", tool |-> "other", code |-> "none"]
Call(call, tool) == [Item("call") EXCEPT !.call = call, !.tool = tool]

Items == [kind : STRING, call : STRING, tool : Tools, code : STRING]
ASSUME LinesHaveItems == \A n \in 1..MaxLines : Text[n] \in Seq(Items)

\* An output whose exit code, if one is found in it, is zero or another.
Output(call, code) == [Item("output") EXCEPT !.call = call, !.code = code]

\* The event of a tool's call, and of its output.
ToolEvent(item, open) ==
  CASE item.kind = "call" /\ item.tool = "input" -> "needs_input"
    [] item.kind = "call" /\ item.tool = "files" -> "files_changed"
    [] item.kind = "call" /\ item.tool \in {"test", "shell"} -> "command_started"
    [] item.kind = "output" /\ <<item.call, "test">> \in open /\ item.code = "zero"
       -> "tests_passed"
    [] item.kind = "output" /\ <<item.call, "test">> \in open /\ item.code = "other"
       -> "tests_failed"
    [] item.kind = "output" -> "command_completed"
    [] OTHER -> "none"

\* The event of an item that calls no tool: parseCodexLine.
CodexEvent(item, open) ==
  CASE item.kind \in {"session_meta", "task_started", "turn_started"} -> "session_started"
    [] item.kind \in {"plan_update", "plan_updated"} -> "plan_updated"
    [] item.kind \in {"task_complete", "turn_complete", "final_answer"} -> "completed"
    [] item.kind \in {"turn_aborted", "error"} -> "failed"
    [] item.kind = "prompt" -> "user_instruction"
    [] OTHER -> ToolEvent(item, open)

\* The same: parseClaudeLine.
ClaudeEvent(item, open) ==
  CASE item.kind = "init" -> "session_started"
    [] item.kind = "error" -> "failed"
    [] item.kind = "session_end" -> "session_ended"
    [] item.kind = "end_turn" -> "completed"
    [] item.kind = "prompt" -> "user_instruction"
    [] OTHER -> ToolEvent(item, open)

EventOf(f, item, open) ==
  IF Provider[f] = "codex" THEN CodexEvent(item, open) ELSE ClaudeEvent(item, open)

\* The calls that are open after an item.
OpenAfter(item, open) ==
  LET others == {call \in open : call[1] # item.call}
  IN IF item.kind = "call" THEN others \union {<<item.call, item.tool>>}
     ELSE IF item.kind = "output" THEN others ELSE open

\* A line: ensureSession, and its events when the store has them not.
ParseLine(f, parsed, line, isNew) ==
  LET item[i \in 0..Len(line)] ==
        IF i = 0 THEN [row |-> EnsureSession(parsed.row), open |-> parsed.open]
        ELSE LET prev == item[i - 1]
                 kind == IF isNew THEN EventOf(f, line[i], prev.open) ELSE "none"
             IN [row |-> IngestEvent(prev.row, kind),
                 open |-> OpenAfter(line[i], prev.open)]
  IN item[Len(line)]

-----------------------------------------------------------------------------
(* Transcripts.                                                            *)

\* ingestCandidate up to the await of the file: the offset is read.
Begin(f) ==
  /\ reads' = reads \union {Read(f, offset[f])}
  /\ \A g \in Files : Cardinality({r \in reads' : r.file = g}) <= MaxReads

\* discoverTranscripts: the file is there.
Listed(f) == size[f] > 0

\* refreshCandidates: the candidate in the list is replaced by one with the
\* size of now, and only a file that was not in the list is ingested.
Refresh(f) ==
  /\ Listed(f) /\ known[f] # size[f]
  /\ known' = [known EXCEPT ![f] = size[f]]
  /\ IF known[f] = -1 THEN Begin(f)
     ELSE reads' = {IF r.file = f /\ r.own = -1 THEN [r EXCEPT !.own = known[f]] ELSE r
                    : r \in reads}
  /\ UNCHANGED <<calls, scanning, listing>> /\ UNCHANGED world /\ UNCHANGED store

\* tailKnownFiles: a size other than the candidate's is written into the
\* candidate, and the file ingested, also while an ingestion of it waits.
Tail2s(f) ==
  /\ known[f] # -1 /\ known[f] # size[f]
  /\ known' = [known EXCEPT ![f] = size[f]]
  /\ Begin(f)
  /\ UNCHANGED <<calls, scanning, listing>> /\ UNCHANGED world /\ UNCHANGED store

\* The size of an ingestion's candidate.
CandidateSize(r) == IF r.own = -1 THEN known[r.file] ELSE r.own
StartOf(r) == IF r.prior = -1 \/ CandidateSize(r) < r.prior THEN 0 ELSE r.prior

\* The file is open: how far to read is known.
Opens(r) ==
  /\ r.till = -1
  /\ LET length == IF r.prior = -1 THEN CandidateSize(r)
                   ELSE IF CandidateSize(r) - StartOf(r) < Chunk
                   THEN CandidateSize(r) - StartOf(r) ELSE Chunk
     IN reads' = (reads \ {r}) \union {[r EXCEPT !.till = StartOf(r) + length]}
  /\ UNCHANGED <<known, calls, scanning, listing>> /\ UNCHANGED world /\ UNCHANGED store

\* The first line of a read that does not start the file is left out.
Skipped(start) == IF start > 0 THEN 1 ELSE 0

\* The lines from start to end that are parsed: whole ones.
Lines(start, end) == (start \div LineSize + 1 + Skipped(start))..(end \div LineSize)

\* insertEvent: an event that the store has is ignored.
IsNew(f, n) == <<edition[f], n>> \notin events[f]

\* setOffset: behind the last line that is complete, and after a first read
\* at the candidate's size.
OffsetAfter(r, start, end) ==
  IF r.prior = -1 THEN CandidateSize(r)
  ELSE IF r.till <= start THEN offset[r.file]
  ELSE IF end \div LineSize <= start \div LineSize THEN start
  ELSE LineSize * (end \div LineSize)

\* The bytes are there: what is complete is parsed line by line, new events
\* are stored, the offset is moved, and the session is written once more.
Parses(r) ==
  /\ r.till # -1
  /\ LET f == r.file
         start == IF r.prior = -1 \/ r.till < r.prior THEN 0 ELSE r.prior
         end == IF r.till < size[f] THEN r.till ELSE size[f]
         lines == Lines(start, end)
         after[n \in 0..MaxLines] ==
           IF n = 0 THEN [row |-> row[f], open |-> calls[f]]
           ELSE IF n \notin lines THEN after[n - 1]
           ELSE ParseLine(f, after[n - 1], Text[n], IsNew(f, n))
     IN /\ events' = [events EXCEPT ![f] = @ \union {<<edition[f], n>> : n \in lines}]
        /\ Upsert(f, EnsureSession(after[MaxLines].row))
        /\ calls' = [calls EXCEPT ![f] = after[MaxLines].open]
        /\ offset' = [offset EXCEPT ![f] = OffsetAfter(r, start, end)]
  /\ reads' = reads \ {r}
  /\ UNCHANGED <<known, scanning, listing>> /\ UNCHANGED world

-----------------------------------------------------------------------------
(* Processes.                                                              *)

\* scanAgentProcesses: ps, then lsof for each; ps may fail and list nobody.
ScanBegins ==
  /\ ~scanning
  /\ scanning' = TRUE /\ listing' = alive
  /\ UNCHANGED <<known, reads, calls>> /\ UNCHANGED world /\ UNCHANGED store

ListingFails ==
  /\ ~scanning
  /\ scanning' = TRUE /\ listing' = {}
  /\ UNCHANGED <<known, reads, calls>> /\ UNCHANGED world /\ UNCHANGED store

\* The process's command names its session; it has the transcript open.
Names(p) == "id" \in Evidence[p]
HasOpen(p) == "path" \in Evidence[p]

\* The row that a process is seen to run, or the process's own.
TargetIn(rows, p) ==
  IF Names(p) /\ rows[SessionOf[p]] # Absent THEN SessionOf[p]
  ELSE IF HasOpen(p) /\ known[SessionOf[p]] # -1 THEN SessionOf[p] ELSE p

Correlated(rows, p) == TargetIn(rows, p) \in Files

\* One process of the listing.
Observe(acc, p) ==
  IF ~Correlated(acc.rows, p) /\ p \notin Bearing THEN acc
  ELSE [rows |-> [acc.rows EXCEPT ![TargetIn(acc.rows, p)] =
                    Row(p, "running", FALSE, TRUE)],
        active |-> acc.active \union {p}]

\* The processes of the listing one after the other.
Observed ==
  LET seen[p \in 0..LastPid] ==
        IF p = 0 THEN [rows |-> row, active |-> {}]
        ELSE IF p \in listing THEN Observe(seen[p - 1], p) ELSE seen[p - 1]
  IN seen[LastPid]

\* (Mutant: a session of its own outlives its process.)
ClearInactiveKeeps(rows, active) ==
  [s \in Sessions |->
     IF rows[s] = Absent \/ s \in Pids \/ rows[s].pid \in active \union {NoPid}
     THEN rows[s] ELSE Row(NoPid, "idle", TRUE, FALSE)]

\* clearInactiveProcesses: a session whose process is not listed is idle and
\* free again, and one that only a process stood for is deleted.
ClearInactive(rows, active) ==
  [s \in Sessions |->
     IF rows[s] = Absent \/ rows[s].pid \in active \union {NoPid} THEN rows[s]
     ELSE IF s \in Pids THEN Absent ELSE Row(NoPid, "idle", TRUE, FALSE)]

\* (Mutant: the flag that a scan is on its way is not taken back.)
ScanEndsBusy ==
  /\ scanning
  /\ row' = ClearInactive(Observed.rows, Observed.active)
  /\ listing' = {}
  /\ UNCHANGED <<scanning, known, reads, calls, offset, events>> /\ UNCHANGED world

\* scanProcesses with the listing.
ScanEnds ==
  /\ scanning
  /\ row' = ClearInactive(Observed.rows, Observed.active)
  /\ scanning' = FALSE /\ listing' = {}
  /\ UNCHANGED <<known, reads, calls, offset, events>> /\ UNCHANGED world

\* (Mutant: a restart that leaves the ingestions of before.)
StartsAgainKeepsReads ==
  /\ starts < MaxStarts
  /\ starts' = starts + 1
  /\ known' = [f \in Files |-> -1]
  /\ calls' = [f \in Files |-> {}]
  /\ scanning' = FALSE /\ listing' = {}
  /\ UNCHANGED <<size, edition, alive, hooks, reads>> /\ UNCHANGED store

\* The bridge ends and starts again.
StartsAgain ==
  /\ starts < MaxStarts
  /\ starts' = starts + 1
  /\ known' = [f \in Files |-> -1]
  /\ reads' = {}
  /\ calls' = [f \in Files |-> {}]
  /\ scanning' = FALSE /\ listing' = {}
  /\ UNCHANGED <<size, edition, alive, hooks>> /\ UNCHANGED store

-----------------------------------------------------------------------------

Reads(f) == \E r \in reads : r.file = f /\ (Opens(r) \/ Parses(r))

DiscoveryNext ==
  \/ \E f \in Files : Writes(f) \/ Rotates(f) \/ Refresh(f) \/ Tail2s(f) \/ Reads(f)
  \/ \E f \in Files, hook \in Told : Hook(f, hook)
  \/ \E p \in Pids : ProcessTurns(p)
  \/ ScanBegins \/ ListingFails \/ ScanEnds \/ StartsAgain

DiscoverySpec == DiscoveryInit /\ [][DiscoveryNext]_discoveryVars

\* The timer fires again and again, and ps does not fail for ever.
DiscoveryFairness == SF_discoveryVars(ScanBegins) /\ WF_discoveryVars(ScanEnds)

DiscoveryFairSpec == DiscoverySpec /\ DiscoveryFairness

-----------------------------------------------------------------------------
(* Properties.                                                             *)

Offered(s) == row[s] # Absent /\ row[s].reply
Shows(s, p) == row[s] # Absent /\ row[s].pid = p

\* A session is offered for a reply only when its row shows no process that
\* runs it, whichever of transcript, listing and hook wrote it last
\* (discovery-service.ts:201-206, 249, store.ts:616).
FreeToReply ==
  \A s \in Sessions : Offered(s) => Shows(s, NoPid)

\* A process that has ended is in time no session's, and the session that it
\* alone stood for is gone (store.ts:606).
GoneIsCleared ==
  \A p \in Pids : p \notin alive ~> (p \in alive \/ \A s \in Sessions : ~Shows(s, p))

\* A process that stays and names its session takes it from those who would
\* reply, however the listings before failed (discovery-service.ts:228).
BusyIsTaken ==
  \A p \in Pids :
    (p \in alive /\ Names(p) /\ row[SessionOf[p]] # Absent)
      ~> (p \notin alive \/ ~Offered(SessionOf[p]))

\* What a listing says of the processes reaches the rows, both ways
\* (processes.ts:64).
ProcessesAreFollowed == GoneIsCleared /\ BusyIsTaken

\* Every line before the offset is in the store (docs/ARCHITECTURE.md:64).
AppendedIsRead ==
  \A f \in Files : \A n \in 1..MaxLines :
    edition[f] = 0 /\ LineSize * n <= offset[f] => <<0, n>> \in events[f]

=============================================================================
