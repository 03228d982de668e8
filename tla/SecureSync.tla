----------------------------- MODULE SecureSync -----------------------------
(* One paired device and the bridge's task that serves its WebSocket: the   *)
(* authentication, the numbered frames of both directions, the snapshots    *)
(* and deltas that follow the store, and the replica the client keeps of    *)
(* them. The store is written by this bridge's actor, which counts its own  *)
(* changes only after they are visible, and by other processes, which       *)
(* nothing announces. A link is local or goes through the cloud relay; the  *)
(* relay may lose frames when the Mac's side of it is replaced, and turns   *)
(* every close code into 1000.                                              *)
(*                                                                          *)
(* Sources: websocket.rs, snapshot_sync.rs, the store's actor.rs and        *)
(* devices.rs, snapshotReplica.ts and the socket part of useBridge.ts.      *)
(*                                                                          *)
(* Left out: the cryptography (a frame of another link cannot be read), the *)
(* commands' contents (their outcome is any the dispatcher can return),     *)
(* store failures, the read-only mode. A link that the client has left has  *)
(* no effect but the writes of commands it still executes, which are writes *)
(* of the store like any other.                                             *)
EXTENDS Naturals, Sequences, SequencesExt, TLC

CONSTANTS
    Items,        \* the entities that a snapshot lists
    Texts,        \* what an entity can say
    Routes,       \* the ways from the client to the bridge: "local", "cloud"
    Invalids,     \* whether the dispatcher finds commands invalid
    MaxWrites,    \* bound: changes of the store's contents
    MaxLinks,     \* bound: links that the client opens
    MaxCommands,  \* bound: commands that the client sends
    MaxLosses     \* bound: frames that the relay loses, or its replacements

ASSUME RoutesAreKnown == Routes \subseteq {"local", "cloud"}
ASSUME InvalidsIsBoolean == Invalids \in BOOLEAN
ASSUME BoundsAreNumbers ==
    MaxWrites \in Nat /\ MaxLinks \in Nat /\ MaxCommands \in Nat /\ MaxLosses \in Nat

VARIABLES
    \* the store
    content,    \* the listed entities and what they say
    active,     \* the device's row is not revoked
    sqlite,     \* PRAGMA data_version: commits of other processes
    local,      \* the actor's revision: its own changes
    due,        \* a change of the actor is visible but not counted yet
    \* the bridge's task for the link
    task,
    \* the client
    creds,      \* it still has the device's credentials
    client,     \* its socket and SnapshotReplica
    \* the link's two directions
    up, down,
    \* history and bounds
    sent,       \* the contents that the task sent on this link, by revision
    links, writes, commands, losses

store == <<content, active, sqlite, local, due>>
bounds == <<links, writes, commands, losses>>
vars == <<content, active, sqlite, local, due, task, creds, client, up, down,
          sent, links, writes, commands, losses>>

Contents == UNION {[S -> Texts] : S \in SUBSET Items}

-----------------------------------------------------------------------------
(* The two ends of a link.                                                  *)

\* A task that waits for the authentication frame.
Fresh == [pc |-> "auth", sql |-> 0, seen |-> <<>>, recv |-> 0, send |-> 0,
          enabled |-> FALSE, rev |-> 0, previous |-> <<>>]

Gone == [Fresh EXCEPT !.pc = "gone"]

\* A socket with no keys and a replica that has received nothing.
NewSocket(route) ==
    [open |-> TRUE, route |-> route, keyed |-> FALSE, send |-> 0, recv |-> 0,
     snapshot |-> <<>>, rev |-> 0, negotiated |-> FALSE]

Shut == [NewSocket("local") EXCEPT !.open = FALSE]

Secure(counter, message) == [type |-> "secure", counter |-> counter, message |-> message]
Request == [type |-> "snapshot.request"]
Command == [type |-> "command"]
Reply == [type |-> "reply"]

\* The actor answers nobody between a change and its revision.
ActorFree == ~due

Live == client.open /\ task.pc # "gone"

-----------------------------------------------------------------------------
(* Snapshots and deltas.                                                    *)

Upserts(old, new) ==
    LET changed == {i \in DOMAIN new : i \notin DOMAIN old \/ old[i] # new[i]}
    IN [i \in changed |-> new[i]]

Full(new, rev) == [type |-> "session.snapshot", content |-> new, rev |-> rev]

Delta(old, new, base, rev) ==
    [type |-> "snapshot.delta", base |-> base, rev |-> rev, upsert |-> Upserts(old, new),
     remove |-> DOMAIN old \ DOMAIN new, order |-> DOMAIN new]

\* (Mutants: the revision is read too early, or the base too late.)
MessagesLate(t, new) ==
    {Full(new, t.rev)} \cup
        IF t.enabled THEN {Delta(old, new, t.rev, t.rev + 1) : old \in Range(t.previous)}
                     ELSE {}

MessagesRebased(t, new) ==
    {Full(new, t.rev + 1)} \cup
        IF t.enabled THEN {Delta(old, new, t.rev + 1, t.rev + 1) : old \in Range(t.previous)}
                     ELSE {}

\* What SnapshotDelivery makes of a snapshot: a delta on the one before it, if
\* the client accepts deltas and this one is shorter than the full snapshot.
Messages(t, new) ==
    {Full(new, t.rev + 1)} \cup
        IF t.enabled THEN {Delta(old, new, t.rev, t.rev + 1) : old \in Range(t.previous)}
                     ELSE {}

\* (Mutant: a delta leaves the base where it was.)
DeliveredKeepsBase(t, new) ==
    [t EXCEPT !.rev = @ + 1,
              !.previous = IF t.enabled /\ @ # <<>> THEN @ ELSE <<new>>]

\* SnapshotDelivery afterwards.
Delivered(t, new) == [t EXCEPT !.rev = @ + 1, !.previous = <<new>>]

\* What a delta makes of the replica, and whether it gives the announced list.
Patched(old, delta) ==
    [i \in (DOMAIN old \ delta.remove) \cup DOMAIN delta.upsert |->
       IF i \in DOMAIN delta.upsert THEN delta.upsert[i] ELSE old[i]]

Fits(c, delta) ==
    /\ c.snapshot # <<>> /\ c.rev = delta.base
    /\ DOMAIN Patched(c.snapshot[1], delta) = delta.order

-----------------------------------------------------------------------------
Init ==
    /\ content \in Contents /\ active = TRUE
    /\ sqlite = 0 /\ local = 0 /\ due = FALSE
    /\ task = Gone /\ creds = TRUE /\ client = Shut
    /\ up = <<>> /\ down = <<>> /\ sent = <<>>
    /\ links = 0 /\ writes = 0 /\ commands = 0 /\ losses = 0

(***************************************************************************)
(* The store.                                                               *)
(***************************************************************************)

\* An entity appears, changes or goes away.
Change ==
    /\ writes < MaxWrites
    /\ content' \in {c \in Contents : \E i \in Items :
                        /\ c # content
                        /\ \A j \in Items \ {i} :
                              /\ j \in DOMAIN c <=> j \in DOMAIN content
                              /\ j \in DOMAIN c => c[j] = content[j]}
    /\ writes' = writes + 1

\* A command of the actor commits.
ActorWrites ==
    /\ ActorFree /\ Change /\ due' = TRUE
    /\ UNCHANGED <<active, sqlite, local, task, creds, client, up, down, sent, links,
                   commands, losses>>

\* The actor's loop, after the command: the revision goes up.
ActorCounts ==
    /\ due /\ due' = FALSE /\ local' = local + 1
    /\ UNCHANGED <<content, active, sqlite, task, creds, client, up, down, sent, bounds>>

\* Another process writes the database.
OthersWrite ==
    /\ Change /\ sqlite' = sqlite + 1
    /\ UNCHANGED <<active, local, due, task, creds, client, up, down, sent, links,
                   commands, losses>>

\* The device is revoked, by the bridge or by the command line.
Revoke ==
    /\ active /\ active' = FALSE
    /\ \/ ActorFree /\ due' = TRUE /\ UNCHANGED sqlite
       \/ sqlite' = sqlite + 1 /\ UNCHANGED due
    /\ UNCHANGED <<content, local, task, creds, client, up, down, sent, bounds>>

(***************************************************************************)
(* The bridge's task.                                                       *)
(***************************************************************************)

\* (Mutant: the reason for closing is lost.)
ClosesPlainly(code) ==
    /\ down' = Append(down, [type |-> "close", code |-> 1000])
    /\ task' = Gone

\* close_socket: the frame follows what was sent before it. The relay's own
\* task sees the end of its local socket and tells the relay to close.
Closes(code) ==
    /\ down' = Append(down, [type |-> "close",
                             code |-> IF client.route = "cloud" THEN 1000 ELSE code])
    /\ task' = Gone

Sends(t, message) ==
    /\ down' = Append(down, Secure(t.send, message))
    /\ task' = [t EXCEPT !.send = @ + 1]

\* receive_authentication, authenticate: the device is touched, which is a
\* change of the store as well.
Authenticate ==
    /\ Live /\ task.pc = "auth" /\ up # <<>> /\ ActorFree
    /\ up' = Tail(up)
    /\ IF Head(up).type # "auth" \/ ~active
       THEN Closes(1008) /\ UNCHANGED due
       ELSE /\ down' = Append(down, [type |-> "auth.ok"])
            /\ task' = [task EXCEPT !.pc = "sqlite"]
            /\ due' = TRUE
    /\ UNCHANGED <<content, active, sqlite, local, creds, client, sent, bounds>>

\* data_version, in the actor.
ReadSqlite ==
    /\ Live /\ task.pc = "sqlite" /\ ActorFree
    /\ task' = [task EXCEPT !.pc = "revision", !.sql = sqlite]
    /\ UNCHANGED <<store, creds, client, up, down, sent, bounds>>

\* (Mutant: only this bridge's own changes count as a new version.)
ReadRevisionLocal ==
    /\ Live /\ task.pc = "revision"
    /\ LET version == <<local>>
       IN task' = IF version = task.seen THEN [task EXCEPT !.pc = "loop", !.sql = 0]
                  ELSE [task EXCEPT !.pc = "snapshot", !.sql = 0, !.seen = version]
    /\ UNCHANGED <<store, creds, client, up, down, sent, bounds>>

\* data_version, back in the task: the revision is read here, and a new version
\* is followed by a snapshot.
ReadRevision ==
    /\ Live /\ task.pc = "revision"
    /\ LET version == <<task.sql, local>>
       IN task' = IF version = task.seen THEN [task EXCEPT !.pc = "loop", !.sql = 0]
                  ELSE [task EXCEPT !.pc = "snapshot", !.sql = 0, !.seen = version]
    /\ UNCHANGED <<store, creds, client, up, down, sent, bounds>>

\* send_snapshot: the store builds it for an active device only.
SendSnapshot ==
    /\ Live /\ task.pc = "snapshot" /\ ActorFree
    /\ IF active
       THEN /\ \E message \in Messages(task, content) :
                  Sends([Delivered(task, content) EXCEPT !.pc = "loop"], message)
            /\ sent' = Append(sent, content)
       ELSE Closes(1008) /\ UNCHANGED sent
    /\ UNCHANGED <<store, creds, client, up, bounds>>

\* serve: two seconds have passed, or the store announced a change.
Poll ==
    /\ Live /\ task.pc = "loop" /\ ActorFree
    /\ IF active THEN task' = [task EXCEPT !.pc = "sqlite"] /\ UNCHANGED down
                 ELSE Closes(1008)
    /\ UNCHANGED <<store, creds, client, up, sent, bounds>>

\* handle_secure_message, up to the command's dispatch.
Receive ==
    /\ Live /\ task.pc = "loop" /\ up # <<>> /\ ActorFree
    /\ up' = Tail(up)
    /\ LET frame == Head(up)
       IN IF frame.type # "secure" \/ frame.counter # task.recv \/ ~active
          THEN Closes(1008)
          ELSE /\ task' = IF frame.message = Request
                          THEN [task EXCEPT !.pc = "snapshot", !.recv = @ + 1,
                                            !.enabled = TRUE, !.previous = <<>>]
                          ELSE [task EXCEPT !.pc = "dispatch"]
               /\ UNCHANGED down
    /\ UNCHANGED <<store, creds, client, sent, bounds>>

\* (Mutant: an answered command does not advance the counter.)
AnswerUncounted ==
    /\ Live /\ task.pc = "dispatch"
    /\ Sends([task EXCEPT !.pc = "loop"], Reply)
    /\ \/ ActorFree /\ Change /\ due' = TRUE
       \/ UNCHANGED <<content, writes, due>>
    /\ UNCHANGED <<active, sqlite, local, creds, client, up, sent, links, commands, losses>>

\* handle_secure_message: an outcome with an answer, or an error other than an
\* invalid command. The command may have written the store.
Answer ==
    /\ Live /\ task.pc = "dispatch"
    /\ Sends([task EXCEPT !.pc = "loop", !.recv = @ + 1], Reply)
    /\ \/ ActorFree /\ Change /\ due' = TRUE
       \/ UNCHANGED <<content, writes, due>>
    /\ UNCHANGED <<active, sqlite, local, creds, client, up, sent, links, commands, losses>>

\* handle_secure_message: DispatchResult::Snapshot.
AnswerSnapshot ==
    /\ Live /\ task.pc = "dispatch" /\ ActorFree
    /\ task' = [task EXCEPT !.pc = "snapshot", !.recv = @ + 1]
    /\ \/ Change /\ due' = TRUE
       \/ UNCHANGED <<content, writes, due>>
    /\ UNCHANGED <<active, sqlite, local, creds, client, up, down, sent, links, commands,
                   losses>>

\* send_invalid_command: receive_counter stays as it is.
AnswerInvalid ==
    /\ Invalids /\ Live /\ task.pc = "dispatch"
    /\ Sends([task EXCEPT !.pc = "loop"], Reply)
    /\ UNCHANGED <<store, creds, client, up, sent, bounds>>

(***************************************************************************)
(* The client.                                                              *)
(***************************************************************************)

\* connect and onopen.
Connect ==
    /\ creds /\ ~client.open /\ links < MaxLinks
    /\ links' = links + 1
    /\ \E route \in Routes : client' = NewSocket(route)
    /\ task' = Fresh /\ up' = <<[type |-> "auth"]>> /\ down' = <<>> /\ sent' = <<>>
    /\ UNCHANGED <<store, creds, writes, commands, losses>>

\* hostSend.
Uploads(c, message) ==
    /\ up' = Append(up, Secure(c.send, message))
    /\ client' = [c EXCEPT !.send = @ + 1]

SendCommand ==
    /\ client.open /\ client.keyed /\ commands < MaxCommands
    /\ commands' = commands + 1
    /\ Uploads(client, Command)
    /\ UNCHANGED <<store, task, creds, down, sent, links, writes, losses>>

\* The socket is closed: onclose removes the credentials on 1008 and nothing
\* else. The bridge's task ends with its socket.
Leave(code) ==
    /\ client' = [Shut EXCEPT !.route = client.route] /\ task' = Gone
    /\ creds' = (creds /\ code # 1008)
    /\ up' = <<>> /\ down' = <<>> /\ sent' = <<>>

OnClose ==
    /\ client.open /\ down # <<>> /\ Head(down).type = "close"
    /\ Leave(Head(down).code)
    /\ UNCHANGED <<store, bounds>>

OnAuthenticated ==
    /\ client.open /\ down # <<>> /\ Head(down).type = "auth.ok"
    /\ client' = [client EXCEPT !.keyed = TRUE]
    /\ down' = Tail(down)
    /\ UNCHANGED <<store, task, creds, up, sent, bounds>>

\* SnapshotReplica.receive on a full snapshot. The first one negotiates deltas.
Replaced(c, message) ==
    [c EXCEPT !.recv = @ + 1, !.snapshot = <<message.content>>, !.rev = message.rev,
              !.negotiated = TRUE]

\* (Mutant: what the delta removes stays in the replica.)
UpdatedKeepsRemoved(c, message) ==
    [c EXCEPT !.recv = @ + 1, !.snapshot = <<message.upsert @@ @[1]>>, !.rev = message.rev]

\* ... and on a delta that fits.
Updated(c, message) ==
    [c EXCEPT !.recv = @ + 1, !.snapshot = <<Patched(@[1], message)>>, !.rev = message.rev]

\* onmessage: a secure frame. Without keys it is ignored; a replay or a gap
\* closes the socket; a delta that does not fit asks for a full snapshot.
OnFrame ==
    /\ client.open /\ down # <<>> /\ Head(down).type = "secure"
    /\ LET frame == Head(down)
           message == frame.message
       IN IF client.keyed /\ frame.counter # client.recv
          THEN Leave(1005)
          ELSE /\ down' = Tail(down)
               /\ UNCHANGED <<task, creds, sent>>
               /\ \/ ~client.keyed /\ UNCHANGED <<client, up>>
                  \/ /\ client.keyed /\ message = Reply
                     /\ client' = [client EXCEPT !.recv = @ + 1]
                     /\ UNCHANGED up
                  \/ /\ client.keyed /\ message.type = "session.snapshot"
                     /\ IF client.negotiated
                        THEN client' = Replaced(client, message) /\ UNCHANGED up
                        ELSE Uploads(Replaced(client, message), Request)
                  \/ /\ client.keyed /\ message.type = "snapshot.delta"
                     /\ IF Fits(client, message)
                        THEN client' = Updated(client, message) /\ UNCHANGED up
                        ELSE Uploads([client EXCEPT !.recv = @ + 1], Request)
    /\ UNCHANGED <<store, bounds>>

(***************************************************************************)
(* The link.                                                                *)
(***************************************************************************)

\* The connection breaks.
Break ==
    /\ client.open /\ links < MaxLinks
    /\ Leave(1006)
    /\ UNCHANGED <<store, bounds>>

\* The relay has no socket of the Mac, or of the device, to pass a frame to.
LoseFrame ==
    /\ client.open /\ client.route = "cloud" /\ losses < MaxLosses
    /\ losses' = losses + 1
    /\ \/ \E i \in DOMAIN up : up' = RemoveAt(up, i) /\ UNCHANGED down
       \/ \E i \in DOMAIN down : down' = RemoveAt(down, i) /\ UNCHANGED up
    /\ UNCHANGED <<store, task, creds, client, sent, links, writes, commands>>

\* The Mac's side of the relay is replaced: its local sockets are gone, and the
\* device's next frame opens a new one.
RelayReplaced ==
    /\ Live /\ client.route = "cloud" /\ losses < MaxLosses
    /\ losses' = losses + 1
    /\ task' = Fresh
    /\ UNCHANGED <<store, creds, client, up, down, sent, links, writes, commands>>

StoreNext == ActorWrites \/ ActorCounts \/ OthersWrite \/ Revoke

TaskNext ==
    \/ Authenticate \/ ReadSqlite \/ ReadRevision \/ SendSnapshot \/ Poll \/ Receive
    \/ Answer \/ AnswerSnapshot \/ AnswerInvalid

ClientNext == Connect \/ SendCommand \/ OnClose \/ OnAuthenticated \/ OnFrame

LinkNext == Break \/ LoseFrame \/ RelayReplaced

Next == StoreNext \/ TaskNext \/ ClientNext \/ LinkNext

Spec == Init /\ [][Next]_vars

\* The actor and the task are scheduled, the client handles what arrives and
\* reconnects; the steps of one disjunction belong to different points of the task,
\* or of what the client was sent. select! picks any of its ready arms, and the
\* poll's arm is ready only every two seconds or after a change, so that a waiting
\* frame is taken.
FairSpec ==
    /\ Spec
    /\ WF_vars(ActorCounts)
    /\ WF_vars(Authenticate \/ ReadRevision \/ Answer \/ AnswerSnapshot \/ AnswerInvalid)
    /\ SF_vars(ReadSqlite \/ SendSnapshot) /\ SF_vars(Poll) /\ SF_vars(Receive)
    /\ WF_vars(Connect) /\ WF_vars(OnClose \/ OnAuthenticated \/ OnFrame)

-----------------------------------------------------------------------------
(* Properties.                                                              *)

\* The task's and the client's counters, the frames between them and the
\* replica have their types.
TypeOK ==
    /\ content \in Contents /\ active \in BOOLEAN /\ due \in BOOLEAN
    /\ sqlite \in Nat /\ local \in Nat
    /\ task.pc \in {"gone", "auth", "sqlite", "revision", "snapshot", "loop", "dispatch"}
    /\ task.recv \in Nat /\ task.send \in Nat /\ task.rev \in Nat
    /\ Len(task.previous) <= 1 /\ Range(task.previous) \subseteq Contents
    /\ task.pc \in {"gone", "auth"} => task.rev = 0
    /\ creds \in BOOLEAN
    /\ client.send \in Nat /\ client.recv \in Nat /\ client.rev \in Nat
    /\ Range(client.snapshot) \subseteq Contents
    /\ client.snapshot = <<>> <=> client.rev = 0
    /\ client.negotiated => client.keyed
    /\ \A i \in DOMAIN up : up[i].type \in {"auth", "secure"}
    /\ \A i \in DOMAIN down : down[i].type \in {"auth.ok", "secure", "close"}
    /\ links <= MaxLinks /\ writes <= MaxWrites /\ commands <= MaxCommands
    /\ losses <= MaxLosses

\* What the client shows is exactly a snapshot that the bridge took, the one of
\* its revision, and never a mixture of several (snapshotReplica.ts:27-41 over
\* snapshot_sync.rs:17-34), whatever was lost on the way.
ReplicaIsSnapshot ==
    client.snapshot # <<>> => client.rev \in DOMAIN sent /\ client.snapshot[1] = sent[client.rev]

\* A delta that arrives in its turn fits the replica: the check of baseRevision
\* (snapshotReplica.ts:24) is never what saves the client, because the frames'
\* counters stop it before.
DeltaFits ==
    \A frame \in {down[i] : i \in DOMAIN down \cap {1}} :
        client.keyed /\ frame.type = "secure" /\ frame.counter = client.recv
        /\ frame.message.type = "snapshot.delta" => Fits(client, frame.message)

\* Together: the replica is one that the bridge sent, and no check but that of
\* the counters is needed to keep it so.
ReplicaFollows == ReplicaIsSnapshot /\ DeltaFits

\* Credentials are only removed when the device was revoked. The page says so
\* itself when it removes them (useBridge.ts:654).
RemovedIsRevoked == ~creds => ~active

\* The client has used up its links, and no further one is made.
OutOfLinks == links = MaxLinks /\ ~client.open

\* The client catches up: when the store is left alone, an active device ends
\* with a replica that equals the store's contents, whoever wrote them last and
\* whenever the change came between the version and the snapshot; a frame that
\* the relay lost may keep it waiting (useBridge.ts:621).
CatchesUp ==
    <>[](creds /\ active /\ losses = 0 /\ ~OutOfLinks => client.snapshot = <<content>>)

\* A revoked device hears of it on its next link that is not over the relay,
\* which tells it nothing, and removes its credentials.
RevokedIsTold ==
    ~active ~> (~creds \/ losses > 0 \/ (OutOfLinks /\ client.route = "cloud"))
=============================================================================
