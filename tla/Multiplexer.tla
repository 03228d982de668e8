----------------------------- MODULE Multiplexer -----------------------------
(***************************************************************************)
(* The Rust bridge's end of the road through the cloud (CloudRelay of      *)
(* cloud.rs): one task reads the relay's socket and writes it, and one     *)
(* more for each device's connection reads and writes a local socket of    *)
(* the bridge.  They hand frames to one another over queues of bounded     *)
(* length and wait where a queue is full, which the TypeScript client      *)
(* (module CloudRelay) never does.                                         *)
(*                                                                         *)
(* The links to the relay are numbered as they are made; a pair <<g, c>>   *)
(* is the local connection that link g opened for connection c.  The room  *)
(* sends each connection's frames in order: "open", the numbers from 1,    *)
(* "close".  The sockets' own buffers have room for every frame.           *)
(***************************************************************************)
EXTENDS Integers, Sequences

CONSTANTS
  Tunnels,    \* connection ids of the devices' sockets
  InRoom,     \* the length of a local connection's queue (64)
  OutRoom,    \* the length of the queue to the relay (256)
  MaxFrames,  \* bound: frames of a device
  MaxSaid,    \* bound: frames of the bridge on a local connection of link g
  MaxLinks    \* bound: links to the relay

ASSUME QueuesHaveRoom == {InRoom, OutRoom} \subseteq Nat \ {0}
ASSUME MuxBounds == {MaxFrames, MaxLinks} \subseteq Nat /\ MaxSaid \in [1..MaxLinks -> Nat]

VARIABLES
  loop,       \* the main task: rests, selects, opens, reopens, hands, ended
  inHand,     \* the connection of the frame it holds, if any
  links,      \* the links made so far
  stopping,   \* the service's stop was announced
  device,     \* a device's socket in the room: idle, open or gone
  joined,     \* the link it came with; 0: none
  asked,      \* the frames the device sent
  passed,     \* those of them the main task took, or a broken link lost
  stream,     \* of its stream: idle, new (open is to be read), on, off
  locals,     \* connections with a sender
  outgoing,   \* the queue to the relay
  task,       \* of <<g, c>>: none, runs, gives (a frame), parts, done
  inbound,    \* its queue
  bridge,     \* the bridge's end of its socket is open
  start,      \* the device's frames before the first it was handed (history)
  got,        \* the frames the bridge got of it (history)
  said,       \* the frames the bridge put in its socket
  read,       \* those of them the task read
  heard       \* those of them the device got (history)

mainVars == <<loop, inHand, links, stopping>>
roomSide == <<device, joined, asked, stream>>
taskSide == <<task, inbound, bridge, start, got, said, read>>
muxVars == <<mainVars, roomSide, passed, locals, outgoing, taskSide, heard>>

Ends == (1..MaxLinks) \X Tunnels
NotNow == 0   \* the frame number of a close
OutFrame == [conn : Tunnels, frame : Nat]

MuxTypeOK ==
  /\ loop \in {"rests", "selects", "opens", "reopens", "hands", "ended"}
  /\ inHand \in SUBSET Tunnels
  /\ links \in 0..MaxLinks /\ stopping \in BOOLEAN
  /\ device \in [Tunnels -> {"idle", "open", "gone"}]
  /\ joined \in [Tunnels -> 0..MaxLinks]
  /\ asked \in [Tunnels -> 0..MaxFrames] /\ passed \in [Tunnels -> 0..MaxFrames]
  /\ stream \in [Tunnels -> {"idle", "new", "on", "off"}]
  /\ locals \in SUBSET Tunnels
  /\ outgoing \in Seq(OutFrame) /\ Len(outgoing) <= OutRoom
  /\ task \in [Ends -> {"none", "runs", "gives", "parts", "done"}]
  /\ inbound \in [Ends -> Seq(1..MaxFrames)] /\ \A t \in Ends : Len(inbound[t]) <= InRoom
  /\ bridge \in [Ends -> BOOLEAN]
  /\ start \in [Ends -> 0..MaxFrames]
  /\ got \in [Ends -> Seq(1..MaxFrames)]
  /\ said \in [Ends -> Nat] /\ read \in [Ends -> Nat]
  /\ heard \in [Ends -> Seq(Nat)]

MuxInit ==
  /\ loop = "rests" /\ inHand = {} /\ links = 0 /\ stopping = FALSE
  /\ device = [c \in Tunnels |-> "idle"] /\ stream = [c \in Tunnels |-> "idle"]
  /\ joined = [c \in Tunnels |-> 0]
  /\ asked = [c \in Tunnels |-> 0] /\ passed = [c \in Tunnels |-> 0]
  /\ locals = {} /\ outgoing = <<>>
  /\ task = [t \in Ends |-> "none"]
  /\ inbound = [t \in Ends |-> <<>>]
  /\ bridge = [t \in Ends |-> TRUE]
  /\ start = [t \in Ends |-> 0] /\ got = [t \in Ends |-> <<>>]
  /\ said = [t \in Ends |-> 0] /\ read = [t \in Ends |-> 0]
  /\ heard = [t \in Ends |-> <<>>]

\* connect_once has a link.
Linked == loop \in {"selects", "opens", "reopens", "hands"}

\* The queue to the relay that a local connection of link g was given has a
\* receiver; and so has the local connection its sender.
Attached(g) == Linked /\ g = links
Fed(t) == Attached(t[1]) /\ t[2] \in locals

-----------------------------------------------------------------------------
(* The devices, and the bridge's ends of the local sockets.                *)

DeviceJoins(c) ==
  /\ Linked /\ device[c] = "idle"
  /\ device' = [device EXCEPT ![c] = "open"]
  /\ joined' = [joined EXCEPT ![c] = links]
  /\ stream' = [stream EXCEPT ![c] = "new"]
  /\ UNCHANGED <<mainVars, asked, passed, locals, outgoing, taskSide, heard>>

\* Without a socket of the Mac the room drops the frame.
DeviceSpeaks(c) ==
  /\ device[c] = "open" /\ asked[c] < MaxFrames
  /\ asked' = [asked EXCEPT ![c] = @ + 1]
  /\ passed' = IF Linked THEN passed ELSE [passed EXCEPT ![c] = asked[c] + 1]
  /\ UNCHANGED <<mainVars, device, joined, stream, locals, outgoing, taskSide, heard>>

DeviceParts(c) ==
  /\ device[c] = "open"
  /\ device' = [device EXCEPT ![c] = "gone"]
  /\ stream' = IF Linked THEN stream ELSE [stream EXCEPT ![c] = "off"]
  /\ UNCHANGED <<mainVars, joined, asked, passed, locals, outgoing, taskSide, heard>>

\* websocket.rs: an answer, or a snapshot that a change of the store caused.
BridgeSays(t) ==
  /\ task[t] \notin {"none", "done"} /\ bridge[t] /\ said[t] < MaxSaid[t[1]]
  /\ said' = [said EXCEPT ![t] = @ + 1]
  /\ UNCHANGED <<mainVars, roomSide, passed, locals, outgoing, task, inbound, bridge, start,
                 got, read, heard>>

\* A bad frame, a device that was revoked, an error of the store.
BridgeShuts(t) ==
  /\ task[t] \notin {"none", "done"} /\ bridge[t]
  /\ bridge' = [bridge EXCEPT ![t] = FALSE]
  /\ UNCHANGED <<mainVars, roomSide, passed, locals, outgoing, task, inbound, start,
                 got, said, read, heard>>

-----------------------------------------------------------------------------
(* connect_once.                                                           *)

Connects ==
  /\ loop = "rests" /\ ~stopping /\ links < MaxLinks
  /\ loop' = "selects" /\ links' = links + 1
  /\ UNCHANGED <<inHand, stopping, roomSide, passed, locals, outgoing, taskSide, heard>>

TakesOpen(c) ==
  /\ loop = "selects" /\ stream[c] = "new"
  /\ stream' = [stream EXCEPT ![c] = "on"]
  /\ loop' = "opens" /\ inHand' = {c}
  /\ UNCHANGED <<links, stopping, device, joined, asked, passed, locals, outgoing, taskSide,
                 heard>>

\* A frame of a connection that has no sender opens a local one for it.
TakesData(c) ==
  /\ loop = "selects" /\ stream[c] = "on" /\ passed[c] < asked[c]
  /\ passed' = [passed EXCEPT ![c] = @ + 1]
  /\ loop' = IF c \in locals THEN "hands" ELSE "reopens"
  /\ inHand' = {c}
  /\ UNCHANGED <<links, stopping, roomSide, locals, outgoing, taskSide, heard>>

TakesClose(c) ==
  /\ loop = "selects" /\ stream[c] = "on" /\ passed[c] = asked[c] /\ device[c] = "gone"
  /\ stream' = [stream EXCEPT ![c] = "off"]
  /\ locals' = locals \ {c}
  /\ UNCHANGED <<mainVars, device, joined, asked, passed, outgoing, taskSide, heard>>

\* open_local answers, and its task is spawned.
LocalIsOpen(c) ==
  /\ loop \in {"opens", "reopens"} /\ c \in inHand
  /\ locals' = locals \union {c}
  /\ task' = [task EXCEPT ![<<links, c>>] = "runs"]
  /\ start' = [start EXCEPT ![<<links, c>>] = IF loop = "opens" THEN passed[c]
                                              ELSE passed[c] - 1]
  /\ IF loop = "opens" THEN loop' = "selects" /\ inHand' = {}
     ELSE loop' = "hands" /\ UNCHANGED inHand
  /\ UNCHANGED <<links, stopping, roomSide, passed, outgoing, inbound, bridge, got, said,
                 read, heard>>

\* (Mutant: the queue of a task that is done still counts as full.)
HandsForEver(c) ==
  /\ loop = "hands" /\ c \in inHand
  /\ LET t == <<links, c>> IN
     /\ Len(inbound[t]) < InRoom
     /\ inbound' = [inbound EXCEPT ![t] = Append(@, passed[c])]
  /\ loop' = "selects" /\ inHand' = {}
  /\ UNCHANGED <<links, stopping, roomSide, passed, locals, outgoing, task, bridge, start,
                 got, said, read, heard>>

\* sender.send: waits for room, unless the task is done; the main task looks
\* at nothing else meanwhile.
Hands(c) ==
  /\ loop = "hands" /\ c \in inHand
  /\ LET t == <<links, c>> IN
     \/ task[t] = "done" /\ UNCHANGED inbound
     \/ /\ task[t] # "done" /\ Len(inbound[t]) < InRoom
        /\ inbound' = [inbound EXCEPT ![t] = Append(@, passed[c])]
  /\ loop' = "selects" /\ inHand' = {}
  /\ UNCHANGED <<links, stopping, roomSide, passed, locals, outgoing, task, bridge, start,
                 got, said, read, heard>>

\* A frame of the queue goes to the room, and from there to a device whose
\* socket is open.
Writes ==
  /\ loop = "selects" /\ outgoing # <<>>
  /\ outgoing' = Tail(outgoing)
  /\ LET f == Head(outgoing) IN
     IF device[f.conn] # "open" THEN UNCHANGED <<device, heard>>
     ELSE IF f.frame = NotNow
     THEN device' = [device EXCEPT ![f.conn] = "gone"] /\ UNCHANGED heard
     ELSE heard' = [heard EXCEPT ![<<links, f.conn>>] = Append(@, f.frame)] /\ UNCHANGED device
  /\ UNCHANGED <<mainVars, joined, asked, passed, stream, locals, taskSide>>

\* (Mutant: the queue to the relay outlives the link.)
LeavesQueue(aborted) ==
  /\ inHand' = {} /\ locals' = {} /\ outgoing' = outgoing
  /\ passed' = asked
  /\ \E staying \in SUBSET {c \in Tunnels : device[c] = "open"} :
       /\ device' = [c \in Tunnels |-> IF device[c] = "open" /\ c \notin staying
                                       THEN "gone" ELSE device[c]]
       /\ stream' = [c \in Tunnels |-> IF c \in staying THEN "on"
                                      ELSE IF device[c] = "idle" THEN "idle" ELSE "off"]
  /\ LET cut == {t \in Ends : aborted /\ t[1] = links /\ task[t] # "none"} IN
     /\ task' = [t \in Ends |-> IF t \in cut THEN "done" ELSE task[t]]
     /\ inbound' = [t \in Ends |-> IF t \in cut THEN <<>> ELSE inbound[t]]
  /\ UNCHANGED <<links, joined, asked, bridge, start, got, said, read, heard>>

\* What the end of a link leaves: some devices keep their sockets, and what
\* was under way is lost; the tasks are aborted after a break of the loop,
\* and go on by themselves after an error.
Leaves(aborted) ==
  /\ inHand' = {} /\ locals' = {} /\ outgoing' = <<>>
  /\ passed' = asked
  /\ \E staying \in SUBSET {c \in Tunnels : device[c] = "open"} :
       /\ device' = [c \in Tunnels |-> IF device[c] = "open" /\ c \notin staying
                                       THEN "gone" ELSE device[c]]
       /\ stream' = [c \in Tunnels |-> IF c \in staying THEN "on"
                                      ELSE IF device[c] = "idle" THEN "idle" ELSE "off"]
  /\ LET cut == {t \in Ends : aborted /\ t[1] = links /\ task[t] # "none"} IN
     /\ task' = [t \in Ends |-> IF t \in cut THEN "done" ELSE task[t]]
     /\ inbound' = [t \in Ends |-> IF t \in cut THEN <<>> ELSE inbound[t]]
  /\ UNCHANGED <<links, joined, asked, bridge, start, got, said, read, heard>>

\* The relay ends the link or it breaks, or open_local fails.
Breaks ==
  /\ loop \in {"selects", "opens", "reopens"}
  /\ \E aborted \in BOOLEAN : (loop # "selects" => ~aborted) /\ Leaves(aborted)
  /\ loop' = "rests"
  /\ UNCHANGED stopping

StopComes ==
  /\ ~stopping
  /\ stopping' = TRUE
  /\ UNCHANGED <<loop, inHand, links, roomSide, passed, locals, outgoing, taskSide, heard>>

\* The stop is seen between two frames and between two links.
StopIsSeen ==
  /\ stopping
  /\ \/ loop = "selects" /\ Leaves(TRUE)
     \/ loop = "rests" /\ UNCHANGED <<inHand, links, roomSide, passed, locals, outgoing,
                                      taskSide, heard>>
  /\ loop' = "ended"
  /\ UNCHANGED stopping

-----------------------------------------------------------------------------
(* local_task.                                                             *)

\* A frame goes to the bridge; a socket that the bridge has closed may still
\* take it, and it is lost.
Delivers(t) ==
  /\ task[t] = "runs" /\ inbound[t] # <<>>
  /\ inbound' = [inbound EXCEPT ![t] = Tail(@)]
  /\ IF bridge[t]
     THEN got' = [got EXCEPT ![t] = Append(@, Head(inbound[t]))] /\ UNCHANGED task
     ELSE UNCHANGED got /\ (UNCHANGED task \/ task' = [task EXCEPT ![t] = "parts"])
  /\ UNCHANGED <<mainVars, roomSide, passed, locals, outgoing, bridge, start, said, read,
                 heard>>

Reads(t) ==
  /\ task[t] = "runs" /\ read[t] < said[t]
  /\ read' = [read EXCEPT ![t] = @ + 1]
  /\ task' = [task EXCEPT ![t] = "gives"]
  /\ UNCHANGED <<mainVars, roomSide, passed, locals, outgoing, inbound, bridge, start, got,
                 said, heard>>

\* The sender is gone and the queue empty, or the bridge closed the socket.
Turns(t) ==
  /\ task[t] = "runs"
  /\ \/ inbound[t] = <<>> /\ ~Fed(t)
     \/ ~bridge[t] /\ read[t] = said[t]
  /\ task' = [task EXCEPT ![t] = "parts"]
  /\ UNCHANGED <<mainVars, roomSide, passed, locals, outgoing, inbound, bridge, start, got,
                 said, read, heard>>

\* relay.send waits for room, or fails when the link is gone.
RelaySend(t, n) ==
  \/ /\ Attached(t[1]) /\ Len(outgoing) < OutRoom
     /\ outgoing' = Append(outgoing, [conn |-> t[2], frame |-> n])
  \/ ~Attached(t[1]) /\ UNCHANGED outgoing

Gives(t) ==
  /\ task[t] = "gives" /\ RelaySend(t, read[t])
  /\ task' = [task EXCEPT ![t] = IF Attached(t[1]) THEN "runs" ELSE "parts"]
  /\ UNCHANGED <<mainVars, roomSide, passed, locals, inbound, bridge, start, got, said, read,
                 heard>>

\* The last of the task: the close, and its queue is dropped.
SaysClose(t) ==
  /\ task[t] = "parts" /\ RelaySend(t, NotNow)
  /\ task' = [task EXCEPT ![t] = "done"]
  /\ inbound' = [inbound EXCEPT ![t] = <<>>]
  /\ UNCHANGED <<mainVars, roomSide, passed, locals, bridge, start, got, said, read, heard>>

-----------------------------------------------------------------------------

MainMoves ==
  \/ \E c \in Tunnels : TakesOpen(c) \/ TakesData(c) \/ TakesClose(c) \/ LocalIsOpen(c)
                       \/ Hands(c)
  \/ Writes
TaskMoves(t) == Delivers(t) \/ Reads(t) \/ Turns(t) \/ Gives(t) \/ SaysClose(t)

MuxNext ==
  \/ \E c \in Tunnels : DeviceJoins(c) \/ DeviceSpeaks(c) \/ DeviceParts(c)
  \/ \E t \in Ends : BridgeSays(t) \/ BridgeShuts(t) \/ TaskMoves(t)
  \/ MainMoves \/ Connects \/ Breaks \/ StopComes \/ StopIsSeen

MuxSpec == MuxInit /\ [][MuxNext]_muxVars

\* The runtime goes on with every task that may; open_local answers; and a
\* loop that has nothing else to do sees the stop.
MuxFairness ==
  /\ WF_muxVars(MainMoves) /\ WF_muxVars(StopIsSeen)
  /\ \A t \in Ends : WF_muxVars(TaskMoves(t))

FairMux == MuxSpec /\ MuxFairness

-----------------------------------------------------------------------------
(* Properties.                                                             *)

\* Whatever waits, breaks and ends, the bridge gets a connection's frames one
\* after the other from the first that came over the link, from the device's
\* own first if it came with that link, and the device gets the bridge's in
\* their order with none left out (cloud.rs:641, 863).
RelayedInOrder ==
  /\ MuxTypeOK
  /\ \A t \in Ends :
       /\ \A i \in DOMAIN got[t] : got[t][i] = start[t] + i
       /\ joined[t[2]] = t[1] => start[t] = 0
       /\ \A i \in DOMAIN heard[t] : heard[t][i] = i

\* The main task waits for room in a queue whose own task waits for room in
\* the queue that the main task empties.
Circle ==
  /\ loop = "hands" /\ Len(outgoing) = OutRoom
  /\ \E c \in inHand : /\ Len(inbound[<<links, c>>]) = InRoom
                       /\ task[<<links, c>>] \in {"gives", "parts"}

\* A device that came with this link has sent what the bridge, whose end is
\* open, has not got.
Waits(c) ==
  LET t == <<links, c>> IN
  /\ Linked /\ joined[c] = links /\ device[c] = "open"
  /\ bridge[t] /\ Len(got[t]) < asked[c]

\* Only that circle holds the multiplexer up: outside of it the frames of
\* every device come to the bridge, whatever the other devices and ends do,
\* and the stop is seen (cloud.rs:599, 676).
OnlyTheCircleHolds ==
  /\ \A c \in Tunnels : Waits(c) ~> (~Waits(c) \/ Circle)
  /\ stopping ~> (loop = "ended" \/ Circle)

=============================================================================
