------------------------------ MODULE CloudRelay ------------------------------
(***************************************************************************)
(* The road through the cloud: devices' sockets end in the installation's  *)
(* room (relay-room.ts), which passes their frames over the one socket of  *)
(* the Mac to the relay client (cloud-relay-client.ts), and that opens a   *)
(* local connection to the bridge for each of them (secure-socket.ts).     *)
(*                                                                         *)
(* The Mac's sockets are numbered as they are made.  Each has two queues;  *)
(* Shut is the end of one.    The delay of a device's own leg is part of   *)
(* the Mac's.  A device sends its proof as frame 0 and then its commands   *)
(* 1, 2, ...; of what the bridge sends only the answer to the proof is     *)
(* told apart.                                                             *)
(***************************************************************************)
EXTENDS Integers, FiniteSets, Sequences

CONSTANTS
  Conns,        \* connection ids, one for each socket a device opens
  MaxCommands,  \* bound: commands a device sends on one connection
  MaxSockets,   \* bound: sockets of the Mac
  MaxCrashes    \* bound: ends of the Mac's process without a close frame

ASSUME BoundsAreNatural == {MaxCommands, MaxSockets, MaxCrashes} \subseteq Nat

VARIABLES
  dev,         \* a device's socket: idle, open, closing, closed
  sent,        \* the last frame the device sent; -1: none
  authed,      \* devices that hold the bridge's answer to their proof
  room,        \* the Mac's sockets in the room: none, open, closing, gone
  down,        \* from the room to the Mac
  up,          \* from the Mac to the room
  life,        \* the relay client: off, on or stopped
  connecting,  \* connect() waits for the headers
  redial,       \* the reconnect timer is set
  relay,       \* the client's current socket; 0: none
  ws,          \* its sockets: unused, connecting, open, closing, closed
  local,       \* the local connections: none, opening, open, ended
  queued,        \* frames that wait for the local connection to open
  session,     \* the last frame the local connection's session took
  taken,       \* every frame a session took, in order (history)
  crashes      \* crashes so far

deviceVars == <<dev, sent, authed>>
roomVars == <<room, down, up>>
clientVars == <<life, connecting, redial, relay, ws>>
localVars == <<local, queued, session, taken>>
relayVars == <<deviceVars, roomVars, clientVars, localVars, crashes>>

Sockets == 1..MaxSockets
Fresh == -1      \* a session without a proof, and a device that sent none
Broken == -2    \* a session that closed its socket
Frames == 0..MaxCommands

Shut == [type |-> "shut"]
DownFrame == [type : {"open", "data", "close"}, conn : Conns, frame : Frames]
             \union {Shut}
UpFrame == [type : {"ok", "close"}, conn : Conns] \union {Shut}

RelayTypeOK ==
  /\ dev \in [Conns -> {"idle", "open", "closing", "closed"}]
  /\ sent \in [Conns -> Fresh..MaxCommands]
  /\ authed \subseteq Conns
  /\ room \in [Sockets -> {"none", "open", "closing", "gone"}]
  /\ \A s \in Sockets : down[s] \in Seq(DownFrame) /\ up[s] \in Seq(UpFrame)
  /\ life \in {"off", "on", "stopped"}
  /\ connecting \in BOOLEAN /\ redial \in BOOLEAN
  /\ relay \in 0..MaxSockets
  /\ ws \in [Sockets -> {"unused", "connecting", "open", "closing", "closed"}]
  /\ local \in [Conns -> {"none", "opening", "open", "ended"}]
  /\ \A c \in Conns : queued[c] \in Seq(Frames) /\ taken[c] \in Seq(Frames)
  /\ session \in [Conns -> Broken..MaxCommands]
  /\ \A c \in Conns : local[c] \in {"none", "open"} => queued[c] = <<>>
  /\ crashes \in 0..MaxCrashes

RelayInit ==
  /\ dev = [c \in Conns |-> "idle"]
  /\ sent = [c \in Conns |-> Fresh]
  /\ authed = {}
  /\ room = [s \in Sockets |-> "none"]
  /\ down = [s \in Sockets |-> <<>>] /\ up = [s \in Sockets |-> <<>>]
  /\ life = "off"
  /\ connecting = FALSE /\ redial = FALSE
  /\ relay = 0
  /\ ws = [s \in Sockets |-> "unused"]
  /\ local = [c \in Conns |-> "none"]
  /\ queued = [c \in Conns |-> <<>>]
  /\ session = [c \in Conns |-> Fresh]
  /\ taken = [c \in Conns |-> <<>>]
  /\ crashes = 0

-----------------------------------------------------------------------------
(* The room.                                                               *)

Down(type, c, n) == [type |-> type, conn |-> c, frame |-> n]

\* sendToMac: to every socket of the Mac that can still be written to.
SendToMac(frame) ==
  down' = [s \in Sockets |-> IF room[s] = "open" THEN Append(down[s], frame)
                             ELSE down[s]]

\* A device connects: without a socket of the Mac it is refused; one that
\* the room has closed may still be listed.
DeviceConnects(c) ==
  /\ dev[c] = "idle"
  /\ \/ /\ \E s \in Sockets : room[s] \in {"open", "closing"}
        /\ dev' = [dev EXCEPT ![c] = "open"]
        /\ SendToMac(Down("open", c, 0))
     \/ /\ \A s \in Sockets : room[s] # "open"
        /\ dev' = [dev EXCEPT ![c] = "closed"]
        /\ UNCHANGED down
  /\ UNCHANGED <<sent, authed, room, up, crashes>>
  /\ UNCHANGED clientVars
  /\ UNCHANGED localVars

\* The device's proof, and once that is answered its commands.
DeviceSends(c) ==
  /\ dev[c] = "open"
  /\ sent[c] < IF c \in authed THEN MaxCommands ELSE 0
  /\ sent' = [sent EXCEPT ![c] = @ + 1]
  /\ SendToMac(Down("data", c, sent[c] + 1))
  /\ UNCHANGED <<dev, authed, room, up, crashes>>
  /\ UNCHANGED clientVars
  /\ UNCHANGED localVars

\* The device closes its socket, or it breaks.
DeviceLeaves(c) ==
  /\ dev[c] = "open"
  /\ dev' = [dev EXCEPT ![c] = "closing"]
  /\ UNCHANGED <<sent, authed, crashes>>
  /\ UNCHANGED roomVars
  /\ UNCHANGED clientVars
  /\ UNCHANGED localVars

\* (Mutant: the Mac is not told.)
DeviceClosedQuietly(c) ==
  /\ dev[c] = "closing"
  /\ dev' = [dev EXCEPT ![c] = "closed"]
  /\ UNCHANGED <<sent, authed, crashes>>
  /\ UNCHANGED roomVars
  /\ UNCHANGED clientVars
  /\ UNCHANGED localVars

\* webSocketClose, webSocketError for a device's socket.
DeviceClosed(c) ==
  /\ dev[c] = "closing"
  /\ dev' = [dev EXCEPT ![c] = "closed"]
  /\ SendToMac(Down("close", c, 0))
  /\ UNCHANGED <<sent, authed, room, up, crashes>>
  /\ UNCHANGED clientVars
  /\ UNCHANGED localVars

\* The room takes the Mac's socket and closes the ones before.
AcceptMac(s) ==
  /\ room' = [t \in Sockets |-> IF t = s THEN "open"
                                ELSE IF room[t] = "open" THEN "closing" ELSE room[t]]
  /\ down' = [t \in Sockets |-> IF room[t] = "open" THEN Append(down[t], Shut)
                                ELSE down[t]]

\* webSocketMessage from the Mac, also over a socket the room has closed.
MacFrame(s) ==
  /\ room[s] \in {"open", "closing"}
  /\ up[s] # <<>> /\ Head(up[s]) # Shut
  /\ up' = [up EXCEPT ![s] = Tail(@)]
  /\ LET c == Head(up[s]).conn IN
     IF dev[c] # "open" THEN UNCHANGED <<dev, authed>>
     ELSE IF Head(up[s]).type = "close"
     THEN dev' = [dev EXCEPT ![c] = "closing"] /\ UNCHANGED authed
     ELSE authed' = authed \union {c} /\ UNCHANGED dev
  /\ UNCHANGED <<sent, room, down, crashes>>
  /\ UNCHANGED clientVars
  /\ UNCHANGED localVars

\* (Mutant: the end of the Mac's socket is not passed on.)
CloseDevicesLater == UNCHANGED dev

CloseDevices ==
  dev' = [c \in Conns |-> IF dev[c] = "open" THEN "closing" ELSE dev[c]]

\* webSocketClose for a socket of the Mac, whether or not another is open:
\* every device's socket is closed.
MacClosed(s) ==
  /\ room[s] \in {"open", "closing"}
  /\ up[s] # <<>> /\ Head(up[s]) = Shut
  /\ room' = [room EXCEPT ![s] = "gone"]
  /\ up' = [up EXCEPT ![s] = <<>>]
  /\ down' = [down EXCEPT ![s] = Append(@, Shut)]
  /\ CloseDevices
  /\ UNCHANGED <<sent, authed, crashes>>
  /\ UNCHANGED clientVars
  /\ UNCHANGED localVars

\* The Mac's end is gone without a close frame: the code the room is given
\* is one that close() may refuse, and an error of the Mac's socket is
\* ignored; either way the devices may keep their sockets.
MacLost(s) ==
  /\ room[s] \in {"open", "closing"}
  /\ ws[s] = "closed" /\ up[s] = <<>>
  /\ room' = [room EXCEPT ![s] = "gone"]
  /\ CloseDevices \/ UNCHANGED dev
  /\ UNCHANGED <<sent, authed, down, up, crashes>>
  /\ UNCHANGED clientVars
  /\ UNCHANGED localVars

-----------------------------------------------------------------------------
(* The bridge's end of a local connection.                                 *)

\* (Mutant: the counter may jump, and the proof be left out.)
TakesLoosely(n, frames, k) ==
  /\ \A i \in 1..k : frames[i] > n
  /\ k < Len(frames) => frames[k + 1] <= n

\* SecureSocket.receive: a session that took frame n takes the first k of
\* these: the proof first, then each counter in turn; any other frame closes
\* the socket.
Takes(n, frames, k) ==
  /\ \A i \in 1..k : frames[i] = n + i
  /\ k < Len(frames) => frames[k + 1] # n + k + 1

\* An open local connection c hands frames to its session; the answer to
\* the proof goes up when the relay's socket is open.
HandOver(c, frames) ==
  LET n == session[c] IN
  \E k \in 0..Len(frames) :
    /\ Takes(n, frames, k)
    /\ session' = [session EXCEPT ![c] = IF k = Len(frames) THEN n + k ELSE Broken]
    /\ local' = [local EXCEPT ![c] = IF k = Len(frames) THEN "open" ELSE "ended"]
    /\ taken' = [taken EXCEPT ![c] = @ \o SubSeq(frames, 1, k)]
    /\ up' = IF n = Fresh /\ k > 0 /\ relay # 0
             THEN [up EXCEPT ![relay] = Append(@, [type |-> "ok", conn |-> c])]
             ELSE up

-----------------------------------------------------------------------------
(* The relay client.                                                       *)

CloseLocals ==
  /\ local' = [c \in Conns |-> "none"]
  /\ queued' = [c \in Conns |-> <<>>]
  /\ session' = [c \in Conns |-> Fresh]
  /\ UNCHANGED taken

\* (Mutant: a timer is set beside the one that is set, and after the stop.)
ScheduleReconnectAlways == redial' = TRUE

ScheduleReconnect == redial' = (redial \/ life # "stopped")

StartsRelay ==
  /\ life = "off"
  /\ life' = "on"
  /\ connecting' = TRUE
  /\ UNCHANGED <<redial, relay, ws, crashes>>
  /\ UNCHANGED deviceVars
  /\ UNCHANGED roomVars
  /\ UNCHANGED localVars

\* macSocketHeaders answers null, or a header that the client may use unless
\* it was stopped meanwhile.
Dials ==
  /\ connecting
  /\ connecting' = FALSE
  /\ \/ ScheduleReconnect /\ UNCHANGED <<relay, ws>>
     \/ /\ life = "on"
        /\ \E s \in Sockets :
             /\ ws[s] = "unused"
             /\ \A t \in 1..(s - 1) : ws[t] # "unused"
             /\ relay' = s
             /\ ws' = [ws EXCEPT ![s] = "connecting"]
        /\ UNCHANGED redial
  /\ UNCHANGED <<life, crashes>>
  /\ UNCHANGED deviceVars
  /\ UNCHANGED roomVars
  /\ UNCHANGED localVars

RedialFires ==
  /\ redial
  /\ redial' = FALSE
  /\ connecting' = TRUE
  /\ UNCHANGED <<life, relay, ws, crashes>>
  /\ UNCHANGED deviceVars
  /\ UNCHANGED roomVars
  /\ UNCHANGED localVars

\* The room answers the upgrade.
RelayOpens(s) ==
  /\ ws[s] = "connecting"
  /\ ws' = [ws EXCEPT ![s] = "open"]
  /\ AcceptMac(s)
  /\ UNCHANGED <<up, life, connecting, redial, relay, crashes>>
  /\ UNCHANGED deviceVars
  /\ UNCHANGED localVars

\* The "close" event of a socket.
RelayEnds(s) ==
  /\ ws' = [ws EXCEPT ![s] = "closed"]
  /\ relay' = IF relay = s THEN 0 ELSE relay
  /\ CloseLocals
  /\ ScheduleReconnect
  /\ UNCHANGED <<life, connecting>>

\* The room's end of the socket has come, or the answer to the client's own;
\* an open socket answers with its own.
RelayClosed(s) ==
  /\ ws[s] \in {"open", "closing"}
  /\ down[s] # <<>> /\ Head(down[s]) = Shut
  /\ down' = [down EXCEPT ![s] = <<>>]
  /\ up' = IF ws[s] = "open" THEN [up EXCEPT ![s] = Append(@, Shut)] ELSE up
  /\ RelayEnds(s)
  /\ UNCHANGED <<room, crashes>>
  /\ UNCHANGED deviceVars

\* The upgrade fails or is aborted by the stop.
RelayFails(s) ==
  /\ \/ ws[s] = "connecting"
     \/ ws[s] = "closing" /\ room[s] = "none"
  /\ RelayEnds(s)
  /\ UNCHANGED crashes
  /\ UNCHANGED deviceVars
  /\ UNCHANGED roomVars

\* A message, also while the socket is closing: a frame for a connection the
\* client does not know opens a local one.
RelayMessage(s) ==
  /\ ws[s] \in {"open", "closing"}
  /\ down[s] # <<>> /\ Head(down[s]) # Shut
  /\ down' = [down EXCEPT ![s] = Tail(@)]
  /\ LET f == Head(down[s])
         c == f.conn IN
     \/ /\ f.type = "close"
        /\ local' = [local EXCEPT ![c] = "none"]
        /\ queued' = [queued EXCEPT ![c] = <<>>]
        /\ session' = [session EXCEPT ![c] = Fresh]
        /\ UNCHANGED <<taken, up>>
     \/ /\ f.type # "close"
        /\ local[c] # "open"
        /\ local' = [local EXCEPT ![c] = IF @ = "none" THEN "opening" ELSE @]
        /\ queued' = [queued EXCEPT ![c] = IF f.type = "data" THEN Append(@, f.frame) ELSE @]
        /\ UNCHANGED <<session, taken, up>>
     \/ /\ f.type = "open" /\ local[c] = "open"
        /\ UNCHANGED <<localVars, up>>
     \/ /\ f.type = "data" /\ local[c] = "open"
        /\ HandOver(c, <<f.frame>>)
        /\ UNCHANGED queued
  /\ UNCHANGED <<room, crashes>>
  /\ UNCHANGED deviceVars
  /\ UNCHANGED clientVars

LocalOpens(c) ==
  /\ local[c] = "opening"
  /\ HandOver(c, queued[c])
  /\ queued' = [queued EXCEPT ![c] = <<>>]
  /\ UNCHANGED <<room, down, crashes>>
  /\ UNCHANGED deviceVars
  /\ UNCHANGED clientVars

\* The bridge refuses the proof, revokes the device, or its socket breaks.
LocalBreaks(c) ==
  /\ local[c] \in {"opening", "open"}
  /\ local' = [local EXCEPT ![c] = "ended"]
  /\ session' = [session EXCEPT ![c] = Broken]
  /\ UNCHANGED <<queued, taken, crashes>>
  /\ UNCHANGED deviceVars
  /\ UNCHANGED roomVars
  /\ UNCHANGED clientVars

TellRoom(c) ==
  up' = IF relay # 0 /\ ws[relay] = "open"
        THEN [up EXCEPT ![relay] = Append(@, [type |-> "close", conn |-> c])]
        ELSE up

\* The "close" event of the local socket.
LocalClosed(c) ==
  /\ local[c] = "ended"
  /\ local' = [local EXCEPT ![c] = "none"]
  /\ queued' = [queued EXCEPT ![c] = <<>>]
  /\ session' = [session EXCEPT ![c] = Fresh]
  /\ TellRoom(c)
  /\ UNCHANGED <<taken, room, down, crashes>>
  /\ UNCHANGED deviceVars
  /\ UNCHANGED clientVars

\* The stop of the bridge's process: the socket is closed, with what the
\* room has sent still to come.
Stop ==
  /\ life = "on"
  /\ life' = "stopped"
  /\ redial' = FALSE
  /\ relay' = 0
  /\ ws' = IF relay = 0 THEN ws ELSE [ws EXCEPT ![relay] = "closing"]
  /\ up' = IF relay # 0 /\ ws[relay] = "open"
           THEN [up EXCEPT ![relay] = Append(@, Shut)] ELSE up
  /\ CloseLocals
  /\ UNCHANGED <<connecting, room, down, crashes>>
  /\ UNCHANGED deviceVars

\* The process ends without a word, and may be started again.
Crash ==
  /\ life = "on" /\ crashes < MaxCrashes
  /\ crashes' = crashes + 1
  /\ life' = "off"
  /\ connecting' = FALSE /\ redial' = FALSE
  /\ relay' = 0
  /\ ws' = [s \in Sockets |-> IF ws[s] = "unused" THEN "unused" ELSE "closed"]
  /\ up' \in [Sockets -> {<<>>}]
  /\ down' = [s \in Sockets |-> <<>>]
  /\ CloseLocals
  /\ UNCHANGED room
  /\ UNCHANGED deviceVars

-----------------------------------------------------------------------------

RoomStep(s) == MacFrame(s) \/ MacClosed(s) \/ MacLost(s)
SocketStep(s) == RelayOpens(s) \/ RelayClosed(s) \/ RelayMessage(s)
LocalStep(c) == LocalOpens(c) \/ LocalClosed(c)
DialsOn == Dials \/ RedialFires

RelayNext ==
  \/ \E c \in Conns : DeviceConnects(c) \/ DeviceSends(c) \/ DeviceLeaves(c)
  \/ \E c \in Conns : DeviceClosed(c) \/ LocalStep(c) \/ LocalBreaks(c)
  \/ \E s \in Sockets : RoomStep(s) \/ SocketStep(s) \/ RelayFails(s)
  \/ StartsRelay \/ DialsOn \/ Stop \/ Crash

RelaySpec == RelayInit /\ [][RelayNext]_relayVars

\* Frames, close events and local sockets go on; a socket that closes is
\* closed at last.
RelayFairness ==
  /\ \A s \in Sockets : WF_relayVars(RoomStep(s)) /\ WF_relayVars(SocketStep(s))
  /\ \A s \in Sockets : WF_relayVars(ws[s] = "closing" /\ RelayFails(s))
  /\ \A c \in Conns : WF_relayVars(LocalStep(c)) /\ WF_relayVars(DeviceClosed(c))

FairRelay == RelaySpec /\ RelayFairness

-----------------------------------------------------------------------------
(* Properties.                                                             *)

Links ==
  {s \in Sockets : ws[s] \in {"connecting", "open", "closing"}}
  \union (IF connecting THEN {-1} ELSE {}) \union (IF redial THEN {-2} ELSE {})

\* While it runs, the relay client is always in exactly one of three states:
\* waiting for headers, for its timer, or on one socket; it neither gives up
\* nor dials twice, and a stop during any of them is final
\* (cloud-relay-client.ts:48, 126).
OneChain ==
  /\ life = "on" => Cardinality(Links) = 1
  /\ life = "stopped" => relay = 0 /\ ~redial
  /\ life = "off" => Links = {}

\* The bridge takes a connection's frames from the proof on, in order, each
\* once, whatever sockets of the Mac and local connections they came over
\* (secure-socket.ts:92, relay-room.ts:93).
TakenInOrder ==
  \A c \in Conns : \A i \in 1..Len(taken[c]) : taken[c][i] = i - 1

\* Both: one socket at a time, and the frames of all of them in order.
RelayKeepsOrder == OneChain /\ TakenInOrder

\* A local connection whose device is gone is closed at last, also one that
\* late data opened again after it was closed (cloud-relay-client.ts:90).
OrphansEnd ==
  \A c \in Conns : (dev[c] = "closed") ~> [](local[c] = "none")

\* A device whose proof the Mac's sockets lost, or whose local connection the
\* bridge closed, is told so by the end of its socket; a crash of the Mac
\* may leave it waiting (relay-room.ts:74).
DevicesHear ==
  \A c \in Conns :
    (dev[c] = "open" /\ sent[c] >= 0) ~>
      (crashes > 0 \/ dev[c] # "open" \/ (c \in authed /\ session[c] >= 0))

\* Both: neither side of a connection outlives the other.
EndsAreTold == OrphansEnd /\ DevicesHear

=============================================================================
