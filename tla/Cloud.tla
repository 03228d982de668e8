--------------------------------- MODULE Cloud ---------------------------------
(***************************************************************************)
(* What the cloud does for a Mac: it lends a pairing code a room, passes   *)
(* frames between the Mac and its devices in another, and keeps a register *)
(* of the devices; and the Rust bridge's end of that road.  None of the    *)
(* four reads what another writes, so a behaviour is one of one part; the  *)
(* others stay as they are.                                                *)
(***************************************************************************)
EXTENDS Pairing, CloudRelay, DeviceRegistry, Multiplexer

VARIABLE part

allVars == <<part, pairingVars, relayVars, registryVars, muxVars>>

CloudInit ==
  /\ part \in {"pairing", "relay", "registry", "multiplexer"}
  /\ PairingInit /\ RelayInit /\ RegistryInit /\ MuxInit

OfPairing == part = "pairing" /\ UNCHANGED <<part, relayVars, registryVars, muxVars>>
OfRelay == part = "relay" /\ UNCHANGED <<part, pairingVars, registryVars, muxVars>>
OfRegistry == part = "registry" /\ UNCHANGED <<part, pairingVars, relayVars, muxVars>>
OfMux == part = "multiplexer" /\ UNCHANGED <<part, pairingVars, relayVars, registryVars>>

CloudNext ==
  \/ \E transport \in {"cloud", "lan"} : OfPairing /\ CreatePairing(transport)
  \/ \E places \in SUBSET {"cloud", "lan"} : OfPairing /\ PairingCreated(places)
  \/ OfPairing /\ PairingUnavailable
  \/ OfPairing /\ WatcherEnds
  \/ OfPairing /\ WatcherFinds
  \/ OfPairing /\ WatcherProvisions
  \/ OfPairing /\ WatcherCompletes
  \/ OfPairing /\ CancelPairing
  \/ OfPairing /\ CancelAnswered
  \/ OfPairing /\ BridgeRestarts
  \/ OfPairing /\ Alarm
  \/ OfPairing /\ Expires
  \/ \E result \in {"ok", "error"} : OfPairing /\ CompletionLands(result)
  \/ \E c \in Clients :
       \/ OfPairing /\ AsksCloud(c)
       \/ OfPairing /\ AsksBridge(c)
       \/ OfPairing /\ BridgeAnswers(c)
       \/ OfPairing /\ Polls(c)
       \/ OfPairing /\ PollIsLost(c)
       \/ OfPairing /\ GivesUp(c)
  \/ \E c \in Conns :
       \/ OfRelay /\ DeviceConnects(c)
       \/ OfRelay /\ DeviceSends(c)
       \/ OfRelay /\ DeviceLeaves(c)
       \/ OfRelay /\ DeviceClosed(c)
       \/ OfRelay /\ LocalOpens(c)
       \/ OfRelay /\ LocalClosed(c)
       \/ OfRelay /\ LocalBreaks(c)
  \/ \E s \in Sockets :
       \/ OfRelay /\ MacFrame(s)
       \/ OfRelay /\ MacClosed(s)
       \/ OfRelay /\ MacLost(s)
       \/ OfRelay /\ RelayOpens(s)
       \/ OfRelay /\ RelayClosed(s)
       \/ OfRelay /\ RelayMessage(s)
       \/ OfRelay /\ RelayFails(s)
  \/ OfRelay /\ StartsRelay
  \/ OfRelay /\ Dials
  \/ OfRelay /\ RedialFires
  \/ OfRelay /\ Stop
  \/ OfRelay /\ Crash
  \/ \E i \in Lanes :
       \/ OfRegistry /\ Lands(i)
       \/ OfRegistry /\ Refused(i)
       \/ OfRegistry /\ PushReads(i)
       \/ OfRegistry /\ PushAnswered(i)
       \/ OfRegistry /\ TimesOut(i)
       \/ OfRegistry /\ Unavailable(i)
       \/ OfRegistry /\ Sends(i)
       \/ OfRegistry /\ Provisioned(i)
       \/ OfRegistry /\ PushRegistered(i)
       \/ OfRegistry /\ PushUnregistered(i)
       \/ OfRegistry /\ Revoked(i)
       \/ OfRegistry /\ CleanedOne(i)
       \/ OfRegistry /\ PushRecorded(i)
  \/ \E r \in late : OfRegistry /\ LandsLate(r)
  \/ OfRegistry /\ Registered
  \/ OfRegistry /\ CleanedUp
  \/ OfRegistry /\ Restart
  \/ \E d \in Devices :
       \/ OfRegistry /\ CleansUp(d)
       \/ OfRegistry /\ Pairs(d)
       \/ OfRegistry /\ Authenticates(d)
       \/ OfRegistry /\ Disconnects(d)
       \/ OfRegistry /\ Revoke(d)
       \/ OfRegistry /\ RegisterPush(d)
       \/ OfRegistry /\ UnregisterPush(d)
       \/ OfRegistry /\ Rotates(d)
  \/ \E kind \in Kinds, night \in BOOLEAN, chosen \in [Devices -> Settings] :
       OfRegistry /\ Notify(kind, night, chosen)
  \/ \E c \in Tunnels :
       \/ OfMux /\ DeviceJoins(c)
       \/ OfMux /\ DeviceSpeaks(c)
       \/ OfMux /\ DeviceParts(c)
       \/ OfMux /\ TakesOpen(c)
       \/ OfMux /\ TakesData(c)
       \/ OfMux /\ TakesClose(c)
       \/ OfMux /\ LocalIsOpen(c)
       \/ OfMux /\ Hands(c)
  \/ \E t \in Ends :
       \/ OfMux /\ BridgeSays(t)
       \/ OfMux /\ BridgeShuts(t)
       \/ OfMux /\ Delivers(t)
       \/ OfMux /\ Reads(t)
       \/ OfMux /\ Turns(t)
       \/ OfMux /\ Gives(t)
       \/ OfMux /\ SaysClose(t)
  \/ OfMux /\ Connects
  \/ OfMux /\ Writes
  \/ OfMux /\ Breaks
  \/ OfMux /\ StopComes
  \/ OfMux /\ StopIsSeen

\* The rooms and the multiplexer are as fair as they are on their own.
PairingGoesOn ==
  /\ WF_allVars(OfPairing /\ Watches)
  /\ \A c \in Clients :
       /\ WF_allVars(OfPairing /\ Polls(c))
       /\ WF_allVars(OfPairing /\ BridgeAnswers(c))

RelayGoesOn ==
  /\ \A s \in Sockets :
       /\ WF_allVars(OfRelay /\ RoomStep(s))
       /\ WF_allVars(OfRelay /\ SocketStep(s))
       /\ WF_allVars(OfRelay /\ ws[s] = "closing" /\ RelayFails(s))
  /\ \A c \in Conns :
       /\ WF_allVars(OfRelay /\ LocalStep(c))
       /\ WF_allVars(OfRelay /\ DeviceClosed(c))

MuxGoesOn ==
  /\ WF_allVars(OfMux /\ MainMoves)
  /\ WF_allVars(OfMux /\ StopIsSeen)
  /\ \A t \in Ends : WF_allVars(OfMux /\ TaskMoves(t))

CloudSpec == CloudInit /\ [][CloudNext]_allVars /\ PairingGoesOn /\ RelayGoesOn /\ MuxGoesOn

\* Whichever bridge runs, its end of the road keeps the frames of every
\* connection in order (cloud-relay-client.ts:48, cloud.rs:641).
RelaysKeepOrder == RelayKeepsOrder /\ RelayedInOrder

=============================================================================
