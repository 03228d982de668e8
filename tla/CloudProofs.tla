------------------------------ MODULE CloudProofs ------------------------------
(***************************************************************************)
(* Proofs about what the cloud does for a Mac, for every number of         *)
(* clients, devices, connections and sockets, and every bound.  Each of    *)
(* the first four sections states an inductive invariant of one part,      *)
(* shows that it holds at first, that every step keeps it and that it      *)
(* implies the part's property, and ends in the theorem about the part's   *)
(* own specification.  Section 5 carries them over to the specification in *)
(* which the four are looked at together.                                  *)
(*                                                                         *)
(*  1. Pairing: a used code has a row, and the room and the watcher speak  *)
(*     of its client; a client that nothing excuses finds the room as it   *)
(*     left it.                                                            *)
(*  2. Relay: the client waits for its headers, for its timer, or on one   *)
(*     socket; a connection's proof is in one place at a time, so that no  *)
(*     second session can begin with it.                                   *)
(*  3. Registry: what would take a device off the cloud is under way only  *)
(*     for a revoked one, and no token that is known or under way is newer *)
(*     than the phone's.                                                   *)
(*  4. Multiplexer: what the bridge got and what waits for it are the      *)
(*     frames that were handed over, and the queue to the relay holds the  *)
(*     frames that were given and not yet heard, once each and in order.   *)
(***************************************************************************)
EXTENDS Cloud, FiniteSetTheorems, SequenceTheorems, TLAPS

-----------------------------------------------------------------------------
(* 1. Pairing. *)

\* Once the code is used, and only then, there is a row, of one client; the
\* watcher's request is what the room has, while it has anything.
RowIsTheirs ==
  /\ \A c, d \in devices : c = d
  /\ code \in {"unmade", "registering", "open"} => devices = {}
  /\ \A c \in Clients : client[c] \in {"local", "paired"} => c \in devices
  /\ watcher \in {"provision", "succeed"} => request \in devices

\* A room without a registration is empty, a completion is of a pending request, and one
\* that says ok, or will, is of a client with a row.
RoomIsTheirs ==
  /\ registration = "none" => pending = Nobody /\ completion = "none"
  /\ code \in {"unmade", "registering"} =>
       registration = "none" /\ watcher = "off" /\ delayed = {}
  /\ completion # "none" => pending # Nobody
  /\ watcher \in {"provision", "succeed", "refuse"} =>
       request # Nobody /\ (registration = "open" => pending = request)
  /\ registration = "open" /\ (completion = "ok" \/ "ok" \in delayed) =>
       pending \in devices

\* What a client that nothing excuses may rely on.
Waiting(c) ==
  /\ client[c] # "failed"
  /\ delayed = {} /\ ~aborted
  /\ client[c] = "idle" =>
       /\ watcher \in {"off", "look"}
       /\ offered # {} => code = "open"
       /\ IF "cloud" \in offered
          THEN registration = "open" /\ pending = Nobody /\ completion = "none"
          ELSE registration = "none"
  /\ client[c] = "polling" =>
       /\ registration = "open" /\ pending = c /\ asks[c] = c
       /\ completion # "error" /\ watcher # "refuse"
       /\ watcher = "look" => code = "open"
       /\ completion = "ok" => watcher = "off"

\* The three together, for every client that nothing excuses.
PairingInv ==
  /\ PairingTypeOK /\ RowIsTheirs /\ RoomIsTheirs
  /\ \A c \in Clients : ~Excused(c) => Waiting(c)

\* Nothing is made, nobody has scanned.
LEMMA PairingInitially == PairingInit => PairingInv
<1> SUFFICES ASSUME PairingInit PROVE PairingInv
    OBVIOUS
<1> USE NobodyIsNoClient, MaxFaultsIsNatural DEF PairingInit
<1>1. PairingTypeOK
  <2>1. /\ client \in [Clients -> {"idle", "local", "polling", "paired", "failed"}]
        /\ asks \in [Clients -> Clients \union {Nobody}] /\ slow \in [Clients -> BOOLEAN]
        OBVIOUS
  <2>2. /\ code = "unmade" /\ watcher = "off" /\ request = Nobody
        /\ registration = "none" /\ pending = Nobody /\ completion = "none" /\ cancel = "no"
        OBVIOUS
  <2>3. /\ offered \subseteq {"cloud", "lan"} /\ devices \subseteq Clients
        /\ delayed \subseteq {"ok", "error"} /\ faults \in 0..MaxFaults
        OBVIOUS
  <2>4. expired \in BOOLEAN /\ aborted \in BOOLEAN
        OBVIOUS
  <2> HIDE DEF PairingInit
  <2> QED
        BY <2>1, <2>2, <2>3, <2>4 DEF PairingTypeOK
<1>2. RowIsTheirs /\ RoomIsTheirs
      BY DEF RowIsTheirs, RoomIsTheirs
<1>3. \A c \in Clients : Waiting(c)
      BY DEF Waiting
<1> QED BY <1>1, <1>2, <1>3 DEF PairingInv

\* Every step of the Mac, the room and the clients keeps it.  What a step gives an excuse
\* for need not be shown, and a client that has none had none before.
LEMMA PairingStep == PairingInv /\ [PairingNext]_pairingVars => PairingInv'
<1> SUFFICES ASSUME PairingInv, [PairingNext]_pairingVars PROVE PairingInv'
    OBVIOUS
<1> USE NobodyIsNoClient, MaxFaultsIsNatural
<1> USE DEF PairingInv, PairingTypeOK, RowIsTheirs, RoomIsTheirs, Waiting, Excused, Fault,
            macVars, codeVars, scannerVars
<1>1. ASSUME NEW transport \in {"cloud", "lan"}, CreatePairing(transport) PROVE PairingInv'
  <2> USE <1>1 DEF CreatePairing
  <2>1. PairingTypeOK'
        OBVIOUS
  <2>2. RowIsTheirs'
        OBVIOUS
  <2>3. RoomIsTheirs'
        OBVIOUS
  <2>4. ASSUME NEW e \in Clients, ~Excused(e)' PROVE ~Excused(e) /\ Waiting(e)'
    <3>1. ~Excused(e)
          BY <2>4
    <3>2. Waiting(e)
          BY <3>1
    <3> QED BY <2>4, <3>1, <3>2
  <2> QED BY <2>1, <2>2, <2>3, <2>4
<1>2. ASSUME NEW places \in SUBSET {"cloud", "lan"}, PairingCreated(places) PROVE PairingInv'
  <2> USE <1>2 DEF PairingCreated, Register
  <2>1. PairingTypeOK'
        OBVIOUS
  <2>2. RowIsTheirs'
        OBVIOUS
  <2>3. RoomIsTheirs'
        OBVIOUS
  <2>4. ASSUME NEW e \in Clients, ~Excused(e)' PROVE ~Excused(e) /\ Waiting(e)'
    <3>1. ~Excused(e)
          BY <2>4
    <3>2. Waiting(e)
          BY <3>1
    <3> QED BY <2>4, <3>1, <3>2
  <2> QED BY <2>1, <2>2, <2>3, <2>4
<1>3. CASE PairingUnavailable
  <2> USE <1>3 DEF PairingUnavailable, Register
  <2>1. PairingTypeOK'
        OBVIOUS
  <2>2. RowIsTheirs'
        OBVIOUS
  <2>3. RoomIsTheirs'
        OBVIOUS
  <2>4. ASSUME NEW e \in Clients, ~Excused(e)' PROVE ~Excused(e) /\ Waiting(e)'
    <3>1. ~Excused(e)
          BY <2>4
    <3>2. Waiting(e)
          BY <3>1
    <3> QED BY <2>4, <3>1, <3>2
  <2> QED BY <2>1, <2>2, <2>3, <2>4
<1>4. CASE WatcherEnds
  <2> USE <1>4 DEF WatcherEnds
  <2>1. PairingTypeOK'
        OBVIOUS
  <2>2. RowIsTheirs'
        OBVIOUS
  <2>3. RoomIsTheirs'
        OBVIOUS
  <2>4. ASSUME NEW e \in Clients, ~Excused(e)' PROVE ~Excused(e) /\ Waiting(e)'
    <3>1. ~Excused(e)
          BY <2>4
    <3>2. Waiting(e)
          BY <3>1
    <3> QED BY <2>4, <3>1, <3>2
  <2> QED BY <2>1, <2>2, <2>3, <2>4
<1>5. CASE WatcherFinds
  <2> USE <1>5 DEF WatcherFinds, Alive, Usable, CompletePairing
  <2>1. PairingTypeOK'
        OBVIOUS
  <2>2. RowIsTheirs'
        OBVIOUS
  <2>3. RoomIsTheirs'
        OBVIOUS
  <2>4. ASSUME NEW e \in Clients, ~Excused(e)' PROVE ~Excused(e) /\ Waiting(e)'
    <3>1. ~Excused(e)
          BY <2>4
    <3>2. Waiting(e)
          BY <3>1
    <3> QED BY <2>4, <3>1, <3>2
  <2> QED BY <2>1, <2>2, <2>3, <2>4
<1>6. CASE WatcherProvisions
  <2> USE <1>6 DEF WatcherProvisions
  <2>1. PairingTypeOK'
        OBVIOUS
  <2>2. RowIsTheirs'
        OBVIOUS
  <2>3. RoomIsTheirs'
        OBVIOUS
  <2>4. ASSUME NEW e \in Clients, ~Excused(e)' PROVE ~Excused(e) /\ Waiting(e)'
    <3>1. ~Excused(e)
          BY <2>4
    <3>2. Waiting(e)
          BY <3>1
    <3> QED BY <2>4, <3>1, <3>2
  <2> QED BY <2>1, <2>2, <2>3, <2>4
<1>7. CASE WatcherCompletes
  <2> USE <1>7 DEF WatcherCompletes, Complete, Result, Alive, DeleteAll
  <2>0. /\ completion' \in {"none", "ok", "error"} /\ registration' \in {"none", "open"}
        /\ pending' \in Clients \union {Nobody} /\ delayed' \subseteq {"ok", "error"}
        OBVIOUS
  <2>5. watcher' \in {"off", "look"} /\ faults' \in 0..MaxFaults
        OBVIOUS
  <2>1. PairingTypeOK'
        BY <2>0, <2>5
  <2>2. RowIsTheirs'
        OBVIOUS
  <2>3. RoomIsTheirs'
        OBVIOUS
  <2>4. ASSUME NEW e \in Clients, ~Excused(e)' PROVE ~Excused(e) /\ Waiting(e)'
    <3>1. ~Excused(e)
          BY <2>4
    <3>2. Waiting(e)
          BY <3>1
    <3> QED BY <2>4, <3>1, <3>2
  <2> QED BY <2>1, <2>2, <2>3, <2>4
<1>8. CASE CancelPairing
  <2> USE <1>8 DEF CancelPairing
  <2>1. PairingTypeOK'
        OBVIOUS
  <2>2. RowIsTheirs'
        OBVIOUS
  <2>3. RoomIsTheirs'
        OBVIOUS
  <2>4. ASSUME NEW e \in Clients, ~Excused(e)' PROVE ~Excused(e) /\ Waiting(e)'
    <3>1. ~Excused(e)
          BY <2>4
    <3>2. Waiting(e)
          BY <3>1
    <3> QED BY <2>4, <3>1, <3>2
  <2> QED BY <2>1, <2>2, <2>3, <2>4
<1>9. CASE CancelAnswered
  <2> USE <1>9 DEF CancelAnswered, DeleteAll
  <2>1. PairingTypeOK'
        OBVIOUS
  <2>2. RowIsTheirs'
        OBVIOUS
  <2>3. RoomIsTheirs'
        OBVIOUS
  <2>4. ASSUME NEW e \in Clients, ~Excused(e)' PROVE ~Excused(e) /\ Waiting(e)'
    <3>1. ~Excused(e)
          BY <2>4
    <3>2. Waiting(e)
          BY <3>1
    <3> QED BY <2>4, <3>1, <3>2
  <2> QED BY <2>1, <2>2, <2>3, <2>4
<1>10. CASE BridgeRestarts
  <2> USE <1>10 DEF BridgeRestarts
  <2>1. PairingTypeOK'
        OBVIOUS
  <2>2. RowIsTheirs'
        OBVIOUS
  <2>3. RoomIsTheirs'
        OBVIOUS
  <2>4. ASSUME NEW e \in Clients, ~Excused(e)' PROVE ~Excused(e) /\ Waiting(e)'
    <3>1. ~Excused(e)
          BY <2>4
    <3>2. Waiting(e)
          BY <3>1
    <3> QED BY <2>4, <3>1, <3>2
  <2> QED BY <2>1, <2>2, <2>3, <2>4
<1>11. CASE Alarm
  <2> USE <1>11 DEF Alarm, DeleteAll
  <2>1. PairingTypeOK'
        OBVIOUS
  <2>2. RowIsTheirs'
        OBVIOUS
  <2>3. RoomIsTheirs'
        OBVIOUS
  <2>4. ASSUME NEW e \in Clients, ~Excused(e)' PROVE ~Excused(e) /\ Waiting(e)'
    <3>1. ~Excused(e)
          BY <2>4
    <3>2. Waiting(e)
          BY <3>1
    <3> QED BY <2>4, <3>1, <3>2
  <2> QED BY <2>1, <2>2, <2>3, <2>4
<1>12. CASE Expires
  <2> USE <1>12 DEF Expires
  <2>1. PairingTypeOK'
        OBVIOUS
  <2>2. RowIsTheirs'
        OBVIOUS
  <2>3. RoomIsTheirs'
        OBVIOUS
  <2>4. ASSUME NEW e \in Clients, ~Excused(e)' PROVE ~Excused(e) /\ Waiting(e)'
    <3>1. ~Excused(e)
          BY <2>4
    <3>2. Waiting(e)
          BY <3>1
    <3> QED BY <2>4, <3>1, <3>2
  <2> QED BY <2>1, <2>2, <2>3, <2>4
<1>13. ASSUME NEW result \in {"ok", "error"}, CompletionLands(result) PROVE PairingInv'
  <2> USE <1>13 DEF CompletionLands, Complete, Alive, DeleteAll
  <2>1. PairingTypeOK'
        OBVIOUS
  <2>2. RowIsTheirs'
        OBVIOUS
  <2>3. RoomIsTheirs'
        OBVIOUS
  <2>4. ASSUME NEW e \in Clients, ~Excused(e)' PROVE ~Excused(e) /\ Waiting(e)'
    <3>1. ~Excused(e)
          BY <2>4
    <3>2. Waiting(e)
          BY <3>1
    <3> QED BY <2>4, <3>1, <3>2
  <2> QED BY <2>1, <2>2, <2>3, <2>4
<1>14. ASSUME NEW c \in Clients, AsksCloud(c) PROVE PairingInv'
  <2> USE <1>14 DEF AsksCloud, AcceptDeviceRequest, Accepts, Alive, DeleteAll, Becomes
  <2>1. PairingTypeOK'
        OBVIOUS
  <2>2. RowIsTheirs'
        OBVIOUS
  <2>3. RoomIsTheirs'
        OBVIOUS
  <2>4. ASSUME NEW e \in Clients, ~Excused(e)' PROVE ~Excused(e) /\ Waiting(e)'
    <3>1. ~Excused(e)
          BY <2>4
    <3>2. Waiting(e)
          BY <3>1
    <3> QED BY <2>4, <3>1, <3>2
  <2> QED BY <2>1, <2>2, <2>3, <2>4
<1>15. ASSUME NEW c \in Clients, AsksBridge(c) PROVE PairingInv'
  <2> USE <1>15 DEF AsksBridge, Usable, CompletePairing, Becomes
  <2>1. PairingTypeOK'
        OBVIOUS
  <2>2. RowIsTheirs'
        OBVIOUS
  <2>3. RoomIsTheirs'
        OBVIOUS
  <2>4. ASSUME NEW e \in Clients, ~Excused(e)' PROVE ~Excused(e) /\ Waiting(e)'
    <3>1. ~Excused(e)
          BY <2>4
    <3>2. Waiting(e)
          BY <3>1
    <3> QED BY <2>4, <3>1, <3>2
  <2> QED BY <2>1, <2>2, <2>3, <2>4
<1>16. ASSUME NEW c \in Clients, BridgeAnswers(c) PROVE PairingInv'
  <2> USE <1>16 DEF BridgeAnswers, Becomes
  <2>1. PairingTypeOK'
        OBVIOUS
  <2>2. RowIsTheirs'
        OBVIOUS
  <2>3. RoomIsTheirs'
        OBVIOUS
  <2>4. ASSUME NEW e \in Clients, ~Excused(e)' PROVE ~Excused(e) /\ Waiting(e)'
    <3>1. ~Excused(e)
          BY <2>4
    <3>2. Waiting(e)
          BY <3>1
    <3> QED BY <2>4, <3>1, <3>2
  <2> QED BY <2>1, <2>2, <2>3, <2>4
<1>17. ASSUME NEW c \in Clients, Polls(c) PROVE PairingInv'
  <2> USE <1>17 DEF Polls, DeviceResult, Answer, Alive, DeleteAll, Becomes, Proves
  <2>1. PairingTypeOK'
        OBVIOUS
  <2>2. RowIsTheirs'
        OBVIOUS
  <2>3. RoomIsTheirs'
        OBVIOUS
  <2>4. ASSUME NEW e \in Clients, ~Excused(e)' PROVE ~Excused(e) /\ Waiting(e)'
    <3>1. ~Excused(e)
          BY <2>4
    <3>2. Waiting(e)
          BY <3>1
    <3> QED BY <2>4, <3>1, <3>2
  <2> QED BY <2>1, <2>2, <2>3, <2>4
<1>18. ASSUME NEW c \in Clients, PollIsLost(c) PROVE PairingInv'
  <2> USE <1>18 DEF PollIsLost, DeviceResult, Answer, Alive, DeleteAll, Becomes
  <2>1. PairingTypeOK'
        OBVIOUS
  <2>2. RowIsTheirs'
        OBVIOUS
  <2>3. RoomIsTheirs'
        OBVIOUS
  <2>4. ASSUME NEW e \in Clients, ~Excused(e)' PROVE ~Excused(e) /\ Waiting(e)'
    <3>1. ~Excused(e)
          BY <2>4
    <3>2. Waiting(e)
          BY <3>1
    <3> QED BY <2>4, <3>1, <3>2
  <2> QED BY <2>1, <2>2, <2>3, <2>4
<1>19. ASSUME NEW c \in Clients, GivesUp(c) PROVE PairingInv'
  <2> USE <1>19 DEF GivesUp, Becomes
  <2>1. PairingTypeOK'
        OBVIOUS
  <2>2. RowIsTheirs'
        OBVIOUS
  <2>3. RoomIsTheirs'
        OBVIOUS
  <2>4. ASSUME NEW e \in Clients, ~Excused(e)' PROVE ~Excused(e) /\ Waiting(e)'
    <3>1. ~Excused(e)
          BY <2>4
    <3>2. Waiting(e)
          BY <3>1
    <3> QED BY <2>4, <3>1, <3>2
  <2> QED BY <2>1, <2>2, <2>3, <2>4
<1>20. CASE UNCHANGED pairingVars
      BY <1>20 DEF pairingVars
<1> QED
    BY <1>1, <1>2, <1>3, <1>4, <1>5, <1>6, <1>7, <1>8, <1>9, <1>10, <1>11, <1>12, <1>13, <1>14,
       <1>15, <1>16, <1>17, <1>18, <1>19, <1>20
    DEF PairingNext, Watches

\* The property is part of it.
LEMMA PairingSuffices == PairingInv => PairsOneOrSaysWhy
BY DEF PairingInv, RowIsTheirs, Waiting, PairsOneOrSaysWhy, CodePairsOne, FailsWithCause

\* Whatever is lost, late or cancelled, a code pairs one client at most, and a client
\* that is told it failed has a cause.
THEOREM PairingIsHonest == PairingSpec => []PairsOneOrSaysWhy
<1>1. PairingSpec => []PairingInv
      BY PairingInitially, PairingStep, PTL DEF PairingSpec
<1> QED BY <1>1, PairingSuffices, PTL

-----------------------------------------------------------------------------
(* 2. The relay. *)


\* A socket of the Mac that is not yet closed.
Live == {"connecting", "open", "closing"}

\* The types of what the proof reads of the relay, and what a session that can take frames
\* is not.
RelayTypes ==
  /\ sent \in [Conns -> Fresh..MaxCommands]
  /\ room \in [Sockets -> {"none", "open", "closing", "gone"}]
  /\ life \in {"off", "on", "stopped"} /\ connecting \in BOOLEAN /\ redial \in BOOLEAN
  /\ relay \in 0..MaxSockets
  /\ ws \in [Sockets -> Live \union {"unused", "closed"}]
  /\ local \in [Conns -> {"none", "opening", "open", "ended"}]
  /\ queued \in [Conns -> Seq(Frames)] /\ taken \in [Conns -> Seq(Frames)]
  /\ session \in [Conns -> Broken..MaxCommands]
  /\ \A c \in Conns : local[c] # "ended" => session[c] # Broken

\* Frames from the room to the Mac.
DownTypes == down \in [Sockets -> Seq(DownFrame)]

\* The client waits for its headers, or for its timer, or has one socket.
ChainInv ==
  /\ relay # 0 => ws[relay] \in Live
  /\ life # "stopped" => \A s \in Sockets : ws[s] \in Live => relay = s
  /\ life = "on" => \/ connecting /\ ~redial /\ relay = 0
                    \/ ~connecting /\ redial /\ relay = 0
                    \/ ~connecting /\ ~redial /\ relay # 0
  /\ life = "stopped" => relay = 0 /\ ~redial
  /\ life = "off" => ~connecting /\ ~redial /\ relay = 0

\* One socket of the Mac gets what devices send.
OneRoom == \A s, t \in Sockets : room[s] = "open" /\ room[t] = "open" => s = t

\* A frame that is connection c's proof.
IsProof(f, c) == f # Shut /\ f.type = "data" /\ f.conn = c /\ f.frame = 0

\* A connection's proof is sent once, and is in one place.
ProofIsOnce ==
  /\ \A c \in Conns : \A s, t \in Sockets : \A i \in DOMAIN down[s], j \in DOMAIN down[t] :
       IsProof(down[s][i], c) /\ IsProof(down[t][j], c) => s = t /\ i = j
  /\ \A c \in Conns : \A i, j \in DOMAIN queued[c] :
       queued[c][i] = 0 /\ queued[c][j] = 0 => i = j
  /\ \A c \in Conns : \A s \in Sockets : \A i \in DOMAIN down[s] : \A j \in DOMAIN queued[c] :
       ~(IsProof(down[s][i], c) /\ queued[c][j] = 0)

\* Before it is sent it is nowhere, and once it is taken it is nowhere else.
ProofIsGone ==
  \A c \in Conns : sent[c] = Fresh \/ taken[c] # <<>> =>
    /\ \A s \in Sockets : \A i \in DOMAIN down[s] : ~IsProof(down[s][i], c)
    /\ \A i \in DOMAIN queued[c] : queued[c][i] # 0

\* Nothing is taken before it is sent, and a session's counter is how far its connection's
\* frames were taken.
TakenSoFar ==
  /\ TakenInOrder
  /\ \A c \in Conns : sent[c] = Fresh => taken[c] = <<>>
  /\ \A c \in Conns : session[c] >= 0 => Len(taken[c]) = session[c] + 1

\* All of it.
RelayInv ==
  /\ RelayTypes /\ DownTypes /\ ChainInv /\ OneRoom /\ ProofIsOnce /\ ProofIsGone /\ TakenSoFar

\* What a step does to a queue of frames that gets no proof: its first frame may
\* go, or all, and another may come.
Shrinks(s) ==
  \/ down'[s] = down[s]
  \/ down'[s] = <<>>
  \/ down[s] # <<>> /\ down'[s] = Tail(down[s])
  \/ \E f \in DownFrame :
       down'[s] = Append(down[s], f) /\ \A c \in Conns : ~IsProof(f, c)

\* Each proof in a queue that shrinks was in it, as far from all others as before.
LEMMA ShrinksSo ==
  ASSUME DownTypes, NEW s \in Sockets, Shrinks(s)
  PROVE  /\ down'[s] \in Seq(DownFrame)
         /\ \E o \in {0, 1} : \A i \in DOMAIN down'[s] : \A c \in Conns :
              IsProof(down'[s][i], c) =>
                i \in Int /\ i + o \in DOMAIN down[s] /\ down'[s][i] = down[s][i + o]
<1> USE DEF DownTypes
<1>1. CASE down'[s] = down[s]
      BY <1>1
<1>2. CASE down'[s] = <<>>
      BY <1>2
<1>3. CASE down[s] # <<>> /\ down'[s] = Tail(down[s])
  <2>1. /\ down'[s] \in Seq(DownFrame)
        /\ \A i \in DOMAIN down'[s] :
             i \in Int /\ i + 1 \in DOMAIN down[s] /\ down'[s][i] = down[s][i + 1]
        BY <1>3
  <2> QED BY <2>1
<1>4. ASSUME NEW f \in DownFrame, down'[s] = Append(down[s], f),
             \A c \in Conns : ~IsProof(f, c)
      PROVE  /\ down'[s] \in Seq(DownFrame)
             /\ \A i \in DOMAIN down'[s] : \A c \in Conns :
                  IsProof(down'[s][i], c) =>
                    i \in Int /\ i + 0 \in DOMAIN down[s] /\ down'[s][i] = down[s][i + 0]
      BY <1>4
<1> QED BY <1>1, <1>2, <1>3, <1>4 DEF Shrinks

\* If every queue shrinks so, what is said of proofs in queues goes on to hold.
LEMMA DownRests ==
  ASSUME DownTypes, ProofIsOnce, \A s \in Sockets : Shrinks(s),
         down' = [s \in Sockets |-> down'[s]]
  PROVE  /\ DownTypes'
         /\ \A c \in Conns : \A s, t \in Sockets :
              \A i \in DOMAIN down'[s], j \in DOMAIN down'[t] :
              IsProof(down'[s][i], c) /\ IsProof(down'[t][j], c) => s = t /\ i = j
         /\ \A c \in Conns : \A s \in Sockets : \A i \in DOMAIN down'[s] :
              IsProof(down'[s][i], c) => \E j \in DOMAIN down[s] : IsProof(down[s][j], c)
<1>0. DownTypes'
      BY ShrinksSo DEF DownTypes
<1>1. ASSUME NEW c \in Conns, NEW s \in Sockets, NEW t \in Sockets, NEW i \in DOMAIN down'[s],
             NEW j \in DOMAIN down'[t], IsProof(down'[s][i], c), IsProof(down'[t][j], c)
      PROVE  s = t /\ i = j
  <2>1. PICK o \in {0, 1} : \A k \in DOMAIN down'[s] : \A e \in Conns :
              IsProof(down'[s][k], e) =>
                k \in Int /\ k + o \in DOMAIN down[s] /\ down'[s][k] = down[s][k + o]
        BY ShrinksSo
  <2>2. PICK p \in {0, 1} : \A k \in DOMAIN down'[t] : \A e \in Conns :
              IsProof(down'[t][k], e) =>
                k \in Int /\ k + p \in DOMAIN down[t] /\ down'[t][k] = down[t][k + p]
        BY ShrinksSo
  <2>3. /\ i \in Int /\ i + o \in DOMAIN down[s] /\ IsProof(down[s][i + o], c)
        /\ j \in Int /\ j + p \in DOMAIN down[t] /\ IsProof(down[t][j + p], c)
        BY <1>1, <2>1, <2>2
  <2>4. s = t
        BY <2>3 DEF ProofIsOnce
  <2>5. j + o \in DOMAIN down[s] /\ IsProof(down[s][j + o], c)
        BY <1>1, <2>1, <2>4
  <2>6. i + o = j + o
        BY <2>3, <2>5 DEF ProofIsOnce
  <2> QED BY <2>3, <2>4, <2>6
<1>2. ASSUME NEW c \in Conns, NEW s \in Sockets, NEW i \in DOMAIN down'[s],
             IsProof(down'[s][i], c)
      PROVE  \E j \in DOMAIN down[s] : IsProof(down[s][j], c)
  <2>1. PICK o \in {0, 1} : \A k \in DOMAIN down'[s] : \A e \in Conns :
              IsProof(down'[s][k], e) =>
                k \in Int /\ k + o \in DOMAIN down[s] /\ down'[s][k] = down[s][k + o]
        BY ShrinksSo
  <2> QED BY <1>2, <2>1
<1> QED BY <1>0, <1>1, <1>2

\* And so does all that is said of proofs, while frames that wait are kept or dropped.
LEMMA ProofsRest ==
  ASSUME DownTypes, ProofIsOnce, ProofIsGone, \A s \in Sockets : Shrinks(s),
         down' = [s \in Sockets |-> down'[s]],
         \A c \in Conns : queued'[c] = queued[c] \/ queued'[c] = <<>>,
         taken' = taken, \A c \in Conns : sent'[c] = Fresh => sent[c] = Fresh
  PROVE  DownTypes' /\ ProofIsOnce' /\ ProofIsGone'
<1>3. ASSUME NEW c \in Conns, NEW i \in DOMAIN queued'[c], queued'[c][i] = 0
      PROVE  i \in DOMAIN queued[c] /\ queued[c][i] = 0
      BY <1>3
<1>4. ProofIsOnce'
      BY DownRests, <1>3 DEF ProofIsOnce
<1>5. ProofIsGone'
      BY DownRests, <1>3 DEF ProofIsGone
<1> QED BY DownRests, <1>4, <1>5

\* What a session takes of the frames it is handed continues what was taken.
LEMMA HandOverTakes ==
  ASSUME RelayTypes, TakenSoFar, NEW c \in Conns, NEW frames \in Seq(Frames),
         HandOver(c, frames), session[c] # Broken,
         taken[c] # <<>> => \A i \in DOMAIN frames : frames[i] # 0
  PROVE  /\ session' \in [Conns -> Broken..MaxCommands]
         /\ taken' \in [Conns -> Seq(Frames)]
         /\ local' \in [Conns -> {"none", "opening", "open", "ended"}]
         /\ \A e \in Conns : local'[e] # "ended" => session'[e] # Broken
         /\ \A e \in Conns : \A i \in 1..Len(taken'[e]) : taken'[e][i] = i - 1
         /\ \A e \in Conns : session'[e] >= 0 => Len(taken'[e]) = session'[e] + 1
         /\ \A e \in Conns : e # c => taken'[e] = taken[e]
         /\ taken'[c] = taken[c] \/ taken[c] # <<>> \/ (frames # <<>> /\ frames[1] = 0)
<1> DEFINE n == session[c]
<1>0. /\ n \in Fresh..MaxCommands /\ Len(frames) \in Nat /\ taken[c] \in Seq(Frames)
      /\ \A i \in 1..Len(frames) : frames[i] \in 0..MaxCommands
  <2>1. session[c] \in Broken..MaxCommands /\ session[c] # Broken
        BY DEF RelayTypes
  <2>2. n \in Fresh..MaxCommands
        BY <2>1, BoundsAreNatural DEF Fresh, Broken
  <2>3. Len(frames) \in Nat /\ taken[c] \in Seq(Frames)
        BY DEF RelayTypes
  <2>4. \A i \in 1..Len(frames) : frames[i] \in 0..MaxCommands
    <3>1. \A i \in 1..Len(frames) : frames[i] \in Frames
          OBVIOUS
    <3> QED BY <3>1 DEF Frames
  <2> QED BY <2>2, <2>3, <2>4
<1>1. PICK k \in 0..Len(frames) :
        /\ Takes(n, frames, k)
        /\ session' = [session EXCEPT ![c] = IF k = Len(frames) THEN n + k ELSE Broken]
        /\ local' = [local EXCEPT ![c] = IF k = Len(frames) THEN "open" ELSE "ended"]
        /\ taken' = [taken EXCEPT ![c] = @ \o SubSeq(frames, 1, k)]
      BY DEF HandOver
<1>2. \A i \in 1..k : frames[i] = n + i
      BY <1>1 DEF Takes
<1> HIDE DEF n
<1>3. n + k \in Fresh..MaxCommands
  <2>1. CASE k = 0
        BY <1>0, <2>1 DEF Fresh
  <2>2. CASE k # 0
        BY <1>0, <1>1, <1>2, <2>2 DEF Fresh
  <2> QED BY <2>1, <2>2
<1>4. n = Fresh /\ k # 0 => taken[c] = <<>> /\ frames[1] = 0 /\ frames # <<>>
      BY <1>0, <1>1, <1>2 DEF Fresh
<1> DEFINE more == SubSeq(frames, 1, k)
<1>5. more \in Seq(Frames) /\ Len(more) = k /\ \A i \in 1..k : more[i] = frames[i]
      BY <1>0, <1>1
<1> HIDE DEF more
<1> DEFINE all == taken[c] \o more
<1>6. /\ all \in Seq(Frames) /\ Len(all) = Len(taken[c]) + k
      /\ \A i \in 1..Len(all) :
           all[i] = IF i <= Len(taken[c]) THEN taken[c][i] ELSE more[i - Len(taken[c])]
  <2>1. /\ all \in Seq(Frames) /\ Len(all) = Len(taken[c]) + Len(more)
        /\ \A i \in 1..Len(taken[c]) + Len(more) :
             all[i] = IF i <= Len(taken[c]) THEN taken[c][i] ELSE more[i - Len(taken[c])]
    <3>1. taken[c] \in Seq(Frames) /\ more \in Seq(Frames)
          BY <1>0, <1>5
    <3> QED BY <3>1, ConcatProperties, Zenon
  <2> HIDE DEF all
  <2> QED BY <1>5, <2>1
<1> HIDE DEF all
<1>7. k # 0 => Len(taken[c]) = n + 1
      BY <1>0, <1>4 DEF TakenSoFar, Fresh, n
<1>18. Len(taken[c]) \in Nat /\ k \in Nat /\ n \in Int
      BY <1>0, <1>1 DEF Fresh
<1>8. \A i \in 1..Len(all) : all[i] = i - 1
  <2> SUFFICES ASSUME NEW i \in 1..Len(all) PROVE all[i] = i - 1
      OBVIOUS
  <2>1. CASE i <= Len(taken[c])
        BY <1>6, <1>18, <2>1 DEF TakenSoFar, TakenInOrder
  <2>2. CASE ~(i <= Len(taken[c]))
    <3> DEFINE m == i - Len(taken[c])
    <3>1. m \in 1..k /\ k # 0
          BY <1>6, <1>18, <2>2
    <3>2. all[i] = more[m]
          BY <1>6, <2>2
    <3>3. more[m] = n + m
          BY <1>2, <1>5, <3>1
    <3>4. m = i - (n + 1)
          BY <1>7, <3>1
    <3> QED BY <1>18, <3>2, <3>3, <3>4
  <2> QED BY <2>1, <2>2
<1>9. taken' = [taken EXCEPT ![c] = all]
      BY <1>1 DEF all, more
<1>10. k = Len(frames) /\ n + k >= 0 => Len(all) = n + k + 1
  <2>1. CASE k = 0
        BY <1>0, <1>6, <2>1 DEF TakenSoFar, n
  <2>2. CASE k # 0
    <3>1. n + k + 1 = Len(taken[c]) + k
          BY <1>18, <1>7, <2>2
    <3> QED BY <1>6, <3>1
  <2> QED BY <2>1, <2>2
<1>11. k = 0 => all = taken[c]
      BY <1>0, <1>5 DEF all
<1>12. /\ session' \in [Conns -> Broken..MaxCommands] /\ taken' \in [Conns -> Seq(Frames)]
       /\ local' \in [Conns -> {"none", "opening", "open", "ended"}]
  <2>1. n + k \in Broken..MaxCommands /\ Broken \in Broken..MaxCommands
        BY <1>3, BoundsAreNatural DEF Fresh, Broken
  <2>2. session' \in [Conns -> Broken..MaxCommands]
        BY <1>1, <2>1 DEF RelayTypes
  <2>3. taken' \in [Conns -> Seq(Frames)]
        BY <1>6, <1>9 DEF RelayTypes
  <2>4. local' \in [Conns -> {"none", "opening", "open", "ended"}]
        BY <1>1 DEF RelayTypes
  <2> QED BY <2>2, <2>3, <2>4
<1>13. \A e \in Conns : local'[e] # "ended" => session'[e] # Broken
       BY <1>1, <1>3 DEF RelayTypes, Fresh, Broken
<1>14. \A e \in Conns : \A i \in 1..Len(taken'[e]) : taken'[e][i] = i - 1
       BY <1>8, <1>9 DEF RelayTypes, TakenSoFar, TakenInOrder
<1>15. \A e \in Conns : session'[e] >= 0 => Len(taken'[e]) = session'[e] + 1
  <2> SUFFICES ASSUME NEW e \in Conns, session'[e] >= 0 PROVE Len(taken'[e]) = session'[e] + 1
      OBVIOUS
  <2>1. CASE e # c
        BY <1>1, <1>9, <2>1 DEF RelayTypes, TakenSoFar
  <2>2. CASE e = c /\ k = Len(frames)
        BY <1>1, <1>9, <1>10, <2>2 DEF RelayTypes
  <2>3. CASE e = c /\ k # Len(frames)
        BY <1>1, <2>3 DEF RelayTypes, Broken
  <2> QED BY <2>1, <2>2, <2>3
<1>16. \A e \in Conns : e # c => taken'[e] = taken[e]
       BY <1>9 DEF RelayTypes
<1>17. taken'[c] = taken[c] \/ taken[c] # <<>> \/ (frames # <<>> /\ frames[1] = 0)
  <2>1. CASE k = 0
        BY <1>9, <1>11, <2>1 DEF RelayTypes
  <2>2. CASE k # 0 /\ n = Fresh
        BY <1>4, <2>2
  <2>3. CASE k # 0 /\ n # Fresh
        BY <1>7, <1>0, <2>3 DEF Fresh
  <2> QED BY <2>1, <2>2, <2>3
<1> QED BY <1>12, <1>13, <1>14, <1>15, <1>16, <1>17

\* No socket, no frame.
LEMMA RelayInitially == RelayInit => RelayInv
<1> SUFFICES ASSUME RelayInit PROVE RelayInv
    OBVIOUS
<1> USE BoundsAreNatural DEF RelayInit
<1>1. RelayTypes
  <2>1. /\ sent \in [Conns -> Fresh..MaxCommands] /\ session \in [Conns -> Broken..MaxCommands]
        /\ queued \in [Conns -> Seq(Frames)] /\ taken \in [Conns -> Seq(Frames)]
        /\ local \in [Conns -> {"none", "opening", "open", "ended"}]
        /\ \A c \in Conns : local[c] # "ended" => session[c] # Broken
        BY DEF Fresh, Broken
  <2>2. /\ room \in [Sockets -> {"none", "open", "closing", "gone"}]
        /\ ws \in [Sockets -> Live \union {"unused", "closed"}] /\ relay \in 0..MaxSockets
        /\ life \in {"off", "on", "stopped"}
        OBVIOUS
  <2>3. connecting \in BOOLEAN /\ redial \in BOOLEAN
        OBVIOUS
  <2> QED BY <2>1, <2>2, <2>3 DEF RelayTypes
<1>4. DownTypes
      BY DEF DownTypes
<1>2. ChainInv /\ OneRoom
      BY DEF ChainInv, OneRoom, Live
<1>3. ProofIsOnce /\ ProofIsGone
      BY DEF ProofIsOnce, ProofIsGone
<1>5. TakenSoFar
      BY DEF TakenSoFar, TakenInOrder, Fresh
<1> QED BY <1>1, <1>2, <1>3, <1>4, <1>5 DEF RelayInv

\* Every step of the devices, the room, the relay client and the local connections keeps it.
LEMMA RelayStep ==
  ASSUME RelayInv, [RelayNext]_relayVars
  PROVE  RelayInv'
<1> USE BoundsAreNatural
<1>0. RelayTypes /\ DownTypes /\ ChainInv /\ OneRoom /\ ProofIsOnce /\ ProofIsGone /\ TakenSoFar
      BY DEF RelayInv
<1> USE <1>0
<1> USE DEF clientVars, localVars, roomVars, deviceVars
<1>1. ASSUME NEW c \in Conns, DeviceConnects(c) PROVE RelayInv'
  <2> USE <1>1 DEF DeviceConnects, SendToMac, Down
  <2>0. Down("open", c, 0) \in DownFrame /\ \A e \in Conns : ~IsProof(Down("open", c, 0), e)
        BY DEF DownFrame, Frames, IsProof
  <2> HIDE DEF Down
  <2>1. RelayTypes'
        BY DEF RelayTypes, Sockets, Frames, Fresh, Broken, Live
  <2>2. ChainInv' /\ OneRoom'
        BY DEF RelayTypes, ChainInv, OneRoom, Live, Sockets
  <2>3. down' = [t \in Sockets |-> down'[t]] /\ \A t \in Sockets : Shrinks(t)
        BY <2>0 DEF Shrinks, DownTypes
  <2>4. \A e \in Conns : queued'[e] = queued[e] \/ queued'[e] = <<>>
        BY DEF RelayTypes
  <2>5. DownTypes' /\ ProofIsOnce' /\ ProofIsGone'
        BY <2>3, <2>4, ProofsRest
  <2>6. TakenSoFar'
        BY DEF RelayTypes, TakenSoFar, TakenInOrder, Fresh, Broken
  <2> QED BY <2>1, <2>2, <2>5, <2>6 DEF RelayInv
<1>2. ASSUME NEW c \in Conns, DeviceSends(c) PROVE RelayInv'
  <2> USE <1>2 DEF DeviceSends, SendToMac, Down
  <2> DEFINE f == [type |-> "data", conn |-> c, frame |-> sent[c] + 1]
  <2>1. RelayTypes' /\ f \in DownFrame
        BY DEF RelayTypes, Sockets, Frames, Fresh, Broken, Live, DownFrame
  <2>2. ChainInv' /\ OneRoom'
        BY DEF ChainInv, OneRoom
  <2>3. /\ DownTypes' /\ down' = [t \in Sockets |-> down'[t]]
        /\ \A t \in Sockets :
             down'[t] = down[t] \/ (room[t] = "open" /\ down'[t] = Append(down[t], f))
    <3>1. down' = [t \in Sockets |-> IF room[t] = "open" THEN Append(down[t], f) ELSE down[t]]
          OBVIOUS
    <3>2. f \in DownFrame /\ down \in [Sockets -> Seq(DownFrame)]
          BY <2>1 DEF DownTypes
    <3> HIDE DEF f
    <3> HIDE <1>0, <1>2
    <3>3. \A t \in Sockets : Append(down[t], f) \in Seq(DownFrame)
          BY <3>2
    <3>4. down' \in [Sockets -> Seq(DownFrame)]
          BY <3>1, <3>2, <3>3
    <3>5. DownTypes'
          BY <3>4 DEF DownTypes
    <3>6. down' = [t \in Sockets |-> down'[t]]
          BY <3>4
    <3>7. \A t \in Sockets :
             down'[t] = down[t] \/ (room[t] = "open" /\ down'[t] = Append(down[t], f))
          BY <3>1
    <3> QED BY <3>5, <3>6, <3>7
  <2>4. ASSUME sent[c] # Fresh PROVE ProofIsOnce' /\ ProofIsGone'
    <3>1. \A e \in Conns : ~IsProof(f, e)
          BY <2>4 DEF IsProof, RelayTypes, Fresh
    <3>2. \A t \in Sockets : Shrinks(t)
          BY <2>1, <2>3, <3>1 DEF Shrinks
    <3>3. UNCHANGED taken /\ \A e \in Conns : sent'[e] = Fresh <=> sent[e] = Fresh
          BY <2>4 DEF RelayTypes, Fresh
    <3>4. queued' = queued
          OBVIOUS
    <3> HIDE <1>2
    <3> QED BY <2>3, <3>2, <3>3, <3>4, ProofsRest
  <2>5. ASSUME sent[c] = Fresh PROVE ProofIsOnce' /\ ProofIsGone'
    <3>1. ASSUME NEW e \in Conns, NEW s \in Sockets, NEW i \in DOMAIN down'[s],
                 IsProof(down'[s][i], e)
          PROVE  \/ i \in DOMAIN down[s] /\ IsProof(down[s][i], e) /\ e # c
                 \/ e = c /\ room[s] = "open" /\ i = Len(down[s]) + 1
      <4>1. CASE down'[s] = down[s]
            BY <2>5, <3>1, <4>1 DEF ProofIsGone
      <4>2. CASE room[s] = "open" /\ down'[s] = Append(down[s], f)
        <5>1. down[s] \in Seq(DownFrame)
              BY DEF DownTypes
        <5>2. CASE i \in DOMAIN down[s]
              BY <2>5, <3>1, <4>2, <5>1, <5>2 DEF ProofIsGone
        <5>3. CASE i \notin DOMAIN down[s]
          <6>1. i = Len(down[s]) + 1 /\ down'[s][i] = f
                BY <3>1, <4>2, <5>1, <5>3
          <6> QED BY <3>1, <4>2, <6>1 DEF IsProof
        <5> QED BY <5>2, <5>3
      <4> QED BY <2>3, <4>1, <4>2
    <3> HIDE DEF f
    <3>2. UNCHANGED <<queued, taken>> /\ sent'[c] # Fresh /\ taken[c] = <<>>
          BY <2>5 DEF TakenSoFar, RelayTypes, Fresh
    <3>3. \A e \in Conns : e # c => sent'[e] = sent[e]
          BY DEF RelayTypes
    <3>4. \A i \in DOMAIN queued[c] : queued[c][i] # 0
          BY <2>5 DEF ProofIsGone
    <3>5. ProofIsOnce'
          BY SMTT(30), <3>1, <3>2, <3>4 DEF ProofIsOnce, OneRoom
    <3>6. ProofIsGone'
          BY <3>1, <3>2, <3>3 DEF ProofIsGone
    <3> QED BY <3>5, <3>6
  <2>6. TakenSoFar'
        BY DEF RelayTypes, TakenSoFar, TakenInOrder, Fresh, Broken
  <2> QED BY <2>1, <2>2, <2>3, <2>4, <2>5, <2>6 DEF RelayInv
<1>3. ASSUME NEW c \in Conns, DeviceLeaves(c) PROVE RelayInv'
  <2> USE <1>3 DEF DeviceLeaves
  <2>1. RelayTypes'
        BY DEF RelayTypes, Sockets, Frames, Fresh, Broken, Live
  <2>2. ChainInv' /\ OneRoom'
        BY DEF RelayTypes, ChainInv, OneRoom, Live, Sockets
  <2>3. down' = [t \in Sockets |-> down'[t]] /\ \A t \in Sockets : Shrinks(t)
        BY DEF Shrinks, DownTypes, Shut, DownFrame, IsProof, Frames
  <2>4. \A e \in Conns : queued'[e] = queued[e] \/ queued'[e] = <<>>
        BY DEF RelayTypes
  <2>5. DownTypes' /\ ProofIsOnce' /\ ProofIsGone'
        BY <2>3, <2>4, ProofsRest
  <2>6. TakenSoFar'
        BY DEF RelayTypes, TakenSoFar, TakenInOrder, Fresh, Broken
  <2> QED BY <2>1, <2>2, <2>5, <2>6 DEF RelayInv
<1>4. ASSUME NEW c \in Conns, DeviceClosed(c) PROVE RelayInv'
  <2> USE <1>4 DEF DeviceClosed, SendToMac, Down
  <2>1. RelayTypes'
        BY DEF RelayTypes, Sockets, Frames, Fresh, Broken, Live
  <2>2. ChainInv' /\ OneRoom'
        BY DEF RelayTypes, ChainInv, OneRoom, Live, Sockets
  <2>3. down' = [t \in Sockets |-> down'[t]] /\ \A t \in Sockets : Shrinks(t)
        BY DEF Shrinks, DownTypes, Shut, DownFrame, IsProof, Frames
  <2>4. \A e \in Conns : queued'[e] = queued[e] \/ queued'[e] = <<>>
        BY DEF RelayTypes
  <2>5. DownTypes' /\ ProofIsOnce' /\ ProofIsGone'
        BY <2>3, <2>4, ProofsRest
  <2>6. TakenSoFar'
        BY DEF RelayTypes, TakenSoFar, TakenInOrder, Fresh, Broken
  <2> QED BY <2>1, <2>2, <2>5, <2>6 DEF RelayInv
<1>5. ASSUME NEW c \in Conns, LocalOpens(c) PROVE RelayInv'
  <2> USE <1>5 DEF LocalOpens, HandOver, Takes
  <2>0. /\ session[c] # Broken /\ queued[c] \in Seq(Frames)
        /\ taken[c] # <<>> => \A i \in DOMAIN queued[c] : queued[c][i] # 0
        BY DEF RelayTypes, ProofIsGone
  <2> HIDE DEF HandOver
  <2>1. RelayTypes'
        BY <2>0, HandOverTakes DEF RelayTypes
  <2>2. ChainInv' /\ OneRoom' /\ DownTypes'
        BY DEF ChainInv, OneRoom, DownTypes
  <2>3. \A e \in Conns : \A i \in DOMAIN queued'[e] : e # c /\ queued'[e] = queued[e]
        BY DEF RelayTypes
  <2>4. ProofIsOnce'
        BY <2>3 DEF ProofIsOnce
  <2>5. ProofIsGone'
    <3>1. ASSUME NEW s \in Sockets, NEW i \in DOMAIN down[s], IsProof(down[s][i], c)
          PROVE  taken[c] = <<>> /\ sent[c] # Fresh /\ taken'[c] = <<>>
      <4>1. taken[c] = <<>> /\ sent[c] # Fresh
            BY <3>1 DEF ProofIsGone
      <4>2. ~(queued[c] # <<>> /\ queued[c][1] = 0)
            BY <3>1, <2>0 DEF ProofIsOnce
      <4> QED BY <4>1, <4>2, <2>0, HandOverTakes
    <3>2. \A e \in Conns : e # c => taken'[e] = taken[e]
          BY <2>0, HandOverTakes
    <3> QED BY <2>3, <3>1, <3>2 DEF ProofIsGone
  <2>6. TakenSoFar'
    <3>1. \A e \in Conns : sent'[e] = Fresh => taken'[e] = <<>>
      <4>1. sent[c] = Fresh => ~(queued[c] # <<>> /\ queued[c][1] = 0) /\ taken[c] = <<>>
            BY <2>0 DEF ProofIsGone, TakenSoFar
      <4> QED BY <4>1, <2>0, HandOverTakes DEF TakenSoFar
    <3> QED BY <2>0, <3>1, HandOverTakes DEF TakenSoFar, TakenInOrder
  <2> QED BY <2>1, <2>2, <2>4, <2>5, <2>6 DEF RelayInv
<1>6. ASSUME NEW c \in Conns, LocalClosed(c) PROVE RelayInv'
  <2> USE <1>6 DEF LocalClosed
  <2>1. RelayTypes'
        BY DEF RelayTypes, Sockets, Frames, Fresh, Broken, Live
  <2>2. ChainInv' /\ OneRoom'
        BY DEF RelayTypes, ChainInv, OneRoom, Live, Sockets
  <2>3. down' = [t \in Sockets |-> down'[t]] /\ \A t \in Sockets : Shrinks(t)
        BY DEF Shrinks, DownTypes, Shut, DownFrame, IsProof, Frames
  <2>4. \A e \in Conns : queued'[e] = queued[e] \/ queued'[e] = <<>>
        BY DEF RelayTypes
  <2>5. DownTypes' /\ ProofIsOnce' /\ ProofIsGone'
        BY <2>3, <2>4, ProofsRest
  <2>6. TakenSoFar'
        BY DEF RelayTypes, TakenSoFar, TakenInOrder, Fresh, Broken
  <2> QED BY <2>1, <2>2, <2>5, <2>6 DEF RelayInv
<1>7. ASSUME NEW c \in Conns, LocalBreaks(c) PROVE RelayInv'
  <2> USE <1>7 DEF LocalBreaks
  <2>1. RelayTypes'
        BY DEF RelayTypes, Sockets, Frames, Fresh, Broken, Live
  <2>2. ChainInv' /\ OneRoom'
        BY DEF RelayTypes, ChainInv, OneRoom, Live, Sockets
  <2>3. down' = [t \in Sockets |-> down'[t]] /\ \A t \in Sockets : Shrinks(t)
        BY DEF Shrinks, DownTypes, Shut, DownFrame, IsProof, Frames
  <2>4. \A e \in Conns : queued'[e] = queued[e] \/ queued'[e] = <<>>
        BY DEF RelayTypes
  <2>5. DownTypes' /\ ProofIsOnce' /\ ProofIsGone'
        BY <2>3, <2>4, ProofsRest
  <2>6. TakenSoFar'
        BY DEF RelayTypes, TakenSoFar, TakenInOrder, Fresh, Broken
  <2> QED BY <2>1, <2>2, <2>5, <2>6 DEF RelayInv
<1>8. ASSUME NEW s \in Sockets, MacFrame(s) PROVE RelayInv'
  <2> USE <1>8 DEF MacFrame
  <2>1. RelayTypes'
        BY DEF RelayTypes, Sockets, Frames, Fresh, Broken, Live
  <2>2. ChainInv' /\ OneRoom'
        BY DEF RelayTypes, ChainInv, OneRoom, Live, Sockets
  <2>3. down' = [t \in Sockets |-> down'[t]] /\ \A t \in Sockets : Shrinks(t)
        BY DEF Shrinks, DownTypes, Shut, DownFrame, IsProof, Frames
  <2>4. \A e \in Conns : queued'[e] = queued[e] \/ queued'[e] = <<>>
        BY DEF RelayTypes
  <2>5. DownTypes' /\ ProofIsOnce' /\ ProofIsGone'
        BY <2>3, <2>4, ProofsRest
  <2>6. TakenSoFar'
        BY DEF RelayTypes, TakenSoFar, TakenInOrder, Fresh, Broken
  <2> QED BY <2>1, <2>2, <2>5, <2>6 DEF RelayInv
<1>9. ASSUME NEW s \in Sockets, MacClosed(s) PROVE RelayInv'
  <2> USE <1>9 DEF MacClosed
  <2>1. RelayTypes'
        BY DEF RelayTypes, Sockets, Frames, Fresh, Broken, Live
  <2>2. ChainInv' /\ OneRoom'
        BY DEF RelayTypes, ChainInv, OneRoom, Live, Sockets
  <2>3. down' = [t \in Sockets |-> down'[t]] /\ \A t \in Sockets : Shrinks(t)
        BY DEF Shrinks, DownTypes, Shut, DownFrame, IsProof, Frames
  <2>4. \A e \in Conns : queued'[e] = queued[e] \/ queued'[e] = <<>>
        BY DEF RelayTypes
  <2>5. DownTypes' /\ ProofIsOnce' /\ ProofIsGone'
        BY <2>3, <2>4, ProofsRest
  <2>6. TakenSoFar'
        BY DEF RelayTypes, TakenSoFar, TakenInOrder, Fresh, Broken
  <2> QED BY <2>1, <2>2, <2>5, <2>6 DEF RelayInv
<1>10. ASSUME NEW s \in Sockets, MacLost(s) PROVE RelayInv'
  <2> USE <1>10 DEF MacLost
  <2>1. RelayTypes'
        BY DEF RelayTypes, Sockets, Frames, Fresh, Broken, Live
  <2>2. ChainInv' /\ OneRoom'
        BY DEF RelayTypes, ChainInv, OneRoom, Live, Sockets
  <2>3. down' = [t \in Sockets |-> down'[t]] /\ \A t \in Sockets : Shrinks(t)
        BY DEF Shrinks, DownTypes, Shut, DownFrame, IsProof, Frames
  <2>4. \A e \in Conns : queued'[e] = queued[e] \/ queued'[e] = <<>>
        BY DEF RelayTypes
  <2>5. DownTypes' /\ ProofIsOnce' /\ ProofIsGone'
        BY <2>3, <2>4, ProofsRest
  <2>6. TakenSoFar'
        BY DEF RelayTypes, TakenSoFar, TakenInOrder, Fresh, Broken
  <2> QED BY <2>1, <2>2, <2>5, <2>6 DEF RelayInv
<1>11. ASSUME NEW s \in Sockets, RelayOpens(s) PROVE RelayInv'
  <2> USE <1>11 DEF RelayOpens, AcceptMac
  <2>1. RelayTypes'
        BY DEF RelayTypes, Sockets, Frames, Fresh, Broken, Live
  <2>2. ChainInv' /\ OneRoom'
        BY DEF RelayTypes, ChainInv, OneRoom, Live, Sockets
  <2>3. down' = [t \in Sockets |-> down'[t]] /\ \A t \in Sockets : Shrinks(t)
        BY DEF Shrinks, DownTypes, Shut, DownFrame, IsProof, Frames
  <2>4. \A e \in Conns : queued'[e] = queued[e] \/ queued'[e] = <<>>
        BY DEF RelayTypes
  <2>5. DownTypes' /\ ProofIsOnce' /\ ProofIsGone'
        BY <2>3, <2>4, ProofsRest
  <2>6. TakenSoFar'
        BY DEF RelayTypes, TakenSoFar, TakenInOrder, Fresh, Broken
  <2> QED BY <2>1, <2>2, <2>5, <2>6 DEF RelayInv
<1>12. ASSUME NEW s \in Sockets, RelayClosed(s) PROVE RelayInv'
  <2> USE <1>12 DEF RelayClosed, RelayEnds, CloseLocals, ScheduleReconnect
  <2>8. /\ ws' = [ws EXCEPT ![s] = "closed"] /\ relay' = (IF relay = s THEN 0 ELSE relay)
        /\ UNCHANGED <<life, connecting>> /\ s \in Sockets /\ s # 0 /\ ws[s] \in Live
        BY DEF Live, Sockets
  <2>9. redial' \in BOOLEAN /\ (life # "stopped" => redial' = TRUE)
                             /\ (life = "stopped" => redial' = redial)
        BY DEF RelayTypes
  <2>1. RelayTypes'
        BY DEF RelayTypes, Sockets, Frames, Fresh, Broken, Live
  <2>2. ChainInv' /\ OneRoom'
        <3>1. ChainInv'
          BY <2>8, <2>9 DEF ChainInv, RelayTypes, Live
    <3>2. OneRoom'
          BY DEF OneRoom
    <3> QED BY <3>1, <3>2
  <2>3. down' = [t \in Sockets |-> down'[t]] /\ \A t \in Sockets : Shrinks(t)
        BY DEF Shrinks, DownTypes, Shut, DownFrame, IsProof, Frames
  <2>4. \A e \in Conns : queued'[e] = queued[e] \/ queued'[e] = <<>>
        BY DEF RelayTypes
  <2>5. DownTypes' /\ ProofIsOnce' /\ ProofIsGone'
        BY <2>3, <2>4, ProofsRest
  <2>6. TakenSoFar'
        BY DEF RelayTypes, TakenSoFar, TakenInOrder, Fresh, Broken
  <2> QED BY <2>1, <2>2, <2>5, <2>6 DEF RelayInv
<1>13. ASSUME NEW s \in Sockets, RelayMessage(s) PROVE RelayInv'
  <2> DEFINE g == Head(down[s])
             e == g.conn
  <2>0. /\ down[s] \in Seq(DownFrame) /\ down[s] # <<>> /\ g # Shut /\ g = down[s][1]
        /\ down' = [down EXCEPT ![s] = Tail(@)] /\ 1 \in DOMAIN down[s]
        BY <1>13 DEF RelayMessage, DownTypes
  <2>1. e \in Conns /\ g.frame \in Frames /\ g.type \in {"open", "data", "close"}
    <3>1. g \in DownFrame
          BY <2>0
    <3>2. g \in [type : {"open", "data", "close"}, conn : Conns, frame : Frames]
          BY <2>0, <3>1 DEF DownFrame
    <3> QED BY <3>2
  <2>2. UNCHANGED <<sent, room, life, connecting, redial, relay, ws>>
        BY <1>13 DEF RelayMessage
  <2>9. \/ /\ g.type = "close"
           /\ local' = [local EXCEPT ![e] = "none"]
           /\ queued' = [queued EXCEPT ![e] = <<>>]
           /\ session' = [session EXCEPT ![e] = Fresh]
           /\ taken' = taken
        \/ /\ g.type # "close" /\ local[e] # "open"
           /\ local' = [local EXCEPT ![e] = IF @ = "none" THEN "opening" ELSE @]
           /\ queued' = [queued EXCEPT ![e] = IF g.type = "data" THEN Append(@, g.frame)
                                            ELSE @]
           /\ UNCHANGED <<session, taken>>
        \/ g.type = "open" /\ local[e] = "open" /\ UNCHANGED localVars
        \/ /\ g.type = "data" /\ local[e] = "open"
           /\ HandOver(e, <<g.frame>>) /\ queued' = queued
        BY <1>13 DEF RelayMessage
  <2>3. ChainInv' /\ OneRoom'
        BY <2>2 DEF ChainInv, OneRoom
  <2>4. /\ down' = [t \in Sockets |-> down'[t]] /\ \A t \in Sockets : Shrinks(t)
        BY <2>0 DEF DownTypes, Shrinks
  <2>5. CASE g.type = "close" \/ (g.type = "open" /\ local[e] = "open")
    <3>1. \A x \in Conns : queued'[x] = queued[x] \/ queued'[x] = <<>>
          BY <2>1, <2>5, <2>9 DEF RelayTypes
    <3>2. taken' = taken
          BY <2>5, <2>9
    <3>3. DownTypes' /\ ProofIsOnce' /\ ProofIsGone'
          BY <2>2, <2>4, <3>1, <3>2, ProofsRest
    <3>4. Fresh \in Broken..MaxCommands /\ Fresh # Broken /\ ~(Fresh >= 0)
          BY BoundsAreNatural DEF Fresh, Broken
    <3>5. RelayTypes'
      <4>1. queued' \in [Conns -> Seq(Frames)]
        <5>1. queued' = [queued EXCEPT ![e] = <<>>] \/ queued' = queued
              BY <2>5, <2>9
        <5>2. queued \in [Conns -> Seq(Frames)] /\ <<>> \in Seq(Frames)
              BY DEF RelayTypes
        <5> HIDE <2>9, <1>0
        <5> QED BY <2>1, <5>1, <5>2
      <4>2. local' \in [Conns -> {"none", "opening", "open", "ended"}]
            BY <2>1, <2>5, <2>9 DEF RelayTypes, localVars
      <4>3. session' \in [Conns -> Broken..MaxCommands]
            BY <2>1, <2>5, <2>9, <3>4 DEF RelayTypes, localVars
      <4>4. \A x \in Conns : local'[x] # "ended" => session'[x] # Broken
            BY <2>1, <2>5, <2>9, <3>4 DEF RelayTypes, localVars
      <4> QED BY <2>2, <3>2, <4>1, <4>2, <4>3, <4>4 DEF RelayTypes
    <3>6. TakenSoFar'
      <4>1. session' = [session EXCEPT ![e] = Fresh] \/ session' = session
            BY <2>5, <2>9 DEF localVars
      <4>2. \A x \in Conns : session'[x] >= 0 => session'[x] = session[x]
            BY <2>1, <3>4, <4>1 DEF RelayTypes
      <4>3. taken' = taken /\ sent' = sent
            BY <2>2, <3>2
      <4> HIDE <2>9
      <4> QED BY <4>2, <4>3 DEF TakenSoFar, TakenInOrder
    <3> QED BY <2>3, <3>3, <3>5, <3>6 DEF RelayInv
  <2>8. ASSUME NEW x \in Conns, IsProof(g, x)
        PROVE  /\ \A t \in Sockets : \A j \in DOMAIN down'[t] : ~IsProof(down'[t][j], x)
               /\ \A i \in DOMAIN queued[x] : queued[x][i] # 0
               /\ sent[x] # Fresh /\ taken[x] = <<>>
    <3>1. \A i \in DOMAIN queued[x] : queued[x][i] # 0
          BY <2>0, <2>8 DEF ProofIsOnce
    <3>2. sent[x] # Fresh /\ taken[x] = <<>>
          BY <2>0, <2>8 DEF ProofIsGone
    <3>3. ASSUME NEW t \in Sockets, NEW j \in DOMAIN down'[t], IsProof(down'[t][j], x)
          PROVE  FALSE
      <4>1. CASE t = s
        <5>1. j \in 1..Len(Tail(down[s])) /\ down'[s][j] = Tail(down[s])[j]
              BY <2>0, <3>3, <4>1 DEF DownTypes
        <5>2. j + 1 \in DOMAIN down[s] /\ down'[s][j] = down[s][j + 1] /\ j + 1 # 1
              BY <2>0, <5>1
        <5> QED BY <2>0, <2>8, <3>3, <4>1, <5>2 DEF ProofIsOnce
      <4>2. CASE t # s
        <5>1. down'[t] = down[t]
              BY <2>0, <4>2 DEF DownTypes
        <5> QED BY <2>0, <2>8, <3>3, <4>2, <5>1 DEF ProofIsOnce
      <4> QED BY <4>1, <4>2
    <3> QED BY <3>1, <3>2, <3>3
  <2>6. CASE g.type # "close" /\ local[e] # "open"
    <3>1. /\ local' = [local EXCEPT ![e] = IF @ = "none" THEN "opening" ELSE @]
          /\ queued' = [queued EXCEPT ![e] = IF g.type = "data" THEN Append(@, g.frame) ELSE @]
          /\ UNCHANGED <<session, taken>>
          BY <2>6, <2>9
    <3>2. RelayTypes' /\ TakenSoFar'
          BY SMTT(30), <2>1, <2>2, <3>1 DEF RelayTypes, TakenSoFar, TakenInOrder
    <3>3. ASSUME NEW x \in Conns, NEW i \in DOMAIN queued'[x], queued'[x][i] = 0
          PROVE  \/ i \in DOMAIN queued[x] /\ queued[x][i] = 0
                 \/ x = e /\ IsProof(g, x) /\ i = Len(queued[x]) + 1
      <4>1. queued[e] \in Seq(Frames) /\ queued \in [Conns -> Seq(Frames)]
            BY <2>1 DEF RelayTypes
      <4>2. CASE x = e /\ g.type = "data"
        <5>1. queued'[x] = Append(queued[e], g.frame)
              BY <2>1, <3>1, <4>1, <4>2
        <5>2. CASE i = Len(queued[e]) + 1
              BY <2>0, <3>3, <4>1, <4>2, <5>1, <5>2 DEF IsProof
        <5>3. CASE i # Len(queued[e]) + 1
              BY <3>3, <4>1, <4>2, <5>1, <5>3
        <5> QED BY <5>2, <5>3
      <4>3. CASE ~(x = e /\ g.type = "data")
        <5>1. queued'[x] = queued[x]
              BY <2>1, <3>1, <4>1, <4>3
        <5> QED BY <3>3, <5>1
      <4> QED BY <4>2, <4>3
    <3>7. \A x \in Conns : \A t \in Sockets : \A i \in DOMAIN down'[t] :
             IsProof(down'[t][i], x) => \E j \in DOMAIN down[t] : IsProof(down[t][j], x)
          BY <2>4, DownRests
    <3>8. ASSUME NEW x \in Conns, NEW t \in Sockets, NEW i \in DOMAIN down'[t],
                 IsProof(down'[t][i], x)
          PROVE  \A j \in DOMAIN queued'[x] : queued'[x][j] # 0
      <4>1. ~IsProof(g, x)
            BY <2>8, <3>8
      <4>2. \A j \in DOMAIN queued[x] : queued[x][j] # 0
            BY <3>7, <3>8 DEF ProofIsOnce
      <4> QED BY <3>3, <4>1, <4>2
    <3>9. ASSUME NEW x \in Conns, NEW i \in DOMAIN queued'[x], NEW j \in DOMAIN queued'[x],
                 queued'[x][i] = 0, queued'[x][j] = 0
          PROVE  i = j
      <4>1. CASE IsProof(g, x)
            BY <2>8, <3>3, <3>9, <4>1
      <4>2. CASE ~IsProof(g, x)
            BY <3>3, <3>9, <4>2 DEF ProofIsOnce
      <4> QED BY <4>1, <4>2
    <3>5. ProofIsOnce'
      <4>1. \A x \in Conns : \A t, u \in Sockets :
              \A i \in DOMAIN down'[t], j \in DOMAIN down'[u] :
                IsProof(down'[t][i], x) /\ IsProof(down'[u][j], x) => t = u /\ i = j
            BY <2>4, DownRests
      <4> QED BY <3>8, <3>9, <4>1 DEF ProofIsOnce
    <3>6. ProofIsGone'
      <4> SUFFICES ASSUME NEW x \in Conns, sent'[x] = Fresh \/ taken'[x] # <<>>
                   PROVE  /\ \A t \in Sockets : \A i \in DOMAIN down'[t] :
                               ~IsProof(down'[t][i], x)
                          /\ \A i \in DOMAIN queued'[x] : queued'[x][i] # 0
          BY DEF ProofIsGone
      <4>1. /\ \A t \in Sockets : \A i \in DOMAIN down[t] : ~IsProof(down[t][i], x)
            /\ \A i \in DOMAIN queued[x] : queued[x][i] # 0
            BY <2>2, <3>1 DEF ProofIsGone
      <4>2. ~IsProof(g, x)
            BY <2>0, <4>1
      <4> QED BY <3>3, <3>7, <4>1, <4>2
    <3> QED BY <2>3, <2>4, <3>2, <3>5, <3>6, DownRests DEF RelayInv
  <2>7. CASE g.type = "data" /\ local[e] = "open"
    <3>0. /\ HandOver(e, <<g.frame>>) /\ queued' = queued
          BY <2>7, <2>9
    <3>1. /\ <<g.frame>> \in Seq(Frames) /\ session[e] # Broken /\ <<g.frame>>[1] = g.frame
          /\ DOMAIN <<g.frame>> = {1} /\ (g.frame = 0 <=> IsProof(g, e))
          BY <2>0, <2>1, <2>7 DEF RelayTypes, IsProof
    <3>2. taken[e] # <<>> => \A i \in DOMAIN <<g.frame>> : <<g.frame>>[i] # 0
          BY <2>0, <2>1, <3>1 DEF ProofIsGone
    <3> DEFINE frames == <<g.frame>>
    <3> HIDE DEF frames
    <3>3. /\ session' \in [Conns -> Broken..MaxCommands]
          /\ taken' \in [Conns -> Seq(Frames)]
          /\ local' \in [Conns -> {"none", "opening", "open", "ended"}]
          /\ \A x \in Conns : local'[x] # "ended" => session'[x] # Broken
          /\ \A x \in Conns : \A i \in 1..Len(taken'[x]) : taken'[x][i] = i - 1
          /\ \A x \in Conns : session'[x] >= 0 => Len(taken'[x]) = session'[x] + 1
          /\ \A x \in Conns : x # e => taken'[x] = taken[x]
          /\ taken'[e] = taken[e] \/ taken[e] # <<>> \/ (frames # <<>> /\ frames[1] = 0)
          BY <2>1, <3>0, <3>1, <3>2, HandOverTakes DEF frames
    <3>4. taken'[e] = <<>> \/ taken[e] # <<>> \/ IsProof(g, e)
          BY <3>1, <3>3 DEF frames
    <3>5. RelayTypes'
          BY <2>2, <3>0, <3>3 DEF RelayTypes
    <3>6. ProofIsOnce'
          BY <2>4, <3>0, DownRests DEF ProofIsOnce
    <3>7. ProofIsGone'
      <4>1. \A x \in Conns : \A t \in Sockets : \A i \in DOMAIN down'[t] :
              IsProof(down'[t][i], x) => \E j \in DOMAIN down[t] : IsProof(down[t][j], x)
            BY <2>4, DownRests
      <4> SUFFICES ASSUME NEW x \in Conns, sent'[x] = Fresh \/ taken'[x] # <<>>
                   PROVE  /\ \A t \in Sockets : \A i \in DOMAIN down'[t] :
                               ~IsProof(down'[t][i], x)
                          /\ \A i \in DOMAIN queued[x] : queued[x][i] # 0
          BY <3>0 DEF ProofIsGone
      <4>2. CASE sent[x] = Fresh \/ taken[x] # <<>>
            BY <4>1, <4>2 DEF ProofIsGone
      <4>3. CASE ~(sent[x] = Fresh \/ taken[x] # <<>>)
        <5>1. taken'[x] # taken[x]
              BY <2>2, <4>3
        <5>2. x = e /\ IsProof(g, e)
              BY <3>3, <3>4, <5>1, <4>3
        <5> QED BY <2>8, <5>2
      <4> QED BY <4>2, <4>3
    <3>8. TakenSoFar'
          BY <2>2, <2>8, <3>3, <3>4 DEF TakenSoFar, TakenInOrder
    <3> QED BY <2>3, <2>4, <3>5, <3>6, <3>7, <3>8, DownRests DEF RelayInv
  <2> QED BY <2>1, <2>5, <2>6, <2>7
<1>14. ASSUME NEW s \in Sockets, RelayFails(s) PROVE RelayInv'
  <2> USE <1>14 DEF RelayFails, RelayEnds, CloseLocals, ScheduleReconnect
  <2>8. /\ ws' = [ws EXCEPT ![s] = "closed"] /\ relay' = (IF relay = s THEN 0 ELSE relay)
        /\ UNCHANGED <<life, connecting>> /\ s \in Sockets /\ s # 0 /\ ws[s] \in Live
        BY DEF Live, Sockets
  <2>9. redial' \in BOOLEAN /\ (life # "stopped" => redial' = TRUE)
                             /\ (life = "stopped" => redial' = redial)
        BY DEF RelayTypes
  <2>1. RelayTypes'
        BY DEF RelayTypes, Sockets, Frames, Fresh, Broken, Live
  <2>2. ChainInv' /\ OneRoom'
        <3>1. ChainInv'
          BY <2>8, <2>9 DEF ChainInv, RelayTypes, Live
    <3>2. OneRoom'
          BY DEF OneRoom
    <3> QED BY <3>1, <3>2
  <2>3. down' = [t \in Sockets |-> down'[t]] /\ \A t \in Sockets : Shrinks(t)
        BY DEF Shrinks, DownTypes, Shut, DownFrame, IsProof, Frames
  <2>4. \A e \in Conns : queued'[e] = queued[e] \/ queued'[e] = <<>>
        BY DEF RelayTypes
  <2>5. DownTypes' /\ ProofIsOnce' /\ ProofIsGone'
        BY <2>3, <2>4, ProofsRest
  <2>6. TakenSoFar'
        BY DEF RelayTypes, TakenSoFar, TakenInOrder, Fresh, Broken
  <2> QED BY <2>1, <2>2, <2>5, <2>6 DEF RelayInv
<1>15. CASE StartsRelay
  <2> USE <1>15 DEF StartsRelay
  <2>1. RelayTypes'
        BY DEF RelayTypes, Sockets, Frames, Fresh, Broken, Live
  <2>2. ChainInv' /\ OneRoom'
        BY DEF RelayTypes, ChainInv, OneRoom, Live, Sockets
  <2>3. down' = [t \in Sockets |-> down'[t]] /\ \A t \in Sockets : Shrinks(t)
        BY DEF Shrinks, DownTypes, Shut, DownFrame, IsProof, Frames
  <2>4. \A e \in Conns : queued'[e] = queued[e] \/ queued'[e] = <<>>
        BY DEF RelayTypes
  <2>5. DownTypes' /\ ProofIsOnce' /\ ProofIsGone'
        BY <2>3, <2>4, ProofsRest
  <2>6. TakenSoFar'
        BY DEF RelayTypes, TakenSoFar, TakenInOrder, Fresh, Broken
  <2> QED BY <2>1, <2>2, <2>5, <2>6 DEF RelayInv
<1>16. CASE Dials
  <2> USE <1>16 DEF Dials, ScheduleReconnect
  <2>8. /\ connecting /\ connecting' = FALSE /\ life' = life /\ UNCHANGED localVars
        /\ UNCHANGED roomVars /\ UNCHANGED deviceVars
        OBVIOUS
  <2>9. \/ /\ relay' = relay /\ ws' = ws
           /\ (life # "stopped" => redial' = TRUE) /\ (life = "stopped" => redial' = redial)
        \/ /\ life = "on" /\ redial' = redial
           /\ \E s \in Sockets : relay' = s /\ ws' = [ws EXCEPT ![s] = "connecting"]
        BY DEF RelayTypes
  <2>10. /\ ws' \in [Sockets -> Live \union {"unused", "closed"}] /\ relay' \in 0..MaxSockets
         /\ redial' \in BOOLEAN
    <3>1. redial' \in BOOLEAN
          BY DEF RelayTypes
    <3>2. CASE relay' = relay /\ ws' = ws
          BY <3>1, <3>2 DEF RelayTypes
    <3>3. ASSUME NEW s \in Sockets, relay' = s, ws' = [ws EXCEPT ![s] = "connecting"]
          PROVE  /\ ws' \in [Sockets -> Live \union {"unused", "closed"}]
                 /\ relay' \in 0..MaxSockets
          BY <3>3 DEF RelayTypes, Live, Sockets
    <3> QED BY <2>9, <3>1, <3>2, <3>3
  <2>1. RelayTypes'
        BY <2>8, <2>10 DEF RelayTypes
  <2>2. ChainInv' /\ OneRoom'
        <3>1. ChainInv'
          BY <2>8, <2>9 DEF ChainInv, RelayTypes, Live, Sockets
    <3>2. OneRoom'
          BY DEF OneRoom
    <3> QED BY <3>1, <3>2
  <2>3. down' = [t \in Sockets |-> down'[t]] /\ \A t \in Sockets : Shrinks(t)
        BY DEF Shrinks, DownTypes, Shut, DownFrame, IsProof, Frames
  <2>4. \A e \in Conns : queued'[e] = queued[e] \/ queued'[e] = <<>>
        BY DEF RelayTypes
  <2>5. DownTypes' /\ ProofIsOnce' /\ ProofIsGone'
        BY <2>3, <2>4, ProofsRest
  <2>6. TakenSoFar'
        BY DEF RelayTypes, TakenSoFar, TakenInOrder, Fresh, Broken
  <2> QED BY <2>1, <2>2, <2>5, <2>6 DEF RelayInv
<1>17. CASE RedialFires
  <2> USE <1>17 DEF RedialFires
  <2>1. RelayTypes'
        BY DEF RelayTypes, Sockets, Frames, Fresh, Broken, Live
  <2>2. ChainInv' /\ OneRoom'
        BY DEF RelayTypes, ChainInv, OneRoom, Live, Sockets
  <2>3. down' = [t \in Sockets |-> down'[t]] /\ \A t \in Sockets : Shrinks(t)
        BY DEF Shrinks, DownTypes, Shut, DownFrame, IsProof, Frames
  <2>4. \A e \in Conns : queued'[e] = queued[e] \/ queued'[e] = <<>>
        BY DEF RelayTypes
  <2>5. DownTypes' /\ ProofIsOnce' /\ ProofIsGone'
        BY <2>3, <2>4, ProofsRest
  <2>6. TakenSoFar'
        BY DEF RelayTypes, TakenSoFar, TakenInOrder, Fresh, Broken
  <2> QED BY <2>1, <2>2, <2>5, <2>6 DEF RelayInv
<1>18. CASE Stop
  <2> USE <1>18 DEF Stop, CloseLocals
  <2>8. /\ local' = [e \in Conns |-> "none"] /\ queued' = [e \in Conns |-> <<>>]
        /\ session' = [e \in Conns |-> Fresh] /\ taken' = taken
        OBVIOUS
  <2>9. /\ ws' \in [Sockets -> Live \union {"unused", "closed"}] /\ relay' \in 0..MaxSockets
        /\ life' \in {"off", "on", "stopped"} /\ room' = room /\ sent' = sent
        BY DEF RelayTypes, Live, Sockets
  <2>10. connecting' \in BOOLEAN /\ redial' \in BOOLEAN
        BY DEF RelayTypes
  <2>11. Fresh \in Broken..MaxCommands
        BY BoundsAreNatural DEF Fresh, Broken
  <2>12. /\ session' \in [Conns -> Broken..MaxCommands] /\ queued' \in [Conns -> Seq(Frames)]
         /\ local' \in [Conns -> {"none", "opening", "open", "ended"}]
         /\ \A e \in Conns : local'[e] = "none"
        BY <2>8, <2>11
  <2>1. RelayTypes'
    <3>1. taken' \in [Conns -> Seq(Frames)]
          BY <2>8 DEF RelayTypes
    <3>2. room' \in [Sockets -> {"none", "open", "closing", "gone"}]
          BY <2>9 DEF RelayTypes
    <3>3. sent' \in [Conns -> Fresh..MaxCommands]
          BY <2>9 DEF RelayTypes
    <3>4. \A e \in Conns : local'[e] # "ended" => session'[e] # Broken
          BY <2>8 DEF Fresh, Broken
    <3> HIDE <1>18
    <3> QED BY <2>9, <2>10, <2>12, <3>1, <3>2, <3>3, <3>4 DEF RelayTypes
  <2>2. ChainInv' /\ OneRoom'
        BY DEF RelayTypes, ChainInv, OneRoom, Live, Sockets
  <2>3. down' = [t \in Sockets |-> down'[t]] /\ \A t \in Sockets : Shrinks(t)
        BY DEF Shrinks, DownTypes, Shut, DownFrame, IsProof, Frames
  <2>4. \A e \in Conns : queued'[e] = queued[e] \/ queued'[e] = <<>>
        BY DEF RelayTypes
  <2>5. DownTypes' /\ ProofIsOnce' /\ ProofIsGone'
        BY <2>3, <2>4, ProofsRest
  <2>6. TakenSoFar'
        BY DEF RelayTypes, TakenSoFar, TakenInOrder, Fresh, Broken
  <2> QED BY <2>1, <2>2, <2>5, <2>6 DEF RelayInv
<1>19. CASE Crash
  <2> USE <1>19 DEF Crash, CloseLocals
  <2>8. /\ local' = [e \in Conns |-> "none"] /\ queued' = [e \in Conns |-> <<>>]
        /\ session' = [e \in Conns |-> Fresh] /\ taken' = taken
        OBVIOUS
  <2>9. /\ ws' \in [Sockets -> Live \union {"unused", "closed"}] /\ relay' \in 0..MaxSockets
        /\ life' \in {"off", "on", "stopped"} /\ room' = room /\ sent' = sent
        BY DEF RelayTypes, Live, Sockets
  <2>10. connecting' \in BOOLEAN /\ redial' \in BOOLEAN
        BY DEF RelayTypes
  <2>11. Fresh \in Broken..MaxCommands
        BY BoundsAreNatural DEF Fresh, Broken
  <2>12. /\ session' \in [Conns -> Broken..MaxCommands] /\ queued' \in [Conns -> Seq(Frames)]
         /\ local' \in [Conns -> {"none", "opening", "open", "ended"}]
         /\ \A e \in Conns : local'[e] = "none"
        BY <2>8, <2>11
  <2>1. RelayTypes'
    <3>1. taken' \in [Conns -> Seq(Frames)]
          BY <2>8 DEF RelayTypes
    <3>2. room' \in [Sockets -> {"none", "open", "closing", "gone"}]
          BY <2>9 DEF RelayTypes
    <3>3. sent' \in [Conns -> Fresh..MaxCommands]
          BY <2>9 DEF RelayTypes
    <3>4. \A e \in Conns : local'[e] # "ended" => session'[e] # Broken
          BY <2>8 DEF Fresh, Broken
    <3> HIDE <1>19
    <3> QED BY <2>9, <2>10, <2>12, <3>1, <3>2, <3>3, <3>4 DEF RelayTypes
  <2>2. ChainInv' /\ OneRoom'
        BY DEF RelayTypes, ChainInv, OneRoom, Live, Sockets
  <2>3. down' = [t \in Sockets |-> down'[t]] /\ \A t \in Sockets : Shrinks(t)
        BY DEF Shrinks, DownTypes, Shut, DownFrame, IsProof, Frames
  <2>4. \A e \in Conns : queued'[e] = queued[e] \/ queued'[e] = <<>>
        BY DEF RelayTypes
  <2>5. DownTypes' /\ ProofIsOnce' /\ ProofIsGone'
        BY <2>3, <2>4, ProofsRest
  <2>6. TakenSoFar'
        BY <2>8 DEF RelayTypes, TakenSoFar, TakenInOrder, Fresh
  <2> QED BY <2>1, <2>2, <2>5, <2>6 DEF RelayInv
<1>20. CASE UNCHANGED relayVars
  <2> USE <1>20 DEF relayVars
  <2>1. RelayTypes' /\ ChainInv' /\ OneRoom' /\ TakenSoFar'
        BY DEF RelayTypes, ChainInv, OneRoom, TakenSoFar, TakenInOrder
  <2>2. DownTypes' /\ ProofIsOnce' /\ ProofIsGone'
        BY DEF DownTypes, ProofIsOnce, ProofIsGone, IsProof
  <2> QED BY <2>1, <2>2 DEF RelayInv
<1> QED
    BY <1>1, <1>2, <1>3, <1>4, <1>5, <1>6, <1>7, <1>8, <1>9, <1>10, <1>11, <1>12, <1>13, <1>14,
       <1>15, <1>16, <1>17, <1>18, <1>19, <1>20
    DEF RelayNext, LocalStep, RoomStep, SocketStep, DialsOn

\* One of the three states is one member of Links.
LEMMA RelaySuffices == RelayInv => RelayKeepsOrder
<1> SUFFICES ASSUME RelayInv PROVE RelayKeepsOrder
    OBVIOUS
<1>1. CASE life = "on"
  <2>1. \E l : Links = {l}
    <3>1. CASE relay # 0
      <4>1. Links = {relay}
            BY <1>1, <3>1 DEF RelayInv, RelayTypes, ChainInv, Links, Live, Sockets
      <4> QED BY <4>1
    <3>2. CASE relay = 0 /\ connecting
      <4>1. Links = {-1}
            BY <1>1, <3>2, BoundsAreNatural DEF RelayInv, RelayTypes, ChainInv, Links, Live,
               Sockets
      <4> QED BY <4>1
    <3>3. CASE relay = 0 /\ ~connecting
      <4>1. Links = {-2}
            BY <1>1, <3>3, BoundsAreNatural DEF RelayInv, RelayTypes, ChainInv, Links, Live,
               Sockets
      <4> QED BY <4>1
    <3> QED BY <3>1, <3>2, <3>3
  <2>2. Cardinality(Links) = 1
        BY <2>1, FS_Singleton
  <2> QED BY <1>1, <2>2 DEF RelayInv, TakenSoFar, RelayKeepsOrder, OneChain
<1>2. CASE life # "on"
  <2>1. life = "off" => Links = {}
        BY BoundsAreNatural DEF RelayInv, RelayTypes, ChainInv, Links, Live, Sockets
  <2> QED BY <1>2, <2>1 DEF RelayInv, TakenSoFar, RelayKeepsOrder, OneChain, ChainInv
<1> QED BY <1>1, <1>2

\* Whatever crashes, closes or comes late on whichever socket, the relay client neither
\* gives up nor dials twice, and sessions take the frames of a connection in order.
THEOREM RelayKeeps == RelaySpec => []RelayKeepsOrder
<1>1. RelaySpec => []RelayInv
      BY RelayInitially, RelayStep, PTL DEF RelaySpec
<1> QED BY <1>1, RelaySuffices, PTL

-----------------------------------------------------------------------------
(* 3. The registry. *)


\* The types of what the proof reads of the registry.
RegistryTypes ==
  /\ deviceRow \in [Devices -> {"none", "active", "revoked"}]
  /\ calls \in [Lanes -> Calls \union {Idle}]
  /\ late \subseteq Requests /\ todo \subseteq Devices
  /\ cloud \in [Devices -> {"absent", "active", "inactive"}]
  /\ cloudApns \in [Devices -> Tokens]
  /\ apnsNow \in [Devices -> 1..MaxRotations + 1]
  /\ marker \in [Devices -> BOOLEAN] /\ held \in [Devices -> BOOLEAN]

\* What takes a device off the cloud is under way for a revoked one only.
ActiveIsLeft ==
  /\ \A d \in todo : deviceRow[d] = "revoked"
  /\ \A i \in Lanes :
       IsCall(i) /\ IsDelete(calls[i]) => deviceRow[calls[i].dev] = "revoked"
  /\ \A r \in late : IsDelete(r) => deviceRow[r.dev] = "revoked"

\* No token under way, or known to the cloud, is newer than the phone's.
TokensAreOld ==
  /\ \A d \in Devices : cloudApns[d] <= apnsNow[d]
  /\ \A i \in Lanes : IsCall(i) => calls[i].apns <= apnsNow[calls[i].dev]
  /\ \A r \in late : r.apns <= apnsNow[r.dev]

\* Nobody is given credentials without a row.
RowComesFirst ==
  /\ \A d \in Devices : held[d] => deviceRow[d] # "none"
  /\ \A i \in Lanes :
       IsCall(i) /\ calls[i].op = "provision" => deviceRow[calls[i].dev] # "none"

\* Who has credentials, or is about to be given them, has a row that is active.
GivenIsActive ==
  /\ CredentialsWork /\ RowComesFirst
  /\ \A i \in Lanes :
       /\ IsCall(i) /\ calls[i].op = "provision" /\ calls[i].at = "ok"
       /\ deviceRow[calls[i].dev] = "active" /\ apnsNow[calls[i].dev] = 1
       => cloud[calls[i].dev] = "active"

\* All of it.
RegistryInv == RegistryTypes /\ ActiveIsLeft /\ TokensAreOld /\ GivenIsActive

\* What RetiredStaysOut says of a step.
StaysOut == \A d \in Devices : Retired(d) => Retired(d)'

\* No row, no call.
LEMMA RegistryInitially == RegistryInit => RegistryInv
<1> SUFFICES ASSUME RegistryInit PROVE RegistryInv
    OBVIOUS
<1> USE BoundsAreNaturals, IdleIsNoCall
<1>1. RegistryTypes
      BY DEF RegistryInit, RegistryTypes, Lanes, Tokens, NoToken
<1>2. ActiveIsLeft /\ TokensAreOld /\ GivenIsActive
      BY DEF RegistryInit, ActiveIsLeft, TokensAreOld, GivenIsActive, RowComesFirst,
         CredentialsWork, IsCall,
         NoToken
<1> QED BY <1>1, <1>2 DEF RegistryInv

\* A call goes on to a stage, which its caller may not be told.
Moved(i, stage) ==
  /\ calls' \in [Lanes -> Calls \union {Idle}]
  /\ \A j \in Lanes \ {i} : calls'[j] = calls[j]
  /\ calls'[i] # Idle /\ calls[i] # Idle
  /\ calls'[i].op = calls[i].op /\ calls'[i].dev = calls[i].dev
  /\ calls'[i].apns = calls[i].apns
  /\ calls'[i].at \in {"ok", "sent"} => calls'[i].at = stage

\* A push has read the token it goes to.
Read(i) ==
  /\ calls' \in [Lanes -> Calls \union {Idle}]
  /\ \A j \in Lanes \ {i} : calls'[j] = calls[j]
  /\ calls'[i] # Idle /\ calls[i] # Idle
  /\ calls'[i].op = calls[i].op /\ calls'[i].dev = calls[i].dev
  /\ calls'[i].apns = cloudApns[calls[i].dev] /\ calls'[i].at = calls[i].at

\* A call that is set to a stage has moved.
LEMMA SetMoves ==
  ASSUME RegistryTypes, NEW i \in Lanes, IsCall(i), NEW stage \in CallStages, Set(i, stage)
  PROVE  Moved(i, stage)
<1> DEFINE told == Told(calls[i].op, stage)
<1>1. calls[i] \in Calls /\ told \in CallStages /\ (told \in {"ok", "sent"} => told = stage)
      BY DEF RegistryTypes, IsCall, Told, CallStages
<1>2. calls' = [calls EXCEPT ![i] = [calls[i] EXCEPT !.at = told]]
      BY DEF Set
<1> HIDE DEF told
<1> DEFINE c == [calls[i] EXCEPT !.at = told]
<1>3. /\ c \in Calls /\ c.op = calls[i].op /\ c.dev = calls[i].dev /\ c.apns = calls[i].apns
      /\ c.at = told
      BY <1>1 DEF Calls
<1> HIDE DEF c
<1>4. c # Idle
      BY <1>3, IdleIsNoCall
<1> QED BY <1>1, <1>2, <1>3, <1>4 DEF Moved, RegistryTypes, IsCall, c

\* A push that has read its token is otherwise the same call.
LEMMA ReadMoves ==
  ASSUME RegistryTypes, NEW i \in Lanes, IsCall(i),
         calls' = [calls EXCEPT ![i].apns = cloudApns[calls[i].dev]]
  PROVE  Read(i)
<1> DEFINE c == [calls[i] EXCEPT !.apns = cloudApns[calls[i].dev]]
<1>1. /\ calls[i] \in Calls /\ calls[i].dev \in Devices
      BY DEF RegistryTypes, IsCall, Calls
<1>2. cloudApns[calls[i].dev] \in Tokens
      BY <1>1 DEF RegistryTypes
<1>3. /\ c \in Calls /\ c.op = calls[i].op /\ c.dev = calls[i].dev /\ c.at = calls[i].at
      /\ c.apns = cloudApns[calls[i].dev]
      BY <1>1, <1>2 DEF Calls
<1> HIDE DEF c
<1>4. c # Idle /\ calls' = [calls EXCEPT ![i] = c]
      BY <1>3, IdleIsNoCall DEF c
<1> QED BY <1>3, <1>4 DEF Read, RegistryTypes, IsCall

\* What a request does to the Worker's tables, of its own device.
Tables(r) ==
  /\ cloud' \in [Devices -> {"absent", "active", "inactive"}]
  /\ cloudApns' \in [Devices -> Tokens]
  /\ \A d \in Devices : cloudApns'[d] <= apnsNow[d]
  /\ \A d \in Devices : d # r.dev => cloud'[d] = cloud[d]
  /\ cloud'[r.dev] = cloud[r.dev] \/ cloud'[r.dev] = IF IsPost(r) THEN "active" ELSE "inactive"
  /\ IsPost(r) => cloud'[r.dev] = "active"
  /\ cloud'[r.dev] # cloud[r.dev] /\ ~IsPost(r) =>
       IsDelete(r) \/ (r.op = "push" /\ r.apns # apnsNow[r.dev] /\ r.apns # NoToken)

\* What a request that lands does to the tables of the Worker.
LEMMA ApplyKeeps ==
  ASSUME RegistryTypes, TokensAreOld, NEW r, r.dev \in Devices, r.apns \in Tokens,
         r.apns <= apnsNow[r.dev], Apply(r)
  PROVE  Tables(r)
<1> USE BoundsAreNaturals DEF RegistryTypes, TokensAreOld, Tokens, NoToken
<1>1. CASE IsPost(r) /\ UpsertDevice(r)
  <2>1. cloudApns' \in [Devices -> Tokens] /\ \A d \in Devices : cloudApns'[d] <= apnsNow[d]
        BY <1>1 DEF UpsertDevice
  <2> QED BY <1>1, <2>1 DEF UpsertDevice, Tables
<1>2. CASE IsDelete(r) /\ UnregisterDevice(r)
      BY <1>2 DEF UnregisterDevice, Tables, IsPost, IsDelete
<1>3. CASE r.op = "unregister" /\ UnregisterPushDevice(r)
      BY <1>3 DEF UnregisterPushDevice, Tables, IsPost, IsDelete
<1> QED BY <1>1, <1>2, <1>3 DEF Apply

\* A call that is over leaves the others as they are.
LEMMA GoneKeeps ==
  ASSUME RegistryTypes, TokensAreOld, NEW r, r.dev \in Devices, AwaitsApple(r), ~Honoured(r),
         DeactivateDevice(r.dev)
  PROVE  Tables(r)
BY DEF RegistryTypes, TokensAreOld, DeactivateDevice, Tables, AwaitsApple, Honoured, IsPost

\* A step that touches no call and no table keeps what is said of them.
LEMMA SameKeeps ==
  ASSUME RegistryTypes, TokensAreOld, NEW r, r.dev \in Devices, ~IsPost(r), UNCHANGED cloudVars
  PROVE  Tables(r)
BY DEF RegistryTypes, TokensAreOld, Tables, cloudVars

\* What a call has sent is a request.
LEMMA RequestIsOne ==
  ASSUME RegistryTypes, NEW i \in Lanes, At(i, "sent")
  PROVE  Request(i) \in Requests
<1>1. calls[i] \in Calls
      BY DEF RegistryTypes, At, IsCall
<1> QED BY <1>1 DEF Calls, Request, Requests

\* Every step of the bridge, the calls and the Worker keeps it, and none brings a retired
\* device back.
LEMMA RegistryStep ==
  ASSUME RegistryInv, [RegistryNext]_registryVars
  PROVE  RegistryInv' /\ StaysOut
<1> USE BoundsAreNaturals, IdleIsNoCall
<1>0. RegistryTypes /\ ActiveIsLeft /\ TokensAreOld /\ GivenIsActive
      BY DEF RegistryInv
<1> USE <1>0
<1> USE DEF RegistryTypes, ActiveIsLeft, TokensAreOld, GivenIsActive, RowComesFirst,
            CredentialsWork, StaysOut,
            Retired, Calls, Requests, Tokens, NoToken, Lanes, Ops, CallStages, Cleaner,
            IsCall, IsPost, IsDelete
<1>1. ASSUME NEW i \in Lanes, Lands(i) PROVE RegistryInv' /\ StaysOut
  <2> USE <1>1 DEF Lands, At, IsCall, Request, bridgeVars, cloudVars
  <2>6. Request(i) \in Requests /\ Request(i).apns <= apnsNow[calls[i].dev]
        BY DEF Request
  <2>7. Tables(Request(i))
        BY <2>6, ApplyKeeps
  <2>0. (Moved(i, "ok") \/ Moved(i, "failed")) /\ Tables(calls[i])
        BY <2>7, SetMoves DEF CallStages, Request, Tables
  <2> USE <2>0 DEF Moved, Tables
  <2>1. RegistryTypes'
        OBVIOUS
  <2>2. ActiveIsLeft'
        BY SMTT(30)
  <2>3. TokensAreOld'
        OBVIOUS
  <2>4. GivenIsActive'
    <3>1. CredentialsWork'
          OBVIOUS
    <3>2. RowComesFirst'
          BY SMTT(30)
    <3>3. ASSUME NEW j \in Lanes,
                 (IsCall(j) /\ calls[j].op = "provision" /\ calls[j].at = "ok")',
                 (deviceRow[calls[j].dev] = "active" /\ apnsNow[calls[j].dev] = 1)'
          PROVE  cloud'[calls'[j].dev] = "active"
          BY SMTT(30), <3>3
    <3> HIDE DEF CredentialsWork, RowComesFirst
    <3> QED BY <3>1, <3>2, <3>3
  <2>5. ASSUME NEW e \in Devices, Retired(e) PROVE Retired(e)'
        BY SMTT(30), <2>5
  <2> QED BY <2>1, <2>2, <2>3, <2>4, <2>5 DEF RegistryInv, StaysOut
<1>2. ASSUME NEW i \in Lanes, Refused(i) PROVE RegistryInv' /\ StaysOut
  <2> USE <1>2 DEF Refused, At, IsCall, Request, bridgeVars, cloudVars
  <2>0. Moved(i, "refused")
        BY SetMoves DEF CallStages
  <2> USE <2>0 DEF Moved
  <2>1. RegistryTypes'
        OBVIOUS
  <2>2. ActiveIsLeft'
        OBVIOUS
  <2>3. TokensAreOld'
        OBVIOUS
  <2>4. GivenIsActive'
    <3>1. CredentialsWork'
          OBVIOUS
    <3>2. RowComesFirst'
          OBVIOUS
    <3>3. ASSUME NEW j \in Lanes,
                 (IsCall(j) /\ calls[j].op = "provision" /\ calls[j].at = "ok")',
                 (deviceRow[calls[j].dev] = "active" /\ apnsNow[calls[j].dev] = 1)'
          PROVE  cloud'[calls'[j].dev] = "active"
          BY <3>3
    <3> HIDE DEF CredentialsWork, RowComesFirst
    <3> QED BY <3>1, <3>2, <3>3
  <2>5. ASSUME NEW e \in Devices, Retired(e) PROVE Retired(e)'
        BY <2>5
  <2> QED BY <2>1, <2>2, <2>3, <2>4, <2>5 DEF RegistryInv, StaysOut
<1>3. ASSUME NEW i \in Lanes, PushReads(i) PROVE RegistryInv' /\ StaysOut
  <2> USE <1>3 DEF PushReads, PushTarget, At, IsCall, Request, bridgeVars, cloudVars
  <2>0. Moved(i, "gone") \/ Read(i)
        BY SetMoves, ReadMoves DEF CallStages, cloudVars
  <2>6. /\ calls[i].at = "sent" /\ calls[i].op = "push"
        /\ UNCHANGED <<late, apnsNow, bridgeVars, cloudVars>>
        OBVIOUS
  <2> HIDE <1>3 DEF PushReads
  <2> USE <2>6
  <2> USE <2>0 DEF Moved, Read
  <2>1. RegistryTypes'
        OBVIOUS
  <2>2. ActiveIsLeft'
        OBVIOUS
  <2>3. TokensAreOld'
        OBVIOUS
  <2>4. GivenIsActive'
    <3>1. CredentialsWork'
          OBVIOUS
    <3>2. RowComesFirst'
          OBVIOUS
    <3>3. ASSUME NEW j \in Lanes,
                 (IsCall(j) /\ calls[j].op = "provision" /\ calls[j].at = "ok")',
                 (deviceRow[calls[j].dev] = "active" /\ apnsNow[calls[j].dev] = 1)'
          PROVE  cloud'[calls'[j].dev] = "active"
          BY <3>3
    <3> HIDE DEF CredentialsWork, RowComesFirst
    <3> QED BY <3>1, <3>2, <3>3
  <2>5. ASSUME NEW e \in Devices, Retired(e) PROVE Retired(e)'
        BY <2>5
  <2> QED BY <2>1, <2>2, <2>3, <2>4, <2>5 DEF RegistryInv, StaysOut
<1>4. ASSUME NEW i \in Lanes, PushAnswered(i) PROVE RegistryInv' /\ StaysOut
  <2> USE <1>4 DEF PushAnswered, At, IsCall, Request, bridgeVars, cloudVars
  <2>6. Request(i) \in Requests /\ ~IsPost(Request(i)) /\ ~IsDelete(Request(i))
        BY DEF Request, AwaitsApple
  <2>7. Tables(Request(i))
        BY <2>6, GoneKeeps, SameKeeps DEF Request
  <2>0. (Moved(i, "ok") \/ Moved(i, "gone")) /\ Tables(calls[i]) /\ ~IsPost(calls[i])
        BY <2>6, <2>7, SetMoves DEF CallStages, Request, Tables, AwaitsApple
  <2>8. /\ calls[i].apns \in 0..apnsNow[calls[i].dev] /\ ~IsDelete(calls[i])
        /\ UNCHANGED <<late, apnsNow, bridgeVars>>
        BY <2>6 DEF Request
  <2>9. cloud'[calls[i].dev] # cloud[calls[i].dev] => apnsNow[calls[i].dev] # 1
        BY <2>0, <2>8 DEF Tables
  <2> HIDE <1>4 DEF PushAnswered
  <2> USE <2>8, <2>9
  <2> USE <2>0 DEF Moved, Tables
  <2>1. RegistryTypes'
        OBVIOUS
  <2>2. ActiveIsLeft'
        OBVIOUS
  <2>3. TokensAreOld'
        OBVIOUS
  <2>4. GivenIsActive'
    <3>1. CredentialsWork'
          OBVIOUS
    <3>2. RowComesFirst'
          OBVIOUS
    <3>3. ASSUME NEW j \in Lanes,
                 (IsCall(j) /\ calls[j].op = "provision" /\ calls[j].at = "ok")',
                 (deviceRow[calls[j].dev] = "active" /\ apnsNow[calls[j].dev] = 1)'
          PROVE  cloud'[calls'[j].dev] = "active"
          BY SMTT(30), <3>3
    <3> HIDE DEF CredentialsWork, RowComesFirst
    <3> QED BY <3>1, <3>2, <3>3
  <2>5. ASSUME NEW e \in Devices, Retired(e) PROVE Retired(e)'
        BY SMTT(30), <2>5
  <2> QED BY <2>1, <2>2, <2>3, <2>4, <2>5 DEF RegistryInv, StaysOut
<1>5. ASSUME NEW i \in Lanes, TimesOut(i) PROVE RegistryInv' /\ StaysOut
  <2> USE <1>5 DEF TimesOut, Outlives, At, IsCall, Request, bridgeVars, cloudVars
  <2>0. Moved(i, "failed")
        BY SetMoves DEF CallStages
  <2> USE <2>0 DEF Moved
  <2>1. RegistryTypes'
        OBVIOUS
  <2>2. ActiveIsLeft'
        OBVIOUS
  <2>3. TokensAreOld'
        OBVIOUS
  <2>4. GivenIsActive'
    <3>1. CredentialsWork'
          OBVIOUS
    <3>2. RowComesFirst'
          OBVIOUS
    <3>3. ASSUME NEW j \in Lanes,
                 (IsCall(j) /\ calls[j].op = "provision" /\ calls[j].at = "ok")',
                 (deviceRow[calls[j].dev] = "active" /\ apnsNow[calls[j].dev] = 1)'
          PROVE  cloud'[calls'[j].dev] = "active"
          BY <3>3
    <3> HIDE DEF CredentialsWork, RowComesFirst
    <3> QED BY <3>1, <3>2, <3>3
  <2>5. ASSUME NEW e \in Devices, Retired(e) PROVE Retired(e)'
        BY <2>5
  <2> QED BY <2>1, <2>2, <2>3, <2>4, <2>5 DEF RegistryInv, StaysOut
<1>6. ASSUME NEW i \in Lanes, Unavailable(i) PROVE RegistryInv' /\ StaysOut
  <2> USE <1>6 DEF Unavailable, At, IsCall, Request, bridgeVars, cloudVars
  <2>0. Moved(i, "refused")
        BY SetMoves DEF CallStages
  <2> USE <2>0 DEF Moved
  <2>1. RegistryTypes'
        OBVIOUS
  <2>2. ActiveIsLeft'
        OBVIOUS
  <2>3. TokensAreOld'
        OBVIOUS
  <2>4. GivenIsActive'
    <3>1. CredentialsWork'
          OBVIOUS
    <3>2. RowComesFirst'
          OBVIOUS
    <3>3. ASSUME NEW j \in Lanes,
                 (IsCall(j) /\ calls[j].op = "provision" /\ calls[j].at = "ok")',
                 (deviceRow[calls[j].dev] = "active" /\ apnsNow[calls[j].dev] = 1)'
          PROVE  cloud'[calls'[j].dev] = "active"
          BY <3>3
    <3> HIDE DEF CredentialsWork, RowComesFirst
    <3> QED BY <3>1, <3>2, <3>3
  <2>5. ASSUME NEW e \in Devices, Retired(e) PROVE Retired(e)'
        BY <2>5
  <2> QED BY <2>1, <2>2, <2>3, <2>4, <2>5 DEF RegistryInv, StaysOut
<1>7. ASSUME NEW i \in Lanes, Sends(i) PROVE RegistryInv' /\ StaysOut
  <2> USE <1>7 DEF Sends, At, IsCall, Request, bridgeVars, cloudVars
  <2>0. Moved(i, "refused") \/ Moved(i, "sent")
        BY SetMoves DEF CallStages
  <2>6. calls[i].op = "register" /\ ~marker[calls[i].dev] => calls'[i].at # "sent"
        BY <2>0, SetMoves DEF CallStages, Moved
  <2> USE <2>0 DEF Moved
  <2>1. RegistryTypes'
        OBVIOUS
  <2>2. ActiveIsLeft'
        OBVIOUS
  <2>3. TokensAreOld'
        OBVIOUS
  <2>4. GivenIsActive'
    <3>1. CredentialsWork'
          OBVIOUS
    <3>2. RowComesFirst'
          OBVIOUS
    <3>3. ASSUME NEW j \in Lanes,
                 (IsCall(j) /\ calls[j].op = "provision" /\ calls[j].at = "ok")',
                 (deviceRow[calls[j].dev] = "active" /\ apnsNow[calls[j].dev] = 1)'
          PROVE  cloud'[calls'[j].dev] = "active"
          BY <3>3
    <3> HIDE DEF CredentialsWork, RowComesFirst
    <3> QED BY <3>1, <3>2, <3>3
  <2>5. ASSUME NEW e \in Devices, Retired(e) PROVE Retired(e)'
        BY <2>5, <2>6
  <2> QED BY <2>1, <2>2, <2>3, <2>4, <2>5 DEF RegistryInv, StaysOut
<1>8. ASSUME NEW i \in Lanes, Provisioned(i) PROVE RegistryInv' /\ StaysOut
  <2> USE <1>8 DEF Provisioned, Finished, IsCall, Drop, KeepMarker,
         UnregisterPushRow, UpsertPush
  <2>1. RegistryTypes'
        OBVIOUS
  <2>2. ActiveIsLeft'
        OBVIOUS
  <2>3. TokensAreOld'
        OBVIOUS
  <2>4. GivenIsActive'
    <3>1. CredentialsWork'
          OBVIOUS
    <3>2. RowComesFirst'
          OBVIOUS
    <3>3. ASSUME NEW j \in Lanes,
                 (IsCall(j) /\ calls[j].op = "provision" /\ calls[j].at = "ok")',
                 (deviceRow[calls[j].dev] = "active" /\ apnsNow[calls[j].dev] = 1)'
          PROVE  cloud'[calls'[j].dev] = "active"
          BY <3>3
    <3> HIDE DEF CredentialsWork, RowComesFirst
    <3> QED BY <3>1, <3>2, <3>3
  <2>5. ASSUME NEW e \in Devices, Retired(e) PROVE Retired(e)'
        BY <2>5
  <2> QED BY <2>1, <2>2, <2>3, <2>4, <2>5 DEF RegistryInv, StaysOut
<1>9. ASSUME NEW i \in Lanes, PushRegistered(i) PROVE RegistryInv' /\ StaysOut
  <2> USE <1>9 DEF PushRegistered, Finished, IsCall, Drop, KeepMarker,
         UnregisterPushRow, UpsertPush
  <2>1. RegistryTypes'
        OBVIOUS
  <2>2. ActiveIsLeft'
        OBVIOUS
  <2>3. TokensAreOld'
        OBVIOUS
  <2>4. GivenIsActive'
    <3>1. CredentialsWork'
          OBVIOUS
    <3>2. RowComesFirst'
          OBVIOUS
    <3>3. ASSUME NEW j \in Lanes,
                 (IsCall(j) /\ calls[j].op = "provision" /\ calls[j].at = "ok")',
                 (deviceRow[calls[j].dev] = "active" /\ apnsNow[calls[j].dev] = 1)'
          PROVE  cloud'[calls'[j].dev] = "active"
          BY <3>3
    <3> HIDE DEF CredentialsWork, RowComesFirst
    <3> QED BY <3>1, <3>2, <3>3
  <2>5. ASSUME NEW e \in Devices, Retired(e) PROVE Retired(e)'
        BY <2>5
  <2> QED BY <2>1, <2>2, <2>3, <2>4, <2>5 DEF RegistryInv, StaysOut
<1>10. ASSUME NEW i \in Lanes, PushUnregistered(i) PROVE RegistryInv' /\ StaysOut
  <2> USE <1>10 DEF PushUnregistered, Finished, IsCall, Drop, KeepMarker,
         UnregisterPushRow, UpsertPush
  <2>1. RegistryTypes'
        OBVIOUS
  <2>2. ActiveIsLeft'
        OBVIOUS
  <2>3. TokensAreOld'
        OBVIOUS
  <2>4. GivenIsActive'
    <3>1. CredentialsWork'
          OBVIOUS
    <3>2. RowComesFirst'
          OBVIOUS
    <3>3. ASSUME NEW j \in Lanes,
                 (IsCall(j) /\ calls[j].op = "provision" /\ calls[j].at = "ok")',
                 (deviceRow[calls[j].dev] = "active" /\ apnsNow[calls[j].dev] = 1)'
          PROVE  cloud'[calls'[j].dev] = "active"
          BY <3>3
    <3> HIDE DEF CredentialsWork, RowComesFirst
    <3> QED BY <3>1, <3>2, <3>3
  <2>5. ASSUME NEW e \in Devices, Retired(e) PROVE Retired(e)'
        BY <2>5
  <2> QED BY <2>1, <2>2, <2>3, <2>4, <2>5 DEF RegistryInv, StaysOut
<1>11. ASSUME NEW i \in Lanes, Revoked(i) PROVE RegistryInv' /\ StaysOut
  <2> USE <1>11 DEF Revoked, Finished, IsCall, Drop, KeepMarker,
         UnregisterPushRow, UpsertPush
  <2>1. RegistryTypes'
        OBVIOUS
  <2>2. ActiveIsLeft'
        OBVIOUS
  <2>3. TokensAreOld'
        OBVIOUS
  <2>4. GivenIsActive'
    <3>1. CredentialsWork'
          OBVIOUS
    <3>2. RowComesFirst'
          OBVIOUS
    <3>3. ASSUME NEW j \in Lanes,
                 (IsCall(j) /\ calls[j].op = "provision" /\ calls[j].at = "ok")',
                 (deviceRow[calls[j].dev] = "active" /\ apnsNow[calls[j].dev] = 1)'
          PROVE  cloud'[calls'[j].dev] = "active"
          BY <3>3
    <3> HIDE DEF CredentialsWork, RowComesFirst
    <3> QED BY <3>1, <3>2, <3>3
  <2>5. ASSUME NEW e \in Devices, Retired(e) PROVE Retired(e)'
        BY <2>5
  <2> QED BY <2>1, <2>2, <2>3, <2>4, <2>5 DEF RegistryInv, StaysOut
<1>12. ASSUME NEW i \in Lanes, CleanedOne(i) PROVE RegistryInv' /\ StaysOut
  <2> USE <1>12 DEF CleanedOne, Finished, IsCall, Drop, KeepMarker,
         UnregisterPushRow, UpsertPush
  <2>1. RegistryTypes'
        OBVIOUS
  <2>2. ActiveIsLeft'
        OBVIOUS
  <2>3. TokensAreOld'
        OBVIOUS
  <2>4. GivenIsActive'
    <3>1. CredentialsWork'
          OBVIOUS
    <3>2. RowComesFirst'
          OBVIOUS
    <3>3. ASSUME NEW j \in Lanes,
                 (IsCall(j) /\ calls[j].op = "provision" /\ calls[j].at = "ok")',
                 (deviceRow[calls[j].dev] = "active" /\ apnsNow[calls[j].dev] = 1)'
          PROVE  cloud'[calls'[j].dev] = "active"
          BY <3>3
    <3> HIDE DEF CredentialsWork, RowComesFirst
    <3> QED BY <3>1, <3>2, <3>3
  <2>5. ASSUME NEW e \in Devices, Retired(e) PROVE Retired(e)'
        BY <2>5
  <2> QED BY <2>1, <2>2, <2>3, <2>4, <2>5 DEF RegistryInv, StaysOut
<1>13. ASSUME NEW i \in Lanes, PushRecorded(i) PROVE RegistryInv' /\ StaysOut
  <2> USE <1>13 DEF PushRecorded, Finished, IsCall, Drop, KeepMarker,
         UnregisterPushRow, UpsertPush
  <2>1. RegistryTypes'
        OBVIOUS
  <2>2. ActiveIsLeft'
        OBVIOUS
  <2>3. TokensAreOld'
        OBVIOUS
  <2>4. GivenIsActive'
    <3>1. CredentialsWork'
          OBVIOUS
    <3>2. RowComesFirst'
          OBVIOUS
    <3>3. ASSUME NEW j \in Lanes,
                 (IsCall(j) /\ calls[j].op = "provision" /\ calls[j].at = "ok")',
                 (deviceRow[calls[j].dev] = "active" /\ apnsNow[calls[j].dev] = 1)'
          PROVE  cloud'[calls'[j].dev] = "active"
          BY <3>3
    <3> HIDE DEF CredentialsWork, RowComesFirst
    <3> QED BY <3>1, <3>2, <3>3
  <2>5. ASSUME NEW e \in Devices, Retired(e) PROVE Retired(e)'
        BY <2>5
  <2> QED BY <2>1, <2>2, <2>3, <2>4, <2>5 DEF RegistryInv, StaysOut
<1>14. ASSUME NEW r \in late, LandsLate(r) PROVE RegistryInv' /\ StaysOut
  <2> USE <1>14 DEF LandsLate, bridgeVars
  <2>8. [r EXCEPT !.apns = cloudApns[r.dev]] \in Requests
        BY SMTT(30)
  <2>6. /\ UNCHANGED <<calls, apnsNow, bridgeVars>>
        /\ late' \subseteq late \union
             {[r EXCEPT !.apns = cloudApns[r.dev]]} /\ (late' \subseteq late \/ r.op = "push")
        BY DEF LandsLate, PushTarget
  <2>7. Tables(r)
        BY ApplyKeeps, GoneKeeps, SameKeeps DEF LandsLate, AwaitsApple
  <2>9. \A q \in late' :
          q \in late \/ (q.dev = r.dev /\ q.apns = cloudApns[r.dev] /\ q.op = "push")
        BY <2>6
  <2>10. cloud'[r.dev] # cloud[r.dev] =>
           IsPost(r) \/ IsDelete(r) \/ apnsNow[r.dev] # 1
        BY <2>7 DEF Tables
  <2>11. \A d \in Devices : cloud'[d] = cloud[d] \/ cloud'[d] = "active"
                              \/ deviceRow[d] = "revoked" \/ apnsNow[d] # 1
        BY <2>7, <2>10 DEF Tables
  <2>12. /\ CredentialsWork' /\ RowComesFirst'
         /\ \A j \in Lanes :
              /\ IsCall(j)' /\ calls'[j].op = "provision" /\ calls'[j].at = "ok"
              /\ deviceRow'[calls'[j].dev] = "active" /\ apnsNow'[calls'[j].dev] = 1
              => cloud'[calls'[j].dev] = "active"
    <3> HIDE <1>14
    <3> QED BY <2>6, <2>11 DEF bridgeVars
  <2> HIDE DEF LandsLate
  <2> USE <2>6, <2>7, <2>8, <2>9, <2>10, <2>12 DEF Tables
  <2>1. RegistryTypes'
        OBVIOUS
  <2>2. ActiveIsLeft'
        OBVIOUS
  <2>3. TokensAreOld'
        OBVIOUS
  <2>4. GivenIsActive'
    <3>1. CredentialsWork'
          OBVIOUS
    <3>2. RowComesFirst'
          OBVIOUS
    <3>3. ASSUME NEW j \in Lanes,
                 (IsCall(j) /\ calls[j].op = "provision" /\ calls[j].at = "ok")',
                 (deviceRow[calls[j].dev] = "active" /\ apnsNow[calls[j].dev] = 1)'
          PROVE  cloud'[calls'[j].dev] = "active"
          BY <3>3
    <3> HIDE DEF CredentialsWork, RowComesFirst
    <3> QED BY <3>1, <3>2, <3>3
  <2>5. ASSUME NEW e \in Devices, Retired(e) PROVE Retired(e)'
        BY <2>5
  <2> QED BY <2>1, <2>2, <2>3, <2>4, <2>5 DEF RegistryInv, StaysOut
<1>15. ASSUME Registered PROVE RegistryInv' /\ StaysOut
  <2> USE <1>15 DEF Registered
  <2>1. RegistryTypes'
        OBVIOUS
  <2>2. ActiveIsLeft'
        OBVIOUS
  <2>3. TokensAreOld'
        OBVIOUS
  <2>4. GivenIsActive'
    <3>1. CredentialsWork'
          OBVIOUS
    <3>2. RowComesFirst'
          OBVIOUS
    <3>3. ASSUME NEW j \in Lanes,
                 (IsCall(j) /\ calls[j].op = "provision" /\ calls[j].at = "ok")',
                 (deviceRow[calls[j].dev] = "active" /\ apnsNow[calls[j].dev] = 1)'
          PROVE  cloud'[calls'[j].dev] = "active"
          BY <3>3
    <3> HIDE DEF CredentialsWork, RowComesFirst
    <3> QED BY <3>1, <3>2, <3>3
  <2>5. ASSUME NEW e \in Devices, Retired(e) PROVE Retired(e)'
        BY <2>5
  <2> QED BY <2>1, <2>2, <2>3, <2>4, <2>5 DEF RegistryInv, StaysOut
<1>16. ASSUME NEW d \in Devices, CleansUp(d) PROVE RegistryInv' /\ StaysOut
  <2> USE <1>16 DEF CleansUp, IsCall
  <2>1. RegistryTypes'
        OBVIOUS
  <2>2. ActiveIsLeft'
        OBVIOUS
  <2>3. TokensAreOld'
        OBVIOUS
  <2>4. GivenIsActive'
    <3>1. CredentialsWork'
          OBVIOUS
    <3>2. RowComesFirst'
          OBVIOUS
    <3>3. ASSUME NEW j \in Lanes,
                 (IsCall(j) /\ calls[j].op = "provision" /\ calls[j].at = "ok")',
                 (deviceRow[calls[j].dev] = "active" /\ apnsNow[calls[j].dev] = 1)'
          PROVE  cloud'[calls'[j].dev] = "active"
          BY <3>3
    <3> HIDE DEF CredentialsWork, RowComesFirst
    <3> QED BY <3>1, <3>2, <3>3
  <2>5. ASSUME NEW e \in Devices, Retired(e) PROVE Retired(e)'
        BY <2>5
  <2> QED BY <2>1, <2>2, <2>3, <2>4, <2>5 DEF RegistryInv, StaysOut
<1>17. ASSUME CleanedUp PROVE RegistryInv' /\ StaysOut
  <2> USE <1>17 DEF CleanedUp
  <2>1. RegistryTypes'
        OBVIOUS
  <2>2. ActiveIsLeft'
        OBVIOUS
  <2>3. TokensAreOld'
        OBVIOUS
  <2>4. GivenIsActive'
    <3>1. CredentialsWork'
          OBVIOUS
    <3>2. RowComesFirst'
          OBVIOUS
    <3>3. ASSUME NEW j \in Lanes,
                 (IsCall(j) /\ calls[j].op = "provision" /\ calls[j].at = "ok")',
                 (deviceRow[calls[j].dev] = "active" /\ apnsNow[calls[j].dev] = 1)'
          PROVE  cloud'[calls'[j].dev] = "active"
          BY <3>3
    <3> HIDE DEF CredentialsWork, RowComesFirst
    <3> QED BY <3>1, <3>2, <3>3
  <2>5. ASSUME NEW e \in Devices, Retired(e) PROVE Retired(e)'
        BY <2>5
  <2> QED BY <2>1, <2>2, <2>3, <2>4, <2>5 DEF RegistryInv, StaysOut
<1>18. ASSUME NEW d \in Devices, Pairs(d) PROVE RegistryInv' /\ StaysOut
  <2> USE <1>18 DEF Pairs, UpsertRow, StartCall, NextFree, IsCall
  <2>1. RegistryTypes'
        OBVIOUS
  <2>2. ActiveIsLeft'
        OBVIOUS
  <2>3. TokensAreOld'
        OBVIOUS
  <2>4. GivenIsActive'
    <3>1. CredentialsWork'
          OBVIOUS
    <3>2. RowComesFirst'
          OBVIOUS
    <3>3. ASSUME NEW j \in Lanes,
                 (IsCall(j) /\ calls[j].op = "provision" /\ calls[j].at = "ok")',
                 (deviceRow[calls[j].dev] = "active" /\ apnsNow[calls[j].dev] = 1)'
          PROVE  cloud'[calls'[j].dev] = "active"
          BY <3>3
    <3> HIDE DEF CredentialsWork, RowComesFirst
    <3> QED BY <3>1, <3>2, <3>3
  <2>5. ASSUME NEW e \in Devices, Retired(e) PROVE Retired(e)'
        BY <2>5
  <2> QED BY <2>1, <2>2, <2>3, <2>4, <2>5 DEF RegistryInv, StaysOut
<1>19. ASSUME NEW d \in Devices, Authenticates(d) PROVE RegistryInv' /\ StaysOut
  <2> USE <1>19 DEF Authenticates
  <2>1. RegistryTypes'
        OBVIOUS
  <2>2. ActiveIsLeft'
        OBVIOUS
  <2>3. TokensAreOld'
        OBVIOUS
  <2>4. GivenIsActive'
    <3>1. CredentialsWork'
          OBVIOUS
    <3>2. RowComesFirst'
          OBVIOUS
    <3>3. ASSUME NEW j \in Lanes,
                 (IsCall(j) /\ calls[j].op = "provision" /\ calls[j].at = "ok")',
                 (deviceRow[calls[j].dev] = "active" /\ apnsNow[calls[j].dev] = 1)'
          PROVE  cloud'[calls'[j].dev] = "active"
          BY <3>3
    <3> HIDE DEF CredentialsWork, RowComesFirst
    <3> QED BY <3>1, <3>2, <3>3
  <2>5. ASSUME NEW e \in Devices, Retired(e) PROVE Retired(e)'
        BY <2>5
  <2> QED BY <2>1, <2>2, <2>3, <2>4, <2>5 DEF RegistryInv, StaysOut
<1>20. ASSUME NEW d \in Devices, Disconnects(d) PROVE RegistryInv' /\ StaysOut
  <2> USE <1>20 DEF Disconnects
  <2>1. RegistryTypes'
        OBVIOUS
  <2>2. ActiveIsLeft'
        OBVIOUS
  <2>3. TokensAreOld'
        OBVIOUS
  <2>4. GivenIsActive'
    <3>1. CredentialsWork'
          OBVIOUS
    <3>2. RowComesFirst'
          OBVIOUS
    <3>3. ASSUME NEW j \in Lanes,
                 (IsCall(j) /\ calls[j].op = "provision" /\ calls[j].at = "ok")',
                 (deviceRow[calls[j].dev] = "active" /\ apnsNow[calls[j].dev] = 1)'
          PROVE  cloud'[calls'[j].dev] = "active"
          BY <3>3
    <3> HIDE DEF CredentialsWork, RowComesFirst
    <3> QED BY <3>1, <3>2, <3>3
  <2>5. ASSUME NEW e \in Devices, Retired(e) PROVE Retired(e)'
        BY <2>5
  <2> QED BY <2>1, <2>2, <2>3, <2>4, <2>5 DEF RegistryInv, StaysOut
<1>21. ASSUME NEW d \in Devices, Revoke(d) PROVE RegistryInv' /\ StaysOut
  <2> USE <1>21 DEF Revoke, RevokeRow, StartCall, NextFree, IsCall
  <2>1. RegistryTypes'
        OBVIOUS
  <2>2. ActiveIsLeft'
        OBVIOUS
  <2>3. TokensAreOld'
        OBVIOUS
  <2>4. GivenIsActive'
    <3>1. CredentialsWork'
          OBVIOUS
    <3>2. RowComesFirst'
          OBVIOUS
    <3>3. ASSUME NEW j \in Lanes,
                 (IsCall(j) /\ calls[j].op = "provision" /\ calls[j].at = "ok")',
                 (deviceRow[calls[j].dev] = "active" /\ apnsNow[calls[j].dev] = 1)'
          PROVE  cloud'[calls'[j].dev] = "active"
          BY <3>3
    <3> HIDE DEF CredentialsWork, RowComesFirst
    <3> QED BY <3>1, <3>2, <3>3
  <2>5. ASSUME NEW e \in Devices, Retired(e) PROVE Retired(e)'
        BY <2>5
  <2> QED BY <2>1, <2>2, <2>3, <2>4, <2>5 DEF RegistryInv, StaysOut
<1>22. ASSUME NEW d \in Devices, RegisterPush(d) PROVE RegistryInv' /\ StaysOut
  <2> USE <1>22 DEF RegisterPush, StartCall, NextFree, IsCall, UpsertPush
  <2>1. RegistryTypes'
        OBVIOUS
  <2>2. ActiveIsLeft'
        OBVIOUS
  <2>3. TokensAreOld'
        OBVIOUS
  <2>4. GivenIsActive'
    <3>1. CredentialsWork'
          OBVIOUS
    <3>2. RowComesFirst'
          OBVIOUS
    <3>3. ASSUME NEW j \in Lanes,
                 (IsCall(j) /\ calls[j].op = "provision" /\ calls[j].at = "ok")',
                 (deviceRow[calls[j].dev] = "active" /\ apnsNow[calls[j].dev] = 1)'
          PROVE  cloud'[calls'[j].dev] = "active"
          BY <3>3
    <3> HIDE DEF CredentialsWork, RowComesFirst
    <3> QED BY <3>1, <3>2, <3>3
  <2>5. ASSUME NEW e \in Devices, Retired(e) PROVE Retired(e)'
        BY <2>5
  <2> QED BY <2>1, <2>2, <2>3, <2>4, <2>5 DEF RegistryInv, StaysOut
<1>23. ASSUME NEW d \in Devices, UnregisterPush(d) PROVE RegistryInv' /\ StaysOut
  <2> USE <1>23 DEF UnregisterPush, StartCall, NextFree, IsCall
  <2>1. RegistryTypes'
        OBVIOUS
  <2>2. ActiveIsLeft'
        OBVIOUS
  <2>3. TokensAreOld'
        OBVIOUS
  <2>4. GivenIsActive'
    <3>1. CredentialsWork'
          OBVIOUS
    <3>2. RowComesFirst'
          OBVIOUS
    <3>3. ASSUME NEW j \in Lanes,
                 (IsCall(j) /\ calls[j].op = "provision" /\ calls[j].at = "ok")',
                 (deviceRow[calls[j].dev] = "active" /\ apnsNow[calls[j].dev] = 1)'
          PROVE  cloud'[calls'[j].dev] = "active"
          BY <3>3
    <3> HIDE DEF CredentialsWork, RowComesFirst
    <3> QED BY <3>1, <3>2, <3>3
  <2>5. ASSUME NEW e \in Devices, Retired(e) PROVE Retired(e)'
        BY <2>5
  <2> QED BY <2>1, <2>2, <2>3, <2>4, <2>5 DEF RegistryInv, StaysOut
<1>24. ASSUME NEW d \in Devices, Rotates(d) PROVE RegistryInv' /\ StaysOut
  <2> USE <1>24 DEF Rotates, bridgeVars, cloudVars
  <2>1. RegistryTypes'
        OBVIOUS
  <2>2. ActiveIsLeft'
        OBVIOUS
  <2>3. TokensAreOld'
        OBVIOUS
  <2>4. GivenIsActive'
    <3>1. CredentialsWork'
          OBVIOUS
    <3>2. RowComesFirst'
          OBVIOUS
    <3>3. ASSUME NEW j \in Lanes,
                 (IsCall(j) /\ calls[j].op = "provision" /\ calls[j].at = "ok")',
                 (deviceRow[calls[j].dev] = "active" /\ apnsNow[calls[j].dev] = 1)'
          PROVE  cloud'[calls'[j].dev] = "active"
          BY <3>3
    <3> HIDE DEF CredentialsWork, RowComesFirst
    <3> QED BY <3>1, <3>2, <3>3
  <2>5. ASSUME NEW e \in Devices, Retired(e) PROVE Retired(e)'
        BY <2>5
  <2> QED BY <2>1, <2>2, <2>3, <2>4, <2>5 DEF RegistryInv, StaysOut
<1>25. ASSUME NEW kind \in Kinds, NEW night \in BOOLEAN, NEW chosen \in [Devices -> Settings],
              Notify(kind, night, chosen)
       PROVE RegistryInv' /\ StaysOut
  <2> USE <1>25 DEF Notify, ActivePushDevices, bridgeVars, cloudVars
  <2>1. RegistryTypes'
        OBVIOUS
  <2>2. ActiveIsLeft'
        OBVIOUS
  <2>3. TokensAreOld'
        OBVIOUS
  <2>4. GivenIsActive'
    <3>1. CredentialsWork'
          OBVIOUS
    <3>2. RowComesFirst'
          OBVIOUS
    <3>3. ASSUME NEW j \in Lanes,
                 (IsCall(j) /\ calls[j].op = "provision" /\ calls[j].at = "ok")',
                 (deviceRow[calls[j].dev] = "active" /\ apnsNow[calls[j].dev] = 1)'
          PROVE  cloud'[calls'[j].dev] = "active"
          BY <3>3
    <3> HIDE DEF CredentialsWork, RowComesFirst
    <3> QED BY <3>1, <3>2, <3>3
  <2>5. ASSUME NEW e \in Devices, Retired(e) PROVE Retired(e)'
        BY <2>5
  <2> QED BY <2>1, <2>2, <2>3, <2>4, <2>5 DEF RegistryInv, StaysOut
<1>26. ASSUME Restart PROVE RegistryInv' /\ StaysOut
  <2>6. \A j \in Lanes : At(j, "sent") => Request(j) \in Requests
        BY RequestIsOne
  <2> USE <1>26 DEF Restart, Outlives, Request, At, IsCall
  <2>7. late' \subseteq late \union {Request(i) : i \in {j \in Lanes : At(j, "sent")}}
        OBVIOUS
  <2>8. late' \subseteq Requests
        BY <2>6, <2>7
  <2> USE <2>8
  <2>1. RegistryTypes'
        OBVIOUS
  <2>2. ActiveIsLeft'
        OBVIOUS
  <2>3. TokensAreOld'
        OBVIOUS
  <2>4. GivenIsActive'
    <3>1. CredentialsWork'
          OBVIOUS
    <3>2. RowComesFirst'
          OBVIOUS
    <3>3. ASSUME NEW j \in Lanes,
                 (IsCall(j) /\ calls[j].op = "provision" /\ calls[j].at = "ok")',
                 (deviceRow[calls[j].dev] = "active" /\ apnsNow[calls[j].dev] = 1)'
          PROVE  cloud'[calls'[j].dev] = "active"
          BY <3>3
    <3> HIDE DEF CredentialsWork, RowComesFirst
    <3> QED BY <3>1, <3>2, <3>3
  <2>5. ASSUME NEW e \in Devices, Retired(e) PROVE Retired(e)'
        BY <2>5
  <2> QED BY <2>1, <2>2, <2>3, <2>4, <2>5 DEF RegistryInv, StaysOut
<1>27. ASSUME UNCHANGED registryVars PROVE RegistryInv' /\ StaysOut
      BY <1>27 DEF registryVars, RegistryInv, Retired, Request
<1> QED
    BY <1>1, <1>2, <1>3, <1>4, <1>5, <1>6, <1>7, <1>8, <1>9, <1>10, <1>11, <1>12, <1>13, <1>14,
       <1>15, <1>16, <1>17, <1>18, <1>19, <1>20, <1>21, <1>22, <1>23, <1>24, <1>25, <1>26, <1>27
    DEF RegistryNext, Advances, Continues

\* A device with credentials is let in, whatever calls are late, lost or repeated.
THEOREM RegistryLetsIn == RegistrySpec => []CredentialsWork
<1>1. RegistrySpec => []RegistryInv
      BY RegistryInitially, RegistryStep, PTL DEF RegistrySpec
<1> QED BY <1>1, PTL DEF RegistryInv, GivenIsActive

\* A revocation that is over stays over.
THEOREM RegistryKeepsOut == RegistrySpec => RetiredStaysOut
<1>1. RegistrySpec => []RegistryInv
      BY RegistryInitially, RegistryStep, PTL DEF RegistrySpec
<1>2. RegistryInv /\ [RegistryNext]_registryVars => [StaysOut]_registryVars
      BY RegistryStep
<1>3. RegistrySpec => [][StaysOut]_registryVars
      BY <1>1, <1>2, PTL DEF RegistrySpec
<1> QED BY <1>3 DEF StaysOut, RetiredStaysOut

-----------------------------------------------------------------------------
(* 4. The multiplexer of the Rust bridge. *)

\* The main task: what it may hold when, and that without a link nothing is on its way.
MainShape ==
  /\ Linked => links # 0
  /\ ~Linked => locals = {} /\ outgoing = <<>>
  /\ inHand # {} => loop \in {"opens", "reopens", "hands"}
  /\ \A c, d \in inHand : c = d
  /\ \A c \in inHand : /\ stream[c] = "on"
                       /\ loop = "hands" <=> c \in locals
                       /\ loop # "opens" => passed[c] > 0

\* A connection: a link opens one local connection for it at most, and for one that came with
\* the link it does so before it takes a frame.
StreamIs(c) ==
  /\ joined[c] <= links
  /\ device[c] = "idle" <=> stream[c] = "idle"
  /\ device[c] = "idle" => asked[c] = 0
  /\ stream[c] \in {"idle", "new"} => passed[c] = 0
  /\ stream[c] = "new" => Linked
  /\ c \in locals => stream[c] = "on" /\ task[<<links, c>>] # "none"
  /\ Linked /\ c \notin locals /\ stream[c] # "off" => task[<<links, c>>] = "none"
  /\ Linked /\ stream[c] = "on" /\ joined[c] = links /\ c \notin locals =>
       c \in inHand /\ loop = "opens" /\ passed[c] = 0

\* A local connection that was not opened, and one whose task has read a frame.
EndIs(t) ==
  /\ task[t] = "none" => /\ inbound[t] = <<>> /\ got[t] = <<>> /\ start[t] = 0
                         /\ heard[t] = <<>> /\ read[t] = 0
  /\ t[1] > links => task[t] = "none"
  /\ task[t] = "gives" => read[t] > 0

\* The frames of c that the main task has done with.
Handed(c) == passed[c] - (IF loop \in {"reopens", "hands"} /\ c \in inHand THEN 1 ELSE 0)

\* What the bridge got and what waits for it are the frames that were handed over.
DownIs(t) ==
  /\ \A i \in DOMAIN got[t] : got[t][i] = start[t] + i
  /\ bridge[t] => \A i \in DOMAIN inbound[t] : inbound[t][i] = start[t] + Len(got[t]) + i
  /\ Fed(t) /\ task[t] # "done" /\ bridge[t] =>
       start[t] + Len(got[t]) + Len(inbound[t]) = Handed(t[2])
  /\ joined[t[2]] = t[1] => start[t] = 0

\* The frames that the task of t has put in the queue to the relay.
Given(t) == read[t] - (IF task[t] = "gives" THEN 1 ELSE 0)

\* Frame f is one that the bridge said to c.
SaidTo(f, c) == f.conn = c /\ f.frame # NotNow

\* In the queue to the relay are, in order, the frames of t that were given and not yet
\* heard; a device that is gone hears no more.
UpIs(t) ==
  /\ Len(heard[t]) <= Given(t)
  /\ \A i \in DOMAIN outgoing : SaidTo(outgoing[i], t[2]) => outgoing[i].frame <= Given(t)
  /\ \A i, j \in DOMAIN outgoing :
       SaidTo(outgoing[i], t[2]) /\ SaidTo(outgoing[j], t[2]) /\ i < j =>
         outgoing[i].frame < outgoing[j].frame
  /\ device[t[2]] # "gone" =>
       /\ \A i \in DOMAIN outgoing :
            SaidTo(outgoing[i], t[2]) => outgoing[i].frame > Len(heard[t])
       /\ \A k \in (Len(heard[t]) + 1)..Given(t) :
            \E i \in DOMAIN outgoing : SaidTo(outgoing[i], t[2]) /\ outgoing[i].frame = k

HeardIs(t) == \A i \in DOMAIN heard[t] : heard[t][i] = i

StreamShape == \A c \in Tunnels : StreamIs(c)
EndShape == \A t \in Ends : EndIs(t)
DownInOrder == \A t \in Ends : DownIs(t)
UpInOrder == \A t \in Ends : HeardIs(t) /\ (Attached(t[1]) => UpIs(t))

MuxInv == MuxTypeOK /\ MainShape /\ StreamShape /\ EndShape /\ DownInOrder /\ UpInOrder

LEMMA AppendedIs ==
  ASSUME NEW S, NEW s \in Seq(S), NEW e \in S
  PROVE  /\ Append(s, e) \in Seq(S) /\ Len(s) \in Nat /\ Len(Append(s, e)) = Len(s) + 1
         /\ DOMAIN s = 1..Len(s) /\ DOMAIN Append(s, e) = 1..(Len(s) + 1)
         /\ \A i \in 1..Len(s) : Append(s, e)[i] = s[i]
         /\ Append(s, e)[Len(s) + 1] = e
OBVIOUS

LEMMA ShortenedIs ==
  ASSUME NEW S, NEW s \in Seq(S), s # <<>>
  PROVE  /\ Tail(s) \in Seq(S) /\ Len(s) \in Nat \ {0} /\ Len(Tail(s)) = Len(s) - 1
         /\ DOMAIN s = 1..Len(s) /\ DOMAIN Tail(s) = 1..(Len(s) - 1)
         /\ \A i \in 1..(Len(s) - 1) : Tail(s)[i] = s[i + 1]
         /\ Head(s) = s[1] /\ Head(s) \in S
OBVIOUS

\* What the types say of one connection, one local connection and one frame.
LEMMA TypesOfMux ==
  ASSUME MuxTypeOK
  PROVE  /\ links \in Nat
         /\ \A c \in Tunnels : passed[c] \in Nat /\ asked[c] \in Nat /\ joined[c] \in Nat
         /\ \A t \in Ends : /\ t[1] \in Nat /\ t[2] \in Tunnels /\ t = <<t[1], t[2]>>
                            /\ start[t] \in Nat /\ read[t] \in Nat
                            /\ got[t] \in Seq(1..MaxFrames) /\ Len(got[t]) \in Nat
                            /\ inbound[t] \in Seq(1..MaxFrames) /\ Len(inbound[t]) \in Nat
                            /\ heard[t] \in Seq(Nat) /\ Len(heard[t]) \in Nat
         /\ outgoing \in Seq(OutFrame) /\ Len(outgoing) \in Nat
         /\ DOMAIN outgoing = 1..Len(outgoing)
         /\ \A i \in DOMAIN outgoing : outgoing[i].conn \in Tunnels /\ outgoing[i].frame \in Nat
<1>1. links \in Nat /\ MaxFrames \in Nat /\ MaxLinks \in Nat
      BY MuxBounds DEF MuxTypeOK
<1>2. \A c \in Tunnels : passed[c] \in Nat /\ asked[c] \in Nat /\ joined[c] \in Nat
      BY <1>1 DEF MuxTypeOK
<1>3. \A t \in Ends : t[1] \in Nat /\ t[2] \in Tunnels /\ t = <<t[1], t[2]>>
      BY <1>1 DEF Ends
<1>4. \A t \in Ends : /\ start[t] \in Nat /\ read[t] \in Nat
                      /\ got[t] \in Seq(1..MaxFrames) /\ inbound[t] \in Seq(1..MaxFrames)
                      /\ heard[t] \in Seq(Nat)
      BY <1>1 DEF MuxTypeOK
<1>5. \A t \in Ends : Len(got[t]) \in Nat /\ Len(inbound[t]) \in Nat /\ Len(heard[t]) \in Nat
      BY <1>4
<1>6. /\ outgoing \in Seq(OutFrame) /\ Len(outgoing) \in Nat
      /\ DOMAIN outgoing = 1..Len(outgoing)
      /\ \A i \in DOMAIN outgoing : outgoing[i] \in OutFrame
      BY DEF MuxTypeOK
<1>7. \A f \in OutFrame : f.conn \in Tunnels /\ f.frame \in Nat
      BY DEF OutFrame
<1> QED BY <1>1, <1>2, <1>3, <1>4, <1>5, <1>6, <1>7

\* The link's local connection for c is one.
LEMMA LinksEnd ==
  ASSUME MuxTypeOK, MainShape, Linked, NEW c \in Tunnels
  PROVE  <<links, c>> \in Ends /\ Attached(links)
BY MuxBounds DEF MuxTypeOK, MainShape, Ends, Attached

\* What a step that leaves a local connection's way down alone, or ends it, may do.
LEMMA DownRestsMux ==
  ASSUME NEW t \in Ends, DownIs(t), got'[t] = got[t], start'[t] = start[t],
         bridge'[t] => bridge[t], inbound'[t] \in {inbound[t], <<>>},
         Fed(t)' /\ task'[t] # "done" =>
           /\ Fed(t) /\ task[t] # "done" /\ Handed(t[2])' = Handed(t[2])
           /\ inbound'[t] = inbound[t],
         joined'[t[2]] = t[1] => joined[t[2]] = t[1] \/ start[t] = 0
  PROVE  DownIs(t)'
<1> DEFINE h == Handed(t[2])
           hh == Handed(t[2])'
           f == Fed(t)
           ff == Fed(t)'
<1>1. /\ \A i \in DOMAIN got[t] : got[t][i] = start[t] + i
      /\ bridge[t] => \A i \in DOMAIN inbound[t] : inbound[t][i] = start[t] + Len(got[t]) + i
      /\ f /\ task[t] # "done" /\ bridge[t] =>
           start[t] + Len(got[t]) + Len(inbound[t]) = h
      /\ joined[t[2]] = t[1] => start[t] = 0
      BY DEF DownIs
<1>2. ff /\ task'[t] # "done" => f /\ task[t] # "done" /\ hh = h /\ inbound'[t] = inbound[t]
      OBVIOUS
<1> HIDE DEF h, hh, f, ff
<1>3. DOMAIN <<>> = {}
      OBVIOUS
<1>4. bridge'[t] => \A i \in DOMAIN inbound'[t] : inbound'[t][i] = start[t] + Len(got[t]) + i
      BY <1>1, <1>3
<1>5. /\ \A i \in DOMAIN got'[t] : got'[t][i] = start'[t] + i
      /\ bridge'[t] =>
           \A i \in DOMAIN inbound'[t] : inbound'[t][i] = start'[t] + Len(got'[t]) + i
      /\ ff /\ task'[t] # "done" /\ bridge'[t] =>
           start'[t] + Len(got'[t]) + Len(inbound'[t]) = hh
      /\ joined'[t[2]] = t[1] => start'[t] = 0
      BY <1>1, <1>2, <1>4
<1> QED BY <1>5 DEF DownIs, hh, ff

\* The same of the way up.
LEMMA UpRestsMux ==
  ASSUME NEW t \in Ends, UpIs(t), outgoing' = outgoing, heard'[t] = heard[t],
         device'[t[2]] # "gone" => device[t[2]] # "gone", Given(t)' = Given(t)
  PROVE  UpIs(t)'
<1> DEFINE g == Given(t)
           gg == Given(t)'
<1>1. gg = g
      OBVIOUS
<1> HIDE DEF g, gg
<1> QED BY <1>1 DEF UpIs, SaidTo, NotNow, g, gg

\* A step of the task of a local connection leaves the main task and the streams alone.
LEMMA ShapesRest ==
  ASSUME MuxTypeOK, MainShape, StreamShape,
         UNCHANGED <<loop, inHand, links, device, joined, asked, stream, passed, locals>>,
         \A t \in Ends : task'[t] = "none" <=> task[t] = "none",
         Linked \/ outgoing' = outgoing
  PROVE  MainShape' /\ StreamShape'
<1>1. Linked' = Linked
      BY DEF Linked
<1>2. MainShape'
      BY <1>1 DEF MainShape
<1>3. ASSUME NEW c \in Tunnels PROVE StreamIs(c)'
  <2>1. (Linked => <<links, c>> \in Ends) /\ (c \in locals => Linked)
        BY LinksEnd DEF MainShape
  <2> QED BY <1>1, <2>1 DEF StreamShape, StreamIs
<1> QED BY <1>2, <1>3 DEF StreamShape

\* A frame that the bridge did not say to the connection is put at the end of the queue.
LEMMA UpAppendsOther ==
  ASSUME MuxTypeOK, NEW t \in Ends, UpIs(t), NEW f \in OutFrame, ~SaidTo(f, t[2]),
         outgoing' = Append(outgoing, f), heard'[t] = heard[t],
         device'[t[2]] = device[t[2]], Given(t)' = Given(t)
  PROVE  UpIs(t)'
<1> DEFINE n == Len(outgoing)
           g == Given(t)
           gg == Given(t)'
           To(e) == SaidTo(e, t[2])
<1>1. /\ n \in Nat /\ DOMAIN outgoing = 1..n /\ DOMAIN outgoing' = 1..(n + 1)
      /\ \A i \in 1..n : outgoing'[i] = outgoing[i]
      /\ outgoing'[n + 1] = f
      BY AppendedIs DEF MuxTypeOK
<1>2. gg = g /\ ~To(f)
      OBVIOUS
<1>3. /\ Len(heard[t]) <= g
      /\ \A i \in 1..n : To(outgoing[i]) => outgoing[i].frame <= g
      /\ \A i, j \in 1..n :
           To(outgoing[i]) /\ To(outgoing[j]) /\ i < j => outgoing[i].frame < outgoing[j].frame
      /\ device[t[2]] # "gone" =>
           /\ \A i \in 1..n : To(outgoing[i]) => outgoing[i].frame > Len(heard[t])
           /\ \A k \in (Len(heard[t]) + 1)..g :
                \E i \in 1..n : To(outgoing[i]) /\ outgoing[i].frame = k
      BY <1>1 DEF UpIs
<1> HIDE DEF n, g, gg, To
<1>4. \A i \in 1..(n + 1) : To(outgoing'[i]) => i \in 1..n
      BY <1>1, <1>2
<1>5. \A i \in 1..n : i \in 1..(n + 1)
      BY <1>1
<1>6. /\ Len(heard'[t]) <= gg
      /\ \A i \in 1..(n + 1) : To(outgoing'[i]) => outgoing'[i].frame <= gg
      /\ \A i, j \in 1..(n + 1) :
           To(outgoing'[i]) /\ To(outgoing'[j]) /\ i < j => outgoing'[i].frame < outgoing'[j].frame
      BY <1>1, <1>2, <1>3, <1>4
<1>7. device'[t[2]] # "gone" =>
        /\ \A i \in 1..(n + 1) : To(outgoing'[i]) => outgoing'[i].frame > Len(heard'[t])
        /\ \A k \in (Len(heard'[t]) + 1)..gg :
             \E i \in 1..(n + 1) : To(outgoing'[i]) /\ outgoing'[i].frame = k
      BY <1>1, <1>2, <1>3, <1>4, <1>5
<1> QED BY <1>1, <1>6, <1>7 DEF UpIs, SaidTo, NotNow, To, gg

\* The first of the queue, which is not for the connection or comes too late for it, is taken
\* off.
LEMMA UpShedsOther ==
  ASSUME MuxTypeOK, NEW t \in Ends, UpIs(t), outgoing # <<>>, outgoing' = Tail(outgoing),
         heard'[t] = heard[t], Given(t)' = Given(t),
         device'[t[2]] # "gone" => device[t[2]] # "gone" /\ ~SaidTo(Head(outgoing), t[2])
  PROVE  UpIs(t)'
<1> DEFINE n == Len(outgoing)
           g == Given(t)
           gg == Given(t)'
           To(e) == SaidTo(e, t[2])
<1>1. /\ n \in Nat \ {0} /\ DOMAIN outgoing = 1..n /\ DOMAIN outgoing' = 1..(n - 1)
      /\ \A i \in 1..(n - 1) : outgoing'[i] = outgoing[i + 1]
      /\ Head(outgoing) = outgoing[1]
      BY ShortenedIs DEF MuxTypeOK
<1>2. gg = g /\ (device'[t[2]] # "gone" => device[t[2]] # "gone" /\ ~To(outgoing[1]))
      BY <1>1
<1>3. /\ Len(heard[t]) <= g
      /\ \A i \in 1..n : To(outgoing[i]) => outgoing[i].frame <= g
      /\ \A i, j \in 1..n :
           To(outgoing[i]) /\ To(outgoing[j]) /\ i < j => outgoing[i].frame < outgoing[j].frame
      /\ device[t[2]] # "gone" =>
           /\ \A i \in 1..n : To(outgoing[i]) => outgoing[i].frame > Len(heard[t])
           /\ \A k \in (Len(heard[t]) + 1)..g :
                \E i \in 1..n : To(outgoing[i]) /\ outgoing[i].frame = k
      BY <1>1 DEF UpIs
<1> HIDE DEF n, g, gg, To
<1>4. /\ \A i \in 1..(n - 1) : i + 1 \in 1..n
      /\ \A i, j \in 1..(n - 1) : i < j => i + 1 < j + 1
      /\ \A i \in 1..n : i # 1 => i - 1 \in 1..(n - 1) /\ (i - 1) + 1 = i
      BY <1>1
<1>5. /\ Len(heard'[t]) <= gg
      /\ \A i \in 1..(n - 1) : To(outgoing'[i]) => outgoing'[i].frame <= gg
      BY <1>1, <1>2, <1>3, <1>4
<1>6. \A i, j \in 1..(n - 1) :
        To(outgoing'[i]) /\ To(outgoing'[j]) /\ i < j => outgoing'[i].frame < outgoing'[j].frame
      BY <1>1, <1>3, <1>4
<1>7. ASSUME device'[t[2]] # "gone"
      PROVE  /\ \A i \in 1..(n - 1) : To(outgoing'[i]) => outgoing'[i].frame > Len(heard'[t])
             /\ \A k \in (Len(heard'[t]) + 1)..gg :
                  \E i \in 1..(n - 1) : To(outgoing'[i]) /\ outgoing'[i].frame = k
  <2>1. \A i \in 1..(n - 1) : To(outgoing'[i]) => outgoing'[i].frame > Len(heard'[t])
        BY <1>1, <1>2, <1>3, <1>4, <1>7
  <2>2. ASSUME NEW k \in (Len(heard'[t]) + 1)..gg
        PROVE  \E i \in 1..(n - 1) : To(outgoing'[i]) /\ outgoing'[i].frame = k
    <3>1. PICK i \in 1..n : To(outgoing[i]) /\ outgoing[i].frame = k
          BY <1>2, <1>3, <1>7, <2>2
    <3>2. i # 1
          BY <1>2, <1>7, <3>1
    <3>3. i - 1 \in 1..(n - 1) /\ outgoing'[i - 1] = outgoing[i]
          BY <1>1, <1>4, <3>2
    <3> QED BY <3>1, <3>3
  <2> QED BY <2>1, <2>2
<1> QED BY <1>1, <1>5, <1>6, <1>7 DEF UpIs, SaidTo, NotNow, To, gg

\* A device joins: its stream is new, and the link has no local connection for it.
LEMMA DeviceJoinsKeeps ==
  ASSUME MuxInv, NEW c \in Tunnels, DeviceJoins(c)
  PROVE  MuxInv'
<1> USE DEF MuxInv
<1>1. /\ Linked /\ Linked' /\ device[c] = "idle" /\ device' = [device EXCEPT ![c] = "open"]
      /\ joined' = [joined EXCEPT ![c] = links] /\ stream' = [stream EXCEPT ![c] = "new"]
      /\ UNCHANGED <<loop, inHand, links, stopping, asked, passed, locals, outgoing, task,
                     inbound, bridge, start, got, said, read, heard>>
      BY DEF DeviceJoins, mainVars, taskSide, Linked
<1>2. /\ stream[c] = "idle" /\ passed[c] = 0 /\ c \notin locals /\ c \notin inHand
      /\ task[<<links, c>>] = "none" /\ <<links, c>> \in Ends
      BY <1>1, LinksEnd DEF StreamShape, StreamIs, MainShape
<1>3. MuxTypeOK'
      BY <1>1 DEF MuxTypeOK
<1>4. MainShape'
      BY <1>1, <1>2 DEF MainShape, MuxTypeOK
<1>5. ASSUME NEW d \in Tunnels PROVE StreamIs(d)'
  <2>1. d # c => UNCHANGED <<device[d], joined[d], stream[d]>>
        BY <1>1 DEF MuxTypeOK
  <2>2. device'[c] = "open" /\ joined'[c] = links /\ stream'[c] = "new"
        BY <1>1 DEF MuxTypeOK
  <2>3. CASE d # c
        BY <1>1, <1>5, <2>1, <2>3 DEF StreamShape, StreamIs
  <2>4. CASE d = c
        BY <1>1, <1>2, <2>2, <2>4, TypesOfMux DEF StreamIs
  <2> QED BY <2>3, <2>4
<1>6. EndShape'
      BY <1>1 DEF EndShape, EndIs
<1>7. start[<<links, c>>] = 0
      BY <1>2 DEF EndShape, EndIs
<1>8. ASSUME NEW t \in Ends PROVE DownIs(t)'
  <2>1. joined'[t[2]] = t[1] => joined[t[2]] = t[1] \/ start[t] = 0
        BY <1>1, <1>7, TypesOfMux DEF MuxTypeOK
  <2> QED BY <1>1, <1>8, <2>1, DownRestsMux DEF DownInOrder, Fed, Attached, Handed
<1>9. ASSUME NEW t \in Ends PROVE HeardIs(t)' /\ (Attached(t[1])' => UpIs(t)')
  <2>1. device'[t[2]] # "gone" => device[t[2]] # "gone"
        BY <1>1, TypesOfMux DEF MuxTypeOK
  <2> QED BY <1>1, <1>9, <2>1, UpRestsMux DEF UpInOrder, HeardIs, Attached, Given
<1> QED BY <1>3, <1>4, <1>5, <1>6, <1>8, <1>9 DEF StreamShape, DownInOrder, UpInOrder

\* A device sends a frame, which a link carries and which is lost without one.
LEMMA DeviceSpeaksKeeps ==
  ASSUME MuxInv, NEW c \in Tunnels, DeviceSpeaks(c)
  PROVE  MuxInv'
<1> USE DEF MuxInv
<1>1. /\ device[c] = "open" /\ asked[c] < MaxFrames /\ asked' = [asked EXCEPT ![c] = @ + 1]
      /\ passed' = IF Linked THEN passed ELSE [passed EXCEPT ![c] = asked[c] + 1]
      /\ Linked' = Linked
      /\ UNCHANGED <<loop, inHand, links, stopping, device, joined, stream, locals, outgoing,
                     task, inbound, bridge, start, got, said, read, heard>>
      BY DEF DeviceSpeaks, mainVars, taskSide, Linked
<1>2. inHand # {} => Linked
      BY DEF MainShape, Linked
<1>3. MuxTypeOK'
  <2>1. asked[c] + 1 \in 0..MaxFrames
        BY <1>1, TypesOfMux, MuxBounds
  <2> QED BY <1>1, <2>1 DEF MuxTypeOK
<1>4. MainShape'
      BY <1>1, <1>2 DEF MainShape
<1>5. ASSUME NEW d \in Tunnels PROVE StreamIs(d)'
  <2>1. ~Linked => stream[c] \notin {"idle", "new"}
        BY <1>1 DEF StreamShape, StreamIs, MuxTypeOK
  <2>2. (d = c => device[d] # "idle") /\ (d # c => asked'[d] = asked[d])
        BY <1>1 DEF MuxTypeOK
  <2>3. passed'[d] = passed[d] \/ (d = c /\ ~Linked)
        BY <1>1 DEF MuxTypeOK
  <2> QED BY <1>1, <1>5, <2>1, <2>2, <2>3 DEF StreamShape, StreamIs
<1>6. EndShape'
      BY <1>1 DEF EndShape, EndIs
<1>7. ASSUME NEW t \in Ends PROVE DownIs(t)'
      BY <1>1, <1>7, DownRestsMux DEF DownInOrder, Fed, Attached, Handed
<1>8. ASSUME NEW t \in Ends PROVE HeardIs(t)' /\ (Attached(t[1])' => UpIs(t)')
      BY <1>1, <1>8, UpRestsMux DEF UpInOrder, HeardIs, Attached, Given
<1> QED BY <1>3, <1>4, <1>5, <1>6, <1>7, <1>8 DEF StreamShape, DownInOrder, UpInOrder

\* A device leaves.
LEMMA DevicePartsKeeps ==
  ASSUME MuxInv, NEW c \in Tunnels, DeviceParts(c)
  PROVE  MuxInv'
<1> USE DEF MuxInv
<1>1. /\ device[c] = "open" /\ device' = [device EXCEPT ![c] = "gone"]
      /\ stream' = IF Linked THEN stream ELSE [stream EXCEPT ![c] = "off"]
      /\ Linked' = Linked
      /\ UNCHANGED <<loop, inHand, links, stopping, joined, asked, passed, locals, outgoing,
                     task, inbound, bridge, start, got, said, read, heard>>
      BY DEF DeviceParts, mainVars, taskSide, Linked
<1>2. (inHand # {} => Linked) /\ (~Linked => locals = {})
      BY DEF MainShape, Linked
<1>3. MuxTypeOK'
      BY <1>1 DEF MuxTypeOK
<1>4. MainShape'
      BY <1>1, <1>2 DEF MainShape
<1>5. ASSUME NEW d \in Tunnels PROVE StreamIs(d)'
  <2>1. (d = c => device'[d] # "idle") /\ (d # c => device'[d] = device[d])
        BY <1>1 DEF MuxTypeOK
  <2>2. stream'[d] = stream[d] \/ (stream'[d] = "off" /\ ~Linked)
        BY <1>1 DEF MuxTypeOK
  <2> QED BY <1>1, <1>2, <1>5, <2>1, <2>2 DEF StreamShape, StreamIs
<1>6. EndShape'
      BY <1>1 DEF EndShape, EndIs
<1>7. ASSUME NEW t \in Ends PROVE DownIs(t)'
      BY <1>1, <1>7, DownRestsMux DEF DownInOrder, Fed, Attached, Handed
<1>8. ASSUME NEW t \in Ends PROVE HeardIs(t)' /\ (Attached(t[1])' => UpIs(t)')
  <2>1. device'[t[2]] # "gone" => device[t[2]] # "gone"
        BY <1>1, TypesOfMux DEF MuxTypeOK
  <2> QED BY <1>1, <1>8, <2>1, UpRestsMux DEF UpInOrder, HeardIs, Attached, Given
<1> QED BY <1>3, <1>4, <1>5, <1>6, <1>7, <1>8 DEF StreamShape, DownInOrder, UpInOrder

\* The bridge puts a frame in a local socket, which no other part of this speaks of.
LEMMA BridgeSaysKeeps ==
  ASSUME MuxInv, NEW t \in Ends, BridgeSays(t)
  PROVE  MuxInv'
<1> USE DEF MuxInv
<1>1. /\ said' = [said EXCEPT ![t] = @ + 1]
      /\ UNCHANGED <<loop, inHand, links, stopping, device, joined, asked, stream, passed,
                     locals, outgoing, task, inbound, bridge, start, got, read, heard>>
      BY DEF BridgeSays, mainVars, roomSide
<1>2. MuxTypeOK'
      BY <1>1 DEF MuxTypeOK
<1>3. MainShape' /\ StreamShape' /\ EndShape'
      BY <1>1 DEF MainShape, StreamShape, StreamIs, EndShape, EndIs, Linked
<1>4. DownInOrder' /\ UpInOrder'
      BY <1>1 DEF DownInOrder, DownIs, UpInOrder, UpIs, HeardIs, SaidTo, Handed, Given, Fed,
                  Attached, Linked
<1> QED BY <1>2, <1>3, <1>4

\* The stop is announced, which only the loop will see.
LEMMA StopComesKeeps ==
  ASSUME MuxInv, StopComes
  PROVE  MuxInv'
<1> USE DEF MuxInv
<1>1. /\ stopping' = TRUE
      /\ UNCHANGED <<loop, inHand, links, device, joined, asked, stream, passed, locals,
                     outgoing, task, inbound, bridge, start, got, said, read, heard>>
      BY DEF StopComes, roomSide, taskSide
<1>2. MuxTypeOK'
      BY <1>1 DEF MuxTypeOK
<1>3. MainShape' /\ StreamShape' /\ EndShape'
      BY <1>1 DEF MainShape, StreamShape, StreamIs, EndShape, EndIs, Linked
<1>4. DownInOrder' /\ UpInOrder'
      BY <1>1 DEF DownInOrder, DownIs, UpInOrder, UpIs, HeardIs, SaidTo, Handed, Given, Fed,
                  Attached, Linked
<1> QED BY <1>2, <1>3, <1>4

\* The bridge closes a local socket.
LEMMA BridgeShutsKeeps ==
  ASSUME MuxInv, NEW t \in Ends, BridgeShuts(t)
  PROVE  MuxInv'
<1> USE DEF MuxInv
<1>1. /\ bridge' = [bridge EXCEPT ![t] = FALSE]
      /\ UNCHANGED <<loop, inHand, links, stopping, device, joined, asked, stream, passed,
                     locals, outgoing, task, inbound, start, got, said, read, heard>>
      BY DEF BridgeShuts, mainVars, roomSide
<1>2. MuxTypeOK'
      BY <1>1 DEF MuxTypeOK
<1>3. MainShape' /\ StreamShape' /\ EndShape'
      BY <1>1 DEF MainShape, StreamShape, StreamIs, EndShape, EndIs, Linked
<1>4. ASSUME NEW u \in Ends PROVE DownIs(u)'
  <2>1. bridge'[u] => bridge[u]
        BY <1>1 DEF MuxTypeOK
  <2> QED BY <1>1, <1>4, <2>1, DownRestsMux DEF DownInOrder, Fed, Attached, Handed, Linked
<1>5. UpInOrder'
      BY <1>1 DEF UpInOrder, UpIs, HeardIs, SaidTo, Given, Attached, Linked
<1> QED BY <1>2, <1>3, <1>4, <1>5 DEF DownInOrder

\* The main task reads "open".
LEMMA TakesOpenKeeps ==
  ASSUME MuxInv, NEW c \in Tunnels, TakesOpen(c)
  PROVE  MuxInv'
<1> USE DEF MuxInv
<1>1. /\ loop = "selects" /\ stream[c] = "new" /\ stream' = [stream EXCEPT ![c] = "on"]
      /\ loop' = "opens" /\ inHand' = {c} /\ Linked /\ Linked'
      /\ UNCHANGED <<links, stopping, device, joined, asked, passed, locals, outgoing, task,
                     inbound, bridge, start, got, said, read, heard>>
      BY DEF TakesOpen, taskSide, Linked
<1>2. inHand = {} /\ c \notin locals /\ passed[c] = 0 /\ stream'[c] = "on" /\ links # 0
      BY <1>1 DEF MainShape, StreamShape, StreamIs, MuxTypeOK
<1>3. MuxTypeOK'
      BY <1>1 DEF MuxTypeOK
<1>4. MainShape'
      BY <1>1, <1>2 DEF MainShape
<1>5. ASSUME NEW d \in Tunnels PROVE StreamIs(d)'
  <2>1. d # c => stream'[d] = stream[d]
        BY <1>1 DEF MuxTypeOK
  <2>2. CASE d # c
        BY <1>1, <1>2, <1>5, <2>1, <2>2 DEF StreamShape, StreamIs
  <2>3. CASE d = c
        BY <1>1, <1>2, <2>3 DEF StreamShape, StreamIs
  <2> QED BY <2>2, <2>3
<1>6. EndShape'
      BY <1>1 DEF EndShape, EndIs
<1>7. ASSUME NEW t \in Ends PROVE DownIs(t)'
  <2>1. Handed(t[2])' = Handed(t[2])
        BY <1>1, <1>2 DEF Handed
  <2> QED BY <1>1, <1>7, <2>1, DownRestsMux DEF DownInOrder, Fed, Attached
<1>8. ASSUME NEW t \in Ends PROVE HeardIs(t)' /\ (Attached(t[1])' => UpIs(t)')
      BY <1>1, <1>8, UpRestsMux DEF UpInOrder, HeardIs, Attached, Given
<1> QED BY <1>3, <1>4, <1>5, <1>6, <1>7, <1>8 DEF StreamShape, DownInOrder, UpInOrder

\* It takes a frame: as many as before are handed over while it holds it.
LEMMA TakesDataKeeps ==
  ASSUME MuxInv, NEW c \in Tunnels, TakesData(c)
  PROVE  MuxInv'
<1> USE DEF MuxInv
<1>1. /\ loop = "selects" /\ stream[c] = "on" /\ passed[c] < asked[c]
      /\ passed' = [passed EXCEPT ![c] = @ + 1]
      /\ loop' = (IF c \in locals THEN "hands" ELSE "reopens") /\ inHand' = {c}
      /\ Linked /\ Linked'
      /\ UNCHANGED <<links, stopping, device, joined, asked, stream, locals, outgoing, task,
                     inbound, bridge, start, got, said, read, heard>>
      BY DEF TakesData, roomSide, taskSide, Linked
<1>2. /\ inHand = {} /\ links # 0 /\ passed[c] \in Nat /\ asked[c] \in 0..MaxFrames
      /\ passed'[c] = passed[c] + 1 /\ \A d \in Tunnels : d # c => passed'[d] = passed[d]
      BY <1>1, TypesOfMux DEF MainShape, MuxTypeOK
<1>3. MuxTypeOK'
  <2>1. passed[c] + 1 \in 0..MaxFrames
        BY <1>1, <1>2, MuxBounds
  <2> QED BY <1>1, <2>1 DEF MuxTypeOK
<1>4. MainShape'
      BY <1>1, <1>2 DEF MainShape
<1>5. ASSUME NEW d \in Tunnels PROVE StreamIs(d)'
      BY <1>1, <1>2, <1>5 DEF StreamShape, StreamIs
<1>6. EndShape'
      BY <1>1 DEF EndShape, EndIs
<1>7. ASSUME NEW t \in Ends PROVE DownIs(t)'
  <2>1. t[2] \in Tunnels /\ passed[t[2]] \in Nat
        BY TypesOfMux
  <2>2. Handed(t[2])' = Handed(t[2])
        BY <1>1, <1>2, <2>1 DEF Handed
  <2> QED BY <1>1, <1>7, <2>2, DownRestsMux DEF DownInOrder, Fed, Attached
<1>8. ASSUME NEW t \in Ends PROVE HeardIs(t)' /\ (Attached(t[1])' => UpIs(t)')
      BY <1>1, <1>8, UpRestsMux DEF UpInOrder, HeardIs, Attached, Given
<1> QED BY <1>3, <1>4, <1>5, <1>6, <1>7, <1>8 DEF StreamShape, DownInOrder, UpInOrder

\* It reads "close" and drops the sender.
LEMMA TakesCloseKeeps ==
  ASSUME MuxInv, NEW c \in Tunnels, TakesClose(c)
  PROVE  MuxInv'
<1> USE DEF MuxInv
<1>1. /\ loop = "selects" /\ stream[c] = "on" /\ stream' = [stream EXCEPT ![c] = "off"]
      /\ device[c] = "gone" /\ locals' = locals \ {c} /\ Linked /\ Linked'
      /\ UNCHANGED <<loop, inHand, links, stopping, device, joined, asked, passed, outgoing,
                     task, inbound, bridge, start, got, said, read, heard>>
      BY DEF TakesClose, mainVars, taskSide, Linked
<1>2. inHand = {} /\ links # 0
      BY <1>1 DEF MainShape
<1>3. MuxTypeOK'
      BY <1>1 DEF MuxTypeOK
<1>4. MainShape'
      BY <1>1, <1>2 DEF MainShape
<1>5. ASSUME NEW d \in Tunnels PROVE StreamIs(d)'
  <2>1. (d # c => stream'[d] = stream[d]) /\ (d = c => stream'[d] = "off")
        BY <1>1 DEF MuxTypeOK
  <2> QED BY <1>1, <1>5, <2>1 DEF StreamShape, StreamIs
<1>6. EndShape'
      BY <1>1 DEF EndShape, EndIs
<1>7. ASSUME NEW t \in Ends PROVE DownIs(t)'
      BY <1>1, <1>7, DownRestsMux DEF DownInOrder, Fed, Attached, Handed
<1>8. ASSUME NEW t \in Ends PROVE HeardIs(t)' /\ (Attached(t[1])' => UpIs(t)')
      BY <1>1, <1>8, UpRestsMux DEF UpInOrder, HeardIs, Attached, Given
<1> QED BY <1>3, <1>4, <1>5, <1>6, <1>7, <1>8 DEF StreamShape, DownInOrder, UpInOrder

\* A local connection is open: the link has no other for c, and what it is handed begins with
\* the frame in hand or the next.
LEMMA LocalIsOpenKeeps ==
  ASSUME MuxInv, NEW c \in Tunnels, LocalIsOpen(c)
  PROVE  MuxInv'
<1> USE DEF MuxInv
<1> DEFINE o == <<links, c>>
           before == IF loop = "opens" THEN passed[c] ELSE passed[c] - 1
<1>1. /\ loop \in {"opens", "reopens"} /\ c \in inHand /\ locals' = locals \union {c}
      /\ task' = [task EXCEPT ![o] = "runs"] /\ start' = [start EXCEPT ![o] = before]
      /\ loop = "opens" => loop' = "selects" /\ inHand' = {}
      /\ loop = "reopens" => loop' = "hands" /\ inHand' = inHand
      /\ Linked /\ Linked'
      /\ UNCHANGED <<links, stopping, device, joined, asked, stream, passed, outgoing, inbound,
                     bridge, got, said, read, heard>>
      BY DEF LocalIsOpen, roomSide, Linked
<1>2. /\ o \in Ends /\ inHand = {c} /\ stream[c] = "on" /\ c \notin locals
      /\ task[o] = "none" /\ passed[c] \in Nat /\ before \in 0..MaxFrames
      /\ loop = "reopens" => passed[c] > 0
  <2>1. o \in Ends
        BY <1>1, LinksEnd
  <2>2. inHand = {c} /\ stream[c] = "on" /\ c \notin locals /\ (loop = "reopens" => passed[c] > 0)
        BY <1>1 DEF MainShape
  <2>3. task[o] = "none"
        BY <1>1, <2>2 DEF StreamShape, StreamIs
  <2>4. passed[c] \in 0..MaxFrames /\ MaxFrames \in Nat
        BY MuxBounds DEF MuxTypeOK
  <2> QED BY <1>1, <2>1, <2>2, <2>3, <2>4
<1>3. /\ \A t \in Ends : t # o => task'[t] = task[t] /\ start'[t] = start[t]
      /\ task'[o] = "runs" /\ start'[o] = before
      BY <1>1, <1>2 DEF MuxTypeOK
<1>4. /\ inbound[o] = <<>> /\ got[o] = <<>> /\ read[o] = 0 /\ heard[o] = <<>>
      /\ joined[c] = links => before = 0
      BY <1>1, <1>2 DEF EndShape, EndIs, StreamShape, StreamIs
<1> HIDE DEF o, before
<1>5. MuxTypeOK'
      BY <1>1, <1>2 DEF MuxTypeOK
<1>6. MainShape'
      BY <1>1, <1>2 DEF MainShape
<1>7. ASSUME NEW d \in Tunnels PROVE StreamIs(d)'
  <2>1. CASE d = c
        BY <1>1, <1>2, <1>3, <2>1 DEF StreamShape, StreamIs, o
  <2>2. CASE d # c
    <3>1. <<links, d>> # o
          BY <2>2 DEF o
    <3>2. task'[<<links, d>>] = task[<<links, d>>]
          BY <1>1, <1>3, <3>1, LinksEnd
    <3> QED BY <1>1, <1>2, <1>7, <2>2, <3>2 DEF StreamShape, StreamIs
  <2> QED BY <2>1, <2>2
<1>8. ASSUME NEW t \in Ends PROVE EndIs(t)'
  <2>1. CASE t = o
    <3>1. t[1] = links
          BY <2>1 DEF o
    <3> QED BY <1>1, <1>3, <2>1, <3>1, TypesOfMux DEF EndIs
  <2>2. CASE t # o
        BY <1>1, <1>3, <1>8, <2>2 DEF EndShape, EndIs
  <2> QED BY <2>1, <2>2
<1>9. Handed(c)' = before /\ \A d \in Tunnels : d # c => Handed(d)' = Handed(d)
      BY <1>1, <1>2 DEF Handed, before
<1>10. ASSUME NEW t \in Ends PROVE DownIs(t)'
  <2>1. CASE t = o
    <3>1. t[1] = links /\ t[2] = c
          BY <2>1 DEF o
    <3>2. got'[t] = <<>> /\ inbound'[t] = <<>> /\ Len(<<>>) = 0 /\ DOMAIN <<>> = {}
          BY <1>1, <1>4, <2>1
    <3> QED BY <1>1, <1>2, <1>3, <1>4, <1>9, <2>1, <3>1, <3>2 DEF DownIs
  <2>2. CASE t # o
    <3>1. Fed(t)' => Fed(t) /\ t[2] # c
          BY <1>1, <2>2, TypesOfMux DEF Fed, Attached, o
    <3> QED BY <1>1, <1>3, <1>9, <1>10, <2>2, <3>1, TypesOfMux, DownRestsMux DEF DownInOrder
  <2> QED BY <2>1, <2>2
<1>11. ASSUME NEW t \in Ends PROVE HeardIs(t)' /\ (Attached(t[1])' => UpIs(t)')
  <2>1. Given(t)' = Given(t)
        BY <1>1, <1>2, <1>3, <1>11 DEF Given
  <2> QED BY <1>1, <1>11, <2>1, UpRestsMux DEF UpInOrder, HeardIs, Attached
<1> QED BY <1>5, <1>6, <1>7, <1>8, <1>10, <1>11
        DEF StreamShape, EndShape, DownInOrder, UpInOrder

\* The frame in hand is the next of the queue, or the task is done and it is lost.
LEMMA HandsKeeps ==
  ASSUME MuxInv, NEW c \in Tunnels, Hands(c)
  PROVE  MuxInv'
<1> USE DEF MuxInv
<1> DEFINE o == <<links, c>>
<1>1. /\ loop = "hands" /\ c \in inHand /\ loop' = "selects" /\ inHand' = {}
      /\ \/ task[o] = "done" /\ UNCHANGED inbound
         \/ /\ task[o] # "done" /\ Len(inbound[o]) < InRoom
            /\ inbound' = [inbound EXCEPT ![o] = Append(@, passed[c])]
      /\ Linked /\ Linked'
      /\ UNCHANGED <<links, stopping, device, joined, asked, stream, passed, locals, outgoing,
                     task, bridge, start, got, said, read, heard>>
      BY DEF Hands, roomSide, Linked
<1>2. /\ o \in Ends /\ inHand = {c} /\ c \in locals /\ passed[c] \in 1..MaxFrames
      /\ stream[c] = "on"
  <2>1. passed[c] \in 0..MaxFrames /\ MaxFrames \in Nat
        BY MuxBounds DEF MuxTypeOK
  <2>2. inHand = {c} /\ c \in locals /\ passed[c] > 0 /\ stream[c] = "on"
        BY <1>1 DEF MainShape
  <2> QED BY <1>1, <2>1, <2>2, LinksEnd
<1>3. /\ o[1] = links /\ o[2] = c
      /\ \A t \in Ends : t # o => inbound'[t] = inbound[t]
      /\ inbound[o] \in Seq(1..MaxFrames) /\ Len(inbound[o]) \in Nat
      /\ \/ task[o] = "done" /\ inbound'[o] = inbound[o]
         \/ /\ task[o] # "done" /\ Len(inbound[o]) < InRoom
            /\ inbound'[o] = Append(inbound[o], passed[c])
      BY <1>1, <1>2, TypesOfMux DEF MuxTypeOK
<1> HIDE DEF o
<1>4. MuxTypeOK'
  <2> DEFINE s == inbound[o]
             n == Len(inbound[o])
  <2>1. inbound'[o] \in Seq(1..MaxFrames) /\ Len(inbound'[o]) <= InRoom
    <3>1. CASE task[o] = "done"
          BY <1>2, <1>3, <3>1 DEF MuxTypeOK
    <3>2. CASE task[o] # "done"
      <4>1. /\ s \in Seq(1..MaxFrames) /\ n \in Nat /\ n < InRoom /\ InRoom \in Nat
            /\ inbound'[o] = Append(s, passed[c])
            BY <1>3, <3>2, QueuesHaveRoom
      <4>2. Append(s, passed[c]) \in Seq(1..MaxFrames) /\ Len(Append(s, passed[c])) = n + 1
            BY <1>2, <4>1, AppendedIs
      <4> HIDE DEF n, s
      <4> QED BY <4>1, <4>2
    <3> QED BY <3>1, <3>2
  <2>2. inbound' \in [Ends -> Seq(1..MaxFrames)]
        BY <1>1, <1>2, <2>1, AppendedIs DEF MuxTypeOK
  <2>3. \A t \in Ends : Len(inbound'[t]) <= InRoom
        BY <1>3, <2>1 DEF MuxTypeOK
  <2> QED BY <1>1, <2>2, <2>3 DEF MuxTypeOK
<1>5. MainShape'
      BY <1>1, <1>2 DEF MainShape
<1>6. ASSUME NEW d \in Tunnels PROVE StreamIs(d)'
      BY <1>1, <1>2, <1>6 DEF StreamShape, StreamIs
<1>7. ASSUME NEW t \in Ends PROVE EndIs(t)'
  <2>1. task[o] # "none"
        BY <1>2 DEF StreamShape, StreamIs, o
  <2> QED BY <1>1, <1>3, <1>7, <2>1 DEF EndShape, EndIs
<1>8. Handed(c)' = passed[c] /\ Handed(c) = passed[c] - 1
      /\ \A d \in Tunnels : d # c => Handed(d)' = Handed(d)
      BY <1>1, <1>2 DEF Handed
<1>9. ASSUME NEW t \in Ends PROVE DownIs(t)'
  <2>1. CASE t = o /\ task[o] # "done"
    <3> DEFINE g == start[o] + Len(got[o])
               n == Len(inbound[o])
    <3>1. DownIs(o) /\ Fed(o)
          BY <1>1, <1>2, <1>3 DEF DownInOrder, Fed, Attached
    <3>2. start[o] \in Nat /\ Len(got[o]) \in Nat
          BY <1>2, TypesOfMux
    <3>3. /\ Len(inbound'[o]) = Len(inbound[o]) + 1
          /\ DOMAIN inbound[o] = 1..Len(inbound[o])
          /\ DOMAIN inbound'[o] = 1..(Len(inbound[o]) + 1)
          /\ \A i \in 1..Len(inbound[o]) : inbound'[o][i] = inbound[o][i]
          /\ inbound'[o][Len(inbound[o]) + 1] = passed[c]
          BY <1>2, <1>3, <2>1, AppendedIs
    <3>4. bridge[o] => start[o] + Len(got[o]) + Len(inbound[o]) = passed[c] - 1
          BY <1>3, <1>8, <2>1, <3>1 DEF DownIs
    <3>5. bridge[o] => \A i \in 1..n : inbound[o][i] = g + i
          BY <3>1, <3>3 DEF DownIs
    <3>6. \A i \in 1..(n + 1) : i \in 1..n \/ i = n + 1
          BY <1>3
    <3>7. g \in Nat /\ n \in Nat /\ passed[c] \in Nat /\ (bridge[o] => g + n = passed[c] - 1)
          BY <1>2, <1>3, <3>2, <3>4
    <3>8. /\ Len(inbound'[o]) = n + 1 /\ DOMAIN inbound'[o] = 1..(n + 1)
          /\ \A i \in 1..n : inbound'[o][i] = inbound[o][i]
          /\ inbound'[o][n + 1] = passed[c]
          BY <3>3
    <3> HIDE DEF g, n
    <3>9. bridge[o] => g + (n + 1) = passed[c]
          BY <3>7
    <3>10. bridge[o] => (\A i \in DOMAIN inbound'[o] : inbound'[o][i] = g + i)
                        /\ g + Len(inbound'[o]) = passed[c]
          BY <3>5, <3>6, <3>8, <3>9
    <3> QED BY <1>1, <1>3, <1>8, <2>1, <3>1, <3>10 DEF DownIs, g
  <2>2. CASE t # o
    <3>1. Fed(t) => t[2] # c
          BY <2>2, TypesOfMux DEF Fed, Attached, o
    <3> QED BY <1>1, <1>3, <1>8, <1>9, <2>2, <3>1, TypesOfMux, DownRestsMux
            DEF DownInOrder, Fed, Attached
  <2>3. CASE t = o /\ task[o] = "done"
        BY <1>1, <1>3, <1>9, <2>3, DownRestsMux DEF DownInOrder
  <2> QED BY <2>1, <2>2, <2>3
<1>10. ASSUME NEW t \in Ends PROVE HeardIs(t)' /\ (Attached(t[1])' => UpIs(t)')
      BY <1>1, <1>10, UpRestsMux DEF UpInOrder, HeardIs, Attached, Given
<1> QED BY <1>4, <1>5, <1>6, <1>7, <1>9, <1>10
        DEF StreamShape, EndShape, DownInOrder, UpInOrder

\* The task of a local connection hands the bridge a frame, which a closed end loses.
LEMMA DeliversKeeps ==
  ASSUME MuxInv, NEW t \in Ends, Delivers(t)
  PROVE  MuxInv'
<1> USE DEF MuxInv
<1>1. /\ task[t] = "runs" /\ inbound[t] # <<>> /\ inbound' = [inbound EXCEPT ![t] = Tail(@)]
      /\ \/ /\ bridge[t] /\ got' = [got EXCEPT ![t] = Append(@, Head(inbound[t]))]
            /\ task' = task
         \/ /\ ~bridge[t] /\ got' = got
            /\ (task' = task \/ task' = [task EXCEPT ![t] = "parts"])
      /\ UNCHANGED <<loop, inHand, links, stopping, device, joined, asked, stream, passed,
                     locals, outgoing, bridge, start, said, read, heard>>
      BY DEF Delivers, mainVars, roomSide
<1>2. /\ \A u \in Ends : u # t =>
           task'[u] = task[u] /\ inbound'[u] = inbound[u] /\ got'[u] = got[u]
      /\ inbound'[t] = Tail(inbound[t])
      /\ \/ bridge[t] /\ got'[t] = Append(got[t], Head(inbound[t])) /\ task'[t] = "runs"
         \/ ~bridge[t] /\ got'[t] = got[t] /\ task'[t] \in {"runs", "parts"}
      BY <1>1 DEF MuxTypeOK
<1>3. /\ inbound[t] \in Seq(1..MaxFrames) /\ got[t] \in Seq(1..MaxFrames)
      /\ Head(inbound[t]) \in 1..MaxFrames
      /\ inbound'[t] \in Seq(1..MaxFrames) /\ Len(inbound'[t]) = Len(inbound[t]) - 1
      /\ Append(got[t], Head(inbound[t])) \in Seq(1..MaxFrames)
  <2>1. inbound[t] \in Seq(1..MaxFrames) /\ got[t] \in Seq(1..MaxFrames)
        BY TypesOfMux
  <2>2. /\ Head(inbound[t]) \in 1..MaxFrames /\ Tail(inbound[t]) \in Seq(1..MaxFrames)
        /\ Len(Tail(inbound[t])) = Len(inbound[t]) - 1
        BY <1>1, <2>1, ShortenedIs
  <2>3. Append(got[t], Head(inbound[t])) \in Seq(1..MaxFrames)
        BY <2>1, <2>2, AppendedIs
  <2> QED BY <1>2, <2>1, <2>2, <2>3
<1>4. MuxTypeOK'
  <2>1. inbound' \in [Ends -> Seq(1..MaxFrames)] /\ got' \in [Ends -> Seq(1..MaxFrames)]
    <3>1. inbound \in [Ends -> Seq(1..MaxFrames)] /\ got \in [Ends -> Seq(1..MaxFrames)]
          BY DEF MuxTypeOK
    <3>2. Tail(inbound[t]) \in Seq(1..MaxFrames)
          BY <1>2, <1>3
    <3>3. inbound' = [inbound EXCEPT ![t] = Tail(inbound[t])]
          BY <1>1
    <3>4. \/ got' = got
          \/ got' = [got EXCEPT ![t] = Append(got[t], Head(inbound[t]))]
          BY <1>1
    <3>5. inbound' \in [Ends -> Seq(1..MaxFrames)]
          BY <3>1, <3>2, <3>3
    <3>6. got' \in [Ends -> Seq(1..MaxFrames)]
          BY <1>3, <3>1, <3>4
    <3> QED BY <3>5, <3>6
  <2>2. Len(inbound[t]) \in Nat /\ Len(inbound[t]) <= InRoom /\ InRoom \in Nat
        BY TypesOfMux, QueuesHaveRoom DEF MuxTypeOK
  <2>3. Len(inbound'[t]) <= InRoom
        BY <1>3, <2>2
  <2>4. \A u \in Ends : Len(inbound'[u]) <= InRoom
        BY <1>2, <2>3 DEF MuxTypeOK
  <2>5. task' \in [Ends -> {"none", "runs", "gives", "parts", "done"}]
        BY <1>1 DEF MuxTypeOK
  <2> QED BY <1>1, <2>1, <2>4, <2>5 DEF MuxTypeOK
<1>5. MainShape' /\ StreamShape'
      BY <1>1, <1>2, ShapesRest
<1>6. ASSUME NEW u \in Ends PROVE EndIs(u)'
      BY <1>1, <1>2, <1>6 DEF EndShape, EndIs
<1>7. ASSUME NEW u \in Ends PROVE DownIs(u)'
  <2>1. CASE u # t
        BY <1>1, <1>2, <1>7, <2>1, DownRestsMux DEF DownInOrder, Fed, Attached, Handed, Linked
  <2>2. CASE u = t
    <3> DEFINE s == start[t]
               n == Len(got[t])
               m == Len(inbound[t])
               h == Handed(t[2])
               ff == Fed(t)'
    <3>1. /\ s \in Nat /\ n \in Nat /\ m \in Nat \ {0}
          /\ DOMAIN inbound[t] = 1..m /\ DOMAIN inbound'[t] = 1..(m - 1)
          /\ Len(inbound'[t]) = m - 1
          /\ \A i \in 1..(m - 1) : inbound'[t][i] = inbound[t][i + 1]
          /\ Head(inbound[t]) = inbound[t][1]
          BY <1>1, <1>2, <1>3, TypesOfMux, ShortenedIs
    <3>2. /\ DOMAIN got[t] = 1..n /\ \A i \in 1..n : got[t][i] = s + i
          /\ joined[t[2]] = t[1] => s = 0
          /\ bridge[t] => \A i \in 1..m : inbound[t][i] = s + n + i
          /\ ff /\ bridge[t] => s + n + m = h
      <4>1. DOMAIN got[t] = 1..n
            BY <1>3
      <4>2. ff => Fed(t)
            BY <1>1 DEF Fed, Attached, Linked
      <4>3. DownIs(t) /\ task[t] # "done"
            BY <1>1 DEF DownInOrder
      <4>4. /\ \A i \in DOMAIN got[t] : got[t][i] = s + i
            /\ joined[t[2]] = t[1] => s = 0
            /\ bridge[t] => \A i \in DOMAIN inbound[t] : inbound[t][i] = s + n + i
            /\ Fed(t) /\ bridge[t] => s + n + m = h
            BY <4>3 DEF DownIs
      <4> HIDE DEF s, n, m, h, ff
      <4> QED BY <3>1, <4>1, <4>2, <4>4
    <3>3. Handed(t[2])' = h /\ start'[t] = s /\ joined'[t[2]] = joined[t[2]]
          BY <1>1 DEF Handed
    <3>4. CASE bridge[t]
      <4>1. /\ Len(got'[t]) = n + 1 /\ DOMAIN got'[t] = 1..(n + 1)
            /\ \A i \in 1..n : got'[t][i] = got[t][i]
            /\ got'[t][n + 1] = inbound[t][1]
            BY <1>2, <1>3, <3>1, <3>4, AppendedIs
      <4> HIDE DEF s, n, m, h, ff
      <4>2. 1 \in 1..m /\ \A i \in 1..(m - 1) : i + 1 \in 1..m
            BY <3>1
      <4>3. got'[t][n + 1] = s + (n + 1)
            BY <3>1, <3>2, <3>4, <4>1, <4>2
      <4>4. \A i \in 1..(n + 1) : i \in 1..n \/ i = n + 1
            BY <3>1
      <4>5. \A i \in 1..(n + 1) : got'[t][i] = s + i
            BY <3>2, <4>1, <4>3, <4>4
      <4>6. \A i \in 1..(m - 1) : inbound'[t][i] = s + (n + 1) + i
            BY <3>1, <3>2, <3>4, <4>2
      <4>7. ff => s + (n + 1) + (m - 1) = h
            BY <3>1, <3>2, <3>4
      <4> QED BY <2>2, <3>1, <3>2, <3>3, <4>1, <4>5, <4>6, <4>7 DEF DownIs, s, ff
    <3>5. CASE ~bridge[t]
          BY <1>1, <1>2, <2>2, <3>2, <3>3, <3>5 DEF DownIs
    <3> QED BY <3>4, <3>5
  <2> QED BY <2>1, <2>2
<1>8. ASSUME NEW u \in Ends PROVE HeardIs(u)' /\ (Attached(u[1])' => UpIs(u)')
  <2>1. Given(u)' = Given(u)
        BY <1>1, <1>2, <1>8 DEF Given
  <2> QED BY <1>1, <1>8, <2>1, UpRestsMux DEF UpInOrder, HeardIs, Attached, Linked
<1> QED BY <1>4, <1>5, <1>6, <1>7, <1>8 DEF EndShape, DownInOrder, UpInOrder

\* It reads a frame of the bridge, which is not given yet.
LEMMA ReadsKeeps ==
  ASSUME MuxInv, NEW t \in Ends, Reads(t)
  PROVE  MuxInv'
<1> USE DEF MuxInv
<1>1. /\ task[t] = "runs" /\ read' = [read EXCEPT ![t] = @ + 1]
      /\ task' = [task EXCEPT ![t] = "gives"]
      /\ UNCHANGED <<loop, inHand, links, stopping, device, joined, asked, stream, passed,
                     locals, outgoing, inbound, bridge, start, got, said, heard>>
      BY DEF Reads, mainVars, roomSide
<1>2. /\ \A u \in Ends : u # t => task'[u] = task[u] /\ read'[u] = read[u]
      /\ task'[t] = "gives" /\ read[t] \in Nat /\ read'[t] = read[t] + 1
      BY <1>1 DEF MuxTypeOK
<1>3. MuxTypeOK'
      BY <1>1, <1>2 DEF MuxTypeOK
<1>4. MainShape' /\ StreamShape'
      BY <1>1, <1>2, ShapesRest
<1>5. ASSUME NEW u \in Ends PROVE EndIs(u)'
      BY <1>1, <1>2, <1>5 DEF EndShape, EndIs
<1>6. ASSUME NEW u \in Ends PROVE DownIs(u)'
      BY <1>1, <1>2, <1>6, DownRestsMux DEF DownInOrder, Fed, Attached, Handed, Linked
<1>7. ASSUME NEW u \in Ends PROVE HeardIs(u)' /\ (Attached(u[1])' => UpIs(u)')
  <2>1. Given(u)' = Given(u)
        BY <1>1, <1>2, <1>7 DEF Given
  <2> QED BY <1>1, <1>7, <2>1, UpRestsMux DEF UpInOrder, HeardIs, Attached, Linked
<1> QED BY <1>3, <1>4, <1>5, <1>6, <1>7 DEF EndShape, DownInOrder, UpInOrder

\* It ends.
LEMMA TurnsKeeps ==
  ASSUME MuxInv, NEW t \in Ends, Turns(t)
  PROVE  MuxInv'
<1> USE DEF MuxInv
<1>1. /\ task[t] = "runs" /\ task' = [task EXCEPT ![t] = "parts"]
      /\ UNCHANGED <<loop, inHand, links, stopping, device, joined, asked, stream, passed,
                     locals, outgoing, inbound, bridge, start, got, said, read, heard>>
      BY DEF Turns, mainVars, roomSide
<1>2. (\A u \in Ends : u # t => task'[u] = task[u]) /\ task'[t] = "parts"
      BY <1>1 DEF MuxTypeOK
<1>3. MuxTypeOK'
      BY <1>1, <1>2 DEF MuxTypeOK
<1>4. MainShape' /\ StreamShape'
      BY <1>1, <1>2, ShapesRest
<1>5. ASSUME NEW u \in Ends PROVE EndIs(u)'
      BY <1>1, <1>2, <1>5 DEF EndShape, EndIs
<1>6. ASSUME NEW u \in Ends PROVE DownIs(u)'
      BY <1>1, <1>2, <1>6, DownRestsMux DEF DownInOrder, Fed, Attached, Handed, Linked
<1>7. ASSUME NEW u \in Ends PROVE HeardIs(u)' /\ (Attached(u[1])' => UpIs(u)')
  <2>1. Given(u)' = Given(u)
        BY <1>1, <1>2, <1>7 DEF Given
  <2> QED BY <1>1, <1>7, <2>1, UpRestsMux DEF UpInOrder, HeardIs, Attached, Linked
<1> QED BY <1>3, <1>4, <1>5, <1>6, <1>7 DEF EndShape, DownInOrder, UpInOrder

\* A frame that it read is put at the end of the queue to the relay, or the link is gone.
LEMMA GivesKeeps ==
  ASSUME MuxInv, NEW t \in Ends, Gives(t)
  PROVE  MuxInv'
<1> USE DEF MuxInv
<1> DEFINE f == [conn |-> t[2], frame |-> read[t]]
<1>1. /\ task[t] = "gives"
      /\ task' = [task EXCEPT ![t] = IF Attached(t[1]) THEN "runs" ELSE "parts"]
      /\ \/ Attached(t[1]) /\ Len(outgoing) < OutRoom /\ outgoing' = Append(outgoing, f)
         \/ ~Attached(t[1]) /\ outgoing' = outgoing
      /\ UNCHANGED <<loop, inHand, links, stopping, device, joined, asked, stream, passed,
                     locals, inbound, bridge, start, got, said, read, heard>>
      BY DEF Gives, RelaySend, mainVars, roomSide
<1>2. /\ \A u \in Ends : u # t => task'[u] = task[u]
      /\ task'[t] \in {"runs", "parts"} /\ read[t] \in Nat \ {0}
      BY <1>1, TypesOfMux DEF MuxTypeOK, EndShape, EndIs
<1>3. f \in OutFrame /\ f.conn = t[2] /\ f.frame = read[t]
      BY <1>2, TypesOfMux DEF OutFrame
<1> HIDE DEF f
<1>4. MuxTypeOK'
  <2>1. outgoing' \in Seq(OutFrame) /\ Len(outgoing') <= OutRoom
    <3>1. /\ outgoing \in Seq(OutFrame) /\ Len(outgoing) \in Nat /\ Len(outgoing) <= OutRoom
          /\ OutRoom \in Nat
          BY TypesOfMux, QueuesHaveRoom DEF MuxTypeOK
    <3>2. CASE outgoing' = Append(outgoing, f) /\ Len(outgoing) < OutRoom
      <4>1. outgoing' \in Seq(OutFrame) /\ Len(outgoing') = Len(outgoing) + 1
            BY <1>3, <3>1, <3>2, AppendedIs
      <4> QED BY <3>1, <3>2, <4>1
    <3> QED BY <1>1, <3>1, <3>2
  <2>2. task' \in [Ends -> {"none", "runs", "gives", "parts", "done"}]
        BY <1>1 DEF MuxTypeOK
  <2> QED BY <1>1, <2>1, <2>2 DEF MuxTypeOK
<1>5. MainShape' /\ StreamShape'
      BY <1>1, <1>2, ShapesRest DEF Attached
<1>6. ASSUME NEW u \in Ends PROVE EndIs(u)'
      BY <1>1, <1>2, <1>6 DEF EndShape, EndIs
<1>7. ASSUME NEW u \in Ends PROVE DownIs(u)'
      BY <1>1, <1>2, <1>7, DownRestsMux DEF DownInOrder, Fed, Attached, Handed, Linked
<1>8. ASSUME NEW u \in Ends PROVE HeardIs(u)'
      BY <1>1, <1>8 DEF UpInOrder, HeardIs
<1>9. ASSUME NEW u \in Ends, Attached(u[1])' PROVE UpIs(u)'
  <2>1. Attached(u[1]) /\ UpIs(u) /\ u[1] = links
        BY <1>1, <1>9 DEF UpInOrder, Attached, Linked
  <2>2. CASE u # t
    <3>1. Given(u)' = Given(u)
          BY <1>1, <1>2, <1>9, <2>2 DEF Given
    <3>2. CASE Attached(t[1])
      <4>1. u[2] # t[2]
            BY <1>9, <2>1, <2>2, <3>2, TypesOfMux DEF Attached
      <4>2. ~SaidTo(f, u[2])
            BY <1>3, <4>1 DEF SaidTo
      <4> QED BY <1>1, <1>3, <1>9, <2>1, <3>1, <3>2, <4>2, UpAppendsOther
    <3>3. CASE ~Attached(t[1])
          BY <1>1, <1>9, <2>1, <3>1, <3>3, UpRestsMux
    <3> QED BY <3>2, <3>3
  <2>3. CASE u = t
    <3> DEFINE n == Len(outgoing)
               r == read[t]
               h == heard[t]
               To(e) == SaidTo(e, t[2])
    <3>1. /\ n \in Nat /\ DOMAIN outgoing = 1..n /\ DOMAIN outgoing' = 1..(n + 1)
          /\ \A i \in 1..n : outgoing'[i] = outgoing[i]
          /\ outgoing'[n + 1] = f
          BY <1>1, <1>3, <2>1, <2>3, AppendedIs, TypesOfMux
    <3>2. Given(t) = r - 1 /\ Given(t)' = r
          BY <1>1, <1>2 DEF Given
    <3>3. /\ Len(h) <= r - 1 /\ Len(h) \in Nat /\ r \in Nat
          /\ \A i \in 1..n : To(outgoing[i]) => outgoing[i].frame <= r - 1
          /\ \A i, j \in 1..n :
               To(outgoing[i]) /\ To(outgoing[j]) /\ i < j =>
                 outgoing[i].frame < outgoing[j].frame
          /\ device[t[2]] # "gone" =>
               /\ \A i \in 1..n : To(outgoing[i]) => outgoing[i].frame > Len(h)
               /\ \A k \in (Len(h) + 1)..(r - 1) :
                    \E i \in 1..n : To(outgoing[i]) /\ outgoing[i].frame = k
          BY <1>2, <2>1, <2>3, <3>1, <3>2, TypesOfMux DEF UpIs
    <3>4. To(f) /\ f.frame = r
          BY <1>2, <1>3 DEF SaidTo, NotNow
    <3>5. \A i \in 1..n : outgoing[i].frame \in Nat
          BY <3>1, TypesOfMux
    <3>6. h = heard'[t] /\ device'[t[2]] = device[t[2]]
          BY <1>1
    <3> HIDE DEF n, r, h, To
    <3>7. /\ \A i \in 1..(n + 1) : i \in 1..n \/ i = n + 1
          /\ \A i \in 1..n : i \in 1..(n + 1) /\ ~(n + 1 < i)
          /\ n + 1 \in 1..(n + 1)
          /\ \A k \in (Len(h) + 1)..r : k = r \/ k \in (Len(h) + 1)..(r - 1)
          BY <3>1, <3>3
    <3>8. /\ Len(h) <= r
          /\ \A i \in 1..(n + 1) : To(outgoing'[i]) => outgoing'[i].frame <= r
          BY <3>1, <3>3, <3>4, <3>5, <3>7
    <3>9. ASSUME NEW i \in 1..(n + 1), NEW j \in 1..(n + 1),
                 To(outgoing'[i]), To(outgoing'[j]), i < j
          PROVE  outgoing'[i].frame < outgoing'[j].frame
      <4>1. i \in 1..n
            BY <3>1, <3>9
      <4>2. CASE j \in 1..n
            BY <3>1, <3>3, <3>9, <4>1, <4>2
      <4>3. CASE j = n + 1
            BY <3>1, <3>3, <3>4, <3>5, <3>9, <4>1, <4>3
      <4> QED BY <3>7, <4>2, <4>3
    <3>10. device[t[2]] # "gone" =>
             /\ \A i \in 1..(n + 1) : To(outgoing'[i]) => outgoing'[i].frame > Len(h)
             /\ \A k \in (Len(h) + 1)..r :
                  \E i \in 1..(n + 1) : To(outgoing'[i]) /\ outgoing'[i].frame = k
          BY <3>1, <3>3, <3>4, <3>5, <3>7
    <3> QED BY <2>3, <3>1, <3>2, <3>6, <3>8, <3>9, <3>10 DEF UpIs, SaidTo, NotNow, To
  <2> QED BY <2>2, <2>3
<1> QED BY <1>4, <1>5, <1>6, <1>7, <1>8, <1>9 DEF EndShape, DownInOrder, UpInOrder

\* Its last is the close, which is no frame of the bridge.
LEMMA SaysCloseKeeps ==
  ASSUME MuxInv, NEW t \in Ends, SaysClose(t)
  PROVE  MuxInv'
<1> USE DEF MuxInv
<1> DEFINE f == [conn |-> t[2], frame |-> NotNow]
<1>1. /\ task[t] = "parts" /\ task' = [task EXCEPT ![t] = "done"]
      /\ inbound' = [inbound EXCEPT ![t] = <<>>]
      /\ \/ Attached(t[1]) /\ Len(outgoing) < OutRoom /\ outgoing' = Append(outgoing, f)
         \/ ~Attached(t[1]) /\ outgoing' = outgoing
      /\ UNCHANGED <<loop, inHand, links, stopping, device, joined, asked, stream, passed,
                     locals, bridge, start, got, said, read, heard>>
      BY DEF SaysClose, RelaySend, mainVars, roomSide
<1>2. /\ \A u \in Ends : u # t => task'[u] = task[u] /\ inbound'[u] = inbound[u]
      /\ task'[t] = "done" /\ inbound'[t] = <<>>
      BY <1>1 DEF MuxTypeOK
<1>3. f \in OutFrame /\ \A c \in Tunnels : ~SaidTo(f, c)
      BY TypesOfMux DEF OutFrame, SaidTo, NotNow
<1> HIDE DEF f
<1>4. MuxTypeOK'
  <2>1. outgoing' \in Seq(OutFrame) /\ Len(outgoing') <= OutRoom
    <3>1. /\ outgoing \in Seq(OutFrame) /\ Len(outgoing) \in Nat /\ Len(outgoing) <= OutRoom
          /\ OutRoom \in Nat
          BY TypesOfMux, QueuesHaveRoom DEF MuxTypeOK
    <3>2. CASE outgoing' = Append(outgoing, f) /\ Len(outgoing) < OutRoom
      <4>1. outgoing' \in Seq(OutFrame) /\ Len(outgoing') = Len(outgoing) + 1
            BY <1>3, <3>1, <3>2, AppendedIs
      <4> QED BY <3>1, <3>2, <4>1
    <3> QED BY <1>1, <3>1, <3>2
  <2>2. task' \in [Ends -> {"none", "runs", "gives", "parts", "done"}]
        BY <1>1 DEF MuxTypeOK
  <2>3. inbound' \in [Ends -> Seq(1..MaxFrames)]
    <3>1. <<>> \in Seq(1..MaxFrames)
          OBVIOUS
    <3> QED BY <1>1, <3>1 DEF MuxTypeOK
  <2>4. \A u \in Ends : Len(inbound'[u]) <= InRoom
    <3>1. Len(<<>>) <= InRoom
          BY QueuesHaveRoom
    <3> QED BY <1>2, <3>1 DEF MuxTypeOK
  <2> QED BY <1>1, <2>1, <2>2, <2>3, <2>4 DEF MuxTypeOK
<1>5. MainShape' /\ StreamShape'
      BY <1>1, <1>2, ShapesRest DEF Attached
<1>6. ASSUME NEW u \in Ends PROVE EndIs(u)'
      BY <1>1, <1>2, <1>6 DEF EndShape, EndIs
<1>7. ASSUME NEW u \in Ends PROVE DownIs(u)'
      BY <1>1, <1>2, <1>7, DownRestsMux DEF DownInOrder, Fed, Attached, Handed, Linked
<1>8. ASSUME NEW u \in Ends PROVE HeardIs(u)' /\ (Attached(u[1])' => UpIs(u)')
  <2>1. Given(u)' = Given(u) /\ ~SaidTo(f, u[2])
        BY <1>1, <1>2, <1>3, <1>8, TypesOfMux DEF Given
  <2>2. HeardIs(u)' /\ (Attached(u[1])' => UpIs(u))
        BY <1>1, <1>8 DEF UpInOrder, HeardIs, Attached, Linked
  <2>3. CASE outgoing' = outgoing
        BY <1>1, <1>8, <2>1, <2>2, <2>3, UpRestsMux
  <2>4. CASE outgoing' = Append(outgoing, f)
        BY <1>1, <1>3, <1>8, <2>1, <2>2, <2>4, UpAppendsOther
  <2> QED BY <1>1, <2>3, <2>4
<1> QED BY <1>4, <1>5, <1>6, <1>7, <1>8 DEF EndShape, DownInOrder, UpInOrder

\* The main task writes the first of the queue, which an open device hears.
LEMMA WritesKeeps ==
  ASSUME MuxInv, Writes
  PROVE  MuxInv'
<1> USE DEF MuxInv
<1> DEFINE f == Head(outgoing)
           o == <<links, f.conn>>
<1>1. /\ loop = "selects" /\ outgoing # <<>> /\ outgoing' = Tail(outgoing)
      /\ \/ device[f.conn] # "open" /\ device' = device /\ heard' = heard
         \/ /\ device[f.conn] = "open" /\ f.frame = NotNow
            /\ device' = [device EXCEPT ![f.conn] = "gone"] /\ heard' = heard
         \/ /\ device[f.conn] = "open" /\ f.frame # NotNow
            /\ heard' = [heard EXCEPT ![o] = Append(@, f.frame)] /\ device' = device
      /\ UNCHANGED <<loop, inHand, links, stopping, joined, asked, stream, passed, locals,
                     task, inbound, bridge, start, got, said, read>>
      /\ Linked /\ Linked'
      BY DEF Writes, mainVars, taskSide, Linked
<1>2. /\ outgoing \in Seq(OutFrame) /\ Len(outgoing) \in Nat \ {0}
      /\ outgoing' \in Seq(OutFrame) /\ Len(outgoing') = Len(outgoing) - 1
      /\ 1 \in DOMAIN outgoing /\ f = outgoing[1]
      BY <1>1, TypesOfMux, ShortenedIs
<1>3. f.conn \in Tunnels /\ f.frame \in Nat /\ o \in Ends /\ o[1] = links /\ o[2] = f.conn
      BY <1>1, <1>2, TypesOfMux, LinksEnd
<1> HIDE DEF f, o
\* The next that an open device hears is the next of the bridge's.
<1>4. ASSUME device[f.conn] = "open", f.frame # NotNow
      PROVE  f.frame = Len(heard[o]) + 1 /\ f.frame <= Given(o)
  <2> DEFINE h == Len(heard[o])
             g == Given(o)
  <2>1. UpIs(o) /\ device[o[2]] # "gone" /\ SaidTo(outgoing[1], o[2])
        BY <1>1, <1>2, <1>3, <1>4 DEF UpInOrder, Attached, SaidTo
  <2>2. f.frame <= g /\ f.frame > h
        BY <1>2, <2>1 DEF UpIs
  <2>3. h \in Nat /\ g \in Int /\ f.frame \in Nat
        BY <1>3, TypesOfMux DEF Given
  <2> HIDE DEF h, g
  <2>4. h + 1 \in (h + 1)..g
        BY <2>2, <2>3
  <2>5. PICK i \in DOMAIN outgoing : SaidTo(outgoing[i], o[2]) /\ outgoing[i].frame = h + 1
        BY <2>1, <2>4 DEF UpIs, h, g
  <2>6. i \in 1..Len(outgoing)
        BY <1>2, TypesOfMux
  <2>7. i = 1
    <3>1. 1 < i => outgoing[1].frame < outgoing[i].frame
          BY <1>2, <2>1, <2>5 DEF UpIs
    <3> QED BY <1>2, <2>2, <2>3, <2>5, <2>6, <3>1
  <2> QED BY <1>2, <2>2, <2>5, <2>7 DEF h, g
<1>5. MuxTypeOK'
  <2>1. Len(outgoing') <= OutRoom
        BY <1>2, QueuesHaveRoom DEF MuxTypeOK
  <2>2. heard' \in [Ends -> Seq(Nat)]
    <3>1. heard[o] \in Seq(Nat) /\ Append(heard[o], f.frame) \in Seq(Nat)
          BY <1>3, TypesOfMux, AppendedIs
    <3> QED BY <1>1, <3>1 DEF MuxTypeOK
  <2>3. device' \in [Tunnels -> {"idle", "open", "gone"}]
        BY <1>1 DEF MuxTypeOK
  <2> QED BY <1>1, <1>2, <2>1, <2>2, <2>3 DEF MuxTypeOK
<1>6. MainShape'
      BY <1>1 DEF MainShape
<1>7. \A c \in Tunnels : device'[c] = device[c] \/ (device'[c] = "gone" /\ device[c] = "open")
      BY <1>1 DEF MuxTypeOK
<1>8. ASSUME NEW c \in Tunnels PROVE StreamIs(c)'
      BY <1>1, <1>7, <1>8 DEF StreamShape, StreamIs
<1>9. \A t \in Ends : t # o => heard'[t] = heard[t]
      BY <1>1 DEF MuxTypeOK
<1>10. task[o] = "none" => Given(o) = 0
      BY <1>3 DEF EndShape, EndIs, Given
<1>11. ASSUME NEW t \in Ends PROVE EndIs(t)'
  <2>1. t = o /\ task[o] = "none" => heard'[o] = heard[o]
        BY <1>1, <1>3, <1>4, <1>10 DEF NotNow
  <2> QED BY <1>1, <1>9, <1>11, <2>1 DEF EndShape, EndIs
<1>12. ASSUME NEW t \in Ends PROVE DownIs(t)'
      BY <1>1, <1>12, DownRestsMux DEF DownInOrder, Fed, Attached, Handed
<1>13. ASSUME NEW t \in Ends PROVE HeardIs(t)'
  <2>1. CASE t = o /\ device[f.conn] = "open" /\ f.frame # NotNow
    <3> DEFINE n == Len(heard[o])
    <3>1. heard[o] \in Seq(Nat) /\ heard'[o] = Append(heard[o], f.frame)
          BY <1>1, <1>3, <2>1, TypesOfMux DEF MuxTypeOK
    <3>2. /\ n \in Nat /\ DOMAIN heard[o] = 1..n /\ DOMAIN heard'[o] = 1..(n + 1)
          /\ \A i \in 1..n : heard'[o][i] = heard[o][i]
          /\ heard'[o][n + 1] = f.frame /\ f.frame = n + 1
          BY <1>3, <1>4, <2>1, <3>1, AppendedIs
    <3>3. \A i \in 1..n : heard[o][i] = i
          BY <1>3, <3>2 DEF UpInOrder, HeardIs
    <3> HIDE DEF n
    <3>4. \A i \in 1..(n + 1) : i \in 1..n \/ i = n + 1
          BY <3>2
    <3> QED BY <2>1, <3>2, <3>3, <3>4 DEF HeardIs
  <2>2. CASE heard'[t] = heard[t]
        BY <1>13, <2>2 DEF UpInOrder, HeardIs
  <2>3. \/ t = o /\ device[f.conn] = "open" /\ f.frame # NotNow
        \/ heard'[t] = heard[t]
        BY <1>1, <1>9, <1>13
  <2> QED BY <2>1, <2>2, <2>3
<1>14. ASSUME NEW t \in Ends, Attached(t[1])' PROVE UpIs(t)'
  <2>1. UpIs(t) /\ Attached(t[1]) /\ t[1] = links /\ Given(t)' = Given(t)
        BY <1>1, <1>14 DEF UpInOrder, Attached, Given
  <2>2. (t # o => t[2] # f.conn) /\ (t = o => t[2] = f.conn)
        BY <1>3, <1>14, <2>1, TypesOfMux DEF o
  <2>3. CASE t # o
    <3>1. ~SaidTo(f, t[2])
          BY <2>2, <2>3 DEF SaidTo
    <3>2. device'[t[2]] = device[t[2]]
          BY <1>1, <2>2, <2>3, <1>14, TypesOfMux DEF MuxTypeOK
    <3> QED BY <1>1, <1>9, <1>14, <2>1, <2>3, <3>1, <3>2, UpShedsOther DEF f
  <2>4. CASE t = o /\ device[f.conn] # "open"
    \* A device that never was there is sent nothing.
    <3>1. device[f.conn] = "idle" => task[o] = "none"
          BY <1>1, <1>3 DEF StreamShape, StreamIs, o
    <3>2. device[f.conn] = "idle" => ~SaidTo(f, t[2])
      <4>1. SaidTo(f, t[2]) => f.frame <= Given(t)
            BY <1>2, <2>1 DEF UpIs
      <4> QED BY <1>3, <1>10, <2>4, <3>1, <4>1 DEF SaidTo, NotNow
    <3>3. device[t[2]] # "gone" => device[f.conn] = "idle"
          BY <1>3, <2>2, <2>4 DEF MuxTypeOK
    <3> QED BY <1>1, <1>14, <2>1, <2>4, <3>2, <3>3, UpShedsOther DEF f
  <2>5. CASE t = o /\ device[f.conn] = "open" /\ f.frame = NotNow
    <3>1. device'[t[2]] = "gone" /\ heard'[t] = heard[t]
          BY <1>1, <1>3, <2>2, <2>5 DEF MuxTypeOK
    <3> QED BY <1>1, <1>14, <2>1, <3>1, UpShedsOther
  <2>6. CASE t = o /\ device[f.conn] = "open" /\ f.frame # NotNow
    <3> DEFINE n == Len(outgoing)
               g == Given(t)
               h == Len(heard[t])
               To(e) == SaidTo(e, t[2])
    <3>1. /\ n \in Nat \ {0} /\ DOMAIN outgoing = 1..n /\ DOMAIN outgoing' = 1..(n - 1)
          /\ \A i \in 1..(n - 1) : outgoing'[i] = outgoing[i + 1]
          /\ outgoing[1].frame = h + 1 /\ To(outgoing[1])
          BY <1>1, <1>2, <1>4, <2>2, <2>6, TypesOfMux, ShortenedIs DEF SaidTo
    <3>2. /\ Len(heard'[t]) = h + 1 /\ h \in Nat /\ h + 1 <= g /\ g \in Int
      <4>1. heard'[t] = Append(heard[t], f.frame) /\ heard[t] \in Seq(Nat)
            BY <1>1, <1>3, <2>6, TypesOfMux DEF MuxTypeOK
      <4>2. g \in Int
            BY <1>14, TypesOfMux DEF Given
      <4> QED BY <1>3, <1>4, <2>6, <4>1, <4>2, AppendedIs
    <3>3. /\ \A i \in 1..n : To(outgoing[i]) => outgoing[i].frame <= g
          /\ \A i, j \in 1..n :
               To(outgoing[i]) /\ To(outgoing[j]) /\ i < j =>
                 outgoing[i].frame < outgoing[j].frame
          /\ \A k \in (h + 1)..g :
               \E i \in 1..n : To(outgoing[i]) /\ outgoing[i].frame = k
          BY <2>1, <2>2, <2>6, <3>1 DEF UpIs
    <3>4. Given(t)' = g
          BY <2>1
    <3> HIDE DEF n, g, h, To
    <3>5. /\ \A i \in 1..(n - 1) : i + 1 \in 1..n /\ 1 < i + 1
          /\ \A i, j \in 1..(n - 1) : i < j => i + 1 < j + 1
          /\ \A i \in 1..n : i # 1 => i - 1 \in 1..(n - 1) /\ (i - 1) + 1 = i
          /\ 1 \in 1..n
          BY <3>1
    <3>6. \A i \in 1..(n - 1) : To(outgoing'[i]) => outgoing'[i].frame <= g
          BY <3>1, <3>3, <3>5
    <3>7. \A i, j \in 1..(n - 1) :
            To(outgoing'[i]) /\ To(outgoing'[j]) /\ i < j =>
              outgoing'[i].frame < outgoing'[j].frame
          BY <3>1, <3>3, <3>5
    <3>8. \A i \in 1..(n - 1) : To(outgoing'[i]) => outgoing'[i].frame > h + 1
          BY <3>1, <3>3, <3>5
    <3>9. ASSUME NEW k \in (h + 1 + 1)..g
          PROVE  \E i \in 1..(n - 1) : To(outgoing'[i]) /\ outgoing'[i].frame = k
      <4>1. k \in (h + 1)..g /\ k # h + 1
            BY <3>2
      <4>2. PICK i \in 1..n : To(outgoing[i]) /\ outgoing[i].frame = k
            BY <3>3, <4>1
      <4>3. i - 1 \in 1..(n - 1) /\ outgoing'[i - 1] = outgoing[i]
            BY <3>1, <3>5, <4>1, <4>2
      <4> QED BY <4>2, <4>3
    <3> QED BY <3>1, <3>2, <3>4, <3>6, <3>7, <3>8, <3>9 DEF UpIs, SaidTo, NotNow, To
  <2> QED BY <2>3, <2>4, <2>5, <2>6
<1> QED BY <1>5, <1>6, <1>8, <1>11, <1>12, <1>13, <1>14
        DEF StreamShape, EndShape, DownInOrder, UpInOrder

\* A new link has no local connections, and nothing is on its way on it.
LEMMA ConnectsKeeps ==
  ASSUME MuxInv, Connects
  PROVE  MuxInv'
<1> USE DEF MuxInv
<1>1. /\ loop = "rests" /\ loop' = "selects" /\ links < MaxLinks /\ links' = links + 1
      /\ ~Linked /\ Linked'
      /\ UNCHANGED <<inHand, stopping, device, joined, asked, stream, passed, locals, outgoing,
                     task, inbound, bridge, start, got, said, read, heard>>
      BY DEF Connects, roomSide, taskSide, Linked
<1>2. /\ locals = {} /\ outgoing = <<>> /\ inHand = {} /\ links \in Nat /\ MaxLinks \in Nat
      /\ links' \in 1..MaxLinks
      BY <1>1, TypesOfMux, MuxBounds DEF MainShape
<1>3. \A t \in Ends : t[1] = links' => task[t] = "none"
      BY <1>1, <1>2, TypesOfMux DEF EndShape, EndIs
<1>4. \A c \in Tunnels : <<links', c>> \in Ends /\ task[<<links', c>>] = "none"
      BY <1>2, <1>3 DEF Ends
<1>5. MuxTypeOK'
      BY <1>1, <1>2 DEF MuxTypeOK
<1>6. MainShape'
      BY <1>1, <1>2 DEF MainShape
<1>7. ASSUME NEW c \in Tunnels PROVE StreamIs(c)'
  <2>1. joined[c] <= links /\ joined[c] \in Nat
        BY <1>7, TypesOfMux DEF StreamShape, StreamIs
  <2>2. joined[c] <= links' /\ joined[c] # links'
        BY <1>1, <1>2, <2>1
  <2> QED BY <1>1, <1>2, <1>4, <1>7, <2>2 DEF StreamShape, StreamIs
<1>8. ASSUME NEW t \in Ends PROVE EndIs(t)'
      BY <1>1, <1>2, <1>8, TypesOfMux DEF EndShape, EndIs
<1>9. ASSUME NEW t \in Ends PROVE DownIs(t)'
      BY <1>1, <1>2, <1>9, DownRestsMux DEF DownInOrder, Fed
<1>10. ASSUME NEW t \in Ends PROVE HeardIs(t)' /\ (Attached(t[1])' => UpIs(t)')
  <2>1. Attached(t[1])' => /\ outgoing' = <<>> /\ heard'[t] = <<>> /\ Given(t)' = 0
                           /\ DOMAIN outgoing' = {} /\ Len(heard'[t]) = 0
        BY <1>1, <1>2, <1>3, <1>10 DEF Attached, EndShape, EndIs, Given
  <2>2. (Len(heard'[t]) + 1)..Given(t)' = {} \/ ~Attached(t[1])'
        BY <2>1
  <2> QED BY <1>1, <1>10, <2>1, <2>2 DEF UpInOrder, HeardIs, UpIs
<1> QED BY <1>5, <1>6, <1>7, <1>8, <1>9, <1>10 DEF StreamShape, EndShape, DownInOrder, UpInOrder

\* The end of a link: nothing is on its way any more.
LEMMA LeavesKeeps ==
  ASSUME MuxInv, NEW cutOff \in BOOLEAN, Leaves(cutOff), loop' \in {"rests", "ended"},
         stopping' \in BOOLEAN
  PROVE  MuxInv'
<1> USE DEF MuxInv
<1>1. PICK staying \in SUBSET {c \in Tunnels : device[c] = "open"} :
        /\ device' = [c \in Tunnels |-> IF device[c] = "open" /\ c \notin staying
                                        THEN "gone" ELSE device[c]]
        /\ stream' = [c \in Tunnels |-> IF c \in staying THEN "on"
                                       ELSE IF device[c] = "idle" THEN "idle" ELSE "off"]
      BY DEF Leaves
<1>2. PICK cut \in SUBSET Ends :
        /\ \A t \in cut : task[t] # "none"
        /\ task' = [t \in Ends |-> IF t \in cut THEN "done" ELSE task[t]]
        /\ inbound' = [t \in Ends |-> IF t \in cut THEN <<>> ELSE inbound[t]]
      BY DEF Leaves
<1>3. /\ inHand' = {} /\ locals' = {} /\ outgoing' = <<>> /\ passed' = asked /\ ~Linked'
      /\ UNCHANGED <<links, joined, asked, bridge, start, got, said, read, heard>>
      BY DEF Leaves, Linked
<1>4. MuxTypeOK'
  <2>1. /\ <<>> \in Seq(1..MaxFrames) /\ <<>> \in Seq(OutFrame) /\ Len(<<>>) = 0
        /\ 0 <= InRoom /\ 0 <= OutRoom
        BY QueuesHaveRoom
  <2>2. inbound' \in [Ends -> Seq(1..MaxFrames)] /\ \A t \in Ends : Len(inbound'[t]) <= InRoom
        BY <1>2, <2>1 DEF MuxTypeOK
  <2>3. /\ device' \in [Tunnels -> {"idle", "open", "gone"}]
        /\ stream' \in [Tunnels -> {"idle", "new", "on", "off"}]
        /\ task' \in [Ends -> {"none", "runs", "gives", "parts", "done"}]
        BY <1>1, <1>2 DEF MuxTypeOK
  <2> QED BY <1>3, <2>1, <2>2, <2>3 DEF MuxTypeOK
<1>5. MainShape'
      BY <1>3 DEF MainShape
<1>6. ASSUME NEW c \in Tunnels PROVE StreamIs(c)'
      BY <1>1, <1>3, <1>6 DEF StreamShape, StreamIs, MuxTypeOK
<1>7. ASSUME NEW t \in Ends PROVE EndIs(t)'
      BY <1>2, <1>3, <1>7 DEF EndShape, EndIs
<1>8. ASSUME NEW t \in Ends PROVE DownIs(t)'
      BY <1>2, <1>3, <1>8, DownRestsMux DEF DownInOrder, Fed
<1>9. ASSUME NEW t \in Ends PROVE HeardIs(t)' /\ ~Attached(t[1])'
      BY <1>3, <1>9 DEF UpInOrder, HeardIs, Attached
<1> QED BY <1>4, <1>5, <1>6, <1>7, <1>8, <1>9 DEF StreamShape, EndShape, DownInOrder, UpInOrder

LEMMA BreaksKeeps ==
  ASSUME MuxInv, Breaks
  PROVE  MuxInv'
BY LeavesKeeps DEF Breaks, MuxInv, MuxTypeOK

\* The loop sees the stop: it leaves its link, or had none.
LEMMA StopIsSeenKeeps ==
  ASSUME MuxInv, StopIsSeen
  PROVE  MuxInv'
<1> USE DEF MuxInv
<1>1. CASE Leaves(TRUE)
      BY <1>1, LeavesKeeps DEF StopIsSeen, MuxTypeOK
<1>2. CASE ~Leaves(TRUE)
  <2>1. /\ loop' = "ended" /\ ~Linked /\ ~Linked'
        /\ UNCHANGED <<inHand, links, stopping, device, joined, asked, stream, passed, locals,
                       outgoing, task, inbound, bridge, start, got, said, read, heard>>
        BY <1>2 DEF StopIsSeen, roomSide, taskSide, Linked
  <2>2. inHand = {}
        BY <2>1 DEF MainShape, Linked
  <2>3. MuxTypeOK'
        BY <2>1 DEF MuxTypeOK
  <2>4. MainShape' /\ StreamShape' /\ EndShape'
        BY <2>1, <2>2 DEF MainShape, StreamShape, StreamIs, EndShape, EndIs
  <2>5. ASSUME NEW t \in Ends PROVE DownIs(t)'
        BY <2>1, <2>5, DownRestsMux DEF DownInOrder, Fed, Attached
  <2>6. UpInOrder'
        BY <2>1 DEF UpInOrder, HeardIs, Attached
  <2> QED BY <2>3, <2>4, <2>5, <2>6 DEF DownInOrder
<1> QED BY <1>1, <1>2

LEMMA MuxInitially == MuxInit => MuxInv
<1> SUFFICES ASSUME MuxInit PROVE MuxInv
    OBVIOUS
<1> USE DEF MuxInit
<1>1. /\ <<>> \in Seq(1..MaxFrames) /\ <<>> \in Seq(OutFrame) /\ <<>> \in Seq(Nat)
      /\ Len(<<>>) = 0 /\ 0 <= InRoom /\ 0 <= OutRoom /\ DOMAIN <<>> = {}
      /\ MaxFrames \in Nat /\ MaxLinks \in Nat
      BY QueuesHaveRoom, MuxBounds
<1>2. MuxTypeOK
  <2>1. 0 \in 0..MaxFrames /\ 0 \in 0..MaxLinks /\ 0 \in Nat
        BY <1>1
  <2>2. (\A t \in Ends : Len(inbound[t]) <= InRoom) /\ Len(outgoing) <= OutRoom
        BY <1>1
  <2>3. /\ joined \in [Tunnels -> 0..MaxLinks] /\ asked \in [Tunnels -> 0..MaxFrames]
        /\ passed \in [Tunnels -> 0..MaxFrames] /\ start \in [Ends -> 0..MaxFrames]
        /\ said \in [Ends -> Nat] /\ read \in [Ends -> Nat]
        BY <2>1
  <2>4. /\ inbound \in [Ends -> Seq(1..MaxFrames)] /\ got \in [Ends -> Seq(1..MaxFrames)]
        /\ heard \in [Ends -> Seq(Nat)] /\ outgoing \in Seq(OutFrame)
        BY <1>1
  <2> QED BY <2>1, <2>2, <2>3, <2>4 DEF MuxTypeOK
<1>3. ~Linked /\ MainShape
      BY DEF Linked, MainShape
<1>4. ASSUME NEW c \in Tunnels PROVE StreamIs(c)
  <2>1. /\ joined[c] = 0 /\ links = 0 /\ device[c] = "idle" /\ stream[c] = "idle"
        /\ asked[c] = 0 /\ passed[c] = 0 /\ locals = {}
        BY <1>4
  <2> HIDE DEF MuxInit
  <2> QED BY <1>3, <2>1 DEF StreamIs
<1>5. EndShape
      BY DEF EndShape, EndIs
<1>6. ASSUME NEW t \in Ends PROVE DownIs(t)
      BY <1>1, <1>3, <1>6 DEF DownIs, Fed, Attached
<1>7. UpInOrder
      BY <1>1, <1>3 DEF UpInOrder, HeardIs, Attached
<1> QED BY <1>2, <1>3, <1>4, <1>5, <1>6, <1>7 DEF MuxInv, StreamShape, DownInOrder

LEMMA MuxStep ==
  ASSUME MuxInv, [MuxNext]_muxVars
  PROVE  MuxInv'
<1>1. CASE \E c \in Tunnels : DeviceJoins(c) \/ DeviceSpeaks(c) \/ DeviceParts(c)
      BY <1>1, DeviceJoinsKeeps, DeviceSpeaksKeeps, DevicePartsKeeps
<1>2. CASE \E t \in Ends : BridgeSays(t) \/ BridgeShuts(t) \/ TaskMoves(t)
      BY <1>2, BridgeSaysKeeps, BridgeShutsKeeps, DeliversKeeps, ReadsKeeps, TurnsKeeps,
         GivesKeeps, SaysCloseKeeps DEF TaskMoves
<1>3. CASE MainMoves
      BY <1>3, TakesOpenKeeps, TakesDataKeeps, TakesCloseKeeps, LocalIsOpenKeeps, HandsKeeps,
         WritesKeeps DEF MainMoves
<1>4. CASE Connects \/ Breaks \/ StopComes \/ StopIsSeen
      BY <1>4, ConnectsKeeps, BreaksKeeps, StopComesKeeps, StopIsSeenKeeps
<1>5. CASE UNCHANGED muxVars
      BY <1>5 DEF muxVars, mainVars, roomSide, taskSide, MuxInv, MuxTypeOK, MainShape, Linked,
                  StreamShape, StreamIs, EndShape, EndIs, DownInOrder, DownIs, Fed, Attached,
                  Handed, UpInOrder, UpIs, HeardIs, SaidTo, Given
<1> QED BY <1>1, <1>2, <1>3, <1>4, <1>5 DEF MuxNext

LEMMA MuxSuffices == MuxInv => RelayedInOrder
BY DEF MuxInv, RelayedInOrder, DownInOrder, DownIs, UpInOrder, HeardIs

LEMMA MuxAlways == MuxSpec => []MuxInv
<1>1. MuxInit => MuxInv
      BY MuxInitially
<1>2. MuxInv /\ [MuxNext]_muxVars => MuxInv'
      BY MuxStep
<1> QED BY <1>1, <1>2, PTL DEF MuxSpec

\* However the tasks of the Rust bridge wait for one another, and whatever breaks, ends or is
\* closed meanwhile: the bridge gets the frames of a device one after the other, from the
\* device's first when it came with the link, and the device gets the bridge's from the first
\* with none left out.
THEOREM MuxRelaysInOrder == MuxSpec => []RelayedInOrder
BY MuxAlways, MuxSuffices, PTL

\* The main task and a local connection's that wait for one another wait for ever: nothing
\* that another task, a device, the relay or a stop does takes either out of it.
THEOREM CircleStays == MuxSpec => [][Circle => Circle']_muxVars
<1>1. ASSUME MuxInv, Circle, MuxNext PROVE Circle'
  <2>1. PICK c \in inHand : /\ Len(inbound[<<links, c>>]) = InRoom
                            /\ task[<<links, c>>] \in {"gives", "parts"}
        BY <1>1 DEF Circle
  <2> DEFINE o == <<links, c>>
  <2>2. /\ loop = "hands" /\ Len(outgoing) = OutRoom /\ OutRoom \in Nat /\ InRoom \in Nat
        /\ inHand = {c} /\ MuxTypeOK /\ Attached(links)
        BY <1>1, QueuesHaveRoom DEF Circle, MuxInv, MainShape, Attached, Linked
  <2>3. /\ o[1] = links /\ Len(inbound[o]) = InRoom /\ task[o] \in {"gives", "parts"}
        /\ o \in Ends
        BY <1>1, <2>1, <2>2, LinksEnd DEF MuxInv, MuxTypeOK, Attached
  <2> HIDE DEF o
  <2>4. /\ loop' = "hands" /\ inHand' = inHand /\ links' = links /\ outgoing' = outgoing
        /\ inbound'[o] = inbound[o] /\ task'[o] = task[o]
    <3>1. CASE \E d \in Tunnels : DeviceJoins(d) \/ DeviceSpeaks(d) \/ DeviceParts(d)
          BY <2>2, <3>1 DEF DeviceJoins, DeviceSpeaks, DeviceParts, mainVars, taskSide
    <3>2. CASE \E t \in Ends : BridgeSays(t) \/ BridgeShuts(t)
          BY <2>2, <3>2 DEF BridgeSays, BridgeShuts, mainVars
    <3>3. ASSUME NEW t \in Ends, Delivers(t) \/ Reads(t) \/ Turns(t)
          PROVE  /\ loop' = "hands" /\ inHand' = inHand /\ links' = links
                 /\ outgoing' = outgoing /\ inbound'[o] = inbound[o] /\ task'[o] = task[o]
      <4>1. t # o
            BY <2>3, <3>3 DEF Delivers, Reads, Turns
      <4> QED BY <2>2, <2>3, <3>3, <4>1 DEF Delivers, Reads, Turns, mainVars, MuxTypeOK
    <3>4. ASSUME NEW t \in Ends, Gives(t) \/ SaysClose(t)
          PROVE  /\ loop' = "hands" /\ inHand' = inHand /\ links' = links
                 /\ outgoing' = outgoing /\ inbound'[o] = inbound[o] /\ task'[o] = task[o]
      <4>1. ~Attached(t[1]) /\ outgoing' = outgoing
            BY <2>2, <3>4 DEF Gives, SaysClose, RelaySend
      <4>2. t # o
            BY <2>2, <2>3, <4>1
      <4> QED BY <2>2, <2>3, <3>4, <4>1, <4>2 DEF Gives, SaysClose, mainVars, MuxTypeOK
    <3>5. CASE MainMoves
      <4>1. ASSUME NEW d \in Tunnels PROVE ~Hands(d)
            BY <2>2, <2>3 DEF Hands, o
      <4> QED BY <2>2, <3>5, <4>1 DEF MainMoves, TakesOpen, TakesData, TakesClose,
                                      LocalIsOpen, Writes
    <3>6. CASE Connects \/ Breaks \/ StopIsSeen
          BY <2>2, <3>6 DEF Connects, Breaks, StopIsSeen
    <3>7. CASE StopComes
          BY <2>2, <3>7 DEF StopComes, taskSide
    <3> QED BY <1>1, <3>1, <3>2, <3>3, <3>4, <3>5, <3>6, <3>7 DEF MuxNext, TaskMoves
  <2> QED BY <2>2, <2>3, <2>4 DEF Circle, o
<1>2. MuxInv /\ [MuxNext]_muxVars => [Circle => Circle']_muxVars
      BY <1>1
<1> QED BY <1>2, MuxAlways, PTL DEF MuxSpec

-----------------------------------------------------------------------------
(* 5. The cloud's parts together. *)

\* A step of the cloud is one of the pairing or leaves it alone.
LEMMA CloudHasPairing == [CloudNext]_allVars => [PairingNext]_pairingVars
<1>1. CASE UNCHANGED allVars
      BY <1>1 DEF allVars
<1>2. CASE CloudNext
      BY <1>2 DEF CloudNext, PairingNext, Watches, OfPairing, OfRelay, OfRegistry,
                  OfMux
<1> QED BY <1>1, <1>2

\* The same of the relay,
LEMMA CloudHasRelay == [CloudNext]_allVars => [RelayNext]_relayVars
<1>1. CASE UNCHANGED allVars
      BY <1>1 DEF allVars
<1>2. CASE CloudNext
      BY <1>2 DEF CloudNext, RelayNext, LocalStep, RoomStep, SocketStep, DialsOn, OfPairing,
                  OfRelay, OfRegistry, OfMux
<1> QED BY <1>1, <1>2

\* of the registry,
LEMMA CloudHasRegistry == [CloudNext]_allVars => [RegistryNext]_registryVars
<1>1. CASE UNCHANGED allVars
      BY <1>1 DEF allVars
<1>2. CASE CloudNext
      BY <1>2 DEF CloudNext, RegistryNext, Advances, Continues, OfPairing, OfRelay, OfRegistry,
                  OfMux
<1> QED BY <1>1, <1>2

\* and of the multiplexer.
LEMMA CloudHasMux == [CloudNext]_allVars => [MuxNext]_muxVars
<1>1. CASE UNCHANGED allVars
      BY <1>1 DEF allVars
<1>2. CASE CloudNext
      BY <1>2 DEF CloudNext, MuxNext, MainMoves, TaskMoves, OfPairing, OfRelay, OfRegistry,
                  OfMux
<1> QED BY <1>1, <1>2

\* A code pairs one client, or says why not, in every behaviour of the whole.
THEOREM CloudPairsOne == CloudSpec => []PairsOneOrSaysWhy
<1>1. CloudInit => PairingInv
      BY PairingInitially DEF CloudInit
<1>2. PairingInv /\ [CloudNext]_allVars => PairingInv'
      BY CloudHasPairing, PairingStep
<1> QED BY <1>1, <1>2, PairingSuffices, PTL DEF CloudSpec

\* Both ends of the road, the TypeScript client's and the Rust bridge's, keep order in every
\* behaviour of the whole.
THEOREM CloudKeepsOrder == CloudSpec => []RelaysKeepOrder
<1>1. CloudInit => RelayInv /\ MuxInv
      BY RelayInitially, MuxInitially DEF CloudInit
<1>2. RelayInv /\ [CloudNext]_allVars => RelayInv'
      BY CloudHasRelay, RelayStep
<1>3. MuxInv /\ [CloudNext]_allVars => MuxInv'
      BY CloudHasMux, MuxStep
<1>4. RelayInv /\ MuxInv => RelaysKeepOrder
      BY RelaySuffices, MuxSuffices DEF RelaysKeepOrder
<1> QED BY <1>1, <1>2, <1>3, <1>4, PTL DEF CloudSpec

\* Credentials work in every behaviour of the whole.
THEOREM CloudLetsIn == CloudSpec => []CredentialsWork
<1>1. CloudInit => RegistryInv
      BY RegistryInitially DEF CloudInit
<1>2. RegistryInv /\ [CloudNext]_allVars => RegistryInv'
      BY CloudHasRegistry, RegistryStep
<1>3. RegistryInv => CredentialsWork
      BY DEF RegistryInv, GivenIsActive
<1> QED BY <1>1, <1>2, <1>3, PTL DEF CloudSpec

\* Retired devices stay out in every behaviour of the whole.
THEOREM CloudKeepsOut == CloudSpec => RetiredStaysOut
<1>1. CloudInit => RegistryInv
      BY RegistryInitially DEF CloudInit
<1>2. RegistryInv /\ [CloudNext]_allVars => RegistryInv' /\ [StaysOut]_registryVars
      BY CloudHasRegistry, RegistryStep
<1>3. CloudSpec => [][StaysOut]_registryVars
      BY <1>1, <1>2, PTL DEF CloudSpec
<1> QED BY <1>3 DEF StaysOut, RetiredStaysOut
=============================================================================
