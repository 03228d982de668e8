------------------------------- MODULE Pairing -------------------------------
(***************************************************************************)
(* One pairing code, from the Mac's page that shows it to the client that  *)
(* holds a device's key: the code in the bridge (device-manager.ts), the   *)
(* watcher that fetches requests from the cloud (bridge.ts), the cloud's   *)
(* room for the code (pairing-room.ts), and the clients that scanned it    *)
(* (useBridge.ts), over the cloud or the local network.                    *)
(*                                                                         *)
(* Answers get lost and requests overtake one another, at most MaxFaults   *)
(* times.  A room answers one request at a time, so each of its handlers   *)
(* is one step.                                                            *)
(***************************************************************************)
EXTENDS Naturals, FiniteSets

CONSTANTS
  Clients,     \* the phones and browsers that scan the code
  Nobody,      \* no client
  MaxFaults    \* bound: answers lost and calls that time out

ASSUME NobodyIsNoClient == Nobody \notin Clients
ASSUME MaxFaultsIsNatural == MaxFaults \in Nat

VARIABLES
  code,       \* the bridge's pairing: unmade, registering, open or gone
  offered,      \* where the code may be used: a subset of {cloud, lan}
  expired,    \* its 120 seconds are over
  devices,    \* clients whose key a device row of the bridge was made for
  watcher,    \* the bridge's watcher: off, look, provision, succeed, refuse
  aborted,    \* the watcher's signal
  request,    \* the client whose request the watcher holds
  registration,       \* the room's registration: none, open
  pending,    \* the room's pending request: its client
  completion, \* the room's completion: none, ok, error
  delayed,       \* completions on their way after their call timed out
  cancel,     \* the Mac's page cancels: no, asked, done
  client,     \* idle, local, polling, paired or failed, for each client
  asks,       \* the client whose request id the poller was given
  slow,       \* the client's own 60 seconds are over
  faults      \* faults so far

pairingVars == <<code, offered, expired, devices, watcher, aborted, request, registration,
          pending, completion, delayed, cancel, client, asks, slow, faults>>

macVars == <<code, offered, devices, watcher, aborted, request, cancel>>
codeVars == <<registration, pending, completion>>
scannerVars == <<client, asks, slow>>

PairingTypeOK ==
  /\ code \in {"unmade", "registering", "open", "gone"}
  /\ offered \subseteq {"cloud", "lan"}
  /\ expired \in BOOLEAN
  /\ devices \subseteq Clients
  /\ watcher \in {"off", "look", "provision", "succeed", "refuse"}
  /\ aborted \in BOOLEAN
  /\ request \in Clients \union {Nobody}
  /\ registration \in {"none", "open"}
  /\ pending \in Clients \union {Nobody}
  /\ completion \in {"none", "ok", "error"}
  /\ delayed \subseteq {"ok", "error"}
  /\ cancel \in {"no", "asked", "done"}
  /\ client \in [Clients -> {"idle", "local", "polling", "paired", "failed"}]
  /\ asks \in [Clients -> Clients \union {Nobody}]
  /\ slow \in [Clients -> BOOLEAN]
  /\ faults \in 0..MaxFaults

PairingInit ==
  /\ code = "unmade"
  /\ offered = {}
  /\ expired = FALSE
  /\ devices = {}
  /\ watcher = "off"
  /\ aborted = FALSE
  /\ request = Nobody
  /\ registration = "none"
  /\ pending = Nobody
  /\ completion = "none"
  /\ delayed = {}
  /\ cancel = "no"
  /\ client = [c \in Clients |-> "idle"]
  /\ asks = [c \in Clients |-> Nobody]
  /\ slow = [c \in Clients |-> FALSE]
  /\ faults = 0

\* An answer is lost or a call times out; at most MaxFaults times.
Fault == faults < MaxFaults /\ faults' = faults + 1

-----------------------------------------------------------------------------
(* The cloud's room.                                                       *)

DeleteAll == registration' = "none" /\ pending' = Nobody /\ completion' = "none"

\* Every handler but register first looks for a registration in its time.
Alive == registration = "open" /\ ~expired

\* POST /register.
Register ==
  /\ registration' = IF expired THEN registration ELSE "open"
  /\ UNCHANGED <<pending, completion>>

\* POST /device: the first request is kept, and everyone is given its id.
Accepts == Alive /\ completion = "none"
AcceptDeviceRequest(c) ==
  IF ~Alive THEN DeleteAll
  ELSE /\ pending' = IF Accepts /\ pending = Nobody THEN c ELSE pending
       /\ UNCHANGED <<registration, completion>>

\* GET /device/result: what the poller of request q is told.
Answer(q) ==
  IF ~Alive \/ pending # q THEN "gone"
  ELSE IF completion = "none" THEN "wait" ELSE completion

\* (Mutant: a poll that is told to wait empties the room too.)
DeviceResultDeletes(q) == DeleteAll

\* A completion is handed out once.
DeviceResult(q) ==
  IF ~Alive \/ Answer(q) \in {"ok", "error"} THEN DeleteAll
  ELSE UNCHANGED codeVars

\* POST /mac/complete: an earlier completion is overwritten.
Complete(result) ==
  IF ~Alive THEN DeleteAll
  ELSE /\ completion' = IF pending = Nobody THEN completion ELSE result
       /\ UNCHANGED <<registration, pending>>

\* The alarm the registration set.
Alarm ==
  /\ expired /\ registration = "open"
  /\ DeleteAll
  /\ UNCHANGED <<expired, delayed, faults>>
  /\ UNCHANGED macVars
  /\ UNCHANGED scannerVars

\* A completion whose caller has given up arrives after all.
CompletionLands(result) ==
  /\ result \in delayed
  /\ delayed' = delayed \ {result}
  /\ Complete(result)
  /\ UNCHANGED <<expired, faults>>
  /\ UNCHANGED macVars
  /\ UNCHANGED scannerVars

-----------------------------------------------------------------------------
(* The bridge.                                                             *)

\* POST /api/local/pairing: the code is made; with the cloud's endpoint it
\* is registered there before it is shown.
CreatePairing(transport) ==
  /\ code = "unmade"
  /\ IF transport = "cloud"
     THEN code' = "registering" /\ UNCHANGED offered
     ELSE code' = "open" /\ offered' = {"lan"}
  /\ UNCHANGED <<expired, devices, watcher, aborted, request, delayed, cancel,
                 faults>>
  /\ UNCHANGED codeVars
  /\ UNCHANGED scannerVars

\* The registration is answered, the code is shown, also for the local
\* network, and the watcher starts.
PairingCreated(places) ==
  /\ code = "registering"
  /\ "cloud" \in places
  /\ ~expired
  /\ Register
  /\ code' = "open"
  /\ offered' = places
  /\ watcher' = "look"
  /\ UNCHANGED <<expired, devices, aborted, request, delayed, cancel, faults>>
  /\ UNCHANGED scannerVars

\* The registration is refused or its answer lost: no code is shown.
PairingUnavailable ==
  /\ code = "registering"
  /\ code' = "gone"
  /\ \/ Register /\ Fault
     \/ UNCHANGED <<codeVars, faults>>
  /\ UNCHANGED <<offered, expired, devices, watcher, aborted, request, delayed,
                 cancel>>
  /\ UNCHANGED scannerVars

\* (Mutant: the code is good for a second client.)
CompletePairingAgain(c) ==
  /\ code' = code
  /\ devices' = devices \union {c}

\* DeviceManager.completePairing: the code is used up with the row's write.
Usable == code = "open" /\ ~expired
CompletePairing(c) ==
  /\ code' = "gone"
  /\ devices' = devices \union {c}

\* The loop's head: an aborted or expired watcher ends.
WatcherEnds ==
  /\ watcher = "look"
  /\ aborted \/ expired
  /\ watcher' = "off"
  /\ UNCHANGED <<code, offered, expired, devices, aborted, request, delayed, cancel,
                 faults>>
  /\ UNCHANGED codeVars
  /\ UNCHANGED scannerVars

\* (Mutant: an empty room ends the watcher.)
WatcherFindsAtOnce ==
  /\ watcher = "look" /\ ~aborted
  /\ Alive
  /\ request' = pending
  /\ IF pending = Nobody THEN watcher' = "off" /\ UNCHANGED <<code, devices>>
     ELSE IF Usable
     THEN CompletePairing(pending) /\ watcher' = "provision"
     ELSE watcher' = "refuse" /\ UNCHANGED <<code, devices>>
  /\ UNCHANGED <<offered, expired, aborted, delayed, cancel, faults>>
  /\ UNCHANGED codeVars
  /\ UNCHANGED scannerVars

\* GET /mac/request answers with the pending request, also with one that
\* has a completion; without one the watcher looks again half a second on.
WatcherFinds ==
  /\ watcher = "look" /\ ~aborted
  /\ Alive /\ pending # Nobody
  /\ request' = pending
  /\ IF Usable
     THEN CompletePairing(pending) /\ watcher' = "provision"
     ELSE watcher' = "refuse" /\ UNCHANGED <<code, devices>>
  /\ UNCHANGED <<offered, expired, aborted, delayed, cancel, faults>>
  /\ UNCHANGED codeVars
  /\ UNCHANGED scannerVars

\* provisionDevice answers with or without credentials, or rejects; after a
\* rejection the watcher starts over, with the code used up.
WatcherProvisions ==
  /\ watcher = "provision"
  /\ \/ watcher' = "succeed" /\ UNCHANGED faults
     \/ watcher' = "look" /\ Fault
  /\ UNCHANGED <<code, offered, expired, devices, aborted, request, delayed, cancel>>
  /\ UNCHANGED codeVars
  /\ UNCHANGED scannerVars

Result == IF watcher = "succeed" THEN "ok" ELSE "error"

\* POST /complete is answered, with whatever status: the watcher is done. Or
\* it rejects, carried out, not yet, or never, and the watcher starts over.
WatcherCompletes ==
  /\ watcher \in {"succeed", "refuse"}
  /\ \/ Complete(Result) /\ watcher' = "off" /\ UNCHANGED <<delayed, faults>>
     \/ Complete(Result) /\ watcher' = "look" /\ Fault /\ UNCHANGED delayed
     \/ /\ watcher' = "look" /\ Fault
        /\ delayed' \in {delayed, delayed \union {Result}}
        /\ UNCHANGED codeVars
  /\ UNCHANGED <<code, offered, expired, devices, aborted, request, cancel>>
  /\ UNCHANGED scannerVars

\* DELETE /api/local/pairing/<id>: the watcher is told to stop, the code is
\* gone, and the cloud is asked to forget it.
CancelPairing ==
  /\ code \in {"open", "gone"} /\ offered # {}
  /\ cancel = "no"
  /\ cancel' = "asked"
  /\ aborted' = TRUE
  /\ code' = "gone"
  /\ UNCHANGED <<offered, expired, devices, watcher, request, delayed, faults>>
  /\ UNCHANGED codeVars
  /\ UNCHANGED scannerVars

CancelAnswered ==
  /\ cancel = "asked"
  /\ cancel' = "done"
  /\ \/ DeleteAll /\ UNCHANGED faults
     \/ UNCHANGED codeVars /\ Fault
  /\ UNCHANGED <<code, offered, expired, devices, watcher, aborted, request, delayed>>
  /\ UNCHANGED scannerVars

\* The bridge ends and starts again: code, watcher and cancel are memory.
BridgeRestarts ==
  /\ Fault
  /\ code \in {"open", "gone"}
  /\ code' = "gone"
  /\ watcher' = "off"
  /\ aborted' = TRUE
  /\ cancel' = IF cancel = "asked" THEN "done" ELSE cancel
  /\ client' = [c \in Clients |-> IF client[c] = "local" THEN "failed" ELSE client[c]]
  /\ UNCHANGED <<offered, expired, devices, request, delayed, asks, slow>>
  /\ UNCHANGED codeVars

-----------------------------------------------------------------------------
(* The clients.                                                            *)

Becomes(c, state) == client' = [client EXCEPT ![c] = state]

\* POST /api/pair at the cloud: the client polls for the request it is told
\* of, which is another client's when that one was first.
AsksCloud(c) ==
  /\ client[c] = "idle"
  /\ "cloud" \in offered
  /\ AcceptDeviceRequest(c)
  /\ \/ /\ Becomes(c, IF Accepts THEN "polling" ELSE "failed")
        /\ asks' = [asks EXCEPT ![c] = pending']
        /\ UNCHANGED faults
     \/ Becomes(c, "failed") /\ Fault /\ UNCHANGED asks
  /\ UNCHANGED <<expired, delayed, slow>>
  /\ UNCHANGED macVars

\* POST /api/pair at the bridge: the code is used at once, and the bridge
\* awaits the provisioning before it answers.
AsksBridge(c) ==
  /\ client[c] = "idle"
  /\ "lan" \in offered
  /\ IF Usable
     THEN CompletePairing(c) /\ Becomes(c, "local")
     ELSE Becomes(c, "failed") /\ UNCHANGED <<code, devices>>
  /\ UNCHANGED <<offered, expired, watcher, aborted, request, delayed, cancel, asks,
                 slow, faults>>
  /\ UNCHANGED codeVars

\* The bridge answers; or the provisioning rejects, or the answer is lost.
BridgeAnswers(c) ==
  /\ client[c] = "local"
  /\ \/ Becomes(c, "paired") /\ UNCHANGED faults
     \/ Becomes(c, "failed") /\ Fault
  /\ UNCHANGED <<expired, delayed, asks, slow>>
  /\ UNCHANGED macVars
  /\ UNCHANGED codeVars

\* The bridge's proof is made with the key of the client it paired.
Proves(c) == asks[c] = c

\* GET /api/pair: an answer other than "wait" ends the poll; credentials are
\* saved when the bridge's proof fits.
Polls(c) ==
  /\ client[c] = "polling"
  /\ IF Answer(asks[c]) = "wait" THEN UNCHANGED client
     ELSE Becomes(c, IF Answer(asks[c]) = "ok" /\ Proves(c)
                     THEN "paired" ELSE "failed")
  /\ DeviceResult(asks[c])
  /\ UNCHANGED <<expired, delayed, asks, slow, faults>>
  /\ UNCHANGED macVars

\* The room has answered, and the answer is lost.
PollIsLost(c) ==
  /\ client[c] = "polling"
  /\ Becomes(c, "failed") /\ Fault
  /\ DeviceResult(asks[c])
  /\ UNCHANGED <<expired, delayed, asks, slow>>
  /\ UNCHANGED macVars

\* The client's own 60 seconds are over.
GivesUp(c) ==
  /\ client[c] = "polling"
  /\ Becomes(c, "failed")
  /\ slow' = [slow EXCEPT ![c] = TRUE]
  /\ UNCHANGED <<expired, delayed, asks, faults>>
  /\ UNCHANGED macVars
  /\ UNCHANGED codeVars

\* 120 seconds have passed since the code was made.
Expires ==
  /\ code # "unmade" /\ ~expired
  /\ expired' = TRUE
  /\ UNCHANGED <<delayed, faults>>
  /\ UNCHANGED macVars
  /\ UNCHANGED codeVars
  /\ UNCHANGED scannerVars

-----------------------------------------------------------------------------

Watches == WatcherEnds \/ WatcherFinds \/ WatcherProvisions \/ WatcherCompletes

PairingNext ==
  \/ \E transport \in {"cloud", "lan"} : CreatePairing(transport)
  \/ \E places \in SUBSET {"cloud", "lan"} : PairingCreated(places)
  \/ PairingUnavailable
  \/ Watches
  \/ CancelPairing \/ CancelAnswered \/ BridgeRestarts
  \/ Alarm \/ Expires
  \/ \E result \in {"ok", "error"} : CompletionLands(result)
  \/ \E c \in Clients : AsksCloud(c) \/ AsksBridge(c) \/ BridgeAnswers(c)
  \/ \E c \in Clients : Polls(c) \/ PollIsLost(c) \/ GivesUp(c)

PairingSpec == PairingInit /\ [][PairingNext]_pairingVars

\* The watcher's timer and fetches, and the client's, go on; no fault is
\* ever due.
PairingFairness ==
  /\ WF_pairingVars(Watches)
  /\ \A c \in Clients : WF_pairingVars(Polls(c)) /\ WF_pairingVars(BridgeAnswers(c))

FairPairing == PairingSpec /\ PairingFairness

-----------------------------------------------------------------------------
(* Properties.                                                             *)

\* A code pairs one device: at most one row is written for it, whoever
\* scans it on whichever road and whatever is retried, and a client that
\* took itself for paired is the one the row's key belongs to, also when
\* it polled for the request of another (useBridge.ts:177).
CodePairsOne ==
  /\ \A c, d \in devices : c = d
  /\ \A c \in Clients : client[c] = "paired" => c \in devices

\* What may excuse a failed pairing: the code's end, a lost answer, the
\* Mac's cancel, the client's own deadline, or a rival with the same code.
Excused(c) ==
  \/ expired \/ faults > 0 \/ cancel # "no" \/ slow[c]
  \/ \E d \in Clients \ {c} : client[d] # "idle"

\* Nobody is told that the code is expired or used without such a cause: no
\* order of polls, watcher steps and answers alone loses a pairing.
FailsWithCause == \A c \in Clients : client[c] = "failed" => Excused(c)

\* Both: of two clients with one code at most one is paired, and the other, as
\* any that fails, for a cause (pairing-room.ts:115, bridge.ts:802-848).
PairsOneOrSaysWhy == CodePairsOne /\ FailsWithCause

\* Without such a cause a client that waits for the Mac is paired at last:
\* the watcher's look, the provisioning, the completion and the client's
\* poll follow each other (bridge.ts:804, useBridge.ts:160).
Completes ==
  \A c \in Clients :
    (client[c] = "polling") ~> (client[c] = "paired" \/ Excused(c))

=============================================================================
