--------------------------- MODULE DeviceRegistry ---------------------------
(***************************************************************************)
(* Who may reach a Mac, and who is told of its news: the bridge's own      *)
(* table of paired devices, the cloud's copy of it, and the requests       *)
(* between the two (cloud-service.ts, push-service.ts and the device       *)
(* commands of bridge.ts on the Mac; cloud/src/index.ts in the Worker).    *)
(*                                                                         *)
(* Every call of the bridge to the cloud is an await of at most five       *)
(* seconds: it may be refused, its answer may be lost, and a request whose *)
(* caller gave up may still be on its way and take effect later.           *)
(***************************************************************************)
EXTENDS Naturals, FiniteSets

CONSTANTS
  Devices,       \* the phones and browsers that may pair
  MaxCalls,      \* bound: calls of the bridge that are under way at once
  MaxLate,       \* bound: requests that outlive their caller at once
  MaxRotations,  \* bound: times the phone's push token is replaced by iOS
  MaxReboots,    \* bound: restarts of the bridge
  Settings,      \* the notification settings a device may choose
  Idle           \* no call

ASSUME BoundsAreNaturals ==
  /\ MaxCalls \in Nat \ {0}
  /\ MaxLate \in Nat
  /\ MaxRotations \in Nat
  /\ MaxReboots \in Nat

NoToken == 0
Kinds == {"approval", "approval_reminder", "result", "failure"}
Tokens == 0..MaxRotations + 1   \* the phone's n-th push token, or none
Ops == {"provision", "register", "unregister", "revoke", "cleanup", "push"}
Requests == [op : Ops, dev : Devices, apns : Tokens]
\* waiting: for the installation to be registered; sent: for the answer.
CallStages == {"waiting", "sent", "ok", "refused", "gone", "failed"}
Calls == [op : Ops, dev : Devices, apns : Tokens, at : CallStages]
ASSUME IdleIsNoCall == Idle \notin Calls
Cleaner == 0                 \* the clean-up has a lane of its own
Lanes == 0..MaxCalls

ASSUME SettingsAreRecords ==
  \A s \in Settings : /\ s.enabled \in BOOLEAN
                      /\ s.subscribed \subseteq Kinds
                      /\ s.criticalOnly \in BOOLEAN
                      /\ s.quietHours \in BOOLEAN
ASSUME SomeSettings == Settings # {}

VARIABLES
  deviceRow, \* devices of the bridge's store: none, active or revoked
  marker,    \* its metadata cloud_device_token:<id>, the handle on the cloud row
  push,      \* push_devices.active of the bridge's store
  served,    \* the device has an authenticated socket, wherever it came from
  ready,     \* CloudService.readyPromise: no, cleaning or yes
  todo,      \* revoked devices the registration's clean-up has yet to visit
  calls,     \* the bridge's calls, one per slot
  late,      \* requests whose caller gave up and that may still arrive
  cloud,     \* the Worker's devices.active: absent, active or inactive
  cloudApns, \* the Worker's devices.apns_token
  held,      \* the device was handed the credentials of its cloud row
  apnsNow,   \* the push token iOS honours for the device now
  reboots    \* restarts so far

registryVars == <<deviceRow, marker, push, served, ready, todo, calls, late, cloud,
                  cloudApns, held, apnsNow, reboots>>

bridgeVars == <<deviceRow, marker, push, served, ready, todo, held, reboots>>
cloudVars == <<cloud, cloudApns>>

RegistryTypeOK ==
  /\ deviceRow \in [Devices -> {"none", "active", "revoked"}]
  /\ marker \in [Devices -> BOOLEAN]
  /\ push \in [Devices -> BOOLEAN]
  /\ served \in [Devices -> BOOLEAN]
  /\ ready \in {"no", "cleaning", "yes"}
  /\ todo \in SUBSET Devices
  /\ calls \in [Lanes -> Calls \union {Idle}]
  /\ late \in SUBSET Requests
  /\ cloud \in [Devices -> {"absent", "active", "inactive"}]
  /\ cloudApns \in [Devices -> Tokens]
  /\ held \in [Devices -> BOOLEAN]
  /\ apnsNow \in [Devices -> 1..MaxRotations + 1]
  /\ reboots \in 0..MaxReboots

RegistryInit ==
  /\ deviceRow = [d \in Devices |-> "none"]
  /\ marker = [d \in Devices |-> FALSE]
  /\ push = [d \in Devices |-> FALSE]
  /\ served = [d \in Devices |-> FALSE]
  /\ ready = "no"
  /\ todo = {}
  /\ calls = [i \in Lanes |-> Idle]
  /\ late = {}
  /\ cloud = [d \in Devices |-> "absent"]
  /\ cloudApns = [d \in Devices |-> NoToken]
  /\ held = [d \in Devices |-> FALSE]
  /\ apnsNow = [d \in Devices |-> 1]
  /\ reboots = 0

-----------------------------------------------------------------------------
(* Calls under way.                                                        *)

IsCall(i) == calls[i] # Idle
At(i, stage) == IsCall(i) /\ calls[i].at = stage
Request(i) == [op |-> calls[i].op, dev |-> calls[i].dev, apns |-> calls[i].apns]

NextFree(i) == ~IsCall(i) /\ \A j \in 1..i - 1 : IsCall(j)

\* An async method of CloudService is entered: it first awaits ensureReady.
StartCall(op, d, token) ==
  \E i \in 1..MaxCalls :
    /\ NextFree(i)
    /\ calls' = [calls EXCEPT ![i] = [op |-> op, dev |-> d, apns |-> token,
                                      at |-> "waiting"]]

\* What the caller of an operation can tell of its outcome: only the pairing
\* tells a refusal from a rejected fetch, unregistering tells nothing, and a
\* push tells whether the token is gone.
Told(op, stage) ==
  CASE op = "unregister" /\ stage # "sent" -> "failed"
    [] op = "push" /\ stage = "ok" -> "failed"
    [] op # "provision" /\ stage = "refused" -> "failed"
    [] OTHER -> stage

Set(i, stage) == calls' = [calls EXCEPT ![i].at = Told(calls[i].op, stage)]
Drop(i) == calls' = [calls EXCEPT ![i] = Idle]

-----------------------------------------------------------------------------
(* The Worker: what each signed request does to its tables.                *)

\* POST /v1/devices: the row is created or updated, and is active again.
UpsertDevice(r) ==
  /\ cloud' = [cloud EXCEPT ![r.dev] = "active"]
  /\ cloudApns' = [cloudApns EXCEPT ![r.dev] =
                     IF r.apns = NoToken THEN @ ELSE r.apns]

\* DELETE /v1/devices/<id>: an existing row becomes inactive.
UnregisterDevice(r) ==
  /\ cloud' = [cloud EXCEPT ![r.dev] = IF @ = "absent" THEN @ ELSE "inactive"]
  /\ UNCHANGED cloudApns

\* DELETE /v1/devices/<id>/push: the push token is forgotten.
UnregisterPushDevice(r) ==
  /\ cloudApns' = [cloudApns EXCEPT ![r.dev] = NoToken]
  /\ UNCHANGED cloud

\* POST /v1/push, its second half: Apple answered that the token is gone.
DeactivateDevice(d) ==
  /\ cloud' = [cloud EXCEPT ![d] = IF @ = "absent" THEN @ ELSE "inactive"]
  /\ UNCHANGED cloudApns

IsPost(r) == r.op \in {"provision", "register"}
IsDelete(r) == r.op \in {"revoke", "cleanup"}

Apply(r) ==
  \/ IsPost(r) /\ UpsertDevice(r)
  \/ IsDelete(r) /\ UnregisterDevice(r)
  \/ r.op = "unregister" /\ UnregisterPushDevice(r)

\* POST /v1/push reads the row, then waits for Apple with the token it read.
PushTarget(d) == IF cloud[d] = "active" THEN cloudApns[d] ELSE NoToken
AwaitsApple(r) == r.op = "push" /\ r.apns # NoToken
Honoured(r) == r.apns = apnsNow[r.dev]

\* A request other than a push arrives and is carried out; the answer is
\* received or lost (the caller's fetch then rejects).
Lands(i) ==
  /\ At(i, "sent")
  /\ Apply(Request(i))
  /\ \E stage \in {"ok", "failed"} : Set(i, stage)
  /\ UNCHANGED <<late, apnsNow>>
  /\ UNCHANGED bridgeVars

\* The Worker turns a request away: signature, body or APNs configuration.
Refused(i) ==
  /\ At(i, "sent")
  /\ ~AwaitsApple(Request(i))
  /\ Set(i, "refused")
  /\ UNCHANGED <<late, apnsNow>>
  /\ UNCHANGED bridgeVars
  /\ UNCHANGED cloudVars

\* The push handler has read the row: no token to send to is a 410.
PushReads(i) ==
  /\ At(i, "sent")
  /\ calls[i].op = "push"
  /\ calls[i].apns = NoToken
  /\ LET token == PushTarget(calls[i].dev) IN
     IF token = NoToken THEN Set(i, "gone")
     ELSE calls' = [calls EXCEPT ![i].apns = token]
  /\ UNCHANGED <<late, apnsNow>>
  /\ UNCHANGED bridgeVars
  /\ UNCHANGED cloudVars

\* Apple has answered: a token it no longer honours is a 410, and the row
\* as it is by now becomes inactive.
PushAnswered(i) ==
  /\ At(i, "sent")
  /\ AwaitsApple(Request(i))
  /\ IF Honoured(Request(i))
     THEN Set(i, "ok") /\ UNCHANGED cloudVars
     ELSE Set(i, "gone") /\ DeactivateDevice(calls[i].dev)
  /\ UNCHANGED <<late, apnsNow>>
  /\ UNCHANGED bridgeVars

\* Some of these requests may still arrive; the others are lost.
Outlives(requests) ==
  \E left \in SUBSET requests :
    /\ late' = late \union left
    /\ left # {} => Cardinality(late') <= MaxLate

\* The five seconds are over, or the connection broke: the caller's fetch
\* rejects, and the request is lost or may still arrive.
TimesOut(i) ==
  /\ At(i, "sent")
  /\ Set(i, "failed")
  /\ Outlives({Request(i)})
  /\ UNCHANGED apnsNow
  /\ UNCHANGED bridgeVars
  /\ UNCHANGED cloudVars

\* A request nobody waits for is carried out.
LandsLate(r) ==
  /\ \/ Apply(r) /\ late' = late \ {r}
     \/ /\ r.op = "push" /\ r.apns = NoToken
        /\ late' = (late \ {r})
                     \union (IF PushTarget(r.dev) = NoToken THEN {}
                             ELSE {[r EXCEPT !.apns = PushTarget(r.dev)]})
        /\ UNCHANGED cloudVars
     \/ /\ AwaitsApple(r)
        /\ late' = late \ {r}
        /\ IF Honoured(r) THEN UNCHANGED cloudVars ELSE DeactivateDevice(r.dev)
  /\ UNCHANGED <<calls, apnsNow>>
  /\ UNCHANGED bridgeVars

-----------------------------------------------------------------------------
(* The bridge: CloudService.                                               *)

\* (Mutant: the clean-up forgets to look whether a device was revoked.)
RegisteredCleansAll ==
  /\ ready = "no"
  /\ ready' = "cleaning"
  /\ todo' = Devices
  /\ UNCHANGED <<deviceRow, marker, push, served, calls, late, cloud, cloudApns,
                 held, apnsNow, reboots>>

\* POST /v1/installations is accepted; the clean-up of revoked devices
\* starts, and everyone who awaits ensureReady goes on waiting.
Registered ==
  /\ ready = "no"
  /\ ready' = "cleaning"
  /\ todo' = {d \in Devices : deviceRow[d] = "revoked"}
  /\ UNCHANGED <<deviceRow, marker, push, served, calls, late, cloud,
                 cloudApns, held, apnsNow, reboots>>

\* The clean-up takes the next revoked device that still has a marker.
CleansUp(d) ==
  /\ ready = "cleaning"
  /\ ~IsCall(Cleaner)
  /\ d \in todo
  /\ IF marker[d]
     THEN /\ calls' = [calls EXCEPT ![Cleaner] =
                         [op |-> "cleanup", dev |-> d, apns |-> NoToken,
                          at |-> "sent"]]
          /\ UNCHANGED todo
     ELSE todo' = todo \ {d} /\ UNCHANGED calls
  /\ UNCHANGED <<deviceRow, marker, push, served, ready, late, cloud,
                 cloudApns, held, apnsNow, reboots>>

CleanedUp ==
  /\ ready = "cleaning"
  /\ todo = {}
  /\ ready' = "yes"
  /\ UNCHANGED <<deviceRow, marker, push, served, todo, calls, late, cloud,
                 cloudApns, held, apnsNow, reboots>>

\* ensureReady resolves false: the method answers null without a request.
Unavailable(i) ==
  /\ At(i, "waiting")
  /\ ready = "no"
  /\ Set(i, "refused")
  /\ UNCHANGED <<late, apnsNow>>
  /\ UNCHANGED bridgeVars
  /\ UNCHANGED cloudVars

\* ensureReady resolves true: the method reads or writes the marker and
\* sends its request. A registration without a marker answers null.
Sends(i) ==
  /\ At(i, "waiting")
  /\ ready = "yes"
  /\ LET d == calls[i].dev IN
     /\ marker' = [marker EXCEPT ![d] = @ \/ calls[i].op = "provision"]
     /\ Set(i, IF calls[i].op = "register" /\ ~marker[d]
               THEN "refused" ELSE "sent")
  /\ UNCHANGED <<deviceRow, push, served, ready, todo, held, reboots, late,
                 apnsNow>>
  /\ UNCHANGED cloudVars

\* The bridge's tables, as its store's methods change them.
UpsertRow(d) == deviceRow' = [deviceRow EXCEPT ![d] = "active"]
RevokeRow(d) == deviceRow' = [deviceRow EXCEPT ![d] = "revoked"]
KeepMarker(d, kept) == marker' = [marker EXCEPT ![d] = @ /\ kept]
UpsertPush(d) == push' = [push EXCEPT ![d] = TRUE]
UnregisterPushRow(d) == push' = [push EXCEPT ![d] = FALSE]
ActivePushDevices == {d \in Devices : push[d] /\ deviceRow[d] = "active"}

Finished(i) == IsCall(i) /\ calls[i].at \notin {"waiting", "sent"}

\* The pairing hands the credentials on only when the Worker said ok, and
\* takes the marker back when it said no; a rejected fetch leaves it.
Provisioned(i) ==
  /\ Finished(i) /\ calls[i].op = "provision"
  /\ LET d == calls[i].dev IN
     /\ held' = [held EXCEPT ![d] = @ \/ calls[i].at = "ok"]
     /\ KeepMarker(d, calls[i].at # "refused")
  /\ Drop(i)
  /\ UNCHANGED <<deviceRow, push, served, ready, todo, late, cloud,
                 cloudApns, apnsNow, reboots>>

\* notification.device.register goes on: the endpoint is stored when the
\* cloud gave one.
PushRegistered(i) ==
  /\ Finished(i) /\ calls[i].op = "register"
  /\ IF calls[i].at = "ok" THEN UpsertPush(calls[i].dev) ELSE UNCHANGED push
  /\ Drop(i)
  /\ UNCHANGED <<deviceRow, marker, served, ready, todo, late, cloud,
                 cloudApns, held, apnsNow, reboots>>

\* notification.device.unregister goes on, whatever the cloud answered.
PushUnregistered(i) ==
  /\ Finished(i) /\ calls[i].op = "unregister"
  /\ UnregisterPushRow(calls[i].dev)
  /\ Drop(i)
  /\ UNCHANGED <<deviceRow, marker, served, ready, todo, late, cloud,
                 cloudApns, held, apnsNow, reboots>>

\* device.revoke goes on: the marker goes when the Worker said ok, and the
\* device's sockets are closed in any case.
Revoked(i) ==
  /\ Finished(i) /\ calls[i].op = "revoke"
  /\ LET d == calls[i].dev IN
     /\ KeepMarker(d, calls[i].at # "ok")
     /\ served' = [served EXCEPT ![d] = FALSE]
  /\ Drop(i)
  /\ UNCHANGED <<deviceRow, push, ready, todo, late, cloud, cloudApns,
                 held, apnsNow, reboots>>

\* The clean-up goes on to the next device.
CleanedOne(i) ==
  /\ Finished(i) /\ calls[i].op = "cleanup"
  /\ LET d == calls[i].dev IN
     /\ KeepMarker(d, calls[i].at # "ok")
     /\ todo' = todo \ {d}
  /\ Drop(i)
  /\ UNCHANGED <<deviceRow, push, served, ready, late, cloud, cloudApns,
                 held, apnsNow, reboots>>

\* The delivery is recorded; a 410 takes the device off the push list.
PushRecorded(i) ==
  /\ Finished(i) /\ calls[i].op = "push"
  /\ IF calls[i].at = "gone" THEN UnregisterPushRow(calls[i].dev) ELSE UNCHANGED push
  /\ Drop(i)
  /\ UNCHANGED <<deviceRow, marker, served, ready, todo, late, cloud,
                 cloudApns, held, apnsNow, reboots>>

Continues(i) ==
  \/ Provisioned(i) \/ PushRegistered(i) \/ PushUnregistered(i)
  \/ Revoked(i) \/ CleanedOne(i) \/ PushRecorded(i)

-----------------------------------------------------------------------------
(* The bridge: devices, sockets and commands.                              *)

\* (Mutant: a device that scans a code again gets the row it had.)
PairsAgain(d) ==
  /\ deviceRow[d] # "active"
  /\ UpsertRow(d)
  /\ StartCall("provision", d, NoToken)
  /\ UNCHANGED <<marker, push, served, ready, todo, late, cloud,
                 cloudApns, held, apnsNow, reboots>>

\* A pairing completes: the device's row is written, then provisioned.
Pairs(d) ==
  /\ deviceRow[d] = "none"
  /\ UpsertRow(d)
  /\ StartCall("provision", d, NoToken)
  /\ UNCHANGED <<marker, push, served, ready, todo, late, cloud,
                 cloudApns, held, apnsNow, reboots>>

\* (Mutant: the revocation is not looked at.)
AuthenticatesRevoked(d) ==
  /\ ~served[d]
  /\ deviceRow[d] # "none"
  /\ served' = [served EXCEPT ![d] = TRUE]
  /\ UNCHANGED <<deviceRow, marker, push, ready, todo, calls, late, cloud,
                 cloudApns, held, apnsNow, reboots>>

\* A socket is authenticated. Over the local network nothing else is asked.
Authenticates(d) ==
  /\ ~served[d]
  /\ deviceRow[d] = "active"
  /\ served' = [served EXCEPT ![d] = TRUE]
  /\ UNCHANGED <<deviceRow, marker, push, ready, todo, calls, late, cloud,
                 cloudApns, held, apnsNow, reboots>>

Disconnects(d) ==
  /\ served[d]
  /\ served' = [served EXCEPT ![d] = FALSE]
  /\ UNCHANGED <<deviceRow, marker, push, ready, todo, calls, late, cloud,
                 cloudApns, held, apnsNow, reboots>>

\* device.revoke, from the Mac's own page, also for a revoked device: the
\* row is revoked before the cloud is asked.
Revoke(d) ==
  /\ deviceRow[d] # "none"
  /\ RevokeRow(d)
  /\ StartCall("revoke", d, NoToken)
  /\ UNCHANGED <<marker, push, served, ready, todo, late, cloud,
                 cloudApns, held, apnsNow, reboots>>

\* notification.device.register with the token iOS gave the phone, or with
\* an endpoint of the phone's own, which is stored at once.
RegisterPush(d) ==
  /\ served[d]
  /\ \/ StartCall("register", d, apnsNow[d]) /\ UNCHANGED push
     \/ UpsertPush(d) /\ UNCHANGED calls
  /\ UNCHANGED <<deviceRow, marker, served, ready, todo, late, cloud,
                 cloudApns, held, apnsNow, reboots>>

UnregisterPush(d) ==
  /\ served[d]
  /\ StartCall("unregister", d, NoToken)
  /\ UNCHANGED <<deviceRow, marker, push, served, ready, todo, late, cloud,
                 cloudApns, held, apnsNow, reboots>>

ShouldDeliverPush(kind, s, night) ==
  /\ s.enabled
  /\ kind \in s.subscribed
  /\ s.criticalOnly \/ (s.quietHours /\ night) => kind # "result"

\* PushService.notify: one call for each active registration of a device
\* that is not revoked and whose settings, as last chosen, want the news.
Notify(kind, night, chosen) ==
  LET targets == {d \in ActivePushDevices :
                    ShouldDeliverPush(kind, chosen[d], night)}
  IN /\ targets # {}
     /\ \E slot \in [targets -> {i \in 1..MaxCalls : ~IsCall(i)}] :
          /\ \A d, e \in targets : slot[d] = slot[e] => d = e
          /\ calls' = [i \in Lanes |->
               IF \E d \in targets : slot[d] = i
               THEN [op |-> "push", dev |-> CHOOSE d \in targets : slot[d] = i,
                     apns |-> NoToken, at |-> "waiting"]
               ELSE calls[i]]
     /\ UNCHANGED <<late, apnsNow>>
     /\ UNCHANGED bridgeVars
     /\ UNCHANGED cloudVars

\* iOS replaces the phone's push token; Apple forgets the old one.
Rotates(d) ==
  /\ apnsNow[d] <= MaxRotations
  /\ apnsNow' = [apnsNow EXCEPT ![d] = @ + 1]
  /\ UNCHANGED <<calls, late>>
  /\ UNCHANGED bridgeVars
  /\ UNCHANGED cloudVars

\* The bridge's process ends and starts again: its tables stay, its calls
\* and sockets do not, and what it had sent may still arrive.
Restart ==
  /\ reboots < MaxReboots
  /\ reboots' = reboots + 1
  /\ Outlives({Request(i) : i \in {j \in Lanes : At(j, "sent")}})
  /\ calls' = [i \in Lanes |-> Idle]
  /\ served' = [d \in Devices |-> FALSE]
  /\ ready' = "no"
  /\ todo' = {}
  /\ UNCHANGED <<deviceRow, marker, push, cloud, cloudApns, held, apnsNow>>

-----------------------------------------------------------------------------

\* What happens to the call in a lane until its caller has gone on.
Advances(i) ==
  \/ Lands(i) \/ Refused(i) \/ PushReads(i) \/ PushAnswered(i) \/ TimesOut(i)
  \/ Unavailable(i) \/ Sends(i) \/ Continues(i)

RegistryNext ==
  \/ \E i \in Lanes : Advances(i)
  \/ \E r \in late : LandsLate(r)
  \/ Registered
  \/ \E d \in Devices : CleansUp(d)
  \/ CleanedUp
  \/ \E d \in Devices : Pairs(d) \/ Authenticates(d) \/ Disconnects(d) \/ Revoke(d)
  \/ \E d \in Devices : RegisterPush(d) \/ UnregisterPush(d) \/ Rotates(d)
  \/ \E kind \in Kinds, night \in BOOLEAN, chosen \in [Devices -> Settings] :
       Notify(kind, night, chosen)
  \/ Restart

RegistrySpec == RegistryInit /\ [][RegistryNext]_registryVars

-----------------------------------------------------------------------------
(* Properties.                                                             *)

\* A device that holds credentials, was not revoked and whose push token was
\* never replaced is let in by the relay: no clean-up, late request or
\* revocation of another device locks it out (cloud/src/index.ts:504).
CredentialsWork ==
  \A d \in Devices :
    held[d] /\ deviceRow[d] = "active" /\ apnsNow[d] = 1 => cloud[d] = "active"

\* The revocation of d is over everywhere: the cloud row is inactive, the
\* marker is gone, and nothing that could bring the row back is under way.
Retired(d) ==
  /\ deviceRow[d] = "revoked"
  /\ ~marker[d]
  /\ cloud[d] # "active"
  /\ \A i \in Lanes : IsCall(i) /\ calls[i].dev = d /\ IsPost(calls[i]) =>
       calls[i].op = "register" /\ calls[i].at # "sent"
  /\ \A r \in late : r.dev = d => ~IsPost(r)

\* Once over, a revocation stays over: a socket that is still served while
\* the revocation awaits the cloud, a restart, or the clean-up never makes
\* the cloud row of a retired device active again (cloud-service.ts:176).
RetiredStaysOut == [][\A d \in Devices : Retired(d) => Retired(d)']_registryVars

\* A revoked device is served only while a revocation of it waits for the
\* cloud, at most five seconds: what that revocation does next, whatever it
\* hears, is to close its sockets (bridge.ts:436).
ServedWhileRevoking ==
  \A d \in Devices :
    deviceRow[d] = "revoked" /\ served[d] =>
      \E i \in Lanes : IsCall(i) /\ calls[i].op = "revoke" /\ calls[i].dev = d

=============================================================================
