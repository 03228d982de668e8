------------------------------ MODULE Materials ------------------------------
(***************************************************************************)
(* The way of a file from a device to the Mac, as a task's material: the   *)
(* composer encrypts and uploads it (materials.ts, TaskComposer.tsx), to   *)
(* the cloud's bucket or to the Mac's staging; the registration that names *)
(* it waits in the device's outbox (useBridge.ts) and goes to the Mac with *)
(* every connection until the Mac says what became of it; the Mac fetches, *)
(* checks and keeps it (material-service.ts, cloud-service.ts, the         *)
(* bucket's half in the cloud's index.ts); tasks that name it wait for it  *)
(* (task-command-service.ts).                                              *)
(*                                                                         *)
(* The bridge handles every frame in a call of its own that nobody waits   *)
(* for, so registrations of one file that come with two connections run    *)
(* at the same time, each up to its next await in one step.  External: the *)
(* bucket, whose objects expire after a day.                               *)
(***************************************************************************)
EXTENDS Naturals, FiniteSets

CONSTANTS
  Files,       \* materials; each pick of a file has an id of its own
  Tasks,       \* task commands
  Of,          \* the material each names
  Slots,       \* bound: registrations of one file that run at once
  MaxDrops,    \* bound: connections that end
  MaxRestarts  \* bound: ends of the bridge

ASSUME TasksNameFiles == Of \in [Tasks -> Files]
ASSUME BoundsAreNatural == MaxDrops \in Nat /\ MaxRestarts \in Nat /\ Slots # {}

VARIABLES
  good,      \* materials whose content is what they declare; it stays so
  local,     \* those whose device is on the Mac's network; it stays so
  composer,  \* what the composer shows of each: none, uploading, ready, failed
  blob,      \* uploads the bucket or the staging directory holds
  expired,   \* uploads the bucket dropped after a day
  outbox,    \* registrations the device keeps
  due,       \* those still to be sent on this connection
  linked,    \* the device and the bridge are connected
  job,       \* the registrations that run: off, fetching, have, missing
  row,       \* state of each material's row: none, ready, failed
  disk,      \* materials in the Mac's directory
  deleting,  \* uploads the Mac has asked the bucket to delete
  task,      \* none, waiting, started, failed
  drops,     \* connections that ended
  restarts   \* ends of the bridge

fileVars == <<good, local>>
deviceVars == <<fileVars, composer, outbox, due, linked, drops>>
macVars == <<job, row, disk, task, restarts>>
cloudVars == <<blob, expired, deleting>>
vars == <<deviceVars, macVars, cloudVars>>

TypeOK ==
  /\ good \subseteq Files /\ local \subseteq Files
  /\ composer \in [Files -> {"none", "uploading", "ready", "failed"}]
  /\ blob \subseteq Files /\ expired \subseteq Files /\ deleting \subseteq Files
  /\ outbox \subseteq Files /\ due \subseteq outbox
  /\ linked \in BOOLEAN
  /\ job \in [Files -> [Slots -> {"off", "fetching", "have", "missing"}]]
  /\ row \in [Files -> {"none", "ready", "failed"}]
  /\ disk \subseteq Files
  /\ task \in [Tasks -> {"none", "waiting", "started", "failed"}]
  /\ drops \in 0..MaxDrops /\ restarts \in 0..MaxRestarts

Idle == [f \in Files |-> [i \in Slots |-> "off"]]

Init ==
  /\ good \in SUBSET Files /\ local \in SUBSET Files
  /\ composer = [f \in Files |-> "none"]
  /\ blob = {} /\ expired = {} /\ deleting = {}
  /\ outbox = {} /\ due = {}
  /\ linked = TRUE
  /\ job = Idle
  /\ row = [f \in Files |-> "none"]
  /\ disk = {}
  /\ task = [t \in Tasks |-> "none"]
  /\ drops = 0 /\ restarts = 0

-----------------------------------------------------------------------------
(* The device.                                                             *)

\* uploadOne, uploadMaterial: a file of an accepted kind and size is
\* encrypted under a key of its own.
Pick(f) ==
  /\ composer[f] = "none"
  /\ composer' = [composer EXCEPT ![f] = "uploading"]
  /\ UNCHANGED <<fileVars, outbox, due, linked, drops>> /\ UNCHANGED macVars /\ UNCHANGED cloudVars

\* The PUT arrives at the bucket.
PutRemote(f) ==
  /\ composer[f] = "uploading" /\ f \notin blob \union local
  /\ blob' = blob \union {f}
  /\ UNCHANGED <<expired, deleting>> /\ UNCHANGED deviceVars /\ UNCHANGED macVars

\* The PUT arrives at the bridge, which stages it.
PutLocal(f) ==
  /\ composer[f] = "uploading" /\ f \in local \ blob
  /\ linked
  /\ blob' = blob \union {f}
  /\ UNCHANGED <<expired, deleting>> /\ UNCHANGED deviceVars /\ UNCHANGED macVars

\* The PUT is answered: the registration goes to the outbox, and from there
\* to the Mac if there is a connection.
Prepared(f) ==
  /\ composer[f] = "uploading" /\ f \in blob
  /\ composer' = [composer EXCEPT ![f] = "ready"]
  /\ outbox' = outbox \union {f}
  /\ due' = IF linked THEN due \union {f} ELSE due
  /\ UNCHANGED <<fileVars, linked, drops>> /\ UNCHANGED macVars /\ UNCHANGED cloudVars

\* The PUT or its answer is lost or refused; another try has another id.
UploadFails(f) ==
  /\ composer[f] = "uploading"
  /\ composer' = [composer EXCEPT ![f] = "failed"]
  /\ UNCHANGED <<fileVars, outbox, due, linked, drops>> /\ UNCHANGED macVars /\ UNCHANGED cloudVars

\* What was sent and not answered goes with the connection.
Drop ==
  /\ linked /\ drops < MaxDrops
  /\ linked' = FALSE /\ due' = {} /\ drops' = drops + 1
  /\ UNCHANGED <<fileVars, composer, outbox>> /\ UNCHANGED macVars /\ UNCHANGED cloudVars

\* (Mutant: only what is new is sent on a new connection.)
ReconnectForgets ==
  /\ ~linked
  /\ linked' = TRUE /\ due' = {}
  /\ UNCHANGED <<fileVars, composer, outbox, drops>> /\ UNCHANGED macVars /\ UNCHANGED cloudVars

\* A new connection: the outbox is sent again.
Reconnect ==
  /\ ~linked
  /\ linked' = TRUE /\ due' = outbox
  /\ UNCHANGED <<fileVars, composer, outbox, drops>> /\ UNCHANGED macVars /\ UNCHANGED cloudVars

-----------------------------------------------------------------------------
(* The Mac's registration.                                                 *)

\* material.updated reaches a connected device, whose outbox entry it ends.
Tell(f) ==
  /\ outbox' = IF linked THEN outbox \ {f} ELSE outbox
  /\ due' = IF linked THEN due \ {f} ELSE due

\* The bucket's answer to the Mac, and the staging directory's.
InBucket(f) == f \in blob
Staged(f) == f \in blob

\* Decryption, the size, the content's own marks and its digest.
Passes(f) == f \in good

\* The material is saved beside its row; what it was uploaded as may go.
Keep(f) ==
  /\ disk' = disk \union {f}
  /\ row' = [row EXCEPT ![f] = "ready"]
  /\ IF f \in local THEN blob' = blob \ {f} /\ UNCHANGED deleting
     ELSE deleting' = deleting \union {f} /\ UNCHANGED blob

\* fail: the row says so, and names no file.
FailsCheck(f) ==
  /\ row' = [row EXCEPT ![f] = "failed"]
  /\ UNCHANGED <<disk, blob, deleting>>

\* A registration arrives.  A ready material is left as it is, and nothing
\* is sent.  On the Mac's own network all is done at once.
Register(f) ==
  /\ linked /\ f \in due
  /\ \/ /\ row[f] = "ready"
        /\ due' = due \ {f}
        /\ UNCHANGED <<outbox, job, row, disk, blob, deleting>>
     \/ /\ row[f] # "ready" /\ f \in local
        /\ IF Staged(f) /\ Passes(f) THEN Keep(f) ELSE FailsCheck(f)
        /\ Tell(f)
        /\ UNCHANGED job
     \/ /\ row[f] # "ready" /\ f \notin local
        /\ \E i \in Slots : /\ job[f][i] = "off"
                            /\ job' = [job EXCEPT ![f][i] = "fetching"]
        /\ due' = due \ {f}
        /\ UNCHANGED <<outbox, row, disk, blob, deleting>>
  /\ UNCHANGED <<fileVars, composer, linked, drops, task, restarts, expired>>

\* The bucket is asked.
Fetch(f, i) ==
  /\ job[f][i] = "fetching"
  /\ job' = [job EXCEPT ![f][i] = IF InBucket(f) THEN "have" ELSE "missing"]
  /\ UNCHANGED <<row, disk, task, restarts>> /\ UNCHANGED deviceVars /\ UNCHANGED cloudVars

\* The cloud cannot be reached, refuses, or is too slow.
FetchFails(f, i) ==
  /\ job[f][i] = "fetching"
  /\ job' = [job EXCEPT ![f][i] = "missing"]
  /\ UNCHANGED <<row, disk, task, restarts>> /\ UNCHANGED deviceVars /\ UNCHANGED cloudVars

\* (Mutant: the upload may go before the file is known to be kept.)
FinishDeletes(f, i) ==
  /\ job[f][i] \in {"have", "missing"}
  /\ job' = [job EXCEPT ![f][i] = "off"]
  /\ IF job[f][i] = "have" /\ Passes(f) THEN Keep(f)
     ELSE /\ row' = [row EXCEPT ![f] = "failed"]
          /\ deleting' = deleting \union {f}
          /\ UNCHANGED <<disk, blob>>
  /\ Tell(f)
  /\ UNCHANGED <<fileVars, composer, linked, drops, task, restarts, expired>>

\* After the await: the file is kept or the row says that it failed, however
\* the row stands now.
Finish(f, i) ==
  /\ job[f][i] \in {"have", "missing"}
  /\ job' = [job EXCEPT ![f][i] = "off"]
  /\ IF job[f][i] = "have" /\ Passes(f) THEN Keep(f) ELSE FailsCheck(f)
  /\ Tell(f)
  /\ UNCHANGED <<fileVars, composer, linked, drops, task, restarts, expired>>

\* The bucket deletes an upload, or the request is lost.
Delete(f) ==
  /\ f \in deleting
  /\ deleting' = deleting \ {f}
  /\ blob' \in {blob, blob \ {f}}
  /\ UNCHANGED expired /\ UNCHANGED deviceVars /\ UNCHANGED macVars

\* The bucket's lifecycle removes what was left.
ExpireUpload(f) ==
  /\ f \in blob \ local
  /\ blob' = blob \ {f}
  /\ expired' = expired \union {f}
  /\ UNCHANGED deleting /\ UNCHANGED deviceVars /\ UNCHANGED macVars

-----------------------------------------------------------------------------
(* Tasks.                                                                  *)

\* submit: the composer lets a task go when its materials are ready there;
\* it comes after their registrations on a connection, or with a later one.
Submit(t) ==
  /\ task[t] = "none"
  /\ composer[Of[t]] = "ready"
  /\ linked /\ Of[t] \notin due
  /\ task' = [task EXCEPT ![t] = "waiting"]
  /\ UNCHANGED <<job, row, disk, restarts>> /\ UNCHANGED deviceVars /\ UNCHANGED cloudVars

\* waitForMaterials: the row is ready and names a file.
TaskStarts(t) ==
  /\ task[t] = "waiting" /\ row[Of[t]] = "ready"
  /\ task' = [task EXCEPT ![t] = "started"]
  /\ UNCHANGED <<job, row, disk, restarts>> /\ UNCHANGED deviceVars /\ UNCHANGED cloudVars

\* A material failed, or 30 seconds are over.
TaskFails(t) ==
  /\ task[t] = "waiting" /\ row[Of[t]] # "ready"
  /\ task' = [task EXCEPT ![t] = "failed"]
  /\ UNCHANGED <<job, row, disk, restarts>> /\ UNCHANGED deviceVars /\ UNCHANGED cloudVars

\* retry, of a failed task.
TaskRetried(t) ==
  /\ linked /\ task[t] = "failed"
  /\ task' = [task EXCEPT ![t] = "waiting"]
  /\ UNCHANGED <<job, row, disk, restarts>> /\ UNCHANGED deviceVars /\ UNCHANGED cloudVars

\* The bridge ends and starts again: rows and files remain, calls do not.
Restart ==
  /\ restarts < MaxRestarts /\ drops < MaxDrops
  /\ restarts' = restarts + 1
  /\ linked' = FALSE /\ due' = {} /\ drops' = IF linked THEN drops + 1 ELSE drops
  /\ job' = Idle
  /\ deleting' = {}
  /\ task' = [t \in Tasks |-> IF task[t] = "started" THEN "waiting" ELSE task[t]]
  /\ UNCHANGED <<fileVars, composer, outbox, row, disk, blob, expired>>

-----------------------------------------------------------------------------

Next ==
  \/ Drop \/ Reconnect \/ Restart
  \/ \E f \in Files : \/ Pick(f) \/ PutRemote(f) \/ PutLocal(f) \/ Prepared(f) \/ UploadFails(f)
                      \/ Register(f) \/ Delete(f) \/ ExpireUpload(f)
  \/ \E f \in Files, i \in Slots : Fetch(f, i) \/ FetchFails(f, i) \/ Finish(f, i)
  \/ \E t \in Tasks : Submit(t) \/ TaskStarts(t) \/ TaskFails(t) \/ TaskRetried(t)

Spec == Init /\ [][Next]_vars

\* The device reconnects and its outbox is sent; a fetch has a time-out.
Fairness ==
  /\ WF_vars(Reconnect)
  /\ \A f \in Files :
       /\ WF_vars(Register(f))
       /\ \A i \in Slots : WF_vars(Fetch(f, i) \/ FetchFails(f, i)) /\ WF_vars(Finish(f, i))

FairSpec == Spec /\ Fairness

-----------------------------------------------------------------------------
(* Properties.                                                             *)

\* A file the composer has shown as saved is somewhere until its day is
\* over: no lost answer, repeated registration, failed check or restart
\* deletes the upload of a material that the Mac does not have on disk
\* (material-service.ts:134-138).
KeptSomewhere ==
  \A f \in Files : composer[f] = "ready" /\ Passes(f) => f \in blob \union disk \union expired

\* A task is let start by a row that has its file, and never with a file
\* that failed its checks (task-command-service.ts:189).
StartsWithFiles ==
  \A t \in Tasks : row[Of[t]] = "ready" => Of[t] \in disk \intersect good

\* A registration the device keeps is decided by the Mac, over lost
\* connections and restarts, whether or not its upload is still there.
Registers == \A f \in Files : (f \in outbox) ~> (row[f] # "none")

\* Fails (material-service.ts:117-123): a second registration that looked
\* for the upload after the first one's delete undoes a ready material.
ReadyStays ==
  [][\A f \in Files : row[f] = "ready" => row'[f] = "ready"]_vars

\* Fails (material-service.ts:118): a registration whose answer was lost is
\* answered by nothing, so its entry stays in the outbox.
RegistrationEnds == \A f \in Files : (f \in outbox) ~> (f \notin outbox)

=============================================================================
