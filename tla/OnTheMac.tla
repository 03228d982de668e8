-------------------------------- MODULE OnTheMac --------------------------------
(***************************************************************************)
(* What the bridge has around the tasks: its process, its way into Codex,  *)
(* people's materials, which are uploaded and then looked at, the          *)
(* projects, and the rows an older bridge has left.  None reads what       *)
(* another writes here; a behaviour is one of one part, and the others     *)
(* stay as they are.  Who looks at a material sees of an upload only that  *)
(* it is ready: those behaviours upload without failures.                  *)
(***************************************************************************)
EXTENDS Service, Integrations, MaterialViews, Projects, Upgrades

CONSTANT Lineups  \* bound: what kinds of jobs come together

VARIABLE part

materialVars == <<vars, viewVars>>
macPartVars ==
  <<part, serviceVars, integrationVars, materialVars, projectVars, upgradeVars>>

\* A part that is not looked at begins in one way only.
PlainIntegrations ==
  /\ part # "integrations" =>
       /\ plugin = "none" /\ hooks = "none" /\ ~legacy /\ able = {}
       /\ \A j \in Jobs : kind[j] = "plugin"
  /\ part = "integrations" => kind \in Lineups
PlainMaterials ==
  /\ part \notin {"uploads", "views"} => good = {} /\ local = {}
  /\ part # "views" => about = [e \in Entries |-> CHOOSE f \in Files : TRUE]
  /\ part = "views" => good = Files
PlainProjects ==
  part # "projects" =>
    /\ ~backfilled
    /\ \A s \in Sessions : cwd[s] = Nowhere
    /\ \A x \in Notes : note[x] = Unwritten
    /\ \A o \in Orders : order[o] = Unsent
PlainUpgrades == part # "upgrades" => columns = {} /\ ~device.may

MacInit ==
  /\ part \in {"service", "integrations", "uploads", "views", "projects", "upgrades"}
  /\ ServiceInit
  /\ IntegrationInit /\ PlainIntegrations
  /\ AllInit /\ PlainMaterials
  /\ ProjectInit /\ PlainProjects
  /\ UpgradeInit /\ PlainUpgrades

OfProcess == UNCHANGED <<part, materialVars, projectVars, upgradeVars>>
OfService == part = "service" /\ OfProcess /\ UNCHANGED integrationVars
OfIntegrations == part = "integrations" /\ OfProcess /\ UNCHANGED serviceVars
OfStore == UNCHANGED <<part, serviceVars, integrationVars>>
OfMaterials == OfStore /\ UNCHANGED <<projectVars, upgradeVars>>
OfUploads == part = "uploads" /\ OfMaterials /\ UNCHANGED viewVars
OfBoth == part \in {"uploads", "views"} /\ OfMaterials /\ UNCHANGED viewVars
OfViews == part = "views" /\ OfMaterials
OfProjects == part = "projects" /\ OfStore /\ UNCHANGED <<materialVars, upgradeVars>>
OfUpgrades == part = "upgrades" /\ OfStore /\ UNCHANGED <<materialVars, projectVars>>

MacNext ==
  \/ \E p \in Starts :
       \/ OfService /\ Begin(p)
       \/ OfService /\ MakeLock(p)
       \/ OfService /\ NameLock(p)
       \/ OfService /\ Look(p)
       \/ OfService /\ Steal(p)
       \/ OfService /\ TakeSocket(p)
       \/ OfService /\ Bind(p)
       \/ OfService /\ Describe(p)
       \/ OfService /\ Ready(p)
       \/ OfService /\ Fail(p)
       \/ OfService /\ ClearDescriptor(p)
       \/ OfService /\ Close(p)
       \/ OfService /\ Release(p)
       \/ OfService /\ Interrupt(p)
       \/ OfService /\ Reuse(p)
  \/ OfService /\ Stop
  \/ OfService /\ StopFindsNone
  \/ OfService /\ Stopped
  \/ OfService /\ AgentAsks
  \/ OfService /\ AgentSees
  \/ OfIntegrations /\ Ask
  \/ OfIntegrations /\ Answer
  \/ OfIntegrations /\ Cached
  \/ OfIntegrations /\ Forget
  \/ \E j \in Jobs :
       \/ OfIntegrations /\ BeginPlugin(j)
       \/ OfIntegrations /\ BeginCli(j)
       \/ OfIntegrations /\ BeginOff(j)
       \/ OfIntegrations /\ BeginRemove(j)
       \/ OfIntegrations /\ Stage(j)
       \/ OfIntegrations /\ MoveAside(j)
       \/ OfIntegrations /\ Place(j)
       \/ OfIntegrations /\ List(j)
       \/ OfIntegrations /\ DropSaved(j)
       \/ OfIntegrations /\ Migrate(j)
       \/ OfIntegrations /\ FileFails(j)
       \/ OfIntegrations /\ Undo(j)
       \/ OfIntegrations /\ RemoveRuntime(j)
       \/ OfIntegrations /\ AddRuntime(j)
       \/ OfIntegrations /\ RuntimeFails(j)
       \/ OfIntegrations /\ Unhook(j)
       \/ OfIntegrations /\ Hook(j)
       \/ OfIntegrations /\ Unlist(j)
       \/ OfIntegrations /\ Relist(j)
       \/ OfIntegrations /\ Strip(j)
       \/ OfIntegrations /\ Clean(j)
       \/ OfIntegrations /\ Cut(j)
  \/ OfBoth /\ Drop
  \/ OfBoth /\ Reconnect
  \/ OfUploads /\ Restart
  \/ \E f \in Files :
       \/ OfBoth /\ Pick(f)
       \/ OfBoth /\ PutRemote(f)
       \/ OfBoth /\ PutLocal(f)
       \/ OfBoth /\ Prepared(f)
       \/ OfUploads /\ UploadFails(f)
       \/ OfBoth /\ Register(f)
       \/ OfBoth /\ Delete(f)
       \/ OfUploads /\ ExpireUpload(f)
       \/ \E i \in Slots :
            \/ OfBoth /\ Fetch(f, i)
            \/ OfUploads /\ FetchFails(f, i)
            \/ OfBoth /\ Finish(f, i)
       \/ \E v \in Views : OfViews /\ Mount(v, f)
       \/ OfViews /\ Publish(f)
       \/ OfViews /\ Erase(f)
  \/ \E t \in Tasks :
       \/ OfUploads /\ Submit(t)
       \/ OfUploads /\ TaskStarts(t)
       \/ OfUploads /\ TaskFails(t)
       \/ OfUploads /\ TaskRetried(t)
  \/ \E v \in Views : OfViews /\ LetGo(v)
  \/ \E e \in Entries :
       \/ OfViews /\ LoadFails(e)
       \/ OfViews /\ AskMac(e)
       \/ OfViews /\ Load(e)
  \/ \E s \in Sessions :
       \/ \E p \in Places \union {Nowhere} :
            \/ OfProjects /\ Hears(s, p)
            \/ OfProjects /\ Follows(s, p)
       \/ \E x \in Notes : OfProjects /\ Publishes(x, s)
       \/ OfProjects /\ BackfillsSession(s)
  \/ \E o \in Orders :
       \/ \E n \in Ids : OfProjects /\ Creates(o, n)
       \/ OfProjects /\ Fails(o)
       \/ OfProjects /\ Retries(o)
  \/ OfProjects /\ Restarts
  \/ OfProjects /\ SessionsAreDone
  \/ OfProjects /\ BackfillsPosts
  \/ OfProjects /\ BackfillsCommands
  \/ OfProjects /\ MarksBackfilled
  \/ OfProjects /\ CleansUp
  \/ OfUpgrades /\ StartsNew
  \/ OfUpgrades /\ StartsOld
  \/ OfUpgrades /\ Stops
  \/ OfUpgrades /\ Chooses
  \/ OfUpgrades /\ InitializesSchema
  \/ OfUpgrades /\ GrantsPermissions
  \/ OfUpgrades /\ MarksPermissions
  \/ OfUpgrades /\ MigratesFeedV2
  \/ OfUpgrades /\ MigratesFeedV3
  \/ OfUpgrades /\ MigratesInteraction
  \/ OfUpgrades /\ AddsColumns
  \/ OfUpgrades /\ Scrubs
  \/ \E x \in Rows :
       \/ OfUpgrades /\ WritesOld(x)
       \/ OfUpgrades /\ WritesNew(x)

\* The device reconnects, and a fetch has a time-out.
MacFairness ==
  /\ WF_macPartVars(OfBoth /\ Reconnect)
  /\ \A f \in Files :
       /\ WF_macPartVars(OfBoth /\ Register(f))
       /\ \A i \in Slots :
            /\ WF_macPartVars((OfBoth /\ Fetch(f, i)) \/ (OfUploads /\ FetchFails(f, i)))
            /\ WF_macPartVars(OfBoth /\ Finish(f, i))

MacSpec == MacInit /\ [][MacNext]_macPartVars /\ MacFairness

=============================================================================
