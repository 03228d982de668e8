----------------------------- MODULE Integrations -----------------------------
(***************************************************************************)
(* How Zimlo gets into Codex: a plugin in the user's home, an entry of the *)
(* Personal marketplace, the copy that Codex itself holds and runs         *)
(* (codex-plugin.ts), and hooks in the user's own file from the time       *)
(* before there was a plugin, or where there is none (hook-config.ts).     *)
(* Jobs install all of this step by step, from the management page, the    *)
(* wizard or the command line (integration-status.ts, bridge.ts, index.ts) *)
(* and may fail or end anywhere; a status is read through a cache of what  *)
(* Codex said (probe-cache.ts).                                            *)
(*                                                                         *)
(* External: Codex, whose commands succeed or fail, and its user, who adds *)
(* and removes the plugin there and edits files.                           *)
(***************************************************************************)
EXTENDS FiniteSets

CONSTANTS
  Jobs,    \* installs and uninstalls
  Serial,  \* whether a job begins only when no other runs
  Sound    \* whether the files of the old plugin's place can be read

ASSUME IntegrationSwitches == Serial \in BOOLEAN /\ Sound \in BOOLEAN

VARIABLES
  plugin,   \* the plugin's directory: none, old, new
  listed,   \* the marketplace has Zimlo's entry
  runtime,  \* the copy Codex holds: none, old, new
  hooks,    \* Zimlo's hooks in the user's file: none, old, new
  mcp,      \* Codex's own settings have Zimlo's tools
  legacy,   \* the plugin is in its old place too
  at,       \* each job's step
  kind,     \* what each job is: plugin, cli, remove, off
  able,     \* jobs whose process finds Codex's command
  lists,    \* jobs that are to add the tools
  saved,    \* the plugin each job moved aside: none, old, new
  placed,   \* jobs whose new plugin is in its place
  prior,    \* jobs that were told that Codex holds the plugin
  before,   \* the plugin each job found
  cache,    \* what the cache has: none, or whether Codex holds the plugin
  probe     \* a probe under way: none, asked, or what Codex said

codexHome == <<plugin, listed, legacy>>
jobs == <<kind, able, lists, saved, placed, prior, before>>
probes == <<cache, probe>>
integrationVars == <<codexHome, runtime, hooks, mcp, at, jobs, probes>>

Versions == {"none", "old", "new"}
Answers == {"none", "held", "absent"}

IntegrationTypeOK ==
  /\ {plugin, runtime, hooks} \subseteq Versions
  /\ listed \in BOOLEAN /\ legacy \in BOOLEAN
  /\ at \in [Jobs -> {"idle", "stage", "aside", "place", "list", "drop", "migrate", "undo",
                      "remove", "add", "unhook", "hook", "unlist", "relist", "strip", "clean",
                      "done", "failed", "cut"}]
  /\ kind \in [Jobs -> {"plugin", "cli", "remove", "off"}]
  /\ able \subseteq Jobs /\ lists \subseteq Jobs /\ mcp \in BOOLEAN
  /\ saved \in [Jobs -> Versions] /\ before \in [Jobs -> Versions]
  /\ placed \subseteq Jobs /\ prior \subseteq Jobs
  /\ cache \in Answers /\ probe \in Answers \union {"asked"}

IntegrationInit ==
  /\ plugin \in {"none", "old"} /\ runtime \in {"none", plugin} /\ hooks \in {"none", "old"}
  /\ listed = (plugin # "none")
  /\ legacy \in BOOLEAN
  /\ at = [j \in Jobs |-> "idle"]
  /\ kind \in [Jobs -> {"plugin", "cli", "remove", "off"}]
  /\ able \in SUBSET Jobs /\ lists = {} /\ mcp = FALSE
  /\ saved = [j \in Jobs |-> "none"] /\ before = [j \in Jobs |-> "none"]
  /\ placed = {} /\ prior = {}
  /\ cache = "none" /\ probe = "none"

Holds(r) == IF r = "none" THEN "absent" ELSE "held"

\* inspectCodexPlugin: what is called installed, once the cache knows.
Installed == plugin = "new" /\ listed /\ hooks = "none" /\ runtime = "new"

\* codexPluginOwnsHooks: a plugin's source owns them, even one that is not active.
PluginOwnsHooks == plugin # "none"

GoesTo(j, s) == at' = [at EXCEPT ![j] = s]

-----------------------------------------------------------------------------
(* The cache of probes.                                                    *)

\* A status is read: what the cache has, or Codex is asked, once for all.
Ask ==
  /\ cache = "none" /\ probe = "none"
  /\ probe' = "asked"
  /\ UNCHANGED <<codexHome, runtime, hooks, at, mcp, jobs, cache>>

\* Codex says what it holds, or nothing that can be understood.
Answer ==
  /\ probe = "asked"
  /\ probe' \in {Holds(runtime), "absent"}
  /\ UNCHANGED <<codexHome, runtime, hooks, at, mcp, jobs, cache>>

\* ProbeCache.get: the answer is kept.
Cached ==
  /\ probe \in {"held", "absent"}
  /\ cache' = probe /\ probe' = "none"
  /\ UNCHANGED <<codexHome, runtime, hooks, at, mcp, jobs>>

\* Ten seconds are over.
Forget ==
  /\ cache # "none" /\ cache' = "none"
  /\ UNCHANGED <<codexHome, runtime, hooks, at, mcp, jobs, probe>>

\* invalidateIntegrationProbes: what the cache has is dropped, and no probe.
Invalidated == cache' = "none" /\ UNCHANGED probe

-----------------------------------------------------------------------------
(* A job's beginning.                                                      *)

Running == {j \in Jobs : at[j] \notin {"idle", "done", "failed", "cut"}}

MayBegin(j) == at[j] = "idle" /\ (Serial => Running = {})

\* inspectCodexRuntime: the cache, the probe under way, or a probe of one's own.
Looked == IF cache # "none" THEN cache
          ELSE IF probe \in {"held", "absent"} THEN probe ELSE Holds(runtime)

\* installCodexPlugin: the hook file is read and found sound, and what Codex
\* holds is looked up.
BeginPlugin(j) ==
  /\ MayBegin(j)
  /\ kind[j] = "plugin" \/ (kind[j] = "cli" /\ j \in able /\ PluginOwnsHooks)
  /\ IF j \in able
     THEN cache' = Looked /\ prior' = IF Looked = "held" THEN prior \union {j} ELSE prior
     ELSE UNCHANGED <<cache, prior>>
  /\ before' = [before EXCEPT ![j] = plugin]
  /\ GoesTo(j, "stage")
  /\ UNCHANGED <<codexHome, runtime, hooks, mcp, kind, able, lists, saved, placed, probe>>

\* installCliIntegrations, without a plugin: hooks go into the user's file,
\* and the tools into Codex's settings, unless Codex says they are there.
BeginCli(j) ==
  /\ MayBegin(j) /\ kind[j] = "cli" /\ j \in able /\ ~PluginOwnsHooks
  /\ before' = [before EXCEPT ![j] = plugin]
  /\ lists' \in {lists \union {j}, IF mcp THEN lists ELSE lists \union {j}}
  /\ GoesTo(j, "hook")
  /\ UNCHANGED <<codexHome, runtime, hooks, mcp, kind, able, saved, placed, prior, probes>>

\* zimlo hooks uninstall.
BeginOff(j) ==
  /\ MayBegin(j) /\ kind[j] = "off"
  /\ before' = [before EXCEPT ![j] = plugin]
  /\ GoesTo(j, "strip")
  /\ UNCHANGED <<codexHome, runtime, hooks, mcp, kind, able, lists, saved, placed, prior, probes>>

\* uninstallCodexPlugin: Codex is told first, where its command is found; its
\* refusal is reported when the files are gone.
BeginRemove(j) ==
  /\ MayBegin(j) /\ kind[j] = "remove"
  /\ before' = [before EXCEPT ![j] = plugin]
  /\ runtime' \in IF j \in able THEN {runtime, "none"} ELSE {runtime}
  /\ Invalidated
  /\ GoesTo(j, "clean")
  /\ UNCHANGED <<codexHome, hooks, mcp, kind, able, lists, saved, placed, prior>>

-----------------------------------------------------------------------------
(* installCodexPlugin.                                                     *)

\* materializePlugin, beside the plugin's place.
Stage(j) ==
  /\ at[j] = "stage"
  /\ GoesTo(j, "aside")
  /\ UNCHANGED <<codexHome, runtime, hooks, mcp, jobs, probes>>

\* The plugin that is there is moved aside.
MoveAside(j) ==
  /\ at[j] = "aside"
  /\ saved' = [saved EXCEPT ![j] = plugin]
  /\ plugin' = "none"
  /\ GoesTo(j, "place")
  /\ UNCHANGED <<listed, runtime, hooks, legacy, mcp, probes>>
  /\ UNCHANGED <<kind, able, lists, placed, prior, before>>

\* The new one takes its place, if nobody else's has.
Place(j) ==
  /\ at[j] = "place"
  /\ IF plugin = "none"
     THEN plugin' = "new" /\ placed' = placed \union {j} /\ GoesTo(j, "list")
     ELSE GoesTo(j, "undo") /\ UNCHANGED <<plugin, placed>>
  /\ UNCHANGED <<listed, runtime, hooks, legacy, mcp, probes>>
  /\ UNCHANGED <<kind, able, lists, saved, prior, before>>

\* marketplaceWithZimlo; another source of that name, or a file that cannot
\* be read, ends the install.
List(j) ==
  /\ at[j] = "list"
  /\ listed' = TRUE
  /\ GoesTo(j, "drop")
  /\ UNCHANGED <<plugin, runtime, hooks, legacy, mcp, jobs, probes>>

\* What was moved aside is removed.
DropSaved(j) ==
  /\ at[j] = "drop"
  /\ saved' = [saved EXCEPT ![j] = "none"]
  /\ GoesTo(j, "migrate")
  /\ UNCHANGED <<codexHome, runtime, hooks, mcp, kind, able, lists, placed, prior, before, probes>>

\* The plugin in the old place goes, if its manifest can be read. Without
\* Codex's command nobody is told, and the user's hooks go at once.
Migrate(j) ==
  /\ at[j] = "migrate"
  /\ IF legacy /\ ~Sound THEN GoesTo(j, "undo") /\ UNCHANGED legacy
     ELSE /\ legacy' = FALSE
          /\ GoesTo(j, IF j \notin able THEN "unhook"
                       ELSE IF j \in prior THEN "remove" ELSE "add")
  /\ UNCHANGED <<plugin, listed, runtime, hooks, mcp, jobs, probes>>

\* A file cannot be written, moved or understood.
FileFails(j) ==
  /\ at[j] \in {"stage", "aside", "place", "list"}
  /\ GoesTo(j, "undo")
  /\ UNCHANGED <<codexHome, runtime, hooks, mcp, jobs, probes>>

\* (Mutant: what was moved aside is forgotten.)
UndoHalf(j) ==
  /\ at[j] = "undo"
  /\ plugin' = IF j \in placed THEN "none" ELSE plugin
  /\ saved' = [saved EXCEPT ![j] = "none"]
  /\ placed' = placed \ {j}
  /\ GoesTo(j, "failed")
  /\ UNCHANGED <<listed, runtime, hooks, legacy, mcp, kind, able, lists, prior, before, probes>>

\* The catch: the new plugin is removed again, and the former is put back.
Undo(j) ==
  /\ at[j] = "undo"
  /\ LET left == IF j \in placed THEN "none" ELSE plugin
     IN  plugin' = IF saved[j] # "none" /\ left = "none" THEN saved[j] ELSE left
  /\ saved' = [saved EXCEPT ![j] = "none"]
  /\ placed' = placed \ {j}
  /\ GoesTo(j, "failed")
  /\ UNCHANGED <<listed, runtime, hooks, legacy, mcp, kind, able, lists, prior, before, probes>>

\* activateCodexRuntime: Codex gives its copy up.
RemoveRuntime(j) ==
  /\ at[j] = "remove"
  /\ runtime' = "none"
  /\ GoesTo(j, "add")
  /\ UNCHANGED <<codexHome, hooks, mcp, jobs, probes>>

\* It takes the plugin that is in its place.
AddRuntime(j) ==
  /\ at[j] = "add" /\ plugin # "none" /\ listed
  /\ runtime' = plugin
  /\ Invalidated
  /\ GoesTo(j, "unhook")
  /\ UNCHANGED <<codexHome, hooks, mcp, jobs>>

\* (Mutant: the user's hooks go although Codex has refused the plugin.)
RuntimeFailsUnhooks(j) ==
  /\ at[j] \in {"remove", "add"}
  /\ Invalidated
  /\ GoesTo(j, "unhook")
  /\ UNCHANGED <<codexHome, runtime, hooks, mcp, jobs>>

\* Codex refuses, or is too slow.
RuntimeFails(j) ==
  /\ at[j] \in {"remove", "add"}
  /\ Invalidated
  /\ GoesTo(j, "failed")
  /\ UNCHANGED <<codexHome, runtime, hooks, mcp, jobs>>

-----------------------------------------------------------------------------
(* The user's hook file.                                                   *)

\* hookConfigChanges to uninstall, removeZimloCommands, applyHookChanges.
Unhook(j) ==
  /\ at[j] = "unhook"
  /\ hooks' = "none"
  /\ GoesTo(j, IF kind[j] = "cli" THEN "hook" ELSE "done")
  /\ UNCHANGED <<codexHome, runtime, mcp, jobs, probes>>

\* (Mutant: hooks are written whether or not the plugin has them.)
HookTwice(j) ==
  /\ at[j] = "hook"
  /\ hooks' = "new"
  /\ GoesTo(j, IF j \in lists THEN "unlist" ELSE "done")
  /\ IF j \in lists THEN UNCHANGED probes ELSE Invalidated
  /\ UNCHANGED <<codexHome, runtime, mcp, jobs>>

\* hookConfigChanges, which looks for the plugin again, and appendHooks.
Hook(j) ==
  /\ at[j] = "hook"
  /\ hooks' = IF PluginOwnsHooks THEN "none" ELSE "new"
  /\ GoesTo(j, IF j \in lists THEN "unlist" ELSE "done")
  /\ IF j \in lists THEN UNCHANGED probes ELSE Invalidated
  /\ UNCHANGED <<codexHome, runtime, mcp, jobs>>

\* codex mcp remove.
Unlist(j) ==
  /\ at[j] = "unlist"
  /\ mcp' \in {FALSE, mcp}
  /\ GoesTo(j, "relist")
  /\ UNCHANGED <<codexHome, runtime, hooks, jobs, probes>>

\* codex mcp add; its failure ends the install before the cache is dropped.
Relist(j) ==
  /\ at[j] = "relist"
  /\ \/ mcp' = TRUE /\ Invalidated /\ GoesTo(j, "done")
     \/ GoesTo(j, "failed") /\ UNCHANGED <<mcp, probes>>
  /\ UNCHANGED <<codexHome, runtime, hooks, jobs>>

\* Zimlo's hooks are taken out of the user's file, as the user wants.
Strip(j) ==
  /\ at[j] = "strip"
  /\ hooks' = "none"
  /\ GoesTo(j, "done")
  /\ UNCHANGED <<codexHome, runtime, mcp, jobs, probes>>

\* uninstallCodexPlugin: the entry, the plugin and the one in the old place.
Clean(j) ==
  /\ at[j] = "clean"
  /\ listed' = FALSE /\ plugin' = "none" /\ legacy' = FALSE
  /\ Invalidated
  /\ GoesTo(j, "done")
  /\ UNCHANGED <<runtime, hooks, mcp, jobs>>

\* The process that runs a job ends; what was staged or set aside stays.
Cut(j) ==
  /\ j \in Running
  /\ GoesTo(j, "cut")
  /\ UNCHANGED <<codexHome, runtime, hooks, mcp, jobs, probes>>

-----------------------------------------------------------------------------

IntegrationNext ==
  \/ Ask \/ Answer \/ Cached \/ Forget
  \/ \E j \in Jobs :
       \/ BeginPlugin(j) \/ BeginCli(j) \/ BeginOff(j) \/ BeginRemove(j)
       \/ Stage(j) \/ MoveAside(j) \/ Place(j) \/ List(j) \/ DropSaved(j) \/ Migrate(j)
       \/ FileFails(j) \/ Undo(j) \/ RemoveRuntime(j) \/ AddRuntime(j) \/ RuntimeFails(j)
       \/ Unhook(j) \/ Hook(j) \/ Unlist(j) \/ Relist(j) \/ Strip(j) \/ Clean(j) \/ Cut(j)

IntegrationSpec == IntegrationInit /\ [][IntegrationNext]_integrationVars

-----------------------------------------------------------------------------
(* Properties.                                                             *)

\* Hooks of the user's file go only when Codex runs the plugin, over failed
\* and cut installs, or as the user wishes; where Codex's command is not
\* found they go unseen (codex-plugin.ts:219-220).
NeverUnhooked ==
  [][hooks # "none" /\ hooks' = "none"
     => runtime' = "new" \/ \E j \in Jobs : at'[j] # at[j] /\ (kind[j] = "off" \/ j \notin able)
    ]_integrationVars

\* An install that came to an end leaves one set of hooks, the plugin's or
\* the user's file's, and the plugin's install leaves it installed
\* (hook-config.ts:144-146, codex-plugin.ts:252-262).
OneSetOfHooks ==
  [][\A j \in Jobs : at[j] # "done" /\ at'[j] = "done" =>
       /\ kind[j] \in {"plugin", "cli"} => (plugin' = "none") # (hooks' = "none")
       /\ kind[j] = "plugin" /\ j \in able => Installed'
    ]_integrationVars

\* An install that fails before Codex is told leaves the plugin it found
\* (codex-plugin.ts:246-251).
FailedInstallsUndone ==
  [][\A j \in Jobs : at[j] = "undo" /\ at'[j] = "failed"
       => plugin' \in {before[j], plugin} /\ (before[j] # "none" => plugin' # "none")
    ]_integrationVars

\* All three, of every order in which installs, removals and cuts interleave.
InstallsAreSafe == NeverUnhooked /\ OneSetOfHooks /\ FailedInstallsUndone

\* Fails (probe-cache.ts:32): a probe under way when an install ends is
\* cached, and says what Codex held before.
StatusIsFresh ==
  [][cache = "none" /\ cache' # "none" => cache' \in {Holds(runtime), "absent"}]_integrationVars

=============================================================================
