------------------------------ MODULE Preferences ------------------------------
(***************************************************************************)
(* What a user sets from several devices: a task archived or pinned, a     *)
(* card dismissed or brought back, a profile, a policy, notifications.     *)
(* The page shows it at once (TasksView.tsx, FeedView.tsx), keeps it in    *)
(* its outbox until the Mac has answered (commandOutbox.ts, useBridge.ts)  *)
(* and sends it again on every connection; the Mac carries it out          *)
(* (bridge.ts, feed-dismiss.ts, task-preferences.ts, store.ts).            *)
(*                                                                         *)
(* One thing is set in a behaviour, of one kind:                           *)
(*   archive   one value for all; keyed; answered to who asked             *)
(*   dismiss   a value of each device; keyed; a later one replaces         *)
(*   profile   one value for all; a later one replaces; told to all        *)
(*   policy    as a profile, and any news of it is an answer               *)
(*   settings  a value of each device; a later one replaces                *)
(* A connection that drops loses what is under way on it.                  *)
(***************************************************************************)
EXTENDS Naturals, Sequences, Lists

CONSTANTS
  Devices,   \* the user's devices
  Kinds,     \* kinds of things set
  MaxSets,   \* bound: settings made, each with its key
  MaxLosses,  \* bound: connections lost
  MaxAsks    \* bound: snapshots asked for by a page that comes to the front

ASSUME PreferenceBounds == MaxSets \in Nat /\ MaxLosses \in Nat /\ MaxAsks \in Nat
ASSUME PreferenceKinds == Kinds \subseteq {"archive", "dismiss", "profile", "policy", "settings"}

VARIABLES
  about,     \* the kind of this behaviour
  value,     \* what the Mac has, for each device
  known,     \* keys of devices whose result the Mac has kept
  allowed,   \* the thing exists, and who sets it may
  link,      \* off, on: authenticated by the Mac, ready: the device knows it
  up, down,  \* what is under way, each way
  waiting,    \* what waits for an answer, on each device
  heard,     \* what each device was told last
  override,  \* what its page shows instead, if anything
  sets, losses, asks

macVars == <<value, known, allowed>>
deviceVars == <<waiting, heard, override>>
preferenceVars == <<about, macVars, link, up, down, deviceVars, sets, losses, asks>>

Keys == 1..MaxSets
Shared == about \in {"archive", "profile", "policy"}
Keyed == about \in {"archive", "dismiss"}
Overridden == about \in {"archive", "dismiss"}

Entries == [key : Keys, to : BOOLEAN]
Asked == [key |-> 0, to |-> FALSE]
News == [what : {"auth", "snapshot", "update"}, is : BOOLEAN]

PreferenceTypeOK ==
  /\ about \in Kinds
  /\ value \in [Devices -> BOOLEAN] /\ known \subseteq Devices \X Keys /\ allowed \in BOOLEAN
  /\ link \in [Devices -> {"off", "on", "ready"}]
  /\ \A d \in Devices :
       /\ \A i \in DOMAIN up[d] : up[d][i] \in Entries \union {Asked}
       /\ \A i \in DOMAIN down[d] : down[d][i] \in News
       /\ \A i \in DOMAIN waiting[d] : waiting[d][i] \in Entries
       /\ ~Keyed => Len(waiting[d]) < 2
  /\ heard \in [Devices -> BOOLEAN]
  /\ override \in [Devices -> {{}, {TRUE}, {FALSE}}]
  /\ sets \in 0..MaxSets /\ losses \in 0..MaxLosses /\ asks \in 0..MaxAsks

PreferenceInit ==
  /\ about \in Kinds
  /\ value = [d \in Devices |-> FALSE] /\ known = {} /\ allowed = TRUE
  /\ link = [d \in Devices |-> "off"]
  /\ up = [d \in Devices |-> <<>>] /\ down = [d \in Devices |-> <<>>]
  /\ waiting = [d \in Devices |-> <<>>]
  /\ heard = [d \in Devices |-> FALSE] /\ override = [d \in Devices |-> {}]
  /\ sets = 0 /\ losses = 0 /\ asks = 0

-----------------------------------------------------------------------------
(* The page.                                                               *)

\* enqueueCommand: the entry of the same meaning is replaced, where its kind
\* is, and stays where it is; else the command is the last.
Enqueue(box, c) == IF about # "archive" /\ box # <<>> THEN <<c>> ELSE Append(box, c)

\* What the page shows.
Effective(d) == IF override[d] = {} THEN heard[d] ELSE TRUE \in override[d]

\* togglePin, toggleArchive, dismissItem, their undo, and the settings' forms:
\* shown at once, saved, and sent if there is a connection.
Set(d, v) ==
  /\ sets < MaxSets
  /\ Overridden => v # Effective(d)
  /\ LET c == [key |-> sets + 1, to |-> v] IN
       /\ waiting' = [waiting EXCEPT ![d] = Enqueue(@, c)]
       /\ up' = IF link[d] = "ready" THEN [up EXCEPT ![d] = Append(@, c)] ELSE up
  /\ override' = IF Overridden THEN [override EXCEPT ![d] = {v} \ {heard[d]}]
                 ELSE override
  /\ sets' = sets + 1
  /\ UNCHANGED <<about, macVars, link, down, heard, losses, asks>>

\* A page that comes to the front asks for a snapshot.
AskAnew(d) ==
  /\ link[d] = "ready" /\ asks < MaxAsks
  /\ up' = [up EXCEPT ![d] = Append(@, Asked)]
  /\ asks' = asks + 1
  /\ UNCHANGED <<about, macVars, link, down, deviceVars, sets, losses>>

\* snapshotSatisfies.
Satisfied(c, v) == about \in {"archive", "dismiss"} /\ c.to = v

\* (Mutant: any news of a toggle answers it.)
AcknowledgesAll(c, v) == TRUE

\* acknowledge.
Acknowledged(c, v) ==
  CASE about \in {"archive", "profile"} -> c.to = v
    [] about = "dismiss" -> c.to /\ v
    [] about \in {"policy", "settings"} -> TRUE

\* (Mutant: the newest is sent first.)
ReplayNewestFirst(d) == [i \in DOMAIN waiting[d] |-> waiting[d][Len(waiting[d]) + 1 - i]]

\* On auth.ok everything that waits is sent, in its order.
Replay(d) == waiting[d]

\* applyDismissOverrides and the like: what the Mac now says is no override.
Settled(o, v) == o \ {v}

\* applyMessage, after acknowledge, which left these entries.
Learn(d, v, left) ==
  /\ waiting' = [waiting EXCEPT ![d] = left]
  /\ heard' = [heard EXCEPT ![d] = v]
  /\ override' = [override EXCEPT ![d] = Settled(@, v)]

Receive(d) ==
  /\ down[d] # <<>>
  /\ down' = [down EXCEPT ![d] = Tail(@)]
  /\ LET n == Head(down[d]) IN
       \/ /\ n.what = "auth"
          /\ link' = [link EXCEPT ![d] = "ready"]
          /\ up' = [up EXCEPT ![d] = @ \o Replay(d)]
          /\ UNCHANGED deviceVars
       \/ /\ n.what = "snapshot"
          /\ Learn(d, n.is, Without(waiting[d], {c \in Entries : Satisfied(c, n.is)}))
          /\ UNCHANGED <<link, up>>
       \/ /\ n.what = "update"
          /\ Learn(d, n.is, Without(waiting[d], {c \in Entries : Acknowledged(c, n.is)}))
          /\ UNCHANGED <<link, up>>
  /\ UNCHANGED <<about, macVars, sets, losses, asks>>

-----------------------------------------------------------------------------
(* The connection.                                                         *)

\* The Mac has authenticated a device, and sends its snapshot at once.
Admits(d) ==
  /\ link[d] = "off"
  /\ link' = [link EXCEPT ![d] = "on"]
  /\ down' = [down EXCEPT ![d] = <<[what |-> "auth", is |-> FALSE],
                                   [what |-> "snapshot", is |-> value[d]]>>]
  /\ UNCHANGED <<about, macVars, up, deviceVars, sets, losses, asks>>

Drop(d) ==
  /\ link[d] # "off" /\ losses < MaxLosses
  /\ link' = [link EXCEPT ![d] = "off"]
  /\ up' = [up EXCEPT ![d] = <<>>] /\ down' = [down EXCEPT ![d] = <<>>]
  /\ losses' = losses + 1
  /\ UNCHANGED <<about, macVars, deviceVars, sets, asks>>

-----------------------------------------------------------------------------
(* The Mac.                                                                *)

Tell(d, n) == [down EXCEPT ![d] = Append(@, n)]

\* broadcast, to every connection.
Broadcast(d, n) == [e \in Devices |-> IF link[e] = "off" THEN down[e] ELSE Append(down[e], n)]

\* What is written: a row for all, or the device's own.
Written(d, v) == [e \in Devices |-> IF Shared \/ e = d THEN v ELSE value[e]]

\* getIdempotentResult, saveIdempotentResult.
Knows(d, c) == <<d, c.key>> \in known
Remembers(d, c) == known' = known \union {<<d, c.key>>}

\* setTaskPinnedIdempotent, setTaskArchivedIdempotent: a key that is known
\* changes nothing.
SetsTask(d, c) ==
  value' = (IF Knows(d, c) THEN value ELSE Written(d, c.to)) /\ Remembers(d, c)

\* applyFeedDismissSet, likewise.
SetsDismissed(d, c) ==
  value' = (IF Knows(d, c) THEN value ELSE Written(d, c.to)) /\ Remembers(d, c)

\* task.pin, task.archive: what is so is the answer.
TogglesTask(d, c) ==
  /\ about = "archive"
  /\ IF allowed THEN SetsTask(d, c) /\ down' = Tell(d, [what |-> "update", is |-> value'[d]])
     ELSE UNCHANGED <<value, known, down>>

\* feed.dismiss.set; a card that is back is told by a snapshot.
Dismisses(d, c) ==
  /\ about = "dismiss"
  /\ SetsDismissed(d, c)
  /\ down' = Tell(d, [what |-> IF value'[d] THEN "update" ELSE "snapshot", is |-> value'[d]])

\* user.profile.update, agent.profile.update: carried out every time.
UpdatesProfile(d, c) ==
  /\ about = "profile"
  /\ value' = Written(d, c.to) /\ UNCHANGED known
  /\ down' = Broadcast(d, [what |-> "update", is |-> c.to])

\* trust.policy.update; its key is kept, and never looked up.
UpdatesPolicy(d, c) ==
  /\ about = "policy"
  /\ IF allowed
     THEN /\ value' = Written(d, c.to) /\ Remembers(d, c)
          /\ down' = Broadcast(d, [what |-> "update", is |-> c.to])
     ELSE UNCHANGED <<value, known, down>>

\* notification.settings.update.
Configures(d, c) ==
  /\ about = "settings"
  /\ value' = Written(d, c.to) /\ Remembers(d, c)
  /\ down' = Tell(d, [what |-> "update", is |-> c.to])

\* snapshot.request.
Snapshots(d) ==
  /\ down' = Tell(d, [what |-> "snapshot", is |-> value[d]])
  /\ UNCHANGED <<value, known>>

Handle(d) ==
  /\ up[d] # <<>>
  /\ up' = [up EXCEPT ![d] = Tail(@)]
  /\ LET c == Head(up[d]) IN
       \/ c = Asked /\ Snapshots(d)
       \/ /\ c # Asked
          /\ \/ TogglesTask(d, c) \/ Dismisses(d, c) \/ UpdatesProfile(d, c)
             \/ UpdatesPolicy(d, c) \/ Configures(d, c)
  /\ UNCHANGED <<about, allowed, link, deviceVars, sets, losses, asks>>

\* The session or project goes, or the right to set its policy.
Forbid ==
  /\ allowed /\ allowed' = FALSE
  /\ about \in {"archive", "policy"}
  /\ UNCHANGED <<about, value, known, link, up, down, deviceVars, sets, losses, asks>>

-----------------------------------------------------------------------------

PreferenceNext ==
  \/ \E d \in Devices :
       \/ \E v \in BOOLEAN : Set(d, v)
       \/ AskAnew(d) \/ Receive(d) \/ Admits(d) \/ Drop(d) \/ Handle(d)
  \/ Forbid

PreferenceFairness ==
  \A d \in Devices :
    /\ WF_preferenceVars(Admits(d)) /\ WF_preferenceVars(Receive(d))
    /\ WF_preferenceVars(Handle(d))

PreferenceSpec == PreferenceInit /\ [][PreferenceNext]_preferenceVars /\ PreferenceFairness

-----------------------------------------------------------------------------
(* Properties.                                                             *)

\* A device's settings take effect in the order its user made them, over lost
\* connections and replays: what an earlier one sends again never undoes a
\* later one (useBridge.ts:613-617, task-preferences.ts:19-22).
OwnOrder ==
  [][\A d \in Devices :
       value' # value /\ up'[d] # up[d]
       => \A k \in known : k[1] = d => k[2] <= Head(up[d]).key]_preferenceVars

\* What a page shows in the place of what the Mac said is in its outbox, and
\* so on its way: it is never shown for good (feedSequence.ts:130-145).
OverridesAreSent ==
  \A d \in Devices :
    override[d] \subseteq {waiting[d][i].to : i \in DOMAIN waiting[d]}

\* A device that has heard everything was told what the Mac has, of what is
\* its own or is told to all (bridge.ts:340-348, 399-401).
QuietHasHeard ==
  \A d \in Devices :
    link[d] = "ready" /\ down[d] = <<>> /\ about # "archive" => heard[d] = value[d]

\* Both: a page differs from the Mac only by what is on its way, up or down.
PagesAreHonest == OverridesAreSent /\ QuietHasHeard

\* Fails (useBridge.ts:219-236, 355-357): a snapshot from before, another
\* device's news, or the answer to an earlier one takes an entry away that
\* the Mac has not carried out; if it is lost, it is not sent again.
AnsweredWhenDone ==
  [][\A d \in Devices : \A i \in DOMAIN waiting[d] :
       about # "profile" /\ sets' = sets /\ waiting'[d] = <<>> => <<d, waiting[d][i].key>> \in known
    ]_preferenceVars

\* Fails (task-preferences.ts:35-38, useBridge.ts:345): of two settings of a
\* task the first's answer may be lost; sent again, it is answered with what
\* the second made of it, which does not answer it, ever.
TogglesDrain == \A d \in Devices : []<>(waiting[d] = <<>> \/ about # "archive" \/ ~allowed)

\* What can be replaced is answered in the end, however many connections are
\* lost, and leaves the outbox (useBridge.ts:319-366).
OutboxesAreEmpty ==
  \A d \in Devices : waiting[d] = <<>> \/ about = "archive" \/ ~allowed
OutboxDrains == []<>OutboxesAreEmpty

=============================================================================
