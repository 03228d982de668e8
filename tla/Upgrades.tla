-------------------------------- MODULE Upgrades --------------------------------
(***************************************************************************)
(* What every start of the bridge does to the rows an older one has        *)
(* written.  Each migration is a transaction of its own with a mark; the   *)
(* process may die between any two; and a person may go back to the older  *)
(* bridge, which writes its kind of rows again, and then on once more.     *)
(***************************************************************************)
EXTENDS Naturals, Sequences

CONSTANTS
  Rows,         \* posts, in the order of nothing
  MaxDowngrades, MaxDeaths

VARIABLES
  bridge,       \* who runs, or the step the start has reached
  feedRows,        \* feed_posts
  said,         \* the posts that were instructions when they were written
  told,         \* the instructions among the events, by the post they come from
  marks,        \* metadata: the migrations that are done
  columns,      \* what the tables of the database have or lack
  device,       \* devices.can_approve, and whether a person chose it here
  downgrades, deaths

upgradeVars == <<bridge, feedRows, said, told, marks, columns, device, downgrades, deaths>>

\* The order of migrate().
Steps ==
  <<"schema", "permissions", "mark", "feedV2", "feedV3", "interaction", "columns", "scrub">>
StepNames == {Steps[i] : i \in DOMAIN Steps}
Marks == {"permissions", "feedV2", "feedV3", "interaction", "scrub"}
Absent == [by |-> "none", text |-> "none", form |-> "none", late |-> FALSE]
RowKinds ==
  [by : {"user", "agent"}, text : {"raw", "clean"},
   form : {"v1", "v2", "broken", "v3"}, late : BOOLEAN]

UpgradeTypeOK ==
  /\ bridge \in {"off", "old", "new"} \union StepNames
  /\ feedRows \in [Rows -> RowKinds \union {Absent}]
  /\ told \in [Rows -> {"none", "raw", "clean"}]
  /\ marks \subseteq Marks
  /\ columns \subseteq {"content", "cardActions", "reviews", "results"}
  /\ device \in [may : BOOLEAN, chosen : BOOLEAN]

\* A new database, or one an older bridge has left.
UpgradeInit ==
  /\ bridge = "off"
  /\ feedRows = [x \in Rows |-> Absent] /\ told = [x \in Rows |-> "none"]
  /\ said = {}
  /\ marks = {}
  /\ columns \in {{}, {"cardActions", "reviews"}}
  /\ device \in [may : BOOLEAN, chosen : {FALSE}]
  /\ downgrades = 0 /\ deaths = 0

-----------------------------------------------------------------------------
(* The older bridge. *)

\* It makes the columns it knows if they are not there.
StartsOld ==
  /\ bridge = "off" /\ downgrades < MaxDowngrades
  /\ downgrades' = downgrades + 1
  /\ bridge' = "old"
  /\ columns' = columns \union {"cardActions", "reviews"}
  /\ UNCHANGED <<said, feedRows, told, marks, device, deaths>>

\* It writes instructions as posts, and posts without or with an older content.
WritesOld(x) ==
  /\ bridge = "old" /\ feedRows[x] = Absent /\ told[x] = "none"
  /\ \E b \in {"user", "agent"}, k \in {"v1", "v2", "broken"} :
       /\ b = "user" => k = "v1"
       /\ said' = IF b = "user" THEN said \union {x} ELSE said
       /\ feedRows' = [feedRows EXCEPT ![x] =
            [by |-> b, text |-> "raw", form |-> k, late |-> "feedV3" \in marks]]
  /\ UNCHANGED <<bridge, told, marks, columns, device, downgrades, deaths>>

-----------------------------------------------------------------------------
(* The start of this bridge. *)

\* A migration either commits or has not happened.
Reaches(step) == bridge = step
GoesOn ==
  bridge' = LET i == CHOOSE j \in DOMAIN Steps : Steps[j] = bridge IN
            IF i = Len(Steps) THEN "new" ELSE Steps[i + 1]

StartsNew ==
  /\ bridge = "off"
  /\ bridge' = Steps[1]
  /\ UNCHANGED <<said, feedRows, told, marks, columns, device, downgrades, deaths>>

\* initializeStoreSchema: what a table lacks is added.
InitializesSchema ==
  /\ Reaches("schema") /\ GoesOn
  /\ columns' = columns \union {"content"}
  /\ UNCHANGED <<said, feedRows, told, marks, device, downgrades, deaths>>

\* Remote approvals become the default, once; the mark is a statement of its own.
GrantsPermissions ==
  /\ Reaches("permissions") /\ GoesOn
  /\ device' = IF "permissions" \in marks THEN device ELSE [device EXCEPT !.may = TRUE]
  /\ UNCHANGED <<said, feedRows, told, marks, columns, downgrades, deaths>>
MarksPermissions ==
  /\ Reaches("mark") /\ GoesOn
  /\ marks' = marks \union {"permissions"}
  /\ UNCHANGED <<said, feedRows, told, columns, device, downgrades, deaths>>

\* (Mutant: instructions are only looked for until the mark is there.)
MigratesFeedV2Once ==
  /\ Reaches("feedV2") /\ GoesOn
  /\ IF "feedV2" \in marks THEN UNCHANGED <<told, feedRows>>
     ELSE /\ told' = [x \in Rows |-> IF feedRows[x].by = "user" THEN "clean" ELSE told[x]]
          /\ feedRows' = [x \in Rows |-> IF feedRows[x].by = "user" THEN Absent ELSE feedRows[x]]
  /\ marks' = marks \union {"feedV2"}
  /\ UNCHANGED <<said, columns, device, downgrades, deaths>>
\* migrateFeedV2: at every start instructions become events; once, posts without
\* content get one.
MigratesFeedV2 ==
  /\ Reaches("feedV2") /\ GoesOn
  /\ told' = [x \in Rows |-> IF feedRows[x].by = "user" /\ told[x] = "none" THEN "clean"
                             ELSE told[x]]
  /\ feedRows' = [x \in Rows |->
       CASE feedRows[x].by = "user" -> Absent
         [] feedRows[x].by = "agent" /\ feedRows[x].form = "v1" /\ "feedV2" \notin marks ->
              [feedRows[x] EXCEPT !.form = "v2"]
         [] OTHER -> feedRows[x]]
  /\ marks' = marks \union {"feedV2"}
  /\ UNCHANGED <<said, columns, device, downgrades, deaths>>

\* migrateFeedV3: every post, what cannot be read as a readable card.
MigratesFeedV3 ==
  /\ Reaches("feedV3") /\ GoesOn
  /\ feedRows' = [x \in Rows |->
       IF feedRows[x] # Absent /\ "feedV3" \notin marks
       THEN [feedRows[x] EXCEPT !.form = "v3", !.text = "clean"] ELSE feedRows[x]]
  /\ marks' = marks \union {"feedV3"}
  /\ UNCHANGED <<said, told, columns, device, downgrades, deaths>>

\* migrateInteractionV3 and migrateNotificationResults.
MigratesInteraction ==
  /\ Reaches("interaction") /\ GoesOn
  /\ columns' = IF "interaction" \in marks THEN columns ELSE columns \ {"cardActions", "reviews"}
  /\ marks' = marks \union {"interaction"}
  /\ UNCHANGED <<said, feedRows, told, device, downgrades, deaths>>
AddsColumns ==
  /\ Reaches("columns") /\ GoesOn
  /\ columns' = columns \union {"results"}
  /\ UNCHANGED <<said, feedRows, told, marks, device, downgrades, deaths>>

\* scrubStoredContent, once: the posts that have a content, and every event.
Scrubs ==
  /\ Reaches("scrub") /\ GoesOn
  /\ feedRows' = [x \in Rows |->
       IF "scrub" \notin marks /\ feedRows[x] # Absent /\ feedRows[x].form # "v1"
       THEN [feedRows[x] EXCEPT !.form = "v3", !.text = "clean"] ELSE feedRows[x]]
  /\ told' = [x \in Rows |-> IF told[x] # "none" /\ "scrub" \notin marks THEN "clean"
                             ELSE told[x]]
  /\ marks' = marks \union {"scrub"}
  /\ UNCHANGED <<said, columns, device, downgrades, deaths>>

-----------------------------------------------------------------------------
(* This bridge. *)

\* postFeed and device.permissions.update while it runs.
WritesNew(x) ==
  /\ bridge = "new" /\ feedRows[x] = Absent /\ told[x] = "none"
  /\ feedRows' = [feedRows EXCEPT ![x] =
                    [by |-> "agent", text |-> "clean", form |-> "v3", late |-> FALSE]]
  /\ UNCHANGED <<said, bridge, told, marks, columns, device, downgrades, deaths>>
Chooses ==
  /\ bridge = "new"
  /\ device' = [may |-> FALSE, chosen |-> TRUE]
  /\ UNCHANGED <<said, bridge, feedRows, told, marks, columns, downgrades, deaths>>

\* A bridge stops, or a start dies between two migrations.
Stops ==
  /\ bridge # "off"
  /\ deaths' = IF bridge \in StepNames THEN deaths + 1 ELSE deaths
  /\ deaths' <= MaxDeaths
  /\ bridge' = "off"
  /\ UNCHANGED <<said, feedRows, told, marks, columns, device, downgrades>>

-----------------------------------------------------------------------------
UpgradeNext ==
  \/ StartsNew \/ StartsOld \/ Stops \/ Chooses
  \/ InitializesSchema \/ GrantsPermissions \/ MarksPermissions
  \/ MigratesFeedV2 \/ MigratesFeedV3 \/ MigratesInteraction \/ AddsColumns \/ Scrubs
  \/ \E x \in Rows : WritesOld(x) \/ WritesNew(x)

UpgradeSpec == UpgradeInit /\ [][UpgradeNext]_upgradeVars

\* feedPostFromRow: what the bridge makes of a row that is not as it should be.
Served(x) == IF feedRows[x].form \in {"v3", "v2"} THEN feedRows[x].text ELSE "raw"

(***************************************************************************)
(* Whatever dies in between and however often a person goes back: an       *)
(* instruction is a post or an event and never both nor lost; once this    *)
(* bridge is up none is a post, every post written before the third        *)
(* migration is readable and clean, and a permission a person took away     *)
(* stays away.                                                             *)
(***************************************************************************)
NothingIsLostInUpgrades ==
  /\ \A x \in Rows : x \in said =>
       \/ feedRows[x].by = "user" /\ told[x] = "none"
       \/ feedRows[x].by # "user" /\ told[x] # "none"
  /\ device.chosen => ~device.may
  /\ bridge = "new" =>
       /\ \A x \in Rows : feedRows[x].by # "user"
       /\ \A x \in Rows : feedRows[x] # Absent /\ ~feedRows[x].late
                          => feedRows[x].form = "v3" /\ Served(x) = "clean"
       /\ \A x \in Rows : told[x] # "raw"
       /\ Marks \subseteq marks /\ {"content", "results"} \subseteq columns

\* The same of every post. (It fails for what an older bridge writes later.)
EveryPostIsClean ==
  bridge = "new" => \A x \in Rows : feedRows[x] # Absent => Served(x) = "clean"

=============================================================================
