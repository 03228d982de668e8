-------------------------------- MODULE Projects --------------------------------
(***************************************************************************)
(* Which project a place belongs to.  Git is asked about a directory once  *)
(* a process and may fail to answer; projects are found by the path of a   *)
(* known location or by the repository's identity; agents' sessions move   *)
(* about; what they publish and what people order keep a project's id.     *)
(* At every start an older database is brought up to date, and a crash may *)
(* fall between any two statements of that.                                *)
(***************************************************************************)
EXTENDS Naturals, FiniteSets

CONSTANTS
  Places,       \* the directories agents work in
  Temporary,    \* those of them that only live as long as a task
  Root,         \* the top of the repository a place lies in, or the place
  Repo,         \* the repository whose clone a top is, or NoRepo
  NoRepo, Nowhere,
  Remote,       \* the tops whose repository has a remote
  Sessions,
  Notes,        \* posts
  Orders,       \* new tasks people order
  MaxProjects, MaxFailures, MaxProjectRestarts

ASSUME ProjectAssumption ==
  /\ Temporary \subseteq Places
  /\ Nowhere \notin Places \union Sessions
  /\ Remote \subseteq Places
  /\ Root \in [Places -> Places]
  /\ \A p \in Places :
       /\ Root[Root[p]] = Root[p]
       /\ Root[p] \in Temporary => p \in Temporary
       /\ Repo[p] = Repo[Root[p]]
       /\ Repo[p] = NoRepo => Root[p] = p

ASSUME ProjectBounds == {MaxProjects, MaxFailures, MaxProjectRestarts} \subseteq Nat

VARIABLES
  failures,     \* how often git did not answer
  knows,        \* what this process remembers of a place: projectCache
  identity,     \* projects.identity_key, by id
  home,         \* project_locations: the project of a path
  newest,       \* the location of a project that was seen last: primaryPath
  cwd, owner,   \* sessions.cwd, sessions.project_id
  note,         \* feed_posts: of which session, under which project
  order,        \* task_commands: workspace_id, cwd and state
  backfilled,   \* metadata: project_backfill_v1
  starting,     \* where the start of the process has got to
  todo,         \* the sessions the backfill has read and not yet seen to
  projectRestarts

projectVars ==
  <<failures, knows, identity, home, newest, cwd, owner, note, order, backfilled,
    starting, todo, projectRestarts>>
startVars == <<backfilled, starting, todo, projectRestarts>>
rowVars == <<identity, home, newest>>

\* The projects this bridge makes, and one an older bridge has made.
Legacy == MaxProjects + 1
Ids == 1..Legacy
None == 0
Keys == ({"remote", "commit"} \X {Repo[p] : p \in Places}) \union ({"path"} \X Places)
Unmade == <<"unmade">>
Gone == <<"gone">>
NoKey == <<"null">>
Unasked == <<"unasked">>
NoContext == <<"none">>
Unwritten == [of |-> Nowhere, under |-> None]
Unsent == [at |-> None, cwd |-> Nowhere, state |-> "none"]
OldWorkspace == MaxProjects + 2

Live == {n \in Ids : identity[n] \notin {Unmade, Gone}}

ProjectTypeOK ==
  /\ knows \in [Places -> Keys \union {Unasked, NoContext}]
  /\ identity \in [Ids -> Keys \union {Unmade, Gone, NoKey}]
  /\ home \in [Places -> Ids \union {None}]
  /\ newest \in [Ids -> Places \union {Nowhere}]
  /\ cwd \in [Sessions -> Places \union {Nowhere}]
  /\ owner \in [Sessions -> Ids \union {None}]
  /\ note \in [Notes -> [of : Sessions \union {Nowhere}, under : Ids \union {None}]]
  /\ order \in [Orders -> [at : Ids \union {None, OldWorkspace}, cwd : Places \union {Nowhere},
                           state : {"none", "queued", "failed"}]]
  /\ starting \in {"sessions", "posts", "commands", "mark", "clean", "up"}
  /\ todo \subseteq Sessions

\* An older bridge's sessions: what it knew of projects it wrote on the posts too.
OldRows ==
  \/ /\ ~backfilled
     /\ home = [p \in Places |-> None]
     /\ identity = [n \in Ids |-> Unmade]
     /\ owner = [s \in Sessions |-> None]
  \/ /\ backfilled
     /\ \E p \in Places :
          /\ home = [q \in Places |-> IF q = p THEN Legacy ELSE None]
          /\ cwd = [s \in Sessions |-> p]
     /\ identity = [n \in Ids |-> IF n = Legacy THEN NoKey ELSE Unmade]
     /\ owner = [s \in Sessions |-> Legacy]

ProjectInit ==
  /\ failures = 0 /\ projectRestarts = 0
  /\ knows = [p \in Places |-> Unasked]
  /\ backfilled \in BOOLEAN
  /\ \E p \in Places \union {Nowhere} : cwd = [s \in Sessions |-> p]
  /\ home \in [Places -> {None, Legacy}]
  /\ identity \in [Ids -> {Unmade, NoKey}]
  /\ owner \in [Sessions -> {None, Legacy}]
  /\ OldRows
  /\ newest = [n \in Ids |-> IF n = Legacy /\ backfilled
                             THEN CHOOSE p \in Places : home[p] = n ELSE Nowhere]
  /\ note \in [Notes -> {Unwritten} \union {[of |-> s, under |-> owner[s]] : s \in Sessions}]
  /\ \E p \in Places \union {Nowhere} : order = [o \in Orders |->
       IF p = Nowhere THEN Unsent
       ELSE [at |-> IF home[p] = Legacy THEN Legacy ELSE OldWorkspace,
             cwd |-> p, state |-> "queued"]]
  /\ starting = "sessions"
  /\ todo = {s \in Sessions : cwd[s] # Nowhere /\ owner[s] = None}

-----------------------------------------------------------------------------
(* Asking git. *)

\* gitIdentityKey and projectContextForCwd when every call of git comes back.
Truth(p) ==
  CASE Repo[p] = NoRepo -> NoContext
    [] Root[p] \in Remote -> <<"remote", Repo[p]>>
    [] OTHER -> <<"commit", Repo[p]>>

\* A call that takes longer than a second counts as no answer.
GitSays(p) ==
  {Truth(p)} \union
  IF failures < MaxFailures /\ Repo[p] # NoRepo
  THEN {NoContext, <<"commit", Repo[p]>>, <<"path", Root[p]>>} ELSE {}

\* projectContextForCwd, kept for the life of the process.
Context(p) == IF knows[p] = Unasked THEN GitSays(p) ELSE {knows[p]}

Remember(p, c) ==
  /\ knows' = [knows EXCEPT ![p] = c]
  /\ failures' = IF knows[p] = Unasked /\ c # Truth(p) THEN failures + 1 ELSE failures

\* ephemeralWorkspaceKind: scratch directories, worktrees and sandboxes of the agents.
Ephemeral(p) == p \in Temporary

\* persistableProjectForCwd: the location and the identity.
Location(p, c) == IF c = NoContext THEN p ELSE Root[p]
KeyOf(p, c) == IF c = NoContext THEN <<"path", p>> ELSE c
Persistable(p, c) == ~Ephemeral(p) /\ ~Ephemeral(Location(p, c))

Matches(k) == {n \in Live : identity[n] = k}
Fresh ==
  {n \in Ids : /\ identity[n] = Unmade /\ n # Legacy
               /\ \A m \in Ids : identity[m] = Unmade => n <= m}
OrNone(ns) == IF ns = {} THEN {None} ELSE ns

\* The project ensureProjectForCwd finds or makes.
Found(p, c) ==
  CASE Ephemeral(p) -> OrNone(IF c = NoContext THEN {} ELSE Matches(c))
    [] ~Ephemeral(p) /\ ~Persistable(p, c) -> {None}
    [] OTHER -> LET l == Location(p, c) IN
                IF home[l] # None THEN {home[l]}
                ELSE IF Matches(KeyOf(p, c)) # {} THEN Matches(KeyOf(p, c)) ELSE Fresh

\* ensureProjectForCwd writes its row and its location.
KeepsPlace(p, c, n) ==
  IF n = None \/ ~Persistable(p, c) THEN UNCHANGED rowVars
  ELSE LET l == Location(p, c) IN
       /\ identity' = [identity EXCEPT ![n] = IF @ \in {Unmade, NoKey} THEN KeyOf(p, c) ELSE @]
       /\ home' = [home EXCEPT ![l] = n]
       /\ newest' \in {[newest EXCEPT ![n] = l]} \union
                      (IF newest[n] = Nowhere THEN {} ELSE {newest})

-----------------------------------------------------------------------------
(* While the bridge runs. *)

\* upsertSession: s is seen at p by someone who holds project h for it.
Upsert(s, p, h) ==
  \E c \in IF p = Nowhere THEN {NoContext} ELSE Context(p) :
  \E n \in IF p = Nowhere THEN {None} ELSE Found(p, c) :
    LET given == IF Ephemeral(p) \/ h = None THEN n ELSE h IN
    /\ IF p = Nowhere THEN UNCHANGED <<knows, failures, rowVars>>
       ELSE Remember(p, c) /\ KeepsPlace(p, c, n)
    /\ cwd' = [cwd EXCEPT ![s] = IF p = Nowhere THEN @ ELSE p]
    /\ owner' = [owner EXCEPT ![s] = IF p = Nowhere /\ given = None THEN @ ELSE given]
    /\ note' = [x \in Notes |->
         IF given # None /\ note[x].of = s /\ note[x].under = None
         THEN [note[x] EXCEPT !.under = given] ELSE note[x]]

\* A hook, a transcript or a tool call: it knows the session's place at most.
Hears(s, p) ==
  /\ starting = "up"
  /\ Upsert(s, p, None)
  /\ UNCHANGED <<order, startVars>>

\* A scan, an executor or an event: it writes back the row it has read.
Follows(s, p) ==
  /\ starting = "up" /\ cwd[s] # Nowhere
  /\ Upsert(s, p, owner[s])
  /\ UNCHANGED <<order, startVars>>

\* insertFeedPost, a new row or one that swallows a recent one of the task.
Publishes(x, s) ==
  /\ starting = "up" /\ note[x].of \in {s, Nowhere}
  /\ note' = [note EXCEPT ![x] = [of |-> s, under |-> owner[s]]]
  /\ UNCHANGED <<failures, knows, rowVars, cwd, owner, order, startVars>>

\* workspaces: the projects that have a location.
Workspace(n) == n \in Live /\ newest[n] # Nowhere

\* TaskCommandService.create, in a workspace or in what was one.
Creates(o, n) ==
  /\ starting = "up" /\ order[o] = Unsent /\ identity[n] # Unmade
  /\ order' = [order EXCEPT ![o] =
       [at |-> n, cwd |-> newest[n],
        state |-> IF Workspace(n) THEN "queued" ELSE "failed"]]
  /\ UNCHANGED <<failures, knows, rowVars, cwd, owner, note, startVars>>

\* The runner gives up.
Fails(o) ==
  /\ starting = "up" /\ order[o].state = "queued"
  /\ order' = [order EXCEPT ![o].state = "failed"]
  /\ UNCHANGED <<failures, knows, rowVars, cwd, owner, note, startVars>>

\* TaskCommandService.retry of a new task.
Retries(o) ==
  /\ starting = "up" /\ order[o].state = "failed"
  /\ Workspace(order[o].at)
  /\ order' = [order EXCEPT ![o].state = "queued"]
  /\ UNCHANGED <<failures, knows, rowVars, cwd, owner, note, startVars>>

-----------------------------------------------------------------------------
(* The start. *)

\* The process ends and begins again; the migration starts over.
Restarts ==
  /\ projectRestarts < MaxProjectRestarts
  /\ projectRestarts' = projectRestarts + 1
  /\ knows' = [p \in Places |-> Unasked]
  /\ starting' = IF backfilled THEN "clean" ELSE "sessions"
  /\ todo' = {s \in Sessions : cwd[s] # Nowhere /\ owner[s] = None}
  /\ UNCHANGED <<failures, rowVars, cwd, owner, note, order, backfilled>>

\* backfillProjects: one session.
BackfillsSession(s) ==
  /\ starting = "sessions" /\ ~backfilled /\ s \in todo
  /\ todo' = todo \ {s}
  /\ IF cwd[s] = Nowhere \/ owner[s] # None
     THEN UNCHANGED <<knows, failures, rowVars, owner>>
     ELSE \E c \in Context(cwd[s]) : \E n \in Found(cwd[s], c) :
            /\ Remember(cwd[s], c) /\ KeepsPlace(cwd[s], c, n)
            /\ owner' = [owner EXCEPT ![s] = n]
  /\ UNCHANGED <<cwd, note, order, backfilled, starting, projectRestarts>>

SessionsAreDone ==
  /\ starting = "sessions" /\ (backfilled \/ todo = {})
  /\ starting' = IF backfilled THEN "clean" ELSE "posts"
  /\ todo' = {}
  /\ UNCHANGED <<failures, knows, rowVars, cwd, owner, note, order, backfilled, projectRestarts>>

BackfillsPosts ==
  /\ starting = "posts"
  /\ note' = [x \in Notes |-> IF note[x].of # Nowhere /\ note[x].under = None
                              THEN [note[x] EXCEPT !.under = owner[note[x].of]] ELSE note[x]]
  /\ starting' = "commands"
  /\ UNCHANGED <<failures, knows, rowVars, cwd, owner, order, backfilled, todo, projectRestarts>>

BackfillsCommands ==
  /\ starting = "commands"
  /\ order' = [o \in Orders |-> IF order[o].cwd # Nowhere /\ home[order[o].cwd] # None
                                THEN [order[o] EXCEPT !.at = home[order[o].cwd]] ELSE order[o]]
  /\ starting' = "mark"
  /\ UNCHANGED <<failures, knows, rowVars, cwd, owner, note, backfilled, todo, projectRestarts>>

MarksBackfilled ==
  /\ starting = "mark"
  /\ backfilled' = TRUE /\ starting' = "clean"
  /\ UNCHANGED <<failures, knows, rowVars, cwd, owner, note, order, todo, projectRestarts>>

\* Projects no location is left of.
Orphans(h) == {n \in Live : \A p \in Places : h[p] # n}

\* (Mutant: the commands keep the id of a project that is removed.)
CleansUpRowsOnly ==
  LET left == [p \in Places |-> IF Ephemeral(p) THEN None ELSE home[p]]
      gone == IF left = home THEN {} ELSE Orphans(left)
  IN /\ starting = "clean"
     /\ home' = left
     /\ identity' = [n \in Ids |-> IF n \in gone THEN Gone ELSE identity[n]]
     /\ newest' = [n \in Ids |-> IF n \in gone THEN Nowhere ELSE newest[n]]
     /\ owner' = [s \in Sessions |-> IF owner[s] \in gone THEN None ELSE owner[s]]
     /\ note' = [x \in Notes |-> IF note[x].under \in gone
                                 THEN [note[x] EXCEPT !.under = None] ELSE note[x]]
     /\ starting' = "up"
     /\ UNCHANGED <<failures, knows, cwd, order, backfilled, todo, projectRestarts>>
\* cleanupEphemeralProjects, one transaction; sessions and posts follow by their
\* foreign keys, commands by hand.
CleansUp ==
  LET left == [p \in Places |-> IF Ephemeral(p) THEN None ELSE home[p]]
      gone == IF left = home THEN {} ELSE Orphans(left)
      Off(n) == IF n \in gone THEN None ELSE n
  IN /\ starting = "clean"
     /\ home' = left
     /\ identity' = [n \in Ids |-> IF n \in gone THEN Gone ELSE identity[n]]
     /\ newest' \in {f \in [Ids -> Places \union {Nowhere}] :
          \A n \in Ids :
            IF newest[n] # Nowhere /\ left[newest[n]] = n THEN f[n] = newest[n]
            ELSE IF \E p \in Places : left[p] = n THEN f[n] # Nowhere /\ left[f[n]] = n
            ELSE f[n] = Nowhere}
     /\ owner' = [s \in Sessions |-> Off(owner[s])]
     /\ note' = [x \in Notes |-> [note[x] EXCEPT !.under = Off(@)]]
     /\ order' = [o \in Orders |-> [order[o] EXCEPT !.at = Off(@)]]
     /\ starting' = "up"
     /\ UNCHANGED <<failures, knows, cwd, backfilled, todo, projectRestarts>>

-----------------------------------------------------------------------------
ProjectNext ==
  \/ \E s \in Sessions :
       \/ \E p \in Places \union {Nowhere} : Hears(s, p) \/ Follows(s, p)
       \/ \E x \in Notes : Publishes(x, s)
       \/ BackfillsSession(s)
  \/ \E o \in Orders :
       \/ \E n \in Ids : Creates(o, n)
       \/ Fails(o)
       \/ Retries(o)
  \/ Restarts
  \/ SessionsAreDone \/ BackfillsPosts \/ BackfillsCommands \/ MarksBackfilled
  \/ CleansUp

ProjectSpec == ProjectInit /\ [][ProjectNext]_projectVars

(***************************************************************************)
(* Once the bridge is up: no two projects it made share an identity; every *)
(* project has a location, its newest among them, and no location is       *)
(* temporary; what sessions, posts and unfailed orders refer to exists;    *)
(* and a session that has a project has no post without one.               *)
(***************************************************************************)
ProjectsAreWhole ==
  starting = "up" =>
    /\ \A m, n \in Live : identity[m] = identity[n] => m = n \/ Legacy \in {m, n}
    /\ \A n \in Live : newest[n] # Nowhere /\ home[newest[n]] = n
    /\ \A p \in Places : home[p] # None => home[p] \in Live /\ p \notin Temporary
    /\ \A s \in Sessions : owner[s] # None => owner[s] \in Live
    /\ \A x \in Notes :
         /\ note[x].under # None => note[x].under \in Live
         /\ note[x].of # Nowhere /\ owner[note[x].of] # None => note[x].under # None
    /\ \A o \in Orders :
         order[o].state = "queued" => order[o].at \in Live \union {None, OldWorkspace}

\* Two clones of a repository are one project. (It fails: see the README.)
ClonesShareAProject ==
  \A p, q \in Places :
    /\ home[p] # None /\ home[q] # None
    /\ Root[p] = p /\ Root[q] = q /\ Repo[p] = Repo[q] /\ Repo[p] # NoRepo
    => home[p] = home[q]

=============================================================================
