--------------------------------- MODULE Hosts ---------------------------------
(***************************************************************************)
(* One page and several Macs.  Every Mac has a link and a snapshot of its  *)
(* own; the page shows them merged, with each row marked with the Mac it   *)
(* is of, and sends what a person does with a row by that mark.  A Mac     *)
(* that revokes the page's device, or that a person forgets, leaves the    *)
(* stored credentials in two steps, and what is shown is stored late.      *)
(***************************************************************************)
EXTENDS Naturals, FiniteSets, SequencesExt, Lists

CONSTANTS
  Macs,
  Things,       \* rows of the Macs: sessions, and commands that have failed
  OwnerOf,      \* the Mac whose row it is
  Failed,       \* the commands: what a person does with one names no session
  Old,          \* Macs whose credentials an older page has stored
  MaxActs, MaxTurns   \* turns: a break, a reload or news of a Mac

ASSUME HostsAssumption ==
  /\ IsFiniteSet(Macs)
  /\ OwnerOf \in [Things -> Macs]
  /\ Failed \subseteq Things /\ Old \subseteq Macs

VARIABLES
  stored,       \* the credentials, the Mac that was paired last first
  savedView,        \* the snapshot that is stored, with its marks
  removal,      \* by Mac, the list a removal has read and will write back
  tab,         \* "closed" or "open"
  paired,       \* credentialsValues
  isOpen,         \* whether the Mac's socket is authenticated
  rows,         \* the Mac's own rows
  source,       \* snapshotsByHost
  told,         \* what the Mac has told the page since it gave its first snapshot
  updates,      \* updates of the state that React has not run yet
  onPage,        \* the merged snapshot that was rendered last
  due,          \* the snapshot a timer will store
  requests,       \* what the person has done, and the Mac it is for
  arrived,      \* what came to which Mac
  acts, turns

storeVars == <<stored, savedView, removal>>
linkVars == <<paired, isOpen>>
viewVars == <<source, told, updates, onPage, due>>
actVars == <<requests, arrived>>
hostCounts == <<acts, turns>>
hostVars == <<storeVars, tab, linkVars, rows, viewVars, actVars, hostCounts>>

\* A Mac's own id, or the one readAllCredentials makes up for an older record.
IdOf(h, own) == <<h, own>>
KeptId(h) == IdOf(h, h \notin Old)
HostIds == Macs \X BOOLEAN
Marked == Things \X HostIds
Nothing == {<<"nothing">>}
NoList == <<"no list">>
Empty == [rows |-> {}, id |-> <<"none">>]

HostsTypeOK ==
  /\ stored \in SeqOf(Macs, Len(stored)) /\ paired \in SeqOf(Macs, Len(paired))
  /\ savedView \in (SUBSET Marked) \union {Nothing} /\ due \in (SUBSET Marked) \union {Nothing}
  /\ tab \in {"closed", "open"}
  /\ isOpen \in [Macs -> BOOLEAN]
  /\ rows \in [Macs -> SUBSET Things] /\ told \in [Macs -> SUBSET Things]
  /\ \A h \in Macs : source[h] = Empty \/ source[h].id \in {IdOf(h, b) : b \in BOOLEAN}
  /\ onPage \subseteq Marked
  /\ requests \subseteq Marked /\ arrived \subseteq Things \X Macs

HostsInit ==
  /\ stored = SetToSeq(Macs)
  /\ savedView \in {Nothing, {<<t, KeptId(OwnerOf[t])>> : t \in Things \ Failed}}
  /\ removal = [h \in Macs |-> NoList]
  /\ tab = "closed" /\ paired = <<>>
  /\ isOpen = [h \in Macs |-> FALSE]
  /\ rows = [h \in Macs |-> {t \in Things : OwnerOf[t] = h}]
  /\ source = [h \in Macs |-> Empty] /\ told = [h \in Macs |-> {}]
  /\ updates = <<>> /\ onPage = {} /\ due = Nothing
  /\ requests = {} /\ arrived = {}
  /\ acts = 0 /\ turns = 0

-----------------------------------------------------------------------------
(* What the page shows. *)

\* (Mutant: the rows keep the mark of the Mac that was seen last.)
MergedOfOne(src) ==
  LET some == CHOOSE h \in Macs : src[h] # Empty \/ \A o \in Macs : src[o] = Empty IN
  UNION {{<<t, src[some].id>> : t \in src[h].rows} : h \in Macs}
\* mergeHostSnapshots: every row of every source, marked with the source's Mac.
Merged(src) == UNION {{<<t, src[h].id>> : t \in src[h].rows} : h \in Macs}

\* applyMessage: a snapshot stands for itself, a change is made to what is there
\* under the id the credentials have.
Applied(src, u) ==
  CASE u.type = "snapshot" -> [src EXCEPT ![u.of] = [rows |-> u.rows, id |-> IdOf(u.of, TRUE)]]
    [] u.type = "upsert" ->
         [src EXCEPT ![u.of] = [rows |-> @.rows \union u.rows, id |-> KeptId(u.of)]]
    [] u.type = "removed" ->
         [src EXCEPT ![u.of] = [rows |-> @.rows \ u.rows, id |-> KeptId(u.of)]]
    [] u.type = "revoked" -> src

\* The first update since the last rendering is run at once, the others when React
\* renders; to be shown is to be stored, unless there is nothing.
SetsState(u, src) ==
  IF updates = <<>> THEN source' = Applied(src, u) /\ updates' = <<[u EXCEPT !.run = TRUE]>>
  ELSE source' = src /\ updates' = Append(updates, u)

Update(type, h, ts) == [type |-> type, of |-> h, rows |-> ts, run |-> FALSE]

\* The updates that have not run yet, in their order.
Ran(src, us) ==
  LET ran[n \in 0..Len(us)] ==
        IF n = 0 THEN src
        ELSE IF us[n].run THEN ran[n - 1] ELSE Applied(ran[n - 1], us[n])
  IN  ran[Len(us)]

Renders ==
  LET src == Ran(source, updates) IN
  /\ tab = "open" /\ updates # <<>>
  /\ source' = src /\ updates' = <<>>
  /\ onPage' = Merged(src)
  /\ due' = IF \A h \in Macs : src[h] = Empty THEN due ELSE Merged(src)
  /\ UNCHANGED <<storeVars, tab, linkVars, rows, told, actVars, hostCounts>>

\* The timer of a second and a half.
Persists ==
  /\ tab = "open" /\ due # Nothing
  /\ savedView' = due /\ due' = Nothing
  /\ UNCHANGED <<stored, removal, tab, linkVars, rows, source, told, updates, onPage, actVars,
                 hostCounts>>

-----------------------------------------------------------------------------
(* The page comes and goes. *)

\* What was stored last is shown until something newer comes.
OpensTab ==
  /\ tab = "closed"
  /\ tab' = "open" /\ paired' = stored
  /\ onPage' = IF savedView = Nothing THEN {} ELSE savedView
  /\ due' = savedView
  /\ UNCHANGED <<storeVars, isOpen, rows, source, told, updates, actVars, hostCounts>>

\* Memory, the timer and what had been read for a removal are gone.
LeavesPage ==
  /\ tab' = "closed" /\ paired' = <<>>
  /\ isOpen' = [h \in Macs |-> FALSE]
  /\ source' = [h \in Macs |-> Empty] /\ told' = [h \in Macs |-> {}]
  /\ updates' = <<>> /\ onPage' = {} /\ due' = Nothing
  /\ removal' = [h \in Macs |-> NoList]

Reloads ==
  /\ tab = "open" /\ turns < MaxTurns
  /\ LeavesPage
  /\ turns' = turns + 1
  /\ UNCHANGED <<stored, savedView, rows, actVars, acts>>

-----------------------------------------------------------------------------
(* The links. *)

\* auth.ok: what is in the outbox for this Mac is sent again.
Connects(h) ==
  /\ tab = "open" /\ h \in Range(paired) /\ ~isOpen[h]
  /\ isOpen' = [isOpen EXCEPT ![h] = TRUE]
  /\ arrived' = arrived \union {<<e[1], h>> : e \in {x \in requests : x[2] = KeptId(h)}}
  /\ UNCHANGED <<storeVars, tab, paired, rows, viewVars, requests, hostCounts>>

Breaks(h) ==
  /\ isOpen[h] /\ turns < MaxTurns
  /\ isOpen' = [isOpen EXCEPT ![h] = FALSE]
  /\ turns' = turns + 1
  /\ UNCHANGED <<storeVars, tab, paired, rows, viewVars, actVars, acts>>

\* The bridge's first message, or one the replica asked for.
SnapshotComes(h) ==
  /\ isOpen[h] /\ Len(updates) < 3
  /\ ~\E i \in DOMAIN updates : updates[i].of = h /\ updates[i].type = "snapshot"
  /\ SetsState(Update("snapshot", h, rows[h]), source)
  /\ told' = [told EXCEPT ![h] = rows[h]]
  /\ UNCHANGED <<storeVars, tab, linkVars, rows, onPage, due, actVars, hostCounts>>

\* A row of the Mac comes or goes, and the page is told.
Known(h) == source[h] # Empty \/ \E i \in DOMAIN updates : updates[i].of = h
Tells(h, t) ==
  /\ turns < MaxTurns /\ OwnerOf[t] = h
  /\ turns' = turns + 1
  /\ rows' = [rows EXCEPT ![h] = IF t \in @ THEN @ \ {t} ELSE @ \union {t}]
  /\ IF isOpen[h] /\ Known(h)
     THEN /\ Len(updates) < 3
          /\ SetsState(Update(IF t \in rows[h] THEN "removed" ELSE "upsert", h, {t}), source)
          /\ told' = [told EXCEPT ![h] = IF t \in rows[h] THEN @ \ {t} ELSE @ \union {t}]
     ELSE UNCHANGED <<source, told, updates>>
  /\ UNCHANGED <<storeVars, tab, linkVars, onPage, due, actVars, acts>>

\* 1008: the device is not known there any more.
Revoked(h) ==
  /\ tab = "open" /\ h \in Range(paired) /\ Len(updates) < 3
  /\ isOpen' = [isOpen EXCEPT ![h] = FALSE]
  /\ paired' = Without(paired, {h})
  /\ SetsState(Update("revoked", h, {}), [source EXCEPT ![h] = Empty])
  /\ told' = [told EXCEPT ![h] = {}]
  /\ requests' = {e \in requests : e[2] # KeptId(h)}
  /\ removal' = [removal EXCEPT ![h] = stored]
  /\ UNCHANGED <<stored, savedView, tab, rows, onPage, due, arrived, hostCounts>>

\* removeCredentials has read, and writes what it has read without the Mac.
Removes(h) ==
  /\ tab = "open" /\ removal[h] # NoList
  /\ stored' = Without(removal[h], {h})
  /\ removal' = [removal EXCEPT ![h] = NoList]
  /\ UNCHANGED <<savedView, tab, linkVars, rows, viewVars, actVars, hostCounts>>

-----------------------------------------------------------------------------
(* What the person does. *)

\* commandHostId: by the mark of the session, project, post or action a command
\* names; one that names a command only goes to the first Mac.
RouteOf(m) == IF m[1] \in Failed THEN KeptId(Head(paired)) ELSE m[2]

\* A row that is shown is acted on.  The outbox has it first.
Acts(m) ==
  /\ tab = "open" /\ paired # <<>> /\ m \in onPage /\ acts < MaxActs
  /\ acts' = acts + 1
  /\ LET id == RouteOf(m) IN
     /\ requests' = requests \union {<<m[1], id>>}
     /\ arrived' = arrived \union
          {<<m[1], h>> : h \in {o \in Range(paired) : KeptId(o) = id /\ isOpen[o]}}
  /\ UNCHANGED <<storeVars, tab, linkVars, rows, viewVars, turns>>

\* acknowledge: the Mac the entry is for has done it.
AcknowledgesAct(e, h) ==
  /\ isOpen[h] /\ e \in requests /\ e[2] = KeptId(h)
  /\ OwnerOf[e[1]] = h /\ <<e[1], h>> \in arrived
  /\ requests' = requests \ {e}
  /\ UNCHANGED <<storeVars, tab, linkVars, rows, viewVars, arrived, hostCounts>>

\* forgetHost, its await apart from the rest; nothing else of the kind is under way.
Forgets(h) ==
  /\ tab = "open" /\ h \in Range(paired) /\ turns < MaxTurns
  /\ \A o \in Macs : removal[o] = NoList
  /\ stored' = Without(stored, {h})
  /\ requests' = {e \in requests : e[2] # KeptId(h)}
  /\ LeavesPage
  /\ turns' = turns + 1
  /\ UNCHANGED <<savedView, rows, arrived, acts>>

\* forgetDevice: the credentials and the snapshot, later the rest and the page.
ForgetsAll ==
  /\ tab = "open"
  /\ stored' = <<>> /\ savedView' = Nothing
  /\ UNCHANGED <<removal, tab, linkVars, rows, viewVars, actVars, hostCounts>>
ForgetsTheRest ==
  /\ tab = "open" /\ stored = <<>> /\ turns < MaxTurns
  /\ requests' = {}
  /\ LeavesPage
  /\ turns' = turns + 1
  /\ UNCHANGED <<stored, savedView, rows, arrived, acts>>

-----------------------------------------------------------------------------
HostsNext ==
  \/ OpensTab \/ Reloads \/ Renders \/ Persists \/ ForgetsAll \/ ForgetsTheRest
  \/ \E h \in Macs :
       \/ Connects(h) \/ Breaks(h) \/ SnapshotComes(h) \/ Revoked(h) \/ Removes(h) \/ Forgets(h)
       \/ \E t \in Things : Tells(h, t)
       \/ \E e \in requests : AcknowledgesAct(e, h)
  \/ \E m \in onPage : Acts(m)

HostsSpec == HostsInit /\ [][HostsNext]_hostVars

(***************************************************************************)
(* Rendered, the page shows of every Mac it is paired with exactly what    *)
(* that Mac has told it, in whatever order the Macs' messages came; and    *)
(* what a person does with a session goes to the Mac that has it, or       *)
(* waits for it.                                                           *)
(***************************************************************************)
MacsStayApart ==
  /\ tab = "open" /\ updates = <<>> =>
       \A h \in Range(paired) : source[h] # Empty =>
         {m \in onPage : m[2][1] = h} = {<<t, source[h].id>> : t \in told[h]}
  /\ \A m \in onPage : OwnerOf[m[1]] = m[2][1]
  /\ \A e \in requests : e[1] \notin Failed => e[2][1] = OwnerOf[e[1]]
  /\ \A a \in arrived : a[1] \notin Failed => a[2] = OwnerOf[a[1]]

\* Everything does, a retry of a failed command too. (It fails: README.md:156.)
EverythingGoesHome == \A a \in arrived : a[2] = OwnerOf[a[1]]

\* What is done with a row of a connected Mac reaches it. (It fails for credentials
\* of an older page, whose Mac has another id than its rows.)
ReachesItsMac == \A e \in requests : \E h \in Macs : e[2] = KeptId(h)

\* No row is shown of a Mac that is not paired. (It fails: an update that React
\* has not run puts back what a 1008 has taken away.)
RevokedIsGone ==
  tab = "open" /\ updates = <<>> /\ (\E h \in Macs : source[h] # Empty)
  => \A m \in onPage : m[2][1] \in Range(paired)

\* A Mac that was removed stays removed. (It fails: two removals overlap.)
RemovedStaysRemoved ==
  tab = "open" /\ (\A h \in Macs : removal[h] = NoList)
  => Range(stored) \subseteq Range(paired) \union {h \in Macs : stored = <<>>}

\* Nothing stays of a forgotten device. (It fails: the timer stores it again.)
ForgottenLeavesNothing ==
  tab = "closed" /\ stored = <<>> /\ requests = {} => savedView = Nothing

=============================================================================
