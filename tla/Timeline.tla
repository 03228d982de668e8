------------------------------- MODULE Timeline -------------------------------
(***************************************************************************)
(* A task's page: its posts, the person's commands and the agent's events  *)
(* as one list, in which an event goes under a post or a command where     *)
(* there is one for it, and the mark of how far the person has read, which *)
(* the page sends a second after something is on top.                      *)
(***************************************************************************)
EXTENDS Integers, Sequences, SequencesExt, Lists

CONSTANTS
  SaidKinds, EventKinds,
  Turns, NoTurn,    \* the turns a provider names, and none
  Texts,            \* what a person can say
  Gaps,             \* how much later a thing comes than the one before
  Nearby, Reach,    \* how near a result covers its event; how near an event joins
  MaxThings, MaxCuts

ASSUME TimelineAssumption ==
  /\ NoTurn \notin Turns
  /\ Turns \intersect Nat = {} \* an event's id is a new UUID or a hash, no turn's
  /\ Gaps \subseteq Nat \ {0} /\ Nearby \in Nat /\ Reach \in Nat

VARIABLES
  clock,
  postsOf, commandsOf, eventsOf,    \* what the page has of the task, oldest first
  mark,         \* task_timeline_cursors: the item this device has seen
  pageMark,     \* what the page knows of it
  top,          \* the name of the item on top
  effect,       \* its timer: idle, armed, fired, or fired in vain
  sending,      \* the item the Mac is being told of
  joined, cuts

shownVars == <<clock, postsOf, commandsOf, eventsOf, top>>
timelineVars ==
  <<shownVars, mark, pageMark, effect, sending, joined, cuts>>

NoMark == <<"none">>
NoText == ""
Arrivals == Len(postsOf) + Len(commandsOf) + Len(eventsOf)

-----------------------------------------------------------------------------
(* buildTaskTimeline. *)

Apart(a, b) == IF a > b THEN a - b ELSE b - a

\* eventCoveredByAgentPost.
CoveredBy(e, ps) ==
  \E i \in DOMAIN ps :
    /\ <<e.kind, ps[i].kind>> \in {<<"completed", "result">>, <<"failed", "failure">>}
    /\ Apart(e.at, ps[i].at) <= Nearby

\* The events that have a label and no post of their own, by their place.
ShownEvents(ps, es) == {i \in DOMAIN es : es[i].kind # "other" /\ ~CoveredBy(es[i], ps)}

\* groupEventsByTurn: what has no turn is of the last instruction that has none.
TurnOf(es, shown, i) ==
  IF es[i].turn # NoTurn THEN <<"provider", es[i].turn>>
  ELSE <<"legacy", Cardinality({j \in shown :
         j <= i /\ es[j].turn = NoTurn /\ es[j].kind = "instruction"})>>
GroupOf(es, shown, i) == {j \in shown : TurnOf(es, shown, j) = TurnOf(es, shown, i)}

\* The item of a post, a command or a turn.
ItemOf(type, id, at, own, under, names) ==
  [type |-> type, id |-> id, at |-> at, own |-> own, under |-> under, names |-> names]
EventNames(group) == {<<"event", i>> : i \in group}
Primary(ps, cs) ==
  [i \in DOMAIN ps |-> ItemOf("post", i, ps[i].at, {}, {}, {<<"post", i>>})] \o
  [i \in DOMAIN cs |-> ItemOf("command", i, cs[i].at, {}, {}, {<<"command", i>>})]

\* The nearest of some items, the first of those that are as near.
Nearest(items, some, at) ==
  CHOOSE n \in some : \A o \in some :
    \/ Apart(items[n].at, at) < Apart(items[o].at, at)
    \/ Apart(items[n].at, at) = Apart(items[o].at, at) /\ n <= o
Under(items, n, details, group) ==
  [items EXCEPT ![n].under = @ \union details, ![n].names = @ \union EventNames(group)]

Told(es, group) == {i \in group : es[i].kind = "instruction"}

\* (Mutant: a turn the nearest item is too far from is left out.)
PlacedNear(cs, es, items, group) ==
  LET last == Max(group)
      near == Nearest(items, DOMAIN items, es[last].at)
  IN IF Told(es, group) = {} /\ items # <<>>
     THEN IF Apart(items[near].at, es[last].at) <= Reach
          THEN Under(items, near, group, group) ELSE items
     ELSE Append(items, ItemOf("turn", <<"turn", last>>, es[last].at,
                               {last}, group \ {last}, EventNames(group)))

\* A turn of its own, named for one of its events.
AddTurn(es, items, i, group) ==
  LET id == <<"turn", IF es[i].turn # NoTurn THEN es[i].turn ELSE i>>
  IN  Append(items, ItemOf("turn", id, es[i].at, {i}, group \ {i}, {id} \union EventNames(group)))

\* A group's events join the command of the same words, or are a turn, or join what
\* is nearest if it is near enough.
Placed(cs, es, items, group) ==
  LET told == Told(es, group)
      first == Min(told)
      same == {n \in DOMAIN items : /\ items[n].type = "command"
                                    /\ cs[items[n].id].text = es[first].text}
      last == Max(group)
      near == Nearest(items, DOMAIN items, es[last].at)
  IN CASE told # {} /\ same # {} ->
            Under(items, Nearest(items, same, es[first].at), group \ {first}, group)
       [] told # {} /\ same = {} -> AddTurn(es, items, first, group)
       [] told = {} /\ items # <<>> /\ Apart(items[near].at, es[last].at) <= Reach ->
            Under(items, near, group, group)
       [] OTHER -> AddTurn(es, items, last, group)

\* The posts and the commands, and then the turns, each placed with its first event.
ItemsOf(ps, cs, es) ==
  LET shown == ShownEvents(ps, es)
      placed[n \in 0..Len(es)] ==
        IF n = 0 THEN Primary(ps, cs)
        ELSE IF n \in shown /\ \A j \in GroupOf(es, shown, n) : n <= j
        THEN Placed(cs, es, placed[n - 1], GroupOf(es, shown, n)) ELSE placed[n - 1]
  IN  placed[Len(es)]

\* The list, the newest first, and of two of one time the first.
NewestFirst(items) ==
  {p \in (DOMAIN items) \X (DOMAIN items) :
     \/ items[p[1]].at > items[p[2]].at
     \/ items[p[1]].at = items[p[2]].at /\ p[1] < p[2]}
TimelineOf(ps, cs, es) ==
  LET items == ItemsOf(ps, cs, es)
      order == Sorted(DOMAIN items, NewestFirst(items))
  IN  [n \in DOMAIN items |-> items[order[n]]]

ItemsNow == TimelineOf(postsOf, commandsOf, eventsOf)
NameOf(item) == IF item.type = "turn" THEN item.id ELSE <<item.type, item.id>>
TopOf(items) == IF items = <<>> THEN NoMark ELSE NameOf(items[1])
\* Items above the mark, or all of them if no item has that name any more.
Unread ==
  LET items == ItemsNow
      at == {n \in DOMAIN items : pageMark \in items[n].names} IN
  IF pageMark = TopOf(items) THEN 0
  ELSE IF at = {} THEN Len(items) ELSE (CHOOSE n \in at : \A o \in at : n <= o) - 1

-----------------------------------------------------------------------------
TimelineTypeOK ==
  /\ \A i \in DOMAIN postsOf : postsOf[i].kind \in SaidKinds
  /\ \A i \in DOMAIN commandsOf : commandsOf[i].text \in Texts
  /\ \A i \in DOMAIN eventsOf :
       eventsOf[i].kind \in EventKinds /\ eventsOf[i].turn \in Turns \union {NoTurn}
  /\ effect \in {"idle", "armed", "fired", "lost"} /\ joined \in BOOLEAN

TimelineInit ==
  /\ clock = 0 /\ cuts = 0
  /\ postsOf = <<>> /\ commandsOf = <<>> /\ eventsOf = <<>>
  /\ mark = NoMark /\ pageMark = NoMark /\ sending = NoMark
  /\ effect = "idle" /\ joined = TRUE /\ top = NoMark

\* The effect runs again when the item on top or the mark has changed.
Rerun(name, seen) == IF name = NoMark \/ name = seen THEN "idle" ELSE "armed"
Adds(ps, cs, es, gap) ==
  /\ Arrivals < MaxThings
  /\ clock' = clock + gap
  /\ postsOf' = ps /\ commandsOf' = cs /\ eventsOf' = es
  /\ top' = TopOf(TimelineOf(ps, cs, es))
  /\ effect' = IF top' = top THEN effect ELSE Rerun(top', pageMark)
  /\ UNCHANGED <<mark, pageMark, sending, joined, cuts>>

\* The snapshot has one post, command or event more.
PostComes(k, gap) ==
  Adds(Append(postsOf, [kind |-> k, at |-> clock + gap]), commandsOf, eventsOf, gap)
CommandComes(x, gap) ==
  Adds(postsOf, Append(commandsOf, [text |-> x, at |-> clock + gap]), eventsOf, gap)
EventComes(k, t, x, gap) ==
  Adds(postsOf, commandsOf,
       Append(eventsOf, [kind |-> k, turn |-> t, text |-> x, at |-> clock + gap]), gap)

\* The timer: the item on top is sent, if there is a connection; it is not kept.
Fires ==
  /\ effect = "armed" /\ sending = NoMark
  /\ effect' = IF joined THEN "fired" ELSE "lost"
  /\ sending' = IF joined THEN top ELSE NoMark
  /\ UNCHANGED <<shownVars, mark, pageMark, joined, cuts>>

\* markTaskTimelineSeen, and task.timeline.seen.updated for the page.
\* (Mutant: a device's first mark stays.)
MarksOnce(item) == mark' = IF mark = NoMark THEN item ELSE mark
Marks(item) == mark' = item
MarksSeen ==
  /\ sending # NoMark
  /\ Marks(sending)
  /\ pageMark' = sending /\ sending' = NoMark
  /\ effect' = IF pageMark' = pageMark THEN effect ELSE Rerun(top, pageMark')
  /\ UNCHANGED <<shownVars, joined, cuts>>

\* The connection goes, with what was on the way, and comes back with a snapshot.
LosesMac ==
  /\ joined /\ cuts < MaxCuts
  /\ joined' = FALSE /\ cuts' = cuts + 1
  /\ effect' = IF effect = "fired" THEN "lost" ELSE effect
  /\ sending' = NoMark
  /\ UNCHANGED <<shownVars, mark, pageMark>>
Back ==
  /\ ~joined
  /\ joined' = TRUE /\ pageMark' = mark
  /\ effect' = IF pageMark' = pageMark THEN effect ELSE Rerun(top, pageMark')
  /\ UNCHANGED <<shownVars, mark, sending, cuts>>

\* The page is left and opened again.
Reopens ==
  /\ effect = "lost"
  /\ effect' = Rerun(top, pageMark)
  /\ UNCHANGED <<shownVars, mark, pageMark, sending, joined, cuts>>

-----------------------------------------------------------------------------
\* Only an instruction says something.
SaidIn(k) == IF k = "instruction" THEN Texts ELSE {NoText}

TimelineNext ==
  \/ \E gap \in Gaps :
       \/ \E k \in SaidKinds : PostComes(k, gap)
       \/ \E x \in Texts : CommandComes(x, gap)
       \/ \E k \in EventKinds, t \in Turns \union {NoTurn} :
            \E x \in SaidIn(k) : EventComes(k, t, x, gap)
  \/ Fires \/ MarksSeen \/ LosesMac \/ Back \/ Reopens

\* Timers fire and the Mac answers; a person need not come back.
TimelineFairness ==
  /\ WF_timelineVars(Fires) /\ WF_timelineVars(MarksSeen \/ Back)

TimelineSpec == TimelineInit /\ [][TimelineNext]_timelineVars /\ TimelineFairness

(***************************************************************************)
(* Every post and every command is an item of its own; every event that    *)
(* has a label, and no post that says the same, is in exactly one item, as *)
(* its own, under it or as the words of its command; no name is two        *)
(* items'; and what joins an item is near it or of its turn.               *)
(***************************************************************************)
TimelineIsWhole ==
  LET items == ItemsNow
      shown == ShownEvents(postsOf, eventsOf)
      With(name) == {n \in DOMAIN items : name \in items[n].names}
      One(s) == \E n \in s : s = {n}
  IN /\ \A i \in DOMAIN postsOf : One(With(<<"post", i>>))
     /\ \A i \in DOMAIN commandsOf : One(With(<<"command", i>>))
     /\ \A i \in DOMAIN eventsOf :
          IF i \in shown THEN One(With(<<"event", i>>)) ELSE With(<<"event", i>>) = {}
     /\ \A m, n \in DOMAIN items : items[m].names \intersect items[n].names # {} => m = n
     /\ \A n \in DOMAIN items : \A i \in items[n].own \union items[n].under :
          <<"event", i>> \in items[n].names
     /\ \A n \in DOMAIN items : \A i \in shown : <<"event", i>> \in items[n].names =>
          \/ i \in items[n].own \union items[n].under
          \/ items[n].type = "command" /\ eventsOf[i].text = commandsOf[items[n].id].text

(***************************************************************************)
(* When nothing more comes the device's mark is the item on top, unless    *)
(* the connection was gone when the page wanted to say so.                 *)
(***************************************************************************)
SeenIsSettled == top = NoMark \/ mark = top \/ effect = "lost"
SeenSettles == <>[]SeenIsSettled

\* What was read stays read when something else comes. (It fails: the name of a
\* turn changes or its item joins another.)
ReadStaysRead ==
  [][pageMark = top /\ pageMark' = pageMark /\ Arrivals' = Arrivals + 1
     => Unread' <= 1]_timelineVars

\* Each instruction of the person has an item at its time. (It fails: an old command
\* of the same words takes it in.)
InstructionsHaveTheirPlace ==
  LET items == ItemsNow IN
  \A i \in ShownEvents(postsOf, eventsOf) : eventsOf[i].kind = "instruction" =>
    \E n \in DOMAIN items :
      <<"event", i>> \in items[n].names /\ Apart(items[n].at, eventsOf[i].at) <= Reach

=============================================================================
