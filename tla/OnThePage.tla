------------------------------- MODULE OnThePage -------------------------------
(***************************************************************************)
(* What the web pages have around the tasks: what the user sets, on the    *)
(* page and at the Mac, the order of the feed's cards, a task's own page,  *)
(* a page with several Macs, and the landing page's waiting list.  None    *)
(* reads what another writes here; a behaviour is one of one part, and the *)
(* others stay as they are.                                                *)
(***************************************************************************)
EXTENDS Preferences, FeedQueue, Timeline, Hosts, Waitlist

VARIABLE area

pagePartVars ==
  <<area, preferenceVars, queueVars, timelineVars, hostVars, waitlistVars>>

\* A part that is not looked at begins in one way only.
Blank ==
  /\ area # "preferences" => about = "settings"
  /\ area # "macs" => savedView = Nothing
  /\ area # "waitlist" =>
       /\ ever = {}
       /\ \A f, g \in Forms : ~form[f].trap /\ form[f].address = form[g].address

PageInit ==
  /\ area \in {"preferences", "feed", "timeline", "macs", "waitlist"}
  /\ PreferenceInit /\ QueueInit /\ TimelineInit /\ HostsInit /\ WaitlistInit
  /\ Blank

OfPreferences ==
  area = "preferences" /\ UNCHANGED <<area, queueVars, timelineVars, hostVars, waitlistVars>>
OfPage ==
  area = "feed" /\ UNCHANGED <<area, preferenceVars, timelineVars, hostVars, waitlistVars>>
OfTimeline ==
  area = "timeline" /\ UNCHANGED <<area, preferenceVars, queueVars, hostVars, waitlistVars>>
OfMacs ==
  area = "macs" /\ UNCHANGED <<area, preferenceVars, queueVars, timelineVars, waitlistVars>>
OfWaitlist ==
  area = "waitlist" /\ UNCHANGED <<area, preferenceVars, queueVars, timelineVars, hostVars>>

PageNext ==
  \/ \E d \in Devices :
       \/ \E v \in BOOLEAN : OfPreferences /\ Set(d, v)
       \/ OfPreferences /\ AskAnew(d)
       \/ OfPreferences /\ Receive(d)
       \/ OfPreferences /\ Admits(d)
       \/ OfPreferences /\ Drop(d)
       \/ OfPreferences /\ Handle(d)
  \/ OfPreferences /\ Forbid
  \/ \E gap \in 1..MaxGap :
       \/ \E p \in Posts, k \in PostKinds : OfPage /\ Posted(p, k, gap)
       \/ OfPage /\ Requested(gap)
       \/ OfPage /\ Queues(gap)
  \/ OfPage /\ Moves(Approval, "pending", "over")
  \/ \E to \in {"failed", "over"} : OfPage /\ Moves(Command, "queued", to)
  \/ OfPage /\ Moves(Command, "failed", "queued")
  \/ OfPage /\ Sees
  \/ OfPage /\ MovesOut
  \/ \E c \in Cards : OfPage /\ Undoes(c)
  \/ \E c \in Cards \union {CaughtUp} : OfPage /\ Scrolls(c)
  \/ OfPage /\ GoesToFresh
  \/ OfPage /\ TakesHint
  \/ OfPage /\ Opens
  \/ \E gap \in Gaps :
       \/ \E k \in SaidKinds : OfTimeline /\ PostComes(k, gap)
       \/ \E x \in Texts : OfTimeline /\ CommandComes(x, gap)
       \/ \E k \in EventKinds, t \in Turns \union {NoTurn} :
            \E x \in SaidIn(k) : OfTimeline /\ EventComes(k, t, x, gap)
  \/ OfTimeline /\ Fires
  \/ OfTimeline /\ MarksSeen
  \/ OfTimeline /\ LosesMac
  \/ OfTimeline /\ Back
  \/ OfTimeline /\ Reopens
  \/ OfMacs /\ OpensTab
  \/ OfMacs /\ Reloads
  \/ OfMacs /\ Renders
  \/ OfMacs /\ Persists
  \/ OfMacs /\ ForgetsAll
  \/ OfMacs /\ ForgetsTheRest
  \/ \E h \in Macs :
       \/ OfMacs /\ Connects(h)
       \/ OfMacs /\ Breaks(h)
       \/ OfMacs /\ SnapshotComes(h)
       \/ OfMacs /\ Revoked(h)
       \/ OfMacs /\ Removes(h)
       \/ OfMacs /\ Forgets(h)
       \/ \E t \in Things : OfMacs /\ Tells(h, t)
       \/ \E e \in requests : OfMacs /\ AcknowledgesAct(e, h)
  \/ \E m \in onPage : OfMacs /\ Acts(m)
  \/ \E f \in Forms :
       \/ OfWaitlist /\ Submits(f)
       \/ OfWaitlist /\ PageHears(f)
       \/ OfWaitlist /\ BreaksForm(f)
       \/ OfWaitlist /\ Declines(f)
       \/ OfWaitlist /\ Looks(f)
       \/ OfWaitlist /\ Inserts(f)
       \/ OfWaitlist /\ Throws(f)
  \/ OfWaitlist /\ Switches
  \/ OfWaitlist /\ TimePasses
  \/ OfWaitlist /\ SweepsInactive
  \/ OfWaitlist /\ SweepsActive

\* The Mac, the phone and the network go on, timers fire, the daily trigger comes.
GoesOn ==
  \/ \E d \in Devices : OfPreferences /\ (Admits(d) \/ Receive(d) \/ Handle(d))
  \/ OfTimeline /\ (Fires \/ MarksSeen \/ Back)
  \/ OfWaitlist /\ (SweepsInactive \/ SweepsActive)

PageFairness == WF_pagePartVars(GoesOn)

PageSpec == PageInit /\ [][PageNext]_pagePartVars /\ PageFairness

(***************************************************************************)
(* What a person has done comes to rest, however often the connection      *)
(* breaks.  A setting that can be replaced is answered in the end and      *)
(* leaves the page's outbox; the mark of what was read of a task is the    *)
(* item on top, unless there was no connection when the page wanted to say *)
(* so; and after the ninety days no address is on the waiting list, not    *)
(* that of a late sign-up either.                                          *)
(***************************************************************************)
ComesToRest == []<>(
  /\ OutboxesAreEmpty
  /\ SeenIsSettled
  /\ time = "over" => ListIsEmpty)

=============================================================================
