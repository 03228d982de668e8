----------------------------- MODULE WebPageProofs -----------------------------
(***************************************************************************)
(* Proofs about the web client, for any Macs, devices, commands, bounds.   *)
(* Sections 1 and 3 to 7 each state an inductive invariant of one part,    *)
(* show that it holds at first, that every step keeps it and that it       *)
(* implies the part's property; section 8 carries 3 to 7 over to the       *)
(* specification in which the parts around the tasks are looked at         *)
(* together.                                                               *)
(*                                                                         *)
(*  1. Links and outbox. What is shown depends on each controller knowing  *)
(*     of its authenticated socket; that a paused controller is told of    *)
(*     the network depends on the last event on its way saying what the    *)
(*     network is by then.                                                 *)
(*  2. Lists. Recursive functions, by induction up to a number, and sets   *)
(*     listed in an order, by their cardinality.                           *)
(*  3. Preferences. The last thing a device is told is what the Mac has;   *)
(*     the keys it waits for, has sent and the Mac knows are in one order. *)
(*  4. Several Macs. What the page would show, were all updates run, is    *)
(*     what each Mac has told it.                                          *)
(*  5. The waiting list. Whoever is told yes was listed by then.           *)
(*  6. The feed page. Queue and history have every card once, and no two   *)
(*     cards were made at one time.                                        *)
(*  7. A task's page. What its items say of the events that are done is    *)
(*     kept by placing one turn more, and by sorting them.                 *)
(***************************************************************************)
EXTENDS ClientLink, OnThePage, FiniteSetTheorems, SequenceTheorems,
        WellFoundedInduction, TLAPS

-----------------------------------------------------------------------------
(* 1. Links and outbox.                                                    *)

(* The inductive invariant.                                                 *)

\* What the controllers know: an authenticated socket is known to its
\* controller, a connected controller waits for nothing, and a host without a
\* controller has nothing to come.
ControllersKnow ==
  /\ \A h \in Hosts : cur[h] = "authed" => connected[h]
  /\ \A h \in Hosts : connected[h] => ~timer[h] /\ ~paused[h]
  /\ \A h \in Hosts \ started :
       /\ cur[h] = "none" /\ ~timer[h] /\ ~paused[h]
       /\ \A m \in Modes : stale[h][m] = 0

\* The last event on its way says what the network is.
LastEventIsTrue == events # <<>> => events[Len(events)] = online

\* What the outbox says of what was given to the bridge.
EntriesAreTrue ==
  \A c \in Commands :
    /\ entry[c] = "none" => c \notin got
    /\ entry[c] = "queued" => c \notin got \/ c \in refused
    /\ entry[c] = "failed" => c \in refused

\* Of the links:
LinksAreTrue == ShownIsLive /\ FirstAttemptGoesOn /\ ControllersKnow

\* of the window's events:
EventsAreTrue == PausedHearsOnline /\ LastEventIsTrue

\* of the outbox:
OutboxHolds == OutboxIsTrue /\ EntriesAreTrue

\* and of the whole client.
LinkInv == TypeOK /\ LinksAreTrue /\ EventsAreTrue /\ OutboxHolds

-----------------------------------------------------------------------------
(* What the operators keep.                                                 *)

\* Taking the first of some events leaves the last one, or there was one only.
LEMMA TailsLast ==
  ASSUME NEW s \in Seq(BOOLEAN), s # <<>>
  PROVE  /\ Tail(s) \in Seq(BOOLEAN)
         /\ Tail(s) # <<>> => Tail(s)[Len(Tail(s))] = s[Len(s)]
         /\ Tail(s) = <<>> => Head(s) = s[Len(s)]
<1>1. Len(s) \in Nat \ {0}
      BY EmptySeq
<1>2. /\ Tail(s) \in Seq(BOOLEAN) /\ Len(Tail(s)) = Len(s) - 1
      /\ \A i \in 1..Len(Tail(s)) : Tail(s)[i] = s[i + 1]
      BY HeadTailProperties
<1>3. CASE Tail(s) # <<>>
  <2>1. Len(Tail(s)) \in Nat \ {0}
        BY <1>2, <1>3, EmptySeq
  <2>2. Tail(s)[Len(Tail(s))] = s[Len(Tail(s)) + 1]
        BY <1>2, <2>1
  <2> QED BY <1>1, <1>2, <1>3, <2>1, <2>2
<1>4. CASE Tail(s) = <<>>
  <2>1. Len(Tail(s)) = 0
        BY <1>4, EmptySeq
  <2> DEFINE n == Len(s)
  <2> DEFINE k == Len(Tail(s))
  <2>2. k = n - 1 /\ k = 0 /\ n \in Nat
        BY <1>1, <1>2, <2>1
  <2> HIDE DEF n, k
  <2>3. n = 1
        BY <2>2
  <2>4. Head(s) = s[1]
        BY <1>1
  <2> QED BY <1>4, <2>3, <2>4 DEF n
<1> QED BY <1>3, <1>4

\* New sockets, as many as the bound allows.
LEMMA ConnectKeepsTypes ==
  ASSUME TypeOK, NEW S \in SUBSET Hosts, Connect(S)
  PROVE  /\ cur' \in [Hosts -> SocketStates] /\ sender' \in [Hosts -> BOOLEAN]
         /\ curMode' \in [Hosts -> Modes]
         /\ \A h \in Hosts \ Remote : curMode'[h] = "local"
         /\ stale' \in [Hosts -> [Modes -> 0..MaxStale]]
<1> USE LimitsAreNumbers DEF TypeOK, Connect
<1>1. cur' \in [Hosts -> SocketStates]
      BY DEF SocketStates
<1>2. sender' \in [Hosts -> BOOLEAN]
  <2> SUFFICES ASSUME NEW h \in Hosts PROVE (h \in S \/ sender[h]) \in BOOLEAN
      OBVIOUS
  <2> QED OBVIOUS
<1>3. curMode' \in [Hosts -> Modes] /\ \A h \in Hosts \ Remote : curMode'[h] = "local"
      OBVIOUS
<1>4. stale' \in [Hosts -> [Modes -> 0..MaxStale]]
  <2>1. ASSUME NEW h \in S
        PROVE  [stale[h] EXCEPT ![curMode[h]] = @ + Replaced(h)] \in [Modes -> 0..MaxStale]
    <3>1. stale[h] \in [Modes -> 0..MaxStale] /\ curMode[h] \in Modes
          OBVIOUS
    <3>2. Replaced(h) \in 0..1
          BY DEF Replaced
    <3>3. stale[h]["local"] + stale[h]["cloud"] + Replaced(h) <= MaxStale
          OBVIOUS
    <3>4. stale[h]["local"] \in Nat /\ stale[h]["cloud"] \in Nat
          BY <3>1 DEF Modes
    <3>5. stale[h][curMode[h]] + Replaced(h) \in 0..MaxStale
          BY <3>1, <3>2, <3>3, <3>4 DEF Modes
    <3> QED BY <3>1, <3>5
  <2> QED BY <2>1
<1> QED BY <1>1, <1>2, <1>3, <1>4

\* onclose, and the types;
LEMMA ClosedKeepsTypes ==
  ASSUME TypeOK, NEW h \in Hosts, NEW m \in Modes, Closed(h, m)
  PROVE  /\ timer' \in [Hosts -> BOOLEAN] /\ paused' \in [Hosts -> BOOLEAN]
         /\ \A g \in Hosts : ~(timer'[g] /\ paused'[g])
         /\ sender' \in [Hosts -> BOOLEAN] /\ shown' \subseteq Hosts
         /\ nextMode' \in [Hosts -> Modes]
         /\ \A g \in Hosts \ Remote : nextMode'[g] = "local"
<1>1. /\ timer' \in [Hosts -> BOOLEAN] /\ paused' \in [Hosts -> BOOLEAN]
      /\ \A g \in Hosts : ~(timer'[g] /\ paused'[g])
  <2>1. CASE connected[h]
        BY <2>1 DEF Closed, NotifyDisconnected, TypeOK
  <2>2. CASE ~connected[h]
        BY <2>2 DEF Closed, NotifyDisconnected, TypeOK
  <2> QED BY <2>1, <2>2
<1>2. sender' \in [Hosts -> BOOLEAN] /\ shown' \subseteq Hosts
      BY DEF Closed, TypeOK
<1>3. nextMode' \in [Hosts -> Modes] /\ \A g \in Hosts \ Remote : nextMode'[g] = "local"
      BY DEF Closed, TypeOK, Other, Modes
<1> QED BY <1>1, <1>2, <1>3

\* onclose, of the current socket or of one before it, and the links.
LEMMA ClosedKeepsLinks ==
  ASSUME TypeOK, LinksAreTrue, NEW h \in started, NEW m \in Modes, Closed(h, m),
         \/ cur' = cur
         \/ cur' = [cur EXCEPT ![h] = "closed"],
         \A g \in Hosts \ {h} : stale'[g] = stale[g]
  PROVE  LinksAreTrue'
<1>1. /\ h \in Hosts /\ shown' = shown \ {h} /\ UNCHANGED <<connected, started, creds>>
      /\ \A g \in Hosts \ {h} : cur'[g] = cur[g]
      BY DEF Closed, TypeOK
<1>2. CASE connected[h]
  <2>1. UNCHANGED <<timer, paused>>
        BY <1>2 DEF Closed, NotifyDisconnected
  <2>2. ShownIsLive'
        BY <1>1 DEF LinksAreTrue, ShownIsLive, TypeOK
  <2>3. FirstAttemptGoesOn'
        BY <1>1, <1>2, <2>1 DEF LinksAreTrue, FirstAttemptGoesOn, TypeOK
  <2>4. \A g \in Hosts : cur'[g] = "authed" => connected'[g]
        BY <1>1, <1>2 DEF LinksAreTrue, ControllersKnow
  <2>5. \A g \in Hosts \ started : g # h
        OBVIOUS
  <2>6. ControllersKnow'
        BY <1>1, <2>1, <2>4, <2>5 DEF LinksAreTrue, ControllersKnow
  <2> QED BY <2>2, <2>3, <2>6 DEF LinksAreTrue
<1>3. CASE ~connected[h]
  <2>1. /\ timer' = [timer EXCEPT ![h] = online] /\ paused' = [paused EXCEPT ![h] = ~online]
        BY <1>3 DEF Closed, NotifyDisconnected
  <2>2. cur'[h] # "authed"
        BY <1>1, <1>3 DEF LinksAreTrue, ControllersKnow, TypeOK
  <2>3. ShownIsLive'
        BY <1>1 DEF LinksAreTrue, ShownIsLive, TypeOK
  <2>4. FirstAttemptGoesOn'
        BY <1>1, <2>1 DEF LinksAreTrue, FirstAttemptGoesOn, TypeOK
  <2>5. ControllersKnow'
        BY <1>1, <1>3, <2>1, <2>2 DEF LinksAreTrue, ControllersKnow, TypeOK
  <2> QED BY <2>3, <2>4, <2>5 DEF LinksAreTrue
<1> QED BY <1>2, <1>3

-----------------------------------------------------------------------------
(* The steps.                                                               *)

\* The invariant holds at the start,
LEMMA LinkInitially == Init => LinkInv
<1> SUFFICES ASSUME Init PROVE LinkInv
    OBVIOUS
<1> USE DEF Init
<1>1. TypeOK
      BY LimitsAreNumbers DEF TypeOK, Modes, Preferred, SocketStates, EntryStates
<1>2. LinksAreTrue
      BY DEF LinksAreTrue, ShownIsLive, FirstAttemptGoesOn, ControllersKnow
<1>3. EventsAreTrue
      BY DEF EventsAreTrue, PausedHearsOnline, LastEventIsTrue
<1>4. OutboxHolds
      BY DEF OutboxHolds, OutboxIsTrue, WithdrawnWasUnsent, DroppedIsRevoked, EntriesAreTrue
<1> QED BY <1>1, <1>2, <1>3, <1>4 DEF LinkInv

\* and every step keeps it.
LEMMA LinkStep == LinkInv /\ [Next]_vars => LinkInv'
<1> SUFFICES ASSUME LinkInv, [Next]_vars PROVE LinkInv'
    OBVIOUS
<1>0. TypeOK /\ LinksAreTrue /\ EventsAreTrue /\ OutboxHolds
      BY DEF LinkInv
<1> USE <1>0, LimitsAreNumbers, RemoteAreHosts
<1>1. ASSUME NEW h \in Hosts, Authenticates(h) PROVE LinkInv'
  <2> USE <1>1 DEF Authenticates, browser
  <2>1. TypeOK'
        BY DEF TypeOK, Modes, Other, SocketStates, EntryStates
  <2>2. LinksAreTrue'
        BY DEF LinksAreTrue, ShownIsLive, FirstAttemptGoesOn, ControllersKnow, TypeOK, Modes
  <2>3. EventsAreTrue'
        BY DEF EventsAreTrue, PausedHearsOnline, LastEventIsTrue, LinksAreTrue,
               ControllersKnow, TypeOK
  <2>4. OutboxHolds'
        BY DEF OutboxHolds, OutboxIsTrue, WithdrawnWasUnsent, DroppedIsRevoked,
               EntriesAreTrue, TypeOK
  <2> QED BY <2>1, <2>2, <2>3, <2>4 DEF LinkInv
<1>2. ASSUME NEW h \in Hosts, MessageFails(h) PROVE LinkInv'
  <2> USE <1>2 DEF MessageFails, Open, controller, outbox, browser
  <2>1. TypeOK'
        BY DEF TypeOK, Modes, Other, SocketStates, EntryStates
  <2>2. LinksAreTrue'
        BY DEF LinksAreTrue, ShownIsLive, FirstAttemptGoesOn, ControllersKnow, TypeOK, Modes
  <2>3. EventsAreTrue'
        BY DEF EventsAreTrue, PausedHearsOnline, LastEventIsTrue
  <2>4. OutboxHolds'
        BY DEF OutboxHolds, OutboxIsTrue, WithdrawnWasUnsent, DroppedIsRevoked,
               EntriesAreTrue
  <2> QED BY <2>1, <2>2, <2>3, <2>4 DEF LinkInv
<1>3. ASSUME NEW h \in Hosts, CurrentCloses(h) PROVE LinkInv'
  <2> USE <1>3 DEF CurrentCloses, outbox, browser
  <2>0. /\ h \in started /\ curMode[h] \in Modes
        /\ Closed(h, curMode[h])
        /\ UNCHANGED <<started, connected, creds, entry, got, refused, online, events,
           flips, reloads>>
        BY DEF LinksAreTrue, ControllersKnow, TypeOK, Modes, Closed
  <2>1. TypeOK'
        BY <2>0, ClosedKeepsTypes DEF TypeOK, Modes, SocketStates
  <2>2. LinksAreTrue'
        BY <2>0, ClosedKeepsLinks DEF TypeOK
  <2>3. EventsAreTrue'
        BY <2>0 DEF EventsAreTrue, PausedHearsOnline, LastEventIsTrue, Closed,
                    NotifyDisconnected, TypeOK
  <2>4. OutboxHolds'
        BY <2>0 DEF OutboxHolds, OutboxIsTrue, WithdrawnWasUnsent, DroppedIsRevoked,
                    EntriesAreTrue
  <2> QED BY <2>1, <2>2, <2>3, <2>4 DEF LinkInv
<1>4. ASSUME NEW h \in Hosts, Drops(h) PROVE LinkInv'
  <2> USE <1>4 DEF Drops, Open, outbox, browser
  <2>0. /\ h \in started /\ curMode[h] \in Modes
        /\ Closed(h, curMode[h])
        /\ UNCHANGED <<started, connected, creds, entry, got, refused, online, events,
           flips, reloads>>
        BY DEF LinksAreTrue, ControllersKnow, TypeOK, Modes, Closed
  <2>1. TypeOK'
        BY <2>0, ClosedKeepsTypes DEF TypeOK, Modes, SocketStates
  <2>2. LinksAreTrue'
        BY <2>0, ClosedKeepsLinks DEF TypeOK
  <2>3. EventsAreTrue'
        BY <2>0 DEF EventsAreTrue, PausedHearsOnline, LastEventIsTrue, Closed,
                    NotifyDisconnected, TypeOK
  <2>4. OutboxHolds'
        BY <2>0 DEF OutboxHolds, OutboxIsTrue, WithdrawnWasUnsent, DroppedIsRevoked,
                    EntriesAreTrue
  <2> QED BY <2>1, <2>2, <2>3, <2>4 DEF LinkInv
<1>5. ASSUME NEW h \in Hosts, PolicyCloses(h) PROVE LinkInv'
  <2> USE <1>5 DEF PolicyCloses, Revoke, Undone, controller, browser
  <2>1. TypeOK'
        BY DEF TypeOK, Modes, Other, SocketStates, EntryStates
  <2>2. LinksAreTrue'
        BY DEF LinksAreTrue, ShownIsLive, FirstAttemptGoesOn, ControllersKnow, TypeOK, Modes
  <2>3. EventsAreTrue'
        BY DEF EventsAreTrue, PausedHearsOnline, LastEventIsTrue
  <2>4. OutboxHolds'
        BY DEF OutboxHolds, OutboxIsTrue, WithdrawnWasUnsent, DroppedIsRevoked,
               EntriesAreTrue, TypeOK
  <2> QED BY <2>1, <2>2, <2>3, <2>4 DEF LinkInv
<1>6. ASSUME NEW h \in Hosts, TimerFires(h) PROVE LinkInv'
  <2> USE <1>6 DEF TimerFires, Connect, sockets, outbox, browser
  <2>1. TypeOK'
    <3>1. CASE connected[h]
          BY <3>1 DEF TypeOK
    <3>2. CASE ~connected[h]
      <4>1. Connect({h}) /\ UNCHANGED <<nextMode, shown>>
            BY <3>2
      <4>2. timer' \in [Hosts -> BOOLEAN] /\ \A g \in Hosts : ~(timer'[g] /\ paused'[g])
            BY DEF TypeOK
      <4> HIDE DEF Connect
      <4> QED BY <4>1, <4>2, ConnectKeepsTypes DEF TypeOK
    <3> QED BY <3>1, <3>2
  <2>2. LinksAreTrue'
    <3>1. CASE connected[h]
          BY <3>1 DEF LinksAreTrue, ShownIsLive, FirstAttemptGoesOn, ControllersKnow, TypeOK
    <3>2. CASE ~connected[h]
      <4>1. /\ cur' = [cur EXCEPT ![h] = "connecting"]
            /\ timer' = [timer EXCEPT ![h] = FALSE]
            /\ UNCHANGED <<shown, started, connected, paused, creds>>
            /\ \A g \in Hosts \ {h} : stale'[g] = stale[g]
            BY <3>2 DEF TypeOK
      <4>2. h \in started /\ h \notin shown
            BY <3>2 DEF LinksAreTrue, ShownIsLive, ControllersKnow, TypeOK
      <4> HIDE DEF TimerFires, Connect
      <4>3. ShownIsLive' /\ FirstAttemptGoesOn'
            BY <4>1, <4>2 DEF LinksAreTrue, ShownIsLive, FirstAttemptGoesOn, TypeOK
      <4>4. ControllersKnow'
            BY <4>1, <4>2 DEF LinksAreTrue, ControllersKnow, TypeOK
      <4> QED BY <4>3, <4>4 DEF LinksAreTrue
    <3> QED BY <3>1, <3>2
  <2>3. EventsAreTrue'
        BY DEF EventsAreTrue, PausedHearsOnline, LastEventIsTrue, LinksAreTrue,
               ControllersKnow, TypeOK
  <2>4. OutboxHolds'
        BY DEF OutboxHolds, OutboxIsTrue, WithdrawnWasUnsent, DroppedIsRevoked,
               EntriesAreTrue
  <2> QED BY <2>1, <2>2, <2>3, <2>4 DEF LinkInv
<1>7. ASSUME NEW h \in Hosts, NEW m \in Modes, StaleCloses(h, m) PROVE LinkInv'
  <2> USE <1>7 DEF StaleCloses, outbox, browser
  <2>0. /\ h \in started /\ m \in Modes
        /\ Closed(h, m)
        /\ UNCHANGED <<started, connected, creds, entry, got, refused, online, events,
           flips, reloads>>
        BY DEF LinksAreTrue, ControllersKnow, TypeOK, Modes, Closed
  <2>1. TypeOK'
        BY <2>0, ClosedKeepsTypes DEF TypeOK, Modes, SocketStates
  <2>2. LinksAreTrue'
        BY <2>0, ClosedKeepsLinks DEF TypeOK
  <2>3. EventsAreTrue'
        BY <2>0 DEF EventsAreTrue, PausedHearsOnline, LastEventIsTrue, Closed,
                    NotifyDisconnected, TypeOK
  <2>4. OutboxHolds'
        BY <2>0 DEF OutboxHolds, OutboxIsTrue, WithdrawnWasUnsent, DroppedIsRevoked,
                    EntriesAreTrue
  <2> QED BY <2>1, <2>2, <2>3, <2>4 DEF LinkInv
<1>8. ASSUME NEW h \in Hosts, NEW m \in Modes, StalePolicyCloses(h, m) PROVE LinkInv'
  <2> USE <1>8 DEF StalePolicyCloses, Revoke, Undone, controller, browser
  <2>1. TypeOK'
        BY DEF TypeOK, Modes, Other, SocketStates, EntryStates
  <2>2. LinksAreTrue'
        BY DEF LinksAreTrue, ShownIsLive, FirstAttemptGoesOn, ControllersKnow, TypeOK, Modes
  <2>3. EventsAreTrue'
        BY DEF EventsAreTrue, PausedHearsOnline, LastEventIsTrue
  <2>4. OutboxHolds'
        BY DEF OutboxHolds, OutboxIsTrue, WithdrawnWasUnsent, DroppedIsRevoked,
               EntriesAreTrue, TypeOK
  <2> QED BY <2>1, <2>2, <2>3, <2>4 DEF LinkInv
<1>9. ASSUME NEW c \in Commands, Issue(c) PROVE LinkInv'
  <2> USE <1>9 DEF Issue, Put, CanSend, controller, sockets, browser
  <2>1. TypeOK'
        BY DEF TypeOK, Modes, Other, SocketStates, EntryStates
  <2>2. LinksAreTrue'
        BY DEF LinksAreTrue, ShownIsLive, FirstAttemptGoesOn, ControllersKnow
  <2>3. EventsAreTrue'
        BY DEF EventsAreTrue, PausedHearsOnline, LastEventIsTrue
  <2>4. OutboxHolds'
        BY DEF OutboxHolds, OutboxIsTrue, WithdrawnWasUnsent, DroppedIsRevoked,
               EntriesAreTrue, TypeOK
  <2> QED BY <2>1, <2>2, <2>3, <2>4 DEF LinkInv
<1>10. ASSUME NEW c \in Commands, RetryEntry(c) PROVE LinkInv'
  <2> USE <1>10 DEF RetryEntry, Put, CanSend, controller, sockets, browser
  <2>1. TypeOK'
        BY DEF TypeOK, Modes, Other, SocketStates, EntryStates
  <2>2. LinksAreTrue'
        BY DEF LinksAreTrue, ShownIsLive, FirstAttemptGoesOn, ControllersKnow
  <2>3. EventsAreTrue'
        BY DEF EventsAreTrue, PausedHearsOnline, LastEventIsTrue
  <2>4. OutboxHolds'
        BY DEF OutboxHolds, OutboxIsTrue, WithdrawnWasUnsent, DroppedIsRevoked,
               EntriesAreTrue, TypeOK
  <2> QED BY <2>1, <2>2, <2>3, <2>4 DEF LinkInv
<1>11. ASSUME NEW c \in Commands, Withdraw(c) PROVE LinkInv'
  <2> USE <1>11 DEF Withdraw, controller, sockets, browser
  <2>1. TypeOK'
        BY DEF TypeOK, Modes, Other, SocketStates, EntryStates
  <2>2. LinksAreTrue'
        BY DEF LinksAreTrue, ShownIsLive, FirstAttemptGoesOn, ControllersKnow
  <2>3. EventsAreTrue'
        BY DEF EventsAreTrue, PausedHearsOnline, LastEventIsTrue
  <2>4. OutboxHolds'
        BY DEF OutboxHolds, OutboxIsTrue, WithdrawnWasUnsent, DroppedIsRevoked,
               EntriesAreTrue, TypeOK
  <2> QED BY <2>1, <2>2, <2>3, <2>4 DEF LinkInv
<1>12. ASSUME NEW c \in Commands, Acknowledge(c) PROVE LinkInv'
  <2> USE <1>12 DEF Acknowledge, Undone, controller, sockets, browser
  <2>1. TypeOK'
        BY DEF TypeOK, Modes, Other, SocketStates, EntryStates
  <2>2. LinksAreTrue'
        BY DEF LinksAreTrue, ShownIsLive, FirstAttemptGoesOn, ControllersKnow
  <2>3. EventsAreTrue'
        BY DEF EventsAreTrue, PausedHearsOnline, LastEventIsTrue
  <2>4. OutboxHolds'
        BY DEF OutboxHolds, OutboxIsTrue, WithdrawnWasUnsent, DroppedIsRevoked,
               EntriesAreTrue, TypeOK
  <2> QED BY <2>1, <2>2, <2>3, <2>4 DEF LinkInv
<1>13. ASSUME NEW c \in Commands, MarkFailed(c) PROVE LinkInv'
  <2> USE <1>13 DEF MarkFailed, Undone, controller, sockets, browser
  <2>1. TypeOK'
        BY DEF TypeOK, Modes, Other, SocketStates, EntryStates
  <2>2. LinksAreTrue'
        BY DEF LinksAreTrue, ShownIsLive, FirstAttemptGoesOn, ControllersKnow
  <2>3. EventsAreTrue'
        BY DEF EventsAreTrue, PausedHearsOnline, LastEventIsTrue
  <2>4. OutboxHolds'
        BY DEF OutboxHolds, OutboxIsTrue, WithdrawnWasUnsent, DroppedIsRevoked,
               EntriesAreTrue, TypeOK
  <2> QED BY <2>1, <2>2, <2>3, <2>4 DEF LinkInv
<1>14. CASE RetryAll
  <2> USE <1>14 DEF RetryAll, Connect, outbox, browser
  <2>1. TypeOK'
        BY ConnectKeepsTypes DEF TypeOK
  <2>2. LinksAreTrue'
        BY DEF LinksAreTrue, ShownIsLive, FirstAttemptGoesOn, ControllersKnow, TypeOK, Modes
  <2>3. EventsAreTrue'
        BY DEF EventsAreTrue, PausedHearsOnline, LastEventIsTrue, LinksAreTrue,
               ControllersKnow, TypeOK
  <2>4. OutboxHolds'
        BY DEF OutboxHolds, OutboxIsTrue, WithdrawnWasUnsent, DroppedIsRevoked,
               EntriesAreTrue
  <2> QED BY <2>1, <2>2, <2>3, <2>4 DEF LinkInv
<1>15. CASE NetworkFlips
  <2> USE <1>15 DEF NetworkFlips, controller, sockets, outbox
  <2>1. TypeOK'
        BY DEF TypeOK, Modes, Other, SocketStates, EntryStates
  <2>2. LinksAreTrue'
        BY DEF LinksAreTrue, ShownIsLive, FirstAttemptGoesOn, ControllersKnow
  <2>3. EventsAreTrue'
        BY DEF EventsAreTrue, PausedHearsOnline, LastEventIsTrue, LinksAreTrue,
               ControllersKnow, TypeOK
  <2>4. OutboxHolds'
        BY DEF OutboxHolds, OutboxIsTrue, WithdrawnWasUnsent, DroppedIsRevoked,
               EntriesAreTrue
  <2> QED BY <2>1, <2>2, <2>3, <2>4 DEF LinkInv
<1>16. CASE OnOnline
  <2> USE <1>16 DEF OnOnline, Connect, outbox
  <2>1. TypeOK'
    <3> DEFINE S == {h \in started : ~connected[h] /\ (paused[h] \/ ~timer[h])}
    <3>0. S \in SUBSET Hosts /\ Connect(S)
          BY DEF TypeOK
    <3> HIDE DEF Connect
    <3>1. timer' \in [Hosts -> BOOLEAN]
      <4> SUFFICES ASSUME NEW h \in Hosts PROVE (timer[h] /\ h \notin S) \in BOOLEAN
          OBVIOUS
      <4> QED OBVIOUS
    <3>2. paused' \in [Hosts -> BOOLEAN]
      <4> SUFFICES ASSUME NEW h \in Hosts PROVE (paused[h] /\ h \notin S) \in BOOLEAN
          OBVIOUS
      <4> QED OBVIOUS
    <3>3. \A h \in Hosts : ~(timer'[h] /\ paused'[h])
          BY DEF TypeOK
    <3>4. events' \in Seq(BOOLEAN)
          BY TailsLast DEF TypeOK
    <3> HIDE DEF S
    <3> QED BY <3>0, <3>1, <3>2, <3>3, <3>4, ConnectKeepsTypes DEF TypeOK
  <2>2. LinksAreTrue'
        BY DEF LinksAreTrue, ShownIsLive, FirstAttemptGoesOn, ControllersKnow, TypeOK, Modes
  <2>3. EventsAreTrue'
        BY TailsLast DEF EventsAreTrue, PausedHearsOnline, LastEventIsTrue, LinksAreTrue,
                         ControllersKnow, TypeOK
  <2>4. OutboxHolds'
        BY DEF OutboxHolds, OutboxIsTrue, WithdrawnWasUnsent, DroppedIsRevoked,
               EntriesAreTrue
  <2> QED BY <2>1, <2>2, <2>3, <2>4 DEF LinkInv
<1>17. CASE OnOffline
  <2> USE <1>17 DEF OnOffline, sockets, outbox
  <2>1. TypeOK'
    <3> DEFINE S == {h \in started : ~connected[h]}
    <3>1. timer' \in [Hosts -> BOOLEAN]
      <4> SUFFICES ASSUME NEW h \in Hosts PROVE (timer[h] /\ h \notin S) \in BOOLEAN
          OBVIOUS
      <4> QED OBVIOUS
    <3>2. paused' \in [Hosts -> BOOLEAN]
      <4> SUFFICES ASSUME NEW h \in Hosts PROVE (paused[h] \/ h \in S) \in BOOLEAN
          OBVIOUS
      <4> QED OBVIOUS
    <3>3. \A h \in Hosts : ~(timer'[h] /\ paused'[h])
          BY DEF TypeOK
    <3>4. events' \in Seq(BOOLEAN)
          BY TailsLast DEF TypeOK
    <3> QED BY <3>1, <3>2, <3>3, <3>4 DEF TypeOK
  <2>2. LinksAreTrue'
        BY DEF LinksAreTrue, ShownIsLive, FirstAttemptGoesOn, ControllersKnow, TypeOK, Modes
  <2>3. EventsAreTrue'
        BY TailsLast DEF EventsAreTrue, PausedHearsOnline, LastEventIsTrue, LinksAreTrue,
                         ControllersKnow, TypeOK
  <2>4. OutboxHolds'
        BY DEF OutboxHolds, OutboxIsTrue, WithdrawnWasUnsent, DroppedIsRevoked,
               EntriesAreTrue
  <2> QED BY <2>1, <2>2, <2>3, <2>4 DEF LinkInv
<1>18. CASE Reload
  <2> USE <1>18 DEF Reload, Preferred, outbox
  <2>1. TypeOK'
        BY DEF TypeOK, Modes, Other, SocketStates, EntryStates
  <2>2. LinksAreTrue'
        BY DEF LinksAreTrue, ShownIsLive, FirstAttemptGoesOn, ControllersKnow, TypeOK, Modes
  <2>3. EventsAreTrue'
        BY DEF EventsAreTrue, PausedHearsOnline, LastEventIsTrue, LinksAreTrue,
               ControllersKnow, TypeOK
  <2>4. OutboxHolds'
        BY DEF OutboxHolds, OutboxIsTrue, WithdrawnWasUnsent, DroppedIsRevoked,
               EntriesAreTrue
  <2> QED BY <2>1, <2>2, <2>3, <2>4 DEF LinkInv
<1>19. CASE UNCHANGED vars
      BY <1>19 DEF vars, LinkInv, TypeOK, LinksAreTrue, ShownIsLive, FirstAttemptGoesOn,
         ControllersKnow, EventsAreTrue, PausedHearsOnline, LastEventIsTrue, OutboxHolds,
         OutboxIsTrue, WithdrawnWasUnsent, DroppedIsRevoked, EntriesAreTrue
<1> QED
    BY <1>1, <1>2, <1>3, <1>4, <1>5, <1>6, <1>7, <1>8, <1>9, <1>10, <1>11, <1>12, <1>13,
       <1>14, <1>15, <1>16, <1>17, <1>18, <1>19
    DEF Next, Socket, User, Page

-----------------------------------------------------------------------------
(* The theorems.                                                            *)

\* In every behaviour the invariant holds.
THEOREM LinkKeeps == Spec => []LinkInv
<1> QED BY LinkInitially, LinkStep, PTL DEF Spec

\* Every variable has its type.
THEOREM LinkTyped == Spec => []TypeOK
<1>1. LinkInv => TypeOK
      BY DEF LinkInv
<1> QED BY <1>1, LinkKeeps, PTL

\* What the page shows is so, and somebody will try again until the first
\* authentication, whatever events come late.
THEOREM LinkStaysTrue == Spec => []LinkIsTrue
<1>1. LinkInv => LinkIsTrue
      BY DEF LinkInv, LinksAreTrue, EventsAreTrue, LinkIsTrue
<1> QED BY <1>1, LinkKeeps, PTL

\* A command leaves the outbox unsent only by its user's withdrawal or the
\* revocation of its own host.
THEOREM OutboxStaysTrue == Spec => []OutboxIsTrue
<1>1. LinkInv => OutboxIsTrue
      BY DEF LinkInv, OutboxHolds
<1> QED BY <1>1, LinkKeeps, PTL

\* The client's own attempts never replace an authenticated socket.
THEOREM LinkKeepsLive == Spec => LiveLinkIsKept
<1> DEFINE Keeps == \A h \in Hosts :
                      cur[h] = "authed" /\ cur'[h] = "connecting" => reloads' # reloads
<1>1. LinkInv /\ [Next]_vars => [Keeps]_vars
  <2> SUFFICES ASSUME LinkInv, Next, NEW h \in Hosts,
                      cur[h] = "authed", cur'[h] = "connecting"
               PROVE  reloads' # reloads
      BY DEF vars
  <2>0. TypeOK /\ connected[h]
        BY DEF LinkInv, LinksAreTrue, ControllersKnow
  <2>1. CASE Reload
        BY <2>0, <2>1 DEF Reload, TypeOK
  <2>2. CASE RetryAll \/ OnOnline
        BY <2>0, <2>2 DEF RetryAll, OnOnline, Connect
  <2>3. ASSUME NEW g \in Hosts, TimerFires(g) PROVE FALSE
    <3>1. CASE connected[g]
          BY <3>1, <2>3 DEF TimerFires, sockets
    <3>2. CASE ~connected[g]
          BY <2>0, <2>3, <3>2 DEF TimerFires, Connect
    <3> QED BY <3>1, <3>2
  <2>4. ASSUME NEW g \in Hosts, NEW m \in Modes,
               \/ Authenticates(g) \/ MessageFails(g) \/ CurrentCloses(g) \/ Drops(g)
               \/ PolicyCloses(g) \/ StaleCloses(g, m) \/ StalePolicyCloses(g, m)
        PROVE  FALSE
        BY <2>0, <2>4
        DEF Authenticates, MessageFails, CurrentCloses, Drops, PolicyCloses, StaleCloses,
            StalePolicyCloses, TypeOK
  <2>5. CASE NetworkFlips \/ OnOffline \/ \E c \in Commands : User(c)
        BY <2>5
        DEF NetworkFlips, OnOffline, User, Issue, RetryEntry, Withdraw, Acknowledge,
            MarkFailed, sockets
  <2>6. "local" \in Modes
        BY DEF Modes
  <2> QED BY <2>1, <2>2, <2>3, <2>4, <2>5, <2>6 DEF Next, Socket, Page
<1> QED BY <1>1, LinkKeeps, PTL DEF Spec, LiveLinkIsKept

-----------------------------------------------------------------------------
(* 2. Lists.                                                               *)

\* The order of the numbers, as a relation.
Below == {p \in Nat \X Nat : p[1] < p[2]}

\* A set of numbers that is not empty has a least one.
LEMMA LeastNumber ==
  ASSUME NEW T \in SUBSET Nat, T # {}
  PROVE \E n \in T : \A m \in T : n <= m
<1>1. IsWellFoundedOn(Below, Nat)
  BY NatLessThanWellFounded, Zenon DEF OpToRel, Below
<1>2. \E n \in T : \A m \in T : ~(<<m, n>> \in Below)
  BY <1>1, WFMin, Zenon
<1>3. \A n, m \in T : ~(<<m, n>> \in Below) => n <= m
  BY DEF Below
<1>4. QED BY <1>2, <1>3

\* Induction up to a number, for a set.
LEMMA UpTo ==
  ASSUME NEW N \in Nat, NEW T, 0 \in T, \A n \in 0..N : n < N /\ n \in T => n + 1 \in T
  PROVE \A n \in 0..N : n \in T
<1>1. SUFFICES ASSUME NEW k \in 0..N, k \notin T PROVE FALSE
  OBVIOUS
<1> DEFINE Others == {m \in 0..N : m \notin T}
<1>2. Others \in SUBSET Nat /\ Others # {}
  BY <1>1
<1> HIDE DEF Others
<1>3. PICK n \in Others : \A m \in Others : n <= m
  BY <1>2, LeastNumber, Zenon
<1>4. n \in 0..N /\ n \notin T
  BY <1>3 DEF Others
<1>5. n # 0 /\ n - 1 \in 0..N /\ n - 1 < N /\ ~(n <= n - 1)
  BY <1>4
<1>6. n - 1 \in T
  BY <1>3, <1>5 DEF Others
<1>7. n - 1 + 1 = n
  BY <1>4
<1>8. QED BY <1>4, <1>5, <1>6, <1>7

-----------------------------------------------------------------------------

\* What is left of the first n of a list: those that are not gone, in their order.
LeftOf(left, list, n, gone) ==
  /\ \A i \in DOMAIN left : \E j \in 1..n : left[i] = list[j] /\ list[j] \notin gone
  /\ \A j \in 1..n : list[j] \notin gone => \E i \in DOMAIN left : left[i] = list[j]
  /\ \A i, k \in DOMAIN left : i < k =>
       \E j, l \in 1..n : j < l /\ left[i] = list[j] /\ left[k] = list[l]

\* What is left of the first n, for all n.
Leaves(g, list, gone) ==
  /\ g[0] = <<>>
  /\ \A n \in 1..Len(list) :
       g[n] = IF list[n] \in gone THEN g[n - 1] ELSE Append(g[n - 1], list[n])

\* Without goes through the list from its start, and adds what is not gone.
LEMMA WithoutRuns ==
  ASSUME NEW X, NEW list \in Seq(X), NEW gone
  PROVE \E g : Leaves(g, list, gone) /\ Without(list, gone) = g[Len(list)]
<1> DEFINE After(prev, n) == IF list[n] \in gone THEN prev ELSE Append(prev, list[n])
           Reached == {n \in Nat : \E g : g = [i \in 0..n |-> IF i = 0 THEN <<>>
             ELSE After(g[i - 1], i)]}
<1>1. Len(list) \in Nat
  OBVIOUS
<1> HIDE DEF After
<1>4. 0 \in Reached
  <2>1. [p \in 0..0 |-> <<>>] = [p \in 0..0 |-> IF p = 0 THEN <<>>
          ELSE After([q \in 0..0 |-> <<>>][p - 1], p)]
    OBVIOUS
  <2>2. QED BY <2>1
<1>5. ASSUME NEW n \in 0..Len(list), n < Len(list), n \in Reached PROVE n + 1 \in Reached
  <2>1. PICK g : g = [i \in 0..n |-> IF i = 0 THEN <<>> ELSE After(g[i - 1], i)]
    BY <1>5
  <2> DEFINE h == [i \in 0..n+1 |-> IF i = n + 1 THEN After(g[i - 1], i) ELSE g[i]]
  <2>2. \A i \in 0..n : h[i] = g[i]
    OBVIOUS
  <2>3. \A i \in 0..n+1 : h[i] = IF i = 0 THEN <<>> ELSE After(h[i - 1], i)
    BY <2>1, <2>2
  <2>4. h = [i \in 0..n+1 |-> IF i = 0 THEN <<>> ELSE After(h[i - 1], i)]
    BY <2>3
  <2>5. n + 1 \in Nat
    OBVIOUS
  <2>6. QED BY <2>4, <2>5, Zenon
<1> HIDE DEF Reached
<1>6. \A n \in 0..Len(list) : n \in Reached
  BY <1>1, <1>4, <1>5, UpTo, Zenon
<1>7. Len(list) \in Reached
  BY <1>1, <1>6
<1>8. PICK g : /\ g = [i \in 0..Len(list) |-> IF i = 0 THEN <<>> ELSE After(g[i - 1], i)]
               /\ Without(list, gone) = g[Len(list)]
  BY <1>7, Zenon DEF Without, After, Reached
<1>9. g[0] = <<>> /\ \A n \in 1..Len(list) : g[n] = After(g[n - 1], n)
  BY <1>1, <1>8
<1>10. Leaves(g, list, gone)
  BY <1>9, Zenon DEF After, Leaves
<1>11. QED BY <1>8, <1>10, Zenon

\* Without leaves that, of any list.
LEMMA WithoutIs ==
  ASSUME NEW X, NEW list \in Seq(X), NEW gone
  PROVE Without(list, gone) \in Seq(X) /\ LeftOf(Without(list, gone), list, Len(list), gone)
<1>1. Len(list) \in Nat
  OBVIOUS
<1>13. PICK g : Leaves(g, list, gone) /\ Without(list, gone) = g[Len(list)]
  BY WithoutRuns, Zenon
<1>8. /\ g[0] = <<>> /\ Without(list, gone) = g[Len(list)]
      /\ \A n \in 1..Len(list) :
           g[n] = IF list[n] \in gone THEN g[n - 1] ELSE Append(g[n - 1], list[n])
  BY <1>13 DEF Leaves
<1> DEFINE T == {n \in 0..Len(list) : g[n] \in Seq(X) /\ LeftOf(g[n], list, n, gone)}
<1>9. 0 \in T
  <2>1. <<>> \in Seq(X) /\ LeftOf(<<>>, list, 0, gone)
    BY DEF LeftOf
  <2>2. g[0] \in Seq(X) /\ LeftOf(g[0], list, 0, gone)
    BY <1>8, <2>1, Zenon
  <2>3. 0 \in 0..Len(list)
    BY <1>1
  <2>4. QED BY <2>2, <2>3
<1>10. ASSUME NEW n \in 0..Len(list), n < Len(list), n \in T PROVE n + 1 \in T
  <2>1. /\ g[n + 1] = IF list[n + 1] \in gone THEN g[n] ELSE Append(g[n], list[n + 1])
        /\ n + 1 \in 0..Len(list) /\ n + 1 \in 1..Len(list)
    BY <1>1, <1>8, <1>10
  <2>2. CASE list[n + 1] \in gone
    <3>1. g[n + 1] = g[n] /\ LeftOf(g[n], list, n, gone) /\ g[n] \in Seq(X)
      BY <1>10, <2>1, <2>2
    <3>2. \A j \in 1..n + 1 : j \in 1..n \/ j = n + 1
      BY <1>1
    <3>3. LeftOf(g[n], list, n + 1, gone)
      <4>1. 1..n \subseteq 1..n + 1
        BY <1>1
      <4> DEFINE left == g[n]
      <4> HIDE DEF left
      <4>2. LeftOf(left, list, n, gone)
        BY <3>1 DEF left
      <4>3. \A i \in DOMAIN left : \E j \in 1..n + 1 : left[i] = list[j] /\ list[j] \notin gone
        BY <4>1, <4>2, Zenon DEF LeftOf
      <4>4. \A j \in 1..n + 1 : list[j] \notin gone => \E i \in DOMAIN left : left[i] = list[j]
        BY <2>2, <3>2, <4>2, Zenon DEF LeftOf
      <4>5. \A i, k \in DOMAIN left : i < k =>
              \E j, l \in 1..n + 1 : j < l /\ left[i] = list[j] /\ left[k] = list[l]
        BY <4>1, <4>2, SMTT(20) DEF LeftOf
      <4>6. QED BY <4>3, <4>4, <4>5, Zenon DEF LeftOf, left
    <3>4. QED BY <2>1, <3>1, <3>3
  <2>3. CASE list[n + 1] \notin gone
    <3> DEFINE old == g[n]  new == Append(old, list[n + 1])
    <3>1. old \in Seq(X) /\ LeftOf(old, list, n, gone) /\ g[n + 1] = new /\ list[n + 1] \in X
      BY <1>10, <2>1, <2>3
    <3> HIDE DEF old
    <3>2. /\ new \in Seq(X) /\ DOMAIN new = 1..Len(old) + 1 /\ DOMAIN old = 1..Len(old)
          /\ Len(old) \in Nat
          /\ new[Len(old) + 1] = list[n + 1]
          /\ \A i \in DOMAIN old : new[i] = old[i]
      BY <3>1
    <3> HIDE DEF new
    <3>3. LeftOf(new, list, n + 1, gone)
      <4>1. \A i \in DOMAIN new : \E j \in 1..n + 1 : new[i] = list[j] /\ list[j] \notin gone
        <5>1. ASSUME NEW i \in DOMAIN new, i \in DOMAIN old
              PROVE \E j \in 1..n + 1 : new[i] = list[j] /\ list[j] \notin gone
          <6>1. PICK j \in 1..n : old[i] = list[j] /\ list[j] \notin gone
            BY <3>1, <5>1 DEF LeftOf
          <6>2. j \in 1..n + 1 /\ new[i] = old[i]
            BY <1>1, <3>2, <5>1
          <6>3. QED BY <6>1, <6>2
        <5>2. ASSUME NEW i \in DOMAIN new, i \notin DOMAIN old
              PROVE \E j \in 1..n + 1 : new[i] = list[j] /\ list[j] \notin gone
          <6>1. i = Len(old) + 1
            BY <3>2, <5>2
          <6>2. QED BY <2>1, <2>3, <3>2, <6>1
        <5>3. QED BY <5>1, <5>2
      <4>2. \A j \in 1..n + 1 : list[j] \notin gone => \E i \in DOMAIN new : new[i] = list[j]
        <5>1. ASSUME NEW j \in 1..n + 1, list[j] \notin gone
              PROVE \E i \in DOMAIN new : new[i] = list[j]
          <6>1. CASE j \in 1..n
            <7>1. PICK i \in DOMAIN old : old[i] = list[j]
              BY <3>1, <5>1, <6>1 DEF LeftOf
            <7>2. i \in DOMAIN new
              BY <3>2
            <7>3. QED BY <3>2, <7>1, <7>2
          <6>2. CASE j = n + 1
            <7>1. Len(old) + 1 \in DOMAIN new
              BY <3>2
            <7>2. QED BY <3>2, <6>2, <7>1
          <6>3. QED BY <1>1, <6>1, <6>2
        <5>2. QED BY <5>1
      <4>3. \A i, k \in DOMAIN new : i < k =>
              \E j, l \in 1..n + 1 : j < l /\ new[i] = list[j] /\ new[k] = list[l]
        <5>1. ASSUME NEW i \in DOMAIN new, NEW k \in DOMAIN new, i < k, k \in DOMAIN old
              PROVE \E j, l \in 1..n + 1 : j < l /\ new[i] = list[j] /\ new[k] = list[l]
          <6>1. i \in DOMAIN old
            BY <3>2, <5>1
          <6>2. PICK j \in 1..n, l \in 1..n : j < l /\ old[i] = list[j] /\ old[k] = list[l]
            BY <3>1, <5>1, <6>1 DEF LeftOf
          <6>3. j \in 1..n + 1 /\ l \in 1..n + 1
            BY <1>1
          <6>4. QED BY <3>2, <5>1, <6>1, <6>2, <6>3
        <5>2. ASSUME NEW i \in DOMAIN new, NEW k \in DOMAIN new, i < k, k \notin DOMAIN old
              PROVE \E j, l \in 1..n + 1 : j < l /\ new[i] = list[j] /\ new[k] = list[l]
          <6>1. i \in DOMAIN old /\ k = Len(old) + 1
            BY <3>2, <5>2
          <6>2. PICK j \in 1..n : old[i] = list[j]
            BY <3>1, <6>1 DEF LeftOf
          <6>3. j \in 1..n + 1 /\ j < n + 1
            BY <1>1
          <6>4. QED BY <2>1, <3>2, <6>1, <6>2, <6>3
        <5>3. QED BY <5>1, <5>2
      <4>4. QED BY <4>1, <4>2, <4>3 DEF LeftOf
    <3>4. QED BY <2>1, <3>1, <3>2, <3>3
  <2>4. QED BY <2>2, <2>3
<1> HIDE DEF T
<1>11. \A n \in 0..Len(list) : n \in T
  BY <1>1, <1>9, <1>10, UpTo, Zenon
<1>12. QED BY <1>1, <1>8, <1>11 DEF T

\* What is left of the beginning of a list is the beginning of what is left of it.
LEMMA WithoutBegins ==
  ASSUME NEW X, NEW list \in Seq(X), NEW start \in Seq(X), NEW gone,
         Len(start) <= Len(list), \A i \in DOMAIN start : start[i] = list[i]
  PROVE /\ Len(Without(start, gone)) <= Len(Without(list, gone))
        /\ \A i \in DOMAIN Without(start, gone) : Without(start, gone)[i] = Without(list, gone)[i]
<1>1. Len(list) \in Nat /\ Len(start) \in Nat
  OBVIOUS
<1>13. PICK g : Leaves(g, list, gone) /\ Without(list, gone) = g[Len(list)]
  BY WithoutRuns, Zenon
<1>2. /\ g[0] = <<>> /\ Without(list, gone) = g[Len(list)]
      /\ \A n \in 1..Len(list) :
           g[n] = IF list[n] \in gone THEN g[n - 1] ELSE Append(g[n - 1], list[n])
  BY <1>13 DEF Leaves
<1>14. PICK h : Leaves(h, start, gone) /\ Without(start, gone) = h[Len(start)]
  BY WithoutRuns, Zenon
<1>3. /\ h[0] = <<>> /\ Without(start, gone) = h[Len(start)]
      /\ \A n \in 1..Len(start) :
           h[n] = IF start[n] \in gone THEN h[n - 1] ELSE Append(h[n - 1], start[n])
  BY <1>14 DEF Leaves
<1> DEFINE Same == {n \in 0..Len(start) : g[n] = h[n]}
<1>4. 0 \in Same
  BY <1>1, <1>2, <1>3
<1>5. ASSUME NEW n \in 0..Len(start), n < Len(start), n \in Same PROVE n + 1 \in Same
  <2>1. n + 1 \in 1..Len(start) /\ n + 1 \in 1..Len(list) /\ (n + 1) - 1 = n
    BY <1>1, <1>5
  <2>2. start[n + 1] = list[n + 1]
    BY <2>1
  <2>3. QED BY <1>2, <1>3, <1>5, <2>1, <2>2
<1> HIDE DEF Same
<1>6. \A n \in 0..Len(start) : n \in Same
  BY <1>1, <1>4, <1>5, UpTo, Zenon
<1>7. g[Len(start)] = Without(start, gone) /\ Without(start, gone) \in Seq(X)
  BY <1>1, <1>3, <1>6, WithoutIs DEF Same
<1> DEFINE left == Without(start, gone)
           more == Len(list) - Len(start)
           After == {n \in 0..more : /\ g[Len(start) + n] \in Seq(X)
                                     /\ Len(left) <= Len(g[Len(start) + n])
                                     /\ \A i \in DOMAIN left : left[i] = g[Len(start) + n][i]}
<1> HIDE DEF left
<1>8. 0 \in After
  BY <1>1, <1>7 DEF left
<1>9. ASSUME NEW n \in 0..more, n < more, n \in After PROVE n + 1 \in After
  <2> DEFINE m == Len(start) + n
  <2>1. /\ m + 1 \in 1..Len(list) /\ (m + 1) - 1 = m
        /\ Len(start) + (n + 1) = m + 1 /\ n + 1 \in 0..more
    BY <1>1, <1>9
  <2>2. g[m + 1] = IF list[m + 1] \in gone THEN g[m] ELSE Append(g[m], list[m + 1])
    BY <1>2, <2>1
  <2>3. g[m] \in Seq(X) /\ Len(left) <= Len(g[m]) /\ \A i \in DOMAIN left : left[i] = g[m][i]
    BY <1>9
  <2>4. left \in Seq(X) /\ list[m + 1] \in X
    BY <1>7, <2>1 DEF left
  <2> HIDE DEF m
  <2>5. /\ g[m + 1] \in Seq(X) /\ Len(left) <= Len(g[m + 1])
        /\ \A i \in DOMAIN left : left[i] = g[m + 1][i]
    BY <2>2, <2>3, <2>4
  <2>6. QED BY <2>1, <2>5
<1> HIDE DEF After
<1>10. \A n \in 0..more : n \in After
  <2>1. more \in Nat
    BY <1>1
  <2>2. QED BY <1>8, <1>9, <2>1, UpTo, Zenon
<1>11. more \in After /\ Len(start) + more = Len(list)
  BY <1>1, <1>10
<1>12. QED BY <1>2, <1>11 DEF After, left

\* What is left of a list without doubles has none, is no more than what is not
\* gone, and in the same order.
LEMMA WithoutOnce ==
  ASSUME NEW X, NEW list \in Seq(X), NEW gone
  PROVE  /\ Without(list, gone) \in Seq(X) /\ ToSet(Without(list, gone)) = ToSet(list) \ gone
         /\ IsInjective(list) => IsInjective(Without(list, gone))
         /\ IsInjective(list) =>
              \A i, j \in DOMAIN list, k, l \in DOMAIN Without(list, gone) :
                /\ list[i] = Without(list, gone)[k] /\ list[j] = Without(list, gone)[l]
                /\ i < j
                => k < l
<1> DEFINE left == Without(list, gone)
<1>1. left \in Seq(X) /\ LeftOf(left, list, Len(list), gone)
  BY WithoutIs, Zenon
<1> HIDE DEF left
<1>2. /\ DOMAIN left = 1..Len(left) /\ Len(left) \in Nat
      /\ DOMAIN list = 1..Len(list) /\ Len(list) \in Nat
  BY <1>1
<1>8. /\ \A i \in DOMAIN left : \E j \in DOMAIN list : left[i] = list[j] /\ list[j] \notin gone
      /\ \A j \in DOMAIN list : list[j] \notin gone => \E i \in DOMAIN left : left[i] = list[j]
      /\ \A i, k \in DOMAIN left : i < k =>
           \E j, l \in DOMAIN list : j < l /\ left[i] = list[j] /\ left[k] = list[l]
  <2> DEFINE D == 1..Len(list)
  <2>1. /\ \A i \in DOMAIN left : \E j \in D : left[i] = list[j] /\ list[j] \notin gone
        /\ \A j \in D : list[j] \notin gone => \E i \in DOMAIN left : left[i] = list[j]
        /\ \A i, k \in DOMAIN left : i < k =>
             \E j, l \in D : j < l /\ left[i] = list[j] /\ left[k] = list[l]
    BY <1>1, Zenon DEF LeftOf
  <2>2. D = DOMAIN list
    BY <1>2
  <2> HIDE DEF D
  <2>3. QED BY <2>1, <2>2
<1>3. ToSet(left) = ToSet(list) \ gone
  <2>1. ASSUME NEW i \in DOMAIN left PROVE left[i] \in ToSet(list) \ gone
    <3>1. PICK j \in DOMAIN list : left[i] = list[j] /\ list[j] \notin gone
      BY <1>8, Zenon
    <3>2. QED BY <3>1 DEF ToSet
  <2>2. ASSUME NEW j \in DOMAIN list, list[j] \notin gone PROVE list[j] \in ToSet(left)
    <3>1. PICK i \in DOMAIN left : left[i] = list[j]
      BY <1>8, <2>2, Zenon
    <3>2. QED BY <3>1 DEF ToSet
  <2>3. QED BY <2>1, <2>2 DEF ToSet
<1>4. ASSUME IsInjective(list), NEW i \in DOMAIN left, NEW k \in DOMAIN left, i < k
      PROVE left[i] # left[k]
  <2>1. PICK j \in DOMAIN list, l \in DOMAIN list :
          j < l /\ left[i] = list[j] /\ left[k] = list[l]
    BY <1>4, <1>8, Zenon
  <2>2. j # l
    BY <1>2, <2>1
  <2>3. QED BY <1>4, <2>1, <2>2 DEF IsInjective
<1>5. ASSUME IsInjective(list) PROVE IsInjective(left)
  <2>1. \A i, k \in DOMAIN left : i = k \/ i < k \/ k < i
    BY <1>2
  <2>2. QED BY <1>4, <1>5, <2>1 DEF IsInjective
<1>6. ASSUME IsInjective(list), NEW i \in DOMAIN list, NEW j \in DOMAIN list,
             NEW k \in DOMAIN left, NEW l \in DOMAIN left,
             list[i] = left[k], list[j] = left[l], i < j
      PROVE k < l
  <2>1. i # j
    BY <1>2, <1>6
  <2>2. k # l
    BY <1>6, <2>1 DEF IsInjective
  <2>3. ASSUME l < k PROVE FALSE
    <3>1. PICK m \in DOMAIN list, n \in DOMAIN list :
            m < n /\ left[l] = list[m] /\ left[k] = list[n]
      BY <1>8, <2>3, Zenon
    <3>2. m = j /\ n = i
      BY <1>6, <3>1 DEF IsInjective
    <3>3. QED BY <1>2, <1>6, <3>1, <3>2
  <2>4. QED BY <1>2, <2>2, <2>3
<1>7. QED BY <1>1, <1>3, <1>5, <1>6 DEF left

\* One list after another.
LEMMA OneAfterAnother ==
  ASSUME NEW X, NEW a \in Seq(X), NEW b \in Seq(X)
  PROVE  /\ a \o b \in Seq(X) /\ ToSet(a \o b) = ToSet(a) \union ToSet(b)
         /\ \A i \in DOMAIN a : i \in DOMAIN (a \o b) /\ (a \o b)[i] = a[i]
         /\ \A i \in DOMAIN b : Len(a) + i \in DOMAIN (a \o b) /\ (a \o b)[Len(a) + i] = b[i]
         /\ IsInjective(a) /\ IsInjective(b) /\ ToSet(a) \intersect ToSet(b) = {}
              => IsInjective(a \o b)
<1> DEFINE c == a \o b
<1>1. /\ c \in Seq(X) /\ Len(c) = Len(a) + Len(b) /\ DOMAIN c = 1..Len(c)
      /\ DOMAIN a = 1..Len(a) /\ DOMAIN b = 1..Len(b) /\ Len(a) \in Nat /\ Len(b) \in Nat
  OBVIOUS
<1>2. /\ \A i \in DOMAIN a : i \in DOMAIN c /\ c[i] = a[i]
      /\ \A i \in DOMAIN b : Len(a) + i \in DOMAIN c /\ c[Len(a) + i] = b[i]
  BY <1>1
<1> HIDE DEF c
<1>3. \A i \in DOMAIN c :
        i \in DOMAIN a \/ (i - Len(a) \in DOMAIN b /\ i = Len(a) + (i - Len(a)))
  BY <1>1
<1>4. ToSet(c) = ToSet(a) \union ToSet(b)
  <2>1. ASSUME NEW i \in DOMAIN c PROVE c[i] \in ToSet(a) \union ToSet(b)
    <3>1. CASE i \in DOMAIN a
      BY <1>2, <3>1 DEF ToSet
    <3>2. CASE i - Len(a) \in DOMAIN b /\ i = Len(a) + (i - Len(a))
      <4>1. c[i] = b[i - Len(a)]
        BY <1>2, <3>2, Zenon
      <4>2. QED BY <3>2, <4>1 DEF ToSet
    <3>3. QED BY <1>3, <3>1, <3>2
  <2>2. ToSet(a) \subseteq ToSet(c) /\ ToSet(b) \subseteq ToSet(c)
    BY <1>2 DEF ToSet
  <2>3. QED BY <2>1, <2>2 DEF ToSet
<1>5. ASSUME IsInjective(a), IsInjective(b), ToSet(a) \intersect ToSet(b) = {}
      PROVE IsInjective(c)
  <2>1. ASSUME NEW i \in DOMAIN c, NEW j \in DOMAIN c, c[i] = c[j] PROVE i = j
    <3>1. CASE i \in DOMAIN a /\ j \in DOMAIN a
      BY <1>2, <1>5, <2>1, <3>1 DEF IsInjective
    <3>2. CASE i \notin DOMAIN a /\ j \notin DOMAIN a
      <4>1. i - Len(a) \in DOMAIN b /\ j - Len(a) \in DOMAIN b
            /\ i = Len(a) + (i - Len(a)) /\ j = Len(a) + (j - Len(a))
        BY <1>3, <3>2
      <4>2. c[i] = b[i - Len(a)] /\ c[j] = b[j - Len(a)]
        BY <1>2, <4>1, Zenon
      <4>3. i - Len(a) = j - Len(a)
        BY <1>5, <2>1, <4>1, <4>2 DEF IsInjective
      <4>4. QED BY <1>1, <4>1, <4>3
    <3>3. ASSUME NEW k \in DOMAIN c, NEW l \in DOMAIN c, k \in DOMAIN a, l \notin DOMAIN a
          PROVE c[k] # c[l]
      <4>1. l - Len(a) \in DOMAIN b /\ l = Len(a) + (l - Len(a))
        BY <1>3, <3>3
      <4>2. c[l] = b[l - Len(a)] /\ c[k] = a[k]
        BY <1>2, <3>3, <4>1, Zenon
      <4>3. c[l] \in ToSet(b) /\ c[k] \in ToSet(a)
        BY <3>3, <4>1, <4>2 DEF ToSet
      <4>4. QED BY <1>5, <4>3
    <3>4. QED BY <2>1, <3>1, <3>2, <3>3
  <2>2. QED BY <2>1 DEF IsInjective
<1>6. QED BY <1>1, <1>2, <1>4, <1>5 DEF c

\* The beginning of a list, element by element.
LEMMA PrefixIs ==
  ASSUME NEW X, NEW a \in Seq(X), NEW b \in Seq(X)
  PROVE  IsPrefix(a, b) <=> Len(a) <= Len(b) /\ \A i \in DOMAIN a : a[i] = b[i]
<1>1. DOMAIN a = 1..Len(a) /\ Len(a) \in Nat /\ Len(b) \in Nat
  OBVIOUS
<1>2. /\ SubSeq(a, 1, Len(a)) = [i \in 1..Len(a) |-> a[i]]
      /\ SubSeq(b, 1, Len(a)) = [i \in 1..Len(a) |-> b[i]]
  OBVIOUS
<1>3. SubSeq(a, 1, Len(a)) = SubSeq(b, 1, Len(a)) <=> \A i \in 1..Len(a) : a[i] = b[i]
  BY <1>2
<1>4. QED BY <1>1, <1>3 DEF IsPrefix

\* A relation that orders a set.
Orders(rel, set) ==
  /\ \A c \in set : <<c, c>> \notin rel
  /\ \A c, e \in set : c # e => <<c, e>> \in rel \/ <<e, c>> \in rel
  /\ \A c, e, g \in set : <<c, e>> \in rel /\ <<e, g>> \in rel => <<c, g>> \in rel

\* A finite set that is ordered is listed as a whole, and in its order.
LEMMA SortedIs ==
  ASSUME NEW set, IsFiniteSet(set), NEW rel, Orders(rel, set)
  PROVE LET list == Sorted(set, rel) IN
        /\ list \in Seq(set)
        /\ \A c \in set : \E i \in DOMAIN list : list[i] = c
        /\ \A i, j \in DOMAIN list : i < j => <<list[i], list[j]>> \in rel /\ list[i] # list[j]
<1> DEFINE size == Cardinality(set)
           Earlier(c) == {e \in set : <<e, c>> \in rel}
           place == [c \in set |-> Cardinality(Earlier(c))]
           list == Sorted(set, rel)
<1>1. size \in Nat
  BY FS_CardinalityType
<1>2. ASSUME NEW c \in set PROVE IsFiniteSet(Earlier(c)) /\ place[c] \in 0..size - 1
  <2>1. IsFiniteSet(set \ {c}) /\ Cardinality(set \ {c}) = size - 1
    BY FS_RemoveElement
  <2>2. Earlier(c) \in SUBSET (set \ {c})
    BY DEF Orders
  <2>3. IsFiniteSet(Earlier(c)) /\ Cardinality(Earlier(c)) <= size - 1
    BY <2>1, <2>2, FS_Subset
  <2>4. Cardinality(Earlier(c)) \in Nat
    BY <2>3, FS_CardinalityType
  <2>5. QED BY <1>1, <2>3, <2>4
<1>3. ASSUME NEW c \in set, NEW e \in set, <<c, e>> \in rel PROVE place[c] < place[e]
  <2>1. Earlier(c) \in SUBSET Earlier(e) /\ c \in Earlier(e) /\ c \notin Earlier(c)
    BY <1>3 DEF Orders
  <2>2. IsFiniteSet(Earlier(e)) /\ Earlier(e) # Earlier(c)
    BY <1>2, <2>1
  <2>3. /\ Cardinality(Earlier(c)) <= Cardinality(Earlier(e))
        /\ Cardinality(Earlier(e)) # Cardinality(Earlier(c))
    BY <2>1, <2>2, FS_Subset
  <2>4. QED BY <1>1, <1>2, <2>3
<1> HIDE DEF Earlier
<1> DEFINE Places == 0..size - 1
<1>4. place \in [set -> Places]
  BY <1>2
<1>5. \A c, e \in set : <<c, e>> \in rel => place[c] < place[e]
  BY <1>3
<1>6. list = [i \in 1..size |-> CHOOSE c \in set : place[c] = i - 1]
  <2>1. list = [i \in 1..size |-> CHOOSE c \in set : Cardinality(Earlier(c)) = i - 1]
    BY Zenon DEF Sorted, Earlier
  <2>2. \A i : (CHOOSE c \in set : Cardinality(Earlier(c)) = i - 1)
                 = CHOOSE c \in set : place[c] = i - 1
    OBVIOUS
  <2>3. QED BY <2>1, <2>2
<1> HIDE DEF place, list
<1>7. \A c, e \in set : place[c] = place[e] => c = e
  <2>1. ASSUME NEW c \in set, NEW e \in set, c # e PROVE place[c] # place[e]
    <3>1. <<c, e>> \in rel \/ <<e, c>> \in rel
      BY <2>1 DEF Orders
    <3>2. place[c] < place[e] \/ place[e] < place[c]
      BY <1>5, <3>1
    <3>3. QED BY <1>1, <1>4, <3>2
  <2>2. QED BY <2>1
<1>8. place \in Injection(set, Places)
  BY <1>4, <1>7 DEF Injection, IsInjective
<1>9. IsFiniteSet(0..size - 1) /\ Cardinality(0..size - 1) = size
  BY <1>1, FS_Interval
<1>10. place \in Surjection(set, Places)
  BY <1>8, <1>9, FS_Injection
<1>11. \A i \in 1..size : \E c \in set : place[c] = i - 1
  <2>1. \A n \in Places : \E c \in set : place[c] = n
    BY <1>10 DEF Surjection
  <2>2. \A i \in 1..size : i - 1 \in Places
    BY <1>1
  <2>3. QED BY <2>1, <2>2
<1>12. \A i \in 1..size : list[i] \in set /\ place[list[i]] = i - 1
  BY <1>6, <1>11
<1>13. list \in Seq(set) /\ DOMAIN list = 1..size
  BY <1>1, <1>6, <1>12
<1>14. ASSUME NEW c \in set PROVE \E i \in DOMAIN list : list[i] = c
  <2>1. place[c] \in 0..size - 1
    BY <1>2
  <2> DEFINE i == place[c] + 1
  <2>2. i \in 1..size /\ i - 1 = place[c]
    BY <1>1, <2>1
  <2> HIDE DEF i
  <2>3. list[i] \in set /\ place[list[i]] = place[c]
    BY <1>12, <2>2
  <2>4. QED BY <1>7, <1>13, <2>2, <2>3
<1>15. ASSUME NEW i \in DOMAIN list, NEW j \in DOMAIN list, i < j
       PROVE <<list[i], list[j]>> \in rel /\ list[i] # list[j]
  <2>1. place[list[i]] < place[list[j]] /\ list[i] \in set /\ list[j] \in set
    BY <1>1, <1>12, <1>13, <1>15
  <2>2. list[i] # list[j] /\ ~(<<list[j], list[i]>> \in rel)
    BY <1>1, <1>4, <1>5, <2>1
  <2>3. QED BY <2>1, <2>2 DEF Orders
<1>16. QED BY <1>13, <1>14, <1>15 DEF list

\* A set that is ordered is listed once, and as a whole.
LEMMA SortedOnce ==
  ASSUME NEW set, IsFiniteSet(set), NEW rel, Orders(rel, set)
  PROVE  /\ Sorted(set, rel) \in Seq(set) /\ IsInjective(Sorted(set, rel))
         /\ ToSet(Sorted(set, rel)) = set
<1> DEFINE list == Sorted(set, rel)
<1>1. /\ list \in Seq(set)
      /\ \A c \in set : \E i \in DOMAIN list : list[i] = c
      /\ \A i, j \in DOMAIN list : i < j => <<list[i], list[j]>> \in rel /\ list[i] # list[j]
  BY SortedIs, Zenon
<1> HIDE DEF list
<1>2. DOMAIN list = 1..Len(list) /\ Len(list) \in Nat
  BY <1>1
<1>3. IsInjective(list)
  <2>1. \A i, j \in DOMAIN list : i = j \/ i < j \/ j < i
    BY <1>2
  <2>2. QED BY <1>1, <2>1, Zenon DEF IsInjective
<1>4. ToSet(list) = set
  BY <1>1 DEF ToSet
<1>5. QED BY <1>1, <1>3, <1>4 DEF list

-----------------------------------------------------------------------------
(* 3. Preferences.                                                         *)

\* The shape of the state, as the steps need it.
PreferencesFit ==
  /\ value \in [Devices -> BOOLEAN] /\ known \subseteq Devices \X Keys /\ allowed \in BOOLEAN
  /\ link \in [Devices -> {"off", "on", "ready"}]
  /\ up \in [Devices -> Seq(Entries \union {Asked})]
  /\ down \in [Devices -> Seq(News)]
  /\ waiting \in [Devices -> Seq(Entries)]
  /\ heard \in [Devices -> BOOLEAN] /\ override \in [Devices -> SUBSET BOOLEAN]
  /\ sets \in Nat

\* A device that is connected has heard, or is about to hear last, what the
\* Mac has.
Hears(d) ==
  /\ link[d] = "off" => down[d] = <<>>
  /\ link[d] # "ready" => up[d] = <<>>
  /\ \A i \in DOMAIN down[d] : down[d][i].what = "auth" => i = 1 /\ link[d] = "on"
  /\ link[d] # "off" /\ about # "archive" =>
       IF down[d] = <<>> THEN heard[d] = value[d]
       ELSE down[d][Len(down[d])].what # "auth" /\ down[d][Len(down[d])].is = value[d]

\* What is shown in the place of what was told waits for an answer.
Waits(d) ==
  /\ override[d] # {} => Overridden
  /\ \A o \in override[d] : \E i \in DOMAIN waiting[d] : waiting[d][i].to = o

\* What was asked for later has the greater key.
InOrder(s) ==
  \A i, k \in DOMAIN s : i < k /\ s[i] # Asked /\ s[k] # Asked => s[i].key < s[k].key

\* The Mac has kept the result of this key of this device.
IsKnown(d, k) == <<d, k>> \in known

\* Both what waits and what is under way are in their order.
Ordered(d) ==
  /\ InOrder(up[d]) /\ InOrder(waiting[d])
  /\ \A i \in DOMAIN up[d] : up[d][i].key <= sets
  /\ \A i \in DOMAIN waiting[d] : waiting[d][i].key <= sets
  /\ \A k \in Keys : IsKnown(d, k) => k <= sets

\* Of what replaces an earlier one only the last waits; nothing that is known
\* or under way is newer than it, nor what is known newer than what comes.
LastCounts(d) ==
  about # "archive" =>
    /\ \A e, i \in DOMAIN waiting[d] : e = i
    /\ \A e \in DOMAIN waiting[d] :
         /\ \A i \in DOMAIN up[d] : up[d][i].key <= waiting[d][e].key
         /\ \A k \in Keys : IsKnown(d, k) => k <= waiting[d][e].key
    /\ \A i \in DOMAIN up[d] : up[d][i] # Asked =>
         \A k \in Keys : IsKnown(d, k) => k <= up[d][i].key

\* An archive entry that waits is under way while there is a connection.
AllSent(d) ==
  about = "archive" /\ allowed /\ link[d] = "ready" =>
    \A e \in DOMAIN waiting[d] :
      IsKnown(d, waiting[d][e].key) \/ \E i \in DOMAIN up[d] : up[d][i] = waiting[d][e]

\* Of archive entries, those before one that is known are known.
EarlierKnown(d) ==
  about = "archive" /\ allowed =>
    /\ \A k \in Keys : IsKnown(d, k) =>
         /\ \A i \in DOMAIN up[d] : up[d][i] # Asked /\ up[d][i].key < k
              => IsKnown(d, up[d][i].key)
         /\ \A i \in DOMAIN waiting[d] : waiting[d][i].key < k => IsKnown(d, waiting[d][i].key)

\* Together they are inductive.
PreferencesInv ==
  /\ PreferencesFit /\ (about = "profile" => known = {}) /\ about \in Kinds
  /\ \A d \in Devices :
       Hears(d) /\ Waits(d) /\ Ordered(d) /\ LastCounts(d) /\ AllSent(d) /\ EarlierKnown(d)

\* Asking for a snapshot is no entry.
LEMMA Asking == Asked \notin Entries /\ Asked.key = 0 /\ \A c \in Entries : c.key \in Nat \ {0}
  BY DEF Asked, Entries, Keys

\* What is known of the rest of a queue,
LEMMA Tails ==
  ASSUME NEW X, NEW s \in Seq(X), s # <<>>
  PROVE /\ Tail(s) \in Seq(X) /\ Head(s) = s[1] /\ Head(s) \in X
        /\ DOMAIN Tail(s) = 1..Len(s) - 1 /\ DOMAIN s = 1..Len(s) /\ Len(s) \in Nat \ {0}
        /\ Len(Tail(s)) = Len(s) - 1
        /\ \A i \in DOMAIN Tail(s) : Tail(s)[i] = s[i + 1] /\ i + 1 \in DOMAIN s
        /\ \A i \in DOMAIN s : i = 1 \/ (i - 1 \in DOMAIN Tail(s) /\ Tail(s)[i - 1] = s[i])
        /\ (Tail(s) = <<>> <=> Len(s) = 1)
<1>1. Len(s) \in Nat /\ Len(s) # 0 /\ DOMAIN s = 1..Len(s)
  BY EmptySeq
<1>2. Tail(s) \in Seq(X) /\ Len(Tail(s)) = Len(s) - 1 /\ \A i \in 1..Len(s) - 1 : Tail(s)[i] = s[i + 1]
  BY <1>1, HeadTailProperties
<1>3. QED BY <1>1, <1>2, EmptySeq

\* and of a queue with one more.
LEMMA Appends ==
  ASSUME NEW X, NEW s \in Seq(X), NEW x \in X
  PROVE /\ Append(s, x) \in Seq(X)
        /\ DOMAIN Append(s, x) = 1..Len(s) + 1 /\ DOMAIN s = 1..Len(s) /\ Len(s) \in Nat
        /\ Len(Append(s, x)) = Len(s) + 1 /\ Append(s, x) # <<>>
        /\ Append(s, x)[Len(s) + 1] = x
        /\ \A i \in DOMAIN s : Append(s, x)[i] = s[i] /\ i \in DOMAIN Append(s, x)
        /\ \A i \in DOMAIN Append(s, x) : i \in DOMAIN s \/ i = Len(s) + 1
  OBVIOUS

\* At first nothing is set.
LEMMA PreferencesInitially == PreferenceInit => PreferencesInv
  BY Asking, PreferenceBounds
     DEF PreferenceInit, PreferencesInv, PreferencesFit, Hears, Waits, Ordered, LastCounts,
         AllSent, EarlierKnown, InOrder, IsKnown, Overridden

\* Setting keeps it,
LEMMA SetKeeps ==
  ASSUME PreferencesInv, NEW d \in Devices, NEW v \in BOOLEAN, Set(d, v)
  PROVE PreferencesInv'
<1> DEFINE c == [key |-> sets + 1, to |-> v]
<1>1. c \in Entries /\ c # Asked /\ c.key = sets + 1 /\ c.to = v /\ sets \in Nat
  BY Asking, PreferenceBounds DEF Set, PreferencesInv, PreferencesFit, Entries, Keys
<1>2. /\ waiting' = [waiting EXCEPT ![d] = Enqueue(waiting[d], c)]
      /\ up' = IF link[d] = "ready" THEN [up EXCEPT ![d] = Append(up[d], c)] ELSE up
      /\ sets' = sets + 1
      /\ UNCHANGED <<about, value, known, allowed, link, down, heard>>
      /\ override' = IF Overridden THEN [override EXCEPT ![d] = {v} \ {heard[d]}] ELSE override
  BY DEF Set, macVars
<1> HIDE DEF c
<1>3. waiting[d] \in Seq(Entries) /\ up[d] \in Seq(Entries \union {Asked})
  BY DEF PreferencesInv, PreferencesFit
<1> DEFINE box == Enqueue(waiting[d], c)
<1>4. /\ box \in Seq(Entries) /\ \E i \in DOMAIN box : box[i] = c
      /\ \A i \in DOMAIN box : box[i] = c \/ (about = "archive" /\ i \in DOMAIN waiting[d] /\ box[i] = waiting[d][i])
      /\ \A i, k \in DOMAIN box : i < k => i \in DOMAIN waiting[d] /\ box[i] = waiting[d][i]
      /\ about # "archive" => \A i, k \in DOMAIN box : i = k
  <2>1. CASE about # "archive" /\ waiting[d] # <<>>
    <3>1. box = <<c>>
      BY <2>1 DEF Enqueue
    <3>2. QED BY <1>1, <3>1
  <2>2. CASE about # "archive" /\ waiting[d] = <<>>
    <3>1. box = Append(<<>>, c)
      BY <2>2 DEF Enqueue
    <3>2. box = <<c>>
      BY <3>1
    <3>3. QED BY <1>1, <3>2
  <2>3. CASE about = "archive"
    <3>1. box = Append(waiting[d], c)
      BY <2>3 DEF Enqueue
    <3>2. QED BY <1>1, <1>3, <2>3, <3>1, Appends
  <2>4. QED BY <2>1, <2>2, <2>3
<1> HIDE DEF box
<1>5. waiting'[d] = box /\ \A e \in Devices : e # d
        => waiting'[e] = waiting[e] /\ up'[e] = up[e] /\ override'[e] = override[e]
  BY <1>2 DEF box, PreferencesInv, PreferencesFit
<1>6. /\ up'[d] \in Seq(Entries \union {Asked})
      /\ \A i \in DOMAIN up[d] : i \in DOMAIN up'[d] /\ up'[d][i] = up[d][i]
      /\ \A i \in DOMAIN up'[d] : (i \in DOMAIN up[d] /\ up'[d][i] = up[d][i]) \/ up'[d][i] = c
      /\ \A i, k \in DOMAIN up'[d] : i < k => i \in DOMAIN up[d]
      /\ link[d] = "ready" => \E i \in DOMAIN up'[d] : up'[d][i] = c
      /\ link[d] # "ready" => up'[d] = up[d]
  <2>1. CASE link[d] = "ready"
    <3>1. up'[d] = Append(up[d], c)
      BY <1>2, <2>1 DEF PreferencesInv, PreferencesFit
    <3>2. QED BY SMTT(30), <1>1, <1>3, <2>1, <3>1, Appends
  <2>2. CASE link[d] # "ready"
    BY <1>2, <1>3, <2>2
  <2>3. QED BY <2>1, <2>2
<1>7. PreferencesFit'
  <2>1. up' \in [Devices -> Seq(Entries \union {Asked})]
    BY <1>1, <1>2, <1>6 DEF PreferencesInv, PreferencesFit
  <2>2. waiting' \in [Devices -> Seq(Entries)]
    BY <1>2, <1>4 DEF PreferencesInv, PreferencesFit, box
  <2>3. override' \in [Devices -> SUBSET BOOLEAN]
    BY <1>2 DEF PreferencesInv, PreferencesFit
  <2>4. QED BY <1>1, <1>2, <2>1, <2>2, <2>3 DEF PreferencesInv, PreferencesFit
<1>8. ASSUME NEW e \in Devices PROVE Hears(e)'
  BY <1>2, <1>5, <1>6 DEF PreferencesInv, Hears
<1>9. ASSUME NEW e \in Devices PROVE Waits(e)'
  <2>1. CASE e = d
    <3>1. CASE Overridden
      <4>1. override'[d] \subseteq {v}
        BY <1>2, <3>1 DEF PreferencesInv, PreferencesFit
      <4>2. QED BY <1>1, <1>2, <1>4, <1>5, <2>1, <3>1, <4>1 DEF Waits, Overridden
    <3>2. CASE ~Overridden
      BY <1>2, <2>1, <3>2 DEF Waits, PreferencesInv, Overridden
    <3>3. QED BY <3>1, <3>2
  <2>2. CASE e # d
    BY <1>2, <1>5, <2>2 DEF Waits, PreferencesInv, Overridden
  <2>3. QED BY <2>1, <2>2
<1>10. ASSUME NEW e \in Devices PROVE Ordered(e)'
  <2>1. CASE e = d
    <3>1. Ordered(d)
      BY DEF PreferencesInv
    <3>10. \A i \in DOMAIN up[d] : up[d][i].key \in Nat /\ up[d][i].key < sets + 1
      BY <1>1, <1>3, <3>1, Asking DEF Ordered
    <3>11. \A i \in DOMAIN waiting[d] : waiting[d][i].key \in Nat /\ waiting[d][i].key < sets + 1
      BY <1>1, <1>3, <3>1, Asking DEF Ordered
    <3>2. InOrder(up[d])'
      <4>1. ASSUME NEW i \in DOMAIN up'[d], NEW k \in DOMAIN up'[d], i < k,
                   up'[d][i] # Asked, up'[d][k] # Asked
            PROVE up'[d][i].key < up'[d][k].key
        <5>1. i \in DOMAIN up[d] /\ up'[d][i] = up[d][i]
          BY <1>6, <4>1
        <5>2. CASE k \in DOMAIN up[d] /\ up'[d][k] = up[d][k]
          BY <3>1, <4>1, <5>1, <5>2 DEF Ordered, InOrder
        <5>3. CASE up'[d][k] = c
          BY <1>1, <3>10, <5>1, <5>3
        <5>4. QED BY <1>6, <5>2, <5>3
      <4>2. QED BY <4>1 DEF InOrder
    <3>3. InOrder(waiting[d])'
      <4>1. ASSUME NEW i \in DOMAIN box, NEW k \in DOMAIN box, i < k, box[i] # Asked, box[k] # Asked
            PROVE box[i].key < box[k].key
        <5>1. i \in DOMAIN waiting[d] /\ box[i] = waiting[d][i]
          BY <1>4, <4>1
        <5>2. CASE k \in DOMAIN waiting[d] /\ box[k] = waiting[d][k]
          BY <3>1, <4>1, <5>1, <5>2 DEF Ordered, InOrder
        <5>3. CASE box[k] = c
          BY <1>1, <3>11, <5>1, <5>3
        <5>4. QED BY <1>4, <5>2, <5>3
      <4>2. QED BY <1>5, <4>1 DEF InOrder
    <3>4. \A i \in DOMAIN up'[d] : up'[d][i].key <= sets'
      <4>1. \A i \in DOMAIN up[d] : up[d][i].key \in Nat /\ up[d][i].key <= sets
        BY <1>3, <3>1, Asking DEF Ordered
      <4>2. QED BY <1>1, <1>2, <1>6, <4>1
    <3>5. \A i \in DOMAIN waiting'[d] : waiting'[d][i].key <= sets'
      <4>1. \A i \in DOMAIN waiting[d] : waiting[d][i].key \in Nat /\ waiting[d][i].key <= sets
        BY <1>3, <3>1, Asking DEF Ordered
      <4>2. QED BY <1>1, <1>2, <1>4, <1>5, <4>1
    <3>6. \A k \in Keys : IsKnown(d, k)' => k <= sets'
      BY <1>1, <1>2, <3>1, PreferenceBounds DEF Ordered, IsKnown, Keys
    <3>7. QED BY <2>1, <3>2, <3>3, <3>4, <3>5, <3>6 DEF Ordered, IsKnown
  <2>2. CASE e # d
    <3>1. Ordered(e) /\ up[e] \in Seq(Entries \union {Asked}) /\ waiting[e] \in Seq(Entries)
      BY DEF PreferencesInv, PreferencesFit
    <3>2. \A i \in DOMAIN up[e] : up[e][i].key \in Nat
      BY <3>1, Asking
    <3>3. \A i \in DOMAIN waiting[e] : waiting[e][i].key \in Nat
      BY <3>1, Asking
    <3>4. up'[e] = up[e] /\ waiting'[e] = waiting[e] /\ sets' = sets + 1 /\ known' = known
      BY <1>2, <1>5, <2>2
    <3>5. \A k \in Keys : k \in Nat
      BY DEF Keys
    <3>6. QED BY <1>1, <3>1, <3>2, <3>3, <3>4, <3>5 DEF Ordered, InOrder, IsKnown
  <2>3. QED BY <2>1, <2>2
<1>11. ASSUME NEW e \in Devices PROVE LastCounts(e)'
  <2>1. CASE e = d /\ about # "archive"
    <3>1. \A i \in DOMAIN box : box[i] = c
      BY <1>4, <2>1
    <3>2. \A k \in Keys : IsKnown(d, k)' => k <= sets'
      BY <1>10 DEF Ordered, IsKnown
    <3>3. \A i \in DOMAIN up'[d] : up'[d][i].key <= sets'
      BY <1>10 DEF Ordered
    <3>5. \A i, k \in DOMAIN box : i = k
      BY <1>4, <2>1
    <3>4. QED BY <1>1, <1>2, <1>5, <1>6, <2>1, <3>1, <3>2, <3>3, <3>5
       DEF LastCounts, PreferencesInv, IsKnown
  <2>2. CASE e # d \/ about = "archive"
    BY <1>2, <1>5, <2>2 DEF LastCounts, PreferencesInv, IsKnown
  <2>3. QED BY <2>1, <2>2
<1>12. ASSUME NEW e \in Devices PROVE AllSent(e)' /\ EarlierKnown(e)'
  <2>1. CASE e = d /\ about = "archive" /\ allowed
    <3>1. \A k \in Keys : IsKnown(d, k) => k \in Nat /\ k <= sets
      BY PreferenceBounds DEF Ordered, PreferencesInv, Keys
    <3>2. \A k \in Keys : IsKnown(d, k) => ~(c.key < k)
      BY <1>1, <3>1
    <3>3. AllSent(d) /\ EarlierKnown(d)
      BY DEF PreferencesInv
    <3>4. ASSUME link'[d] = "ready", NEW b \in DOMAIN box
          PROVE <<d, box[b].key>> \in known' \/ \E i \in DOMAIN up'[d] : up'[d][i] = box[b]
      <4>1. CASE box[b] = c
        BY <1>2, <1>6, <3>4, <4>1
      <4>2. CASE b \in DOMAIN waiting[d] /\ box[b] = waiting[d][b]
        BY <1>2, <1>6, <2>1, <3>3, <3>4, <4>2 DEF AllSent, EarlierKnown, IsKnown
      <4>3. QED BY <1>4, <4>1, <4>2
    <3>5. ASSUME NEW k \in Keys, <<d, k>> \in known,
                 NEW i \in DOMAIN up'[d], up'[d][i] # Asked, up'[d][i].key < k
          PROVE <<d, up'[d][i].key>> \in known
      BY <1>6, <2>1, <3>2, <3>3, <3>5 DEF AllSent, EarlierKnown, IsKnown
    <3>7. ASSUME NEW k \in Keys, <<d, k>> \in known, NEW i \in DOMAIN box, box[i].key < k
          PROVE <<d, box[i].key>> \in known
      BY <1>4, <2>1, <3>2, <3>3, <3>7 DEF AllSent, EarlierKnown, IsKnown
    <3>8. link'[d] = "ready" => \A b \in DOMAIN waiting'[d] :
            <<d, waiting'[d][b].key>> \in known' \/ \E i \in DOMAIN up'[d] : up'[d][i] = waiting'[d][b]
      BY <1>5, <3>4
    <3>9. known' = known /\ about' = about /\ allowed' = allowed
      BY <1>2
    <3>10. \A k \in Keys : <<d, k>> \in known' =>
             /\ \A i \in DOMAIN up'[d] : up'[d][i] # Asked /\ up'[d][i].key < k
                  => <<d, up'[d][i].key>> \in known'
             /\ \A i \in DOMAIN waiting'[d] : waiting'[d][i].key < k
                  => <<d, waiting'[d][i].key>> \in known'
      BY <1>5, <3>5, <3>7, <3>9
    <3>6. QED BY <2>1, <3>8, <3>10 DEF AllSent, EarlierKnown, IsKnown
  <2>2. CASE e # d \/ about # "archive" \/ ~allowed
    <3>1. AllSent(e) /\ EarlierKnown(e)
      BY DEF PreferencesInv
    <3>2. CASE e # d
      <4>1. up'[e] = up[e] /\ waiting'[e] = waiting[e]
        BY <1>5, <3>2
      <4>2. link' = link /\ known' = known /\ allowed' = allowed /\ about' = about
        BY <1>2
      <4>3. AllSent(e)'
        BY <3>1, <4>1, <4>2 DEF AllSent, IsKnown
      <4>4. EarlierKnown(e)'
        BY <3>1, <4>1, <4>2 DEF EarlierKnown, IsKnown
      <4>5. QED BY <4>3, <4>4
    <3>3. CASE about # "archive" \/ ~allowed
      BY <1>2, <3>3 DEF AllSent, EarlierKnown
    <3>4. QED BY <2>2, <3>2, <3>3
  <2>3. QED BY <2>1, <2>2
<1>13. QED BY <1>2, <1>7, <1>8, <1>9, <1>10, <1>11, <1>12 DEF PreferencesInv

\* and asking anew.
LEMMA AskKeeps ==
  ASSUME PreferencesInv, NEW d \in Devices, AskAnew(d)
  PROVE PreferencesInv'
<1>1. /\ link[d] = "ready" /\ up' = [up EXCEPT ![d] = Append(up[d], Asked)]
      /\ UNCHANGED <<about, value, known, allowed, link, down, waiting, heard, override, sets>>
  BY DEF AskAnew, macVars, deviceVars
<1>2. up[d] \in Seq(Entries \union {Asked}) /\ Asked \in Entries \union {Asked}
  BY DEF PreferencesInv, PreferencesFit
<1>3. /\ up'[d] = Append(up[d], Asked)
      /\ \A e \in Devices : e # d => up'[e] = up[e]
  BY <1>1 DEF PreferencesInv, PreferencesFit
<1>4. /\ up'[d] \in Seq(Entries \union {Asked})
      /\ \A i \in DOMAIN up[d] : i \in DOMAIN up'[d] /\ up'[d][i] = up[d][i]
      /\ \A i \in DOMAIN up'[d] : (i \in DOMAIN up[d] /\ up'[d][i] = up[d][i]) \/ up'[d][i] = Asked
  BY <1>2, <1>3, Appends
<1>5. PreferencesFit'
  BY <1>1, <1>3, <1>4 DEF PreferencesInv, PreferencesFit
<1>6. ASSUME NEW e \in Devices PROVE Hears(e)' /\ Waits(e)'
  BY <1>1, <1>3 DEF PreferencesInv, Hears, Waits, Overridden
<1>7. \A i \in DOMAIN waiting[d] : waiting[d][i].key \in Nat
  BY Asking DEF PreferencesInv, PreferencesFit
<1>8. ASSUME NEW e \in Devices
      PROVE Ordered(e)' /\ LastCounts(e)' /\ AllSent(e)' /\ EarlierKnown(e)'
  <2>1. Ordered(e) /\ LastCounts(e) /\ AllSent(e) /\ EarlierKnown(e) /\ sets \in Nat
    BY DEF PreferencesInv, PreferencesFit
  <2>2. CASE e = d
    <3>1. Ordered(d)'
      BY <1>1, <1>4, <2>1, <2>2, Asking DEF Ordered, InOrder, IsKnown
    <3>2. LastCounts(d)'
      BY <1>1, <1>4, <1>7, <2>1, <2>2, Asking DEF LastCounts, IsKnown
    <3>3. EarlierKnown(d)'
      <4>1. ASSUME about = "archive" /\ allowed, NEW k \in Keys, <<d, k>> \in known,
                   NEW i \in DOMAIN up'[d], up'[d][i] # Asked, up'[d][i].key < k
            PROVE <<d, up'[d][i].key>> \in known
        BY <1>4, <2>1, <2>2, <4>1 DEF EarlierKnown, IsKnown
      <4>2. ASSUME about = "archive" /\ allowed, NEW k \in Keys, <<d, k>> \in known,
                   NEW i \in DOMAIN waiting[d], waiting[d][i].key < k
            PROVE <<d, waiting[d][i].key>> \in known
        BY <2>1, <2>2, <4>2 DEF EarlierKnown, IsKnown
      <4>3. QED BY <1>1, <4>1, <4>2 DEF EarlierKnown, IsKnown
    <3>5. AllSent(d)'
      <4>1. ASSUME NEW b \in DOMAIN waiting[d], NEW i \in DOMAIN up[d], up[d][i] = waiting[d][b]
            PROVE \E j \in DOMAIN up'[d] : up'[d][j] = waiting[d][b]
        BY <1>4, <4>1
      <4>2. QED BY <1>1, <2>1, <2>2, <4>1 DEF AllSent, IsKnown
    <3>4. QED BY <2>2, <3>1, <3>2, <3>3, <3>5
  <2>3. CASE e # d
    <3>1. up'[e] = up[e]
      BY <1>3, <2>3
    <3>2. Ordered(e)'
      BY <1>1, <2>1, <3>1 DEF Ordered, InOrder, IsKnown
    <3>3. LastCounts(e)'
      BY <1>1, <2>1, <3>1 DEF LastCounts, IsKnown
    <3>4. AllSent(e)'
      BY <1>1, <2>1, <3>1 DEF AllSent, IsKnown
    <3>5. EarlierKnown(e)'
      BY <1>1, <2>1, <3>1 DEF EarlierKnown, IsKnown
    <3>6. QED BY <3>2, <3>3, <3>4, <3>5
  <2>4. QED BY <2>2, <2>3
<1>9. QED BY <1>1, <1>5, <1>6, <1>8 DEF PreferencesInv

\* A device that hears what comes first will hear the rest.
LEMMA TailHears ==
  ASSUME PreferencesInv, NEW d \in Devices, down[d] # <<>>,
         down' = [down EXCEPT ![d] = Tail(down[d])],
         link' = (IF Head(down[d]).what = "auth" THEN [link EXCEPT ![d] = "ready"] ELSE link),
         value' = value, about' = about,
         \A e \in Devices : e # d => heard'[e] = heard[e] /\ up'[e] = up[e],
         Head(down[d]).what # "auth" => heard'[d] = Head(down[d]).is /\ up'[d] = up[d]
  PROVE down' \in [Devices -> Seq(News)] /\ \A e \in Devices : Hears(e)'
<1>1. down[d] \in Seq(News) /\ link[d] # "off"
  BY DEF PreferencesInv, PreferencesFit, Hears
<1>2. down'[d] = Tail(down[d]) /\ \A e \in Devices : e # d => down'[e] = down[e]
  BY DEF PreferencesInv, PreferencesFit
<1>3. \A e \in Devices : e # d => link'[e] = link[e]
  BY DEF PreferencesInv, PreferencesFit
<1>4. link'[d] = IF Head(down[d]).what = "auth" THEN "ready" ELSE link[d]
  BY DEF PreferencesInv, PreferencesFit
<1>5. /\ Tail(down[d]) \in Seq(News) /\ Head(down[d]) = down[d][1]
      /\ DOMAIN down[d] = 1..Len(down[d]) /\ Len(down[d]) \in Nat \ {0}
      /\ DOMAIN Tail(down[d]) = 1..Len(down[d]) - 1
      /\ Len(Tail(down[d])) = Len(down[d]) - 1
      /\ \A i \in DOMAIN Tail(down[d]) : Tail(down[d])[i] = down[d][i + 1] /\ i + 1 \in DOMAIN down[d]
      /\ (Tail(down[d]) = <<>> <=> Len(down[d]) = 1)
  BY <1>1, Tails
<1>6. down' \in [Devices -> Seq(News)]
  BY <1>2, <1>5 DEF PreferencesInv, PreferencesFit
<1>7. Hears(d)'
  <2>1. Hears(d)
    BY DEF PreferencesInv
  <2>2. link'[d] # "off"
    BY <1>1, <1>4
  <2>3. link'[d] # "ready" => up'[d] = <<>>
    BY <1>4, <2>1 DEF Hears
  <2>4. \A i \in DOMAIN down'[d] : down'[d][i].what # "auth"
    <3>1. \A i \in DOMAIN Tail(down[d]) : i + 1 # 1 /\ i + 1 \in DOMAIN down[d]
      BY <1>5
    <3>2. \A i \in DOMAIN down[d] : i # 1 => down[d][i].what # "auth"
      BY <2>1 DEF Hears
    <3>3. \A i \in DOMAIN Tail(down[d]) : Tail(down[d])[i].what # "auth"
      BY <1>5, <3>1, <3>2
    <3>4. QED BY <1>2, <3>3
  <2>5. ASSUME about' # "archive"
        PROVE IF down'[d] = <<>> THEN heard'[d] = value'[d]
              ELSE down'[d][Len(down'[d])].what # "auth" /\ down'[d][Len(down'[d])].is = value'[d]
    <3>1. down[d][Len(down[d])].what # "auth" /\ down[d][Len(down[d])].is = value[d]
      BY <1>1, <2>1, <2>5 DEF Hears
    <3>2. CASE Len(down[d]) = 1
      BY <1>2, <1>5, <3>1, <3>2
    <3>3. CASE Len(down[d]) # 1
      <4>1. Len(down[d]) - 1 \in DOMAIN Tail(down[d]) /\ Len(down[d]) - 1 + 1 = Len(down[d])
        BY <1>5, <3>3
      <4>2. QED BY <1>2, <1>5, <3>1, <3>3, <4>1
    <3>4. QED BY <3>2, <3>3
  <2>6. QED BY <2>2, <2>3, <2>4, <2>5 DEF Hears
<1>8. ASSUME NEW e \in Devices, e # d PROVE Hears(e)'
  BY <1>2, <1>3, <1>8 DEF PreferencesInv, Hears
<1>9. QED BY <1>6, <1>7, <1>8

\* Entries that are taken away leave the others as they were.
LEMMA LeavesOrder ==
  ASSUME PreferencesInv, NEW d \in Devices, NEW left \in Seq(Entries), NEW done,
         LeftOf(left, waiting[d], Len(waiting[d]), done),
         waiting' = [waiting EXCEPT ![d] = left],
         UNCHANGED <<about, known, allowed, link, up, sets>>
  PROVE \A e \in Devices : Ordered(e)' /\ LastCounts(e)' /\ AllSent(e)' /\ EarlierKnown(e)'
<1>1. waiting'[d] = left /\ \A e \in Devices : e # d => waiting'[e] = waiting[e]
  BY DEF PreferencesInv, PreferencesFit
<1>2. DOMAIN waiting[d] = 1..Len(waiting[d])
  BY DEF PreferencesInv, PreferencesFit
<1>3. \A i \in DOMAIN left : \E j \in DOMAIN waiting[d] : left[i] = waiting[d][j]
  BY <1>2 DEF LeftOf
<1>4. ASSUME NEW e \in Devices, e # d
      PROVE Ordered(e)' /\ LastCounts(e)' /\ AllSent(e)' /\ EarlierKnown(e)'
  <2>1. Ordered(e) /\ LastCounts(e) /\ AllSent(e) /\ EarlierKnown(e) /\ waiting'[e] = waiting[e]
    BY <1>1, <1>4 DEF PreferencesInv
  <2>2. Ordered(e)'
    BY <2>1 DEF Ordered, InOrder, IsKnown
  <2>3. LastCounts(e)'
    BY <2>1 DEF LastCounts, IsKnown
  <2>4. AllSent(e)'
    BY <2>1 DEF AllSent, IsKnown
  <2>5. EarlierKnown(e)'
    BY SMTT(30), <2>1 DEF EarlierKnown, IsKnown
  <2>6. QED BY <2>2, <2>3, <2>4, <2>5
<1>5. Ordered(d) /\ LastCounts(d) /\ AllSent(d) /\ EarlierKnown(d)
  BY DEF PreferencesInv
<1>6. Ordered(d)'
  <2>1. InOrder(left)
    <3>1. ASSUME NEW i \in DOMAIN left, NEW k \in DOMAIN left, i < k, left[i] # Asked, left[k] # Asked
          PROVE left[i].key < left[k].key
      <4>1. PICK j \in 1..Len(waiting[d]), l \in 1..Len(waiting[d]) :
              j < l /\ left[i] = waiting[d][j] /\ left[k] = waiting[d][l]
        BY <3>1 DEF LeftOf
      <4>2. QED BY <1>2, <1>5, <3>1, <4>1 DEF Ordered, InOrder
    <3>2. QED BY <3>1 DEF InOrder
  <2>2. \A i \in DOMAIN left : left[i].key <= sets
    BY <1>3, <1>5 DEF Ordered
  <2>3. QED BY <1>1, <1>5, <2>1, <2>2 DEF Ordered, InOrder, IsKnown
<1>7. LastCounts(d)'
  <2>1. ASSUME about # "archive", NEW i \in DOMAIN left, NEW k \in DOMAIN left PROVE ~(i < k)
    <3>1. SUFFICES ASSUME i < k PROVE FALSE
      OBVIOUS
    <3>2. PICK j \in 1..Len(waiting[d]), l \in 1..Len(waiting[d]) : j < l
      BY <3>1 DEF LeftOf
    <3>3. j = l
      BY <1>2, <1>5, <2>1, <3>2 DEF LastCounts
    <3>4. QED BY <3>2, <3>3
  <2>2. about # "archive" => \A i, k \in DOMAIN left : i = k
    BY <2>1
  <2>3. QED BY <1>1, <1>3, <1>5, <2>2 DEF LastCounts, IsKnown
<1>8. AllSent(d)'
  <2>1. ASSUME about = "archive" /\ allowed /\ link[d] = "ready", NEW b \in DOMAIN left
        PROVE <<d, left[b].key>> \in known \/ \E i \in DOMAIN up[d] : up[d][i] = left[b]
    BY <1>3, <1>5, <2>1 DEF AllSent, IsKnown
  <2>2. QED BY <1>1, <2>1 DEF AllSent, IsKnown
<1>10. EarlierKnown(d)'
  <2>1. ASSUME about = "archive" /\ allowed, NEW k \in Keys, IsKnown(d, k),
               NEW i \in DOMAIN left, left[i].key < k
        PROVE IsKnown(d, left[i].key)
    BY <1>3, <1>5, <2>1 DEF EarlierKnown
  <2>2. QED BY <1>1, <1>5, <2>1 DEF EarlierKnown, IsKnown
<1>9. QED BY <1>4, <1>6, <1>7, <1>8, <1>10

\* Hearing from the Mac keeps the invariant,
LEMMA ReceiveKeeps ==
  ASSUME PreferencesInv, NEW d \in Devices, Receive(d)
  PROVE PreferencesInv'
<1> DEFINE n == Head(down[d])
<1>1. /\ down[d] # <<>> /\ down' = [down EXCEPT ![d] = Tail(down[d])]
      /\ UNCHANGED <<about, value, known, allowed, sets>>
  BY DEF Receive, macVars
<1>2. n \in News /\ n = down[d][1] /\ 1 \in DOMAIN down[d]
  BY <1>1, Tails DEF PreferencesInv, PreferencesFit
<1>3. CASE n.what = "auth"
  <2>1. /\ link' = [link EXCEPT ![d] = "ready"]
        /\ up' = [up EXCEPT ![d] = up[d] \o waiting[d]]
        /\ UNCHANGED <<waiting, heard, override>>
    BY <1>3 DEF Receive, Replay, deviceVars
  <2>2. up[d] = <<>> /\ link[d] = "on"
    BY <1>2, <1>3 DEF PreferencesInv, Hears
  <2>3. up'[d] = waiting[d] /\ \A e \in Devices : e # d => up'[e] = up[e]
    BY <2>1, <2>2 DEF PreferencesInv, PreferencesFit
  <2>4. down' \in [Devices -> Seq(News)] /\ \A e \in Devices : Hears(e)'
    BY <1>1, <1>3, <2>1, <2>3, TailHears
  <2>5. PreferencesFit'
    BY <1>1, <2>1, <2>3, <2>4 DEF PreferencesInv, PreferencesFit
  <2>6. \A e \in Devices : Waits(e)'
    BY <1>1, <2>1 DEF PreferencesInv, Waits, Overridden
  <2>7. ASSUME NEW e \in Devices
        PROVE Ordered(e)' /\ LastCounts(e)' /\ AllSent(e)' /\ EarlierKnown(e)'
    <3>1. CASE e # d
      BY <1>1, <2>1, <2>3, <3>1
         DEF PreferencesInv, PreferencesFit, Ordered, InOrder, LastCounts, AllSent,
             EarlierKnown, IsKnown
    <3>2. Ordered(d) /\ LastCounts(d) /\ AllSent(d) /\ EarlierKnown(d)
      BY DEF PreferencesInv
    <3>3. Ordered(d)'
      BY <1>1, <2>1, <2>3, <3>2 DEF Ordered, InOrder, IsKnown
    <3>4. LastCounts(d)'
      <4>1. ASSUME about # "archive", NEW b \in DOMAIN waiting[d], NEW i \in DOMAIN waiting[d]
            PROVE waiting[d][i].key <= waiting[d][b].key
        <5>1. b = i /\ waiting[d][b].key \in Nat
          BY <3>2, <4>1, Asking DEF LastCounts, PreferencesInv, PreferencesFit
        <5>2. QED BY <5>1
      <4>2. QED BY <1>1, <2>1, <2>3, <3>2, <4>1 DEF LastCounts, IsKnown
    <3>5. EarlierKnown(d)'
      <4>1. waiting' = waiting /\ known' = known /\ allowed' = allowed /\ about' = about
        BY <1>1, <2>1
      <4>2. ASSUME about = "archive" /\ allowed, NEW k \in Keys, <<d, k>> \in known,
                   NEW i \in DOMAIN waiting[d], waiting[d][i].key < k
            PROVE <<d, waiting[d][i].key>> \in known
        BY <3>2, <4>2 DEF EarlierKnown, IsKnown
      <4>3. QED BY <2>3, <4>1, <4>2 DEF EarlierKnown, IsKnown
    <3>7. AllSent(d)'
      BY <1>1, <2>1, <2>3, <3>2 DEF AllSent, IsKnown
    <3>6. QED BY <3>1, <3>3, <3>4, <3>5, <3>7
  <2>8. QED BY <1>1, <2>4, <2>5, <2>6, <2>7 DEF PreferencesInv
<1>4. ASSUME NEW done \in SUBSET Entries, n.what # "auth",
             Learn(d, n.is, Without(waiting[d], done)), UNCHANGED <<link, up>>,
             \A o \in BOOLEAN \ {n.is}, c \in Entries : Overridden /\ c.to = o => c \notin done
      PROVE PreferencesInv'
  <2> DEFINE left == Without(waiting[d], done)
  <2>1. /\ waiting' = [waiting EXCEPT ![d] = left]
        /\ heard' = [heard EXCEPT ![d] = n.is]
        /\ override' = [override EXCEPT ![d] = override[d] \ {n.is}]
    BY <1>4 DEF Learn, Settled
  <2>2. left \in Seq(Entries) /\ LeftOf(left, waiting[d], Len(waiting[d]), done)
    BY WithoutIs DEF PreferencesInv, PreferencesFit
  <2> HIDE DEF left
  <2>3. \A e \in Devices : Ordered(e)' /\ LastCounts(e)' /\ AllSent(e)' /\ EarlierKnown(e)'
    BY <1>1, <1>4, <2>1, <2>2, LeavesOrder
  <2>4. heard'[d] = n.is /\ \A e \in Devices : e # d => heard'[e] = heard[e]
    BY <2>1 DEF PreferencesInv, PreferencesFit
  <2>5. down' \in [Devices -> Seq(News)] /\ \A e \in Devices : Hears(e)'
    BY <1>1, <1>4, <2>4, TailHears
  <2>6. PreferencesFit'
    <3>1. waiting' \in [Devices -> Seq(Entries)]
      BY <2>1, <2>2 DEF PreferencesInv, PreferencesFit
    <3>2. heard' \in [Devices -> BOOLEAN] /\ override' \in [Devices -> SUBSET BOOLEAN]
      BY <1>2, <2>1 DEF PreferencesInv, PreferencesFit, News
    <3>3. QED BY <1>1, <1>4, <2>5, <3>1, <3>2 DEF PreferencesInv, PreferencesFit
  <2>7. ASSUME NEW e \in Devices PROVE Waits(e)'
    <3>1. CASE e # d
      BY <1>1, <2>1, <3>1 DEF PreferencesInv, PreferencesFit, Waits, Overridden
    <3>2. Waits(d)
      BY DEF PreferencesInv
    <3>3. waiting'[d] = left /\ override'[d] = override[d] \ {n.is} /\ override[d] \subseteq BOOLEAN
      BY <2>1 DEF PreferencesInv, PreferencesFit
    <3>4. ASSUME NEW o \in override'[d] PROVE \E i \in DOMAIN left : left[i].to = o
      <4>1. o \in override[d] /\ o \in BOOLEAN \ {n.is} /\ Overridden
        BY <3>2, <3>3, <3>4 DEF Waits
      <4>2. PICK j \in DOMAIN waiting[d] : waiting[d][j].to = o
        BY <3>2, <4>1 DEF Waits
      <4>3. waiting[d][j] \in Entries /\ j \in 1..Len(waiting[d])
        BY <4>2 DEF PreferencesInv, PreferencesFit
      <4>4. waiting[d][j] \notin done
        BY <1>4, <4>1, <4>2, <4>3
      <4>5. QED BY <2>2, <4>2, <4>3, <4>4 DEF LeftOf
    <3>5. Waits(d)'
      BY <1>1, <3>2, <3>3, <3>4 DEF Waits, Overridden
    <3>6. QED BY <3>1, <3>5
  <2>8. QED BY <1>1, <2>3, <2>5, <2>6, <2>7 DEF PreferencesInv
<1>5. CASE n.what = "snapshot"
  <2> DEFINE done == {c \in Entries : Satisfied(c, n.is)}
  <2>1. Learn(d, n.is, Without(waiting[d], done)) /\ UNCHANGED <<link, up>>
    BY <1>5 DEF Receive
  <2>2. \A o \in BOOLEAN \ {n.is}, c \in Entries : Overridden /\ c.to = o => c \notin done
    BY DEF Satisfied
  <2> HIDE DEF done
  <2>3. done \in SUBSET Entries
    BY DEF done
  <2>4. QED BY <1>4, <1>5, <2>1, <2>2, <2>3
<1>6. CASE n.what = "update"
  <2> DEFINE done == {c \in Entries : Acknowledged(c, n.is)}
  <2>1. Learn(d, n.is, Without(waiting[d], done)) /\ UNCHANGED <<link, up>>
    BY <1>6 DEF Receive
  <2>2. \A o \in BOOLEAN \ {n.is}, c \in Entries : Overridden /\ c.to = o => c \notin done
    BY <1>2 DEF Acknowledged, Overridden, News
  <2> HIDE DEF done
  <2>3. done \in SUBSET Entries
    BY DEF done
  <2>4. QED BY <1>4, <1>6, <2>1, <2>2, <2>3
<1>7. QED BY <1>2, <1>3, <1>5, <1>6 DEF News

\* and a connection that comes or goes.
LEMMA ConnectionKeeps ==
  ASSUME PreferencesInv, NEW d, (d \in Devices /\ (Admits(d) \/ Drop(d))) \/ Forbid
  PROVE PreferencesInv'
<1>1. UNCHANGED <<about, value, known, waiting, heard, override, sets>>
  BY DEF Admits, Drop, Forbid, macVars, deviceVars
<1>2. /\ PreferencesFit'
      /\ \A e \in Devices : Hears(e)' /\ (up'[e] = up[e] \/ up'[e] = <<>>)
                            /\ (link'[e] = link[e] \/ link'[e] # "ready")
  <2>1. CASE d \in Devices /\ Admits(d)
    <3> DEFINE auth == [what |-> "auth", is |-> FALSE]
               first == [what |-> "snapshot", is |-> value[d]]
    <3>1. auth \in News /\ first \in News
      BY <2>1 DEF News, PreferencesInv, PreferencesFit
    <3>2. /\ link' = [link EXCEPT ![d] = "on"] /\ link[d] = "off" /\ up' = up
          /\ down' = [down EXCEPT ![d] = <<auth, first>>] /\ allowed' = allowed
      BY <2>1 DEF Admits, macVars
    <3>3. <<auth, first>> \in Seq(News) /\ <<auth, first>> # <<>>
      BY <3>1
    <3>4. PreferencesFit'
      BY <1>1, <3>2, <3>3 DEF PreferencesInv, PreferencesFit
    <3>5. down'[d] = <<auth, first>> /\ link'[d] = "on"
      BY <2>1, <3>2 DEF PreferencesInv, PreferencesFit
    <3>6. \A e \in Devices : e # d => down'[e] = down[e] /\ link'[e] = link[e]
      BY <3>2 DEF PreferencesInv, PreferencesFit
    <3>7. Hears(d)'
      BY <1>1, <2>1, <3>2, <3>5 DEF PreferencesInv, Hears
    <3>8. \A e \in Devices : e # d => Hears(e)'
      BY <1>1, <3>2, <3>6 DEF PreferencesInv, Hears
    <3>9. QED BY <3>2, <3>4, <3>5, <3>6, <3>7, <3>8
  <2>2. CASE d \in Devices /\ Drop(d)
    <3>1. /\ link' = [link EXCEPT ![d] = "off"]
          /\ up' = [up EXCEPT ![d] = <<>>] /\ down' = [down EXCEPT ![d] = <<>>]
          /\ allowed' = allowed
      BY <2>2 DEF Drop, macVars
    <3>2. PreferencesFit'
      BY <1>1, <2>2, <3>1 DEF PreferencesInv, PreferencesFit
    <3>3. \A e \in Devices : Hears(e)'
      BY <1>1, <3>1 DEF PreferencesInv, PreferencesFit, Hears
    <3>4. QED BY <3>1, <3>2, <3>3 DEF PreferencesInv, PreferencesFit
  <2>3. CASE Forbid
    BY <1>1, <2>3 DEF Forbid, PreferencesInv, PreferencesFit, Hears
  <2>4. QED BY <2>1, <2>2, <2>3
<1>3. \A e \in Devices : Waits(e)'
  BY <1>1 DEF PreferencesInv, Waits, Overridden
<1>4. allowed' => allowed
  BY DEF Admits, Drop, Forbid, macVars
<1>5. ASSUME NEW e \in Devices
      PROVE Ordered(e)' /\ LastCounts(e)' /\ AllSent(e)' /\ EarlierKnown(e)'
  <2>1. Ordered(e) /\ LastCounts(e) /\ AllSent(e) /\ EarlierKnown(e)
    BY DEF PreferencesInv
  <2>2. Ordered(e)'
    BY <1>1, <1>2, <2>1 DEF Ordered, InOrder, IsKnown
  <2>3. LastCounts(e)'
    BY <1>1, <1>2, <2>1 DEF LastCounts, IsKnown
  <2>4. AllSent(e)'
    <3>1. CASE link'[e] = "ready"
      <4>1. link[e] = "ready" /\ link'[e] = link[e]
        BY <1>2, <3>1
      <4>2. up'[e] = up[e]
        BY <3>1, <4>1 DEF Admits, Drop, Forbid, PreferencesInv, PreferencesFit
      <4>3. QED BY <1>1, <1>4, <2>1, <4>1, <4>2 DEF AllSent, IsKnown
    <3>2. QED BY <3>1 DEF AllSent
  <2>5. EarlierKnown(e)'
    BY <1>1, <1>2, <1>4, <2>1 DEF EarlierKnown, IsKnown
  <2>6. QED BY <2>2, <2>3, <2>4, <2>5
<1>6. QED BY <1>1, <1>2, <1>3, <1>5 DEF PreferencesInv

\* What the Mac takes in turn, and what it keeps of it.
LEMMA TakesInOrder ==
  ASSUME PreferencesInv, NEW d \in Devices, up[d] # <<>>,
         up' = [up EXCEPT ![d] = Tail(up[d])],
         \/ known' = known /\ (Head(up[d]) = Asked \/ about # "archive" \/ ~allowed)
         \/ Head(up[d]) # Asked /\ known' = known \union {<<d, Head(up[d]).key>>},
         UNCHANGED <<about, allowed, link, waiting, sets>>
  PROVE /\ up' \in [Devices -> Seq(Entries \union {Asked})]
        /\ known' \subseteq Devices \X Keys
        /\ \A e \in Devices : Ordered(e)' /\ LastCounts(e)' /\ AllSent(e)' /\ EarlierKnown(e)'
<1> DEFINE c == Head(up[d])
<1>1. up[d] \in Seq(Entries \union {Asked})
  BY DEF PreferencesInv, PreferencesFit
<1>2. /\ Tail(up[d]) \in Seq(Entries \union {Asked}) /\ c = up[d][1] /\ c \in Entries \union {Asked}
      /\ DOMAIN Tail(up[d]) = 1..Len(up[d]) - 1 /\ DOMAIN up[d] = 1..Len(up[d])
      /\ Len(up[d]) \in Nat \ {0}
      /\ \A i \in DOMAIN Tail(up[d]) : Tail(up[d])[i] = up[d][i + 1] /\ i + 1 \in DOMAIN up[d]
      /\ \A i \in DOMAIN up[d] :
           i = 1 \/ (i - 1 \in DOMAIN Tail(up[d]) /\ Tail(up[d])[i - 1] = up[d][i])
  BY <1>1, Tails
<1> DEFINE tail == Tail(up[d])
<1>3. up'[d] = tail /\ \A e \in Devices : e # d => up'[e] = up[e]
  BY DEF PreferencesInv, PreferencesFit
<1>4. up' \in [Devices -> Seq(Entries \union {Asked})]
  BY <1>2 DEF PreferencesInv, PreferencesFit
<1> HIDE DEF c, tail
<1>5. \A e \in Devices, k \in Keys : <<e, k>> \in known' =>
        <<e, k>> \in known \/ (e = d /\ c # Asked /\ k = c.key)
  BY DEF c
<1>6. known \subseteq known' /\ known' \subseteq Devices \X Keys
  <2>1. c # Asked => c.key \in Keys
    BY <1>2 DEF Entries
  <2>2. QED BY <2>1 DEF c, PreferencesInv, PreferencesFit
<1>7. link[d] = "ready"
  BY DEF PreferencesInv, Hears
<1>8. about = "archive" /\ allowed /\ c # Asked => <<d, c.key>> \in known'
  BY DEF c
<1>9. Ordered(d) /\ LastCounts(d) /\ AllSent(d) /\ EarlierKnown(d) /\ sets \in Nat
  BY DEF PreferencesInv, PreferencesFit
<1>10. \A i \in DOMAIN tail : i \in Nat /\ 1 < i + 1 /\ i + 1 \in DOMAIN up[d] /\ tail[i] = up[d][i + 1]
  BY <1>2 DEF tail
<1>11. 1 \in DOMAIN up[d] /\ c = up[d][1]
  BY <1>2 DEF c
<1>12. \A i \in DOMAIN tail : c # Asked /\ tail[i] # Asked => c.key < tail[i].key
  BY <1>9, <1>10, <1>11 DEF Ordered, InOrder
<1>13. \A k \in Keys : k \in Nat
  BY DEF Keys
<1>14. \A i \in DOMAIN up[d] : up[d][i].key \in Nat
  BY <1>1, Asking
<1>15. \A i \in DOMAIN waiting[d] : waiting[d][i].key \in Nat /\ waiting[d][i] # Asked
  BY Asking DEF PreferencesInv, PreferencesFit
<1>16. Ordered(d)'
  <2>1. ASSUME NEW i \in DOMAIN tail, NEW k \in DOMAIN tail, i < k, tail[i] # Asked, tail[k] # Asked
        PROVE tail[i].key < tail[k].key
    BY <1>9, <1>10, <2>1 DEF Ordered, InOrder
  <2>2. \A i \in DOMAIN tail : tail[i].key <= sets
    BY <1>9, <1>10 DEF Ordered
  <2>3. \A k \in Keys : IsKnown(d, k)' => k <= sets
    BY <1>5, <1>9, <1>11 DEF Ordered, IsKnown
  <2>4. QED BY <1>3, <1>9, <2>1, <2>2, <2>3 DEF Ordered, InOrder, IsKnown
<1>17. LastCounts(d)'
  <2>1. ASSUME about # "archive", NEW e \in DOMAIN waiting[d]
        PROVE /\ \A i \in DOMAIN tail : tail[i].key <= waiting[d][e].key
              /\ \A k \in Keys : <<d, k>> \in known' => k <= waiting[d][e].key
    BY <1>5, <1>9, <1>10, <1>11, <2>1 DEF LastCounts, IsKnown
  <2>2. ASSUME about # "archive", NEW i \in DOMAIN tail, tail[i] # Asked,
               NEW k \in Keys, <<d, k>> \in known'
        PROVE k <= tail[i].key
    <3>1. CASE <<d, k>> \in known
      BY <1>9, <1>10, <2>2, <3>1 DEF LastCounts, IsKnown
    <3>2. CASE c # Asked /\ k = c.key
      <4>1. c.key \in Nat /\ tail[i].key \in Nat
        BY <1>10, <1>11, <1>14
      <4>2. QED BY <1>12, <2>2, <3>2, <4>1
    <3>3. QED BY <1>5, <2>2, <3>1, <3>2
  <2>3. QED BY <1>3, <1>9, <2>1, <2>2 DEF LastCounts, IsKnown
<1>18. AllSent(d)'
  <2>1. ASSUME about = "archive" /\ allowed, NEW b \in DOMAIN waiting[d]
        PROVE <<d, waiting[d][b].key>> \in known' \/ \E i \in DOMAIN tail : tail[i] = waiting[d][b]
    <3>1. CASE <<d, waiting[d][b].key>> \in known
      BY <1>6, <3>1
    <3>2. ASSUME NEW i \in DOMAIN up[d], up[d][i] = waiting[d][b]
          PROVE <<d, waiting[d][b].key>> \in known' \/ \E j \in DOMAIN tail : tail[j] = waiting[d][b]
      <4>1. CASE i = 1
        BY <1>8, <1>11, <1>15, <2>1, <3>2, <4>1
      <4>2. CASE i # 1
        BY <1>2, <3>2, <4>2 DEF tail
      <4>3. QED BY <4>1, <4>2
    <3>3. QED BY <1>7, <1>9, <2>1, <3>1, <3>2 DEF AllSent, IsKnown
  <2>2. about' = about /\ allowed' = allowed /\ waiting' = waiting
    OBVIOUS
  <2>3. ASSUME (about = "archive")', allowed', NEW b \in DOMAIN waiting'[d]
        PROVE IsKnown(d, waiting[d][b].key)' \/ \E i \in DOMAIN up'[d] : up'[d][i] = waiting'[d][b]
    <3>1. about = "archive" /\ allowed /\ b \in DOMAIN waiting[d] /\ waiting'[d] = waiting[d]
      BY <2>2, <2>3
    <3>2. <<d, waiting[d][b].key>> \in known' \/ \E i \in DOMAIN tail : tail[i] = waiting[d][b]
      BY <2>1, <3>1
    <3>3. QED BY <1>3, <3>1, <3>2 DEF IsKnown
  <2>4. QED BY <2>3 DEF AllSent
<1>19. EarlierKnown(d)'
  <2>1. ASSUME about = "archive" /\ allowed, NEW k \in Keys, <<d, k>> \in known',
               NEW i \in DOMAIN tail, tail[i] # Asked, tail[i].key < k
        PROVE <<d, tail[i].key>> \in known'
    <3>1. CASE <<d, k>> \in known
      BY <1>6, <1>9, <1>10, <2>1, <3>1 DEF EarlierKnown, IsKnown
    <3>2. CASE c # Asked /\ k = c.key
      <4>1. c.key \in Nat /\ tail[i].key \in Nat
        BY <1>10, <1>11, <1>14
      <4>2. QED BY <1>12, <2>1, <3>2, <4>1
    <3>3. QED BY <1>5, <2>1, <3>1, <3>2
  <2>2. ASSUME about = "archive" /\ allowed, NEW k \in Keys, <<d, k>> \in known',
               NEW b \in DOMAIN waiting[d], waiting[d][b].key < k
        PROVE <<d, waiting[d][b].key>> \in known'
    <3>1. CASE <<d, k>> \in known
      BY <1>6, <1>9, <2>2, <3>1 DEF EarlierKnown, IsKnown
    <3>2. CASE c # Asked /\ k = c.key
      <4>1. CASE <<d, waiting[d][b].key>> \in known
        BY <1>6, <4>1
      <4>2. ASSUME NEW i \in DOMAIN up[d], up[d][i] = waiting[d][b] PROVE FALSE
        <5>1. i # 1
          BY <1>11, <1>15, <2>2, <3>2, <4>2
        <5>2. i - 1 \in DOMAIN tail /\ tail[i - 1] = waiting[d][b]
          BY <1>2, <4>2, <5>1 DEF tail
        <5>3. c.key < waiting[d][b].key /\ c.key \in Nat /\ waiting[d][b].key \in Nat
          BY <1>11, <1>12, <1>14, <1>15, <3>2, <5>2
        <5>4. QED BY <2>2, <3>2, <5>3
      <4>3. QED BY <1>7, <1>9, <2>2, <4>1, <4>2 DEF AllSent, IsKnown
    <3>3. QED BY <1>5, <2>2, <3>1, <3>2
  <2>3. QED BY <1>3, <2>1, <2>2 DEF EarlierKnown, IsKnown
<1>20. ASSUME NEW e \in Devices, e # d
       PROVE Ordered(e)' /\ LastCounts(e)' /\ AllSent(e)' /\ EarlierKnown(e)'
  <2>1. Ordered(e) /\ LastCounts(e) /\ AllSent(e) /\ EarlierKnown(e) /\ up'[e] = up[e]
    BY <1>3, <1>20 DEF PreferencesInv
  <2>2. \A k : <<e, k>> \in known' <=> <<e, k>> \in known
    BY <1>20
  <2>3. Ordered(e)'
    BY <2>1, <2>2 DEF Ordered, InOrder, IsKnown
  <2>4. LastCounts(e)'
    BY <2>1, <2>2 DEF LastCounts, IsKnown
  <2>5. AllSent(e)'
    BY <2>1, <2>2 DEF AllSent, IsKnown
  <2>6. EarlierKnown(e)'
    BY <2>1, <2>2 DEF EarlierKnown, IsKnown
  <2>7. QED BY <2>3, <2>4, <2>5, <2>6
<1>21. QED BY <1>4, <1>6, <1>16, <1>17, <1>18, <1>19, <1>20

\* What the Mac tells about what it has written.
LEMMA TellsWhatIs ==
  ASSUME PreferencesInv, NEW d \in Devices, up[d] # <<>>,
         up' = [up EXCEPT ![d] = Tail(up[d])],
         value' \in [Devices -> BOOLEAN],
         UNCHANGED <<about, link, heard>>,
         \/ value' = value /\ down' = down
         \/ /\ about # "archive" => \A e \in Devices : e # d => value'[e] = value[e]
            /\ \E n \in News : n.what # "auth" /\ n.is = value'[d] /\ down' = Tell(d, n)
         \/ /\ about # "archive"
            /\ \E n \in News : n.what # "auth" /\ (\A e \in Devices : n.is = value'[e])
                               /\ down' = Broadcast(d, n)
  PROVE down' \in [Devices -> Seq(News)] /\ \A e \in Devices : Hears(e)'
<1>1. link[d] = "ready" /\ \A e \in Devices : Hears(e) /\ down[e] \in Seq(News)
  BY DEF PreferencesInv, PreferencesFit, Hears
<1>2. \A e \in Devices : link[e] # "ready" => up'[e] = <<>>
  BY <1>1 DEF PreferencesInv, PreferencesFit, Hears
<1>3. ASSUME NEW e \in Devices, link[e] # "off", NEW n \in News, n.what # "auth",
             about # "archive" => n.is = value'[e], down'[e] = Append(down[e], n)
      PROVE Hears(e)'
  <2>1. /\ DOMAIN Append(down[e], n) = 1..Len(down[e]) + 1
        /\ Len(down[e]) \in Nat /\ Len(Append(down[e], n)) = Len(down[e]) + 1
        /\ Append(down[e], n) # <<>> /\ Append(down[e], n)[Len(down[e]) + 1] = n
        /\ \A i \in DOMAIN down[e] : Append(down[e], n)[i] = down[e][i]
        /\ \A i \in DOMAIN Append(down[e], n) : i \in DOMAIN down[e] \/ i = Len(down[e]) + 1
    BY <1>1, Appends
  <2>2. \A i \in DOMAIN down'[e] : down'[e][i].what = "auth" => i = 1 /\ link[e] = "on"
    BY <1>1, <1>3, <2>1 DEF Hears
  <2>3. QED BY <1>2, <1>3, <2>1, <2>2 DEF Hears
<1>4. CASE value' = value /\ down' = down
  BY <1>1, <1>2, <1>4 DEF Hears, PreferencesInv, PreferencesFit
<1>5. CASE /\ about # "archive" => \A e \in Devices : e # d => value'[e] = value[e]
           /\ \E n \in News : n.what # "auth" /\ n.is = value'[d] /\ down' = Tell(d, n)
  <2>1. PICK n \in News : n.what # "auth" /\ n.is = value'[d] /\ down' = [down EXCEPT ![d] = Append(down[d], n)]
    BY <1>5 DEF Tell
  <2>2. down'[d] = Append(down[d], n) /\ \A e \in Devices : e # d => down'[e] = down[e]
    BY <2>1 DEF PreferencesInv, PreferencesFit
  <2>3. down' \in [Devices -> Seq(News)]
    BY <1>1, <2>1 DEF PreferencesInv, PreferencesFit
  <2>4. Hears(d)'
    BY <1>1, <1>3, <2>1, <2>2
  <2>5. ASSUME NEW e \in Devices, e # d PROVE Hears(e)'
    BY <1>1, <1>2, <1>5, <2>2, <2>5 DEF Hears
  <2>6. QED BY <2>3, <2>4, <2>5
<1>6. CASE /\ about # "archive"
           /\ \E n \in News : n.what # "auth" /\ (\A e \in Devices : n.is = value'[e])
                               /\ down' = Broadcast(d, n)
  <2>1. PICK n \in News : /\ n.what # "auth" /\ (\A e \in Devices : n.is = value'[e])
                          /\ down' = [e \in Devices |-> IF link[e] = "off"
                               THEN down[e] ELSE Append(down[e], n)]
    BY <1>6 DEF Broadcast
  <2>2. down' \in [Devices -> Seq(News)]
    BY <1>1, <2>1
  <2>3. ASSUME NEW e \in Devices PROVE Hears(e)'
    <3>1. CASE link[e] = "off"
      BY <1>1, <1>2, <2>1, <3>1 DEF Hears
    <3>2. CASE link[e] # "off"
      BY <1>3, <2>1, <3>2
    <3>3. QED BY <3>1, <3>2
  <2>4. QED BY <2>2, <2>3
<1>7. QED BY <1>4, <1>5, <1>6

\* The Mac carries out an entry; what is known of the device is no newer if
\* that changes anything.
LEMMA HandleKeeps ==
  ASSUME PreferencesInv, NEW d \in Devices, Handle(d)
  PROVE /\ PreferencesInv'
        /\ value' # value => \A k \in Keys : <<d, k>> \in known => k <= Head(up[d]).key
<1> DEFINE c == Head(up[d])
<1>1. /\ up[d] # <<>> /\ up' = [up EXCEPT ![d] = Tail(up[d])]
      /\ UNCHANGED <<about, allowed, link, waiting, heard, override, sets>>
  BY DEF Handle, deviceVars
<1>2. c \in Entries \union {Asked} /\ c = up[d][1] /\ 1 \in DOMAIN up[d]
  BY <1>1, Tails DEF PreferencesInv, PreferencesFit
<1>3. /\ \A v \in BOOLEAN : Written(d, v) \in [Devices -> BOOLEAN] /\ Written(d, v)[d] = v
      /\ \A v \in BOOLEAN : about \in {"profile", "policy"}
           => \A e \in Devices : Written(d, v)[e] = v
      /\ \A v \in BOOLEAN : about \in {"dismiss", "settings"} =>
           \A e \in Devices : e # d => Written(d, v)[e] = value[e]
  BY DEF Written, Shared, PreferencesInv, PreferencesFit
<1>4. value \in [Devices -> BOOLEAN] /\ \A e \in Devices : value[e] \in BOOLEAN
  BY DEF PreferencesInv, PreferencesFit
<1> HIDE DEF c
<1>5. c # Asked => c \in Entries /\ c.to \in BOOLEAN /\ c.key \in Keys
  BY <1>2 DEF Entries
<1>6. \/ /\ c = Asked /\ value' = value /\ known' = known
         /\ down' = Tell(d, [what |-> "snapshot", is |-> value[d]])
      \/ /\ c # Asked /\ about \in {"archive", "dismiss"} /\ (about = "archive" => allowed)
         /\ value' = (IF <<d, c.key>> \in known THEN value ELSE Written(d, c.to))
         /\ known' = known \union {<<d, c.key>>}
         /\ \E w \in {"update", "snapshot"} : down' = Tell(d, [what |-> w, is |-> value'[d]])
      \/ /\ c # Asked /\ about \in {"archive", "policy"} /\ ~allowed
         /\ value' = value /\ known' = known /\ down' = down
      \/ /\ c # Asked /\ about \in {"profile", "policy"} /\ value' = Written(d, c.to)
         /\ \/ about = "profile" /\ known' = known
            \/ about = "policy" /\ known' = known \union {<<d, c.key>>}
         /\ down' = Broadcast(d, [what |-> "update", is |-> c.to])
      \/ /\ c # Asked /\ about = "settings"
         /\ value' = Written(d, c.to) /\ known' = known \union {<<d, c.key>>}
         /\ down' = Tell(d, [what |-> "update", is |-> c.to])
  <2>1. CASE c = Asked
    <3>1. Snapshots(d)
      BY <2>1 DEF Handle, c
    <3>2. QED BY <2>1, <3>1 DEF Snapshots
  <2>2. CASE c # Asked
    <3>1. TogglesTask(d, c) \/ Dismisses(d, c) \/ UpdatesProfile(d, c) \/ UpdatesPolicy(d, c) \/ Configures(d, c)
      BY <2>2 DEF Handle, c
    <3>2. CASE TogglesTask(d, c)
      BY <2>2, <3>2 DEF TogglesTask, SetsTask, Knows, Remembers
    <3>3. CASE Dismisses(d, c)
      BY <2>2, <3>3 DEF Dismisses, SetsDismissed, Knows, Remembers
    <3>4. CASE UpdatesProfile(d, c)
      BY <2>2, <3>4 DEF UpdatesProfile
    <3>5. CASE UpdatesPolicy(d, c)
      BY <2>2, <3>5 DEF UpdatesPolicy, Remembers
    <3>6. CASE Configures(d, c)
      BY <2>2, <3>6 DEF Configures, Remembers
    <3>7. QED BY <3>1, <3>2, <3>3, <3>4, <3>5, <3>6
  <2>3. QED BY <2>1, <2>2
<1>7. \A w \in {"update", "snapshot"}, v \in BOOLEAN :
        LET n == [what |-> w, is |-> v] IN n \in News /\ n.what # "auth" /\ n.is = v
  BY DEF News
<1>8. /\ value' \in [Devices -> BOOLEAN]
      /\ \/ value' = value /\ down' = down
         \/ /\ about # "archive" => \A e \in Devices : e # d => value'[e] = value[e]
            /\ \E n \in News : n.what # "auth" /\ n.is = value'[d] /\ down' = Tell(d, n)
         \/ /\ about # "archive"
            /\ \E n \in News : n.what # "auth" /\ (\A e \in Devices : n.is = value'[e])
                               /\ down' = Broadcast(d, n)
  <2>1. CASE c = Asked
    BY <1>4, <1>6, <1>7, <2>1
  <2>2. CASE c # Asked /\ about \in {"archive", "dismiss"}
    <3>1. value' \in [Devices -> BOOLEAN] /\ value'[d] \in BOOLEAN
      BY <1>3, <1>4, <1>5, <1>6, <2>2
    <3>2. about # "archive" => \A e \in Devices : e # d => value'[e] = value[e]
      BY <1>3, <1>5, <1>6, <2>2
    <3>3. QED BY <1>6, <1>7, <2>2, <3>1, <3>2
  <2>3. CASE c # Asked /\ about \in {"profile", "policy"}
    BY SMTT(30), <1>3, <1>4, <1>5, <1>6, <1>7, <2>3
  <2>4. CASE c # Asked /\ about = "settings"
    BY <1>3, <1>4, <1>5, <1>6, <1>7, <2>4
  <2>5. QED BY <1>6, <2>1, <2>2, <2>3, <2>4
<1>9. \/ known' = known /\ (c = Asked \/ about # "archive" \/ ~allowed)
      \/ c # Asked /\ known' = known \union {<<d, c.key>>}
  BY <1>6
<1>10. /\ up' \in [Devices -> Seq(Entries \union {Asked})] /\ known' \subseteq Devices \X Keys
       /\ \A e \in Devices : Ordered(e)' /\ LastCounts(e)' /\ AllSent(e)' /\ EarlierKnown(e)'
  BY <1>1, <1>9, TakesInOrder DEF c
<1>11. down' \in [Devices -> Seq(News)] /\ \A e \in Devices : Hears(e)'
  BY <1>1, <1>8, TellsWhatIs
<1>12. PreferencesFit' /\ (about' = "profile" => known' = {}) /\ about' \in Kinds
  BY <1>1, <1>6, <1>8, <1>10, <1>11 DEF PreferencesInv, PreferencesFit
<1>13. \A e \in Devices : Waits(e)'
  BY <1>1 DEF PreferencesInv, Waits, Overridden
<1>14. PreferencesInv'
  BY <1>10, <1>11, <1>12, <1>13 DEF PreferencesInv
<1>15. ASSUME value' # value, NEW k \in Keys, <<d, k>> \in known PROVE k <= c.key
  <2>1. c # Asked
    BY <1>6, <1>15
  <2>2. CASE about = "archive"
    <3>1. allowed /\ <<d, c.key>> \notin known
      BY <1>6, <1>15, <2>1, <2>2
    <3>2. ~(c.key < k)
      BY <1>2, <1>15, <2>1, <2>2, <3>1 DEF PreferencesInv, EarlierKnown, IsKnown
    <3>3. QED BY <1>5, <2>1, <3>2 DEF Keys
  <2>3. CASE about # "archive"
    BY <1>2, <1>15, <2>1, <2>3 DEF PreferencesInv, LastCounts, IsKnown
  <2>4. QED BY <2>2, <2>3
<1>16. QED BY <1>14, <1>15 DEF c

\* Nothing is lost when nothing happens.
LEMMA PreferencesStutter == PreferencesInv /\ UNCHANGED preferenceVars => PreferencesInv'
<1>1. SUFFICES ASSUME PreferencesInv, UNCHANGED preferenceVars PROVE PreferencesInv'
  OBVIOUS
<1>2. UNCHANGED <<about, value, known, allowed, link, up, down, waiting, heard, override, sets>>
  BY <1>1 DEF preferenceVars, macVars, deviceVars
<1>3. PreferencesFit' /\ (about' = "profile" => known' = {}) /\ about' \in Kinds
  BY <1>1, <1>2 DEF PreferencesInv, PreferencesFit
<1>4. ASSUME NEW e \in Devices
      PROVE (Hears(e) /\ Waits(e) /\ Ordered(e) /\ LastCounts(e) /\ AllSent(e) /\ EarlierKnown(e))'
  BY SMTT(30), <1>1, <1>2
     DEF PreferencesInv, Hears, Waits, Ordered, LastCounts, AllSent, EarlierKnown, InOrder,
         IsKnown, Overridden
<1>5. QED BY <1>3, <1>4 DEF PreferencesInv

\* What a step that changes a value may do.
TakesOwnInOrder ==
  \A d \in Devices :
    value' # value /\ up'[d] # up[d] => \A k \in known : k[1] = d => k[2] <= Head(up[d]).key

\* Every step keeps the invariant, and carries out in order.
LEMMA PreferencesStep == PreferencesInv /\ [PreferenceNext]_preferenceVars
        => PreferencesInv' /\ TakesOwnInOrder
<1>1. SUFFICES ASSUME PreferencesInv, [PreferenceNext]_preferenceVars
      PROVE PreferencesInv' /\ TakesOwnInOrder
  OBVIOUS
<1>2. CASE UNCHANGED preferenceVars
  BY <1>1, <1>2, PreferencesStutter DEF TakesOwnInOrder, preferenceVars, macVars
<1>3. ASSUME NEW d \in Devices, NEW v \in BOOLEAN, Set(d, v)
      PROVE PreferencesInv' /\ TakesOwnInOrder
  BY <1>1, <1>3, SetKeeps DEF TakesOwnInOrder, Set, macVars
<1>4. ASSUME NEW d \in Devices, AskAnew(d) PROVE PreferencesInv' /\ TakesOwnInOrder
  BY <1>1, <1>4, AskKeeps DEF TakesOwnInOrder, AskAnew, macVars
<1>5. ASSUME NEW d \in Devices, Receive(d) PROVE PreferencesInv' /\ TakesOwnInOrder
  BY <1>1, <1>5, ReceiveKeeps DEF TakesOwnInOrder, Receive, macVars
<1>6. ASSUME NEW d \in Devices, Admits(d) \/ Drop(d) PROVE PreferencesInv' /\ TakesOwnInOrder
  BY <1>1, <1>6, ConnectionKeeps DEF TakesOwnInOrder, Admits, Drop, macVars
<1>7. ASSUME NEW d \in Devices, Handle(d) PROVE PreferencesInv' /\ TakesOwnInOrder
  <2>1. PreferencesInv' /\ (value' # value => \A k \in Keys : <<d, k>> \in known
          => k <= Head(up[d]).key)
    BY <1>1, <1>7, HandleKeeps
  <2>2. \A e \in Devices : e # d => up'[e] = up[e]
    BY <1>1, <1>7 DEF Handle, PreferencesInv, PreferencesFit
  <2>3. ASSUME NEW k \in known, k[1] = d PROVE k[2] \in Keys /\ <<d, k[2]>> \in known
    <3>1. k \in Devices \X Keys
      BY <1>1 DEF PreferencesInv, PreferencesFit
    <3>2. k = <<k[1], k[2]>> /\ k[2] \in Keys
      BY <3>1
    <3>3. QED BY <2>3, <3>2
  <2>4. QED BY <2>1, <2>2, <2>3 DEF TakesOwnInOrder
<1>8. ASSUME Forbid PROVE PreferencesInv' /\ TakesOwnInOrder
  <2>1. value' = value
    BY <1>8 DEF Forbid
  <2>2. PreferencesInv'
    BY <1>1, <1>8, ConnectionKeeps
  <2>3. QED BY <2>1, <2>2 DEF TakesOwnInOrder
<1>9. QED
  <2>1. CASE PreferenceNext
    <3>1. CASE Forbid
      BY <1>8, <3>1
    <3>2. CASE \E d \in Devices :
                 (\E v \in BOOLEAN : Set(d, v)) \/ AskAnew(d) \/ Receive(d) \/ Admits(d) \/ Drop(d) \/ Handle(d)
      BY <1>3, <1>4, <1>5, <1>6, <1>7, <3>2
    <3>3. QED BY <2>1, <3>1, <3>2, Zenon DEF PreferenceNext
  <2>2. QED BY <1>1, <1>2, <2>1

\* The invariant implies the property.
LEMMA PreferencesSuffice == PreferencesInv => PagesAreHonest
<1>1. SUFFICES ASSUME PreferencesInv PROVE OverridesAreSent /\ QuietHasHeard
  BY DEF PagesAreHonest
<1>2. ASSUME NEW d \in Devices, NEW o \in override[d]
      PROVE o \in {waiting[d][i].to : i \in DOMAIN waiting[d]}
  BY <1>1 DEF PreferencesInv, Waits
<1>3. ASSUME NEW d \in Devices, link[d] = "ready", down[d] = <<>>, about # "archive"
      PROVE heard[d] = value[d]
  BY <1>1, <1>3 DEF PreferencesInv, Hears
<1>4. QED BY <1>2, <1>3 DEF OverridesAreSent, QuietHasHeard

\* What a page shows in the place of what it was told is under way, and a page
\* that has heard everything shows what the Mac has.
THEOREM PagesStayHonest == PreferenceSpec => []PagesAreHonest
<1>1. PreferenceSpec => []PreferencesInv
  BY PreferencesInitially, PreferencesStep, PTL DEF PreferenceSpec
<1>2. QED BY <1>1, PreferencesSuffice, PTL

\* Nothing that is sent again undoes what the same device did later.
THEOREM OwnOrderStays == PreferenceSpec => OwnOrder
<1>1. PreferencesInv /\ [PreferenceNext]_preferenceVars
        => PreferencesInv' /\ [TakesOwnInOrder]_preferenceVars
  BY PreferencesStep
<1>2. PreferenceSpec => [][TakesOwnInOrder]_preferenceVars
  BY <1>1, PreferencesInitially, PTL DEF PreferenceSpec
<1>3. QED BY <1>2 DEF TakesOwnInOrder, OwnOrder

-----------------------------------------------------------------------------
(* 4. Several Macs.                                                        *)

\* The shapes of the updates and of the Macs' snapshots.
UpdateTypes == {"snapshot", "upsert", "removed", "revoked"}
Updates == [type : UpdateTypes, of : Macs, rows : SUBSET Things, run : BOOLEAN]
Sources == {Empty} \union [rows : SUBSET Things, id : HostIds]

\* The rows of a Mac.
OwnedBy(h) == {t \in Things : OwnerOf[t] = h}

\* What a Mac is known for is its own.
FitSource(src) ==
  /\ src \in [Macs -> Sources]
  /\ \A h \in Macs : src[h] = Empty \/ (src[h].rows \subseteq OwnedBy(h) /\ src[h].id[1] = h)
FitUpdates(us) == us \in Seq(Updates) /\ \A i \in DOMAIN us : us[i].rows \subseteq OwnedBy(us[i].of)

\* A Mac that nothing is known of has no rows here.
LEMMA HasRows ==
  ASSUME NEW src, FitSource(src), NEW h \in Macs
  PROVE src[h].rows \subseteq OwnedBy(h) /\ src[h].rows \in SUBSET Things
  BY DEF FitSource, Sources, Empty, OwnedBy

\* An update changes what is known of its Mac, and of no other.
LEMMA AppliedFits ==
  ASSUME NEW src, FitSource(src), NEW u \in Updates, u.rows \subseteq OwnedBy(u.of)
  PROVE FitSource(Applied(src, u)) /\ \A h \in Macs : h # u.of => Applied(src, u)[h] = src[h]
<1>1. src[u.of].rows \subseteq OwnedBy(u.of) /\ src[u.of].rows \in SUBSET Things
  BY HasRows DEF Updates
<1>2. \A b \in BOOLEAN : IdOf(u.of, b) \in HostIds /\ IdOf(u.of, b)[1] = u.of
  BY DEF Updates, IdOf, HostIds
<1>3. KeptId(u.of) \in HostIds /\ KeptId(u.of)[1] = u.of
  BY <1>2 DEF KeptId
<1> DEFINE S(r, id) == [src EXCEPT ![u.of] = [rows |-> r, id |-> id]]
<1>4. ASSUME NEW r, r \subseteq OwnedBy(u.of), NEW id \in HostIds, id[1] = u.of
      PROVE FitSource(S(r, id)) /\ \A h \in Macs : h # u.of => S(r, id)[h] = src[h]
  <2>1. [rows |-> r, id |-> id] \in Sources
    BY <1>4 DEF Sources, OwnedBy
  <2>2. QED BY <1>4, <2>1 DEF FitSource, Updates
<1>5. /\ u.type = "snapshot" => Applied(src, u) = S(u.rows, IdOf(u.of, TRUE))
      /\ u.type = "upsert" => Applied(src, u) = S(src[u.of].rows \union u.rows, KeptId(u.of))
      /\ u.type = "removed" => Applied(src, u) = S(src[u.of].rows \ u.rows, KeptId(u.of))
      /\ u.type = "revoked" => Applied(src, u) = src
  BY DEF Applied, Updates, FitSource
<1> HIDE DEF S
<1>6. u.type \in UpdateTypes
  BY DEF Updates
<1>7. CASE u.type = "snapshot"
  <2>1. FitSource(S(u.rows, IdOf(u.of, TRUE))) /\ \A h \in Macs : h # u.of
          => S(u.rows, IdOf(u.of, TRUE))[h] = src[h]
    BY <1>2, <1>4
  <2>2. QED BY <1>5, <1>7, <2>1
<1>8. CASE u.type = "upsert"
  <2>1. src[u.of].rows \union u.rows \subseteq OwnedBy(u.of)
    BY <1>1
  <2> DEFINE both == src[u.of].rows \union u.rows
  <2> HIDE DEF both
  <2>2. FitSource(S(both, KeptId(u.of))) /\ \A h \in Macs : h # u.of
          => S(both, KeptId(u.of))[h] = src[h]
    BY <1>3, <1>4, <2>1 DEF both
  <2>3. Applied(src, u) = S(both, KeptId(u.of))
    BY <1>5, <1>8 DEF both
  <2>4. QED BY <2>2, <2>3
<1>9. CASE u.type = "removed"
  <2>1. src[u.of].rows \ u.rows \subseteq OwnedBy(u.of)
    BY <1>1
  <2> DEFINE fewer == src[u.of].rows \ u.rows
  <2> HIDE DEF fewer
  <2>2. FitSource(S(fewer, KeptId(u.of))) /\ \A h \in Macs : h # u.of
          => S(fewer, KeptId(u.of))[h] = src[h]
    BY <1>3, <1>4, <2>1 DEF fewer
  <2>3. Applied(src, u) = S(fewer, KeptId(u.of))
    BY <1>5, <1>9 DEF fewer
  <2>4. QED BY <2>2, <2>3
<1>10. CASE u.type = "revoked"
  BY <1>5, <1>10
<1>11. QED BY <1>6, <1>7, <1>8, <1>9, <1>10 DEF UpdateTypes

\* The runs of the updates, one after the other.
OneMore(prev, us, n) == IF us[n].run THEN prev ELSE Applied(prev, us[n])
RunsOf(g, src, us, N) == /\ g[0] = src
                         /\ \A n \in 1..N : g[n] = OneMore(g[n - 1], us, n)

\* Ran is the last of them,
LEMMA RanIs ==
  ASSUME NEW src, NEW us, Len(us) \in Nat
  PROVE \E g : RunsOf(g, src, us, Len(us)) /\ Ran(src, us) = g[Len(us)]
<1> DEFINE Reached == {n \in Nat : \E g : g = [i \in 0..n |-> IF i = 0 THEN src
                                           ELSE OneMore(g[i - 1], us, i)]}
<1>1. 0 \in Reached
  <2>1. [p \in 0..0 |-> src] = [p \in 0..0 |-> IF p = 0 THEN src
          ELSE OneMore([q \in 0..0 |-> src][p - 1], us, p)]
    OBVIOUS
  <2>2. QED BY <2>1
<1>2. ASSUME NEW n \in 0..Len(us), n < Len(us), n \in Reached PROVE n + 1 \in Reached
  <2>1. PICK g : g = [i \in 0..n |-> IF i = 0 THEN src ELSE OneMore(g[i - 1], us, i)]
    BY <1>2
  <2> DEFINE h == [i \in 0..n+1 |-> IF i = n + 1 THEN OneMore(g[i - 1], us, i) ELSE g[i]]
  <2>2. \A i \in 0..n : h[i] = g[i]
    OBVIOUS
  <2>3. \A i \in 0..n+1 : h[i] = IF i = 0 THEN src ELSE OneMore(h[i - 1], us, i)
    BY <2>1, <2>2
  <2>4. h = [i \in 0..n+1 |-> IF i = 0 THEN src ELSE OneMore(h[i - 1], us, i)]
    BY <2>3
  <2>5. n + 1 \in Nat
    OBVIOUS
  <2>6. QED BY <2>4, <2>5, Zenon
<1> HIDE DEF Reached
<1>3. Len(us) \in Reached
  <2>1. \A n \in 0..Len(us) : n \in Reached
    BY <1>1, <1>2, UpTo, Zenon
  <2>2. QED BY <2>1
<1>4. PICK g : /\ g = [i \in 0..Len(us) |-> IF i = 0 THEN src ELSE OneMore(g[i - 1], us, i)]
               /\ Ran(src, us) = g[Len(us)]
  BY <1>3, Zenon DEF Ran, OneMore, Reached
<1>5. RunsOf(g, src, us, Len(us))
  BY <1>4 DEF RunsOf
<1>6. QED BY <1>4, <1>5

\* nothing when there is nothing to run,
LEMMA RanNone == \A src : Ran(src, <<>>) = src
<1>1. SUFFICES ASSUME NEW src PROVE Ran(src, <<>>) = src
  OBVIOUS
<1>2. Len(<<>>) = 0
  OBVIOUS
<1>3. PICK g : RunsOf(g, src, <<>>, 0) /\ Ran(src, <<>>) = g[0]
  BY <1>2, RanIs
<1>4. QED BY <1>3 DEF RunsOf

\* and of the right shape.
LEMMA RanFits ==
  ASSUME NEW src, FitSource(src), NEW us, FitUpdates(us)
  PROVE FitSource(Ran(src, us))
<1>1. Len(us) \in Nat /\ DOMAIN us = 1..Len(us)
  BY DEF FitUpdates
<1>2. PICK g : RunsOf(g, src, us, Len(us)) /\ Ran(src, us) = g[Len(us)]
  BY <1>1, RanIs
<1> DEFINE T == {n \in 0..Len(us) : FitSource(g[n])}
<1>3. 0 \in T
  BY <1>1, <1>2 DEF RunsOf
<1>4. ASSUME NEW n \in 0..Len(us), n < Len(us), n \in T PROVE n + 1 \in T
  <2>1. n + 1 \in 1..Len(us) /\ n + 1 - 1 = n /\ n + 1 \in 0..Len(us)
    BY <1>1, <1>4
  <2>2. g[n + 1] = OneMore(g[n], us, n + 1)
    BY <1>2, <2>1 DEF RunsOf
  <2>3. us[n + 1] \in Updates /\ us[n + 1].rows \subseteq OwnedBy(us[n + 1].of)
    BY <1>1, <2>1 DEF FitUpdates
  <2>4. FitSource(g[n + 1])
    BY <1>4, <2>2, <2>3, AppliedFits DEF OneMore
  <2>5. QED BY <2>1, <2>4
<1> HIDE DEF T
<1>5. \A n \in 0..Len(us) : n \in T
  BY <1>1, <1>3, <1>4, UpTo, Zenon
<1>6. Len(us) \in T
  BY <1>1, <1>5
<1>7. QED BY <1>2, <1>6 DEF T

\* Two runs that begin alike for a Mac end alike for it.
LEMMA RanAlike ==
  ASSUME NEW s1, FitSource(s1), NEW s2, FitSource(s2), NEW h \in Macs, s1[h] = s2[h],
         NEW us, FitUpdates(us)
  PROVE Ran(s1, us)[h] = Ran(s2, us)[h]
<1>1. Len(us) \in Nat /\ DOMAIN us = 1..Len(us)
  BY DEF FitUpdates
<1>2. PICK g1 : RunsOf(g1, s1, us, Len(us)) /\ Ran(s1, us) = g1[Len(us)]
  BY <1>1, RanIs
<1>3. PICK g2 : RunsOf(g2, s2, us, Len(us)) /\ Ran(s2, us) = g2[Len(us)]
  BY <1>1, RanIs
<1> DEFINE T == {n \in 0..Len(us) : FitSource(g1[n]) /\ FitSource(g2[n]) /\ g1[n][h] = g2[n][h]}
<1>4. 0 \in T
  BY <1>1, <1>2, <1>3 DEF RunsOf
<1>5. ASSUME NEW n \in 0..Len(us), n < Len(us), n \in T PROVE n + 1 \in T
  <2>1. n + 1 \in 1..Len(us) /\ n + 1 - 1 = n /\ n + 1 \in 0..Len(us)
    BY <1>1, <1>5
  <2> DEFINE u == us[n + 1]
  <2>2. /\ g1[n + 1] = IF u.run THEN g1[n] ELSE Applied(g1[n], u)
        /\ g2[n + 1] = IF u.run THEN g2[n] ELSE Applied(g2[n], u)
    BY <1>2, <1>3, <2>1 DEF RunsOf, OneMore
  <2>3. u \in Updates /\ u.rows \subseteq OwnedBy(u.of)
    BY <1>1, <2>1 DEF FitUpdates
  <2> HIDE DEF u
  <2>4. /\ FitSource(Applied(g1[n], u)) /\ FitSource(Applied(g2[n], u))
        /\ h # u.of => Applied(g1[n], u)[h] = g1[n][h] /\ Applied(g2[n], u)[h] = g2[n][h]
    BY <1>5, <2>3, AppliedFits
  <2>5. h = u.of => Applied(g1[n], u)[h] = Applied(g2[n], u)[h]
    BY <1>5, <2>3 DEF Applied, Updates, UpdateTypes, FitSource
  <2>6. g1[n + 1][h] = g2[n + 1][h] /\ FitSource(g1[n + 1]) /\ FitSource(g2[n + 1])
    BY <1>5, <2>2, <2>4, <2>5
  <2>7. QED BY <2>1, <2>6
<1> HIDE DEF T
<1>6. \A n \in 0..Len(us) : n \in T
  BY <1>1, <1>4, <1>5, UpTo, Zenon
<1>7. Len(us) \in T
  BY <1>1, <1>6
<1>8. QED BY <1>2, <1>3, <1>7 DEF T

\* An update that comes last is run last.
LEMMA RanLast ==
  ASSUME NEW src, NEW us \in Seq(Updates), NEW u \in Updates
  PROVE Ran(src, Append(us, u)) = IF u.run THEN Ran(src, us) ELSE Applied(Ran(src, us), u)
<1> DEFINE vs == Append(us, u)
<1>1. /\ Len(us) \in Nat /\ Len(vs) = Len(us) + 1 /\ vs[Len(us) + 1] = u
      /\ \A n \in 1..Len(us) : vs[n] = us[n]
  OBVIOUS
<1> HIDE DEF vs
<1>2. PICK g1 : RunsOf(g1, src, us, Len(us)) /\ Ran(src, us) = g1[Len(us)]
  BY <1>1, RanIs
<1>3. PICK g2 : RunsOf(g2, src, vs, Len(vs)) /\ Ran(src, vs) = g2[Len(vs)]
  <2>1. Len(vs) \in Nat
    BY <1>1
  <2>2. QED BY <2>1, RanIs
<1> DEFINE T == {n \in 0..Len(us) : g1[n] = g2[n]}
<1>4. 0 \in T
  BY <1>1, <1>2, <1>3 DEF RunsOf
<1>5. ASSUME NEW n \in 0..Len(us), n < Len(us), n \in T PROVE n + 1 \in T
  <2>1. n + 1 \in 1..Len(us) /\ n + 1 - 1 = n /\ n + 1 \in 0..Len(us) /\ n + 1 \in 1..Len(vs)
    BY <1>1, <1>5
  <2>2. g1[n + 1] = OneMore(g1[n], us, n + 1) /\ g2[n + 1] = OneMore(g2[n], vs, n + 1)
    BY <1>2, <1>3, <2>1 DEF RunsOf
  <2>3. QED BY <1>1, <1>5, <2>1, <2>2 DEF OneMore
<1> HIDE DEF T
<1>6. \A n \in 0..Len(us) : n \in T
  BY <1>1, <1>4, <1>5, UpTo, Zenon
<1>7. Len(us) \in T
  BY <1>1, <1>6
<1>8. g2[Len(vs)] = OneMore(g2[Len(us)], vs, Len(us) + 1)
  <2>1. Len(vs) \in 1..Len(vs) /\ Len(vs) = Len(us) + 1 /\ Len(us) + 1 - 1 = Len(us)
    BY <1>1
  <2>2. QED BY <1>3, <2>1 DEF RunsOf
<1>9. QED BY <1>1, <1>2, <1>3, <1>7, <1>8 DEF T, OneMore, vs
-----------------------------------------------------------------------------

\* The marks of rows name the Macs whose rows they are.
TrueMarks(view) == view \subseteq Marked /\ \A m \in view : OwnerOf[m[1]] = m[2][1]

\* The merged rows have the right marks.
LEMMA MergedIsTrue ==
  ASSUME NEW src, FitSource(src)
  PROVE /\ TrueMarks(Merged(src))
        /\ \A h \in Macs : src[h] # Empty =>
             {m \in Merged(src) : m[2][1] = h} = {<<t, src[h].id>> : t \in src[h].rows}
        /\ (\A h \in Macs : src[h] = Empty) => Merged(src) = {}
<1>1. ASSUME NEW m \in Merged(src)
      PROVE \E h \in Macs : /\ src[h] # Empty /\ m = <<m[1], src[h].id>> /\ m[1] \in src[h].rows
                            /\ m[2] = src[h].id /\ m[2][1] = h /\ m[2] \in HostIds
                            /\ m[1] \in Things /\ OwnerOf[m[1]] = h
  <2>1. PICK h \in Macs : m \in {<<t, src[h].id>> : t \in src[h].rows}
    BY <1>1 DEF Merged
  <2>2. PICK t \in src[h].rows : m = <<t, src[h].id>>
    BY <2>1
  <2>3. src[h] # Empty
    BY <2>2 DEF Empty
  <2>4. src[h].id[1] = h /\ src[h].id \in HostIds /\ t \in OwnedBy(h)
    BY <2>2, <2>3 DEF FitSource, Sources
  <2>5. QED BY <2>2, <2>3, <2>4 DEF OwnedBy
<1>2. TrueMarks(Merged(src))
  <2>1. ASSUME NEW m \in Merged(src) PROVE m \in Marked /\ OwnerOf[m[1]] = m[2][1]
    BY <1>1 DEF Marked
  <2>2. QED BY <2>1 DEF TrueMarks
<1>3. ASSUME NEW h \in Macs, src[h] # Empty
      PROVE {m \in Merged(src) : m[2][1] = h} = {<<t, src[h].id>> : t \in src[h].rows}
  <2>1. ASSUME NEW m \in Merged(src), m[2][1] = h
        PROVE m \in {<<t, src[h].id>> : t \in src[h].rows}
    BY <1>1, <2>1
  <2>2. ASSUME NEW t \in src[h].rows PROVE <<t, src[h].id>> \in Merged(src) /\ src[h].id[1] = h
    <3>1. src[h].id[1] = h
      BY <1>3 DEF FitSource
    <3>2. QED BY <2>2, <3>1 DEF Merged
  <2>3. QED BY <2>1, <2>2
<1>4. (\A h \in Macs : src[h] = Empty) => Merged(src) = {}
  BY <1>1
<1>5. QED BY <1>2, <1>3, <1>4

\* The shape of the state: rows and marks are those of their Macs.
HostsFit ==
  /\ stored \in Seq(Macs) /\ paired \in Seq(Macs)
  /\ removal \in [Macs -> Seq(Macs) \union {NoList}]
  /\ tab \in {"closed", "open"}
  /\ isOpen \in [Macs -> BOOLEAN]
  /\ rows \in [Macs -> SUBSET Things] /\ told \in [Macs -> SUBSET Things]
  /\ \A h \in Macs : rows[h] \subseteq OwnedBy(h)
  /\ FitSource(source) /\ FitUpdates(updates)
  /\ savedView = Nothing \/ TrueMarks(savedView)
  /\ due = Nothing \/ TrueMarks(due)
  /\ TrueMarks(onPage)
  /\ requests \subseteq Marked /\ arrived \subseteq Things \X Macs

\* A closed page knows nothing; an open one has, once all is run, what it was told.
WillRender ==
  /\ tab = "closed" =>
       /\ paired = <<>> /\ updates = <<>> /\ \A h \in Macs : source[h] = Empty /\ told[h] = {}
  /\ \A h \in Macs : isOpen[h] => h \in Range(paired)
  /\ \A h \in Range(paired) : Ran(source, updates)[h].rows = told[h]
  /\ tab = "open" /\ updates = <<>>
       => onPage = Merged(source) \/ \A h \in Macs : source[h] = Empty

\* What was asked for and what arrived is for the Mac whose row it is about.
RoutesHome ==
  /\ \A e \in requests : e[1] \notin Failed => e[2][1] = OwnerOf[e[1]]
  /\ \A a \in arrived : a[1] \notin Failed => a[2] = OwnerOf[a[1]]

\* Together they are inductive,
HostsInv == HostsFit /\ WillRender /\ RoutesHome

\* and imply the property.
LEMMA HostsSuffice == HostsInv => MacsStayApart
<1>1. SUFFICES ASSUME HostsInv PROVE MacsStayApart
  OBVIOUS
<1>2. ASSUME tab = "open", updates = <<>>, NEW h \in Range(paired), source[h] # Empty
      PROVE {m \in onPage : m[2][1] = h} = {<<t, source[h].id>> : t \in told[h]}
  <2>1. h \in Macs
    BY <1>1 DEF HostsInv, HostsFit, Range
  <2>2. onPage = Merged(source)
    BY <1>1, <1>2, <2>1 DEF HostsInv, WillRender
  <2>3. source[h].rows = told[h]
    BY <1>1, <1>2, RanNone DEF HostsInv, WillRender
  <2>4. QED BY <1>1, <1>2, <2>1, <2>2, <2>3, MergedIsTrue DEF HostsInv, HostsFit
<1>3. \A m \in onPage : OwnerOf[m[1]] = m[2][1]
  BY <1>1 DEF HostsInv, HostsFit, TrueMarks
<1>4. QED BY <1>1, <1>2, <1>3 DEF HostsInv, RoutesHome, MacsStayApart

\* At first the page is closed.
LEMMA HostsInitially == HostsInit => HostsInv
<1>1. SUFFICES ASSUME HostsInit PROVE HostsInv
  OBVIOUS
<1>2. SetToSeq(Macs) \in Seq(Macs)
  <2>1. PICK n \in Nat : ExistsBijection(1..n, Macs)
    BY HostsAssumption, FS_NatBijection
  <2>2. Cardinality(Macs) = n
    BY <2>1, FS_CountingElements
  <2>3. PICK f \in Bijection(1..n, Macs) : TRUE
    BY <2>1 DEF ExistsBijection
  <2>4. f \in [1..Cardinality(Macs) -> Macs] /\ IsInjective(f)
    BY <2>2, <2>3 DEF Bijection, Injection, IsInjective
  <2>5. SetToSeq(Macs) \in [1..Cardinality(Macs) -> Macs]
    BY <2>4 DEF SetToSeq
  <2>6. QED BY <2>2, <2>5
<1>3. FitSource(source) /\ FitUpdates(updates)
  BY <1>1 DEF HostsInit, FitSource, Sources, FitUpdates
<1>4. savedView = Nothing \/ TrueMarks(savedView)
  <2>1. ASSUME NEW t \in Things
        PROVE <<t, KeptId(OwnerOf[t])>> \in Marked /\ KeptId(OwnerOf[t])[1] = OwnerOf[t]
    BY HostsAssumption DEF Marked, KeptId, IdOf, HostIds
  <2>2. TrueMarks({<<t, KeptId(OwnerOf[t])>> : t \in Things \ Failed})
    BY <2>1 DEF TrueMarks
  <2>3. QED BY <1>1, <2>2 DEF HostsInit
<1>5. HostsFit
  BY <1>1, <1>2, <1>3, <1>4 DEF HostsInit, HostsFit, TrueMarks, OwnedBy
<1>6. Range(paired) = {} /\ tab = "closed"
  BY <1>1 DEF HostsInit, Range
<1>7. WillRender /\ RoutesHome
  BY <1>1, <1>6 DEF HostsInit, WillRender, RoutesHome
<1>8. QED BY <1>5, <1>7 DEF HostsInv

\* A list without a Mac.
LEMMA WithoutOne ==
  ASSUME NEW list \in Seq(Macs), NEW h \in Macs
  PROVE Without(list, {h}) \in Seq(Macs) /\ Range(Without(list, {h})) = Range(list) \ {h}
<1>1. /\ Without(list, {h}) \in Seq(Macs)
      /\ LeftOf(Without(list, {h}), list, Len(list), {h})
  BY WithoutIs
<1>2. DOMAIN list = 1..Len(list)
  OBVIOUS
<1> DEFINE rest == Without(list, {h})
<1> HIDE DEF rest
<1>3. ASSUME NEW i \in DOMAIN rest PROVE rest[i] \in Range(list) \ {h}
  BY <1>1, <1>2, <1>3 DEF LeftOf, Range, rest
<1>4. ASSUME NEW j \in DOMAIN list, list[j] # h PROVE list[j] \in Range(rest)
  BY <1>1, <1>2, <1>4 DEF LeftOf, Range, rest
<1>5. Range(rest) = Range(list) \ {h}
  BY <1>3, <1>4 DEF Range
<1>6. QED BY <1>1, <1>5 DEF rest

\* A page that is left knows nothing.
LEMMA LeavesKeeps ==
  ASSUME HostsInv, LeavesPage, stored' \in Seq(Macs), requests' \subseteq requests,
         UNCHANGED <<savedView, rows, arrived>>
  PROVE HostsInv'
<1>1. /\ tab' = "closed" /\ paired' = <<>> /\ updates' = <<>> /\ onPage' = {} /\ due' = Nothing
      /\ source' = [h \in Macs |-> Empty] /\ told' = [h \in Macs |-> {}]
      /\ isOpen' = [h \in Macs |-> FALSE] /\ removal' = [h \in Macs |-> NoList]
  BY DEF LeavesPage
<1>2. FitSource(source') /\ FitUpdates(updates')
  BY <1>1 DEF FitSource, Sources, FitUpdates
<1>3. HostsFit'
  BY <1>1, <1>2 DEF HostsInv, HostsFit, TrueMarks
<1>4. Range(paired') = {}
  BY <1>1 DEF Range
<1>5. WillRender'
  BY <1>1, <1>4 DEF WillRender
<1>6. RoutesHome'
  BY DEF HostsInv, RoutesHome
<1>7. QED BY <1>3, <1>5, <1>6 DEF HostsInv
-----------------------------------------------------------------------------

\* An update is run at once or later; what it makes of the state is the same.
LEMMA SetsStateKeeps ==
  ASSUME FitUpdates(updates), NEW src, FitSource(src),
         NEW u \in Updates, u.rows \subseteq OwnedBy(u.of), ~u.run, SetsState(u, src)
  PROVE /\ FitSource(source') /\ FitUpdates(updates') /\ updates' # <<>>
        /\ Ran(source', updates') = Applied(Ran(src, updates), u)
        /\ FitSource(Ran(src, updates))
<1>1. FitSource(Ran(src, updates)) /\ FitSource(Applied(src, u)) /\ updates \in Seq(Updates)
  BY RanFits, AppliedFits DEF FitUpdates
<1>2. CASE updates = <<>>
  <2> DEFINE v == [u EXCEPT !.run = TRUE]
  <2>1. v \in Updates /\ v.run /\ v.of = u.of /\ v.rows = u.rows
    BY DEF Updates
  <2>2. source' = Applied(src, u) /\ updates' = <<v>>
    BY <1>2 DEF SetsState
  <2> HIDE DEF v
  <2>3. updates' = Append(<<>>, v) /\ <<>> \in Seq(Updates)
    BY <2>2
  <2>4. Ran(source', updates') = Ran(source', <<>>)
    BY <2>1, <2>3, RanLast
  <2>5. Ran(source', updates') = Applied(Ran(src, updates), u)
    BY <1>2, <2>2, <2>4, RanNone
  <2>6. FitUpdates(updates') /\ updates' # <<>>
    BY <2>1, <2>2 DEF FitUpdates
  <2>7. QED BY <1>1, <2>2, <2>5, <2>6
<1>3. CASE updates # <<>>
  <2>1. source' = src /\ updates' = Append(updates, u)
    BY <1>3 DEF SetsState
  <2>2. Ran(source', updates') = Applied(Ran(src, updates), u)
    BY <1>1, <2>1, RanLast
  <2>3. FitUpdates(updates') /\ updates' # <<>>
    BY <1>1, <2>1 DEF FitUpdates
  <2>4. QED BY <1>1, <2>1, <2>2, <2>3
<1>4. QED BY <1>2, <1>3

\* Rendering keeps the invariant,
LEMMA RendersKeeps == ASSUME HostsInv, Renders PROVE HostsInv'
<1> DEFINE src == Ran(source, updates)
<1>1. /\ tab = "open" /\ source' = src /\ updates' = <<>> /\ onPage' = Merged(src)
      /\ due' = (IF \A h \in Macs : src[h] = Empty THEN due ELSE Merged(src))
      /\ UNCHANGED <<stored, savedView, removal, tab, paired, isOpen, rows, told, requests,
                     arrived>>
  BY DEF Renders, storeVars, linkVars, actVars
<1>2. FitSource(src)
  BY RanFits DEF HostsInv, HostsFit
<1> HIDE DEF src
<1>3. TrueMarks(Merged(src)) /\ FitUpdates(<<>>)
  BY <1>2, MergedIsTrue DEF FitUpdates
<1>4. HostsFit'
  BY <1>1, <1>2, <1>3 DEF HostsInv, HostsFit
<1>5. Ran(source', updates') = src
  BY <1>1, RanNone
<1>6. \A h \in Range(paired) : src[h].rows = told[h]
  BY DEF HostsInv, WillRender, src
<1>7. WillRender' /\ RoutesHome'
  BY <1>1, <1>5, <1>6 DEF HostsInv, WillRender, RoutesHome
<1>8. QED BY <1>4, <1>7 DEF HostsInv

\* and whatever learns nothing,
LEMMA QuietKeeps ==
  ASSUME HostsInv, Persists \/ Reloads \/ ForgetsAll \/ ForgetsTheRest
  PROVE HostsInv'
<1>1. CASE Persists \/ ForgetsAll
  <2>1. UNCHANGED <<removal, tab, paired, isOpen, rows, source, told, updates, onPage, requests,
                    arrived>>
    BY <1>1 DEF Persists, ForgetsAll, linkVars, viewVars, actVars
  <2>2. stored' \in Seq(Macs)
    <3>1. stored' = stored \/ stored' = <<>>
      BY <1>1 DEF Persists, ForgetsAll
    <3>2. stored \in Seq(Macs) /\ <<>> \in Seq(Macs)
      BY DEF HostsInv, HostsFit
    <3>3. QED BY <3>1, <3>2
  <2>3. (savedView' = Nothing \/ TrueMarks(savedView')) /\ (due' = Nothing \/ TrueMarks(due'))
    BY <1>1 DEF HostsInv, HostsFit, Persists, ForgetsAll, viewVars
  <2>4. HostsFit'
    BY <2>1, <2>2, <2>3 DEF HostsInv, HostsFit
  <2>5. WillRender' /\ RoutesHome'
    BY <2>1 DEF HostsInv, WillRender, RoutesHome
  <2>6. QED BY <2>4, <2>5 DEF HostsInv
<1>2. CASE Reloads \/ ForgetsTheRest
  <2>1. /\ LeavesPage /\ UNCHANGED <<stored, savedView, rows, arrived>>
        /\ requests' \subseteq requests
    BY <1>2 DEF Reloads, ForgetsTheRest, actVars
  <2>2. stored \in Seq(Macs)
    BY DEF HostsInv, HostsFit
  <2>3. QED BY <2>1, <2>2, LeavesKeeps
<1>3. QED BY <1>1, <1>2

\* and opening the page.
LEMMA OpensKeeps == ASSUME HostsInv, OpensTab PROVE HostsInv'
<1>1. /\ tab = "closed" /\ tab' = "open" /\ paired' = stored
      /\ onPage' = (IF savedView = Nothing THEN {} ELSE savedView) /\ due' = savedView
      /\ UNCHANGED <<stored, savedView, removal, isOpen, rows, source, told, updates, requests,
                     arrived>>
  BY DEF OpensTab, storeVars, actVars
<1>2. HostsFit'
  BY <1>1 DEF HostsInv, HostsFit, TrueMarks
<1>3. /\ updates = <<>> /\ \A h \in Macs : source[h] = Empty /\ told[h] = {} /\ ~isOpen[h]
  BY <1>1 DEF HostsInv, HostsFit, WillRender, Range
<1>4. \A h \in Range(stored) : h \in Macs
  BY DEF HostsInv, HostsFit, Range
<1>5. WillRender'
  <2>1. ASSUME NEW h \in Range(stored) PROVE Ran(source, updates)[h].rows = told[h]
    <3>1. Ran(source, updates) = source
      BY <1>3, RanNone
    <3>2. source[h] = Empty /\ told[h] = {}
      BY <1>3, <1>4
    <3>3. QED BY <3>1, <3>2 DEF Empty
  <2>2. \A h \in Macs : source'[h] = Empty /\ ~isOpen'[h]
    BY <1>1, <1>3
  <2>3. QED BY <1>1, <2>1, <2>2 DEF WillRender
<1>6. RoutesHome'
  BY <1>1 DEF HostsInv, RoutesHome
<1>7. QED BY <1>2, <1>5, <1>6 DEF HostsInv

\* A Mac's id names it.
LEMMA KeptIs == ASSUME NEW h PROVE KeptId(h)[1] = h /\ (h \in Macs => KeptId(h) \in HostIds)
  BY DEF KeptId, IdOf, HostIds

\* What connects and breaks, and what a person does.
LEMMA ActsKeep ==
  ASSUME HostsInv, NEW h, NEW m, NEW e,
         \/ h \in Macs /\ (Connects(h) \/ Breaks(h) \/ Removes(h) \/ Forgets(h))
         \/ m \in onPage /\ Acts(m)
         \/ h \in Macs /\ e \in requests /\ AcknowledgesAct(e, h)
  PROVE HostsInv'
<1>1. CASE h \in Macs /\ Forgets(h)
  <2>1. LeavesPage /\ UNCHANGED <<savedView, rows, arrived>> /\ requests' \subseteq requests
    BY <1>1 DEF Forgets
  <2>2. stored' \in Seq(Macs)
    BY <1>1, WithoutOne DEF Forgets, HostsInv, HostsFit
  <2>3. QED BY <2>1, <2>2, LeavesKeeps
<1>2. CASE h \in Macs /\ Removes(h)
  <2>1. /\ stored' = Without(removal[h], {h}) /\ removal[h] # NoList
        /\ removal' = [removal EXCEPT ![h] = NoList]
        /\ UNCHANGED <<savedView, tab, paired, isOpen, rows, source, told, updates, onPage, due,
                       requests, arrived>>
    BY <1>2 DEF Removes, linkVars, viewVars, actVars
  <2>2. stored' \in Seq(Macs)
    BY <1>2, <2>1, WithoutOne DEF HostsInv, HostsFit
  <2>3. HostsFit'
    BY <1>2, <2>1, <2>2 DEF HostsInv, HostsFit
  <2>4. WillRender' /\ RoutesHome'
    BY <2>1 DEF HostsInv, WillRender, RoutesHome
  <2>5. QED BY <2>3, <2>4 DEF HostsInv
<1>3. CASE h \in Macs /\ (Connects(h) \/ Breaks(h))
  <2>1. /\ UNCHANGED <<stored, savedView, removal, tab, paired, rows, source, told, updates,
                       onPage, due, requests>>
        /\ \/ isOpen' = [isOpen EXCEPT ![h] = FALSE] /\ arrived' = arrived
           \/ /\ isOpen' = [isOpen EXCEPT ![h] = TRUE] /\ h \in Range(paired)
              /\ arrived' = arrived \union {<<x[1], h>> : x \in {y \in requests : y[2] = KeptId(h)}}
    BY <1>3 DEF Connects, Breaks, storeVars, viewVars, actVars
  <2>2. \A x \in requests : x[1] \in Things /\ (x[2] = KeptId(h) /\ x[1] \notin Failed
          => OwnerOf[x[1]] = h)
    BY KeptIs DEF HostsInv, HostsFit, RoutesHome, Marked
  <2>3. ASSUME NEW a \in arrived'
        PROVE a \in Things \X Macs /\ (a[1] \notin Failed => a[2] = OwnerOf[a[1]])
    <3>1. CASE a \in arrived
      BY <3>1 DEF HostsInv, HostsFit, RoutesHome
    <3>2. CASE a \notin arrived
      <4>1. PICK x \in requests : x[2] = KeptId(h) /\ a = <<x[1], h>>
        BY <2>1, <2>3, <3>2
      <4>2. QED BY <1>3, <2>2, <4>1
    <3>3. QED BY <3>1, <3>2
  <2>7. RoutesHome' /\ arrived' \subseteq Things \X Macs
    BY <2>1, <2>3 DEF HostsInv, RoutesHome
  <2>4. HostsFit'
    BY <2>1, <2>7 DEF HostsInv, HostsFit
  <2>5. WillRender'
    BY <1>3, <2>1 DEF HostsInv, HostsFit, WillRender
  <2>6. QED BY <2>4, <2>5, <2>7 DEF HostsInv
<1>4. CASE m \in onPage /\ Acts(m)
  <2> DEFINE id == RouteOf(m)
  <2>1. /\ paired # <<>> /\ requests' = requests \union {<<m[1], id>>}
        /\ arrived' = arrived \union {<<m[1], o>> : o \in {p \in Range(paired) : KeptId(p) = id /\ isOpen[p]}}
        /\ UNCHANGED <<stored, savedView, removal, tab, paired, isOpen, rows, source, told,
                       updates, onPage, due>>
    BY <1>4 DEF Acts, storeVars, linkVars, viewVars
  <2>2. m[1] \in Things /\ m[2] \in HostIds /\ OwnerOf[m[1]] = m[2][1]
    BY <1>4 DEF HostsInv, HostsFit, TrueMarks, Marked
  <2>3. \A p \in Range(paired) : p \in Macs
    BY DEF HostsInv, HostsFit, Range
  <2>4. Head(paired) \in Macs
    BY <2>1 DEF HostsInv, HostsFit
  <2>5. id \in HostIds /\ (m[1] \notin Failed => id[1] = OwnerOf[m[1]])
    BY <2>2, <2>4, KeptIs DEF RouteOf
  <2> HIDE DEF id
  <2>6. requests' \subseteq Marked
    BY <2>1, <2>2, <2>5 DEF HostsInv, HostsFit, Marked
  <2>7. arrived' \subseteq Things \X Macs
    BY <2>1, <2>2, <2>3 DEF HostsInv, HostsFit
  <2>8. RoutesHome'
    <3>1. ASSUME NEW x \in requests', x[1] \notin Failed PROVE x[2][1] = OwnerOf[x[1]]
      BY <2>1, <2>5, <3>1 DEF HostsInv, RoutesHome
    <3>2. ASSUME NEW a \in arrived', a[1] \notin Failed PROVE a[2] = OwnerOf[a[1]]
      BY <2>1, <2>5, <3>2, KeptIs DEF HostsInv, RoutesHome
    <3>3. QED BY <3>1, <3>2 DEF RoutesHome
  <2>9. HostsFit'
    BY <2>1, <2>6, <2>7 DEF HostsInv, HostsFit
  <2>10. WillRender'
    BY <2>1 DEF HostsInv, WillRender
  <2>11. QED BY <2>8, <2>9, <2>10 DEF HostsInv
<1>5. CASE h \in Macs /\ e \in requests /\ AcknowledgesAct(e, h)
  <2>1. /\ requests' = requests \ {e}
        /\ UNCHANGED <<stored, savedView, removal, tab, paired, isOpen, rows, source, told,
                       updates, onPage, due, arrived>>
    BY <1>5 DEF AcknowledgesAct, storeVars, linkVars, viewVars
  <2>2. HostsFit' /\ WillRender' /\ RoutesHome'
    BY <2>1 DEF HostsInv, HostsFit, WillRender, RoutesHome
  <2>3. QED BY <2>2 DEF HostsInv
<1>6. QED BY <1>1, <1>2, <1>3, <1>4, <1>5

\* What a Mac tells: its snapshot, or a row that comes or goes.
LEMMA HearsKeeps ==
  ASSUME HostsInv, NEW h \in Macs, NEW t, SnapshotComes(h) \/ (t \in Things /\ Tells(h, t))
  PROVE HostsInv'
<1>1. UNCHANGED <<stored, savedView, removal, tab, paired, isOpen, onPage, due, requests,
                  arrived>>
  BY DEF SnapshotComes, Tells, storeVars, linkVars, actVars
<1>2. FitUpdates(updates) /\ FitSource(source) /\ FitSource(Ran(source, updates))
  BY RanFits DEF HostsInv, HostsFit
<1>3. RoutesHome'
  BY <1>1 DEF HostsInv, RoutesHome
<1>4. ASSUME NEW u \in Updates, u.rows \subseteq OwnedBy(h), u.of = h, ~u.run, SetsState(u, source), isOpen[h],
             rows' \in [Macs -> SUBSET Things], \A o \in Macs : rows'[o] \subseteq OwnedBy(o),
             told' \in [Macs -> SUBSET Things], \A o \in Macs : o # h => told'[o] = told[o],
             \A src \in [Macs -> Sources] : src[h].rows = told[h]
               => Applied(src, u)[h].rows = told'[h]
      PROVE HostsInv'
  <2>1. /\ FitSource(source') /\ FitUpdates(updates') /\ updates' # <<>>
        /\ Ran(source', updates') = Applied(Ran(source, updates), u)
    BY <1>2, <1>4, SetsStateKeeps
  <2>2. HostsFit'
    BY <1>1, <1>4, <2>1 DEF HostsInv, HostsFit
  <2>3. h \in Range(paired) /\ tab = "open"
    BY <1>4 DEF HostsInv, HostsFit, WillRender, Range
  <2>4. ASSUME NEW o \in Range(paired) PROVE Applied(Ran(source, updates), u)[o].rows = told'[o]
    <3>1. o \in Macs /\ Ran(source, updates)[o].rows = told[o]
      BY DEF HostsInv, HostsFit, WillRender, Range
    <3>2. CASE o = h
      BY <1>2, <1>4, <3>1, <3>2 DEF FitSource
    <3>3. CASE o # h
      <4>1. Applied(Ran(source, updates), u)[o] = Ran(source, updates)[o]
        BY <1>2, <1>4, <3>1, <3>3, AppliedFits
      <4>2. QED BY <1>4, <3>1, <3>3, <4>1
    <3>4. QED BY <3>2, <3>3
  <2>5. WillRender'
    BY <1>1, <2>1, <2>3, <2>4 DEF HostsInv, WillRender
  <2>6. QED BY <1>3, <2>2, <2>5 DEF HostsInv
<1>5. CASE SnapshotComes(h)
  <2> DEFINE u == Update("snapshot", h, rows[h])
  <2>1. isOpen[h] /\ SetsState(u, source) /\ told' = [told EXCEPT ![h] = rows[h]] /\ rows' = rows
    BY <1>5 DEF SnapshotComes
  <2>2. u \in Updates /\ u.rows = rows[h] /\ u.of = h /\ ~u.run /\ u.type = "snapshot" /\ rows[h] \subseteq OwnedBy(h)
    BY DEF Update, Updates, UpdateTypes, HostsInv, HostsFit
  <2> HIDE DEF u
  <2>3. \A src \in [Macs -> Sources] : Applied(src, u)[h].rows = rows[h]
    BY <2>2 DEF Applied
  <2>4. /\ rows' \in [Macs -> SUBSET Things] /\ \A o \in Macs : rows'[o] \subseteq OwnedBy(o)
        /\ told' \in [Macs -> SUBSET Things] /\ \A o \in Macs : o # h => told'[o] = told[o]
        /\ told'[h] = rows[h]
    BY <2>1 DEF HostsInv, HostsFit
  <2>5. QED BY <1>4, <2>1, <2>2, <2>3, <2>4
<1>6. CASE t \in Things /\ Tells(h, t)
  <2> DEFINE new == IF t \in rows[h] THEN rows[h] \ {t} ELSE rows[h] \union {t}
  <2>1. OwnerOf[t] = h /\ rows' = [rows EXCEPT ![h] = new]
    BY <1>6 DEF Tells
  <2>2. new \subseteq OwnedBy(h) /\ new \in SUBSET Things
    BY <1>6, <2>1 DEF HostsInv, HostsFit, OwnedBy
  <2>3. rows' \in [Macs -> SUBSET Things] /\ \A o \in Macs : rows'[o] \subseteq OwnedBy(o)
    BY <2>1, <2>2 DEF HostsInv, HostsFit
  <2>4. CASE isOpen[h] /\ Known(h)
    <3> DEFINE u == Update(IF t \in rows[h] THEN "removed" ELSE "upsert", h, {t})
    <3>1. /\ SetsState(u, source)
          /\ told' = [told EXCEPT ![h] = IF t \in rows[h] THEN told[h] \ {t}
               ELSE told[h] \union {t}]
      BY <1>6, <2>4 DEF Tells
    <3>2. /\ u \in Updates /\ u.rows = {t} /\ u.of = h /\ ~u.run /\ {t} \subseteq OwnedBy(h)
          /\ u.type = IF t \in rows[h] THEN "removed" ELSE "upsert"
      BY <1>6, <2>1 DEF Update, Updates, UpdateTypes, OwnedBy
    <3> HIDE DEF u
    <3>3. told' \in [Macs -> SUBSET Things] /\ \A o \in Macs : o # h => told'[o] = told[o]
      BY <1>6, <3>1 DEF HostsInv, HostsFit
    <3>4. \A src \in [Macs -> Sources] :
            Applied(src, u)[h].rows = IF t \in rows[h] THEN src[h].rows \ {t}
              ELSE src[h].rows \union {t}
      BY <3>2 DEF Applied
    <3>5. told'[h] = IF t \in rows[h] THEN told[h] \ {t} ELSE told[h] \union {t}
      BY <3>1 DEF HostsInv, HostsFit
    <3>6. \A src \in [Macs -> Sources] : src[h].rows = told[h]
            => Applied(src, u)[h].rows = told'[h]
      BY <3>4, <3>5
    <3>7. QED BY <1>4, <2>3, <2>4, <3>1, <3>2, <3>3, <3>6
  <2>5. CASE ~(isOpen[h] /\ Known(h))
    <3>1. UNCHANGED <<source, told, updates>>
      BY <1>6, <2>5 DEF Tells
    <3>2. HostsFit' /\ WillRender'
      BY <1>1, <2>3, <3>1 DEF HostsInv, HostsFit, WillRender
    <3>3. QED BY <1>3, <3>2 DEF HostsInv
  <2>6. QED BY <2>4, <2>5
<1>7. QED BY <1>5, <1>6

\* A Mac that revokes the device is not shown again by what is still to run.
LEMMA RevokedKeeps == ASSUME HostsInv, NEW h \in Macs, Revoked(h) PROVE HostsInv'
<1> DEFINE src == [source EXCEPT ![h] = Empty]
           u == Update("revoked", h, {})
<1>1. /\ tab = "open" /\ h \in Range(paired)
      /\ isOpen' = [isOpen EXCEPT ![h] = FALSE] /\ paired' = Without(paired, {h})
      /\ SetsState(u, src) /\ told' = [told EXCEPT ![h] = {}]
      /\ requests' \subseteq requests /\ removal' = [removal EXCEPT ![h] = stored]
      /\ UNCHANGED <<stored, savedView, tab, rows, onPage, due, arrived>>
  BY DEF Revoked
<1>2. /\ u \in Updates /\ u.rows = {} /\ u.of = h /\ ~u.run /\ u.type = "revoked"
  BY DEF Update, Updates, UpdateTypes
<1>3. /\ FitSource(src) /\ \A o \in Macs : o # h => src[o] = source[o]
      /\ FitUpdates(updates) /\ FitSource(source)
  BY DEF HostsInv, HostsFit, FitSource, Sources
<1> HIDE DEF src, u
<1>4. /\ FitSource(source') /\ FitUpdates(updates') /\ updates' # <<>>
      /\ Ran(source', updates') = Applied(Ran(src, updates), u)
  BY <1>1, <1>2, <1>3, SetsStateKeeps
<1>5. Ran(source', updates') = Ran(src, updates)
  BY <1>2, <1>4 DEF Applied
<1>6. paired' \in Seq(Macs) /\ Range(paired') = Range(paired) \ {h}
  BY <1>1, WithoutOne DEF HostsInv, HostsFit
<1>7. HostsFit'
  BY <1>1, <1>4, <1>6 DEF HostsInv, HostsFit
<1>8. ASSUME NEW o \in Range(paired') PROVE Ran(source', updates')[o].rows = told'[o]
  <2>5. \A p \in Range(paired) : p \in Macs
    BY DEF HostsInv, HostsFit, Range
  <2>1. o \in Macs /\ o # h /\ o \in Range(paired)
    BY <1>6, <2>5
  <2>2. Ran(src, updates)[o] = Ran(source, updates)[o]
    BY <1>3, <2>1, RanAlike
  <2>3. told'[o] = told[o]
    BY <1>1, <2>1 DEF HostsInv, HostsFit
  <2>4. QED BY <1>5, <2>1, <2>2, <2>3 DEF HostsInv, WillRender
<1>9. WillRender'
  BY <1>1, <1>4, <1>6, <1>8 DEF HostsInv, HostsFit, WillRender
<1>10. RoutesHome'
  BY <1>1 DEF HostsInv, RoutesHome
<1>11. QED BY <1>7, <1>9, <1>10 DEF HostsInv

\* Every step keeps the invariant.
LEMMA HostsStep == HostsInv /\ [HostsNext]_hostVars => HostsInv'
<1>1. SUFFICES ASSUME HostsInv, [HostsNext]_hostVars PROVE HostsInv'
  OBVIOUS
<1>2. CASE UNCHANGED hostVars
  <2>1. UNCHANGED <<stored, savedView, removal, tab, paired, isOpen, rows, source, told, updates,
                    onPage, due, requests, arrived>>
    BY <1>2 DEF hostVars, storeVars, linkVars, viewVars, actVars
  <2>2. HostsFit' /\ WillRender' /\ RoutesHome'
    BY <1>1, <2>1 DEF HostsInv, HostsFit, WillRender, RoutesHome
  <2>3. QED BY <2>2 DEF HostsInv
<1>3. CASE HostsNext
  <2>1. CASE OpensTab \/ Reloads \/ Renders \/ Persists \/ ForgetsAll \/ ForgetsTheRest
    BY <1>1, <2>1, OpensKeeps, RendersKeeps, QuietKeeps
  <2>2. ASSUME NEW h \in Macs,
               Connects(h) \/ Breaks(h) \/ Removes(h) \/ Forgets(h) \/ \E e \in requests : AcknowledgesAct(e, h)
        PROVE HostsInv'
    BY <1>1, <2>2, ActsKeep
  <2>3. ASSUME NEW h \in Macs, Revoked(h) PROVE HostsInv'
    BY <1>1, <2>3, RevokedKeeps
  <2>4. ASSUME NEW h \in Macs, SnapshotComes(h) PROVE HostsInv'
    BY <1>1, <2>4, HearsKeeps
  <2>5. ASSUME NEW h \in Macs, NEW t \in Things, Tells(h, t) PROVE HostsInv'
    BY <1>1, <2>5, HearsKeeps
  <2>6. ASSUME NEW m \in onPage, Acts(m) PROVE HostsInv'
    BY <1>1, <2>6, ActsKeep
  <2>7. QED BY <1>3, <2>1, <2>2, <2>3, <2>4, <2>5, <2>6 DEF HostsNext
<1>4. QED BY <1>1, <1>2, <1>3

\* Every Mac's rows are those it told, and what a person does goes to its own Mac.
THEOREM MacsStayApartAlways == HostsSpec => []MacsStayApart
<1>1. HostsSpec => []HostsInv
  BY HostsInitially, HostsStep, PTL DEF HostsSpec
<1>2. QED BY <1>1, HostsSuffice, PTL

-----------------------------------------------------------------------------
(* 5. The waiting list.                                                    *)

\* What the worker says yes to was listed when it said so, and stays in ever.
ListInv ==
  /\ WaitlistTypeOK
  /\ \A e \in Addresses : signup[e] # "none" => e \in ever
  /\ \A f \in Forms :
       inquiry[f] = "accepted" /\ ~form[f].trap => form[f].address \in ever
  /\ ToldIsListed

\* At first nobody has been told anything.
LEMMA ListInitially == WaitlistInit => ListInv
BY DEF WaitlistInit, ListInv, WaitlistTypeOK, ToldIsListed, FormStates, RequestSteps

\* Every step of a form, the worker and the sweeps keeps it.
LEMMA ListStep == ListInv /\ [WaitlistNext]_waitlistVars => ListInv'
<1> SUFFICES ASSUME ListInv, [WaitlistNext]_waitlistVars PROVE ListInv'
    OBVIOUS
<1> USE DEF ListInv, WaitlistTypeOK, ToldIsListed, FormStates, RequestSteps
<1>1. ASSUME NEW f \in Forms, Submits(f) PROVE ListInv'
      BY <1>1 DEF Submits
<1>2. ASSUME NEW f \in Forms, PageHears(f) PROVE ListInv'
      BY <1>2 DEF PageHears
<1>3. ASSUME NEW f \in Forms, BreaksForm(f) PROVE ListInv'
      BY <1>3 DEF BreaksForm
<1>4. ASSUME NEW f \in Forms, Declines(f) PROVE ListInv'
      BY <1>4 DEF Declines, AnswerForm
<1>5. ASSUME NEW f \in Forms, Looks(f) PROVE ListInv'
      BY <1>5 DEF Looks, AnswerForm
<1>6. ASSUME NEW f \in Forms, Inserts(f) PROVE ListInv'
      BY <1>6 DEF Inserts, AnswerForm
<1>7. ASSUME NEW f \in Forms, Throws(f) PROVE ListInv'
      BY <1>7 DEF Throws, AnswerForm
<1>8. CASE Switches
      BY <1>8 DEF Switches
<1>9. CASE TimePasses
      BY <1>9 DEF TimePasses
<1>10. CASE SweepsInactive
      BY <1>10 DEF SweepsInactive
<1>11. CASE SweepsActive
      BY <1>11 DEF SweepsActive
<1>12. CASE UNCHANGED waitlistVars
      BY <1>12 DEF waitlistVars
<1> QED BY <1>1, <1>2, <1>3, <1>4, <1>5, <1>6, <1>7, <1>8, <1>9, <1>10, <1>11, <1>12
        DEF WaitlistNext

\* A form says success only for an address that was on the list.
THEOREM ListKeeps == WaitlistSpec => []ToldIsListed
<1>1. WaitlistSpec => []ListInv
      BY ListInitially, ListStep, PTL DEF WaitlistSpec
<1>2. ListInv => ToldIsListed
      BY DEF ListInv
<1> QED BY <1>1, <1>2, PTL

-----------------------------------------------------------------------------
(* 6. The feed page.                                                       *)

(* The inductive invariant.                                                 *)

\* A snapshot: posts have a kind, the others a state, and no two cards that
\* were made have one time.
SnapshotIsTrue(s) ==
  /\ s \in FeedSnapshots
  /\ \A p \in Posts : s.is[p] \in PostKinds \union {"none"}
  /\ \A c \in {Approval, Command} : s.is[c] \in States
  /\ \A c \in Cards : s.at[c] <= s.clock
  /\ \A c, e \in Cards : s.is[c] # "none" /\ s.is[e] # "none" /\ s.at[c] = s.at[e] => c = e

\* EveryCardOnce, of a page and a snapshot.
OnceOn(p, s) ==
  /\ IsInjective(p.queue) /\ IsInjective(p.history)
  /\ ToSet(p.queue) \intersect ToSet(p.history) = {}
  /\ ToSet(p.queue) \union ToSet(p.history) = CardsOf(s)
  /\ \A c \in ToSet(p.history) : ~Current(s, c)
  /\ IsPrefix(p.fresh, p.queue)

\* The reader has something under the eyes.
ReadsSomething ==
  reads \in Cards \union {CaughtUp} /\ Contains(Rendered(page), reads)

QueueInv ==
  SnapshotIsTrue(snapshot) /\ page \in Pages /\ OnceOn(page, snapshot) /\ ReadsSomething

-----------------------------------------------------------------------------
(* Cards in their order.                                                    *)

LEMMA CardNumbers ==
  /\ MaxPosts \in Nat /\ Cards \subseteq Nat /\ CaughtUp \notin Cards /\ Posts \subseteq Cards
  /\ Approval \in Cards \ Posts /\ Command \in Cards \ Posts /\ Approval # Command
  /\ IsFiniteSet(Cards) /\ \A c \in Cards : c \in Posts \/ c = Approval \/ c = Command
<1>1. MaxPosts \in Nat
  BY FeedBounds
<1>2. IsFiniteSet(Cards)
  BY <1>1, FS_Interval DEF Cards, Command
<1>3. QED BY <1>1, <1>2 DEF Cards, Posts, Approval, Command, CaughtUp

\* What is a card was made, and has a rank.
LEMMA CardsAreMade ==
  ASSUME NEW s, SnapshotIsTrue(s)
  PROVE  \A c \in CardsOf(s) : c \in Cards /\ s.is[c] # "none" /\ Rank(s, c) \in Nat
<1>1. ASSUME NEW c \in CardsOf(s) PROVE c \in Cards /\ s.is[c] # "none" /\ Rank(s, c) \in Nat
  <2>1. CASE c \in Alone(s)
    <3>1. c \in Posts /\ s.is[c] # "none"
      BY <2>1, Zenon DEF Alone
    <3>2. s.is[c] \in {"progress", "decision", "result"}
      BY <3>1, PostKindsAreKinds DEF SnapshotIsTrue
    <3>3. PostValue[s.is[c]] \in Nat
      BY <3>2 DEF PostValue
    <3>4. Priority(s, c) \in Nat
      BY <3>3 DEF Priority
    <3>5. QED BY <3>1, <3>4, CardNumbers DEF Rank
  <2>2. CASE c \in {Approval, Command} /\ s.is[c] \in {"pending", "queued", "failed"}
    BY <2>2, CardNumbers DEF Rank
  <2>3. QED BY <1>1, <2>1, <2>2 DEF CardsOf
<1>2. QED BY <1>1

\* compareFeedItems orders the cards: no two of them are equal to it.
LEMMA CardsInOrder ==
  ASSUME NEW s, SnapshotIsTrue(s), NEW set \in SUBSET CardsOf(s)
  PROVE  IsFiniteSet(set) /\ Orders(InOrderOf(s), set)
<1>1. IsFiniteSet(set)
  <2>1. set \in SUBSET Cards
    BY CardsAreMade
  <2>2. QED BY <2>1, CardNumbers, FS_Subset
<1> DEFINE R(c) == Rank(s, c)
           at == s.at
<1>2. /\ \A c \in set : c \in Cards /\ R(c) \in Nat /\ at[c] \in Nat
      /\ \A c, e \in set : at[c] = at[e] => c = e
  <2>1. \A c \in set : c \in Cards /\ s.is[c] # "none" /\ R(c) \in Nat
    BY CardsAreMade
  <2>2. s.at \in [Cards -> Nat]
    BY DEF SnapshotIsTrue, FeedSnapshots
  <2>3. QED BY <2>1, <2>2 DEF SnapshotIsTrue
<1>3. \A c, e \in set :
        <<c, e>> \in InOrderOf(s) <=> R(c) < R(e) \/ (R(c) = R(e) /\ at[c] > at[e])
  BY <1>2, Zenon DEF InOrderOf, Before
<1> HIDE DEF R, at
<1>4. \A c \in set : <<c, c>> \notin InOrderOf(s)
  BY <1>2, <1>3
<1>5. \A c, e \in set : c # e => <<c, e>> \in InOrderOf(s) \/ <<e, c>> \in InOrderOf(s)
  BY <1>2, <1>3
<1>6. \A c, e, g \in set :
        <<c, e>> \in InOrderOf(s) /\ <<e, g>> \in InOrderOf(s) => <<c, g>> \in InOrderOf(s)
  BY <1>2, <1>3
<1>7. QED BY <1>1, <1>4, <1>5, <1>6 DEF Orders

\* So that sorting some of the cards loses none and repeats none.
LEMMA ListedOnce ==
  ASSUME NEW s, SnapshotIsTrue(s), NEW set \in SUBSET CardsOf(s)
  PROVE  LET list == Sorted(set, InOrderOf(s)) IN
         list \in Seq(Cards) /\ IsInjective(list) /\ ToSet(list) = set
<1> DEFINE list == Sorted(set, InOrderOf(s))
<1>1. list \in Seq(set) /\ IsInjective(list) /\ ToSet(list) = set
  BY CardsInOrder, SortedOnce, Zenon
<1>2. set \subseteq Cards
  BY CardsAreMade
<1> HIDE DEF list
<1>3. list \in Seq(Cards)
  BY <1>1, <1>2
<1>4. QED BY <1>1, <1>3 DEF list

\* What is new goes among what is below, and everything is there once.
LEMMA MergedOnce ==
  ASSUME NEW s, SnapshotIsTrue(s), NEW old \in Seq(Cards), IsInjective(old),
         NEW new \in SUBSET CardsOf(s), new \intersect ToSet(old) = {}
  PROVE  /\ MergeByTime(s, old, new) \in Seq(Cards) /\ IsInjective(MergeByTime(s, old, new))
         /\ ToSet(MergeByTime(s, old, new)) = ToSet(old) \union new
<1> DEFINE at == s.at
           Place(c) == CHOOSE i \in 1..Len(old) + 1 :
             IF c \in ToSet(old) THEN old[i] = c
             ELSE /\ i <= Len(old) => at[old[i]] <= at[c]
                  /\ \A j \in 1..i - 1 : at[old[j]] > at[c]
           place == [c \in Cards |-> Place(c)]
           First(c, e) == c \in new /\ (e \in new => at[c] > at[e])
           rel == {p \in Cards \X Cards :
             \/ place[p[1]] < place[p[2]]
             \/ place[p[1]] = place[p[2]] /\ First(p[1], p[2])}
           set == ToSet(old) \union new
<1>1. MergeByTime(s, old, new) = Sorted(set, rel)
  BY DEF MergeByTime
<1>2. at \in [Cards -> Nat] /\ set \subseteq Cards /\ new \subseteq Cards
      /\ \A c, e \in new : at[c] = at[e] => c = e
  <2>1. \A c \in new : c \in Cards /\ s.is[c] # "none"
    BY CardsAreMade
  <2>2. at \in [Cards -> Nat] /\ \A c, e \in new : at[c] = at[e] => c = e
    BY <2>1 DEF SnapshotIsTrue, FeedSnapshots
  <2>3. ToSet(old) \subseteq Cards
    BY DEF ToSet
  <2>4. QED BY <2>1, <2>2, <2>3
<1>3. Len(old) \in Nat /\ DOMAIN old = 1..Len(old)
  OBVIOUS
<1> HIDE DEF at
<1>4. ASSUME NEW c \in ToSet(old) PROVE Place(c) \in 1..Len(old) + 1 /\ old[Place(c)] = c
  <2>1. \E i \in 1..Len(old) + 1 : old[i] = c
    BY <1>3 DEF ToSet
  <2>2. QED BY <2>1
<1>5. ASSUME NEW c \in new PROVE Place(c) \in 1..Len(old) + 1
  <2>1. c \in Cards /\ c \notin ToSet(old) /\ at[c] \in Nat
    BY <1>2
  <2> DEFINE T == {i \in 1..Len(old) + 1 : i <= Len(old) => at[old[i]] <= at[c]}
  <2>2. T \in SUBSET Nat /\ Len(old) + 1 \in T
    BY <1>3
  <2>3. PICK i \in T : \A j \in T : i <= j
    BY <2>2, LeastNumber
  <2>4. i \in 1..Len(old) + 1 /\ (i <= Len(old) => at[old[i]] <= at[c])
    OBVIOUS
  <2>5. ASSUME NEW j \in 1..i - 1 PROVE at[old[j]] > at[c]
    <3>1. j \in 1..Len(old) /\ ~(i <= j) /\ j \in 1..Len(old) + 1
      BY <1>3, <2>4
    <3>2. ~(at[old[j]] <= at[c])
      BY <2>3, <3>1
    <3>3. at[old[j]] \in Nat
      BY <1>2, <3>1
    <3>4. QED BY <2>1, <3>2, <3>3
  <2>6. QED BY <2>1, <2>4, <2>5
<1> HIDE DEF Place
<1>6. \A c \in set : place[c] \in Nat
  BY <1>2, <1>4, <1>5
<1>7. \A c, e \in ToSet(old) : place[c] = place[e] => c = e
  BY <1>2, <1>4
<1>8. \A c, e \in set : <<c, e>> \in rel <=>
        place[c] < place[e] \/ (place[c] = place[e] /\ First(c, e))
  BY <1>2, Zenon
<1> HIDE DEF place, rel
<1>9. Orders(rel, set)
  <2>1. \A c \in set : (c \in new) # (c \in ToSet(old))
    OBVIOUS
  <2>2. \A c \in new : at[c] \in Nat
    BY <1>2
  <2>3. \A c \in set : <<c, c>> \notin rel
    BY <1>6, <1>8, <2>2
  <2>4. ASSUME NEW c \in set, NEW e \in set, c # e PROVE <<c, e>> \in rel \/ <<e, c>> \in rel
    <3>1. CASE place[c] # place[e]
      BY <1>6, <1>8, <3>1
    <3>2. CASE place[c] = place[e]
      <4>1. First(c, e) \/ First(e, c)
        BY <1>2, <1>7, <2>1, <2>2, <2>4, <3>2
      <4>2. QED BY <1>8, <3>2, <4>1
    <3>3. QED BY <3>1, <3>2
  <2>5. ASSUME NEW c \in set, NEW e \in set, NEW g \in set,
               <<c, e>> \in rel, <<e, g>> \in rel
        PROVE <<c, g>> \in rel
    <3>1. CASE place[c] < place[e] \/ place[e] < place[g]
      BY <1>6, <1>8, <2>5, <3>1
    <3>2. CASE place[c] = place[e] /\ place[e] = place[g]
      <4>1. First(c, e) /\ First(e, g)
        BY <1>6, <1>8, <2>5, <3>2
      <4>2. First(c, g)
        BY <2>2, <4>1
      <4>3. QED BY <1>8, <3>2, <4>2
    <3>3. QED BY <1>6, <1>8, <2>5, <3>1, <3>2
  <2>6. QED BY <2>3, <2>4, <2>5 DEF Orders
<1>10. IsFiniteSet(set)
  <2>1. set \in SUBSET Cards
    BY <1>2
  <2> HIDE DEF set
  <2>2. QED BY <2>1, CardNumbers, FS_Subset
<1> HIDE DEF set
<1>11. /\ Sorted(set, rel) \in Seq(set) /\ IsInjective(Sorted(set, rel))
       /\ ToSet(Sorted(set, rel)) = set
  BY <1>9, <1>10, SortedOnce, Zenon
<1>12. Sorted(set, rel) \in Seq(Cards)
  BY <1>2, <1>11
<1>13. QED BY <1>1, <1>11, <1>12 DEF set

-----------------------------------------------------------------------------
(* The page, opened and reconciled.                                         *)

\* When the page is opened, every card is on it once.
LEMMA CreatedOnce ==
  ASSUME NEW s, SnapshotIsTrue(s)
  PROVE  Created(s) \in Pages /\ OnceOn(Created(s), s)
<1> DEFINE above == {c \in CardsOf(s) : Current(s, c)}
           below == {c \in CardsOf(s) : ~Current(s, c)}
           q == Sorted(above, InOrderOf(s))
           h == Sorted(below, InOrderOf(s))
           p == Created(s)
<1>1. q \in Seq(Cards) /\ IsInjective(q) /\ ToSet(q) = above
  BY ListedOnce, Zenon
<1>2. h \in Seq(Cards) /\ IsInjective(h) /\ ToSet(h) = below
  BY ListedOnce, Zenon
<1>3. p = [queue |-> q, history |-> h, fresh |-> <<>>]
  BY Zenon DEF Created
<1>4. above \intersect below = {} /\ above \union below = CardsOf(s)
      /\ \A c \in below : ~Current(s, c)
  OBVIOUS
<1> HIDE DEF q, h, p, above, below
<1>5. p \in Pages /\ p.queue = q /\ p.history = h /\ p.fresh = <<>>
  BY <1>1, <1>2, <1>3 DEF Pages
<1>6. IsPrefix(<<>>, q)
  BY <1>1 DEF IsPrefix
<1>7. OnceOn(p, s)
  BY <1>1, <1>2, <1>4, <1>5, <1>6, Zenon DEF OnceOn
<1>8. QED BY <1>5, <1>7 DEF p

\* With a changed snapshot every card is on the page once, and those that were
\* in the queue are in their order.
LEMMA ReconciledOnce ==
  ASSUME NEW s, SnapshotIsTrue(s), NEW p \in Pages, NEW was, OnceOn(p, was)
  PROVE  /\ Reconciled(p, s) \in Pages /\ OnceOn(Reconciled(p, s), s)
         /\ \A i, j \in DOMAIN p.queue, k, l \in DOMAIN Reconciled(p, s).queue :
              /\ p.queue[i] = Reconciled(p, s).queue[k]
              /\ p.queue[j] = Reconciled(p, s).queue[l]
              /\ i < j
              => k < l
<1> DEFINE come == {c \in CardsOf(s) : Current(s, c) /\ c \notin ToSet(p.queue)}
           first == Newcomers(p, s)
           stay == Without(p.queue, Gone(s))
           queue == Queued(p, s)
           below == StaysBelow(p, s)
           new == CardsOf(s) \ (ToSet(queue) \union ToSet(below))
           history == MergeByTime(s, below, new)
           fresh == first \o Without(p.fresh, Gone(s))
           q == Reconciled(p, s)
<1>1. /\ p.queue \in Seq(Cards) /\ p.history \in Seq(Cards) /\ p.fresh \in Seq(Cards)
      /\ IsInjective(p.queue) /\ IsInjective(p.history) /\ IsPrefix(p.fresh, p.queue)
      /\ ToSet(p.queue) \subseteq Cards /\ ToSet(p.history) \subseteq Cards
  <2>1. p.queue \in Seq(Cards) /\ p.history \in Seq(Cards) /\ p.fresh \in Seq(Cards)
    BY DEF Pages
  <2>2. ToSet(p.queue) \subseteq Cards /\ ToSet(p.history) \subseteq Cards
    BY <2>1 DEF ToSet
  <2>3. QED BY <2>1, <2>2 DEF OnceOn
<1>2. first \in Seq(Cards) /\ IsInjective(first) /\ ToSet(first) = come
  BY ListedOnce, Zenon DEF Newcomers
<1>3. stay \in Seq(Cards) /\ IsInjective(stay) /\ ToSet(stay) = ToSet(p.queue) \ Gone(s)
  BY <1>1, WithoutOnce, Zenon
<1>4. queue = first \o stay
  BY Zenon DEF Queued
<1>5. ToSet(p.queue) \ Gone(s) = ToSet(p.queue) \intersect CardsOf(s)
  BY <1>1 DEF Gone
<1> HIDE DEF first, stay, queue
<1>6. queue \in Seq(Cards) /\ IsInjective(queue) /\ ToSet(queue) = ToSet(first) \union ToSet(stay)
  <2>1. ToSet(first) \intersect ToSet(stay) = {}
    BY <1>2, <1>3
  <2>2. QED BY <1>2, <1>3, <1>4, <2>1, OneAfterAnother
<1>7. ToSet(queue) \subseteq CardsOf(s) /\ \A c \in CardsOf(s) \ ToSet(queue) : ~Current(s, c)
  BY <1>2, <1>3, <1>5, <1>6
<1>8. /\ below \in Seq(Cards) /\ IsInjective(below)
      /\ ToSet(below) = ToSet(p.history) \ (Gone(s) \union ToSet(queue))
  <2>1. below = Without(p.history, Gone(s) \union ToSet(queue))
    BY Zenon DEF StaysBelow, queue
  <2> DEFINE away == Gone(s) \union ToSet(queue)
             w == Without(p.history, away)
  <2>2. w \in Seq(Cards) /\ IsInjective(w) /\ ToSet(w) = ToSet(p.history) \ away
    BY <1>1, WithoutOnce, Zenon
  <2> HIDE DEF below
  <2>3. QED BY <2>1, <2>2
<1>9. ToSet(below) \subseteq CardsOf(s) \ ToSet(queue)
  BY <1>1, <1>8 DEF Gone
<1> HIDE DEF below
<1>10. new \in SUBSET CardsOf(s) /\ new \intersect ToSet(below) = {}
       /\ ToSet(below) \union new = CardsOf(s) \ ToSet(queue)
  BY <1>9
<1> HIDE DEF new
<1>11. history \in Seq(Cards) /\ IsInjective(history) /\ ToSet(history) = CardsOf(s) \ ToSet(queue)
  <2>1. below \in Seq(Cards) /\ IsInjective(below)
    BY <1>8
  <2>2. new \in SUBSET CardsOf(s) /\ new \intersect ToSet(below) = {}
    BY <1>10
  <2>3. /\ history \in Seq(Cards) /\ IsInjective(history)
        /\ ToSet(history) = ToSet(below) \union new
    BY <2>1, <2>2, MergedOnce
  <2>4. QED BY <1>10, <2>3
<1> HIDE DEF history
<1>12. fresh \in Seq(Cards) /\ IsPrefix(fresh, queue)
  <2> DEFINE some == Without(p.fresh, Gone(s))
  <2>1. Len(p.fresh) <= Len(p.queue) /\ \A i \in DOMAIN p.fresh : p.fresh[i] = p.queue[i]
    BY <1>1, PrefixIs
  <2>2. /\ some \in Seq(Cards) /\ Len(some) <= Len(stay)
        /\ \A i \in DOMAIN some : some[i] = stay[i]
    BY <1>1, <2>1, WithoutBegins, WithoutOnce DEF stay
  <2> HIDE DEF some
  <2>3. fresh \in Seq(Cards) /\ fresh = first \o some
    BY <1>2, <2>2 DEF some
  <2>4. Len(fresh) <= Len(queue) /\ \A i \in DOMAIN fresh : fresh[i] = queue[i]
    BY <1>2, <1>3, <1>4, <2>2, <2>3
  <2>5. QED BY <1>6, <2>3, <2>4, PrefixIs
<1>13. q = [queue |-> queue, history |-> history, fresh |-> fresh]
  BY Zenon DEF Reconciled, queue, below, new, history, first
<1> HIDE DEF fresh, q
<1>14. q \in Pages /\ q.queue = queue /\ q.history = history /\ q.fresh = fresh
  BY <1>6, <1>11, <1>12, <1>13 DEF Pages
<1>15. OnceOn(q, s)
  <2>1. ToSet(queue) \intersect ToSet(history) = {} /\ ToSet(queue) \union ToSet(history) = CardsOf(s)
        /\ \A c \in ToSet(history) : ~Current(s, c)
    BY <1>7, <1>11
  <2>2. QED BY <1>6, <1>11, <1>12, <1>14, <2>1, Zenon DEF OnceOn
<1>16. ASSUME NEW i \in DOMAIN p.queue, NEW j \in DOMAIN p.queue,
              NEW k \in DOMAIN queue, NEW l \in DOMAIN queue,
              p.queue[i] = queue[k], p.queue[j] = queue[l], i < j
       PROVE k < l
  <2>1. ASSUME NEW m \in DOMAIN p.queue, NEW n \in DOMAIN queue, p.queue[m] = queue[n]
        PROVE n - Len(first) \in DOMAIN stay /\ stay[n - Len(first)] = queue[n]
    <3>1. queue[n] \notin ToSet(first)
      BY <1>2, <2>1 DEF ToSet
    <3>2. n \notin DOMAIN first
      <4>1. ASSUME n \in DOMAIN first PROVE queue[n] = first[n]
        BY <1>2, <1>3, <1>4, <4>1, OneAfterAnother
      <4>2. QED BY <3>1, <4>1 DEF ToSet
    <3>3. n - Len(first) \in DOMAIN stay /\ n = Len(first) + (n - Len(first))
      BY <1>2, <1>3, <1>4, <3>2
    <3>4. QED BY <1>2, <1>3, <1>4, <3>3
  <2> DEFINE kk == k - Len(first)  ll == l - Len(first)
  <2>2. kk \in DOMAIN stay /\ stay[kk] = queue[k] /\ ll \in DOMAIN stay /\ stay[ll] = queue[l]
    BY <1>16, <2>1
  <2> HIDE DEF kk, ll
  <2>3. p.queue[i] = stay[kk] /\ p.queue[j] = stay[ll]
    BY <1>16, <2>2
  <2>4. kk < ll
    BY <1>1, <1>16, <2>2, <2>3, WithoutOnce, Zenon DEF stay
  <2>5. k \in Nat /\ l \in Nat /\ Len(first) \in Nat
    BY <1>2, <1>6
  <2>6. QED BY <2>4, <2>5 DEF kk, ll
<1>17. \A i, j \in DOMAIN p.queue, k, l \in DOMAIN q.queue :
         p.queue[i] = q.queue[k] /\ p.queue[j] = q.queue[l] /\ i < j => k < l
  BY <1>14, <1>16
<1>18. QED BY <1>14, <1>15, <1>17 DEF q

\* What the page shows.
LEMMA RenderedIs ==
  ASSUME NEW p \in Pages
  PROVE  /\ Rendered(p) \in Seq(Cards \union {CaughtUp})
         /\ Len(Rendered(p)) = Len(p.queue) + 1 + Len(p.history)
         /\ Len(p.queue) \in Nat /\ Len(p.history) \in Nat
         /\ ToSet(Rendered(p)) = ToSet(p.queue) \union {CaughtUp} \union ToSet(p.history)
         /\ /\ IsInjective(p.queue) /\ IsInjective(p.history)
            /\ ToSet(p.queue) \intersect ToSet(p.history) = {}
            => IsInjective(Rendered(p))
<1> DEFINE All == Cards \union {CaughtUp}
           a == p.queue  b == <<CaughtUp>>  c == p.history
           ab == a \o b
<1>1. /\ a \in Seq(All) /\ b \in Seq(All) /\ c \in Seq(All)
      /\ ToSet(a) \subseteq Cards /\ ToSet(c) \subseteq Cards
  <2>1. a \in Seq(Cards) /\ c \in Seq(Cards)
    BY DEF Pages
  <2>2. ToSet(a) \subseteq Cards /\ ToSet(c) \subseteq Cards
    BY <2>1 DEF ToSet
  <2>3. QED BY <2>1, <2>2
<1>2. ToSet(b) = {CaughtUp} /\ IsInjective(b) /\ Len(b) = 1
  BY DEF ToSet, IsInjective
<1>3. Rendered(p) = ab \o c
  BY DEF Rendered
<1> HIDE DEF a, b, c, All
<1>4. /\ ab \in Seq(All) /\ ToSet(ab) = ToSet(a) \union {CaughtUp}
      /\ IsInjective(a) => IsInjective(ab)
  <2>1. ToSet(a) \intersect ToSet(b) = {}
    BY <1>1, <1>2, CardNumbers
  <2>2. QED BY <1>1, <1>2, <2>1, OneAfterAnother
<1>5. Len(ab) = Len(a) + 1 /\ Len(a) \in Nat
  BY <1>1, <1>2, ConcatProperties
<1> HIDE DEF ab
<1>6. ToSet(a) \intersect ToSet(c) = {} => ToSet(ab) \intersect ToSet(c) = {}
  BY <1>1, <1>4, CardNumbers
<1>7. /\ ab \o c \in Seq(All) /\ ToSet(ab \o c) = ToSet(ab) \union ToSet(c)
      /\ IsInjective(ab) /\ IsInjective(c) /\ ToSet(ab) \intersect ToSet(c) = {}
           => IsInjective(ab \o c)
  BY <1>1, <1>4, OneAfterAnother, Zenon
<1>8. Len(ab \o c) = Len(a) + 1 + Len(c) /\ Len(a) \in Nat /\ Len(c) \in Nat
  <2>1. Len(ab \o c) = Len(ab) + Len(c)
    BY <1>1, <1>4, ConcatProperties, Zenon
  <2>2. Len(c) \in Nat
    BY <1>1
  <2>3. QED BY <1>5, <2>1, <2>2
<1>9. QED BY <1>3, <1>4, <1>6, <1>7, <1>8 DEF a, c, All

\* Whatever is shown can be under the eyes.
LEMMA ShowsSomething ==
  ASSUME NEW p \in Pages, NEW i \in DOMAIN Rendered(p)
  PROVE  Rendered(p)[i] \in Cards \union {CaughtUp} /\ Contains(Rendered(p), Rendered(p)[i])
<1>1. Rendered(p) \in Seq(Cards \union {CaughtUp})
  BY RenderedIs
<1>2. DOMAIN Rendered(p) = 1..Len(Rendered(p))
  BY <1>1
<1>3. Rendered(p)[i] \in Cards \union {CaughtUp}
  BY <1>1, <1>2
<1>4. QED BY <1>2, <1>3 DEF Contains

\* A page that is redrawn shows what was read, or else something.
LEMMA RestoresSomething ==
  ASSUME NEW p \in Pages, NEW q \in Pages,
         reads \in Cards \union {CaughtUp}, Contains(Rendered(p), reads)
  PROVE  /\ Restored(p, q) \in Cards \union {CaughtUp} /\ Contains(Rendered(q), Restored(p, q))
         /\ Contains(Rendered(q), reads) /\ p.queue \o p.history # <<>> => Restored(p, q) = reads
<1> DEFINE a == Rendered(p)  b == Rendered(q)  X == Cards \union {CaughtUp}
           i == CHOOSE j \in DOMAIN a : a[j] = reads
<1>1. a \in Seq(X) /\ b \in Seq(X) /\ Len(a) \in Nat \ {0} /\ Len(b) \in Nat \ {0}
      /\ (Len(a) = 1 => Len(p.queue) = 0 /\ Len(p.history) = 0)
  <2>1. a \in Seq(X) /\ Len(a) = Len(p.queue) + 1 + Len(p.history)
        /\ Len(p.queue) \in Nat /\ Len(p.history) \in Nat
    BY RenderedIs, Zenon
  <2>2. b \in Seq(X) /\ Len(b) = Len(q.queue) + 1 + Len(q.history)
        /\ Len(q.queue) \in Nat /\ Len(q.history) \in Nat
    BY RenderedIs, Zenon
  <2> DEFINE qa == Len(p.queue)  ha == Len(p.history)
             qb == Len(q.queue)  hb == Len(q.history)
  <2> HIDE DEF a, b, X, qa, ha, qb, hb
  <2>3. /\ qa \in Nat /\ ha \in Nat /\ qb \in Nat /\ hb \in Nat
        /\ Len(a) = qa + 1 + ha /\ Len(b) = qb + 1 + hb
    BY <2>1, <2>2, Zenon DEF qa, ha, qb, hb
  <2>4. /\ Len(a) \in Nat \ {0} /\ Len(b) \in Nat \ {0}
        /\ Len(a) = 1 => qa = 0 /\ ha = 0
    BY <2>3
  <2>5. QED BY <2>1, <2>2, <2>4, Zenon DEF qa, ha
<1>2. Restored(p, q) = IF Len(a) = 1 THEN b[1] ELSE IF Contains(b, reads) THEN reads
        ELSE b[IF i < Len(b) THEN i ELSE Len(b)]
  BY Zenon DEF Restored
<1>3. \A n \in DOMAIN b : b[n] \in X /\ Contains(b, b[n])
  BY ShowsSomething
<1> HIDE DEF a, b
<1>4. DOMAIN a = 1..Len(a) /\ DOMAIN b = 1..Len(b)
  BY <1>1
<1>5. i \in DOMAIN a
  <2>1. \E j \in DOMAIN a : a[j] = reads
    BY <1>4 DEF Contains, a
  <2>2. QED BY <2>1
<1> HIDE DEF i, X
<1>6. 1 \in DOMAIN b /\ (IF i < Len(b) THEN i ELSE Len(b)) \in DOMAIN b
  BY <1>1, <1>4, <1>5
<1>7. Restored(p, q) \in X /\ Contains(b, Restored(p, q))
  <2>1. CASE Len(a) = 1
    BY <1>2, <1>3, <1>6, <2>1
  <2>2. CASE Len(a) # 1 /\ Contains(b, reads)
    BY <1>2, <2>2, Zenon DEF X
  <2>3. CASE Len(a) # 1 /\ ~Contains(b, reads)
    BY <1>2, <1>3, <1>6, <2>3
  <2>4. QED BY <2>1, <2>2, <2>3
<1>8. ASSUME Contains(b, reads), p.queue \o p.history # <<>> PROVE Restored(p, q) = reads
  <2>1. Len(a) # 1
    <3>1. ASSUME Len(p.queue) = 0, Len(p.history) = 0 PROVE FALSE
      <4>1. p.queue \in Seq(Cards) /\ p.history \in Seq(Cards)
        BY DEF Pages
      <4>2. p.queue = <<>> /\ p.history = <<>>
        BY <3>1, <4>1, EmptySeq
      <4>3. QED BY <1>8, <4>1, <4>2
    <3>2. QED BY <1>1, <3>1
  <2>2. QED BY <1>2, <1>8, <2>1
<1>9. QED BY <1>7, <1>8 DEF a, b, X

-----------------------------------------------------------------------------
(* The steps.                                                               *)

\* A page is redrawn for a snapshot.
LEMMA RedrawnKeeps ==
  ASSUME QueueInv, NEW s, SnapshotIsTrue(s), Redrawn(s)
  PROVE  QueueInv' /\ CardsKeepTheirPlace
<1>1. /\ page \in Pages /\ OnceOn(page, snapshot)
      /\ reads \in Cards \union {CaughtUp} /\ Contains(Rendered(page), reads)
  BY DEF QueueInv, ReadsSomething
<1>2. snapshot' = s /\ page' = Reconciled(page, s) /\ reads' = Restored(page, page')
  BY DEF Redrawn
<1>3. /\ page' \in Pages /\ OnceOn(page', s)
      /\ \A i, j \in DOMAIN page.queue, k, l \in DOMAIN page'.queue :
           page.queue[i] = page'.queue[k] /\ page.queue[j] = page'.queue[l] /\ i < j => k < l
  BY <1>1, <1>2, ReconciledOnce, Zenon
<1>4. /\ reads' \in Cards \union {CaughtUp} /\ Contains(Rendered(page'), reads')
      /\ Contains(Rendered(page'), reads) /\ page.queue \o page.history # <<>> => reads' = reads
  BY <1>1, <1>2, <1>3, RestoresSomething, Zenon
<1>5. QueueInv'
  <2>1. SnapshotIsTrue(snapshot)'
    BY <1>2 DEF SnapshotIsTrue
  <2>2. OnceOn(page, snapshot)'
    BY <1>2, <1>3 DEF OnceOn, CardsOf, Alone, Current
  <2>3. (page \in Pages)' /\ ReadsSomething'
    BY <1>3, <1>4 DEF ReadsSomething, Rendered
  <2>4. QED BY <2>1, <2>2, <2>3 DEF QueueInv
<1>6. CardsKeepTheirPlace
  BY <1>3, <1>4 DEF CardsKeepTheirPlace, Moved, Rendered
<1>7. QED BY <1>5, <1>6

\* Something new comes: nothing else came at its time.
LEMMA MadeIsTrue ==
  ASSUME SnapshotIsTrue(snapshot), NEW c \in Cards, NEW kind, NEW gap \in Nat \ {0},
         c \in Posts => kind \in PostKinds, c \notin Posts => kind \in States
  PROVE  SnapshotIsTrue(Made(c, kind, gap))
<1> DEFINE s == Made(c, kind, gap)
<1>1. /\ snapshot \in FeedSnapshots /\ \A e \in Cards : snapshot.at[e] <= snapshot.clock
      /\ snapshot.clock \in Nat /\ snapshot.at \in [Cards -> Nat]
  BY DEF SnapshotIsTrue, FeedSnapshots
<1>2. /\ s = [snapshot EXCEPT !.is = [snapshot.is EXCEPT ![c] = kind],
                !.at = [snapshot.at EXCEPT ![c] = snapshot.clock + gap],
                !.clock = snapshot.clock + gap]
  BY DEF Made
<1>3. /\ s.is = [snapshot.is EXCEPT ![c] = kind]
      /\ s.at = [snapshot.at EXCEPT ![c] = snapshot.clock + gap]
      /\ s.clock = snapshot.clock + gap /\ s.seen = snapshot.seen /\ s.out = snapshot.out
  BY <1>1, <1>2 DEF FeedSnapshots
<1>4. s \in FeedSnapshots
  <2>1. /\ snapshot.is \in [Cards -> PostKinds \union States]
        /\ snapshot.seen \in SUBSET Posts /\ snapshot.out \in SUBSET Cards
    BY <1>1 DEF FeedSnapshots
  <2>2. kind \in PostKinds \union States
    OBVIOUS
  <2> DEFINE is == [snapshot.is EXCEPT ![c] = kind]
             at == [snapshot.at EXCEPT ![c] = snapshot.clock + gap]
  <2>3. is \in [Cards -> PostKinds \union States]
    BY <2>1, <2>2
  <2>4. at \in [Cards -> Nat] /\ snapshot.clock + gap \in Nat
    BY <1>1
  <2>5. s = [snapshot EXCEPT !.is = is, !.at = at, !.clock = snapshot.clock + gap]
    BY <1>2
  <2> HIDE DEF is, at, s
  <2>6. QED BY <1>1, <2>3, <2>4, <2>5 DEF FeedSnapshots
<1>5. snapshot.is \in [Cards -> PostKinds \union States]
  BY <1>1 DEF FeedSnapshots
<1> HIDE DEF s
<1>6. \A e \in Cards : e # c => s.is[e] = snapshot.is[e] /\ s.at[e] = snapshot.at[e]
  BY <1>1, <1>3, <1>5
<1>7. s.is[c] = kind /\ s.at[c] = snapshot.clock + gap
  BY <1>1, <1>3, <1>5
<1>8. \A p \in Posts : s.is[p] \in PostKinds \union {"none"}
  BY <1>6, <1>7, CardNumbers DEF SnapshotIsTrue
<1>9. \A e \in {Approval, Command} : s.is[e] \in States
  BY <1>6, <1>7, CardNumbers DEF SnapshotIsTrue
<1>10. \A e \in Cards : s.at[e] <= s.clock
  BY <1>1, <1>3, <1>6, <1>7
<1>11. \A e \in Cards : e # c => s.at[e] # s.at[c]
  BY <1>1, <1>6, <1>7
<1>12. \A e, f \in Cards : s.is[e] # "none" /\ s.is[f] # "none" /\ s.at[e] = s.at[f] => e = f
  BY <1>6, <1>11 DEF SnapshotIsTrue
<1>13. QED BY <1>4, <1>8, <1>9, <1>10, <1>12, Zenon DEF SnapshotIsTrue, s

\* A state changes.
LEMMA MovedIsTrue ==
  ASSUME SnapshotIsTrue(snapshot), NEW c \in {Approval, Command}, NEW to \in States,
         snapshot.is[c] # "none"
  PROVE  SnapshotIsTrue([snapshot EXCEPT !.is[c] = to])
<1> DEFINE s == [snapshot EXCEPT !.is[c] = to]
<1>1. snapshot \in FeedSnapshots /\ snapshot.is \in [Cards -> PostKinds \union States]
  BY DEF SnapshotIsTrue, FeedSnapshots
<1>2. /\ s \in FeedSnapshots /\ s.is = [snapshot.is EXCEPT ![c] = to]
      /\ s.at = snapshot.at /\ s.clock = snapshot.clock
  BY <1>1 DEF FeedSnapshots
<1> HIDE DEF s
<1>3. c \in Cards \ Posts
  BY CardNumbers
<1>4. \A e \in Cards : s.is[e] = IF e = c THEN to ELSE snapshot.is[e]
  BY <1>1, <1>2
<1>5. \A p \in Posts : s.is[p] \in PostKinds \union {"none"}
  BY <1>3, <1>4, CardNumbers DEF SnapshotIsTrue
<1>6. \A e \in {Approval, Command} : s.is[e] \in States
  BY <1>4, CardNumbers DEF SnapshotIsTrue
<1>7. \A e \in Cards : s.is[e] # "none" => snapshot.is[e] # "none"
  BY <1>4
<1>8. SnapshotIsTrue(s)
  BY <1>2, <1>5, <1>6, <1>7 DEF SnapshotIsTrue
<1>9. QED BY <1>8 DEF s

\* Posts are read, cards moved out and back.
LEMMA TouchedIsTrue ==
  ASSUME SnapshotIsTrue(snapshot), NEW seen \in SUBSET Posts, NEW out \in SUBSET Cards
  PROVE  /\ SnapshotIsTrue([snapshot EXCEPT !.seen = seen])
         /\ SnapshotIsTrue([snapshot EXCEPT !.out = out])
BY DEF SnapshotIsTrue, FeedSnapshots

\* What is new is shown.
LEMMA FreshIsShown ==
  ASSUME page \in Pages, OnceOn(page, snapshot), page.fresh # <<>>
  PROVE  Head(page.fresh) \in Cards /\ Contains(Rendered(page), Head(page.fresh))
<1> DEFINE a == page.fresh  b == page.queue  c == Rendered(page)
<1>1. a \in Seq(Cards) /\ b \in Seq(Cards) /\ IsPrefix(a, b) /\ a # <<>>
  BY DEF Pages, OnceOn
<1>2. c \in Seq(Cards \union {CaughtUp}) /\ ToSet(b) \subseteq ToSet(c)
  BY RenderedIs
<1> HIDE DEF a, b, c
<1>3. Len(a) \in Nat \ {0} /\ Head(a) = a[1]
  BY <1>1, EmptySeq
<1>4. 1 \in DOMAIN a /\ 1 \in DOMAIN b /\ a[1] = b[1]
  BY <1>1, <1>3, PrefixIs
<1>5. Head(a) \in Cards /\ Head(a) \in ToSet(c)
  <2>1. Head(a) \in Cards
    BY <1>1, <1>3, <1>4
  <2>2. Head(a) \in ToSet(b)
    BY <1>3, <1>4 DEF ToSet
  <2>3. QED BY <1>2, <2>1, <2>2
<1>6. Contains(c, Head(a))
  BY <1>2, <1>5 DEF Contains, ToSet
<1>7. QED BY <1>5, <1>6 DEF a, c

\* The hint goes, and the page shows the same.
LEMMA HintGoes ==
  ASSUME page \in Pages, OnceOn(page, snapshot)
  PROVE  LET p == [page EXCEPT !.fresh = <<>>] IN
         p \in Pages /\ OnceOn(p, snapshot) /\ Rendered(p) = Rendered(page)
<1> DEFINE p == [page EXCEPT !.fresh = <<>>]
<1>1. p \in Pages /\ p.queue = page.queue /\ p.history = page.history /\ p.fresh = <<>>
  <2>1. <<>> \in Seq(Cards)
    OBVIOUS
  <2>2. /\ p = [queue |-> page.queue, history |-> page.history, fresh |-> <<>>]
        /\ page.queue \in Seq(Cards) /\ page.history \in Seq(Cards)
    BY DEF Pages
  <2> HIDE DEF p
  <2>3. QED BY <2>1, <2>2 DEF Pages
<1>2. IsPrefix(<<>>, page.queue)
  BY DEF Pages, IsPrefix
<1> HIDE DEF p
<1>3. OnceOn(p, snapshot) /\ Rendered(p) = Rendered(page)
  BY <1>1, <1>2 DEF OnceOn, Rendered
<1>4. QED BY <1>1, <1>3 DEF p

\* The reader goes somewhere, or opens the page again.
LEMMA ReaderKeeps ==
  ASSUME QueueInv,
         (\E c \in Cards \union {CaughtUp} : Scrolls(c)) \/ GoesToFresh \/ TakesHint \/ Opens
  PROVE  QueueInv' /\ CardsKeepTheirPlace
<1>1. snapshot' = snapshot
  BY DEF Scrolls, GoesToFresh, TakesHint, Opens
<1>2. page \in Pages /\ OnceOn(page, snapshot) /\ SnapshotIsTrue(snapshot) /\ ReadsSomething
  BY DEF QueueInv
<1>3. /\ page' \in Pages /\ OnceOn(page', snapshot)
      /\ reads' \in Cards \union {CaughtUp} /\ Contains(Rendered(page'), reads')
  <2>1. CASE \E c \in Cards \union {CaughtUp} : Scrolls(c)
    BY <1>2, <2>1, HintGoes DEF Scrolls
  <2>2. CASE GoesToFresh
    BY <1>2, <2>2, FreshIsShown DEF GoesToFresh
  <2>3. CASE TakesHint
    <3>1. page' = [page EXCEPT !.fresh = <<>>] /\ reads' = Head(page.fresh) /\ page.fresh # <<>>
      BY <2>3 DEF TakesHint
    <3>2. page' \in Pages /\ OnceOn(page', snapshot) /\ Rendered(page') = Rendered(page)
      BY <1>2, <3>1, HintGoes
    <3>3. QED BY <1>2, <3>1, <3>2, FreshIsShown
  <2>4. CASE Opens
    <3>1. page' = Created(snapshot) /\ reads' = Rendered(page')[1]
      BY <2>4 DEF Opens
    <3>2. page' \in Pages /\ OnceOn(page', snapshot)
      BY <1>2, <3>1, CreatedOnce
    <3>3. 1 \in DOMAIN Rendered(page')
      <4> DEFINE a == Rendered(page')  q == Len(page'.queue)  h == Len(page'.history)
      <4>1. a \in Seq(Cards \union {CaughtUp}) /\ Len(a) = q + 1 + h /\ q \in Nat /\ h \in Nat
        BY <3>2, RenderedIs
      <4> HIDE DEF a, q, h
      <4>2. 1 \in DOMAIN a
        BY <4>1
      <4>3. QED BY <4>2 DEF a
    <3>4. QED BY <3>1, <3>2, <3>3, ShowsSomething
  <2>5. QED BY <2>1, <2>2, <2>3, <2>4
<1>4. QueueInv'
  <2>1. SnapshotIsTrue(snapshot)'
    BY <1>1, <1>2 DEF SnapshotIsTrue
  <2>2. OnceOn(page, snapshot)'
    BY <1>1, <1>3 DEF OnceOn, CardsOf, Alone, Current
  <2>3. (page \in Pages)' /\ ReadsSomething'
    BY <1>3 DEF ReadsSomething, Rendered
  <2>4. QED BY <2>1, <2>2, <2>3 DEF QueueInv
<1>5. QED BY <1>1, <1>4 DEF CardsKeepTheirPlace

LEMMA QueueInitially == QueueInit => QueueInv
<1> SUFFICES ASSUME QueueInit PROVE QueueInv
  OBVIOUS
<1>1. /\ snapshot = [is |-> [c \in Cards |-> "none"], at |-> [c \in Cards |-> 0],
           seen |-> {}, out |-> {}, clock |-> 0]
      /\ page = [queue |-> <<>>, history |-> <<>>, fresh |-> <<>>] /\ reads = CaughtUp
  BY DEF QueueInit
<1>2. SnapshotIsTrue(snapshot)
  BY <1>1, CardNumbers DEF SnapshotIsTrue, FeedSnapshots, States
<1>3. page \in Pages
  BY <1>1 DEF Pages
<1>4. CardsOf(snapshot) = {}
  <2>1. \A c \in CardsOf(snapshot) : c \in Cards /\ snapshot.is[c] # "none"
    BY <1>2, CardsAreMade
  <2>2. \A c \in Cards : snapshot.is[c] = "none"
    BY <1>1
  <2>3. QED BY <2>1, <2>2
<1>5. OnceOn(page, snapshot)
  <2>1. IsInjective(<<>>) /\ ToSet(<<>>) = {}
    BY DEF IsInjective, ToSet
  <2>2. IsPrefix(<<>>, <<>>)
    BY DEF IsPrefix
  <2>3. page.queue = <<>> /\ page.history = <<>> /\ page.fresh = <<>>
    BY <1>1
  <2>4. QED BY <1>4, <2>1, <2>2, <2>3 DEF OnceOn
<1>6. ReadsSomething
  <2>1. CaughtUp \in ToSet(Rendered(page)) /\ Rendered(page) \in Seq(Cards \union {CaughtUp})
    BY <1>3, RenderedIs
  <2>2. Contains(Rendered(page), CaughtUp)
    BY <2>1 DEF Contains, ToSet
  <2>3. QED BY <1>1, <2>2 DEF ReadsSomething
<1>7. QED BY <1>2, <1>3, <1>5, <1>6 DEF QueueInv

LEMMA QueueStep == QueueInv /\ [QueueNext]_queueVars => QueueInv' /\ [CardsKeepTheirPlace]_queueVars
<1> SUFFICES ASSUME QueueInv, [QueueNext]_queueVars PROVE QueueInv' /\ [CardsKeepTheirPlace]_queueVars
  OBVIOUS
<1>1. SnapshotIsTrue(snapshot) /\ snapshot \in FeedSnapshots
  BY DEF QueueInv, SnapshotIsTrue
<1>2. ASSUME NEW gap \in 1..MaxGap, NEW p \in Posts, NEW kind \in PostKinds, Posted(p, kind, gap)
      PROVE QueueInv' /\ CardsKeepTheirPlace
  <2>1. SnapshotIsTrue(Made(p, kind, gap)) /\ Redrawn(Made(p, kind, gap))
    <3>1. gap \in Nat \ {0}
      BY FeedBounds
    <3>2. QED BY <1>1, <1>2, <3>1, CardNumbers, MadeIsTrue DEF Posted, Comes
  <2>2. QED BY <2>1, RedrawnKeeps
<1>3. ASSUME NEW gap \in 1..MaxGap, Requested(gap) \/ Queues(gap)
      PROVE QueueInv' /\ CardsKeepTheirPlace
  <2>1. gap \in Nat \ {0}
    BY FeedBounds
  <2>2. CASE Requested(gap)
    <3>1. SnapshotIsTrue(Made(Approval, "pending", gap)) /\ Redrawn(Made(Approval, "pending", gap))
      BY <1>1, <2>1, <2>2, CardNumbers, MadeIsTrue DEF Requested, Comes, States
    <3>2. QED BY <3>1, RedrawnKeeps
  <2>3. CASE Queues(gap)
    <3>1. SnapshotIsTrue(Made(Command, "queued", gap)) /\ Redrawn(Made(Command, "queued", gap))
      BY <1>1, <2>1, <2>3, CardNumbers, MadeIsTrue DEF Queues, Comes, States
    <3>2. QED BY <3>1, RedrawnKeeps
  <2>4. QED BY <1>3, <2>2, <2>3
<1>4. ASSUME NEW c \in {Approval, Command}, NEW from \in States \ {"none"}, NEW to \in States,
             Moves(c, from, to)
      PROVE QueueInv' /\ CardsKeepTheirPlace
  <2>1. snapshot.is[c] # "none" /\ Redrawn([snapshot EXCEPT !.is[c] = to])
    BY <1>4 DEF Moves
  <2>2. SnapshotIsTrue([snapshot EXCEPT !.is[c] = to])
    BY <1>1, <2>1, MovedIsTrue
  <2>3. QED BY <2>1, <2>2, RedrawnKeeps
<1>5. ASSUME Sees PROVE QueueInv' /\ CardsKeepTheirPlace
  <2> DEFINE seen == snapshot.seen \union {reads}
  <2>1. Redrawn([snapshot EXCEPT !.seen = seen]) /\ seen \in SUBSET Posts
    BY <1>1, <1>5 DEF Sees, FeedSnapshots
  <2>2. SnapshotIsTrue([snapshot EXCEPT !.seen = seen])
    BY <1>1, <2>1, TouchedIsTrue
  <2>3. QED BY <2>1, <2>2, RedrawnKeeps
<1>6. ASSUME MovesOut \/ \E c \in Cards : Undoes(c) PROVE QueueInv' /\ CardsKeepTheirPlace
  <2>1. \E out \in SUBSET Cards : Redrawn([snapshot EXCEPT !.out = out])
    <3>1. CASE MovesOut
      <4> DEFINE out == snapshot.out \union {reads}
      <4>1. Redrawn([snapshot EXCEPT !.out = out]) /\ out \in SUBSET Cards
        BY <1>1, <3>1 DEF MovesOut, FeedSnapshots, QueueInv, ReadsSomething
      <4>2. QED BY <4>1
    <3>2. ASSUME NEW c \in Cards, Undoes(c)
          PROVE \E out \in SUBSET Cards : Redrawn([snapshot EXCEPT !.out = out])
      <4> DEFINE out == snapshot.out \ {c}
      <4>1. Redrawn([snapshot EXCEPT !.out = out]) /\ out \in SUBSET Cards
        BY <1>1, <3>2 DEF Undoes, FeedSnapshots
      <4>2. QED BY <4>1
    <3>3. QED BY <1>6, <3>1, <3>2
  <2>2. PICK out \in SUBSET Cards : Redrawn([snapshot EXCEPT !.out = out])
    BY <2>1
  <2>3. SnapshotIsTrue([snapshot EXCEPT !.out = out])
    BY <1>1, TouchedIsTrue
  <2>4. QED BY <2>2, <2>3, RedrawnKeeps
<1>7. ASSUME (\E c \in Cards \union {CaughtUp} : Scrolls(c)) \/ GoesToFresh \/ TakesHint \/ Opens
      PROVE QueueInv' /\ CardsKeepTheirPlace
  BY <1>7, ReaderKeeps
<1>8. ASSUME UNCHANGED queueVars PROVE QueueInv'
  BY <1>8 DEF queueVars, QueueInv, SnapshotIsTrue, OnceOn, CardsOf, Alone, Current,
    ReadsSomething, Rendered
<1>9. ASSUME QueueNext PROVE QueueInv' /\ CardsKeepTheirPlace
  <2>1. Approval \in {Approval, Command} /\ Command \in {Approval, Command}
        /\ {"pending", "queued", "failed", "over"} \subseteq States \ {"none"}
    BY DEF States
  <2>2. CASE \E gap \in 1..MaxGap :
               \/ \E p \in Posts, kind \in PostKinds : Posted(p, kind, gap)
               \/ Requested(gap) \/ Queues(gap)
    BY <1>2, <1>3, <2>2
  <2>3. CASE Moves(Approval, "pending", "over")
    BY <1>4, <2>1, <2>3
  <2>4. CASE \E to \in {"failed", "over"} : Moves(Command, "queued", to)
    BY <1>4, <2>1, <2>4
  <2>5. CASE Moves(Command, "failed", "queued")
    BY <1>4, <2>1, <2>5
  <2>6. QED BY <1>5, <1>6, <1>7, <1>9, <2>2, <2>3, <2>4, <2>5 DEF QueueNext
<1>10. QED BY <1>8, <1>9

LEMMA QueueSuffices == QueueInv => EveryCardOnce
<1> SUFFICES ASSUME QueueInv PROVE EveryCardOnce
  OBVIOUS
<1>1. page \in Pages /\ OnceOn(page, snapshot)
  BY DEF QueueInv
<1>2. IsInjective(Rendered(page)) /\ ToSet(Rendered(page)) = CardsOf(snapshot) \union {CaughtUp}
  BY <1>1, RenderedIs DEF OnceOn
<1>3. \A i \in DOMAIN page.history : ~Current(snapshot, page.history[i])
  BY <1>1 DEF OnceOn, ToSet
<1>4. QED BY <1>1, <1>2, <1>3 DEF EveryCardOnce, OnceOn

\* Whatever comes, is read, moved out or taken back, every card is on the page
\* once, and none moves while it is read.
THEOREM QueueKeepsCards == QueueSpec => PageKeepsItsCards
<1>1. QueueSpec => [][EveryCardOnce /\ EveryCardOnce' /\ CardsKeepTheirPlace]_queueVars
  BY QueueInitially, QueueStep, QueueSuffices, PTL DEF QueueSpec
<1>2. QED BY <1>1 DEF PageKeepsItsCards

-----------------------------------------------------------------------------
(* 7. A task's page.                                                       *)

(* The inductive invariant.                                                 *)

\* What comes has its time.
PostRows == [kind : SaidKinds, at : Nat]
CommandRows == [text : Texts, at : Nat]
EventRows ==
  [kind : EventKinds, turn : Turns \union {NoTurn}, text : Texts \union {NoText}, at : Nat]

TimelineInv ==
  /\ clock \in Nat
  /\ postsOf \in Seq(PostRows) /\ commandsOf \in Seq(CommandRows)
  /\ eventsOf \in Seq(EventRows)

\* Items and their names.
TurnIds == Turns \union Nat
ItemNames == ({"post", "command", "event"} \X Nat) \union ({"turn"} \X TurnIds)
TimelineItems ==
  [type : {"post", "command", "turn"}, id : Nat \union ({"turn"} \X TurnIds), at : Nat,
   own : SUBSET Nat, under : SUBSET Nat, names : SUBSET ItemNames]

\* No two items have one name of a kind.
ApartIn(items, kind, ids) ==
  \A m, n \in DOMAIN items : \A x \in ids :
    <<kind, x>> \in items[m].names /\ <<kind, x>> \in items[n].names => m = n
NamesApart(items) ==
  /\ ApartIn(items, "post", Nat) /\ ApartIn(items, "command", Nat)
  /\ ApartIn(items, "event", Nat) /\ ApartIn(items, "turn", TurnIds)

\* Posts and commands have an item, and so have the events that are done.
AllIn(items, kind, ids) ==
  \A i \in ids : \E n \in DOMAIN items : <<kind, i>> \in items[n].names

\* What an item says of events: they are done; its turn is that of one of them; what
\* it shows it is found by, and what it is found by it shows, or its words say.
TurnNamed(es, done, x) ==
  \E i \in done : x = i \/ (es[i].turn # NoTurn /\ x = es[i].turn)
ItemTells(cs, es, item, done) ==
  /\ \A i \in Nat : <<"event", i>> \in item.names => i \in done
  /\ \A x \in TurnIds : <<"turn", x>> \in item.names => TurnNamed(es, done, x)
  /\ \A i \in item.own \union item.under : <<"event", i>> \in item.names
  /\ \A i \in Nat : <<"event", i>> \in item.names =>
       \/ i \in item.own \union item.under
       \/ item.type = "command" /\ es[i].text = cs[item.id].text

\* Of all items, when some events are done.
ItemsHold(ps, cs, es, items, done) ==
  /\ items \in Seq(TimelineItems)
  /\ AllIn(items, "post", DOMAIN ps) /\ AllIn(items, "command", DOMAIN cs)
  /\ AllIn(items, "event", done)
  /\ NamesApart(items)
  /\ \A n \in DOMAIN items : ItemTells(cs, es, items[n], done)

-----------------------------------------------------------------------------
(* Placing one turn.                                                        *)

\* The greatest and the least of some numbers of events are among them.
LEMMA EndsAreIn ==
  ASSUME NEW N \in Nat, NEW S \in SUBSET (1..N), S # {}
  PROVE  Max(S) \in S /\ Min(S) \in S
<1>1. \E x \in S : \A y \in S : x <= y
  BY LeastNumber
<1> DEFINE T == {N - x : x \in S}
<1>2. T \in SUBSET Nat /\ T # {}
  OBVIOUS
<1>3. PICK t \in T : \A u \in T : t <= u
  BY <1>2, LeastNumber
<1>4. PICK x \in S : t = N - x
  BY <1>3
<1>5. \A y \in S : x >= y
  <2>1. \A y \in S : N - x <= N - y
    BY <1>3, <1>4
  <2>2. QED BY <2>1
<1>6. QED BY <1>1, <1>5, Zenon DEF Max, Min

\* The nearest of some items is one of them.
LEMMA NearestIs ==
  ASSUME NEW items \in Seq(TimelineItems), NEW some \in SUBSET DOMAIN items, some # {},
         NEW at \in Nat
  PROVE  Nearest(items, some, at) \in some
<1> DEFINE far == [n \in some |-> Apart(items[n].at, at)]
           Fars == {far[n] : n \in some}
<1>1. \A n \in some : n \in Nat /\ items[n].at \in Nat
  <2>1. \A n \in some : n \in Nat /\ items[n] \in TimelineItems
    OBVIOUS
  <2>2. QED BY <2>1 DEF TimelineItems
<1>2. \A n \in some : far[n] \in Nat
  BY <1>1 DEF Apart
<1>3. Fars \in SUBSET Nat /\ Fars # {}
  BY <1>2
<1>4. PICK d \in Fars : \A e \in Fars : d <= e
  BY <1>3, LeastNumber
<1> DEFINE Near == {n \in some : far[n] = d}
<1>5. Near \in SUBSET Nat /\ Near # {}
  BY <1>4
<1>6. PICK n \in Near : \A m \in Near : n <= m
  BY <1>5, LeastNumber
<1> HIDE DEF far
<1>7. ASSUME NEW o \in some PROVE far[n] < far[o] \/ (far[n] = far[o] /\ n <= o)
  <2>1. far[n] = d /\ n \in some
    BY <1>6
  <2>2. d <= far[o] /\ far[o] \in Nat /\ d \in Nat
    BY <1>2, <1>3, <1>4
  <2>3. CASE far[o] = d
    BY <1>6, <2>1, <2>3
  <2>4. CASE far[o] # d
    BY <2>1, <2>2, <2>4
  <2>5. QED BY <2>3, <2>4
<1>8. n \in some /\ \A o \in some :
        \/ Apart(items[n].at, at) < Apart(items[o].at, at)
        \/ Apart(items[n].at, at) = Apart(items[o].at, at) /\ n <= o
  BY <1>6, <1>7 DEF far
<1>9. QED BY <1>8, Zenon DEF Nearest

\* A turn goes under an item.
LEMMA UnderHolds ==
  ASSUME NEW ps, NEW cs, NEW es, NEW items, NEW done,
         ItemsHold(ps, cs, es, items, done), NEW n \in DOMAIN items,
         NEW group \in SUBSET Nat, NEW details \in SUBSET group,
         group \intersect done = {},
         \A i \in group \ details :
           items[n].type = "command" /\ es[i].text = cs[items[n].id].text
  PROVE  ItemsHold(ps, cs, es, Under(items, n, details, group), done \union group)
<1> DEFINE new == Under(items, n, details, group)
<1>1. /\ items \in Seq(TimelineItems) /\ NamesApart(items)
      /\ \A m \in DOMAIN items : ItemTells(cs, es, items[m], done)
  BY DEF ItemsHold
<1>2. items[n] \in TimelineItems
  BY <1>1
<1>3. /\ DOMAIN new = DOMAIN items
      /\ \A m \in DOMAIN items : m # n => new[m] = items[m]
      /\ new[n].type = items[n].type /\ new[n].id = items[n].id
      /\ new[n].own = items[n].own /\ new[n].under = items[n].under \union details
      /\ new[n].names = items[n].names \union EventNames(group)
      /\ new \in Seq(TimelineItems)
  <2>1. EventNames(group) \in SUBSET ItemNames
    BY DEF EventNames, ItemNames
  <2> DEFINE item == [items[n] EXCEPT !.under = @ \union details,
                                      !.names = @ \union EventNames(group)]
  <2>2. item \in TimelineItems
    BY <1>2, <2>1 DEF TimelineItems
  <2>3. /\ item.type = items[n].type /\ item.id = items[n].id /\ item.own = items[n].own
        /\ item.under = items[n].under \union details
        /\ item.names = items[n].names \union EventNames(group)
    BY <1>2 DEF TimelineItems
  <2>4. new = [items EXCEPT ![n] = item]
    BY DEF Under
  <2> HIDE DEF item
  <2>5. QED BY <1>1, <2>2, <2>3, <2>4
<1> HIDE DEF new
<1>4. /\ \A m \in DOMAIN new, i \in Nat :
           <<"event", i>> \in new[m].names
             <=> <<"event", i>> \in items[m].names \/ (m = n /\ i \in group)
      /\ \A m \in DOMAIN new, kind \in {"post", "command", "turn"} : \A x :
           <<kind, x>> \in new[m].names <=> <<kind, x>> \in items[m].names
  BY <1>3 DEF EventNames
<1>5. /\ AllIn(new, "post", DOMAIN ps) /\ AllIn(new, "command", DOMAIN cs)
      /\ AllIn(new, "event", done \union group)
  <2>1. AllIn(new, "post", DOMAIN ps) /\ AllIn(new, "command", DOMAIN cs)
    BY <1>3, <1>4 DEF AllIn, ItemsHold
  <2>2. ASSUME NEW i \in done \union group
        PROVE \E m \in DOMAIN new : <<"event", i>> \in new[m].names
    <3>1. CASE i \in done
      <4>1. PICK m \in DOMAIN items : <<"event", i>> \in items[m].names
        BY <3>1 DEF AllIn, ItemsHold
      <4>2. <<"event", i>> \in new[m].names
        BY <1>3, <4>1
      <4>3. QED BY <1>3, <4>2
    <3>2. CASE i \in group
      BY <1>3, <1>4, <3>2
    <3>3. QED BY <3>1, <3>2
  <2>3. QED BY <2>1, <2>2 DEF AllIn
<1>6. NamesApart(new)
  <2>1. ApartIn(new, "post", Nat) /\ ApartIn(new, "command", Nat)
        /\ ApartIn(new, "turn", TurnIds)
    BY <1>1, <1>3, <1>4 DEF NamesApart, ApartIn
  <2>2. ApartIn(new, "event", Nat)
    <3>1. \A m \in DOMAIN items, i \in Nat : <<"event", i>> \in items[m].names => i \notin group
      BY <1>1 DEF ItemTells
    <3>2. QED BY <1>1, <1>3, <1>4, <3>1 DEF NamesApart, ApartIn
  <2>3. QED BY <2>1, <2>2 DEF NamesApart
<1>7. ASSUME NEW m \in DOMAIN new PROVE ItemTells(cs, es, new[m], done \union group)
  <2>1. ItemTells(cs, es, items[m], done)
    BY <1>1, <1>3
  <2>2. \A x : TurnNamed(es, done, x) => TurnNamed(es, done \union group, x)
    BY DEF TurnNamed
  <2>3. CASE m # n
    <3>1. new[m] = items[m]
      BY <1>3, <2>3
    <3>2. ItemTells(cs, es, items[m], done \union group)
      BY <2>1, <2>2 DEF ItemTells
    <3>3. QED BY <3>1, <3>2
  <2>4. CASE m = n
    <3>1. \A i \in Nat : <<"event", i>> \in new[m].names => i \in done \union group
      BY <1>4, <2>1 DEF ItemTells
    <3>2. \A x \in TurnIds : <<"turn", x>> \in new[m].names
                               => TurnNamed(es, done \union group, x)
      BY <1>4, <2>1, <2>2 DEF ItemTells
    <3>3. \A i \in new[m].own \union new[m].under : <<"event", i>> \in new[m].names
      <4>1. \A i \in items[m].own \union items[m].under : <<"event", i>> \in items[m].names
        BY <2>1 DEF ItemTells
      <4>2. \A i \in details : <<"event", i>> \in EventNames(group)
        BY DEF EventNames
      <4>3. QED BY <1>3, <2>4, <4>1, <4>2
    <3>4. \A i \in Nat : <<"event", i>> \in new[m].names =>
            \/ i \in new[m].own \union new[m].under
            \/ new[m].type = "command" /\ es[i].text = cs[new[m].id].text
      <4>1. \A i \in Nat : <<"event", i>> \in items[m].names =>
              \/ i \in items[m].own \union items[m].under
              \/ items[m].type = "command" /\ es[i].text = cs[items[m].id].text
        BY <2>1 DEF ItemTells
      <4>2. QED BY <1>3, <1>4, <2>4, <4>1
    <3>5. QED BY <3>1, <3>2, <3>3, <3>4, Zenon DEF ItemTells
  <2>5. QED BY <2>3, <2>4
<1>8. QED BY <1>3, <1>5, <1>6, <1>7 DEF ItemsHold, new

\* A turn becomes an item of its own.
LEMMA TurnHolds ==
  ASSUME NEW ps, NEW cs, NEW es \in Seq(EventRows), NEW items,
         NEW done \in SUBSET DOMAIN es, ItemsHold(ps, cs, es, items, done),
         NEW group \in SUBSET DOMAIN es, NEW i \in group, group \intersect done = {},
         \A j \in group, k \in done : es[k].turn # NoTurn => es[k].turn # es[j].turn
  PROVE  ItemsHold(ps, cs, es, AddTurn(es, items, i, group), done \union group)
<1> DEFINE new == AddTurn(es, items, i, group)
           x == IF es[i].turn # NoTurn THEN es[i].turn ELSE i
           item == ItemOf("turn", <<"turn", x>>, es[i].at, {i}, group \ {i},
                          {<<"turn", x>>} \union EventNames(group))
           last == Len(items) + 1
<1>1. /\ items \in Seq(TimelineItems) /\ NamesApart(items)
      /\ \A m \in DOMAIN items : ItemTells(cs, es, items[m], done)
  BY DEF ItemsHold
<1>2. /\ DOMAIN es \in SUBSET Nat /\ es[i].at \in Nat
      /\ \A j \in DOMAIN es : es[j].turn \in Turns \union {NoTurn}
  <2>1. DOMAIN es \in SUBSET Nat /\ \A j \in DOMAIN es : es[j] \in EventRows
    OBVIOUS
  <2>2. QED BY <2>1 DEF EventRows
<1>3. x \in TurnIds
  BY <1>2 DEF TurnIds
<1>4. TurnNamed(es, group, x) /\ ~TurnNamed(es, done, x)
  <2>1. TurnNamed(es, group, x)
    BY DEF TurnNamed
  <2>2. ASSUME NEW k \in done, x = k PROVE FALSE
    BY <1>2, <2>2, TimelineAssumption
  <2>3. ASSUME NEW k \in done, es[k].turn # NoTurn, x = es[k].turn PROVE FALSE
    BY <1>2, <2>3, TimelineAssumption
  <2>4. QED BY <2>1, <2>2, <2>3 DEF TurnNamed
<1> HIDE DEF x
<1>5. item \in TimelineItems
  <2>1. EventNames(group) \in SUBSET ItemNames /\ <<"turn", x>> \in ItemNames
    BY <1>2, <1>3 DEF EventNames, ItemNames
  <2>2. QED BY <1>2, <1>3, <2>1 DEF ItemOf, TimelineItems
<1>6. /\ item.type = "turn" /\ item.own = {i} /\ item.under = group \ {i}
      /\ item.names = {<<"turn", x>>} \union EventNames(group)
  BY DEF ItemOf
<1>7. new = Append(items, item)
  BY Zenon DEF AddTurn, x
<1> HIDE DEF item, new
<1>8. /\ new \in Seq(TimelineItems) /\ DOMAIN new = DOMAIN items \union {last}
      /\ last \notin DOMAIN items /\ new[last] = item
      /\ \A m \in DOMAIN items : new[m] = items[m]
  BY <1>1, <1>5, <1>7
<1> HIDE DEF last
<1>9. /\ \A j : <<"event", j>> \in item.names <=> j \in group
      /\ \A y : <<"turn", y>> \in item.names <=> y = x
      /\ \A y : <<"post", y>> \notin item.names /\ <<"command", y>> \notin item.names
  BY <1>6 DEF EventNames
<1>10. /\ AllIn(new, "post", DOMAIN ps) /\ AllIn(new, "command", DOMAIN cs)
       /\ AllIn(new, "event", done \union group)
  <2>1. /\ AllIn(items, "post", DOMAIN ps) /\ AllIn(items, "command", DOMAIN cs)
        /\ AllIn(items, "event", done)
    BY DEF ItemsHold
  <2>2. \A j \in group : <<"event", j>> \in new[last].names
    BY <1>8, <1>9
  <2>3. QED BY <1>8, <2>1, <2>2 DEF AllIn
<1>11. NamesApart(new)
  <2>1. ApartIn(new, "post", Nat) /\ ApartIn(new, "command", Nat)
    BY <1>1, <1>8, <1>9 DEF NamesApart, ApartIn
  <2>2. ApartIn(new, "event", Nat)
    <3>1. \A m \in DOMAIN items, j \in Nat : <<"event", j>> \in items[m].names => j \notin group
      BY <1>1 DEF ItemTells
    <3>2. QED BY <1>1, <1>8, <1>9, <3>1 DEF NamesApart, ApartIn
  <2>3. ApartIn(new, "turn", TurnIds)
    <3>1. \A m \in DOMAIN items, y \in TurnIds : <<"turn", y>> \in items[m].names => y # x
      BY <1>1, <1>4 DEF ItemTells
    <3>2. QED BY <1>1, <1>8, <1>9, <3>1 DEF NamesApart, ApartIn
  <2>4. QED BY <2>1, <2>2, <2>3 DEF NamesApart
<1>12. ASSUME NEW m \in DOMAIN new PROVE ItemTells(cs, es, new[m], done \union group)
  <2>1. \A y : TurnNamed(es, done, y) \/ TurnNamed(es, group, y)
                 => TurnNamed(es, done \union group, y)
    BY DEF TurnNamed
  <2>2. CASE m \in DOMAIN items
    <3>1. ItemTells(cs, es, items[m], done)
      BY <1>1, <2>2
    <3>2. ItemTells(cs, es, items[m], done \union group)
      BY <2>1, <3>1 DEF ItemTells
    <3>3. QED BY <1>8, <2>2, <3>2
  <2>3. CASE m = last
    <3>1. \A j \in item.own \union item.under : j \in group
      BY <1>6
    <3>2. \A j \in group : j \in item.own \union item.under
      BY <1>6
    <3>3. ItemTells(cs, es, item, done \union group)
      <4>1. \A j \in Nat : <<"event", j>> \in item.names => j \in done \union group
        BY <1>9
      <4>2. \A y \in TurnIds : <<"turn", y>> \in item.names
                                => TurnNamed(es, done \union group, y)
        <5>1. TurnNamed(es, done \union group, x)
          BY <1>4, <2>1, Zenon
        <5>2. ASSUME NEW y \in TurnIds, <<"turn", y>> \in item.names
              PROVE TurnNamed(es, done \union group, y)
          <6>1. y = x
            BY <1>9, <5>2
          <6>2. QED BY <5>1, <6>1
        <5>3. QED BY <5>2
      <4>3. \A j \in item.own \union item.under : <<"event", j>> \in item.names
        BY <1>9, <3>1
      <4>4. \A j \in Nat : <<"event", j>> \in item.names => j \in item.own \union item.under
        BY <1>9, <3>2
      <4>5. QED BY <4>1, <4>2, <4>3, <4>4, Zenon DEF ItemTells
    <3>4. QED BY <1>8, <2>3, <3>3
  <2>4. QED BY <1>8, <2>2, <2>3
<1>13. QED BY <1>8, <1>10, <1>11, <1>12 DEF ItemsHold, new

\* However a turn is placed, the items go on telling what they should.
LEMMA PlacedHolds ==
  ASSUME NEW ps, NEW cs, NEW es \in Seq(EventRows), NEW items,
         NEW done \in SUBSET DOMAIN es, ItemsHold(ps, cs, es, items, done),
         NEW group \in SUBSET DOMAIN es, group # {}, group \intersect done = {},
         \A j \in group, k \in done : es[k].turn # NoTurn => es[k].turn # es[j].turn
  PROVE  ItemsHold(ps, cs, es, Placed(cs, es, items, group), done \union group)
<1> DEFINE wording == Told(es, group)
           first == Min(wording)
           same == {n \in DOMAIN items : /\ items[n].type = "command"
                                         /\ cs[items[n].id].text = es[first].text}
           last == Max(group)
           near == Nearest(items, DOMAIN items, es[last].at)
           new == Placed(cs, es, items, group)
<1>1. /\ DOMAIN es = 1..Len(es) /\ Len(es) \in Nat /\ group \in SUBSET Nat
      /\ \A j \in DOMAIN es : es[j].at \in Nat
  <2>1. DOMAIN es = 1..Len(es) /\ Len(es) \in Nat /\ \A j \in DOMAIN es : es[j] \in EventRows
    OBVIOUS
  <2>2. QED BY <2>1 DEF EventRows
<1>2. items \in Seq(TimelineItems)
  BY DEF ItemsHold
<1>3. last \in group
  BY <1>1, EndsAreIn
<1>4. wording # {} => first \in group
  BY <1>1, EndsAreIn DEF Told
<1>5. \/ /\ wording # {} /\ same # {}
         /\ new = Under(items, Nearest(items, same, es[first].at), group \ {first}, group)
      \/ wording # {} /\ new = AddTurn(es, items, first, group)
      \/ wording = {} /\ items # <<>> /\ new = Under(items, near, group, group)
      \/ new = AddTurn(es, items, last, group)
  BY Zenon DEF Placed
<1> HIDE DEF last, first, wording, new
<1>6. CASE /\ wording # {} /\ same # {}
           /\ new = Under(items, Nearest(items, same, es[first].at), group \ {first}, group)
  <2> DEFINE n == Nearest(items, same, es[first].at)
  <2>1. same \in SUBSET DOMAIN items /\ es[first].at \in Nat
    BY <1>1, <1>4, <1>6
  <2>2. n \in same
    BY <1>2, <1>6, <2>1, NearestIs, Zenon
  <2> HIDE DEF n
  <2>3. n \in DOMAIN items /\ \A i \in group \ (group \ {first}) :
          items[n].type = "command" /\ es[i].text = cs[items[n].id].text
    BY <2>2
  <2>4. group \ {first} \in SUBSET group
    OBVIOUS
  <2> HIDE DEF same
  <2>5. ItemsHold(ps, cs, es, Under(items, n, group \ {first}, group), done \union group)
    BY <1>1, <2>3, <2>4, UnderHolds, Zenon
  <2>6. QED BY <1>6, <2>5 DEF n, new
<1>7. CASE wording # {} /\ new = AddTurn(es, items, first, group)
  <2>1. first \in group
    BY <1>4, <1>7
  <2>2. ItemsHold(ps, cs, es, AddTurn(es, items, first, group), done \union group)
    BY <2>1, TurnHolds, Zenon
  <2>3. QED BY <1>7, <2>2 DEF new
<1>8. CASE wording = {} /\ items # <<>> /\ new = Under(items, near, group, group)
  <2>1. DOMAIN items # {} /\ DOMAIN items \in SUBSET DOMAIN items /\ es[last].at \in Nat
    <3>1. Len(items) \in Nat /\ Len(items) # 0 /\ DOMAIN items = 1..Len(items)
      BY <1>2, <1>8, EmptySeq
    <3>2. 1 \in DOMAIN items
      BY <3>1
    <3>3. QED BY <1>1, <1>3, <3>2
  <2>2. near \in DOMAIN items
    BY <1>2, <2>1, NearestIs, Zenon
  <2>3. group \in SUBSET group /\ \A i \in group \ group :
          items[near].type = "command" /\ es[i].text = cs[items[near].id].text
    OBVIOUS
  <2> HIDE DEF near
  <2>4. ItemsHold(ps, cs, es, Under(items, near, group, group), done \union group)
    BY <1>1, <2>2, <2>3, UnderHolds, Zenon
  <2>5. QED BY <1>8, <2>4 DEF new
<1>9. CASE new = AddTurn(es, items, last, group)
  <2>1. ItemsHold(ps, cs, es, AddTurn(es, items, last, group), done \union group)
    BY <1>3, TurnHolds, Zenon
  <2>2. QED BY <1>9, <2>1 DEF new
<1>10. QED BY <1>5, <1>6, <1>7, <1>8, <1>9 DEF new

-----------------------------------------------------------------------------
(* Placing all of them.                                                     *)

\* The posts and the commands alone.
LEMMA PrimaryHolds ==
  ASSUME NEW ps \in Seq(PostRows), NEW cs \in Seq(CommandRows), NEW es
  PROVE  ItemsHold(ps, cs, es, Primary(ps, cs), {})
<1> DEFINE posts == [i \in DOMAIN ps |-> ItemOf("post", i, ps[i].at, {}, {}, {<<"post", i>>})]
           commands ==
             [i \in DOMAIN cs |-> ItemOf("command", i, cs[i].at, {}, {}, {<<"command", i>>})]
           items == Primary(ps, cs)
<1>1. /\ DOMAIN ps = 1..Len(ps) /\ Len(ps) \in Nat /\ \A i \in DOMAIN ps : ps[i].at \in Nat
      /\ DOMAIN cs = 1..Len(cs) /\ Len(cs) \in Nat /\ \A i \in DOMAIN cs : cs[i].at \in Nat
  <2>1. /\ DOMAIN ps = 1..Len(ps) /\ Len(ps) \in Nat /\ \A i \in DOMAIN ps : ps[i] \in PostRows
        /\ DOMAIN cs = 1..Len(cs) /\ Len(cs) \in Nat
        /\ \A i \in DOMAIN cs : cs[i] \in CommandRows
    OBVIOUS
  <2>2. QED BY <2>1 DEF PostRows, CommandRows
<1>2. /\ \A i \in DOMAIN ps : posts[i] \in TimelineItems
      /\ \A i \in DOMAIN cs : commands[i] \in TimelineItems
  BY <1>1 DEF ItemOf, TimelineItems, ItemNames
<1>3. /\ \A i \in DOMAIN ps : /\ posts[i].own = {} /\ posts[i].under = {}
                              /\ posts[i].names = {<<"post", i>>}
      /\ \A i \in DOMAIN cs : /\ commands[i].own = {} /\ commands[i].under = {}
                              /\ commands[i].names = {<<"command", i>>}
  BY DEF ItemOf
<1>4. posts \in Seq(TimelineItems) /\ commands \in Seq(TimelineItems)
      /\ Len(posts) = Len(ps) /\ Len(commands) = Len(cs)
  <2>1. posts \in [1..Len(ps) -> TimelineItems] /\ commands \in [1..Len(cs) -> TimelineItems]
    BY <1>1, <1>2
  <2> HIDE DEF posts, commands
  <2>2. posts \in Seq(TimelineItems) /\ commands \in Seq(TimelineItems)
    <3>1. \A n \in Nat : [1..n -> TimelineItems] \in {[1..k -> TimelineItems] : k \in Nat}
      OBVIOUS
    <3>2. Seq(TimelineItems) = UNION {[1..k -> TimelineItems] : k \in Nat}
      BY SeqDef
    <3>3. \A n \in Nat : [1..n -> TimelineItems] \subseteq Seq(TimelineItems)
      BY <3>1, <3>2, Zenon
    <3>4. QED BY <1>1, <2>1, <3>3
  <2>3. DOMAIN posts = 1..Len(ps) /\ DOMAIN commands = 1..Len(cs)
    BY <2>1
  <2>4. QED BY <1>1, <2>2, <2>3
<1>5. items = posts \o commands
  BY Zenon DEF Primary
<1> HIDE DEF posts, commands, items
<1>6. /\ items \in Seq(TimelineItems) /\ DOMAIN items = 1..Len(ps) + Len(cs)
      /\ \A i \in DOMAIN ps : items[i] = posts[i]
      /\ \A i \in DOMAIN cs : items[Len(ps) + i] = commands[i]
  <2>1. items \in Seq(TimelineItems) /\ Len(items) = Len(ps) + Len(cs)
    BY <1>1, <1>4, <1>5
  <2>2. \A i \in 1..Len(posts) + Len(commands) :
          items[i] = IF i <= Len(posts) THEN posts[i] ELSE commands[i - Len(posts)]
    BY <1>4, <1>5, ConcatProperties
  <2>3. \A i \in DOMAIN ps : i \in 1..Len(posts) + Len(commands) /\ i <= Len(posts)
    BY <1>1, <1>4
  <2>4. \A i \in DOMAIN cs : /\ Len(ps) + i \in 1..Len(posts) + Len(commands)
                             /\ ~(Len(ps) + i <= Len(posts)) /\ (Len(ps) + i) - Len(posts) = i
    BY <1>1, <1>4
  <2>5. DOMAIN items = 1..Len(ps) + Len(cs)
    BY <1>1, <2>1
  <2>6. \A i \in DOMAIN ps : items[i] = posts[i]
    BY <2>2, <2>3
  <2>7. \A i \in DOMAIN cs : items[Len(ps) + i] = commands[i]
    <3>1. ASSUME NEW i \in DOMAIN cs PROVE items[Len(ps) + i] = commands[i]
      <4> DEFINE k == Len(ps) + i
      <4>1. k \in 1..Len(posts) + Len(commands) /\ ~(k <= Len(posts)) /\ k - Len(posts) = i
        BY <2>4
      <4> HIDE DEF k
      <4>2. items[k] = commands[i]
        BY <2>2, <4>1
      <4>3. QED BY <4>2 DEF k
    <3>2. QED BY <3>1
  <2>8. QED BY <2>1, <2>5, <2>6, <2>7, Zenon
<1>7. \A n \in DOMAIN items :
        \/ n \in DOMAIN ps /\ items[n] = posts[n]
        \/ n - Len(ps) \in DOMAIN cs /\ items[n] = commands[n - Len(ps)]
  <2>1. ASSUME NEW n \in DOMAIN items, n \notin DOMAIN ps
        PROVE n - Len(ps) \in DOMAIN cs /\ items[n] = commands[n - Len(ps)]
    <3>1. n - Len(ps) \in DOMAIN cs /\ Len(ps) + (n - Len(ps)) = n
      BY <1>1, <1>6, <2>1
    <3>2. QED BY <1>6, <3>1
  <2>2. QED BY <1>6, <2>1
<1>8. \A n \in DOMAIN items :
        /\ items[n].own = {} /\ items[n].under = {}
        /\ \A x : /\ <<"post", x>> \in items[n].names <=> n \in DOMAIN ps /\ x = n
                  /\ <<"command", x>> \in items[n].names
                       <=> n \notin DOMAIN ps /\ x = n - Len(ps)
                  /\ <<"event", x>> \notin items[n].names /\ <<"turn", x>> \notin items[n].names
  <2>1. ASSUME NEW n \in DOMAIN items, n \in DOMAIN ps
        PROVE /\ items[n].own = {} /\ items[n].under = {} /\ items[n].names = {<<"post", n>>}
    BY <1>3, <1>6, <2>1
  <2>2. ASSUME NEW n \in DOMAIN items, n \notin DOMAIN ps
        PROVE /\ items[n].own = {} /\ items[n].under = {}
              /\ items[n].names = {<<"command", n - Len(ps)>>}
    BY <1>3, <1>7, <2>2
  <2>3. QED BY <2>1, <2>2
<1>9. AllIn(items, "post", DOMAIN ps) /\ AllIn(items, "command", DOMAIN cs)
  <2>1. \A i \in DOMAIN ps : i \in DOMAIN items
    BY <1>1, <1>6
  <2>2. \A i \in DOMAIN cs : /\ Len(ps) + i \in DOMAIN items /\ Len(ps) + i \notin DOMAIN ps
                             /\ (Len(ps) + i) - Len(ps) = i
    BY <1>1, <1>6
  <2>3. QED BY <1>8, <2>1, <2>2 DEF AllIn
<1>10. NamesApart(items)
  <2>1. \A m, n \in DOMAIN items : m - Len(ps) = n - Len(ps) => m = n
    BY <1>1, <1>6
  <2>2. ApartIn(items, "post", Nat)
    BY <1>8 DEF ApartIn
  <2>3. ApartIn(items, "command", Nat)
    <3>1. ASSUME NEW m \in DOMAIN items, NEW n \in DOMAIN items, NEW x \in Nat,
                 <<"command", x>> \in items[m].names, <<"command", x>> \in items[n].names
          PROVE m = n
      <4>1. x = m - Len(ps) /\ x = n - Len(ps)
        BY <1>8, <3>1
      <4>2. QED BY <2>1, <4>1
    <3>2. QED BY <3>1 DEF ApartIn
  <2>4. ApartIn(items, "event", Nat) /\ ApartIn(items, "turn", TurnIds)
    BY <1>8 DEF ApartIn
  <2>5. QED BY <2>2, <2>3, <2>4 DEF NamesApart
<1>11. \A n \in DOMAIN items : ItemTells(cs, es, items[n], {})
  BY <1>8 DEF ItemTells
<1>12. QED BY <1>6, <1>9, <1>10, <1>11 DEF ItemsHold, AllIn, items

\* The items so far: a group is placed at its first event.
Places(g, ps, cs, es) ==
  LET visible == ShownEvents(ps, es) IN
  /\ g[0] = Primary(ps, cs)
  /\ \A n \in 1..Len(es) :
       g[n] = IF n \in visible /\ \A j \in GroupOf(es, visible, n) : n <= j
              THEN Placed(cs, es, g[n - 1], GroupOf(es, visible, n)) ELSE g[n - 1]

LEMMA ItemsRun ==
  ASSUME NEW ps, NEW cs, NEW es \in Seq(EventRows)
  PROVE \E g : Places(g, ps, cs, es) /\ ItemsOf(ps, cs, es) = g[Len(es)]
<1> DEFINE visible == ShownEvents(ps, es)
           After(prev, n) ==
             IF n \in visible /\ \A j \in GroupOf(es, visible, n) : n <= j
             THEN Placed(cs, es, prev, GroupOf(es, visible, n)) ELSE prev
           start == Primary(ps, cs)
           Reached == {n \in Nat : \E g : g = [i \in 0..n |-> IF i = 0 THEN start
             ELSE After(g[i - 1], i)]}
<1>1. Len(es) \in Nat
  OBVIOUS
<1> HIDE DEF After, start
<1>2. 0 \in Reached
  <2>1. [p \in 0..0 |-> start] = [p \in 0..0 |-> IF p = 0 THEN start
          ELSE After([q \in 0..0 |-> start][p - 1], p)]
    OBVIOUS
  <2>2. QED BY <2>1
<1>3. ASSUME NEW n \in 0..Len(es), n < Len(es), n \in Reached PROVE n + 1 \in Reached
  <2>1. PICK g : g = [i \in 0..n |-> IF i = 0 THEN start ELSE After(g[i - 1], i)]
    BY <1>3
  <2> DEFINE h == [i \in 0..n+1 |-> IF i = n + 1 THEN After(g[i - 1], i) ELSE g[i]]
  <2>2. \A i \in 0..n : h[i] = g[i]
    OBVIOUS
  <2>3. \A i \in 0..n+1 : h[i] = IF i = 0 THEN start ELSE After(h[i - 1], i)
    BY <2>1, <2>2
  <2>4. h = [i \in 0..n+1 |-> IF i = 0 THEN start ELSE After(h[i - 1], i)]
    BY <2>3
  <2>5. n + 1 \in Nat
    OBVIOUS
  <2>6. QED BY <2>4, <2>5, Zenon
<1> HIDE DEF Reached
<1>4. \A n \in 0..Len(es) : n \in Reached
  BY <1>1, <1>2, <1>3, UpTo, Zenon
<1>5. Len(es) \in Reached
  BY <1>1, <1>4
<1>6. PICK g : /\ g = [i \in 0..Len(es) |-> IF i = 0 THEN start ELSE After(g[i - 1], i)]
               /\ ItemsOf(ps, cs, es) = g[Len(es)]
  BY <1>5, Zenon DEF ItemsOf, After, Reached, start
<1>7. g[0] = start /\ \A n \in 1..Len(es) : g[n] = After(g[n - 1], n)
  BY <1>1, <1>6
<1>8. Places(g, ps, cs, es)
  BY <1>7, Zenon DEF After, Places, start
<1>9. QED BY <1>6, <1>8, Zenon

\* The items tell what they should when all events that are shown are done.
LEMMA ItemsOfHolds ==
  ASSUME NEW ps \in Seq(PostRows), NEW cs \in Seq(CommandRows), NEW es \in Seq(EventRows)
  PROVE  ItemsHold(ps, cs, es, ItemsOf(ps, cs, es), ShownEvents(ps, es))
<1> DEFINE visible == ShownEvents(ps, es)
           turn == [i \in visible |-> TurnOf(es, visible, i)]
           Done(n) == {i \in visible : \E j \in visible : j <= n /\ turn[j] = turn[i]}
<1>1. Len(es) \in Nat /\ DOMAIN es = 1..Len(es) /\ visible \in SUBSET DOMAIN es
  BY DEF ShownEvents
<1>2. PICK g : Places(g, ps, cs, es) /\ ItemsOf(ps, cs, es) = g[Len(es)]
  BY ItemsRun, Zenon
<1>3. \A i \in visible : GroupOf(es, visible, i) = {j \in visible : turn[j] = turn[i]}
  BY DEF GroupOf
<1>4. \A i, j \in visible : es[i].turn # NoTurn /\ es[i].turn = es[j].turn => turn[i] = turn[j]
  BY DEF TurnOf
<1>5. /\ g[0] = Primary(ps, cs)
      /\ \A n \in 1..Len(es) :
           g[n] = IF n \in visible /\ \A j \in GroupOf(es, visible, n) : n <= j
                  THEN Placed(cs, es, g[n - 1], GroupOf(es, visible, n)) ELSE g[n - 1]
  BY <1>2, Zenon DEF Places
<1> HIDE DEF visible, turn
<1> DEFINE T == {n \in 0..Len(es) : ItemsHold(ps, cs, es, g[n], Done(n))}
<1>6. 0 \in T
  <2>1. Done(0) = {}
    BY <1>1
  <2>2. ItemsHold(ps, cs, es, g[0], {})
    BY <1>5, PrimaryHolds, Zenon
  <2>3. ItemsHold(ps, cs, es, g[0], Done(0))
    <3> HIDE DEF Done
    <3>1. QED BY <2>1, <2>2, Zenon
  <2>4. 0 \in 0..Len(es)
    BY <1>1
  <2>5. QED BY <2>3, <2>4, Zenon
<1>7. ASSUME NEW n \in 0..Len(es), n < Len(es), n \in T PROVE n + 1 \in T
  <2> DEFINE m == n + 1
             group == {j \in visible : turn[j] = turn[m]}
             opens == m \in visible /\ \A j \in group : m <= j
             done == Done(n)
  <2>1. m \in 1..Len(es) /\ m - 1 = n /\ m \in 0..Len(es)
    BY <1>1, <1>7
  <2>2. ItemsHold(ps, cs, es, g[n], done)
    BY <1>7
  <2>3. g[m] = IF opens THEN Placed(cs, es, g[n], group) ELSE g[n]
    <3>1. g[m] = IF m \in visible /\ \A j \in GroupOf(es, visible, m) : m <= j
                 THEN Placed(cs, es, g[n], GroupOf(es, visible, m)) ELSE g[n]
      BY <1>5, <2>1
    <3>2. CASE m \in visible
      <4>1. GroupOf(es, visible, m) = group
        BY <1>3, <3>2
      <4>2. QED BY <3>1, <4>1, Zenon
    <3>3. CASE m \notin visible
      BY <3>1, <3>3, Zenon
    <3>4. QED BY <3>2, <3>3
  <2>4. CASE opens
    <3>1. /\ group \in SUBSET DOMAIN es /\ m \in group /\ done \in SUBSET DOMAIN es
      BY <1>1, <2>4
    <3>2. group \intersect done = {} /\ Done(m) = done \union group
      <4>1. \A j \in visible : j <= m <=> j <= n \/ j = m
        BY <1>1, <2>1
      <4>2. \A j \in group : ~(j <= n)
        BY <1>1, <2>1, <2>4
      <4>3. QED BY <2>4, <4>1, <4>2
    <3>3. \A j \in group, k \in done : es[k].turn # NoTurn => es[k].turn # es[j].turn
      BY <1>4, <3>2
    <3> HIDE DEF group, done
    <3>4. ItemsHold(ps, cs, es, Placed(cs, es, g[n], group), done \union group)
      BY <2>2, <3>1, <3>2, <3>3, PlacedHolds
    <3>5. ItemsHold(ps, cs, es, g[m], Done(m))
      BY <2>3, <2>4, <3>2, <3>4
    <3>6. QED BY <2>1, <3>5
  <2>5. CASE ~opens
    <3>1. Done(m) = done
      <4>1. \A j \in visible : j <= m <=> j <= n \/ j = m
        BY <1>1, <2>1
      <4>2. m \in visible => \E j \in visible : j <= n /\ turn[j] = turn[m]
        BY <1>1, <2>1, <2>5
      <4>3. QED BY <4>1, <4>2
    <3>2. ItemsHold(ps, cs, es, g[m], Done(m))
      BY <2>2, <2>3, <2>5, <3>1
    <3>3. QED BY <2>1, <3>2
  <2>6. QED BY <2>4, <2>5
<1> HIDE DEF T
<1>8. \A n \in 0..Len(es) : n \in T
  BY <1>1, <1>6, <1>7, UpTo, Zenon
<1>9. Done(Len(es)) = visible
  BY <1>1
<1>10. Len(es) \in T
  BY <1>1, <1>8
<1>11. ItemsHold(ps, cs, es, g[Len(es)], Done(Len(es)))
  BY <1>10, Zenon DEF T
<1> HIDE DEF Done
<1>12. QED BY <1>2, <1>9, <1>11, Zenon DEF visible

-----------------------------------------------------------------------------
(* The list.                                                                *)

\* A list has the items in an order.
ListedBy(order, items, list) ==
  /\ DOMAIN list = DOMAIN items
  /\ \A n \in DOMAIN items : order[n] \in DOMAIN items /\ list[n] = items[order[n]]
  /\ \A k \in DOMAIN items : \E n \in DOMAIN items : order[n] = k
  /\ \A m, n \in DOMAIN items : order[m] = order[n] => m = n

\* The list has every item once.
LEMMA ListsEvery ==
  ASSUME NEW ps \in Seq(PostRows), NEW cs \in Seq(CommandRows), NEW es \in Seq(EventRows)
  PROVE  \E order : ListedBy(order, ItemsOf(ps, cs, es), TimelineOf(ps, cs, es))
<1> DEFINE items == ItemsOf(ps, cs, es)
           places == DOMAIN items
           rel == NewestFirst(items)
           order == Sorted(places, rel)
<1>1. items \in Seq(TimelineItems)
  BY ItemsOfHolds DEF ItemsHold
<1> HIDE DEF items
<1>2. /\ places = 1..Len(items) /\ Len(items) \in Nat
      /\ \A n \in places : items[n].at \in Nat
  <2>1. /\ places = 1..Len(items) /\ Len(items) \in Nat
        /\ \A n \in places : items[n] \in TimelineItems
    BY <1>1
  <2>2. QED BY <2>1 DEF TimelineItems
<1>3. IsFiniteSet(places) /\ Cardinality(places) = Len(items)
  <2> DEFINE size == Len(items)
  <2>1. size \in Nat /\ places = 1..size
    BY <1>2
  <2> HIDE DEF size, places
  <2>2. IsFiniteSet(1..size) /\ Cardinality(1..size) = size
    BY <2>1, FS_Interval
  <2>3. QED BY <2>1, <2>2 DEF size
<1>4. \A m, n \in places : <<m, n>> \in rel <=>
        items[m].at > items[n].at \/ (items[m].at = items[n].at /\ m < n)
  BY DEF NewestFirst
<1> HIDE DEF rel
<1>5. Orders(rel, places)
  <2> DEFINE at == [n \in places |-> items[n].at]
  <2>5. /\ \A n \in places : n \in Nat /\ at[n] \in Nat
        /\ \A m, n \in places : <<m, n>> \in rel <=> at[m] > at[n] \/ (at[m] = at[n] /\ m < n)
    BY <1>2, <1>4
  <2> HIDE DEF at, places
  <2>1. \A n \in places : <<n, n>> \notin rel
    BY <2>5
  <2>2. \A m, n \in places : m # n => <<m, n>> \in rel \/ <<n, m>> \in rel
    BY <2>5
  <2>3. ASSUME NEW m \in places, NEW n \in places, NEW o \in places,
               <<m, n>> \in rel, <<n, o>> \in rel
        PROVE <<m, o>> \in rel
    <3>1. /\ at[m] > at[n] \/ (at[m] = at[n] /\ m < n)
          /\ at[n] > at[o] \/ (at[n] = at[o] /\ n < o)
      BY <2>3, <2>5
    <3>2. at[m] > at[o] \/ (at[m] = at[o] /\ m < o)
      BY <2>5, <3>1
    <3>3. QED BY <2>5, <3>2
  <2>4. QED BY <2>1, <2>2, <2>3 DEF Orders
<1> HIDE DEF places
<1>6. /\ order \in Seq(places)
      /\ \A c \in places : \E i \in DOMAIN order : order[i] = c
      /\ \A i, j \in DOMAIN order : i < j => <<order[i], order[j]>> \in rel /\ order[i] # order[j]
  BY <1>3, <1>5, SortedIs, Zenon
<1>7. DOMAIN order = places
  BY <1>2, <1>3 DEF Sorted
<1> HIDE DEF order
<1>8. \A m, n \in places : order[m] = order[n] => m = n
  <2>1. \A m, n \in places : m = n \/ m < n \/ n < m
    BY <1>2
  <2>2. QED BY <1>6, <1>7, <2>1
<1>9. \A n \in places : order[n] \in places
  BY <1>6, <1>7
<1>10. TimelineOf(ps, cs, es) = [n \in places |-> items[order[n]]]
  BY Zenon DEF TimelineOf, items, places, order, rel
<1> HIDE DEF items
<1>11. ListedBy(order, items, [n \in places |-> items[order[n]]])
  BY <1>6, <1>7, <1>8, <1>9 DEF places, ListedBy
<1>12. QED BY <1>10, <1>11, Zenon DEF items

\* What is on the page is whole.
LEMMA TimelineSuffices == TimelineInv => TimelineIsWhole
<1> SUFFICES ASSUME TimelineInv PROVE TimelineIsWhole
  OBVIOUS
<1> DEFINE items == ItemsOf(postsOf, commandsOf, eventsOf)
           list == ItemsNow
           places == DOMAIN items
           visible == ShownEvents(postsOf, eventsOf)
           With(name) == {n \in DOMAIN list : name \in list[n].names}
<1>1. /\ postsOf \in Seq(PostRows) /\ commandsOf \in Seq(CommandRows)
      /\ eventsOf \in Seq(EventRows)
  BY DEF TimelineInv
<1>2. ItemsHold(postsOf, commandsOf, eventsOf, items, visible)
  BY <1>1, ItemsOfHolds
<1>14. PICK order : ListedBy(order, items, list)
  BY <1>1, ListsEvery, Zenon DEF ItemsNow
<1>3. /\ DOMAIN list = places
      /\ \A n \in places : order[n] \in places /\ list[n] = items[order[n]]
      /\ \A k \in places : \E n \in places : order[n] = k
      /\ \A m, n \in places : order[m] = order[n] => m = n
  BY <1>14, Zenon DEF ListedBy
<1>4. /\ DOMAIN eventsOf \in SUBSET Nat /\ visible \in SUBSET DOMAIN eventsOf
      /\ DOMAIN postsOf \in SUBSET Nat /\ DOMAIN commandsOf \in SUBSET Nat
  BY <1>1 DEF ShownEvents
<1>5. /\ AllIn(items, "post", DOMAIN postsOf) /\ AllIn(items, "command", DOMAIN commandsOf)
      /\ AllIn(items, "event", visible) /\ NamesApart(items)
      /\ \A n \in places : /\ ItemTells(commandsOf, eventsOf, items[n], visible)
                           /\ items[n].names \in SUBSET ItemNames
  <2>1. items \in Seq(TimelineItems)
    BY <1>2 DEF ItemsHold
  <2>2. \A n \in places : items[n] \in TimelineItems
    BY <2>1
  <2>3. \A n \in places : items[n].names \in SUBSET ItemNames
    BY <2>2 DEF TimelineItems
  <2>4. QED BY <1>2, <2>3 DEF ItemsHold
<1> HIDE DEF items, list, visible
<1>15. \A n \in places :
         /\ \A i \in Nat : <<"event", i>> \in list[n].names => i \in visible
         /\ \A i \in list[n].own \union list[n].under : <<"event", i>> \in list[n].names
         /\ \A i \in Nat : <<"event", i>> \in list[n].names =>
              \/ i \in list[n].own \union list[n].under
              \/ list[n].type = "command" /\ eventsOf[i].text = commandsOf[list[n].id].text
  <2>1. \A n \in places : ItemTells(commandsOf, eventsOf, list[n], visible)
    BY <1>3, <1>5
  <2>2. QED BY <2>1, Zenon DEF ItemTells
<1>6. ASSUME NEW kind \in {"post", "command", "event"}, NEW i \in Nat,
             \E k \in places : <<kind, i>> \in items[k].names
      PROVE \E n \in With(<<kind, i>>) : With(<<kind, i>>) = {n}
  <2>1. PICK k \in places : <<kind, i>> \in items[k].names
    BY <1>6
  <2>2. PICK n \in places : order[n] = k
    BY <1>3
  <2>3. n \in With(<<kind, i>>)
    BY <1>3, <2>1, <2>2
  <2>4. ASSUME NEW m \in With(<<kind, i>>) PROVE m = n
    <3>1. m \in places /\ order[m] \in places /\ <<kind, i>> \in items[order[m]].names
      BY <1>3, <2>4
    <3>2. order[m] = k
      BY <1>5, <1>6, <2>1, <3>1 DEF NamesApart, ApartIn
    <3>3. QED BY <1>3, <2>2, <3>1, <3>2
  <2>5. QED BY <2>3, <2>4
<1>7. \A i \in DOMAIN postsOf : \E n \in With(<<"post", i>>) : With(<<"post", i>>) = {n}
  BY <1>4, <1>5, <1>6 DEF AllIn
<1>8. \A i \in DOMAIN commandsOf :
        \E n \in With(<<"command", i>>) : With(<<"command", i>>) = {n}
  BY <1>4, <1>5, <1>6 DEF AllIn
<1>9. ASSUME NEW i \in DOMAIN eventsOf
      PROVE IF i \in visible THEN \E n \in With(<<"event", i>>) : With(<<"event", i>>) = {n}
            ELSE With(<<"event", i>>) = {}
  <2>1. CASE i \in visible
    BY <1>4, <1>5, <1>6, <2>1 DEF AllIn
  <2>2. CASE i \notin visible
    BY <1>3, <1>4, <1>15, <2>2
  <2>3. QED BY <2>1, <2>2
<1>10. ASSUME NEW m \in DOMAIN list, NEW n \in DOMAIN list,
              list[m].names \intersect list[n].names # {}
       PROVE m = n
  <2>1. /\ m \in places /\ n \in places /\ order[m] \in places /\ order[n] \in places
        /\ list[m] = items[order[m]] /\ list[n] = items[order[n]]
    BY <1>3, <1>10
  <2>2. PICK name \in ItemNames : name \in items[order[m]].names /\ name \in items[order[n]].names
    BY <1>5, <1>10, <2>1
  <2>3. \/ \E i \in Nat, kind \in {"post", "command", "event"} : name = <<kind, i>>
        \/ \E x \in TurnIds : name = <<"turn", x>>
    BY DEF ItemNames
  <2>4. order[m] = order[n]
    BY <1>5, <2>1, <2>2, <2>3 DEF NamesApart, ApartIn
  <2>5. QED BY <1>3, <2>1, <2>4
<1>11. \A n \in DOMAIN list : \A i \in list[n].own \union list[n].under :
         <<"event", i>> \in list[n].names
  BY <1>3, <1>15
<1>12. \A n \in DOMAIN list : \A i \in visible : <<"event", i>> \in list[n].names =>
         \/ i \in list[n].own \union list[n].under
         \/ list[n].type = "command" /\ eventsOf[i].text = commandsOf[list[n].id].text
  BY <1>3, <1>4, <1>15
<1>13. QED BY <1>7, <1>8, <1>9, <1>10, <1>11, <1>12, Zenon DEF TimelineIsWhole, list, visible

-----------------------------------------------------------------------------
(* Every step keeps it.                                                     *)

LEMMA TimelineInitially == TimelineInit => TimelineInv
  BY DEF TimelineInit, TimelineInv

LEMMA TimelineStep == TimelineInv /\ [TimelineNext]_timelineVars => TimelineInv'
<1> SUFFICES ASSUME TimelineInv, [TimelineNext]_timelineVars PROVE TimelineInv'
  OBVIOUS
<1>1. ASSUME NEW gap \in Gaps PROVE gap \in Nat /\ clock + gap \in Nat
  BY TimelineAssumption DEF TimelineInv
<1>2. ASSUME NEW gap \in Gaps, NEW k \in SaidKinds, PostComes(k, gap) PROVE TimelineInv'
  <2>1. [kind |-> k, at |-> clock + gap] \in PostRows
    BY <1>1 DEF PostRows
  <2>2. QED BY <1>1, <1>2, <2>1 DEF PostComes, Adds, TimelineInv
<1>3. ASSUME NEW gap \in Gaps, NEW x \in Texts, CommandComes(x, gap) PROVE TimelineInv'
  <2>1. [text |-> x, at |-> clock + gap] \in CommandRows
    BY <1>1 DEF CommandRows
  <2>2. QED BY <1>1, <1>3, <2>1 DEF CommandComes, Adds, TimelineInv
<1>4. ASSUME NEW gap \in Gaps, NEW k \in EventKinds, NEW t \in Turns \union {NoTurn},
             NEW x \in SaidIn(k), EventComes(k, t, x, gap)
      PROVE TimelineInv'
  <2>1. [kind |-> k, turn |-> t, text |-> x, at |-> clock + gap] \in EventRows
    BY <1>1 DEF EventRows, SaidIn
  <2>2. QED BY <1>1, <1>4, <2>1 DEF EventComes, Adds, TimelineInv
<1>5. CASE Fires \/ MarksSeen \/ LosesMac \/ Back \/ Reopens
  BY <1>5 DEF Fires, MarksSeen, LosesMac, Back, Reopens, shownVars, TimelineInv
<1>6. CASE UNCHANGED timelineVars
  BY <1>6 DEF timelineVars, shownVars, TimelineInv
<1>7. QED BY <1>2, <1>3, <1>4, <1>5, <1>6 DEF TimelineNext

\* TimelineIsWhole holds in every state: whatever of a task comes and in whatever order,
\* every post, command and event that has a label is on the page once.
THEOREM TimelineStaysWhole == TimelineSpec => []TimelineIsWhole
<1>1. QED BY TimelineInitially, TimelineStep, TimelineSuffices, PTL DEF TimelineSpec

-----------------------------------------------------------------------------
(* 8. The parts together.                                                  *)

\* What the whole does is a step of the part that does it, for the preferences,
LEMMA PageHasPreferences == [PageNext]_pagePartVars => [PreferenceNext]_preferenceVars
<1>1. CASE UNCHANGED pagePartVars
  BY <1>1 DEF pagePartVars
<1>2. CASE PageNext
  BY <1>2 DEF PageNext, PreferenceNext, OfPreferences, OfPage, OfTimeline, OfMacs, OfWaitlist
<1>3. QED BY <1>1, <1>2

\* for the Macs,
LEMMA PageHasMacs == [PageNext]_pagePartVars => [HostsNext]_hostVars
<1>1. CASE UNCHANGED pagePartVars
  BY <1>1 DEF pagePartVars
<1>2. CASE PageNext
  BY <1>2 DEF PageNext, HostsNext, OfPreferences, OfPage, OfTimeline, OfMacs, OfWaitlist
<1>3. QED BY <1>1, <1>2

\* for the feed page,
LEMMA PageHasQueue == [PageNext]_pagePartVars => [QueueNext]_queueVars
<1>1. CASE UNCHANGED pagePartVars
  BY <1>1 DEF pagePartVars
<1>2. CASE PageNext
  BY <1>2 DEF PageNext, QueueNext, OfPreferences, OfPage, OfTimeline, OfMacs, OfWaitlist
<1>3. QED BY <1>1, <1>2

\* for a task's page,
LEMMA PageHasTimeline == [PageNext]_pagePartVars => [TimelineNext]_timelineVars
<1>1. CASE UNCHANGED pagePartVars
  BY <1>1 DEF pagePartVars
<1>2. CASE PageNext
  BY <1>2 DEF PageNext, TimelineNext, OfPreferences, OfPage, OfTimeline, OfMacs, OfWaitlist
<1>3. QED BY <1>1, <1>2

\* and for the waiting list.
LEMMA PageHasList == [PageNext]_pagePartVars => [WaitlistNext]_waitlistVars
<1>1. CASE UNCHANGED pagePartVars
  BY <1>1 DEF pagePartVars
<1>2. CASE PageNext
  BY <1>2 DEF PageNext, WaitlistNext, OfPreferences, OfPage, OfTimeline, OfMacs, OfWaitlist
<1>3. QED BY <1>1, <1>2

\* Pages stay honest in every behaviour of the whole.
THEOREM PageStaysHonest == PageSpec => []PagesAreHonest
<1>1. PageInit => PreferencesInv
  BY PreferencesInitially DEF PageInit
<1>2. PreferencesInv /\ [PageNext]_pagePartVars => PreferencesInv'
  BY PageHasPreferences, PreferencesStep
<1>3. QED BY <1>1, <1>2, PreferencesSuffice, PTL DEF PageSpec

\* A device's settings take effect in its order in every behaviour of the whole.
THEOREM PageKeepsOrder == PageSpec => OwnOrder
<1>1. PageInit => PreferencesInv
  BY PreferencesInitially DEF PageInit
<1>2. PreferencesInv /\ [PageNext]_pagePartVars
        => PreferencesInv' /\ [TakesOwnInOrder]_preferenceVars
  BY PageHasPreferences, PreferencesStep
<1>3. PageSpec => [][TakesOwnInOrder]_preferenceVars
  BY <1>1, <1>2, PTL DEF PageSpec
<1>4. QED BY <1>3 DEF TakesOwnInOrder, OwnOrder

\* Macs stay apart in every behaviour of the whole.
THEOREM PageKeepsMacsApart == PageSpec => []MacsStayApart
<1>1. PageInit => HostsInv
  BY HostsInitially DEF PageInit
<1>2. HostsInv /\ [PageNext]_pagePartVars => HostsInv'
  BY PageHasMacs, HostsStep
<1>3. QED BY <1>1, <1>2, HostsSuffice, PTL DEF PageSpec

\* A form says success only for a listed address in every behaviour of the whole.
THEOREM PageListKeeps == PageSpec => []ToldIsListed
<1>1. PageInit => ListInv
  BY ListInitially DEF PageInit
<1>2. ListInv /\ [PageNext]_pagePartVars => ListInv'
  BY PageHasList, ListStep
<1>3. ListInv => ToldIsListed
  BY DEF ListInv
<1>4. QED BY <1>1, <1>2, <1>3, PTL DEF PageSpec

\* Every card is on the page once, and none moves while it is read, in every
\* behaviour of the whole.
THEOREM PageKeepsCards == PageSpec => PageKeepsItsCards
<1>1. PageInit => QueueInv
  BY QueueInitially DEF PageInit
<1>2. QueueInv /\ [PageNext]_pagePartVars => QueueInv' /\ [CardsKeepTheirPlace]_queueVars
  BY PageHasQueue, QueueStep
<1>3. PageSpec => [][EveryCardOnce /\ EveryCardOnce' /\ CardsKeepTheirPlace]_queueVars
  BY <1>1, <1>2, QueueSuffices, PTL DEF PageSpec
<1>4. QED BY <1>3 DEF PageKeepsItsCards

\* A task's page is whole in every behaviour of the whole.
THEOREM PageTimelineStaysWhole == PageSpec => []TimelineIsWhole
<1>1. PageInit => TimelineInv
  BY TimelineInitially DEF PageInit
<1>2. TimelineInv /\ [PageNext]_pagePartVars => TimelineInv'
  BY PageHasTimeline, TimelineStep
<1>3. QED BY <1>1, <1>2, TimelineSuffices, PTL DEF PageSpec

=============================================================================
