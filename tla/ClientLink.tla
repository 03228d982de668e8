----------------------------- MODULE ClientLink -----------------------------
(* The web client's connections to the bridges it is paired with, and its   *)
(* outbox. Each paired host has a reconnect controller and a current        *)
(* socket. A new attempt closes the socket before it and never waits for    *)
(* that one's onclose, so close events of replaced sockets arrive late; the *)
(* window's online and offline events arrive after navigator.onLine has     *)
(* changed; an outbox entry is stamped when it is put on a socket.          *)
(*                                                                          *)
(* Sources: reconnect.ts, the connection part of useBridge.ts, and          *)
(* commandOutbox.ts.                                                        *)
(*                                                                          *)
(* Left out: the length of the back-off (every delay is a timer that may    *)
(* fire at any moment), the frames' keys and counters, the snapshot, the    *)
(* texts, and the merging of entries that mean the same.                    *)
EXTENDS Naturals, Sequences, FiniteSets

CONSTANTS
    Hosts,       \* the paired bridges
    Remote,      \* those with cloud credentials as well
    Reachable,   \* the transports over which each of them answers
    Commands,    \* the durable commands that the user gives
    HostOf,      \* the bridge each of them is for
    MaxStale,    \* bound: replaced sockets of a host that have not closed yet
    MaxDrops,    \* bound: connections that break by themselves
    MaxFlips,    \* bound: how often the network goes away or comes back
    MaxReloads   \* bound: how often the page is loaded again

Modes == {"local", "cloud"}

ASSUME RemoteAreHosts == Remote \subseteq Hosts
ASSUME ReachableIsModes == Reachable \in [Hosts -> SUBSET Modes]
ASSUME HostOfIsHosts == HostOf \in [Commands -> Hosts]
ASSUME LimitsAreNumbers ==
    MaxStale \in Nat /\ MaxDrops \in Nat /\ MaxFlips \in Nat /\ MaxReloads \in Nat

VARIABLES
    \* one ReconnectController per started host
    started,    \* the hosts that have one
    connected,  \* its flag: the last attempt was authenticated
    timer,      \* the next attempt is scheduled
    paused,     \* pausedOffline: it waits for the network
    \* sockets
    cur,        \* the state of the socket in the sockets map
    curMode,    \* and its transport
    stale,      \* per transport: replaced sockets whose onclose is still to come
    nextMode,   \* nextModes: the transport of the next attempt
    sender,     \* the senders map holds the current socket's hostSend
    shown,      \* connectedHosts: hosts that the page shows as connected
    creds,      \* hosts whose credentials are stored
    \* the outbox, in local storage
    entry,
    \* the browser
    online,     \* navigator.onLine
    events,     \* window events that were not delivered yet
    \* bounds and history
    drops, flips, reloads,
    got,        \* commands that were put on an authenticated socket
    refused     \* commands that their bridge answered with a failure

controller == <<started, connected, timer, paused>>
sockets == <<cur, curMode, stale, nextMode, sender, shown>>
outbox == <<entry, got, refused>>
browser == <<online, events, flips>>
vars == <<started, connected, timer, paused, cur, curMode, stale, nextMode,
          sender, shown, creds, entry, online, events, drops, flips, reloads,
          got, refused>>

-----------------------------------------------------------------------------
Other(mode) == IF mode = "local" THEN "cloud" ELSE "local"

\* startHost: a host with a relay starts there, the others are reached directly.
Preferred(h) == IF h \in Remote THEN "cloud" ELSE "local"

\* Sockets that were not told to close.
Open(h) == cur[h] \in {"connecting", "authed"}

\* hostSend succeeds: the map has a sender, and its socket is open with keys.
CanSend(h) == sender[h] /\ cur[h] = "authed"

Undone(c) == entry[c] \in {"queued", "sent", "failed"}

\* A socket that is replaced before its onclose was delivered becomes stale.
Replaced(h) == IF cur[h] \in {"connecting", "authed", "closing"} THEN 1 ELSE 0

\* connect, for some hosts at once: close the socket before, open a new one.
Connect(S) ==
    /\ \A h \in S : stale[h]["local"] + stale[h]["cloud"] + Replaced(h) <= MaxStale
    /\ stale' = [h \in Hosts |->
                    IF h \in S
                    THEN [stale[h] EXCEPT ![curMode[h]] = @ + Replaced(h)]
                    ELSE stale[h]]
    /\ cur' = [h \in Hosts |-> IF h \in S THEN "connecting" ELSE cur[h]]
    /\ curMode' = [h \in Hosts |-> IF h \in S THEN nextMode[h] ELSE curMode[h]]
    /\ sender' = [h \in Hosts |-> h \in S \/ sender[h]]

\* notifyDisconnected: schedule the next attempt, or wait for the network. It
\* returns early while the controller believes to be connected.
NotifyDisconnected(h) ==
    IF connected[h] THEN UNCHANGED <<timer, paused>>
    ELSE /\ timer' = [timer EXCEPT ![h] = online]
         /\ paused' = [paused EXCEPT ![h] = ~online]

-----------------------------------------------------------------------------
Init == /\ started = Hosts /\ creds = Hosts
        /\ connected = [h \in Hosts |-> FALSE]
        /\ timer = [h \in Hosts |-> FALSE]
        /\ paused = [h \in Hosts |-> FALSE]
        /\ cur = [h \in Hosts |-> "connecting"]
        /\ curMode = [h \in Hosts |-> Preferred(h)]
        /\ stale = [h \in Hosts |-> [m \in Modes |-> 0]]
        /\ nextMode = [h \in Hosts |-> Preferred(h)]
        /\ sender = [h \in Hosts |-> TRUE]
        /\ shown = {}
        /\ entry = [c \in Commands |-> "none"]
        /\ online \in BOOLEAN
        /\ events = <<>>
        /\ drops = 0 /\ flips = 0 /\ reloads = 0
        /\ got = {} /\ refused = {}

-----------------------------------------------------------------------------
(* The sockets' events.                                                     *)

\* (Mutant: what is replayed is not stamped as sent.)
AuthenticatesUnstamped(h) ==
    /\ cur[h] = "connecting" /\ curMode[h] \in Reachable[h]
    /\ cur' = [cur EXCEPT ![h] = "authed"]
    /\ connected' = [connected EXCEPT ![h] = TRUE]
    /\ timer' = [timer EXCEPT ![h] = FALSE]
    /\ paused' = [paused EXCEPT ![h] = FALSE]
    /\ shown' = shown \cup {h}
    /\ got' = got \cup {c \in Commands : HostOf[c] = h /\ entry[c] \in {"queued", "sent"}}
    /\ UNCHANGED <<started, curMode, stale, nextMode, sender, creds, entry,
                   refused, browser, drops, reloads>>

\* auth.ok: notifyConnected, then every entry that did not fail is stamped as
\* sent, and those of this host are put on the socket.
Authenticates(h) ==
    /\ cur[h] = "connecting" /\ curMode[h] \in Reachable[h]
    /\ cur' = [cur EXCEPT ![h] = "authed"]
    /\ connected' = [connected EXCEPT ![h] = TRUE]
    /\ timer' = [timer EXCEPT ![h] = FALSE]
    /\ paused' = [paused EXCEPT ![h] = FALSE]
    /\ shown' = shown \cup {h}
    /\ entry' = [c \in Commands |->
                    IF entry[c] = "queued" THEN "sent" ELSE entry[c]]
    /\ got' = got \cup {c \in Commands : HostOf[c] = h /\ entry[c] \in {"queued", "sent"}}
    /\ UNCHANGED <<started, curMode, stale, nextMode, sender, creds, refused,
                   browser, drops, reloads>>

\* A frame that does not verify, decrypt or follow: the client closes.
MessageFails(h) ==
    /\ Open(h)
    /\ drops < MaxDrops
    /\ drops' = drops + 1
    /\ cur' = [cur EXCEPT ![h] = "closing"]
    /\ UNCHANGED <<controller, curMode, stale, nextMode, sender, shown, creds,
                   outbox, browser, reloads>>

\* (Mutant: connectedHosts keeps the host.)
ClosedStaysShown(h, mode) ==
    /\ sender' = [sender EXCEPT ![h] = FALSE]
    /\ nextMode' = [nextMode EXCEPT ![h] = IF h \in Remote THEN Other(mode) ELSE "local"]
    /\ NotifyDisconnected(h)
    /\ UNCHANGED <<started, connected, shown, creds, outbox, browser, reloads>>

\* (Mutant: the next attempt uses the transport of this one.)
ClosedSameMode(h, mode) ==
    /\ sender' = [sender EXCEPT ![h] = FALSE]
    /\ shown' = shown \ {h}
    /\ NotifyDisconnected(h)
    /\ UNCHANGED <<started, connected, nextMode, creds, outbox, browser, reloads>>

\* (Mutant: the transport alternates for hosts without a relay too.)
ClosedAlternates(h, mode) ==
    /\ sender' = [sender EXCEPT ![h] = FALSE]
    /\ shown' = shown \ {h}
    /\ nextMode' = [nextMode EXCEPT ![h] = Other(mode)]
    /\ NotifyDisconnected(h)
    /\ UNCHANGED <<started, connected, creds, outbox, browser, reloads>>

\* onclose, for whichever socket of the host: the next attempt uses the other
\* transport, and the controller is told.
Closed(h, mode) ==
    /\ sender' = [sender EXCEPT ![h] = FALSE]
    /\ shown' = shown \ {h}
    /\ nextMode' = [nextMode EXCEPT ![h] = IF h \in Remote THEN Other(mode) ELSE "local"]
    /\ NotifyDisconnected(h)
    /\ UNCHANGED <<started, connected, creds, outbox, browser, reloads>>

\* The current socket closes: it was told to, or its attempt is one over a
\* transport where nobody answers.
CurrentCloses(h) ==
    /\ \/ cur[h] = "closing"
       \/ cur[h] = "connecting" /\ curMode[h] \notin Reachable[h]
    /\ cur' = [cur EXCEPT ![h] = "closed"]
    /\ Closed(h, curMode[h])
    /\ UNCHANGED <<curMode, stale, drops>>

\* The connection breaks, or the bridge goes away.
Drops(h) ==
    /\ Open(h)
    /\ drops < MaxDrops
    /\ drops' = drops + 1
    /\ cur' = [cur EXCEPT ![h] = "closed"]
    /\ Closed(h, curMode[h])
    /\ UNCHANGED <<curMode, stale>>

\* A socket that connect replaced closes: the same handler, with the same host.
StaleCloses(h, mode) ==
    /\ stale[h][mode] > 0
    /\ stale' = [stale EXCEPT ![h][mode] = @ - 1]
    /\ Closed(h, mode)
    /\ UNCHANGED <<cur, curMode, drops>>

\* (Mutant: the whole outbox is thrown away, not the revoked host's part.)
RevokeAll(h) ==
    /\ drops < MaxDrops
    /\ drops' = drops + 1
    /\ sender' = [sender EXCEPT ![h] = FALSE]
    /\ shown' = shown \ {h}
    /\ creds' = creds \ {h}
    /\ entry' = [c \in Commands |-> IF Undone(c) THEN "dropped" ELSE entry[c]]
    /\ UNCHANGED <<controller, curMode, nextMode, got, refused, browser, reloads>>

\* onclose with code 1008, for whichever socket: the bridge revoked the device,
\* or found a frame that it does not accept. The credentials and the outbox of
\* the host are removed; the controller stays as it is.
Revoke(h) ==
    /\ drops < MaxDrops
    /\ drops' = drops + 1
    /\ sender' = [sender EXCEPT ![h] = FALSE]
    /\ shown' = shown \ {h}
    /\ creds' = creds \ {h}
    /\ entry' = [c \in Commands |->
                    IF HostOf[c] = h /\ Undone(c) THEN "dropped" ELSE entry[c]]
    /\ UNCHANGED <<controller, curMode, nextMode, got, refused, browser, reloads>>

PolicyCloses(h) ==
    /\ cur[h] \in {"connecting", "authed", "closing"} /\ curMode[h] \in Reachable[h]
    /\ cur' = [cur EXCEPT ![h] = "closed"]
    /\ Revoke(h)
    /\ UNCHANGED stale

StalePolicyCloses(h, mode) ==
    /\ stale[h][mode] > 0 /\ mode \in Reachable[h]
    /\ stale' = [stale EXCEPT ![h][mode] = @ - 1]
    /\ Revoke(h)
    /\ UNCHANGED cur

-----------------------------------------------------------------------------
(* What makes the controllers try again.                                    *)

\* (Mutant: the callback does nothing while the browser is offline.)
TimerFiresOnline(h) ==
    /\ timer[h]
    /\ timer' = [timer EXCEPT ![h] = FALSE]
    /\ IF connected[h] \/ ~online THEN UNCHANGED sockets
       ELSE Connect({h}) /\ UNCHANGED <<nextMode, shown>>
    /\ UNCHANGED <<started, connected, paused, creds, outbox, browser, drops,
                   reloads>>

\* The callback of the timer.
TimerFires(h) ==
    /\ timer[h]
    /\ timer' = [timer EXCEPT ![h] = FALSE]
    /\ IF connected[h] THEN UNCHANGED sockets
       ELSE Connect({h}) /\ UNCHANGED <<nextMode, shown>>
    /\ UNCHANGED <<started, connected, paused, creds, outbox, browser, drops,
                   reloads>>

\* notifyForeground and retryNow: the page comes to the front, or the user
\* taps retry. All controllers that are not connected try at once.
RetryAll ==
    LET S == {h \in started : ~connected[h]} IN
    /\ S # {}
    /\ Connect(S)
    /\ timer' = [h \in Hosts |-> timer[h] /\ h \notin S]
    /\ paused' = [h \in Hosts |-> paused[h] /\ h \notin S]
    /\ UNCHANGED <<started, connected, nextMode, shown, creds, outbox, browser,
                   drops, reloads>>

\* navigator.onLine changes; the window's event follows.
NetworkFlips ==
    /\ flips < MaxFlips
    /\ flips' = flips + 1
    /\ online' = ~online
    /\ events' = Append(events, ~online)
    /\ UNCHANGED <<controller, sockets, creds, outbox, drops, reloads>>

\* (Mutant: only a controller with an attempt in the past tries again.)
OnOnlineKeepsPause ==
    LET S == {h \in started : ~connected[h] /\ ~paused[h] /\ ~timer[h]} IN
    /\ events # <<>> /\ Head(events)
    /\ events' = Tail(events)
    /\ Connect(S)
    /\ UNCHANGED <<controller, nextMode, shown, creds, outbox, online, flips, drops,
                   reloads>>

\* (Mutant: without the check that the controller is not connected.)
OnOnlineAll ==
    LET S == {h \in started : paused[h] \/ ~timer[h]} IN
    /\ events # <<>> /\ Head(events)
    /\ events' = Tail(events)
    /\ Connect(S)
    /\ timer' = [h \in Hosts |-> timer[h] /\ h \notin S]
    /\ paused' = [h \in Hosts |-> paused[h] /\ h \notin S]
    /\ UNCHANGED <<started, connected, nextMode, shown, creds, outbox, online,
                   flips, drops, reloads>>

\* notifyOnline: try at once, unless an attempt is scheduled.
OnOnline ==
    LET S == {h \in started : ~connected[h] /\ (paused[h] \/ ~timer[h])} IN
    /\ events # <<>> /\ Head(events)
    /\ events' = Tail(events)
    /\ Connect(S)
    /\ timer' = [h \in Hosts |-> timer[h] /\ h \notin S]
    /\ paused' = [h \in Hosts |-> paused[h] /\ h \notin S]
    /\ UNCHANGED <<started, connected, nextMode, shown, creds, outbox, online,
                   flips, drops, reloads>>

\* notifyOffline: no attempt until the network is back.
OnOffline ==
    LET S == {h \in started : ~connected[h]} IN
    /\ events # <<>> /\ ~Head(events)
    /\ events' = Tail(events)
    /\ timer' = [h \in Hosts |-> timer[h] /\ h \notin S]
    /\ paused' = [h \in Hosts |-> paused[h] \/ h \in S]
    /\ UNCHANGED <<started, connected, sockets, creds, outbox, online, flips, drops,
                   reloads>>

\* The page is loaded again: memory is gone, credentials and outbox are not.
Reload ==
    /\ reloads < MaxReloads
    /\ reloads' = reloads + 1
    /\ started' = creds
    /\ connected' = [h \in Hosts |-> FALSE]
    /\ timer' = [h \in Hosts |-> FALSE]
    /\ paused' = [h \in Hosts |-> FALSE]
    /\ cur' = [h \in Hosts |-> IF h \in creds THEN "connecting" ELSE "none"]
    /\ curMode' = [h \in Hosts |-> Preferred(h)]
    /\ stale' = [h \in Hosts |-> [m \in Modes |-> 0]]
    /\ nextMode' = [h \in Hosts |-> Preferred(h)]
    /\ sender' = [h \in Hosts |-> h \in creds]
    /\ shown' = {}
    /\ events' = <<>>
    /\ UNCHANGED <<creds, outbox, online, flips, drops>>

-----------------------------------------------------------------------------
(* The outbox.                                                              *)

Put(c) == /\ entry' = [entry EXCEPT ![c] =
                          IF CanSend(HostOf[c]) THEN "sent" ELSE "queued"]
          /\ got' = IF CanSend(HostOf[c]) THEN got \cup {c} ELSE got

\* A durable command: into the outbox first, then onto the socket if there is
\* one.
Issue(c) ==
    /\ entry[c] = "none" /\ HostOf[c] \in creds
    /\ Put(c)
    /\ UNCHANGED <<controller, sockets, creds, browser, drops, reloads, refused>>

\* retryOutboxEntry: the user sends a failed entry again.
RetryEntry(c) ==
    /\ entry[c] = "failed"
    /\ Put(c)
    /\ UNCHANGED <<controller, sockets, creds, browser, drops, reloads, refused>>

\* cancelOutboxEntry: an entry that is still queued is withdrawn here, and the
\* bridge is not asked.
Withdraw(c) ==
    /\ entry[c] = "queued"
    /\ entry' = [entry EXCEPT ![c] = "withdrawn"]
    /\ UNCHANGED <<controller, sockets, creds, browser, drops, reloads, got, refused>>

\* The answer of the bridge: the entry is done, or failed.
Acknowledge(c) ==
    /\ c \in got /\ cur[HostOf[c]] = "authed" /\ Undone(c)
    /\ entry' = [entry EXCEPT ![c] = "done"]
    /\ UNCHANGED <<controller, sockets, creds, browser, drops, reloads, got, refused>>

MarkFailed(c) ==
    /\ c \in got /\ cur[HostOf[c]] = "authed" /\ Undone(c)
    /\ entry' = [entry EXCEPT ![c] = "failed"]
    /\ refused' = refused \cup {c}
    /\ UNCHANGED <<controller, sockets, creds, browser, drops, reloads, got>>

-----------------------------------------------------------------------------
Socket(h) == \/ Authenticates(h) \/ MessageFails(h) \/ CurrentCloses(h) \/ Drops(h)
             \/ PolicyCloses(h) \/ TimerFires(h)
             \/ \E m \in Modes : StaleCloses(h, m) \/ StalePolicyCloses(h, m)

User(c) == Issue(c) \/ RetryEntry(c) \/ Withdraw(c) \/ Acknowledge(c) \/ MarkFailed(c)

Page == RetryAll \/ NetworkFlips \/ OnOnline \/ OnOffline \/ Reload

Next == \/ \E h \in Hosts : Socket(h)
        \/ \E c \in Commands : User(c)
        \/ Page

Spec == Init /\ [][Next]_vars

\* Events are delivered and timers fire. An attempt that could succeed does
\* when it is made again and again: the back-off grows to 30 s, longer than
\* the handshake takes, so that later attempts are not cut short by the next.
Fairness ==
    /\ \A h \in Hosts :
          /\ SF_vars(Authenticates(h))
          /\ WF_vars(CurrentCloses(h)) /\ WF_vars(TimerFires(h))
          /\ \A m \in Modes : WF_vars(StaleCloses(h, m))
    /\ WF_vars(OnOnline) /\ WF_vars(OnOffline)

FairSpec == Spec /\ Fairness

-----------------------------------------------------------------------------
(* Safety.                                                                  *)

SocketStates == {"none", "connecting", "authed", "closing", "closed"}
EntryStates ==
    {"none", "queued", "sent", "failed", "done", "withdrawn", "dropped"}

\* The shape of the client's state: hosts without a relay are only ever reached
\* directly, and a controller does not both wait for its timer and for the
\* network.
TypeOK ==
    /\ started \subseteq Hosts /\ creds \subseteq started
    /\ connected \in [Hosts -> BOOLEAN]
    /\ timer \in [Hosts -> BOOLEAN] /\ paused \in [Hosts -> BOOLEAN]
    /\ cur \in [Hosts -> SocketStates]
    /\ curMode \in [Hosts -> Modes] /\ nextMode \in [Hosts -> Modes]
    /\ \A h \in Hosts \ Remote : curMode[h] = "local" /\ nextMode[h] = "local"
    /\ \A h \in Hosts : ~(timer[h] /\ paused[h])
    /\ stale \in [Hosts -> [Modes -> 0..MaxStale]]
    /\ sender \in [Hosts -> BOOLEAN]
    /\ shown \subseteq Hosts
    /\ entry \in [Commands -> EntryStates]
    /\ online \in BOOLEAN /\ events \in Seq(BOOLEAN)
    /\ drops \in 0..MaxDrops /\ flips \in 0..MaxFlips /\ reloads \in 0..MaxReloads
    /\ got \subseteq Commands /\ refused \subseteq Commands

\* Until a host's first authentication of the page, its link is never
\* abandoned: an attempt is under way, or scheduled, or waits for the network.
FirstAttemptGoesOn ==
    \A h \in creds :
        ~connected[h] =>
            cur[h] \in {"connecting", "closing"} \/ timer[h] \/ paused[h]

\* A controller that waits for the network will be told when it is back: the
\* network is away, or the event that wakes the controller is on its way.
PausedHearsOnline ==
    \A h \in Hosts :
        paused[h] /\ online => events # <<>> /\ events[Len(events)]

\* A host that the page shows as connected has an authenticated socket, or one
\* that has just been told to close: late events of other sockets, timers and
\* retries never leave a host shown that has none.
ShownIsLive ==
    \A h \in shown : connected[h] /\ cur[h] \in {"authed", "closing"}

\* The client's own attempts never replace an authenticated socket, whatever
\* timers, window events and taps come after the handshake.
LiveLinkIsKept ==
    [][\A h \in Hosts :
          cur[h] = "authed" /\ cur'[h] = "connecting" => reloads' # reloads]_vars

\* What is withdrawn on the client alone was never given to the bridge, or the
\* bridge had refused it: "withdrawn" is true without asking.
WithdrawnWasUnsent ==
    \A c \in Commands : entry[c] = "withdrawn" => c \notin got \/ c \in refused

\* The revocation of one host costs no command for another one.
DroppedIsRevoked ==
    \A c \in Commands : entry[c] = "dropped" => HostOf[c] \notin creds

\* Together, of the links: what the page shows is so, and until the first
\* authentication somebody will try again, whatever events come late.
LinkIsTrue == ShownIsLive /\ FirstAttemptGoesOn /\ PausedHearsOnline

\* Together, of the outbox: a command leaves it unsent only by the user's own
\* withdrawal or the revocation of its own host.
OutboxIsTrue == WithdrawnWasUnsent /\ DroppedIsRevoked

-----------------------------------------------------------------------------
(* Liveness.                                                                *)

\* A host that answers over one of the transports that the client knows is
\* connected in the end, whatever network changes, failures and retries came
\* first; unless the network stays away or the bridge revokes the device.
FirstConnection ==
    \A h \in Hosts :
        Reachable[h] \cap (IF h \in Remote THEN Modes ELSE {"local"}) # {} =>
            <>(connected[h] \/ h \notin creds \/ [](~online))

-----------------------------------------------------------------------------
(* What the comments and the texts of the code say, and the code does not.  *)

\* "Called when the connection breaks: schedules the next attempt." A paired
\* host without a socket has an attempt scheduled, or waits for the network.
BrokenLinkIsRetried ==
    \A h \in creds : cur[h] = "closed" => timer[h] \/ paused[h]

\* "sent: sent, waiting for the confirmation of the server."
SentWasSent == \A c \in Commands : entry[c] = "sent" => c \in got

\* "The command is saved on this device and will be sent after the reconnect."
SavedIsSent == \A c \in Commands : entry[c] = "queued" ~> entry[c] # "queued"
=============================================================================
