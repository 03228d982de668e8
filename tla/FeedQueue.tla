------------------------------- MODULE FeedQueue -------------------------------
(***************************************************************************)
(* The order of the cards on the phone's first page: what the snapshot     *)
(* holds is made into cards, merged, ranked and ordered (feedItems.ts,     *)
(* policy.ts), and the page keeps a sequence of its own, in which no card  *)
(* moves while it is read (feedSequence.ts, FeedView.tsx).                 *)
(*                                                                         *)
(* Posts are those of one task, numbered as they come; beside them there   *)
(* is one approval and one task that does not start. Times are numbers,    *)
(* and so is the window in which routine posts are one card.               *)
(***************************************************************************)
EXTENDS Naturals, FiniteSets, SequencesExt, Lists

CONSTANTS
  MaxPosts, \* bound: posts
  PostKinds,    \* the kinds they have: progress, decision, result
  MaxMade,  \* bound: things that come
  MaxOut,   \* bound: cards moved out at a time
  MaxGap,   \* bound: time between two things that come
  Window    \* FEED_MERGE_WINDOW_MS, in that time

ASSUME PostKindsAreKinds == PostKinds \subseteq {"progress", "decision", "result"}
ASSUME FeedBounds == {MaxPosts, MaxMade, MaxOut, Window} \subseteq Nat /\ MaxGap \in Nat \ {0}

VARIABLES
  snapshot, \* the snapshot, with the page's own dismissals in it
  page,  \* the page's sequence
  reads  \* the card under the reader's eyes, or the end of the queue

queueVars == <<snapshot, page, reads>>

Approval == MaxPosts + 1
Command == MaxPosts + 2
CaughtUp == 0
Posts == 1..MaxPosts
Cards == 1..Command

\* Posts have a kind, approvals and tasks a state.
States == {"none", "pending", "queued", "failed", "over"}

\* A snapshot: what each card is of, when it was made, which posts were read,
\* which cards were moved out, and the time of what came last.
FeedSnapshots == [is: [Cards -> PostKinds \union States], at: [Cards -> Nat],
              seen: SUBSET Posts, out: SUBSET Cards, clock: Nat]

\* FeedSequenceState: the cards to read in the page's order, those below, and
\* those that came since the reader was through.
Pages == [queue: Seq(Cards), history: Seq(Cards), fresh: Seq(Cards)]

QueueTypeOK == snapshot \in FeedSnapshots /\ page \in Pages /\ reads \in Cards \union {CaughtUp}

QueueInit ==
  /\ snapshot = [is |-> [c \in Cards |-> "none"], at |-> [c \in Cards |-> 0],
              seen |-> {}, out |-> {}, clock |-> 0]
  /\ page = [queue |-> <<>>, history |-> <<>>, fresh |-> <<>>]
  /\ reads = CaughtUp

-----------------------------------------------------------------------------
(* Cards.                                                                  *)

Routine == {"progress", "decision"}

\* mergeRoutinePosts: newest first, a routine post is taken into the one of its
\* kind that was last to stand alone, if that is no more than a window younger.
Alone(s) ==
  LET alone[p \in Posts] ==
        LET later == {q \in Posts : q > p /\ s.is[q] = s.is[p] /\ alone[q]}
        IN  s.is[p] \in Routine =>
              \A q \in later : (\A r \in later : q <= r) => s.at[q] > s.at[p] + Window
  IN  {p \in Posts : s.is[p] # "none" /\ alone[p]}

\* isPostCovered: an outcome came later.
Covered(s, p) ==
  s.is[p] \in Routine /\ \E q \in Posts : s.is[q] = "result" /\ s.at[q] > s.at[p]

PostValue == [result |-> 2, decision |-> 3, progress |-> 4]

\* postPriority.
Priority(s, p) ==
  PostValue[s.is[p]] + (IF Covered(s, p) THEN 6 ELSE 0) + (IF p \in s.seen THEN 10 ELSE 0)

\* buildFeedItems: what is a card, and how it ranks.
CardsOf(s) ==
  (Alone(s) \union {c \in {Approval, Command} : s.is[c] \in {"pending", "queued", "failed"}})
    \ s.out

Rank(s, c) == IF c \in Posts THEN Priority(s, c) ELSE IF s.is[c] = "queued" THEN 5 ELSE 0

\* compareFeedItems.
Before(s, c, e) ==
  Rank(s, c) < Rank(s, e) \/ (Rank(s, c) = Rank(s, e) /\ s.at[c] > s.at[e])

InOrderOf(s) == {p \in Cards \X Cards : Before(s, p[1], p[2])}

\* isCurrentEligible: to be read, or to be acted on.
Current(s, c) == c \notin s.seen

-----------------------------------------------------------------------------
(* The page's sequence.                                                    *)

\* createFeedSequence, when the page is opened.
Created(s) ==
  [queue |-> Sorted({c \in CardsOf(s) : Current(s, c)}, InOrderOf(s)),
   history |-> Sorted({c \in CardsOf(s) : ~Current(s, c)}, InOrderOf(s)),
   fresh |-> <<>>]

\* mergeByCreatedAt: what is new below goes before the first that is no younger.
MergeByTime(s, old, new) ==
  LET place == [c \in Cards |->
        CHOOSE i \in 1..Len(old) + 1 :
          IF c \in ToSet(old) THEN old[i] = c
          ELSE /\ i <= Len(old) => s.at[old[i]] <= s.at[c]
               /\ \A j \in 1..i - 1 : s.at[old[j]] > s.at[c]]
      First(c, e) == c \in new /\ (e \in new => s.at[c] > s.at[e])
  IN  Sorted(ToSet(old) \union new,
             {p \in Cards \X Cards :
                \/ place[p[1]] < place[p[2]]
                \/ place[p[1]] = place[p[2]] /\ First(p[1], p[2])})

\* (Mutant: the queue is ordered anew with every snapshot.)
OrderedAnew(p, s) ==
  Sorted({c \in CardsOf(s) : Current(s, c) \/ c \in ToSet(p.queue)}, InOrderOf(s))

\* reconcileFeedSequence: the queue keeps its cards in their order; what is to
\* be read or acted on and is not in it goes first.
Newcomers(p, s) ==
  Sorted({c \in CardsOf(s) : Current(s, c) /\ c \notin ToSet(p.queue)}, InOrderOf(s))

Gone(s) == Cards \ CardsOf(s)
Queued(p, s) == Newcomers(p, s) \o Without(p.queue, Gone(s))

\* What was below stays, unless it is to be read again.
StaysBelow(p, s) == Without(p.history, Gone(s) \union ToSet(Queued(p, s)))

\* reconcileFeedSequence: what has no place yet goes below, by its time.
Reconciled(p, s) ==
  LET queue == Queued(p, s)
      below == StaysBelow(p, s)
      new == CardsOf(s) \ (ToSet(queue) \union ToSet(below))
  IN  [queue |-> queue,
       history |-> MergeByTime(s, below, new),
       fresh |-> Newcomers(p, s) \o Without(p.fresh, Gone(s))]

Rendered(p) == p.queue \o <<CaughtUp>> \o p.history

\* captureInitialAnchor, captureAnchor, restoreScrollTop: the page with the
\* anchor's card, or else the one that has its place now; at first, the first.
Restored(old, new) ==
  LET i == CHOOSE j \in DOMAIN Rendered(old) : Rendered(old)[j] = reads
  IN  IF Len(Rendered(old)) = 1 THEN Rendered(new)[1]
      ELSE IF Contains(Rendered(new), reads) THEN reads
      ELSE Rendered(new)[IF i < Len(Rendered(new)) THEN i ELSE Len(Rendered(new))]

\* A changed snapshot is reconciled with the page, and the page redrawn.
Redrawn(s) ==
  /\ snapshot' = s
  /\ page' = Reconciled(page, s)
  /\ reads' = Restored(page, page')

-----------------------------------------------------------------------------
(* What the Mac sends.                                                     *)

Made(c, kind, gap) ==
  [snapshot EXCEPT !.is[c] = kind, !.at[c] = snapshot.clock + gap, !.clock = @ + gap]

Comes(c, kind, gap) ==
  /\ snapshot.is[c] = "none"
  /\ Cardinality({e \in Cards : snapshot.is[e] # "none"}) < MaxMade
  /\ Redrawn(Made(c, kind, gap))

\* The next post.
Posted(p, kind, gap) ==
  (\A q \in 1..p - 1 : snapshot.is[q] # "none") /\ Comes(p, kind, gap)

\* A request for approval, and a task that waits to be started.
Requested(gap) == Comes(Approval, "pending", gap)
Queues(gap) == Comes(Command, "queued", gap)

\* The approval is decided; the task fails, or has its session, or is retried.
Moves(c, from, to) == snapshot.is[c] = from /\ Redrawn([snapshot EXCEPT !.is[c] = to])

-----------------------------------------------------------------------------
(* What the reader does.                                                   *)

\* SeenFeedPage: a post that was snapshot for a second is read.
Sees ==
  /\ reads \in Posts \ snapshot.seen
  /\ Redrawn([snapshot EXCEPT !.seen = @ \union {reads}])

\* dismissItem, and its undo.
MovesOut ==
  /\ reads # CaughtUp /\ Cardinality(snapshot.out) < MaxOut
  /\ Redrawn([snapshot EXCEPT !.out = @ \union {reads}])

Undoes(c) == c \in snapshot.out /\ Redrawn([snapshot EXCEPT !.out = @ \ {c}])

\* beginBrowsing, handleScroll: whoever scrolls has seen the hint.
Scrolls(c) ==
  /\ c # reads /\ Contains(Rendered(page), c)
  /\ reads' = c
  /\ page' = [page EXCEPT !.fresh = <<>>]
  /\ UNCHANGED snapshot

\* At the end of the queue, the page goes to what is new by itself.
GoesToFresh ==
  /\ reads = CaughtUp /\ page.fresh # <<>>
  /\ reads' = Head(page.fresh)
  /\ UNCHANGED <<snapshot, page>>

\* The hint is touched: the page goes to what is new.
TakesHint ==
  /\ reads # CaughtUp /\ page.fresh # <<>>
  /\ reads' = Head(page.fresh)
  /\ page' = [page EXCEPT !.fresh = <<>>]
  /\ UNCHANGED snapshot

\* The page is left and opened again.
Opens ==
  /\ page' = Created(snapshot) /\ reads' = Rendered(page')[1]
  /\ <<page, reads>>' # <<page, reads>>
  /\ UNCHANGED snapshot

QueueNext ==
  \/ \E gap \in 1..MaxGap :
       \/ \E p \in Posts, kind \in PostKinds : Posted(p, kind, gap)
       \/ Requested(gap) \/ Queues(gap)
  \/ Moves(Approval, "pending", "over")
  \/ \E to \in {"failed", "over"} : Moves(Command, "queued", to)
  \/ Moves(Command, "failed", "queued")
  \/ Sees \/ MovesOut \/ (\E c \in Cards : Undoes(c))
  \/ (\E c \in Cards \union {CaughtUp} : Scrolls(c))
  \/ GoesToFresh \/ TakesHint \/ Opens

QueueSpec == QueueInit /\ [][QueueNext]_queueVars

-----------------------------------------------------------------------------
(* Properties.                                                             *)

\* Every card is on the page once, above or below the end, and what is to be
\* read or acted on is above it; the hint of what is new is about the first
\* cards (feedSequence.ts:36-65, mirrored by the iOS page).
EveryCardOnce ==
  /\ IsInjective(Rendered(page))
  /\ ToSet(Rendered(page)) = CardsOf(snapshot) \union {CaughtUp}
  /\ \A i \in DOMAIN page.history : ~Current(snapshot, page.history[i])
  /\ IsPrefix(page.fresh, page.queue)

\* While the page is open no card that stays passes another in the queue, and
\* the reader keeps the card under the eyes unless it goes away, the reader
\* moves, or there was nothing new to wait for (feedSequence.ts:4-6).
Moved == reads' # reads /\ Contains(Rendered(page'), reads) /\ page.queue \o page.history # <<>>

CardsKeepTheirPlace ==
  snapshot' # snapshot =>
    /\ ~Moved
    /\ \A i, j \in DOMAIN page.queue, k, l \in DOMAIN page'.queue :
         page.queue[i] = page'.queue[k] /\ page.queue[j] = page'.queue[l] /\ i < j => k < l

\* Both: no order of news, readings, undone moves and taps loses a card, shows
\* one twice or takes it from under the reader's eyes.
PageKeepsItsCards == [][EveryCardOnce /\ EveryCardOnce' /\ CardsKeepTheirPlace]_queueVars

\* Fails (policy.ts:28-50): a post that was taken into a later one stands alone
\* again when a still later one has taken that, and is new although it is old.
OldStaysMerged ==
  [][\A p \in Posts :
        snapshot.is[p] # "none" /\ p \notin Alone(snapshot) => p \notin Alone(snapshot')]_queueVars

=============================================================================
