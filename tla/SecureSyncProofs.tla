--------------------------- MODULE SecureSyncProofs ---------------------------
(***************************************************************************)
(* Proofs about secure sync, for any entities, texts, writes, links,       *)
(* commands and losses: what the client shows is a snapshot that the       *)
(* bridge took, and a delta that arrives in its turn fits it.              *)
(*                                                                         *)
(* Neither is inductive, as the revision a frame belongs to is not in the  *)
(* frame: the bridge knows its base, the client its replica, and between   *)
(* them only counters agree.  The invariant therefore says that there is   *)
(* a chronicle of the link, the revision that had been reached before each *)
(* of its frames, and that the task, the client and every frame that is    *)
(* still on its way agree with it.  Frames may be lost: a frame that is    *)
(* not there has nothing to agree with.                                    *)
(***************************************************************************)
EXTENDS SecureSync, SequenceTheorems, TLAPS

-----------------------------------------------------------------------------
(* 1. Sequences and what is in them. *)

LEMMA RangeOfAppend ==
  ASSUME NEW S, NEW s \in Seq(S), NEW e \in S
  PROVE  Append(s, e) \in Seq(S) /\ Range(Append(s, e)) = Range(s) \cup {e}
<1> SUFFICES ASSUME NEW t, t = Append(s, e)
             PROVE  t \in Seq(S) /\ Range(t) = Range(s) \cup {e}
    OBVIOUS
<1>1. /\ t \in Seq(S) /\ Len(t) = Len(s) + 1 /\ Len(s) \in Nat
      /\ \A i \in 1..Len(s) : t[i] = s[i]
      /\ t[Len(s) + 1] = e
      BY LenProperties
<1>2. DOMAIN s = 1..Len(s) /\ DOMAIN t = 1..(Len(s) + 1)
      BY <1>1, LenProperties
<1> QED BY <1>1, <1>2 DEF Range

LEMMA RangeOfTail ==
  ASSUME NEW S, NEW s \in Seq(S), s # <<>>
  PROVE  /\ Tail(s) \in Seq(S) /\ Range(Tail(s)) \subseteq Range(s)
         /\ Head(s) = s[1] /\ Head(s) \in Range(s) /\ Head(s) \in S
<1>1. /\ Tail(s) \in Seq(S) /\ Len(Tail(s)) = Len(s) - 1 /\ Len(s) \in Nat
      /\ \A i \in 1..Len(Tail(s)) : Tail(s)[i] = s[i + 1]
      /\ Head(s) \in S
      BY LenProperties, HeadTailProperties
<1>2. DOMAIN s = 1..Len(s) /\ DOMAIN Tail(s) = 1..(Len(s) - 1) /\ Len(s) # 0
      BY <1>1, LenProperties, EmptySeq
<1>3. Head(s) = s[1]
      BY <1>2
<1> QED BY <1>1, <1>2, <1>3 DEF Range

LEMMA RangeOfRemoval ==
  ASSUME NEW S, NEW s \in Seq(S), NEW n \in DOMAIN s
  PROVE  /\ RemoveAt(s, n) \in Seq(S) /\ Range(RemoveAt(s, n)) \subseteq Range(s)
         /\ Len(s) = 1 => Range(RemoveAt(s, n)) = {}
<1> DEFINE before == SubSeq(s, 1, n - 1)
           behind == SubSeq(s, n + 1, Len(s))
<1>1. /\ Len(s) \in Nat /\ DOMAIN s = 1..Len(s)
      /\ n - 1 \in Int /\ n + 1 \in Int /\ 1 \in Int
      /\ \A i \in 1..Len(s) : s[i] \in S
      BY LenProperties, ElementOfSeq
<1>2. before \in Seq(S) /\ Range(before) \subseteq Range(s)
  <2>1. \A i \in 1..(n - 1) : s[i] \in S
        BY <1>1
  <2>2. /\ before \in Seq(S)
        /\ Len(before) = IF 1 <= n - 1 THEN (n - 1) - 1 + 1 ELSE 0
        /\ \A i \in 1..((n - 1) - 1 + 1) : before[i] = s[1 + i - 1]
        BY <1>1, <2>1, SubSeqProperties
  <2>3. DOMAIN before = 1..Len(before)
        BY <2>2, LenProperties
  <2> HIDE DEF before
  <2> QED BY <1>1, <2>2, <2>3 DEF Range
<1>3. behind \in Seq(S) /\ Range(behind) \subseteq Range(s)
  <2>1. \A i \in (n + 1)..Len(s) : s[i] \in S
        BY <1>1
  <2>2. /\ behind \in Seq(S)
        /\ Len(behind) = IF n + 1 <= Len(s) THEN Len(s) - (n + 1) + 1 ELSE 0
        /\ \A i \in 1..(Len(s) - (n + 1) + 1) : behind[i] = s[(n + 1) + i - 1]
        BY <1>1, <2>1, SubSeqProperties
  <2>3. DOMAIN behind = 1..Len(behind)
        BY <2>2, LenProperties
  <2> HIDE DEF behind
  <2>4. ASSUME NEW i \in DOMAIN behind
        PROVE  n + i \in DOMAIN s /\ behind[i] = s[n + i]
    <3> DEFINE l == Len(s)
               b == Len(behind)
    <3>1. /\ l \in Nat /\ n \in 1..l /\ DOMAIN s = 1..l
          /\ b = (IF n + 1 <= l THEN l - (n + 1) + 1 ELSE 0) /\ i \in 1..b
          BY <1>1, <2>2, <2>3, <2>4
    <3>2. \A j \in 1..(l - (n + 1) + 1) : behind[j] = s[(n + 1) + j - 1]
          BY <2>2
    <3> HIDE DEF l, b
    <3>3. /\ i \in 1..(l - (n + 1) + 1) /\ n + i \in 1..l
          /\ (n + 1) + i - 1 = n + i
          BY <3>1
    <3> QED BY <3>1, <3>2, <3>3
  <2> QED BY <2>2, <2>4 DEF Range
<1>4. RemoveAt(s, n) = before \o behind
      BY DEF RemoveAt
<1> HIDE DEF before, behind
<1>5. /\ before \o behind \in Seq(S)
      /\ Len(before \o behind) = Len(before) + Len(behind)
      /\ \A i \in 1..(Len(before) + Len(behind)) :
           (before \o behind)[i] = IF i <= Len(before) THEN before[i]
                                   ELSE behind[i - Len(before)]
      BY <1>2, <1>3, ConcatProperties
<1>6. /\ DOMAIN (before \o behind) = 1..(Len(before) + Len(behind))
      /\ DOMAIN before = 1..Len(before) /\ Len(before) \in Nat
      /\ DOMAIN behind = 1..Len(behind) /\ Len(behind) \in Nat
      BY <1>2, <1>3, <1>5, LenProperties
<1>7. ASSUME NEW i \in DOMAIN (before \o behind)
      PROVE  (before \o behind)[i] \in Range(before) \cup Range(behind)
  <2>1. CASE i <= Len(before)
    <3>1. i \in DOMAIN before /\ (before \o behind)[i] = before[i]
          BY <1>5, <1>6, <1>7, <2>1
    <3> QED BY <3>1 DEF Range
  <2>2. CASE ~(i <= Len(before))
    <3>1. i - Len(before) \in DOMAIN behind /\ (before \o behind)[i] = behind[i - Len(before)]
          BY <1>5, <1>6, <1>7, <2>2
    <3> QED BY <3>1 DEF Range
  <2> QED BY <2>1, <2>2
<1>8. Range(before \o behind) \subseteq Range(before) \cup Range(behind)
      BY <1>7 DEF Range
<1>9. ASSUME Len(s) = 1 PROVE Range(before \o behind) = {}
  <2>1. n = 1
        BY <1>1, <1>9
  <2>2. Len(before) = 0 /\ Len(behind) = 0
        BY <1>1, <1>9, <2>1, SubSeqProperties DEF before, behind
  <2>3. DOMAIN (before \o behind) = {}
        BY <1>6, <2>2
  <2> QED BY <2>3 DEF Range
<1> QED BY <1>2, <1>3, <1>4, <1>5, <1>8, <1>9

LEMMA RangeOfNone == Range(<<>>) = {} /\ \A e : Range(<<e>>) = {e}
BY DEF Range

LEMMA FirstIsOne ==
  ASSUME NEW S, NEW s \in Seq(S)
  PROVE  0 \notin DOMAIN s
BY LenProperties

\* A chronicle is continued.
LEMMA Continued ==
  \A g \in [Nat -> Nat], n, after \in Nat :
    \E h \in [Nat -> Nat] : h[n + 1] = after /\ \A i \in Nat : i <= n => h[i] = g[i]
<1> TAKE g \in [Nat -> Nat], n, after \in Nat
<1> DEFINE h == [i \in Nat |-> IF i = n + 1 THEN after ELSE g[i]]
<1>1. h \in [Nat -> Nat] /\ h[n + 1] = after /\ \A i \in Nat : i <= n => h[i] = g[i]
      OBVIOUS
<1> QED BY <1>1

LEMMA Below ==
  ASSUME NEW n \in Nat, NEW c \in Nat, c <= n
  PROVE  c <= n + 1 /\ (c < n => c + 1 \in Nat /\ c + 1 <= n) /\ c < n + 1
OBVIOUS

-----------------------------------------------------------------------------
(* 2. A delta and what it makes. *)

\* Whatever a replica is, a delta from it to another makes the other of it.
LEMMA PatchedIsNew ==
  ASSUME NEW old \in Contents, NEW new \in Contents, NEW base, NEW rev
  PROVE  Patched(old, Delta(old, new, base, rev)) = new
<1> DEFINE delta == Delta(old, new, base, rev)
           patched == Patched(old, delta)
<1>0. /\ new = [i \in DOMAIN new |-> new[i]]
      BY DEF Contents
<1>1. /\ DOMAIN delta.upsert = {i \in DOMAIN new : i \notin DOMAIN old \/ old[i] # new[i]}
      /\ \A i \in DOMAIN delta.upsert : delta.upsert[i] = new[i]
      /\ delta.remove = DOMAIN old \ DOMAIN new
      BY DEF Delta, Upserts
<1> HIDE DEF delta
<1>2. patched = [i \in (DOMAIN old \ delta.remove) \cup DOMAIN delta.upsert |->
                   IF i \in DOMAIN delta.upsert THEN delta.upsert[i] ELSE old[i]]
      BY DEF Patched
<1> HIDE DEF patched
<1>3. DOMAIN patched = DOMAIN new
      BY <1>1, <1>2
<1>4. \A i \in DOMAIN new : patched[i] = new[i]
      BY <1>1, <1>2, <1>3
<1>5. patched = [i \in DOMAIN patched |-> patched[i]]
      BY <1>2
<1>6. patched = new
      BY <1>0, <1>3, <1>4, <1>5
<1> QED BY <1>6 DEF patched, delta

-----------------------------------------------------------------------------
(* 3. The inductive invariant. *)

AuthFrame == [type |-> "auth"]

UpFrames == {AuthFrame} \cup [type : {"secure"}, counter : Nat, message : {Request, Command}]

Answers ==
  {Reply}
  \cup [type : {"session.snapshot"}, content : Contents, rev : Nat]
  \cup [type : {"snapshot.delta"}, base : Nat, rev : Nat, upsert : Contents,
        remove : SUBSET Items, order : SUBSET Items]

DownFrames ==
  [type : {"auth.ok"}] \cup [type : {"close"}, code : Nat]
  \cup [type : {"secure"}, counter : Nat, message : Answers]

AtMostOne == {<<>>} \cup {<<c>> : c \in Contents}

Tasks ==
  [pc : {"gone", "auth", "sqlite", "revision", "snapshot", "loop", "dispatch"},
   sql : Nat, seen : {<<>>} \cup (Nat \X Nat), recv : Nat, send : Nat, enabled : BOOLEAN,
   rev : Nat, previous : AtMostOne]

Clients ==
  [open : BOOLEAN, route : {"local", "cloud"}, keyed : BOOLEAN, send : Nat, recv : Nat,
   snapshot : AtMostOne, rev : Nat, negotiated : BOOLEAN]

SyncTypes ==
  /\ content \in Contents /\ sqlite \in Nat /\ local \in Nat
  /\ task \in Tasks /\ client \in Clients
  /\ up \in Seq(UpFrames) /\ down \in Seq(DownFrames) /\ sent \in Seq(Contents)

Serving == task.pc \notin {"gone", "auth"}

\* Until the frame that authenticates is taken nothing has happened on the link.
BeforeAuth ==
  /\ AuthFrame \in Range(up) =>
       /\ up = <<AuthFrame>> /\ ~client.keyed /\ ~Serving /\ sent = <<>>
       /\ \A f \in Range(down) : f.type = "close"
  /\ task.pc = "auth" => task = Fresh
  /\ ~client.keyed => client.recv = 0 /\ client.rev = 0

\* The base of the next delta is the last snapshot that was sent.
TaskFollows ==
  Serving =>
    /\ task.rev = Len(sent)
    /\ \/ task.previous = <<>>
       \/ task.rev \in DOMAIN sent /\ task.previous = <<sent[task.rev]>>

\* The replica is the snapshot of its revision.
ClientFollows ==
  \/ client.rev = 0 /\ client.snapshot = <<>>
  \/ client.rev \in DOMAIN sent /\ client.snapshot = <<sent[client.rev]>>

\* What a message says, when one revision was reached before it and one after.
MessageFollows(m, before, after) ==
  \/ m = Reply /\ after = before
  \/ after = before + 1 /\ after \in DOMAIN sent /\ m = Full(sent[after], after)
  \/ /\ after = before + 1 /\ after \in DOMAIN sent /\ before \in DOMAIN sent
     /\ m = Delta(sent[before], sent[after], before, after)

\* g is a chronicle of the n frames that were sent: g[i] is the revision that
\* had been reached before frame i, and all who know one agree with it.
Chronicle(g, n) ==
  /\ g[0] = 0
  /\ \A f \in Range(down) :
       f.type = "secure" =>
         f.counter < n /\ MessageFollows(f.message, g[f.counter], g[f.counter + 1])
  /\ client.recv <= n /\ client.rev = g[client.recv]
  /\ Serving => task.send = n /\ task.rev = g[n]

Recorded == \E g \in [Nat -> Nat], n \in Nat : Chronicle(g, n)

\* Together they are inductive.
SyncInv == SyncTypes /\ BeforeAuth /\ TaskFollows /\ ClientFollows /\ Recorded

\* It is enough for what is to be shown.
LEMMA SyncIsEnough == SyncInv => ReplicaFollows
<1> SUFFICES ASSUME SyncInv PROVE ReplicaFollows
    OBVIOUS
<1>1. ReplicaIsSnapshot
      BY DEF SyncInv, ClientFollows, ReplicaIsSnapshot
<1>2. DeltaFits
  <2> SUFFICES ASSUME NEW i \in DOMAIN down \cap {1}, client.keyed, down[i].type = "secure",
                      down[i].counter = client.recv,
                      down[i].message.type = "snapshot.delta"
               PROVE  Fits(client, down[i].message)
      BY DEF DeltaFits
  <2>1. PICK g \in [Nat -> Nat], n \in Nat : Chronicle(g, n)
        BY DEF SyncInv, Recorded
  <2> DEFINE m == down[i].message
             base == client.rev
             rev == g[client.recv + 1]
  <2>2. down[i] \in Range(down)
        BY DEF Range
  <2>3. MessageFollows(m, g[client.recv], rev) /\ client.rev = g[client.recv]
        BY <2>1, <2>2 DEF Chronicle
  <2>4. /\ rev \in DOMAIN sent /\ base \in DOMAIN sent
        /\ m = Delta(sent[base], sent[rev], base, rev)
        BY <2>3 DEF MessageFollows, Reply, Full
  <2>5. sent[rev] \in Contents /\ sent[base] \in Contents
        BY <2>4, ElementOfSeq, LenProperties DEF SyncInv, SyncTypes
  <2>6. client.snapshot = <<sent[base]>>
    <3>1. base # 0
          BY <2>4, FirstIsOne DEF SyncInv, SyncTypes
    <3> QED BY <3>1 DEF SyncInv, ClientFollows
  <2>7. Patched(client.snapshot[1], m) = sent[rev]
        BY <2>4, <2>5, <2>6, PatchedIsNew
  <2>8. m.base = base /\ m.order = DOMAIN sent[rev]
        BY <2>4 DEF Delta
  <2> QED BY <2>6, <2>7, <2>8 DEF Fits
<1> QED BY <1>1, <1>2 DEF ReplicaFollows

-----------------------------------------------------------------------------
(* 4. The steps. *)

\* The chronicle stays, when no frame is added and nobody goes on.
LEMMA StaysRecorded ==
  ASSUME Recorded, sent' = sent,
         \A f \in Range(down)' : f \in Range(down) \/ f.type # "secure",
         client'.recv = client.recv, client'.rev = client.rev,
         Serving' => Serving /\ task'.send = task.send /\ task'.rev = task.rev
  PROVE  Recorded'
<1>1. PICK g \in [Nat -> Nat], n \in Nat : Chronicle(g, n)
      BY DEF Recorded
<1>2. \A m, before, after :
        MessageFollows(m, before, after) => MessageFollows(m, before, after)'
      BY DEF MessageFollows
<1>3. Chronicle(g, n)'
      BY <1>1, <1>2 DEF Chronicle
<1> QED BY <1>3 DEF Recorded

\* The bridge closes.
LEMMA ClosesStep ==
  ASSUME SyncInv, NEW code \in Nat, Closes(code), client' = client, sent' = sent,
         up' \in Seq(UpFrames), Range(up)' \subseteq Range(up), AuthFrame \notin Range(up)',
         content' \in Contents, sqlite' \in Nat, local' \in Nat
  PROVE  SyncInv'
<1> DEFINE close == [type |-> "close", code |-> IF client.route = "cloud" THEN 1000 ELSE code]
<1>1. close \in DownFrames /\ close.type = "close"
      BY DEF DownFrames
<1>2. down' = Append(down, close) /\ task' = Gone
      BY DEF Closes
<1> HIDE DEF close
<1>3. down' \in Seq(DownFrames) /\ Range(down)' = Range(down) \cup {close}
  <2>1. down \in Seq(DownFrames)
        BY DEF SyncInv, SyncTypes
  <2>2. /\ Append(down, close) \in Seq(DownFrames)
        /\ Range(Append(down, close)) = Range(down) \cup {close}
        BY <1>1, <2>1, RangeOfAppend
  <2> QED BY <1>2, <2>2
<1>4. task' \in Tasks /\ task'.pc = "gone"
      BY <1>2 DEF Gone, Fresh, Tasks, AtMostOne
<1>5. SyncTypes'
      BY <1>3, <1>4 DEF SyncInv, SyncTypes
<1>6. BeforeAuth' /\ TaskFollows' /\ ClientFollows'
      BY <1>4 DEF SyncInv, BeforeAuth, TaskFollows, ClientFollows, Serving
<1>7. Recorded'
      BY <1>1, <1>3, <1>4, StaysRecorded DEF SyncInv, Serving
<1> QED BY <1>5, <1>6, <1>7 DEF SyncInv

\* The bridge's task goes on and sends nothing.
LEMMA QuietStep ==
  ASSUME SyncInv, Serving, task' \in Tasks, Serving', task'.send = task.send,
         task'.rev = task.rev, task'.previous = task.previous \/ task'.previous = <<>>,
         client' = client, down' = down, sent' = sent,
         up' \in Seq(UpFrames), Range(up)' \subseteq Range(up),
         content' \in Contents, sqlite' \in Nat, local' \in Nat
  PROVE  SyncInv'
<1>1. SyncTypes'
      BY DEF SyncInv, SyncTypes
<1>2. BeforeAuth' /\ TaskFollows' /\ ClientFollows'
      BY DEF SyncInv, BeforeAuth, TaskFollows, ClientFollows, Serving
<1>3. Recorded'
      BY StaysRecorded DEF SyncInv
<1> QED BY <1>1, <1>2, <1>3 DEF SyncInv

\* The chronicle goes on with a frame that follows from what was before it.
LEMMA GoesOnRecorded ==
  ASSUME Recorded, Serving, client.recv \in Nat, task.send \in Nat,
         \A f \in Range(down) : f.type = "secure" => f.counter \in Nat,
         NEW frame, NEW before \in Nat, NEW after \in Nat,
         task.rev = before, task'.rev = after, task'.send = task.send + 1,
         frame.counter = task.send, MessageFollows(frame.message, before, after)',
         Range(down)' = Range(down) \cup {frame},
         \A i \in DOMAIN sent : i \in DOMAIN sent' /\ sent'[i] = sent[i],
         client' = client
  PROVE  Recorded'
<1>1. PICK g \in [Nat -> Nat], n \in Nat : Chronicle(g, n)
      BY DEF Recorded
<1>0. g \in [Nat -> Nat] /\ n \in Nat /\ after \in Nat
      OBVIOUS
<1>2. PICK h \in [Nat -> Nat] : h[n + 1] = after /\ \A i \in Nat : i <= n => h[i] = g[i]
      BY ONLY <1>0, Continued
<1>3. task.send = n /\ before = g[n]
      BY <1>1 DEF Chronicle
<1>4. \A k, was, is : MessageFollows(k, was, is) => MessageFollows(k, was, is)'
  <2> SUFFICES ASSUME NEW k, NEW was, NEW is, MessageFollows(k, was, is)
               PROVE  MessageFollows(k, was, is)'
      OBVIOUS
  <2> QED BY DEF MessageFollows
<1>5. ASSUME NEW f \in Range(down), f.type = "secure"
      PROVE  /\ f.counter < n + 1
             /\ MessageFollows(f.message, h[f.counter], h[f.counter + 1])'
  <2>2. f.counter \in Nat
        BY <1>5
  <2>3. f.counter < n /\ MessageFollows(f.message, g[f.counter], g[f.counter + 1])
        BY <1>1, <1>5 DEF Chronicle
  <2>4. f.counter + 1 \in Nat /\ f.counter <= n /\ f.counter + 1 <= n /\ f.counter < n + 1
    <3>1. f.counter <= n
          BY <2>2, <2>3
    <3> QED BY <2>2, <2>3, <3>1, Below
  <2>5. h[f.counter] = g[f.counter] /\ h[f.counter + 1] = g[f.counter + 1]
        BY <1>2, <2>2, <2>4
  <2> QED BY <1>4, <2>3, <2>4, <2>5
<1>6. /\ frame.counter < n + 1
      /\ MessageFollows(frame.message, h[frame.counter], h[frame.counter + 1])'
  <2>1. frame.counter = n /\ h[n] = before /\ h[n + 1] = after
        BY <1>2, <1>3
  <2> QED BY <2>1
<1>7. h[0] = 0
      BY <1>1, <1>2 DEF Chronicle
<1>8. client'.recv <= n + 1 /\ client'.rev = h[client'.recv]
  <2>1. client.recv \in Nat /\ client.recv <= n /\ client.rev = g[client.recv]
        BY <1>1 DEF Chronicle
  <2>2. h[client.recv] = g[client.recv] /\ client.recv <= n + 1
        BY <1>2, <2>1, Below
  <2> QED BY <2>1, <2>2
<1>9. task'.send = n + 1 /\ task'.rev = h[n + 1]
      BY <1>2, <1>3
<1>10. Chronicle(h, n + 1)'
      BY <1>5, <1>6, <1>7, <1>8, <1>9 DEF Chronicle
<1>11. n + 1 \in Nat
      OBVIOUS
<1> QED BY <1>2, <1>10, <1>11 DEF Recorded

\* The bridge's task sends a message that follows from what was sent before.
LEMMA SendingStep ==
  ASSUME SyncInv, Serving, NEW m \in Answers, NEW frame, frame = Secure(task.send, m),
         NEW before \in Nat, NEW after \in Nat, task.rev = before, task'.rev = after,
         down' = Append(down, frame), task' \in Tasks, Serving', task'.send = task.send + 1,
         sent' \in Seq(Contents),
         \A i \in DOMAIN sent : i \in DOMAIN sent' /\ sent'[i] = sent[i],
         MessageFollows(m, before, after)', TaskFollows',
         client' = client, up' = up, content' \in Contents, sqlite' \in Nat, local' \in Nat
  PROVE  SyncInv'
<1>0. task.send \in Nat
      BY DEF SyncInv, SyncTypes, Tasks
<1>1. frame \in DownFrames /\ frame.counter = task.send /\ frame.message = m
      BY <1>0 DEF DownFrames, Secure
<1>2. down' \in Seq(DownFrames) /\ Range(down)' = Range(down) \cup {frame}
  <2>1. down \in Seq(DownFrames)
        BY DEF SyncInv, SyncTypes
  <2>2. /\ Append(down, frame) \in Seq(DownFrames)
        /\ Range(Append(down, frame)) = Range(down) \cup {frame}
        BY <1>1, <2>1, RangeOfAppend
  <2> QED BY <2>2
<1>3. SyncTypes'
      BY <1>2 DEF SyncInv, SyncTypes
<1>4. BeforeAuth'
      BY DEF SyncInv, BeforeAuth, Serving
<1>5. ClientFollows'
      BY DEF SyncInv, ClientFollows
<1>6. Recorded'
  <2>1. Recorded /\ client.recv \in Nat
        BY DEF SyncInv, SyncTypes, Clients
  <2>2. ASSUME NEW f \in Range(down), f.type = "secure" PROVE f.counter \in Nat
    <3>1. f \in DownFrames
          BY LenProperties, ElementOfSeq DEF SyncInv, SyncTypes, Range
    <3> QED BY <2>2, <3>1 DEF DownFrames
  <2> QED BY <1>0, <1>1, <1>2, <2>1, <2>2, GoesOnRecorded
<1> QED BY <1>3, <1>4, <1>5, <1>6 DEF SyncInv

\* The link is left: everything begins anew.
LEMMA LeavesStep ==
  ASSUME SyncInv, client' \in Clients, ~client'.keyed, client'.recv = 0, client'.rev = 0,
         client'.snapshot = <<>>, task' \in {Gone, Fresh}, up' \in {<<>>, <<AuthFrame>>},
         down' = <<>>, sent' = <<>>, UNCHANGED <<content, sqlite, local>>
  PROVE  SyncInv'
<1>1. task' \in Tasks /\ ~Serving' /\ (task'.pc = "auth" => task' = Fresh)
  <2>1. Fresh \in Tasks /\ Fresh.pc = "auth"
        BY DEF Fresh, Tasks, AtMostOne
  <2>2. Gone \in Tasks /\ Gone.pc = "gone"
        BY DEF Gone, Fresh, Tasks, AtMostOne
  <2> QED BY <2>1, <2>2 DEF Serving
<1>2. up' \in Seq(UpFrames) /\ down' \in Seq(DownFrames) /\ sent' \in Seq(Contents)
  <2>1. AuthFrame \in UpFrames
        BY DEF UpFrames
  <2> HIDE DEF AuthFrame
  <2>2. <<AuthFrame>> \in Seq(UpFrames) /\ <<>> \in Seq(UpFrames)
        BY <2>1
  <2> QED BY <2>2, EmptySeq
<1>3. /\ Range(down)' = {} /\ Range(<<>>) = {}
      BY RangeOfNone
<1>4. SyncTypes'
      BY <1>1, <1>2 DEF SyncInv, SyncTypes
<1>5. BeforeAuth' /\ TaskFollows' /\ ClientFollows'
      BY <1>1, <1>3 DEF BeforeAuth, TaskFollows, ClientFollows
<1>6. Recorded'
  <2> DEFINE g == [i \in Nat |-> 0]
  <2>1. g \in [Nat -> Nat] /\ g[0] = 0 /\ 0 \in Nat /\ 0 <= 0
        OBVIOUS
  <2> HIDE DEF g
  <2>2. Chronicle(g, 0)'
        BY <1>1, <1>3, <2>1 DEF Chronicle
  <2> QED BY <2>1, <2>2 DEF Recorded
<1> QED BY <1>4, <1>5, <1>6 DEF SyncInv

\* The store changes behind the link.
LEMMA StoreStep ==
  ASSUME SyncInv, StoreNext
  PROVE  SyncInv'
<1>1. /\ content' \in Contents /\ sqlite' \in Nat /\ local' \in Nat
      /\ UNCHANGED <<task, client, up, down, sent>>
  <2>1. content \in Contents /\ sqlite \in Nat /\ local \in Nat
        BY DEF SyncInv, SyncTypes
  <2>2. CASE ActorWrites
        BY <2>1, <2>2 DEF ActorWrites, Change
  <2>3. CASE ActorCounts
        BY <2>1, <2>3 DEF ActorCounts
  <2>4. CASE OthersWrite
        BY <2>1, <2>4 DEF OthersWrite, Change
  <2>5. CASE Revoke
        BY <2>1, <2>5 DEF Revoke
  <2> QED BY <2>2, <2>3, <2>4, <2>5 DEF StoreNext
<1>2. SyncTypes'
      BY <1>1 DEF SyncInv, SyncTypes
<1>3. BeforeAuth' /\ TaskFollows' /\ ClientFollows'
      BY <1>1 DEF SyncInv, BeforeAuth, TaskFollows, ClientFollows, Serving
<1>4. Recorded'
      BY <1>1, StaysRecorded DEF SyncInv, Serving
<1> QED BY <1>2, <1>3, <1>4 DEF SyncInv

\* What is at the head of the way up, and what is behind it.
LEMMA UpTaken ==
  ASSUME SyncInv, up # <<>>, up' = Tail(up)
  PROVE  /\ up' \in Seq(UpFrames) /\ Range(up)' \subseteq Range(up)
         /\ Head(up) \in UpFrames /\ Head(up) \in Range(up)
         /\ AuthFrame \notin Range(up)'
<1>1. up \in Seq(UpFrames)
      BY DEF SyncInv, SyncTypes
<1>2. /\ Tail(up) \in Seq(UpFrames) /\ Range(Tail(up)) \subseteq Range(up)
      /\ Head(up) \in UpFrames /\ Head(up) \in Range(up)
      BY <1>1, RangeOfTail
<1>3. AuthFrame \notin Range(Tail(up))
  <2>1. CASE AuthFrame \in Range(up)
    <3>1. up = <<AuthFrame>>
          BY <2>1 DEF SyncInv, BeforeAuth
    <3>2. Tail(up) = <<>>
          BY <3>1
    <3> QED BY <3>2, RangeOfNone
  <2>2. CASE AuthFrame \notin Range(up)
        BY <1>2, <2>2
  <2> QED BY <2>1, <2>2
<1> QED BY <1>2, <1>3

LEMMA TypesOfContext ==
  ASSUME SyncInv
  PROVE  /\ content \in Contents /\ sqlite \in Nat /\ local \in Nat
         /\ task \in Tasks /\ client \in Clients
         /\ up \in Seq(UpFrames) /\ down \in Seq(DownFrames) /\ sent \in Seq(Contents)
BY DEF SyncInv, SyncTypes

\* The task's counters, after one more.
LEMMA TaskMoves ==
  ASSUME NEW t \in Tasks
  PROVE  /\ t.send \in Nat /\ t.recv \in Nat /\ t.rev \in Nat
         /\ t.send + 1 \in Nat /\ t.recv + 1 \in Nat /\ t.rev + 1 \in Nat
BY DEF Tasks

\* The device is let in, or the socket closed.
LEMMA AuthenticateStep ==
  ASSUME SyncInv, Authenticate
  PROVE  SyncInv'
<1>0. /\ up # <<>> /\ up' = Tail(up) /\ client' = client /\ sent' = sent
      /\ UNCHANGED <<content, sqlite, local>> /\ task.pc = "auth"
      BY DEF Authenticate
<1>1. /\ up' \in Seq(UpFrames) /\ Range(up)' \subseteq Range(up)
      /\ Head(up) \in UpFrames /\ Head(up) \in Range(up) /\ AuthFrame \notin Range(up)'
      BY <1>0, UpTaken
<1>2. CASE Head(up).type # "auth" \/ ~active
  <2>1. Closes(1008)
        BY <1>2 DEF Authenticate
  <2> QED BY <1>0, <1>1, <2>1, ClosesStep, TypesOfContext
<1>3. CASE ~(Head(up).type # "auth" \/ ~active)
  <2> DEFINE ok == [type |-> "auth.ok"]
  <2>1. down' = Append(down, ok) /\ task' = [task EXCEPT !.pc = "sqlite"]
        BY <1>3 DEF Authenticate
  <2>2. ok \in DownFrames /\ ok.type = "auth.ok"
        BY DEF DownFrames
  <2> HIDE DEF ok
  <2>3. down' \in Seq(DownFrames) /\ Range(down)' = Range(down) \cup {ok}
    <3>1. /\ Append(down, ok) \in Seq(DownFrames)
          /\ Range(Append(down, ok)) = Range(down) \cup {ok}
          BY <2>2, RangeOfAppend, TypesOfContext
    <3> QED BY <2>1, <3>1
  <2>4. Head(up) = AuthFrame
        BY <1>1, <1>3 DEF UpFrames, AuthFrame
  <2>5. /\ sent = <<>> /\ ~client.keyed
        /\ \A f \in Range(down) : f.type = "close"
        BY <1>1, <2>4 DEF SyncInv, BeforeAuth
  <2>6. client.recv = 0 /\ client.rev = 0 /\ client.snapshot = <<>>
    <3>1. client.recv = 0 /\ client.rev = 0
          BY <2>5 DEF SyncInv, BeforeAuth
    <3>2. 0 \notin DOMAIN sent
          BY FirstIsOne, TypesOfContext
    <3> QED BY <3>1, <3>2 DEF SyncInv, ClientFollows
  <2>7. /\ task' \in Tasks /\ task'.pc = "sqlite" /\ task'.send = 0 /\ task'.rev = 0
        /\ task'.previous = <<>>
    <3>1. task = Fresh
          BY <1>0 DEF SyncInv, BeforeAuth
    <3> QED BY <2>1, <3>1 DEF Fresh, Tasks, AtMostOne
  <2>8. SyncTypes'
        BY <1>0, <1>1, <2>3, <2>7, TypesOfContext DEF SyncTypes
  <2>9. BeforeAuth'
        BY <1>0, <1>1, <2>5, <2>6, <2>7 DEF BeforeAuth
  <2>10. TaskFollows' /\ ClientFollows'
    <3>1. Len(sent) = 0
          BY <2>5
    <3> QED BY <1>0, <2>6, <2>7, <3>1 DEF TaskFollows, ClientFollows
  <2>11. Recorded'
    <3> DEFINE g == [i \in Nat |-> 0]
    <3>1. g \in [Nat -> Nat] /\ g[0] = 0 /\ 0 \in Nat /\ 0 <= 0
          OBVIOUS
    <3> HIDE DEF g
    <3>2. Chronicle(g, 0)'
          BY <1>0, <2>2, <2>3, <2>5, <2>6, <2>7, <3>1 DEF Chronicle
    <3> QED BY <3>1, <3>2 DEF Recorded
  <2> QED BY <2>8, <2>9, <2>10, <2>11 DEF SyncInv
<1> QED BY <1>2, <1>3

\* The task that looks whether the store has changed.
LEMMA LooksStep ==
  ASSUME SyncInv, ReadSqlite \/ ReadRevision
  PROVE  SyncInv'
<1>1. /\ Serving /\ Serving' /\ task' \in Tasks /\ task'.send = task.send
      /\ task'.rev = task.rev /\ task'.previous = task.previous
      /\ UNCHANGED <<client, down, up, sent, content, sqlite, local>>
  <2>1. CASE ReadSqlite
    <3>1. task' = [task EXCEPT !.pc = "revision", !.sql = sqlite] /\ task.pc = "sqlite"
          BY <2>1 DEF ReadSqlite
    <3> QED BY <2>1, <3>1, TypesOfContext DEF ReadSqlite, Tasks, Serving, store
  <2>2. CASE ReadRevision
    <3> DEFINE version == <<task.sql, local>>
    <3>1. version \in Nat \X Nat
          BY TypesOfContext DEF Tasks
    <3> HIDE DEF version
    <3>2. /\ task.pc = "revision"
          /\ \/ task' = [task EXCEPT !.pc = "loop", !.sql = 0]
             \/ task' = [task EXCEPT !.pc = "snapshot", !.sql = 0, !.seen = version]
          BY <2>2 DEF ReadRevision, version
    <3> QED BY <2>2, <3>1, <3>2, TypesOfContext DEF ReadRevision, Tasks, Serving, store
  <2> QED BY <2>1, <2>2
<1>2. up' \in Seq(UpFrames) /\ Range(up)' \subseteq Range(up)
      BY <1>1, TypesOfContext
<1> QED BY <1>1, <1>2, QuietStep, TypesOfContext

\* Who serves has taken the frame that authenticates.
LEMMA ServingIsLetIn ==
  ASSUME SyncInv, Serving PROVE AuthFrame \notin Range(up)
BY DEF SyncInv, BeforeAuth

LEMMA PollStep ==
  ASSUME SyncInv, Poll
  PROVE  SyncInv'
<1>0. /\ Serving /\ task.pc = "loop" /\ UNCHANGED <<client, up, sent, content, sqlite, local>>
      BY DEF Poll, Serving, store
<1>1. up' \in Seq(UpFrames) /\ Range(up)' \subseteq Range(up) /\ AuthFrame \notin Range(up)'
      BY <1>0, ServingIsLetIn, TypesOfContext
<1>2. CASE active
  <2>1. task' = [task EXCEPT !.pc = "sqlite"] /\ down' = down
        BY <1>2 DEF Poll
  <2>2. /\ task' \in Tasks /\ Serving' /\ task'.send = task.send /\ task'.rev = task.rev
        /\ task'.previous = task.previous
        BY <2>1, TypesOfContext DEF Tasks, Serving
  <2> QED BY <1>0, <1>1, <2>1, <2>2, QuietStep, TypesOfContext
<1>3. CASE ~active
      BY <1>0, <1>1, <1>3, ClosesStep, TypesOfContext DEF Poll
<1> QED BY <1>2, <1>3

LEMMA ReceiveStep ==
  ASSUME SyncInv, Receive
  PROVE  SyncInv'
<1>0. /\ Serving /\ task.pc = "loop" /\ UNCHANGED <<client, sent, content, sqlite, local>>
      /\ up # <<>> /\ up' = Tail(up)
      BY DEF Receive, Serving, store
<1>1. up' \in Seq(UpFrames) /\ Range(up)' \subseteq Range(up) /\ AuthFrame \notin Range(up)'
      BY <1>0, UpTaken
<1>2. CASE Closes(1008)
      BY <1>0, <1>1, <1>2, ClosesStep, TypesOfContext
<1>3. CASE ~Closes(1008)
  <2>1. /\ \/ task' = [task EXCEPT !.pc = "snapshot", !.recv = @ + 1, !.enabled = TRUE,
                                   !.previous = <<>>]
           \/ task' = [task EXCEPT !.pc = "dispatch"]
        /\ down' = down
        BY <1>3 DEF Receive
  <2>2. /\ task' \in Tasks /\ Serving' /\ task'.send = task.send /\ task'.rev = task.rev
        /\ task'.previous = task.previous \/ task'.previous = <<>>
    <3>1. task \in Tasks
          BY TypesOfContext
    <3>2. task.recv + 1 \in Nat
          BY <3>1, TaskMoves
    <3>3. CASE task' = [task EXCEPT !.pc = "dispatch"]
          BY <3>1, <3>3 DEF Tasks, Serving
    <3>4. CASE task' = [task EXCEPT !.pc = "snapshot", !.recv = @ + 1, !.enabled = TRUE,
                                    !.previous = <<>>]
      <4> DEFINE next == task.recv + 1
      <4>1. task' = [task EXCEPT !.pc = "snapshot", !.recv = next, !.enabled = TRUE,
                                 !.previous = <<>>]
            BY <3>4
      <4>2. next \in Nat
            BY <3>2
      <4> HIDE DEF next
      <4> QED BY ONLY <3>1, <4>1, <4>2 DEF Tasks, AtMostOne, Serving
    <3> QED BY <2>1, <3>3, <3>4
  <2> QED BY <1>0, <1>1, <2>1, <2>2, QuietStep, TypesOfContext
<1> QED BY <1>2, <1>3

\* A command that asks for a snapshot.
LEMMA AnswerSnapshotStep ==
  ASSUME SyncInv, AnswerSnapshot
  PROVE  SyncInv'
<1>1. /\ Serving /\ task' = [task EXCEPT !.pc = "snapshot", !.recv = @ + 1]
      /\ UNCHANGED <<client, up, down, sent, sqlite, local>> /\ content' \in Contents
      BY TypesOfContext DEF AnswerSnapshot, Change, Serving
<1>2. /\ task' \in Tasks /\ Serving' /\ task'.send = task.send /\ task'.rev = task.rev
      /\ task'.previous = task.previous
  <2> DEFINE next == task.recv + 1
  <2>1. task \in Tasks
        BY TypesOfContext
  <2>2. task' = [task EXCEPT !.pc = "snapshot", !.recv = next] /\ next \in Nat
        BY <1>1, <2>1, TaskMoves
  <2> HIDE DEF next
  <2> QED BY ONLY <2>1, <2>2 DEF Tasks, Serving
<1>3. up' \in Seq(UpFrames) /\ Range(up)' \subseteq Range(up)
      BY <1>1, TypesOfContext
<1> QED BY <1>1, <1>2, <1>3, QuietStep, TypesOfContext

\* A command's answer.
LEMMA AnswerStep ==
  ASSUME SyncInv, Answer \/ AnswerInvalid
  PROVE  SyncInv'
<1> DEFINE received == task.recv + 1
           next == task.send + 1
           rev == task.rev
           frame == Secure(task.send, Reply)
<1>0. task \in Tasks /\ received \in Nat /\ next \in Nat /\ rev \in Nat
      BY TypesOfContext, TaskMoves
<1>1. /\ Serving /\ UNCHANGED <<client, up, sent, sqlite, local>> /\ content' \in Contents
      /\ down' = Append(down, frame)
      BY TypesOfContext DEF Answer, AnswerInvalid, Sends, Change, Serving, store
<1>2. \/ task' = [task EXCEPT !.pc = "loop", !.recv = received, !.send = next]
      \/ task' = [task EXCEPT !.pc = "loop", !.send = next]
  <2>1. CASE Answer
        BY <1>0, <2>1 DEF Answer, Sends, Tasks
  <2>2. CASE AnswerInvalid
        BY <1>0, <2>2 DEF AnswerInvalid, Sends, Tasks
  <2> QED BY <2>1, <2>2
<1> HIDE DEF received
<1>3. /\ task' \in Tasks /\ Serving' /\ task'.send = next /\ task'.rev = rev
      /\ task'.previous = task.previous
  <2> HIDE DEF next
  <2>1. CASE task' = [task EXCEPT !.pc = "loop", !.send = next]
        BY ONLY <1>0, <2>1 DEF Tasks, Serving
  <2>2. CASE task' = [task EXCEPT !.pc = "loop", !.recv = received, !.send = next]
        BY ONLY <1>0, <2>2 DEF Tasks, Serving
  <2> QED BY <1>2, <2>1, <2>2
<1>4. Reply \in Answers
      BY DEF Answers
<1>5. TaskFollows'
      BY <1>1, <1>3 DEF SyncInv, TaskFollows
<1>6. sent' \in Seq(Contents) /\ \A i \in DOMAIN sent : i \in DOMAIN sent' /\ sent'[i] = sent[i]
      BY <1>1, TypesOfContext
<1>7. content' \in Contents /\ sqlite' \in Nat /\ local' \in Nat
      BY <1>1, TypesOfContext
<1>9. PICK before \in Nat, after \in Nat : before = rev /\ after = rev
      BY <1>0
<1>10. MessageFollows(Reply, before, after)'
      BY <1>9 DEF MessageFollows
<1>11. frame = Secure(task.send, Reply) /\ task.rev = before /\ task'.rev = after
       /\ task'.send = task.send + 1
      BY <1>3, <1>9
<1> HIDE DEF Reply, next, rev, frame
<1> QED BY ONLY SyncInv, <1>1, <1>3, <1>4, <1>5, <1>6, <1>7, <1>9, <1>10, <1>11, SendingStep

\* What SnapshotDelivery makes of a snapshot follows from the one before.
LEMMA SendSnapshotStep ==
  ASSUME SyncInv, SendSnapshot
  PROVE  SyncInv'
<1>0. /\ Serving /\ UNCHANGED <<client, up, content, sqlite, local>>
      BY DEF SendSnapshot, Serving, store
<1>1. CASE active
  <2>1. PICK m \in Messages(task, content) :
          Sends([Delivered(task, content) EXCEPT !.pc = "loop"], m)
        BY <1>1 DEF SendSnapshot
  <2>2. sent' = Append(sent, content)
        BY <1>1 DEF SendSnapshot
  <2>3. PICK before \in Nat, after \in Nat :
          before = task.rev /\ after = before + 1 /\ before = Len(sent)
    <3>1. task.rev \in Nat /\ task.rev = Len(sent)
          BY <1>0, TypesOfContext DEF SyncInv, TaskFollows, Tasks
    <3>2. task.rev + 1 \in Nat
          BY <3>1
    <3> QED BY <3>1, <3>2
  <2>4. /\ sent' \in Seq(Contents) /\ Len(sent') = after /\ sent'[after] = content
        /\ \A i \in DOMAIN sent : i \in DOMAIN sent' /\ sent'[i] = sent[i]
        /\ after \in DOMAIN sent'
    <3>1. sent \in Seq(Contents) /\ content \in Contents /\ DOMAIN sent = 1..Len(sent)
          BY TypesOfContext, LenProperties
    <3>2. /\ sent' \in Seq(Contents) /\ Len(sent') = after /\ sent'[after] = content
          /\ \A i \in 1..Len(sent) : sent'[i] = sent[i]
          BY <2>2, <2>3, <3>1
    <3>3. DOMAIN sent' = 1..after
          BY <3>2, LenProperties
    <3>4. after \in 1..after /\ 1..Len(sent) \subseteq 1..after
          BY <2>3
    <3> QED BY <3>1, <3>2, <3>3, <3>4
  <2>5. /\ down' = Append(down, Secure(task.send, m))
        /\ task' = [task EXCEPT !.rev = @ + 1, !.previous = <<content>>, !.pc = "loop",
                                !.send = @ + 1]
        BY <2>1, TypesOfContext DEF Sends, Delivered, Tasks
  <2>6. /\ task' \in Tasks /\ Serving' /\ task'.send = task.send + 1 /\ task'.rev = after
        /\ task'.previous = <<content>>
    <3> DEFINE next == task.send + 1
    <3>1. task \in Tasks /\ content \in Contents
          BY TypesOfContext
    <3>2. next \in Nat /\ task' = [task EXCEPT !.rev = after, !.previous = <<content>>,
                                             !.pc = "loop", !.send = next]
          BY <2>3, <2>5, <3>1, TaskMoves
    <3>3. <<content>> \in AtMostOne
          BY <3>1 DEF AtMostOne
    <3> HIDE DEF next
    <3>4. task' \in Tasks /\ Serving' /\ task'.send = next /\ task'.rev = after
          /\ task'.previous = <<content>>
          BY ONLY <2>3, <3>1, <3>2, <3>3 DEF Tasks, Serving
    <3> QED BY <3>4 DEF next
  <2>7. TaskFollows'
        BY <2>4, <2>6 DEF TaskFollows
  <2>8. \/ m = Full(content, after)
        \/ /\ before \in DOMAIN sent
           /\ m = Delta(sent[before], content, before, after)
    <3>1. CASE m = Full(content, task.rev + 1)
          BY <2>3, <3>1
    <3>2. CASE m # Full(content, task.rev + 1)
      <4>1. PICK old \in Range(task.previous) : m = Delta(old, content, task.rev, task.rev + 1)
            BY <2>1, <3>2 DEF Messages
      <4>2. task.rev \in DOMAIN sent /\ old = sent[task.rev]
            BY <1>0, <4>1, RangeOfNone DEF SyncInv, TaskFollows
      <4> QED BY <2>3, <4>1, <4>2
    <3> QED BY <3>1, <3>2
  <2>9. m \in Answers
    <3>1. CASE m = Full(content, after)
          BY <3>1, TypesOfContext DEF Full, Answers
    <3>2. CASE before \in DOMAIN sent /\ m = Delta(sent[before], content, before, after)
      <4>1. sent[before] \in Contents
            BY <3>2, TypesOfContext, ElementOfSeq, LenProperties
      <4>2. m \in [type : {"snapshot.delta"}, base : Nat, rev : Nat, upsert : Contents,
                   remove : SUBSET Items, order : SUBSET Items]
        <5>1. Upserts(sent[before], content) \in Contents
          <6> DEFINE old == sent[before]
                     changed == {i \in DOMAIN content : i \notin DOMAIN old \/ old[i] # content[i]}
          <6>1. PICK S \in SUBSET Items : content \in [S -> Texts]
                BY TypesOfContext DEF Contents
          <6>2. changed \in SUBSET Items /\ Upserts(old, content) \in [changed -> Texts]
                BY <6>1 DEF Upserts
          <6> QED BY <6>2 DEF Contents
        <5>2. DOMAIN sent[before] \subseteq Items /\ DOMAIN content \subseteq Items
              BY <4>1, TypesOfContext DEF Contents
        <5> QED BY <3>2, <5>1, <5>2 DEF Delta
      <4> QED BY <4>2 DEF Answers
    <3> QED BY <2>8, <3>1, <3>2
  <2>10. MessageFollows(m, before, after)'
        BY <2>3, <2>4, <2>8 DEF MessageFollows
  <2> QED BY <1>0, <2>3, <2>4, <2>5, <2>6, <2>7, <2>9, <2>10, SendingStep, TypesOfContext
<1>2. CASE ~active
  <2>1. Closes(1008) /\ sent' = sent
        BY <1>2 DEF SendSnapshot
  <2>2. up' \in Seq(UpFrames) /\ Range(up)' \subseteq Range(up) /\ AuthFrame \notin Range(up)'
        BY <1>0, ServingIsLetIn, TypesOfContext
  <2> QED BY <1>0, <2>1, <2>2, ClosesStep, TypesOfContext
<1> QED BY <1>1, <1>2

\* The client's counters, after one more.
LEMMA ClientMoves ==
  ASSUME NEW c \in Clients
  PROVE  c.send \in Nat /\ c.recv \in Nat /\ c.send + 1 \in Nat /\ c.recv + 1 \in Nat
BY DEF Clients

\* The client opens a link, or leaves one.
LEMMA ConnectStep ==
  ASSUME SyncInv, Connect
  PROVE  SyncInv'
<1>1. PICK route \in Routes : client' = NewSocket(route)
      BY DEF Connect
<1>2. /\ task' = Fresh /\ up' = <<AuthFrame>> /\ down' = <<>> /\ sent' = <<>>
      /\ UNCHANGED <<content, sqlite, local>>
      BY DEF Connect, store, AuthFrame
<1>3. /\ client' \in Clients /\ ~client'.keyed /\ client'.recv = 0 /\ client'.rev = 0
      /\ client'.snapshot = <<>>
      BY <1>1, RoutesAreKnown DEF NewSocket, Clients, AtMostOne
<1> HIDE DEF AuthFrame
<1> QED BY <1>2, <1>3, LeavesStep

LEMMA LeaveStep ==
  ASSUME SyncInv, NEW code, Leave(code), UNCHANGED <<content, sqlite, local>>
  PROVE  SyncInv'
<1>1. /\ client' = [Shut EXCEPT !.route = client.route] /\ client \in Clients
      BY TypesOfContext DEF Leave
<1>2. task' = Gone /\ up' = <<>> /\ down' = <<>> /\ sent' = <<>>
      BY DEF Leave
<1>3. /\ client' \in Clients /\ ~client'.keyed /\ client'.recv = 0 /\ client'.rev = 0
      /\ client'.snapshot = <<>>
      BY <1>1 DEF Shut, NewSocket, Clients, AtMostOne
<1> QED BY <1>2, <1>3, LeavesStep

\* What the client sends is not the frame that authenticates, and it has keys by then.
LEMMA UploadsUp ==
  ASSUME SyncInv, client.keyed, NEW message \in {Request, Command},
         up' = Append(up, Secure(client.send, message))
  PROVE  up' \in Seq(UpFrames) /\ AuthFrame \notin Range(up)'
<1> DEFINE frame == Secure(client.send, message)
<1>1. frame \in UpFrames /\ frame # AuthFrame
      BY TypesOfContext DEF Secure, UpFrames, AuthFrame, Clients
<1>2. AuthFrame \notin Range(up)
      BY DEF SyncInv, BeforeAuth
<1>3. up \in Seq(UpFrames)
      BY TypesOfContext
<1> HIDE DEF frame, AuthFrame, UpFrames
<1>4. /\ Append(up, frame) \in Seq(UpFrames)
      /\ Range(Append(up, frame)) = Range(up) \cup {frame}
      BY <1>1, <1>3, RangeOfAppend
<1> QED BY <1>1, <1>2, <1>4 DEF frame

LEMMA SendCommandStep ==
  ASSUME SyncInv, SendCommand
  PROVE  SyncInv'
<1>1. /\ client.keyed /\ UNCHANGED <<task, down, sent, content, sqlite, local>>
      /\ up' = Append(up, Secure(client.send, Command))
      /\ client' = [client EXCEPT !.send = @ + 1]
      BY DEF SendCommand, Uploads, store
<1>2. up' \in Seq(UpFrames) /\ AuthFrame \notin Range(up)'
      BY <1>1, UploadsUp
<1>3. /\ client' \in Clients /\ client'.keyed /\ client'.recv = client.recv
      /\ client'.rev = client.rev /\ client'.snapshot = client.snapshot
  <2>1. client \in Clients
        BY TypesOfContext
  <2>2. PICK next \in Nat : client' = [client EXCEPT !.send = next]
        BY <1>1, <2>1, ClientMoves
  <2> QED BY ONLY <1>1, <2>1, <2>2 DEF Clients
<1>4. SyncTypes'
      BY <1>1, <1>2, <1>3, TypesOfContext DEF SyncTypes
<1>5. BeforeAuth' /\ TaskFollows' /\ ClientFollows'
      BY <1>1, <1>2, <1>3 DEF SyncInv, BeforeAuth, TaskFollows, ClientFollows, Serving
<1>6. Recorded'
      BY <1>1, <1>3, StaysRecorded DEF SyncInv, Serving
<1> QED BY <1>4, <1>5, <1>6 DEF SyncInv

\* What is at the head of the way down, and what is behind it.
LEMMA DownTaken ==
  ASSUME SyncInv, down # <<>>, down' = Tail(down)
  PROVE  /\ down' \in Seq(DownFrames) /\ Range(down)' \subseteq Range(down)
         /\ Head(down) = down[1] /\ Head(down) \in DownFrames /\ Head(down) \in Range(down)
<1>1. down \in Seq(DownFrames)
      BY TypesOfContext
<1> HIDE DEF DownFrames
<1>2. /\ Tail(down) \in Seq(DownFrames) /\ Range(Tail(down)) \subseteq Range(down)
      /\ Head(down) = down[1] /\ Head(down) \in Range(down) /\ Head(down) \in DownFrames
      BY <1>1, RangeOfTail
<1> QED BY <1>2

LEMMA AuthenticatedStep ==
  ASSUME SyncInv, OnAuthenticated
  PROVE  SyncInv'
<1>1. /\ down # <<>> /\ down' = Tail(down) /\ Head(down).type = "auth.ok"
      /\ client' = [client EXCEPT !.keyed = TRUE]
      /\ UNCHANGED <<task, up, sent, content, sqlite, local>>
      BY DEF OnAuthenticated, store
<1>2. /\ down' \in Seq(DownFrames) /\ Range(down)' \subseteq Range(down)
      /\ Head(down) \in Range(down)
      BY <1>1, DownTaken
<1>3. AuthFrame \notin Range(up)
      BY <1>1, <1>2 DEF SyncInv, BeforeAuth
<1>4. /\ client' \in Clients /\ client'.keyed /\ client'.recv = client.recv
      /\ client'.rev = client.rev /\ client'.snapshot = client.snapshot
      BY <1>1, TypesOfContext DEF Clients
<1>5. SyncTypes'
      BY <1>1, <1>2, <1>4, TypesOfContext DEF SyncTypes
<1>6. BeforeAuth' /\ TaskFollows' /\ ClientFollows'
      BY <1>1, <1>3, <1>4 DEF SyncInv, BeforeAuth, TaskFollows, ClientFollows, Serving
<1>7. Recorded'
      BY <1>1, <1>2, <1>4, StaysRecorded DEF SyncInv, Serving
<1> QED BY <1>5, <1>6, <1>7 DEF SyncInv

\* The client takes the frame that is its turn: it has then what the chronicle says.
LEMMA TakesStep ==
  ASSUME SyncInv, client.keyed, NEW g \in [Nat -> Nat], NEW n \in Nat, Chronicle(g, n),
         NEW frame \in Range(down), frame.type = "secure", frame.counter = client.recv,
         client' \in Clients, client'.keyed, client'.recv = client.recv + 1,
         client'.rev = g[client.recv + 1], ClientFollows',
         down' \in Seq(DownFrames), Range(down)' \subseteq Range(down),
         UNCHANGED <<task, sent, content, sqlite, local>>,
         up' \in Seq(UpFrames), AuthFrame \notin Range(up)'
  PROVE  SyncInv'
<1>1. SyncTypes'
      BY TypesOfContext DEF SyncTypes
<1>2. BeforeAuth' /\ TaskFollows'
      BY DEF SyncInv, BeforeAuth, TaskFollows, Serving
<1>3. \A k, was, is : MessageFollows(k, was, is) => MessageFollows(k, was, is)'
      BY DEF MessageFollows
<1>4. client.recv \in Nat /\ client.recv < n
      BY TypesOfContext DEF Chronicle, Clients
<1>5. client'.recv <= n
  <2>1. client.recv + 1 <= n
        BY ONLY <1>4, n \in Nat
  <2>2. client'.recv = client.recv + 1
        OBVIOUS
  <2> QED BY ONLY <2>1, <2>2
<1>6. Chronicle(g, n)'
      BY <1>3, <1>5 DEF Chronicle, Serving
<1>7. Recorded'
      BY <1>6 DEF Recorded
<1> QED BY <1>1, <1>2, <1>7 DEF SyncInv

LEMMA FrameStep ==
  ASSUME SyncInv, OnFrame
  PROVE  SyncInv'
<1> DEFINE frame == Head(down)
           message == frame.message
<1>1. down # <<>> /\ frame.type = "secure" /\ UNCHANGED <<content, sqlite, local>>
      BY DEF OnFrame, store
<1>2. CASE client.keyed /\ frame.counter # client.recv
  <2>1. Leave(1005)
        BY <1>2 DEF OnFrame
  <2> QED BY <1>1, <2>1, LeaveStep
<1>3. CASE ~client.keyed
  <2>1. down' = Tail(down) /\ UNCHANGED <<task, sent, client, up>>
        BY <1>3 DEF OnFrame
  <2>2. down' \in Seq(DownFrames) /\ Range(down)' \subseteq Range(down)
        BY <1>1, <2>1, DownTaken
  <2>3. SyncTypes'
        BY <1>1, <2>1, <2>2, TypesOfContext DEF SyncTypes
  <2>4. BeforeAuth' /\ TaskFollows' /\ ClientFollows'
        BY <2>1, <2>2 DEF SyncInv, BeforeAuth, TaskFollows, ClientFollows, Serving
  <2>5. Recorded'
        BY <2>1, <2>2, StaysRecorded DEF SyncInv, Serving
  <2> QED BY <2>3, <2>4, <2>5 DEF SyncInv
<1>4. CASE client.keyed /\ frame.counter = client.recv
  <2>1. down' = Tail(down) /\ UNCHANGED <<task, sent>>
        BY <1>4 DEF OnFrame
  <2>2. /\ down' \in Seq(DownFrames) /\ Range(down)' \subseteq Range(down)
        /\ frame = down[1] /\ frame \in DownFrames /\ frame \in Range(down)
        BY <1>1, <2>1, DownTaken
  <2>3. PICK g \in [Nat -> Nat], n \in Nat : Chronicle(g, n)
        BY DEF SyncInv, Recorded
  <2>4. PICK before \in Nat, after \in Nat :
          before = g[client.recv] /\ after = g[client.recv + 1]
    <3>1. client.recv \in Nat /\ client.recv + 1 \in Nat
          BY TypesOfContext, ClientMoves
    <3> QED BY <3>1
  <2>5. MessageFollows(message, before, after) /\ client.rev = before
        BY <1>1, <1>4, <2>2, <2>3, <2>4 DEF Chronicle
  <2>6. AuthFrame \notin Range(up) /\ up \in Seq(UpFrames)
        BY <1>4, TypesOfContext DEF SyncInv, BeforeAuth
  <2>7. PICK received \in Nat : received = client.recv + 1 /\ client \in Clients
        BY TypesOfContext, ClientMoves
  <2>11. \/ /\ message = Reply
            /\ client' = [client EXCEPT !.recv = @ + 1]
            /\ UNCHANGED up
         \/ /\ message.type = "session.snapshot"
            /\ IF client.negotiated
               THEN client' = Replaced(client, message) /\ UNCHANGED up
               ELSE Uploads(Replaced(client, message), Request)
         \/ /\ message.type = "snapshot.delta"
            /\ IF Fits(client, message)
               THEN client' = Updated(client, message) /\ UNCHANGED up
               ELSE Uploads([client EXCEPT !.recv = @ + 1], Request)
        BY <1>4 DEF OnFrame
  <2> HIDE DEF frame, message
  <2>8. CASE message = Reply
    <3>1. client' = [client EXCEPT !.recv = received] /\ up' = up
          BY <2>7, <2>8, <2>11 DEF Reply
    <3>2. after = before
          BY <2>5, <2>8 DEF MessageFollows, Reply, Full, Delta
    <3>3. /\ client' \in Clients /\ client'.keyed /\ client'.recv = received
          /\ client'.rev = client.rev /\ client'.snapshot = client.snapshot
          BY <1>4, <2>7, <3>1 DEF Clients
    <3>4. ClientFollows'
          BY <2>1, <3>3 DEF SyncInv, ClientFollows
    <3>5. client'.recv = client.recv + 1 /\ client'.rev = g[client.recv + 1]
          BY <2>4, <2>5, <2>7, <3>2, <3>3
    <3> QED BY <1>1, <1>4, <2>1, <2>2, <2>3, <2>6, <3>1, <3>3, <3>4, <3>5, TakesStep
  <2>9. CASE after \in DOMAIN sent /\ message = Full(sent[after], after)
    <3>1. sent[after] \in Contents
          BY <2>9, ElementOfSeq, LenProperties, TypesOfContext
    <3>2. /\ message.type = "session.snapshot" /\ message.content = sent[after]
          /\ message.rev = after
          BY <2>9 DEF Full
    <3>3. \/ client' = Replaced(client, message) /\ UNCHANGED up
          \/ Uploads(Replaced(client, message), Request)
          BY <2>11, <3>2 DEF Reply
    <3>4. \E send \in Nat :
            client' = [client EXCEPT !.recv = received, !.snapshot = <<sent[after]>>,
                                     !.rev = after, !.negotiated = TRUE, !.send = send]
      <4>1. client.send \in Nat /\ client.send + 1 \in Nat
            BY <2>7, ClientMoves
      <4>2. CASE client' = Replaced(client, message)
        <5>1. client' = [client EXCEPT !.recv = received, !.snapshot = <<sent[after]>>,
                                       !.rev = after, !.negotiated = TRUE, !.send = client.send]
              BY <2>7, <3>2, <4>2 DEF Replaced, Clients
        <5> QED BY <4>1, <5>1
      <4>3. CASE Uploads(Replaced(client, message), Request)
        <5>1. client' = [client EXCEPT !.recv = received, !.snapshot = <<sent[after]>>,
                                       !.rev = after, !.negotiated = TRUE,
                                       !.send = client.send + 1]
              BY <2>7, <3>2, <4>3 DEF Replaced, Uploads, Clients
        <5> QED BY <4>1, <5>1
      <4> QED BY <3>3, <4>2, <4>3
    <3>5. /\ client' \in Clients /\ client'.keyed /\ client'.recv = received
          /\ client'.rev = after /\ client'.snapshot = <<sent[after]>>
      <4> DEFINE shot == <<sent[after]>>
      <4>1. shot \in AtMostOne
            BY <3>1 DEF AtMostOne
      <4>2. PICK send \in Nat :
              client' = [client EXCEPT !.recv = received, !.snapshot = shot,
                                       !.rev = after, !.negotiated = TRUE, !.send = send]
            BY <3>4
      <4>3. client \in Clients /\ client.keyed /\ received \in Nat /\ after \in Nat
            BY <1>4, <2>7
      <4> HIDE DEF shot
      <4>4. client' \in Clients
            BY ONLY <4>1, <4>2, <4>3, send \in Nat DEF Clients
      <4>5. /\ client'.keyed /\ client'.recv = received
            /\ client'.rev = after /\ client'.snapshot = shot
            BY ONLY <4>2, <4>3 DEF Clients
      <4> QED BY <4>4, <4>5 DEF shot
    <3>6. ClientFollows'
          BY <2>1, <2>9, <3>5 DEF ClientFollows
    <3>7. up' \in Seq(UpFrames) /\ AuthFrame \notin Range(up)'
      <4>1. CASE UNCHANGED up
            BY <2>6, <4>1
      <4>2. CASE Uploads(Replaced(client, message), Request)
        <5>1. up' = Append(up, Secure(client.send, Request))
              BY <2>7, <4>2 DEF Uploads, Replaced, Clients
        <5> QED BY <1>4, <5>1, UploadsUp
      <4> QED BY <3>3, <4>1, <4>2
    <3>8. client'.recv = client.recv + 1 /\ client'.rev = g[client.recv + 1]
          BY <2>4, <2>7, <3>5
    <3> QED BY <1>1, <1>4, <2>1, <2>2, <2>3, <3>5, <3>6, <3>7, <3>8, TakesStep
  <2>10. CASE /\ after \in DOMAIN sent /\ before \in DOMAIN sent
              /\ message = Delta(sent[before], sent[after], before, after)
    <3>1. sent[after] \in Contents /\ sent[before] \in Contents
          BY <2>10, ElementOfSeq, LenProperties, TypesOfContext
    <3>2. message.type = "snapshot.delta" /\ message.rev = after
          BY <2>10 DEF Delta
    <3>3. Fits(client, message)
      <4>1. 1 \in DOMAIN down
        <5>1. down \in Seq(DownFrames) /\ down # <<>>
              BY <1>1, TypesOfContext
        <5> QED BY <5>1, EmptySeq, LenProperties
      <4> QED BY <1>1, <1>4, <2>2, <3>2, <4>1, SyncIsEnough
              DEF ReplicaFollows, DeltaFits, message
    <3>4. client' = Updated(client, message) /\ up' = up
          BY <2>11, <3>2, <3>3 DEF Reply
    <3>5. client.snapshot = <<sent[before]>>
      <4>1. before # 0
            BY <2>10, FirstIsOne, TypesOfContext
      <4> QED BY <2>5, <4>1 DEF SyncInv, ClientFollows
    <3>6. Patched(client.snapshot[1], message) = sent[after]
          BY <2>10, <3>1, <3>5, PatchedIsNew
    <3>7. client' = [client EXCEPT !.recv = received, !.snapshot = <<sent[after]>>, !.rev = after]
          BY <2>7, <3>2, <3>4, <3>6 DEF Updated
    <3>8. /\ client' \in Clients /\ client'.keyed /\ client'.recv = received
          /\ client'.rev = after /\ client'.snapshot = <<sent[after]>>
          BY <1>4, <2>7, <3>1, <3>7 DEF Clients, AtMostOne
    <3>9. ClientFollows'
          BY <2>1, <2>10, <3>8 DEF ClientFollows
    <3>10. client'.recv = client.recv + 1 /\ client'.rev = g[client.recv + 1]
          BY <2>4, <2>7, <3>8
    <3> QED BY <1>1, <1>4, <2>1, <2>2, <2>3, <2>6, <3>4, <3>8, <3>9, <3>10, TakesStep
  <2> QED BY <2>5, <2>8, <2>9, <2>10 DEF MessageFollows
<1> QED BY <1>2, <1>3, <1>4

\* What the relay loses needs no agreement any more.
LEMMA LosesStep ==
  ASSUME SyncInv, LoseFrame
  PROVE  SyncInv'
<1>1. UNCHANGED <<task, client, sent, content, sqlite, local>>
      BY DEF LoseFrame, store
<1>2. /\ up' \in Seq(UpFrames) /\ Range(up)' \subseteq Range(up)
      /\ down' \in Seq(DownFrames) /\ Range(down)' \subseteq Range(down)
      /\ AuthFrame \in Range(up)' => up' = <<AuthFrame>>
  <2>0. up \in Seq(UpFrames) /\ down \in Seq(DownFrames)
        BY TypesOfContext
  <2>1. AuthFrame \in Range(up) => up = <<AuthFrame>> /\ Len(up) = 1
        BY DEF SyncInv, BeforeAuth
  <2> HIDE DEF UpFrames, DownFrames, AuthFrame
  <2>2. ASSUME NEW i \in DOMAIN up, up' = RemoveAt(up, i), down' = down
        PROVE  /\ up' \in Seq(UpFrames) /\ Range(up)' \subseteq Range(up)
               /\ down' \in Seq(DownFrames) /\ Range(down)' \subseteq Range(down)
               /\ AuthFrame \in Range(up)' => up' = <<AuthFrame>>
    <3>1. /\ RemoveAt(up, i) \in Seq(UpFrames) /\ Range(RemoveAt(up, i)) \subseteq Range(up)
          /\ Len(up) = 1 => Range(RemoveAt(up, i)) = {}
          BY <2>0, <2>2, RangeOfRemoval
    <3> QED BY <2>0, <2>1, <2>2, <3>1
  <2>3. ASSUME NEW i \in DOMAIN down, down' = RemoveAt(down, i), up' = up
        PROVE  /\ up' \in Seq(UpFrames) /\ Range(up)' \subseteq Range(up)
               /\ down' \in Seq(DownFrames) /\ Range(down)' \subseteq Range(down)
               /\ AuthFrame \in Range(up)' => up' = <<AuthFrame>>
    <3>1. /\ RemoveAt(down, i) \in Seq(DownFrames)
          /\ Range(RemoveAt(down, i)) \subseteq Range(down)
          BY <2>0, <2>3, RangeOfRemoval
    <3> QED BY <2>0, <2>1, <2>3, <3>1
  <2> QED BY <2>2, <2>3 DEF LoseFrame
<1>3. SyncTypes'
      BY <1>1, <1>2, TypesOfContext DEF SyncTypes
<1>4. BeforeAuth' /\ TaskFollows' /\ ClientFollows'
      BY <1>1, <1>2 DEF SyncInv, BeforeAuth, TaskFollows, ClientFollows, Serving
<1>5. Recorded'
      BY <1>1, <1>2, StaysRecorded DEF SyncInv, Serving
<1> QED BY <1>3, <1>4, <1>5 DEF SyncInv

\* A new socket of the Mac knows nothing of the link.
LEMMA ReplacedStep ==
  ASSUME SyncInv, RelayReplaced
  PROVE  SyncInv'
<1>1. task' = Fresh /\ UNCHANGED <<client, up, down, sent, content, sqlite, local>>
      BY DEF RelayReplaced, store
<1>2. task' \in Tasks /\ task'.pc = "auth" /\ ~Serving'
      BY <1>1 DEF Fresh, Tasks, AtMostOne, Serving
<1>3. SyncTypes'
      BY <1>1, <1>2, TypesOfContext DEF SyncTypes
<1>4. BeforeAuth' /\ TaskFollows' /\ ClientFollows'
      BY <1>1, <1>2 DEF SyncInv, BeforeAuth, TaskFollows, ClientFollows
<1>5. Recorded'
      BY <1>1, <1>2, StaysRecorded DEF SyncInv
<1> QED BY <1>3, <1>4, <1>5 DEF SyncInv

-----------------------------------------------------------------------------
(* 5. The whole. *)

\* At first there is no link.
LEMMA SyncInitially == Init => SyncInv
<1> SUFFICES ASSUME Init PROVE SyncInv
    OBVIOUS
<1>1. /\ content \in Contents /\ sqlite = 0 /\ local = 0 /\ task = Gone /\ client = Shut
      /\ up = <<>> /\ down = <<>> /\ sent = <<>>
      BY DEF Init
<1>2. task \in Tasks /\ task.pc = "gone" /\ ~Serving
      BY <1>1 DEF Gone, Fresh, Tasks, AtMostOne, Serving
<1>3. /\ client \in Clients /\ ~client.keyed /\ client.recv = 0 /\ client.rev = 0
      /\ client.snapshot = <<>>
      BY <1>1 DEF Shut, NewSocket, Clients, AtMostOne
<1>4. SyncTypes
      BY <1>1, <1>2, <1>3, EmptySeq DEF SyncTypes
<1>5. Range(up) = {} /\ Range(down) = {}
      BY <1>1, RangeOfNone
<1>6. BeforeAuth /\ TaskFollows /\ ClientFollows
      BY <1>2, <1>3, <1>5 DEF BeforeAuth, TaskFollows, ClientFollows
<1>7. Recorded
  <2> DEFINE g == [i \in Nat |-> 0]
  <2>1. g \in [Nat -> Nat] /\ g[0] = 0 /\ 0 \in Nat /\ 0 <= 0
        OBVIOUS
  <2> HIDE DEF g
  <2>2. Chronicle(g, 0)
        BY <1>2, <1>3, <1>5, <2>1 DEF Chronicle
  <2> QED BY <2>1, <2>2 DEF Recorded
<1> QED BY <1>4, <1>6, <1>7 DEF SyncInv

\* Every step of the store, the task, the client and the link keeps it.
LEMMA SyncStep == SyncInv /\ [Next]_vars => SyncInv'
<1> SUFFICES ASSUME SyncInv, [Next]_vars PROVE SyncInv'
    OBVIOUS
<1>1. CASE StoreNext
      BY <1>1, StoreStep
<1>2. CASE TaskNext
      BY <1>2, AuthenticateStep, LooksStep, SendSnapshotStep, PollStep, ReceiveStep,
         AnswerStep, AnswerSnapshotStep DEF TaskNext
<1>3. CASE OnClose \/ Break
  <2>1. PICK code : Leave(code)
        BY <1>3 DEF OnClose, Break
  <2>2. UNCHANGED <<content, sqlite, local>>
        BY <1>3 DEF OnClose, Break, store
  <2> QED BY <2>1, <2>2, LeaveStep
<1>4. CASE ClientNext
      BY <1>3, <1>4, ConnectStep, SendCommandStep, AuthenticatedStep, FrameStep DEF ClientNext
<1>5. CASE LinkNext
      BY <1>3, <1>5, LosesStep, ReplacedStep DEF LinkNext
<1>6. CASE UNCHANGED vars
  <2>1. UNCHANGED <<task, client, up, down, sent, content, sqlite, local>>
        BY <1>6 DEF vars
  <2>2. SyncTypes'
        BY <2>1, TypesOfContext DEF SyncTypes
  <2>3. BeforeAuth' /\ TaskFollows' /\ ClientFollows'
        BY <2>1 DEF SyncInv, BeforeAuth, TaskFollows, ClientFollows, Serving
  <2>4. Recorded'
        BY <2>1, StaysRecorded DEF SyncInv, Serving
  <2> QED BY <2>2, <2>3, <2>4 DEF SyncInv
<1> QED BY <1>1, <1>2, <1>4, <1>5, <1>6 DEF Next

\* What the client shows is a snapshot that the bridge took, whatever was lost, and a
\* delta that arrives in its turn fits it (snapshotReplica.ts:24-41,
\* snapshot_sync.rs:17-34): no check but that of the frames' counters is needed.
THEOREM ReplicaStaysTrue == Spec => []ReplicaFollows
BY SyncInitially, SyncStep, SyncIsEnough, PTL DEF Spec
=============================================================================
