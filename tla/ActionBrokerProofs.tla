------------------------- MODULE ActionBrokerProofs -------------------------
(* Proofs about ActionBroker, for every set of requests, submissions and    *)
(* connections and every value of the bounds.                               *)
(*                                                                          *)
(* The safety properties are not inductive: that an agent is told its own   *)
(* decision rests on who may hold a resolver at each stage of a handler, on *)
(* what the holder knows of the row, and on how the channel, the row and    *)
(* the stored results agree. IInv says so; section 1 states it, section 2   *)
(* has a lemma per action, section 3 the theorems.                          *)
EXTENDS ActionBroker, TLAPS

-----------------------------------------------------------------------------
(* 1. The inductive invariant.                                              *)

\* A handler that has not put its resolver in the map yet.
Early == {"idle", "policy", "stored"}

\* What is still untouched while the handler of r is early, and what a
\* resolver in the map says of its row, its channel and its timer.
StageOf(r) ==
    /\ row[r] = "absent" <=> up[r] = "idle"
    /\ up[r] \in Early =>
          /\ row[r] \in {"absent", "pending"} /\ sent[r] = "nothing"
          /\ r \notin resolvers /\ r \notin tracked
          /\ r \notin leaving /\ r \notin expiring /\ r \notin overdue
    /\ up[r] = "policy" => r \in Safe
    /\ up[r] = "stored" => r \notin Safe /\ timer[r] = "armed"
    /\ r \in Safe => r \notin resolvers /\ timer[r] = "off"
    /\ timer[r] = "expiring" => r \in overdue
    /\ r \in resolvers =>
          /\ timer[r] = "armed" /\ sent[r] = "nothing" /\ row[r] # "resolved"

\* The request that the connection decides; whether it holds the resolver.
About(c) == Target[key[c]]
Owns(c) == pc[c] \in {"resolve", "send"}

\* What a connection knows at each label of its decide.
HolderOf(c) ==
    /\ pc[c] \in {"take", "resolve", "send", "error"} => key[c] \in Acceptable
    /\ pc[c] # "idle" => row[About(c)] # "absent"
    /\ pc[c] \in {"expire", "expire_row"} => About(c) \in overdue
    /\ pc[c] \in {"expire", "expire_row", "resolve", "send", "error"} =>
          up[About(c)] \notin Early
    /\ Owns(c) =>
          /\ About(c) \notin resolvers /\ About(c) \notin Safe
          /\ sent[About(c)] = "nothing"
    /\ pc[c] = "resolve" => row[About(c)] # "resolved"
    /\ pc[c] = "send" => row[About(c)] = "resolved" /\ winner[About(c)] = key[c]

\* A resolver is removed by one task only.
Apart(c, d) == c # d /\ Owns(c) /\ Owns(d) => About(c) # About(d)

\* How the row, the channel and the answer of a request agree.
RecordOf(r) ==
    /\ row[r] = "resolved" <=> winner[r] # "nothing"
    /\ winner[r] = "policy" => r \in Safe
    /\ winner[r] \in Keys => winner[r] \in Acceptable /\ Target[winner[r]] = r
    /\ sent[r] \notin {"nothing", "cancel"} =>
          row[r] = "resolved" /\ winner[r] = sent[r]
    /\ sent[r] = "cancel" => row[r] # "resolved"
    /\ answer[r] # "nothing" => answer[r] = sent[r] /\ up[r] = "answered"

\* Only the winner of a request is stored or told as accepted.
ResultOf(k) ==
    results[k] = "accepted" \/ "accepted" \in replied[k] => winner[Target[k]] = k

\* A handler past its registration has an owner for its answer.
WatchedOf(r) ==
    up[r] \in {"ticket", "waiting"} /\ sent[r] = "nothing" =>
        r \in resolvers \/ \E c \in Conns : Owns(c) /\ About(c) = r

\* An open row has somebody to settle it.
OwnedOf(r) ==
    r \notin Safe /\ row[r] = "pending" =>
        \/ timer[r] \in {"armed", "expiring"}
        \/ r \in expiring
        \/ \E c \in Conns : pc[c] \in {"resolve", "error", "expire_row"} /\ About(c) = r

IInv == /\ TypeOK
        /\ \A r \in Requests : StageOf(r) /\ RecordOf(r) /\ WatchedOf(r) /\ OwnedOf(r)
        /\ \A c \in Conns : HolderOf(c)
        /\ \A c, d \in Conns : Apart(c, d)
        /\ \A k \in Keys : ResultOf(k)

-----------------------------------------------------------------------------
(* 2. Every action preserves it.                                            *)

\* A connection that is not idle decides a request.
LEMMA AboutType ==
    ASSUME TypeOK, NEW c \in Conns, pc[c] # "idle"
    PROVE  key[c] \in Keys /\ About(c) \in Requests
<1>1. key[c] \in Keys
  BY DEF TypeOK
<1> QED BY <1>1, TargetsAreRequests DEF About

\* What the removal of r's resolver does; without a resolver it does nothing.
LEMMA DeclineFacts ==
    ASSUME TypeOK, NEW r \in Requests, TakeAndDecline(r)
    PROVE  /\ resolvers' = resolvers \ {r}
           /\ timer' \in [Requests -> {"off", "armed", "expiring"}]
           /\ sent' \in [Requests -> Deciders \cup {"nothing", "cancel"}]
           /\ \A q \in Requests : q # r => timer'[q] = timer[q] /\ sent'[q] = sent[q]
           /\ timer'[r] = timer[r] \/ (timer[r] = "armed" /\ timer'[r] = "off")
           /\ r \notin resolvers => timer'[r] = timer[r] /\ sent'[r] = sent[r]
           /\ r \in resolvers /\ Listening(r) => sent'[r] = "cancel"
           /\ sent'[r] \in {sent[r], "cancel"}
<1>a. timer \in [Requests -> {"off", "armed", "expiring"}]
  BY DEF TypeOK
<1>b. sent \in [Requests -> Deciders \cup {"nothing", "cancel"}]
  BY DEF TypeOK
<1>1. CASE r \in resolvers
  <2>1. resolvers' = resolvers \ {r} /\ Abort(r) /\ Send(r, "cancel")
    BY <1>1 DEF TakeAndDecline
  <2>2. PICK late \in BOOLEAN : timer' = [timer EXCEPT ![r] =
            IF timer[r] = "armed" /\ ~late THEN "off" ELSE timer[r]]
    BY <2>1 DEF Abort
  <2>3. sent' = [sent EXCEPT ![r] = IF Listening(r) THEN "cancel" ELSE sent[r]]
    BY <2>1 DEF Send
  <2>4. /\ timer' \in [Requests -> {"off", "armed", "expiring"}]
        /\ \A q \in Requests : q # r => timer'[q] = timer[q]
        /\ timer'[r] = timer[r] \/ (timer[r] = "armed" /\ timer'[r] = "off")
    <3>1. CASE timer[r] = "armed" /\ ~late
      <4>1. timer' = [timer EXCEPT ![r] = "off"]
        BY <2>2, <3>1
      <4> QED BY <1>a, <3>1, <4>1
    <3>2. CASE ~(timer[r] = "armed" /\ ~late)
      <4>1. timer' = [timer EXCEPT ![r] = timer[r]]
        BY <2>2, <3>2
      <4>2. timer' = timer
        BY <1>a, <4>1
      <4> QED BY <1>a, <4>2
    <3> QED BY <3>1, <3>2
  <2>5. /\ sent' \in [Requests -> Deciders \cup {"nothing", "cancel"}]
        /\ \A q \in Requests : q # r => sent'[q] = sent[q]
        /\ sent'[r] = IF Listening(r) THEN "cancel" ELSE sent[r]
    BY <1>b, <2>3
  <2> QED BY <1>1, <2>1, <2>4, <2>5
<1>2. CASE r \notin resolvers
  <2>1. resolvers' = resolvers /\ timer' = timer /\ sent' = sent
    BY <1>2 DEF TakeAndDecline, broker
  <2>2. resolvers' = resolvers \ {r}
    BY <1>2, <2>1
  <2> QED BY <1>a, <1>b, <1>2, <2>1, <2>2
<1> QED BY <1>1, <1>2

LEMMA InitInv == Init => IInv
<1> SUFFICES ASSUME Init PROVE IInv
  OBVIOUS
<1> USE DEF Init
<1>1. TypeOK
  <2>1. sends \in [Keys -> 0..MaxSends] /\ restarts \in 0..MaxRestarts
    BY BoundsAreNumbers
  <2>2. winner \in [Requests -> Deciders \cup {"nothing"}]
    OBVIOUS
  <2>3. /\ sent \in [Requests -> Deciders \cup {"nothing", "cancel"}]
        /\ answer \in [Requests -> Deciders \cup {"nothing", "cancel"}]
    OBVIOUS
  <2>4. \A c \in Conns : pc[c] = "idle" <=> key[c] = "nothing"
    OBVIOUS
  <2> QED BY <2>1, <2>2, <2>3, <2>4 DEF TypeOK, RowStates, Stages, Labels
<1>2. ASSUME NEW r \in Requests
      PROVE  StageOf(r) /\ RecordOf(r) /\ WatchedOf(r) /\ OwnedOf(r)
  BY <1>2, KeysAreNotWords DEF StageOf, RecordOf, WatchedOf, OwnedOf, Early
<1>3. ASSUME NEW c \in Conns PROVE HolderOf(c)
  BY <1>3 DEF HolderOf, Owns
<1>4. ASSUME NEW c \in Conns, NEW d \in Conns PROVE Apart(c, d)
  BY <1>4 DEF Apart, Owns
<1>5. ASSUME NEW k \in Keys PROVE ResultOf(k)
  BY <1>5 DEF ResultOf
<1> QED BY <1>1, <1>2, <1>3, <1>4, <1>5 DEF IInv

LEMMA CreatePendingInv ==
    ASSUME IInv, NEW r \in Requests, CreatePending(r)
    PROVE  IInv'
<1>0. TypeOK
  BY DEF IInv
<1>a. StageOf(r) /\ RecordOf(r) /\ WatchedOf(r) /\ OwnedOf(r)
  BY DEF IInv
<1>1. TypeOK'
  BY <1>0, <1>a, BoundsAreNumbers DEF TypeOK, CreatePending, MayArrive, devices, world,
    RowStates, Stages, Labels, Deciders, Requests
<1>2. ASSUME NEW q \in Requests PROVE StageOf(q)'
  <2>1. StageOf(q)
    BY DEF IInv
  <2> QED BY <1>0, <1>a, <2>1, HooksAreNotAsks DEF TypeOK, CreatePending, MayArrive, devices,
    world, StageOf, Early, HolderOf, Owns, Requests, About
<1>3. ASSUME NEW q \in Requests PROVE RecordOf(q)'
  <2>1. RecordOf(q) /\ StageOf(q)
    BY DEF IInv
  <2> QED BY <1>0, <1>a, <2>1, KeysAreNotWords, AcceptableAreKeys DEF TypeOK, CreatePending,
    MayArrive, devices, world, RecordOf, StageOf, Early, HolderOf, Owns, Deciders, About
<1>4. ASSUME NEW q \in Requests PROVE WatchedOf(q)'
  <2>1. WatchedOf(q) /\ StageOf(q)
    BY DEF IInv
  <2> QED BY <1>0, <1>a, <2>1, KeysAreNotWords, AcceptableAreKeys DEF TypeOK, CreatePending,
    MayArrive, devices, world, WatchedOf, StageOf, Early, HolderOf, Owns, About
<1>5. ASSUME NEW q \in Requests PROVE OwnedOf(q)'
  <2>1. OwnedOf(q) /\ StageOf(q)
    BY DEF IInv
  <2> QED BY <1>0, <1>a, <2>1 DEF TypeOK, CreatePending, MayArrive, devices, world, OwnedOf,
    StageOf, Early, About
<1>6. ASSUME NEW e \in Conns PROVE HolderOf(e)'
  <2>1. HolderOf(e)
    BY DEF IInv
  <2>3. CASE pc[e] = "idle"
    BY <1>0, <1>a, <2>3 DEF TypeOK, CreatePending, MayArrive, devices, world, HolderOf, Owns
  <2>4. CASE pc[e] # "idle"
    <3>1. About(e) \in Requests
      BY <1>0, <2>4, AboutType
    <3>2. StageOf(About(e)) /\ RecordOf(About(e))
      BY <3>1 DEF IInv
    <3> QED BY <1>0, <1>a, <2>1, <2>4, <3>1, <3>2, KeysAreNotWords DEF TypeOK, CreatePending,
      MayArrive, devices, world, HolderOf, StageOf, RecordOf, Early, Owns, About
  <2> QED BY <2>3, <2>4
<1>7. ASSUME NEW e \in Conns, NEW f \in Conns PROVE Apart(e, f)'
  <2>1. Apart(e, f)
    BY DEF IInv
  <2> QED BY <2>1 DEF Apart, Owns, About, CreatePending, MayArrive, devices, world
<1>8. ASSUME NEW j \in Keys PROVE ResultOf(j)'
  <2>1. Target[j] \in Requests
    BY TargetsAreRequests
  <2>2. ResultOf(j) /\ RecordOf(Target[j]) /\ StageOf(Target[j])
    BY <2>1 DEF IInv
  <2> QED BY <1>0, <1>a, <2>1, <2>2, KeysAreNotWords DEF TypeOK, CreatePending, MayArrive,
    devices, world, ResultOf, RecordOf, StageOf, Early, HolderOf, Owns, About
<1> QED BY <1>1, <1>2, <1>3, <1>4, <1>5, <1>6, <1>7, <1>8 DEF IInv

LEMMA PolicyPendingInv ==
    ASSUME IInv, NEW r \in Requests, PolicyPending(r)
    PROVE  IInv'
<1>0. TypeOK
  BY DEF IInv
<1>a. StageOf(r) /\ RecordOf(r) /\ WatchedOf(r) /\ OwnedOf(r)
  BY DEF IInv
<1>1. TypeOK'
  BY <1>0, <1>a, BoundsAreNumbers DEF TypeOK, PolicyPending, MayArrive, broker, devices,
    world, RowStates, Stages, Labels, Deciders, Requests
<1>2. ASSUME NEW q \in Requests PROVE StageOf(q)'
  <2>1. StageOf(q)
    BY DEF IInv
  <2> QED BY <1>0, <1>a, <2>1, HooksAreNotAsks DEF TypeOK, PolicyPending, MayArrive, broker,
    devices, world, StageOf, Early, HolderOf, Owns, Requests, About
<1>3. ASSUME NEW q \in Requests PROVE RecordOf(q)'
  <2>1. RecordOf(q) /\ StageOf(q)
    BY DEF IInv
  <2> QED BY <1>0, <1>a, <2>1, KeysAreNotWords, AcceptableAreKeys DEF TypeOK, PolicyPending,
    MayArrive, broker, devices, world, RecordOf, StageOf, Early, HolderOf, Owns, Deciders, About
<1>4. ASSUME NEW q \in Requests PROVE WatchedOf(q)'
  <2>1. WatchedOf(q) /\ StageOf(q)
    BY DEF IInv
  <2> QED BY <1>0, <1>a, <2>1, KeysAreNotWords, AcceptableAreKeys DEF TypeOK, PolicyPending,
    MayArrive, broker, devices, world, WatchedOf, StageOf, Early, HolderOf, Owns, About
<1>5. ASSUME NEW q \in Requests PROVE OwnedOf(q)'
  <2>1. OwnedOf(q) /\ StageOf(q)
    BY DEF IInv
  <2> QED BY <1>0, <1>a, <2>1 DEF TypeOK, PolicyPending, MayArrive, broker, devices, world,
    OwnedOf, StageOf, Early, About
<1>6. ASSUME NEW e \in Conns PROVE HolderOf(e)'
  <2>1. HolderOf(e)
    BY DEF IInv
  <2>3. CASE pc[e] = "idle"
    BY <1>0, <1>a, <2>3 DEF TypeOK, PolicyPending, MayArrive, broker, devices, world,
      HolderOf, Owns
  <2>4. CASE pc[e] # "idle"
    <3>1. About(e) \in Requests
      BY <1>0, <2>4, AboutType
    <3>2. StageOf(About(e)) /\ RecordOf(About(e))
      BY <3>1 DEF IInv
    <3> QED BY <1>0, <1>a, <2>1, <2>4, <3>1, <3>2, KeysAreNotWords DEF TypeOK, PolicyPending,
      MayArrive, broker, devices, world, HolderOf, StageOf, RecordOf, Early, Owns, About
  <2> QED BY <2>3, <2>4
<1>7. ASSUME NEW e \in Conns, NEW f \in Conns PROVE Apart(e, f)'
  <2>1. Apart(e, f)
    BY DEF IInv
  <2> QED BY <2>1 DEF Apart, Owns, About, PolicyPending, MayArrive, broker, devices, world
<1>8. ASSUME NEW j \in Keys PROVE ResultOf(j)'
  <2>1. Target[j] \in Requests
    BY TargetsAreRequests
  <2>2. ResultOf(j) /\ RecordOf(Target[j]) /\ StageOf(Target[j])
    BY <2>1 DEF IInv
  <2> QED BY <1>0, <1>a, <2>1, <2>2, KeysAreNotWords DEF TypeOK, PolicyPending, MayArrive,
    broker, devices, world, ResultOf, RecordOf, StageOf, Early, HolderOf, Owns, About
<1> QED BY <1>1, <1>2, <1>3, <1>4, <1>5, <1>6, <1>7, <1>8 DEF IInv

LEMMA PolicyResolveInv ==
    ASSUME IInv, NEW r \in Requests, PolicyResolve(r)
    PROVE  IInv'
<1>0. TypeOK
  BY DEF IInv
<1>a. StageOf(r) /\ RecordOf(r) /\ WatchedOf(r) /\ OwnedOf(r)
  BY DEF IInv
<1>1. TypeOK'
  BY <1>0, <1>a, BoundsAreNumbers DEF TypeOK, PolicyResolve, devices, world, RowStates,
    Stages, Labels, Deciders, Requests
<1>2. ASSUME NEW q \in Requests PROVE StageOf(q)'
  <2>1. StageOf(q)
    BY DEF IInv
  <2> QED BY <1>0, <1>a, <2>1, HooksAreNotAsks DEF TypeOK, PolicyResolve, devices, world,
    StageOf, Early, HolderOf, Owns, Requests, About
<1>3. ASSUME NEW q \in Requests PROVE RecordOf(q)'
  <2>1. RecordOf(q) /\ StageOf(q)
    BY DEF IInv
  <2> QED BY <1>0, <1>a, <2>1, KeysAreNotWords, AcceptableAreKeys DEF TypeOK, PolicyResolve,
    devices, world, RecordOf, StageOf, Early, HolderOf, Owns, Deciders, About
<1>4. ASSUME NEW q \in Requests PROVE WatchedOf(q)'
  <2>1. WatchedOf(q) /\ StageOf(q)
    BY DEF IInv
  <2> QED BY <1>0, <1>a, <2>1, KeysAreNotWords, AcceptableAreKeys DEF TypeOK, PolicyResolve,
    devices, world, WatchedOf, StageOf, Early, HolderOf, Owns, About
<1>5. ASSUME NEW q \in Requests PROVE OwnedOf(q)'
  <2>1. OwnedOf(q) /\ StageOf(q)
    BY DEF IInv
  <2> QED BY <1>0, <1>a, <2>1 DEF TypeOK, PolicyResolve, devices, world, OwnedOf, StageOf,
    Early, About
<1>6. ASSUME NEW e \in Conns PROVE HolderOf(e)'
  <2>1. HolderOf(e)
    BY DEF IInv
  <2>3. CASE pc[e] = "idle"
    BY <1>0, <1>a, <2>3 DEF TypeOK, PolicyResolve, devices, world, HolderOf, Owns
  <2>4. CASE pc[e] # "idle"
    <3>1. About(e) \in Requests
      BY <1>0, <2>4, AboutType
    <3>2. StageOf(About(e)) /\ RecordOf(About(e))
      BY <3>1 DEF IInv
    <3> QED BY <1>0, <1>a, <2>1, <2>4, <3>1, <3>2, KeysAreNotWords DEF TypeOK, PolicyResolve,
      devices, world, HolderOf, StageOf, RecordOf, Early, Owns, About
  <2> QED BY <2>3, <2>4
<1>7. ASSUME NEW e \in Conns, NEW f \in Conns PROVE Apart(e, f)'
  <2>1. Apart(e, f)
    BY DEF IInv
  <2> QED BY <2>1 DEF Apart, Owns, About, PolicyResolve, devices, world
<1>8. ASSUME NEW j \in Keys PROVE ResultOf(j)'
  <2>1. Target[j] \in Requests
    BY TargetsAreRequests
  <2>2. ResultOf(j) /\ RecordOf(Target[j]) /\ StageOf(Target[j])
    BY <2>1 DEF IInv
  <2> QED BY <1>0, <1>a, <2>1, <2>2, KeysAreNotWords DEF TypeOK, PolicyResolve, devices,
    world, ResultOf, RecordOf, StageOf, Early, HolderOf, Owns, About
<1> QED BY <1>1, <1>2, <1>3, <1>4, <1>5, <1>6, <1>7, <1>8 DEF IInv

LEMMA RegisterInv ==
    ASSUME IInv, NEW r \in Requests, Register(r)
    PROVE  IInv'
<1>0. TypeOK
  BY DEF IInv
<1>a. StageOf(r) /\ RecordOf(r) /\ WatchedOf(r) /\ OwnedOf(r)
  BY DEF IInv
<1>1. TypeOK'
  BY <1>0, <1>a, BoundsAreNumbers DEF TypeOK, Register, store, devices, world, RowStates,
    Stages, Labels, Deciders, Requests
<1>2. ASSUME NEW q \in Requests PROVE StageOf(q)'
  <2>1. StageOf(q)
    BY DEF IInv
  <2> QED BY <1>0, <1>a, <2>1, HooksAreNotAsks DEF TypeOK, Register, store, devices, world,
    StageOf, Early, HolderOf, Owns, Requests, About
<1>3. ASSUME NEW q \in Requests PROVE RecordOf(q)'
  <2>1. RecordOf(q) /\ StageOf(q)
    BY DEF IInv
  <2> QED BY <1>0, <1>a, <2>1, KeysAreNotWords, AcceptableAreKeys DEF TypeOK, Register, store,
    devices, world, RecordOf, StageOf, Early, HolderOf, Owns, Deciders, About
<1>4. ASSUME NEW q \in Requests PROVE WatchedOf(q)'
  <2>1. WatchedOf(q) /\ StageOf(q)
    BY DEF IInv
  <2> QED BY <1>0, <1>a, <2>1, KeysAreNotWords, AcceptableAreKeys DEF TypeOK, Register, store,
    devices, world, WatchedOf, StageOf, Early, HolderOf, Owns, About
<1>5. ASSUME NEW q \in Requests PROVE OwnedOf(q)'
  <2>1. OwnedOf(q) /\ StageOf(q)
    BY DEF IInv
  <2> QED BY <1>0, <1>a, <2>1 DEF TypeOK, Register, store, devices, world, OwnedOf, StageOf,
    Early, About
<1>6. ASSUME NEW e \in Conns PROVE HolderOf(e)'
  <2>1. HolderOf(e)
    BY DEF IInv
  <2>3. CASE pc[e] = "idle"
    BY <1>0, <1>a, <2>3 DEF TypeOK, Register, store, devices, world, HolderOf, Owns
  <2>4. CASE pc[e] # "idle"
    <3>1. About(e) \in Requests
      BY <1>0, <2>4, AboutType
    <3>2. StageOf(About(e)) /\ RecordOf(About(e))
      BY <3>1 DEF IInv
    <3> QED BY <1>0, <1>a, <2>1, <2>4, <3>1, <3>2, KeysAreNotWords DEF TypeOK, Register,
      store, devices, world, HolderOf, StageOf, RecordOf, Early, Owns, About
  <2> QED BY <2>3, <2>4
<1>7. ASSUME NEW e \in Conns, NEW f \in Conns PROVE Apart(e, f)'
  <2>1. Apart(e, f)
    BY DEF IInv
  <2> QED BY <2>1 DEF Apart, Owns, About, Register, store, devices, world
<1>8. ASSUME NEW j \in Keys PROVE ResultOf(j)'
  <2>1. Target[j] \in Requests
    BY TargetsAreRequests
  <2>2. ResultOf(j) /\ RecordOf(Target[j]) /\ StageOf(Target[j])
    BY <2>1 DEF IInv
  <2> QED BY <1>0, <1>a, <2>1, <2>2, KeysAreNotWords DEF TypeOK, Register, store, devices,
    world, ResultOf, RecordOf, StageOf, Early, HolderOf, Owns, About
<1> QED BY <1>1, <1>2, <1>3, <1>4, <1>5, <1>6, <1>7, <1>8 DEF IInv

LEMMA WaitInv ==
    ASSUME IInv, NEW r \in Requests, Wait(r)
    PROVE  IInv'
<1>0. TypeOK
  BY DEF IInv
<1>a. StageOf(r) /\ RecordOf(r) /\ WatchedOf(r) /\ OwnedOf(r)
  BY DEF IInv
<1>1. TypeOK'
  BY <1>0, <1>a, BoundsAreNumbers DEF TypeOK, Wait, store, broker, devices, world, RowStates,
    Stages, Labels, Deciders, Requests
<1>2. ASSUME NEW q \in Requests PROVE StageOf(q)'
  <2>1. StageOf(q)
    BY DEF IInv
  <2> QED BY <1>0, <1>a, <2>1, HooksAreNotAsks DEF TypeOK, Wait, store, broker, devices,
    world, StageOf, Early, HolderOf, Owns, Requests, About
<1>3. ASSUME NEW q \in Requests PROVE RecordOf(q)'
  <2>1. RecordOf(q) /\ StageOf(q)
    BY DEF IInv
  <2> QED BY <1>0, <1>a, <2>1, KeysAreNotWords, AcceptableAreKeys DEF TypeOK, Wait, store,
    broker, devices, world, RecordOf, StageOf, Early, HolderOf, Owns, Deciders, About
<1>4. ASSUME NEW q \in Requests PROVE WatchedOf(q)'
  <2>1. WatchedOf(q) /\ StageOf(q)
    BY DEF IInv
  <2> QED BY <1>0, <1>a, <2>1, KeysAreNotWords, AcceptableAreKeys DEF TypeOK, Wait, store,
    broker, devices, world, WatchedOf, StageOf, Early, HolderOf, Owns, About
<1>5. ASSUME NEW q \in Requests PROVE OwnedOf(q)'
  <2>1. OwnedOf(q) /\ StageOf(q)
    BY DEF IInv
  <2> QED BY <1>0, <1>a, <2>1 DEF TypeOK, Wait, store, broker, devices, world, OwnedOf,
    StageOf, Early, About
<1>6. ASSUME NEW e \in Conns PROVE HolderOf(e)'
  <2>1. HolderOf(e)
    BY DEF IInv
  <2>3. CASE pc[e] = "idle"
    BY <1>0, <1>a, <2>3 DEF TypeOK, Wait, store, broker, devices, world, HolderOf, Owns
  <2>4. CASE pc[e] # "idle"
    <3>1. About(e) \in Requests
      BY <1>0, <2>4, AboutType
    <3>2. StageOf(About(e)) /\ RecordOf(About(e))
      BY <3>1 DEF IInv
    <3> QED BY <1>0, <1>a, <2>1, <2>4, <3>1, <3>2, KeysAreNotWords DEF TypeOK, Wait, store,
      broker, devices, world, HolderOf, StageOf, RecordOf, Early, Owns, About
  <2> QED BY <2>3, <2>4
<1>7. ASSUME NEW e \in Conns, NEW f \in Conns PROVE Apart(e, f)'
  <2>1. Apart(e, f)
    BY DEF IInv
  <2> QED BY <2>1 DEF Apart, Owns, About, Wait, store, broker, devices, world
<1>8. ASSUME NEW j \in Keys PROVE ResultOf(j)'
  <2>1. Target[j] \in Requests
    BY TargetsAreRequests
  <2>2. ResultOf(j) /\ RecordOf(Target[j]) /\ StageOf(Target[j])
    BY <2>1 DEF IInv
  <2> QED BY <1>0, <1>a, <2>1, <2>2, KeysAreNotWords DEF TypeOK, Wait, store, broker, devices,
    world, ResultOf, RecordOf, StageOf, Early, HolderOf, Owns, About
<1> QED BY <1>1, <1>2, <1>3, <1>4, <1>5, <1>6, <1>7, <1>8 DEF IInv

LEMMA HandlerFailsInv ==
    ASSUME IInv, NEW r \in Requests, HandlerFails(r)
    PROVE  IInv'
<1>0. TypeOK
  BY DEF IInv
<1>a. StageOf(r) /\ RecordOf(r) /\ WatchedOf(r) /\ OwnedOf(r)
  BY DEF IInv
<1>1. TypeOK'
  <2>1. tracked' \subseteq Asks /\ up' \in [Requests -> Stages]
    BY <1>0 DEF TypeOK, HandlerFails, Stages
  <2> QED BY <1>0, <2>1 DEF TypeOK, HandlerFails, store, broker, devices, world
<1>2. ASSUME NEW q \in Requests PROVE StageOf(q)'
  <2>1. StageOf(q)
    BY DEF IInv
  <2> QED BY <1>0, <1>a, <2>1, HooksAreNotAsks DEF TypeOK, HandlerFails, store, broker,
    devices, world, StageOf, Early, HolderOf, Owns, Requests, About
<1>3. ASSUME NEW q \in Requests PROVE RecordOf(q)'
  <2>1. RecordOf(q) /\ StageOf(q)
    BY DEF IInv
  <2> QED BY <1>0, <1>a, <2>1, KeysAreNotWords, AcceptableAreKeys DEF TypeOK, HandlerFails,
    store, broker, devices, world, RecordOf, StageOf, Early, HolderOf, Owns, Deciders, About
<1>4. ASSUME NEW q \in Requests PROVE WatchedOf(q)'
  <2>1. WatchedOf(q) /\ StageOf(q)
    BY DEF IInv
  <2> QED BY <1>0, <1>a, <2>1, KeysAreNotWords, AcceptableAreKeys DEF TypeOK, HandlerFails,
    store, broker, devices, world, WatchedOf, StageOf, Early, HolderOf, Owns, About
<1>5. ASSUME NEW q \in Requests PROVE OwnedOf(q)'
  <2>1. OwnedOf(q) /\ StageOf(q)
    BY DEF IInv
  <2> QED BY <1>0, <1>a, <2>1 DEF TypeOK, HandlerFails, store, broker, devices, world,
    OwnedOf, StageOf, Early, About
<1>6. ASSUME NEW e \in Conns PROVE HolderOf(e)'
  <2>1. HolderOf(e)
    BY DEF IInv
  <2>3. CASE pc[e] = "idle"
    BY <1>0, <1>a, <2>3 DEF TypeOK, HandlerFails, store, broker, devices, world, HolderOf, Owns
  <2>4. CASE pc[e] # "idle"
    <3>1. About(e) \in Requests
      BY <1>0, <2>4, AboutType
    <3>2. StageOf(About(e)) /\ RecordOf(About(e))
      BY <3>1 DEF IInv
    <3> QED BY <1>0, <1>a, <2>1, <2>4, <3>1, <3>2, KeysAreNotWords DEF TypeOK, HandlerFails,
      store, broker, devices, world, HolderOf, StageOf, RecordOf, Early, Owns, About
  <2> QED BY <2>3, <2>4
<1>7. ASSUME NEW e \in Conns, NEW f \in Conns PROVE Apart(e, f)'
  <2>1. Apart(e, f)
    BY DEF IInv
  <2> QED BY <2>1 DEF Apart, Owns, About, HandlerFails, store, broker, devices, world
<1>8. ASSUME NEW j \in Keys PROVE ResultOf(j)'
  <2>1. Target[j] \in Requests
    BY TargetsAreRequests
  <2>2. ResultOf(j) /\ RecordOf(Target[j]) /\ StageOf(Target[j])
    BY <2>1 DEF IInv
  <2> QED BY <1>0, <1>a, <2>1, <2>2, KeysAreNotWords DEF TypeOK, HandlerFails, store, broker,
    devices, world, ResultOf, RecordOf, StageOf, Early, HolderOf, Owns, About
<1> QED BY <1>1, <1>2, <1>3, <1>4, <1>5, <1>6, <1>7, <1>8 DEF IInv

LEMMA AnswerInv ==
    ASSUME IInv, NEW r \in Requests, Answer(r)
    PROVE  IInv'
<1>0. TypeOK
  BY DEF IInv
<1>a. StageOf(r) /\ RecordOf(r) /\ WatchedOf(r) /\ OwnedOf(r)
  BY DEF IInv
<1>1. TypeOK'
  BY <1>0, <1>a, BoundsAreNumbers DEF TypeOK, Answer, store, broker, devices, world,
    RowStates, Stages, Labels, Deciders, Requests
<1>2. ASSUME NEW q \in Requests PROVE StageOf(q)'
  <2>1. StageOf(q)
    BY DEF IInv
  <2> QED BY <1>0, <1>a, <2>1, HooksAreNotAsks DEF TypeOK, Answer, store, broker, devices,
    world, StageOf, Early, HolderOf, Owns, Requests, About
<1>3. ASSUME NEW q \in Requests PROVE RecordOf(q)'
  <2>1. RecordOf(q) /\ StageOf(q)
    BY DEF IInv
  <2> QED BY <1>0, <1>a, <2>1, KeysAreNotWords, AcceptableAreKeys DEF TypeOK, Answer, store,
    broker, devices, world, RecordOf, StageOf, Early, HolderOf, Owns, Deciders, About
<1>4. ASSUME NEW q \in Requests PROVE WatchedOf(q)'
  <2>1. WatchedOf(q) /\ StageOf(q)
    BY DEF IInv
  <2> QED BY <1>0, <1>a, <2>1, KeysAreNotWords, AcceptableAreKeys DEF TypeOK, Answer, store,
    broker, devices, world, WatchedOf, StageOf, Early, HolderOf, Owns, About
<1>5. ASSUME NEW q \in Requests PROVE OwnedOf(q)'
  <2>1. OwnedOf(q) /\ StageOf(q)
    BY DEF IInv
  <2> QED BY <1>0, <1>a, <2>1 DEF TypeOK, Answer, store, broker, devices, world, OwnedOf,
    StageOf, Early, About
<1>6. ASSUME NEW e \in Conns PROVE HolderOf(e)'
  <2>1. HolderOf(e)
    BY DEF IInv
  <2>3. CASE pc[e] = "idle"
    BY <1>0, <1>a, <2>3 DEF TypeOK, Answer, store, broker, devices, world, HolderOf, Owns
  <2>4. CASE pc[e] # "idle"
    <3>1. About(e) \in Requests
      BY <1>0, <2>4, AboutType
    <3>2. StageOf(About(e)) /\ RecordOf(About(e))
      BY <3>1 DEF IInv
    <3> QED BY <1>0, <1>a, <2>1, <2>4, <3>1, <3>2, KeysAreNotWords DEF TypeOK, Answer, store,
      broker, devices, world, HolderOf, StageOf, RecordOf, Early, Owns, About
  <2> QED BY <2>3, <2>4
<1>7. ASSUME NEW e \in Conns, NEW f \in Conns PROVE Apart(e, f)'
  <2>1. Apart(e, f)
    BY DEF IInv
  <2> QED BY <2>1 DEF Apart, Owns, About, Answer, store, broker, devices, world
<1>8. ASSUME NEW j \in Keys PROVE ResultOf(j)'
  <2>1. Target[j] \in Requests
    BY TargetsAreRequests
  <2>2. ResultOf(j) /\ RecordOf(Target[j]) /\ StageOf(Target[j])
    BY <2>1 DEF IInv
  <2> QED BY <1>0, <1>a, <2>1, <2>2, KeysAreNotWords DEF TypeOK, Answer, store, broker,
    devices, world, ResultOf, RecordOf, StageOf, Early, HolderOf, Owns, About
<1> QED BY <1>1, <1>2, <1>3, <1>4, <1>5, <1>6, <1>7, <1>8 DEF IInv

LEMMA UpstreamResolvedInv ==
    ASSUME IInv, NEW r \in Requests, UpstreamResolved(r)
    PROVE  IInv'
<1>0. TypeOK
  BY DEF IInv
<1>a. StageOf(r) /\ RecordOf(r) /\ WatchedOf(r) /\ OwnedOf(r)
  BY DEF IInv
<1>1. TypeOK'
  BY <1>0, <1>a, BoundsAreNumbers DEF TypeOK, UpstreamResolved, store, broker, devices, world,
    RowStates, Stages, Labels, Deciders, Requests
<1>2. ASSUME NEW q \in Requests PROVE StageOf(q)'
  <2>1. StageOf(q)
    BY DEF IInv
  <2> QED BY <1>0, <1>a, <2>1, HooksAreNotAsks DEF TypeOK, UpstreamResolved, store, broker,
    devices, world, StageOf, Early, HolderOf, Owns, Requests, About
<1>3. ASSUME NEW q \in Requests PROVE RecordOf(q)'
  <2>1. RecordOf(q) /\ StageOf(q)
    BY DEF IInv
  <2> QED BY <1>0, <1>a, <2>1, KeysAreNotWords, AcceptableAreKeys DEF TypeOK,
    UpstreamResolved, store, broker, devices, world, RecordOf, StageOf, Early, HolderOf, Owns,
      Deciders, About
<1>4. ASSUME NEW q \in Requests PROVE WatchedOf(q)'
  <2>1. WatchedOf(q) /\ StageOf(q)
    BY DEF IInv
  <2> QED BY <1>0, <1>a, <2>1, KeysAreNotWords, AcceptableAreKeys DEF TypeOK,
    UpstreamResolved, store, broker, devices, world, WatchedOf, StageOf, Early, HolderOf,
      Owns, About
<1>5. ASSUME NEW q \in Requests PROVE OwnedOf(q)'
  <2>1. OwnedOf(q) /\ StageOf(q)
    BY DEF IInv
  <2> QED BY <1>0, <1>a, <2>1 DEF TypeOK, UpstreamResolved, store, broker, devices, world,
    OwnedOf, StageOf, Early, About
<1>6. ASSUME NEW e \in Conns PROVE HolderOf(e)'
  <2>1. HolderOf(e)
    BY DEF IInv
  <2>3. CASE pc[e] = "idle"
    BY <1>0, <1>a, <2>3 DEF TypeOK, UpstreamResolved, store, broker, devices, world, HolderOf,
      Owns
  <2>4. CASE pc[e] # "idle"
    <3>1. About(e) \in Requests
      BY <1>0, <2>4, AboutType
    <3>2. StageOf(About(e)) /\ RecordOf(About(e))
      BY <3>1 DEF IInv
    <3> QED BY <1>0, <1>a, <2>1, <2>4, <3>1, <3>2, KeysAreNotWords DEF TypeOK,
      UpstreamResolved, store, broker, devices, world, HolderOf, StageOf, RecordOf, Early,
        Owns, About
  <2> QED BY <2>3, <2>4
<1>7. ASSUME NEW e \in Conns, NEW f \in Conns PROVE Apart(e, f)'
  <2>1. Apart(e, f)
    BY DEF IInv
  <2> QED BY <2>1 DEF Apart, Owns, About, UpstreamResolved, store, broker, devices, world
<1>8. ASSUME NEW j \in Keys PROVE ResultOf(j)'
  <2>1. Target[j] \in Requests
    BY TargetsAreRequests
  <2>2. ResultOf(j) /\ RecordOf(Target[j]) /\ StageOf(Target[j])
    BY <2>1 DEF IInv
  <2> QED BY <1>0, <1>a, <2>1, <2>2, KeysAreNotWords DEF TypeOK, UpstreamResolved, store,
    broker, devices, world, ResultOf, RecordOf, StageOf, Early, HolderOf, Owns, About
<1> QED BY <1>1, <1>2, <1>3, <1>4, <1>5, <1>6, <1>7, <1>8 DEF IInv

LEMMA HookDisconnectsInv ==
    ASSUME IInv, NEW r \in Requests, HookDisconnects(r)
    PROVE  IInv'
<1>0. TypeOK
  BY DEF IInv
<1>a. StageOf(r) /\ RecordOf(r) /\ WatchedOf(r) /\ OwnedOf(r)
  BY DEF IInv
<1>1. TypeOK'
  BY <1>0, <1>a, BoundsAreNumbers DEF TypeOK, HookDisconnects, store, broker, devices, world,
    RowStates, Stages, Labels, Deciders, Requests
<1>2. ASSUME NEW q \in Requests PROVE StageOf(q)'
  <2>1. StageOf(q)
    BY DEF IInv
  <2> QED BY <1>0, <1>a, <2>1, HooksAreNotAsks DEF TypeOK, HookDisconnects, store, broker,
    devices, world, StageOf, Early, HolderOf, Owns, Requests, About
<1>3. ASSUME NEW q \in Requests PROVE RecordOf(q)'
  <2>1. RecordOf(q) /\ StageOf(q)
    BY DEF IInv
  <2> QED BY <1>0, <1>a, <2>1, KeysAreNotWords, AcceptableAreKeys DEF TypeOK, HookDisconnects,
    store, broker, devices, world, RecordOf, StageOf, Early, HolderOf, Owns, Deciders, About
<1>4. ASSUME NEW q \in Requests PROVE WatchedOf(q)'
  <2>1. WatchedOf(q) /\ StageOf(q)
    BY DEF IInv
  <2> QED BY <1>0, <1>a, <2>1, KeysAreNotWords, AcceptableAreKeys DEF TypeOK, HookDisconnects,
    store, broker, devices, world, WatchedOf, StageOf, Early, HolderOf, Owns, About
<1>5. ASSUME NEW q \in Requests PROVE OwnedOf(q)'
  <2>1. OwnedOf(q) /\ StageOf(q)
    BY DEF IInv
  <2> QED BY <1>0, <1>a, <2>1 DEF TypeOK, HookDisconnects, store, broker, devices, world,
    OwnedOf, StageOf, Early, About
<1>6. ASSUME NEW e \in Conns PROVE HolderOf(e)'
  <2>1. HolderOf(e)
    BY DEF IInv
  <2>3. CASE pc[e] = "idle"
    BY <1>0, <1>a, <2>3 DEF TypeOK, HookDisconnects, store, broker, devices, world, HolderOf,
      Owns
  <2>4. CASE pc[e] # "idle"
    <3>1. About(e) \in Requests
      BY <1>0, <2>4, AboutType
    <3>2. StageOf(About(e)) /\ RecordOf(About(e))
      BY <3>1 DEF IInv
    <3> QED BY <1>0, <1>a, <2>1, <2>4, <3>1, <3>2, KeysAreNotWords DEF TypeOK,
      HookDisconnects, store, broker, devices, world, HolderOf, StageOf, RecordOf, Early,
        Owns, About
  <2> QED BY <2>3, <2>4
<1>7. ASSUME NEW e \in Conns, NEW f \in Conns PROVE Apart(e, f)'
  <2>1. Apart(e, f)
    BY DEF IInv
  <2> QED BY <2>1 DEF Apart, Owns, About, HookDisconnects, store, broker, devices, world
<1>8. ASSUME NEW j \in Keys PROVE ResultOf(j)'
  <2>1. Target[j] \in Requests
    BY TargetsAreRequests
  <2>2. ResultOf(j) /\ RecordOf(Target[j]) /\ StageOf(Target[j])
    BY <2>1 DEF IInv
  <2> QED BY <1>0, <1>a, <2>1, <2>2, KeysAreNotWords DEF TypeOK, HookDisconnects, store,
    broker, devices, world, ResultOf, RecordOf, StageOf, Early, HolderOf, Owns, About
<1> QED BY <1>1, <1>2, <1>3, <1>4, <1>5, <1>6, <1>7, <1>8 DEF IInv

LEMMA CloseBeginInv ==
    ASSUME IInv, CloseBegin
    PROVE  IInv'
<1>0. TypeOK
  BY DEF IInv
<1>1. TypeOK'
  BY <1>0, BoundsAreNumbers DEF TypeOK, CloseBegin, store, broker, devices, world, RowStates,
    Stages, Labels, Deciders, Requests
<1>2. ASSUME NEW q \in Requests PROVE StageOf(q)'
  <2>1. StageOf(q)
    BY DEF IInv
  <2> QED BY <1>0, <2>1, HooksAreNotAsks DEF TypeOK, CloseBegin, store, broker, devices,
    world, StageOf, Early, HolderOf, Owns, Requests, About
<1>3. ASSUME NEW q \in Requests PROVE RecordOf(q)'
  <2>1. RecordOf(q) /\ StageOf(q)
    BY DEF IInv
  <2> QED BY <1>0, <2>1, KeysAreNotWords, AcceptableAreKeys DEF TypeOK, CloseBegin, store,
    broker, devices, world, RecordOf, StageOf, Early, HolderOf, Owns, Deciders, About
<1>4. ASSUME NEW q \in Requests PROVE WatchedOf(q)'
  <2>1. WatchedOf(q) /\ StageOf(q)
    BY DEF IInv
  <2> QED BY <1>0, <2>1, KeysAreNotWords, AcceptableAreKeys DEF TypeOK, CloseBegin, store,
    broker, devices, world, WatchedOf, StageOf, Early, HolderOf, Owns, About
<1>5. ASSUME NEW q \in Requests PROVE OwnedOf(q)'
  <2>1. OwnedOf(q) /\ StageOf(q)
    BY DEF IInv
  <2> QED BY <1>0, <2>1 DEF TypeOK, CloseBegin, store, broker, devices, world, OwnedOf,
    StageOf, Early, About
<1>6. ASSUME NEW e \in Conns PROVE HolderOf(e)'
  <2>1. HolderOf(e)
    BY DEF IInv
  <2>3. CASE pc[e] = "idle"
    BY <1>0, <2>3 DEF TypeOK, CloseBegin, store, broker, devices, world, HolderOf, Owns
  <2>4. CASE pc[e] # "idle"
    <3>1. About(e) \in Requests
      BY <1>0, <2>4, AboutType
    <3>2. StageOf(About(e)) /\ RecordOf(About(e))
      BY <3>1 DEF IInv
    <3> QED BY <1>0, <2>1, <2>4, <3>1, <3>2, KeysAreNotWords DEF TypeOK, CloseBegin, store,
      broker, devices, world, HolderOf, StageOf, RecordOf, Early, Owns, About
  <2> QED BY <2>3, <2>4
<1>7. ASSUME NEW e \in Conns, NEW f \in Conns PROVE Apart(e, f)'
  <2>1. Apart(e, f)
    BY DEF IInv
  <2> QED BY <2>1 DEF Apart, Owns, About, CloseBegin, store, broker, devices, world
<1>8. ASSUME NEW j \in Keys PROVE ResultOf(j)'
  <2>1. Target[j] \in Requests
    BY TargetsAreRequests
  <2>2. ResultOf(j) /\ RecordOf(Target[j]) /\ StageOf(Target[j])
    BY <2>1 DEF IInv
  <2> QED BY <1>0, <2>1, <2>2, KeysAreNotWords DEF TypeOK, CloseBegin, store, broker, devices,
    world, ResultOf, RecordOf, StageOf, Early, HolderOf, Owns, About
<1> QED BY <1>1, <1>2, <1>3, <1>4, <1>5, <1>6, <1>7, <1>8 DEF IInv

LEMMA CloseEndInv ==
    ASSUME IInv, CloseEnd
    PROVE  IInv'
<1>0. TypeOK
  BY DEF IInv
<1>1. TypeOK'
  BY <1>0, BoundsAreNumbers DEF TypeOK, CloseEnd, store, broker, devices, world, RowStates,
    Stages, Labels, Deciders, Requests
<1>2. ASSUME NEW q \in Requests PROVE StageOf(q)'
  <2>1. StageOf(q)
    BY DEF IInv
  <2> QED BY <1>0, <2>1, HooksAreNotAsks DEF TypeOK, CloseEnd, store, broker, devices, world,
    StageOf, Early, HolderOf, Owns, Requests, About
<1>3. ASSUME NEW q \in Requests PROVE RecordOf(q)'
  <2>1. RecordOf(q) /\ StageOf(q)
    BY DEF IInv
  <2> QED BY <1>0, <2>1, KeysAreNotWords, AcceptableAreKeys DEF TypeOK, CloseEnd, store,
    broker, devices, world, RecordOf, StageOf, Early, HolderOf, Owns, Deciders, About
<1>4. ASSUME NEW q \in Requests PROVE WatchedOf(q)'
  <2>1. WatchedOf(q) /\ StageOf(q)
    BY DEF IInv
  <2> QED BY <1>0, <2>1, KeysAreNotWords, AcceptableAreKeys DEF TypeOK, CloseEnd, store,
    broker, devices, world, WatchedOf, StageOf, Early, HolderOf, Owns, About
<1>5. ASSUME NEW q \in Requests PROVE OwnedOf(q)'
  <2>1. OwnedOf(q) /\ StageOf(q)
    BY DEF IInv
  <2> QED BY <1>0, <2>1 DEF TypeOK, CloseEnd, store, broker, devices, world, OwnedOf, StageOf,
    Early, About
<1>6. ASSUME NEW e \in Conns PROVE HolderOf(e)'
  <2>1. HolderOf(e)
    BY DEF IInv
  <2>3. CASE pc[e] = "idle"
    BY <1>0, <2>3 DEF TypeOK, CloseEnd, store, broker, devices, world, HolderOf, Owns
  <2>4. CASE pc[e] # "idle"
    <3>1. About(e) \in Requests
      BY <1>0, <2>4, AboutType
    <3>2. StageOf(About(e)) /\ RecordOf(About(e))
      BY <3>1 DEF IInv
    <3> QED BY <1>0, <2>1, <2>4, <3>1, <3>2, KeysAreNotWords DEF TypeOK, CloseEnd, store,
      broker, devices, world, HolderOf, StageOf, RecordOf, Early, Owns, About
  <2> QED BY <2>3, <2>4
<1>7. ASSUME NEW e \in Conns, NEW f \in Conns PROVE Apart(e, f)'
  <2>1. Apart(e, f)
    BY DEF IInv
  <2> QED BY <2>1 DEF Apart, Owns, About, CloseEnd, store, broker, devices, world
<1>8. ASSUME NEW j \in Keys PROVE ResultOf(j)'
  <2>1. Target[j] \in Requests
    BY TargetsAreRequests
  <2>2. ResultOf(j) /\ RecordOf(Target[j]) /\ StageOf(Target[j])
    BY <2>1 DEF IInv
  <2> QED BY <1>0, <2>1, <2>2, KeysAreNotWords DEF TypeOK, CloseEnd, store, broker, devices,
    world, ResultOf, RecordOf, StageOf, Early, HolderOf, Owns, About
<1> QED BY <1>1, <1>2, <1>3, <1>4, <1>5, <1>6, <1>7, <1>8 DEF IInv

LEMMA OpenSessionInv ==
    ASSUME IInv, OpenSession
    PROVE  IInv'
<1>0. TypeOK
  BY DEF IInv
<1>1. TypeOK'
  BY <1>0, BoundsAreNumbers DEF TypeOK, OpenSession, store, broker, devices, world, RowStates,
    Stages, Labels, Deciders, Requests
<1>2. ASSUME NEW q \in Requests PROVE StageOf(q)'
  <2>1. StageOf(q)
    BY DEF IInv
  <2> QED BY <1>0, <2>1, HooksAreNotAsks DEF TypeOK, OpenSession, store, broker, devices,
    world, StageOf, Early, HolderOf, Owns, Requests, About
<1>3. ASSUME NEW q \in Requests PROVE RecordOf(q)'
  <2>1. RecordOf(q) /\ StageOf(q)
    BY DEF IInv
  <2> QED BY <1>0, <2>1, KeysAreNotWords, AcceptableAreKeys DEF TypeOK, OpenSession, store,
    broker, devices, world, RecordOf, StageOf, Early, HolderOf, Owns, Deciders, About
<1>4. ASSUME NEW q \in Requests PROVE WatchedOf(q)'
  <2>1. WatchedOf(q) /\ StageOf(q)
    BY DEF IInv
  <2> QED BY <1>0, <2>1, KeysAreNotWords, AcceptableAreKeys DEF TypeOK, OpenSession, store,
    broker, devices, world, WatchedOf, StageOf, Early, HolderOf, Owns, About
<1>5. ASSUME NEW q \in Requests PROVE OwnedOf(q)'
  <2>1. OwnedOf(q) /\ StageOf(q)
    BY DEF IInv
  <2> QED BY <1>0, <2>1 DEF TypeOK, OpenSession, store, broker, devices, world, OwnedOf,
    StageOf, Early, About
<1>6. ASSUME NEW e \in Conns PROVE HolderOf(e)'
  <2>1. HolderOf(e)
    BY DEF IInv
  <2>3. CASE pc[e] = "idle"
    BY <1>0, <2>3 DEF TypeOK, OpenSession, store, broker, devices, world, HolderOf, Owns
  <2>4. CASE pc[e] # "idle"
    <3>1. About(e) \in Requests
      BY <1>0, <2>4, AboutType
    <3>2. StageOf(About(e)) /\ RecordOf(About(e))
      BY <3>1 DEF IInv
    <3> QED BY <1>0, <2>1, <2>4, <3>1, <3>2, KeysAreNotWords DEF TypeOK, OpenSession, store,
      broker, devices, world, HolderOf, StageOf, RecordOf, Early, Owns, About
  <2> QED BY <2>3, <2>4
<1>7. ASSUME NEW e \in Conns, NEW f \in Conns PROVE Apart(e, f)'
  <2>1. Apart(e, f)
    BY DEF IInv
  <2> QED BY <2>1 DEF Apart, Owns, About, OpenSession, store, broker, devices, world
<1>8. ASSUME NEW j \in Keys PROVE ResultOf(j)'
  <2>1. Target[j] \in Requests
    BY TargetsAreRequests
  <2>2. ResultOf(j) /\ RecordOf(Target[j]) /\ StageOf(Target[j])
    BY <2>1 DEF IInv
  <2> QED BY <1>0, <2>1, <2>2, KeysAreNotWords DEF TypeOK, OpenSession, store, broker,
    devices, world, ResultOf, RecordOf, StageOf, Early, HolderOf, Owns, About
<1> QED BY <1>1, <1>2, <1>3, <1>4, <1>5, <1>6, <1>7, <1>8 DEF IInv

LEMMA ExpireInv ==
    ASSUME IInv, NEW r \in Requests, Expire(r)
    PROVE  IInv'
<1>0. TypeOK
  BY DEF IInv
<1>a. StageOf(r) /\ RecordOf(r) /\ WatchedOf(r) /\ OwnedOf(r)
  BY DEF IInv
<1>e. /\ resolvers' = resolvers \ {r}
      /\ timer' \in [Requests -> {"off", "armed", "expiring"}]
      /\ sent' \in [Requests -> Deciders \cup {"nothing", "cancel"}]
      /\ \A q \in Requests : q # r => timer'[q] = timer[q] /\ sent'[q] = sent[q]
      /\ timer'[r] = timer[r] \/ (timer[r] = "armed" /\ timer'[r] = "off")
      /\ r \notin resolvers => timer'[r] = timer[r] /\ sent'[r] = sent[r]
      /\ r \in resolvers /\ Listening(r) => sent'[r] = "cancel"
      /\ sent'[r] \in {sent[r], "cancel"}
  BY <1>0, DeclineFacts DEF Expire, About
<1>1. TypeOK'
  BY <1>0, <1>e DEF TypeOK, Expire, store, devices, world
<1>2. ASSUME NEW q \in Requests PROVE StageOf(q)'
  <2>1. StageOf(q)
    BY DEF IInv
  <2> QED BY <1>0, <1>a, <1>e, <2>1, HooksAreNotAsks DEF TypeOK, Expire, store, devices,
    world, StageOf, Early, HolderOf, Owns, Requests, About, Listening
<1>3. ASSUME NEW q \in Requests PROVE RecordOf(q)'
  <2>1. RecordOf(q) /\ StageOf(q)
    BY DEF IInv
  <2> QED BY <1>0, <1>a, <1>e, <2>1, KeysAreNotWords, AcceptableAreKeys DEF TypeOK, Expire,
    store, devices, world, RecordOf, StageOf, Early, HolderOf, Owns, Deciders, About
<1>4. ASSUME NEW q \in Requests PROVE WatchedOf(q)'
  <2>1. WatchedOf(q) /\ StageOf(q)
    BY DEF IInv
  <2> QED BY <1>0, <1>a, <1>e, <2>1, KeysAreNotWords, AcceptableAreKeys DEF TypeOK, Expire,
    store, devices, world, WatchedOf, StageOf, Early, HolderOf, Owns, About, Listening
<1>5. ASSUME NEW q \in Requests PROVE OwnedOf(q)'
  <2>1. OwnedOf(q) /\ StageOf(q)
    BY DEF IInv
  <2> QED BY <1>0, <1>a, <1>e, <2>1 DEF TypeOK, Expire, store, devices, world, OwnedOf,
    StageOf, Early, About
<1>6. ASSUME NEW e \in Conns PROVE HolderOf(e)'
  <2>1. HolderOf(e)
    BY DEF IInv
  <2>3. CASE pc[e] = "idle"
    BY <1>0, <1>a, <1>e, <2>3 DEF TypeOK, Expire, store, devices, world, HolderOf, Owns
  <2>4. CASE pc[e] # "idle"
    <3>1. About(e) \in Requests
      BY <1>0, <2>4, AboutType
    <3>2. StageOf(About(e)) /\ RecordOf(About(e))
      BY <3>1 DEF IInv
    <3>3. pc'[e] = pc[e] /\ key'[e] = key[e] /\ About(e)' = About(e)
      BY DEF About, Expire, store, devices, world
    <3>4. /\ row[About(e)] # "absent" => row'[About(e)] # "absent"
          /\ About(e) \in overdue => About(e) \in overdue'
          /\ up' = up
      BY <1>0, <1>a, <1>e, <3>1 DEF TypeOK, Expire, store, devices, world
    <3>5. ASSUME Owns(e)
          PROVE  /\ About(e) \notin resolvers' /\ sent'[About(e)] = "nothing"
                 /\ pc[e] = "resolve" => row'[About(e)] # "resolved"
                 /\ pc[e] = "send" => /\ row'[About(e)] = "resolved"
                                      /\ winner'[About(e)] = key[e]
      <4>1. HolderOf(e) /\ Owns(e)
        BY <2>1, <3>5
      <4>2. /\ About(e) \notin resolvers /\ sent[About(e)] = "nothing"
            /\ pc[e] = "resolve" => row[About(e)] # "resolved"
            /\ pc[e] = "send" => /\ row[About(e)] = "resolved"
                                 /\ winner[About(e)] = key[e]
        BY <4>1 DEF HolderOf
      <4>3. sent'[About(e)] = sent[About(e)]
        BY <1>e, <3>1, <4>2
      <4>4. row' = row /\ winner' = winner
        BY DEF Expire, store
      <4> QED BY <1>e, <4>2, <4>3, <4>4
    <3> QED BY <2>1, <3>3, <3>4, <3>5 DEF HolderOf, Owns
  <2> QED BY <2>3, <2>4
<1>7. ASSUME NEW e \in Conns, NEW f \in Conns PROVE Apart(e, f)'
  <2>1. Apart(e, f)
    BY DEF IInv
  <2> QED BY <2>1 DEF Apart, Owns, About, Expire, store, devices, world
<1>8. ASSUME NEW j \in Keys PROVE ResultOf(j)'
  <2>1. Target[j] \in Requests
    BY TargetsAreRequests
  <2>2. ResultOf(j) /\ RecordOf(Target[j]) /\ StageOf(Target[j])
    BY <2>1 DEF IInv
  <2> QED BY <1>0, <1>a, <1>e, <2>1, <2>2, KeysAreNotWords DEF TypeOK, Expire, store, devices,
    world, ResultOf, RecordOf, StageOf, Early, HolderOf, Owns, About
<1> QED BY <1>1, <1>2, <1>3, <1>4, <1>5, <1>6, <1>7, <1>8 DEF IInv

LEMMA ExpireInStoreInv ==
    ASSUME IInv, NEW r \in Requests, ExpireInStore(r)
    PROVE  IInv'
<1>0. TypeOK
  BY DEF IInv
<1>a. StageOf(r) /\ RecordOf(r) /\ WatchedOf(r) /\ OwnedOf(r)
  BY DEF IInv
<1>1. TypeOK'
  BY <1>0, <1>a, BoundsAreNumbers DEF TypeOK, ExpireInStore, ExpireRow, broker, devices,
    world, RowStates, Stages, Labels, Deciders, Requests
<1>2. ASSUME NEW q \in Requests PROVE StageOf(q)'
  <2>1. StageOf(q)
    BY DEF IInv
  <2> QED BY <1>0, <1>a, <2>1, HooksAreNotAsks DEF TypeOK, ExpireInStore, ExpireRow, broker,
    devices, world, StageOf, Early, HolderOf, Owns, Requests, About
<1>3. ASSUME NEW q \in Requests PROVE RecordOf(q)'
  <2>1. RecordOf(q) /\ StageOf(q)
    BY DEF IInv
  <2> QED BY <1>0, <1>a, <2>1, KeysAreNotWords, AcceptableAreKeys DEF TypeOK, ExpireInStore,
    ExpireRow, broker, devices, world, RecordOf, StageOf, Early, HolderOf, Owns, Deciders, About
<1>4. ASSUME NEW q \in Requests PROVE WatchedOf(q)'
  <2>1. WatchedOf(q) /\ StageOf(q)
    BY DEF IInv
  <2> QED BY <1>0, <1>a, <2>1, KeysAreNotWords, AcceptableAreKeys DEF TypeOK, ExpireInStore,
    ExpireRow, broker, devices, world, WatchedOf, StageOf, Early, HolderOf, Owns, About
<1>5. ASSUME NEW q \in Requests PROVE OwnedOf(q)'
  <2>1. OwnedOf(q) /\ StageOf(q)
    BY DEF IInv
  <2> QED BY <1>0, <1>a, <2>1 DEF TypeOK, ExpireInStore, ExpireRow, broker, devices, world,
    OwnedOf, StageOf, Early, About
<1>6. ASSUME NEW e \in Conns PROVE HolderOf(e)'
  <2>1. HolderOf(e)
    BY DEF IInv
  <2>3. CASE pc[e] = "idle"
    BY <1>0, <1>a, <2>3 DEF TypeOK, ExpireInStore, ExpireRow, broker, devices, world,
      HolderOf, Owns
  <2>4. CASE pc[e] # "idle"
    <3>1. About(e) \in Requests
      BY <1>0, <2>4, AboutType
    <3>2. StageOf(About(e)) /\ RecordOf(About(e))
      BY <3>1 DEF IInv
    <3> QED BY <1>0, <1>a, <2>1, <2>4, <3>1, <3>2, KeysAreNotWords DEF TypeOK, ExpireInStore,
      ExpireRow, broker, devices, world, HolderOf, StageOf, RecordOf, Early, Owns, About
  <2> QED BY <2>3, <2>4
<1>7. ASSUME NEW e \in Conns, NEW f \in Conns PROVE Apart(e, f)'
  <2>1. Apart(e, f)
    BY DEF IInv
  <2> QED BY <2>1 DEF Apart, Owns, About, ExpireInStore, ExpireRow, broker, devices, world
<1>8. ASSUME NEW j \in Keys PROVE ResultOf(j)'
  <2>1. Target[j] \in Requests
    BY TargetsAreRequests
  <2>2. ResultOf(j) /\ RecordOf(Target[j]) /\ StageOf(Target[j])
    BY <2>1 DEF IInv
  <2> QED BY <1>0, <1>a, <2>1, <2>2, KeysAreNotWords DEF TypeOK, ExpireInStore, ExpireRow,
    broker, devices, world, ResultOf, RecordOf, StageOf, Early, HolderOf, Owns, About
<1> QED BY <1>1, <1>2, <1>3, <1>4, <1>5, <1>6, <1>7, <1>8 DEF IInv

LEMMA CancelAllInv ==
    ASSUME IInv, CancelAll
    PROVE  IInv'
<1>0. TypeOK
  BY DEF IInv
<1>1. TypeOK'
  BY <1>0, BoundsAreNumbers DEF TypeOK, CancelAll, Listening, store, devices, RowStates,
    Stages, Labels, Deciders, Requests
<1>2. ASSUME NEW q \in Requests PROVE StageOf(q)'
  <2>1. StageOf(q)
    BY DEF IInv
  <2> QED BY <1>0, <2>1, HooksAreNotAsks DEF TypeOK, CancelAll, Listening, store, devices,
    StageOf, Early, HolderOf, Owns, Requests, About
<1>3. ASSUME NEW q \in Requests PROVE RecordOf(q)'
  <2>1. RecordOf(q) /\ StageOf(q)
    BY DEF IInv
  <2> QED BY <1>0, <2>1, KeysAreNotWords, AcceptableAreKeys DEF TypeOK, CancelAll, Listening,
    store, devices, RecordOf, StageOf, Early, HolderOf, Owns, Deciders, About
<1>4. ASSUME NEW q \in Requests PROVE WatchedOf(q)'
  <2>1. WatchedOf(q) /\ StageOf(q)
    BY DEF IInv
  <2> QED BY <1>0, <2>1, KeysAreNotWords, AcceptableAreKeys DEF TypeOK, CancelAll, Listening,
    store, devices, WatchedOf, StageOf, Early, HolderOf, Owns, About
<1>5. ASSUME NEW q \in Requests PROVE OwnedOf(q)'
  <2>1. OwnedOf(q) /\ StageOf(q)
    BY DEF IInv
  <2> QED BY <1>0, <2>1 DEF TypeOK, CancelAll, Listening, store, devices, OwnedOf, StageOf,
    Early, About
<1>6. ASSUME NEW e \in Conns PROVE HolderOf(e)'
  <2>1. HolderOf(e)
    BY DEF IInv
  <2>3. CASE pc[e] = "idle"
    BY <1>0, <2>3 DEF TypeOK, CancelAll, Listening, store, devices, HolderOf, Owns
  <2>4. CASE pc[e] # "idle"
    <3>1. About(e) \in Requests
      BY <1>0, <2>4, AboutType
    <3>2. StageOf(About(e)) /\ RecordOf(About(e))
      BY <3>1 DEF IInv
    <3> QED BY <1>0, <2>1, <2>4, <3>1, <3>2, KeysAreNotWords DEF TypeOK, CancelAll, Listening,
      store, devices, HolderOf, StageOf, RecordOf, Early, Owns, About
  <2> QED BY <2>3, <2>4
<1>7. ASSUME NEW e \in Conns, NEW f \in Conns PROVE Apart(e, f)'
  <2>1. Apart(e, f)
    BY DEF IInv
  <2> QED BY <2>1 DEF Apart, Owns, About, CancelAll, Listening, store, devices
<1>8. ASSUME NEW j \in Keys PROVE ResultOf(j)'
  <2>1. Target[j] \in Requests
    BY TargetsAreRequests
  <2>2. ResultOf(j) /\ RecordOf(Target[j]) /\ StageOf(Target[j])
    BY <2>1 DEF IInv
  <2> QED BY <1>0, <2>1, <2>2, KeysAreNotWords DEF TypeOK, CancelAll, Listening, store,
    devices, ResultOf, RecordOf, StageOf, Early, HolderOf, Owns, About
<1> QED BY <1>1, <1>2, <1>3, <1>4, <1>5, <1>6, <1>7, <1>8 DEF IInv

LEMMA TimePassesInv ==
    ASSUME IInv, NEW r \in Requests, TimePasses(r)
    PROVE  IInv'
<1>0. TypeOK
  BY DEF IInv
<1>a. StageOf(r) /\ RecordOf(r) /\ WatchedOf(r) /\ OwnedOf(r)
  BY DEF IInv
<1>1. TypeOK'
  BY <1>0, <1>a, BoundsAreNumbers DEF TypeOK, TimePasses, store, broker, upstream, devices,
    RowStates, Stages, Labels, Deciders, Requests
<1>2. ASSUME NEW q \in Requests PROVE StageOf(q)'
  <2>1. StageOf(q)
    BY DEF IInv
  <2> QED BY <1>0, <1>a, <2>1, HooksAreNotAsks DEF TypeOK, TimePasses, store, broker,
    upstream, devices, StageOf, Early, HolderOf, Owns, Requests, About
<1>3. ASSUME NEW q \in Requests PROVE RecordOf(q)'
  <2>1. RecordOf(q) /\ StageOf(q)
    BY DEF IInv
  <2> QED BY <1>0, <1>a, <2>1, KeysAreNotWords, AcceptableAreKeys DEF TypeOK, TimePasses,
    store, broker, upstream, devices, RecordOf, StageOf, Early, HolderOf, Owns, Deciders, About
<1>4. ASSUME NEW q \in Requests PROVE WatchedOf(q)'
  <2>1. WatchedOf(q) /\ StageOf(q)
    BY DEF IInv
  <2> QED BY <1>0, <1>a, <2>1, KeysAreNotWords, AcceptableAreKeys DEF TypeOK, TimePasses,
    store, broker, upstream, devices, WatchedOf, StageOf, Early, HolderOf, Owns, About
<1>5. ASSUME NEW q \in Requests PROVE OwnedOf(q)'
  <2>1. OwnedOf(q) /\ StageOf(q)
    BY DEF IInv
  <2> QED BY <1>0, <1>a, <2>1 DEF TypeOK, TimePasses, store, broker, upstream, devices,
    OwnedOf, StageOf, Early, About
<1>6. ASSUME NEW e \in Conns PROVE HolderOf(e)'
  <2>1. HolderOf(e)
    BY DEF IInv
  <2>3. CASE pc[e] = "idle"
    BY <1>0, <1>a, <2>3 DEF TypeOK, TimePasses, store, broker, upstream, devices, HolderOf, Owns
  <2>4. CASE pc[e] # "idle"
    <3>1. About(e) \in Requests
      BY <1>0, <2>4, AboutType
    <3>2. StageOf(About(e)) /\ RecordOf(About(e))
      BY <3>1 DEF IInv
    <3> QED BY <1>0, <1>a, <2>1, <2>4, <3>1, <3>2, KeysAreNotWords DEF TypeOK, TimePasses,
      store, broker, upstream, devices, HolderOf, StageOf, RecordOf, Early, Owns, About
  <2> QED BY <2>3, <2>4
<1>7. ASSUME NEW e \in Conns, NEW f \in Conns PROVE Apart(e, f)'
  <2>1. Apart(e, f)
    BY DEF IInv
  <2> QED BY <2>1 DEF Apart, Owns, About, TimePasses, store, broker, upstream, devices
<1>8. ASSUME NEW j \in Keys PROVE ResultOf(j)'
  <2>1. Target[j] \in Requests
    BY TargetsAreRequests
  <2>2. ResultOf(j) /\ RecordOf(Target[j]) /\ StageOf(Target[j])
    BY <2>1 DEF IInv
  <2> QED BY <1>0, <1>a, <2>1, <2>2, KeysAreNotWords DEF TypeOK, TimePasses, store, broker,
    upstream, devices, ResultOf, RecordOf, StageOf, Early, HolderOf, Owns, About
<1> QED BY <1>1, <1>2, <1>3, <1>4, <1>5, <1>6, <1>7, <1>8 DEF IInv

LEMMA TimerFiresInv ==
    ASSUME IInv, NEW r \in Requests, TimerFires(r)
    PROVE  IInv'
<1>0. TypeOK
  BY DEF IInv
<1>a. StageOf(r) /\ RecordOf(r) /\ WatchedOf(r) /\ OwnedOf(r)
  BY DEF IInv
<1>1. TypeOK'
  <2>1. /\ timer' \in [Requests -> {"off", "armed", "expiring"}]
        /\ resolvers' \subseteq Requests
    BY <1>0 DEF TypeOK, TimerFires
  <2>2. sent' \in [Requests -> Deciders \cup {"nothing", "cancel"}]
    BY <1>0 DEF TypeOK, TimerFires, Send
  <2> QED BY <1>0, <2>1, <2>2 DEF TypeOK, TimerFires, store, upstream, devices, world
<1>2. ASSUME NEW q \in Requests PROVE StageOf(q)'
  <2>1. StageOf(q)
    BY DEF IInv
  <2> QED BY <1>0, <1>a, <2>1, HooksAreNotAsks DEF TypeOK, TimerFires, Send, Listening, store,
    upstream, devices, world, StageOf, Early, HolderOf, Owns, Requests, About
<1>3. ASSUME NEW q \in Requests PROVE RecordOf(q)'
  <2>1. RecordOf(q) /\ StageOf(q)
    BY DEF IInv
  <2> QED BY <1>0, <1>a, <2>1, KeysAreNotWords, AcceptableAreKeys DEF TypeOK, TimerFires,
    Send, Listening, store, upstream, devices, world, RecordOf, StageOf, Early, HolderOf,
      Owns, Deciders, About
<1>4. ASSUME NEW q \in Requests PROVE WatchedOf(q)'
  <2>1. WatchedOf(q) /\ StageOf(q)
    BY DEF IInv
  <2> QED BY <1>0, <1>a, <2>1, KeysAreNotWords, AcceptableAreKeys DEF TypeOK, TimerFires,
    Send, Listening, store, upstream, devices, world, WatchedOf, StageOf, Early, HolderOf,
      Owns, About
<1>5. ASSUME NEW q \in Requests PROVE OwnedOf(q)'
  <2>1. OwnedOf(q) /\ StageOf(q)
    BY DEF IInv
  <2> QED BY <1>0, <1>a, <2>1 DEF TypeOK, TimerFires, Send, Listening, store, upstream,
    devices, world, OwnedOf, StageOf, Early, About
<1>6. ASSUME NEW e \in Conns PROVE HolderOf(e)'
  <2>1. HolderOf(e)
    BY DEF IInv
  <2>3. CASE pc[e] = "idle"
    BY <1>0, <1>a, <2>3 DEF TypeOK, TimerFires, Send, Listening, store, upstream, devices,
      world, HolderOf, Owns
  <2>4. CASE pc[e] # "idle"
    <3>1. About(e) \in Requests
      BY <1>0, <2>4, AboutType
    <3>2. StageOf(About(e)) /\ RecordOf(About(e))
      BY <3>1 DEF IInv
    <3>3. pc'[e] = pc[e] /\ key'[e] = key[e] /\ About(e)' = About(e)
      BY DEF About, TimerFires, Send, Listening, store, upstream, devices, world
    <3>4. /\ row[About(e)] # "absent" => row'[About(e)] # "absent"
          /\ About(e) \in overdue => About(e) \in overdue'
          /\ up' = up
      BY <1>0, <1>a, <3>1 DEF TypeOK, TimerFires, Send, Listening, store, upstream, devices,
        world
    <3>5. ASSUME Owns(e)
          PROVE  /\ About(e) \notin resolvers' /\ sent'[About(e)] = "nothing"
                 /\ pc[e] = "resolve" => row'[About(e)] # "resolved"
                 /\ pc[e] = "send" => /\ row'[About(e)] = "resolved"
                                      /\ winner'[About(e)] = key[e]
      <4>1. HolderOf(e) /\ Owns(e)
        BY <2>1, <3>5
      <4> QED BY <1>0, <1>a, <3>1, <3>2, <4>1 DEF TypeOK, TimerFires, Send, Listening, store,
        upstream, devices, world, HolderOf, StageOf
    <3> QED BY <2>1, <3>3, <3>4, <3>5 DEF HolderOf, Owns
  <2> QED BY <2>3, <2>4
<1>7. ASSUME NEW e \in Conns, NEW f \in Conns PROVE Apart(e, f)'
  <2>1. Apart(e, f)
    BY DEF IInv
  <2> QED BY <2>1 DEF Apart, Owns, About, TimerFires, Send, Listening, store, upstream,
    devices, world
<1>8. ASSUME NEW j \in Keys PROVE ResultOf(j)'
  <2>1. Target[j] \in Requests
    BY TargetsAreRequests
  <2>2. ResultOf(j) /\ RecordOf(Target[j]) /\ StageOf(Target[j])
    BY <2>1 DEF IInv
  <2> QED BY <1>0, <1>a, <2>1, <2>2, KeysAreNotWords DEF TypeOK, TimerFires, Send, Listening,
    store, upstream, devices, world, ResultOf, RecordOf, StageOf, Early, HolderOf, Owns, About
<1> QED BY <1>1, <1>2, <1>3, <1>4, <1>5, <1>6, <1>7, <1>8 DEF IInv

LEMMA TimerExpiresRowInv ==
    ASSUME IInv, NEW r \in Requests, TimerExpiresRow(r)
    PROVE  IInv'
<1>0. TypeOK
  BY DEF IInv
<1>a. StageOf(r) /\ RecordOf(r) /\ WatchedOf(r) /\ OwnedOf(r)
  BY DEF IInv
<1>1. TypeOK'
  BY <1>0, <1>a, BoundsAreNumbers DEF TypeOK, TimerExpiresRow, ExpireRow, upstream, devices,
    world, RowStates, Stages, Labels, Deciders, Requests
<1>2. ASSUME NEW q \in Requests PROVE StageOf(q)'
  <2>1. StageOf(q)
    BY DEF IInv
  <2> QED BY <1>0, <1>a, <2>1, HooksAreNotAsks DEF TypeOK, TimerExpiresRow, ExpireRow,
    upstream, devices, world, StageOf, Early, HolderOf, Owns, Requests, About
<1>3. ASSUME NEW q \in Requests PROVE RecordOf(q)'
  <2>1. RecordOf(q) /\ StageOf(q)
    BY DEF IInv
  <2> QED BY <1>0, <1>a, <2>1, KeysAreNotWords, AcceptableAreKeys DEF TypeOK, TimerExpiresRow,
    ExpireRow, upstream, devices, world, RecordOf, StageOf, Early, HolderOf, Owns, Deciders,
      About
<1>4. ASSUME NEW q \in Requests PROVE WatchedOf(q)'
  <2>1. WatchedOf(q) /\ StageOf(q)
    BY DEF IInv
  <2> QED BY <1>0, <1>a, <2>1, KeysAreNotWords, AcceptableAreKeys DEF TypeOK, TimerExpiresRow,
    ExpireRow, upstream, devices, world, WatchedOf, StageOf, Early, HolderOf, Owns, About
<1>5. ASSUME NEW q \in Requests PROVE OwnedOf(q)'
  <2>1. OwnedOf(q) /\ StageOf(q)
    BY DEF IInv
  <2> QED BY <1>0, <1>a, <2>1 DEF TypeOK, TimerExpiresRow, ExpireRow, upstream, devices,
    world, OwnedOf, StageOf, Early, About
<1>6. ASSUME NEW e \in Conns PROVE HolderOf(e)'
  <2>1. HolderOf(e)
    BY DEF IInv
  <2>3. CASE pc[e] = "idle"
    BY <1>0, <1>a, <2>3 DEF TypeOK, TimerExpiresRow, ExpireRow, upstream, devices, world,
      HolderOf, Owns
  <2>4. CASE pc[e] # "idle"
    <3>1. About(e) \in Requests
      BY <1>0, <2>4, AboutType
    <3>2. StageOf(About(e)) /\ RecordOf(About(e))
      BY <3>1 DEF IInv
    <3>3. pc'[e] = pc[e] /\ key'[e] = key[e] /\ About(e)' = About(e)
      BY DEF About, TimerExpiresRow, ExpireRow, upstream, devices, world
    <3>4. /\ row[About(e)] # "absent" => row'[About(e)] # "absent"
          /\ About(e) \in overdue => About(e) \in overdue'
          /\ up' = up
      BY <1>0, <1>a, <3>1 DEF TypeOK, TimerExpiresRow, ExpireRow, upstream, devices, world
    <3>5. ASSUME Owns(e)
          PROVE  /\ About(e) \notin resolvers' /\ sent'[About(e)] = "nothing"
                 /\ pc[e] = "resolve" => row'[About(e)] # "resolved"
                 /\ pc[e] = "send" => /\ row'[About(e)] = "resolved"
                                      /\ winner'[About(e)] = key[e]
      <4>1. HolderOf(e) /\ Owns(e)
        BY <2>1, <3>5
      <4> QED BY <1>0, <1>a, <3>1, <3>2, <4>1 DEF TypeOK, TimerExpiresRow, ExpireRow,
        upstream, devices, world, HolderOf, StageOf
    <3> QED BY <2>1, <3>3, <3>4, <3>5 DEF HolderOf, Owns
  <2> QED BY <2>3, <2>4
<1>7. ASSUME NEW e \in Conns, NEW f \in Conns PROVE Apart(e, f)'
  <2>1. Apart(e, f)
    BY DEF IInv
  <2> QED BY <2>1 DEF Apart, Owns, About, TimerExpiresRow, ExpireRow, upstream, devices, world
<1>8. ASSUME NEW j \in Keys PROVE ResultOf(j)'
  <2>1. Target[j] \in Requests
    BY TargetsAreRequests
  <2>2. ResultOf(j) /\ RecordOf(Target[j]) /\ StageOf(Target[j])
    BY <2>1 DEF IInv
  <2> QED BY <1>0, <1>a, <2>1, <2>2, KeysAreNotWords DEF TypeOK, TimerExpiresRow, ExpireRow,
    upstream, devices, world, ResultOf, RecordOf, StageOf, Early, HolderOf, Owns, About
<1> QED BY <1>1, <1>2, <1>3, <1>4, <1>5, <1>6, <1>7, <1>8 DEF IInv

\* A step of a connection that touches neither the rows, nor the resolvers, nor
\* the handlers, and that leaves it with nothing to settle.
LEMMA ConnectionStep ==
    ASSUME IInv, TypeOK', NEW c \in Conns,
           UNCHANGED <<row, winner, broker, upstream, world>>,
           \A e \in Conns : e # c => pc'[e] = pc[e] /\ key'[e] = key[e],
           pc[c] \in {"idle", "prior", "check", "refuse"},
           pc'[c] \in {"idle", "prior", "check", "refuse", "expire", "take"},
           HolderOf(c)', \A k \in Keys : ResultOf(k)'
    PROVE  IInv'
<1>1. ASSUME NEW q \in Requests PROVE StageOf(q)' /\ RecordOf(q)'
  <2>1. StageOf(q) /\ RecordOf(q)
    BY DEF IInv
  <2> QED BY <2>1 DEF StageOf, RecordOf, broker, upstream, world
<1>2. ASSUME NEW q \in Requests PROVE WatchedOf(q)'
  <2>1. WatchedOf(q)
    BY DEF IInv
  <2>2. ASSUME NEW e \in Conns, Owns(e) PROVE Owns(e)' /\ About(e)' = About(e)
    BY <2>2 DEF Owns, About
  <2> QED BY <2>1, <2>2 DEF WatchedOf, broker, upstream
<1>3. ASSUME NEW q \in Requests PROVE OwnedOf(q)'
  <2>1. OwnedOf(q)
    BY DEF IInv
  <2>2. ASSUME NEW e \in Conns, pc[e] \in {"resolve", "error", "expire_row"}
        PROVE  pc'[e] = pc[e] /\ About(e)' = About(e)
    BY <2>2 DEF About
  <2> QED BY <2>1, <2>2 DEF OwnedOf, broker, upstream
<1>4. ASSUME NEW e \in Conns PROVE HolderOf(e)'
  <2>1. CASE e = c
    BY <2>1
  <2>2. CASE e # c
    <3>1. HolderOf(e) /\ pc'[e] = pc[e] /\ key'[e] = key[e]
      BY <2>2 DEF IInv
    <3> QED BY <3>1 DEF HolderOf, Owns, About, broker, upstream, world
  <2> QED BY <2>1, <2>2
<1>5. ASSUME NEW e \in Conns, NEW f \in Conns PROVE Apart(e, f)'
  <2>1. Apart(e, f)
    BY DEF IInv
  <2>2. ~Owns(c)'
    BY DEF Owns
  <2> QED BY <2>1, <2>2 DEF Apart, Owns, About
<1> QED BY <1>1, <1>2, <1>3, <1>4, <1>5 DEF IInv

LEMMA ReceiveInv ==
    ASSUME IInv, NEW c \in Conns, NEW k \in Keys, Receive(c, k)
    PROVE  IInv'
<1>1. TypeOK
  BY DEF IInv
<1>2. /\ UNCHANGED <<row, winner, results, replied, broker, upstream, world>>
      /\ pc[c] = "idle" /\ row[Target[k]] # "absent"
      /\ \A e \in Conns : e # c => pc'[e] = pc[e] /\ key'[e] = key[e]
      /\ pc'[c] = "prior" /\ key'[c] = k
  BY <1>1 DEF TypeOK, Receive, Go, store
<1>3. TypeOK'
  <2>1. pc' \in [Conns -> Labels] /\ key' \in [Conns -> Keys \cup {"nothing"}]
    BY <1>1 DEF TypeOK, Receive, Go, Labels
  <2>2. sends' \in [Keys -> 0..MaxSends]
    BY <1>1, BoundsAreNumbers DEF TypeOK, Receive
  <2>3. \A e \in Conns : pc'[e] = "idle" <=> key'[e] = "nothing"
    BY <1>1, <1>2, KeysAreNotWords DEF TypeOK
  <2> QED BY <1>1, <1>2, <2>1, <2>2, <2>3 DEF TypeOK, broker, upstream, world
<1>4. HolderOf(c)'
  BY <1>2 DEF HolderOf, Owns, About
<1>5. \A j \in Keys : ResultOf(j)'
  BY <1>2 DEF IInv, ResultOf
<1> QED BY <1>2, <1>3, <1>4, <1>5, ConnectionStep

LEMMA PriorInv ==
    ASSUME IInv, NEW c \in Conns, Prior(c)
    PROVE  IInv'
<1>1. TypeOK /\ HolderOf(c) /\ pc[c] = "prior"
  BY DEF IInv, Prior
<1>2. key[c] \in Keys /\ About(c) \in Requests
  BY <1>1, AboutType
<1>3. UNCHANGED <<row, winner, results, sends, broker, upstream, world>>
  BY DEF Prior, store
<1>4. CASE results[key[c]] # "none"
  <2>1. /\ replied' = [replied EXCEPT ![key[c]] = @ \cup {results[key[c]]}]
        /\ pc' = [pc EXCEPT ![c] = "idle"]
        /\ key' = [key EXCEPT ![c] = "nothing"]
    BY <1>4 DEF Prior, Reply, Idle, Go
  <2>2. results[key[c]] \in {"accepted", "rejected"}
    BY <1>1, <1>2, <1>4 DEF TypeOK
  <2>3. TypeOK'
    <3>1. replied' \in [Keys -> SUBSET {"accepted", "rejected"}]
      BY <1>1, <2>1, <2>2 DEF TypeOK
    <3>2. /\ pc' \in [Conns -> Labels] /\ key' \in [Conns -> Keys \cup {"nothing"}]
          /\ \A e \in Conns : pc'[e] = "idle" <=> key'[e] = "nothing"
      BY <1>1, <2>1 DEF TypeOK, Labels
    <3> QED BY <1>1, <1>3, <3>1, <3>2 DEF TypeOK, broker, upstream, world
  <2>4. /\ pc'[c] = "idle"
        /\ \A e \in Conns : e # c => pc'[e] = pc[e] /\ key'[e] = key[e]
    BY <1>1, <2>1 DEF TypeOK
  <2>5. HolderOf(c)'
    BY <2>4 DEF HolderOf, Owns
  <2>6. ASSUME NEW j \in Keys PROVE ResultOf(j)'
    <3>1. ResultOf(j)
      BY DEF IInv
    <3> QED BY <1>1, <1>2, <1>3, <2>1, <3>1 DEF TypeOK, ResultOf
  <2> QED BY <1>1, <1>3, <2>3, <2>4, <2>5, <2>6, ConnectionStep
<1>5. CASE results[key[c]] = "none"
  <2>1. pc' = [pc EXCEPT ![c] = "check"] /\ key' = key /\ replied' = replied
    BY <1>5 DEF Prior, Go
  <2>2. /\ pc'[c] = "check" /\ key'[c] = key[c]
        /\ \A e \in Conns : e # c => pc'[e] = pc[e] /\ key'[e] = key[e]
    BY <1>1, <2>1 DEF TypeOK
  <2>3. TypeOK'
    <3>1. /\ pc' \in [Conns -> Labels]
          /\ \A e \in Conns : pc'[e] = "idle" <=> key'[e] = "nothing"
      BY <1>1, <1>2, <2>1, KeysAreNotWords DEF TypeOK, Labels
    <3> QED BY <1>1, <1>3, <2>1, <3>1 DEF TypeOK, broker, upstream, world
  <2>4. HolderOf(c)'
    BY <1>1, <1>3, <2>2 DEF HolderOf, Owns, About
  <2>5. \A j \in Keys : ResultOf(j)'
    BY <1>3, <2>1 DEF IInv, ResultOf
  <2> QED BY <1>1, <1>3, <2>2, <2>3, <2>4, <2>5, ConnectionStep
<1> QED BY <1>4, <1>5

LEMMA CheckInv ==
    ASSUME IInv, NEW c \in Conns, Check(c)
    PROVE  IInv'
<1>1. TypeOK /\ HolderOf(c) /\ pc[c] = "check"
  BY DEF IInv, Check
<1>2. key[c] \in Keys /\ About(c) \in Requests
  BY <1>1, AboutType
<1>3. StageOf(About(c))
  BY <1>2 DEF IInv
<1>4. UNCHANGED <<store, broker, upstream, key, sends, replied, world>>
  BY DEF Check
<1>5. /\ pc'[c] \in {"refuse", "expire", "take"}
      /\ pc'[c] = "expire" => About(c) \in overdue
      /\ pc'[c] = "take" => key[c] \in Acceptable
      /\ \A e \in Conns : e # c => pc'[e] = pc[e] /\ key'[e] = key[e]
  BY <1>1 DEF TypeOK, Check, Go, About
<1>6. TypeOK'
  <2>1. pc' \in [Conns -> Labels]
    BY <1>1 DEF TypeOK, Check, Go, Labels
  <2>2. \A e \in Conns : pc'[e] = "idle" <=> key'[e] = "nothing"
    BY <1>1, <1>2, <1>4, <1>5, KeysAreNotWords DEF TypeOK
  <2> QED BY <1>1, <1>4, <2>1, <2>2 DEF TypeOK, store, broker, upstream, world
<1>7. HolderOf(c)'
  BY <1>1, <1>3, <1>4, <1>5 DEF HolderOf, StageOf, Owns, About, store, broker,
     upstream, world
<1>8. \A j \in Keys : ResultOf(j)'
  BY <1>4 DEF IInv, ResultOf, store
<1> QED BY <1>1, <1>4, <1>5, <1>6, <1>7, <1>8, ConnectionStep DEF store

LEMMA SaveFailureInv ==
    ASSUME IInv, NEW c \in Conns, SaveFailure(c)
    PROVE  IInv'
<1>1. TypeOK /\ pc[c] = "refuse"
  BY DEF IInv, SaveFailure
<1>2. key[c] \in Keys
  BY <1>1, AboutType
<1>3. /\ UNCHANGED <<row, winner, broker, upstream, sends, world>>
      /\ results' = [results EXCEPT ![key[c]] =
            IF results[key[c]] = "none" THEN "rejected" ELSE results[key[c]]]
      /\ replied' = [replied EXCEPT ![key[c]] = @ \cup {results'[key[c]]}]
      /\ pc' = [pc EXCEPT ![c] = "idle"]
      /\ key' = [key EXCEPT ![c] = "nothing"]
  BY DEF SaveFailure, StoreResult, Reply, Idle, Go
<1>4. /\ results' \in [Keys -> {"none", "accepted", "rejected"}]
      /\ results'[key[c]] \in {"accepted", "rejected"}
      /\ results'[key[c]] = "accepted" => results[key[c]] = "accepted"
      /\ \A j \in Keys : j # key[c] => results'[j] = results[j]
  BY <1>1, <1>2, <1>3 DEF TypeOK
<1>5. /\ replied' \in [Keys -> SUBSET {"accepted", "rejected"}]
      /\ replied'[key[c]] = replied[key[c]] \cup {results'[key[c]]}
      /\ \A j \in Keys : j # key[c] => replied'[j] = replied[j]
  BY <1>1, <1>2, <1>3, <1>4 DEF TypeOK
<1>6. TypeOK'
  <2>1. /\ pc' \in [Conns -> Labels] /\ key' \in [Conns -> Keys \cup {"nothing"}]
        /\ \A e \in Conns : pc'[e] = "idle" <=> key'[e] = "nothing"
    BY <1>1, <1>3 DEF TypeOK, Labels
  <2> QED BY <1>1, <1>3, <1>4, <1>5, <2>1 DEF TypeOK, broker, upstream, world
<1>7. /\ pc'[c] = "idle"
      /\ \A e \in Conns : e # c => pc'[e] = pc[e] /\ key'[e] = key[e]
  BY <1>1, <1>3 DEF TypeOK
<1>8. HolderOf(c)'
  BY <1>7 DEF HolderOf, Owns
<1>9. ASSUME NEW j \in Keys PROVE ResultOf(j)'
  <2>1. ResultOf(j)
    BY DEF IInv
  <2> QED BY <1>3, <1>4, <1>5, <2>1 DEF ResultOf
<1> QED BY <1>1, <1>3, <1>6, <1>7, <1>8, <1>9, ConnectionStep

LEMMA DecideExpiresInv ==
    ASSUME IInv, NEW c \in Conns, DecideExpires(c)
    PROVE  IInv'
<1>0. TypeOK
  BY DEF IInv
<1>a. pc[c] # "idle" /\ key[c] \in Keys /\ About(c) \in Requests
  BY <1>0, AboutType DEF DecideExpires
<1>b. HolderOf(c) /\ StageOf(About(c)) /\ RecordOf(About(c)) /\ OwnedOf(About(c))
  BY <1>a DEF IInv
<1>c. ASSUME NEW e \in Conns, e # c PROVE pc'[e] = pc[e] /\ key'[e] = key[e]
  BY <1>0, <1>c DEF TypeOK, DecideExpires, Go, store, upstream, world
<1>d. pc[c] = "expire" /\ pc'[c] = "expire_row" /\ key'[c] = key[c]
  BY <1>0, <1>a DEF TypeOK, DecideExpires, Go, store, upstream, world, About
<1>e. /\ resolvers' = resolvers \ {About(c)}
      /\ timer' \in [Requests -> {"off", "armed", "expiring"}]
      /\ sent' \in [Requests -> Deciders \cup {"nothing", "cancel"}]
      /\ \A q \in Requests : q # About(c) => timer'[q] = timer[q] /\ sent'[q] = sent[q]
      /\ \/ timer'[About(c)] = timer[About(c)]
         \/ timer[About(c)] = "armed" /\ timer'[About(c)] = "off"
      /\ About(c) \notin resolvers =>
            timer'[About(c)] = timer[About(c)] /\ sent'[About(c)] = sent[About(c)]
      /\ About(c) \in resolvers /\ Listening(About(c)) => sent'[About(c)] = "cancel"
      /\ sent'[About(c)] \in {sent[About(c)], "cancel"}
  BY <1>0, <1>a, DeclineFacts DEF DecideExpires, About
<1>f. UNCHANGED <<row, winner, up, answer, expiring, overdue>>
  BY DEF DecideExpires, store, upstream, world
<1>1. TypeOK'
  <2>1. pc' \in [Conns -> Labels] /\ key' \in [Conns -> Keys \cup {"nothing"}]
    BY <1>0, <1>a, <1>b, <1>d, <1>e DEF TypeOK, DecideExpires, Go, store, upstream, world,
      Labels
  <2>2. ASSUME NEW e \in Conns PROVE pc'[e] = "idle" <=> key'[e] = "nothing"
    BY <1>0, <1>a, <1>c, <1>d, <2>2, KeysAreNotWords DEF TypeOK
  <2> QED BY <1>0, <1>a, <1>b, <1>d, <1>e, <2>1, <2>2, AcceptableAreKeys DEF TypeOK,
    DecideExpires, Go, store, upstream, world, RowStates, Deciders, About
<1>2. ASSUME NEW q \in Requests PROVE StageOf(q)'
  <2>1. StageOf(q)
    BY DEF IInv
  <2>2. UNCHANGED <<tracked, leaving>>
    BY DEF DecideExpires, upstream
  <2>3. up[q] = "stored" => q # About(c)
    BY <1>b, <1>d DEF HolderOf, Early
  <2>4. timer'[q] = timer[q] \/ (timer[q] = "armed" /\ timer'[q] = "off")
    BY <1>e
  <2>5. /\ up[q] = "stored" => timer'[q] = timer[q]
        /\ up[q] \in Early => sent'[q] = sent[q]
    BY <1>e, <2>1, <2>3 DEF StageOf
  <2>6. q \in resolvers' => q \in resolvers /\ timer'[q] = timer[q] /\ sent'[q] = sent[q]
    BY <1>e
  <2> QED BY <1>f, <2>1, <2>2, <2>4, <2>5, <2>6 DEF StageOf
<1>3. ASSUME NEW q \in Requests PROVE RecordOf(q)'
  <2>1. RecordOf(q) /\ StageOf(q)
    BY DEF IInv
  <2>2. CASE q = About(c) /\ q \in resolvers
    <3>1. sent[q] = "nothing" /\ row[q] # "resolved" /\ answer[q] = "nothing"
      BY <2>1, <2>2 DEF StageOf, RecordOf
    <3> QED BY <1>e, <1>f, <2>1, <2>2, <3>1 DEF RecordOf
  <2>3. CASE q # About(c) \/ q \notin resolvers
    <3>1. sent'[q] = sent[q]
      BY <1>e, <2>3
    <3> QED BY <1>f, <2>1, <3>1 DEF RecordOf
  <2> QED BY <2>2, <2>3
<1>4. ASSUME NEW q \in Requests PROVE WatchedOf(q)'
  <2>1. WatchedOf(q)
    BY DEF IInv
  <2>2. CASE q = About(c) /\ q \in resolvers
    <3>1. up[q] \in {"ticket", "waiting"} => sent'[q] = "cancel"
      BY <1>e, <2>2 DEF Listening
    <3> QED BY <1>f, <3>1 DEF WatchedOf
  <2>3. CASE q # About(c) \/ q \notin resolvers
    <3>1. sent'[q] = sent[q] /\ (q \in resolvers => q \in resolvers')
      BY <1>e, <2>3
    <3>2. ASSUME NEW e \in Conns, Owns(e) PROVE Owns(e)' /\ About(e)' = About(e)
      BY <1>c, <1>d, <3>2 DEF Owns, About
    <3> QED BY <1>f, <2>1, <3>1, <3>2 DEF WatchedOf
  <2> QED BY <2>2, <2>3
<1>5. ASSUME NEW q \in Requests PROVE OwnedOf(q)'
  <2>1. OwnedOf(q) /\ StageOf(q)
    BY DEF IInv
  <2>2. CASE q = About(c)
    BY <1>0, <1>a, <1>b, <1>d, <1>e, <2>1, <2>2 DEF TypeOK, DecideExpires, Go, store,
      upstream, world, OwnedOf, HolderOf, Owns, About
  <2>3. CASE q # About(c)
    <3>1. row'[q] = row[q] /\ timer'[q] = timer[q] /\ expiring' = expiring
      BY <1>0, <1>a, <1>b, <1>d, <1>e, <2>3 DEF TypeOK, DecideExpires, Go, store, upstream,
        world, About
    <3> QED BY <1>b, <1>c, <1>d, <2>1, <2>3, <3>1 DEF OwnedOf, About
  <2> QED BY <2>2, <2>3
<1>6. ASSUME NEW e \in Conns PROVE HolderOf(e)'
  <2>1. HolderOf(e) /\ Apart(c, e)
    BY DEF IInv
  <2>2. CASE e = c
    BY <1>0, <1>a, <1>b, <1>d, <1>e, <2>2, KeysAreNotWords DEF TypeOK, DecideExpires, Go,
      store, upstream, world, HolderOf, StageOf, RecordOf, Early, Owns, About
  <2>3. CASE e # c /\ pc[e] = "idle"
    BY <1>c, <2>3 DEF HolderOf, Owns
  <2>4. CASE e # c /\ pc[e] # "idle"
    <3>1. About(e) \in Requests
      BY <1>0, <2>4, AboutType
    <3>2. StageOf(About(e)) /\ RecordOf(About(e))
      BY <3>1 DEF IInv
    <3>3. pc'[e] = pc[e] /\ key'[e] = key[e] /\ About(e)' = About(e)
      BY <1>c, <2>4 DEF About
    <3>4. /\ row[About(e)] # "absent" => row'[About(e)] # "absent"
          /\ About(e) \in overdue => About(e) \in overdue'
          /\ up' = up
      BY <1>0, <1>a, <1>b, <1>d, <1>e, <3>1 DEF TypeOK, DecideExpires, Go, store, upstream,
        world
    <3>5. ASSUME Owns(e)
          PROVE  /\ About(e) \notin resolvers' /\ sent'[About(e)] = "nothing"
                 /\ pc[e] = "resolve" => row'[About(e)] # "resolved"
                 /\ pc[e] = "send" => /\ row'[About(e)] = "resolved"
                                      /\ winner'[About(e)] = key[e]
      <4>1. HolderOf(e) /\ Owns(e)
        BY <2>1, <3>5
      <4>2. /\ About(e) \notin resolvers /\ sent[About(e)] = "nothing"
            /\ pc[e] = "resolve" => row[About(e)] # "resolved"
            /\ pc[e] = "send" => /\ row[About(e)] = "resolved"
                                 /\ winner[About(e)] = key[e]
        BY <4>1 DEF HolderOf
      <4>3. sent'[About(e)] = sent[About(e)]
        BY <1>e, <3>1, <4>2
      <4> QED BY <1>e, <1>f, <4>2, <4>3
    <3> QED BY <2>1, <3>3, <3>4, <3>5 DEF HolderOf, Owns
  <2> QED BY <2>2, <2>3, <2>4
<1>7. ASSUME NEW e \in Conns, NEW f \in Conns PROVE Apart(e, f)'
  <2>1. Apart(e, f) /\ HolderOf(e) /\ HolderOf(f)
    BY DEF IInv
  <2> QED BY <1>c, <1>d, <2>1 DEF Apart, HolderOf, Owns, About
<1>8. ASSUME NEW j \in Keys PROVE ResultOf(j)'
  <2>1. Target[j] \in Requests
    BY TargetsAreRequests
  <2>2. ResultOf(j) /\ RecordOf(Target[j]) /\ StageOf(Target[j])
    BY <2>1 DEF IInv
  <2> QED BY <1>0, <1>a, <1>b, <1>d, <1>e, <2>1, <2>2, KeysAreNotWords DEF TypeOK,
    DecideExpires, Go, store, upstream, world, ResultOf, RecordOf, StageOf, Early, HolderOf,
      Owns, About
<1> QED BY <1>1, <1>2, <1>3, <1>4, <1>5, <1>6, <1>7, <1>8 DEF IInv

LEMMA DecideExpiresRowInv ==
    ASSUME IInv, NEW c \in Conns, DecideExpiresRow(c)
    PROVE  IInv'
<1>0. TypeOK
  BY DEF IInv
<1>a. pc[c] # "idle" /\ key[c] \in Keys /\ About(c) \in Requests
  BY <1>0, AboutType DEF DecideExpiresRow
<1>b. HolderOf(c) /\ StageOf(About(c)) /\ RecordOf(About(c)) /\ OwnedOf(About(c))
  BY <1>a DEF IInv
<1>c. ASSUME NEW e \in Conns, e # c PROVE pc'[e] = pc[e] /\ key'[e] = key[e]
  BY <1>0, <1>c DEF TypeOK, DecideExpiresRow, Go, ExpireRow, broker, upstream, world
<1>d. pc[c] = "expire_row" /\ pc'[c] = "refuse" /\ key'[c] = key[c]
  BY <1>0, <1>a DEF TypeOK, DecideExpiresRow, Go, ExpireRow, broker, upstream, world, About
<1>1. TypeOK'
  <2>1. pc' \in [Conns -> Labels] /\ key' \in [Conns -> Keys \cup {"nothing"}]
    BY <1>0, <1>a, <1>b, <1>d DEF TypeOK, DecideExpiresRow, Go, ExpireRow, broker, upstream,
      world, Labels
  <2>2. ASSUME NEW e \in Conns PROVE pc'[e] = "idle" <=> key'[e] = "nothing"
    BY <1>0, <1>a, <1>c, <1>d, <2>2, KeysAreNotWords DEF TypeOK
  <2> QED BY <1>0, <1>a, <1>b, <1>d, <2>1, <2>2, AcceptableAreKeys DEF TypeOK,
    DecideExpiresRow, Go, ExpireRow, broker, upstream, world, RowStates, Deciders, About
<1>2. ASSUME NEW q \in Requests PROVE StageOf(q)'
  <2>1. StageOf(q)
    BY DEF IInv
  <2> QED BY <1>0, <1>a, <1>b, <1>d, <2>1, HooksAreNotAsks DEF TypeOK, DecideExpiresRow, Go,
    ExpireRow, broker, upstream, world, StageOf, Early, HolderOf, Owns, Requests, About
<1>3. ASSUME NEW q \in Requests PROVE RecordOf(q)'
  <2>1. RecordOf(q) /\ StageOf(q)
    BY DEF IInv
  <2> QED BY <1>0, <1>a, <1>b, <1>d, <2>1, KeysAreNotWords, AcceptableAreKeys DEF TypeOK,
    DecideExpiresRow, Go, ExpireRow, broker, upstream, world, RecordOf, StageOf, Early,
      HolderOf, Owns, Deciders, About
<1>4. ASSUME NEW q \in Requests PROVE WatchedOf(q)'
  <2>1. WatchedOf(q) /\ StageOf(q)
    BY DEF IInv
  <2> QED BY <1>0, <1>a, <1>b, <1>d, <2>1, KeysAreNotWords, AcceptableAreKeys,
    <1>c DEF TypeOK, DecideExpiresRow, Go, ExpireRow, broker, upstream, world, WatchedOf,
      StageOf, Early, HolderOf, Owns, About
<1>5. ASSUME NEW q \in Requests PROVE OwnedOf(q)'
  <2>1. OwnedOf(q) /\ StageOf(q)
    BY DEF IInv
  <2>2. CASE q = About(c)
    BY <1>0, <1>a, <1>b, <1>d, <2>1, <2>2 DEF TypeOK, DecideExpiresRow, Go, ExpireRow, broker,
      upstream, world, OwnedOf, HolderOf, Owns, About
  <2>3. CASE q # About(c)
    <3>1. row'[q] = row[q] /\ timer'[q] = timer[q] /\ expiring' = expiring
      BY <1>0, <1>a, <1>b, <1>d, <2>3 DEF TypeOK, DecideExpiresRow, Go, ExpireRow, broker,
        upstream, world, About
    <3> QED BY <1>b, <1>c, <1>d, <2>1, <2>3, <3>1 DEF OwnedOf, About
  <2> QED BY <2>2, <2>3
<1>6. ASSUME NEW e \in Conns PROVE HolderOf(e)'
  <2>1. HolderOf(e) /\ Apart(c, e)
    BY DEF IInv
  <2>2. CASE e = c
    BY <1>0, <1>a, <1>b, <1>d, <2>2, KeysAreNotWords DEF TypeOK, DecideExpiresRow, Go,
      ExpireRow, broker, upstream, world, HolderOf, StageOf, RecordOf, Early, Owns, About
  <2>3. CASE e # c /\ pc[e] = "idle"
    BY <1>c, <2>3 DEF HolderOf, Owns
  <2>4. CASE e # c /\ pc[e] # "idle"
    <3>1. About(e) \in Requests
      BY <1>0, <2>4, AboutType
    <3>2. pc'[e] = pc[e] /\ key'[e] = key[e] /\ About(e)' = About(e)
      BY <1>c, <2>4 DEF About
    <3>3. UNCHANGED <<resolvers, sent, up, overdue, winner>>
      BY DEF DecideExpiresRow, broker, upstream, world
    <3>4. \/ row'[About(e)] = row[About(e)]
          \/ row[About(e)] = "pending" /\ row'[About(e)] = "expired"
      <4>1. ExpireRow(About(c)) /\ row \in [Requests -> RowStates]
        BY <1>0 DEF DecideExpiresRow, About, TypeOK
      <4> QED BY <3>1, <4>1 DEF ExpireRow
    <3> QED BY <2>1, <3>2, <3>3, <3>4 DEF HolderOf, Owns
  <2> QED BY <2>2, <2>3, <2>4
<1>7. ASSUME NEW e \in Conns, NEW f \in Conns PROVE Apart(e, f)'
  <2>1. Apart(e, f) /\ HolderOf(e) /\ HolderOf(f)
    BY DEF IInv
  <2> QED BY <1>c, <1>d, <2>1 DEF Apart, HolderOf, Owns, About
<1>8. ASSUME NEW j \in Keys PROVE ResultOf(j)'
  <2>1. Target[j] \in Requests
    BY TargetsAreRequests
  <2>2. ResultOf(j) /\ RecordOf(Target[j]) /\ StageOf(Target[j])
    BY <2>1 DEF IInv
  <2> QED BY <1>0, <1>a, <1>b, <1>d, <2>1, <2>2, KeysAreNotWords DEF TypeOK, DecideExpiresRow,
    Go, ExpireRow, broker, upstream, world, ResultOf, RecordOf, StageOf, Early, HolderOf,
      Owns, About
<1> QED BY <1>1, <1>2, <1>3, <1>4, <1>5, <1>6, <1>7, <1>8 DEF IInv

LEMMA TakeInv ==
    ASSUME IInv, NEW c \in Conns, Take(c)
    PROVE  IInv'
<1>0. TypeOK
  BY DEF IInv
<1>a. pc[c] # "idle" /\ key[c] \in Keys /\ About(c) \in Requests
  BY <1>0, AboutType DEF Take
<1>b. HolderOf(c) /\ StageOf(About(c)) /\ RecordOf(About(c)) /\ OwnedOf(About(c))
  BY <1>a DEF IInv
<1>c. ASSUME NEW e \in Conns, e # c PROVE pc'[e] = pc[e] /\ key'[e] = key[e]
  BY <1>0, <1>c DEF TypeOK, Take, Go, Abort, store, upstream, world
<1>d. /\ pc[c] = "take" /\ key'[c] = key[c]
     /\ \/ pc'[c] = "resolve" /\ About(c) \in resolvers
        \/ pc'[c] = "refuse" /\ About(c) \notin resolvers
  BY <1>0, <1>a DEF TypeOK, Take, Go, Abort, store, upstream, world, About
<1>1. TypeOK'
  <2>1. pc' \in [Conns -> Labels] /\ key' \in [Conns -> Keys \cup {"nothing"}]
    BY <1>0, <1>a, <1>b, <1>d DEF TypeOK, Take, Go, Abort, store, upstream, world, Labels
  <2>2. ASSUME NEW e \in Conns PROVE pc'[e] = "idle" <=> key'[e] = "nothing"
    BY <1>0, <1>a, <1>c, <1>d, <2>2, KeysAreNotWords DEF TypeOK
  <2>3. resolvers' \subseteq Requests /\ timer' \in [Requests -> {"off", "armed", "expiring"}]
    BY <1>0, <1>a DEF TypeOK, Take, Go, Abort, store, upstream, world, About
  <2> QED BY <1>0, <1>a, <1>b, <1>d, <2>1, <2>2, <2>3, AcceptableAreKeys DEF TypeOK, Take, Go,
    Abort, store, upstream, world, RowStates, Deciders, About
<1>2. ASSUME NEW q \in Requests PROVE StageOf(q)'
  <2>1. StageOf(q)
    BY DEF IInv
  <2> QED BY <1>0, <1>a, <1>b, <1>d, <2>1, HooksAreNotAsks DEF TypeOK, Take, Go, Abort, store,
    upstream, world, StageOf, Early, HolderOf, Owns, Requests, About
<1>3. ASSUME NEW q \in Requests PROVE RecordOf(q)'
  <2>1. RecordOf(q) /\ StageOf(q)
    BY DEF IInv
  <2> QED BY <1>0, <1>a, <1>b, <1>d, <2>1, KeysAreNotWords, AcceptableAreKeys DEF TypeOK,
    Take, Go, Abort, store, upstream, world, RecordOf, StageOf, Early, HolderOf, Owns,
      Deciders, About
<1>4. ASSUME NEW q \in Requests PROVE WatchedOf(q)'
  <2>1. WatchedOf(q) /\ StageOf(q)
    BY DEF IInv
  <2> QED BY <1>0, <1>a, <1>b, <1>d, <2>1, KeysAreNotWords, AcceptableAreKeys,
    <1>c DEF TypeOK, Take, Go, Abort, store, upstream, world, WatchedOf, StageOf, Early,
      HolderOf, Owns, About
<1>5. ASSUME NEW q \in Requests PROVE OwnedOf(q)'
  <2>1. OwnedOf(q) /\ StageOf(q)
    BY DEF IInv
  <2>2. CASE q = About(c)
    <3>1. row' = row /\ expiring' = expiring
      BY DEF Take, store, upstream
    <3>2. CASE pc'[c] = "resolve"
      BY <1>d, <2>2, <3>2 DEF OwnedOf, About
    <3>3. CASE pc'[c] # "resolve"
      <4>1. timer' = timer
        BY <1>d, <3>3 DEF Take, About
      <4>2. ASSUME NEW e \in Conns, pc[e] \in {"resolve", "error", "expire_row"}
            PROVE  pc'[e] = pc[e] /\ About(e)' = About(e)
        BY <1>c, <1>d, <4>2 DEF About
      <4> QED BY <2>1, <3>1, <4>1, <4>2 DEF OwnedOf
    <3> QED BY <3>2, <3>3
  <2>3. CASE q # About(c)
    <3>1. row'[q] = row[q] /\ timer'[q] = timer[q] /\ expiring' = expiring
      BY <1>0, <1>a, <1>b, <1>d, <2>3 DEF TypeOK, Take, Go, Abort, store, upstream, world, About
    <3> QED BY <1>b, <1>c, <1>d, <2>1, <2>3, <3>1 DEF OwnedOf, About
  <2> QED BY <2>2, <2>3
<1>6. ASSUME NEW e \in Conns PROVE HolderOf(e)'
  <2>1. HolderOf(e) /\ Apart(c, e)
    BY DEF IInv
  <2>2. CASE e = c
    BY <1>0, <1>a, <1>b, <1>d, <2>2, KeysAreNotWords DEF TypeOK, Take, Go, Abort, store,
      upstream, world, HolderOf, StageOf, RecordOf, Early, Owns, About
  <2>3. CASE e # c /\ pc[e] = "idle"
    BY <1>c, <2>3 DEF HolderOf, Owns
  <2>4. CASE e # c /\ pc[e] # "idle"
    <3>1. About(e) \in Requests
      BY <1>0, <2>4, AboutType
    <3>2. StageOf(About(e)) /\ RecordOf(About(e))
      BY <3>1 DEF IInv
    <3>3. pc'[e] = pc[e] /\ key'[e] = key[e] /\ About(e)' = About(e)
      BY <1>c, <2>4 DEF About
    <3>4. /\ row[About(e)] # "absent" => row'[About(e)] # "absent"
          /\ About(e) \in overdue => About(e) \in overdue'
          /\ up' = up
      BY <1>0, <1>a, <1>b, <1>d, <3>1 DEF TypeOK, Take, Go, Abort, store, upstream, world
    <3>5. ASSUME Owns(e)
          PROVE  /\ About(e) \notin resolvers' /\ sent'[About(e)] = "nothing"
                 /\ pc[e] = "resolve" => row'[About(e)] # "resolved"
                 /\ pc[e] = "send" => /\ row'[About(e)] = "resolved"
                                      /\ winner'[About(e)] = key[e]
      <4>1. HolderOf(e) /\ Owns(e)
        BY <2>1, <3>5
      <4> QED BY <1>0, <1>a, <1>b, <1>d, <2>1, <2>4, <3>1, <3>2, <4>1 DEF TypeOK, Take, Go,
        Abort, store, upstream, world, HolderOf, StageOf, Apart, Owns
    <3> QED BY <2>1, <3>3, <3>4, <3>5 DEF HolderOf, Owns
  <2> QED BY <2>2, <2>3, <2>4
<1>7. ASSUME NEW e \in Conns, NEW f \in Conns PROVE Apart(e, f)'
  <2>1. Apart(e, f) /\ HolderOf(e) /\ HolderOf(f)
    BY DEF IInv
  <2> QED BY <1>c, <1>d, <2>1 DEF Apart, HolderOf, Owns, About
<1>8. ASSUME NEW j \in Keys PROVE ResultOf(j)'
  <2>1. Target[j] \in Requests
    BY TargetsAreRequests
  <2>2. ResultOf(j) /\ RecordOf(Target[j]) /\ StageOf(Target[j])
    BY <2>1 DEF IInv
  <2> QED BY <1>0, <1>a, <1>b, <1>d, <2>1, <2>2, KeysAreNotWords DEF TypeOK, Take, Go, Abort,
    store, upstream, world, ResultOf, RecordOf, StageOf, Early, HolderOf, Owns, About
<1> QED BY <1>1, <1>2, <1>3, <1>4, <1>5, <1>6, <1>7, <1>8 DEF IInv

LEMMA ResolveInv ==
    ASSUME IInv, NEW c \in Conns, Resolve(c)
    PROVE  IInv'
<1>0. TypeOK
  BY DEF IInv
<1>a. pc[c] # "idle" /\ key[c] \in Keys /\ About(c) \in Requests
  BY <1>0, AboutType DEF Resolve
<1>b. HolderOf(c) /\ StageOf(About(c)) /\ RecordOf(About(c)) /\ OwnedOf(About(c))
  BY <1>a DEF IInv
<1>c. ASSUME NEW e \in Conns, e # c PROVE pc'[e] = pc[e] /\ key'[e] = key[e]
  BY <1>0, <1>c DEF TypeOK, Resolve, Go, StoreResult, broker, upstream, world
<1>d. pc[c] = "resolve" /\ pc'[c] = "send" /\ key'[c] = key[c]
  BY <1>0, <1>a DEF TypeOK, Resolve, Go, StoreResult, broker, upstream, world, About
<1>1. TypeOK'
  <2>1. pc' \in [Conns -> Labels] /\ key' \in [Conns -> Keys \cup {"nothing"}]
    BY <1>0, <1>a, <1>b, <1>d DEF TypeOK, Resolve, Go, StoreResult, broker, upstream, world,
      Labels
  <2>2. ASSUME NEW e \in Conns PROVE pc'[e] = "idle" <=> key'[e] = "nothing"
    BY <1>0, <1>a, <1>c, <1>d, <2>2, KeysAreNotWords DEF TypeOK
  <2> QED BY <1>0, <1>a, <1>b, <1>d, <2>1, <2>2, AcceptableAreKeys DEF TypeOK, Resolve, Go,
    StoreResult, broker, upstream, world, RowStates, Deciders, About
<1>2. ASSUME NEW q \in Requests PROVE StageOf(q)'
  <2>1. StageOf(q)
    BY DEF IInv
  <2> QED BY <1>0, <1>a, <1>b, <1>d, <2>1, HooksAreNotAsks DEF TypeOK, Resolve, Go,
    StoreResult, broker, upstream, world, StageOf, Early, HolderOf, Owns, Requests, About
<1>3. ASSUME NEW q \in Requests PROVE RecordOf(q)'
  <2>1. RecordOf(q) /\ StageOf(q)
    BY DEF IInv
  <2> QED BY <1>0, <1>a, <1>b, <1>d, <2>1, KeysAreNotWords, AcceptableAreKeys DEF TypeOK,
    Resolve, Go, StoreResult, broker, upstream, world, RecordOf, StageOf, Early, HolderOf,
      Owns, Deciders, About
<1>4. ASSUME NEW q \in Requests PROVE WatchedOf(q)'
  <2>1. WatchedOf(q) /\ StageOf(q)
    BY DEF IInv
  <2> QED BY <1>0, <1>a, <1>b, <1>d, <2>1, KeysAreNotWords, AcceptableAreKeys,
    <1>c DEF TypeOK, Resolve, Go, StoreResult, broker, upstream, world, WatchedOf, StageOf,
      Early, HolderOf, Owns, About
<1>5. ASSUME NEW q \in Requests PROVE OwnedOf(q)'
  <2>1. OwnedOf(q) /\ StageOf(q)
    BY DEF IInv
  <2>2. CASE q = About(c)
    BY <1>0, <1>a, <1>b, <1>d, <2>1, <2>2 DEF TypeOK, Resolve, Go, StoreResult, broker,
      upstream, world, OwnedOf, HolderOf, Owns, About
  <2>3. CASE q # About(c)
    <3>1. row'[q] = row[q] /\ timer'[q] = timer[q] /\ expiring' = expiring
      BY <1>0, <1>a, <1>b, <1>d, <2>3 DEF TypeOK, Resolve, Go, StoreResult, broker, upstream,
        world, About
    <3> QED BY <1>b, <1>c, <1>d, <2>1, <2>3, <3>1 DEF OwnedOf, About
  <2> QED BY <2>2, <2>3
<1>6. ASSUME NEW e \in Conns PROVE HolderOf(e)'
  <2>1. HolderOf(e) /\ Apart(c, e)
    BY DEF IInv
  <2>2. CASE e = c
    BY <1>0, <1>a, <1>b, <1>d, <2>2, KeysAreNotWords DEF TypeOK, Resolve, Go, StoreResult,
      broker, upstream, world, HolderOf, StageOf, RecordOf, Early, Owns, About
  <2>3. CASE e # c /\ pc[e] = "idle"
    BY <1>c, <2>3 DEF HolderOf, Owns
  <2>4. CASE e # c /\ pc[e] # "idle"
    <3>1. About(e) \in Requests
      BY <1>0, <2>4, AboutType
    <3>2. pc'[e] = pc[e] /\ key'[e] = key[e] /\ About(e)' = About(e)
      BY <1>c, <2>4 DEF About
    <3>3. UNCHANGED <<resolvers, sent, up, overdue>>
      BY DEF Resolve, broker, upstream, world
    <3>4. row[About(e)] # "absent" => row'[About(e)] # "absent"
      BY <1>0, <1>b, <3>1 DEF TypeOK, Resolve, About
    <3>5. ASSUME Owns(e)
          PROVE  row'[About(e)] = row[About(e)] /\ winner'[About(e)] = winner[About(e)]
      <4>1. About(e) # About(c)
        BY <1>d, <2>1, <2>4, <3>5 DEF Apart, Owns
      <4> QED BY <1>0, <3>1, <4>1 DEF TypeOK, Resolve, About
    <3> QED BY <2>1, <3>2, <3>3, <3>4, <3>5 DEF HolderOf, Owns
  <2> QED BY <2>2, <2>3, <2>4
<1>7. ASSUME NEW e \in Conns, NEW f \in Conns PROVE Apart(e, f)'
  <2>1. Apart(e, f) /\ HolderOf(e) /\ HolderOf(f)
    BY DEF IInv
  <2> QED BY <1>c, <1>d, <2>1 DEF Apart, HolderOf, Owns, About
<1>8. ASSUME NEW j \in Keys PROVE ResultOf(j)'
  <2>1. Target[j] \in Requests
    BY TargetsAreRequests
  <2>2. ResultOf(j) /\ RecordOf(Target[j]) /\ StageOf(Target[j])
    BY <2>1 DEF IInv
  <2> QED BY <1>0, <1>a, <1>b, <1>d, <2>1, <2>2, KeysAreNotWords DEF TypeOK, Resolve, Go,
    StoreResult, broker, upstream, world, ResultOf, RecordOf, StageOf, Early, HolderOf, Owns,
      About
<1> QED BY <1>1, <1>2, <1>3, <1>4, <1>5, <1>6, <1>7, <1>8 DEF IInv

LEMMA ResolveTooLateInv ==
    ASSUME IInv, NEW c \in Conns, ResolveTooLate(c)
    PROVE  IInv'
<1>0. TypeOK
  BY DEF IInv
<1>a. pc[c] # "idle" /\ key[c] \in Keys /\ About(c) \in Requests
  BY <1>0, AboutType DEF ResolveTooLate
<1>b. HolderOf(c) /\ StageOf(About(c)) /\ RecordOf(About(c)) /\ OwnedOf(About(c))
  BY <1>a DEF IInv
<1>c. ASSUME NEW e \in Conns, e # c PROVE pc'[e] = pc[e] /\ key'[e] = key[e]
  BY <1>0, <1>c DEF TypeOK, ResolveTooLate, Go, Send, Listening, store, upstream, world
<1>d. pc[c] = "resolve" /\ pc'[c] = "refuse" /\ key'[c] = key[c]
  BY <1>0, <1>a DEF TypeOK, ResolveTooLate, Go, Send, Listening, store, upstream, world, About
<1>1. TypeOK'
  <2>1. pc' \in [Conns -> Labels] /\ key' \in [Conns -> Keys \cup {"nothing"}]
    BY <1>0, <1>a, <1>b, <1>d DEF TypeOK, ResolveTooLate, Go, Send, Listening, store,
      upstream, world, Labels
  <2>2. ASSUME NEW e \in Conns PROVE pc'[e] = "idle" <=> key'[e] = "nothing"
    BY <1>0, <1>a, <1>c, <1>d, <2>2, KeysAreNotWords DEF TypeOK
  <2> QED BY <1>0, <1>a, <1>b, <1>d, <2>1, <2>2, AcceptableAreKeys DEF TypeOK, ResolveTooLate,
    Go, Send, Listening, store, upstream, world, RowStates, Deciders, About
<1>2. ASSUME NEW q \in Requests PROVE StageOf(q)'
  <2>1. StageOf(q)
    BY DEF IInv
  <2> QED BY <1>0, <1>a, <1>b, <1>d, <2>1, HooksAreNotAsks DEF TypeOK, ResolveTooLate, Go,
    Send, Listening, store, upstream, world, StageOf, Early, HolderOf, Owns, Requests, About
<1>3. ASSUME NEW q \in Requests PROVE RecordOf(q)'
  <2>1. RecordOf(q) /\ StageOf(q)
    BY DEF IInv
  <2> QED BY <1>0, <1>a, <1>b, <1>d, <2>1, KeysAreNotWords, AcceptableAreKeys DEF TypeOK,
    ResolveTooLate, Go, Send, Listening, store, upstream, world, RecordOf, StageOf, Early,
      HolderOf, Owns, Deciders, About
<1>4. ASSUME NEW q \in Requests PROVE WatchedOf(q)'
  <2>1. WatchedOf(q) /\ StageOf(q)
    BY DEF IInv
  <2> QED BY <1>0, <1>a, <1>b, <1>d, <2>1, KeysAreNotWords, AcceptableAreKeys,
    <1>c DEF TypeOK, ResolveTooLate, Go, Send, Listening, store, upstream, world, WatchedOf,
      StageOf, Early, HolderOf, Owns, About
<1>5. ASSUME NEW q \in Requests PROVE OwnedOf(q)'
  <2>1. OwnedOf(q) /\ StageOf(q)
    BY DEF IInv
  <2>2. CASE q = About(c)
    BY <1>0, <1>a, <1>b, <1>d, <2>1, <2>2 DEF TypeOK, ResolveTooLate, Go, Send, Listening,
      store, upstream, world, OwnedOf, HolderOf, Owns, About
  <2>3. CASE q # About(c)
    <3>1. row'[q] = row[q] /\ timer'[q] = timer[q] /\ expiring' = expiring
      BY <1>0, <1>a, <1>b, <1>d, <2>3 DEF TypeOK, ResolveTooLate, Go, Send, Listening, store,
        upstream, world, About
    <3> QED BY <1>b, <1>c, <1>d, <2>1, <2>3, <3>1 DEF OwnedOf, About
  <2> QED BY <2>2, <2>3
<1>6. ASSUME NEW e \in Conns PROVE HolderOf(e)'
  <2>1. HolderOf(e) /\ Apart(c, e)
    BY DEF IInv
  <2>2. CASE e = c
    BY <1>0, <1>a, <1>b, <1>d, <2>2, KeysAreNotWords DEF TypeOK, ResolveTooLate, Go, Send,
      Listening, store, upstream, world, HolderOf, StageOf, RecordOf, Early, Owns, About
  <2>3. CASE e # c /\ pc[e] = "idle"
    BY <1>c, <2>3 DEF HolderOf, Owns
  <2>4. CASE e # c /\ pc[e] # "idle"
    <3>1. About(e) \in Requests
      BY <1>0, <2>4, AboutType
    <3>2. StageOf(About(e)) /\ RecordOf(About(e))
      BY <3>1 DEF IInv
    <3> QED BY <1>0, <1>a, <1>b, <1>d, <1>c, <2>1, <2>4, <3>1, <3>2,
      KeysAreNotWords DEF TypeOK, ResolveTooLate, Go, Send, Listening, store, upstream, world,
        HolderOf, StageOf, RecordOf, Early, Owns, About, Apart
  <2> QED BY <2>2, <2>3, <2>4
<1>7. ASSUME NEW e \in Conns, NEW f \in Conns PROVE Apart(e, f)'
  <2>1. Apart(e, f) /\ HolderOf(e) /\ HolderOf(f)
    BY DEF IInv
  <2> QED BY <1>c, <1>d, <2>1 DEF Apart, HolderOf, Owns, About
<1>8. ASSUME NEW j \in Keys PROVE ResultOf(j)'
  <2>1. Target[j] \in Requests
    BY TargetsAreRequests
  <2>2. ResultOf(j) /\ RecordOf(Target[j]) /\ StageOf(Target[j])
    BY <2>1 DEF IInv
  <2> QED BY <1>0, <1>a, <1>b, <1>d, <2>1, <2>2, KeysAreNotWords DEF TypeOK, ResolveTooLate,
    Go, Send, Listening, store, upstream, world, ResultOf, RecordOf, StageOf, Early, HolderOf,
      Owns, About
<1> QED BY <1>1, <1>2, <1>3, <1>4, <1>5, <1>6, <1>7, <1>8 DEF IInv

LEMMA ResolveFailsInv ==
    ASSUME IInv, NEW c \in Conns, ResolveFails(c)
    PROVE  IInv'
<1>0. TypeOK
  BY DEF IInv
<1>a. pc[c] # "idle" /\ key[c] \in Keys /\ About(c) \in Requests
  BY <1>0, AboutType DEF ResolveFails
<1>b. HolderOf(c) /\ StageOf(About(c)) /\ RecordOf(About(c)) /\ OwnedOf(About(c))
  BY <1>a DEF IInv
<1>c. ASSUME NEW e \in Conns, e # c PROVE pc'[e] = pc[e] /\ key'[e] = key[e]
  BY <1>0, <1>c DEF TypeOK, ResolveFails, Go, Send, Listening, store, upstream, world
<1>d. pc[c] = "resolve" /\ pc'[c] = "error" /\ key'[c] = key[c]
  BY <1>0, <1>a DEF TypeOK, ResolveFails, Go, Send, Listening, store, upstream, world, About
<1>1. TypeOK'
  <2>1. pc' \in [Conns -> Labels] /\ key' \in [Conns -> Keys \cup {"nothing"}]
    BY <1>0, <1>a, <1>b, <1>d DEF TypeOK, ResolveFails, Go, Send, Listening, store, upstream,
      world, Labels
  <2>2. ASSUME NEW e \in Conns PROVE pc'[e] = "idle" <=> key'[e] = "nothing"
    BY <1>0, <1>a, <1>c, <1>d, <2>2, KeysAreNotWords DEF TypeOK
  <2> QED BY <1>0, <1>a, <1>b, <1>d, <2>1, <2>2, AcceptableAreKeys DEF TypeOK, ResolveFails,
    Go, Send, Listening, store, upstream, world, RowStates, Deciders, About
<1>2. ASSUME NEW q \in Requests PROVE StageOf(q)'
  <2>1. StageOf(q)
    BY DEF IInv
  <2> QED BY <1>0, <1>a, <1>b, <1>d, <2>1, HooksAreNotAsks DEF TypeOK, ResolveFails, Go, Send,
    Listening, store, upstream, world, StageOf, Early, HolderOf, Owns, Requests, About
<1>3. ASSUME NEW q \in Requests PROVE RecordOf(q)'
  <2>1. RecordOf(q) /\ StageOf(q)
    BY DEF IInv
  <2> QED BY <1>0, <1>a, <1>b, <1>d, <2>1, KeysAreNotWords, AcceptableAreKeys DEF TypeOK,
    ResolveFails, Go, Send, Listening, store, upstream, world, RecordOf, StageOf, Early,
      HolderOf, Owns, Deciders, About
<1>4. ASSUME NEW q \in Requests PROVE WatchedOf(q)'
  <2>1. WatchedOf(q) /\ StageOf(q)
    BY DEF IInv
  <2> QED BY <1>0, <1>a, <1>b, <1>d, <2>1, KeysAreNotWords, AcceptableAreKeys,
    <1>c DEF TypeOK, ResolveFails, Go, Send, Listening, store, upstream, world, WatchedOf,
      StageOf, Early, HolderOf, Owns, About
<1>5. ASSUME NEW q \in Requests PROVE OwnedOf(q)'
  <2>1. OwnedOf(q) /\ StageOf(q)
    BY DEF IInv
  <2>2. CASE q = About(c)
    BY <1>0, <1>a, <1>b, <1>d, <2>1, <2>2 DEF TypeOK, ResolveFails, Go, Send, Listening,
      store, upstream, world, OwnedOf, HolderOf, Owns, About
  <2>3. CASE q # About(c)
    <3>1. row'[q] = row[q] /\ timer'[q] = timer[q] /\ expiring' = expiring
      BY <1>0, <1>a, <1>b, <1>d, <2>3 DEF TypeOK, ResolveFails, Go, Send, Listening, store,
        upstream, world, About
    <3> QED BY <1>b, <1>c, <1>d, <2>1, <2>3, <3>1 DEF OwnedOf, About
  <2> QED BY <2>2, <2>3
<1>6. ASSUME NEW e \in Conns PROVE HolderOf(e)'
  <2>1. HolderOf(e) /\ Apart(c, e)
    BY DEF IInv
  <2>2. CASE e = c
    BY <1>0, <1>a, <1>b, <1>d, <2>2, KeysAreNotWords DEF TypeOK, ResolveFails, Go, Send,
      Listening, store, upstream, world, HolderOf, StageOf, RecordOf, Early, Owns, About
  <2>3. CASE e # c /\ pc[e] = "idle"
    BY <1>c, <2>3 DEF HolderOf, Owns
  <2>4. CASE e # c /\ pc[e] # "idle"
    <3>1. About(e) \in Requests
      BY <1>0, <2>4, AboutType
    <3>2. StageOf(About(e)) /\ RecordOf(About(e))
      BY <3>1 DEF IInv
    <3> QED BY <1>0, <1>a, <1>b, <1>d, <1>c, <2>1, <2>4, <3>1, <3>2,
      KeysAreNotWords DEF TypeOK, ResolveFails, Go, Send, Listening, store, upstream, world,
        HolderOf, StageOf, RecordOf, Early, Owns, About, Apart
  <2> QED BY <2>2, <2>3, <2>4
<1>7. ASSUME NEW e \in Conns, NEW f \in Conns PROVE Apart(e, f)'
  <2>1. Apart(e, f) /\ HolderOf(e) /\ HolderOf(f)
    BY DEF IInv
  <2> QED BY <1>c, <1>d, <2>1 DEF Apart, HolderOf, Owns, About
<1>8. ASSUME NEW j \in Keys PROVE ResultOf(j)'
  <2>1. Target[j] \in Requests
    BY TargetsAreRequests
  <2>2. ResultOf(j) /\ RecordOf(Target[j]) /\ StageOf(Target[j])
    BY <2>1 DEF IInv
  <2> QED BY <1>0, <1>a, <1>b, <1>d, <2>1, <2>2, KeysAreNotWords DEF TypeOK, ResolveFails, Go,
    Send, Listening, store, upstream, world, ResultOf, RecordOf, StageOf, Early, HolderOf,
      Owns, About
<1> QED BY <1>1, <1>2, <1>3, <1>4, <1>5, <1>6, <1>7, <1>8 DEF IInv

LEMMA ErrorExpiresRowInv ==
    ASSUME IInv, NEW c \in Conns, ErrorExpiresRow(c)
    PROVE  IInv'
<1>0. TypeOK
  BY DEF IInv
<1>a. pc[c] # "idle" /\ key[c] \in Keys /\ About(c) \in Requests
  BY <1>0, AboutType DEF ErrorExpiresRow
<1>b. HolderOf(c) /\ StageOf(About(c)) /\ RecordOf(About(c)) /\ OwnedOf(About(c))
  BY <1>a DEF IInv
<1>c. ASSUME NEW e \in Conns, e # c PROVE pc'[e] = pc[e] /\ key'[e] = key[e]
  BY <1>0, <1>c DEF TypeOK, ErrorExpiresRow, Go, Idle, ExpireRow, broker, upstream, world
<1>d. pc[c] = "error" /\ pc'[c] = "idle" /\ key'[c] = "nothing"
  BY <1>0, <1>a DEF TypeOK, ErrorExpiresRow, Go, Idle, ExpireRow, broker, upstream, world, About
<1>1. TypeOK'
  <2>1. pc' \in [Conns -> Labels] /\ key' \in [Conns -> Keys \cup {"nothing"}]
    BY <1>0, <1>a, <1>b, <1>d DEF TypeOK, ErrorExpiresRow, Go, Idle, ExpireRow, broker,
      upstream, world, Labels
  <2>2. ASSUME NEW e \in Conns PROVE pc'[e] = "idle" <=> key'[e] = "nothing"
    BY <1>0, <1>a, <1>c, <1>d, <2>2, KeysAreNotWords DEF TypeOK
  <2> QED BY <1>0, <1>a, <1>b, <1>d, <2>1, <2>2, AcceptableAreKeys DEF TypeOK,
    ErrorExpiresRow, Go, Idle, ExpireRow, broker, upstream, world, RowStates, Deciders, About
<1>2. ASSUME NEW q \in Requests PROVE StageOf(q)'
  <2>1. StageOf(q)
    BY DEF IInv
  <2> QED BY <1>0, <1>a, <1>b, <1>d, <2>1, HooksAreNotAsks DEF TypeOK, ErrorExpiresRow, Go,
    Idle, ExpireRow, broker, upstream, world, StageOf, Early, HolderOf, Owns, Requests, About
<1>3. ASSUME NEW q \in Requests PROVE RecordOf(q)'
  <2>1. RecordOf(q) /\ StageOf(q)
    BY DEF IInv
  <2> QED BY <1>0, <1>a, <1>b, <1>d, <2>1, KeysAreNotWords, AcceptableAreKeys DEF TypeOK,
    ErrorExpiresRow, Go, Idle, ExpireRow, broker, upstream, world, RecordOf, StageOf, Early,
      HolderOf, Owns, Deciders, About
<1>4. ASSUME NEW q \in Requests PROVE WatchedOf(q)'
  <2>1. WatchedOf(q) /\ StageOf(q)
    BY DEF IInv
  <2> QED BY <1>0, <1>a, <1>b, <1>d, <2>1, KeysAreNotWords, AcceptableAreKeys,
    <1>c DEF TypeOK, ErrorExpiresRow, Go, Idle, ExpireRow, broker, upstream, world, WatchedOf,
      StageOf, Early, HolderOf, Owns, About
<1>5. ASSUME NEW q \in Requests PROVE OwnedOf(q)'
  <2>1. OwnedOf(q) /\ StageOf(q)
    BY DEF IInv
  <2>2. CASE q = About(c)
    BY <1>0, <1>a, <1>b, <1>d, <2>1, <2>2 DEF TypeOK, ErrorExpiresRow, Go, Idle, ExpireRow,
      broker, upstream, world, OwnedOf, HolderOf, Owns, About
  <2>3. CASE q # About(c)
    <3>1. row'[q] = row[q] /\ timer'[q] = timer[q] /\ expiring' = expiring
      BY <1>0, <1>a, <1>b, <1>d, <2>3 DEF TypeOK, ErrorExpiresRow, Go, Idle, ExpireRow,
        broker, upstream, world, About
    <3> QED BY <1>b, <1>c, <1>d, <2>1, <2>3, <3>1 DEF OwnedOf, About
  <2> QED BY <2>2, <2>3
<1>6. ASSUME NEW e \in Conns PROVE HolderOf(e)'
  <2>1. HolderOf(e) /\ Apart(c, e)
    BY DEF IInv
  <2>2. CASE e = c
    BY <1>0, <1>a, <1>b, <1>d, <2>2, KeysAreNotWords DEF TypeOK, ErrorExpiresRow, Go, Idle,
      ExpireRow, broker, upstream, world, HolderOf, StageOf, RecordOf, Early, Owns, About
  <2>3. CASE e # c /\ pc[e] = "idle"
    BY <1>c, <2>3 DEF HolderOf, Owns
  <2>4. CASE e # c /\ pc[e] # "idle"
    <3>1. About(e) \in Requests
      BY <1>0, <2>4, AboutType
    <3>2. StageOf(About(e)) /\ RecordOf(About(e))
      BY <3>1 DEF IInv
    <3>3. pc'[e] = pc[e] /\ key'[e] = key[e] /\ About(e)' = About(e)
      BY <1>c, <2>4 DEF About
    <3>4. /\ row[About(e)] # "absent" => row'[About(e)] # "absent"
          /\ About(e) \in overdue => About(e) \in overdue'
          /\ up' = up
      BY <1>0, <1>a, <1>b, <1>d, <3>1 DEF TypeOK, ErrorExpiresRow, Go, Idle, ExpireRow,
        broker, upstream, world
    <3>5. ASSUME Owns(e)
          PROVE  /\ About(e) \notin resolvers' /\ sent'[About(e)] = "nothing"
                 /\ pc[e] = "resolve" => row'[About(e)] # "resolved"
                 /\ pc[e] = "send" => /\ row'[About(e)] = "resolved"
                                      /\ winner'[About(e)] = key[e]
      <4>1. HolderOf(e) /\ Owns(e)
        BY <2>1, <3>5
      <4> QED BY <1>0, <1>a, <1>b, <1>d, <2>1, <2>4, <3>1, <3>2, <4>1 DEF TypeOK,
        ErrorExpiresRow, Go, Idle, ExpireRow, broker, upstream, world, HolderOf, StageOf,
          Apart, Owns
    <3> QED BY <2>1, <3>3, <3>4, <3>5 DEF HolderOf, Owns
  <2> QED BY <2>2, <2>3, <2>4
<1>7. ASSUME NEW e \in Conns, NEW f \in Conns PROVE Apart(e, f)'
  <2>1. Apart(e, f) /\ HolderOf(e) /\ HolderOf(f)
    BY DEF IInv
  <2> QED BY <1>c, <1>d, <2>1 DEF Apart, HolderOf, Owns, About
<1>8. ASSUME NEW j \in Keys PROVE ResultOf(j)'
  <2>1. Target[j] \in Requests
    BY TargetsAreRequests
  <2>2. ResultOf(j) /\ RecordOf(Target[j]) /\ StageOf(Target[j])
    BY <2>1 DEF IInv
  <2> QED BY <1>0, <1>a, <1>b, <1>d, <2>1, <2>2, KeysAreNotWords DEF TypeOK, ErrorExpiresRow,
    Go, Idle, ExpireRow, broker, upstream, world, ResultOf, RecordOf, StageOf, Early,
      HolderOf, Owns, About
<1> QED BY <1>1, <1>2, <1>3, <1>4, <1>5, <1>6, <1>7, <1>8 DEF IInv

LEMMA DeliverInv ==
    ASSUME IInv, NEW c \in Conns, Deliver(c)
    PROVE  IInv'
<1>0. TypeOK
  BY DEF IInv
<1>a. pc[c] # "idle" /\ key[c] \in Keys /\ About(c) \in Requests
  BY <1>0, AboutType DEF Deliver
<1>b. HolderOf(c) /\ StageOf(About(c)) /\ RecordOf(About(c)) /\ OwnedOf(About(c))
  BY <1>a DEF IInv
<1>c. ASSUME NEW e \in Conns, e # c PROVE pc'[e] = pc[e] /\ key'[e] = key[e]
  BY <1>0, <1>c DEF TypeOK, Deliver, Go, Reply, Idle, Send, Listening, store, upstream, world
<1>d. pc[c] = "send" /\ pc'[c] = "idle" /\ key'[c] = "nothing"
  BY <1>0, <1>a DEF TypeOK, Deliver, Go, Reply, Idle, Send, Listening, store, upstream, world,
    About
<1>1. TypeOK'
  <2>1. pc' \in [Conns -> Labels] /\ key' \in [Conns -> Keys \cup {"nothing"}]
    BY <1>0, <1>a, <1>b, <1>d DEF TypeOK, Deliver, Go, Reply, Idle, Send, Listening, store,
      upstream, world, Labels
  <2>2. ASSUME NEW e \in Conns PROVE pc'[e] = "idle" <=> key'[e] = "nothing"
    BY <1>0, <1>a, <1>c, <1>d, <2>2, KeysAreNotWords DEF TypeOK
  <2> QED BY <1>0, <1>a, <1>b, <1>d, <2>1, <2>2, AcceptableAreKeys DEF TypeOK, Deliver, Go,
    Reply, Idle, Send, Listening, store, upstream, world, RowStates, Deciders, About
<1>2. ASSUME NEW q \in Requests PROVE StageOf(q)'
  <2>1. StageOf(q)
    BY DEF IInv
  <2> QED BY <1>0, <1>a, <1>b, <1>d, <2>1, HooksAreNotAsks DEF TypeOK, Deliver, Go, Reply,
    Idle, Send, Listening, store, upstream, world, StageOf, Early, HolderOf, Owns, Requests,
      About
<1>3. ASSUME NEW q \in Requests PROVE RecordOf(q)'
  <2>1. RecordOf(q) /\ StageOf(q)
    BY DEF IInv
  <2> QED BY <1>0, <1>a, <1>b, <1>d, <2>1, KeysAreNotWords, AcceptableAreKeys DEF TypeOK,
    Deliver, Go, Reply, Idle, Send, Listening, store, upstream, world, RecordOf, StageOf,
      Early, HolderOf, Owns, Deciders, About
<1>4. ASSUME NEW q \in Requests PROVE WatchedOf(q)'
  <2>1. WatchedOf(q) /\ StageOf(q)
    BY DEF IInv
  <2> QED BY <1>0, <1>a, <1>b, <1>d, <2>1, KeysAreNotWords, AcceptableAreKeys,
    <1>c DEF TypeOK, Deliver, Go, Reply, Idle, Send, Listening, store, upstream, world,
      WatchedOf, StageOf, Early, HolderOf, Owns, About
<1>5. ASSUME NEW q \in Requests PROVE OwnedOf(q)'
  <2>1. OwnedOf(q) /\ StageOf(q)
    BY DEF IInv
  <2>2. CASE q = About(c)
    BY <1>0, <1>a, <1>b, <1>d, <2>1, <2>2 DEF TypeOK, Deliver, Go, Reply, Idle, Send,
      Listening, store, upstream, world, OwnedOf, HolderOf, Owns, About
  <2>3. CASE q # About(c)
    <3>1. row'[q] = row[q] /\ timer'[q] = timer[q] /\ expiring' = expiring
      BY <1>0, <1>a, <1>b, <1>d, <2>3 DEF TypeOK, Deliver, Go, Reply, Idle, Send, Listening,
        store, upstream, world, About
    <3> QED BY <1>b, <1>c, <1>d, <2>1, <2>3, <3>1 DEF OwnedOf, About
  <2> QED BY <2>2, <2>3
<1>6. ASSUME NEW e \in Conns PROVE HolderOf(e)'
  <2>1. HolderOf(e) /\ Apart(c, e)
    BY DEF IInv
  <2>2. CASE e = c
    BY <1>0, <1>a, <1>b, <1>d, <2>2, KeysAreNotWords DEF TypeOK, Deliver, Go, Reply, Idle,
      Send, Listening, store, upstream, world, HolderOf, StageOf, RecordOf, Early, Owns, About
  <2>3. CASE e # c /\ pc[e] = "idle"
    BY <1>c, <2>3 DEF HolderOf, Owns
  <2>4. CASE e # c /\ pc[e] # "idle"
    <3>1. About(e) \in Requests
      BY <1>0, <2>4, AboutType
    <3>2. StageOf(About(e)) /\ RecordOf(About(e))
      BY <3>1 DEF IInv
    <3>3. pc'[e] = pc[e] /\ key'[e] = key[e] /\ About(e)' = About(e)
      BY <1>c, <2>4 DEF About
    <3>4. /\ row[About(e)] # "absent" => row'[About(e)] # "absent"
          /\ About(e) \in overdue => About(e) \in overdue'
          /\ up' = up
      BY <1>0, <1>a, <1>b, <1>d, <3>1 DEF TypeOK, Deliver, Go, Reply, Idle, Send, Listening,
        store, upstream, world
    <3>5. ASSUME Owns(e)
          PROVE  /\ About(e) \notin resolvers' /\ sent'[About(e)] = "nothing"
                 /\ pc[e] = "resolve" => row'[About(e)] # "resolved"
                 /\ pc[e] = "send" => /\ row'[About(e)] = "resolved"
                                      /\ winner'[About(e)] = key[e]
      <4>1. HolderOf(e) /\ Owns(e)
        BY <2>1, <3>5
      <4>2. About(e) # About(c)
        BY <1>d, <2>1, <2>4, <3>5 DEF Apart, Owns
      <4>3. sent'[About(e)] = sent[About(e)]
        BY <1>0, <3>1, <4>2 DEF TypeOK, Deliver, Send, About
      <4>4. resolvers' = resolvers /\ row' = row /\ winner' = winner
        BY DEF Deliver, store
      <4> QED BY <4>1, <4>3, <4>4 DEF HolderOf
    <3> QED BY <2>1, <3>3, <3>4, <3>5 DEF HolderOf, Owns
  <2> QED BY <2>2, <2>3, <2>4
<1>7. ASSUME NEW e \in Conns, NEW f \in Conns PROVE Apart(e, f)'
  <2>1. Apart(e, f) /\ HolderOf(e) /\ HolderOf(f)
    BY DEF IInv
  <2> QED BY <1>c, <1>d, <2>1 DEF Apart, HolderOf, Owns, About
<1>8. ASSUME NEW j \in Keys PROVE ResultOf(j)'
  <2>1. Target[j] \in Requests
    BY TargetsAreRequests
  <2>2. ResultOf(j) /\ RecordOf(Target[j]) /\ StageOf(Target[j])
    BY <2>1 DEF IInv
  <2> QED BY <1>0, <1>a, <1>b, <1>d, <2>1, <2>2, KeysAreNotWords DEF TypeOK, Deliver, Go,
    Reply, Idle, Send, Listening, store, upstream, world, ResultOf, RecordOf, StageOf, Early,
      HolderOf, Owns, About
<1> QED BY <1>1, <1>2, <1>3, <1>4, <1>5, <1>6, <1>7, <1>8 DEF IInv

LEMMA RestartInv ==
    ASSUME IInv, Restart
    PROVE  IInv'
<1>0. TypeOK
  BY DEF IInv
<1>1. TypeOK'
  <2>1. row' \in [Requests -> RowStates] /\ up' \in [Requests -> Stages]
    BY <1>0 DEF TypeOK, Restart, RowStates, Stages
  <2>2. restarts' \in 0..MaxRestarts
    BY <1>0, BoundsAreNumbers DEF TypeOK, Restart
  <2>3. /\ pc' \in [Conns -> Labels] /\ key' \in [Conns -> Keys \cup {"nothing"}]
        /\ \A c \in Conns : pc'[c] = "idle" <=> key'[c] = "nothing"
    BY DEF Restart, Labels
  <2> QED BY <1>0, <2>1, <2>2, <2>3 DEF TypeOK, Restart
<1>2. ASSUME NEW q \in Requests PROVE StageOf(q)'
  <2>1. StageOf(q)
    BY DEF IInv
  <2> QED BY <1>0, <2>1, HooksAreNotAsks DEF TypeOK, Restart, StageOf, Early, HolderOf, Owns,
    Requests, About
<1>3. ASSUME NEW q \in Requests PROVE RecordOf(q)'
  <2>1. RecordOf(q) /\ StageOf(q)
    BY DEF IInv
  <2> QED BY <1>0, <2>1, KeysAreNotWords, AcceptableAreKeys DEF TypeOK, Restart, RecordOf,
    StageOf, Early, HolderOf, Owns, Deciders, About
<1>4. ASSUME NEW q \in Requests PROVE WatchedOf(q)'
  <2>1. WatchedOf(q) /\ StageOf(q)
    BY DEF IInv
  <2> QED BY <1>0, <2>1, KeysAreNotWords, AcceptableAreKeys DEF TypeOK, Restart, WatchedOf,
    StageOf, Early, HolderOf, Owns, About
<1>5. ASSUME NEW q \in Requests PROVE OwnedOf(q)'
  <2>1. OwnedOf(q) /\ StageOf(q)
    BY DEF IInv
  <2> QED BY <1>0, <2>1 DEF TypeOK, Restart, OwnedOf, StageOf, Early, About
<1>6. ASSUME NEW e \in Conns PROVE HolderOf(e)'
  <2>1. HolderOf(e)
    BY DEF IInv
  <2>3. CASE pc[e] = "idle"
    BY <1>0, <2>3 DEF TypeOK, Restart, HolderOf, Owns
  <2>4. CASE pc[e] # "idle"
    <3>1. About(e) \in Requests
      BY <1>0, <2>4, AboutType
    <3>2. StageOf(About(e)) /\ RecordOf(About(e))
      BY <3>1 DEF IInv
    <3> QED BY <1>0, <2>1, <2>4, <3>1, <3>2, KeysAreNotWords DEF TypeOK, Restart, HolderOf,
      StageOf, RecordOf, Early, Owns, About
  <2> QED BY <2>3, <2>4
<1>7. ASSUME NEW e \in Conns, NEW f \in Conns PROVE Apart(e, f)'
  <2>1. Apart(e, f)
    BY DEF IInv
  <2> QED BY <2>1 DEF Apart, Owns, About, Restart
<1>8. ASSUME NEW j \in Keys PROVE ResultOf(j)'
  <2>1. Target[j] \in Requests
    BY TargetsAreRequests
  <2>2. ResultOf(j) /\ RecordOf(Target[j]) /\ StageOf(Target[j])
    BY <2>1 DEF IInv
  <2> QED BY <1>0, <2>1, <2>2, KeysAreNotWords DEF TypeOK, Restart, ResultOf, RecordOf,
    StageOf, Early, HolderOf, Owns, About
<1> QED BY <1>1, <1>2, <1>3, <1>4, <1>5, <1>6, <1>7, <1>8 DEF IInv

LEMMA StutterInv ==
    ASSUME IInv, UNCHANGED vars
    PROVE  IInv'
<1>0. UNCHANGED <<store, broker, upstream, devices, world>>
  BY DEF vars, store, broker, upstream, devices, world
<1>1. TypeOK'
  BY DEF IInv, TypeOK, vars
<1>2. ASSUME NEW q \in Requests
      PROVE  StageOf(q)' /\ RecordOf(q)' /\ WatchedOf(q)' /\ OwnedOf(q)'
  <2>1. StageOf(q) /\ RecordOf(q) /\ WatchedOf(q) /\ OwnedOf(q)
    BY DEF IInv
  <2> QED BY <2>1 DEF StageOf, RecordOf, WatchedOf, OwnedOf, Owns, About, vars
<1>3. ASSUME NEW e \in Conns PROVE HolderOf(e)'
  <2>1. HolderOf(e)
    BY DEF IInv
  <2> QED BY <2>1 DEF HolderOf, Owns, About, vars
<1>4. ASSUME NEW e \in Conns, NEW f \in Conns PROVE Apart(e, f)'
  <2>1. Apart(e, f)
    BY DEF IInv
  <2> QED BY <2>1 DEF Apart, Owns, About, vars
<1>5. ASSUME NEW j \in Keys PROVE ResultOf(j)'
  <2>1. ResultOf(j)
    BY DEF IInv
  <2> QED BY <2>1 DEF ResultOf, vars
<1> QED BY <1>1, <1>2, <1>3, <1>4, <1>5 DEF IInv

-----------------------------------------------------------------------------
(* 3. The theorems.                                                         *)

LEMMA NextInv ==
    ASSUME IInv, [Next]_vars
    PROVE  IInv'
<1>1. ASSUME NEW r \in Requests, Handler(r) PROVE IInv'
  BY <1>1, CreatePendingInv, PolicyPendingInv, PolicyResolveInv, RegisterInv,
     WaitInv, HandlerFailsInv, AnswerInv DEF Handler
<1>2. ASSUME NEW r \in Requests, Expiry(r) PROVE IInv'
  BY <1>2, UpstreamResolvedInv, HookDisconnectsInv, ExpireInv, ExpireInStoreInv,
     TimePassesInv, TimerFiresInv, TimerExpiresRowInv DEF Expiry
<1>3. ASSUME NEW c \in Conns, Decide(c) PROVE IInv'
  BY <1>3, PriorInv, CheckInv, DecideExpiresInv, DecideExpiresRowInv, TakeInv,
     ResolveInv, ResolveTooLateInv, ResolveFailsInv, ErrorExpiresRowInv,
     DeliverInv, SaveFailureInv DEF Decide
<1>4. CASE CloseBegin \/ CloseEnd \/ OpenSession \/ CancelAll \/ Restart
  BY <1>4, CloseBeginInv, CloseEndInv, OpenSessionInv, CancelAllInv, RestartInv
<1> QED BY <1>1, <1>2, <1>3, <1>4, ReceiveInv, StutterInv DEF Next

\* The inductive invariant holds in every reachable state, for any requests,
\* submissions, connections and bounds.
THEOREM Invariance == Spec => []IInv
<1>1. Init => IInv
  BY InitInv
<1>2. IInv /\ [Next]_vars => IInv'
  BY NextInv
<1> QED BY <1>1, <1>2, PTL DEF Spec

\* The broker's tables keep their shape: only asks are tracked for the end of
\* their session, and a connection has a key exactly while it decides.
THEOREM TypeCorrect == Spec => []TypeOK
<1>1. IInv => TypeOK
  BY DEF IInv
<1> QED BY <1>1, Invariance, PTL

\* What an agent is told is the acceptable decision of the one key that moved
\* its own row (decide), or of its project's policy (automatic_resolution).
THEOREM OwnDecisions == Spec => []OwnDecisionOnly
<1>1. ASSUME IInv, NEW r \in Requests, answer[r] \notin {"nothing", "cancel"}
      PROVE  /\ row[r] = "resolved" /\ winner[r] = answer[r]
             /\ \/ answer[r] = "policy" /\ r \in Safe
                \/ answer[r] \in Acceptable /\ Target[answer[r]] = r
  <2>1. RecordOf(r) /\ TypeOK
    BY <1>1 DEF IInv
  <2>2. row[r] = "resolved" /\ winner[r] = answer[r]
    BY <1>1, <2>1 DEF RecordOf
  <2>3. answer[r] \in Keys \cup {"policy"}
    BY <1>1, <2>1 DEF TypeOK, Deciders
  <2> QED BY <2>1, <2>2, <2>3 DEF RecordOf
<1>2. IInv => OwnDecisionOnly
  BY <1>1 DEF OwnDecisionOnly
<1> QED BY <1>2, Invariance, PTL

\* After an agent heard "no_decision", none is recorded for its action and no
\* device is told that a decision on it was accepted (take, resolve_action and
\* the expiries race for the resolver).
THEOREM RefusedStays == Spec => []RefusedStaysRefused
<1>1. ASSUME IInv, NEW r \in Requests, answer[r] = "cancel"
      PROVE  /\ row[r] # "resolved"
             /\ \A k \in Keys : Target[k] = r => "accepted" \notin replied[k]
  <2>1. RecordOf(r)
    BY <1>1 DEF IInv
  <2>2. row[r] # "resolved" /\ winner[r] = "nothing"
    BY <1>1, <2>1 DEF RecordOf
  <2>3. ASSUME NEW k \in Keys, Target[k] = r PROVE "accepted" \notin replied[k]
    <3>1. ResultOf(k) /\ k # "nothing"
      BY <1>1, KeysAreNotWords DEF IInv
    <3> QED BY <2>2, <2>3, <3>1 DEF ResultOf
  <2> QED BY <2>2, <2>3
<1>2. IInv => RefusedStaysRefused
  BY <1>1 DEF RefusedStaysRefused
<1> QED BY <1>2, Invariance, PTL

\* Whatever the devices send about one action, and however often, "accepted"
\* is the reply to the winner's key only.
THEOREM OneAccepted == Spec => []OneAcceptedKey
<1>1. IInv => OneAcceptedKey
  BY DEF IInv, ResultOf, OneAcceptedKey
<1> QED BY <1>1, Invariance, PTL

\* An agent's handler never waits on a channel that nobody will write to.
THEOREM Watched == Spec => []WaiterIsWatched
<1>1. ASSUME IInv, NEW r \in Requests, up[r] = "waiting", sent[r] = "nothing"
      PROVE  \/ r \in resolvers /\ timer[r] = "armed"
             \/ \E c \in Conns : pc[c] \in {"resolve", "send"} /\ Target[key[c]] = r
  <2>1. StageOf(r) /\ WatchedOf(r)
    BY <1>1 DEF IInv
  <2>2. r \in resolvers \/ \E c \in Conns : Owns(c) /\ About(c) = r
    BY <1>1, <2>1 DEF WatchedOf
  <2>3. r \in resolvers => timer[r] = "armed"
    BY <2>1 DEF StageOf
  <2> QED BY <2>2, <2>3 DEF Owns, About
<1>2. IInv => WaiterIsWatched
  BY <1>1 DEF WaiterIsWatched
<1> QED BY <1>2, Invariance, PTL

\* A prompt that the devices show open has a task that will settle it.
THEOREM Owned == Spec => []OpenIsOwned
<1>1. IInv => OpenIsOwned
  BY DEF IInv, OwnedOf, OpenIsOwned, About
<1> QED BY <1>1, Invariance, PTL

\* All of it: what the run of the broker checks of its state.
THEOREM BrokerKeepsSafe == Spec => []BrokerIsSafe
<1>1. /\ TypeOK /\ OwnDecisionOnly /\ RefusedStaysRefused /\ OneAcceptedKey
      /\ WaiterIsWatched /\ OpenIsOwned
      => BrokerIsSafe
  BY DEF BrokerIsSafe
<1> QED
  BY <1>1, TypeCorrect, OwnDecisions, RefusedStays, OneAccepted, Watched, Owned, PTL

-----------------------------------------------------------------------------
(* The broker implements ApprovalOutcome.                                   *)

\* The steps that record nothing and answer nobody.
Quiet == UNCHANGED <<row, winner, answer>>

\* Expiring a row closes it in the abstract, or changes nothing.
LEMMA ExpireCloses ==
    ASSUME TypeOK, NEW r \in Requests, ExpireRow(r), UNCHANGED <<winner, answer>>
    PROVE  Promise!Next \/ Quiet
<1>0. row \in [Requests -> RowStates]
  BY DEF TypeOK
<1>1. CASE row[r] = "pending"
  <2>1. row' = [row EXCEPT ![r] = "expired"]
    BY <1>1 DEF ExpireRow
  <2>2. row' = [q \in Requests |-> IF q \in {r} THEN "expired" ELSE row[q]]
    BY <1>0, <2>1
  <2>3. Promise!Close({r})
    BY <1>1, <2>2 DEF Promise!Close
  <2>4. {r} \in SUBSET Requests
    OBVIOUS
  <2> QED BY <2>3, <2>4 DEF Promise!Next
<1>2. CASE row[r] # "pending"
  <2>1. row' = [row EXCEPT ![r] = row[r]]
    BY <1>2 DEF ExpireRow
  <2>2. row' = row
    BY <1>0, <2>1
  <2> QED BY <2>2 DEF Quiet
<1> QED BY <1>1, <1>2

LEMMA HandlerKeeps ==
    ASSUME IInv, NEW r \in Requests, Handler(r)
    PROVE  Promise!Next \/ Quiet
<1>0. TypeOK /\ StageOf(r) /\ RecordOf(r)
  BY DEF IInv
<1>1. CASE CreatePending(r) \/ PolicyPending(r)
  <2>1. Promise!Open(r)
    BY <1>0, <1>1 DEF CreatePending, PolicyPending, MayArrive, StageOf, Promise!Open,
       upstream
  <2> QED BY <2>1 DEF Promise!Next
<1>2. CASE PolicyResolve(r)
  <2>1. row[r] = "pending" /\ answer[r] = "nothing"
    BY <1>0, <1>2 DEF PolicyResolve, StageOf, RecordOf, Early
  <2>2. Promise!Decide(r, "policy")
    BY <1>2, <2>1 DEF PolicyResolve, Promise!Decide
  <2>3. "policy" \in Deciders
    BY DEF Deciders
  <2> QED BY <2>2, <2>3 DEF Promise!Next
<1>3. CASE Register(r) \/ Wait(r) \/ HandlerFails(r)
  BY <1>3 DEF Register, Wait, HandlerFails, Quiet, store
<1>4. CASE Answer(r)
  <2>1. /\ sent[r] # "nothing" /\ answer[r] = "nothing" /\ row[r] # "absent"
        /\ answer' = [answer EXCEPT ![r] = sent[r]] /\ UNCHANGED <<row, winner>>
    BY <1>0, <1>4 DEF Answer, StageOf, RecordOf, store
  <2>2. CASE sent[r] = "cancel"
    <3>1. row[r] \in {"pending", "expired"}
      BY <1>0, <2>1, <2>2 DEF TypeOK, RecordOf, RowStates
    <3>2. Promise!Refuse(r)
      BY <2>1, <2>2, <3>1 DEF Promise!Refuse
    <3> QED BY <3>2 DEF Promise!Next
  <2>3. CASE sent[r] # "cancel"
    <3>1. row[r] = "resolved" /\ winner[r] = sent[r]
      BY <1>0, <2>1, <2>3 DEF RecordOf
    <3>2. Promise!Deliver(r)
      BY <2>1, <3>1 DEF Promise!Deliver
    <3> QED BY <3>2 DEF Promise!Next
  <2> QED BY <2>2, <2>3
<1> QED BY <1>1, <1>2, <1>3, <1>4 DEF Handler

LEMMA ExpiryKeeps ==
    ASSUME IInv, NEW r \in Requests, Expiry(r)
    PROVE  Promise!Next \/ Quiet
<1>0. TypeOK
  BY DEF IInv
<1>1. CASE ExpireInStore(r) \/ TimerExpiresRow(r)
  <2>1. ExpireRow(r) /\ UNCHANGED <<winner, answer>>
    BY <1>1 DEF ExpireInStore, TimerExpiresRow, upstream
  <2> QED BY <1>0, <2>1, ExpireCloses
<1>2. CASE UpstreamResolved(r) \/ HookDisconnects(r) \/ Expire(r)
  BY <1>2 DEF UpstreamResolved, HookDisconnects, Expire, Quiet, store
<1>3. CASE TimePasses(r) \/ TimerFires(r)
  BY <1>3 DEF TimePasses, TimerFires, Quiet, store, upstream
<1> QED BY <1>1, <1>2, <1>3 DEF Expiry

LEMMA DecideKeeps ==
    ASSUME IInv, NEW c \in Conns, Decide(c)
    PROVE  Promise!Next \/ Quiet
<1>0. TypeOK /\ HolderOf(c)
  BY DEF IInv
<1>1. CASE DecideExpiresRow(c) \/ ErrorExpiresRow(c)
  <2>1. About(c) \in Requests
    BY <1>0, <1>1, AboutType DEF DecideExpiresRow, ErrorExpiresRow
  <2>2. ExpireRow(About(c)) /\ UNCHANGED <<winner, answer>>
    BY <1>1 DEF DecideExpiresRow, ErrorExpiresRow, About, upstream
  <2> QED BY <1>0, <2>1, <2>2, ExpireCloses
<1>2. CASE Resolve(c)
  <2>1. key[c] \in Keys /\ About(c) \in Requests
    BY <1>0, <1>2, AboutType DEF Resolve
  <2>2. RecordOf(About(c)) /\ sent[About(c)] = "nothing"
    BY <1>0, <1>2, <2>1 DEF IInv, Resolve, HolderOf, Owns
  <2>3. UNCHANGED answer /\ row[About(c)] = "pending" /\ answer[About(c)] = "nothing"
    BY <1>2, <2>2 DEF Resolve, RecordOf, About, upstream
  <2>4. Promise!Decide(About(c), key[c])
    BY <1>2, <2>3 DEF Resolve, About, Promise!Decide
  <2>5. key[c] \in Deciders
    BY <2>1 DEF Deciders
  <2> QED BY <2>1, <2>4, <2>5 DEF Promise!Next
<1>3. CASE Prior(c) \/ Check(c) \/ DecideExpires(c) \/ Take(c)
  BY <1>3 DEF Prior, Check, DecideExpires, Take, Quiet, store, upstream
<1>4. CASE ResolveTooLate(c) \/ ResolveFails(c) \/ Deliver(c) \/ SaveFailure(c)
  BY <1>4 DEF ResolveTooLate, ResolveFails, Deliver, SaveFailure, Quiet, store,
     upstream
<1> QED BY <1>1, <1>2, <1>3, <1>4 DEF Decide

LEMMA StepKeeps ==
    ASSUME IInv, [Next]_vars
    PROVE  Promise!Next \/ Quiet
<1>1. CASE UNCHANGED vars
  BY <1>1 DEF vars, Quiet
<1>2. ASSUME NEW c \in Conns, NEW k \in Keys, Receive(c, k) PROVE Quiet
  BY <1>2 DEF Receive, Quiet, store, upstream
<1>3. CASE CloseBegin \/ CloseEnd \/ OpenSession \/ CancelAll
  BY <1>3 DEF CloseBegin, CloseEnd, OpenSession, CancelAll, Quiet, store
<1>4. CASE Restart
  <2> DEFINE S == {r \in Requests : row[r] = "pending"}
  <2>1. Promise!Close(S)
    BY <1>4 DEF Restart, Promise!Close
  <2>2. S \in SUBSET Requests
    OBVIOUS
  <2> QED BY <2>1, <2>2 DEF Promise!Next
<1> QED BY <1>1, <1>2, <1>3, <1>4, HandlerKeeps, ExpiryKeeps, DecideKeeps DEF Next

\* The broker with its devices, timers, sessions, hooks and restarts does what
\* ApprovalOutcome promises the agents: every behaviour of it is one of that.
THEOREM KeepsPromise == Spec => PromiseSpec
<1>1. Init => Promise!Init
  BY DEF Init, Promise!Init
<1>2. IInv /\ [Next]_vars => [Promise!Next]_(Promise!vars)
  BY StepKeeps DEF Quiet, Promise!vars
<1> QED BY <1>1, <1>2, Invariance, PTL DEF Spec, PromiseSpec, Promise!Spec

\* No row leaves "resolved" or "expired": every UPDATE of the store asks for an
\* open row, and the one upsert that does not runs on a row of its own.
THEOREM Settled == Spec => SettledIsFinal
<1>1. ASSUME IInv, [Next]_vars, NEW r \in Requests, row[r] \in {"resolved", "expired"}
      PROVE  row'[r] = row[r]
  <2>1. Promise!Next \/ Quiet
    BY <1>1, StepKeeps
  <2>2. row \in [Requests -> RowStates]
    BY <1>1 DEF IInv, TypeOK
  <2>3. CASE Quiet
    BY <2>3 DEF Quiet
  <2>4. ASSUME NEW q \in Requests, Promise!Open(q) \/ Promise!Deliver(q) \/ Promise!Refuse(q)
        PROVE  row'[r] = row[r]
    BY <1>1, <2>2, <2>4 DEF Promise!Open, Promise!Deliver, Promise!Refuse
  <2>5. ASSUME NEW q \in Requests, NEW d \in Deciders, Promise!Decide(q, d)
        PROVE  row'[r] = row[r]
    BY <1>1, <2>2, <2>5 DEF Promise!Decide
  <2>6. ASSUME NEW S \in SUBSET Requests, Promise!Close(S)
        PROVE  row'[r] = row[r]
    BY <1>1, <2>6 DEF Promise!Close
  <2> QED BY <2>1, <2>3, <2>4, <2>5, <2>6 DEF Promise!Next
<1>2. IInv /\ [Next]_vars =>
        [\A r \in Requests : row[r] \in {"resolved", "expired"} => row'[r] = row[r]]_vars
  BY <1>1
<1> QED BY <1>2, Invariance, PTL DEF Spec, SettledIsFinal
=============================================================================
