---------------------------- MODULE MaterialViews ----------------------------
(***************************************************************************)
(* Materials, looked at: a page's views ask for a material's URL           *)
(* (materialAccess.ts); one cache entry serves all views of a material,    *)
(* counts them as its readers, and loads in one of few transfer slots      *)
(* (materialTransfer.ts): it asks the Mac for a copy encrypted for the     *)
(* device, which the Mac puts into the cloud's bucket                      *)
(* (material-service.ts, cloud-service.ts), polls for the copy, and        *)
(* deletes it (the cloud's index.ts).                                      *)
(***************************************************************************)
EXTENDS Materials

CONSTANTS
  Views,    \* components of the page that show a material
  Entries,  \* bound: cache entries ever made
  NoEntry,  \* none
  Limit     \* transfer slots: three in the code

ASSUME EntriesAreBounded == NoEntry \notin Entries /\ IsFiniteSet(Entries)
ASSUME LimitIsPositive == Limit \in Nat \ {0}

VARIABLES
  view,       \* the entry each view waits for or shows
  cached,     \* the entry the cache has for each material
  loading,      \* of each entry: none, queued, asking, loaded, failed
  about,      \* the material of each entry
  readers,    \* each entry's count of readers
  live,       \* entries whose URL has not been revoked
  active,     \* the count of slots taken
  publishing, \* materials whose copy the Mac was asked for
  copies,     \* copies in the bucket
  erasing     \* deletes of copies on their way

pageVars == <<view, cached, loading, about, readers, live, active>>
copyVars == <<publishing, copies, erasing>>
viewVars == <<pageVars, copyVars>>

ViewTypeOK ==
  /\ view \in [Views -> Entries \union {NoEntry}]
  /\ cached \in [Files -> Entries \union {NoEntry}]
  /\ loading \in [Entries -> {"none", "queued", "asking", "loaded", "failed"}]
  /\ about \in [Entries -> Files]
  /\ readers \in [Entries -> 0..Cardinality(Views)]
  /\ live \subseteq Entries
  /\ active \in 0..Limit
  /\ publishing \subseteq Files /\ copies \subseteq Files /\ erasing \subseteq Files

ViewInit ==
  /\ view = [v \in Views |-> NoEntry]
  /\ cached = [f \in Files |-> NoEntry]
  /\ loading = [e \in Entries |-> "none"]
  /\ about \in [Entries -> Files]
  /\ readers = [e \in Entries |-> 0]
  /\ live = {} /\ active = 0
  /\ publishing = {} /\ copies = {} /\ erasing = {}

-----------------------------------------------------------------------------
(* Slots.                                                                  *)

Queued == {e \in Entries : loading[e] = "queued"}

\* withMaterialTransferSlot: a slot, or a place among those that wait.
TakesSlot(e) ==
  IF active >= Limit
  THEN loading' = [loading EXCEPT ![e] = "queued"] /\ UNCHANGED active
  ELSE loading' = [loading EXCEPT ![e] = "asking"] /\ active' = active + 1

\* (Mutant: a slot handed on is given back as well.)
GivesSlotTwice(S, end) ==
  \E next \in {N \in SUBSET (Queued \ S) :
                 Cardinality(N) = IF Queued \ S = {} THEN 0 ELSE 1} :
    /\ loading' = [e \in Entries |-> IF e \in S THEN end
                                   ELSE IF e \in next THEN "asking" ELSE loading[e]]
    /\ active' = active - 1

\* The work ends: its slot goes to one that waits, or back.
GivesSlot(S, end) ==
  \E next \in {N \in SUBSET (Queued \ S) :
                 Cardinality(N) = IF Queued \ S = {} THEN 0 ELSE 1} :
    /\ loading' = [e \in Entries |-> IF e \in S THEN end
                                   ELSE IF e \in next THEN "asking" ELSE loading[e]]
    /\ active' = IF next = {} THEN active - 1 ELSE active

-----------------------------------------------------------------------------
(* The cache.                                                              *)

\* pruneCache: resolved entries without readers may be too many or too big;
\* they leave the cache and their URLs are revoked.
Unread(count, urls) == {e \in urls : count[e] = 0 /\ cached[about[e]] = e}

Prune(count, urls, kept) ==
  \E gone \in {{}, Unread(count, urls)} :
    /\ live' = urls \ gone
    /\ cached' = [f \in Files |-> IF kept[f] \in gone THEN NoEntry ELSE kept[f]]

\* materialURL: the cache's entry, or a new one that looks for a slot.
Mount(v, f) ==
  /\ view[v] = NoEntry /\ row[f] = "ready"
  /\ \/ /\ cached[f] # NoEntry
        /\ view' = [view EXCEPT ![v] = cached[f]]
        /\ readers' = [readers EXCEPT ![cached[f]] = @ + 1]
        /\ UNCHANGED <<cached, loading, active>>
     \/ /\ cached[f] = NoEntry
        /\ \E e \in Entries :
             /\ loading[e] = "none" /\ about[e] = f
             /\ view' = [view EXCEPT ![v] = e]
             /\ readers' = [readers EXCEPT ![e] = 1]
             /\ cached' = [cached EXCEPT ![f] = e]
             /\ TakesSlot(e)
  /\ UNCHANGED <<about, live>> /\ UNCHANGED copyVars /\ UNCHANGED vars

\* releaseMaterialURL names the material: the cache's entry has a reader
\* less, leaves the cache with its signal set if it loads for nobody, and
\* the cache is pruned.
LetGo(v) ==
  LET f == about[view[v]]
      e == cached[f]
  IN  /\ view[v] # NoEntry
      /\ view' = [view EXCEPT ![v] = NoEntry]
      /\ IF e = NoEntry THEN UNCHANGED <<cached, readers, live>>
         ELSE LET left == [readers EXCEPT ![e] = IF @ > 0 THEN @ - 1 ELSE 0]
                  aborts == left[e] = 0 /\ loading[e] \in {"queued", "asking"}
              IN  /\ readers' = left
                  /\ Prune(left, live, [cached EXCEPT ![f] = IF aborts THEN NoEntry ELSE @])
      /\ UNCHANGED <<loading, about, active>> /\ UNCHANGED copyVars /\ UNCHANGED vars

-----------------------------------------------------------------------------
(* An entry that loads.                                                    *)

\* Its signal: an entry that was let go of is out of the cache.
Aborted(e) == cached[about[e]] # e

\* The load fails: let go of, offline, no channel, 25 seconds over, refused,
\* or not what its digest says.  A copy read before may have been deleted.
LoadFails(e) ==
  /\ loading[e] = "asking"
  /\ GivesSlot({e}, "failed")
  /\ cached' = [f \in Files |-> IF cached[f] = e THEN NoEntry ELSE cached[f]]
  /\ erasing' \in {erasing, erasing \union ({about[e]} \intersect (copies \ local))}
  /\ UNCHANGED <<view, about, readers, live, publishing, copies>> /\ UNCHANGED vars

\* material.remote.request goes to the Mac, whose row must be ready still.
AskMac(e) ==
  /\ loading[e] = "asking" /\ linked
  /\ about[e] \notin local /\ about[e] \notin publishing
  /\ row[about[e]] = "ready"
  /\ publishing' = publishing \union {about[e]}
  /\ UNCHANGED <<copies, erasing>> /\ UNCHANGED pageVars /\ UNCHANGED vars

\* The Mac's PUT of a copy: done, or failed.
CopyPut(f) == copies' \in {copies, copies \union {f}}

\* publishRemoteCopy, over its awaits.
Publish(f) ==
  /\ f \in publishing
  /\ publishing' = publishing \ {f}
  /\ CopyPut(f)
  /\ UNCHANGED erasing /\ UNCHANGED pageVars /\ UNCHANGED vars

\* (Mutant: what loaded after it was let go of is not looked at again.)
LoadUnasked(e) ==
  /\ loading[e] = "asking"
  /\ \/ about[e] \in local /\ UNCHANGED erasing
     \/ about[e] \in copies \ local /\ erasing' = erasing \union {about[e]}
  /\ GivesSlot({e}, "loaded")
  /\ Prune(readers, live \union {e}, cached)
  /\ UNCHANGED <<view, about, readers, publishing, copies>> /\ UNCHANGED vars

\* The URL: the Mac's own path, on the Mac; elsewhere of a copy that was
\* read, which may go.
Load(e) ==
  /\ loading[e] = "asking" /\ ~Aborted(e)
  /\ \/ about[e] \in local /\ UNCHANGED erasing
     \/ about[e] \in copies \ local /\ erasing' = erasing \union {about[e]}
  /\ GivesSlot({e}, "loaded")
  /\ Prune(readers, live \union {e}, cached)
  /\ UNCHANGED <<view, about, readers, publishing, copies>> /\ UNCHANGED vars

\* The delete arrives, whichever copy is there by then, or is lost.
Erase(f) ==
  /\ f \in erasing
  /\ erasing' = erasing \ {f}
  /\ copies' \in {copies, copies \ {f}}
  /\ UNCHANGED publishing /\ UNCHANGED pageVars /\ UNCHANGED vars

-----------------------------------------------------------------------------

ViewNext ==
  \/ \E v \in Views, f \in Files : Mount(v, f)
  \/ \E v \in Views : LetGo(v)
  \/ \E e \in Entries : LoadFails(e) \/ AskMac(e) \/ Load(e)
  \/ \E f \in Files : Publish(f) \/ Erase(f)

AllInit == Init /\ ViewInit

AllNext ==
  \/ Drop /\ UNCHANGED viewVars
  \/ Reconnect /\ UNCHANGED viewVars
  \/ Restart /\ UNCHANGED viewVars
  \/ \E f \in Files : \/ Pick(f) /\ UNCHANGED viewVars
                      \/ PutRemote(f) /\ UNCHANGED viewVars
                      \/ PutLocal(f) /\ UNCHANGED viewVars
                      \/ Prepared(f) /\ UNCHANGED viewVars
                      \/ UploadFails(f) /\ UNCHANGED viewVars
                      \/ Register(f) /\ UNCHANGED viewVars
                      \/ Delete(f) /\ UNCHANGED viewVars
                      \/ ExpireUpload(f) /\ UNCHANGED viewVars
  \/ \E f \in Files, i \in Slots : \/ Fetch(f, i) /\ UNCHANGED viewVars
                                   \/ FetchFails(f, i) /\ UNCHANGED viewVars
                                   \/ Finish(f, i) /\ UNCHANGED viewVars
  \/ \E t \in Tasks : \/ Submit(t) /\ UNCHANGED viewVars
                      \/ TaskStarts(t) /\ UNCHANGED viewVars
                      \/ TaskFails(t) /\ UNCHANGED viewVars
                      \/ TaskRetried(t) /\ UNCHANGED viewVars
  \/ ViewNext

AllSpec == AllInit /\ [][AllNext]_<<vars, viewVars>>

AllFairSpec ==
  /\ AllSpec /\ Fairness
  /\ \A e \in Entries : WF_<<vars, viewVars>>(LoadFails(e) \/ Load(e))

-----------------------------------------------------------------------------
(* Properties.                                                             *)

\* Slots are neither lost nor made: as many are taken as entries load, and
\* none waits beside a free one, whichever entries are let go of or fail
\* (materialTransfer.ts:4).
SlotsBalance ==
  /\ active = Cardinality({e \in Entries : loading[e] = "asking"})
  /\ Queued # {} => active = Limit

\* An object URL is in the cache, where it will be revoked: nothing that
\* ends, fails or is let go of late leaves one behind (materialAccess.ts:21).
NoURLIsLost == \A e \in live : cached[about[e]] = e

\* Both: whatever order views come and go in while entries load, no slot and
\* no URL is left behind.
NothingIsLeftBehind == SlotsBalance /\ NoURLIsLost

\* Both: what was uploaded is kept, and what was looked at is cleaned up.
MaterialsAreKept == KeptSomewhere /\ NothingIsLeftBehind

\* A queued or loading entry ends.
LoadsEnd == \A e \in Entries : (loading[e] \in {"queued", "asking"}) ~> (loading[e] \in {"loaded", "failed"})

\* Fails (materialAccess.ts:17): the count of readers is the cache's current
\* entry's, and a view of a failed entry takes it down when it goes.
ShownIsLive == \A v \in Views : view[v] # NoEntry /\ loading[view[v]] = "loaded" => view[v] \in live

=============================================================================
