--------------------------- MODULE Platform_proofs ---------------------------
(***************************************************************************)
(* Theorems about the parts that stand beside the controllers: the content *)
(* manager, for any kinds, sources, faults and releases; the pull secret   *)
(* controller, for any secrets, lists, contents and edits; the permission  *)
(* preflight, for any grants, roles and manifests the samples draw; the    *)
(* content of a revision, for any objects of a rendered bundle; and the    *)
(* rendering of a bundle, for any bundle and configuration.                *)
(***************************************************************************)
EXTENDS MCPlatform, RefSecrets_proofs

-----------------------------------------------------------------------------
(* The content manager. *)

(* A source of the cache, or one that Watch waits for: it is of this kind and
   of this cache, and it runs with its handler in order, or it failed before
   it had synced. *)
Alive(i) == Watched(i) \/ src[i].preSync
Owned(i, g) == /\ caches # 0 /\ src[i].cache = caches /\ src[i].gvk = g
               /\ Started(i) /\ Alive(i)

CacheSound == \A g \in GVKs : sources[g] # 0 => Owned(sources[g], g)
WatchSound ==
  /\ IF watch.pc = "idle" THEN watch.todo = {} ELSE caches # 0
  /\ \A g \in watch.todo : /\ sources[g] = 0
                           /\ watch.start[g] # 0 => Owned(watch.start[g], g)

(* A handler runs only after an error, and gives up without a callback only
   before the first sync. *)
HandlerSound ==
  \A i \in Ids : /\ src[i].handler # "none" => Started(i) /\ src[i].errored
                 /\ src[i].handler = "cancel" => src[i].preSync

(* A kind of the release without a source is being started, has failed in the
   Watch under way, or somebody is to requeue. *)
KindsCovered ==
  \A g \in content :
    \/ sources[g] # 0
    \/ IF watch.pc = "watch" THEN g \in watch.todo \/ watch.err
       ELSE queued \/ \E i \in Ids : src[i].handler = "requeue"

(* The inductive invariant. *)
ContentInv == /\ ContentTypeOK /\ CacheSound /\ WatchSound /\ HandlerSound
              /\ KindsCovered /\ RemovedClosed

LEMMA ContentInvSafe == ContentInv => DeadSourceRequeued
BY DEF ContentInv, ContentTypeOK, CacheSound, KindsCovered, Owned, Alive, DeadSourceRequeued, Noticed

LEMMA ContentInitInv == ContentInit => ContentInv
<1>1. SUFFICES ASSUME ContentInit PROVE ContentInv
  OBVIOUS
<1>2. GVKs # {} /\ content \subseteq GVKs
  BY <1>1 DEF ContentInit
<1>3. NoSource.gvk \in GVKs
  BY <1>2 DEF NoSource
<1>4. ContentTypeOK
  BY <1>1, <1>2, <1>3, ContentAssumption DEF ContentInit, ContentTypeOK, NoSource, Idle, Ids
<1>5. QED
  BY <1>1, <1>2, <1>4
     DEF ContentInv, ContentInit, CacheSound, WatchSound, HandlerSound, KindsCovered, RemovedClosed,
         NoSource, Idle

LEMMA NewCacheType == NewCache \in Nat \ {0}
<1>1. IsFiniteSet(Ids)
  BY ContentAssumption, FS_Interval DEF Ids
<1>2. Cardinality({i \in Ids : Started(i)}) \in Nat
  BY <1>1, FS_Subset, FS_CardinalityType
<1>3. QED
  BY <1>2 DEF NewCache

(* A step of source i alone that keeps what it is of, leaves it in order, and
   neither ends a pending requeue nor loses a closed source. *)
LEMMA SourceStep ==
  ASSUME ContentInv, ContentTypeOK', NEW i \in Ids, Started(i),
         UNCHANGED <<caches, sources, watch, content>>,
         \A j \in Ids \ {i} : src'[j] = src[j],
         src'[i].gvk = src[i].gvk, src'[i].cache = src[i].cache,
         src'[i].informer # "none", src'[i].added = src[i].added,
         src[i].informer = "cancelled" => src'[i].informer = "cancelled",
         Alive(i) => Alive(i)',
         src'[i].handler # "none" => src'[i].errored,
         src'[i].handler = "cancel" => src'[i].preSync,
         queued => queued',
         src[i].handler = "requeue" => src'[i].handler = "requeue" \/ queued'
  PROVE  ContentInv'
<1>1. CacheSound'
  BY DEF ContentInv, ContentTypeOK, CacheSound, Owned, Alive, Watched, Started
<1>2. WatchSound'
  BY DEF ContentInv, ContentTypeOK, WatchSound, Owned, Alive, Watched, Started
<1>3. HandlerSound'
  BY DEF ContentInv, HandlerSound, Started
<1>4. KindsCovered'
  BY DEF ContentInv, KindsCovered
<1>5. RemovedClosed'
  BY DEF ContentInv, RemovedClosed
<1>6. QED
  BY <1>1, <1>2, <1>3, <1>4, <1>5 DEF ContentInv

(* The records of src, as ContentTypeOK has them. *)
SourceRecords ==
  [gvk : GVKs, cache : Nat, informer : {"none", "running", "cancelled"}, hasSynced : BOOLEAN,
   syncedChan : {"open", "sending", "closed"}, errored : BOOLEAN,
   handler : {"none", "failed", "cancel", "callback", "requeue", "done"},
   added : BOOLEAN, preSync : BOOLEAN]

LEMMA SourceTyped ==
  ASSUME ContentTypeOK
  PROVE  src \in [Ids -> SourceRecords]
BY DEF ContentTypeOK, SourceRecords

LEMMA TypedSource ==
  ASSUME ContentTypeOK, src' \in [Ids -> SourceRecords], UNCHANGED <<caches, sources, watch, content>>,
         queued' \in BOOLEAN, faults' \in 0..MaxFaults, events' \in 0..MaxEvents
  PROVE  ContentTypeOK'
BY DEF ContentTypeOK, SourceRecords

LEMMA SourceKeeps ==
  ASSUME ContentInv, NEW i \in Ids,
         \/ InformerSyncs(i) \/ AnnounceSync(i) \/ ObjectChanges(i)
         \/ WatchErrors(i) \/ HandlerChecks(i) \/ HandlerEnds(i)
  PROVE  ContentInv'
<1>0. ContentTypeOK /\ HandlerSound /\ src \in [Ids -> SourceRecords]
  BY SourceTyped DEF ContentInv
<1> DEFINE s == src[i]
<1>1. CASE InformerSyncs(i)
  <2>1. [s EXCEPT !.hasSynced = TRUE] \in SourceRecords
    BY <1>0 DEF SourceRecords
  <2>2. src' \in [Ids -> SourceRecords]
    BY <1>0, <1>1, <2>1 DEF InformerSyncs
  <2>3. ContentTypeOK'
    BY <1>0, <1>1, <2>2, TypedSource DEF InformerSyncs, ContentTypeOK
  <2>4. QED
    BY <1>0, <1>1, <2>3, SourceStep
       DEF InformerSyncs, SourceRecords, HandlerSound, Started, Alive, Watched
<1>2. CASE AnnounceSync(i)
  <2>1. [s EXCEPT !.syncedChan = "sending"] \in SourceRecords
    BY <1>0 DEF SourceRecords
  <2>2. src' \in [Ids -> SourceRecords]
    BY <1>0, <1>2, <2>1 DEF AnnounceSync
  <2>3. ContentTypeOK'
    BY <1>0, <1>2, <2>2, TypedSource DEF AnnounceSync, ContentTypeOK
  <2>4. QED
    BY <1>0, <1>2, <2>3, SourceStep
       DEF AnnounceSync, SourceRecords, HandlerSound, Started, Alive, Watched
<1>3. CASE ObjectChanges(i)
  <2>1. ContentTypeOK'
    BY <1>0, <1>3, ContentAssumption DEF ObjectChanges, ContentTypeOK
  <2>2. QED
    BY <1>0, <1>3, <2>1, SourceStep, SMTT(30)
       DEF ObjectChanges, ContentTypeOK, HandlerSound, Started, Alive, Watched
<1>4. CASE WatchErrors(i)
  <2>1. [s EXCEPT !.handler = "failed", !.errored = TRUE] \in SourceRecords
    BY <1>0, ZenonT(40) DEF SourceRecords
  <2>2. src' \in [Ids -> SourceRecords]
    BY <1>0, <1>4, <2>1 DEF WatchErrors
  <2>3. ContentTypeOK'
    BY <1>0, <1>4, <2>2, TypedSource, ContentAssumption DEF WatchErrors, ContentTypeOK
  <2>4. QED
    BY <1>0, <1>4, <2>3, SourceStep
       DEF WatchErrors, SourceRecords, HandlerSound, Started, Alive, Watched
<1>5. CASE HandlerChecks(i)
  <2> DEFINE early == [s EXCEPT !.handler = "cancel", !.preSync = TRUE]
             late == [s EXCEPT !.handler = "callback", !.syncedChan = "closed"]
  <2>1. early \in SourceRecords /\ late \in SourceRecords
    BY <1>0, ZenonT(40) DEF SourceRecords
  <2>2. /\ s.handler = "failed"
        /\ src' = [src EXCEPT ![i] = IF s.syncedChan = "open" THEN early ELSE late]
    BY <1>5 DEF HandlerChecks
  <2>3. src' \in [Ids -> SourceRecords] /\ src'[i] \in {early, late}
    BY <1>0, <2>1, <2>2
  <2>4. ContentTypeOK'
    BY <1>0, <1>5, <2>3, TypedSource DEF HandlerChecks, ContentTypeOK
  <2>5. QED
    BY <1>0, <1>5, <2>2, <2>3, <2>4, SourceStep
       DEF HandlerChecks, SourceRecords, HandlerSound, Started, Alive, Watched
<1>6. CASE HandlerEnds(i)
  <2>1. [s EXCEPT !.informer = "cancelled", !.handler = "done"] \in SourceRecords
    BY <1>0 DEF SourceRecords
  <2>2. src' \in [Ids -> SourceRecords]
    BY <1>0, <1>6, <2>1 DEF HandlerEnds
  <2>3. ContentTypeOK'
    BY <1>0, <1>6, <2>2, TypedSource DEF HandlerEnds, ContentTypeOK
  <2>4. QED
    BY <1>0, <1>6, <2>3, SourceStep
       DEF HandlerEnds, SourceRecords, HandlerSound, Started, Alive, Watched
<1>7. QED
  BY <1>1, <1>2, <1>3, <1>4, <1>5, <1>6

(* Closing sources cancels them and leaves their other fields, and the other
   sources, as they are. *)
LEMMA ClosedSources ==
  ASSUME ContentTypeOK, NEW ids \in SUBSET Ids
  PROVE  /\ Closed(src, ids) \in [Ids -> SourceRecords]
         /\ \A i \in Ids \ ids : Closed(src, ids)[i] = src[i]
         /\ \A i \in ids : Closed(src, ids)[i].informer = "cancelled"
         /\ \A i \in Ids : /\ Closed(src, ids)[i].handler = src[i].handler
                           /\ Closed(src, ids)[i].errored = src[i].errored
                           /\ Closed(src, ids)[i].preSync = src[i].preSync
                           /\ Closed(src, ids)[i].added = src[i].added
                           /\ Closed(src, ids)[i].gvk = src[i].gvk
                           /\ Closed(src, ids)[i].cache = src[i].cache
<1>1. src \in [Ids -> SourceRecords]
  BY SourceTyped
<1>2. \A i \in Ids : [src[i] EXCEPT !.informer = "cancelled"] \in SourceRecords
  BY <1>1 DEF SourceRecords
<1>3. Closed(src, ids) \in [Ids -> SourceRecords]
  BY <1>1, <1>2 DEF Closed
<1>4. QED
  BY <1>1, <1>3 DEF Closed, SourceRecords

(* Watch begins: the sources of the kinds that were dropped are closed, the
   kinds without a source are to be started. *)
LEMMA WatchBegins == ASSUME ContentInv, WatchBegin PROVE ContentInv'
<1> DEFINE stale == {g \in GVKs \ content : sources[g] # 0}
           ids == {sources[g] : g \in stale}
<1>0. ContentTypeOK /\ CacheSound /\ WatchSound /\ HandlerSound /\ RemovedClosed
  BY DEF ContentInv
<1>1. /\ src' = Closed(src, ids)
      /\ sources' = [g \in GVKs |-> IF g \in stale THEN 0 ELSE sources[g]]
      /\ watch' = [Idle EXCEPT !.pc = "watch", !.todo = {g \in content : sources[g] = 0}]
      /\ caches' = IF caches = 0 THEN NewCache ELSE caches
      /\ UNCHANGED <<content, faults, events>> /\ queued' = FALSE
  BY DEF WatchBegin
<1>2. ids \in SUBSET Ids
  BY <1>0 DEF ContentTypeOK
<1>3. /\ watch'.pc = "watch" /\ watch'.err = FALSE
      /\ watch'.todo = {g \in content : sources[g] = 0}
      /\ watch'.start = [g \in GVKs |-> 0]
  BY <1>1 DEF Idle
<1> HIDE DEF ids
<1>4. ContentTypeOK'
  <2>1. src' \in [Ids -> SourceRecords]
    BY <1>0, <1>1, <1>2, ClosedSources
  <2>2. caches' \in Nat /\ sources' \in [GVKs -> Ids \cup {0}]
    BY <1>0, <1>1, NewCacheType DEF ContentTypeOK
  <2>3. watch' \in [pc : {"idle", "watch"}, todo : SUBSET GVKs,
                    start : [GVKs -> Ids \cup {0}], err : BOOLEAN]
    BY <1>0, <1>1 DEF ContentTypeOK, Idle
  <2>4. QED
    BY <1>0, <1>1, <2>1, <2>2, <2>3 DEF ContentTypeOK, SourceRecords
<1>5. ASSUME NEW g \in GVKs, sources'[g] # 0
      PROVE  /\ sources'[g] = sources[g] /\ sources[g] \in Ids
             /\ src'[sources[g]] = src[sources[g]] /\ caches' = caches
  <2>1. sources'[g] = sources[g] /\ sources[g] \in Ids
    BY <1>0, <1>1, <1>5 DEF ContentTypeOK
  <2>2. sources[g] \notin ids
    <3>1. ASSUME NEW h \in stale, sources[h] = sources[g] PROVE h = g
      BY <1>0, <2>1, <3>1, <1>5 DEF CacheSound, Owned
    <3>2. g \notin stale
      BY <1>1, <1>5
    <3>3. QED
      BY <3>1, <3>2 DEF ids
  <2>3. caches # 0
    BY <1>0, <2>1, <1>5 DEF CacheSound, Owned
  <2>4. QED
    BY <1>0, <1>1, <1>2, <2>1, <2>2, <2>3, ClosedSources
<1>6. CacheSound'
  BY <1>0, <1>5 DEF CacheSound, Owned, Alive, Watched, Started
<1>7. WatchSound'
  <2>1. caches' # 0
    BY <1>1, NewCacheType
  <2>2. \A g \in watch'.todo : sources'[g] = 0 /\ watch'.start[g] = 0
    BY <1>0, <1>1, <1>3 DEF ContentTypeOK
  <2>3. QED
    BY <1>3, <2>1, <2>2 DEF WatchSound
<1>8. HandlerSound'
  BY <1>0, <1>1, <1>2, ClosedSources DEF HandlerSound, Started
<1>9. KindsCovered'
  <2>1. \A g \in content : g \notin stale /\ g \in GVKs
    BY <1>0 DEF ContentTypeOK
  <2>2. QED
    BY <1>1, <1>3, <2>1 DEF KindsCovered
<1>10. RemovedClosed'
  <2>1. SUFFICES ASSUME NEW i \in Ids, src'[i].added, \A g \in GVKs : sources'[g] # i
                 PROVE  src'[i].informer = "cancelled"
    BY DEF RemovedClosed
  <2>2. CASE i \in ids
    BY <1>0, <1>1, <1>2, <2>2, ClosedSources
  <2>3. CASE i \notin ids
    <3>1. \A g \in GVKs : sources[g] # i
      BY <1>0, <1>1, <2>1, <2>3, ContentAssumption DEF ids, ContentTypeOK, Ids
    <3>2. QED
      BY <1>0, <1>1, <1>2, <2>1, <2>3, <3>1, ClosedSources DEF RemovedClosed
  <2>4. QED
    BY <2>2, <2>3
<1>11. QED
  BY <1>4, <1>6, <1>7, <1>8, <1>9, <1>10 DEF ContentInv

(* The finalizer closes every source and drops the cache. *)
LEMMA CacheDeleted == ASSUME ContentInv, DeleteCache PROVE ContentInv'
<1> DEFINE ids == {sources[g] : g \in GVKs} \ {0}
<1>0. ContentTypeOK /\ CacheSound /\ WatchSound /\ HandlerSound /\ RemovedClosed
  BY DEF ContentInv
<1>1. /\ src' = Closed(src, ids) /\ sources' = [g \in GVKs |-> 0] /\ caches' = 0
      /\ queued' = TRUE /\ events' = events + 1 /\ events < MaxEvents /\ watch.pc = "idle"
      /\ UNCHANGED <<watch, content, faults>>
  BY DEF DeleteCache, MuFree
<1>2. ids \in SUBSET Ids
  BY <1>0 DEF ContentTypeOK
<1>3. ContentTypeOK'
  <2>1. src' \in [Ids -> SourceRecords]
    BY <1>0, <1>1, <1>2, ClosedSources
  <2>2. QED
    BY <1>0, <1>1, <2>1, ContentAssumption DEF ContentTypeOK, SourceRecords
<1>4. HandlerSound'
  BY <1>0, <1>1, <1>2, ClosedSources DEF HandlerSound, Started
<1>5. RemovedClosed'
  <2>1. SUFFICES ASSUME NEW i \in Ids, src'[i].added PROVE src'[i].informer = "cancelled"
    BY DEF RemovedClosed
  <2>2. CASE i \in ids
    BY <1>0, <1>1, <1>2, <2>2, ClosedSources
  <2>3. CASE i \notin ids
    <3>1. \A g \in GVKs : sources[g] # i
      BY <2>3, ContentAssumption DEF Ids
    <3>2. QED
      BY <1>0, <1>1, <1>2, <2>1, <2>3, <3>1, ClosedSources DEF RemovedClosed
  <2>4. QED
    BY <2>2, <2>3
<1>6. CacheSound' /\ WatchSound' /\ KindsCovered'
  BY <1>0, <1>1 DEF CacheSound, WatchSound, KindsCovered
<1>7. QED
  BY <1>3, <1>4, <1>5, <1>6 DEF ContentInv

(* The callback of a source takes the source that the cache has for its kind
   out of the cache, its own or a later one. *)
LEMMA CallbackRemoves ==
  ASSUME ContentInv, NEW i \in Ids, OnPostSyncError(i)
  PROVE  ContentInv'
<1> DEFINE g == src[i].gvk
           now == IF src[i].cache = caches THEN {sources[g]} \ {0} ELSE {}
<1>0. ContentTypeOK /\ CacheSound /\ WatchSound /\ HandlerSound /\ RemovedClosed /\ KindsCovered
  BY DEF ContentInv
<1>1. /\ src' = [Closed(src, now) EXCEPT ![i].handler = "requeue"]
      /\ sources' = IF now = {} THEN sources ELSE [sources EXCEPT ![g] = 0]
      /\ src[i].handler = "callback" /\ watch.pc = "idle"
      /\ UNCHANGED <<caches, watch, content, queued, faults, events>>
  BY DEF OnPostSyncError, MuFree
<1>2. now \in SUBSET Ids /\ g \in GVKs
  BY <1>0, SourceTyped DEF ContentTypeOK, SourceRecords
<1>3. now # {} => src[i].cache = caches /\ now = {sources[g]} /\ sources[g] # 0
  OBVIOUS
<1> DEFINE closed == Closed(src, now)
<1>4. /\ closed \in [Ids -> SourceRecords]
      /\ [closed[i] EXCEPT !.handler = "requeue"] \in SourceRecords
  <2>1. closed \in [Ids -> SourceRecords]
    BY <1>0, <1>2, ClosedSources
  <2>2. closed[i] \in SourceRecords
    BY <2>1
  <2>3. QED
    <3> HIDE DEF closed
    <3> QED BY <2>1, <2>2 DEF SourceRecords
<1>5. src' \in [Ids -> SourceRecords]
  BY <1>1, <1>4
<1>6. /\ \A j \in Ids \ {i} : src'[j] = closed[j]
      /\ src'[i].handler = "requeue"
      /\ \A f \in {"gvk", "cache", "informer", "errored", "preSync", "added"} :
           src'[i][f] = closed[i][f]
  BY <1>1, <1>4 DEF SourceRecords
<1> HIDE DEF closed, now, g
(* Only the sources taken out are closed. *)
<1>7. /\ \A j \in Ids : /\ j \in now => src'[j].informer = "cancelled"
                        /\ j \notin now => src'[j].informer = src[j].informer
                        /\ src'[j].errored = src[j].errored /\ src'[j].preSync = src[j].preSync
                        /\ src'[j].added = src[j].added /\ src'[j].gvk = src[j].gvk
                        /\ src'[j].cache = src[j].cache
      /\ \A j \in Ids \ {i} : src'[j].handler = src[j].handler
  BY <1>0, <1>2, <1>6, ClosedSources DEF closed
<1>8. ContentTypeOK'
  BY <1>0, <1>1, <1>2, <1>5 DEF ContentTypeOK, SourceRecords
(* A source that stays in the cache is another one. *)
<1>9. ASSUME NEW h \in GVKs, sources'[h] # 0
      PROVE  sources'[h] = sources[h] /\ sources[h] \in Ids /\ sources[h] \notin now /\ sources[h] # i
  <2>1. sources'[h] = sources[h] /\ sources[h] \in Ids
    BY <1>0, <1>1, <1>9 DEF ContentTypeOK
  <2>2. Owned(sources[h], h)
    BY <1>0, <1>9, <2>1 DEF CacheSound
  <2>3. sources[h] \notin now
    <3>1. SUFFICES ASSUME sources[h] \in now PROVE FALSE
      OBVIOUS
    <3>2. sources[h] = sources[g] /\ now # {}
      BY <1>3, <3>1
    <3>3. Owned(sources[g], g)
      BY <1>0, <1>2, <1>3, <3>2 DEF CacheSound
    <3>4. h = g
      BY <2>2, <3>2, <3>3 DEF Owned
    <3>5. QED
      BY <1>0, <1>1, <1>2, <1>9, <3>2, <3>4 DEF ContentTypeOK
  <2>4. sources[h] # i
    <3>1. SUFFICES ASSUME sources[h] = i PROVE FALSE
      OBVIOUS
    <3>2. src[i].cache = caches /\ g = h
      BY <2>2, <3>1 DEF Owned, g
    <3>3. QED
      BY <1>9, <2>1, <2>3, <3>1, <3>2 DEF now
  <2>5. QED
    BY <2>1, <2>3, <2>4
<1>10. CacheSound'
  BY <1>0, <1>1, <1>7, <1>9 DEF CacheSound, Owned, Alive, Watched, Started
<1>11. WatchSound'
  BY <1>0, <1>1 DEF WatchSound
<1>12. HandlerSound'
  BY <1>0, <1>1, <1>6, <1>7 DEF HandlerSound, Started
<1>13. KindsCovered'
  BY <1>1, <1>6 DEF KindsCovered
<1>14. RemovedClosed'
  <2>1. SUFFICES ASSUME NEW j \in Ids, src'[j].added, \A h \in GVKs : sources'[h] # j
                 PROVE  src'[j].informer = "cancelled"
    BY DEF RemovedClosed
  <2>2. CASE j \notin now
    <3>1. \A h \in GVKs : sources[h] # j
      BY <1>0, <1>1, <1>2, <1>3, <2>1, <2>2 DEF ContentTypeOK
    <3>2. QED
      BY <1>0, <1>7, <2>1, <2>2, <3>1 DEF RemovedClosed
  <2>3. QED
    BY <1>7, <2>2
<1>15. QED
  BY <1>8, <1>10, <1>11, <1>12, <1>13, <1>14 DEF ContentInv

(* The steps of Watch that only take a kind off its list, its end, and a new
   release. *)
LEMMA WorkerKeeps ==
  ASSUME ContentInv,
         \/ \E g \in GVKs : StartFails(g) \/ WaitErrored(g) \/ WaitTimesOut(g)
         \/ WatchEnd
         \/ \E kinds \in (SUBSET GVKs) \ {{}} : ApplyRelease(kinds)
  PROVE  ContentInv'
<1>0. ContentTypeOK /\ CacheSound /\ WatchSound /\ HandlerSound /\ RemovedClosed /\ KindsCovered
  BY DEF ContentInv
<1>1. ASSUME NEW g \in GVKs, StartFails(g) \/ WaitErrored(g) \/ WaitTimesOut(g)
      PROVE  ContentInv'
  <2>1. /\ watch' = [watch EXCEPT !.todo = @ \ {g}, !.err = TRUE]
        /\ UNCHANGED <<caches, sources, src, content, queued, events>>
        /\ g \in watch.todo /\ faults' \in {faults, faults + 1}
        /\ faults' # faults => faults < MaxFaults
    BY <1>1 DEF StartFails, WaitErrored, WaitTimesOut
  <2>2. /\ watch'.todo = watch.todo \ {g} /\ watch'.err = TRUE
        /\ watch'.pc = watch.pc /\ watch'.start = watch.start
    BY <1>0, <2>1 DEF ContentTypeOK
  <2>3. ContentTypeOK'
    <3>1. watch' \in [pc : {"idle", "watch"}, todo : SUBSET GVKs,
                      start : [GVKs -> Ids \cup {0}], err : BOOLEAN]
      BY <1>0, <2>1 DEF ContentTypeOK
    <3>2. faults' \in 0..MaxFaults
      BY <1>0, <2>1, ContentAssumption DEF ContentTypeOK
    <3>3. QED
      BY <1>0, <2>1, <3>1, <3>2 DEF ContentTypeOK
  <2>4. watch.pc = "watch"
    BY <1>0, <2>1 DEF WatchSound, ContentTypeOK
  <2>5. CacheSound' /\ HandlerSound' /\ RemovedClosed'
    BY <1>0, <2>1 DEF CacheSound, HandlerSound, RemovedClosed, Owned, Alive, Watched, Started
  <2>6. WatchSound'
    BY <1>0, <2>1, <2>2 DEF WatchSound, Owned, Alive, Watched, Started
  <2>7. KindsCovered'
    BY <2>2, <2>4 DEF KindsCovered
  <2>8. QED
    BY <2>3, <2>5, <2>6, <2>7 DEF ContentInv
<1>2. CASE WatchEnd
  <2>1. /\ watch' = Idle /\ queued' = (queued \/ watch.err)
        /\ watch.pc = "watch" /\ watch.todo = {}
        /\ UNCHANGED <<caches, sources, src, content, faults, events>>
    BY <1>2 DEF WatchEnd
  <2>2. ContentTypeOK' /\ watch'.pc = "idle" /\ watch'.todo = {}
    BY <1>0, <2>1 DEF ContentTypeOK, Idle
  <2>3. CacheSound' /\ HandlerSound' /\ RemovedClosed'
    BY <1>0, <2>1 DEF CacheSound, HandlerSound, RemovedClosed, Owned, Alive, Watched, Started
  <2>4. WatchSound' /\ KindsCovered'
    BY <1>0, <2>1, <2>2 DEF WatchSound, KindsCovered
  <2>5. QED
    BY <2>2, <2>3, <2>4 DEF ContentInv
<1>3. ASSUME NEW kinds \in (SUBSET GVKs) \ {{}}, ApplyRelease(kinds)
      PROVE  ContentInv'
  <2>1. /\ watch.pc = "idle" /\ queued' = TRUE /\ content' = kinds
        /\ events < MaxEvents /\ events' = events + 1
        /\ UNCHANGED <<caches, sources, src, watch, faults>>
    BY <1>3 DEF ApplyRelease, MuFree
  <2>2. ContentTypeOK'
    BY <1>0, <2>1, ContentAssumption DEF ContentTypeOK
  <2>3. CacheSound' /\ HandlerSound' /\ RemovedClosed' /\ WatchSound'
    BY <1>0, <2>1
       DEF CacheSound, WatchSound, HandlerSound, RemovedClosed, Owned, Alive, Watched, Started
  <2>4. KindsCovered'
    BY <2>1 DEF KindsCovered
  <2>5. QED
    BY <2>2, <2>3, <2>4 DEF ContentInv
<1>4. QED
  BY <1>1, <1>2, <1>3

(* A source starts in a place no source had. *)
LEMMA SourceStarts ==
  ASSUME ContentInv, NEW g \in GVKs, StartNewSource(g)
  PROVE  ContentInv'
<1>0. ContentTypeOK /\ CacheSound /\ WatchSound /\ HandlerSound /\ RemovedClosed /\ KindsCovered
  BY DEF ContentInv
<1>1. PICK i \in Ids :
        /\ ~Started(i)
        /\ src' = [src EXCEPT ![i] = [NoSource EXCEPT !.gvk = g, !.cache = caches,
                                                      !.informer = "running"]]
        /\ watch' = [watch EXCEPT !.start[g] = i]
  BY DEF StartNewSource
<1>2. /\ UNCHANGED <<caches, sources, content, queued, faults, events>>
      /\ g \in watch.todo /\ watch.start[g] = 0
  BY DEF StartNewSource
<1> DEFINE s == [NoSource EXCEPT !.gvk = g, !.cache = caches, !.informer = "running"]
<1>3. /\ s \in SourceRecords /\ s.gvk = g /\ s.cache = caches /\ s.informer = "running"
      /\ s.errored = FALSE /\ s.handler = "none" /\ s.added = FALSE
  BY <1>0 DEF NoSource, SourceRecords, ContentTypeOK
<1>4. src' = [src EXCEPT ![i] = s]
  BY <1>1
<1> HIDE DEF s
<1>5. /\ src' \in [Ids -> SourceRecords] /\ src'[i] = s
      /\ \A j \in Ids \ {i} : src'[j] = src[j]
  BY <1>0, <1>3, <1>4, SourceTyped
<1>6. /\ watch'.pc = watch.pc /\ watch'.todo = watch.todo /\ watch'.err = watch.err
      /\ watch'.start = [watch.start EXCEPT ![g] = i]
  BY <1>0, <1>1 DEF ContentTypeOK
<1>7. ContentTypeOK'
  <2>1. watch' \in [pc : {"idle", "watch"}, todo : SUBSET GVKs,
                    start : [GVKs -> Ids \cup {0}], err : BOOLEAN]
    BY <1>0, <1>1 DEF ContentTypeOK
  <2>2. QED
    BY <1>0, <1>2, <1>5, <2>1 DEF ContentTypeOK, SourceRecords
<1>8. \A h \in GVKs : /\ sources[h] # i
                      /\ h \in watch.todo => watch.start[h] # i
  BY <1>0, <1>1, ContentAssumption DEF CacheSound, WatchSound, Owned, Ids
<1>9. CacheSound'
  BY <1>0, <1>2, <1>5, <1>8 DEF ContentTypeOK, CacheSound, Owned, Alive, Watched, Started
<1>10. WatchSound'
  <2>1. watch.pc = "watch" /\ caches # 0
    BY <1>0, <1>2 DEF WatchSound, ContentTypeOK
  <2>2. Owned(i, g)'
    BY <1>2, <1>3, <1>5, <2>1 DEF Owned, Alive, Watched, Started
  <2>3. ASSUME NEW h \in watch.todo, h # g, watch.start[h] # 0 PROVE Owned(watch.start[h], h)'
    <3>1. /\ h \in GVKs /\ watch.start[h] \in Ids \ {i} /\ Owned(watch.start[h], h)
          /\ watch'.start[h] = watch.start[h]
      BY <1>0, <1>6, <1>8, <2>3 DEF ContentTypeOK, WatchSound
    <3>2. QED
      BY <1>2, <1>5, <3>1 DEF Owned, Alive, Watched, Started
  <2>4. \A h \in watch.todo : h # g => watch'.start[h] = watch.start[h]
    BY <1>0, <1>6 DEF ContentTypeOK
  <2>5. watch'.start[g] = i
    BY <1>0, <1>6 DEF ContentTypeOK
  <2>6. ASSUME NEW h \in watch'.todo
        PROVE  sources'[h] = 0 /\ (watch'.start[h] # 0 => Owned(watch.start[h], h)')
    BY <1>0, <1>2, <1>6, <2>2, <2>3, <2>4, <2>5, <2>6 DEF WatchSound
  <2>7. QED
    BY <1>2, <1>6, <2>1, <2>6 DEF WatchSound
<1>11. HandlerSound' /\ RemovedClosed'
  BY <1>0, <1>2, <1>3, <1>5 DEF HandlerSound, RemovedClosed, Started
<1>12. KindsCovered'
  <2>1. watch'.pc = "watch"
    BY <1>0, <1>2, <1>6 DEF WatchSound, ContentTypeOK
  <2>2. QED
    BY <1>0, <1>2, <1>6, <2>1 DEF KindsCovered
<1>13. QED
  BY <1>7, <1>9, <1>10, <1>11, <1>12 DEF ContentInv

(* The sync of a source is announced: it enters the cache. *)
LEMMA SourceAdded ==
  ASSUME ContentInv, NEW g \in GVKs, WaitSynced(g)
  PROVE  ContentInv'
<1> DEFINE i == watch.start[g]
           s == [src[i] EXCEPT !.syncedChan = "closed", !.added = TRUE]
<1>0. ContentTypeOK /\ CacheSound /\ WatchSound /\ HandlerSound /\ RemovedClosed /\ KindsCovered
  BY DEF ContentInv
<1>1. /\ g \in watch.todo /\ i # 0
      /\ src' = [src EXCEPT ![i].syncedChan = "closed", ![i].added = TRUE]
      /\ sources' = [sources EXCEPT ![g] = i]
      /\ watch' = [watch EXCEPT !.todo = @ \ {g}]
      /\ UNCHANGED <<caches, content, queued, faults, events>>
  BY DEF WaitSynced
<1>2. i \in Ids /\ sources[g] = 0 /\ Owned(i, g) /\ watch.pc = "watch"
  BY <1>0, <1>1 DEF ContentTypeOK, WatchSound
<1>3. /\ s \in SourceRecords
      /\ \A f \in {"gvk", "cache", "informer", "errored", "preSync", "handler"} : s[f] = src[i][f]
  <2>1. src[i] \in SourceRecords
    BY <1>0, <1>2, SourceTyped
  <2> HIDE DEF i
  <2>2. s \in SourceRecords
    BY <2>1 DEF SourceRecords
  <2>3. QED
    BY <2>1, <2>2 DEF SourceRecords
<1>4. src' = [src EXCEPT ![i] = s]
  BY <1>0, <1>1, <1>2, SourceTyped
<1> HIDE DEF s
<1>5. /\ src' \in [Ids -> SourceRecords] /\ src'[i] = s
      /\ \A j \in Ids \ {i} : src'[j] = src[j]
  BY <1>0, <1>2, <1>3, <1>4, SourceTyped
<1>6. /\ watch'.pc = watch.pc /\ watch'.todo = watch.todo \ {g} /\ watch'.err = watch.err
      /\ watch'.start = watch.start
  BY <1>0, <1>1 DEF ContentTypeOK
<1>7. /\ sources' \in [GVKs -> Ids \cup {0}] /\ sources'[g] = i
      /\ \A h \in GVKs \ {g} : sources'[h] = sources[h]
  BY <1>0, <1>1, <1>2 DEF ContentTypeOK
<1>8. ContentTypeOK'
  <2>1. watch' \in [pc : {"idle", "watch"}, todo : SUBSET GVKs,
                    start : [GVKs -> Ids \cup {0}], err : BOOLEAN]
    BY <1>0, <1>1 DEF ContentTypeOK
  <2>2. QED
    BY <1>0, <1>1, <1>5, <1>7, <2>1 DEF ContentTypeOK, SourceRecords
<1> HIDE DEF i
<1>9. ASSUME NEW j \in Ids, NEW h, Owned(j, h) PROVE Owned(j, h)'
  BY <1>1, <1>3, <1>5, <1>9 DEF Owned, Alive, Watched, Started
<1>10. CacheSound'
  <2>1. ASSUME NEW h \in GVKs, sources'[h] # 0
        PROVE  sources'[h] \in Ids /\ Owned(sources'[h], h)
    BY <1>0, <1>2, <1>7, <2>1 DEF CacheSound, ContentTypeOK
  <2>2. ASSUME NEW h \in GVKs, NEW j, j = sources'[h], j # 0 PROVE Owned(j, h)'
    BY <1>9, <2>1, <2>2
  <2>3. QED
    BY <2>2 DEF CacheSound, Owned, Alive, Watched, Started
<1>11. WatchSound'
  <2>1. ASSUME NEW h \in watch'.todo
        PROVE  /\ h \in watch.todo /\ h \in GVKs /\ h # g /\ sources'[h] = 0
               /\ watch'.start[h] # 0 => watch'.start[h] \in Ids /\ Owned(watch'.start[h], h)
    BY <1>0, <1>6, <1>7, <2>1 DEF WatchSound, ContentTypeOK
  <2>2. ASSUME NEW h \in watch'.todo, NEW j, j = watch'.start[h], j # 0 PROVE Owned(j, h)'
    BY <1>9, <2>1, <2>2
  <2>3. caches' # 0
    BY <1>1, <1>2 DEF Owned
  <2>4. QED
    BY <1>2, <1>6, <2>1, <2>2, <2>3 DEF WatchSound, Owned, Alive, Watched, Started
<1>12. HandlerSound'
  BY <1>0, <1>3, <1>5 DEF HandlerSound, Started
<1>13. KindsCovered'
  <2>1. content \subseteq GVKs /\ i # 0
    BY <1>0, <1>1 DEF ContentTypeOK, i
  <2>2. QED
    BY <1>0, <1>1, <1>2, <1>6, <1>7, <2>1 DEF KindsCovered
<1>14. RemovedClosed'
  <2>1. SUFFICES ASSUME NEW j \in Ids, src'[j].added, \A h \in GVKs : sources'[h] # j
                 PROVE  src'[j].informer = "cancelled"
    BY DEF RemovedClosed
  <2>2. j # i /\ \A h \in GVKs : sources[h] # j
    BY <1>2, <1>7, <2>1, ContentAssumption DEF Ids
  <2>3. QED
    BY <1>0, <1>5, <2>1, <2>2 DEF RemovedClosed
<1>15. QED
  BY <1>8, <1>10, <1>11, <1>12, <1>13, <1>14 DEF ContentInv

LEMMA ContentStep == ASSUME ContentInv, [ContentNext]_contentVars PROVE ContentInv'
<1>1. CASE ContentNext
  BY <1>1, WatchBegins, CacheDeleted, WorkerKeeps, SourceStarts, SourceAdded, SourceKeeps,
     CallbackRemoves DEF ContentNext
<1>2. CASE UNCHANGED contentVars
  BY <1>2 DEF contentVars, ContentInv, ContentTypeOK, CacheSound, WatchSound, HandlerSound,
              KindsCovered, RemovedClosed, Owned, Alive, Watched, Started
<1>3. QED
  BY <1>1, <1>2

(* Every kind of the release stays watched: its source runs, or its error
   handler is still to take it out of the cache, or the extension is about to
   be reconciled, however callbacks, Watch and Delete meet at the cache's
   mutex and for any number of kinds and sources. The source whose handler
   saw no sync is excepted, as PreSyncErrorReturned says. *)
THEOREM KindsStayWatched == ContentSpec => []DeadSourceRequeued
<1>1. ContentInv /\ [ContentNext]_contentVars => ContentInv'
  BY ContentStep
<1>2. QED
  BY <1>1, ContentInitInv, ContentInvSafe, PTL DEF ContentSpec

(* No informer is leaked by the cache: a source that left it, because the
   release changed, its watch failed or the extension was deleted, has been
   closed. *)
THEOREM RemovedAreClosed == ContentSpec => []RemovedClosed
<1>1. ContentInv /\ [ContentNext]_contentVars => ContentInv'
  BY ContentStep
<1>2. ContentInv => RemovedClosed
  BY DEF ContentInv
<1>3. QED
  BY <1>1, <1>2, ContentInitInv, PTL DEF ContentSpec

-----------------------------------------------------------------------------
(* The pull secret controller. *)

(* A set of positions up to n that is not empty has a last one. *)
LEMMA LastExists ==
  ASSUME NEW n \in Nat, NEW T \in SUBSET (1..n), T # {}
  PROVE  \E m \in T : \A j \in T : j <= m
<1> DEFINE U == {n - i : i \in T}
<1>1. U \subseteq Nat /\ U # {}
  <2>1. \A i \in T : i \in Nat /\ i <= n
    OBVIOUS
  <2>2. \A i \in T : n - i \in Nat
    BY <2>1
  <2>3. PICK i : i \in T
    OBVIOUS
  <2>4. QED
    BY <2>2, <2>3
<1>2. \A x, y \in Nat : <<x, y>> \in OpToRel(<, Nat) <=> x < y
  BY DEF OpToRel
<1>3. PICK x \in U : \A y \in U : ~ (<<y, x>> \in OpToRel(<, Nat))
  <2> HIDE DEF U
  <2>1. QED
    BY <1>1, NatLessThanWellFounded, WFMin
<1>4. PICK m \in T : x = n - m
  OBVIOUS
<1>5. \A y \in U : ~ (y < x)
  BY <1>1, <1>2, <1>3
<1>6. \A j \in T : j <= m
  BY <1>4, <1>5
<1>7. QED
  BY <1>6

PassRecords == [pc : {"idle", "account", "secrets", "write"}, got : Seq(Contents),
                todo : Seq(Secrets), names : Seq(Secrets)]
PsTypeOK ==
  /\ psSecrets \in [Secrets -> Maybe(Contents)]
  /\ pullNames \in Maybe(PullLists)
  /\ psQueue \in [Controllers -> BOOLEAN]
  /\ pass \in [Controllers -> PassRecords]
  /\ psRaced \in BOOLEAN

(* What was collected is what there is of the first k secrets named, each at
   its place in p, in this order and without a gap. *)
Places(got, k, p) ==
  /\ p \in [1..Len(got) -> 1..k]
  /\ \A i, j \in 1..Len(got) : i < j => p[i] < p[j]
  /\ \A j \in 1..Len(got) : /\ psSecrets[Names[p[j]]] # {}
                            /\ got[j] = The(psSecrets[Names[p[j]]])
  /\ \A i \in 1..k : psSecrets[Names[i]] # {} => \E j \in 1..Len(got) : p[j] = i
AuthCollected(got, k) == \E p \in [1..Len(got) -> 1..k] : Places(got, k, p)

(* The predicate knows every pull secret of the account. *)
FilterKnows == pullNames # {} => \A i \in DOMAIN The(pullNames) : The(pullNames)[i] \in filter

(* A pass that no edit has overtaken: what it has read so far is still what
   the cluster has. *)
PassFresh(q) ==
  /\ q.pc = "account" => AuthCollected(q.got, 1)
  /\ q.pc = "secrets" =>
       /\ pullNames # {} /\ q.names = The(pullNames)
       /\ Len(q.todo) < Len(Names)
       /\ \A i \in 1..Len(q.todo) : q.todo[i] = Names[Len(Names) - Len(q.todo) + i]
       /\ AuthCollected(q.got, Len(Names) - Len(q.todo))
  /\ q.pc = "write" => AuthCollected(q.got, Len(Names)) /\ FilterKnows

(* The inductive invariant. *)
PassesFresh == ~psRaced => \A c \in Controllers : PassFresh(pass[c])
QuietFresh == Quiet /\ ~psRaced => FilterKnows /\ authFile = Wanted
PsInv == PsTypeOK /\ PassesFresh /\ QuietFresh

LEMMA NamesKnown ==
  ASSUME PsTypeOK
  PROVE  /\ Names \in Seq(Secrets) /\ Len(Names) \in Nat \ {0} /\ Names[1] = GlobalSecret
         /\ pullNames = {} => Len(Names) = 1
         /\ pullNames # {} => /\ The(pullNames) \in Seq(Secrets)
                              /\ Len(Names) = Len(The(pullNames)) + 1
                              /\ \A i \in 1..Len(The(pullNames)) : Names[i + 1] = The(pullNames)[i]
<1>1. pullNames = {} \/ \E l \in PullLists : pullNames = {l}
  BY DEF PsTypeOK, Maybe
<1>2. CASE pullNames = {}
  BY <1>2 DEF Names, Secrets
<1>3. ASSUME NEW l \in PullLists, pullNames = {l}
      PROVE  /\ The(pullNames) = l /\ l \in Seq(Secrets)
             /\ Names = <<GlobalSecret>> \o l
  BY <1>3, PullSecretsAssumption DEF Names, Secrets, The
<1>4. ASSUME NEW l \in PullLists, pullNames = {l}
      PROVE  /\ Names \in Seq(Secrets) /\ Len(Names) = Len(l) + 1 /\ Names[1] = GlobalSecret
             /\ \A i \in 1..Len(l) : Names[i + 1] = l[i]
  BY <1>3, <1>4, SMTT(30) DEF Secrets
<1>5. QED
  BY <1>1, <1>2, <1>3, <1>4

LEMMA SecretFound ==
  ASSUME PsTypeOK, NEW n \in Secrets, psSecrets[n] # {}
  PROVE  The(psSecrets[n]) \in Contents
<1>1. psSecrets[n] \in Maybe(Contents)
  BY DEF PsTypeOK
<1>2. PICK x \in Contents : psSecrets[n] = {x}
  BY <1>1 DEF Maybe
<1>3. QED
  BY <1>2 DEF The

(* The next secret named is collected. *)
LEMMA CollectNext ==
  ASSUME PsTypeOK, NEW got \in Seq(Contents), NEW k \in Nat, k < Len(Names), AuthCollected(got, k)
  PROVE  /\ Collect(got, Names[k + 1]) \in Seq(Contents)
         /\ AuthCollected(Collect(got, Names[k + 1]), k + 1)
<1> DEFINE n == Names[k + 1]
<1>0. n \in Secrets /\ Len(Names) \in Nat
  BY NamesKnown
<1>1. PICK p \in [1..Len(got) -> 1..k] : Places(got, k, p)
  BY DEF AuthCollected
<1>2. CASE psSecrets[n] = {}
  <2>1. Collect(got, n) = got
    BY <1>2 DEF Collect
  <2>2. p \in [1..Len(got) -> 1..(k + 1)]
    OBVIOUS
  <2>3. \A i \in 1..(k + 1) : i \in 1..k \/ i = k + 1
    OBVIOUS
  <2>4. Places(got, k + 1, p)
    BY <1>1, <1>2, <2>2, <2>3 DEF Places
  <2>5. QED
    BY <2>1, <2>2, <2>4 DEF AuthCollected
<1>3. CASE psSecrets[n] # {}
  <2> DEFINE x == The(psSecrets[n])
             m == Len(got)
             p2 == [j \in 1..(m + 1) |-> IF j = m + 1 THEN k + 1 ELSE p[j]]
  <2>1. x \in Contents
    BY <1>0, <1>3, SecretFound
  <2>2. Collect(got, n) = Append(got, x)
    BY <1>3 DEF Collect
  <2> HIDE DEF x, n
  <2>3. /\ m \in Nat
        /\ Append(got, x) \in Seq(Contents) /\ Len(Append(got, x)) = m + 1
        /\ \A j \in 1..m : Append(got, x)[j] = got[j]
        /\ Append(got, x)[m + 1] = x
    BY <2>1
  <2>4. /\ p2 \in [1..(m + 1) -> 1..(k + 1)]
        /\ p2[m + 1] = k + 1 /\ \A j \in 1..m : p2[j] = p[j]
    BY <2>3
  <2> HIDE DEF p2, m
  <2>5. \A j \in 1..(m + 1) : j \in 1..m \/ j = m + 1
    BY <2>3
  <2>6. \A i, j \in 1..(m + 1) : i < j => p2[i] < p2[j]
    <3>1. SUFFICES ASSUME NEW i \in 1..(m + 1), NEW j \in 1..(m + 1), i < j PROVE p2[i] < p2[j]
      OBVIOUS
    <3>2. i \in 1..m
      BY <2>3, <3>1
    <3>3. p[i] \in 1..k
      BY <3>2 DEF m
    <3>4. CASE j = m + 1
      BY <2>4, <3>2, <3>3, <3>4
    <3>5. CASE j \in 1..m
      BY <1>1, <2>4, <3>1, <3>2, <3>5 DEF Places, m
    <3>6. QED
      BY <2>5, <3>4, <3>5
  <2>7. \A j \in 1..(m + 1) : /\ psSecrets[Names[p2[j]]] # {}
                              /\ Append(got, x)[j] = The(psSecrets[Names[p2[j]]])
    <3>1. SUFFICES ASSUME NEW j \in 1..(m + 1)
                   PROVE  /\ psSecrets[Names[p2[j]]] # {}
                          /\ Append(got, x)[j] = The(psSecrets[Names[p2[j]]])
      OBVIOUS
    <3>2. CASE j = m + 1
      BY <1>3, <2>3, <2>4, <3>2 DEF x, n
    <3>3. CASE j \in 1..m
      BY <1>1, <2>3, <2>4, <3>3 DEF Places, m
    <3>4. QED
      BY <2>5, <3>2, <3>3
  <2>8. \A i \in 1..(k + 1) : psSecrets[Names[i]] # {} => \E j \in 1..(m + 1) : p2[j] = i
    <3>1. SUFFICES ASSUME NEW i \in 1..(k + 1), psSecrets[Names[i]] # {}
                   PROVE  \E j \in 1..(m + 1) : p2[j] = i
      OBVIOUS
    <3>2. CASE i = k + 1
      BY <2>3, <2>4, <3>2
    <3>3. CASE i \in 1..k
      <4>1. PICK j \in 1..m : p[j] = i
        BY <1>1, <3>1, <3>3 DEF Places, m
      <4>2. QED
        BY <2>3, <2>4, <4>1
    <3>4. QED
      BY <3>2, <3>3
  <2>9. Places(Append(got, x), k + 1, p2)
    BY <2>3, <2>4, <2>6, <2>7, <2>8 DEF Places
  <2>10. AuthCollected(Append(got, x), k + 1)
    BY <2>3, <2>4, <2>9 DEF AuthCollected
  <2>11. QED
    BY <2>2, <2>3, <2>10 DEF n
<1>4. QED
  BY <1>2, <1>3

LEMMA CollectNone == AuthCollected(<<>>, 0)
<1>1. Len(<<>>) = 0 /\ \A i : i \notin 1..0
  OBVIOUS
<1> DEFINE p == [i \in 1..0 |-> i]
<1>2. p \in [1..0 -> 1..0]
  BY <1>1
<1>3. Places(<<>>, 0, p)
  BY <1>1, <1>2 DEF Places
<1>4. QED
  BY <1>1, <1>2, <1>3 DEF AuthCollected

(* B is the m maps A, in their order at the places p, with maps without
   entries between them. *)
Spread(A, B, m, n, p) ==
  /\ DOMAIN A = 1..m /\ DOMAIN B = 1..n
  /\ p \in [1..m -> 1..n]
  /\ \A i, j \in 1..m : i < j => p[i] < p[j]
  /\ \A j \in 1..m : A[j] = B[p[j]]
  /\ \A i \in 1..n : (\A j \in 1..m : p[j] # i) => DOMAIN B[i] = {}

(* Maps without entries between the others change nothing. *)
LEMMA LastWinsSame ==
  ASSUME NEW m \in Nat, NEW n \in Nat, NEW A, NEW B, NEW p, Spread(A, B, m, n, p)
  PROVE  LastWins(A) = LastWins(B)
<1> USE DEF Spread
<1> DEFINE inA(r) == {i \in 1..m : r \in DOMAIN A[i]}
           inB(r) == {i \in 1..n : r \in DOMAIN B[i]}
           lastA(r) == CHOOSE i \in inA(r) : \A j \in inA(r) : j <= i
           lastB(r) == CHOOSE i \in inB(r) : \A j \in inB(r) : j <= i
           regsA == UNION {DOMAIN A[i] : i \in 1..m}
           regsB == UNION {DOMAIN B[i] : i \in 1..n}
<1>1. /\ LastWins(A) = [r \in regsA |-> A[lastA(r)][r]]
      /\ LastWins(B) = [r \in regsB |-> B[lastB(r)][r]]
  BY DEF LastWins
<1>2. regsA = regsB
  <2>1. ASSUME NEW i \in 1..n, NEW r \in DOMAIN B[i] PROVE r \in regsA
    <3>1. PICK j \in 1..m : p[j] = i
      BY <2>1
    <3>2. QED
      BY <3>1
  <2>2. QED
    BY <2>1
<1>3. ASSUME NEW r \in regsA PROVE A[lastA(r)][r] = B[lastB(r)][r]
  <2>1. inA(r) \in SUBSET (1..m) /\ inA(r) # {}
    OBVIOUS
  <2>2. PICK a \in inA(r) : \A j \in inA(r) : j <= a
    <3> HIDE DEF inA
    <3>1. QED
      BY <2>1, LastExists
  <2>3. p[a] \in inB(r)
    BY <2>2
  <2>4. ASSUME NEW i \in inB(r) PROVE i <= p[a]
    <3>1. PICK j \in 1..m : p[j] = i
      BY <2>4
    <3>2. j \in inA(r)
      BY <2>4, <3>1
    <3>3. j \in Nat /\ a \in 1..m /\ j <= a /\ p[j] \in 1..n /\ p[a] \in 1..n
      BY <2>2, <3>1, <3>2
    <3>4. j < a => p[j] < p[a]
      BY <3>1, <3>3
    <3>5. QED
      BY <3>1, <3>3, <3>4
  <2>5. inA(r) \subseteq Nat /\ inB(r) \subseteq Nat
    OBVIOUS
  <2> HIDE DEF inA, inB
  <2>6. lastA(r) = a
    BY <2>2, <2>5
  <2>7. lastB(r) = p[a]
    BY <2>3, <2>4, <2>5
  <2>8. a \in 1..m
    BY <2>1, <2>2
  <2>9. QED
    BY <2>6, <2>7, <2>8
<1> HIDE DEF lastA, lastB, regsA, regsB
<1>4. QED
  BY <1>1, <1>2, <1>3

(* A pass that has read every secret named, as the cluster has it, writes the
   file that is wanted. *)
LEMMA CollectedAll ==
  ASSUME PsTypeOK, NEW got \in Seq(Contents), AuthCollected(got, Len(Names))
  PROVE  Wanted = IF got = <<>> THEN {} ELSE {Merge(got)}
<1> DEFINE m == Len(got)
           n == Len(Names)
           A == [i \in DOMAIN got |-> AuthsOf(got[i])]
           B == [i \in DOMAIN Names |-> Entries(Names[i])]
<1>0. m \in Nat /\ n \in Nat /\ DOMAIN got = 1..m /\ DOMAIN Names = 1..n
  BY NamesKnown
<1>1. PICK p \in [1..m -> 1..n] : Places(got, n, p)
  BY DEF AuthCollected
<1>2. CASE got = <<>>
  BY <1>0, <1>1, <1>2 DEF Wanted, Places
<1>3. CASE got # <<>>
  <2>1. m # 0
    BY <1>3
  <2>2. ~ \A i \in DOMAIN Names : psSecrets[Names[i]] = {}
    BY <1>0, <1>1, <2>1 DEF Places
  <2>3. \A j \in 1..m : A[j] = B[p[j]]
    BY <1>0, <1>1 DEF Places, Entries
  <2>4. \A i \in 1..n : (\A j \in 1..m : p[j] # i) => DOMAIN B[i] = {}
    BY <1>0, <1>1 DEF Places, Entries
  <2>5. \A i, j \in 1..m : i < j => p[i] < p[j]
    BY <1>1 DEF Places
  <2>6. DOMAIN A = 1..m /\ DOMAIN B = 1..n
    BY <1>0
  <2>7. Merge(got) = LastWins(A)
    BY DEF Merge
  <2>8. Wanted = {LastWins(B)}
    BY <2>2 DEF Wanted
  <2>9. p \in [1..m -> 1..n]
    OBVIOUS
  <2> HIDE DEF A, B, m, n
  <2>10. LastWins(A) = LastWins(B)
    <3>1. Spread(A, B, m, n, p)
      BY <2>3, <2>4, <2>5, <2>6, <2>9 DEF Spread
    <3>2. QED
      BY <1>0, <3>1, LastWinsSame
  <2>11. QED
    BY <1>3, <2>7, <2>8, <2>10
<1>4. QED
  BY <1>2, <1>3

LEMMA PsInitInv == PsInit => PsInv
<1>1. SUFFICES ASSUME PsInit PROVE PsInv
  OBVIOUS
<1>2. PsTypeOK
  <2>1. NoPass \in PassRecords
    BY DEF NoPass, PassRecords
  <2>2. QED
    BY <1>1, <2>1 DEF PsInit, PsTypeOK, Controllers
<1>3. PassesFresh
  BY <1>1 DEF PsInit, PassesFresh, PassFresh, NoPass
<1>4. QuietFresh
  <2>1. SUFFICES ASSUME Quiet PROVE FilterKnows /\ authFile = Wanted
    BY DEF QuietFresh
  <2>2. pullNames = {} /\ psSecrets[GlobalSecret] = {} /\ authFile = {}
    BY <1>1, <2>1 DEF PsInit, Quiet, Controllers
  <2>3. QED
    BY <2>2 DEF FilterKnows, Wanted, Names
<1>5. QED
  BY <1>2, <1>3, <1>4 DEF PsInv

(* A step of one controller's pass that leaves the cluster as it is, and the
   filter in order for the other one. *)
LEMMA PassStepFresh ==
  ASSUME PsInv, NEW c \in Controllers, NEW q \in PassRecords,
         pass' = [pass EXCEPT ![c] = q],
         UNCHANGED <<psSecrets, pullNames>>, psQueue' \in [Controllers -> BOOLEAN],
         psRaced' \in BOOLEAN,
         ~psRaced' => \/ ~psRaced
                      \/ \A d \in Controllers \ {c} : pass[d].pc = "idle",
         ~psRaced' => PassFresh(q)' /\ (FilterKnows => FilterKnows'),
         Quiet' /\ ~psRaced' => FilterKnows' /\ authFile' = Wanted'
  PROVE  PsInv'
<1>1. PsTypeOK'
  BY DEF PsInv, PsTypeOK
<1>2. PassesFresh'
  <2>1. SUFFICES ASSUME ~psRaced', NEW d \in Controllers PROVE PassFresh(pass[d])'
    BY DEF PassesFresh
  <2>2. CASE d = c
    <3>1. pass'[c] = q
      BY DEF PsInv, PsTypeOK
    <3>2. QED
      BY <2>1, <2>2, <3>1 DEF PassFresh
  <2>3. CASE d # c
    <3>1. pass'[d] = pass[d]
      BY <2>3 DEF PsInv, PsTypeOK
    <3>2. CASE pass[d].pc = "idle"
      BY <3>1, <3>2 DEF PassFresh
    <3>3. CASE ~psRaced
      <4>1. PassFresh(pass[d])
        BY <3>3 DEF PsInv, PassesFresh
      <4>2. Names' = Names /\ \A got, k : AuthCollected(got, k)' = AuthCollected(got, k)
        BY DEF Names, AuthCollected, Places
      <4>3. QED
        BY <2>1, <3>1, <4>1, <4>2 DEF PassFresh
    <3>4. QED
      BY <2>1, <2>3, <3>2, <3>3
  <2>4. QED
    BY <2>2, <2>3
<1>3. QuietFresh'
  BY DEF QuietFresh
<1>4. QED
  BY <1>1, <1>2, <1>3 DEF PsInv

(* What a pass relies on is of the cluster and the filter alone. *)
LEMMA ClusterKept ==
  ASSUME UNCHANGED <<psSecrets, pullNames>>
  PROVE  /\ Names' = Names /\ Wanted' = Wanted
         /\ \A got, k : AuthCollected(got, k)' = AuthCollected(got, k)
         /\ filter' = filter => (FilterKnows' <=> FilterKnows)
BY DEF Names, Wanted, Entries, AuthCollected, Places, FilterKnows

(* The steps of a pass. *)
LEMMA PassKeeps == ASSUME PsInv, NEW c \in Controllers, PsStep(c) PROVE PsInv'
<1>s. PICK s : s = pass[c]
  OBVIOUS
<1>0. /\ PsTypeOK /\ s \in PassRecords /\ (~psRaced => PassFresh(s))
      /\ \A q : pass' = [pass EXCEPT ![c] = q] => pass'[c] = q
  BY <1>s DEF PsInv, PsTypeOK, PassesFresh
<1>1. UNCHANGED <<psSecrets, pullNames>>
  BY DEF PsStep, PsBegin, PsGetAccount, PsGetSecret, PsUpdateFilter, PsReadFails, PsWrite
<1>2. /\ Names' = Names /\ Wanted' = Wanted
      /\ \A got, k : AuthCollected(got, k)' = AuthCollected(got, k)
      /\ filter' = filter => (FilterKnows' <=> FilterKnows)
  BY <1>1, ClusterKept
<1>3. Names \in Seq(Secrets) /\ Len(Names) \in Nat \ {0} /\ Names[1] = GlobalSecret
  BY <1>0, NamesKnown
<1>4. psQueue \in [Controllers -> BOOLEAN] /\ psRaced \in BOOLEAN
  BY <1>0 DEF PsTypeOK
<1>5. CASE PsBegin(c)
  <2>0. PICK got : got = Collect(<<>>, GlobalSecret)
    OBVIOUS
  <2> DEFINE q == [NoPass EXCEPT !.pc = "account", !.got = got]
  <2>1. /\ pass' = [pass EXCEPT ![c] = q] /\ filter' = filter
        /\ psQueue' \in [Controllers -> BOOLEAN] /\ s.pc = "idle"
        /\ psRaced' = IF NoPassRuns THEN FALSE ELSE psRaced
    BY <1>s, <1>4, <1>5, <2>0 DEF PsBegin
  <2>2. got \in Seq(Contents) /\ AuthCollected(got, 1)
    <3>1. <<>> \in Seq(Contents) /\ 0 < Len(Names) /\ 0 + 1 = 1 /\ 0 \in Nat
      BY <1>3
    <3>2. /\ Collect(<<>>, Names[0 + 1]) \in Seq(Contents)
          /\ AuthCollected(Collect(<<>>, Names[0 + 1]), 0 + 1)
      BY <1>0, <3>1, CollectNone, CollectNext
    <3>3. QED
      BY <1>3, <2>0, <3>1, <3>2
  <2>3. q \in PassRecords /\ q.pc = "account" /\ q.got = got
    <3>1. NoPass \in PassRecords
      BY DEF NoPass, PassRecords
    <3>2. QED
      BY <2>2, <3>1 DEF PassRecords
  <2> HIDE DEF q
  <2>4. PassFresh(q)'
    BY <1>2, <2>2, <2>3 DEF PassFresh
  <2>5. ~Quiet'
    BY <1>0, <2>1, <2>3 DEF Quiet, NoPassRuns
  <2>6. ~psRaced' => ~psRaced \/ \A d \in Controllers \ {c} : pass[d].pc = "idle"
    BY <2>1 DEF NoPassRuns
  <2>7. psRaced' \in BOOLEAN
    BY <1>4, <2>1
  <2>8. QED
    BY <1>1, <1>2, <2>1, <2>3, <2>4, <2>5, <2>6, <2>7, PassStepFresh
<1>6. CASE PsGetAccount(c)
  <2>0. PICK l : l = The(pullNames)
    OBVIOUS
  <2>q. PICK q : q = IF pullNames = {} THEN [s EXCEPT !.pc = "write"]
                     ELSE [s EXCEPT !.pc = "secrets", !.todo = l, !.names = l]
    OBVIOUS
  <2>1. /\ pass' = [pass EXCEPT ![c] = q] /\ UNCHANGED <<filter, psQueue, psRaced>>
        /\ s.pc = "account"
    BY <1>s, <1>6, <2>0, <2>q DEF PsGetAccount
  <2>2. /\ q \in PassRecords /\ q.got = s.got
        /\ pullNames = {} => q.pc = "write"
        /\ pullNames # {} => q.pc = "secrets" /\ q.todo = l /\ q.names = l
    <3>1. CASE pullNames = {}
      BY <1>0, <2>q, <3>1 DEF PassRecords
    <3>2. CASE pullNames # {}
      BY <1>0, <2>0, <2>q, <3>2, NamesKnown DEF PassRecords
    <3>3. QED
      BY <3>1, <3>2
  <2>3. ~psRaced => PassFresh(q)'
    <3>1. SUFFICES ASSUME ~psRaced PROVE PassFresh(q)'
      OBVIOUS
    <3>2. AuthCollected(s.got, 1)
      BY <1>0, <2>1, <3>1 DEF PassFresh
    <3>3. CASE pullNames = {}
      <4>1. Len(Names) = 1
        BY <1>0, <3>3, NamesKnown
      <4>2. FilterKnows'
        BY <1>1, <3>3 DEF FilterKnows
      <4>3. QED
        BY <1>2, <2>2, <3>2, <3>3, <4>1, <4>2 DEF PassFresh
    <3>4. CASE pullNames # {}
      <4>1. /\ l \in Seq(Secrets) /\ Len(Names) = Len(l) + 1 /\ Len(l) \in Nat
            /\ \A i \in 1..Len(l) : Names[i + 1] = l[i]
        BY <1>0, <2>0, <3>4, NamesKnown
      <4>2. Len(Names) - Len(l) = 1 /\ Len(l) < Len(Names)
        BY <4>1
      <4>3. \A i \in 1..Len(l) : l[i] = Names[Len(Names) - Len(l) + i]
        BY <4>1, <4>2
      <4>4. q.todo = l /\ q.names = l /\ q.pc = "secrets" /\ l = The(pullNames)'
        BY <1>1, <2>0, <2>2, <3>4
      <4>5. QED
        BY <1>1, <1>2, <2>2, <3>2, <3>4, <4>2, <4>3, <4>4 DEF PassFresh
    <3>5. QED
      BY <3>3, <3>4
  <2>4. ~Quiet'
    <3>1. q.pc # "idle"
      BY <2>2
    <3>2. QED
      BY <1>0, <2>1, <3>1 DEF Quiet, NoPassRuns
  <2>5. QED
    BY <1>1, <1>2, <1>4, <2>1, <2>2, <2>3, <2>4, PassStepFresh
<1>7. CASE PsGetSecret(c)
  <2>0. PICK got, k, t : /\ got = Collect(s.got, Head(s.todo)) /\ t = Tail(s.todo)
                         /\ k = Len(Names) - Len(s.todo)
    OBVIOUS
  <2> DEFINE q == [s EXCEPT !.got = got, !.todo = t]
  <2>1. /\ pass' = [pass EXCEPT ![c] = q] /\ UNCHANGED <<filter, psQueue, psRaced>>
        /\ s.pc = "secrets" /\ s.todo # <<>>
    BY <1>s, <1>0, <1>7, <2>0 DEF PsGetSecret, PsTypeOK
  <2>2. /\ s.todo \in Seq(Secrets) /\ s.got \in Seq(Contents) /\ Len(s.todo) \in Nat \ {0}
        /\ Head(s.todo) = s.todo[1] /\ Head(s.todo) \in Secrets
        /\ t \in Seq(Secrets) /\ Len(t) = Len(s.todo) - 1
        /\ \A i \in 1..Len(t) : t[i] = s.todo[i + 1]
    BY <1>0, <2>0, <2>1 DEF PassRecords
  <2>3. got \in Seq(Contents)
    BY <1>0, <2>0, <2>2, SecretFound DEF Collect
  <2>4. /\ q \in PassRecords /\ q.pc = "secrets" /\ q.names = s.names
        /\ q.got = got /\ q.todo = t
    BY <1>0, <2>1, <2>2, <2>3 DEF PassRecords
  <2> HIDE DEF q
  <2>5. ~psRaced => PassFresh(q)'
    <3>1. SUFFICES ASSUME ~psRaced PROVE PassFresh(q)'
      OBVIOUS
    <3>2. /\ pullNames # {} /\ s.names = The(pullNames) /\ Len(s.todo) < Len(Names)
          /\ \A i \in 1..Len(s.todo) : s.todo[i] = Names[k + i]
          /\ AuthCollected(s.got, k)
      BY <1>0, <2>0, <2>1, <3>1 DEF PassFresh
    <3>3. /\ k \in Nat /\ k < Len(Names) /\ s.todo[1] = Names[k + 1]
          /\ Len(Names) - Len(t) = k + 1 /\ Len(t) < Len(Names)
      <4>1. 1 \in 1..Len(s.todo)
        BY <2>2
      <4>2. s.todo[1] = Names[k + 1]
        BY <3>2, <4>1
      <4>3. Len(s.todo) \in Nat /\ Len(Names) \in Nat
        BY <1>3, <2>2
      <4>4. k \in Nat /\ k < Len(Names)
        BY <2>0, <2>2, <3>2, <4>3
      <4>5. Len(Names) - Len(t) = k + 1 /\ Len(t) < Len(Names)
        <5>1. /\ k = Len(Names) - Len(s.todo) /\ Len(t) = Len(s.todo) - 1
              /\ Len(s.todo) < Len(Names)
          BY <2>0, <2>2, <3>2
        <5>2. \A n, m : n \in Nat /\ m \in Nat /\ m < n => n - (m - 1) = (n - m) + 1 /\ m - 1 < n
          OBVIOUS
        <5>3. QED
          BY <4>3, <5>1, <5>2
      <4>6. QED
        BY <4>2, <4>4, <4>5
    <3>4. \A i \in 1..Len(t) : t[i] = Names[k + 1 + i]
      <4>1. SUFFICES ASSUME NEW i \in 1..Len(t) PROVE t[i] = Names[k + 1 + i]
        OBVIOUS
      <4>2. i + 1 \in 1..Len(s.todo) /\ k + (i + 1) = k + 1 + i
        BY <2>2, <3>3
      <4>3. QED
        BY <2>2, <3>2, <4>2
    <3>5. AuthCollected(q.got, k + 1)
      <4>1. q.got = Collect(s.got, Names[k + 1])
        BY <2>0, <2>2, <2>4, <3>3
      <4>2. QED
        BY <1>0, <2>2, <3>2, <3>3, <4>1, CollectNext
    <3>6. QED
      BY <1>1, <1>2, <2>4, <3>2, <3>3, <3>4, <3>5 DEF PassFresh
  <2>6. ~Quiet'
    BY <1>0, <2>1, <2>4 DEF Quiet, NoPassRuns
  <2>7. QED
    BY <1>1, <1>2, <1>4, <2>1, <2>4, <2>5, <2>6, PassStepFresh
<1>8. CASE PsUpdateFilter(c)
  <2> DEFINE q == [s EXCEPT !.pc = "write"]
  <2>1. /\ pass' = [pass EXCEPT ![c] = q] /\ UNCHANGED <<psQueue, psRaced>>
        /\ s.pc = "secrets" /\ s.todo = <<>>
        /\ filter' = {s.names[i] : i \in DOMAIN s.names}
    BY <1>s, <1>0, <1>8 DEF PsUpdateFilter, PsTypeOK
  <2>2. q \in PassRecords /\ q.pc = "write" /\ q.got = s.got
    BY <1>0 DEF PassRecords
  <2> HIDE DEF q
  <2>3. ~psRaced => PassFresh(q)' /\ FilterKnows'
    <3>1. SUFFICES ASSUME ~psRaced PROVE PassFresh(q)' /\ FilterKnows'
      OBVIOUS
    <3>2. s.names = The(pullNames) /\ AuthCollected(s.got, Len(Names) - Len(s.todo))
      BY <1>0, <2>1, <3>1 DEF PassFresh
    <3>3. Len(Names) - Len(s.todo) = Len(Names)
      BY <1>3, <2>1
    <3>4. FilterKnows'
      BY <1>1, <2>1, <3>2 DEF FilterKnows
    <3>5. QED
      BY <1>2, <2>2, <3>2, <3>3, <3>4 DEF PassFresh
  <2>4. ~Quiet'
    BY <1>0, <2>1, <2>2 DEF Quiet, NoPassRuns
  <2>5. QED
    BY <1>1, <1>4, <2>1, <2>2, <2>3, <2>4, PassStepFresh
<1>9. NoPass \in PassRecords /\ NoPass.pc = "idle" /\ PassFresh(NoPass)'
  BY DEF NoPass, PassRecords, PassFresh
<1>10. CASE PsReadFails(c)
  <2>1. /\ pass' = [pass EXCEPT ![c] = NoPass] /\ UNCHANGED <<filter, psRaced>>
        /\ psQueue' = [psQueue EXCEPT ![c] = TRUE]
    BY <1>10 DEF PsReadFails
  <2>2. psQueue' \in [Controllers -> BOOLEAN] /\ psQueue'[c]
    BY <1>4, <2>1
  <2>3. ~Quiet'
    BY <2>2 DEF Quiet
  <2>4. QED
    BY <1>1, <1>2, <1>4, <1>9, <2>1, <2>2, <2>3, PassStepFresh
<1>11. CASE PsWrite(c)
  <2>1. /\ pass' = [pass EXCEPT ![c] = NoPass] /\ UNCHANGED <<filter, psRaced>> /\ s.pc = "write"
        /\ authFile' = IF s.got = <<>> THEN {}
                       ELSE IF Malformed(s.got) THEN authFile ELSE {Merge(s.got)}
        /\ psQueue' = [psQueue EXCEPT ![c] = @ \/ Malformed(s.got)]
    BY <1>s, <1>11 DEF PsWrite
  <2>2. /\ psQueue' \in [Controllers -> BOOLEAN]
        /\ Malformed(s.got) => psQueue'[c]
    BY <1>4, <2>1
  <2>3. Quiet' /\ ~psRaced' => FilterKnows' /\ authFile' = Wanted'
    <3>1. SUFFICES ASSUME Quiet', ~psRaced' PROVE FilterKnows' /\ authFile' = Wanted'
      OBVIOUS
    <3>2. ~Malformed(s.got)
      BY <2>2, <3>1 DEF Quiet
    <3>3. AuthCollected(s.got, Len(Names)) /\ FilterKnows
      BY <1>0, <2>1, <3>1 DEF PassFresh
    <3>4. s.got \in Seq(Contents)
      BY <1>0 DEF PassRecords
    <3>5. QED
      BY <1>0, <1>2, <2>1, <3>2, <3>3, <3>4, CollectedAll
  <2>4. QED
    BY <1>1, <1>2, <1>4, <1>9, <2>1, <2>2, <2>3, PassStepFresh
<1>12. QED
  BY <1>5, <1>6, <1>7, <1>8, <1>10, <1>11 DEF PsStep

(* An edit of the cluster. While no pass runs, an edit that queues nothing is
   of a secret that nobody names. *)
LEMMA EditKeeps ==
  ASSUME PsInv,
         \/ \E n \in Secrets, d \in Maybe(Contents) : PsEditSecret(n, d)
         \/ \E l \in Maybe(PullLists) : EditAccount(l)
  PROVE  PsInv'
<1>0. PsTypeOK
  BY DEF PsInv
<1>1. ASSUME NEW n \in Secrets, NEW d \in Maybe(Contents), PsEditSecret(n, d) PROVE PsInv'
  <2>1. /\ psSecrets' = [psSecrets EXCEPT ![n] = d]
        /\ psQueue' = [psQueue EXCEPT !["secret"] = @ \/ Admits(n)]
        /\ psRaced' = (psRaced \/ ~NoPassRuns)
        /\ UNCHANGED <<pullNames, filter, authFile, pass>>
    BY <1>1 DEF PsEditSecret
  <2>2. PsTypeOK'
    <3>1. psSecrets' \in [Secrets -> Maybe(Contents)]
      BY <1>0, <2>1 DEF PsTypeOK
    <3>2. psQueue' \in [Controllers -> BOOLEAN] /\ psRaced' \in BOOLEAN
      BY <1>0, <2>1 DEF PsTypeOK, Controllers
    <3>3. QED
      BY <1>0, <2>1, <3>1, <3>2 DEF PsTypeOK
  <2>3. ~psRaced' => NoPassRuns /\ ~psRaced
    BY <1>0, <2>1 DEF PsTypeOK
  <2>4. PassesFresh'
    BY <2>1, <2>3 DEF PassesFresh, PassFresh, NoPassRuns
  <2>5. ASSUME Quiet', ~psRaced' PROVE FilterKnows' /\ authFile' = Wanted'
    <3>1. ~Admits(n) /\ Quiet
      BY <1>0, <2>1, <2>5 DEF Quiet, NoPassRuns, Controllers, PsTypeOK
    <3>2. FilterKnows /\ authFile = Wanted
      BY <2>3, <2>5, <3>1 DEF PsInv, QuietFresh
    <3>3. \A i \in DOMAIN Names : Names[i] # n /\ Names[i] \in Secrets
      <4>1. SUFFICES ASSUME NEW i \in DOMAIN Names PROVE Names[i] # n /\ Names[i] \in Secrets
        OBVIOUS
      <4>2. i \in 1..Len(Names) /\ Names[i] \in Secrets
        BY <1>0, NamesKnown
      <4>3. CASE i = 1
        BY <1>0, <3>1, <4>2, <4>3, NamesKnown DEF Admits
      <4>4. CASE i # 1
        <5>1. pullNames # {}
          BY <1>0, <4>2, <4>4, NamesKnown
        <5>2. i - 1 \in 1..Len(The(pullNames)) /\ The(pullNames) \in Seq(Secrets)
          BY <1>0, <4>2, <4>4, <5>1, NamesKnown
        <5>3. Names[(i - 1) + 1] = The(pullNames)[i - 1]
          BY <1>0, <5>1, <5>2, NamesKnown
        <5>4. (i - 1) + 1 = i
          BY <4>2
        <5>5. The(pullNames)[i - 1] \in filter
          BY <3>2, <5>1, <5>2 DEF FilterKnows
        <5>6. QED
          BY <3>1, <4>2, <5>3, <5>4, <5>5 DEF Admits
      <4>5. QED
        BY <4>3, <4>4
    <3>4. Names' = Names
      BY <2>1 DEF Names
    <3>5. \A i \in DOMAIN Names : psSecrets'[Names[i]] = psSecrets[Names[i]]
      BY <1>0, <2>1, <3>3 DEF PsTypeOK
    <3>6. \A i \in DOMAIN Names : Entries(Names[i])' = Entries(Names[i])
      BY <3>4, <3>5 DEF Entries
    <3>7. Wanted' = Wanted
      BY <3>4, <3>5, <3>6 DEF Wanted
    <3>8. FilterKnows'
      BY <2>1, <3>2 DEF FilterKnows
    <3>9. QED
      BY <2>1, <3>2, <3>7, <3>8
  <2>6. QED
    BY <2>2, <2>4, <2>5 DEF PsInv, QuietFresh
<1>2. ASSUME NEW l \in Maybe(PullLists), EditAccount(l) PROVE PsInv'
  <2>1. /\ pullNames' = l
        /\ psQueue' = [psQueue EXCEPT !["serviceaccount"] = TRUE]
        /\ psRaced' = (psRaced \/ ~NoPassRuns)
        /\ UNCHANGED <<psSecrets, filter, authFile, pass>>
    BY <1>2 DEF EditAccount
  <2>2. PsTypeOK' /\ psQueue'["serviceaccount"]
    BY <1>0, <2>1 DEF PsTypeOK, Controllers
  <2>3. ~psRaced' => NoPassRuns
    BY <1>0, <2>1 DEF PsTypeOK
  <2>4. PassesFresh'
    BY <2>1, <2>3 DEF PassesFresh, PassFresh, NoPassRuns
  <2>5. ~Quiet'
    BY <2>2 DEF Quiet, Controllers
  <2>6. QED
    BY <2>2, <2>4, <2>5 DEF PsInv, QuietFresh
<1>3. QED
  BY <1>1, <1>2

LEMMA PsStepInv == ASSUME PsInv, [PsNext]_psVars PROVE PsInv'
<1>1. CASE PsNext
  BY <1>1, EditKeeps, PassKeeps DEF PsNext
<1>2. CASE UNCHANGED psVars
  <2>1. UNCHANGED <<psSecrets, pullNames, filter, authFile, psQueue, pass, psRaced>>
    BY <1>2 DEF psVars
  <2>2. /\ Names' = Names /\ Wanted' = Wanted
        /\ \A got, k : AuthCollected(got, k)' = AuthCollected(got, k)
        /\ FilterKnows' <=> FilterKnows
    BY <2>1, ClusterKept
  <2>3. PassesFresh'
    BY <2>1, <2>2 DEF PsInv, PassesFresh, PassFresh
  <2>4. QED
    BY <2>1, <2>2, <2>3 DEF PsInv, PsTypeOK, QuietFresh, Quiet, NoPassRuns
<1>3. QED
  BY <1>1, <1>2

(* Once both controllers are idle, and no edit came while they worked, the
   auth file holds for every registry the credential of the last secret named
   that has one: whatever the secrets contain, whichever of the two passes
   wrote last, and although the filter that admits a secret's events is
   learnt from the account only in the middle of a pass. *)
THEOREM AuthFileCurrent == PsSpec => []AuthFileFresh
<1>1. PsInv /\ [PsNext]_psVars => PsInv'
  BY PsStepInv
<1>2. PsInv => AuthFileFresh
  BY DEF PsInv, QuietFresh, AuthFileFresh
<1>3. QED
  BY <1>1, <1>2, PsInitInv, PTL DEF PsSpec


-----------------------------------------------------------------------------
(* The permission preflight. *)

LEMMA HeldGrows ==
  ASSUME NEW grants, NEW more, NEW ns
  PROVE  Held(grants, ns) \subseteq Held(grants \cup more, ns)
BY DEF Held

LEMMA AllowedGrows ==
  ASSUME NEW grants, NEW more, NEW a, attributesAllowed(grants, a)
  PROVE  attributesAllowed(grants \cup more, a)
BY HeldGrows DEF attributesAllowed

LEMMA NotHeldShrinks ==
  ASSUME NEW grants, NEW more, NEW ns, NEW rules
  PROVE  NotHeld(grants \cup more, ns, rules) \subseteq NotHeld(grants, ns, rules)
BY HeldGrows DEF NotHeld

LEMMA RuleOfGrant ==
  ASSUME NEW grants, NEW ns, NEW r, [ns |-> ns, rule |-> r] \in grants
  PROVE  r \in Held(grants, ns)
<1> DEFINE g == [ns |-> ns, rule |-> r]
<1>1. g \in grants /\ g.ns \in {"", ns} /\ g.rule = r
  OBVIOUS
<1>2. QED
  BY <1>1, Zenon DEF Held

LEMMA CoversItself == ASSUME NEW r PROVE Covers(r, r)
BY DEF Covers

LEMMA GrantedIsHeld ==
  ASSUME NEW grants, NEW ns, NEW rules,
         \A r \in NotHeld(grants, ns, rules) : [ns |-> ns, rule |-> r] \in grants
  PROVE  NotHeld(grants, ns, rules) = {}
BY RuleOfGrant, CoversItself DEF NotHeld

LEMMA GrantedMissing ==
  ASSUME NEW grants, NEW more, NEW ns, NEW rules,
         \A r \in NotHeld(grants, ns, rules) : [ns |-> ns, rule |-> r] \in grants \cup more
  PROVE  NotHeld(grants \cup more, ns, rules) = {}
BY NotHeldShrinks, GrantedIsHeld

LEMMA BoundNow ==
  ASSUME NEW cluster, NEW manifest, NEW o, NEW now,
         now \subseteq Objects(cluster) \cup Objects(manifest)
  PROVE  RoleRules(now, o) \subseteq BoundRules(cluster, manifest, o)
BY DEF RoleRules, BoundRules

LEMMA RequiredOfObject ==
  ASSUME NEW manifest, NEW verbs, NEW x \in Objects(manifest)
  PROVE  /\ \A v \in objectVerbs :
              Attributes(x.ns, v, x.resource, x.name) \in RequiredAttributes(manifest, verbs)
         /\ Attributes(x.ns, "create", x.resource, "") \in RequiredAttributes(manifest, verbs)
<1> DEFINE f(o, v) == Attributes(o.ns, v, o.resource, o.name)
           g(o, v) == Attributes(o.ns, v, o.resource, "")
           F == {f(o, v) : o \in Objects(manifest), v \in objectVerbs}
           G == {g(o, v) : o \in Objects(manifest), v \in namespacedCollectionVerbs}
           H == {Attributes("", v, o.resource, "") : o \in Objects(manifest), v \in verbs}
<1>1. RequiredAttributes(manifest, verbs) = F \cup G \cup H
  BY SMT DEF RequiredAttributes
<1>2. "create" \in namespacedCollectionVerbs
  BY DEF namespacedCollectionVerbs
<1> HIDE DEF f, g
<1>3. (\A v \in objectVerbs : f(x, v) \in F) /\ g(x, "create") \in G
  BY <1>2
<1> HIDE DEF F, G, H
<1>4. QED
  BY <1>1, <1>3 DEF f, g

LEMMA Verdict ==
  ASSUME NEW m, NEW e \in BOOLEAN
  PROVE  PreAuthorized([missing |-> m, err |-> e]) <=> m = {} /\ ~e
BY Zenon DEF PreAuthorized

LEMMA PassedIsAccepted ==
  ASSUME NEW grants, NEW cluster, NEW manifest, NEW verbs, NEW additional,
         PreAuthorized(PreAuthorize(grants, cluster, manifest, verbs, additional)),
         NEW o \in Objects(manifest)
  PROVE  ServerAccepts(grants, cluster, manifest, o)
<1> DEFINE required == RequiredAttributes(manifest, verbs) \cup additional
           escalations(x) == {[ns |-> x.ns, rule |-> r] :
                                r \in EscalationMissing(grants, cluster, manifest, x)}
<1>1. /\ MissingAttributes(grants, required) = {}
      /\ \A x \in Objects(manifest) : escalations(x) = {}
      /\ \A x \in Objects(manifest) : ~Unparsed(grants, x)
  <2>1. decodeManifest(manifest)
    BY DEF PreAuthorized, PreAuthorize
  <2>2. PreAuthorize(grants, cluster, manifest, verbs, additional)
          = [missing |-> MissingAttributes(grants, required)
                         \cup UNION {escalations(x) : x \in Objects(manifest)},
             err |-> \E x \in Objects(manifest) : Unparsed(grants, x)]
    BY <2>1 DEF PreAuthorize
  <2>3. /\ MissingAttributes(grants, required)
             \cup UNION {escalations(x) : x \in Objects(manifest)} = {}
        /\ ~\E x \in Objects(manifest) : Unparsed(grants, x)
    <3> DEFINE m == MissingAttributes(grants, required)
                      \cup UNION {escalations(x) : x \in Objects(manifest)}
               e == \E x \in Objects(manifest) : Unparsed(grants, x)
    <3>1. PreAuthorized([missing |-> m, err |-> e]) /\ e \in BOOLEAN
      BY <2>2
    <3> HIDE DEF m, e
    <3>2. m = {} /\ ~e
      BY <3>1, Verdict
    <3>3. QED
      BY <3>2 DEF m, e
  <2>4. QED
    BY <2>3
<1>2. \A a \in required : attributesAllowed(grants, a)
  BY <1>1 DEF MissingAttributes
<1>3. \A v \in objectVerbs : attributesAllowed(grants, Attributes(o.ns, v, o.resource, o.name))
  BY <1>2, RequiredOfObject
<1>4. attributesAllowed(grants, Attributes(o.ns, "create", o.resource, ""))
  BY <1>2, RequiredOfObject
<1>5. EscalationMissing(grants, cluster, manifest, o) = {} /\ ~Unparsed(grants, o)
  BY <1>1
<1>6. ASSUME o.resource \in {"clusterroles", "roles"}, ~RoleEscalationAuthorized(grants, o)
      PROVE  /\ NotHeld(grants, o.ns, o.rules) = {}
             /\ o.resource = "clusterroles" /\ o.aggregated
                  => NotHeld(grants, o.ns, fullAuthority) = {}
  BY <1>5, <1>6 DEF EscalationMissing, Unparsed
<1>7. ASSUME o.resource \in {"clusterrolebindings", "rolebindings"}, ~BindingAuthorized(grants, o),
             NEW now, now \subseteq Objects(cluster) \cup Objects(manifest)
      PROVE  NotHeld(grants, o.ns, RoleRules(now, o)) = {}
  <2>1. NotHeld(grants, o.ns, BoundRules(cluster, manifest, o)) = {}
    BY <1>5, <1>7 DEF EscalationMissing
  <2>2. QED
    BY <2>1, <1>7, BoundNow DEF NotHeld
<1>8. QED
  BY <1>3, <1>4, <1>6, <1>7 DEF ServerAccepts

LEMMA GrantedPasses ==
  ASSUME NEW grants, NEW cluster, NEW manifest, NEW verbs, NEW additional,
         ~PreAuthorize(grants, cluster, manifest, verbs, additional).err
  PROVE  PreAuthorized(PreAuthorize(
           grants \cup PreAuthorize(grants, cluster, manifest, verbs, additional).missing,
           cluster, manifest, verbs, additional))
<1> DEFINE required == RequiredAttributes(manifest, verbs) \cup additional
           escalations(g, x) == {[ns |-> x.ns, rule |-> r] :
                                   r \in EscalationMissing(g, cluster, manifest, x)}
           missing == MissingAttributes(grants, required)
                      \cup UNION {escalations(grants, x) : x \in Objects(manifest)}
           granted == grants \cup missing
<1>1. decodeManifest(manifest)
  BY DEF PreAuthorize
<1>2. PreAuthorize(grants, cluster, manifest, verbs, additional)
        = [missing |-> missing, err |-> \E x \in Objects(manifest) : Unparsed(grants, x)]
  BY <1>1 DEF PreAuthorize
<1>3. PreAuthorize(granted, cluster, manifest, verbs, additional)
        = [missing |-> MissingAttributes(granted, required)
                       \cup UNION {escalations(granted, x) : x \in Objects(manifest)},
           err |-> \E x \in Objects(manifest) : Unparsed(granted, x)]
  BY <1>1 DEF PreAuthorize
<1>4. \A x \in Objects(manifest) : ~Unparsed(grants, x)
  BY <1>2
<1>5. MissingAttributes(granted, required) = {}
  <2>1. SUFFICES ASSUME NEW a \in required, ~attributesAllowed(granted, a)
                 PROVE  FALSE
    BY DEF MissingAttributes
  <2>2. a \in missing
    BY <2>1, AllowedGrows DEF MissingAttributes
  <2>3. a.rule \in Held(granted, a.ns)
    BY <2>2 DEF Held
  <2>4. QED
    BY <2>1, <2>3, CoversItself DEF attributesAllowed
<1>6. ASSUME NEW x \in Objects(manifest)
      PROVE  ~Unparsed(granted, x)
  <2>1. \/ ~(x.resource = "clusterroles" /\ x.aggregated)
        \/ RoleEscalationAuthorized(grants, x)
        \/ NotHeld(grants, x.ns, fullAuthority) = {}
    BY <1>4, <1>6 DEF Unparsed
  <2>2. QED
    BY <2>1, AllowedGrows, NotHeldShrinks DEF Unparsed, RoleEscalationAuthorized
<1>7. ASSUME NEW x \in Objects(manifest)
      PROVE  EscalationMissing(granted, cluster, manifest, x) = {}
  <2>1. \A r \in EscalationMissing(grants, cluster, manifest, x) : [ns |-> x.ns, rule |-> r] \in granted
    BY <1>7
  <2>2. CASE x.resource \in {"clusterroles", "roles"}
    <3>1. CASE RoleEscalationAuthorized(grants, x)
      BY <2>2, <3>1, AllowedGrows DEF EscalationMissing, RoleEscalationAuthorized
    <3>2. CASE ~RoleEscalationAuthorized(grants, x)
      <4>1. EscalationMissing(grants, cluster, manifest, x) = NotHeld(grants, x.ns, x.rules)
        BY <2>2, <3>2, <1>4, <1>7 DEF EscalationMissing
      <4>2. NotHeld(granted, x.ns, x.rules) = {}
        BY <4>1, <2>1, GrantedMissing
      <4>3. QED
        BY <2>2, <4>2 DEF EscalationMissing
    <3>3. QED
      BY <3>1, <3>2
  <2>3. CASE x.resource \in {"clusterrolebindings", "rolebindings"}
    <3>1. CASE BindingAuthorized(grants, x)
      BY <2>3, <3>1, AllowedGrows DEF EscalationMissing, BindingAuthorized
    <3>2. CASE ~BindingAuthorized(grants, x)
      <4>1. EscalationMissing(grants, cluster, manifest, x)
              = NotHeld(grants, x.ns, BoundRules(cluster, manifest, x))
        BY <2>3, <3>2 DEF EscalationMissing
      <4>2. NotHeld(granted, x.ns, BoundRules(cluster, manifest, x)) = {}
        BY <4>1, <2>1, GrantedMissing
      <4>3. QED
        BY <2>3, <4>2 DEF EscalationMissing
    <3>3. QED
      BY <3>1, <3>2
  <2>4. CASE x.resource \notin {"clusterroles", "roles", "clusterrolebindings", "rolebindings"}
    BY <2>4 DEF EscalationMissing
  <2>5. QED
    BY <2>2, <2>3, <2>4
<1>8. UNION {escalations(granted, x) : x \in Objects(manifest)} = {}
  BY <1>7
<1>9. PreAuthorized(PreAuthorize(granted, cluster, manifest, verbs, additional))
  <2> DEFINE m == MissingAttributes(granted, required)
                  \cup UNION {escalations(granted, x) : x \in Objects(manifest)}
             e == \E x \in Objects(manifest) : Unparsed(granted, x)
  <2>1. m = {} /\ ~e /\ e \in BOOLEAN
    BY <1>5, <1>6, <1>8
  <2>2. PreAuthorize(granted, cluster, manifest, verbs, additional) = [missing |-> m, err |-> e]
    BY <1>3
  <2> HIDE DEF m, e, granted
  <2>3. QED
    BY <2>1, <2>2, Verdict
<1>10. QED
  BY <1>2, <1>9

(* The permission preflight agrees with the API server, for any grants of the
   service account, objects of the cluster and manifests: what it passes, the
   server accepts object by object, and an account that is granted the rules
   it reports as missing passes. No state of the platform is a counterexample
   (PreAuthorize of authorization/rbac.go). *)
THEOREM PreflightSound == PlatformSpec => []PreAuthSound
<1>1. \A grants, cluster, manifest, verbs, additional :
        PreAuthExact(grants, cluster, manifest, verbs, additional)
  BY PassedIsAccepted, GrantedPasses DEF PreAuthExact
<1>2. PreAuthSound
  BY <1>1 DEF PreAuthSound
<1>3. QED
  BY <1>2, PTL

-----------------------------------------------------------------------------
(* The content of a revision. *)

(* Manifests that the order of a phase can sort: the ranks of their names are
   numbers, and those it does not tell apart are the same. *)
Sortable(objects) ==
  /\ \A i \in DOMAIN objects : \A k \in 1..5 : SortKey(objects[i])[k] \in Int
  /\ \A i, j \in DOMAIN objects : SortKey(objects[i]) = SortKey(objects[j]) => objects[i] = objects[j]

LEMMA BeforeIsLexicographic ==
  ASSUME NEW a, NEW b
  PROVE  LET x == SortKey(a)  y == SortKey(b) IN
         Before(a, b) <=>
           \/ x[1] < y[1]
           \/ x[1] = y[1] /\ x[2] < y[2]
           \/ x[1] = y[1] /\ x[2] = y[2] /\ x[3] < y[3]
           \/ x[1] = y[1] /\ x[2] = y[2] /\ x[3] = y[3] /\ x[4] < y[4]
           \/ x[1] = y[1] /\ x[2] = y[2] /\ x[3] = y[3] /\ x[4] = y[4] /\ x[5] < y[5]
<1> DEFINE x == SortKey(a)
           y == SortKey(b)
<1>1. Before(a, b) <=> \E i \in 1..5 : x[i] < y[i] /\ \A j \in 1..(i - 1) : x[j] = y[j]
  BY DEF Before
<1>2. 1..5 = {1, 2, 3, 4, 5} /\ 1..0 = {} /\ 1..1 = {1} /\ 1..2 = {1, 2} /\ 1..3 = {1, 2, 3} /\ 1..4 = {1, 2, 3, 4}
  OBVIOUS
<1>3. 1 - 1 = 0 /\ 2 - 1 = 1 /\ 3 - 1 = 2 /\ 4 - 1 = 3 /\ 5 - 1 = 4
  OBVIOUS
<1> HIDE DEF x, y
<1>4. (\E i \in 1..5 : x[i] < y[i] /\ \A j \in 1..(i - 1) : x[j] = y[j]) <=>
           \/ x[1] < y[1]
           \/ x[1] = y[1] /\ x[2] < y[2]
           \/ x[1] = y[1] /\ x[2] = y[2] /\ x[3] < y[3]
           \/ x[1] = y[1] /\ x[2] = y[2] /\ x[3] = y[3] /\ x[4] < y[4]
           \/ x[1] = y[1] /\ x[2] = y[2] /\ x[3] = y[3] /\ x[4] = y[4] /\ x[5] < y[5]
  BY <1>2, <1>3
<1>5. QED
  BY <1>1, <1>4 DEF x, y

HasKey(a) == \A k \in 1..5 : SortKey(a)[k] \in Int

LEMMA BeforeOrders ==
  ASSUME NEW a, NEW b, NEW c, HasKey(a), HasKey(b), HasKey(c)
  PROVE  /\ ~Before(a, a)
         /\ Before(a, b) => ~Before(b, a)
         /\ Before(a, b) /\ Before(b, c) => Before(a, c)
         /\ Before(a, b) => Before(a, c) \/ Before(c, b)
         /\ ~Before(a, b) /\ ~Before(b, a) => SortKey(a) = SortKey(b)
<1> DEFINE x == SortKey(a)
           y == SortKey(b)
           z == SortKey(c)
           Lex(u, v) ==
             \/ u[1] < v[1]
             \/ u[1] = v[1] /\ u[2] < v[2]
             \/ u[1] = v[1] /\ u[2] = v[2] /\ u[3] < v[3]
             \/ u[1] = v[1] /\ u[2] = v[2] /\ u[3] = v[3] /\ u[4] < v[4]
             \/ u[1] = v[1] /\ u[2] = v[2] /\ u[3] = v[3] /\ u[4] = v[4] /\ u[5] < v[5]
<1>1. \A u, v : Before(u, v) <=> Lex(SortKey(u), SortKey(v))
  BY BeforeIsLexicographic
<1>2. /\ x[1] \in Int /\ x[2] \in Int /\ x[3] \in Int /\ x[4] \in Int /\ x[5] \in Int
      /\ y[1] \in Int /\ y[2] \in Int /\ y[3] \in Int /\ y[4] \in Int /\ y[5] \in Int
      /\ z[1] \in Int /\ z[2] \in Int /\ z[3] \in Int /\ z[4] \in Int /\ z[5] \in Int
  BY DEF HasKey
<1>3. x[1] = y[1] /\ x[2] = y[2] /\ x[3] = y[3] /\ x[4] = y[4] /\ x[5] = y[5] => x = y
  BY DEF SortKey
<1> HIDE DEF x, y, z
<1>4. /\ ~Lex(x, x)
      /\ Lex(x, y) => ~Lex(y, x)
      /\ ~Lex(x, y) /\ ~Lex(y, x) => x = y
  BY <1>2, <1>3
<1>5. Lex(x, y) /\ Lex(y, z) => Lex(x, z)
  BY <1>2
<1>6. Lex(x, y) => Lex(x, z) \/ Lex(z, y)
  BY <1>2
<1> HIDE DEF Lex
<1>7. QED
  BY <1>1, <1>4, <1>5, <1>6 DEF x, y, z

PhaseOf(o) == determinePhase(GK(o))
PlacesOf(objects, p) == {i \in DOMAIN objects : PhaseOf(objects[i]) = p}
SortedBy(f, objects) == \A i, j \in DOMAIN f : i < j => ~Before(objects[f[j]], objects[f[i]])
ListOf(objects) == objects \in Seq(ToSet(objects))

LEMMA PlacesFinite == \A n \in Nat : IsFiniteSet(1..n) /\ Cardinality(1..n) = n
<1>1. SUFFICES ASSUME NEW n \in Nat PROVE IsFiniteSet(1..n) /\ Cardinality(1..n) = n
  OBVIOUS
<1>2. QED
  BY FS_Interval

LEMMA ListPlaces ==
  ASSUME NEW objects, ListOf(objects)
  PROVE  /\ IsFiniteSet(DOMAIN objects) /\ Cardinality(DOMAIN objects) = Len(objects)
         /\ Len(objects) \in Nat /\ DOMAIN objects = 1..Len(objects)
         /\ \A p : PlacesOf(objects, p) \subseteq 1..Len(objects) /\ IsFiniteSet(PlacesOf(objects, p))
<1>0. Len(objects) \in Nat /\ DOMAIN objects = 1..Len(objects)
  BY DEF ListOf
<1>1. IsFiniteSet(1..Len(objects)) /\ Cardinality(1..Len(objects)) = Len(objects)
  BY <1>0, PlacesFinite
<1>2. \A p : PlacesOf(objects, p) \subseteq 1..Len(objects)
  BY <1>0 DEF PlacesOf
<1>3. QED
  BY <1>0, <1>1, <1>2, FS_Subset

LEMMA PhaseSorted ==
  ASSUME NEW objects, ListOf(objects), Sortable(objects), NEW p
  PROVE  \E f \in SetToSeqs(PlacesOf(objects, p)) :
           /\ SortedBy(f, objects)
           /\ ObjectsOfPhase(objects, p) = [i \in DOMAIN f |-> objects[f[i]]]
<1> DEFINE S == PlacesOf(objects, p)
           T == {r \in S \X S : \/ Before(objects[r[1]], objects[r[2]])
                                \/ (~Before(objects[r[2]], objects[r[1]]) /\ r[1] < r[2])}
<1>1. IsFiniteSet(S) /\ S \subseteq Nat
  BY ListPlaces DEF ListOf
<1>2. \A i \in S : HasKey(objects[i])
  BY DEF Sortable, HasKey, PlacesOf
<1>3. \A a, b \in S : <<a, b>> \in T <=> \/ Before(objects[a], objects[b])
                                        \/ (~Before(objects[b], objects[a]) /\ a < b)
  OBVIOUS
<1> HIDE DEF S, T
<1>4. Orders(T, S)
  <2>1. ASSUME NEW a \in S PROVE <<a, a>> \notin T
    BY <1>1, <1>2, <1>3, BeforeOrders
  <2>2. ASSUME NEW a \in S, NEW b \in S, NEW c \in S, <<a, b>> \in T, <<b, c>> \in T
        PROVE  <<a, c>> \in T
    <3>1. HasKey(objects[a]) /\ HasKey(objects[b]) /\ HasKey(objects[c]) /\ a \in Nat /\ b \in Nat /\ c \in Nat
      BY <1>1, <1>2
    <3>2. /\ \/ Before(objects[a], objects[b])
             \/ (~Before(objects[b], objects[a]) /\ a < b)
          /\ \/ Before(objects[b], objects[c])
             \/ (~Before(objects[c], objects[b]) /\ b < c)
      BY <1>3, <2>2
    <3>3. /\ Before(objects[a], objects[b]) => Before(objects[a], objects[c]) \/ Before(objects[c], objects[b])
          /\ Before(objects[b], objects[c]) => Before(objects[b], objects[a]) \/ Before(objects[a], objects[c])
          /\ Before(objects[c], objects[a]) => Before(objects[c], objects[b]) \/ Before(objects[b], objects[a])
          /\ Before(objects[a], objects[b]) => ~Before(objects[b], objects[a])
          /\ Before(objects[b], objects[c]) => ~Before(objects[c], objects[b])
      BY <3>1, BeforeOrders
    <3>4. QED
      BY <1>3, <3>1, <3>2, <3>3
  <2>3. ASSUME NEW a \in S, NEW b \in S, a # b
        PROVE  <<a, b>> \in T \/ <<b, a>> \in T
    BY <1>1, <1>3, <2>3
  <2>4. QED
    BY <2>1, <2>2, <2>3 DEF Orders
<1>5. PICK f \in SetToSeqs(S) : \A i, j \in DOMAIN f : i < j => <<f[i], f[j]>> \in T
  BY <1>1, <1>4, SortExists
<1>6. SortedBy(f, objects)
  <2>1. SUFFICES ASSUME NEW i \in DOMAIN f, NEW j \in DOMAIN f, i < j
                 PROVE  ~Before(objects[f[j]], objects[f[i]])
    BY DEF SortedBy
  <2>2. f[i] \in S /\ f[j] \in S /\ <<f[i], f[j]>> \in T
    BY <1>1, <1>5, <2>1, Enumeration
  <2>3. QED
    BY <2>2, <1>2, <1>3, BeforeOrders
<1> DEFINE g == CHOOSE h \in SetToSeqs(S) : SortedBy(h, objects)
<1>7. g \in SetToSeqs(S) /\ SortedBy(g, objects)
  BY <1>6
<1>8. ObjectsOfPhase(objects, p) = [i \in DOMAIN g |-> objects[g[i]]]
  BY Zenon DEF ObjectsOfPhase, SortedBy, S, PlacesOf, PhaseOf
<1> HIDE DEF g
<1>9. QED
  BY <1>7, <1>8 DEF S
LEMMA PermutedPhase ==
  ASSUME NEW objects, ListOf(objects), Sortable(objects), NEW order \in SetToSeqs(DOMAIN objects),
         NEW q, q = [i \in DOMAIN objects |-> objects[order[i]]]
  PROVE  /\ UsedPhases(q) = UsedPhases(objects)
         /\ \A p : ObjectsOfPhase(q, p) = ObjectsOfPhase(objects, p)
<1> DEFINE D == DOMAIN objects
<1>1. /\ IsFiniteSet(D) /\ Cardinality(D) = Len(objects) /\ D = 1..Len(objects) /\ Len(objects) \in Nat
  BY ListPlaces
<1>2. /\ \A i \in D : order[i] \in D
      /\ \A i, j \in D : order[i] = order[j] => i = j
      /\ \A x \in D : \E i \in D : order[i] = x
  <2>1. /\ \A i \in 1..Cardinality(D) : order[i] \in D
        /\ \A i, j \in 1..Cardinality(D) : order[i] = order[j] => i = j
        /\ \A x \in D : \E i \in 1..Cardinality(D) : order[i] = x
    <3> HIDE DEF D
    <3>1. order \in SetToSeqs(D)
      BY DEF D
    <3>2. QED
      BY <1>1, <3>1, Enumeration
  <2>2. QED
    BY <1>1, <2>1
<1>3. DOMAIN q = D /\ \A i \in D : q[i] = objects[order[i]]
  OBVIOUS
<1>4. ListOf(q)
  <2>1. \A i \in 1..Len(objects) : objects[order[i]] \in ToSet(q)
    BY <1>1, <1>3 DEF ToSet
  <2>2. QED
    BY <1>1, <2>1 DEF ListOf
<1>5. Sortable(q)
  <2>1. \A i \in DOMAIN q : order[i] \in D /\ q[i] = objects[order[i]]
    BY <1>2, <1>3
  <2> HIDE DEF D
  <2>2. \A i \in DOMAIN q : \A k \in 1..5 : SortKey(q[i])[k] \in Int
    BY <2>1 DEF Sortable, D
  <2>3. ASSUME NEW i \in DOMAIN q, NEW j \in DOMAIN q, SortKey(q[i]) = SortKey(q[j])
        PROVE  q[i] = q[j]
    BY <2>1, <2>3 DEF Sortable, D
  <2>4. QED
    BY <2>2, <2>3 DEF Sortable
<1> HIDE DEF D
<1>6. UsedPhases(q) = UsedPhases(objects)
  <2>1. \A p : (\E i \in DOMAIN q : determinePhase(GK(q[i])) = p)
                <=> (\E i \in D : determinePhase(GK(objects[i])) = p)
    BY <1>2, <1>3
  <2>2. QED
    BY <2>1 DEF UsedPhases, D
<1>7. ASSUME NEW p PROVE ObjectsOfPhase(q, p) = ObjectsOfPhase(objects, p)
  <2> DEFINE S == PlacesOf(objects, p)
             Q == PlacesOf(q, p)
             n == Cardinality(S)
  <2>1. IsFiniteSet(S) /\ IsFiniteSet(Q) /\ S \subseteq D /\ Q \subseteq D
    BY ListPlaces, <1>3, <1>4 DEF PlacesOf, D
  <2>2. \A i \in D : i \in Q <=> order[i] \in S
    BY <1>2, <1>3 DEF PlacesOf, D
  <2> HIDE DEF S, Q
  <2>3. Cardinality(Q) = n
    <3> DEFINE b == [i \in Q |-> order[i]]
    <3>1. b \in Bijection(Q, S)
      <4>1. b \in [Q -> S]
        BY <2>1, <2>2
      <4>2. \A i, j \in Q : b[i] = b[j] => i = j
        BY <2>1, <1>2
      <4>3. \A x \in S : \E i \in Q : b[i] = x
        BY <2>1, <2>2, <1>2
      <4>4. QED
        BY <4>1, <4>2, <4>3 DEF Bijection, Injection, IsInjective, Surjection
    <3>2. QED
      BY <3>1, <2>1, FS_Bijection DEF ExistsBijection
  <2>4. PICK f \in SetToSeqs(S) : /\ SortedBy(f, objects)
                                  /\ ObjectsOfPhase(objects, p) = [i \in DOMAIN f |-> objects[f[i]]]
    BY PhaseSorted DEF S
  <2>5. PICK g \in SetToSeqs(Q) : /\ SortedBy(g, q)
                                  /\ ObjectsOfPhase(q, p) = [i \in DOMAIN g |-> q[g[i]]]
    <3>1. \E g \in SetToSeqs(PlacesOf(q, p)) :
            /\ SortedBy(g, q)
            /\ ObjectsOfPhase(q, p) = [i \in DOMAIN g |-> q[g[i]]]
      BY ONLY <1>4, <1>5, PhaseSorted
    <3>2. QED
      BY <3>1 DEF Q
  <2>6. /\ n \in Nat /\ DOMAIN f = 1..n /\ DOMAIN g = 1..n
        /\ \A i \in 1..n : f[i] \in S /\ g[i] \in Q
        /\ \A i, j \in 1..n : g[i] = g[j] => i = j
    BY <2>1, <2>3, <2>4, <2>5, Enumeration
  <2> DEFINE h == [i \in 1..n |-> order[g[i]]]
             B == {r \in S \X S : Before(objects[r[1]], objects[r[2]])}
  <2>7. \A i \in 1..n : h[i] = order[g[i]] /\ h[i] \in S /\ q[g[i]] = objects[h[i]]
    BY <2>1, <2>2, <2>6, <1>3
  <2>8. h \in SetToSeqs(S)
    <3>1. h \in [1..n -> S]
      BY <2>7
    <3>2. \A i, j \in 1..n : i # j => h[i] # h[j]
      BY <2>1, <2>6, <2>7, <1>2
    <3>3. QED
      BY <3>1, <3>2 DEF SetToSeqs
  <2>9. DOMAIN h = 1..n
    OBVIOUS
  <2> HIDE DEF h
  <2>10. SortedBy(h, objects)
    BY <2>5, <2>6, <2>7, <2>9 DEF SortedBy
  <2>11. \A a, b \in S : <<a, b>> \in B <=> Before(objects[a], objects[b])
    OBVIOUS
  <2>12. \A a \in S : HasKey(objects[a])
    BY <2>1 DEF Sortable, HasKey, D
  <2> HIDE DEF B, n
  <2>13. \A a \in S : <<a, a>> \notin B
    BY <2>11, <2>12, BeforeOrders
  <2>14. \A a, b, c \in S : <<a, b>> \in B => <<a, c>> \in B \/ <<c, b>> \in B
    BY <2>11, <2>12, BeforeOrders
  <2>15. \A i, j \in DOMAIN f : i < j => <<f[j], f[i]>> \notin B
    BY <2>4, <2>6, <2>11 DEF SortedBy
  <2>16. \A i, j \in DOMAIN h : i < j => <<h[j], h[i]>> \notin B
    BY <2>10, <2>7, <2>9, <2>11 DEF SortedBy
  <2>17. \A i \in 1..n : <<f[i], h[i]>> \notin B /\ <<h[i], f[i]>> \notin B
    BY <2>1, <2>8, <2>13, <2>14, <2>15, <2>16, SortAgrees DEF n
  <2>18. \A i \in 1..n : objects[f[i]] = objects[h[i]]
    <3>1. SUFFICES ASSUME NEW i \in 1..n PROVE objects[f[i]] = objects[h[i]]
      OBVIOUS
    <3>2. f[i] \in S /\ h[i] \in S
      BY <2>6, <2>7
    <3>3. SortKey(objects[f[i]]) = SortKey(objects[h[i]])
      BY <3>2, <2>11, <2>12, <2>17, BeforeOrders
    <3>4. QED
      BY <3>2, <3>3, <2>1 DEF Sortable, D
  <2>19. \A i \in 1..n : q[g[i]] = objects[f[i]]
    BY <2>7, <2>18
  <2>20. [i \in 1..n |-> q[g[i]]] = [i \in 1..n |-> objects[f[i]]]
    BY ONLY <2>19
  <2>21. QED
    BY <2>4, <2>5, <2>6, <2>20
<1>8. QED
  BY <1>6, <1>7

LEMMA PhaseNames ==
  \A gk : determinePhase(gk) \in {defaultPhaseOrder[k] : k \in DOMAIN defaultPhaseOrder}
<1> DEFINE AllPhases == {"namespaces", "policies", "identity", "configuration", "storage", "crds", "roles",
                     "bindings", "infrastructure", "deploy", "scaling", "publish", "admission"}
<1>1. AllPhases = {defaultPhaseOrder[k] : k \in DOMAIN defaultPhaseOrder}
  <2>1. DOMAIN defaultPhaseOrder = 1..13
    BY DEF defaultPhaseOrder
  <2>2. 1..13 = {1, 2, 3, 4, 5, 6, 7, 8, 9, 10, 11, 12, 13}
    OBVIOUS
  <2>3. QED
    BY <2>1, <2>2 DEF defaultPhaseOrder
<1>2. DOMAIN phaseGKMap = AllPhases
  BY DEF phaseGKMap
<1>3. ASSUME NEW gk PROVE determinePhase(gk) \in AllPhases
  <2> DEFINE known == {p \in DOMAIN phaseGKMap : gk \in phaseGKMap[p]}
  <2>1. determinePhase(gk) = IF known = {} THEN "deploy" ELSE CHOOSE p \in known : TRUE
    BY Zenon DEF determinePhase
  <2>2. known \subseteq AllPhases /\ "deploy" \in AllPhases
    BY <1>2
  <2> HIDE DEF known, AllPhases
  <2>3. QED
    BY <2>1, <2>2
<1>4. QED
  BY <1>1, <1>3

LEMMA PhasesDiffer ==
  \A a, b \in 1..13 : defaultPhaseOrder[a] = defaultPhaseOrder[b] => a = b
<1>1. 1..13 = {1, 2, 3, 4, 5, 6, 7, 8, 9, 10, 11, 12, 13}
  OBVIOUS
<1>2. QED
  BY <1>1 DEF defaultPhaseOrder

LEMMA PhaseSortIs ==
  ASSUME NEW objects
  PROVE  /\ IsFiniteSet(UsedPhases(objects)) /\ UsedPhases(objects) \subseteq 1..13
         /\ \E used \in SetToSeqs(UsedPhases(objects)) :
              PhaseSort(objects) = [n \in DOMAIN used |->
                [name |-> defaultPhaseOrder[used[n]],
                 objects |-> ObjectsOfPhase(objects, defaultPhaseOrder[used[n]])]]
<1> DEFINE U == UsedPhases(objects)
           T == {r \in U \X U : r[1] < r[2]}
<1>1. U \subseteq 1..13
  BY DEF UsedPhases, defaultPhaseOrder
<1>2. IsFiniteSet(U)
  <2>1. IsFiniteSet(1..13)
    BY PlacesFinite
  <2> HIDE DEF U
  <2>2. QED
    BY <1>1, <2>1, FS_Subset
<1>3. \A a, b \in U : <<a, b>> \in T <=> a < b
  OBVIOUS
<1> HIDE DEF U, T
<1>4. Orders(T, U)
  BY <1>1, <1>3 DEF Orders
<1>5. PICK f \in SetToSeqs(U) : \A i, j \in DOMAIN f : i < j => <<f[i], f[j]>> \in T
  BY <1>2, <1>4, SortExists
<1>6. \A i, j \in DOMAIN f : i < j => f[i] < f[j]
  <2>1. \A i \in DOMAIN f : f[i] \in U
    BY <1>2, <1>5, Enumeration
  <2>2. QED
    BY <2>1, <1>3, <1>5
<1> DEFINE used == CHOOSE g \in SetToSeqs(U) : \A i, j \in DOMAIN g : i < j => g[i] < g[j]
<1>7. used \in SetToSeqs(U)
  BY <1>6
<1>8. PhaseSort(objects) = [n \in DOMAIN used |->
                [name |-> defaultPhaseOrder[used[n]],
                 objects |-> ObjectsOfPhase(objects, defaultPhaseOrder[used[n]])]]
  BY Zenon DEF PhaseSort, U
<1> HIDE DEF used
<1>9. QED
  BY <1>1, <1>2, <1>7, <1>8 DEF U
(* The objects of a phase are a list of the objects at its places. *)
ObjectsAt(objects, S) == {objects[i] : i \in S}
LEMMA PhaseHolds ==
  ASSUME NEW objects, ListOf(objects), Sortable(objects), NEW p
  PROVE  LET o == ObjectsOfPhase(objects, p) IN
         /\ o \in Seq(ToSet(objects)) /\ Len(o) = Cardinality(PlacesOf(objects, p))
         /\ ToSet(o) = ObjectsAt(objects, PlacesOf(objects, p))
<1> DEFINE S == PlacesOf(objects, p)
           n == Cardinality(S)
           o == ObjectsOfPhase(objects, p)
<1>1. IsFiniteSet(S) /\ S \subseteq DOMAIN objects
  BY ListPlaces
<1> HIDE DEF S
<1>2. PICK f \in SetToSeqs(S) : o = [i \in DOMAIN f |-> objects[f[i]]]
  BY PhaseSorted DEF S
<1>3. /\ n \in Nat /\ DOMAIN f = 1..n /\ \A i \in 1..n : f[i] \in S
      /\ \A x \in S : \E i \in 1..n : f[i] = x
  BY <1>1, Enumeration
<1> HIDE DEF o, n
<1>4. \A i \in 1..n : objects[f[i]] \in ToSet(objects)
  BY <1>1, <1>3 DEF ToSet
<1>5. o \in Seq(ToSet(objects)) /\ Len(o) = n /\ DOMAIN o = 1..n
  BY <1>2, <1>3, <1>4
<1>6. ToSet(o) = ObjectsAt(objects, S)
  BY <1>2, <1>3, <1>5 DEF ToSet, ObjectsAt
<1>7. QED
  BY <1>5, <1>6 DEF o, n, S

LEMMA ConcatHolds ==
  ASSUME NEW E, NEW a \in Seq(E), NEW b \in Seq(E)
  PROVE  ToSet(a \o b) = ToSet(a) \cup ToSet(b)
<1> DEFINE c == a \o b
<1>1. /\ c \in Seq(E) /\ Len(c) = Len(a) + Len(b) /\ Len(a) \in Nat /\ Len(b) \in Nat
      /\ \A i \in 1..(Len(a) + Len(b)) : c[i] = IF i <= Len(a) THEN a[i] ELSE b[i - Len(a)]
  BY ConcatProperties
<1>2. DOMAIN c = 1..(Len(a) + Len(b)) /\ DOMAIN a = 1..Len(a) /\ DOMAIN b = 1..Len(b)
  BY <1>1
<1> HIDE DEF c
<1>3. ASSUME NEW i \in DOMAIN c PROVE c[i] \in ToSet(a) \cup ToSet(b)
  <2>1. CASE i <= Len(a)
    <3>1. i \in DOMAIN a /\ c[i] = a[i]
      BY <2>1, <1>1, <1>2
    <3>2. QED
      BY <3>1 DEF ToSet
  <2>2. CASE ~(i <= Len(a))
    <3>1. i - Len(a) \in DOMAIN b /\ c[i] = b[i - Len(a)]
      BY <2>2, <1>1, <1>2
    <3>2. QED
      BY <3>1 DEF ToSet
  <2>3. QED
    BY <2>1, <2>2
<1>4. \A i \in DOMAIN a : i \in DOMAIN c /\ c[i] = a[i]
  BY <1>1, <1>2
<1>5. \A i \in DOMAIN b : i + Len(a) \in DOMAIN c /\ c[i + Len(a)] = b[i]
  BY <1>1, <1>2
<1>6. \A x \in ToSet(a) \cup ToSet(b) : \E i \in DOMAIN c : c[i] = x
  BY <1>4, <1>5 DEF ToSet
<1>7. ToSet(c) = {c[i] : i \in DOMAIN c}
  BY DEF ToSet
<1> DEFINE U == ToSet(a) \cup ToSet(b)
<1> HIDE DEF U
<1>8. ToSet(c) = U
  BY <1>3, <1>6, <1>7 DEF U
<1>9. QED
  BY <1>8 DEF U, c

(* What the first k phases hold: the objects at their places. *)
FirstPlaces(objects, P, k) == {x \in DOMAIN objects : \E j \in 1..k : PhaseOf(objects[x]) = P[j]}
LEMMA FlattenHolds ==
  ASSUME NEW objects, ListOf(objects), NEW m \in Nat, NEW P, NEW ss, NEW t, FlattenTable(t, ss, m),
         \A i, j \in 1..m : P[i] = P[j] => i = j,
         \A i \in 1..m : /\ ss[i] \in Seq(ToSet(objects))
                         /\ Len(ss[i]) = Cardinality(PlacesOf(objects, P[i]))
                         /\ ToSet(ss[i]) = ObjectsAt(objects, PlacesOf(objects, P[i]))
  PROVE  \A k \in 1..m :
           /\ t[k] \in Seq(ToSet(objects)) /\ Len(t[k]) = Cardinality(FirstPlaces(objects, P, k))
           /\ ToSet(t[k]) = ObjectsAt(objects, FirstPlaces(objects, P, k))
<1> DEFINE D == DOMAIN objects
           W(k) == {x \in D : \E j \in 1..k : PhaseOf(objects[x]) = P[j]}
           Good(k) == /\ t[k] \in Seq(ToSet(objects)) /\ Len(t[k]) = Cardinality(W(k))
                      /\ ToSet(t[k]) = ObjectsAt(objects, W(k))
           Bad == {k \in 1..m : ~Good(k)}
<1>1. SUFFICES ASSUME Bad # {} PROVE FALSE
  BY DEF FirstPlaces
<1>2. PICK k \in Bad : \A l \in Bad : k <= l
  <2>1. Bad \in SUBSET Nat
    OBVIOUS
  <2> HIDE DEF Bad
  <2>2. QED
    BY <1>1, <2>1, NatMin
<1>3. k \in 1..m /\ ~Good(k) /\ k \in Nat
  OBVIOUS
<1>4. t[k] = IF k = 1 THEN ss[k] ELSE t[k - 1] \o ss[k]
  BY <1>3, FlattenValues
<1> DEFINE S == PlacesOf(objects, P[k])
<1>5. IsFiniteSet(D) /\ IsFiniteSet(S) /\ S \subseteq D
  BY ListPlaces
<1>6. /\ ss[k] \in Seq(ToSet(objects)) /\ Len(ss[k]) = Cardinality(S)
      /\ ToSet(ss[k]) = ObjectsAt(objects, S)
  BY <1>3
<1>7. CASE k = 1
  <2>1. W(k) = S
    BY <1>7 DEF PlacesOf
  <2> HIDE DEF W, S
  <2>2. QED
    BY <2>1, <1>3, <1>4, <1>6, <1>7
<1>8. CASE k # 1
  <2>1. k - 1 \in 1..m /\ k - 1 < k
    BY <1>3, <1>8
  <2>2. Good(k - 1)
    <3>1. k - 1 \notin Bad
      <4> HIDE DEF Bad
      <4>1. QED
        BY <1>2, <1>3, <2>1
    <3> HIDE DEF Good
    <3>2. QED
      BY <2>1, <3>1
  <2>3. W(k) = W(k - 1) \cup S
    <3>1. \A j \in 1..k : j \in 1..(k - 1) \/ j = k
      BY <1>3
    <3>2. 1..(k - 1) \subseteq 1..k /\ k \in 1..k
      BY <1>3, <1>8
    <3>3. \A x \in D : (\E j \in 1..k : PhaseOf(objects[x]) = P[j])
                        <=> (\E j \in 1..(k - 1) : PhaseOf(objects[x]) = P[j]) \/ PhaseOf(objects[x]) = P[k]
      BY <3>1, <3>2
    <3>4. QED
      BY <3>3 DEF PlacesOf
  <2>4. W(k - 1) \cap S = {}
    <3>1. \A j \in 1..(k - 1) : P[j] # P[k]
      BY <1>3, <2>1
    <3>2. QED
      BY <3>1 DEF PlacesOf
  <2>5. W(k - 1) \subseteq D
    OBVIOUS
  <2> DEFINE V == W(k - 1)
             X == W(k)
  <2>6. /\ t[k - 1] \in Seq(ToSet(objects)) /\ Len(t[k - 1]) = Cardinality(V)
        /\ ToSet(t[k - 1]) = ObjectsAt(objects, V)
    BY <2>2
  <2>7. X = V \cup S /\ V \cap S = {} /\ V \subseteq D
    BY <2>3, <2>4, <2>5
  <2>8. ~(/\ t[k] \in Seq(ToSet(objects)) /\ Len(t[k]) = Cardinality(X)
          /\ ToSet(t[k]) = ObjectsAt(objects, X))
    BY <1>3
  <2> HIDE DEF V, X, W, S, D
  <2>9. /\ IsFiniteSet(V) /\ Cardinality(X) = Cardinality(V) + Cardinality(S)
        /\ Cardinality(V) \in Nat /\ Cardinality(S) \in Nat
    <3>1. IsFiniteSet(V)
      BY <2>7, <1>5, FS_Subset
    <3>2. Cardinality(V \cup S) = Cardinality(V) + Cardinality(S) - Cardinality(V \cap S)
      BY <3>1, <1>5, FS_Union
    <3>3. Cardinality(V) \in Nat /\ Cardinality(S) \in Nat /\ Cardinality({}) = 0
      BY <3>1, <1>5, FS_CardinalityType, FS_EmptySet
    <3>4. Cardinality(X) = Cardinality(V) + Cardinality(S) - 0
      BY <3>2, <3>3, <2>7
    <3>5. QED
      BY <3>1, <3>3, <3>4
  <2> DEFINE a == t[k - 1]
             b == ss[k]
  <2>10. t[k] = a \o b
    BY <1>4, <1>8
  <2>11. a \in Seq(ToSet(objects)) /\ b \in Seq(ToSet(objects))
    BY <2>6, <1>6
  <2>12. Len(a) = Cardinality(V) /\ Len(b) = Cardinality(S)
    BY <2>6, <1>6
  <2>13. ToSet(a) = ObjectsAt(objects, V) /\ ToSet(b) = ObjectsAt(objects, S)
    BY <2>6, <1>6
  <2> HIDE DEF a, b
  <2>14. a \o b \in Seq(ToSet(objects)) /\ Len(a \o b) = Cardinality(X)
    <3>1. a \o b \in Seq(ToSet(objects)) /\ Len(a \o b) = Len(a) + Len(b)
      BY <2>11, ConcatProperties
    <3>2. QED
      BY <3>1, <2>9, <2>12
  <2>15. ToSet(a \o b) = ToSet(a) \cup ToSet(b)
    BY <2>11, ConcatHolds
  <2>16. ObjectsAt(objects, X) = ObjectsAt(objects, V) \cup ObjectsAt(objects, S)
    BY <2>7 DEF ObjectsAt
  <2>17. QED
    BY <2>8, <2>10, <2>13, <2>14, <2>15, <2>16
<1>9. QED
  BY <1>7, <1>8
(* What phase.go promises of the order: the same phases come out of any order
   of the manifests, and they hold each manifest once. *)
LEMMA SortedPhases ==
  ASSUME NEW objects, ListOf(objects), Sortable(objects)
  PROVE  PhasesCanonical(objects)
<1> DEFINE sorted == PhaseSort(objects)
           ss == [i \in DOMAIN sorted |-> sorted[i].objects]
           flat == FlattenSeq(ss)
           U == UsedPhases(objects)
           m == Cardinality(U)
<1>1. IsFiniteSet(U) /\ U \subseteq 1..13
  BY PhaseSortIs
<1>2. PICK used \in SetToSeqs(U) :
        sorted = [n \in DOMAIN used |->
                    [name |-> defaultPhaseOrder[used[n]],
                     objects |-> ObjectsOfPhase(objects, defaultPhaseOrder[used[n]])]]
  BY PhaseSortIs
<1> HIDE DEF sorted, U
<1>3. /\ m \in Nat /\ DOMAIN used = 1..m /\ \A i \in 1..m : used[i] \in U
      /\ \A i, j \in 1..m : used[i] = used[j] => i = j
      /\ \A x \in U : \E i \in 1..m : used[i] = x
  BY <1>1, Enumeration
<1> HIDE DEF m
<1> DEFINE P == [i \in 1..m |-> defaultPhaseOrder[used[i]]]
<1>4. DOMAIN sorted = 1..m /\ \A i \in 1..m : sorted[i].objects = ObjectsOfPhase(objects, P[i])
  BY <1>2, <1>3
<1>5. /\ Len(ss) = m /\ DOMAIN ss = 1..m
      /\ \A i \in 1..m : ss[i] = ObjectsOfPhase(objects, P[i])
  BY <1>3, <1>4
<1>6. \A i, j \in 1..m : P[i] = P[j] => i = j
  <2>1. \A a, b \in 1..13 : defaultPhaseOrder[a] = defaultPhaseOrder[b] => a = b
    BY PhasesDiffer
  <2>2. QED
    BY <1>1, <1>3, <2>1
<1>7. \A x \in DOMAIN objects : \E i \in 1..m : PhaseOf(objects[x]) = P[i]
  <2>1. SUFFICES ASSUME NEW x \in DOMAIN objects PROVE \E i \in 1..m : PhaseOf(objects[x]) = P[i]
    OBVIOUS
  <2>2. PICK k \in DOMAIN defaultPhaseOrder : PhaseOf(objects[x]) = defaultPhaseOrder[k]
    BY PhaseNames DEF PhaseOf
  <2>3. k \in U
    BY <2>2 DEF U, UsedPhases, PhaseOf
  <2>4. PICK i \in 1..m : used[i] = k
    BY <2>3, <1>3
  <2>5. QED
    BY <2>2, <2>4
<1> HIDE DEF P, ss
<1>8. \A i \in 1..m : /\ ss[i] \in Seq(ToSet(objects))
                      /\ Len(ss[i]) = Cardinality(PlacesOf(objects, P[i]))
                      /\ ToSet(ss[i]) = ObjectsAt(objects, PlacesOf(objects, P[i]))
  BY <1>5, PhaseHolds
<1>9. ToSet(flat) = ToSet(objects) /\ Len(flat) = Len(objects)
  <2>1. CASE m = 0
    <3>1. DOMAIN objects = {}
      BY <2>1, <1>7
    <3>2. Len(objects) = 0 /\ DOMAIN ss = {} /\ Len(ss) = 0
      BY <3>1, <2>1, <1>5, ListPlaces
    <3>3. flat = ss
      BY <3>2 DEF FlattenSeq
    <3>4. QED
      BY <3>1, <3>2, <3>3 DEF ToSet
  <2>2. CASE m # 0
    <3>1. PICK t : FlattenTable(t, ss, m) /\ flat = t[m]
      BY <2>2, <1>3, <1>5, FlattenIs
    <3> DEFINE W == FirstPlaces(objects, P, m)
    <3>2. m \in 1..m
      BY <2>2, <1>3
    <3>3. Len(t[m]) = Cardinality(W) /\ ToSet(t[m]) = ObjectsAt(objects, W)
      <4>1. ListOf(objects) /\ m \in Nat /\ FlattenTable(t, ss, m)
        BY <3>1, <1>3
      <4>2. \A k \in 1..m :
              /\ t[k] \in Seq(ToSet(objects)) /\ Len(t[k]) = Cardinality(FirstPlaces(objects, P, k))
              /\ ToSet(t[k]) = ObjectsAt(objects, FirstPlaces(objects, P, k))
        BY ONLY <4>1, <1>6, <1>8, FlattenHolds
      <4>3. QED
        BY <4>2, <3>2
    <3>4. W = DOMAIN objects
      BY <1>7 DEF FirstPlaces
    <3> HIDE DEF W
    <3>5. QED
      BY <3>1, <3>3, <3>4, ListPlaces DEF ToSet, ObjectsAt
  <2>3. QED
    BY <2>1, <2>2
<1>10. ASSUME NEW p \in SetToSeqs(DOMAIN objects)
       PROVE  PhaseSort([i \in DOMAIN objects |-> objects[p[i]]]) = PhaseSort(objects)
  <2> DEFINE q == [i \in DOMAIN objects |-> objects[p[i]]]
  <2>1. UsedPhases(q) = UsedPhases(objects) /\ \A n : ObjectsOfPhase(q, n) = ObjectsOfPhase(objects, n)
    BY PermutedPhase
  <2> HIDE DEF q
  <2>2. PhaseSort(q) = PhaseSort(objects)
    BY <2>1, Zenon DEF PhaseSort
  <2>3. QED
    BY <2>2 DEF q
<1>11. QED
  BY <1>9, <1>10, Zenon DEF PhasesCanonical, ss, sorted

(* The sizes that packing asks of the manifests. *)
SizesNatural(objects) == \A i \in DOMAIN objects : Stored(objects[i]) \in Nat

LEMMA SortedContent ==
  ASSUME NEW objects, ListOf(objects), Sortable(objects), SizesNatural(objects)
  PROVE  LET phases == PhaseSort(objects) IN
         /\ Len(phases) \in Nat /\ DOMAIN phases = 1..Len(phases)
         /\ \A i \in DOMAIN phases :
              /\ Len(phases[i].objects) \in Nat
              /\ DOMAIN phases[i].objects = 1..Len(phases[i].objects)
              /\ \A j \in DOMAIN phases[i].objects : Stored(phases[i].objects[j]) \in Nat
<1> DEFINE phases == PhaseSort(objects)
           U == UsedPhases(objects)
<1>1. IsFiniteSet(U)
  BY PhaseSortIs
<1>2. PICK used \in SetToSeqs(U) :
        phases = [n \in DOMAIN used |->
                    [name |-> defaultPhaseOrder[used[n]],
                     objects |-> ObjectsOfPhase(objects, defaultPhaseOrder[used[n]])]]
  BY PhaseSortIs
<1> HIDE DEF phases, U
<1>3. Cardinality(U) \in Nat /\ DOMAIN used = 1..Cardinality(U)
  BY <1>1, Enumeration
<1>4. Len(phases) = Cardinality(U) /\ DOMAIN phases = 1..Cardinality(U)
  BY <1>2, <1>3
<1>5. ASSUME NEW i \in DOMAIN phases
      PROVE  /\ Len(phases[i].objects) \in Nat
             /\ DOMAIN phases[i].objects = 1..Len(phases[i].objects)
             /\ \A j \in DOMAIN phases[i].objects : Stored(phases[i].objects[j]) \in Nat
  <2> DEFINE o == phases[i].objects
  <2>1. o = ObjectsOfPhase(objects, defaultPhaseOrder[used[i]])
    BY <1>2
  <2>2. o \in Seq(ToSet(objects))
    BY <2>1, PhaseHolds
  <2> HIDE DEF o
  <2>3. \A x \in ToSet(objects) : Stored(x) \in Nat
    BY DEF SizesNatural, ToSet
  <2>4. Len(o) \in Nat /\ DOMAIN o = 1..Len(o) /\ \A j \in DOMAIN o : o[j] \in ToSet(objects)
    BY <2>2
  <2>5. QED
    BY <2>3, <2>4 DEF o
<1>6. QED
  BY <1>3, <1>4, <1>5 DEF phases

(* What a bundle may consist of: a list of manifests that their group, version,
   kind, namespace and name tell apart, of natural sizes. *)
BundleObjects(objects) == ListOf(objects) /\ Sortable(objects) /\ SizesNatural(objects)

(* For any list of manifests, whatever their number, the phases that PhaseSort
   makes of it do not depend on its order and hold each manifest once, and Pack
   gives every object of them one reference, to a Secret that holds it, with no
   Secret beyond the limit (phase.go, secretpacker.go). *)
THEOREM RevisionContentExact ==
  ASSUME sample.is = "content" => BundleObjects(sample.objects)
  PROVE  ContentExact
<1>1. SUFFICES ASSUME NEW objects, BundleObjects(objects)
               PROVE  PhasesCanonical(objects) /\ PackExact(PhaseSort(objects))
  BY DEF ContentExact
<1>2. ListOf(objects) /\ Sortable(objects) /\ SizesNatural(objects)
  BY <1>1 DEF BundleObjects
<1>3. PhasesCanonical(objects)
  BY <1>2, SortedPhases
<1> DEFINE phases == PhaseSort(objects)
<1>4. /\ Len(phases) \in Nat /\ DOMAIN phases = 1..Len(phases)
      /\ \A i \in DOMAIN phases :
           /\ Len(phases[i].objects) \in Nat
           /\ DOMAIN phases[i].objects = 1..Len(phases[i].objects)
           /\ \A j \in DOMAIN phases[i].objects : Stored(phases[i].objects[j]) \in Nat
  BY <1>2, SortedContent
<1> HIDE DEF phases
<1>5. ArePhases(phases)
  BY <1>4 DEF ArePhases, IsSequence
<1>6. SizesKnown(phases)
  BY <1>4 DEF SizesKnown, PhaseObjects
<1>7. PackExact(phases)
  BY <1>5, <1>6, PackCorrect
<1>8. QED
  BY <1>3, <1>7 DEF phases

-----------------------------------------------------------------------------
(* The rendering of a bundle. *)

(* An extension is in a namespace, and a watch namespace of a configuration is
   the name of one when it is none of "unset", "null" and "malformed". *)
NamesNamespaces(ext) ==
  /\ ext.ns # AllNS
  /\ ext.config = RenderNone \/ ext.config.watch # AllNS

(* A list of one target. *)
LEMMA OneTarget ==
  ASSUME NEW x
  PROVE  /\ Elems(<<x>>) = {x} /\ <<x>>[1] = x /\ Cardinality({x}) = 1
         /\ <<x>> # <<>>
<1>1. DOMAIN <<x>> = {1} /\ <<x>>[1] = x
  OBVIOUS
<1>2. Cardinality({x}) = 1
  BY FS_Singleton
<1>3. QED
  BY <1>1, <1>2 DEF Elems

(* The target namespaces that the install modes of a bundle allow. *)
LEMMA TargetsValid ==
  ASSUME NEW rv1, NEW ns, ns # AllNS
  PROVE  /\ "AllNamespaces" \in rv1.modes => validateTargetNamespaces(rv1, ns, <<AllNS>>)
         /\ "OwnNamespace" \in rv1.modes => validateTargetNamespaces(rv1, ns, <<ns>>)
         /\ \A w : w # AllNS /\ w # ns /\ "SingleNamespace" \in rv1.modes => validateTargetNamespaces(rv1, ns, <<w>>)
<1>1. \A x : Elems(<<x>>) = {x} /\ <<x>>[1] = x /\ Cardinality({x}) = 1
  BY OneTarget
<1>2. ASSUME "AllNamespaces" \in rv1.modes PROVE validateTargetNamespaces(rv1, ns, <<AllNS>>)
  <2>1. Elems(<<AllNS>>) = {AllNS}
    BY <1>1
  <2>2. QED
    BY <1>2, <2>1 DEF validateTargetNamespaces
<1>3. ASSUME NEW w, w # AllNS,
             IF w = ns THEN "OwnNamespace" \in rv1.modes ELSE "SingleNamespace" \in rv1.modes
      PROVE  validateTargetNamespaces(rv1, ns, <<w>>)
  <2>1. Elems(<<w>>) = {w} /\ <<w>>[1] = w /\ Cardinality({w}) = 1 /\ AllNS \notin {w}
    BY <1>1, <1>3
  <2>2. QED
    BY <1>3, <2>1 DEF validateTargetNamespaces
<1>4. QED
  BY <1>2, <1>3

(* The schema lets through only targets that validateTargetNamespaces takes. *)
LEMMA ExtractedTargets ==
  ASSUME NEW rv1, NEW cfg, NEW ns, NEW gates, NEW provider, ns # AllNS, cfg.watch # AllNS,
         Supported(rv1, gates, provider), extractBundleConfigOptions(rv1, cfg, ns, gates) # RenderNone
  PROVE  LET t == extractBundleConfigOptions(rv1, cfg, ns, gates).targets
             o == IF t = <<>> THEN defaultTargetNamespacesForBundle(rv1) ELSE t
         IN  validateTargetNamespaces(rv1, ns, o) /\ o \in {<<AllNS>>, <<cfg.watch>>}
<1> DEFINE schema == [GetConfigSchema(rv1) EXCEPT !.dc = "DeploymentConfig" \in gates]
           e == extractBundleConfigOptions(rv1, cfg, ns, gates)
           o == IF e.targets = <<>> THEN defaultTargetNamespacesForBundle(rv1) ELSE e.targets
<1>1. validateConfigWithSchema(cfg, schema, ns)
  BY DEF extractBundleConfigOptions
<1>2. e.targets = GetWatchNamespace(cfg)
  BY <1>1 DEF extractBundleConfigOptions
<1>3. /\ schema.watch = isWatchNamespaceConfigurable(rv1.modes)
      /\ schema.required = isWatchNamespaceConfigRequired(rv1.modes)
      /\ schema.format = selectNamespaceFormat(rv1.modes)
  BY DEF GetConfigSchema
<1>4. WatchValid(schema, cfg.watch, ns)
  BY <1>1 DEF validateConfigWithSchema
<1> HIDE DEF schema, e
<1>5. CASE cfg.watch \in {"unset", "null"}
  <2>1. e.targets = <<>>
    BY <1>2, <1>5 DEF GetWatchNamespace
  <2>2. ~schema.required
    BY <1>4, <1>5 DEF WatchValid
  <2>3. "AllNamespaces" \in rv1.modes
    BY <2>2, <1>3 DEF isWatchNamespaceConfigRequired, isWatchNamespaceConfigurable, Supported
  <2>4. o = <<AllNS>>
    BY <2>1, <2>3 DEF defaultTargetNamespacesForBundle
  <2>5. QED
    BY <2>3, <2>4, TargetsValid DEF e
<1>6. CASE cfg.watch \notin {"unset", "null"}
  <2>1. e.targets = <<cfg.watch>>
    BY <1>2, <1>6 DEF GetWatchNamespace
  <2>2. o = <<cfg.watch>>
    BY <2>1, OneTarget
  <2>3. schema.watch /\ FormatAllows(schema.format, cfg.watch, ns)
    BY <1>4, <1>6 DEF WatchValid
  <2>4. IF cfg.watch = ns THEN "OwnNamespace" \in rv1.modes ELSE "SingleNamespace" \in rv1.modes
    BY <2>3, <1>3 DEF FormatAllows, selectNamespaceFormat, isWatchNamespaceConfigurable
  <2>5. validateTargetNamespaces(rv1, ns, <<cfg.watch>>)
    BY <2>4, TargetsValid
  <2>6. QED
    BY <2>2, <2>5 DEF e
<1>7. QED
  BY <1>5, <1>6

(* A configuration that the schema of a bundle accepts always renders, for any
   bundle that passes its checks, and what renders watches all namespaces or
   the one the user asked for (extractBundleConfigOptions, provider.go). *)
THEOREM AcceptedConfigRenders ==
  ASSUME NEW rv1, NEW ext, NEW gates, NEW provider, NamesNamespaces(ext)
  PROVE  AcceptedRenders(rv1, ext, gates, provider)
<1> DEFINE cfg == IF ext.config = RenderNone THEN EmptyConfig ELSE ext.config
           given == "SingleOwnNamespace" \in gates \/ ext.config # RenderNone
           extracted == IF given THEN extractBundleConfigOptions(rv1, cfg, ext.ns, gates)
                        ELSE [targets |-> <<>>, deploymentConfig |-> RenderNone]
           accepted == extractBundleConfigOptions(rv1, cfg, ext.ns, gates) # RenderNone
           opts == [installNS |-> ext.ns, targets |-> extracted.targets, provider |-> provider,
                    deploymentConfig |-> extracted.deploymentConfig]
           r == ManifestsGet(rv1, ext, gates, provider)
           o == IF extracted.targets = <<>> THEN defaultTargetNamespacesForBundle(rv1) ELSE extracted.targets
<1>1. cfg.watch # AllNS /\ ext.ns # AllNS
  BY DEF NamesNamespaces, EmptyConfig, AllNS
<1>2. r = IF ~Supported(rv1, gates, provider) \/ extracted = RenderNone THEN RenderNone ELSE Render(rv1, opts)
  BY DEF ManifestsGet
<1>3. ~given => extracted.targets = <<>> /\ extracted # RenderNone
  BY DEF RenderNone
<1>4. given => extracted = extractBundleConfigOptions(rv1, cfg, ext.ns, gates)
  OBVIOUS
<1> HIDE DEF extracted, cfg, given
<1>5. Supported(rv1, gates, provider) /\ extracted # RenderNone
        => validateTargetNamespaces(rv1, ext.ns, o) /\ o \in {<<AllNS>>, <<cfg.watch>>}
  <2> SUFFICES ASSUME Supported(rv1, gates, provider), extracted # RenderNone
               PROVE  validateTargetNamespaces(rv1, ext.ns, o) /\ o \in {<<AllNS>>, <<cfg.watch>>}
    OBVIOUS
  <2>1. CASE given
    BY <2>1, <1>1, <1>4, ExtractedTargets
  <2>2. CASE ~given
    <3>1. "AllNamespaces" \in rv1.modes
      BY <2>2 DEF Supported, given
    <3>2. o = <<AllNS>>
      BY <3>1, <2>2, <1>3 DEF defaultTargetNamespacesForBundle
    <3>3. QED
      BY <3>1, <3>2, <1>1, TargetsValid
  <2>3. QED
    BY <2>1, <2>2
<1>6. Render(rv1, opts) =
        IF ~BundleValidator(rv1) \/ ~validateTargetNamespaces(rv1, ext.ns, o) \/ ~CRDsConvertible(rv1)
        THEN RenderNone
        ELSE [targets |-> o, objects |-> ResourceGenerators(rv1, [opts EXCEPT !.targets = o])]
  BY DEF Render
<1>7. \A x, y : [targets |-> x, objects |-> y] # RenderNone
  BY DEF RenderNone
<1>8. accepted => extracted # RenderNone
  BY <1>3, <1>4
<1> HIDE DEF opts, o
<1>9. Supported(rv1, gates, provider) /\ accepted /\ BundleValidator(rv1) /\ CRDsConvertible(rv1) => r # RenderNone
  BY <1>2, <1>5, <1>6, <1>7, <1>8
<1>10. r # RenderNone => r.targets \in {<<AllNS>>, <<cfg.watch>>}
  BY <1>2, <1>5, <1>6
<1> HIDE DEF r, accepted
<1>11. QED
  BY <1>9, <1>10 DEF AcceptedRenders, r, accepted, cfg

(* Sequences, by their places. *)
LEMMA ListEntries ==
  ASSUME NEW s, ListOf(s)
  PROVE  /\ Len(s) \in Nat /\ DOMAIN s = 1..Len(s) /\ s = [i \in DOMAIN s |-> s[i]]
         /\ \A i \in DOMAIN s : s[i] \in Elems(s)
         /\ \A x \in Elems(s) : \E i \in DOMAIN s : s[i] = x
  BY DEF ListOf, Elems

(* A function on the first n places is a list. *)
LEMMA PlacesList ==
  ASSUME NEW n \in Nat, NEW s, DOMAIN s = 1..n, s = [i \in DOMAIN s |-> s[i]]
  PROVE  ListOf(s) /\ Len(s) = n
<1>1. \A i \in 1..n : s[i] \in ToSet(s)
  BY DEF ToSet
<1>2. s \in [1..n -> ToSet(s)]
  BY <1>1
<1>3. QED
  BY <1>2 DEF ListOf

(* A sequence over any set is a list. *)
LEMMA ListIn ==
  ASSUME NEW S, NEW s \in Seq(S)
  PROVE  ListOf(s)
<1>1. Len(s) \in Nat /\ DOMAIN s = 1..Len(s) /\ s = [i \in DOMAIN s |-> s[i]]
  OBVIOUS
<1>2. QED
  BY <1>1, PlacesList

(* One sequence behind another. *)
LEMMA Concatenated ==
  ASSUME NEW a, NEW b, ListOf(a), ListOf(b)
  PROVE  /\ ListOf(a \o b) /\ Len(a \o b) = Len(a) + Len(b)
         /\ Elems(a \o b) = Elems(a) \cup Elems(b)
         /\ \A i \in 1..(Len(a) + Len(b)) : (a \o b)[i] = IF i <= Len(a) THEN a[i] ELSE b[i - Len(a)]
<1> DEFINE S == Elems(a) \cup Elems(b)
           c == a \o b
<1>1. a \in Seq(S) /\ b \in Seq(S)
  BY DEF ListOf, ToSet, Elems
<1>2. /\ c \in Seq(S) /\ Len(c) = Len(a) + Len(b)
      /\ \A i \in 1..(Len(a) + Len(b)) : c[i] = IF i <= Len(a) THEN a[i] ELSE b[i - Len(a)]
  BY <1>1, ConcatProperties
<1>3. Len(a) \in Nat /\ DOMAIN a = 1..Len(a) /\ Len(b) \in Nat /\ DOMAIN b = 1..Len(b)
  BY ListEntries
<1>4. DOMAIN c = 1..(Len(a) + Len(b))
  BY <1>2
<1>5. ListOf(c)
  BY <1>2, ListIn
<1> HIDE DEF c
<1>6. ASSUME NEW x PROVE x \in Elems(c) <=> x \in S
  <2>1. ASSUME NEW i \in DOMAIN c PROVE c[i] \in S
    BY <1>2, <1>4
  <2>2. ASSUME NEW i \in DOMAIN a PROVE a[i] \in Elems(c)
    <3>1. i \in DOMAIN c /\ c[i] = a[i]
      BY <1>2, <1>3, <1>4
    <3>2. QED
      BY <3>1 DEF Elems
  <2>3. ASSUME NEW i \in DOMAIN b PROVE b[i] \in Elems(c)
    <3>1. Len(a) + i \in DOMAIN c /\ c[Len(a) + i] = b[i]
      BY <1>2, <1>3, <1>4
    <3>2. QED
      BY <3>1 DEF Elems
  <2>4. QED
    BY <2>1, <2>2, <2>3 DEF Elems
<1>7. QED
  BY <1>2, <1>5, <1>6 DEF c

(* All of a sequence of sequences, one behind the other. *)
LEMMA Flattened ==
  ASSUME NEW ss, ListOf(ss), \A i \in DOMAIN ss : ListOf(ss[i])
  PROVE  /\ ListOf(FlattenSeq(ss))
         /\ \A x : x \in Elems(FlattenSeq(ss)) <=> \E i \in DOMAIN ss : x \in Elems(ss[i])
<1>1. Len(ss) \in Nat /\ DOMAIN ss = 1..Len(ss)
  BY ListEntries
<1>2. CASE Len(ss) = 0
  <2>1. FlattenSeq(ss) = ss
    BY <1>2 DEF FlattenSeq
  <2>2. DOMAIN ss = {}
    BY <1>1, <1>2
  <2>3. QED
    BY <2>1, <2>2 DEF Elems
<1>3. CASE Len(ss) # 0
  <2>1. PICK t : FlattenTable(t, ss, Len(ss)) /\ FlattenSeq(ss) = t[Len(ss)]
    BY <1>1, <1>3, FlattenIs
  <2>2. \A i \in 1..Len(ss) : t[i] = IF i = 1 THEN ss[i] ELSE t[i - 1] \o ss[i]
    BY <1>1, <2>1, FlattenValues
  <2> DEFINE Good(n) == /\ ListOf(t[n])
                        /\ \A x : x \in Elems(t[n]) <=> \E i \in 1..n : x \in Elems(ss[i])
             Bad == {n \in 1..Len(ss) : ~Good(n)}
  <2>3. Bad = {}
    <3>1. SUFFICES ASSUME Bad # {} PROVE FALSE
      OBVIOUS
    <3>2. Bad \in SUBSET Nat
      BY <1>1
    <3> HIDE DEF Bad
    <3>3. PICK n \in Bad : \A m \in Bad : n <= m
      BY <3>1, <3>2, NatMin
    <3>4. n \in 1..Len(ss) /\ ~Good(n)
      BY <3>3 DEF Bad
    <3>5. CASE n = 1
      <4>1. t[n] = ss[n] /\ ListOf(ss[n]) /\ 1..n = {n}
        BY <3>4, <3>5, <2>2, <1>1
      <4>2. QED
        BY <4>1, <3>4
    <3>6. CASE n # 1
      <4>1. n - 1 \in 1..Len(ss) /\ n - 1 \notin Bad
        BY <1>1, <3>2, <3>3, <3>4, <3>6
      <4>2. Good(n - 1)
        BY <4>1 DEF Bad
      <4>3. t[n] = t[n - 1] \o ss[n] /\ ListOf(ss[n])
        BY <3>4, <3>6, <2>2, <1>1
      <4>4. ListOf(t[n]) /\ Elems(t[n]) = Elems(t[n - 1]) \cup Elems(ss[n])
        BY <4>2, <4>3, Concatenated
      <4>5. 1..n = (1..(n - 1)) \cup {n}
        BY <3>4
      <4>6. QED
        BY <4>2, <4>4, <4>5, <3>4
    <3>7. QED
      BY <3>5, <3>6
  <2>4. Good(Len(ss))
    BY <2>3, <1>1, <1>3
  <2>5. QED
    BY <2>1, <2>4, <1>1
<1>4. QED
  BY <1>2, <1>3

(* A finite set as a sequence, in some order. *)
LEMMA SetListed ==
  ASSUME NEW S, IsFiniteSet(S)
  PROVE  ListOf(SetToSeq(S)) /\ Elems(SetToSeq(S)) = S
<1> DEFINE n == Cardinality(S)
<1>1. PICK f : f \in SetToSeqs(S)
  <2>1. \E f : f \in SetToSeqs(S)
    <3>1. PICK f : f \in Bijection(1..n, S)
      BY FS_CardinalityType DEF ExistsBijection
    <3>2. QED
      BY <3>1 DEF SetToSeqs, Bijection, Injection, IsInjective
  <2>2. QED
    BY <2>1
<1>2. f \in [1..n -> S] /\ IsInjective(f)
  BY <1>1 DEF SetToSeqs, IsInjective
<1> DEFINE g == SetToSeq(S)
<1>3. g \in [1..n -> S] /\ IsInjective(g)
  BY <1>2, Zenon DEF SetToSeq
<1>4. g \in SetToSeqs(S)
  BY <1>3 DEF SetToSeqs, IsInjective
<1> HIDE DEF g
<1>5. /\ n \in Nat /\ DOMAIN g = 1..n /\ g \in Seq(S)
      /\ \A i \in 1..n : g[i] \in S
      /\ \A x \in S : \E i \in 1..n : g[i] = x
  BY <1>4, Enumeration
<1>6. ListOf(g)
  BY <1>5, ListIn
<1>7. Elems(g) = S
  BY <1>5 DEF Elems
<1>8. QED
  BY <1>6, <1>7 DEF g

(* The entries at some of the places. *)
LEMMA Picked ==
  ASSUME NEW s, ListOf(s), NEW at, at \subseteq DOMAIN s
  PROVE  /\ ListOf(Pick(s, at))
         /\ \A x : x \in Elems(Pick(s, at)) <=> \E i \in at : s[i] = x
         /\ \E f : /\ DOMAIN f = DOMAIN Pick(s, at)
                   /\ \A i \in DOMAIN f : f[i] \in at /\ Pick(s, at)[i] = s[f[i]]
                   /\ \A i, j \in DOMAIN f : i < j => f[i] < f[j]
                   /\ \A k \in at : \E i \in DOMAIN f : f[i] = k
<1> DEFINE f == CHOOSE f \in SetToSeqs(at) : \A i, j \in DOMAIN f : i < j => f[i] < f[j]
           n == Cardinality(at)
           T == {r \in at \X at : r[1] < r[2]}
<1>1. IsFiniteSet(at) /\ at \subseteq Nat
  <2>1. Len(s) \in Nat /\ DOMAIN s = 1..Len(s)
    BY ListEntries
  <2>2. IsFiniteSet(1..Len(s))
    BY <2>1, FS_Interval
  <2>3. QED
    BY <2>1, <2>2, FS_Subset
<1>2. \A a, b \in at : <<a, b>> \in T <=> a < b
  OBVIOUS
<1> HIDE DEF T
<1>3. Orders(T, at)
  BY <1>1, <1>2 DEF Orders
<1>4. PICK g \in SetToSeqs(at) : \A i, j \in DOMAIN g : i < j => <<g[i], g[j]>> \in T
  BY <1>1, <1>3, SortExists
<1>5. \A i, j \in DOMAIN g : i < j => g[i] < g[j]
  <2>1. \A i \in DOMAIN g : g[i] \in at
    BY <1>1, <1>4, Enumeration
  <2>2. QED
    BY <2>1, <1>2, <1>4
<1>6. f \in SetToSeqs(at) /\ \A i, j \in DOMAIN f : i < j => f[i] < f[j]
  BY <1>5, Zenon
<1>7. Pick(s, at) = [i \in DOMAIN f |-> s[f[i]]]
  BY Zenon DEF Pick
<1> HIDE DEF f
<1>8. /\ n \in Nat /\ DOMAIN f = 1..n /\ \A i \in 1..n : f[i] \in at
      /\ \A x \in at : \E i \in 1..n : f[i] = x
  BY <1>1, <1>6, Enumeration
<1> DEFINE p == Pick(s, at)
<1>9. DOMAIN p = 1..n /\ p = [i \in DOMAIN p |-> p[i]] /\ \A i \in 1..n : p[i] = s[f[i]]
  BY <1>7, <1>8
<1> HIDE DEF p, n
<1>10. ListOf(p)
  BY <1>8, <1>9, PlacesList
<1>11. \A x : x \in Elems(p) <=> \E i \in at : s[i] = x
  BY <1>8, <1>9 DEF Elems
<1>12. QED
  BY <1>6, <1>8, <1>9, <1>10, <1>11 DEF p

(* The parts of a resource. *)
LEMMA ResourceParts ==
  \A k, ns, n, b : /\ Resource(k, ns, n, b).kind = k /\ Resource(k, ns, n, b).ns = ns
                   /\ Resource(k, ns, n, b).name = n /\ Resource(k, ns, n, b).body = b
  BY DEF Resource

(* Two entries, and one. *)
LEMMA ShortLists ==
  /\ \A x : ListOf(<<x>>) /\ Elems(<<x>>) = {x} /\ Len(<<x>>) = 1 /\ <<x>>[1] = x
  /\ \A x, y : ListOf(<<x, y>>) /\ Elems(<<x, y>>) = {x, y}
  /\ ListOf(<<>>) /\ Elems(<<>>) = {} /\ Len(<<>>) = 0
<1>1. ASSUME NEW x PROVE ListOf(<<x>>) /\ Elems(<<x>>) = {x} /\ Len(<<x>>) = 1 /\ <<x>>[1] = x
  <2>1. DOMAIN <<x>> = 1..1 /\ 1..1 = {1} /\ <<x>>[1] = x /\ <<x>> \in Seq({x}) /\ Len(<<x>>) = 1
    OBVIOUS
  <2>2. ListOf(<<x>>)
    BY <2>1, ListIn
  <2>3. QED
    BY <2>1, <2>2 DEF Elems
<1>2. ASSUME NEW x, NEW y PROVE ListOf(<<x, y>>) /\ Elems(<<x, y>>) = {x, y}
  <2>1. /\ DOMAIN <<x, y>> = 1..2 /\ 1..2 = {1, 2} /\ <<x, y>>[1] = x /\ <<x, y>>[2] = y
        /\ <<x, y>> \in Seq({x, y})
    OBVIOUS
  <2>2. ListOf(<<x, y>>)
    BY <2>1, ListIn
  <2>3. QED
    BY <2>1, <2>2 DEF Elems
<1>3. ListOf(<<>>) /\ Elems(<<>>) = {} /\ Len(<<>>) = 0
  <2>1. <<>> \in Seq({}) /\ DOMAIN <<>> = {} /\ Len(<<>>) = 0
    OBVIOUS
  <2>2. ListOf(<<>>)
    BY <2>1, ListIn
  <2>3. QED
    BY <2>1, <2>2 DEF Elems
<1>4. QED
  BY <1>1, <1>2, <1>3

(* What is made of the permissions of a bundle for one of them. *)
RoleOf(kind, o, rv1, p, ns) == Resource(kind, ns, UniqueName(rv1, p), [rules |-> p.rules])
RoleBindingOf(kind, o, rv1, p, ns) ==
  Resource(BindingKind(kind), ns, UniqueName(rv1, p),
           [role |-> UniqueName(rv1, p), subject |-> <<o.installNS, saNameOrDefault(p.sa)>>])

(* A role with its binding, one behind the other. *)
LEMMA BindingIs ==
  ASSUME NEW kind, NEW o, NEW rv1, NEW p, NEW ns
  PROVE  /\ ListOf(Binding(kind, o, rv1, p, ns))
         /\ Elems(Binding(kind, o, rv1, p, ns)) = {RoleOf(kind, o, rv1, p, ns), RoleBindingOf(kind, o, rv1, p, ns)}
<1>1. Binding(kind, o, rv1, p, ns) = <<RoleOf(kind, o, rv1, p, ns), RoleBindingOf(kind, o, rv1, p, ns)>>
  BY DEF Binding, RoleOf, RoleBindingOf
<1>2. QED
  BY <1>1, ShortLists

(* The roles and bindings made for a list of permissions. *)
LEMMA Bindings ==
  ASSUME NEW kind, NEW o, NEW rv1, NEW ns, NEW ps, ListOf(ps)
  PROVE  LET all == FlattenSeq([i \in DOMAIN ps |-> Binding(kind, o, rv1, ps[i], ns)])
         IN  /\ ListOf(all)
             /\ \A x : x \in Elems(all) <=>
                  \E p \in Elems(ps) : x \in {RoleOf(kind, o, rv1, p, ns), RoleBindingOf(kind, o, rv1, p, ns)}
<1> DEFINE ss == [i \in DOMAIN ps |-> Binding(kind, o, rv1, ps[i], ns)]
<1>1. Len(ps) \in Nat /\ DOMAIN ps = 1..Len(ps)
  BY ListEntries
<1>2. DOMAIN ss = DOMAIN ps /\ ss = [i \in DOMAIN ss |-> ss[i]] /\ \A i \in DOMAIN ps : ss[i] = Binding(kind, o, rv1, ps[i], ns)
  OBVIOUS
<1> HIDE DEF ss
<1>3. ListOf(ss) /\ \A i \in DOMAIN ss : ListOf(ss[i])
  BY <1>1, <1>2, PlacesList, BindingIs
<1>4. /\ ListOf(FlattenSeq(ss))
      /\ \A x : x \in Elems(FlattenSeq(ss)) <=> \E i \in DOMAIN ss : x \in Elems(ss[i])
  BY <1>3, Flattened
<1>5. \A x : (\E i \in DOMAIN ss : x \in Elems(ss[i])) <=>
        \E p \in Elems(ps) : x \in {RoleOf(kind, o, rv1, p, ns), RoleBindingOf(kind, o, rv1, p, ns)}
  <2>1. \A i \in DOMAIN ps : Elems(ss[i]) = {RoleOf(kind, o, rv1, ps[i], ns), RoleBindingOf(kind, o, rv1, ps[i], ns)}
    BY <1>2, BindingIs
  <2>2. (\A i \in DOMAIN ps : ps[i] \in Elems(ps)) /\ \A p \in Elems(ps) : \E i \in DOMAIN ps : ps[i] = p
    BY ListEntries
  <2>3. QED
    BY <2>1, <2>2, <1>2
<1>6. QED
  BY <1>4, <1>5 DEF ss

(* The roles and bindings in the target namespaces. *)
LEMMA NamespacedPermissions ==
  ASSUME NEW rv1, NEW o, ListOf(rv1.permissions), ListOf(o.targets)
  PROVE  LET all == BundleCSVPermissionsGenerator(rv1, o)
         IN  /\ ListOf(all)
             /\ \A x : x \in Elems(all) <=>
                  /\ ~IsAllNamespaces(o)
                  /\ \E ns \in Elems(o.targets) : \E p \in Elems(rv1.permissions) :
                       x \in {RoleOf("Role", o, rv1, p, ns), RoleBindingOf("Role", o, rv1, p, ns)}
<1> DEFINE forNS(ns) == FlattenSeq([i \in DOMAIN rv1.permissions |-> Binding("Role", o, rv1, rv1.permissions[i], ns)])
           ss == [i \in DOMAIN o.targets |-> forNS(o.targets[i])]
           Made(x, ns) == \E p \in Elems(rv1.permissions) :
                            x \in {RoleOf("Role", o, rv1, p, ns), RoleBindingOf("Role", o, rv1, p, ns)}
<1>1. BundleCSVPermissionsGenerator(rv1, o) = IF IsAllNamespaces(o) THEN <<>> ELSE FlattenSeq(ss)
  BY DEF BundleCSVPermissionsGenerator
<1>2. \A ns : ListOf(forNS(ns)) /\ \A x : x \in Elems(forNS(ns)) <=> Made(x, ns)
  BY Bindings
<1> HIDE DEF forNS, Made
<1>3. Len(o.targets) \in Nat /\ DOMAIN o.targets = 1..Len(o.targets)
  BY ListEntries
<1>4. DOMAIN ss = DOMAIN o.targets /\ ss = [i \in DOMAIN ss |-> ss[i]] /\ \A i \in DOMAIN o.targets : ss[i] = forNS(o.targets[i])
  OBVIOUS
<1> HIDE DEF ss
<1>5. ListOf(ss) /\ \A i \in DOMAIN ss : ListOf(ss[i])
  BY <1>2, <1>3, <1>4, PlacesList
<1>6. /\ ListOf(FlattenSeq(ss))
      /\ \A x : x \in Elems(FlattenSeq(ss)) <=> \E i \in DOMAIN ss : x \in Elems(ss[i])
  BY <1>5, Flattened
<1>7. \A x : (\E i \in DOMAIN ss : x \in Elems(ss[i])) <=> \E ns \in Elems(o.targets) : Made(x, ns)
  <2>1. (\A i \in DOMAIN o.targets : o.targets[i] \in Elems(o.targets)) /\ \A t \in Elems(o.targets) : \E i \in DOMAIN o.targets : o.targets[i] = t
    BY ListEntries
  <2>2. QED
    BY <2>1, <1>2, <1>4
<1>8. QED
  BY <1>1, <1>6, <1>7, ShortLists DEF Made

(* The cluster permissions, those lifted to the cluster among them. *)
ClusterWide(rv1, o) == rv1.clusterPermissions \o Promoted(rv1, o)
Lifted(p) == [p EXCEPT !.rules = @ \cup {"watch-namespaces"}]

(* The roles and bindings of the cluster. *)
LEMMA ClusterPermissions ==
  ASSUME NEW rv1, NEW o, ListOf(rv1.permissions), ListOf(rv1.clusterPermissions)
  PROVE  LET all == BundleCSVClusterPermissionsGenerator(rv1, o)
         IN  /\ ListOf(all)
             /\ \A x : x \in Elems(all) <=> \E p \in Elems(ClusterWide(rv1, o)) :
                  x \in {RoleOf("ClusterRole", o, rv1, p, AllNS), RoleBindingOf("ClusterRole", o, rv1, p, AllNS)}
             /\ \A p : p \in Elems(ClusterWide(rv1, o)) <=>
                  \/ p \in Elems(rv1.clusterPermissions)
                  \/ IsAllNamespaces(o) /\ \E q \in Elems(rv1.permissions) : p = Lifted(q)
<1> DEFINE ps == ClusterWide(rv1, o)
           lift == Promoted(rv1, o)
           ms == rv1.permissions
<1>1. /\ ListOf(lift)
      /\ \A p : p \in Elems(lift) <=> IsAllNamespaces(o) /\ \E q \in Elems(ms) : p = Lifted(q)
  <2>1. CASE ~IsAllNamespaces(o)
    <3>1. lift = <<>>
      BY <2>1 DEF Promoted
    <3>2. QED
      BY <3>1, <2>1, ShortLists
  <2>2. CASE IsAllNamespaces(o)
    <3>1. lift = [i \in DOMAIN ms |-> Lifted(ms[i])]
      BY <2>2 DEF Promoted, Lifted
    <3>2. Len(ms) \in Nat /\ DOMAIN ms = 1..Len(ms)
      BY ListEntries
    <3>3. DOMAIN lift = DOMAIN ms /\ lift = [i \in DOMAIN lift |-> lift[i]] /\ \A i \in DOMAIN ms : lift[i] = Lifted(ms[i])
      BY <3>1
    <3> HIDE DEF lift
    <3>4. ListOf(lift)
      BY <3>2, <3>3, PlacesList
    <3>5. \A p : p \in Elems(lift) <=> \E q \in Elems(ms) : p = Lifted(q)
      BY <3>3 DEF Elems
    <3>6. QED
      BY <3>4, <3>5, <2>2
  <2>3. QED
    BY <2>1, <2>2
<1>2. ListOf(ps) /\ Elems(ps) = Elems(rv1.clusterPermissions) \cup Elems(lift)
  BY <1>1, Concatenated DEF ClusterWide
<1>3. BundleCSVClusterPermissionsGenerator(rv1, o)
        = FlattenSeq([i \in DOMAIN ps |-> Binding("ClusterRole", o, rv1, ps[i], AllNS)])
  BY DEF BundleCSVClusterPermissionsGenerator, ClusterWide
<1> HIDE DEF ps, lift
<1>4. LET all == FlattenSeq([i \in DOMAIN ps |-> Binding("ClusterRole", o, rv1, ps[i], AllNS)])
      IN  /\ ListOf(all)
          /\ \A x : x \in Elems(all) <=>
               \E p \in Elems(ps) : x \in {RoleOf("ClusterRole", o, rv1, p, AllNS), RoleBindingOf("ClusterRole", o, rv1, p, AllNS)}
  BY <1>2, Bindings
<1>5. QED
  BY <1>1, <1>2, <1>3, <1>4 DEF ps

(* Every account of the CSV but the default one is made. *)
LEMMA Accounts ==
  ASSUME NEW rv1, NEW o, ListOf(rv1.permissions), ListOf(rv1.clusterPermissions)
  PROVE  LET all == BundleCSVServiceAccountGenerator(rv1, o)
         IN  /\ ListOf(all)
             /\ \A x : x \in Elems(all) <=>
                  \E p \in Elems(rv1.permissions) \cup Elems(rv1.clusterPermissions) :
                    /\ saNameOrDefault(p.sa) # <<"default">>
                    /\ x = Resource("ServiceAccount", o.installNS, saNameOrDefault(p.sa), RenderNone)
<1> DEFINE ps == rv1.permissions \o rv1.clusterPermissions
           sas == {saNameOrDefault(p.sa) : p \in Elems(ps)}
           S == {Resource("ServiceAccount", o.installNS, sa, RenderNone) : sa \in sas \ {<<"default">>}}
           places == {i \in DOMAIN ps : saNameOrDefault(ps[i].sa) # <<"default">>}
           f == [i \in places |-> Resource("ServiceAccount", o.installNS, saNameOrDefault(ps[i].sa), RenderNone)]
<1>1. ListOf(ps) /\ Elems(ps) = Elems(rv1.permissions) \cup Elems(rv1.clusterPermissions)
  BY Concatenated
<1>2. BundleCSVServiceAccountGenerator(rv1, o) = SetToSeq(S)
  BY DEF BundleCSVServiceAccountGenerator
<1> HIDE DEF ps
<1>3. IsFiniteSet(places)
  <2>1. Len(ps) \in Nat /\ DOMAIN ps = 1..Len(ps)
    BY <1>1, ListEntries
  <2>2. IsFiniteSet(1..Len(ps))
    BY ONLY <2>1, FS_Interval
  <2>3. places \in SUBSET (1..Len(ps))
    BY <2>1
  <2>4. QED
    BY <2>2, <2>3, FS_Subset
<1>4. \A x : x \in S <=> \E p \in Elems(ps) :
                    /\ saNameOrDefault(p.sa) # <<"default">>
                    /\ x = Resource("ServiceAccount", o.installNS, saNameOrDefault(p.sa), RenderNone)
  OBVIOUS
<1>5. \A x : x \in S <=> \E i \in places : x = f[i]
  <2>1. \A i \in places : f[i] = Resource("ServiceAccount", o.installNS, saNameOrDefault(ps[i].sa), RenderNone)
    OBVIOUS
  <2>2. (\A i \in DOMAIN ps : ps[i] \in Elems(ps)) /\ \A p \in Elems(ps) : \E i \in DOMAIN ps : ps[i] = p
    BY <1>1, ListEntries
  <2>3. \A i : i \in places <=> i \in DOMAIN ps /\ saNameOrDefault(ps[i].sa) # <<"default">>
    OBVIOUS
  <2> HIDE DEF f, places, S
  <2>4. QED
    BY <2>1, <2>2, <2>3, <1>4
<1>6. f \in Surjection(places, S)
  <2>1. DOMAIN f = places /\ f = [i \in places |-> f[i]]
    OBVIOUS
  <2> HIDE DEF f, places, S
  <2>2. QED
    BY <2>1, <1>5 DEF Surjection
<1>7. IsFiniteSet(S)
  BY <1>3, <1>6, FS_Surjection
<1> HIDE DEF S, sas
<1>8. ListOf(SetToSeq(S)) /\ Elems(SetToSeq(S)) = S
  BY <1>7, SetListed
<1>9. QED
  BY <1>1, <1>2, <1>4, <1>8

(* The generator of CRDs makes CRDs only. *)
LEMMA DefinitionsMade ==
  ASSUME NEW rv1, NEW o, ListOf(rv1.crds)
  PROVE  LET all == BundleCRDGenerator(rv1, o)
         IN  ListOf(all) /\ \A x \in Elems(all) : x.kind = "CustomResourceDefinition"
<1> DEFINE all == BundleCRDGenerator(rv1, o)
<1>1. DOMAIN all = DOMAIN rv1.crds /\ all = [i \in DOMAIN all |-> all[i]]
  BY DEF BundleCRDGenerator
<1>2. \A i \in DOMAIN all : all[i].kind = "CustomResourceDefinition"
  BY DEF BundleCRDGenerator, Resource
<1> HIDE DEF all
<1>3. Len(rv1.crds) \in Nat /\ DOMAIN rv1.crds = 1..Len(rv1.crds)
  BY ListEntries
<1>4. ListOf(all)
  BY <1>1, <1>3, PlacesList
<1>5. QED
  BY <1>2, <1>4 DEF Elems, all

(* The other manifests keep their kinds. *)
LEMMA OthersMade ==
  ASSUME NEW rv1, NEW o, ListOf(rv1.others)
  PROVE  LET all == BundleAdditionalResourcesGenerator(rv1, o)
         IN  ListOf(all) /\ \A x \in Elems(all) : \E r \in Elems(rv1.others) : x.kind = r.kind
<1> DEFINE all == BundleAdditionalResourcesGenerator(rv1, o)
<1>1. DOMAIN all = DOMAIN rv1.others /\ all = [i \in DOMAIN all |-> all[i]]
  BY DEF BundleAdditionalResourcesGenerator
<1>2. \A i \in DOMAIN all : all[i].kind = rv1.others[i].kind
  BY DEF BundleAdditionalResourcesGenerator, Resource
<1> HIDE DEF all
<1>3. Len(rv1.others) \in Nat /\ DOMAIN rv1.others = 1..Len(rv1.others)
  BY ListEntries
<1>4. ListOf(all)
  BY <1>1, <1>3, PlacesList
<1>5. QED
  BY <1>1, <1>2, <1>4 DEF Elems, all

(* A webhook generator makes webhook configurations only. *)
LEMMA WebhooksMade ==
  ASSUME NEW rv1, NEW o, NEW type, NEW kind, ListOf(rv1.webhooks)
  PROVE  LET all == BundleWebhookResourceGenerator(rv1, o, type, kind)
         IN  ListOf(all) /\ \A x \in Elems(all) : x.kind = kind
<1> DEFINE all == BundleWebhookResourceGenerator(rv1, o, type, kind)
           at == {i \in DOMAIN rv1.webhooks : rv1.webhooks[i].type = type}
           whs == Pick(rv1.webhooks, at)
<1>1. DOMAIN all = DOMAIN whs /\ all = [i \in DOMAIN all |-> all[i]]
  BY DEF BundleWebhookResourceGenerator
<1>2. \A i \in DOMAIN all : all[i].kind = kind
  BY DEF BundleWebhookResourceGenerator, Resource
<1>3. ListOf(whs)
  <2>1. at \subseteq DOMAIN rv1.webhooks
    OBVIOUS
  <2> HIDE DEF at
  <2>2. QED
    BY <2>1, Picked
<1> HIDE DEF all, whs
<1>4. Len(whs) \in Nat /\ DOMAIN whs = 1..Len(whs)
  BY <1>3, ListEntries
<1>5. ListOf(all)
  BY <1>1, <1>4, PlacesList
<1>6. QED
  BY <1>2, <1>5 DEF Elems, all

(* The Service of a deployment with webhooks. *)
PortsOf(rv1, d) == {getWebhookServicePort(wh) : wh \in {w \in Elems(rv1.webhooks) : w.deployment = d.name}}
ServiceOf(rv1, o, d) ==
  Resource("Service", o.installNS, ServiceName(d.name),
           [ports |-> PortsOf(rv1, d), selector |-> d.name, ca |-> InjectCABundle("Service", o, d.name)])

(* Every deployment with webhooks gets its Service, and no other. *)
LEMMA ServicesMade ==
  ASSUME NEW rv1, NEW o, ListOf(rv1.deployments)
  PROVE  LET all == BundleDeploymentServiceResourceGenerator(rv1, o)
         IN  /\ ListOf(all)
             /\ \A x : x \in Elems(all) <=>
                  \E d \in Elems(rv1.deployments) : d.name \in WebhookDeployments(rv1) /\ x = ServiceOf(rv1, o, d)
<1> DEFINE all == BundleDeploymentServiceResourceGenerator(rv1, o)
           ds == rv1.deployments
           at == {i \in DOMAIN ds : ds[i].name \in WebhookDeployments(rv1)}
           deps == Pick(ds, at)
<1>1. all = [i \in DOMAIN deps |-> ServiceOf(rv1, o, deps[i])]
  BY DEF BundleDeploymentServiceResourceGenerator, ServiceOf, PortsOf
<1>2. at \subseteq DOMAIN ds
  OBVIOUS
<1>3. \A i : i \in at <=> i \in DOMAIN ds /\ ds[i].name \in WebhookDeployments(rv1)
  OBVIOUS
<1> HIDE DEF at, all
<1>4. ListOf(deps) /\ \A x : x \in Elems(deps) <=> \E i \in at : ds[i] = x
  BY <1>2, Picked
<1> HIDE DEF deps
<1>5. Len(deps) \in Nat /\ DOMAIN deps = 1..Len(deps)
  BY <1>4, ListEntries
<1>6. DOMAIN all = DOMAIN deps /\ all = [i \in DOMAIN all |-> all[i]] /\ \A i \in DOMAIN deps : all[i] = ServiceOf(rv1, o, deps[i])
  BY <1>1
<1>7. ListOf(all)
  BY <1>5, <1>6, PlacesList
<1>8. \A x : x \in Elems(all) <=> \E d \in Elems(deps) : x = ServiceOf(rv1, o, d)
  BY <1>6 DEF Elems
<1>9. \A d : d \in Elems(deps) <=> d \in Elems(ds) /\ d.name \in WebhookDeployments(rv1)
  <2>1. (\A i \in DOMAIN ds : ds[i] \in Elems(ds)) /\ \A d \in Elems(ds) : \E i \in DOMAIN ds : ds[i] = d
    BY ListEntries
  <2>2. QED
    BY <2>1, <1>3, <1>4
<1>10. QED
  BY <1>7, <1>8, <1>9 DEF all

(* What a certificate provider adds. *)
LEMMA CertificatesMade ==
  ASSUME NEW rv1, NEW o, ListOf(rv1.webhooks)
  PROVE  LET all == CertProviderResourceGenerator(rv1, o)
         IN  /\ ListOf(all)
             /\ \A x : x \in Elems(all) <=>
                  \E wh \in Elems(rv1.webhooks) : x \in Elems(AdditionalObjects(o, wh.deployment))
             /\ \A x \in Elems(all) : x.kind \in {"Issuer", "Certificate"}
<1> DEFINE S == WebhookDeployments(rv1)
           deps == SetToSeq(S)
           ss == [i \in DOMAIN deps |-> AdditionalObjects(o, deps[i])]
           whs == rv1.webhooks
           f == [i \in DOMAIN whs |-> whs[i].deployment]
<1>1. CertProviderResourceGenerator(rv1, o) = FlattenSeq(ss)
  BY DEF CertProviderResourceGenerator
<1>2. \A n : ListOf(AdditionalObjects(o, n)) /\ \A x \in Elems(AdditionalObjects(o, n)) : x.kind \in {"Issuer", "Certificate"}
  <2>1. SUFFICES ASSUME NEW n PROVE ListOf(AdditionalObjects(o, n)) /\ \A x \in Elems(AdditionalObjects(o, n)) : x.kind \in {"Issuer", "Certificate"}
    OBVIOUS
  <2>2. CASE o.provider # "certManager"
    BY <2>2, ShortLists DEF AdditionalObjects
  <2>3. CASE o.provider = "certManager"
    <3> DEFINE issuer == ObjectNameForBaseAndSuffix(CertName(n), SelfSigned)
               a == Resource("Issuer", o.installNS, issuer, RenderNone)
               b == Resource("Certificate", o.installNS, CertName(n),
                      [secret |-> CertName(n), service |-> ServiceName(n), issuer |-> issuer])
    <3>1. AdditionalObjects(o, n) = <<a, b>>
      BY <2>3 DEF AdditionalObjects
    <3>2. a.kind = "Issuer" /\ b.kind = "Certificate"
      BY ResourceParts
    <3> HIDE DEF a, b
    <3>3. QED
      BY <3>1, <3>2, ShortLists
  <2>4. QED
    BY <2>2, <2>3
<1>3. IsFiniteSet(S)
  <2>1. Len(whs) \in Nat /\ DOMAIN whs = 1..Len(whs)
    BY ListEntries
  <2>2. IsFiniteSet(DOMAIN whs)
    BY <2>1, FS_Interval
  <2>3. f \in [DOMAIN whs -> S] /\ \A n \in S : \E i \in DOMAIN whs : f[i] = n
    BY DEF WebhookDeployments, Elems
  <2>4. f \in Surjection(DOMAIN whs, S)
    BY <2>3 DEF Surjection
  <2>5. QED
    BY <2>2, <2>4, FS_Surjection
<1> HIDE DEF S
<1>4. ListOf(deps) /\ Elems(deps) = S
  BY <1>3, SetListed
<1> HIDE DEF deps
<1>5. Len(deps) \in Nat /\ DOMAIN deps = 1..Len(deps)
  BY <1>4, ListEntries
<1>6. DOMAIN ss = DOMAIN deps /\ ss = [i \in DOMAIN ss |-> ss[i]] /\ \A i \in DOMAIN deps : ss[i] = AdditionalObjects(o, deps[i])
  OBVIOUS
<1> HIDE DEF ss
<1>7. ListOf(ss) /\ \A i \in DOMAIN ss : ListOf(ss[i])
  BY <1>2, <1>5, <1>6, PlacesList
<1>8. /\ ListOf(FlattenSeq(ss))
      /\ \A x : x \in Elems(FlattenSeq(ss)) <=> \E i \in DOMAIN ss : x \in Elems(ss[i])
  BY <1>7, Flattened
<1>9. \A x : (\E i \in DOMAIN ss : x \in Elems(ss[i])) <=> \E n \in S : x \in Elems(AdditionalObjects(o, n))
  <2>1. (\A i \in DOMAIN deps : deps[i] \in S) /\ \A n \in S : \E i \in DOMAIN deps : deps[i] = n
    BY <1>4, ListEntries
  <2>2. QED
    BY <2>1, <1>6
<1>10. \A x : (\E n \in S : x \in Elems(AdditionalObjects(o, n))) <=>
              \E wh \in Elems(whs) : x \in Elems(AdditionalObjects(o, wh.deployment))
  BY DEF S, WebhookDeployments
<1>11. QED
  BY <1>1, <1>2, <1>8, <1>9, <1>10

(* A deployment on its way through the generator. *)
AnnotatedOf(rv1, o, d) ==
  [d EXCEPT !.annotations = OverrideByName(OverrideByName(rv1.annotations, @),
                                           <<[name |-> "olm.targetNamespaces", value |-> o.targets]>>)]
CertifiedOf(rv1, o, d) ==
  IF d.name \in WebhookDeployments(rv1) /\ o.provider # "none"
  THEN ensureCorrectDeploymentCertVolumes(d, CertName(d.name)) ELSE d
DeploymentOf(rv1, o, d) ==
  Resource("Deployment", o.installNS, d.name,
           applyCustomConfigToDeployment(CertifiedOf(rv1, o, AnnotatedOf(rv1, o, d)), o.deploymentConfig))

(* Every deployment of the CSV is made, and no other. *)
LEMMA DeploymentsMade ==
  ASSUME NEW rv1, NEW o, ListOf(rv1.deployments)
  PROVE  LET all == BundleCSVDeploymentGenerator(rv1, o)
         IN  /\ ListOf(all)
             /\ \A x : x \in Elems(all) <=> \E d \in Elems(rv1.deployments) : x = DeploymentOf(rv1, o, d)
<1> DEFINE all == BundleCSVDeploymentGenerator(rv1, o)
           ds == rv1.deployments
<1>1. all = [i \in DOMAIN ds |-> DeploymentOf(rv1, o, ds[i])]
  BY DEF BundleCSVDeploymentGenerator, DeploymentOf, CertifiedOf, AnnotatedOf
<1>2. DOMAIN all = DOMAIN ds /\ all = [i \in DOMAIN all |-> all[i]] /\ \A i \in DOMAIN ds : all[i] = DeploymentOf(rv1, o, ds[i])
  BY <1>1
<1> HIDE DEF all
<1>3. Len(ds) \in Nat /\ DOMAIN ds = 1..Len(ds)
  BY ListEntries
<1>4. ListOf(all)
  BY <1>2, <1>3, PlacesList
<1>5. \A x : x \in Elems(all) <=> \E d \in Elems(ds) : x = DeploymentOf(rv1, o, d)
  BY <1>2 DEF Elems
<1>6. QED
  BY <1>4, <1>5 DEF all

(* What is rendered is what the generators make. *)
BundleLists(rv1) ==
  /\ ListOf(rv1.permissions) /\ ListOf(rv1.clusterPermissions) /\ ListOf(rv1.crds)
  /\ ListOf(rv1.others) /\ ListOf(rv1.deployments) /\ ListOf(rv1.webhooks)

(* An object is rendered when one of the generators makes it. *)
LEMMA GeneratorsMake ==
  ASSUME NEW rv1, NEW o, BundleLists(rv1), ListOf(o.targets)
  PROVE  \A x : x \in Elems(ResourceGenerators(rv1, o)) <=>
           \/ x \in Elems(BundleCSVServiceAccountGenerator(rv1, o))
           \/ x \in Elems(BundleCSVPermissionsGenerator(rv1, o))
           \/ x \in Elems(BundleCSVClusterPermissionsGenerator(rv1, o))
           \/ x \in Elems(BundleCRDGenerator(rv1, o))
           \/ x \in Elems(BundleAdditionalResourcesGenerator(rv1, o))
           \/ x \in Elems(BundleCSVDeploymentGenerator(rv1, o))
           \/ x \in Elems(BundleValidatingWebhookResourceGenerator(rv1, o))
           \/ x \in Elems(BundleMutatingWebhookResourceGenerator(rv1, o))
           \/ x \in Elems(BundleDeploymentServiceResourceGenerator(rv1, o))
           \/ x \in Elems(CertProviderResourceGenerator(rv1, o))
<1> DEFINE g1 == BundleCSVServiceAccountGenerator(rv1, o)
           g2 == BundleCSVPermissionsGenerator(rv1, o)
           g3 == BundleCSVClusterPermissionsGenerator(rv1, o)
           g4 == BundleCRDGenerator(rv1, o)
           g5 == BundleAdditionalResourcesGenerator(rv1, o)
           g6 == BundleCSVDeploymentGenerator(rv1, o)
           g7 == BundleValidatingWebhookResourceGenerator(rv1, o)
           g8 == BundleMutatingWebhookResourceGenerator(rv1, o)
           g9 == BundleDeploymentServiceResourceGenerator(rv1, o)
           g10 == CertProviderResourceGenerator(rv1, o)
<1>1. ListOf(g1)
  BY Accounts DEF BundleLists
<1>2. ListOf(g2)
  BY NamespacedPermissions DEF BundleLists
<1>3. ListOf(g3)
  BY ClusterPermissions DEF BundleLists
<1>4. ListOf(g4)
  BY DefinitionsMade DEF BundleLists
<1>5. ListOf(g5)
  BY OthersMade DEF BundleLists
<1>6. ListOf(g6)
  BY DeploymentsMade DEF BundleLists
<1>7. ListOf(g7)
  BY WebhooksMade DEF BundleLists, BundleValidatingWebhookResourceGenerator
<1>8. ListOf(g8)
  BY WebhooksMade DEF BundleLists, BundleMutatingWebhookResourceGenerator
<1>9. ListOf(g9)
  BY ServicesMade DEF BundleLists
<1>10. ListOf(g10)
  BY CertificatesMade DEF BundleLists
<1>11. ResourceGenerators(rv1, o) = ((((((((g1 \o g2) \o g3) \o g4) \o g5) \o g6) \o g7) \o g8) \o g9) \o g10
  BY DEF ResourceGenerators
<1> HIDE DEF g1, g2, g3, g4, g5, g6, g7, g8, g9, g10
<1> DEFINE h2 == g1 \o g2
           h3 == h2 \o g3
           h4 == h3 \o g4
           h5 == h4 \o g5
           h6 == h5 \o g6
           h7 == h6 \o g7
           h8 == h7 \o g8
           h9 == h8 \o g9
           h10 == h9 \o g10
<1>12. ListOf(h2) /\ Elems(h2) = Elems(g1) \cup Elems(g2)
  BY <1>1, <1>2, Concatenated
<1> HIDE DEF h2
<1>13. ListOf(h3) /\ Elems(h3) = Elems(h2) \cup Elems(g3)
  BY <1>12, <1>3, Concatenated
<1> HIDE DEF h3
<1>14. ListOf(h4) /\ Elems(h4) = Elems(h3) \cup Elems(g4)
  BY <1>13, <1>4, Concatenated
<1> HIDE DEF h4
<1>15. ListOf(h5) /\ Elems(h5) = Elems(h4) \cup Elems(g5)
  BY <1>14, <1>5, Concatenated
<1> HIDE DEF h5
<1>16. ListOf(h6) /\ Elems(h6) = Elems(h5) \cup Elems(g6)
  BY <1>15, <1>6, Concatenated
<1> HIDE DEF h6
<1>17. ListOf(h7) /\ Elems(h7) = Elems(h6) \cup Elems(g7)
  BY <1>16, <1>7, Concatenated
<1> HIDE DEF h7
<1>18. ListOf(h8) /\ Elems(h8) = Elems(h7) \cup Elems(g8)
  BY <1>17, <1>8, Concatenated
<1> HIDE DEF h8
<1>19. ListOf(h9) /\ Elems(h9) = Elems(h8) \cup Elems(g9)
  BY <1>18, <1>9, Concatenated
<1> HIDE DEF h9
<1>20. Elems(h10) = Elems(h9) \cup Elems(g10)
  BY <1>19, <1>10, Concatenated
<1>21. ResourceGenerators(rv1, o) = h10
  BY <1>11 DEF h2, h3, h4, h5, h6, h7, h8, h9
<1> HIDE DEF h10
<1>22. QED
  BY <1>12, <1>13, <1>14, <1>15, <1>16, <1>17, <1>18, <1>19, <1>20, <1>21
     DEF g1, g2, g3, g4, g5, g6, g7, g8, g9, g10

(* Which generator makes the objects of a kind. *)
LEMMA KindsMade ==
  ASSUME NEW rv1, NEW o, BundleLists(rv1), ListOf(o.targets), CheckObjectSupport(rv1),
         \A r \in Elems(rv1.others) : r.kind # "Role"
  PROVE  LET objects == ResourceGenerators(rv1, o) IN
         /\ \A x : x \in OfKind(objects, "ServiceAccount") <=> x \in Elems(BundleCSVServiceAccountGenerator(rv1, o))
         /\ \A x : x \in OfKind(objects, "Role") <=>
              /\ ~IsAllNamespaces(o)
              /\ \E ns \in Elems(o.targets) : \E p \in Elems(rv1.permissions) : x = RoleOf("Role", o, rv1, p, ns)
         /\ \A x : x \in OfKind(objects, "RoleBinding") <=>
              /\ ~IsAllNamespaces(o)
              /\ \E ns \in Elems(o.targets) : \E p \in Elems(rv1.permissions) : x = RoleBindingOf("Role", o, rv1, p, ns)
         /\ \A x : x \in OfKind(objects, "ClusterRole") <=>
              \E p \in Elems(ClusterWide(rv1, o)) : x = RoleOf("ClusterRole", o, rv1, p, AllNS)
         /\ \A x : x \in OfKind(objects, "ClusterRoleBinding") <=>
              \E p \in Elems(ClusterWide(rv1, o)) : x = RoleBindingOf("ClusterRole", o, rv1, p, AllNS)
         /\ \A x : x \in OfKind(objects, "Deployment") <=>
              \E d \in Elems(rv1.deployments) : x = DeploymentOf(rv1, o, d)
         /\ \A x : x \in OfKind(objects, "Service") <=>
              \E d \in Elems(rv1.deployments) : d.name \in WebhookDeployments(rv1) /\ x = ServiceOf(rv1, o, d)
         /\ \A x : x \in OfKind(objects, "Certificate") <=>
              x.kind = "Certificate" /\ x \in Elems(CertProviderResourceGenerator(rv1, o))
<1> DEFINE objects == ResourceGenerators(rv1, o)
           S1 == Elems(BundleCSVServiceAccountGenerator(rv1, o))
           S2 == Elems(BundleCSVPermissionsGenerator(rv1, o))
           S3 == Elems(BundleCSVClusterPermissionsGenerator(rv1, o))
           S4 == Elems(BundleCRDGenerator(rv1, o))
           S5 == Elems(BundleAdditionalResourcesGenerator(rv1, o))
           S6 == Elems(BundleCSVDeploymentGenerator(rv1, o))
           S7 == Elems(BundleValidatingWebhookResourceGenerator(rv1, o))
           S8 == Elems(BundleMutatingWebhookResourceGenerator(rv1, o))
           S9 == Elems(BundleDeploymentServiceResourceGenerator(rv1, o))
           S10 == Elems(CertProviderResourceGenerator(rv1, o))
<1>0. \A x, k : x \in OfKind(objects, k) <=>
        /\ x.kind = k
        /\ \/ x \in S1 \/ x \in S2 \/ x \in S3 \/ x \in S4 \/ x \in S5
           \/ x \in S6 \/ x \in S7 \/ x \in S8 \/ x \in S9 \/ x \in S10
  <2> DEFINE E == Elems(objects)
  <2>1. \A x : x \in E <=>
           \/ x \in S1 \/ x \in S2 \/ x \in S3 \/ x \in S4 \/ x \in S5
           \/ x \in S6 \/ x \in S7 \/ x \in S8 \/ x \in S9 \/ x \in S10
    BY GeneratorsMake
  <2>2. \A x, k : x \in OfKind(objects, k) <=> x \in E /\ x.kind = k
    BY DEF OfKind
  <2> HIDE DEF S1, S2, S3, S4, S5, S6, S7, S8, S9, S10, E
  <2>3. QED
    BY <2>1, <2>2
<1>1. \A x \in S1 : x.kind = "ServiceAccount"
  BY Accounts, ResourceParts DEF BundleLists
<1>2a. \A x : x \in S2 <=>
              /\ ~IsAllNamespaces(o)
              /\ \E ns \in Elems(o.targets) : \E p \in Elems(rv1.permissions) :
                   x \in {RoleOf("Role", o, rv1, p, ns), RoleBindingOf("Role", o, rv1, p, ns)}
  BY NamespacedPermissions DEF BundleLists
<1>3a. \A x : x \in S3 <=> \E p \in Elems(ClusterWide(rv1, o)) :
                x \in {RoleOf("ClusterRole", o, rv1, p, AllNS), RoleBindingOf("ClusterRole", o, rv1, p, AllNS)}
  BY ClusterPermissions DEF BundleLists
<1>4. \A x \in S4 : x.kind = "CustomResourceDefinition"
  BY DefinitionsMade DEF BundleLists
<1>5. \A x \in S5 : x.kind \in SupportedKinds /\ x.kind # "Role"
  <2>1. \A x \in S5 : \E r \in Elems(rv1.others) : x.kind = r.kind
    BY OthersMade DEF BundleLists
  <2>2. \A r \in Elems(rv1.others) : r.kind \in SupportedKinds
    BY DEF CheckObjectSupport
  <2> HIDE DEF S5
  <2>3. QED
    BY <2>1, <2>2
<1>6a. \A x : x \in S6 <=> \E d \in Elems(rv1.deployments) : x = DeploymentOf(rv1, o, d)
  BY DeploymentsMade DEF BundleLists
<1>7. \A x \in S7 : x.kind = "ValidatingWebhookConfiguration"
  BY WebhooksMade DEF BundleLists, BundleValidatingWebhookResourceGenerator
<1>8. \A x \in S8 : x.kind = "MutatingWebhookConfiguration"
  BY WebhooksMade DEF BundleLists, BundleMutatingWebhookResourceGenerator
<1>9a. \A x : x \in S9 <=> \E d \in Elems(rv1.deployments) : d.name \in WebhookDeployments(rv1) /\ x = ServiceOf(rv1, o, d)
  BY ServicesMade DEF BundleLists
<1>10. \A x \in S10 : x.kind \in {"Issuer", "Certificate"}
  BY CertificatesMade DEF BundleLists
<1>11. \A k, p, ns : RoleOf(k, o, rv1, p, ns).kind = k /\ RoleBindingOf(k, o, rv1, p, ns).kind = BindingKind(k)
  BY ResourceParts DEF RoleOf, RoleBindingOf
<1>12. \A d : DeploymentOf(rv1, o, d).kind = "Deployment" /\ ServiceOf(rv1, o, d).kind = "Service"
  BY ResourceParts DEF DeploymentOf, ServiceOf
<1>13. BindingKind("Role") = "RoleBinding" /\ BindingKind("ClusterRole") = "ClusterRoleBinding"
  BY DEF BindingKind
<1>2. \A x \in S2 : x.kind \in {"Role", "RoleBinding"}
  BY <1>2a, <1>11, <1>13
<1>3. \A x \in S3 : x.kind \in {"ClusterRole", "ClusterRoleBinding"}
  BY <1>3a, <1>11, <1>13
<1>6. \A x \in S6 : x.kind = "Deployment"
  BY <1>6a, <1>12
<1>9. \A x \in S9 : x.kind = "Service"
  BY <1>9a, <1>12
<1> HIDE DEF objects, S1, S2, S3, S4, S5, S6, S7, S8, S9, S10
<1>14. \A x, k : x \in OfKind(objects, k) <=>
         CASE k = "ServiceAccount" -> x \in S1
           [] k \in {"RoleBinding", "Role"} -> x \in S2 /\ x.kind = k
           [] k \in {"ClusterRole", "ClusterRoleBinding"} -> x \in S3 /\ x.kind = k
           [] k = "Deployment" -> x \in S6
           [] k = "Service" -> x \in S9
           [] k = "Certificate" -> x \in S10 /\ x.kind = k
           [] OTHER -> x \in OfKind(objects, k)
  BY <1>0, <1>1, <1>2, <1>3, <1>4, <1>5, <1>6, <1>7, <1>8, <1>9, <1>10 DEF SupportedKinds
<1>15. /\ \A x : x \in OfKind(objects, "ServiceAccount") <=> x \in S1
       /\ \A x : x \in OfKind(objects, "Role") <=> x \in S2 /\ x.kind = "Role"
       /\ \A x : x \in OfKind(objects, "RoleBinding") <=> x \in S2 /\ x.kind = "RoleBinding"
       /\ \A x : x \in OfKind(objects, "ClusterRole") <=> x \in S3 /\ x.kind = "ClusterRole"
       /\ \A x : x \in OfKind(objects, "ClusterRoleBinding") <=> x \in S3 /\ x.kind = "ClusterRoleBinding"
       /\ \A x : x \in OfKind(objects, "Deployment") <=> x \in S6
       /\ \A x : x \in OfKind(objects, "Service") <=> x \in S9
       /\ \A x : x \in OfKind(objects, "Certificate") <=> x.kind = "Certificate" /\ x \in S10
  BY <1>14
<1>16. \A x : x \in OfKind(objects, "Role") <=>
              /\ ~IsAllNamespaces(o)
              /\ \E ns \in Elems(o.targets) : \E p \in Elems(rv1.permissions) : x = RoleOf("Role", o, rv1, p, ns)
  BY <1>15, <1>2a, <1>11, <1>13
<1>17. \A x : x \in OfKind(objects, "RoleBinding") <=>
              /\ ~IsAllNamespaces(o)
              /\ \E ns \in Elems(o.targets) : \E p \in Elems(rv1.permissions) : x = RoleBindingOf("Role", o, rv1, p, ns)
  BY <1>15, <1>2a, <1>11, <1>13
<1>18. \A x : x \in OfKind(objects, "ClusterRole") <=>
              \E p \in Elems(ClusterWide(rv1, o)) : x = RoleOf("ClusterRole", o, rv1, p, AllNS)
  BY <1>15, <1>3a, <1>11, <1>13
<1>19. \A x : x \in OfKind(objects, "ClusterRoleBinding") <=>
              \E p \in Elems(ClusterWide(rv1, o)) : x = RoleBindingOf("ClusterRole", o, rv1, p, AllNS)
  BY <1>15, <1>3a, <1>11, <1>13
<1>20. QED
  BY <1>15, <1>16, <1>17, <1>18, <1>19, <1>6a, <1>9a DEF objects, S1, S10

(* A derived name ends with its suffix, whatever is cut off its base. *)
LEMMA NameEnds ==
  ASSUME NEW base, ListOf(base), NEW h
  PROVE  \E a : ListOf(a) /\ ObjectNameForBaseAndSuffix(base, <<h>>) = a \o <<h>>
<1> DEFINE cut == IF Len(base) + Len(<<h>>) > maxNameLength
                  THEN SubSeq(base, 1, maxNameLength - Len(<<h>>) - 1) ELSE base
           a == cut \o <<"-">>
<1>1. ObjectNameForBaseAndSuffix(base, <<h>>) = a \o <<h>>
  BY DEF ObjectNameForBaseAndSuffix
<1>2. ListOf(cut)
  <2>1. CASE Len(base) + Len(<<h>>) > maxNameLength
    <3>1. Len(<<h>>) = 1 /\ Len(base) \in Nat /\ base \in Seq(Elems(base)) /\ maxNameLength \in Nat /\ maxNameLength >= 5
      BY ShortLists, ListEntries, NameLengths DEF ListOf, ToSet, Elems
    <3>2. SubSeq(base, 1, maxNameLength - 1 - 1) \in Seq(Elems(base))
      BY <3>1, <2>1
    <3>3. cut = SubSeq(base, 1, maxNameLength - 1 - 1)
      BY <2>1, <3>1
    <3>4. QED
      BY <3>2, <3>3, ListIn
  <2>2. CASE ~(Len(base) + Len(<<h>>) > maxNameLength)
    BY <2>2
  <2>3. QED
    BY <2>1, <2>2
<1> HIDE DEF cut
<1>3. ListOf(a)
  BY <1>2, ShortLists, Concatenated
<1>4. QED
  BY <1>1, <1>3

(* Derived names with suffixes of one letter are equal only for equal suffixes. *)
LEMMA SameEnd ==
  ASSUME NEW a, NEW b, ListOf(a), ListOf(b), NEW x, NEW y, a \o <<x>> = b \o <<y>>
  PROVE  x = y
<1>1. Len(a) \in Nat /\ Len(b) \in Nat
  BY ListEntries
<1>2. /\ Len(a \o <<x>>) = Len(a) + 1 /\ (a \o <<x>>)[Len(a) + 1] = x
      /\ Len(b \o <<y>>) = Len(b) + 1 /\ (b \o <<y>>)[Len(b) + 1] = y
  <2>1. ASSUME NEW c, ListOf(c), Len(c) \in Nat, NEW z PROVE Len(c \o <<z>>) = Len(c) + 1 /\ (c \o <<z>>)[Len(c) + 1] = z
    <3>1. ListOf(<<z>>) /\ Len(<<z>>) = 1 /\ <<z>>[1] = z
      BY ShortLists
    <3>2. Len(c \o <<z>>) = Len(c) + 1 /\ (c \o <<z>>)[Len(c) + 1] = <<z>>[Len(c) + 1 - Len(c)]
      BY <2>1, <3>1, Concatenated
    <3>3. Len(c) + 1 - Len(c) = 1
      BY <2>1
    <3>4. QED
      BY <3>1, <3>2, <3>3
  <2>2. QED
    BY <1>1, <2>1
<1>3. Len(a) = Len(b)
  BY <1>1, <1>2
<1>4. QED
  BY <1>2, <1>3

(* What a bundle's permissions are: an account by name and the rules for it,
   none of which is the right that the lift to the cluster adds, told apart by
   their hashes. *)
Permission(p) ==
  /\ {"sa", "rules"} \subseteq DOMAIN p /\ ListOf(p.sa) /\ "watch-namespaces" \notin p.rules
Permissions(rv1) ==
  LET ps == Elems(rv1.permissions) \cup Elems(rv1.clusterPermissions)
      all == ps \cup {Lifted(p) : p \in ps}
  IN  /\ ListOf(rv1.name) /\ \A p \in ps : Permission(p)
      /\ \A p, q \in all : ToString(p) = ToString(q) => p = q

(* The names of the roles tell the permissions apart. *)
LEMMA UniqueNames ==
  ASSUME NEW rv1, ListOf(rv1.name), NEW p, NEW q, ListOf(p.sa), ListOf(q.sa),
         UniqueName(rv1, p) = UniqueName(rv1, q)
  PROVE  ToString(p) = ToString(q)
<1> DEFINE base(x) == (rv1.name \o <<"-">>) \o saNameOrDefault(x.sa)
<1>1. \A x : UniqueName(rv1, x) = ObjectNameForBaseAndSuffix(base(x), <<ToString(x)>>)
  BY DEF UniqueName
<1>2. \A x : ListOf(x.sa) => ListOf(base(x))
  <2>1. ListOf(rv1.name \o <<"-">>)
    BY ShortLists, Concatenated
  <2>2. \A x : ListOf(x.sa) => ListOf(saNameOrDefault(x.sa))
    BY ShortLists DEF saNameOrDefault
  <2>3. QED
    BY <2>1, <2>2, Concatenated
<1> HIDE DEF base
<1>3. PICK a : ListOf(a) /\ UniqueName(rv1, p) = a \o <<ToString(p)>>
  BY <1>1, <1>2, NameEnds
<1>4. PICK b : ListOf(b) /\ UniqueName(rv1, q) = b \o <<ToString(q)>>
  BY <1>1, <1>2, NameEnds
<1>5. QED
  BY <1>3, <1>4, SameEnd

(* A permission lifted to the cluster keeps its account and its rules. *)
LEMMA LiftedParts ==
  ASSUME NEW p, Permission(p)
  PROVE  Lifted(p).sa = p.sa /\ Lifted(p).rules = p.rules \cup {"watch-namespaces"}
  BY DEF Permission, Lifted

(* The rules granted to an account are those of the permissions made for it. *)
LEMMA GrantedRules ==
  ASSUME NEW rv1, NEW o, BundleLists(rv1), Permissions(rv1), ListOf(o.targets), CheckObjectSupport(rv1),
         \A r \in Elems(rv1.others) : r.kind # "Role",
         AllNS \notin Elems(o.targets) \/ IsAllNamespaces(o), NEW sa, NEW ns
  PROVE  \A y : y \in Granted(ResourceGenerators(rv1, o), <<o.installNS, sa>>, ns) <=>
           \/ \E p \in Elems(ClusterWide(rv1, o)) : saNameOrDefault(p.sa) = sa /\ y \in p.rules
           \/ /\ ~IsAllNamespaces(o) /\ ns \in Elems(o.targets)
              /\ \E p \in Elems(rv1.permissions) : saNameOrDefault(p.sa) = sa /\ y \in p.rules
<1> DEFINE objects == ResourceGenerators(rv1, o)
           subject == <<o.installNS, sa>>
           all == Elems(rv1.permissions) \cup Elems(ClusterWide(rv1, o))
           Grants(x) == \E b \in OfKind(objects, BindingKind(x.kind)) :
                          b.ns = x.ns /\ b.body.role = x.name /\ b.body.subject = subject /\ x.ns \in {AllNS, ns}
<1>1. \A y : y \in Granted(objects, subject, ns) <=>
        \E x : /\ x \in OfKind(objects, "Role") \/ x \in OfKind(objects, "ClusterRole")
               /\ Grants(x) /\ y \in x.body.rules
  BY DEF Granted
<1>2. \A k, p, m : LET r == RoleOf(k, o, rv1, p, m)  b == RoleBindingOf(k, o, rv1, p, m) IN
        /\ r.kind = k /\ r.ns = m /\ r.name = UniqueName(rv1, p) /\ r.body.rules = p.rules
        /\ b.ns = m /\ b.body.role = UniqueName(rv1, p) /\ b.body.subject = <<o.installNS, saNameOrDefault(p.sa)>>
  BY ResourceParts DEF RoleOf, RoleBindingOf
<1>3. \A p, q \in all : UniqueName(rv1, p) = UniqueName(rv1, q) => p = q
  <2> DEFINE ps == Elems(rv1.permissions) \cup Elems(rv1.clusterPermissions)
             some == ps \cup {Lifted(p) : p \in ps}
  <2>1. ListOf(rv1.name) /\ (\A p \in ps : Permission(p)) /\ \A p, q \in some : ToString(p) = ToString(q) => p = q
    BY DEF Permissions
  <2>2. \A p : p \in Elems(ClusterWide(rv1, o)) =>
                  \/ p \in Elems(rv1.clusterPermissions)
                  \/ \E q \in Elems(rv1.permissions) : p = Lifted(q)
    BY ClusterPermissions DEF BundleLists
  <2>3. all \subseteq some
    BY <2>2
  <2>4. \A p \in some : ListOf(p.sa)
    BY <2>1, LiftedParts DEF Permission
  <2> HIDE DEF some, all
  <2>5. QED
    BY <2>1, <2>3, <2>4, UniqueNames
<1>4. \A p : <<o.installNS, saNameOrDefault(p.sa)>> = subject <=> saNameOrDefault(p.sa) = sa
  OBVIOUS
<1>5. BindingKind("Role") = "RoleBinding" /\ BindingKind("ClusterRole") = "ClusterRoleBinding"
  BY DEF BindingKind
<1>6. /\ \A x : x \in OfKind(objects, "Role") <=>
              /\ ~IsAllNamespaces(o)
              /\ \E t \in Elems(o.targets) : \E p \in Elems(rv1.permissions) : x = RoleOf("Role", o, rv1, p, t)
      /\ \A x : x \in OfKind(objects, "RoleBinding") <=>
              /\ ~IsAllNamespaces(o)
              /\ \E t \in Elems(o.targets) : \E p \in Elems(rv1.permissions) : x = RoleBindingOf("Role", o, rv1, p, t)
      /\ \A x : x \in OfKind(objects, "ClusterRole") <=>
              \E p \in Elems(ClusterWide(rv1, o)) : x = RoleOf("ClusterRole", o, rv1, p, AllNS)
      /\ \A x : x \in OfKind(objects, "ClusterRoleBinding") <=>
              \E p \in Elems(ClusterWide(rv1, o)) : x = RoleBindingOf("ClusterRole", o, rv1, p, AllNS)
  BY KindsMade
<1> HIDE DEF objects, subject
<1>7. \A p \in Elems(ClusterWide(rv1, o)) : Grants(RoleOf("ClusterRole", o, rv1, p, AllNS)) <=> saNameOrDefault(p.sa) = sa
  <2>1. SUFFICES ASSUME NEW p \in Elems(ClusterWide(rv1, o))
                 PROVE  Grants(RoleOf("ClusterRole", o, rv1, p, AllNS)) <=> saNameOrDefault(p.sa) = sa
    OBVIOUS
  <2> DEFINE x == RoleOf("ClusterRole", o, rv1, p, AllNS)
  <2>2. x.kind = "ClusterRole" /\ x.ns = AllNS /\ x.name = UniqueName(rv1, p)
    BY <1>2
  <2> HIDE DEF x
  <2>3. Grants(x) <=> \E q \in Elems(ClusterWide(rv1, o)) :
          UniqueName(rv1, q) = UniqueName(rv1, p) /\ <<o.installNS, saNameOrDefault(q.sa)>> = subject
    <3>1. BindingKind(x.kind) = "ClusterRoleBinding"
      BY <2>2, <1>5
    <3>2. Grants(x) <=> \E b \in OfKind(objects, "ClusterRoleBinding") :
                          b.ns = AllNS /\ b.body.role = UniqueName(rv1, p) /\ b.body.subject = subject
      BY <2>2, <3>1
    <3> DEFINE B(q) == RoleBindingOf("ClusterRole", o, rv1, q, AllNS)
    <3>3. \A q : /\ B(q).ns = AllNS /\ B(q).body.role = UniqueName(rv1, q)
                /\ B(q).body.subject = <<o.installNS, saNameOrDefault(q.sa)>>
      BY <1>2
    <3>4. \A b : b \in OfKind(objects, "ClusterRoleBinding") <=> \E q \in Elems(ClusterWide(rv1, o)) : b = B(q)
      BY <1>6
    <3> HIDE DEF Grants, B
    <3>5. ASSUME Grants(x)
          PROVE  \E q \in Elems(ClusterWide(rv1, o)) :
                   UniqueName(rv1, q) = UniqueName(rv1, p) /\ <<o.installNS, saNameOrDefault(q.sa)>> = subject
      <4>1. PICK b \in OfKind(objects, "ClusterRoleBinding") : b.body.role = UniqueName(rv1, p) /\ b.body.subject = subject
        BY <3>5, <3>2
      <4>2. PICK q \in Elems(ClusterWide(rv1, o)) : b = B(q)
        BY <4>1, <3>4
      <4>3. QED
        BY <4>1, <4>2, <3>3
    <3>6. ASSUME NEW q \in Elems(ClusterWide(rv1, o)), UniqueName(rv1, q) = UniqueName(rv1, p),
                 <<o.installNS, saNameOrDefault(q.sa)>> = subject
          PROVE  Grants(x)
      <4>1. B(q) \in OfKind(objects, "ClusterRoleBinding")
        BY <3>4
      <4>2. B(q).ns = AllNS /\ B(q).body.role = UniqueName(rv1, p) /\ B(q).body.subject = subject
        BY <3>3, <3>6
      <4>3. QED
        BY <4>1, <4>2, <3>2
    <3>7. QED
      BY <3>5, <3>6
  <2>4. QED
    BY <2>3, <1>3, <1>4 DEF x
<1>8. ASSUME NEW t \in Elems(o.targets), NEW p \in Elems(rv1.permissions), ~IsAllNamespaces(o)
      PROVE  Grants(RoleOf("Role", o, rv1, p, t)) <=> saNameOrDefault(p.sa) = sa /\ t = ns
  <2> DEFINE x == RoleOf("Role", o, rv1, p, t)
  <2>2. x.kind = "Role" /\ x.ns = t /\ x.name = UniqueName(rv1, p) /\ t # AllNS
    BY <1>2, <1>8
  <2> HIDE DEF x
  <2>3. Grants(x) <=> \E q \in Elems(rv1.permissions) :
          UniqueName(rv1, q) = UniqueName(rv1, p) /\ <<o.installNS, saNameOrDefault(q.sa)>> = subject /\ t \in {AllNS, ns}
    <3>1. BindingKind(x.kind) = "RoleBinding"
      BY <2>2, <1>5
    <3>2. Grants(x) <=> \E b \in OfKind(objects, "RoleBinding") :
                          /\ b.ns = t /\ b.body.role = UniqueName(rv1, p) /\ b.body.subject = subject
                          /\ t \in {AllNS, ns}
      BY <2>2, <3>1
    <3> DEFINE B(q, m) == RoleBindingOf("Role", o, rv1, q, m)
    <3>3. \A q, m : /\ B(q, m).ns = m /\ B(q, m).body.role = UniqueName(rv1, q)
                   /\ B(q, m).body.subject = <<o.installNS, saNameOrDefault(q.sa)>>
      BY <1>2
    <3>4. \A b : b \in OfKind(objects, "RoleBinding") <=>
                  \E m \in Elems(o.targets) : \E q \in Elems(rv1.permissions) : b = B(q, m)
      BY <1>6, <1>8
    <3> HIDE DEF Grants, B
    <3>5. ASSUME Grants(x)
          PROVE  \E q \in Elems(rv1.permissions) :
                   /\ UniqueName(rv1, q) = UniqueName(rv1, p) /\ <<o.installNS, saNameOrDefault(q.sa)>> = subject
                   /\ t \in {AllNS, ns}
      <4>1. PICK b \in OfKind(objects, "RoleBinding") :
              b.body.role = UniqueName(rv1, p) /\ b.body.subject = subject /\ t \in {AllNS, ns}
        BY <3>5, <3>2
      <4>2. PICK m \in Elems(o.targets), q \in Elems(rv1.permissions) : b = B(q, m)
        BY <4>1, <3>4
      <4>3. QED
        BY <4>1, <4>2, <3>3
    <3>6. ASSUME NEW q \in Elems(rv1.permissions), UniqueName(rv1, q) = UniqueName(rv1, p),
                 <<o.installNS, saNameOrDefault(q.sa)>> = subject, t \in {AllNS, ns}
          PROVE  Grants(x)
      <4>1. B(q, t) \in OfKind(objects, "RoleBinding")
        BY <3>4, <1>8
      <4>2. B(q, t).ns = t /\ B(q, t).body.role = UniqueName(rv1, p) /\ B(q, t).body.subject = subject
        BY <3>3, <3>6
      <4>3. QED
        BY <4>1, <4>2, <3>2, <3>6
    <3>7. QED
      BY <3>5, <3>6
  <2>4. QED
    BY <2>2, <2>3, <1>3, <1>4 DEF x
<1> HIDE DEF Grants
<1>9. \A y : (\E x \in OfKind(objects, "ClusterRole") : Grants(x) /\ y \in x.body.rules) <=>
        \E p \in Elems(ClusterWide(rv1, o)) : saNameOrDefault(p.sa) = sa /\ y \in p.rules
  BY <1>2, <1>6, <1>7
<1>10. \A y : (\E x \in OfKind(objects, "Role") : Grants(x) /\ y \in x.body.rules) <=>
        /\ ~IsAllNamespaces(o) /\ ns \in Elems(o.targets)
        /\ \E p \in Elems(rv1.permissions) : saNameOrDefault(p.sa) = sa /\ y \in p.rules
  BY <1>2, <1>6, <1>8
<1>11. QED
  BY <1>1, <1>9, <1>10 DEF objects, subject

(* The grants of a rendered bundle. *)
LEMMA GrantsMade ==
  ASSUME NEW rv1, NEW o, BundleLists(rv1), Permissions(rv1), ListOf(o.targets), CheckObjectSupport(rv1),
         \A r \in Elems(rv1.others) : r.kind # "Role",
         AllNS \notin Elems(o.targets) \/ IsAllNamespaces(o), NEW ext, ext.ns = o.installNS, ext.ns # AllNS,
         NEW r, r.targets = o.targets, r.objects = ResourceGenerators(rv1, o)
  PROVE  GrantsExact(rv1, ext, r)
<1> DEFINE ps == Elems(rv1.permissions)
           cs == Elems(rv1.clusterPermissions)
<1>1. SUFFICES ASSUME NEW p \in ps \cup cs, NEW ns, ns # AllNS
               PROVE  LET sa == saNameOrDefault(p.sa)
                          watched == ns \in Elems(r.targets) \/ r.targets = <<AllNS>>
                      IN  /\ Granted(r.objects, <<ext.ns, sa>>, ns) \ {"watch-namespaces"} = Declared(rv1, sa, watched)
                          /\ sa = <<"default">> \/ \E s \in OfKind(r.objects, "ServiceAccount") : s.name = sa /\ s.ns = ext.ns
  <2>1. Elems(rv1.permissions \o rv1.clusterPermissions) = ps \cup cs
    BY Concatenated DEF BundleLists
  <2>2. \A ns \in {ext.ns, "other", "third"} : ns # AllNS
    BY DEF AllNS
  <2>3. QED
    BY <1>1, <2>1, <2>2 DEF GrantsExact
<1> DEFINE sa == saNameOrDefault(p.sa)
           watched == ns \in Elems(r.targets) \/ r.targets = <<AllNS>>
           Of(q) == saNameOrDefault(q.sa) = sa
<1>2. \A q \in ps \cup cs : Permission(q)
  BY DEF Permissions
<1>3. \A y : y \in Declared(rv1, sa, watched) <=>
               \/ \E q \in cs : Of(q) /\ y \in q.rules
               \/ watched /\ \E q \in ps : Of(q) /\ y \in q.rules
  <2> DEFINE E == Elems(rv1.clusterPermissions \o (IF watched THEN rv1.permissions ELSE <<>>))
  <2>1. E = cs \cup (IF watched THEN ps ELSE {})
    <3>1. CASE watched
      BY <3>1, Concatenated DEF BundleLists
    <3>2. CASE ~watched
      <4>1. ListOf(<<>>) /\ Elems(<<>>) = {}
        BY ShortLists
      <4>2. Elems(rv1.clusterPermissions \o <<>>) = cs \cup {}
        BY <4>1, Concatenated DEF BundleLists
      <4>3. QED
        BY <3>2, <4>2
    <3>3. QED
      BY <3>1, <3>2
  <2>2. \A y : y \in Declared(rv1, sa, watched) <=> \E q \in E : Of(q) /\ y \in q.rules
    BY DEF Declared
  <2> HIDE DEF E, Of, watched
  <2>3. QED
    BY <2>1, <2>2
<1>4. \A y : y \in Granted(r.objects, <<ext.ns, sa>>, ns) <=>
           \/ \E q \in Elems(ClusterWide(rv1, o)) : Of(q) /\ y \in q.rules
           \/ /\ ~IsAllNamespaces(o) /\ ns \in Elems(o.targets)
              /\ \E q \in ps : Of(q) /\ y \in q.rules
  BY GrantedRules
<1>5. \A q : q \in Elems(ClusterWide(rv1, o)) <=> q \in cs \/ (IsAllNamespaces(o) /\ \E m \in ps : q = Lifted(m))
  BY ClusterPermissions DEF BundleLists
<1>6. \A q \in ps \cup cs : /\ "watch-namespaces" \notin q.rules /\ (Of(Lifted(q)) <=> Of(q))
                           /\ Lifted(q).rules = q.rules \cup {"watch-namespaces"}
  BY <1>2, LiftedParts DEF Permission
<1>7. watched <=> ns \in Elems(o.targets) \/ IsAllNamespaces(o)
  BY DEF IsAllNamespaces
<1>8. IsAllNamespaces(o) => ns \notin Elems(o.targets)
  BY <1>1, ShortLists DEF IsAllNamespaces
<1> DEFINE G == Granted(r.objects, <<ext.ns, sa>>, ns)
           D == Declared(rv1, sa, watched)
<1> HIDE DEF G, D, Of, watched, ps, cs
<1>9. \A y : y \in D <=> y \in G /\ y # "watch-namespaces"
  <2>1. ASSUME NEW y PROVE y \in D => y \in G /\ y # "watch-namespaces"
    BY <1>3, <1>4, <1>5, <1>6, <1>7 DEF D, G
  <2>2. ASSUME NEW y, y \in G, y # "watch-namespaces" PROVE y \in D
    BY <2>2, <1>3, <1>4, <1>5, <1>6, <1>7 DEF D, G
  <2>3. QED
    BY <2>1, <2>2
<1>10. G \ {"watch-namespaces"} = D
  BY <1>9
<1>11. sa = <<"default">> \/ \E s \in OfKind(r.objects, "ServiceAccount") : s.name = sa /\ s.ns = ext.ns
  <2>1. SUFFICES ASSUME sa # <<"default">>
                 PROVE  \E s \in OfKind(r.objects, "ServiceAccount") : s.name = sa /\ s.ns = ext.ns
    OBVIOUS
  <2> DEFINE s == Resource("ServiceAccount", o.installNS, sa, RenderNone)
  <2>2. s \in Elems(BundleCSVServiceAccountGenerator(rv1, o))
    BY <2>1, Accounts DEF BundleLists, ps, cs
  <2>3. s \in OfKind(r.objects, "ServiceAccount")
    BY <2>2, KindsMade
  <2>4. s.name = sa /\ s.ns = ext.ns
    BY ResourceParts
  <2>5. QED
    BY <2>3, <2>4
<1>12. QED
  BY <1>10, <1>11 DEF G, D, watched

(* The last place of a name exists, and there is only one. *)
LEMMA LastPlace ==
  ASSUME NEW s, ListOf(s), NEW n \in NamesOf(s)
  PROVE  /\ LastAt(s, n) \in DOMAIN s /\ s[LastAt(s, n)].name = n
         /\ \A j \in DOMAIN s : s[j].name = n => j <= LastAt(s, n)
         /\ Effective(s, n) \in Elems(s)
<1>1. Len(s) \in Nat /\ DOMAIN s = 1..Len(s)
  BY ListEntries
<1> DEFINE T == {k \in Nat : k <= Len(s) /\ Len(s) - k \in DOMAIN s /\ s[Len(s) - k].name = n}
<1>2. PICK i \in DOMAIN s : s[i].name = n
  BY DEF NamesOf
<1>3. T # {}
  <2>1. Len(s) - i \in Nat /\ Len(s) - i <= Len(s) /\ Len(s) - (Len(s) - i) = i
    BY <1>1, <1>2
  <2>2. Len(s) - i \in T
    BY <2>1, <1>2
  <2>3. QED
    BY <2>2
<1>4. T \in SUBSET Nat
  OBVIOUS
<1>5. \A k : k \in T <=> k \in Nat /\ k <= Len(s) /\ Len(s) - k \in DOMAIN s /\ s[Len(s) - k].name = n
  OBVIOUS
<1> HIDE DEF T
<1>6. PICK k \in T : \A m \in T : k <= m
  BY <1>3, <1>4, NatMin
<1>7. Len(s) - k \in DOMAIN s /\ s[Len(s) - k].name = n
  BY <1>5, <1>6
<1>8. \A j \in DOMAIN s : s[j].name = n => j <= Len(s) - k
  <2>1. SUFFICES ASSUME NEW j \in DOMAIN s, s[j].name = n PROVE j <= Len(s) - k
    OBVIOUS
  <2>2. Len(s) - j \in Nat /\ Len(s) - j <= Len(s) /\ Len(s) - (Len(s) - j) = j
    BY <1>1, <2>1
  <2>3. Len(s) - j \in T
    BY <2>1, <2>2, <1>5
  <2>4. k <= Len(s) - j
    BY <2>3, <1>6
  <2>5. QED
    BY <2>4, <1>1, <1>5, <1>6, <2>1
<1>9. /\ LastAt(s, n) \in DOMAIN s /\ s[LastAt(s, n)].name = n
      /\ \A j \in DOMAIN s : s[j].name = n => j <= LastAt(s, n)
  <2>1. \E x \in DOMAIN s : s[x].name = n /\ \A j \in DOMAIN s : s[j].name = n => j <= x
    BY <1>7, <1>8
  <2>2. QED
    BY <2>1, Zenon DEF LastAt
<1>10. QED
  BY <1>9 DEF Effective, Elems

(* The last entry of a name is the one in effect. *)
LEMMA LastPlaceIs ==
  ASSUME NEW s, ListOf(s), NEW i \in DOMAIN s, \A j \in DOMAIN s : s[j].name = s[i].name => j <= i
  PROVE  s[i].name \in NamesOf(s) /\ LastAt(s, s[i].name) = i /\ Effective(s, s[i].name) = s[i]
<1>1. s[i].name \in NamesOf(s)
  BY DEF NamesOf
<1>2. DOMAIN s = 1..Len(s) /\ Len(s) \in Nat
  BY ListEntries
<1>3. LastAt(s, s[i].name) = i
  BY <1>1, <1>2, LastPlace
<1>4. QED
  BY <1>1, <1>3 DEF Effective

(* In two sequences one behind the other, the second decides. *)
LEMMA EffectiveBehind ==
  ASSUME NEW a, NEW b, ListOf(a), ListOf(b)
  PROVE  /\ NamesOf(a \o b) = NamesOf(a) \cup NamesOf(b)
         /\ \A n \in NamesOf(b) : Effective(a \o b, n) = Effective(b, n)
         /\ \A n \in NamesOf(a) \ NamesOf(b) : Effective(a \o b, n) = Effective(a, n)
<1> DEFINE c == a \o b
<1>1. /\ Len(a) \in Nat /\ Len(b) \in Nat /\ DOMAIN a = 1..Len(a) /\ DOMAIN b = 1..Len(b)
      /\ ListOf(c) /\ Len(c) = Len(a) + Len(b)
      /\ \A i \in 1..(Len(a) + Len(b)) : c[i] = IF i <= Len(a) THEN a[i] ELSE b[i - Len(a)]
  BY Concatenated, ListEntries
<1>2. DOMAIN c = 1..(Len(a) + Len(b))
  BY <1>1, ListEntries
<1> HIDE DEF c
<1>3. ASSUME NEW i \in DOMAIN b PROVE Len(a) + i \in DOMAIN c /\ c[Len(a) + i] = b[i]
  BY <1>1, <1>2
<1>4. ASSUME NEW i \in DOMAIN a PROVE i \in DOMAIN c /\ c[i] = a[i]
  BY <1>1, <1>2
<1>5. ASSUME NEW i \in DOMAIN c, i \notin DOMAIN a PROVE i - Len(a) \in DOMAIN b /\ c[i] = b[i - Len(a)]
  BY <1>1, <1>2, <1>5
<1>6. NamesOf(c) = NamesOf(a) \cup NamesOf(b)
  <2>1. ASSUME NEW i \in DOMAIN c PROVE c[i].name \in NamesOf(a) \cup NamesOf(b)
    BY <1>4, <1>5 DEF NamesOf
  <2>2. ASSUME NEW i \in DOMAIN a PROVE a[i].name \in NamesOf(c)
    BY <1>4 DEF NamesOf
  <2>3. ASSUME NEW i \in DOMAIN b PROVE b[i].name \in NamesOf(c)
    BY <1>3 DEF NamesOf
  <2>4. QED
    BY <2>1, <2>2, <2>3 DEF NamesOf
<1>7. ASSUME NEW n \in NamesOf(b) PROVE Effective(c, n) = Effective(b, n)
  <2> DEFINE k == LastAt(b, n)
  <2>1. k \in DOMAIN b /\ b[k].name = n /\ \A j \in DOMAIN b : b[j].name = n => j <= k
    BY LastPlace
  <2> HIDE DEF k
  <2>2. Len(a) + k \in DOMAIN c /\ c[Len(a) + k] = b[k]
    BY <1>3, <2>1
  <2>3. ASSUME NEW j \in DOMAIN c, c[j].name = n PROVE j <= Len(a) + k
    <3>1. CASE j \in DOMAIN a
      BY <3>1, <1>1, <2>1
    <3>2. CASE j \notin DOMAIN a
      <4>1. j - Len(a) \in DOMAIN b /\ b[j - Len(a)].name = n
        BY <3>2, <1>5, <2>3
      <4>2. j - Len(a) <= k
        BY <4>1, <2>1
      <4>3. QED
        BY <4>2, <1>1, <1>2, <2>1
    <3>3. QED
      BY <3>1, <3>2
  <2>4. Effective(c, c[Len(a) + k].name) = c[Len(a) + k]
    BY <1>1, <2>1, <2>2, <2>3, LastPlaceIs
  <2>5. QED
    BY <2>1, <2>2, <2>4 DEF Effective, k
<1>8. ASSUME NEW n \in NamesOf(a), n \notin NamesOf(b) PROVE Effective(c, n) = Effective(a, n)
  <2> DEFINE k == LastAt(a, n)
  <2>1. k \in DOMAIN a /\ a[k].name = n /\ \A j \in DOMAIN a : a[j].name = n => j <= k
    BY LastPlace
  <2> HIDE DEF k
  <2>2. k \in DOMAIN c /\ c[k] = a[k]
    BY <1>4, <2>1
  <2>3. ASSUME NEW j \in DOMAIN c, c[j].name = n PROVE j <= k
    <3>1. j \in DOMAIN a
      BY <1>5, <1>8, <2>3 DEF NamesOf
    <3>2. QED
      BY <3>1, <1>4, <2>1, <2>3
  <2>4. Effective(c, c[k].name) = c[k]
    BY <1>1, <2>1, <2>2, <2>3, LastPlaceIs
  <2>5. QED
    BY <2>1, <2>2, <2>4 DEF Effective, k
<1>9. QED
  BY <1>6, <1>7, <1>8 DEF c

(* A selection that keeps all entries of a name keeps the last of them. *)
LEMMA EffectivePicked ==
  ASSUME NEW s, ListOf(s), NEW at, at \subseteq DOMAIN s
  PROVE  /\ NamesOf(Pick(s, at)) = {s[i].name : i \in at}
         /\ \A n \in NamesOf(s) : (\A i \in DOMAIN s : s[i].name = n => i \in at)
              => Effective(Pick(s, at), n) = Effective(s, n)
<1> DEFINE p == Pick(s, at)
<1>1. ListOf(p) /\ \A x : x \in Elems(p) <=> \E i \in at : s[i] = x
  BY Picked
<1>2. PICK f : /\ DOMAIN f = DOMAIN p
               /\ \A i \in DOMAIN f : f[i] \in at /\ p[i] = s[f[i]]
               /\ \A i, j \in DOMAIN f : i < j => f[i] < f[j]
               /\ \A k \in at : \E i \in DOMAIN f : f[i] = k
  BY Picked
<1> HIDE DEF p
<1>3. NamesOf(p) = {s[i].name : i \in at}
  BY <1>2 DEF NamesOf
<1>4. Len(s) \in Nat /\ DOMAIN s = 1..Len(s) /\ Len(p) \in Nat /\ DOMAIN p = 1..Len(p)
  BY <1>1, ListEntries
<1>5. ASSUME NEW n \in NamesOf(s), \A i \in DOMAIN s : s[i].name = n => i \in at
      PROVE  Effective(p, n) = Effective(s, n)
  <2> DEFINE k == LastAt(s, n)
  <2>1. k \in DOMAIN s /\ s[k].name = n /\ \A j \in DOMAIN s : s[j].name = n => j <= k
    BY LastPlace
  <2> HIDE DEF k
  <2>2. PICK m \in DOMAIN p : f[m] = k
    BY <1>2, <1>5, <2>1
  <2>3. ASSUME NEW j \in DOMAIN p, p[j].name = n PROVE j <= m
    <3>1. f[j] \in DOMAIN s /\ s[f[j]].name = n
      BY <1>2, <2>3
    <3>2. f[j] <= f[m]
      BY <3>1, <2>1, <2>2
    <3>3. ~(m < j)
      BY <3>1, <3>2, <1>2, <1>4, <2>1, <2>2
    <3>4. QED
      BY <3>3, <1>4
  <2>4. p[m] = s[k]
    BY <1>2, <2>2
  <2>5. Effective(p, p[m].name) = p[m]
    BY <1>1, <2>1, <2>3, <2>4, LastPlaceIs
  <2>6. QED
    BY <2>1, <2>4, <2>5 DEF Effective, k
<1>6. QED
  BY <1>3, <1>5 DEF p

(* What overriding by name gives: the names of both, the value of the entries
   where they have one. *)
LEMMA Overridden ==
  ASSUME NEW old, NEW new, ListOf(old), ListOf(new)
  PROVE  LET r == OverrideByName(old, new)
         IN  /\ ListOf(r) /\ Elems(r) \subseteq Elems(old) \cup Elems(new)
             /\ NamesOf(r) = NamesOf(old) \cup NamesOf(new)
             /\ \A n \in NamesOf(new) : Effective(r, n) = Effective(new, n)
             /\ \A n \in NamesOf(old) \ NamesOf(new) : Effective(r, n) = Effective(old, n)
<1> DEFINE a == [i \in DOMAIN old |->
                   IF old[i].name \in NamesOf(new) /\ i = LastAt(old, old[i].name)
                   THEN new[LastAt(new, old[i].name)] ELSE old[i]]
           at == {i \in DOMAIN new : new[i].name \notin NamesOf(old)}
           b == Pick(new, at)
           r == OverrideByName(old, new)
<1>1. r = a \o b
  BY DEF OverrideByName
<1>2. at \subseteq DOMAIN new /\ \A i : i \in at <=> i \in DOMAIN new /\ new[i].name \notin NamesOf(old)
  OBVIOUS
<1> HIDE DEF at
<1>3. ListOf(b) /\ \A x : x \in Elems(b) <=> \E i \in at : new[i] = x
  BY <1>2, Picked
<1>4. /\ NamesOf(b) = {new[i].name : i \in at}
      /\ \A n \in NamesOf(new) : (\A i \in DOMAIN new : new[i].name = n => i \in at) => Effective(b, n) = Effective(new, n)
  BY <1>2, EffectivePicked
<1>5. DOMAIN a = DOMAIN old /\ a = [i \in DOMAIN a |-> a[i]]
  OBVIOUS
<1>6. \A i \in DOMAIN old : a[i] = IF old[i].name \in NamesOf(new) /\ i = LastAt(old, old[i].name)
                                   THEN new[LastAt(new, old[i].name)] ELSE old[i]
  OBVIOUS
<1> HIDE DEF a, b, r
<1>7. Len(old) \in Nat /\ DOMAIN old = 1..Len(old)
  BY ListEntries
<1>8. ListOf(a)
  BY <1>5, <1>7, PlacesList
<1>9. \A n \in NamesOf(new) : new[LastAt(new, n)].name = n /\ Effective(new, n) = new[LastAt(new, n)] /\ Effective(new, n) \in Elems(new)
  BY LastPlace DEF Effective
<1>10. \A i \in DOMAIN old : a[i].name = old[i].name
  BY <1>6, <1>9
<1>11. NamesOf(a) = NamesOf(old)
  BY <1>5, <1>10 DEF NamesOf
<1>12. NamesOf(b) = NamesOf(new) \ NamesOf(old)
  BY <1>2, <1>4 DEF NamesOf
<1>13. ListOf(r) /\ Elems(r) = Elems(a) \cup Elems(b)
  BY <1>1, <1>3, <1>8, Concatenated
<1>14. /\ NamesOf(r) = NamesOf(a) \cup NamesOf(b)
       /\ \A n \in NamesOf(b) : Effective(r, n) = Effective(b, n)
       /\ \A n \in NamesOf(a) \ NamesOf(b) : Effective(r, n) = Effective(a, n)
  BY <1>1, <1>3, <1>8, EffectiveBehind
<1>15. ASSUME NEW n \in NamesOf(old)
       PROVE  Effective(r, n) = IF n \in NamesOf(new) THEN Effective(new, n) ELSE Effective(old, n)
  <2> DEFINE k == LastAt(old, n)
  <2>1. k \in DOMAIN old /\ old[k].name = n /\ \A j \in DOMAIN old : old[j].name = n => j <= k
    BY LastPlace
  <2>2. Effective(old, n) = old[k]
    BY DEF Effective
  <2>3. a[k] = IF n \in NamesOf(new) THEN new[LastAt(new, n)] ELSE old[k]
    BY <2>1, <1>6
  <2> HIDE DEF k
  <2>4. Effective(a, a[k].name) = a[k]
    BY <2>1, <1>5, <1>8, <1>10, LastPlaceIs
  <2>5. Effective(r, n) = Effective(a, n)
    BY <1>11, <1>12, <1>14
  <2>6. QED
    BY <2>1, <2>2, <2>3, <2>4, <2>5, <1>9, <1>10
<1>16. ASSUME NEW n \in NamesOf(new), n \notin NamesOf(old) PROVE Effective(r, n) = Effective(new, n)
  BY <1>16, <1>2, <1>4, <1>12, <1>14
<1>17. Elems(r) \subseteq Elems(old) \cup Elems(new)
  <2>1. \A i \in DOMAIN old : a[i] \in Elems(old) \cup Elems(new)
    BY <1>6, <1>9 DEF Elems
  <2>2. Elems(a) \subseteq Elems(old) \cup Elems(new)
    BY <2>1, <1>5 DEF Elems
  <2>3. Elems(b) \subseteq Elems(new)
    BY <1>2, <1>3 DEF Elems
  <2>4. QED
    BY <2>2, <2>3, <1>13
<1>18. QED
  BY <1>11, <1>12, <1>13, <1>14, <1>15, <1>16, <1>17 DEF r

(* What a deployment, its containers and a configuration of it are made of. *)
Container(c) ==
  {"mounts", "env", "envFrom", "resources"} \subseteq DOMAIN c /\ ListOf(c.mounts) /\ ListOf(c.env)
Deployment(d) ==
  /\ {"name", "volumes", "containers", "tolerations", "nodeSelector", "affinity", "annotations"} \subseteq DOMAIN d
  /\ ListOf(d.volumes) /\ ListOf(d.annotations) /\ ListOf(d.containers)
  /\ \A i \in DOMAIN d.containers : Container(d.containers[i])
DeploymentConfig(cfg) ==
  cfg # RenderNone => ListOf(cfg.env) /\ ListOf(cfg.mounts) /\ ListOf(cfg.volumes) /\ ListOf(cfg.annotations)

(* The bundle's own annotations of a deployment stay, but for the target namespaces. *)
LEMMA AnnotatedParts ==
  ASSUME NEW rv1, NEW o, NEW d, ListOf(rv1.annotations), Deployment(d), ~Duplicates(d.annotations)
  PROVE  LET a == AnnotatedOf(rv1, o, d)
         IN  /\ Deployment(a)
             /\ a.name = d.name /\ a.volumes = d.volumes /\ a.containers = d.containers
             /\ ListOf(a.annotations)
             /\ \A x \in Elems(d.annotations) : x.name # "olm.targetNamespaces" =>
                  x.name \in NamesOf(a.annotations) /\ Effective(a.annotations, x.name) = x
<1> DEFINE a == AnnotatedOf(rv1, o, d)
           target == [name |-> "olm.targetNamespaces", value |-> o.targets]
           first == OverrideByName(rv1.annotations, d.annotations)
<1>1. /\ DOMAIN a = DOMAIN d
      /\ a.name = d.name /\ a.volumes = d.volumes /\ a.containers = d.containers
      /\ a.annotations = OverrideByName(first, <<target>>)
  BY DEF AnnotatedOf, Deployment
<1>2. ListOf(d.annotations) /\ ~Duplicates(d.annotations)
  BY DEF Deployment
<1>3. /\ ListOf(first) /\ NamesOf(first) = NamesOf(rv1.annotations) \cup NamesOf(d.annotations)
      /\ \A n \in NamesOf(d.annotations) : Effective(first, n) = Effective(d.annotations, n)
  BY <1>2, Overridden
<1>4. ListOf(<<target>>) /\ NamesOf(<<target>>) = {"olm.targetNamespaces"}
  <2>1. ListOf(<<target>>) /\ DOMAIN <<target>> = {1} /\ <<target>>[1] = target /\ target.name = "olm.targetNamespaces"
    BY ShortLists
  <2> HIDE DEF target
  <2>2. QED
    BY <2>1 DEF NamesOf
<1> HIDE DEF first, target
<1>5. /\ ListOf(a.annotations) /\ NamesOf(a.annotations) = NamesOf(first) \cup {"olm.targetNamespaces"}
      /\ \A n \in NamesOf(first) \ {"olm.targetNamespaces"} : Effective(a.annotations, n) = Effective(first, n)
  BY <1>1, <1>3, <1>4, Overridden
<1>6. ASSUME NEW x \in Elems(d.annotations), x.name # "olm.targetNamespaces"
      PROVE  x.name \in NamesOf(a.annotations) /\ Effective(a.annotations, x.name) = x
  <2>1. PICK i \in DOMAIN d.annotations : d.annotations[i] = x
    BY <1>2, ListEntries
  <2>2. DOMAIN d.annotations = 1..Len(d.annotations) /\ Len(d.annotations) \in Nat
    BY <1>2, ListEntries
  <2>3. \A j \in DOMAIN d.annotations : d.annotations[j].name = x.name => j = i
    BY <2>1, <1>2 DEF Duplicates
  <2>4. \A j \in DOMAIN d.annotations : d.annotations[j].name = x.name => j <= i
    BY <2>2, <2>3
  <2>5. x.name \in NamesOf(d.annotations) /\ Effective(d.annotations, x.name) = x
    BY <2>1, <2>4, <1>2, LastPlaceIs
  <2>6. QED
    BY <2>5, <1>3, <1>5, <1>6
<1>7. Deployment(a)
  BY <1>1, <1>5 DEF Deployment
<1>8. QED
  BY <1>1, <1>5, <1>6, <1>7

(* The volumes and mounts of the certificates. *)
RemovedNames(d) ==
  LET paths == {c.path : c \in Elems(certVolumeConfigs)}
  IN  NamesOf(certVolumeConfigs)
      \cup {m.name : m \in {x \in UNION {Elems(c.mounts) : c \in Elems(d.containers)} : x.path \in paths}}
KeptEntries(d, s) == Pick(s, {i \in DOMAIN s : s[i].name \notin RemovedNames(d)})
CertVolumes(secret) == [i \in DOMAIN certVolumeConfigs |-> [name |-> certVolumeConfigs[i].name, source |-> secret]]

(* The volumes of the certificates. *)
LEMMA CertVolumesAre ==
  ASSUME NEW secret
  PROVE  /\ ListOf(certVolumeConfigs)
         /\ Elems(certVolumeConfigs) = {[name |-> "webhook-cert", path |-> "/webhook"],
                                        [name |-> "apiservice-cert", path |-> "/apiservice"]}
         /\ ListOf(CertVolumes(secret)) /\ "webhook-cert" \in NamesOf(CertVolumes(secret))
         /\ Effective(CertVolumes(secret), "webhook-cert") = [name |-> "webhook-cert", source |-> secret]
<1> DEFINE a == [name |-> "webhook-cert", path |-> "/webhook"]
           b == [name |-> "apiservice-cert", path |-> "/apiservice"]
           v == CertVolumes(secret)
<1>1. certVolumeConfigs = <<a, b>>
  BY DEF certVolumeConfigs
<1>2. ListOf(certVolumeConfigs) /\ Elems(certVolumeConfigs) = {a, b}
  BY <1>1, ShortLists
<1>3. DOMAIN certVolumeConfigs = 1..2 /\ certVolumeConfigs[1].name = "webhook-cert" /\ certVolumeConfigs[2].name = "apiservice-cert"
  BY <1>1
<1>4. /\ DOMAIN v = 1..2 /\ v = [i \in DOMAIN v |-> v[i]]
      /\ v[1] = [name |-> "webhook-cert", source |-> secret] /\ v[2] = [name |-> "apiservice-cert", source |-> secret]
  BY <1>3 DEF CertVolumes
<1> HIDE DEF v
<1>5. ListOf(v)
  BY <1>4, PlacesList
<1>6. v[1].name = "webhook-cert" /\ v[2].name = "apiservice-cert"
  BY <1>4
<1>7. \A j \in DOMAIN v : v[j].name = v[1].name => j <= 1
  <2>1. \A j \in 1..2 : j = 1 \/ j = 2
    OBVIOUS
  <2>2. QED
    BY <2>1, <1>4, <1>6
<1>8. 1 \in DOMAIN v
  BY <1>4
<1>9. v[1].name \in NamesOf(v) /\ Effective(v, v[1].name) = v[1]
  BY <1>5, <1>7, <1>8, LastPlaceIs
<1>10. QED
  BY <1>2, <1>4, <1>5, <1>6, <1>9 DEF v

(* The cert volumes take the place of what was mounted at their paths. *)
LEMMA CertsEnsured ==
  ASSUME NEW d, Deployment(d), NEW secret
  PROVE  LET e == ensureCorrectDeploymentCertVolumes(d, secret)
         IN  /\ Deployment(e) /\ DOMAIN e.containers = DOMAIN d.containers
             /\ e.name = d.name /\ e.annotations = d.annotations
             /\ \A i \in DOMAIN d.containers : e.containers[i].env = d.containers[i].env
             /\ "webhook-cert" \in NamesOf(e.volumes)
             /\ Effective(e.volumes, "webhook-cert") = [name |-> "webhook-cert", source |-> secret]
             /\ \A i \in DOMAIN e.containers : \A m \in Elems(e.containers[i].mounts) :
                  m.path = "/webhook" => m.name = "webhook-cert"
<1> DEFINE e == ensureCorrectDeploymentCertVolumes(d, secret)
           cs == d.containers
<1>1. e = [d EXCEPT !.volumes = KeptEntries(d, d.volumes) \o CertVolumes(secret),
                    !.containers = [i \in DOMAIN cs |-> [cs[i] EXCEPT !.mounts = KeptEntries(d, cs[i].mounts) \o certVolumeConfigs]]]
  BY DEF ensureCorrectDeploymentCertVolumes, KeptEntries, RemovedNames, CertVolumes
<1>2. /\ DOMAIN e = DOMAIN d /\ e.name = d.name /\ e.annotations = d.annotations
      /\ e.volumes = KeptEntries(d, d.volumes) \o CertVolumes(secret)
      /\ e.containers = [i \in DOMAIN cs |-> [cs[i] EXCEPT !.mounts = KeptEntries(d, cs[i].mounts) \o certVolumeConfigs]]
  BY <1>1 DEF Deployment
<1>3. \A i \in DOMAIN cs : Container(cs[i])
  BY DEF Deployment
<1>4. DOMAIN e.containers = DOMAIN cs
  BY <1>2
<1>5. \A i \in DOMAIN cs : /\ DOMAIN e.containers[i] = DOMAIN cs[i] /\ e.containers[i].env = cs[i].env
                           /\ e.containers[i].mounts = KeptEntries(d, cs[i].mounts) \o certVolumeConfigs
  BY <1>2, <1>3 DEF Container
<1>6. \A s : ListOf(s) => ListOf(KeptEntries(d, s)) /\ \A x \in Elems(KeptEntries(d, s)) : x \in Elems(s) /\ x.name \notin RemovedNames(d)
  <2>1. SUFFICES ASSUME NEW s, ListOf(s)
                 PROVE  ListOf(KeptEntries(d, s)) /\ \A x \in Elems(KeptEntries(d, s)) : x \in Elems(s) /\ x.name \notin RemovedNames(d)
    OBVIOUS
  <2> DEFINE at == {i \in DOMAIN s : s[i].name \notin RemovedNames(d)}
  <2>2. at \subseteq DOMAIN s /\ \A i \in at : i \in DOMAIN s /\ s[i].name \notin RemovedNames(d)
    OBVIOUS
  <2>3. KeptEntries(d, s) = Pick(s, at)
    BY DEF KeptEntries
  <2> HIDE DEF at
  <2>4. ListOf(Pick(s, at)) /\ \A x : x \in Elems(Pick(s, at)) <=> \E i \in at : s[i] = x
    BY <2>1, <2>2, Picked
  <2>5. QED
    BY <2>2, <2>3, <2>4 DEF Elems
<1>7. /\ ListOf(certVolumeConfigs)
      /\ \A m \in Elems(certVolumeConfigs) : m.path = "/webhook" => m.name = "webhook-cert"
      /\ [name |-> "webhook-cert", path |-> "/webhook"] \in Elems(certVolumeConfigs)
      /\ ListOf(CertVolumes(secret)) /\ "webhook-cert" \in NamesOf(CertVolumes(secret))
      /\ Effective(CertVolumes(secret), "webhook-cert") = [name |-> "webhook-cert", source |-> secret]
  BY CertVolumesAre
<1>8. ListOf(d.volumes) /\ \A i \in DOMAIN cs : ListOf(cs[i].mounts) /\ ListOf(cs[i].env)
  BY <1>3 DEF Deployment, Container
<1>9. ListOf(e.volumes) /\ \A i \in DOMAIN cs : ListOf(e.containers[i].mounts)
  BY <1>2, <1>5, <1>6, <1>7, <1>8, Concatenated
<1>10. Deployment(e)
  <2>3. ListOf(e.containers)
    <3>1. Len(cs) \in Nat /\ DOMAIN cs = 1..Len(cs)
      BY ListEntries DEF Deployment
    <3>2. e.containers = [i \in DOMAIN e.containers |-> e.containers[i]]
      BY <1>2
    <3>3. QED
      BY <1>4, <3>1, <3>2, PlacesList
  <2>1. \A i \in DOMAIN e.containers : Container(e.containers[i])
    BY <1>3, <1>4, <1>5, <1>9 DEF Container
  <2>2. QED
    BY <2>1, <2>3, <1>2, <1>9 DEF Deployment
<1>11. "webhook-cert" \in NamesOf(e.volumes) /\ Effective(e.volumes, "webhook-cert") = [name |-> "webhook-cert", source |-> secret]
  BY <1>2, <1>6, <1>7, <1>8, EffectiveBehind
<1>12. ASSUME NEW i \in DOMAIN cs, NEW m \in Elems(e.containers[i].mounts), m.path = "/webhook"
       PROVE  m.name = "webhook-cert"
  <2>1. Elems(e.containers[i].mounts) = Elems(KeptEntries(d, cs[i].mounts)) \cup Elems(certVolumeConfigs)
    BY <1>5, <1>6, <1>7, <1>8, Concatenated
  <2>2. CASE m \in Elems(KeptEntries(d, cs[i].mounts))
    <3>1. m \in Elems(cs[i].mounts) /\ m.name \notin RemovedNames(d)
      BY <2>2, <1>6, <1>8
    <3>2. cs[i] \in Elems(cs)
      BY DEF Elems
    <3>3. m \in UNION {Elems(c.mounts) : c \in Elems(cs)}
      BY <3>1, <3>2
    <3>4. "/webhook" \in {c.path : c \in Elems(certVolumeConfigs)}
      BY <1>7
    <3>5. m.name \in RemovedNames(d)
      BY <3>3, <3>4, <1>12 DEF RemovedNames
    <3>6. QED
      BY <3>1, <3>5
  <2>3. QED
    BY <2>1, <2>2, <1>7, <1>12
<1> HIDE DEF e
<1>13. QED
  BY <1>2, <1>4, <1>5, <1>10, <1>11, <1>12 DEF e

(* What the user's configuration makes of a deployment. *)
LEMMA ConfiguredParts ==
  ASSUME NEW d, Deployment(d), NEW cfg, cfg # RenderNone, DeploymentConfig(cfg)
  PROVE  LET e == applyCustomConfigToDeployment(d, cfg)
         IN  /\ DOMAIN e.containers = DOMAIN d.containers
             /\ \A i \in DOMAIN d.containers :
                  /\ e.containers[i].env = OverrideByName(d.containers[i].env, cfg.env)
                  /\ e.containers[i].mounts = OverrideByName(d.containers[i].mounts, cfg.mounts)
             /\ e.volumes = OverrideByName(d.volumes, cfg.volumes)
             /\ NamesOf(d.annotations) \subseteq NamesOf(e.annotations)
             /\ \A n \in NamesOf(d.annotations) : Effective(e.annotations, n) = Effective(d.annotations, n)
<1> DEFINE e == applyCustomConfigToDeployment(d, cfg)
           cs == d.containers
           at == {i \in DOMAIN cfg.annotations : cfg.annotations[i].name \notin NamesOf(d.annotations)}
           more == Pick(cfg.annotations, at)
<1>1. /\ e.containers = [i \in DOMAIN cs |-> ContainerConfigured(cs[i], cfg)]
      /\ e.volumes = OverrideByName(d.volumes, cfg.volumes)
      /\ e.annotations = d.annotations \o more
  BY DEF applyCustomConfigToDeployment, Deployment
<1>2. \A i \in DOMAIN cs : /\ ContainerConfigured(cs[i], cfg).env = OverrideByName(cs[i].env, cfg.env)
                           /\ ContainerConfigured(cs[i], cfg).mounts = OverrideByName(cs[i].mounts, cfg.mounts)
  BY DEF ContainerConfigured, Deployment, Container
<1>3. ListOf(d.annotations) /\ ListOf(cfg.annotations)
  BY DEF Deployment, DeploymentConfig
<1>4. at \subseteq DOMAIN cfg.annotations /\ \A i \in at : cfg.annotations[i].name \notin NamesOf(d.annotations)
  OBVIOUS
<1> HIDE DEF at
<1>5. ListOf(more)
  BY <1>3, <1>4, Picked
<1>6. NamesOf(more) = {cfg.annotations[i].name : i \in at}
  BY <1>3, <1>4, EffectivePicked
<1>7. NamesOf(more) \cap NamesOf(d.annotations) = {}
  BY <1>4, <1>6
<1> HIDE DEF more
<1>8. /\ NamesOf(d.annotations) \subseteq NamesOf(d.annotations \o more)
      /\ \A n \in NamesOf(d.annotations) : Effective(d.annotations \o more, n) = Effective(d.annotations, n)
  BY <1>3, <1>5, <1>7, EffectiveBehind
<1> HIDE DEF e
<1>9. QED
  BY <1>1, <1>2, <1>8 DEF e

(* What a container sees of the bundle's entries and of the user's. *)
Wins(old, entries, new) ==
  /\ NamesOf(old) \cup NamesOf(entries) \subseteq NamesOf(new)
  /\ \A n \in NamesOf(entries) : Effective(new, n) = Effective(entries, n)
  /\ \A n \in NamesOf(old) \ NamesOf(entries) : Effective(new, n) = Effective(old, n)

(* What the certificates leave alone of a deployment, and what they protect. *)
Spared(d, c) ==
  /\ DOMAIN c.containers = DOMAIN d.containers
  /\ \A i \in DOMAIN d.containers : c.containers[i].env = d.containers[i].env
  /\ \A x \in Elems(d.annotations) : x.name # "olm.targetNamespaces" =>
       x.name \in NamesOf(c.annotations) /\ Effective(c.annotations, x.name) = x
Protected(c, secret) ==
  /\ "webhook-cert" \in NamesOf(c.volumes)
  /\ Effective(c.volumes, "webhook-cert") = [name |-> "webhook-cert", source |-> secret]
  /\ \A i \in DOMAIN c.containers : \A m \in Elems(c.containers[i].mounts) :
       m.path = "/webhook" => m.name = "webhook-cert"

(* A deployment on its way to the user's configuration. *)
LEMMA CertifiedParts ==
  ASSUME NEW rv1, NEW o, NEW d, ListOf(rv1.annotations), Deployment(d), ~Duplicates(d.annotations)
  PROVE  LET c == CertifiedOf(rv1, o, AnnotatedOf(rv1, o, d))
         IN  /\ Deployment(c) /\ Spared(d, c)
             /\ d.name \in WebhookDeployments(rv1) /\ o.provider # "none" => Protected(c, CertName(d.name))
<1> DEFINE a == AnnotatedOf(rv1, o, d)
           c == CertifiedOf(rv1, o, a)
           with == d.name \in WebhookDeployments(rv1) /\ o.provider # "none"
<1>1. /\ Deployment(a) /\ a.name = d.name /\ a.containers = d.containers
      /\ \A x \in Elems(d.annotations) : x.name # "olm.targetNamespaces" =>
           x.name \in NamesOf(a.annotations) /\ Effective(a.annotations, x.name) = x
  BY AnnotatedParts
<1> HIDE DEF a
<1>2. with => c = ensureCorrectDeploymentCertVolumes(a, CertName(a.name))
  BY <1>1 DEF CertifiedOf
<1>3. ~with => c = a
  BY <1>1 DEF CertifiedOf
<1> HIDE DEF c
<1>4. CASE with
  <2>1. /\ Deployment(c) /\ DOMAIN c.containers = DOMAIN a.containers /\ c.annotations = a.annotations
        /\ \A i \in DOMAIN a.containers : c.containers[i].env = a.containers[i].env
        /\ "webhook-cert" \in NamesOf(c.volumes)
        /\ Effective(c.volumes, "webhook-cert") = [name |-> "webhook-cert", source |-> CertName(a.name)]
        /\ \A i \in DOMAIN c.containers : \A m \in Elems(c.containers[i].mounts) :
             m.path = "/webhook" => m.name = "webhook-cert"
    BY <1>1, <1>2, <1>4, CertsEnsured
  <2>2. QED
    BY <2>1, <1>1 DEF c, a, Spared, Protected
<1>5. CASE ~with
  BY <1>1, <1>3, <1>5 DEF c, a, Spared
<1>6. QED
  BY <1>4, <1>5

(* What the user's configuration says wins, and the bundle's annotations stay. *)
LEMMA BodyConfigured ==
  ASSUME NEW rv1, NEW o, NEW d, ListOf(rv1.annotations), Deployment(d), ~Duplicates(d.annotations),
         o.deploymentConfig # RenderNone, DeploymentConfig(o.deploymentConfig)
  PROVE  LET b == DeploymentOf(rv1, o, d).body
             cfg == o.deploymentConfig
         IN  /\ DOMAIN b.containers = DOMAIN d.containers
             /\ \A i \in DOMAIN d.containers : Wins(d.containers[i].env, cfg.env, b.containers[i].env)
             /\ \A n \in NamesOf(cfg.volumes) : Effective(b.volumes, n) = Effective(cfg.volumes, n)
             /\ \A x \in Elems(d.annotations) : x.name # "olm.targetNamespaces" => Effective(b.annotations, x.name) = x
<1> DEFINE b == DeploymentOf(rv1, o, d).body
           cfg == o.deploymentConfig
           c == CertifiedOf(rv1, o, AnnotatedOf(rv1, o, d))
<1>1. b = applyCustomConfigToDeployment(c, cfg)
  BY DEF DeploymentOf, Resource
<1>2. /\ Deployment(c) /\ DOMAIN c.containers = DOMAIN d.containers
      /\ \A i \in DOMAIN d.containers : c.containers[i].env = d.containers[i].env
      /\ \A x \in Elems(d.annotations) : x.name # "olm.targetNamespaces" =>
           x.name \in NamesOf(c.annotations) /\ Effective(c.annotations, x.name) = x
  BY CertifiedParts DEF Spared
<1>10. cfg # RenderNone /\ DeploymentConfig(cfg)
  OBVIOUS
<1> HIDE DEF c, b, cfg
<1>3. /\ DOMAIN b.containers = DOMAIN c.containers
      /\ \A i \in DOMAIN c.containers : b.containers[i].env = OverrideByName(c.containers[i].env, cfg.env)
      /\ b.volumes = OverrideByName(c.volumes, cfg.volumes)
      /\ \A n \in NamesOf(c.annotations) : Effective(b.annotations, n) = Effective(c.annotations, n)
  <2>1. Deployment(c)
    BY <1>2
  <2>2. DOMAIN b.containers = DOMAIN c.containers /\ b.volumes = OverrideByName(c.volumes, cfg.volumes)
    BY <2>1, <1>1, <1>10, ConfiguredParts
  <2>3. \A i \in DOMAIN c.containers : b.containers[i].env = OverrideByName(c.containers[i].env, cfg.env)
    BY <2>1, <1>1, <1>10, ConfiguredParts
  <2>4. \A n \in NamesOf(c.annotations) : Effective(b.annotations, n) = Effective(c.annotations, n)
    BY <2>1, <1>1, <1>10, ConfiguredParts
  <2>5. QED
    BY <2>2, <2>3, <2>4
<1>4. ListOf(cfg.env) /\ ListOf(cfg.volumes)
  BY <1>10 DEF DeploymentConfig
<1>5. ListOf(c.volumes) /\ \A i \in DOMAIN c.containers : ListOf(c.containers[i].env)
  BY <1>2 DEF Deployment, Container
<1>6. \A n \in NamesOf(cfg.volumes) : Effective(b.volumes, n) = Effective(cfg.volumes, n)
  BY <1>3, <1>4, <1>5, Overridden
<1>7. \A i \in DOMAIN c.containers : Wins(c.containers[i].env, cfg.env, b.containers[i].env)
  BY <1>3, <1>4, <1>5, Overridden DEF Wins
<1>8. QED
  BY <1>2, <1>3, <1>6, <1>7 DEF b, cfg

(* The certificate of the webhooks is mounted, unless the user replaces it. *)
LEMMA BodyCertified ==
  ASSUME NEW rv1, NEW o, NEW d, ListOf(rv1.annotations), Deployment(d), ~Duplicates(d.annotations),
         DeploymentConfig(o.deploymentConfig), d.name \in WebhookDeployments(rv1), o.provider # "none"
  PROVE  LET b == DeploymentOf(rv1, o, d).body
             cfg == o.deploymentConfig
             v == Effective(b.volumes, "webhook-cert")
         IN  /\ \/ cfg # RenderNone /\ v \in Elems(cfg.volumes)
                \/ v = [name |-> "webhook-cert", source |-> CertName(d.name)]
             /\ \A c \in Elems(b.containers) : \A m \in Elems(c.mounts) :
                  m.path = "/webhook" => m.name = "webhook-cert" \/ (cfg # RenderNone /\ m \in Elems(cfg.mounts))
<1> DEFINE b == DeploymentOf(rv1, o, d).body
           cfg == o.deploymentConfig
           c == CertifiedOf(rv1, o, AnnotatedOf(rv1, o, d))
           v == Effective(b.volumes, "webhook-cert")
<1>1. b = applyCustomConfigToDeployment(c, cfg)
  BY DEF DeploymentOf, Resource
<1>2. /\ Deployment(c) /\ "webhook-cert" \in NamesOf(c.volumes)
      /\ Effective(c.volumes, "webhook-cert") = [name |-> "webhook-cert", source |-> CertName(d.name)]
      /\ \A i \in DOMAIN c.containers : \A m \in Elems(c.containers[i].mounts) :
           m.path = "/webhook" => m.name = "webhook-cert"
  BY CertifiedParts DEF Protected
<1>3. DeploymentConfig(cfg)
  OBVIOUS
<1> HIDE DEF c, b, cfg
<1>4. CASE cfg = RenderNone
  <2>1. b = c
    BY <1>1, <1>4 DEF applyCustomConfigToDeployment
  <2>2. QED
    BY <2>1, <1>2 DEF Elems, b, cfg
<1>5. CASE cfg # RenderNone
  <2>1. /\ DOMAIN b.containers = DOMAIN c.containers
        /\ \A i \in DOMAIN c.containers : b.containers[i].mounts = OverrideByName(c.containers[i].mounts, cfg.mounts)
        /\ b.volumes = OverrideByName(c.volumes, cfg.volumes)
    BY <1>1, <1>2, <1>3, <1>5, ConfiguredParts
  <2>2. ListOf(cfg.mounts) /\ ListOf(cfg.volumes)
    BY <1>3, <1>5 DEF DeploymentConfig
  <2>3. ListOf(c.volumes) /\ \A i \in DOMAIN c.containers : ListOf(c.containers[i].mounts)
    BY <1>2 DEF Deployment, Container
  <2>4. \/ v \in Elems(cfg.volumes)
        \/ v = [name |-> "webhook-cert", source |-> CertName(d.name)]
    <3>1. CASE "webhook-cert" \in NamesOf(cfg.volumes)
      <4>1. v = Effective(cfg.volumes, "webhook-cert")
        BY <3>1, <2>1, <2>2, <2>3, Overridden
      <4>2. LastAt(cfg.volumes, "webhook-cert") \in DOMAIN cfg.volumes
        BY <3>1, <2>2, LastPlace
      <4>3. QED
        BY <4>1, <4>2 DEF Effective, Elems
    <3>2. CASE "webhook-cert" \notin NamesOf(cfg.volumes)
      BY <3>2, <1>2, <2>1, <2>2, <2>3, Overridden
    <3>3. QED
      BY <3>1, <3>2
  <2>5. ASSUME NEW i \in DOMAIN b.containers, NEW m \in Elems(b.containers[i].mounts), m.path = "/webhook"
        PROVE  m.name = "webhook-cert" \/ m \in Elems(cfg.mounts)
    <3>1. m \in Elems(c.containers[i].mounts) \cup Elems(cfg.mounts)
      BY <2>1, <2>2, <2>3, <2>5, Overridden
    <3>2. QED
      BY <3>1, <2>1, <2>5, <1>2
  <2>6. \A k \in Elems(b.containers) : \A m \in Elems(k.mounts) :
          m.path = "/webhook" => m.name = "webhook-cert" \/ m \in Elems(cfg.mounts)
    <3>1. \A k \in Elems(b.containers) : \E i \in DOMAIN b.containers : k = b.containers[i]
      BY DEF Elems
    <3>2. QED
      BY <3>1, <2>5
  <2>7. QED
    BY <2>4, <2>6, <1>5 DEF b, cfg
<1>6. QED
  BY <1>4, <1>5

(* The bundles, configurations and certificate providers of the theorem. *)
Deployments(rv1) ==
  /\ ListOf(rv1.annotations)
  /\ \A d \in Elems(rv1.deployments) : Deployment(d) /\ ~Duplicates(d.annotations)

(* The user's configuration reaches every deployment that is rendered. *)
LEMMA ConfigReaches ==
  ASSUME NEW rv1, NEW o, BundleLists(rv1), ListOf(o.targets), BundleValidator(rv1),
         \A x \in Elems(rv1.others) : x.kind # "Role",
         Deployments(rv1), o.deploymentConfig # RenderNone, DeploymentConfig(o.deploymentConfig),
         NEW r, r.objects = ResourceGenerators(rv1, o)
  PROVE  ConfigApplied(rv1, o.deploymentConfig, r)
<1> DEFINE cfg == o.deploymentConfig
<1>1. CheckObjectSupport(rv1) /\ CheckDeploymentSpecUniqueness(rv1)
  BY DEF BundleValidator
<1>2. \A x : x \in OfKind(r.objects, "Deployment") <=> \E d \in Elems(rv1.deployments) : x = DeploymentOf(rv1, o, d)
  BY <1>1, KindsMade
<1>3. \A x, y \in Elems(rv1.deployments) : x.name = y.name => x = y
  BY <1>1 DEF CheckDeploymentSpecUniqueness, Duplicates, Elems
<1>4. SUFFICES ASSUME NEW d \in OfKind(r.objects, "Deployment")
      PROVE  LET spec == CHOOSE x \in Elems(rv1.deployments) : x.name = d.name
             IN  /\ \A i \in DOMAIN d.body.containers :
                      Wins(spec.containers[i].env, cfg.env, d.body.containers[i].env)
                 /\ \A n \in NamesOf(cfg.volumes) : Effective(d.body.volumes, n) = Effective(cfg.volumes, n)
                 /\ \A a \in Elems(spec.annotations) :
                      a.name # "olm.targetNamespaces" => Effective(d.body.annotations, a.name) = a
  BY DEF ConfigApplied, Wins
<1>5. PICK e \in Elems(rv1.deployments) : d = DeploymentOf(rv1, o, e)
  BY <1>2, <1>4
<1>6. d.name = e.name
  BY <1>5 DEF DeploymentOf, Resource
<1>7. (CHOOSE x \in Elems(rv1.deployments) : x.name = d.name) = e
  BY <1>3, <1>5, <1>6
<1>8. Deployment(e) /\ ~Duplicates(e.annotations) /\ ListOf(rv1.annotations)
  BY <1>5 DEF Deployments
<1>9. /\ DOMAIN d.body.containers = DOMAIN e.containers
      /\ \A i \in DOMAIN e.containers : Wins(e.containers[i].env, cfg.env, d.body.containers[i].env)
      /\ \A n \in NamesOf(cfg.volumes) : Effective(d.body.volumes, n) = Effective(cfg.volumes, n)
      /\ \A x \in Elems(e.annotations) : x.name # "olm.targetNamespaces" => Effective(d.body.annotations, x.name) = x
  BY <1>5, <1>8, BodyConfigured
<1>10. QED
  BY <1>7, <1>9

(* Every webhook has its Service, its deployment and its certificate. *)
LEMMA WebhooksReached ==
  ASSUME NEW rv1, NEW o, BundleLists(rv1), ListOf(o.targets), BundleValidator(rv1),
         \A x \in Elems(rv1.others) : x.kind # "Role",
         Deployments(rv1), DeploymentConfig(o.deploymentConfig),
         rv1.webhooks # <<>> => o.provider \in {"certManager", "serviceCA"},
         NEW r, r.objects = ResourceGenerators(rv1, o), NEW ext, ext.ns = o.installNS
  PROVE  WebhooksServed(rv1, ext, o.deploymentConfig, o.provider, r)
<1> DEFINE cfg == o.deploymentConfig
           Served(wh, s, d) ==
             /\ s.ns = ext.ns /\ d.ns = ext.ns /\ d.name = wh.deployment
             /\ s.name = ServiceReference(wh).service /\ s.body.selector = d.name
             /\ wh.port > 0 => wh.port \in {p.port : p \in s.body.ports}
             /\ LET v == Effective(d.body.volumes, "webhook-cert")
                IN  \/ cfg # RenderNone /\ v \in Elems(cfg.volumes)
                    \/ CASE o.provider = "certManager" ->
                              \E c \in OfKind(r.objects, "Certificate") :
                                c.body.secret = v.source /\ c.body.service = s.name
                         [] o.provider = "serviceCA" -> s.body.ca = [from |-> v.source]
                         [] OTHER -> FALSE
             /\ \A c \in Elems(d.body.containers) : \A m \in Elems(c.mounts) :
                  m.path = "/webhook" => m.name = "webhook-cert" \/ (cfg # RenderNone /\ m \in Elems(cfg.mounts))
<1>1. CheckObjectSupport(rv1) /\ CheckWebhookDeploymentReferentialIntegrity(rv1)
  BY DEF BundleValidator
<1>2. /\ \A x : x \in OfKind(r.objects, "Deployment") <=> \E d \in Elems(rv1.deployments) : x = DeploymentOf(rv1, o, d)
      /\ \A x : x \in OfKind(r.objects, "Service") <=>
           \E d \in Elems(rv1.deployments) : d.name \in WebhookDeployments(rv1) /\ x = ServiceOf(rv1, o, d)
      /\ \A x : x \in OfKind(r.objects, "Certificate") <=>
           x.kind = "Certificate" /\ x \in Elems(CertProviderResourceGenerator(rv1, o))
  BY <1>1, KindsMade
<1>3. ASSUME NEW wh \in Elems(rv1.webhooks)
      PROVE  \E s \in OfKind(r.objects, "Service"), d \in OfKind(r.objects, "Deployment") : Served(wh, s, d)
  <2>1. PICK e \in Elems(rv1.deployments) : e.name = wh.deployment
    <3>1. wh.deployment \in NamesOf(rv1.deployments)
      BY <1>1, <1>3 DEF CheckWebhookDeploymentReferentialIntegrity
    <3>2. QED
      BY <3>1 DEF NamesOf, Elems
  <2>2. e.name \in WebhookDeployments(rv1)
    BY <2>1, <1>3 DEF WebhookDeployments
  <2> DEFINE s == ServiceOf(rv1, o, e)
             d == DeploymentOf(rv1, o, e)
             v == Effective(d.body.volumes, "webhook-cert")
  <2>3. s \in OfKind(r.objects, "Service") /\ d \in OfKind(r.objects, "Deployment")
    BY <1>2, <2>1, <2>2
  <2>4. s.ns = ext.ns /\ s.name = ServiceName(e.name) /\ s.body.selector = e.name
        /\ s.body.ports = PortsOf(rv1, e) /\ s.body.ca = InjectCABundle("Service", o, e.name)
    BY DEF ServiceOf, Resource
  <2>5. d.ns = ext.ns /\ d.name = e.name
    BY DEF DeploymentOf, Resource
  <2>6. o.provider \in {"certManager", "serviceCA"} /\ o.provider # "none"
    <3>1. rv1.webhooks # <<>>
      BY <1>3 DEF Elems
    <3>2. QED
      BY <3>1
  <2>7. Deployment(e) /\ ~Duplicates(e.annotations) /\ ListOf(rv1.annotations)
    BY <2>1 DEF Deployments
  <2>8. /\ \/ cfg # RenderNone /\ v \in Elems(cfg.volumes)
           \/ v = [name |-> "webhook-cert", source |-> CertName(e.name)]
        /\ \A c \in Elems(d.body.containers) : \A m \in Elems(c.mounts) :
             m.path = "/webhook" => m.name = "webhook-cert" \/ (cfg # RenderNone /\ m \in Elems(cfg.mounts))
    BY <2>2, <2>6, <2>7, BodyCertified
  <2> HIDE DEF s, d, cfg
  <2>9. s.name = ServiceReference(wh).service
    BY <2>1, <2>4 DEF ServiceReference
  <2>10. wh.port > 0 => wh.port \in {p.port : p \in s.body.ports}
    <3>1. getWebhookServicePort(wh) \in PortsOf(rv1, e)
      BY <1>3, <2>1 DEF PortsOf
    <3>2. wh.port > 0 => getWebhookServicePort(wh).port = wh.port
      BY DEF getWebhookServicePort
    <3>3. QED
      BY <3>1, <3>2, <2>4
  <2>11. ASSUME v = [name |-> "webhook-cert", source |-> CertName(e.name)]
         PROVE  CASE o.provider = "certManager" ->
                       \E c \in OfKind(r.objects, "Certificate") : c.body.secret = v.source /\ c.body.service = s.name
                  [] o.provider = "serviceCA" -> s.body.ca = [from |-> v.source]
                  [] OTHER -> FALSE
    <3>1. v.source = CertName(e.name)
      BY <2>11
    <3> HIDE DEF v
    <3>2. CASE o.provider = "certManager"
      <4> DEFINE issuer == ObjectNameForBaseAndSuffix(CertName(e.name), SelfSigned)
                 c == Resource("Certificate", o.installNS, CertName(e.name),
                               [secret |-> CertName(e.name), service |-> ServiceName(e.name), issuer |-> issuer])
                 i == Resource("Issuer", o.installNS, issuer, RenderNone)
      <4>1. AdditionalObjects(o, e.name) = <<i, c>>
        BY <3>2 DEF AdditionalObjects
      <4>2. c.kind = "Certificate" /\ c.body.secret = CertName(e.name) /\ c.body.service = ServiceName(e.name)
        BY DEF Resource
      <4> HIDE DEF c, i
      <4>3. c \in Elems(AdditionalObjects(o, e.name))
        BY <4>1, ShortLists
      <4>4. c \in Elems(CertProviderResourceGenerator(rv1, o))
        BY <4>3, <1>3, <2>1, CertificatesMade DEF BundleLists
      <4>5. c \in OfKind(r.objects, "Certificate")
        BY <4>2, <4>4, <1>2
      <4>6. \E x \in OfKind(r.objects, "Certificate") : x.body.secret = v.source /\ x.body.service = s.name
        BY <4>2, <4>5, <3>1, <2>4
      <4>7. QED
        BY <4>6, <3>2
    <3>3. CASE o.provider = "serviceCA"
      <4>1. s.body.ca = [from |-> CertName(e.name)]
        BY <3>3, <2>4 DEF InjectCABundle
      <4>2. QED
        BY <4>1, <3>1, <3>3
    <3>4. QED
      BY <3>2, <3>3, <2>6
  <2> HIDE DEF v
  <2>12. Served(wh, s, d)
    BY <2>1, <2>4, <2>5, <2>8, <2>9, <2>10, <2>11 DEF v
  <2> HIDE DEF Served
  <2>13. QED
    BY <2>3, <2>12
<1>4. QED
  BY <1>3 DEF WebhooksServed

(* What a rendering is made from: the options ManifestsGet hands to Render. *)
LEMMA RenderedFrom ==
  ASSUME NEW rv1, NEW ext, NEW gates, NEW provider, NamesNamespaces(ext),
         ext.config # RenderNone /\ ext.config.dc.is # "set" => ext.config.dc.value = RenderNone,
         ManifestsGet(rv1, ext, gates, provider) # RenderNone
  PROVE  LET r == ManifestsGet(rv1, ext, gates, provider)
             cfg == IF ext.config = RenderNone THEN RenderNone ELSE ext.config.dc.value
             o == [installNS |-> ext.ns, targets |-> r.targets, provider |-> provider, deploymentConfig |-> cfg]
         IN  /\ BundleValidator(rv1) /\ Supported(rv1, gates, provider)
             /\ r.objects = ResourceGenerators(rv1, o)
             /\ ListOf(r.targets) /\ (AllNS \notin Elems(r.targets) \/ r.targets = <<AllNS>>)
<1> DEFINE r == ManifestsGet(rv1, ext, gates, provider)
           dc == IF ext.config = RenderNone THEN RenderNone ELSE ext.config.dc.value
           cfg == IF ext.config = RenderNone THEN EmptyConfig ELSE ext.config
           given == "SingleOwnNamespace" \in gates \/ ext.config # RenderNone
           extracted == IF given THEN extractBundleConfigOptions(rv1, cfg, ext.ns, gates)
                        ELSE [targets |-> <<>>, deploymentConfig |-> RenderNone]
           opts == [installNS |-> ext.ns, targets |-> extracted.targets, provider |-> provider,
                    deploymentConfig |-> extracted.deploymentConfig]
           o == [opts EXCEPT !.targets = IF @ = <<>> THEN defaultTargetNamespacesForBundle(rv1) ELSE @]
<1>1. r = IF ~Supported(rv1, gates, provider) \/ extracted = RenderNone THEN RenderNone ELSE Render(rv1, opts)
  BY DEF ManifestsGet
<1>2. Supported(rv1, gates, provider) /\ extracted # RenderNone /\ r = Render(rv1, opts)
  BY <1>1
<1>3. cfg.dc.is = "set" => ext.config # RenderNone /\ cfg.dc.value = ext.config.dc.value
  BY DEF EmptyConfig
<1>4. dc = IF cfg.dc.is = "set" THEN cfg.dc.value ELSE RenderNone
  BY <1>3
<1>5. extracted.deploymentConfig = dc
  <2>1. CASE given
    <3> DEFINE schema == [GetConfigSchema(rv1) EXCEPT !.dc = "DeploymentConfig" \in gates]
    <3>1. extracted = extractBundleConfigOptions(rv1, cfg, ext.ns, gates)
      BY <2>1
    <3> HIDE DEF extracted, cfg
    <3>2. validateConfigWithSchema(cfg, schema, ext.ns)
      BY <3>1, <1>2 DEF extractBundleConfigOptions
    <3>3. extracted.deploymentConfig =
            IF "DeploymentConfig" \in gates THEN GetDeploymentConfig(cfg) ELSE RenderNone
      BY <3>1, <3>2 DEF extractBundleConfigOptions
    <3>4. schema.dc = ("DeploymentConfig" \in gates)
      BY DEF GetConfigSchema
    <3>5. cfg.dc.is = "set" => "DeploymentConfig" \in gates
      BY <3>2, <3>4 DEF validateConfigWithSchema
    <3>6. QED
      BY <3>3, <3>5, <1>4 DEF GetDeploymentConfig
  <2>2. CASE ~given
    BY <2>2
  <2>3. QED
    BY <2>1, <2>2
<1>6. o.installNS = ext.ns /\ o.provider = provider /\ o.deploymentConfig = dc
  BY <1>5
<1>7. Render(rv1, opts) =
        IF ~BundleValidator(rv1) \/ ~validateTargetNamespaces(rv1, o.installNS, o.targets) \/ ~CRDsConvertible(rv1)
        THEN RenderNone
        ELSE [targets |-> o.targets, objects |-> ResourceGenerators(rv1, o)]
  BY DEF Render
<1>8. o = [installNS |-> ext.ns, targets |-> o.targets, provider |-> provider, deploymentConfig |-> dc]
  BY <1>5
<1> HIDE DEF o, opts, r
<1>9. BundleValidator(rv1) /\ r = [targets |-> o.targets, objects |-> ResourceGenerators(rv1, o)]
  BY <1>2, <1>7 DEF r
<1>10. r.targets = o.targets /\ r.objects = ResourceGenerators(rv1, o)
  BY <1>9
<1>11. r.targets \in {<<AllNS>>, <<cfg.watch>>}
  BY AcceptedConfigRenders DEF AcceptedRenders, r
<1>12. cfg.watch # AllNS
  BY DEF NamesNamespaces, EmptyConfig, AllNS
<1>13. \A x : ListOf(<<x>>) /\ Elems(<<x>>) = {x}
  BY ShortLists
<1> HIDE DEF cfg
<1>14. ListOf(r.targets) /\ (AllNS \notin Elems(r.targets) \/ r.targets = <<AllNS>>)
  BY <1>11, <1>12, <1>13
<1> HIDE DEF dc
<1>15. r.objects = ResourceGenerators(rv1, [installNS |-> ext.ns, targets |-> r.targets, provider |-> provider,
                                            deploymentConfig |-> dc])
  BY <1>8, <1>10
<1>16. QED
  BY <1>2, <1>9, <1>14, <1>15 DEF r, dc

(* What the bundles and extensions of the theorem look like. *)
Renderable(rv1, ext, provider) ==
  /\ BundleLists(rv1) /\ Permissions(rv1) /\ Deployments(rv1)
  /\ \A x \in Elems(rv1.others) : x.kind # "Role"
  /\ NamesNamespaces(ext) /\ provider \in {"none", "certManager", "serviceCA"}
  /\ ext.config # RenderNone =>
       /\ DeploymentConfig(ext.config.dc.value)
       /\ ext.config.dc.is # "set" => ext.config.dc.value = RenderNone

(* What is rendered of any bundle hangs together. *)
LEMMA RenderedClosed ==
  ASSUME NEW rv1, NEW ext, NEW gates, NEW provider, Renderable(rv1, ext, provider)
  PROVE  RenderClosed(rv1, ext, gates, provider)
<1> DEFINE r == ManifestsGet(rv1, ext, gates, provider)
           cfg == IF ext.config = RenderNone THEN RenderNone ELSE ext.config.dc.value
           o == [installNS |-> ext.ns, targets |-> r.targets, provider |-> provider, deploymentConfig |-> cfg]
<1>1. /\ BundleLists(rv1) /\ Permissions(rv1) /\ Deployments(rv1) /\ NamesNamespaces(ext) /\ ext.ns # AllNS
      /\ \A x \in Elems(rv1.others) : x.kind # "Role"
      /\ provider \in {"none", "certManager", "serviceCA"}
  BY DEF Renderable, NamesNamespaces
<1>2. ext.config # RenderNone /\ ext.config.dc.is # "set" => ext.config.dc.value = RenderNone
  BY DEF Renderable
<1>3. DeploymentConfig(cfg)
  BY DEF Renderable, DeploymentConfig
<1>4. AcceptedRenders(rv1, ext, gates, provider)
  BY <1>1, AcceptedConfigRenders
<1>5. o.installNS = ext.ns /\ o.targets = r.targets /\ o.provider = provider /\ o.deploymentConfig = cfg
  OBVIOUS
<1>6. ASSUME r # RenderNone
      PROVE  /\ GrantsExact(rv1, ext, r)
             /\ WebhooksServed(rv1, ext, cfg, provider, r)
             /\ cfg # RenderNone => ConfigApplied(rv1, cfg, r)
  <2>1. /\ BundleValidator(rv1) /\ Supported(rv1, gates, provider)
        /\ r.objects = ResourceGenerators(rv1, o)
        /\ ListOf(r.targets) /\ (AllNS \notin Elems(r.targets) \/ r.targets = <<AllNS>>)
    BY <1>1, <1>2, <1>6, RenderedFrom
  <2> HIDE DEF o, r, cfg
  <2>2. GrantsExact(rv1, ext, r)
    <3>1. CheckObjectSupport(rv1)
      BY <2>1 DEF BundleValidator
    <3>2. AllNS \notin Elems(o.targets) \/ IsAllNamespaces(o)
      BY <2>1, <1>5 DEF IsAllNamespaces
    <3>3. QED
      BY <3>1, <3>2, <2>1, <1>1, <1>5, GrantsMade
  <2>3. rv1.webhooks # <<>> => o.provider \in {"certManager", "serviceCA"}
    BY <2>1, <1>1, <1>5 DEF Supported
  <2>4. WebhooksServed(rv1, ext, o.deploymentConfig, o.provider, r)
    BY <2>1, <2>3, <1>1, <1>3, <1>5, WebhooksReached
  <2>5. cfg # RenderNone => ConfigApplied(rv1, o.deploymentConfig, r)
    BY <2>1, <1>1, <1>3, <1>5, ConfigReaches
  <2>6. QED
    BY <2>2, <2>4, <2>5, <1>5
<1> HIDE DEF o
<1>7. QED
  BY <1>4, <1>6 DEF RenderClosed

(* For any bundle and configuration: a configuration that is accepted renders,
   every account of the CSV is granted exactly what it declares, where it is
   watched and nowhere else, every webhook reaches a Service of its deployment
   whose pods mount the certificate, and the user's configuration reaches every
   container (ManifestsGet and Render with their generators). *)
THEOREM RenderingExact ==
  ASSUME sample.is = "render" => Renderable(sample.rv1, sample.ext, sample.provider)
  PROVE  RenderExact
<1>1. SUFFICES ASSUME sample.is = "render"
               PROVE  RenderClosed(sample.rv1, sample.ext, sample.gates, sample.provider)
  BY DEF RenderExact
<1>2. Renderable(sample.rv1, sample.ext, sample.provider)
  BY <1>1
<1>3. QED
  BY <1>2, RenderedClosed
=============================================================================
