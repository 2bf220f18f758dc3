--------------------------- MODULE ContentManager ---------------------------
(***************************************************************************)
(* The content manager of the Helm runtime: for one ClusterExtension, a    *)
(* cache of dynamic informers, one for each GroupVersionKind the release   *)
(* contains, so that a change of a managed object requeues the extension.  *)
(* contentmanager.go keeps the caches, cache/cache.go the sources of one,  *)
(* source/dynamicsource.go runs an informer.                               *)
(*                                                                         *)
(* The actors are the controller's worker (Watch, under the cache's mutex  *)
(* mu, and Delete), and for each source its informer, the goroutine that   *)
(* announces the first sync on an unbuffered channel, and the informer's   *)
(* watch error handler, whose callback takes mu.                           *)
(***************************************************************************)
EXTENDS Integers, FiniteSets

CONSTANTS GVKs,        \* the kinds a release may contain
          MaxSources,  \* bound: sources ever started
          MaxFaults,   \* bound: failed starts, syncTimeout expirations, watch errors
          MaxEvents    \* bound: releases applied by the extension's user

ASSUME ContentAssumption ==
    /\ IsFiniteSet(GVKs)
    /\ MaxSources \in Nat \ {0} /\ MaxFaults \in Nat /\ MaxEvents \in Nat

VARIABLES caches,    \* the live cache's number; 0 when the manager has none
          sources,   \* c.sources of that cache: a source or 0 for each kind
          src,       \* every source ever started
          watch,     \* the worker: Watch's progress, kind by kind
          content,   \* the kinds of the release the extension wants watched
          queued,    \* the extension is in the work queue
          faults,
          events

contentVars ==
    <<caches, sources, src, watch, content, queued, faults, events>>

Ids == 1..MaxSources

\* dynamicInformerSource: its informer, its three channels and its watch
\* error handler. "sending" is a goroutine blocked on the unbuffered channel.
NoSource == [gvk |-> CHOOSE g \in GVKs : TRUE, cache |-> 0, informer |-> "none",
             hasSynced |-> FALSE, syncedChan |-> "open", errored |-> FALSE,
             handler |-> "none", added |-> FALSE, preSync |-> FALSE]

Started(i) == src[i].informer # "none"
Idle == [pc |-> "idle", todo |-> {}, start |-> [g \in GVKs |-> 0], err |-> FALSE]

ContentTypeOK ==
    /\ caches \in Nat
    /\ sources \in [GVKs -> Ids \cup {0}]
    /\ src \in [Ids -> [gvk : GVKs, cache : Nat,
                        informer : {"none", "running", "cancelled"},
                        hasSynced : BOOLEAN,
                        syncedChan : {"open", "sending", "closed"},
                        errored : BOOLEAN,
                        handler : {"none", "failed", "cancel", "callback",
                                   "requeue", "done"},
                        added : BOOLEAN, preSync : BOOLEAN]]
    /\ watch \in [pc : {"idle", "watch"}, todo : SUBSET GVKs,
                  start : [GVKs -> Ids \cup {0}], err : BOOLEAN]
    /\ content \subseteq GVKs
    /\ queued \in BOOLEAN
    /\ faults \in 0..MaxFaults /\ events \in 0..MaxEvents

ContentInit ==
    /\ caches = 0
    /\ sources = [g \in GVKs |-> 0]
    /\ src = [i \in Ids |-> NoSource]
    /\ watch = Idle
    /\ content \in (SUBSET GVKs) \ {{}}
    /\ queued = TRUE
    /\ faults = 0
    /\ events = 0

\* A number no earlier cache's source carries.
NewCache == 1 + Cardinality({i \in Ids : Started(i)})

MuFree == watch.pc = "idle"

\* source.Close: cancel the informer's context. Every source in the cache was
\* started, so the "not yet started" error never comes.
Closed(s, ids) ==
    [i \in Ids |-> IF i \in ids THEN [s[i] EXCEPT !.informer = "cancelled"] ELSE s[i]]

-----------------------------------------------------------------------------
(* The worker.                                                             *)

\* Get, then Watch up to the start of the new sources: the sources of kinds
\* the release no longer has are closed and deleted. mu is held from here on.
WatchBegin ==
    /\ MuFree /\ queued
    /\ queued' = FALSE
    /\ caches' = IF caches = 0 THEN NewCache ELSE caches
    /\ LET stale == {g \in GVKs \ content : sources[g] # 0}
       IN  /\ src' = Closed(src, {sources[g] : g \in stale})
           /\ sources' = [g \in GVKs |-> IF g \in stale THEN 0 ELSE sources[g]]
    /\ watch' = [Idle EXCEPT !.pc = "watch", !.todo = {g \in content : sources[g] = 0}]
    /\ UNCHANGED <<content, faults, events>>

\* startNewSource up to watcher.Watch: the source is made and its informer
\* and sync goroutine started.
StartNewSource(g) ==
    /\ g \in watch.todo /\ watch.start[g] = 0
    /\ \E i \in Ids :
         /\ ~Started(i) /\ \A j \in 1..(i - 1) : Started(j)
         /\ src' = [src EXCEPT ![i] = [NoSource EXCEPT !.gvk = g, !.cache = caches,
                                                       !.informer = "running"]]
         /\ watch' = [watch EXCEPT !.start[g] = i]
    /\ UNCHANGED <<caches, sources, content, queued, faults, events>>

\* No REST mapping for the kind, or the controller refuses the watch.
StartFails(g) ==
    /\ g \in watch.todo /\ watch.start[g] = 0
    /\ faults < MaxFaults
    /\ faults' = faults + 1
    /\ watch' = [watch EXCEPT !.todo = @ \ {g}, !.err = TRUE]
    /\ UNCHANGED <<caches, sources, src, content, queued, events>>

\* WaitForSync selects among its ready channels, whichever they are: the sync
\* announced (then addSource), ...
WaitSynced(g) ==
    LET i == watch.start[g]
    IN  /\ g \in watch.todo /\ i # 0
        /\ src[i].syncedChan \in {"sending", "closed"}
        /\ src' = [src EXCEPT ![i].syncedChan = "closed", ![i].added = TRUE]
        /\ sources' = [sources EXCEPT ![g] = i]
        /\ watch' = [watch EXCEPT !.todo = @ \ {g}]
        /\ UNCHANGED <<caches, content, queued, faults, events>>

\* ... the watch error or the informer's end, ...
WaitErrored(g) ==
    LET i == watch.start[g]
    IN  /\ g \in watch.todo /\ i # 0
        /\ src[i].errored \/ src[i].informer = "cancelled"
        /\ watch' = [watch EXCEPT !.todo = @ \ {g}, !.err = TRUE]
        /\ UNCHANGED <<caches, sources, src, content, queued, faults, events>>

\* ... or syncTimeout: the started source is forgotten, not closed.
WaitTimesOut(g) ==
    /\ g \in watch.todo /\ watch.start[g] # 0
    /\ faults < MaxFaults
    /\ faults' = faults + 1
    /\ watch' = [watch EXCEPT !.todo = @ \ {g}, !.err = TRUE]
    /\ UNCHANGED <<caches, sources, src, content, queued, events>>

\* Watch returns; its error makes the reconciler retry.
WatchEnd ==
    /\ watch.pc = "watch" /\ watch.todo = {}
    /\ queued' = (queued \/ watch.err)
    /\ watch' = Idle
    /\ UNCHANGED <<caches, sources, src, content, faults, events>>

\* The cleanup-contentmanager-cache finalizer: Delete closes every source and
\* drops the cache. An extension of the same name may then be created.
DeleteCache ==
    /\ MuFree /\ caches # 0 /\ events < MaxEvents
    /\ events' = events + 1
    /\ src' = Closed(src, {sources[g] : g \in GVKs} \ {0})
    /\ sources' = [g \in GVKs |-> 0]
    /\ caches' = 0
    /\ queued' = TRUE
    /\ UNCHANGED <<watch, content, faults>>

\* An upgrade changes the kinds of the release and requeues.
ApplyRelease(kinds) ==
    /\ MuFree /\ events < MaxEvents /\ kinds # content
    /\ events' = events + 1
    /\ content' = kinds
    /\ queued' = TRUE
    /\ UNCHANGED <<caches, sources, src, watch, faults>>

-----------------------------------------------------------------------------
(* A source.                                                               *)

\* The informer's first list is complete.
InformerSyncs(i) ==
    /\ src[i].informer = "running" /\ ~src[i].hasSynced
    /\ src' = [src EXCEPT ![i].hasSynced = TRUE]
    /\ UNCHANGED <<caches, sources, watch, content, queued, faults, events>>

\* The poll sees HasSynced and sends; it ends with the informer's context.
AnnounceSync(i) ==
    /\ src[i].informer = "running" /\ src[i].hasSynced
    /\ src[i].syncedChan = "open"
    /\ src' = [src EXCEPT ![i].syncedChan = "sending"]
    /\ UNCHANGED <<caches, sources, watch, content, queued, faults, events>>

\* OnUpdate and OnDelete (tombstones too) of an owned object requeue the
\* extension; the predicates drop OnAdd.
ObjectChanges(i) ==
    /\ src[i].informer = "running" /\ src[i].hasSynced /\ ~queued
    /\ events < MaxEvents
    /\ events' = events + 1
    /\ queued' = TRUE
    /\ UNCHANGED <<caches, sources, src, watch, content, faults>>

\* The watch fails: the error handler closes erroredChan.
WatchErrors(i) ==
    /\ src[i].informer = "running" /\ src[i].handler = "none"
    /\ faults < MaxFaults
    /\ faults' = faults + 1
    /\ src' = [src EXCEPT ![i].handler = "failed", ![i].errored = TRUE]
    /\ UNCHANGED <<caches, sources, watch, content, queued, events>>

\* hasSynced receives from syncedChan, and so also takes the announcement
\* that WaitForSync has not yet received.
HandlerChecks(i) ==
    /\ src[i].handler = "failed"
    /\ src' = [src EXCEPT ![i] =
         IF @.syncedChan = "open"
         THEN [@ EXCEPT !.handler = "cancel", !.preSync = TRUE]
         ELSE [@ EXCEPT !.handler = "callback", !.syncedChan = "closed"]]
    /\ UNCHANGED <<caches, sources, watch, content, queued, faults, events>>

\* Mutant: the callback reports the error and leaves the source in place.
OnPostSyncErrorKeeps(i) ==
    /\ src[i].handler = "callback" /\ MuFree
    /\ src' = [src EXCEPT ![i].handler = "requeue"]
    /\ UNCHANGED <<caches, sources, watch, content, queued, faults, events>>

\* OnPostSyncError: under mu, close and delete the source the cache holds for
\* this kind now, which may be a later one.
OnPostSyncError(i) ==
    LET g == src[i].gvk
        now == IF src[i].cache = caches THEN {sources[g]} \ {0} ELSE {}
    IN  /\ src[i].handler = "callback" /\ MuFree
        /\ src' = [Closed(src, now) EXCEPT ![i].handler = "requeue"]
        /\ sources' = IF now = {} THEN sources ELSE [sources EXCEPT ![g] = 0]
        /\ UNCHANGED <<caches, watch, content, queued, faults, events>>

\* informerCancel, and the deferred q.Add of the owner after a callback.
HandlerEnds(i) ==
    /\ src[i].handler \in {"cancel", "requeue"}
    /\ src' = [src EXCEPT ![i].informer = "cancelled", ![i].handler = "done"]
    /\ queued' = (queued \/ src[i].handler = "requeue")
    /\ UNCHANGED <<caches, sources, watch, content, faults, events>>

ContentNext ==
    \/ WatchBegin \/ WatchEnd \/ DeleteCache
    \/ \E g \in GVKs : \/ StartNewSource(g) \/ StartFails(g)
                       \/ WaitSynced(g) \/ WaitErrored(g) \/ WaitTimesOut(g)
    \/ \E kinds \in (SUBSET GVKs) \ {{}} : ApplyRelease(kinds)
    \/ \E i \in Ids : \/ InformerSyncs(i) \/ AnnounceSync(i) \/ ObjectChanges(i)
                      \/ WatchErrors(i) \/ HandlerChecks(i)
                      \/ OnPostSyncError(i) \/ HandlerEnds(i)

ContentSpec == ContentInit /\ [][ContentNext]_contentVars

-----------------------------------------------------------------------------
(* Every kind of the release is watched, or the worker will see to it: its *)
(* informer runs, and if the watch has failed its handler is still to take *)
(* it out of the cache; or a handler is about to requeue the extension, or *)
(* the worker has it. What a test hardly reaches: the callback of a source *)
(* waits for mu while Watch runs, Watch leaves the dead source alone or    *)
(* replaces it, and the callback then closes the replacement. The one      *)
(* exception, a source whose error handler saw no sync although            *)
(* WaitForSync later did, is stated apart.                                 *)
Noticed ==
    \/ queued \/ watch.pc = "watch"
    \/ \E i \in Ids : src[i].handler = "requeue"
Watched(i) ==
    /\ src[i].informer = "running"
    /\ src[i].errored => src[i].handler \in {"failed", "callback"}
DeadSourceRequeued ==
    \A g \in content :
      \/ Noticed
      \/ sources[g] # 0 /\ (Watched(sources[g]) \/ src[sources[g]].preSync)

(* The comment on the watch error handler (dynamicsource.go): if the error *)
(* comes before the first sync, "requeuing of the ClusterExtension should  *)
(* happen by the WaitForSync function returning an error". So a source     *)
(* whose handler saw no sync never enters the cache.                       *)
PreSyncErrorReturned == \A i \in Ids : src[i].preSync => ~src[i].added

(* A source that left the cache is closed: removal, replacement, the error *)
(* callback and Delete all cancel its informer, in whatever order.         *)
RemovedClosed ==
    \A i \in Ids : src[i].added /\ (\A g \in GVKs : sources[g] # i)
                     => src[i].informer = "cancelled"
=============================================================================
