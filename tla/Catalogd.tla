------------------------------ MODULE Catalogd ------------------------------
(***************************************************************************)
(* catalogd: the controller that unpacks the image of every ClusterCatalog *)
(* and serves its content.                                                 *)
(*                                                                         *)
(* Three parts share one disk and the Kubernetes API:                      *)
(*   - the ClusterCatalog reconciler, with its in-memory map of what it    *)
(*     stored (internal/catalogd/controllers/core);                        *)
(*   - the unpack cache of images and the puller that fills it             *)
(*     (internal/shared/util/image), and the content directories           *)
(*     (internal/catalogd/storage/localdir.go);                            *)
(*   - the garbage collector, a goroutine of its own that takes none of    *)
(*     the locks (internal/catalogd/garbagecollection).                    *)
(* The reconciler runs one worker, reads catalogs from a cache that lags   *)
(* behind the API, and keeps its map in memory: a crash loses the map and  *)
(* leaves on disk whatever was written.                                    *)
(***************************************************************************)
EXTENDS Naturals, FiniteSets

CONSTANTS
  Catalogs,   \* names of ClusterCatalogs
  MaxDigest,  \* bound: image digests are 1..MaxDigest
  Rollbacks,  \* may a tag move back to a digest it had before?
  MaxUser,    \* bound on what users and image publishers do
  MaxFaults,  \* bound on failing calls and crashes
  None        \* an absent directory, map entry or reference

ASSUME CatalogBounds == MaxDigest \in Nat \ {0} /\ MaxUser \in Nat /\ MaxFaults \in Nat
ASSUME CatalogFlags == Rollbacks \in BOOLEAN

Digests == 1..MaxDigest
Tag == 0                          \* a spec.source.image.ref that names a tag
ASSUME NoneAssumption == None \notin Nat

VARIABLES
  byTag,   \* catalogs whose spec names a tag; the others name a digest
  tag,     \* the digest the registry's tag points to, per catalog
  api,     \* the ClusterCatalogs, as the API server holds them
  cached,  \* the ClusterCatalogs, as the manager's cache holds them
  stored,  \* storedCatalogs: what the reconciler remembers of its last Store
  image,   \* unpack cache: catalog and digest -> the unpacked directory
  dir,     \* storage: catalog -> the content directory it is served from
  tmp,     \* storage: catalog -> the temporary directory of a Store
  worker,  \* the reconciler's pass in progress
  gc,      \* the garbage collector's run in progress
  user,    \* how much users have done
  faults   \* how many faults have happened

envVars == <<byTag, tag, user>>
diskVars == <<image, dir, tmp>>
vars == <<envVars, api, cached, stored, diskVars, worker, gc, faults>>

-----------------------------------------------------------------------------
(* Catalogs and their status. Progressing and Serving are modelled by their *)
(* reasons and observed generations; "ref" stands for resolvedSource, urls  *)
(* and lastUnpacked, which are set and cleared together.                    *)

NoStatus == [prog |-> "", pgen |-> 0, serv |-> "", sgen |-> 0, ref |-> None]
Statuses == [prog : {"", "Succeeded", "Retrying"}, pgen : Nat,
             serv : {"", "Available", "Unavailable", "UserSpecifiedUnavailable"},
             sgen : Nat, ref : Digests \cup {None}]

Gone == [ex |-> FALSE, mode |-> "Available", ref |-> Tag, gen |-> 0,
         deleting |-> FALSE, fin |-> FALSE, status |-> NoStatus]
Created(ref) == [Gone EXCEPT !.ex = TRUE, !.ref = ref, !.gen = 1]
CatalogStates == [ex : BOOLEAN, mode : {"Available", "Unavailable"},
                  ref : Digests \cup {Tag}, gen : Nat, deleting : BOOLEAN,
                  fin : BOOLEAN, status : Statuses]

Retrying(s, gen) == [s EXCEPT !.prog = "Retrying", !.pgen = gen]
updateStatusServing(s, ref, gen) ==
  [prog |-> "Succeeded", pgen |-> gen, serv |-> "Available", sgen |-> gen, ref |-> ref]
updateStatusNotServing(s, gen) ==
  [s EXCEPT !.serv = "Unavailable", !.sgen = gen, !.ref = None]
updateStatusUserSpecifiedUnavailable(s, gen) ==
  [s EXCEPT !.prog = "Succeeded", !.pgen = gen,
            !.serv = "UserSpecifiedUnavailable", !.sgen = gen]

(* A directory: the digest its content was really taken from, and whether   *)
(* every layer and file was written.                                        *)
Content == [src : Digests \cup {0}, whole : BOOLEAN]
EmptyDir == [src |-> 0, whole |-> FALSE]
NoImages == [d \in Digests |-> None]

Idle == [pc |-> "idle", cat |-> None, copy |-> Gone, status |-> NoStatus,
         fin |-> FALSE, ref |-> None, src |-> 0]
Workers == [pc : {"idle", "delStore", "delImage", "resolve", "copy", "unpack", "store",
                   "write", "swap", "rename", "status", "finalizers"},
            cat : Catalogs \cup {None}, copy : CatalogStates, status : Statuses,
            fin : BOOLEAN, ref : Digests \cup {None}, src : Digests \cup {0}]

CacheEntries == {"image", "dir", "tmp"} \X Catalogs
Collectors == [pc : {"list", "read", "remove"}, path : {"unpack", "store"},
               expected : SUBSET Catalogs, todo : SUBSET CacheEntries]
GCIdle == [pc |-> "list", path |-> "unpack", expected |-> {}, todo |-> {}]

RefsFor(c) == IF byTag[c] THEN {Tag} ELSE Digests

Init ==
  /\ byTag \in [Catalogs -> BOOLEAN]
  /\ tag = [c \in Catalogs |-> 1]
  /\ api \in [Catalogs -> {Created(r) : r \in Digests \cup {Tag}}]
  /\ \A c \in Catalogs : api[c].ref \in RefsFor(c)
  /\ cached = api
  /\ stored = [c \in Catalogs |-> None]
  /\ image = [c \in Catalogs |-> NoImages]
  /\ dir = [c \in Catalogs |-> None]
  /\ tmp = [c \in Catalogs |-> None]
  /\ worker = Idle
  /\ gc = GCIdle
  /\ user = 0
  /\ faults = 0

-----------------------------------------------------------------------------
(* Users edit catalogs, publishers move tags, the watch feeds the cache.    *)

Act == user < MaxUser /\ user' = user + 1
Fault == faults < MaxFaults /\ faults' = faults + 1

WriteCatalog(c, v) == api' = [api EXCEPT ![c] = v]

CreateCatalog(c) ==
  /\ Act
  /\ ~api[c].ex
  /\ \E r \in RefsFor(c) : WriteCatalog(c, Created(r))
  /\ UNCHANGED <<byTag, tag, cached, stored, diskVars, worker, gc, faults>>

(* A change of the spec increments the generation. *)
EditCatalog(c) ==
  /\ Act
  /\ api[c].ex
  /\ \E m \in {"Available", "Unavailable"}, r \in RefsFor(c) :
       /\ <<m, r>> # <<api[c].mode, api[c].ref>>
       /\ WriteCatalog(c, [api[c] EXCEPT !.mode = m, !.ref = r, !.gen = @ + 1])
  /\ UNCHANGED <<byTag, tag, cached, stored, diskVars, worker, gc, faults>>

DeleteCatalog(c) ==
  /\ Act
  /\ api[c].ex /\ ~api[c].deleting
  /\ WriteCatalog(c, IF api[c].fin THEN [api[c] EXCEPT !.deleting = TRUE] ELSE Gone)
  /\ UNCHANGED <<byTag, tag, cached, stored, diskVars, worker, gc, faults>>

MoveTag(c) ==
  /\ Act
  /\ byTag[c]
  /\ \E d \in Digests \ {tag[c]} :
       /\ Rollbacks \/ d > tag[c]
       /\ tag' = [tag EXCEPT ![c] = d]
  /\ UNCHANGED <<byTag, api, cached, stored, diskVars, worker, gc, faults>>

Deliver(c) ==
  /\ cached[c] # api[c]
  /\ cached' = [cached EXCEPT ![c] = api[c]]
  /\ UNCHANGED <<envVars, api, stored, diskVars, worker, gc, faults>>

-----------------------------------------------------------------------------
(* The start of a pass. *)

cat == worker.cat
Start(k, pc) ==
  [Idle EXCEPT !.pc = pc, !.cat = k, !.copy = cached[k],
               !.status = cached[k].status, !.fin = cached[k].fin]

(* What the puller resolves the reference of a catalog to. *)
Resolved(k, copy) == IF copy.ref = Tag THEN tag[k] ELSE copy.ref

(* Only a tag may be polled; the time of a poll is not modelled. *)
needsPoll(copy) == copy.ref = Tag

(* ContentExists: the content directory holds the catalog and its index. *)
ContentExists(k) == dir[k] # None

getCurrentState(k, copy) == updateStatusServing(copy.status, stored[k].ref, stored[k].gen)

needsUnpackNoStatus(k, copy) ==
  ~ /\ stored[k] # None
    /\ ContentExists(k)
    /\ copy.gen = stored[k].gen
    /\ ~needsPoll(copy)

needsUnpack(k, copy) ==
  ~ /\ stored[k] # None
    /\ ContentExists(k)
    /\ copy.status = getCurrentState(k, copy)
    /\ copy.gen = stored[k].gen
    /\ ~needsPoll(copy)

Alive(copy) == copy.ex /\ copy.mode = "Available" /\ ~copy.deleting

(* Unavailable mode, or the finalizer of a deleted catalog. *)
BeginDelete(k) ==
  /\ worker.pc = "idle"
  /\ cached[k].ex
  /\ cached[k].mode = "Unavailable" \/ (cached[k].deleting /\ cached[k].fin)
  /\ worker' = Start(k, "delStore")
  /\ UNCHANGED <<envVars, api, cached, stored, diskVars, gc, faults>>

(* The finalizer is added, and nothing else is done in that pass. *)
BeginFinalizer(k) ==
  /\ worker.pc = "idle"
  /\ Alive(cached[k]) /\ ~cached[k].fin
  /\ worker' = [Start(k, "status") EXCEPT !.fin = TRUE]
  /\ UNCHANGED <<envVars, api, cached, stored, diskVars, gc, faults>>

BeginUnpack(k) ==
  /\ worker.pc = "idle"
  /\ Alive(cached[k]) /\ cached[k].fin
  /\ needsUnpack(k, cached[k])
  /\ worker' = Start(k, "resolve")
  /\ UNCHANGED <<envVars, api, cached, stored, diskVars, gc, faults>>

(* A pass that fails forgets the stored catalog and reports Retrying. *)
FailPass(status) ==
  /\ stored' = [stored EXCEPT ![cat] = None]
  /\ worker' = [worker EXCEPT !.pc = "status",
                              !.status = Retrying(status, worker.copy.gen)]

-----------------------------------------------------------------------------
(* deleteCatalogCache: first the content, then the unpacked images. *)

DeleteContent ==
  /\ worker.pc = "delStore"
  /\ dir' = [dir EXCEPT ![cat] = None]
  /\ worker' = [worker EXCEPT !.pc = "delImage",
                  !.status = updateStatusNotServing(@, worker.copy.gen)]
  /\ UNCHANGED <<envVars, api, cached, stored, image, tmp, gc, faults>>

DeleteImagesOnly ==
  /\ worker.pc = "delImage"
  /\ image' = [image EXCEPT ![cat] = NoImages]
  /\ worker' = [worker EXCEPT !.pc = "status", !.fin = FALSE,
       !.status = IF worker.copy.mode = "Unavailable"
                  THEN updateStatusUserSpecifiedUnavailable(@, worker.copy.gen) ELSE @]
  /\ UNCHANGED <<envVars, api, cached, stored, dir, tmp, gc, faults>>

DeleteImages ==
  /\ worker.pc = "delImage"
  /\ image' = [image EXCEPT ![cat] = NoImages]
  /\ stored' = [stored EXCEPT ![cat] = None]
  /\ worker' = [worker EXCEPT !.pc = "status", !.fin = FALSE,
       !.status = IF worker.copy.mode = "Unavailable"
                  THEN updateStatusUserSpecifiedUnavailable(@, worker.copy.gen) ELSE @]
  /\ UNCHANGED <<envVars, api, cached, dir, tmp, gc, faults>>

(* A deletion of the unpacked images that fails halfway leaves parts of them. *)
Halved(images) ==
  [d \in Digests |-> IF images[d] = None THEN None ELSE [images[d] EXCEPT !.whole = FALSE]]

FailDelete ==
  /\ worker.pc \in {"delStore", "delImage"}
  /\ Fault
  /\ \/ UNCHANGED image
     \/ worker.pc = "delImage" /\ image' = [image EXCEPT ![cat] = Halved(@)]
  /\ FailPass(worker.status)
  /\ UNCHANGED <<envVars, api, cached, dir, tmp, gc>>

-----------------------------------------------------------------------------
(* The puller. The reference is resolved to a digest, which names the       *)
(* directory of the unpack cache; on a miss the image is then copied by the *)
(* reference of the spec, whatever that points to by now.                   *)

(* Fetch: any directory named after the digest counts as unpacked. *)
Fetch(k, d) == image[k][d] # None

Resolve ==
  /\ worker.pc = "resolve"
  /\ LET d == Resolved(cat, worker.copy)
     IN worker' = [worker EXCEPT !.ref = d,
                     !.pc = IF Fetch(cat, d) THEN "store" ELSE "copy"]
  /\ UNCHANGED <<envVars, api, cached, stored, diskVars, gc, faults>>

CopyImage ==
  /\ worker.pc = "copy"
  /\ LET src == Resolved(cat, worker.copy)
     IN /\ image' = [image EXCEPT ![cat][worker.ref] = [src |-> src, whole |-> FALSE]]
        /\ worker' = [worker EXCEPT !.pc = "unpack", !.src = src]
  /\ UNCHANGED <<envVars, api, cached, stored, dir, tmp, gc, faults>>

(* The last layer is applied and the other digests of the catalog are       *)
(* removed. A directory that vanished meanwhile is recreated by the layers  *)
(* still to come, or was not and the unpacking fails.                       *)
FinishUnpack ==
  /\ worker.pc = "unpack"
  /\ \/ /\ image' = [image EXCEPT ![cat] = [NoImages EXCEPT ![worker.ref] =
                       [src |-> worker.src, whole |-> image[cat][worker.ref] # None]]]
        /\ worker' = [worker EXCEPT !.pc = "store"]
        /\ UNCHANGED stored
     \/ /\ image[cat][worker.ref] = None
        /\ FailPass(worker.status)
        /\ UNCHANGED image
  /\ UNCHANGED <<envVars, api, cached, dir, tmp, gc, faults>>

(* A failed unpacking removes its directory; a failed removal of the other   *)
(* digests leaves it.                                                       *)
FailPull ==
  /\ worker.pc \in {"resolve", "copy", "unpack"}
  /\ Fault
  /\ \/ worker.pc # "unpack" /\ UNCHANGED image
     \/ /\ worker.pc = "unpack"
        /\ image' = [image EXCEPT ![cat][worker.ref] = None]
     \/ /\ worker.pc = "unpack" /\ image[cat][worker.ref] # None
        /\ image' = [image EXCEPT ![cat][worker.ref] = [src |-> worker.src, whole |-> TRUE]]
  /\ FailPass(worker.status)
  /\ UNCHANGED <<envVars, api, cached, dir, tmp, gc>>

-----------------------------------------------------------------------------
(* Store, under the storage lock: a fresh temporary directory, the content, *)
(* the removal of the old directory and the rename. The unpacked image is   *)
(* only read when the content is written.                                   *)

removeOrphanedTempDirs(k) == [tmp EXCEPT ![k] = None]

StoreBeginRemembered ==
  /\ worker.pc = "store"
  /\ tmp' = [tmp EXCEPT ![cat] = EmptyDir]
  /\ stored' = [stored EXCEPT ![cat] = [ref |-> worker.ref, gen |-> worker.copy.gen]]
  /\ worker' = [worker EXCEPT !.pc = "write"]
  /\ UNCHANGED <<envVars, api, cached, image, dir, gc, faults>>

StoreBegin ==
  /\ worker.pc = "store"
  /\ tmp' = [removeOrphanedTempDirs(cat) EXCEPT ![cat] = EmptyDir]
  /\ worker' = [worker EXCEPT !.pc = "write"]
  /\ UNCHANGED <<envVars, api, cached, stored, image, dir, gc, faults>>

StoreWrite ==
  /\ worker.pc = "write"
  /\ IF tmp[cat] # None /\ image[cat][worker.ref] # None
     THEN /\ tmp' = [tmp EXCEPT ![cat] = image[cat][worker.ref]]
          /\ worker' = [worker EXCEPT !.pc = "swap"]
          /\ UNCHANGED stored
     ELSE /\ tmp' = [tmp EXCEPT ![cat] = None]
          /\ FailPass(worker.status)
  /\ UNCHANGED <<envVars, api, cached, image, dir, gc, faults>>

StoreRemove ==
  /\ worker.pc = "swap"
  /\ dir' = [dir EXCEPT ![cat] = None]
  /\ worker' = [worker EXCEPT !.pc = "rename"]
  /\ UNCHANGED <<envVars, api, cached, stored, image, tmp, gc, faults>>

StoreRename ==
  /\ worker.pc = "rename"
  /\ tmp' = [tmp EXCEPT ![cat] = None]
  /\ IF tmp[cat] # None
     THEN /\ dir' = [dir EXCEPT ![cat] = tmp[cat]]
          /\ stored' = [stored EXCEPT ![cat] = [ref |-> worker.ref, gen |-> worker.copy.gen]]
          /\ worker' = [worker EXCEPT !.pc = "status",
               !.status = updateStatusServing(@, worker.ref, worker.copy.gen)]
     ELSE FailPass(worker.status) /\ UNCHANGED dir
  /\ UNCHANGED <<envVars, api, cached, image, gc, faults>>

FailStoreIgnored ==
  /\ worker.pc \in {"store", "write", "swap", "rename"}
  /\ Fault
  /\ tmp' = [tmp EXCEPT ![cat] = IF worker.pc = "store" THEN @ ELSE None]
  /\ worker' = [worker EXCEPT !.pc = "status",
       !.status = updateStatusServing(@, worker.ref, worker.copy.gen)]
  /\ UNCHANGED <<envVars, api, cached, stored, image, dir, gc>>

(* The rename is tried even when removing the old directory failed, and the  *)
(* roll back of a catalog without GraphQL schema may fail: then the new      *)
(* content is in place and Store reports an error all the same.              *)
FailStore ==
  /\ worker.pc \in {"store", "write", "swap", "rename"}
  /\ Fault
  /\ tmp' = [tmp EXCEPT ![cat] = IF worker.pc = "store" THEN @ ELSE None]
  /\ \/ UNCHANGED dir
     \/ worker.pc = "rename" /\ dir' = [dir EXCEPT ![cat] = tmp[cat]]
  /\ FailPass(worker.status)
  /\ UNCHANGED <<envVars, api, cached, image, gc>>

-----------------------------------------------------------------------------
(* The end of a pass: the status is updated at the version that was read,   *)
(* then the finalizers are patched at whatever version is there.            *)

AfterStatus == IF worker.fin # worker.copy.fin
               THEN [worker EXCEPT !.pc = "finalizers"] ELSE Idle

UpdateStatusAnyVersion ==
  /\ worker.pc = "status"
  /\ api' = [api EXCEPT ![cat].status = worker.status]
  /\ worker' = AfterStatus
  /\ UNCHANGED <<envVars, cached, stored, diskVars, gc, faults>>

UpdateStatus ==
  /\ worker.pc = "status"
  /\ api' = IF api[cat] = worker.copy
            THEN [api EXCEPT ![cat].status = worker.status] ELSE api
  /\ worker' = AfterStatus
  /\ UNCHANGED <<envVars, cached, stored, diskVars, gc, faults>>

FailStatus ==
  /\ worker.pc = "status" /\ worker.status # worker.copy.status
  /\ Fault
  /\ worker' = AfterStatus
  /\ UNCHANGED <<envVars, api, cached, stored, diskVars, gc>>

(* CreateOrPatch computes the patch from the cached copy; a catalog the     *)
(* cache no longer has cannot be created from an object that has a version. *)
PatchFinalizers ==
  /\ worker.pc = "finalizers"
  /\ LET a == api[cat]
         applied == cached[cat].ex /\ cached[cat].fin # worker.fin /\ a.ex
     IN api' = IF ~applied THEN api
               ELSE [api EXCEPT ![cat] = IF a.deleting /\ ~worker.fin THEN Gone
                                       ELSE [a EXCEPT !.fin = worker.fin]]
  /\ worker' = Idle
  /\ UNCHANGED <<envVars, cached, stored, diskVars, gc, faults>>

FailFinalizers ==
  /\ worker.pc = "finalizers"
  /\ Fault
  /\ worker' = Idle
  /\ UNCHANGED <<envVars, api, cached, stored, diskVars, gc>>

(* The process is killed and restarted: memory is lost, the disk is not. *)
Crash ==
  /\ Fault
  /\ stored' = [k \in Catalogs |-> None]
  /\ cached' = api
  /\ worker' = Idle
  /\ gc' = GCIdle
  /\ UNCHANGED <<envVars, api, diskVars>>

-----------------------------------------------------------------------------
(* The garbage collector: for the unpack cache, then for the storage, list  *)
(* the catalogs, read the directory, remove the entries of no catalog.      *)

EntriesVisible(path) ==
  IF path = "unpack" THEN {<<"image", k>> : k \in {k \in Catalogs : image[k] # NoImages}}
  ELSE {<<"dir", k>> : k \in {k \in Catalogs : dir[k] # None}}

Entries(path) ==
  IF path = "unpack" THEN {<<"image", k>> : k \in {k \in Catalogs : image[k] # NoImages}}
  ELSE {<<"dir", k>> : k \in {k \in Catalogs : dir[k] # None}}
         \cup {<<"tmp", k>> : k \in {k \in Catalogs : tmp[k] # None}}

Unexpected(e) == e[1] = "tmp" \/ e[2] \notin gc.expected

NextPath == [GCIdle EXCEPT !.path = IF gc.path = "unpack" THEN "store" ELSE "unpack"]
WithTodo(todo) == IF todo = {} THEN NextPath
                  ELSE [gc EXCEPT !.pc = "remove", !.todo = todo]

(* A finished unpack directory is read-only, and os.RemoveAll, run by the    *)
(* image's unprivileged user, cannot empty it.                              *)
ReadOnly(e) ==
  e[1] = "image" /\ \E d \in Digests : image[e[2]][d] # None /\ image[e[2]][d].whole

GCList ==
  /\ gc.pc = "list"
  /\ gc' = [gc EXCEPT !.pc = "read", !.expected = {k \in Catalogs : api[k].ex}]
  /\ UNCHANGED <<envVars, api, cached, stored, diskVars, worker, faults>>

GCRead ==
  /\ gc.pc = "read"
  /\ gc' = WithTodo({e \in Entries(gc.path) : Unexpected(e)})
  /\ UNCHANGED <<envVars, api, cached, stored, diskVars, worker, faults>>

(* The temporary directory a Store is working in. *)
Live(e) == e = <<"tmp", cat>> /\ worker.pc \in {"write", "swap", "rename"}

(* The collector runs every --gc-interval (12 hours), so it hits a Store at *)
(* work rarely: each hit is counted as a fault.                             *)
GCRemove(e) ==
  /\ gc.pc = "remove" /\ e \in gc.todo /\ ~ReadOnly(e)
  /\ IF Live(e) THEN Fault ELSE UNCHANGED faults
  /\ image' = IF e[1] = "image" THEN [image EXCEPT ![e[2]] = NoImages] ELSE image
  /\ dir' = IF e[1] = "dir" THEN [dir EXCEPT ![e[2]] = None] ELSE dir
  /\ tmp' = IF e[1] = "tmp" THEN [tmp EXCEPT ![e[2]] = None] ELSE tmp
  /\ gc' = WithTodo(gc.todo \ {e})
  /\ UNCHANGED <<envVars, api, cached, stored, worker>>

GCAbort(e) ==
  /\ gc.pc = "remove" /\ e \in gc.todo /\ ReadOnly(e)
  /\ gc' = NextPath
  /\ UNCHANGED <<envVars, api, cached, stored, diskVars, worker, faults>>

(* A failed list, read or removal ends the work on this path until the next  *)
(* run.                                                                     *)
FailCollect ==
  /\ Fault
  /\ gc' = NextPath
  /\ UNCHANGED <<envVars, api, cached, stored, diskVars, worker>>

-----------------------------------------------------------------------------
BeginPass == \E k \in Catalogs : BeginDelete(k) \/ BeginFinalizer(k) \/ BeginUnpack(k)

Pass == \/ DeleteContent \/ DeleteImages \/ Resolve \/ CopyImage \/ FinishUnpack
        \/ StoreBegin \/ StoreWrite \/ StoreRemove \/ StoreRename
        \/ UpdateStatus \/ PatchFinalizers

Fails == FailDelete \/ FailPull \/ FailStore \/ FailStatus \/ FailFinalizers
         \/ FailCollect \/ Crash

Collect == \/ GCList \/ GCRead
           \/ \E e \in CacheEntries : GCRemove(e) \/ GCAbort(e)

Users == \E k \in Catalogs : \/ CreateCatalog(k) \/ EditCatalog(k)
                             \/ DeleteCatalog(k) \/ MoveTag(k)

Next == BeginPass \/ Pass \/ Fails \/ Collect \/ Users \/ \E k \in Catalogs : Deliver(k)

Spec == Init /\ [][Next]_vars

(* The work queue hands out every catalog again (events, requeues, polls    *)
(* and the manager's resync), the worker, the collector's timer and the     *)
(* watch keep running. Users, publishers and faults owe nothing.            *)
LiveSpec ==
  /\ Spec
  /\ WF_vars(Pass) /\ WF_vars(Collect)
  /\ \A k \in Catalogs : /\ SF_vars(BeginDelete(k) \/ BeginFinalizer(k) \/ BeginUnpack(k))
                         /\ WF_vars(Deliver(k))

-----------------------------------------------------------------------------
(* Properties. *)

(* Type invariant of the reconciler's, the disk's and the collector's state. *)
TypeOK ==
  /\ byTag \in [Catalogs -> BOOLEAN]
  /\ tag \in [Catalogs -> Digests]
  /\ api \in [Catalogs -> CatalogStates]
  /\ cached \in [Catalogs -> CatalogStates]
  /\ stored \in [Catalogs -> [ref : Digests, gen : Nat] \cup {None}]
  /\ image \in [Catalogs -> [Digests -> Content \cup {None}]]
  /\ dir \in [Catalogs -> Content \cup {None}]
  /\ tmp \in [Catalogs -> Content \cup {None}]
  /\ worker \in Workers
  /\ gc \in Collectors
  /\ user \in 0..MaxUser
  /\ faults \in 0..MaxFaults

(* What storedCatalogs remembers of a catalog pinned to a digest is what the *)
(* content directory holds, after any sequence of passes, failed stores,     *)
(* crashes and collections: the pull, the unpack cache, the temporary        *)
(* directory and the map never mix two digests.                              *)
PinnedExact ==
  \A k \in Catalogs : ~byTag[k] /\ stored[k] # None /\ dir[k] # None
                        => dir[k].src = stored[k].ref

(* A catalog reported as UserSpecifiedUnavailable for its present generation *)
(* has no content, no unpacked image and no stored metadata left, although   *)
(* spec edits race with the pass and the cached copy lags.                   *)
UnavailableClean ==
  \A k \in Catalogs :
    /\ api[k].ex /\ api[k].mode = "Unavailable"
    /\ api[k].status.serv = "UserSpecifiedUnavailable" /\ api[k].status.sgen = api[k].gen
    => dir[k] = None /\ image[k] = NoImages /\ stored[k] = None

(* resolvedSource only ever changes to a digest whose content has replaced   *)
(* the old content in the storage: a client that sees the new reference and  *)
(* fetches the content cannot be answered with the old one. (The collector   *)
(* may have removed the content.)                                            *)
AdvertisedAfterStored ==
  [][\A k \in Catalogs :
       /\ api'[k].status.ref # api[k].status.ref /\ api'[k].status.ref # None
       /\ ~byTag[k]
       => dir[k] = None \/ dir[k].src = api'[k].status.ref]_vars

(* What the clients of pinned catalogs see of this state. *)
SeenExists == {k \in Catalogs : api[k].ex /\ ~byTag[k]}
SeenContent == [k \in Catalogs |-> IF byTag[k] \/ dir[k] = None THEN None ELSE dir[k].src]
SeenAdvert == [k \in Catalogs |-> IF byTag[k] THEN None ELSE api[k].status.ref]

Service == INSTANCE CatalogService
             WITH exists <- SeenExists, content <- SeenContent, advert <- SeenAdvert

(* catalogd implements the contract its clients rely on: whatever a pass, a  *)
(* crash or the collector does is, for the catalogs pinned to a digest, one  *)
(* of the contract's steps or none, and a status written late is never       *)
(* written over a catalog that was deleted or replaced in the meantime.      *)
ServiceContract == Service!Spec

(* The catalog is served with the content its reference resolves to, and its *)
(* status says so. Readers wait for the storage lock during a rename.        *)
Served(k) ==
  Alive(api[k]) =>
    /\ api[k].status.serv = "Available"
    /\ api[k].status.ref = Resolved(k, api[k])
    /\ worker.pc = "rename" \/ (dir[k] # None /\ dir[k].src = api[k].status.ref)

(* Once users and faults are done, an available catalog comes to be served   *)
(* for good with what its reference resolves to: no failed call, crash, lost *)
(* map or collected directory leaves it behind.                              *)
Converges == <>[](\A k \in Catalogs : Served(k))

(* The content of a catalog that no longer exists does not stay: what the    *)
(* finalizer missed, the garbage collector removes from the storage.         *)
OrphanContentCollected ==
  <>[](\A k \in Catalogs : ~api[k].ex => dir[k] = None /\ tmp[k] = None)

(* No unpacked image of a catalog that no longer exists stays in the unpack  *)
(* cache, as the garbage collector's documentation promises for every cache  *)
(* it is given.                                                              *)
OrphanImagesCollected ==
  <>[](\A k \in Catalogs : ~api[k].ex => image[k] = NoImages)

(* resolvedSource.image.ref names the manifest the served content was        *)
(* extracted from: as the API documents it, a user can fetch that very image *)
(* with other tooling.                                                       *)
ResolvedExact ==
  \A k \in Catalogs :
    /\ worker.pc = "idle" /\ dir[k] # None /\ stored[k] # None
    /\ api[k].status.serv = "Available" /\ api[k].status.ref = stored[k].ref
    => dir[k] = [src |-> api[k].status.ref, whole |-> TRUE]
=============================================================================
