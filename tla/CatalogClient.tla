---------------------------- MODULE CatalogClient ----------------------------
(***************************************************************************)
(* operator-controller's view of the catalogs: a controller of its own     *)
(* downloads the content of every served ClusterCatalog into a cache on    *)
(* disk (controllers/clustercatalog_controller.go,                         *)
(* catalogmetadata/client, catalogmetadata/cache), and the passes of the   *)
(* ClusterExtension controller read packages from it. The cache is locked  *)
(* while it is written and while a view of it is handed out, but not while *)
(* files are read through such a view.                                     *)
(*                                                                         *)
(* catalogd is here what CatalogService says of it; operator-controller    *)
(* sees the ClusterCatalogs through a watch that lags.                     *)
(***************************************************************************)
EXTENDS Naturals

CONSTANTS
  Catalogs,      \* names of ClusterCatalogs
  Digests,       \* digests of catalog images
  None,          \* no content, reference, entry or directory
  PackageFiles,  \* bound: the files of a package, read one by one
  MaxPuts,       \* bound on the contents catalogd stores
  MaxFaults      \* bound on failing calls and crashes

ASSUME ClientBounds == /\ PackageFiles \in Nat \ {0}
                       /\ MaxPuts \in Nat /\ MaxFaults \in Nat
ASSUME ClientNone == None \notin Nat /\ None \notin Digests

VARIABLES
  exists, content, advert,  \* catalogd, as in CatalogService
  stamp,    \* history: how many contents catalogd has stored, per catalog
  since,    \* history: the stamp at which a digest was first advertised
  seen,     \* the ClusterCatalogs in operator-controller's watch cache
  entry,    \* cacheDataByCatalogName
  files,    \* the cache directory of each catalog
  pop,      \* the pass of the ClusterCatalog controller in progress
  reader,   \* a GetPackage call in progress
  faults    \* how many faults have happened

Server == INSTANCE CatalogService

serverVars == <<exists, content, advert, stamp, since>>
cacheVars == <<entry, files>>
vars == <<serverVars, seen, cacheVars, pop, reader, faults>>

(* Content as downloaded: the digest, and when it was stored. *)
Versions == [digest : Digests, at : 1..MaxPuts]
Entries == [ref : Digests, err : BOOLEAN]

PopIdle == [pc |-> "idle", cat |-> None, ref |-> None, body |-> None]
ReadIdle == [pc |-> "idle", cat |-> None, ref |-> None, left |-> 0, got |-> {}]
Look(k) == [ex |-> k \in exists, ref |-> advert[k]]

Init ==
  /\ Server!Init
  /\ stamp = [k \in Catalogs |-> 0]
  /\ since = [k \in Catalogs |-> [d \in Digests |-> None]]
  /\ seen = [k \in Catalogs |-> Look(k)]
  /\ entry = [k \in Catalogs |-> None]
  /\ files = [k \in Catalogs |-> None]
  /\ pop = PopIdle
  /\ reader = ReadIdle
  /\ faults = 0

Fault == faults < MaxFaults /\ faults' = faults + 1

(* A step of catalogd, with the history of what it stored and advertised. *)
Serve ==
  /\ Server!Next
  /\ stamp' = [k \in Catalogs |-> IF content'[k] \in {None, content[k]} THEN stamp[k]
                                  ELSE stamp[k] + 1]
  /\ \A k \in Catalogs : stamp'[k] <= MaxPuts
  /\ since' = [k \in Catalogs |-> [d \in Digests |->
                 IF advert'[k] = d /\ since[k][d] = None THEN stamp[k] ELSE since[k][d]]]
  /\ UNCHANGED <<seen, cacheVars, pop, reader, faults>>

Deliver(k) ==
  /\ seen[k] # Look(k)
  /\ seen' = [seen EXCEPT ![k] = Look(k)]
  /\ UNCHANGED <<serverVars, cacheVars, pop, reader, faults>>

-----------------------------------------------------------------------------
(* The ClusterCatalog controller of operator-controller. *)

(* Put holds the lock of the cache from the first byte to the map entry. *)
Locked == pop.pc \in {"write", "swap", "rename"}

GetAnyRef(k, ref) == entry[k] # None /\ ~entry[k].err

(* filesystemCache.get: a hit is an entry of this very reference that was    *)
(* populated without an error.                                              *)
Get(k, ref) == entry[k] # None /\ entry[k].ref = ref /\ ~entry[k].err

BeginPopulateOnce(k) ==
  /\ pop.pc = "idle"
  /\ seen[k].ex /\ seen[k].ref # None
  /\ ~(entry[k] # None /\ entry[k].ref = seen[k].ref)
  /\ pop' = [PopIdle EXCEPT !.pc = "request", !.cat = k, !.ref = seen[k].ref]
  /\ UNCHANGED <<serverVars, seen, cacheVars, reader, faults>>

(* A reference that is not cached, or cached as an error. *)
BeginPopulate(k) ==
  /\ pop.pc = "idle"
  /\ seen[k].ex /\ seen[k].ref # None
  /\ ~Get(k, seen[k].ref)
  /\ pop' = [PopIdle EXCEPT !.pc = "request", !.cat = k, !.ref = seen[k].ref]
  /\ UNCHANGED <<serverVars, seen, cacheVars, reader, faults>>

(* A catalog that was deleted: Remove does nothing without an entry. *)
RemoveEntry(k) ==
  /\ pop.pc = "idle"
  /\ ~seen[k].ex /\ entry[k] # None
  /\ files' = [files EXCEPT ![k] = None]
  /\ entry' = [entry EXCEPT ![k] = None]
  /\ UNCHANGED <<serverVars, seen, pop, reader, faults>>

(* The removal fails and may have emptied the directory: the entry stays. *)
FailRemove(k) ==
  /\ pop.pc = "idle"
  /\ ~seen[k].ex /\ entry[k] # None
  /\ Fault
  /\ files' \in {files, [files EXCEPT ![k] = None]}
  /\ UNCHANGED <<serverVars, seen, entry, pop, reader>>

(* The response is the file that is open when the request is served; any     *)
(* status but 200 ends the pass and is not cached.                           *)
Request ==
  /\ pop.pc = "request"
  /\ pop' = IF content[pop.cat] = None THEN PopIdle
            ELSE [pop EXCEPT !.pc = "write",
                             !.body = [digest |-> content[pop.cat], at |-> stamp[pop.cat]]]
  /\ UNCHANGED <<serverVars, seen, cacheVars, reader, faults>>

(* The request reaches a catalogd pod that does not lead and has no content. *)
NonLeaderResponse ==
  /\ pop.pc = "request"
  /\ Fault
  /\ pop' = PopIdle
  /\ UNCHANGED <<serverVars, seen, cacheVars, reader>>

(* Put records an entry for the reference the pass started with. *)
Record(err) ==
  /\ entry' = [entry EXCEPT ![pop.cat] = [ref |-> pop.ref, err |-> err]]
  /\ pop' = PopIdle

(* writeFS: into a temporary directory, then the old directory goes ... *)
WriteBody ==
  /\ pop.pc = "write"
  /\ pop' = [pop EXCEPT !.pc = "swap"]
  /\ UNCHANGED <<serverVars, seen, cacheVars, reader, faults>>

RemoveOld ==
  /\ pop.pc = "swap"
  /\ files' = [files EXCEPT ![pop.cat] = None]
  /\ pop' = [pop EXCEPT !.pc = "rename"]
  /\ UNCHANGED <<serverVars, seen, entry, reader, faults>>

(* ... and the new one takes its place. *)
RenameNew ==
  /\ pop.pc = "rename"
  /\ files' = [files EXCEPT ![pop.cat] = pop.body]
  /\ Record(FALSE)
  /\ UNCHANGED <<serverVars, seen, reader, faults>>

FailPopulateHidden ==
  /\ pop.pc \in {"request", "write", "swap", "rename"}
  /\ Fault
  /\ \/ UNCHANGED files
     \/ pop.pc = "swap" /\ files' = [files EXCEPT ![pop.cat] = None]
  /\ Record(FALSE)
  /\ UNCHANGED <<serverVars, seen, reader>>

(* A failing request, download or file operation is cached as an error; only *)
(* a failing removal touches the old directory.                              *)
FailPopulate ==
  /\ pop.pc \in {"request", "write", "swap", "rename"}
  /\ Fault
  /\ \/ UNCHANGED files
     \/ pop.pc = "swap" /\ files' = [files EXCEPT ![pop.cat] = None]
  /\ Record(TRUE)
  /\ UNCHANGED <<serverVars, seen, reader>>

-----------------------------------------------------------------------------
(* GetPackage, called from a pass of the ClusterExtension controller. *)

BeginRead(k) ==
  /\ reader.pc = "idle" /\ ~Locked
  /\ seen[k].ex /\ seen[k].ref # None
  /\ Get(k, seen[k].ref)
  /\ reader' = [ReadIdle EXCEPT !.pc = "read", !.cat = k, !.ref = seen[k].ref,
                                !.left = PackageFiles]
  /\ UNCHANGED <<serverVars, seen, cacheVars, pop, faults>>

(* The files of the package, one by one, through the path of the directory:  *)
(* a path that is gone makes it an empty package.                            *)
ReadFile ==
  /\ reader.pc = "read" /\ reader.left > 0
  /\ reader' = IF files[reader.cat] = None THEN ReadIdle
               ELSE [reader EXCEPT !.left = @ - 1, !.got = @ \cup {files[reader.cat]}]
  /\ UNCHANGED <<serverVars, seen, cacheVars, pop, faults>>

EndRead ==
  /\ reader.pc = "read" /\ reader.left = 0
  /\ reader' = ReadIdle
  /\ UNCHANGED <<serverVars, seen, cacheVars, pop, faults>>

(* A restart empties the cache directory. *)
Crash ==
  /\ Fault
  /\ seen' = [k \in Catalogs |-> Look(k)]
  /\ entry' = [k \in Catalogs |-> None]
  /\ files' = [k \in Catalogs |-> None]
  /\ pop' = PopIdle
  /\ reader' = ReadIdle
  /\ UNCHANGED serverVars

-----------------------------------------------------------------------------
Populate == Request \/ WriteBody \/ RemoveOld \/ RenameNew
Read == ReadFile \/ EndRead

Next ==
  \/ Serve
  \/ \E k \in Catalogs : Deliver(k) \/ BeginPopulate(k) \/ RemoveEntry(k) \/ BeginRead(k)
  \/ Populate \/ Read
  \/ NonLeaderResponse \/ FailPopulate \/ (\E k \in Catalogs : FailRemove(k)) \/ Crash

Spec == Init /\ [][Next]_vars

(* The work queue retries a pass that returned an error and the watch        *)
(* delivers; catalogd, users and readers owe nothing.                        *)
LiveSpec ==
  /\ Spec
  /\ WF_vars(Populate)
  /\ \A k \in Catalogs : SF_vars(BeginPopulate(k)) /\ WF_vars(Deliver(k))

-----------------------------------------------------------------------------
(* Type invariant of the cache, the passes and the history. *)
TypeOK ==
  /\ exists \subseteq Catalogs
  /\ content \in [Catalogs -> Digests \cup {None}]
  /\ advert \in [Catalogs -> Digests \cup {None}]
  /\ stamp \in [Catalogs -> 0..MaxPuts]
  /\ since \in [Catalogs -> [Digests -> 0..MaxPuts \cup {None}]]
  /\ seen \in [Catalogs -> [ex : BOOLEAN, ref : Digests \cup {None}]]
  /\ entry \in [Catalogs -> Entries \cup {None}]
  /\ files \in [Catalogs -> Versions \cup {None}]
  /\ pop \in [pc : {"idle", "request", "write", "swap", "rename"},
              cat : Catalogs \cup {None}, ref : Digests \cup {None},
              body : Versions \cup {None}]
  /\ reader \in [pc : {"idle", "read"}, cat : Catalogs \cup {None},
                 ref : Digests \cup {None}, left : 0..PackageFiles, got : SUBSET Versions]
  /\ faults \in 0..MaxFaults

(* Version v may pass for reference ref of catalog k: it is that image, or   *)
(* was stored after ref was first advertised.                                *)
NotOlder(k, ref, v) == v.digest = ref \/ (since[k][ref] # None /\ v.at > since[k][ref])

(* What is cached under a reference is never content that the reference      *)
(* replaced: the label is read before the content is requested, and catalogd *)
(* stores before it advertises. (Newer content may carry the old label.)     *)
CachedNotOlder ==
  \A k \in Catalogs : entry[k] # None /\ ~entry[k].err /\ files[k] # None
                        => NotOlder(k, entry[k].ref, files[k])

(* A package read for a reference never mixes in content that the reference  *)
(* replaced, although the cache is rewritten while it is read.               *)
ReadNotOlder == \A v \in reader.got : NotOlder(reader.cat, reader.ref, v)

(* The cache comes to hold every catalog that stays: errors it cached, lost  *)
(* responses and restarts do not keep a settled catalog from the extensions. *)
Populated ==
  \A k \in Catalogs, d \in Digests :
    [](k \in exists) /\ <>[](advert[k] = d /\ content[k] # None)
      => <>[](Get(k, d) /\ files[k] # None)
=============================================================================
