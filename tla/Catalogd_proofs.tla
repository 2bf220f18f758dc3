--------------------------- MODULE Catalogd_proofs ---------------------------
(***************************************************************************)
(* Theorems about Catalogd, for any number of catalogs, digests, users'    *)
(* actions and faults.                                                     *)
(***************************************************************************)
EXTENDS Catalogd, TLAPS

(* The passes that have resolved the reference of their catalog. *)
Pulled == {"copy", "unpack", "store", "write", "swap", "rename"}

(* The inductive strengthening of TypeOK: a pass is about a catalog, and a
   pass that pulls or stores has a digest. *)
WorkerNamed == worker.pc # "idle" => worker.cat \in Catalogs
RefResolved == worker.pc \in Pulled => worker.ref \in Digests
TypeInv == TypeOK /\ WorkerNamed /\ RefResolved

(* The constant states are of their types. *)
LEMMA ConstantTypes ==
  /\ NoStatus \in Statuses /\ Gone \in CatalogStates
  /\ Idle \in Workers /\ Idle.pc = "idle"
  /\ GCIdle \in Collectors
  /\ EmptyDir \in Content
  /\ NoImages \in [Digests -> Content \cup {None}]
  /\ \A r \in Digests \cup {Tag} : Created(r) \in CatalogStates
PROOF
<1>1. NoStatus \in Statuses BY DEF NoStatus, Statuses
<1>2. Gone \in CatalogStates BY <1>1 DEF Gone, CatalogStates
<1>3. Idle \in Workers /\ Idle.pc = "idle" BY <1>1, <1>2 DEF Idle, Workers
<1>4. GCIdle \in Collectors BY DEF GCIdle, Collectors
<1>5. EmptyDir \in Content BY DEF EmptyDir, Content
<1>6. NoImages \in [Digests -> Content \cup {None}] BY DEF NoImages
<1>7. \A r \in Digests \cup {Tag} : Created(r) \in CatalogStates
  BY <1>1 DEF Created, Gone, CatalogStates
<1> QED BY <1>1, <1>2, <1>3, <1>4, <1>5, <1>6, <1>7

(* What a pass writes into the status keeps its type. *)
LEMMA StatusTypes ==
  ASSUME NEW s \in Statuses, NEW g \in Nat, NEW d \in Digests
  PROVE  /\ Retrying(s, g) \in Statuses
         /\ updateStatusServing(s, d, g) \in Statuses
         /\ updateStatusNotServing(s, g) \in Statuses
         /\ updateStatusUserSpecifiedUnavailable(s, g) \in Statuses
PROOF BY DEF Statuses, Retrying, updateStatusServing, updateStatusNotServing,
             updateStatusUserSpecifiedUnavailable

(* A failing pass goes on to report it. *)
LEMMA FailPassType ==
  ASSUME TypeOK, NEW s \in Statuses, FailPass(s)
  PROVE  /\ worker' \in Workers /\ worker'.pc = "status" /\ worker'.cat = worker.cat
         /\ stored' \in [Catalogs -> [ref : Digests, gen : Nat] \cup {None}]
PROOF
<1>1. worker \in Workers /\ worker.copy.gen \in Nat
  BY DEF TypeOK, Workers, CatalogStates
<1>2. Retrying(s, worker.copy.gen) \in Statuses
  BY <1>1 DEF Statuses, Retrying
<1>3. worker' = [worker EXCEPT !.pc = "status", !.status = Retrying(s, worker.copy.gen)]
  BY DEF FailPass
<1>4. stored' \in [Catalogs -> [ref : Digests, gen : Nat] \cup {None}]
  BY DEF FailPass, TypeOK
<1> QED BY <1>1, <1>2, <1>3, <1>4 DEF Workers

(* A pass starts from a catalog of the cache. *)
LEMMA StartType ==
  ASSUME TypeOK, NEW k \in Catalogs, NEW pc \in {"delStore", "resolve", "status"}
  PROVE  /\ Start(k, pc) \in Workers /\ [Start(k, pc) EXCEPT !.fin = TRUE] \in Workers
         /\ Start(k, pc).pc = pc /\ Start(k, pc).cat = k /\ Start(k, pc).copy = cached[k]
         /\ Start(k, pc).status = cached[k].status
PROOF
<1>1. cached[k] \in CatalogStates BY DEF TypeOK
<1>2. cached[k].status \in Statuses /\ cached[k].fin \in BOOLEAN BY <1>1 DEF CatalogStates
<1>3. Idle \in Workers BY ConstantTypes
<1> QED BY <1>1, <1>2, <1>3 DEF Start, Workers

(* The collector's next state. *)
LEMMA CollectorTypes ==
  ASSUME TypeOK, NEW T \in SUBSET CacheEntries
  PROVE  NextPath \in Collectors /\ WithTodo(T) \in Collectors
PROOF
<1>1. NextPath \in Collectors BY ConstantTypes DEF NextPath, Collectors
<1>2. [gc EXCEPT !.pc = "remove", !.todo = T] \in Collectors BY DEF TypeOK, Collectors
<1> QED BY <1>1, <1>2 DEF WithTodo

(* A reference resolves to a digest. *)
LEMMA ResolvedType ==
  ASSUME TypeOK, NEW k \in Catalogs, NEW c \in CatalogStates
  PROVE  Resolved(k, c) \in Digests
PROOF BY DEF TypeOK, Resolved, CatalogStates, Tag, Digests

(* Users and the watch: only catalogs, tags and the cached copies change. *)
LEMMA TypeUsers ==
  ASSUME TypeInv, NEW k \in Catalogs,
         CreateCatalog(k) \/ EditCatalog(k) \/ DeleteCatalog(k) \/ MoveTag(k) \/ Deliver(k)
  PROVE  TypeInv'
PROOF
<1> USE DEF TypeInv
<1>a. ASSUME UNCHANGED worker PROVE WorkerNamed' /\ RefResolved'
  BY <1>a DEF WorkerNamed, RefResolved
<1>b. ASSUME Act PROVE user' \in 0..MaxUser BY <1>b, CatalogBounds DEF Act, TypeOK
<1>c. api[k] \in CatalogStates BY DEF TypeOK
<1>1. CASE CreateCatalog(k)
  <2>1. PICK r \in RefsFor(k) : WriteCatalog(k, Created(r)) BY <1>1 DEF CreateCatalog
  <2>2. Created(r) \in CatalogStates BY ConstantTypes, <2>1 DEF RefsFor
  <2>3. api' \in [Catalogs -> CatalogStates] BY <2>1, <2>2 DEF TypeOK, WriteCatalog
  <2> QED BY <1>1, <1>a, <1>b, <2>3 DEF CreateCatalog, TypeOK, diskVars
<1>2. CASE EditCatalog(k)
  <2>1. PICK m \in {"Available", "Unavailable"}, r \in RefsFor(k) :
          WriteCatalog(k, [api[k] EXCEPT !.mode = m, !.ref = r, !.gen = @ + 1])
    BY <1>2 DEF EditCatalog
  <2>2. r \in Digests \cup {Tag} BY <2>1 DEF RefsFor
  <2>3. [api[k] EXCEPT !.mode = m, !.ref = r, !.gen = @ + 1] \in CatalogStates
    <3>1. api[k].gen + 1 \in Nat BY <1>c DEF CatalogStates
    <3>2. \A g \in Nat : [api[k] EXCEPT !.mode = m, !.ref = r, !.gen = g] \in CatalogStates
      BY <2>1, <2>2, <1>c DEF CatalogStates
    <3> QED BY <3>1, <3>2
  <2>4. api' \in [Catalogs -> CatalogStates] BY <2>1, <2>3 DEF TypeOK, WriteCatalog
  <2> QED BY <1>2, <1>a, <1>b, <2>4 DEF EditCatalog, TypeOK, diskVars
<1>3. CASE DeleteCatalog(k)
  <2>1. [api[k] EXCEPT !.deleting = TRUE] \in CatalogStates BY <1>c DEF CatalogStates
  <2>2. api' \in [Catalogs -> CatalogStates]
    BY <1>3, <2>1, ConstantTypes DEF TypeOK, WriteCatalog, DeleteCatalog
  <2> QED BY <1>3, <1>a, <1>b, <2>2 DEF DeleteCatalog, TypeOK, diskVars
<1>4. CASE MoveTag(k)
  <2>1. tag' \in [Catalogs -> Digests] BY <1>4 DEF MoveTag, TypeOK
  <2> QED BY <1>4, <1>a, <1>b, <2>1 DEF MoveTag, TypeOK, diskVars
<1>5. CASE Deliver(k)
  <2>1. cached' \in [Catalogs -> CatalogStates] BY <1>5, <1>c DEF Deliver, TypeOK
  <2> QED BY <1>5, <1>a, <2>1 DEF Deliver, TypeOK, diskVars, envVars
<1> QED BY <1>1, <1>2, <1>3, <1>4, <1>5

LEMMA TypeBegin ==
  ASSUME TypeInv, NEW k \in Catalogs, BeginDelete(k) \/ BeginFinalizer(k) \/ BeginUnpack(k)
  PROVE  TypeInv'
PROOF
<1> USE DEF TypeInv
<1>1. worker' \in Workers /\ worker'.cat = k /\ worker'.pc \in {"delStore", "resolve", "status"}
  <2>1. CASE BeginDelete(k) BY <2>1, StartType DEF BeginDelete
  <2>2. CASE BeginUnpack(k) BY <2>2, StartType DEF BeginUnpack
  <2>3. CASE BeginFinalizer(k)
    <3>1. worker' = [Start(k, "status") EXCEPT !.fin = TRUE] BY <2>3 DEF BeginFinalizer
    <3>2. Start(k, "status") \in Workers /\ worker' \in Workers
          /\ Start(k, "status").pc = "status" /\ Start(k, "status").cat = k
      BY <3>1, StartType
    <3> QED BY <3>1, <3>2 DEF Workers
  <2> QED BY <2>1, <2>2, <2>3
<1>2. UNCHANGED <<envVars, api, cached, stored, diskVars, gc, faults>>
  BY DEF BeginDelete, BeginFinalizer, BeginUnpack
<1> QED BY <1>1, <1>2 DEF TypeOK, WorkerNamed, RefResolved, Pulled, envVars, diskVars

(* The collector and the crash. *)
LEMMA TypeCollect ==
  ASSUME TypeInv,
         GCList \/ GCRead \/ (\E e \in CacheEntries : GCRemove(e) \/ GCAbort(e))
         \/ FailCollect \/ Crash
  PROVE  TypeInv'
PROOF
<1> USE DEF TypeInv
<1>f. ASSUME Fault PROVE faults' \in 0..MaxFaults BY <1>f, CatalogBounds DEF Fault, TypeOK
<1>a. ASSUME UNCHANGED worker PROVE WorkerNamed' /\ RefResolved'
  BY <1>a DEF WorkerNamed, RefResolved
<1>1. CASE GCList
  <2>1. gc' \in Collectors BY <1>1 DEF GCList, TypeOK, Collectors
  <2> QED BY <1>1, <1>a, <2>1 DEF GCList, TypeOK, envVars, diskVars
<1>2. CASE GCRead
  <2>1. Entries(gc.path) \subseteq CacheEntries BY DEF Entries, CacheEntries
  <2>2. {e \in Entries(gc.path) : Unexpected(e)} \in SUBSET CacheEntries BY <2>1
  <2>3. gc' \in Collectors BY <1>2, <2>2, CollectorTypes DEF GCRead
  <2> QED BY <1>2, <1>a, <2>3 DEF GCRead, TypeOK, envVars, diskVars
<1>3. ASSUME NEW e \in CacheEntries, GCRemove(e) PROVE TypeInv'
  <2>1. gc.todo \ {e} \in SUBSET CacheEntries BY DEF TypeOK, Collectors
  <2>2. gc' \in Collectors BY <1>3, <2>1, CollectorTypes DEF GCRemove
  <2>3. faults' \in 0..MaxFaults BY <1>3, <1>f DEF GCRemove, TypeOK
  <2>4. image' \in [Catalogs -> [Digests -> Content \cup {None}]]
    BY <1>3, ConstantTypes DEF GCRemove, TypeOK
  <2>5. /\ dir' \in [Catalogs -> Content \cup {None}]
        /\ tmp' \in [Catalogs -> Content \cup {None}]
    BY <1>3 DEF GCRemove, TypeOK
  <2> QED BY <1>3, <1>a, <2>2, <2>3, <2>4, <2>5 DEF GCRemove, TypeOK, envVars
<1>4. ASSUME NEW e \in CacheEntries, GCAbort(e) PROVE TypeInv'
  <2>1. gc' \in Collectors BY <1>4, CollectorTypes DEF GCAbort
  <2> QED BY <1>4, <1>a, <2>1 DEF GCAbort, TypeOK, envVars, diskVars
<1>5. CASE Crash
  <2>1. stored' \in [Catalogs -> [ref : Digests, gen : Nat] \cup {None}] BY <1>5 DEF Crash
  <2>2. worker' \in Workers /\ worker'.pc = "idle" /\ gc' \in Collectors
    BY <1>5, ConstantTypes DEF Crash
  <2>3. WorkerNamed' /\ RefResolved' BY <2>2 DEF WorkerNamed, RefResolved, Pulled
  <2> QED BY <1>5, <1>f, <2>1, <2>2, <2>3 DEF Crash, TypeOK, envVars, diskVars
<1>6. CASE FailCollect
  <2>1. gc' \in Collectors BY <1>6, CollectorTypes DEF FailCollect
  <2> QED BY <1>6, <1>a, <1>f, <2>1 DEF FailCollect, TypeOK, envVars, diskVars
<1> QED BY <1>1, <1>2, <1>3, <1>4, <1>5, <1>6

(* The pass steps: deletion, pull, store, and the end of the pass. *)
LEMMA TypePass ==
  ASSUME TypeInv, Pass \/ FailDelete \/ FailPull \/ FailStore \/ FailStatus \/ FailFinalizers
  PROVE  TypeInv'
PROOF
<1> USE DEF TypeInv
<1> DEFINE StoredType == [Catalogs -> [ref : Digests, gen : Nat] \cup {None}]
           ImageType == [Catalogs -> [Digests -> Content \cup {None}]]
           DirType == [Catalogs -> Content \cup {None}]
<1>f. ASSUME Fault PROVE faults' \in 0..MaxFaults BY <1>f, CatalogBounds DEF Fault, TypeOK
<1>w. /\ worker \in Workers /\ worker.status \in Statuses /\ worker.copy \in CatalogStates
      /\ worker.copy.gen \in Nat /\ worker.copy.status \in Statuses
  BY DEF TypeOK, Workers, CatalogStates
<1>i. worker.pc # "idle" => image[cat] \in [Digests -> Content \cup {None}]
  BY DEF TypeOK, WorkerNamed, cat
<1>n. ASSUME worker.pc # "idle", worker'.cat = worker.cat, worker'.pc \notin Pulled
      PROVE  WorkerNamed' /\ RefResolved'
  BY <1>n DEF WorkerNamed, RefResolved
<1>r. ASSUME worker.pc # "idle", worker'.cat = worker.cat, worker'.ref \in Digests
      PROVE  WorkerNamed' /\ RefResolved'
  BY <1>r DEF WorkerNamed, RefResolved
<1>g. ASSUME NEW s \in Statuses, FailPass(s), worker.pc # "idle"
      PROVE  worker' \in Workers /\ stored' \in StoredType /\ WorkerNamed' /\ RefResolved'
  BY <1>g, <1>n, FailPassType DEF Pulled
<1>1. CASE DeleteContent
  <2>1. worker' \in Workers /\ worker'.cat = worker.cat /\ worker'.pc = "delImage"
    BY <1>1, <1>w DEF DeleteContent, Workers, Statuses, updateStatusNotServing
  <2>2. WorkerNamed' /\ RefResolved' BY <2>1, <1>1, <1>n DEF DeleteContent, Pulled
  <2>3. dir' \in DirType BY <1>1 DEF DeleteContent, TypeOK
  <2> QED BY <1>1, <2>1, <2>2, <2>3 DEF DeleteContent, TypeOK, envVars
<1>2. CASE DeleteImages
  <2>1. worker' \in Workers /\ worker'.cat = worker.cat /\ worker'.pc = "status"
    BY <1>2, <1>w, ZenonT(40) DEF DeleteImages, Workers, Statuses, updateStatusUserSpecifiedUnavailable
  <2>2. WorkerNamed' /\ RefResolved' BY <2>1, <1>2, <1>n DEF DeleteImages, Pulled
  <2>3. image' \in ImageType BY <1>2, ConstantTypes DEF DeleteImages, TypeOK
  <2>4. stored' \in StoredType BY <1>2 DEF DeleteImages, TypeOK
  <2> QED BY <1>2, <2>1, <2>2, <2>3, <2>4 DEF DeleteImages, TypeOK, envVars
<1>3. CASE Resolve
  <2>1. cat \in Catalogs BY <1>3 DEF Resolve, WorkerNamed, cat
  <2>2. Resolved(cat, worker.copy) \in Digests BY <2>1, <1>w, ResolvedType
  <2>3. worker' \in Workers /\ worker'.cat = worker.cat /\ worker'.ref \in Digests
    BY <1>3, <2>2, <1>w DEF Resolve, Workers
  <2>4. WorkerNamed' /\ RefResolved' BY <2>3, <1>3, <1>r DEF Resolve
  <2> QED BY <1>3, <2>3, <2>4 DEF Resolve, TypeOK, envVars, diskVars
<1>4. CASE CopyImage
  <2>1. cat \in Catalogs /\ worker.ref \in Digests
    BY <1>4 DEF CopyImage, WorkerNamed, RefResolved, Pulled, cat
  <2>2. Resolved(cat, worker.copy) \in Digests BY <2>1, <1>w, ResolvedType
  <2>3. worker' \in Workers /\ worker'.cat = worker.cat /\ worker'.ref = worker.ref
    BY <1>4, <2>2, <1>w DEF CopyImage, Workers
  <2>4. WorkerNamed' /\ RefResolved' BY <2>1, <2>3, <1>4, <1>r DEF CopyImage
  <2>5. [src |-> Resolved(cat, worker.copy), whole |-> FALSE] \in Content
    BY <2>2 DEF Content
  <2>6. image' \in ImageType BY <1>4, <2>1, <2>5 DEF CopyImage, TypeOK
  <2> QED BY <1>4, <2>3, <2>4, <2>6 DEF CopyImage, TypeOK, envVars
<1>5. CASE FinishUnpack
  <2>1. worker.ref \in Digests /\ worker.src \in Digests \cup {0}
    BY <1>5, <1>w DEF FinishUnpack, RefResolved, Pulled, Workers
  <2>2. ASSUME NEW b \in BOOLEAN
        PROVE  [NoImages EXCEPT ![worker.ref] = [src |-> worker.src, whole |-> b]]
                 \in [Digests -> Content \cup {None}]
    BY <2>1, <2>2, ConstantTypes DEF Content
  <2>3. CASE worker' = [worker EXCEPT !.pc = "store"] /\ UNCHANGED stored
             /\ image' = [image EXCEPT ![cat] = [NoImages EXCEPT ![worker.ref] =
                       [src |-> worker.src, whole |-> image[cat][worker.ref] # None]]]
    <3>1. worker' \in Workers /\ worker'.cat = worker.cat /\ worker'.ref = worker.ref
      BY <2>3, <1>w DEF Workers
    <3>2. WorkerNamed' /\ RefResolved' BY <3>1, <2>1, <1>5, <1>r DEF FinishUnpack
    <3>3. (image[cat][worker.ref] # None) \in BOOLEAN OBVIOUS
    <3>4. image' \in ImageType BY <2>2, <2>3, <3>3 DEF TypeOK
    <3> QED BY <1>5, <2>3, <3>1, <3>2, <3>4 DEF FinishUnpack, TypeOK, envVars
  <2>4. CASE FailPass(worker.status) /\ UNCHANGED image
    BY <1>5, <2>4, <1>g, <1>w DEF FinishUnpack, TypeOK, envVars
  <2> QED BY <1>5, <2>3, <2>4 DEF FinishUnpack
<1>6. CASE StoreBegin
  <2>1. worker' \in Workers /\ worker'.cat = worker.cat /\ worker'.ref \in Digests
    BY <1>6, <1>w DEF StoreBegin, Workers, RefResolved, Pulled
  <2>2. WorkerNamed' /\ RefResolved' BY <2>1, <1>6, <1>r DEF StoreBegin
  <2>3. tmp' \in DirType BY <1>6, ConstantTypes DEF StoreBegin, removeOrphanedTempDirs, TypeOK
  <2> QED BY <1>6, <2>1, <2>2, <2>3 DEF StoreBegin, TypeOK, envVars
<1>7. CASE StoreWrite
  <2>1. worker.ref \in Digests /\ worker.pc # "idle"
    BY <1>7 DEF StoreWrite, RefResolved, Pulled
  <2>2. image[cat][worker.ref] \in Content \cup {None} BY <2>1, <1>i
  <2>3. tmp' \in DirType BY <1>7, <2>2 DEF StoreWrite, TypeOK
  <2>4. CASE worker' = [worker EXCEPT !.pc = "swap"] /\ UNCHANGED stored
    <3>1. worker' \in Workers /\ worker'.cat = worker.cat /\ worker'.ref = worker.ref
      BY <2>4, <1>w DEF Workers
    <3>2. WorkerNamed' /\ RefResolved' BY <3>1, <2>1, <1>r
    <3> QED BY <1>7, <2>3, <2>4, <3>1, <3>2 DEF StoreWrite, TypeOK, envVars
  <2>5. CASE FailPass(worker.status)
    BY <1>7, <2>1, <2>3, <2>5, <1>g, <1>w DEF StoreWrite, TypeOK, envVars
  <2> QED BY <1>7, <2>4, <2>5 DEF StoreWrite
<1>8. CASE StoreRemove
  <2>1. worker' \in Workers /\ worker'.cat = worker.cat /\ worker'.ref \in Digests
    BY <1>8, <1>w DEF StoreRemove, Workers, RefResolved, Pulled
  <2>2. WorkerNamed' /\ RefResolved' BY <2>1, <1>8, <1>r DEF StoreRemove
  <2>3. dir' \in DirType BY <1>8 DEF StoreRemove, TypeOK
  <2> QED BY <1>8, <2>1, <2>2, <2>3 DEF StoreRemove, TypeOK, envVars
<1>9. CASE StoreRename
  <2>1. worker.ref \in Digests /\ worker.pc # "idle" /\ cat \in Catalogs
    BY <1>9 DEF StoreRename, RefResolved, Pulled, WorkerNamed, cat
  <2>2. tmp' \in DirType BY <1>9 DEF StoreRename, TypeOK
  <2>3. CASE tmp[cat] # None
    <3>1. worker' = [worker EXCEPT !.pc = "status",
            !.status = updateStatusServing(@, worker.ref, worker.copy.gen)]
      BY <1>9, <2>3 DEF StoreRename
    <3>2. updateStatusServing(worker.status, worker.ref, worker.copy.gen) \in Statuses
      BY <2>1, <1>w, StatusTypes
    <3>3. worker' \in Workers /\ worker'.cat = worker.cat /\ worker'.pc = "status"
      BY <3>1, <3>2, <1>w DEF Workers
    <3>4. WorkerNamed' /\ RefResolved' BY <3>3, <2>1, <1>n DEF Pulled
    <3>5. [ref |-> worker.ref, gen |-> worker.copy.gen] \in [ref : Digests, gen : Nat]
      BY <2>1, <1>w
    <3>6. stored' \in StoredType BY <1>9, <2>3, <3>5 DEF StoreRename, TypeOK
    <3>7. dir' \in DirType BY <1>9, <2>1, <2>3 DEF StoreRename, TypeOK
    <3> QED BY <1>9, <2>2, <3>3, <3>4, <3>6, <3>7 DEF StoreRename, TypeOK, envVars
  <2>4. CASE tmp[cat] = None
    <3>1. FailPass(worker.status) /\ UNCHANGED dir BY <1>9, <2>4 DEF StoreRename
    <3> QED BY <1>9, <2>1, <2>2, <3>1, <1>g, <1>w DEF StoreRename, TypeOK, envVars
  <2> QED BY <2>3, <2>4
<1>10. CASE UpdateStatus \/ FailStatus
  <2>1. worker' \in Workers /\ worker'.pc \in {"idle", "finalizers"}
        /\ (worker'.pc # "idle" => worker'.cat = worker.cat)
    BY <1>10, <1>w, ConstantTypes DEF UpdateStatus, FailStatus, AfterStatus, Workers
  <2>2. WorkerNamed' /\ RefResolved'
    BY <2>1, <1>10 DEF UpdateStatus, FailStatus, WorkerNamed, RefResolved, Pulled
  <2>3. CASE UpdateStatus
    <3>1. cat \in Catalogs BY <2>3 DEF UpdateStatus, WorkerNamed, cat
    <3>2. [api[cat] EXCEPT !.status = worker.status] \in CatalogStates
      BY <3>1, <1>w DEF TypeOK, CatalogStates
    <3>3. api' \in [Catalogs -> CatalogStates] BY <2>3, <3>1, <3>2 DEF UpdateStatus, TypeOK
    <3> QED BY <2>1, <2>2, <2>3, <3>3 DEF UpdateStatus, TypeOK, envVars, diskVars
  <2>4. CASE FailStatus
    BY <2>1, <2>2, <2>4, <1>f DEF FailStatus, TypeOK, envVars, diskVars
  <2> QED BY <1>10, <2>3, <2>4
<1>11. CASE PatchFinalizers \/ FailFinalizers
  <2>1. worker' \in Workers /\ worker'.pc = "idle"
    BY <1>11, ConstantTypes DEF PatchFinalizers, FailFinalizers
  <2>2. WorkerNamed' /\ RefResolved' BY <2>1 DEF WorkerNamed, RefResolved, Pulled
  <2>3. CASE PatchFinalizers
    <3>1. cat \in Catalogs BY <2>3 DEF PatchFinalizers, WorkerNamed, cat
    <3>2. [api[cat] EXCEPT !.fin = worker.fin] \in CatalogStates
      BY <3>1, <1>w, ZenonT(40) DEF TypeOK, CatalogStates, Workers
    <3>3. api' \in [Catalogs -> CatalogStates]
      BY <2>3, <3>1, <3>2, ConstantTypes DEF PatchFinalizers, TypeOK
    <3> QED BY <2>1, <2>2, <2>3, <3>3 DEF PatchFinalizers, TypeOK, envVars, diskVars
  <2>4. CASE FailFinalizers
    BY <2>1, <2>2, <2>4, <1>f DEF FailFinalizers, TypeOK, envVars, diskVars
  <2> QED BY <1>11, <2>3, <2>4
<1>12. CASE FailDelete
  <2>1. worker.pc # "idle" /\ FailPass(worker.status) BY <1>12 DEF FailDelete
  <2>2. Halved(image[cat]) \in [Digests -> Content \cup {None}]
    BY <1>i, <2>1 DEF Halved, Content
  <2>3. image' \in ImageType BY <1>12, <2>2 DEF FailDelete, TypeOK
  <2> QED BY <1>12, <2>1, <2>3, <1>f, <1>g, <1>w DEF FailDelete, TypeOK, envVars
<1>13. CASE FailPull
  <2>1. worker.pc # "idle" /\ FailPass(worker.status) BY <1>13 DEF FailPull
  <2>2. worker.pc = "unpack" => worker.ref \in Digests BY DEF RefResolved, Pulled
  <2>3. [src |-> worker.src, whole |-> TRUE] \in Content BY <1>w DEF Content, Workers
  <2>4. image' \in ImageType BY <1>13, <2>2, <2>3, <1>i, SMTT(30) DEF FailPull, TypeOK
  <2> QED BY <1>13, <2>1, <2>4, <1>f, <1>g, <1>w DEF FailPull, TypeOK, envVars
<1>14. CASE FailStore
  <2>1. worker.pc # "idle" /\ FailPass(worker.status) BY <1>14 DEF FailStore
  <2>2. cat \in Catalogs BY <2>1 DEF WorkerNamed, cat
  <2>3. tmp' \in DirType /\ dir' \in DirType BY <1>14, <2>2 DEF FailStore, TypeOK
  <2> QED BY <1>14, <2>1, <2>3, <1>f, <1>g, <1>w DEF FailStore, TypeOK, envVars
<1> QED BY <1>1, <1>2, <1>3, <1>4, <1>5, <1>6, <1>7, <1>8, <1>9, <1>10, <1>11, <1>12,
           <1>13, <1>14 DEF Pass

LEMMA TypeInit == Init => TypeInv
PROOF
<1> SUFFICES ASSUME Init PROVE TypeInv OBVIOUS
<1>1. tag \in [Catalogs -> Digests] BY CatalogBounds DEF Init, Digests
<1>2. api \in [Catalogs -> CatalogStates] BY ConstantTypes DEF Init
<1> QED BY <1>1, <1>2, ConstantTypes, CatalogBounds
        DEF Init, TypeInv, TypeOK, WorkerNamed, RefResolved, Pulled

LEMMA TypeStep == TypeInv /\ [Next]_vars => TypeInv'
PROOF
<1> SUFFICES ASSUME TypeInv, [Next]_vars PROVE TypeInv' OBVIOUS
<1>1. CASE UNCHANGED vars
  BY <1>1 DEF TypeInv, TypeOK, WorkerNamed, RefResolved, vars, envVars, diskVars
<1>2. CASE BeginPass BY <1>2, TypeBegin DEF BeginPass
<1>3. CASE Users \/ \E k \in Catalogs : Deliver(k) BY <1>3, TypeUsers DEF Users
<1>4. CASE Collect \/ FailCollect \/ Crash BY <1>4, TypeCollect DEF Collect
<1>5. CASE Pass \/ (Fails /\ ~FailCollect /\ ~Crash) BY <1>5, TypePass DEF Fails
<1> QED BY <1>1, <1>2, <1>3, <1>4, <1>5 DEF Next, Fails

(* TypeOK holds of catalogd with any number of catalogs, digests and faults:
   in particular every digest a pass pulls under is one the puller resolved. *)
THEOREM TypeCorrect == Spec => []TypeOK
PROOF
<1>1. TypeInv => TypeOK BY DEF TypeInv
<1> QED BY <1>1, TypeInit, TypeStep, PTL DEF Spec

-----------------------------------------------------------------------------
(* Catalogs pinned to a digest: the digest is never mixed with another one,  *)
(* from the spec through the pull, the unpack cache and the temporary        *)
(* directory to the content that is served and the status that reports it.   *)

Started == {"delStore", "resolve"} \cup Pulled

PinnedRefs ==
  \A k \in Catalogs : ~byTag[k] =>
    (api[k].ex => api[k].ref # Tag) /\ (cached[k].ex => cached[k].ref # Tag)
PinnedPass ==
  worker.pc # "idle" /\ ~byTag[worker.cat] =>
    /\ worker.copy.ref # Tag
    /\ worker.pc \in Pulled => worker.ref = worker.copy.ref
    /\ worker.pc = "unpack" => worker.src = worker.ref
PinnedTmp ==
  worker.pc \in {"swap", "rename"} /\ ~byTag[worker.cat] /\ tmp[worker.cat] # None =>
    tmp[worker.cat].src = worker.ref
PinnedImages ==
  \A k \in Catalogs, d \in Digests :
    ~byTag[k] /\ image[k][d] # None => image[k][d].src = d
StatusKept ==
  /\ worker.pc \in Started => worker.status.ref = worker.copy.status.ref
  /\ worker.pc = "delImage" => worker.status.ref = None
  /\ /\ worker.pc = "status" /\ ~byTag[worker.cat]
     /\ worker.status.ref \notin {None, worker.copy.status.ref}
     => dir[worker.cat] = None \/ dir[worker.cat].src = worker.status.ref
PinInv == /\ TypeInv /\ PinnedRefs /\ PinnedPass /\ PinnedTmp /\ PinnedImages
          /\ PinnedExact /\ StatusKept

LEMMA PinInit == Init => PinInv
PROOF
<1> SUFFICES ASSUME Init PROVE PinInv OBVIOUS
<1>1. TypeInv BY TypeInit
<1>2. PinnedRefs
  <2> SUFFICES ASSUME NEW k \in Catalogs, ~byTag[k] PROVE api[k].ref # Tag
    BY DEF PinnedRefs, Init
  <2>1. api[k].ref \in Digests BY DEF Init, RefsFor
  <2> QED BY <2>1 DEF Digests, Tag
<1>3. worker.pc = "idle" BY ConstantTypes DEF Init
<1>4. PinnedImages BY DEF Init, NoImages, PinnedImages
<1>5. PinnedExact BY DEF Init, PinnedExact
<1> QED BY <1>1, <1>2, <1>3, <1>4, <1>5 DEF PinInv, PinnedPass, PinnedTmp, StatusKept, Started, Pulled

(* Users and the watch never give a pinned catalog a tag. *)
LEMMA PinUsers ==
  ASSUME PinInv, NEW k \in Catalogs,
         CreateCatalog(k) \/ EditCatalog(k) \/ DeleteCatalog(k) \/ MoveTag(k) \/ Deliver(k)
  PROVE  PinInv'
PROOF
<1>1. TypeInv' BY TypeUsers DEF PinInv
<1>2. UNCHANGED <<byTag, stored, image, dir, tmp, worker>>
  BY DEF CreateCatalog, EditCatalog, DeleteCatalog, MoveTag, Deliver, diskVars, envVars
<1>3. PinnedPass' /\ PinnedTmp' /\ PinnedImages' /\ PinnedExact' /\ StatusKept'
  BY <1>2 DEF PinInv, PinnedPass, PinnedTmp, PinnedImages, PinnedExact, StatusKept
<1>4. PinnedRefs'
  <2>a. 0 \notin Digests BY DEF Digests
  <2>b. api \in [Catalogs -> CatalogStates] /\ cached \in [Catalogs -> CatalogStates]
    BY DEF PinInv, TypeInv, TypeOK
  <2>c. api[k] \in CatalogStates BY <2>b
  <2>1. CASE CreateCatalog(k)
    <3>1. PICK r \in RefsFor(k) : WriteCatalog(k, Created(r)) BY <2>1 DEF CreateCatalog
    <3>2. Created(r).ref = r BY DEF Created, Gone
    <3>3. ~byTag[k] => Created(r).ref # Tag BY <3>1, <3>2, <2>a DEF RefsFor, Tag
    <3> QED BY <1>2, <2>1, <2>b, <3>1, <3>3 DEF CreateCatalog, WriteCatalog, PinInv, PinnedRefs
  <2>2. CASE EditCatalog(k)
    <3>1. PICK m \in {"Available", "Unavailable"}, r \in RefsFor(k) :
            WriteCatalog(k, [api[k] EXCEPT !.mode = m, !.ref = r, !.gen = @ + 1])
      BY <2>2 DEF EditCatalog
    <3>2. [api[k] EXCEPT !.mode = m, !.ref = r, !.gen = @ + 1].ref = r
      BY <2>c DEF CatalogStates
    <3>3. ~byTag[k] => r # Tag BY <3>1, <2>a DEF RefsFor, Tag
    <3> QED BY <1>2, <2>2, <2>b, <3>1, <3>2, <3>3
            DEF EditCatalog, WriteCatalog, PinInv, PinnedRefs
  <2>3. CASE DeleteCatalog(k)
    <3>1. [api[k] EXCEPT !.deleting = TRUE].ref = api[k].ref BY <2>c DEF CatalogStates
    <3>2. [api[k] EXCEPT !.deleting = TRUE].ex = api[k].ex BY <2>c DEF CatalogStates
    <3>3. Gone.ex = FALSE BY DEF Gone
    <3> QED BY <1>2, <2>3, <2>b, <3>1, <3>2, <3>3
            DEF DeleteCatalog, WriteCatalog, PinInv, PinnedRefs
  <2>4. CASE MoveTag(k) BY <2>4 DEF MoveTag, PinInv, PinnedRefs
  <2>5. CASE Deliver(k) BY <2>5, <2>b DEF Deliver, PinInv, PinnedRefs, envVars
  <2> QED BY <2>1, <2>2, <2>3, <2>4, <2>5
<1> QED BY <1>1, <1>3, <1>4 DEF PinInv

LEMMA PinBegin ==
  ASSUME PinInv, NEW k \in Catalogs, BeginDelete(k) \/ BeginFinalizer(k) \/ BeginUnpack(k)
  PROVE  PinInv'
PROOF
<1>1. TypeInv' BY TypeBegin DEF PinInv
<1>2. UNCHANGED <<byTag, api, cached, stored, image, dir, tmp>>
  BY DEF BeginDelete, BeginFinalizer, BeginUnpack, diskVars, envVars
<1>3. PinnedRefs' /\ PinnedImages' /\ PinnedExact'
  BY <1>2 DEF PinInv, PinnedRefs, PinnedImages, PinnedExact
<1>4. /\ worker'.cat = k /\ worker'.copy = cached[k] /\ worker'.status = cached[k].status
      /\ worker'.pc \in {"delStore", "resolve", "status"} /\ cached[k].ex
  <2>0. TypeOK BY DEF PinInv, TypeInv
  <2>1. CASE BeginDelete(k) BY <2>0, <2>1, StartType DEF BeginDelete
  <2>2. CASE BeginUnpack(k) BY <2>0, <2>2, StartType DEF BeginUnpack, Alive
  <2>3. CASE BeginFinalizer(k)
    <3>1. worker' = [Start(k, "status") EXCEPT !.fin = TRUE] BY <2>3 DEF BeginFinalizer
    <3>2. /\ Start(k, "status") \in Workers /\ Start(k, "status").pc = "status"
          /\ Start(k, "status").cat = k /\ Start(k, "status").copy = cached[k]
          /\ Start(k, "status").status = cached[k].status
      BY <2>0, StartType
    <3> QED BY <2>3, <3>1, <3>2 DEF Workers, BeginFinalizer, Alive
  <2> QED BY <2>1, <2>2, <2>3
<1>5. PinnedPass' /\ PinnedTmp'
  BY <1>2, <1>4 DEF PinInv, PinnedRefs, PinnedPass, PinnedTmp, Pulled
<1>6. StatusKept' BY <1>4 DEF StatusKept
<1> QED BY <1>1, <1>3, <1>5, <1>6 DEF PinInv

(* The collector removes directories, a crash forgets the stored catalogs. *)
LEMMA PinCollect ==
  ASSUME PinInv,
         GCList \/ GCRead \/ (\E e \in CacheEntries : GCRemove(e) \/ GCAbort(e))
         \/ FailCollect \/ Crash
  PROVE  PinInv'
PROOF
<1>1. TypeInv' BY TypeCollect DEF PinInv
<1>a. TypeOK BY DEF PinInv, TypeInv
<1>2. CASE Crash
  <2>1. UNCHANGED <<byTag, api, image>> /\ cached' = api /\ worker'.pc = "idle"
        /\ stored' = [k \in Catalogs |-> None]
    BY <1>2, ConstantTypes DEF Crash, envVars, diskVars
  <2>2. PinnedRefs' /\ PinnedImages' BY <2>1 DEF PinInv, PinnedRefs, PinnedImages
  <2>3. PinnedExact' BY <2>1 DEF PinnedExact
  <2>4. PinnedPass' /\ PinnedTmp' /\ StatusKept'
    BY <2>1 DEF PinnedPass, PinnedTmp, StatusKept, Started, Pulled
  <2> QED BY <1>1, <2>2, <2>3, <2>4 DEF PinInv
<1>3. ASSUME NEW e \in CacheEntries, GCRemove(e) PROVE PinInv'
  <2>1. UNCHANGED <<byTag, api, cached, stored, worker>> BY <1>3 DEF GCRemove, envVars
  <2>2. \A k \in Catalogs : image'[k] \in {image[k], NoImages}
    BY <1>3, <1>a DEF GCRemove, TypeOK
  <2>3. \A k \in Catalogs : dir'[k] \in {dir[k], None} /\ tmp'[k] \in {tmp[k], None}
    BY <1>3, <1>a DEF GCRemove, TypeOK
  <2>4. PinnedRefs' /\ PinnedPass' BY <2>1 DEF PinInv, PinnedRefs, PinnedPass
  <2>5. PinnedImages' BY <2>1, <2>2 DEF PinInv, PinnedImages, NoImages
  <2>6. PinnedExact' BY <2>1, <2>3 DEF PinInv, PinnedExact
  <2>7. PinnedTmp' /\ StatusKept'
    BY <2>1, <2>3 DEF PinInv, PinnedTmp, StatusKept, TypeInv, WorkerNamed
  <2> QED BY <1>1, <2>4, <2>5, <2>6, <2>7 DEF PinInv
<1>4. CASE GCList \/ GCRead \/ FailCollect \/ \E e \in CacheEntries : GCAbort(e)
  <2>1. UNCHANGED <<byTag, api, cached, stored, image, dir, tmp, worker>>
    BY <1>4 DEF GCList, GCRead, GCAbort, FailCollect, envVars, diskVars
  <2> QED BY <1>1, <2>1 DEF PinInv, PinnedRefs, PinnedPass, PinnedTmp, PinnedImages,
             PinnedExact, StatusKept
<1> QED BY <1>2, <1>3, <1>4

(* A failing pass forgets the stored catalog and keeps the reported digest. *)
LEMMA PinFail ==
  ASSUME PinInv, worker.pc \in Started \cup {"delImage"}, FailPass(worker.status),
         UNCHANGED <<byTag, api, cached>>, PinnedImages', TypeInv',
         dir' \in [Catalogs -> Content \cup {None}],
         \A k \in Catalogs : k # worker.cat => dir'[k] = dir[k]
  PROVE  PinInv'
PROOF
<1>1. TypeOK /\ worker \in Workers /\ worker.cat \in Catalogs
  BY DEF PinInv, TypeInv, TypeOK, WorkerNamed, Started, Pulled
<1>2. worker' = [worker EXCEPT !.pc = "status",
                   !.status = Retrying(worker.status, worker.copy.gen)]
  BY DEF FailPass
<1>3. Retrying(worker.status, worker.copy.gen).ref = worker.status.ref
  BY <1>1 DEF Retrying, Workers, Statuses
<1>4. /\ worker'.pc = "status" /\ worker'.cat = worker.cat /\ worker'.copy = worker.copy
      /\ worker'.status.ref = worker.status.ref
  BY <1>1, <1>2, <1>3 DEF Workers
<1>5. worker.status.ref \in {None, worker.copy.status.ref} BY DEF PinInv, StatusKept
<1>6. StatusKept' BY <1>4, <1>5 DEF StatusKept, Started, Pulled
<1>7. PinnedPass' /\ PinnedTmp'
  BY <1>4 DEF PinInv, PinnedPass, PinnedTmp, Started, Pulled
<1>8. PinnedRefs' BY DEF PinInv, PinnedRefs
<1>9. \A k \in Catalogs : stored'[k] = IF k = worker.cat THEN None ELSE stored[k]
  BY <1>1 DEF FailPass, TypeOK, cat
<1>10. PinnedExact' BY <1>9 DEF PinInv, PinnedExact
<1> QED BY <1>6, <1>7, <1>8, <1>10 DEF PinInv

LEMMA PinPass ==
  ASSUME PinInv, Pass \/ FailDelete \/ FailPull \/ FailStore \/ FailStatus \/ FailFinalizers
  PROVE  PinInv'
PROOF
<1>t. TypeInv' BY TypePass DEF PinInv
<1>o. TypeOK /\ worker \in Workers /\ (worker.pc # "idle" => worker.cat \in Catalogs)
  BY DEF PinInv, TypeInv, TypeOK, WorkerNamed
<1>b. UNCHANGED <<byTag, cached>>
  BY DEF Pass, DeleteContent, DeleteImages, Resolve, CopyImage, FinishUnpack, StoreBegin,
         StoreWrite, StoreRemove, StoreRename, UpdateStatus, PatchFinalizers, FailDelete,
         FailPull, FailStore, FailStatus, FailFinalizers, envVars
<1>d. dir \in [Catalogs -> Content \cup {None}] /\ tmp \in [Catalogs -> Content \cup {None}]
      /\ image \in [Catalogs -> [Digests -> Content \cup {None}]]
      /\ stored \in [Catalogs -> [ref : Digests, gen : Nat] \cup {None}]
      /\ dir' \in [Catalogs -> Content \cup {None}]
  BY <1>t, <1>o DEF TypeInv, TypeOK
<1>r. ASSUME UNCHANGED api PROVE PinnedRefs' BY <1>r, <1>b DEF PinInv, PinnedRefs
<1>i. ASSUME UNCHANGED image PROVE PinnedImages' BY <1>i, <1>b DEF PinInv, PinnedImages
<1>1. CASE DeleteContent
  <2>1. UNCHANGED <<api, stored, image, tmp>> BY <1>1 DEF DeleteContent
  <2>2. /\ worker'.pc = "delImage" /\ worker'.cat = worker.cat /\ worker'.copy = worker.copy
        /\ worker'.status.ref = None
    BY <1>1, <1>o DEF DeleteContent, Workers, Statuses, updateStatusNotServing
  <2>3. \A k \in Catalogs : dir'[k] \in {dir[k], None} BY <1>1, <1>d DEF DeleteContent
  <2>4. PinnedExact' BY <2>1, <2>3, <1>b DEF PinInv, PinnedExact
  <2>5. PinnedPass' /\ PinnedTmp' /\ StatusKept'
    BY <1>1, <2>2, <1>b
    DEF DeleteContent, PinInv, PinnedPass, PinnedTmp, StatusKept, Started, Pulled
  <2> QED BY <2>1, <2>4, <2>5, <1>t, <1>r, <1>i DEF PinInv
<1>2. CASE DeleteImages
  <2>1. UNCHANGED <<api, dir, tmp>> BY <1>2 DEF DeleteImages
  <2>2. /\ worker'.pc = "status" /\ worker'.cat = worker.cat /\ worker'.copy = worker.copy
        /\ worker'.status.ref = worker.status.ref
    BY <1>2, <1>o DEF DeleteImages, Workers, Statuses, updateStatusUserSpecifiedUnavailable
  <2>3. \A k \in Catalogs : stored'[k] \in {stored[k], None} BY <1>2, <1>d DEF DeleteImages
  <2>4. PinnedExact' BY <2>1, <2>3, <1>b DEF PinInv, PinnedExact
  <2>5. \A k \in Catalogs : image'[k] \in {image[k], NoImages} BY <1>2, <1>d DEF DeleteImages
  <2>6. PinnedImages' BY <2>5, <1>b DEF PinInv, PinnedImages, NoImages
  <2>7. PinnedPass' /\ PinnedTmp' /\ StatusKept'
    BY <1>2, <2>2, <1>b
    DEF DeleteImages, PinInv, PinnedPass, PinnedTmp, StatusKept, Started, Pulled
  <2> QED BY <2>1, <2>4, <2>6, <2>7, <1>t, <1>r DEF PinInv
<1>3. CASE Resolve
  <2>1. UNCHANGED <<api, stored, image, dir, tmp>> BY <1>3 DEF Resolve, diskVars
  <2>2. /\ worker'.pc \in {"copy", "store"} /\ worker'.cat = worker.cat
        /\ worker'.copy = worker.copy /\ worker'.status = worker.status
        /\ worker'.ref = Resolved(worker.cat, worker.copy)
    BY <1>3, <1>o DEF Resolve, Workers, cat
  <2>3. PinnedPass'
    BY <1>3, <2>2, <1>b DEF Resolve, Resolved, PinInv, PinnedPass
  <2>4. PinnedExact' BY <2>1, <1>b DEF PinInv, PinnedExact
  <2>5. PinnedTmp' /\ StatusKept'
    BY <1>3, <2>2, <1>b DEF Resolve, PinInv, PinnedTmp, StatusKept, Started, Pulled
  <2> QED BY <2>1, <2>3, <2>4, <2>5, <1>t, <1>r, <1>i DEF PinInv
<1>4. CASE CopyImage
  <2>1. UNCHANGED <<api, stored, dir, tmp>> BY <1>4 DEF CopyImage
  <2>2. /\ worker'.pc = "unpack" /\ worker'.cat = worker.cat /\ worker'.ref = worker.ref
        /\ worker'.copy = worker.copy /\ worker'.status = worker.status
        /\ worker'.src = Resolved(worker.cat, worker.copy)
    BY <1>4, <1>o DEF CopyImage, Workers, cat
  <2>3. ~byTag[worker.cat] => Resolved(worker.cat, worker.copy) = worker.ref
    BY <1>4 DEF CopyImage, Resolved, PinInv, PinnedPass, Pulled
  <2>4. PinnedPass'
    BY <1>4, <2>2, <2>3, <1>b DEF CopyImage, PinInv, PinnedPass, Pulled
  <2>5. PinnedImages'
    <3> DEFINE new == [src |-> Resolved(worker.cat, worker.copy), whole |-> FALSE]
    <3>1. \A k \in Catalogs, d \in Digests :
            image'[k][d] = IF k = worker.cat /\ d = worker.ref THEN new ELSE image[k][d]
      BY <1>4, <1>d DEF CopyImage, cat
    <3> QED BY <3>1, <2>3, <1>b DEF PinInv, PinnedImages
  <2>6. PinnedExact' BY <2>1, <1>b DEF PinInv, PinnedExact
  <2>7. PinnedTmp' /\ StatusKept'
    BY <1>4, <2>2, <1>b DEF CopyImage, PinInv, PinnedTmp, StatusKept, Started, Pulled
  <2> QED BY <2>1, <2>4, <2>5, <2>6, <2>7, <1>t, <1>r DEF PinInv
<1>5. CASE FinishUnpack
  <2>1. UNCHANGED <<api, dir, tmp>> BY <1>5 DEF FinishUnpack
  <2>2. CASE FailPass(worker.status) /\ UNCHANGED image
    BY <1>5, <2>1, <2>2, <1>t, <1>b, <1>d, <1>i, PinFail DEF FinishUnpack, Started, Pulled
  <2>3. CASE worker' = [worker EXCEPT !.pc = "store"] /\ UNCHANGED stored
             /\ image' = [image EXCEPT ![cat] = [NoImages EXCEPT ![worker.ref] =
                       [src |-> worker.src, whole |-> image[cat][worker.ref] # None]]]
    <3>1. /\ worker'.pc = "store" /\ worker'.cat = worker.cat /\ worker'.ref = worker.ref
          /\ worker'.copy = worker.copy /\ worker'.status = worker.status
      BY <2>3, <1>o DEF Workers
    <3>2. \A k \in Catalogs : k # worker.cat => image'[k] = image[k]
      BY <2>3, <1>d DEF cat
    <3>3. ASSUME NEW d \in Digests, worker.cat \in Catalogs, image'[worker.cat][d] # None
          PROVE  d = worker.ref /\ image'[worker.cat][d].src = worker.src
      BY <2>3, <3>3, <1>d DEF cat, NoImages
    <3>4. ~byTag[worker.cat] => worker.src = worker.ref
      BY <1>5 DEF FinishUnpack, PinInv, PinnedPass
    <3>5. PinnedImages' BY <3>2, <3>3, <3>4, <1>b DEF PinInv, PinnedImages
    <3>6. PinnedPass'
      BY <1>5, <3>1, <1>b DEF FinishUnpack, PinInv, PinnedPass, Pulled
    <3>7. PinnedExact' BY <2>1, <2>3, <1>b DEF PinInv, PinnedExact
    <3>8. PinnedTmp' /\ StatusKept'
      BY <1>5, <3>1, <1>b DEF FinishUnpack, PinInv, PinnedTmp, StatusKept, Started, Pulled
    <3> QED BY <2>1, <3>5, <3>6, <3>7, <3>8, <1>t, <1>r DEF PinInv
  <2> QED BY <1>5, <2>2, <2>3 DEF FinishUnpack
<1>6. CASE StoreBegin
  <2>1. UNCHANGED <<api, stored, image, dir>> BY <1>6 DEF StoreBegin
  <2>2. /\ worker'.pc = "write" /\ worker'.cat = worker.cat /\ worker'.ref = worker.ref
        /\ worker'.copy = worker.copy /\ worker'.status = worker.status
    BY <1>6, <1>o DEF StoreBegin, Workers
  <2>3. PinnedPass' /\ PinnedTmp' /\ StatusKept'
    BY <1>6, <2>2, <1>b
    DEF StoreBegin, PinInv, PinnedPass, PinnedTmp, StatusKept, Started, Pulled
  <2>4. PinnedExact' BY <2>1, <1>b DEF PinInv, PinnedExact
  <2> QED BY <2>1, <2>3, <2>4, <1>t, <1>r, <1>i DEF PinInv
<1>7. CASE StoreWrite
  <2>1. UNCHANGED <<api, image, dir>> BY <1>7 DEF StoreWrite
  <2>2. CASE FailPass(worker.status)
    BY <1>7, <2>1, <2>2, <1>t, <1>b, <1>d, <1>i, PinFail DEF StoreWrite, Started, Pulled
  <2>3. CASE /\ image[cat][worker.ref] # None /\ UNCHANGED stored
             /\ tmp' = [tmp EXCEPT ![cat] = image[cat][worker.ref]]
             /\ worker' = [worker EXCEPT !.pc = "swap"]
    <3>1. /\ worker'.pc = "swap" /\ worker'.cat = worker.cat /\ worker'.ref = worker.ref
          /\ worker'.copy = worker.copy /\ worker'.status = worker.status
      BY <2>3, <1>o DEF Workers
    <3>2. worker.ref \in Digests /\ worker.cat \in Catalogs
      BY <1>7, <1>o DEF StoreWrite, PinInv, TypeInv, RefResolved, Pulled
    <3>3. tmp'[worker.cat] = image[worker.cat][worker.ref] BY <2>3, <3>2, <1>d DEF cat
    <3>4. PinnedTmp' BY <2>3, <3>1, <3>2, <3>3, <1>b DEF PinInv, PinnedImages, PinnedTmp, cat
    <3>5. PinnedPass' /\ StatusKept'
      BY <1>7, <3>1, <1>b DEF StoreWrite, PinInv, PinnedPass, StatusKept, Started, Pulled
    <3>6. PinnedExact' BY <2>1, <2>3, <1>b DEF PinInv, PinnedExact
    <3> QED BY <2>1, <3>4, <3>5, <3>6, <1>t, <1>r, <1>i DEF PinInv
  <2> QED BY <1>7, <2>2, <2>3 DEF StoreWrite
<1>8. CASE StoreRemove
  <2>1. UNCHANGED <<api, stored, image, tmp>> BY <1>8 DEF StoreRemove
  <2>2. /\ worker'.pc = "rename" /\ worker'.cat = worker.cat /\ worker'.ref = worker.ref
        /\ worker'.copy = worker.copy /\ worker'.status = worker.status
    BY <1>8, <1>o DEF StoreRemove, Workers
  <2>3. \A k \in Catalogs : dir'[k] \in {dir[k], None} BY <1>8, <1>d DEF StoreRemove
  <2>4. PinnedExact' BY <2>1, <2>3, <1>b DEF PinInv, PinnedExact
  <2>5. PinnedPass' /\ PinnedTmp' /\ StatusKept'
    BY <1>8, <2>1, <2>2, <1>b
    DEF StoreRemove, PinInv, PinnedPass, PinnedTmp, StatusKept, Started, Pulled
  <2> QED BY <2>1, <2>4, <2>5, <1>t, <1>r, <1>i DEF PinInv
<1>9. CASE StoreRename
  <2>1. UNCHANGED <<api, image>> BY <1>9 DEF StoreRename
  <2>2. CASE tmp[cat] = None
    <3>1. FailPass(worker.status) /\ UNCHANGED dir BY <1>9, <2>2 DEF StoreRename
    <3> QED BY <1>9, <2>1, <3>1, <1>t, <1>b, <1>d, <1>i, PinFail DEF StoreRename, Started, Pulled
  <2>3. CASE tmp[cat] # None
    <3>1. /\ dir' = [dir EXCEPT ![cat] = tmp[cat]]
          /\ stored' = [stored EXCEPT ![cat] = [ref |-> worker.ref, gen |-> worker.copy.gen]]
          /\ worker' = [worker EXCEPT !.pc = "status",
               !.status = updateStatusServing(@, worker.ref, worker.copy.gen)]
      BY <1>9, <2>3 DEF StoreRename
    <3>2. /\ worker'.pc = "status" /\ worker'.cat = worker.cat
          /\ worker'.copy = worker.copy /\ worker'.status.ref = worker.ref
      BY <3>1, <1>o DEF Workers, updateStatusServing
    <3>3. worker.cat \in Catalogs /\ worker.pc = "rename" BY <1>9, <1>o DEF StoreRename
    <3>4. /\ dir'[worker.cat] = tmp[worker.cat] /\ stored'[worker.cat].ref = worker.ref
          /\ \A k \in Catalogs : k # worker.cat => dir'[k] = dir[k] /\ stored'[k] = stored[k]
      BY <3>1, <3>3, <1>d DEF cat
    <3>5. ~byTag[worker.cat] => dir'[worker.cat].src = worker.ref
      BY <2>3, <3>3, <3>4 DEF PinInv, PinnedTmp, cat
    <3>6. PinnedExact' BY <3>4, <3>5, <1>b DEF PinInv, PinnedExact
    <3>7. StatusKept' BY <3>2, <3>5, <1>b DEF StatusKept, Started, Pulled
    <3>8. PinnedPass' /\ PinnedTmp'
      BY <3>2, <3>3, <1>b DEF PinInv, PinnedPass, PinnedTmp, Pulled
    <3> QED BY <2>1, <3>6, <3>7, <3>8, <1>t, <1>r, <1>i DEF PinInv
  <2> QED BY <2>2, <2>3
<1>10. CASE UpdateStatus \/ FailStatus
  <2>1. UNCHANGED <<stored, image, dir, tmp>> BY <1>10 DEF UpdateStatus, FailStatus, diskVars
  <2>2. /\ worker'.pc \in {"idle", "finalizers"}
        /\ worker'.pc # "idle" => worker'.cat = worker.cat /\ worker'.copy = worker.copy
    BY <1>10, <1>o, ConstantTypes DEF UpdateStatus, FailStatus, AfterStatus, Workers
  <2>3. PinnedPass' /\ PinnedTmp' /\ StatusKept'
    BY <1>10, <2>2, <1>b DEF UpdateStatus, FailStatus, PinInv, PinnedPass, PinnedTmp,
       StatusKept, Started, Pulled
  <2>4. PinnedExact' BY <2>1, <1>b DEF PinInv, PinnedExact
  <2>5. PinnedRefs'
    <3>1. CASE UNCHANGED api BY <3>1, <1>r
    <3>2. CASE UpdateStatus /\ api' = [api EXCEPT ![cat].status = worker.status]
      <4>1. \A k \in Catalogs : api[k] \in CatalogStates BY <1>o DEF TypeOK
      <4>2. \A k \in Catalogs : api'[k].ex = api[k].ex /\ api'[k].ref = api[k].ref
        BY <3>2, <4>1, <1>o DEF TypeOK, CatalogStates
      <4> QED BY <4>2, <1>b DEF PinInv, PinnedRefs
    <3> QED BY <1>10, <3>1, <3>2 DEF UpdateStatus, FailStatus
  <2> QED BY <2>1, <2>3, <2>4, <2>5, <1>t, <1>i DEF PinInv
<1>11. CASE PatchFinalizers \/ FailFinalizers
  <2>1. UNCHANGED <<stored, image, dir, tmp>> BY <1>11 DEF PatchFinalizers, FailFinalizers, diskVars
  <2>2. worker'.pc = "idle" BY <1>11, ConstantTypes DEF PatchFinalizers, FailFinalizers
  <2>3. PinnedPass' /\ PinnedTmp' /\ StatusKept'
    BY <2>2 DEF PinnedPass, PinnedTmp, StatusKept, Started, Pulled
  <2>4. PinnedExact' BY <2>1, <1>b DEF PinInv, PinnedExact
  <2>5. PinnedRefs'
    <3>1. CASE UNCHANGED api BY <3>1, <1>r
    <3>2. CASE PatchFinalizers /\ api # api'
      <4>1. api[cat] \in CatalogStates BY <3>2, <1>o DEF TypeOK, cat, PatchFinalizers
      <4>2. /\ [api[cat] EXCEPT !.fin = worker.fin].ex = api[cat].ex
            /\ [api[cat] EXCEPT !.fin = worker.fin].ref = api[cat].ref
            /\ Gone.ex = FALSE
        BY <4>1 DEF CatalogStates, Gone
      <4>3. \/ api' = [api EXCEPT ![cat] = Gone]
            \/ api' = [api EXCEPT ![cat] = [api[cat] EXCEPT !.fin = worker.fin]]
        BY <3>2 DEF PatchFinalizers
      <4>4. \A k \in Catalogs : api'[k].ex => api[k].ex /\ api'[k].ref = api[k].ref
        BY <4>2, <4>3, <1>o DEF TypeOK
      <4> QED BY <4>4, <1>b DEF PinInv, PinnedRefs
    <3> QED BY <1>11, <3>1, <3>2 DEF PatchFinalizers, FailFinalizers
  <2> QED BY <2>1, <2>3, <2>4, <2>5, <1>t, <1>i DEF PinInv
<1>12. CASE FailDelete
  <2>1. \A k \in Catalogs, d \in Digests :
          image'[k][d] # None => image[k][d] # None /\ image'[k][d].src = image[k][d].src
    <3>1. CASE UNCHANGED image BY <3>1
    <3>2. CASE image' = [image EXCEPT ![cat] = Halved(@)]
      <4>1. \A c \in Content : [c EXCEPT !.whole = FALSE].src = c.src BY DEF Content
      <4> QED BY <3>2, <4>1, <1>d DEF Halved
    <3> QED BY <1>12, <3>1, <3>2 DEF FailDelete
  <2>2. PinnedImages' BY <2>1, <1>b DEF PinInv, PinnedImages
  <2>3. UNCHANGED <<api, dir>> BY <1>12 DEF FailDelete
  <2> QED BY <1>12, <2>2, <2>3, <1>t, <1>b, <1>d, PinFail DEF FailDelete, Started
<1>13. CASE FailPull
  <2>1. PinnedImages'
    <3>1. CASE UNCHANGED image BY <3>1, <1>i
    <3>2. CASE image' = [image EXCEPT ![cat][worker.ref] = None]
      <4>1. \A k \in Catalogs, d \in Digests : image'[k][d] \in {image[k][d], None}
        BY <3>2, <1>d
      <4> QED BY <4>1, <1>b DEF PinInv, PinnedImages
    <3>3. CASE /\ worker.pc = "unpack"
               /\ image' = [image EXCEPT ![cat][worker.ref] = [src |-> worker.src, whole |-> TRUE]]
      <4>1. \A k \in Catalogs, d \in Digests :
              image'[k][d] = IF k = cat /\ d = worker.ref
                             THEN [src |-> worker.src, whole |-> TRUE] ELSE image[k][d]
        BY <3>3, <1>d
      <4>2. ~byTag[worker.cat] => worker.src = worker.ref BY <3>3 DEF PinInv, PinnedPass
      <4> QED BY <4>1, <4>2, <1>b DEF PinInv, PinnedImages, cat
    <3> QED BY <1>13, <3>1, <3>2, <3>3 DEF FailPull
  <2>2. UNCHANGED <<api, dir>> BY <1>13 DEF FailPull
  <2> QED BY <1>13, <2>1, <2>2, <1>t, <1>b, <1>d, PinFail DEF FailPull, Started, Pulled
<1>14. CASE FailStore
  <2>1. UNCHANGED <<api, image>> BY <1>14 DEF FailStore
  <2>2. \A k \in Catalogs : k # worker.cat => dir'[k] = dir[k] BY <1>14, <1>d DEF FailStore, cat
  <2> QED BY <1>14, <2>1, <2>2, <1>t, <1>b, <1>d, <1>i, PinFail DEF FailStore, Started, Pulled
<1> QED BY <1>1, <1>2, <1>3, <1>4, <1>5, <1>6, <1>7, <1>8, <1>9, <1>10, <1>11, <1>12,
           <1>13, <1>14 DEF Pass

LEMMA PinStep == PinInv /\ [Next]_vars => PinInv'
PROOF
<1> SUFFICES ASSUME PinInv, [Next]_vars PROVE PinInv' OBVIOUS
<1>1. CASE UNCHANGED vars
  <2>1. TypeInv' BY <1>1, TypeStep DEF PinInv
  <2> QED BY <1>1, <2>1 DEF PinInv, PinnedRefs, PinnedPass, PinnedTmp, PinnedImages, PinnedExact,
             StatusKept, vars, envVars, diskVars
<1>2. CASE BeginPass BY <1>2, PinBegin DEF BeginPass
<1>3. CASE Users \/ \E k \in Catalogs : Deliver(k) BY <1>3, PinUsers DEF Users
<1>4. CASE Collect \/ FailCollect \/ Crash BY <1>4, PinCollect DEF Collect
<1>5. CASE Pass \/ (Fails /\ ~FailCollect /\ ~Crash) BY <1>5, PinPass DEF Fails
<1> QED BY <1>1, <1>2, <1>3, <1>4, <1>5 DEF Next, Fails

(* What storedCatalogs remembers of a pinned catalog is what its content
   directory holds, whatever fails, crashes or is collected. *)
THEOREM PinnedContentExact == Spec => []PinnedExact
PROOF
<1>1. PinInv => PinnedExact BY DEF PinInv
<1> QED BY <1>1, PinInit, PinStep, PTL DEF Spec

(* The status of a pinned catalog comes to name a digest only after the
   content of that digest is in the storage. *)
THEOREM AdvertisedOnlyStored == Spec => AdvertisedAfterStored
PROOF
<1> DEFINE Adv == \A k \in Catalogs :
       /\ api'[k].status.ref # api[k].status.ref /\ api'[k].status.ref # None
       /\ ~byTag[k]
       => dir[k] = None \/ dir[k].src = api'[k].status.ref
<1>1. ASSUME PinInv, [Next]_vars PROVE [Adv]_vars
  <2> SUFFICES ASSUME NEW k \in Catalogs, ~byTag[k],
                      api'[k].status.ref # api[k].status.ref, api'[k].status.ref # None
               PROVE  dir[k] = None \/ dir[k].src = api'[k].status.ref
    OBVIOUS
  <2>a. /\ TypeOK /\ api \in [Catalogs -> CatalogStates] /\ api' # api
        /\ worker.pc # "idle" => worker.cat \in Catalogs
    BY <1>1 DEF PinInv, TypeInv, TypeOK, WorkerNamed
  <2>b. Gone.status.ref = None /\ \A r : Created(r).status.ref = None
    BY DEF Gone, Created, NoStatus
  <2>c. \A c \in Catalogs : api[c] \in CatalogStates BY <2>a
  <2>1. CASE UpdateStatus
    <3>1. api[cat] = worker.copy /\ api' = [api EXCEPT ![cat].status = worker.status]
      BY <2>1, <2>a DEF UpdateStatus
    <3>2. k = worker.cat /\ api'[k].status = worker.status
      BY <2>1, <2>a, <2>c, <3>1 DEF cat, CatalogStates, UpdateStatus
    <3>3. worker.pc = "status" BY <2>1 DEF UpdateStatus
    <3> QED BY <1>1, <3>1, <3>2, <3>3 DEF PinInv, StatusKept, cat
  <2>2. CASE PatchFinalizers
    <3>1. \/ api' = [api EXCEPT ![cat] = Gone]
          \/ api' = [api EXCEPT ![cat] = [api[cat] EXCEPT !.fin = worker.fin]]
      BY <2>2, <2>a DEF PatchFinalizers
    <3>2. cat \in Catalogs BY <2>2, <2>a DEF PatchFinalizers, cat
    <3>3. [api[cat] EXCEPT !.fin = worker.fin].status = api[cat].status
      BY <3>2, <2>c DEF CatalogStates
    <3> QED BY <2>a, <2>b, <3>1, <3>2, <3>3
  <2>3. ASSUME NEW c \in Catalogs, CreateCatalog(c) PROVE FALSE
    <3>1. PICK r : api' = [api EXCEPT ![c] = Created(r)] BY <2>3 DEF CreateCatalog, WriteCatalog
    <3> QED BY <2>a, <2>b, <3>1
  <2>4. ASSUME NEW c \in Catalogs, EditCatalog(c) PROVE FALSE
    <3>1. PICK m, r : api' = [api EXCEPT ![c] = [api[c] EXCEPT !.mode = m, !.ref = r, !.gen = @ + 1]]
      BY <2>4 DEF EditCatalog, WriteCatalog
    <3>2. [api[c] EXCEPT !.mode = m, !.ref = r, !.gen = @ + 1].status = api[c].status
      BY <2>c DEF CatalogStates
    <3> QED BY <2>a, <3>1, <3>2
  <2>5. ASSUME NEW c \in Catalogs, DeleteCatalog(c) PROVE FALSE
    <3>1. \/ api' = [api EXCEPT ![c] = Gone]
          \/ api' = [api EXCEPT ![c] = [api[c] EXCEPT !.deleting = TRUE]]
      BY <2>5 DEF DeleteCatalog, WriteCatalog
    <3>2. [api[c] EXCEPT !.deleting = TRUE].status = api[c].status BY <2>c DEF CatalogStates
    <3> QED BY <2>a, <2>b, <3>1, <3>2
  <2>6. CASE UNCHANGED api BY <2>6, <2>a
  <2> QED
    <3>1. CASE UNCHANGED vars BY <3>1, <2>6 DEF vars
    <3>2. CASE BeginPass BY <3>2, <2>6 DEF BeginPass, BeginDelete, BeginFinalizer, BeginUnpack
    <3>3. CASE Pass
      BY <3>3, <2>1, <2>2, <2>6 DEF Pass, DeleteContent, DeleteImages, Resolve, CopyImage,
         FinishUnpack, StoreBegin, StoreWrite, StoreRemove, StoreRename
    <3>4. CASE Fails
      BY <3>4, <2>6 DEF Fails, FailDelete, FailPull, FailStore, FailStatus, FailFinalizers,
         FailCollect, Crash
    <3>5. CASE Collect BY <3>5, <2>6 DEF Collect, GCList, GCRead, GCRemove, GCAbort
    <3>6. CASE Users BY <3>6, <2>3, <2>4, <2>5, <2>6 DEF Users, MoveTag
    <3>7. CASE \E c \in Catalogs : Deliver(c) BY <3>7, <2>6 DEF Deliver
    <3> QED BY <1>1, <3>1, <3>2, <3>3, <3>4, <3>5, <3>6, <3>7 DEF Next
<1>2. Spec => [][Adv]_vars BY <1>1, PinInit, PinStep, PTL DEF Spec
<1> QED BY <1>2 DEF AdvertisedAfterStored

-----------------------------------------------------------------------------
(* A catalog its users switched off.                                         *)

(* The passes that may give a catalog content. *)
Pipeline == {"resolve"} \cup Pulled

ReportedOff(s, gen) == s.serv = "UserSpecifiedUnavailable" /\ s.sgen = gen
Off(a) == a.ex /\ a.mode = "Unavailable" /\ ReportedOff(a.status, a.gen)
Clean(k) == dir[k] = None /\ image[k] = NoImages /\ stored[k] = None

(* x may be an earlier version of the catalog that y is a version of. *)
NoLater(x, y) == x.gen <= y.gen /\ (x.gen = y.gen => x.mode = y.mode)

(* No status reports a generation that is still to come. *)
GenObserved ==
  /\ \A k \in Catalogs : /\ api[k].status.sgen <= api[k].gen
                         /\ cached[k].status.sgen <= cached[k].gen
  /\ worker.pc # "idle" => worker.status.sgen <= worker.copy.gen
FinOfExisting == \A k \in Catalogs : api[k].fin => api[k].ex

(* The finalizer ties versions to one incarnation of a catalog: it is added
   only where the cache shows none, and nothing but a pass removes it. *)
CachedNoLater ==
  \A k \in Catalogs : api[k].fin /\ cached[k].fin => NoLater(cached[k], api[k])
CopyNoLater ==
  worker.pc # "idle" =>
    /\ worker.copy.fin /\ api[worker.cat].fin => NoLater(worker.copy, api[worker.cat])
    /\ worker.copy.fin /\ cached[worker.cat].fin => NoLater(worker.copy, cached[worker.cat])
    /\ ~worker.copy.fin /\ cached[worker.cat].fin => api[worker.cat].fin

PassMode ==
  /\ worker.pc \in Pipeline => worker.copy.mode = "Available"
  /\ worker.pc = "delStore" => worker.status = worker.copy.status
  /\ worker.pc = "delImage" => dir[worker.cat] = None /\ worker.status.serv = "Unavailable"

(* A pass reports a catalog off when it has cleaned it, or repeats a report. *)
OffReported ==
  /\ worker.pc = "status" /\ worker.copy.mode = "Unavailable"
  /\ ReportedOff(worker.status, worker.copy.gen)
  => Clean(worker.cat) \/ ReportedOff(worker.copy.status, worker.copy.gen)

(* While a catalog is reported off, no pass that would store is under way or
   could start from the cached copy. *)
OffStays ==
  \A k \in Catalogs : Off(api[k]) =>
    /\ ~(Alive(cached[k]) /\ cached[k].fin)
    /\ ~(worker.cat = k /\ worker.pc \in Pipeline)

CleanInv == /\ TypeInv /\ GenObserved /\ FinOfExisting /\ CachedNoLater /\ CopyNoLater
            /\ PassMode /\ OffReported /\ OffStays /\ UnavailableClean

LEMMA CleanInit == Init => CleanInv
PROOF
<1> SUFFICES ASSUME Init PROVE CleanInv OBVIOUS
<1>1. TypeInv /\ worker.pc = "idle" BY TypeInit, ConstantTypes DEF Init
<1>2. \A k \in Catalogs : \E r : api[k] = Created(r) BY DEF Init
<1>3. \A r : Created(r).status = NoStatus /\ ~Created(r).fin /\ Created(r).gen = 1
  BY DEF Created, Gone
<1>4. NoStatus.sgen = 0 /\ NoStatus.serv = "" BY DEF NoStatus
<1>5. \A k \in Catalogs : /\ api[k].status = NoStatus /\ ~api[k].fin
                          /\ api[k].gen = 1 /\ cached[k] = api[k]
  BY <1>2, <1>3 DEF Init
<1>6. GenObserved
  <2>1. \A k \in Catalogs : api[k].status.sgen = 0 /\ cached[k].status.sgen = 0
                            /\ api[k].gen = 1 /\ cached[k].gen = 1
    BY <1>4, <1>5
  <2> QED BY <1>1, <2>1 DEF GenObserved
<1>9. FinOfExisting /\ CachedNoLater BY <1>5 DEF FinOfExisting, CachedNoLater
<1>7. CopyNoLater /\ PassMode /\ OffReported
  BY <1>1 DEF CopyNoLater, PassMode, OffReported, Pipeline, Pulled
<1>8. OffStays /\ UnavailableClean
  BY <1>4, <1>5 DEF OffStays, UnavailableClean, Off, ReportedOff
<1> QED BY <1>1, <1>6, <1>7, <1>8, <1>9 DEF CleanInv

(* A step of users on one catalog: a new or a vanished catalog, an edit of
   the spec, or a deletion timestamp. *)
Renewed(a, b) == ~a.fin /\ ~b.fin /\ ~Off(b) /\ b.status.sgen <= b.gen
Edited(a, b) == /\ b.fin = a.fin /\ b.ex = a.ex /\ b.gen = a.gen + 1
                /\ b.status = a.status
Marked(a, b) == /\ b.fin = a.fin /\ b.ex = a.ex /\ b.gen = a.gen
                /\ b.mode = a.mode /\ b.status = a.status

LEMMA CleanSpec ==
  ASSUME CleanInv, TypeInv', NEW k \in Catalogs, NEW b,
         api' = [api EXCEPT ![k] = b],
         Renewed(api[k], b) \/ Edited(api[k], b) \/ Marked(api[k], b),
         UNCHANGED <<cached, stored, image, dir, worker>>
  PROVE  CleanInv'
PROOF
<1> DEFINE a == api[k]
<1>1. \A c \in Catalogs : /\ api[c] \in CatalogStates /\ cached[c] \in CatalogStates
                          /\ api'[c] = IF c = k THEN b ELSE api[c]
  BY DEF CleanInv, TypeInv, TypeOK
<1>2. b \in CatalogStates BY <1>1 DEF TypeInv, TypeOK
<1>3. \A c \in Catalogs :
        /\ api[c].gen \in Nat /\ api[c].status.sgen \in Nat
        /\ cached[c].gen \in Nat
  BY <1>1 DEF CatalogStates, Statuses
<1>4. worker.copy.gen \in Nat /\ (worker.pc # "idle" => worker.cat \in Catalogs)
  BY DEF CleanInv, TypeInv, TypeOK, Workers, CatalogStates, WorkerNamed
<1>5. b.gen \in Nat /\ b.status.sgen \in Nat BY <1>2 DEF CatalogStates, Statuses
<1>u. b.fin => a.gen <= b.gen /\ (a.gen = b.gen => a.mode = b.mode)
  <2>1. CASE Renewed(a, b) BY <2>1 DEF Renewed
  <2>2. CASE Edited(a, b)
    <3>1. b.gen = a.gen + 1 BY <2>2 DEF Edited
    <3> QED BY <3>1, <1>3
  <2>3. CASE Marked(a, b) BY <2>3, <1>3 DEF Marked
  <2> QED BY <2>1, <2>2, <2>3
<1>6. GenObserved'
  <2>1. b.status.sgen <= b.gen
    BY <1>3, <1>5 DEF Renewed, Edited, Marked, CleanInv, GenObserved
  <2> QED BY <1>1, <2>1 DEF CleanInv, GenObserved
<1>7. FinOfExisting'
  BY <1>1 DEF CleanInv, FinOfExisting, Renewed, Edited, Marked
<1>8. CachedNoLater'
  <2>1. ASSUME b.fin, cached[k].fin PROVE NoLater(cached[k], b)
    <3>1. a.fin BY <2>1 DEF Renewed, Edited, Marked
    <3>2. NoLater(cached[k], a) BY <2>1, <3>1 DEF CleanInv, CachedNoLater
    <3> QED BY <1>u, <2>1, <3>2, <1>3, <1>5 DEF NoLater
  <2> QED BY <1>1, <2>1 DEF CleanInv, CachedNoLater
<1>9. CopyNoLater'
  <2> SUFFICES ASSUME worker.pc # "idle"
      PROVE  /\ worker.copy.fin /\ api'[worker.cat].fin => NoLater(worker.copy, api'[worker.cat])
             /\ worker.copy.fin /\ cached[worker.cat].fin => NoLater(worker.copy, cached[worker.cat])
             /\ ~worker.copy.fin /\ cached[worker.cat].fin => api'[worker.cat].fin
    BY DEF CopyNoLater
  <2>1. worker.cat \in Catalogs BY <1>4
  <2>2. /\ worker.copy.fin /\ api[worker.cat].fin => NoLater(worker.copy, api[worker.cat])
        /\ worker.copy.fin /\ cached[worker.cat].fin => NoLater(worker.copy, cached[worker.cat])
        /\ ~worker.copy.fin /\ cached[worker.cat].fin => api[worker.cat].fin
    BY DEF CleanInv, CopyNoLater
  <2>3. CASE worker.cat # k BY <1>1, <2>1, <2>2, <2>3
  <2>4. CASE worker.cat = k
    <3>1. ASSUME worker.copy.fin, b.fin PROVE NoLater(worker.copy, b)
      <4>1. a.fin BY <3>1 DEF Renewed, Edited, Marked
      <4>2. NoLater(worker.copy, a) BY <2>2, <2>4, <3>1, <4>1
      <4> QED BY <1>u, <3>1, <4>2, <1>3, <1>4, <1>5 DEF NoLater
    <3>2. a.fin => b.fin BY DEF Renewed, Edited, Marked
    <3> QED BY <1>1, <2>1, <2>2, <2>4, <3>1, <3>2
  <2> QED BY <2>3, <2>4
<1>10. PassMode' /\ OffReported'
  BY DEF CleanInv, PassMode, OffReported, Clean
<1>11. Off(b) => Off(a)
  <2>1. CASE Renewed(a, b) BY <2>1 DEF Renewed
  <2>2. CASE Edited(a, b)
    <3>1. b.gen = a.gen + 1 /\ b.status = a.status BY <2>2 DEF Edited
    <3>2. a.status.sgen <= a.gen BY DEF CleanInv, GenObserved
    <3> QED BY <3>1, <3>2, <1>3 DEF Off, ReportedOff
  <2>3. CASE Marked(a, b) BY <2>3 DEF Marked, Off, ReportedOff
  <2> QED BY <2>1, <2>2, <2>3
<1>12. \A c \in Catalogs : Off(api'[c]) => Off(api[c]) BY <1>1, <1>11
<1>13. OffStays' BY <1>12 DEF CleanInv, OffStays
<1>14. UnavailableClean'
  BY <1>12 DEF CleanInv, UnavailableClean, Off, ReportedOff
<1> QED BY <1>6, <1>7, <1>8, <1>9, <1>10, <1>13, <1>14 DEF CleanInv

(* Users and the watch: edits outdate a report, and what the watch delivers
   is no earlier than what a pass has read. *)
LEMMA CleanUsers ==
  ASSUME CleanInv, NEW k \in Catalogs,
         CreateCatalog(k) \/ EditCatalog(k) \/ DeleteCatalog(k) \/ MoveTag(k) \/ Deliver(k)
  PROVE  CleanInv'
PROOF
<1>t. TypeInv' BY TypeUsers DEF CleanInv
<1>a. api[k] \in CatalogStates /\ api \in [Catalogs -> CatalogStates]
  BY DEF CleanInv, TypeInv, TypeOK
<1>n. NoStatus.sgen = 0 /\ NoStatus.serv = "" BY DEF NoStatus
<1>1. CASE CreateCatalog(k)
  <2>1. PICK r \in RefsFor(k) : WriteCatalog(k, Created(r)) BY <1>1 DEF CreateCatalog
  <2>2. /\ ~Created(r).fin /\ Created(r).status = NoStatus /\ Created(r).gen = 1
    BY DEF Created, Gone
  <2>3. ~api[k].fin BY <1>1 DEF CreateCatalog, CleanInv, FinOfExisting
  <2>4. Created(r).status.sgen = 0 /\ Created(r).status.serv = "" BY <2>2, <1>n
  <2>5. Created(r).status.sgen <= Created(r).gen
    <3>1. Created(r).status.sgen = 0 /\ Created(r).gen = 1 BY <2>2, <2>4
    <3> QED BY ONLY <3>1
  <2>6. ~Off(Created(r)) BY <2>4 DEF Off, ReportedOff
  <2>7. Renewed(api[k], Created(r)) BY <2>2, <2>3, <2>5, <2>6 DEF Renewed
  <2> QED BY <1>1, <1>t, <2>1, <2>7, CleanSpec DEF CreateCatalog, WriteCatalog, diskVars
<1>2. CASE EditCatalog(k)
  <2>1. PICK m \in {"Available", "Unavailable"}, r \in RefsFor(k) :
          WriteCatalog(k, [api[k] EXCEPT !.mode = m, !.ref = r, !.gen = @ + 1])
    BY <1>2 DEF EditCatalog
  <2> DEFINE b == [api[k] EXCEPT !.mode = m, !.ref = r, !.gen = @ + 1]
  <2>2. Edited(api[k], b) BY <1>a DEF Edited, CatalogStates
  <2> QED BY <1>2, <1>t, <2>1, <2>2, CleanSpec DEF EditCatalog, WriteCatalog, diskVars
<1>3. CASE DeleteCatalog(k)
  <2>1. CASE api[k].fin
    <3> DEFINE b == [api[k] EXCEPT !.deleting = TRUE]
    <3>1. Marked(api[k], b) BY <1>a DEF Marked, CatalogStates
    <3>2. api' = [api EXCEPT ![k] = b] BY <1>3, <2>1 DEF DeleteCatalog, WriteCatalog
    <3> QED BY <1>3, <1>t, <3>1, <3>2, CleanSpec DEF DeleteCatalog, diskVars
  <2>2. CASE ~api[k].fin
    <3>1. ~Gone.fin /\ Gone.status = NoStatus /\ Gone.gen = 0 BY DEF Gone
    <3>2. Gone.status.sgen = 0 /\ Gone.status.serv = "" BY <3>1, <1>n
    <3>5. Gone.status.sgen <= Gone.gen
      <4>1. Gone.status.sgen = 0 /\ Gone.gen = 0 BY <3>1, <3>2
      <4> QED BY ONLY <4>1
    <3>6. ~Off(Gone) BY <3>2 DEF Off, ReportedOff
    <3>3. Renewed(api[k], Gone) BY <2>2, <3>1, <3>5, <3>6 DEF Renewed
    <3>4. api' = [api EXCEPT ![k] = Gone] BY <1>3, <2>2 DEF DeleteCatalog, WriteCatalog
    <3> QED BY <1>3, <1>t, <3>3, <3>4, CleanSpec DEF DeleteCatalog, diskVars
  <2> QED BY <2>1, <2>2
<1>4. CASE MoveTag(k)
  <2>1. UNCHANGED <<api, cached, stored, image, dir, worker>> BY <1>4 DEF MoveTag, diskVars
  <2> QED BY <1>t, <2>1 DEF CleanInv, GenObserved, FinOfExisting, CachedNoLater, CopyNoLater,
        PassMode, OffReported, OffStays, UnavailableClean, Clean
<1>5. CASE Deliver(k)
  <2>1. UNCHANGED <<api, stored, image, dir, worker>> BY <1>5 DEF Deliver, diskVars
  <2>2. \A c \in Catalogs : cached'[c] = IF c = k THEN api[k] ELSE cached[c]
    BY <1>5 DEF Deliver, CleanInv, TypeInv, TypeOK
  <2>3. api[k].gen \in Nat BY <1>a DEF CatalogStates
  <2>4. GenObserved' BY <2>1, <2>2 DEF CleanInv, GenObserved
  <2>5. FinOfExisting' BY <2>1 DEF CleanInv, FinOfExisting
  <2>6. CachedNoLater' BY <2>1, <2>2, <2>3 DEF CleanInv, CachedNoLater, NoLater
  <2>7. CopyNoLater'
    <3>1. worker.pc # "idle" => worker.cat \in Catalogs BY DEF CleanInv, TypeInv, WorkerNamed
    <3> QED BY <2>1, <2>2, <3>1 DEF CleanInv, CopyNoLater
  <2>8. PassMode' /\ OffReported' BY <2>1 DEF CleanInv, PassMode, OffReported, Clean
  <2>9. OffStays' BY <2>1, <2>2 DEF CleanInv, OffStays, Off, Alive
  <2>10. UnavailableClean' BY <2>1 DEF CleanInv, UnavailableClean
  <2> QED BY <1>t, <2>4, <2>5, <2>6, <2>7, <2>8, <2>9, <2>10 DEF CleanInv
<1> QED BY <1>1, <1>2, <1>3, <1>4, <1>5

(* A pass that would store starts from a cached copy that no report of the
   catalog as off contradicts. *)
LEMMA CleanBegin ==
  ASSUME CleanInv, NEW k \in Catalogs, BeginDelete(k) \/ BeginFinalizer(k) \/ BeginUnpack(k)
  PROVE  CleanInv'
PROOF
<1>1. TypeInv' BY TypeBegin DEF CleanInv
<1>2. UNCHANGED <<api, cached, stored, image, dir>>
  BY DEF BeginDelete, BeginFinalizer, BeginUnpack, diskVars
<1>3. worker'.cat = k /\ worker'.copy = cached[k] /\ worker'.status = cached[k].status
  <2>0. TypeOK BY DEF CleanInv, TypeInv
  <2>1. CASE BeginDelete(k) BY <2>0, <2>1, StartType DEF BeginDelete
  <2>2. CASE BeginUnpack(k) BY <2>0, <2>2, StartType DEF BeginUnpack
  <2>3. CASE BeginFinalizer(k)
    <3>1. worker' = [Start(k, "status") EXCEPT !.fin = TRUE] BY <2>3 DEF BeginFinalizer
    <3>2. /\ Start(k, "status") \in Workers
          /\ Start(k, "status").cat = k /\ Start(k, "status").copy = cached[k]
          /\ Start(k, "status").status = cached[k].status
      BY <2>0, StartType
    <3> QED BY <3>1, <3>2 DEF Workers
  <2> QED BY <2>1, <2>2, <2>3
<1>4. \/ worker'.pc = "delStore"
      \/ worker'.pc = "status" /\ cached[k].mode = "Available"
      \/ worker'.pc = "resolve" /\ Alive(cached[k]) /\ cached[k].fin
  <2>0. TypeOK BY DEF CleanInv, TypeInv
  <2>1. CASE BeginDelete(k) BY <2>0, <2>1, StartType DEF BeginDelete
  <2>2. CASE BeginUnpack(k) BY <2>0, <2>2, StartType DEF BeginUnpack
  <2>3. CASE BeginFinalizer(k)
    <3>1. worker' = [Start(k, "status") EXCEPT !.fin = TRUE] BY <2>3 DEF BeginFinalizer
    <3>2. Start(k, "status") \in Workers /\ Start(k, "status").pc = "status"
      BY <2>0, StartType
    <3> QED BY <2>3, <3>1, <3>2 DEF Workers, BeginFinalizer, Alive
  <2> QED BY <2>1, <2>2, <2>3
<1>5. cached[k].gen \in Nat BY DEF CleanInv, TypeInv, TypeOK, CatalogStates
<1>6. GenObserved' BY <1>2, <1>3 DEF CleanInv, GenObserved
<1>7. FinOfExisting' /\ CachedNoLater' /\ UnavailableClean'
  BY <1>2 DEF CleanInv, FinOfExisting, CachedNoLater, UnavailableClean
<1>8. CopyNoLater'
  BY <1>2, <1>3, <1>5 DEF CleanInv, CachedNoLater, CopyNoLater, NoLater
<1>9. PassMode' /\ OffReported'
  BY <1>3, <1>4 DEF PassMode, OffReported, Pipeline, Pulled, Alive
<1>10. OffStays' BY <1>2, <1>3, <1>4 DEF CleanInv, OffStays, Pipeline, Pulled
<1> QED BY <1>1, <1>6, <1>7, <1>8, <1>9, <1>10 DEF CleanInv

(* The collector only removes; a crash ends the pass and forgets. *)
LEMMA CleanCollect ==
  ASSUME CleanInv,
         GCList \/ GCRead \/ (\E e \in CacheEntries : GCRemove(e) \/ GCAbort(e))
         \/ FailCollect \/ Crash
  PROVE  CleanInv'
PROOF
<1>1. TypeInv' BY TypeCollect DEF CleanInv
<1>a. TypeOK BY DEF CleanInv, TypeInv
<1>2. CASE Crash
  <2>1. UNCHANGED <<api, image, dir>> /\ cached' = api /\ worker'.pc = "idle"
        /\ stored' = [k \in Catalogs |-> None]
    BY <1>2, ConstantTypes DEF Crash, diskVars
  <2>2. \A k \in Catalogs : api[k].gen \in Nat BY <1>a DEF TypeOK, CatalogStates
  <2>3. GenObserved' /\ FinOfExisting' BY <2>1 DEF CleanInv, GenObserved, FinOfExisting
  <2>4. CachedNoLater' BY <2>1, <2>2 DEF CachedNoLater, NoLater
  <2>5. CopyNoLater' /\ PassMode' /\ OffReported'
    BY <2>1 DEF CopyNoLater, PassMode, OffReported, Pipeline, Pulled
  <2>6. OffStays' BY <2>1 DEF OffStays, Off, Alive, Pipeline, Pulled
  <2>7. UnavailableClean' BY <2>1 DEF CleanInv, UnavailableClean
  <2> QED BY <1>1, <2>3, <2>4, <2>5, <2>6, <2>7 DEF CleanInv
<1>3. CASE GCList \/ GCRead \/ FailCollect \/ \E e \in CacheEntries : GCRemove(e) \/ GCAbort(e)
  <2>1. UNCHANGED <<api, cached, stored, worker>>
    BY <1>3 DEF GCList, GCRead, GCAbort, GCRemove, FailCollect
  <2>2. \A k \in Catalogs : image'[k] \in {image[k], NoImages} /\ dir'[k] \in {dir[k], None}
    BY <1>3, <1>a DEF GCList, GCRead, GCAbort, GCRemove, FailCollect, diskVars, TypeOK
  <2>3. worker.pc # "idle" => worker.cat \in Catalogs BY DEF CleanInv, TypeInv, WorkerNamed
  <2>4. GenObserved' /\ FinOfExisting' /\ CachedNoLater' /\ CopyNoLater' /\ OffStays'
    BY <2>1 DEF CleanInv, GenObserved, FinOfExisting, CachedNoLater, CopyNoLater, OffStays
  <2>5. PassMode' /\ OffReported'
    BY <2>1, <2>2, <2>3 DEF CleanInv, PassMode, OffReported, Clean
  <2>6. UnavailableClean' BY <2>1, <2>2 DEF CleanInv, UnavailableClean
  <2> QED BY <1>1, <2>4, <2>5, <2>6 DEF CleanInv
<1> QED BY <1>2, <1>3

(* A step within a pass: the catalogs and their cached copies stay, and what
   such a step has to keep is about the catalog of the pass. *)
WorkStep ==
  /\ UNCHANGED <<api, cached>>
  /\ worker.pc \in Pipeline \cup {"delStore", "delImage"}
  /\ worker'.pc # "idle" /\ worker'.cat = worker.cat /\ worker'.copy = worker.copy
  /\ worker'.pc \in Pipeline => worker.pc \in Pipeline
  /\ worker'.status.sgen <= worker.copy.gen
  /\ \A k \in Catalogs : k # worker.cat =>
       dir'[k] = dir[k] /\ image'[k] = image[k] /\ stored'[k] = stored[k]
  /\ worker.pc \notin Pipeline /\ Clean(worker.cat) => Clean(worker.cat)'

LEMMA CleanWork ==
  ASSUME CleanInv, TypeInv', WorkStep, PassMode', OffReported'
  PROVE  CleanInv'
PROOF
<1> USE DEF WorkStep
<1>0. worker.pc # "idle" /\ worker.cat \in Catalogs
  BY DEF CleanInv, TypeInv, WorkerNamed, Pipeline, Pulled
<1>1. GenObserved' BY DEF CleanInv, GenObserved
<1>2. FinOfExisting' /\ CachedNoLater' BY DEF CleanInv, FinOfExisting, CachedNoLater
<1>3. CopyNoLater' BY <1>0 DEF CleanInv, CopyNoLater
<1>4. OffStays' BY <1>0 DEF CleanInv, OffStays
<1>5. UnavailableClean'
  <2> SUFFICES ASSUME NEW k \in Catalogs, Off(api[k])
               PROVE  dir'[k] = None /\ image'[k] = NoImages /\ stored'[k] = None
    BY DEF UnavailableClean, Off, ReportedOff
  <2>1. dir[k] = None /\ image[k] = NoImages /\ stored[k] = None
    BY DEF CleanInv, UnavailableClean, Off, ReportedOff
  <2>2. CASE k # worker.cat BY <2>1, <2>2
  <2>3. CASE k = worker.cat
    <3>1. worker.pc \notin Pipeline BY <2>3 DEF CleanInv, OffStays
    <3>2. Clean(worker.cat) BY <2>1, <2>3 DEF Clean
    <3> QED BY <2>3, <3>1, <3>2 DEF Clean
  <2> QED BY <2>2, <2>3
<1> QED BY <1>1, <1>2, <1>3, <1>4, <1>5 DEF CleanInv

(* A failing pass forgets the stored catalog and reports no new serving
   state. *)
LEMMA CleanFail ==
  ASSUME CleanInv, TypeInv', worker.pc \in Pipeline \cup {"delStore", "delImage"},
         FailPass(worker.status), UNCHANGED <<api, cached>>,
         \A k \in Catalogs : k # worker.cat => dir'[k] = dir[k] /\ image'[k] = image[k],
         worker.pc \notin Pipeline => dir'[worker.cat] = dir[worker.cat],
         worker.pc \notin Pipeline /\ image[worker.cat] = NoImages => image'[worker.cat] = NoImages
  PROVE  CleanInv'
PROOF
<1>1. TypeOK /\ worker \in Workers /\ worker.pc # "idle" /\ worker.cat \in Catalogs
  BY DEF CleanInv, TypeInv, TypeOK, WorkerNamed, Pipeline, Pulled
<1>2. worker' = [worker EXCEPT !.pc = "status",
                   !.status = Retrying(worker.status, worker.copy.gen)]
  BY DEF FailPass
<1>3. /\ Retrying(worker.status, worker.copy.gen).serv = worker.status.serv
      /\ Retrying(worker.status, worker.copy.gen).sgen = worker.status.sgen
  BY <1>1 DEF Retrying, Workers, Statuses
<1>4. /\ worker'.pc = "status" /\ worker'.cat = worker.cat /\ worker'.copy = worker.copy
      /\ worker'.status.serv = worker.status.serv /\ worker'.status.sgen = worker.status.sgen
  BY <1>1, <1>2, <1>3 DEF Workers
<1>5. \A k \in Catalogs : stored'[k] = IF k = worker.cat THEN None ELSE stored[k]
  BY <1>1 DEF FailPass, TypeOK, cat
<1>6. WorkStep
  <2>1. worker'.status.sgen <= worker.copy.gen BY <1>1, <1>4 DEF CleanInv, GenObserved
  <2>2. worker.pc \notin Pipeline /\ Clean(worker.cat) => Clean(worker.cat)'
    BY <1>1, <1>4, <1>5 DEF Clean
  <2>3. worker'.pc \notin Pipeline BY <1>4 DEF Pipeline, Pulled
  <2> QED BY <1>4, <1>5, <2>1, <2>2, <2>3 DEF WorkStep
<1>7. PassMode' BY <1>4 DEF PassMode, Pipeline, Pulled
<1>8. OffReported'
  <2>1. CASE worker.pc \in Pipeline
    BY <1>4, <2>1 DEF CleanInv, PassMode, OffReported
  <2>2. CASE worker.pc = "delStore"
    BY <1>4, <2>2 DEF CleanInv, PassMode, OffReported, ReportedOff
  <2>3. CASE worker.pc = "delImage"
    BY <1>4, <2>3 DEF CleanInv, PassMode, OffReported, ReportedOff
  <2> QED BY <2>1, <2>2, <2>3
<1> QED BY <1>6, <1>7, <1>8, CleanWork

(* The steps that pull, store and delete. *)
LEMMA CleanPass ==
  ASSUME CleanInv, \/ DeleteContent \/ DeleteImages \/ Resolve \/ CopyImage \/ FinishUnpack
                   \/ StoreBegin \/ StoreWrite \/ StoreRemove \/ StoreRename
                   \/ FailDelete \/ FailPull \/ FailStore
  PROVE  CleanInv'
PROOF
<1>t. TypeInv' BY TypePass DEF CleanInv, Pass
<1>o. TypeOK /\ worker \in Workers /\ (worker.pc # "idle" => worker.cat \in Catalogs)
  BY DEF CleanInv, TypeInv, TypeOK, WorkerNamed
<1>b. UNCHANGED <<api, cached>>
  BY DEF DeleteContent, DeleteImages, Resolve, CopyImage, FinishUnpack, StoreBegin,
         StoreWrite, StoreRemove, StoreRename, FailDelete, FailPull, FailStore
<1>d. /\ dir \in [Catalogs -> Content \cup {None}]
      /\ image \in [Catalogs -> [Digests -> Content \cup {None}]]
      /\ stored \in [Catalogs -> [ref : Digests, gen : Nat] \cup {None}]
  BY <1>o DEF TypeOK
<1>g. /\ worker.copy.gen \in Nat /\ worker.status \in Statuses
      /\ worker.pc # "idle" => worker.status.sgen <= worker.copy.gen
  BY <1>o DEF Workers, CatalogStates, CleanInv, GenObserved
<1>s. \A k \in Catalogs : k # worker.cat =>
        dir'[k] = dir[k] /\ image'[k] = image[k] /\ stored'[k] = stored[k]
  BY <1>d DEF DeleteContent, DeleteImages, Resolve, CopyImage, FinishUnpack, StoreBegin,
         StoreWrite, StoreRemove, StoreRename, FailDelete, FailPull, FailStore, FailPass,
         cat, diskVars
<1>p. ASSUME worker.pc \in Pipeline, worker'.pc \in Pipeline \cup {"status"},
             worker'.cat = worker.cat, worker'.copy = worker.copy,
             worker'.status.sgen <= worker.copy.gen
      PROVE  CleanInv'
  <2>1. WorkStep BY <1>p, <1>b, <1>s DEF WorkStep, Pipeline, Pulled
  <2>2. worker.copy.mode = "Available" BY <1>p DEF CleanInv, PassMode
  <2>3. PassMode' /\ OffReported'
    BY <1>p, <2>2 DEF PassMode, OffReported, Pipeline, Pulled
  <2> QED BY <1>t, <2>1, <2>3, CleanWork
<1>f. ASSUME worker.pc \in Pipeline, FailPass(worker.status) PROVE CleanInv'
  BY <1>f, <1>t, <1>b, <1>s, CleanFail
<1>1. CASE DeleteContent
  <2>1. worker.pc = "delStore" /\ worker.cat \in Catalogs /\ UNCHANGED <<image, stored>>
    BY <1>1, <1>o DEF DeleteContent
  <2>2. /\ worker'.pc = "delImage" /\ worker'.cat = worker.cat /\ worker'.copy = worker.copy
        /\ worker'.status.serv = "Unavailable" /\ worker'.status.sgen = worker.copy.gen
    BY <1>1, <1>o DEF DeleteContent, Workers, Statuses, updateStatusNotServing
  <2>3. dir'[worker.cat] = None BY <1>1, <2>1, <1>d DEF DeleteContent, cat
  <2>4. WorkStep
    BY <2>1, <2>2, <2>3, <1>b, <1>s, <1>g DEF WorkStep, Pipeline, Pulled, Clean
  <2>5. PassMode' /\ OffReported'
    BY <2>2, <2>3 DEF PassMode, OffReported, Pipeline, Pulled
  <2> QED BY <1>t, <2>4, <2>5, CleanWork
<1>2. CASE DeleteImages
  <2>1. worker.pc = "delImage" /\ worker.cat \in Catalogs /\ UNCHANGED dir
    BY <1>2, <1>o DEF DeleteImages
  <2>2. worker'.pc = "status" /\ worker'.cat = worker.cat /\ worker'.copy = worker.copy
    BY <1>2, <1>o DEF DeleteImages, Workers
  <2>3. image'[worker.cat] = NoImages /\ stored'[worker.cat] = None
    BY <1>2, <2>1, <1>d DEF DeleteImages, cat
  <2>4. Clean(worker.cat)' BY <2>1, <2>2, <2>3 DEF CleanInv, PassMode, Clean
  <2>5. worker'.status.sgen <= worker.copy.gen
    <3>1. worker'.status \in {worker.status,
            updateStatusUserSpecifiedUnavailable(worker.status, worker.copy.gen)}
      BY <1>2, <1>o DEF DeleteImages, Workers
    <3>2. updateStatusUserSpecifiedUnavailable(worker.status, worker.copy.gen).sgen
            = worker.copy.gen
      BY <1>g DEF updateStatusUserSpecifiedUnavailable, Statuses
    <3> QED BY <2>1, <3>1, <3>2, <1>g
  <2>6. WorkStep BY <2>1, <2>2, <2>4, <2>5, <1>b, <1>s DEF WorkStep, Pipeline, Pulled
  <2>7. PassMode' /\ OffReported' BY <2>2, <2>4 DEF PassMode, OffReported, Pipeline, Pulled
  <2> QED BY <1>t, <2>6, <2>7, CleanWork
<1>3. CASE Resolve
  <2>1. worker.pc = "resolve" BY <1>3 DEF Resolve
  <2>2. /\ worker'.pc \in {"copy", "store"} /\ worker'.cat = worker.cat
        /\ worker'.copy = worker.copy /\ worker'.status = worker.status
    BY <1>3, <1>o DEF Resolve, Workers
  <2> QED BY <2>1, <2>2, <1>g, <1>p DEF Pipeline, Pulled
<1>4. CASE CopyImage
  <2>1. worker.pc = "copy" BY <1>4 DEF CopyImage
  <2>2. /\ worker'.pc = "unpack" /\ worker'.cat = worker.cat
        /\ worker'.copy = worker.copy /\ worker'.status = worker.status
    BY <1>4, <1>o DEF CopyImage, Workers
  <2> QED BY <2>1, <2>2, <1>g, <1>p DEF Pipeline, Pulled
<1>5. CASE FinishUnpack
  <2>1. worker.pc = "unpack" BY <1>5 DEF FinishUnpack
  <2>2. CASE FailPass(worker.status) BY <2>1, <2>2, <1>f DEF Pipeline, Pulled
  <2>3. CASE worker' = [worker EXCEPT !.pc = "store"]
    <3>1. /\ worker'.pc = "store" /\ worker'.cat = worker.cat
          /\ worker'.copy = worker.copy /\ worker'.status = worker.status
      BY <2>3, <1>o DEF Workers
    <3> QED BY <2>1, <3>1, <1>g, <1>p DEF Pipeline, Pulled
  <2> QED BY <1>5, <2>2, <2>3 DEF FinishUnpack
<1>6. CASE StoreBegin
  <2>1. worker.pc = "store" BY <1>6 DEF StoreBegin
  <2>2. /\ worker'.pc = "write" /\ worker'.cat = worker.cat
        /\ worker'.copy = worker.copy /\ worker'.status = worker.status
    BY <1>6, <1>o DEF StoreBegin, Workers
  <2> QED BY <2>1, <2>2, <1>g, <1>p DEF Pipeline, Pulled
<1>7. CASE StoreWrite
  <2>1. worker.pc = "write" BY <1>7 DEF StoreWrite
  <2>2. CASE FailPass(worker.status) BY <2>1, <2>2, <1>f DEF Pipeline, Pulled
  <2>3. CASE worker' = [worker EXCEPT !.pc = "swap"]
    <3>1. /\ worker'.pc = "swap" /\ worker'.cat = worker.cat
          /\ worker'.copy = worker.copy /\ worker'.status = worker.status
      BY <2>3, <1>o DEF Workers
    <3> QED BY <2>1, <3>1, <1>g, <1>p DEF Pipeline, Pulled
  <2> QED BY <1>7, <2>2, <2>3 DEF StoreWrite
<1>8. CASE StoreRemove
  <2>1. worker.pc = "swap" BY <1>8 DEF StoreRemove
  <2>2. /\ worker'.pc = "rename" /\ worker'.cat = worker.cat
        /\ worker'.copy = worker.copy /\ worker'.status = worker.status
    BY <1>8, <1>o DEF StoreRemove, Workers
  <2> QED BY <2>1, <2>2, <1>g, <1>p DEF Pipeline, Pulled
<1>9. CASE StoreRename
  <2>1. worker.pc = "rename" BY <1>9 DEF StoreRename
  <2>2. CASE FailPass(worker.status) BY <2>1, <2>2, <1>f DEF Pipeline, Pulled
  <2>3. CASE worker' = [worker EXCEPT !.pc = "status",
               !.status = updateStatusServing(@, worker.ref, worker.copy.gen)]
    <3>1. /\ worker'.pc = "status" /\ worker'.cat = worker.cat /\ worker'.copy = worker.copy
          /\ worker'.status.sgen = worker.copy.gen
      BY <2>3, <1>o DEF Workers, updateStatusServing
    <3> QED BY <2>1, <3>1, <1>g, <1>p DEF Pipeline, Pulled
  <2> QED BY <1>9, <2>2, <2>3 DEF StoreRename
<1>10. CASE FailDelete
  <2>1. worker.pc \in {"delStore", "delImage"} /\ UNCHANGED dir /\ FailPass(worker.status)
    BY <1>10 DEF FailDelete
  <2>2. ASSUME image[worker.cat] = NoImages PROVE image'[worker.cat] = NoImages
    <3>1. Halved(NoImages) = NoImages BY DEF Halved, NoImages
    <3> QED BY <1>10, <2>1, <2>2, <3>1, <1>d, <1>o DEF FailDelete, cat
  <2> QED BY <2>1, <2>2, <1>t, <1>b, <1>s, CleanFail
<1>11. CASE FailPull BY <1>11, <1>f DEF FailPull, Pipeline, Pulled
<1>12. CASE FailStore BY <1>12, <1>f DEF FailStore, Pipeline, Pulled
<1> QED BY <1>1, <1>2, <1>3, <1>4, <1>5, <1>6, <1>7, <1>8, <1>9, <1>10, <1>11, <1>12

(* The end of a pass: the status is written over the version that was read,
   and then no later version is cached; finalizers follow the cached copy. *)
LEMMA CleanEnd ==
  ASSUME CleanInv, UpdateStatus \/ PatchFinalizers \/ FailStatus \/ FailFinalizers
  PROVE  CleanInv'
PROOF
<1>t. TypeInv' BY TypePass DEF CleanInv, Pass
<1>o. TypeOK /\ worker \in Workers /\ worker.pc # "idle" /\ worker.cat \in Catalogs
  BY DEF CleanInv, TypeInv, TypeOK, WorkerNamed, UpdateStatus, PatchFinalizers, FailStatus,
         FailFinalizers
<1>b. UNCHANGED <<cached, stored, image, dir>>
  BY DEF UpdateStatus, PatchFinalizers, FailStatus, FailFinalizers, diskVars
<1>c. /\ api \in [Catalogs -> CatalogStates] /\ cached \in [Catalogs -> CatalogStates]
      /\ api[worker.cat] \in CatalogStates /\ cached[worker.cat] \in CatalogStates
      /\ worker.copy \in CatalogStates
  BY <1>o DEF TypeOK, Workers
<1>w. /\ worker'.pc \in {"idle", "finalizers"}
      /\ worker'.pc # "idle" => /\ worker'.cat = worker.cat /\ worker'.copy = worker.copy
                                /\ worker'.status = worker.status
  BY <1>o, ConstantTypes DEF UpdateStatus, FailStatus, PatchFinalizers, FailFinalizers,
     AfterStatus, Workers
<1>1. PassMode' /\ OffReported' BY <1>w DEF PassMode, OffReported, Pipeline, Pulled
<1>2. CASE UNCHANGED api
  <2>1. GenObserved' /\ FinOfExisting' /\ CachedNoLater' /\ UnavailableClean'
    BY <1>2, <1>b, <1>w, <1>o DEF CleanInv, GenObserved, FinOfExisting, CachedNoLater, UnavailableClean
  <2>2. CopyNoLater' BY <1>2, <1>b, <1>w, <1>o DEF CleanInv, CopyNoLater
  <2>3. OffStays' BY <1>2, <1>b, <1>w DEF CleanInv, OffStays, Pipeline, Pulled
  <2> QED BY <1>t, <1>1, <2>1, <2>2, <2>3 DEF CleanInv
<1>3. CASE UpdateStatus /\ api[worker.cat] = worker.copy
           /\ api' = [api EXCEPT ![worker.cat].status = worker.status]
  <2> DEFINE a == api[worker.cat]
             b == api'[worker.cat]
  <2>1. /\ \A k \in Catalogs : k # worker.cat => api'[k] = api[k]
        /\ b.ex = a.ex /\ b.mode = a.mode /\ b.gen = a.gen /\ b.fin = a.fin
        /\ b.status = worker.status
    BY <1>3, <1>o, <1>c DEF CatalogStates
  <2>2. worker.pc = "status" BY <1>3 DEF UpdateStatus
  <2>3. GenObserved' BY <1>3, <1>b, <1>w, <1>o, <2>1 DEF CleanInv, GenObserved
  <2>4. FinOfExisting' BY <1>o, <2>1 DEF CleanInv, FinOfExisting
  <2>5. CachedNoLater' BY <1>o, <1>b, <2>1 DEF CleanInv, CachedNoLater, NoLater
  <2>6. CopyNoLater' BY <1>o, <1>b, <1>w, <2>1 DEF CleanInv, CopyNoLater, NoLater
  <2>7. ASSUME Off(b) PROVE Clean(worker.cat) /\ ~(Alive(cached[worker.cat]) /\ cached[worker.cat].fin)
    <3>1. CASE Off(a)
      BY <1>o, <3>1 DEF CleanInv, OffStays, UnavailableClean, Off, ReportedOff, Clean
    <3>2. CASE ~Off(a)
      <4>1. /\ worker.copy.mode = "Unavailable" /\ worker.copy.ex
            /\ ReportedOff(worker.status, worker.copy.gen)
        BY <1>3, <2>1, <2>7 DEF Off
      <4>2. ~ReportedOff(worker.copy.status, worker.copy.gen) BY <1>3, <3>2, <4>1 DEF Off
      <4>3. Clean(worker.cat) BY <2>2, <4>1, <4>2 DEF CleanInv, OffReported
      <4>4. ASSUME Alive(cached[worker.cat]), cached[worker.cat].fin PROVE FALSE
        <5>1. cached[worker.cat].mode = "Available" BY <4>4 DEF Alive
        <5>2. worker.copy.fin
          BY <1>3, <1>o, <4>4 DEF CleanInv, CopyNoLater
        <5>3. NoLater(cached[worker.cat], worker.copy)
          BY <1>3, <1>o, <4>4, <5>2 DEF CleanInv, CachedNoLater
        <5>4. NoLater(worker.copy, cached[worker.cat])
          BY <1>o, <4>4, <5>2 DEF CleanInv, CopyNoLater
        <5>5. worker.copy.gen \in Nat /\ cached[worker.cat].gen \in Nat
          BY <1>c DEF CatalogStates
        <5> QED BY <4>1, <5>1, <5>3, <5>4, <5>5 DEF NoLater
      <4> QED BY <4>3, <4>4
    <3> QED BY <3>1, <3>2
  <2>8. OffStays' BY <1>o, <1>b, <1>w, <2>1, <2>7 DEF CleanInv, OffStays, Pipeline, Pulled
  <2>9. UnavailableClean'
    BY <1>o, <1>b, <2>1, <2>7 DEF CleanInv, UnavailableClean, Off, ReportedOff, Clean
  <2> QED BY <1>t, <1>1, <2>3, <2>4, <2>5, <2>6, <2>8, <2>9 DEF CleanInv
<1>4. CASE PatchFinalizers /\ api' # api
  <2> DEFINE a == api[worker.cat]
             b == api'[worker.cat]
  <2>1. /\ cached[worker.cat].fin # worker.fin /\ a.ex
        /\ \/ api' = [api EXCEPT ![worker.cat] = Gone]
           \/ api' = [api EXCEPT ![worker.cat] = [a EXCEPT !.fin = worker.fin]]
    BY <1>4 DEF PatchFinalizers, cat
  <2>2. worker'.pc = "idle" BY <1>4, ConstantTypes DEF PatchFinalizers
  <2>3. \A k \in Catalogs : k # worker.cat => api'[k] = api[k] BY <2>1, <1>c
  <2>4. CopyNoLater' BY <2>2 DEF CopyNoLater
  <2>5. CASE b = Gone
    <3>1. ~Gone.fin /\ Gone.status = NoStatus /\ Gone.gen = 0 /\ ~Gone.ex BY DEF Gone
    <3>2. Gone.status.sgen <= Gone.gen
      <4>1. NoStatus.sgen = 0 BY DEF NoStatus
      <4>2. Gone.status.sgen = 0 /\ Gone.gen = 0 BY <3>1, <4>1
      <4> QED BY ONLY <4>2
    <3>3. GenObserved' BY <1>b, <1>o, <2>2, <2>3, <2>5, <3>2 DEF CleanInv, GenObserved
    <3>4. FinOfExisting' /\ CachedNoLater'
      BY <1>b, <1>o, <2>3, <2>5, <3>1 DEF CleanInv, FinOfExisting, CachedNoLater
    <3>5. OffStays' /\ UnavailableClean'
      BY <1>b, <1>o, <2>2, <2>3, <2>5, <3>1
      DEF CleanInv, OffStays, UnavailableClean, Off, Pipeline, Pulled
    <3> QED BY <1>t, <1>1, <2>4, <3>3, <3>4, <3>5 DEF CleanInv
  <2>6. CASE b = [a EXCEPT !.fin = worker.fin]
    <3>1. /\ b.ex = a.ex /\ b.mode = a.mode /\ b.gen = a.gen /\ b.fin = worker.fin
          /\ b.status = a.status
      BY <1>c, <2>6 DEF CatalogStates
    <3>2. GenObserved' BY <1>b, <1>o, <2>2, <2>3, <3>1 DEF CleanInv, GenObserved
    <3>3. FinOfExisting' BY <1>o, <2>1, <2>3, <3>1 DEF CleanInv, FinOfExisting
    <3>4. CachedNoLater'
      <4>1. ~(b.fin /\ cached[worker.cat].fin)
        <5>1. worker.fin \in BOOLEAN /\ cached[worker.cat].fin \in BOOLEAN
          BY <1>o, <1>c DEF Workers, CatalogStates
        <5> QED BY <2>1, <3>1, <5>1
      <4> QED BY <1>b, <1>o, <2>3, <4>1 DEF CleanInv, CachedNoLater
    <3>5. OffStays'
      BY <1>b, <1>o, <2>2, <2>3, <3>1 DEF CleanInv, OffStays, Off, ReportedOff, Pipeline, Pulled
    <3>6. UnavailableClean'
      BY <1>b, <1>o, <2>3, <3>1 DEF CleanInv, UnavailableClean
    <3> QED BY <1>t, <1>1, <2>4, <3>2, <3>3, <3>4, <3>5, <3>6 DEF CleanInv
  <2> QED BY <1>c, <1>o, <2>1, <2>5, <2>6
<1> QED BY <1>2, <1>3, <1>4 DEF UpdateStatus, FailStatus, FailFinalizers, PatchFinalizers, cat

LEMMA CleanNext == CleanInv /\ [Next]_vars => CleanInv'
PROOF
<1> SUFFICES ASSUME CleanInv, [Next]_vars PROVE CleanInv' OBVIOUS
<1>1. CASE UNCHANGED vars
  <2>1. TypeInv' BY <1>1, TypeStep DEF CleanInv
  <2> QED BY <1>1, <2>1 DEF CleanInv, GenObserved, FinOfExisting, CachedNoLater, CopyNoLater,
        PassMode, OffReported, OffStays, UnavailableClean, Clean, vars, diskVars
<1>2. CASE BeginPass BY <1>2, CleanBegin DEF BeginPass
<1>3. CASE Users \/ \E k \in Catalogs : Deliver(k) BY <1>3, CleanUsers DEF Users
<1>4. CASE Collect \/ FailCollect \/ Crash BY <1>4, CleanCollect DEF Collect
<1>5. CASE Pass BY <1>5, CleanPass, CleanEnd DEF Pass
<1>6. CASE FailDelete \/ FailPull \/ FailStore BY <1>6, CleanPass
<1>7. CASE FailStatus \/ FailFinalizers BY <1>7, CleanEnd
<1> QED BY <1>1, <1>2, <1>3, <1>4, <1>5, <1>6, <1>7 DEF Next, Fails

(* A catalog reported UserSpecifiedUnavailable for its present generation has
   no content, unpacked image or remembered metadata, however edits, deletion
   and re-creation of the catalog race with passes on lagging copies. *)
THEOREM SwitchedOffIsClean == Spec => []UnavailableClean
PROOF
<1>1. CleanInv => UnavailableClean BY DEF CleanInv
<1> QED BY <1>1, CleanInit, CleanNext, PTL DEF Spec

-----------------------------------------------------------------------------
(* catalogd implements CatalogService.                                       *)

ContractStep == [Service!Next]_(Service!serviceVars)

(* A pass works on a catalog that existed when it was read. *)
CopyExists == worker.pc # "idle" => worker.copy.ex
ContractInv == PinInv /\ CopyExists

(* A step of the passes keeps the copy of the catalog it started with. *)
LEMMA CopyKept ==
  ASSUME TypeInv, CopyExists,
         Pass \/ FailDelete \/ FailPull \/ FailStore \/ FailStatus \/ FailFinalizers
  PROVE  CopyExists'
PROOF
<1>a. worker \in Workers /\ Idle.pc = "idle" BY ConstantTypes DEF TypeInv, TypeOK
<1>b. ASSUME worker.pc # "idle", worker'.copy = worker.copy PROVE CopyExists'
  BY <1>b DEF CopyExists
<1>c. ASSUME worker' = Idle PROVE CopyExists' BY <1>a, <1>c DEF CopyExists
<1>d. ASSUME worker.pc # "idle", FailPass(worker.status) PROVE CopyExists'
  BY <1>a, <1>b, <1>d DEF FailPass, Workers
<1>e. ASSUME worker.pc # "idle", worker' = AfterStatus PROVE CopyExists'
  BY <1>a, <1>b, <1>c, <1>e DEF AfterStatus, Workers
<1>1. CASE DeleteContent \/ DeleteImages
  BY <1>1, <1>a, <1>b DEF DeleteContent, DeleteImages, Workers
<1>2. CASE Resolve \/ CopyImage BY <1>2, <1>a, <1>b DEF Resolve, CopyImage, Workers
<1>3. CASE FinishUnpack BY <1>3, <1>a, <1>b, <1>d DEF FinishUnpack, Workers
<1>4. CASE StoreBegin \/ StoreRemove BY <1>4, <1>a, <1>b DEF StoreBegin, StoreRemove, Workers
<1>5. CASE StoreWrite BY <1>5, <1>a, <1>b, <1>d DEF StoreWrite, Workers
<1>6. CASE StoreRename BY <1>6, <1>a, <1>b, <1>d DEF StoreRename, Workers
<1>7. CASE UpdateStatus \/ FailStatus BY <1>7, <1>e DEF UpdateStatus, FailStatus
<1>8. CASE PatchFinalizers \/ FailFinalizers BY <1>8, <1>c DEF PatchFinalizers, FailFinalizers
<1>9. CASE FailDelete \/ FailPull \/ FailStore
  BY <1>9, <1>d DEF FailDelete, FailPull, FailStore
<1> QED BY <1>1, <1>2, <1>3, <1>4, <1>5, <1>6, <1>7, <1>8, <1>9 DEF Pass

LEMMA CopyStep == TypeInv /\ CopyExists /\ [Next]_vars => CopyExists'
PROOF
<1> SUFFICES ASSUME TypeInv, CopyExists, [Next]_vars PROVE CopyExists' OBVIOUS
<1>a. TypeOK /\ Idle.pc = "idle" BY ConstantTypes DEF TypeInv
<1>1. ASSUME UNCHANGED worker PROVE CopyExists' BY <1>1 DEF CopyExists
<1>2. CASE BeginPass
  <2>1. PICK k \in Catalogs : BeginDelete(k) \/ BeginFinalizer(k) \/ BeginUnpack(k)
    BY <1>2 DEF BeginPass
  <2>2. cached[k].ex BY <2>1 DEF BeginDelete, BeginFinalizer, BeginUnpack, Alive
  <2>3. \A pc \in {"delStore", "resolve", "status"} :
          Start(k, pc) \in Workers /\ Start(k, pc).copy = cached[k]
    BY <1>a, StartType
  <2>4. worker'.copy = cached[k]
    BY <2>1, <2>3 DEF BeginDelete, BeginFinalizer, BeginUnpack, Workers
  <2> QED BY <2>2, <2>4 DEF CopyExists
<1>3. CASE Pass \/ (Fails /\ ~FailCollect /\ ~Crash) BY <1>3, CopyKept DEF Fails
<1>4. CASE Crash BY <1>4, <1>a DEF Crash, CopyExists
<1>5. CASE Collect \/ FailCollect
  BY <1>5, <1>1 DEF Collect, GCList, GCRead, GCRemove, GCAbort, FailCollect
<1>6. CASE Users \/ \E k \in Catalogs : Deliver(k)
  BY <1>6, <1>1 DEF Users, CreateCatalog, EditCatalog, DeleteCatalog, MoveTag, Deliver
<1>7. CASE UNCHANGED vars BY <1>7, <1>1 DEF vars
<1> QED BY <1>2, <1>3, <1>4, <1>5, <1>6, <1>7 DEF Next, Fails

-----------------------------------------------------------------------------
(* What a step that leaves catalogs and directories alone shows: nothing. *)
LEMMA UnseenStep ==
  ASSUME UNCHANGED <<byTag, api, dir>>
  PROVE  ContractStep
PROOF BY DEF ContractStep, Service!serviceVars, SeenExists, SeenContent, SeenAdvert

(* A content directory that is replaced or removed is PutContent or
   DropContent, if what is put there comes from a digest. *)
LEMMA DirStep ==
  ASSUME TypeOK, NEW k \in Catalogs, NEW c \in Content \cup {None},
         UNCHANGED <<byTag, api>>, dir' = [dir EXCEPT ![k] = c],
         byTag[k] \/ c = None \/ c.src \in Digests
  PROVE  ContractStep
PROOF
<1>1. dir \in [Catalogs -> Content \cup {None}] BY DEF TypeOK
<1>2. SeenExists' = SeenExists /\ SeenAdvert' = SeenAdvert BY DEF SeenExists, SeenAdvert
<1>3. CASE byTag[k]
  <2>1. SeenContent' = SeenContent BY <1>1, <1>3 DEF SeenContent
  <2> QED BY <1>2, <2>1 DEF ContractStep, Service!serviceVars
<1>4. CASE ~byTag[k] /\ c = None
  <2>1. SeenContent' = [SeenContent EXCEPT ![k] = None] BY <1>1, <1>4 DEF SeenContent
  <2>2. Service!DropContent(k) BY <1>2, <2>1 DEF Service!DropContent
  <2> QED BY <2>2 DEF ContractStep, Service!Next
<1>5. CASE ~byTag[k] /\ c # None
  <2>1. SeenContent' = [SeenContent EXCEPT ![k] = c.src] BY <1>1, <1>5 DEF SeenContent
  <2>2. Service!PutContent(k, c.src) BY <1>2, <2>1 DEF Service!PutContent
  <2> QED BY <1>5, <2>2 DEF ContractStep, Service!Next
<1> QED BY <1>3, <1>4, <1>5

(* A catalog that is written: nothing changes for the clients, it comes into
   being, it goes away, or its reference is retracted or advertised. *)
LEMMA ApiStep ==
  ASSUME TypeOK, NEW k \in Catalogs, NEW v \in CatalogStates,
         UNCHANGED <<byTag, dir>>, api' = [api EXCEPT ![k] = v],
         \/ v.ex = api[k].ex /\ v.status.ref = api[k].status.ref
         \/ v.ex # api[k].ex /\ v.status.ref = None
         \/ v.ex = api[k].ex /\ v.status.ref = None
         \/ /\ v.ex /\ api[k].ex
            /\ ~byTag[k] => dir[k] = None \/ dir[k].src = v.status.ref
  PROVE  ContractStep
PROOF
<1>1. api \in [Catalogs -> CatalogStates] BY DEF TypeOK
<1>2. SeenContent' = SeenContent BY DEF SeenContent
<1>3. v.ex \in BOOLEAN /\ api[k].ex \in BOOLEAN /\ v.status.ref \in Digests \cup {None}
  BY <1>1 DEF CatalogStates, Statuses
<1>4. CASE byTag[k]
  <2>1. SeenExists' = SeenExists BY <1>1, <1>4 DEF SeenExists
  <2>2. SeenAdvert' = SeenAdvert BY <1>1, <1>4 DEF SeenAdvert
  <2> QED BY <1>2, <2>1, <2>2 DEF ContractStep, Service!serviceVars
<1>5. CASE ~byTag[k]
  <2>1. SeenAdvert' = [SeenAdvert EXCEPT ![k] = v.status.ref] BY <1>1, <1>5 DEF SeenAdvert
  <2>2. SeenExists' = IF v.ex THEN SeenExists \cup {k} ELSE SeenExists \ {k}
    BY <1>1, <1>5 DEF SeenExists
  <2>3. (k \in SeenExists) = api[k].ex BY <1>3, <1>5 DEF SeenExists
  <2>4. CASE v.ex = api[k].ex /\ v.status.ref = api[k].status.ref
    <3>1. SeenExists' = SeenExists BY <2>2, <2>3, <2>4
    <3>2. SeenAdvert' = SeenAdvert BY <1>1, <1>5, <2>4 DEF SeenAdvert
    <3> QED BY <1>2, <3>1, <3>2 DEF ContractStep, Service!serviceVars
  <2>5. CASE v.ex # api[k].ex /\ v.status.ref = None
    <3>1. Service!Create(k) \/ Service!Delete(k)
      BY <1>2, <1>3, <2>1, <2>2, <2>3, <2>5 DEF Service!Create, Service!Delete
    <3> QED BY <3>1 DEF ContractStep, Service!Next
  <2>6. CASE v.ex = api[k].ex /\ v.status.ref = None
    <3>1. SeenExists' = SeenExists BY <2>2, <2>3, <2>6
    <3>2. Service!Retract(k) BY <1>2, <2>1, <2>6, <3>1 DEF Service!Retract
    <3> QED BY <3>2 DEF ContractStep, Service!Next
  <2>7. CASE /\ v.ex /\ api[k].ex /\ v.status.ref # None
             /\ dir[k] = None \/ dir[k].src = v.status.ref
    <3>1. SeenExists' = SeenExists BY <2>2, <2>3, <2>7
    <3>2. SeenContent[k] \in {None, v.status.ref} BY <1>5, <2>7 DEF SeenContent
    <3>3. Service!Advertise(k, v.status.ref)
      BY <1>2, <2>1, <2>3, <2>7, <3>1, <3>2 DEF Service!Advertise
    <3> QED BY <1>3, <2>7, <3>3 DEF ContractStep, Service!Next
  <2> QED BY <1>5, <2>4, <2>5, <2>6, <2>7
<1> QED BY <1>4, <1>5

-----------------------------------------------------------------------------
(* Users: a catalog is created, edited or deleted. *)
LEMMA UsersContract ==
  ASSUME TypeOK, NEW k \in Catalogs,
         CreateCatalog(k) \/ EditCatalog(k) \/ DeleteCatalog(k) \/ MoveTag(k) \/ Deliver(k)
  PROVE  ContractStep
PROOF
<1>a. api[k] \in CatalogStates BY DEF TypeOK
<1>b. Gone \in CatalogStates /\ Gone.ex = FALSE /\ Gone.status.ref = None
  BY ConstantTypes DEF Gone, NoStatus
<1>c. UNCHANGED <<byTag, dir>>
  BY DEF CreateCatalog, EditCatalog, DeleteCatalog, MoveTag, Deliver, envVars, diskVars
<1>1. CASE CreateCatalog(k)
  <2>1. PICK r \in RefsFor(k) : api' = [api EXCEPT ![k] = Created(r)]
    BY <1>1 DEF CreateCatalog, WriteCatalog
  <2>2. Created(r) \in CatalogStates BY ConstantTypes, <2>1 DEF RefsFor
  <2>3. Created(r).ex = TRUE /\ Created(r).status.ref = None BY DEF Created, Gone, NoStatus
  <2>4. ~api[k].ex BY <1>1 DEF CreateCatalog
  <2> QED BY <1>c, <2>1, <2>2, <2>3, <2>4, ApiStep
<1>2. CASE EditCatalog(k)
  <2>1. PICK m \in {"Available", "Unavailable"}, r \in RefsFor(k) :
          api' = [api EXCEPT ![k] = [api[k] EXCEPT !.mode = m, !.ref = r, !.gen = @ + 1]]
    BY <1>2 DEF EditCatalog, WriteCatalog
  <2> DEFINE v == [api[k] EXCEPT !.mode = m, !.ref = r, !.gen = @ + 1]
  <2>2. r \in Digests \cup {Tag} BY <2>1 DEF RefsFor
  <2>3. v \in CatalogStates
    <3>1. api[k].gen + 1 \in Nat BY <1>a DEF CatalogStates
    <3>2. \A g \in Nat : [api[k] EXCEPT !.mode = m, !.ref = r, !.gen = g] \in CatalogStates
      BY <2>1, <2>2, <1>a DEF CatalogStates
    <3> QED BY <3>1, <3>2
  <2>4. v.ex = api[k].ex /\ v.status = api[k].status BY <1>a DEF CatalogStates
  <2> QED BY <1>c, <2>1, <2>3, <2>4, ApiStep
<1>3. CASE DeleteCatalog(k)
  <2> DEFINE v == [api[k] EXCEPT !.deleting = TRUE]
  <2>1. v \in CatalogStates /\ v.ex = api[k].ex /\ v.status = api[k].status
    BY <1>a DEF CatalogStates
  <2>2. api' = [api EXCEPT ![k] = v] \/ api' = [api EXCEPT ![k] = Gone]
    BY <1>3 DEF DeleteCatalog, WriteCatalog
  <2>3. api[k].ex BY <1>3 DEF DeleteCatalog
  <2> QED BY <1>b, <1>c, <2>1, <2>2, <2>3, ApiStep
<1>4. CASE MoveTag(k) \/ Deliver(k) BY <1>4, <1>c, UnseenStep DEF MoveTag, Deliver
<1> QED BY <1>1, <1>2, <1>3, <1>4

(* The passes: the storage puts and drops content, the end of a pass writes
   the status of a catalog that is as it was read, and its finalizers. *)
LEMMA PassContract ==
  ASSUME ContractInv,
         Pass \/ FailDelete \/ FailPull \/ FailStore \/ FailStatus \/ FailFinalizers
  PROVE  ContractStep
PROOF
<1>a. /\ TypeOK /\ (worker.pc # "idle" => cat \in Catalogs)
      /\ None \in Content \cup {None}
  BY DEF ContractInv, PinInv, TypeInv, WorkerNamed, cat
<1>b. UNCHANGED byTag
  BY DEF Pass, DeleteContent, DeleteImages, Resolve, CopyImage, FinishUnpack, StoreBegin,
     StoreWrite, StoreRemove, StoreRename, UpdateStatus, PatchFinalizers, FailDelete,
     FailPull, FailStore, FailStatus, FailFinalizers, envVars
<1>c. ASSUME worker.pc = "rename"
      PROVE  /\ tmp[cat] \in Content \cup {None}
             /\ byTag[cat] \/ tmp[cat] = None \/ tmp[cat].src \in Digests
  BY <1>a, <1>c DEF ContractInv, PinInv, TypeInv, TypeOK, RefResolved, PinnedTmp, Pulled, cat
<1>1. CASE DeleteContent \/ StoreRemove
  BY <1>1, <1>a, <1>b, DirStep DEF DeleteContent, StoreRemove
<1>2. CASE StoreRename
  BY <1>2, <1>a, <1>b, <1>c, DirStep, UnseenStep DEF StoreRename
<1>3. CASE FailStore
  BY <1>3, <1>a, <1>b, <1>c, DirStep, UnseenStep DEF FailStore
<1>4. CASE UpdateStatus
  <2>1. cat \in Catalogs /\ UNCHANGED dir /\ worker.pc = "status"
    BY <1>4, <1>a DEF UpdateStatus, diskVars
  <2>2. CASE UNCHANGED api BY <2>1, <2>2, <1>b, UnseenStep
  <2>3. CASE api[cat] = worker.copy /\ api' = [api EXCEPT ![cat].status = worker.status]
    <3> DEFINE v == [api[cat] EXCEPT !.status = worker.status]
    <3>1. api[cat] \in CatalogStates /\ worker.status \in Statuses
      BY <2>1, <1>a DEF TypeOK, Workers
    <3>2. v \in CatalogStates /\ v.ex = api[cat].ex /\ v.status = worker.status
      BY <3>1 DEF CatalogStates
    <3>3. api' = [api EXCEPT ![cat] = v] BY <2>3
    <3>4. api[cat].ex BY <2>1, <2>3 DEF ContractInv, CopyExists
    <3>5. \/ v.status.ref \in {None, api[cat].status.ref}
          \/ ~byTag[cat] => dir[cat] = None \/ dir[cat].src = v.status.ref
      BY <2>1, <2>3, <3>2 DEF ContractInv, PinInv, StatusKept, cat
    <3> HIDE DEF v
    <3> QED BY <1>a, <1>b, <2>1, <3>2, <3>3, <3>4, <3>5, ApiStep
  <2> QED BY <1>4, <2>2, <2>3 DEF UpdateStatus
<1>5. CASE PatchFinalizers
  <2>1. cat \in Catalogs /\ UNCHANGED dir BY <1>5, <1>a DEF PatchFinalizers, diskVars
  <2>2. api[cat] \in CatalogStates /\ worker.fin \in BOOLEAN BY <2>1, <1>a DEF TypeOK, Workers
  <2> DEFINE v == [api[cat] EXCEPT !.fin = worker.fin]
  <2>3. v \in CatalogStates /\ v.ex = api[cat].ex /\ v.status = api[cat].status
    BY <2>2 DEF CatalogStates
  <2>4. Gone \in CatalogStates /\ Gone.ex = FALSE /\ Gone.status.ref = None
    BY ConstantTypes DEF Gone, NoStatus
  <2>5. \/ UNCHANGED api
        \/ api[cat].ex /\ api' = [api EXCEPT ![cat] = Gone]
        \/ api' = [api EXCEPT ![cat] = v]
    BY <1>5 DEF PatchFinalizers
  <2> HIDE DEF v
  <2> QED BY <1>a, <1>b, <2>1, <2>3, <2>4, <2>5, ApiStep, UnseenStep
<1>6. CASE \/ DeleteImages \/ Resolve \/ CopyImage \/ FinishUnpack \/ StoreBegin \/ StoreWrite
           \/ FailDelete \/ FailPull \/ FailStatus \/ FailFinalizers
  BY <1>6, <1>b, UnseenStep DEF DeleteImages, Resolve, CopyImage, FinishUnpack, StoreBegin,
     StoreWrite, FailDelete, FailPull, FailStatus, FailFinalizers, diskVars
<1> QED BY <1>1, <1>2, <1>3, <1>4, <1>5, <1>6 DEF Pass

LEMMA NextContract == ContractInv /\ [Next]_vars => ContractStep
PROOF
<1> SUFFICES ASSUME ContractInv, [Next]_vars PROVE ContractStep OBVIOUS
<1>a. TypeOK BY DEF ContractInv, PinInv, TypeInv
<1>1. CASE BeginPass
  BY <1>1, UnseenStep DEF BeginPass, BeginDelete, BeginFinalizer, BeginUnpack, envVars, diskVars
<1>2. CASE Pass \/ (Fails /\ ~FailCollect /\ ~Crash) BY <1>2, PassContract DEF Fails
<1>3. CASE FailCollect \/ Crash BY <1>3, UnseenStep DEF FailCollect, Crash, envVars, diskVars
<1>4. CASE Collect
  <2>1. ASSUME NEW e \in CacheEntries, GCRemove(e) PROVE ContractStep
    <3>1. e[2] \in Catalogs /\ UNCHANGED <<byTag, api>>
          /\ (dir' = dir \/ dir' = [dir EXCEPT ![e[2]] = None])
      BY <2>1 DEF GCRemove, CacheEntries, envVars
    <3> QED BY <1>a, <3>1, DirStep, UnseenStep
  <2> QED BY <1>4, <2>1, UnseenStep DEF Collect, GCList, GCRead, GCAbort, envVars, diskVars
<1>5. CASE Users \/ \E k \in Catalogs : Deliver(k) BY <1>5, <1>a, UsersContract DEF Users
<1>6. CASE UNCHANGED vars BY <1>6, UnseenStep DEF vars, envVars, diskVars
<1> QED BY <1>1, <1>2, <1>3, <1>4, <1>5, <1>6 DEF Next, Fails

(* The initial states of catalogd are initial states of its contract. *)
LEMMA ContractInit == Init => ContractInv /\ Service!Init
PROOF
<1> SUFFICES ASSUME Init PROVE ContractInv /\ Service!Init OBVIOUS
<1>1. PinInv BY PinInit
<1>2. CopyExists BY ConstantTypes DEF Init, CopyExists
<1>3. \A k \in Catalogs : api[k].status.ref = None
  <2>1. \A r : Created(r).status.ref = None BY DEF Created, Gone, NoStatus
  <2> QED BY <2>1 DEF Init
<1>4. SeenContent = [k \in Catalogs |-> None] BY DEF Init, SeenContent
<1>5. SeenAdvert = [k \in Catalogs |-> None] BY <1>3 DEF SeenAdvert
<1>6. SeenExists \in SUBSET Catalogs BY DEF SeenExists
<1> QED BY <1>1, <1>2, <1>4, <1>5, <1>6 DEF ContractInv, Service!Init

(* catalogd implements the contract its clients rely on: passes, failures,
   crashes and collections only ever show the clients of a pinned catalog a
   step of CatalogService. *)
THEOREM ServiceImplemented == Spec => ServiceContract
PROOF
<1>1. ContractInv /\ [Next]_vars => ContractInv'
  BY PinStep, CopyStep DEF ContractInv, PinInv
<1>2. ContractInv /\ [Next]_vars => [Service!Next]_(Service!serviceVars)
  BY NextContract DEF ContractStep
<1> QED BY <1>1, <1>2, ContractInit, PTL DEF Spec, ServiceContract, Service!Spec
=============================================================================
