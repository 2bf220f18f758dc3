---------------------------- MODULE CatalogServer ----------------------------
(***************************************************************************)
(* catalogd's content server: HTTP and GraphQL requests                    *)
(* (internal/catalogd/server/handlers.go, service/graphql_service.go)      *)
(* reading the storage (storage/localdir.go) while the reconciler stores   *)
(* and deletes catalogs.                                                   *)
(*                                                                         *)
(* Store and Delete hold the storage's write lock from start to end. A     *)
(* request takes the read lock to open the catalog file, again to load the *)
(* index, or to look for the directory; the schema of a GraphQL query is   *)
(* cached and is built without any lock, once for all who ask for it at    *)
(* the same time.                                                          *)
(***************************************************************************)
EXTENDS CatalogIndex

CONSTANTS
  ServedCatalogs,   \* names of catalogs
  Clients,          \* HTTP clients, one request at a time each
  ContentMetas,     \* sequence: the metas of each content that may be stored
  RequestsOf,       \* the requests each client makes
  enableMetas, enableGraphQL,   \* feature gates
  MaxStores,        \* bound on stores and deletions
  MaxRestarts,      \* bound on restarts of the process
  Reconciler        \* the caller of Store and Delete

ASSUME ServerBounds == MaxStores \in Nat /\ MaxRestarts \in Nat
ASSUME ServerFlags == enableMetas \in BOOLEAN /\ enableGraphQL \in BOOLEAN
ASSUME ReconcilerAssumption == Reconciler \notin Clients

VARIABLES
  root,         \* RootDir: the directory of each catalog
  second,       \* the clock: two Stores never end within one second
  writer,       \* the Store or Delete in progress; it holds the write lock
  schemaCache,  \* the schema cached for each catalog, named by its content
  flight,       \* the build of a schema in progress, per catalog
  request,      \* the request of each client
  stores, restarts

serveVars == <<root, second, writer, schemaCache, flight, request, stores, restarts>>

Contents == DOMAIN ContentMetas
(* A directory: absent, emptied of its files on the way to removal, whole.  *)
Absent == [is |-> "absent", src |-> 0, at |-> 0]
Hollow == [is |-> "hollow", src |-> 0, at |-> 0]
Whole(k, s) == [is |-> "whole", src |-> k, at |-> s]
MetasIn(d) == IF d.is = "whole" THEN ContentMetas[d.src] ELSE <<>>

NoWriter == [pc |-> "idle", cat |-> "", new |-> Absent, old |-> Absent]
NoSchema == [is |-> "none", of |-> Absent]
SchemaFrom(d) == [is |-> "schema", of |-> d]
BuildError == [is |-> "error", of |-> Absent]
NoFlight == [pc |-> "none", leader |-> Reconciler, result |-> NoSchema]

NoAnswer == [code |-> 0, file |-> Absent, sections |-> <<>>, schema |-> NoSchema]
Answer(code) == [NoAnswer EXCEPT !.code = code]
NoRequest == [pc |-> "idle", req |-> [route |-> "none"], code |-> 0, file |-> Absent,
              answer |-> NoAnswer, during |-> {}]

ServerInit ==
  /\ root = [c \in ServedCatalogs |-> Absent]
  /\ second = 1
  /\ writer = NoWriter
  /\ schemaCache = [c \in ServedCatalogs |-> NoSchema]
  /\ flight = [c \in ServedCatalogs |-> NoFlight]
  /\ request = [a \in Clients |-> NoRequest]
  /\ stores = 0
  /\ restarts = 0

WriterHolds == writer.pc # "idle"

(* m.RLock: readers wait for the writer; the mutant does not lock. *)
RLockSkipped == TRUE
RLock == ~WriterHolds

(* What the lock lets a reader see of a catalog. *)
View(c) == IF WriterHolds /\ writer.cat = c THEN writer.old ELSE root[c]

(* History: the views of its catalog during a request. *)
Witness(c, d) ==
  [a \in Clients |-> IF request[a].pc # "idle" /\ request[a].req.cat = c
                     THEN [request[a] EXCEPT !.during = @ \cup {d}] ELSE request[a]]

-----------------------------------------------------------------------------
(* GetSchema: the cache, then one build for all who ask meanwhile.          *)

(* buildGroup.Do: join the build in progress, or lead a new one, which      *)
(* looks into the cache once more.                                          *)
Do(a, c) ==
  IF flight[c].pc # "none" THEN UNCHANGED flight
  ELSE flight' = [flight EXCEPT ![c] =
         IF schemaCache[c] # NoSchema
         THEN [pc |-> "done", leader |-> a, result |-> schemaCache[c]]
         ELSE [pc |-> "build", leader |-> a, result |-> NoSchema]]

(* Mutant: the build takes the read lock, which Store holds while it waits. *)
BuildSchemaLocked(c) ==
  /\ flight[c].pc = "build" /\ ~WriterHolds
  /\ flight' = [flight EXCEPT ![c].pc = "cache", ![c].result = SchemaFrom(root[c])]
  /\ UNCHANGED <<root, second, writer, schemaCache, request, stores, restarts>>

(* buildSchemaFromFS reads the directory as it is: no lock is taken. *)
BuildSchema(c) ==
  /\ flight[c].pc = "build"
  /\ LET d == root[c]
         result == IF d.is = "absent" \/ ~SchemaBuilds(MetasIn(d)) THEN BuildError
                   ELSE SchemaFrom(d)
     IN  flight' = [flight EXCEPT ![c].pc = IF result = BuildError THEN "done" ELSE "cache",
                                  ![c].result = result]
  /\ UNCHANGED <<root, second, writer, schemaCache, request, stores, restarts>>

CacheSchema(c) ==
  /\ flight[c].pc = "cache"
  /\ schemaCache' = [schemaCache EXCEPT ![c] = flight[c].result]
  /\ flight' = [flight EXCEPT ![c].pc = "done"]
  /\ UNCHANGED <<root, second, writer, request, stores, restarts>>

Executed(result) ==
  IF result = BuildError THEN Answer(500) ELSE [Answer(200) EXCEPT !.schema = result]

(* The build ends: everyone who joined it gets its result. *)
EndFlight(c) ==
  /\ flight[c].pc = "done"
  /\ flight' = [flight EXCEPT ![c] = NoFlight]
  /\ request' = [a \in Clients |->
       IF request[a].pc = "wait" /\ request[a].req.cat = c
       THEN [request[a] EXCEPT !.pc = "done", !.answer = Executed(flight[c].result)]
       ELSE request[a]]
  /\ writer' = IF writer.pc = "wait" /\ writer.cat = c
               THEN [writer EXCEPT !.pc = IF flight[c].result = BuildError THEN "rollback" ELSE "unlock"]
               ELSE writer
  /\ UNCHANGED <<root, second, schemaCache, stores, restarts>>

-----------------------------------------------------------------------------
(* Store: lock, write a temporary directory, replace the catalog's, drop    *)
(* the cached schema and build the new one. Delete: drop, remove.           *)

StoreLock(c, k) ==
  /\ ~WriterHolds /\ stores < MaxStores
  /\ stores' = stores + 1
  /\ second' = second + 1
  /\ writer' = [pc |-> "remove", cat |-> c, new |-> Whole(k, second), old |-> root[c]]
  /\ UNCHANGED <<root, schemaCache, flight, request, restarts>>

DeleteLock(c) ==
  /\ ~WriterHolds /\ stores < MaxStores
  /\ stores' = stores + 1
  /\ schemaCache' = [schemaCache EXCEPT ![c] = NoSchema]
  /\ writer' = [pc |-> "remove", cat |-> c, new |-> Absent, old |-> root[c]]
  /\ UNCHANGED <<root, second, flight, request, restarts>>

(* os.RemoveAll empties the directory, then removes it. *)
RemoveFiles ==
  /\ writer.pc = "remove" /\ root[writer.cat].is = "whole"
  /\ root' = [root EXCEPT ![writer.cat] = Hollow]
  /\ UNCHANGED <<second, writer, schemaCache, flight, request, stores, restarts>>

RemoveDir ==
  /\ writer.pc = "remove" /\ root[writer.cat].is # "whole"
  /\ root' = [root EXCEPT ![writer.cat] = Absent]
  /\ writer' = [writer EXCEPT !.pc = IF writer.new = Absent THEN "unlock" ELSE "rename"]
  /\ UNCHANGED <<second, schemaCache, flight, request, stores, restarts>>

(* os.Rename and InvalidateCache; without GraphQL the Store is done. *)
Rename ==
  /\ writer.pc = "rename"
  /\ root' = [root EXCEPT ![writer.cat] = writer.new]
  /\ schemaCache' = [schemaCache EXCEPT ![writer.cat] = NoSchema]
  /\ writer' = [writer EXCEPT !.pc = IF enableGraphQL THEN "warm" ELSE "unlock"]
  /\ UNCHANGED <<second, flight, request, stores, restarts>>

PreWarm ==
  /\ writer.pc = "warm"
  /\ IF schemaCache[writer.cat] # NoSchema
     THEN UNCHANGED flight /\ writer' = [writer EXCEPT !.pc = "unlock"]
     ELSE Do(Reconciler, writer.cat) /\ writer' = [writer EXCEPT !.pc = "wait"]
  /\ UNCHANGED <<root, second, schemaCache, request, stores, restarts>>

(* The schema could not be built: the new directory is removed again. *)
Rollback ==
  /\ writer.pc = "rollback"
  /\ writer' = [writer EXCEPT !.pc = "remove", !.new = Absent]
  /\ UNCHANGED <<root, second, schemaCache, flight, request, stores, restarts>>

Unlock ==
  /\ writer.pc = "unlock"
  /\ writer' = NoWriter
  /\ request' = Witness(writer.cat, root[writer.cat])
  /\ UNCHANGED <<root, second, schemaCache, flight, stores, restarts>>

(* An error of the file system ends the Store or Delete where it is. *)
StoreFails ==
  /\ writer.pc \in {"remove", "rename"}
  /\ writer' = [writer EXCEPT !.pc = "unlock"]
  /\ UNCHANGED <<root, second, schemaCache, flight, request, stores, restarts>>

-----------------------------------------------------------------------------
(* Requests.                                                                *)

Ask(a, r) ==
  /\ request[a].pc = "idle"
  /\ request' = [request EXCEPT ![a] =
       [NoRequest EXCEPT !.pc = "route", !.req = r,
                         !.during = IF r.cat \in ServedCatalogs THEN {View(r.cat)} ELSE {}]]
  /\ UNCHANGED <<root, second, writer, schemaCache, flight, stores, restarts>>

Allowed == [all |-> {"GET", "HEAD"}, metas |-> {"GET", "HEAD"}, graphql |-> {"POST"}]
Routes == {"all"} \cup (IF enableMetas THEN {"metas"} ELSE {})
                  \cup (IF enableGraphQL THEN {"graphql"} ELSE {})

(* The status of a request refused before the storage is asked, else 0.     *)
Refused(r) ==
  CASE r.route \notin Routes -> 404
    [] r.method \notin Allowed[r.route] -> 405
    [] ~r.validName -> 400
    [] r.route = "metas" /\ ~r.expectedParams -> 400
    [] r.route = "graphql" /\ ~r.validQuery -> 400
    [] OTHER -> 0

(* A request that reaches the storage names a catalog: other names find     *)
(* nothing there.                                                           *)
ASSUME RequestsAssumption ==
  \A a \in Clients : \A r \in RequestsOf[a] : Refused(r) = 0 => r.cat \in ServedCatalogs

Respond(a, answer) ==
  request' = [request EXCEPT ![a].pc = "done", ![a].answer = answer]

Refuse(a) ==
  /\ request[a].pc = "route" /\ Refused(request[a].req) # 0
  /\ Respond(a, Answer(Refused(request[a].req)))
  /\ UNCHANGED <<root, second, writer, schemaCache, flight, stores, restarts>>

(* The blobs a request selects from a file, by an index; all of them when   *)
(* no parameter is given, none for HEAD.                                    *)
NoParams == [schema |-> "", pkg |-> "", name |-> ""]
ServesWhole(r) == r.route = "all" \/ r.query = NoParams
Body(r, sections) == IF r.method = "HEAD" THEN <<>> ELSE sections
WholeFile(metas) == [i \in DOMAIN metas |-> SectionOf(metas, i)]

(* GetCatalogData and what the handlers do with the open file: serve it     *)
(* whole, end on a precondition, or go on to the index. http.ServeContent   *)
(* differs from checkPreconditions in that it ignores a malformed time.     *)
OpenCatalog(a) ==
  LET r == request[a].req
      d == root[r.cat]
      checked == checkPreconditions(r.headers, d.at)
      code == IF r.route = "all" /\ checked = 500 THEN 200 ELSE checked
  IN
  /\ request[a].pc = "route" /\ Refused(r) = 0 /\ r.route # "graphql"
  /\ RLock
  /\ IF d.is # "whole" THEN Respond(a, Answer(404))
     ELSE IF code \in {304, 412} THEN Respond(a, [Answer(code) EXCEPT !.file = d])
     ELSE IF ServesWhole(r)
       THEN Respond(a, [Answer(code) EXCEPT !.file = d, !.sections = Body(r, WholeFile(MetasIn(d)))])
     ELSE request' = [request EXCEPT ![a].pc = "index", ![a].file = d, ![a].code = code]
  /\ UNCHANGED <<root, second, writer, schemaCache, flight, stores, restarts>>

(* GetIndex, under the read lock again; the sections are cut from the file  *)
(* opened before.                                                           *)
ReadIndex(a) ==
  LET r == request[a].req
      d == root[r.cat]
  IN
  /\ request[a].pc = "index" /\ RLock
  /\ Respond(a, IF d.is # "whole" THEN Answer(404)
                ELSE [Answer(request[a].code) EXCEPT
                        !.file = request[a].file,
                        !.sections = Body(r, IndexGet(newIndex(MetasIn(d)), r.query))])
  /\ UNCHANGED <<root, second, writer, schemaCache, flight, stores, restarts>>

(* GetCatalogFS, then GetSchema without the lock. *)
FindCatalog(a) ==
  LET r == request[a].req IN
  /\ request[a].pc = "route" /\ Refused(r) = 0 /\ r.route = "graphql"
  /\ RLock
  /\ IF root[r.cat] = Absent THEN Respond(a, Answer(404))
     ELSE request' = [request EXCEPT ![a].pc = "schema"]
  /\ UNCHANGED <<root, second, writer, schemaCache, flight, stores, restarts>>

GetSchema(a) ==
  LET c == request[a].req.cat IN
  /\ request[a].pc = "schema"
  /\ IF schemaCache[c] # NoSchema
     THEN UNCHANGED flight /\ Respond(a, Executed(schemaCache[c]))
     ELSE Do(a, c) /\ request' = [request EXCEPT ![a].pc = "wait"]
  /\ UNCHANGED <<root, second, writer, schemaCache, stores, restarts>>

(* The client has its answer; it may ask again. *)
Close(a) ==
  /\ request[a].pc = "done"
  /\ request' = [request EXCEPT ![a] = NoRequest]
  /\ UNCHANGED <<root, second, writer, schemaCache, flight, stores, restarts>>

(* A restart keeps the disk and nothing else. *)
RestartServer ==
  /\ restarts < MaxRestarts
  /\ restarts' = restarts + 1
  /\ writer' = NoWriter
  /\ schemaCache' = [c \in ServedCatalogs |-> NoSchema]
  /\ flight' = [c \in ServedCatalogs |-> NoFlight]
  /\ request' = [a \in Clients |-> NoRequest]
  /\ UNCHANGED <<root, second, stores>>

WriterStep ==
  RemoveFiles \/ RemoveDir \/ Rename \/ PreWarm \/ Rollback \/ Unlock
FlightStep(c) == BuildSchema(c) \/ CacheSchema(c) \/ EndFlight(c)
RequestStep(a) == Refuse(a) \/ OpenCatalog(a) \/ ReadIndex(a) \/ FindCatalog(a) \/ GetSchema(a)

ServerNext ==
  \/ \E c \in ServedCatalogs :
       \/ \E k \in Contents : StoreLock(c, k)
       \/ DeleteLock(c)
       \/ FlightStep(c)
  \/ WriterStep \/ StoreFails
  \/ \E a \in Clients : (\E r \in RequestsOf[a] : Ask(a, r)) \/ RequestStep(a) \/ Close(a)
  \/ RestartServer

(* Goroutines that can run do. *)
ServerFairness ==
  /\ WF_serveVars(WriterStep)
  /\ \A c \in ServedCatalogs : WF_serveVars(FlightStep(c))
  /\ \A a \in Clients : WF_serveVars(RequestStep(a))

ServerSpec == ServerInit /\ [][ServerNext]_serveVars /\ ServerFairness

-----------------------------------------------------------------------------
(* Every file served is one the catalog had at some moment of the request,  *)
(* and "not found" is answered only if there was such a moment without one: *)
(* Store's replacement of the directory (remove, then rename) is never seen *)
(* half done through the read lock.                                         *)
AtomicView ==
  \A a \in Clients : request[a].pc = "done" =>
    LET ans == request[a].answer IN
    /\ ans.file # Absent => ans.file \in request[a].during
    /\ ans.code = 404 /\ Refused(request[a].req) = 0 =>
         \E d \in request[a].during : d.is # "whole"

(* Everyone is answered and every Store and Delete ends, although Store     *)
(* waits, with the lock held, for a build that a request started.           *)
ServerProgress ==
  /\ WriterHolds ~> ~WriterHolds
  /\ \A a \in Clients : request[a].pc \notin {"idle", "done"} ~> request[a].pc \in {"idle", "done"}

(* "clients accessing the content ... have an atomic view of the content    *)
(* for a catalog" (localdir.go:41-43): the sections of a filtered response  *)
(* are those of the file they are cut from. The file and the index are read *)
(* under two read locks, so a Store between them breaks it.                 *)
MetasFromOneContent ==
  \A a \in Clients :
    LET ans == request[a].answer  r == request[a].req IN
    (request[a].pc = "done" /\ ans.code = 200 /\ ans.file # Absent /\ ~ServesWhole(r)) =>
      ans.sections = Body(r, Scan(MetasIn(ans.file), r.query))

(* "Pre-warm the GraphQL schema cache using the newly created catalog       *)
(* directory" (localdir.go:156): once no Store and no build is running, a   *)
(* cached schema is that of the directory. A build that began before the    *)
(* directory was replaced breaks it.                                        *)
SchemaOfContent ==
  \A c \in ServedCatalogs :
    (~WriterHolds /\ flight[c].pc = "none" /\ schemaCache[c].is = "schema" /\ root[c].is = "whole")
      => schemaCache[c].of = root[c]
=============================================================================
