--------------------------- MODULE MCCatalogServer ---------------------------
(***************************************************************************)
(* catalogd's content server for TLC, and what it derives from the metas   *)
(* of a catalog: a behaviour either serves requests or takes samples of    *)
(* catalogs and queries.                                                   *)
(***************************************************************************)
EXTENDS CatalogServer

VARIABLES part, sample

serverParts == <<serveVars, part, sample>>

-----------------------------------------------------------------------------
(* Two contents. The second has two schemas whose types get one name, so    *)
(* that no GraphQL schema can be built from it.                             *)

mcValue(p, n) == [array |-> n # "", kind |-> IF p = "" THEN "string" ELSE "object"]
mcMeta(s, p, n, l) == [schema |-> s, pkg |-> p, name |-> n, len |-> l,
                       fields |-> [k \in {"field"} |-> mcValue(p, n)]]
mcMetas == << <<mcMeta("olm.package", "", "p", 1), mcMeta("olm.bundle", "p", "b", 2)>>,
              <<mcMeta("olm.bundle", "p", "b", 3), mcMeta("olm_bundle", "q", "b", 1)>> >>
mcRemap(k) == k
mcType(s) == IF s = "olm.package" THEN "OlmPackage" ELSE "OlmBundle"
mcField(s) == s

mcRequest == [route |-> "all", method |-> "GET", cat |-> "c", validName |-> TRUE, expectedParams |-> TRUE,
              validQuery |-> TRUE, query |-> NoParams, headers |-> NoHeaders]
mcRequests ==
  [a \in {"a1", "a2"} |->
     IF a = "a1" THEN {[mcRequest EXCEPT !.headers.ims = [is |-> "time", s |-> 1]],
                       [mcRequest EXCEPT !.route = "metas", !.query.pkg = "p"]}
     ELSE {[mcRequest EXCEPT !.route = "graphql", !.method = "POST"],
           [mcRequest EXCEPT !.validName = FALSE]}]

-----------------------------------------------------------------------------
(* Samples: catalogs of up to two metas and the queries on them.          *)

NoSample == [metas |-> <<>>, query |-> NoParams, limit |-> 0]
sampleMetas == {mcMeta(k[1], k[2], k[3], 1) : k \in {"", "x", "y"} \X {"", "p"} \X {"", "n"}}
sampleQueries == [schema : {"", "x"}, pkg : {"", "p", "q"}, name : {"", "n"}]

TakeSample ==
  \/ /\ sample = NoSample
     /\ \E metas \in BoundedSeq(sampleMetas, 2), q \in sampleQueries, limit \in -1..3 :
          sample' = [metas |-> metas, query |-> q, limit |-> limit]
  \/ sample # NoSample /\ sample' = NoSample

PartsInit == ServerInit /\ part \in {"server", "queries"} /\ sample = NoSample
PartsNext ==
  \/ part = "server" /\ ServerNext /\ UNCHANGED <<part, sample>>
  \/ part = "queries" /\ TakeSample /\ UNCHANGED <<serveVars, part>>

(* The fairness of ServerSpec; the samples move nothing it is about. *)
PartsSpec ==
  /\ PartsInit /\ [][PartsNext]_serverParts
  /\ WF_serverParts(part = "server" /\ WriterStep /\ UNCHANGED <<part, sample>>)
  /\ \A c \in ServedCatalogs :
       WF_serverParts(part = "server" /\ FlightStep(c) /\ UNCHANGED <<part, sample>>)
  /\ \A a \in Clients :
       WF_serverParts(part = "server" /\ RequestStep(a) /\ UNCHANGED <<part, sample>>)

-----------------------------------------------------------------------------
(* The index answers a query as a scan of the catalog file would, and the    *)
(* pages of a schema's objects, one after the other, are all of them: the    *)
(* metas handler and the GraphQL resolver lose, repeat or reorder nothing,   *)
(* also for limits that are not positive or too large. Where all values of a *)
(* field are of one kind, an object that has one is sent with the type that  *)
(* was declared for the field, lists of scalars excepted, and one that has   *)
(* none, or null, without it.                                                *)
Pages(objects, limit) ==
  FlattenSeq([n \in 1..(Len(objects) + 1) |-> Page(objects, limit, (n - 1) * ClampLimit(limit))])
HasValue(obj, f) == \E k \in KeysOf(obj, f) : obj.fields[k] # [array |-> FALSE, kind |-> "null"]
FieldsFit(metas) ==
  \A s \in DiscoveredSchemas(metas) : \A f \in DOMAIN FieldTypes(metas, s) :
    LET objs == ObjectsOf(metas, s)
        type == CHOOSE t \in FieldTypes(metas, s)[f] : TRUE
    IN  (\A v, w \in ValuesOf(objs, f) : v = w) /\ (type.list => type = NestedList)
          => \A i \in DOMAIN objs :
               createFieldResolver(objs[i], f, type) = {IF HasValue(objs[i], f) THEN type ELSE Nothing}
CatalogQueries ==
  /\ IndexGet(newIndex(sample.metas), sample.query) = Scan(sample.metas, sample.query)
  /\ Pages(sample.metas, sample.limit) = [i \in DOMAIN sample.metas |-> i]
  /\ FieldsFit(sample.metas)
=============================================================================
