---------------------------- MODULE CatalogIndex ----------------------------
(***************************************************************************)
(* What catalogd derives from the metas of a catalog: the index of their   *)
(* sections in the catalog file (internal/catalogd/storage/index.go), the  *)
(* GraphQL schema discovered from their JSON and its paginated queries     *)
(* (internal/catalogd/graphql/graphql.go), and the outcome of conditional  *)
(* requests (internal/catalogd/server/http_preconditions_check.go).        *)
(*                                                                         *)
(* A meta is a record of its schema, package and name ("" when absent),    *)
(* the length of its blob and its JSON fields: a function from keys to the *)
(* kinds of their values.                                                  *)
(***************************************************************************)
EXTENDS Integers, Sequences, FiniteSets, SequencesExt

CONSTANTS
  remapFieldName(_),    \* JSON key -> GraphQL field name
  sanitizeTypeName(_),  \* schema name -> GraphQL type name
  queryFieldName(_),    \* schema name -> field of the root query
  MaxPage               \* the largest page, 100 in the code

ASSUME MaxPageAssumption == MaxPage \in Nat \ {0}

-----------------------------------------------------------------------------
(* The index. A section is where a blob stands in the catalog file.         *)

(* The numbers of a set, in ascending order. *)
Ascending(S) == CHOOSE f \in SetToSeqs(S) : \A i, j \in DOMAIN f : i < j => f[i] < f[j]

Offset(metas, i) ==
  LET start[k \in DOMAIN metas] == IF k = 1 THEN 0 ELSE start[k - 1] + metas[k - 1].len
  IN  start[i]
SectionOf(metas, i) == [offset |-> Offset(metas, i), length |-> metas[i].len]

SectionsBy(metas, Key(_)) ==
  [k \in {Key(metas[i]) : i \in DOMAIN metas} \ {""} |->
     {SectionOf(metas, i) : i \in {j \in DOMAIN metas : Key(metas[j]) = k}}]

newIndex(metas) ==
  [BySchema  |-> SectionsBy(metas, LAMBDA m : m.schema),
   ByPackage |-> SectionsBy(metas, LAMBDA m : m.pkg),
   ByName    |-> SectionsBy(metas, LAMBDA m : m.name)]

Lookup(by, k) == IF k \in DOMAIN by THEN by[k] ELSE {}

(* Sections of the metas that match every parameter given; "" is absent. *)
getSectionSet(idx, q) ==
  LET schema  == IF q.schema = "" THEN UNION {idx.BySchema[s] : s \in DOMAIN idx.BySchema}
                 ELSE Lookup(idx.BySchema, q.schema)
      package == IF q.pkg = "" THEN schema ELSE schema \cap Lookup(idx.ByPackage, q.pkg)
  IN  IF q.name = "" THEN package ELSE package \cap Lookup(idx.ByName, q.name)

(* The sections in the order of the file. *)
IndexGet(idx, q) ==
  CHOOSE f \in SetToSeqs(getSectionSet(idx, q)) :
    \A i, j \in DOMAIN f : i < j => f[i].offset <= f[j].offset

(* A lookup returns the blobs that match, each once, in the order of the    *)
(* file: what a scan of the file would return. Metas without a schema are   *)
(* found by no query.                                                       *)
Matches(m, q) == /\ m.schema # ""
                 /\ q.schema \in {"", m.schema} /\ q.pkg \in {"", m.pkg} /\ q.name \in {"", m.name}
Scan(metas, q) ==
  LET hits == Ascending({i \in DOMAIN metas : Matches(metas[i], q)})
  IN  [n \in DOMAIN hits |-> SectionOf(metas, hits[n])]

-----------------------------------------------------------------------------
(* GraphQL. The value of a field has a kind; of an array it is the kind of  *)
(* its first element, "null" when it has none. The type of a field is the   *)
(* one its first value suggests.                                            *)

Kinds == [array : BOOLEAN, kind : {"null", "string", "bool", "int", "float", "object"}]

jsonTypeToGraphQL(v) ==
  LET base == CASE v.kind = "bool" -> "Boolean"
                [] v.kind = "int" -> "Int"
                [] v.kind = "float" -> "Float"
                [] OTHER -> "String"     \* objects are sent as JSON text
  IN  [list |-> v.array, of |-> base]
NestedList == [list |-> TRUE, of |-> "object"]

DiscoveredSchemas(metas) == {metas[i].schema : i \in DOMAIN metas} \ {""}
ObjectsOf(metas, s) ==
  LET at == Ascending({i \in DOMAIN metas : metas[i].schema = s})
  IN  [n \in DOMAIN at |-> metas[at[n]]]

(* The keys of an object that give a field, and the values objects have for it. *)
KeysOf(obj, f) == {k \in DOMAIN obj.fields : remapFieldName(k) = f}
ValuesOf(objs, f) == UNION {{objs[i].fields[k] : k \in KeysOf(objs[i], f)} : i \in DOMAIN objs}

(* Field name -> its declared type; the keys of one object are visited in   *)
(* any order, so the first value is any of the first object that has one.   *)
FieldTypes(metas, s) ==
  LET objs == ObjectsOf(metas, s)
      names == UNION {{remapFieldName(k) : k \in DOMAIN objs[i].fields} : i \in DOMAIN objs}
      First(f) == CHOOSE i \in DOMAIN objs :
                    /\ KeysOf(objs[i], f) # {}
                    /\ \A j \in 1..(i - 1) : KeysOf(objs[j], f) = {}
  IN  [f \in names |->
         IF [array |-> TRUE, kind |-> "object"] \in ValuesOf(objs, f) THEN {NestedList}
         ELSE {jsonTypeToGraphQL(objs[First(f)].fields[k]) : k \in KeysOf(objs[First(f)], f)}]

(* What a query gets for a field of an object: nothing, a list of objects,  *)
(* the JSON text of any other list or object, or the scalar. One of several *)
(* keys with the same field name is taken, in any order.                    *)
Nothing == [list |-> FALSE, of |-> "nothing"]
Sent(v, type) ==
  IF ~v.array /\ v.kind = "null" THEN Nothing
  ELSE IF type = NestedList THEN [list |-> v.array, of |-> v.kind]
  ELSE IF v.array \/ v.kind = "object" THEN [list |-> FALSE, of |-> "String"]
  ELSE jsonTypeToGraphQL(v)
createFieldResolver(obj, f, type) ==
  IF KeysOf(obj, f) = {} THEN {Nothing} ELSE {Sent(obj.fields[k], type) : k \in KeysOf(obj, f)}

(* The library refuses a schema in which two types have one name, or a type *)
(* without fields.                                                          *)
ReservedTypes == {"Query", "CatalogSummary", "SchemaSummary"}
SchemaBuilds(metas) ==
  LET ss == DiscoveredSchemas(metas)
  IN  /\ \A s, t \in ss : s # t => sanitizeTypeName(s) # sanitizeTypeName(t)
      /\ \A s \in ss : sanitizeTypeName(s) \notin ReservedTypes /\ DOMAIN FieldTypes(metas, s) # {}

Summary(metas) ==
  {[name |-> s, totalObjects |-> Len(ObjectsOf(metas, s)),
    totalFields |-> Cardinality(DOMAIN FieldTypes(metas, s))] : s \in DiscoveredSchemas(metas)}

(* Schemas whose names give one field of the root query hide each other: a  *)
(* map keeps the last one written, in any order.                            *)
SchemasOfField(metas, field) ==
  {s \in DiscoveredSchemas(metas) : queryFieldName(s) = field}

ClampLimitZero(limit) == IF limit > MaxPage THEN MaxPage ELSE limit   \* mutant
ClampLimit(limit) == IF limit <= 0 \/ limit > MaxPage THEN MaxPage ELSE limit
ClampOffset(offset) == IF offset < 0 THEN 0 ELSE offset

(* A page of the objects of a schema, as positions. *)
Page(objects, limit, offset) ==
  LET first == ClampOffset(offset)
      last == IF first + ClampLimit(limit) < Len(objects) THEN first + ClampLimit(limit) ELSE Len(objects)
  IN  [k \in 1..(last - first) |-> first + k]

-----------------------------------------------------------------------------
(* Conditional requests. An entity tag header is "none", "star" or "tags"   *)
(* (no tag is ever sent, so none matches); a time header is absent, not a   *)
(* time, or a second, and the time of the file is cut to its second.        *)

TagHeaders == {"none", "star", "tags"}
TimeHeaders(seconds) == [is : {"none", "bad"}, s : {0}] \cup [is : {"time"}, s : seconds]
NoTime == [is |-> "none", s |-> 0]
NoHeaders == [im |-> "none", inm |-> "none", ius |-> NoTime, ims |-> NoTime]

checkIfMatch(h) ==
  CASE h.im = "none" -> "condNone" [] h.im = "star" -> "condTrue" [] OTHER -> "condFalse"
checkIfNoneMatch(h) ==
  CASE h.inm = "none" -> "condNone" [] h.inm = "star" -> "condFalse" [] OTHER -> "condTrue"
checkIfUnmodifiedSince(h, second) ==
  CASE h.ius.is # "time" -> "condNone" [] second <= h.ius.s -> "condTrue" [] OTHER -> "condFalse"
(* A header that is no time is answered with an error here and again served. *)
checkIfModifiedSince(h, second) ==
  CASE h.ims.is = "none" -> "condTrue" [] h.ims.is = "bad" -> "condNone"
    [] second <= h.ims.s -> "condFalse" [] OTHER -> "condTrue"

(* The status a request ends with before any content is sent, or 200; only  *)
(* GET and HEAD reach it.                                                    *)
checkPreconditions(h, second) ==
  LET ch == IF checkIfMatch(h) = "condNone" THEN checkIfUnmodifiedSince(h, second)
            ELSE checkIfMatch(h)
  IN  CASE ch = "condFalse" -> 412
        [] checkIfNoneMatch(h) = "condFalse" -> 304
        [] checkIfNoneMatch(h) = "condNone" /\ checkIfModifiedSince(h, second) = "condFalse" -> 304
        [] checkIfNoneMatch(h) = "condNone" /\ checkIfModifiedSince(h, second) = "condNone" -> 500
        [] OTHER -> 200

=============================================================================
