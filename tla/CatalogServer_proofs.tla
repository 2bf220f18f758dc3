------------------------- MODULE CatalogServer_proofs -------------------------
(***************************************************************************)
(* Theorems about CatalogServer, for any number of catalogs, contents,     *)
(* clients, requests and restarts, and about CatalogIndex, for any metas   *)
(* and queries.                                                            *)
(***************************************************************************)
EXTENDS MCCatalogServer, Ordering_proofs

(* The records that the steps update have these fields. *)
RequestFields == {"pc", "req", "code", "file", "answer", "during"}
WriterFields == {"pc", "cat", "new", "old"}

(* A record q as the request of client a. What the lock shows of its catalog
   is among the views it has witnessed, so is the file it holds open while it
   loads the index, and so is the file of its answer. *)
Formed(a, q) == /\ q = [f \in RequestFields |-> q[f]]
                /\ q.pc # "idle" => q.req \in RequestsOf[a]
ViewWitnessed(q) ==
  q.pc # "idle" /\ q.req.cat \in ServedCatalogs => View(q.req.cat) \in q.during
OpenWitnessed(q) ==
  q.pc = "index" => Refused(q.req) = 0 /\ q.file \in q.during /\ q.code # 404
AnswerWitnessed(q) ==
  q.pc = "done" =>
    /\ q.answer.file # Absent => q.answer.file \in q.during
    /\ q.answer.code = 404 /\ Refused(q.req) = 0 => \E d \in q.during : d.is # "whole"
Sound(a, q) == Formed(a, q) /\ ViewWitnessed(q) /\ OpenWitnessed(q) /\ AnswerWitnessed(q)

WriterSound == /\ root = [c \in ServedCatalogs |-> root[c]]
               /\ writer = [f \in WriterFields |-> writer[f]]
               /\ WriterHolds => writer.cat \in ServedCatalogs

(* The inductive invariant. *)
ViewInv == /\ WriterSound
           /\ request = [a \in Clients |-> request[a]]
           /\ \A a \in Clients : Sound(a, request[a])

LEMMA ViewInvAtomic == ViewInv => AtomicView
BY DEF ViewInv, Sound, AnswerWitnessed, AtomicView

(* The statuses of a conditional request; "not found" is not one of them. *)
LEMMA PreconditionCodes ==
  ASSUME NEW h, NEW s
  PROVE  checkPreconditions(h, s) \in {200, 304, 412, 500}
BY DEF checkPreconditions

(* An answer without a file, other than "not found". *)
LEMMA PlainAnswer ==
  /\ \A code : Answer(code).code = code /\ Answer(code).file = Absent
  /\ \A result : Executed(result).file = Absent /\ Executed(result).code # 404
BY DEF Answer, NoAnswer, Executed

LEMMA ServerInitInv == ServerInit => ViewInv
<1>1. SUFFICES ASSUME ServerInit PROVE ViewInv
  OBVIOUS
<1>2. \A a \in Clients : request[a] = NoRequest
  BY <1>1 DEF ServerInit
<1>3. WriterSound /\ request = [a \in Clients |-> request[a]]
  BY <1>1 DEF ServerInit, WriterSound, NoWriter, WriterFields, WriterHolds
<1>4. QED
  BY <1>2, <1>3 DEF ViewInv, Sound, Formed, ViewWitnessed, OpenWitnessed, AnswerWitnessed,
                    NoRequest, RequestFields

(* A step that changes no request and nothing that the lock shows. *)
LEMMA UnseenStep ==
  ASSUME ViewInv, WriterSound', request' = request,
         \A c \in ServedCatalogs : View(c)' = View(c)
  PROVE  ViewInv'
<1>1. SUFFICES ASSUME NEW a \in Clients PROVE Sound(a, request[a])'
  BY DEF ViewInv
<1>2. Sound(a, request[a]) /\ request'[a] = request[a]
  BY DEF ViewInv
<1>3. QED
  BY <1>2 DEF Sound, Formed, ViewWitnessed, OpenWitnessed, AnswerWitnessed

(* A step of one client, which holds no lock afterwards. *)
LEMMA ClientStep ==
  ASSUME ViewInv, NEW a \in Clients, NEW q, Sound(a, q),
         request' = [request EXCEPT ![a] = q], UNCHANGED <<root, writer>>
  PROVE  ViewInv'
<1>1. /\ WriterSound'
      /\ request' = [b \in Clients |-> request'[b]]
  BY DEF ViewInv, WriterSound, WriterHolds
<1>2. \A c : View(c)' = View(c)
  BY DEF View, WriterHolds
<1>3. \A b \in Clients : Sound(b, request'[b])
  BY DEF ViewInv
<1>4. \A b \in Clients : Sound(b, request[b])'
  BY <1>2, <1>3 DEF Sound, Formed, ViewWitnessed, OpenWitnessed, AnswerWitnessed
<1>5. QED
  BY <1>1, <1>4 DEF ViewInv

(* The steps of the Store or Delete that holds the lock, up to its end: the
   directory they change is hidden by the lock. *)
HeldStep ==
  \/ \E c \in ServedCatalogs : (\E k \in Contents : StoreLock(c, k)) \/ DeleteLock(c)
  \/ RemoveFiles \/ RemoveDir \/ Rename \/ PreWarm \/ Rollback \/ StoreFails

LEMMA HeldStepUnseen ==
  ASSUME ViewInv, HeldStep
  PROVE  WriterSound' /\ request' = request /\ \A c \in ServedCatalogs : View(c)' = View(c)
<1> USE DEF WriterHolds, WriterFields, View
<1>0. WriterSound
  BY DEF ViewInv
<1>1. ASSUME NEW c \in ServedCatalogs, (\E k \in Contents : StoreLock(c, k)) \/ DeleteLock(c)
      PROVE  /\ WriterSound' /\ request' = request
             /\ \A d \in ServedCatalogs : View(d)' = View(d)
  BY <1>0, <1>1 DEF StoreLock, DeleteLock, WriterSound
<1>2. CASE RemoveFiles \/ RemoveDir \/ Rename
  BY <1>0, <1>2 DEF RemoveFiles, RemoveDir, Rename, WriterSound
<1>3. CASE PreWarm \/ Rollback \/ StoreFails
  BY <1>0, <1>3 DEF PreWarm, Rollback, StoreFails, WriterSound
<1>4. QED
  BY <1>1, <1>2, <1>3 DEF HeldStep

(* The lock is released: the requests under way witness the new view. *)
LEMMA UnlockShows == ASSUME ViewInv, Unlock PROVE ViewInv'
<1>0. WriterSound
  BY DEF ViewInv
<1>1. /\ writer' = NoWriter /\ root' = root
      /\ request' = Witness(writer.cat, root[writer.cat])
  BY DEF Unlock
<1>2. WriterSound' /\ request' = [a \in Clients |-> request'[a]]
  BY <1>0, <1>1 DEF WriterSound, WriterHolds, NoWriter, WriterFields, Witness
<1>3. \A c : View(c)' = root[c]
  BY <1>1 DEF View, WriterHolds, NoWriter
<1>4. ASSUME NEW a \in Clients PROVE Sound(a, request[a])'
  <2>1. Sound(a, request[a])
    BY DEF ViewInv
  <2>2. CASE request[a].pc # "idle" /\ request[a].req.cat = writer.cat
    <3>1. request'[a] = [request[a] EXCEPT !.during = @ \cup {root[writer.cat]}]
      BY <1>1, <2>2 DEF Witness
    <3>2. /\ Formed(a, request[a])'
          /\ \A f \in RequestFields \ {"during"} : request'[a][f] = request[a][f]
          /\ request'[a].during = request[a].during \cup {root[writer.cat]}
      BY <2>1, <3>1 DEF Sound, Formed, RequestFields
    <3>3. QED
      BY <1>3, <2>1, <2>2, <3>2 DEF Sound, ViewWitnessed, OpenWitnessed, AnswerWitnessed, RequestFields
  <2>3. CASE ~(request[a].pc # "idle" /\ request[a].req.cat = writer.cat)
    <3>1. request'[a] = request[a]
      BY <1>1, <2>3 DEF Witness
    <3>2. request[a].pc # "idle" => \A d : d = request[a].req.cat => View(d)' = View(d)
      BY <1>3, <2>3 DEF View
    <3>3. QED
      BY <2>1, <3>1, <3>2 DEF Sound, Formed, ViewWitnessed, OpenWitnessed, AnswerWitnessed
  <2>4. QED
    BY <2>2, <2>3
<1>5. QED
  BY <1>2, <1>4 DEF ViewInv

(* A build of a schema ends: who waited for it has an answer without a file. *)
LEMMA FlightEnds ==
  ASSUME ViewInv, NEW c \in ServedCatalogs, EndFlight(c)
  PROVE  ViewInv'
<1>0. WriterSound
  BY DEF ViewInv
<1>1. root' = root /\ request' = [a \in Clients |-> request'[a]]
  BY DEF EndFlight
<1>2. WriterSound' /\ \A d : View(d)' = View(d)
  <2>1. CASE writer.pc = "wait" /\ writer.cat = c
    <3>1. PICK pc \in {"rollback", "unlock"} : writer' = [writer EXCEPT !.pc = pc]
      BY <2>1 DEF EndFlight
    <3>2. QED
      BY <1>0, <1>1, <2>1, <3>1 DEF WriterSound, WriterHolds, WriterFields, View
  <2>2. CASE ~(writer.pc = "wait" /\ writer.cat = c)
    BY <1>0, <1>1, <2>2 DEF EndFlight, WriterSound, WriterHolds, View
  <2>3. QED
    BY <2>1, <2>2
<1>3. ASSUME NEW a \in Clients PROVE Sound(a, request[a])'
  <2>1. Sound(a, request[a])
    BY DEF ViewInv
  <2>2. CASE request[a].pc = "wait" /\ request[a].req.cat = c
    <3>1. request'[a] = [request[a] EXCEPT !.pc = "done", !.answer = Executed(flight[c].result)]
      BY <2>2 DEF EndFlight
    <3>2. /\ Formed(a, request[a])'
          /\ \A f \in {"req", "code", "file", "during"} : request'[a][f] = request[a][f]
          /\ request'[a].pc = "done" /\ request'[a].answer = Executed(flight[c].result)
      BY <2>1, <2>2, <3>1 DEF Sound, Formed, RequestFields
    <3>3. QED
      BY <1>2, <2>1, <2>2, <3>2, PlainAnswer
         DEF Sound, ViewWitnessed, OpenWitnessed, AnswerWitnessed
  <2>3. CASE ~(request[a].pc = "wait" /\ request[a].req.cat = c)
    <3>1. request'[a] = request[a]
      BY <2>3 DEF EndFlight
    <3>2. QED
      BY <1>2, <2>1, <3>1 DEF Sound, Formed, ViewWitnessed, OpenWitnessed, AnswerWitnessed
  <2>4. QED
    BY <2>2, <2>3
<1>4. QED
  BY <1>1, <1>2, <1>3 DEF ViewInv

(* A client's own steps, each of which leaves the directories and the lock as
   they are. *)
LEMMA RequestKept ==
  ASSUME ViewInv, NEW a \in Clients,
         \/ \E r \in RequestsOf[a] : Ask(a, r)
         \/ RequestStep(a) \/ Close(a)
  PROVE  ViewInv'
<1> DEFINE q == request[a]
           r == q.req
           Done(answer) == [q EXCEPT !.pc = "done", !.answer = answer]
<1>1. Sound(a, q)
  BY DEF ViewInv
<1>2. UNCHANGED <<root, writer>>
  BY DEF RequestStep, Ask, Refuse, OpenCatalog, ReadIndex, FindCatalog, GetSchema, Close
(* Responding with an answer that was witnessed. *)
<1>3. ASSUME NEW answer, q.pc # "idle", Respond(a, answer),
             answer.file # Absent => answer.file \in q.during,
             answer.code = 404 /\ Refused(r) = 0 => \E d \in q.during : d.is # "whole"
      PROVE  ViewInv'
  <2>1. request' = [request EXCEPT ![a] = Done(answer)]
    BY <1>3 DEF Respond, ViewInv
  <2>2. /\ Formed(a, Done(answer))
        /\ Done(answer).pc = "done" /\ Done(answer).answer = answer
        /\ Done(answer).req = q.req /\ Done(answer).during = q.during
    BY <1>1, <1>3 DEF Sound, Formed, RequestFields
  <2> HIDE DEF Done
  <2>3. Sound(a, Done(answer))
    BY <1>1, <1>3, <2>2 DEF Sound, ViewWitnessed, OpenWitnessed, AnswerWitnessed
  <2>4. QED
    BY <1>2, <2>1, <2>3, ClientStep
(* Going on to another step of the same request. *)
<1>4. ASSUME q.pc # "idle", NEW pc \in {"schema", "wait"},
             request' = [request EXCEPT ![a].pc = pc]
      PROVE  ViewInv'
  <2>1. request' = [request EXCEPT ![a] = [q EXCEPT !.pc = pc]]
    BY <1>4 DEF ViewInv
  <2>2. Sound(a, [q EXCEPT !.pc = pc])
    BY <1>1, <1>4 DEF Sound, Formed, ViewWitnessed, OpenWitnessed, AnswerWitnessed, RequestFields
  <2>3. QED
    BY <1>2, <2>1, <2>2, ClientStep
(* With the read lock, the directory is what the lock shows. *)
<1>5. ASSUME q.pc # "idle", RLock, Refused(r) = 0
      PROVE  root[r.cat] \in q.during
  <2>1. r.cat \in ServedCatalogs
    BY <1>1, <1>5, RequestsAssumption DEF Sound, Formed
  <2>2. QED
    BY <1>1, <1>5, <2>1 DEF Sound, ViewWitnessed, View, RLock
<1>6. ASSUME NEW p \in RequestsOf[a], Ask(a, p) PROVE ViewInv'
  <2> DEFINE n == [NoRequest EXCEPT !.pc = "route", !.req = p,
                     !.during = IF p.cat \in ServedCatalogs THEN {View(p.cat)} ELSE {}]
  <2>1. request' = [request EXCEPT ![a] = n]
    BY <1>6 DEF Ask
  <2>2. Sound(a, n)
    BY DEF Sound, Formed, ViewWitnessed, OpenWitnessed, AnswerWitnessed, RequestFields, NoRequest
  <2>3. QED
    BY <1>2, <2>1, <2>2, ClientStep
<1>7. CASE Close(a)
  <2>1. Sound(a, NoRequest)
    BY DEF Sound, Formed, ViewWitnessed, OpenWitnessed, AnswerWitnessed, RequestFields, NoRequest
  <2>2. QED
    BY <1>2, <1>7, <2>1, ClientStep DEF Close
<1>8. CASE Refuse(a)
  BY <1>3, <1>8, PlainAnswer DEF Refuse
<1>9. CASE OpenCatalog(a)
  <2> DEFINE d == root[r.cat]
             checked == checkPreconditions(r.headers, d.at)
             code == IF r.route = "all" /\ checked = 500 THEN 200 ELSE checked
             opened == [q EXCEPT !.pc = "index", !.file = d, !.code = code]
  <2>1. q.pc = "route" /\ Refused(r) = 0 /\ RLock
    BY <1>9 DEF OpenCatalog
  <2>2. d \in q.during
    BY <1>5, <2>1
  <2>3. code # 404
    BY PreconditionCodes
  <2>4. \/ d.is # "whole" /\ Respond(a, Answer(404))
        \/ Respond(a, [Answer(code) EXCEPT !.file = d])
        \/ Respond(a, [Answer(code) EXCEPT !.file = d,
                                           !.sections = Body(r, WholeFile(MetasIn(d)))])
        \/ request' = [request EXCEPT ![a].pc = "index", ![a].file = d, ![a].code = code]
    BY <1>9, Zenon DEF OpenCatalog
  <2> HIDE DEF code, d
  <2>5. CASE d.is # "whole" /\ Respond(a, Answer(404))
    BY <1>3, <2>1, <2>2, <2>5, PlainAnswer
  <2>6. CASE Respond(a, [Answer(code) EXCEPT !.file = d])
    <3>1. /\ [Answer(code) EXCEPT !.file = d].file = d
          /\ [Answer(code) EXCEPT !.file = d].code = code
      BY DEF Answer, NoAnswer
    <3>2. QED
      BY <1>3, <2>1, <2>2, <2>3, <2>6, <3>1
  <2>7. CASE Respond(a, [Answer(code) EXCEPT !.file = d,
                                             !.sections = Body(r, WholeFile(MetasIn(d)))])
    <3> DEFINE answer == [Answer(code) EXCEPT !.file = d,
                                              !.sections = Body(r, WholeFile(MetasIn(d)))]
    <3>1. answer.file = d /\ answer.code = code
      BY DEF Answer, NoAnswer
    <3>2. Respond(a, answer)
      BY <2>7
    <3> HIDE DEF answer
    <3>3. QED
      BY <1>3, <2>1, <2>2, <2>3, <3>1, <3>2
  <2>8. CASE request' = [request EXCEPT ![a].pc = "index", ![a].file = d, ![a].code = code]
    <3>1. request' = [request EXCEPT ![a] = opened]
      BY <2>8 DEF ViewInv
    <3>2. /\ Formed(a, opened)
          /\ opened.pc = "index" /\ opened.file = d /\ opened.code = code
          /\ opened.req = q.req /\ opened.during = q.during
      BY <1>1, <2>1 DEF Sound, Formed, RequestFields
    <3> HIDE DEF opened
    <3>3. Sound(a, opened)
      BY <1>1, <2>1, <2>2, <2>3, <3>2 DEF Sound, ViewWitnessed, OpenWitnessed, AnswerWitnessed
    <3>4. QED
      BY <1>2, <3>1, <3>3, ClientStep
  <2>9. QED
    BY <2>4, <2>5, <2>6, <2>7, <2>8
<1>10. CASE ReadIndex(a)
  <2> DEFINE d == root[r.cat]
             answer == [Answer(q.code) EXCEPT
                          !.file = q.file,
                          !.sections = Body(r, IndexGet(newIndex(MetasIn(d)), r.query))]
  <2>1. q.pc = "index" /\ RLock /\ Refused(r) = 0 /\ q.file \in q.during /\ q.code # 404
    BY <1>1, <1>10 DEF ReadIndex, Sound, OpenWitnessed
  <2>2. d \in q.during
    BY <1>5, <2>1
  <2>3. \/ d.is # "whole" /\ Respond(a, Answer(404))
        \/ Respond(a, answer)
    BY <1>10, Zenon DEF ReadIndex
  <2>4. answer.file = q.file /\ answer.code = q.code
    BY DEF Answer, NoAnswer
  <2> HIDE DEF answer, d
  <2>5. QED
    BY <1>3, <2>1, <2>2, <2>3, <2>4, PlainAnswer
<1>11. CASE FindCatalog(a)
  <2>1. q.pc = "route" /\ Refused(r) = 0 /\ RLock
    BY <1>11 DEF FindCatalog
  <2>2. \/ root[r.cat] = Absent /\ Respond(a, Answer(404))
        \/ request' = [request EXCEPT ![a].pc = "schema"]
    BY <1>11 DEF FindCatalog
  <2>3. Absent.is # "whole"
    BY DEF Absent
  <2>4. QED
    BY <1>3, <1>4, <1>5, <2>1, <2>2, <2>3, PlainAnswer
<1>12. CASE GetSchema(a)
  <2>1. /\ q.pc = "schema"
        /\ \/ Respond(a, Executed(schemaCache[r.cat]))
           \/ request' = [request EXCEPT ![a].pc = "wait"]
    BY <1>12 DEF GetSchema
  <2>2. QED
    BY <1>3, <1>4, <2>1, PlainAnswer
<1>13. QED
  BY <1>6, <1>7, <1>8, <1>9, <1>10, <1>11, <1>12 DEF RequestStep

LEMMA ServerStep == ASSUME ViewInv, [ServerNext]_serveVars PROVE ViewInv'
<1>1. CASE HeldStep
  BY <1>1, HeldStepUnseen, UnseenStep
<1>2. CASE Unlock
  BY <1>2, UnlockShows
<1>3. ASSUME NEW c \in ServedCatalogs, FlightStep(c) PROVE ViewInv'
  <2>1. CASE BuildSchema(c) \/ CacheSchema(c)
    <3>1. UNCHANGED <<root, writer, request>>
      BY <2>1 DEF BuildSchema, CacheSchema
    <3>2. QED
      BY <3>1, UnseenStep DEF ViewInv, WriterSound, WriterHolds, View
  <2>2. QED
    BY <1>3, <2>1, FlightEnds DEF FlightStep
<1>4. ASSUME NEW a \in Clients,
             (\E r \in RequestsOf[a] : Ask(a, r)) \/ RequestStep(a) \/ Close(a)
      PROVE  ViewInv'
  BY <1>4, RequestKept
<1>5. CASE RestartServer
  <2>1. /\ writer' = NoWriter /\ root' = root
        /\ request' = [a \in Clients |-> NoRequest]
    BY <1>5 DEF RestartServer
  <2>2. WriterSound'
    BY <2>1 DEF ViewInv, WriterSound, WriterHolds, NoWriter, WriterFields
  <2>3. \A a \in Clients : request'[a] = NoRequest
    BY <2>1
  <2>4. QED
    BY <2>1, <2>2, <2>3, ZenonT(40)
       DEF ViewInv, Sound, Formed, ViewWitnessed, OpenWitnessed, AnswerWitnessed,
           NoRequest, RequestFields
<1>6. CASE UNCHANGED serveVars
  BY <1>6, UnseenStep DEF serveVars, ViewInv, WriterSound, WriterHolds, View
<1>7. QED
  BY <1>1, <1>2, <1>3, <1>4, <1>5, <1>6 DEF ServerNext, WriterStep, HeldStep

(* Every file served is one the catalog had during the request, and "not
   found" is answered only if there was a moment without one: the removal and
   the rename by which Store replaces a directory, its roll back when the
   schema does not build and a Delete that fails half way are never seen
   through the read lock, which the metas handler takes twice. For any number
   of catalogs, contents, clients, Stores and restarts. *)
THEOREM ViewsAtomic == ServerSpec => []AtomicView
<1>1. ViewInv /\ [ServerNext]_serveVars => ViewInv'
  BY ServerStep
<1>2. QED
  BY <1>1, ServerInitInv, ViewInvAtomic, PTL DEF ServerSpec


-----------------------------------------------------------------------------
(* What the index and the schema are derived from. *)

(* The metas of a catalog file: a list of blobs that are not empty. *)
AreMetas(metas) ==
  /\ Len(metas) \in Nat /\ DOMAIN metas = 1..Len(metas)
  /\ \A i \in DOMAIN metas :
       /\ metas[i].len \in Nat \ {0}
       /\ \A k \in DOMAIN metas[i].fields : metas[i].fields[k] \in Kinds

LEMMA AscendingIs ==
  ASSUME NEW n \in Nat, NEW S, S \subseteq 1..n
  PROVE  /\ IsFiniteSet(S) /\ Cardinality(S) \in Nat
         /\ Ascending(S) \in SetToSeqs(S)
         /\ DOMAIN Ascending(S) = 1..Cardinality(S)
         /\ \A i, j \in DOMAIN Ascending(S) : i < j => Ascending(S)[i] < Ascending(S)[j]
         /\ \A i \in DOMAIN Ascending(S) : Ascending(S)[i] \in S
<1> DEFINE T == {r \in S \X S : r[1] < r[2]}
<1>1. IsFiniteSet(S)
  <2>1. IsFiniteSet(1..n)
    BY FS_Interval
  <2>2. QED
    BY <2>1, FS_Subset
<1>2. \A a, b \in S : <<a, b>> \in T <=> a < b
  OBVIOUS
<1> HIDE DEF T
<1>3. Orders(T, S)
  BY <1>2 DEF Orders
<1>4. PICK f \in SetToSeqs(S) : \A i, j \in DOMAIN f : i < j => <<f[i], f[j]>> \in T
  BY <1>1, <1>3, SortExists
<1>5. \A i, j \in DOMAIN f : i < j => f[i] < f[j]
  <2>1. \A i \in DOMAIN f : f[i] \in S
    BY <1>1, <1>4, Enumeration
  <2>2. QED
    BY <2>1, <1>2, <1>4
<1>6. /\ Ascending(S) \in SetToSeqs(S)
      /\ \A i, j \in DOMAIN Ascending(S) : i < j => Ascending(S)[i] < Ascending(S)[j]
  BY <1>5, Zenon DEF Ascending
<1>7. QED
  BY <1>1, <1>6, Enumeration

-----------------------------------------------------------------------------
(* Offsets: tables of the recursive function exist. *)
StartTable(t, metas, n) == t = [k \in 1..n |-> IF k = 1 THEN 0 ELSE t[k - 1] + metas[k - 1].len]

LEMMA StartValues ==
  ASSUME NEW t, NEW metas, NEW n \in Nat, StartTable(t, metas, n)
  PROVE  \A k \in 1..n : t[k] = IF k = 1 THEN 0 ELSE t[k - 1] + metas[k - 1].len
<1> DEFINE F(k) == IF k = 1 THEN 0 ELSE t[k - 1] + metas[k - 1].len
<1>1. t = [k \in 1..n |-> F(k)]
  BY DEF StartTable
<1> HIDE DEF F
<1>2. \A k \in 1..n : t[k] = F(k)
  BY <1>1
<1>3. QED
  BY <1>2 DEF F

LEMMA StartTables ==
  ASSUME NEW metas
  PROVE  \A n \in Nat : \E t : StartTable(t, metas, n)
<1> DEFINE Bad == {n \in Nat : ~\E t : StartTable(t, metas, n)}
<1>1. SUFFICES ASSUME Bad # {} PROVE FALSE
  OBVIOUS
<1>2. PICK m \in Bad : \A n \in Bad : m <= n
  <2>1. Bad \in SUBSET Nat
    OBVIOUS
  <2> HIDE DEF Bad
  <2>2. QED
    BY <1>1, <2>1, NatMin
<1>3. m \in Nat
  OBVIOUS
<1>4. CASE m = 0
  <2> DEFINE t == [k \in 1..0 |-> 0]
  <2>1. StartTable(t, metas, 0)
    BY DEF StartTable
  <2>2. QED
    BY <1>4, <2>1
<1>5. CASE m # 0
  <2>1. m - 1 \in Nat /\ m - 1 \notin Bad
    <3> HIDE DEF Bad
    <3>1. QED
      BY <1>2, <1>3, <1>5
  <2>2. PICK t : StartTable(t, metas, m - 1)
    BY <2>1
  <2>3. \A k \in 1..(m - 1) : t[k] = IF k = 1 THEN 0 ELSE t[k - 1] + metas[k - 1].len
    BY <2>1, <2>2, StartValues
  <2> DEFINE Len0(k) == metas[k - 1].len
  <2> DEFINE u == [k \in 1..m |-> IF k < m THEN t[k] ELSE IF k = 1 THEN 0 ELSE t[k - 1] + Len0(k)]
             v == [k \in 1..m |-> IF k = 1 THEN 0 ELSE u[k - 1] + Len0(k)]
  <2>4. ASSUME NEW k \in 1..m PROVE u[k] = v[k]
    <3>0. \A j \in 1..(m - 1) : t[j] = IF j = 1 THEN 0 ELSE t[j - 1] + Len0(j)
      BY <2>3
    <3> HIDE DEF Len0
    <3>1. CASE k = 1
      <4>1. v[k] = 0
        BY <3>1
      <4>2. CASE k < m
        <5>1. k \in 1..(m - 1)
          BY <4>2, <1>3
        <5>2. u[k] = 0
          BY <5>1, <4>2, <3>1, <3>0
        <5>3. QED
          BY <4>1, <5>2
      <4>3. CASE ~(k < m)
        BY <4>1, <4>3, <3>1
      <4>4. QED
        BY <4>2, <4>3
    <3>2. CASE k # 1
      <4>1. k - 1 \in 1..m /\ k - 1 < m
        BY <3>2, <1>3
      <4>2. u[k - 1] = t[k - 1]
        BY <4>1
      <4>3. u[k] = t[k - 1] + Len0(k)
        <5>1. CASE k < m
          <6>1. u[k] = t[k] /\ k \in 1..(m - 1)
            BY <5>1, <1>3
          <6>2. QED
            BY <6>1, <3>2, <3>0
        <5>2. CASE ~(k < m)
          BY <5>2, <3>2
        <5>3. QED
          BY <5>1, <5>2
      <4>4. v[k] = u[k - 1] + Len0(k)
        BY <3>2
      <4>5. QED
        BY <4>2, <4>3, <4>4
    <3>3. QED
      BY <3>1, <3>2
  <2>5. u = v
    <3>1. DOMAIN u = 1..m /\ DOMAIN v = 1..m /\ u = [k \in 1..m |-> u[k]] /\ v = [k \in 1..m |-> v[k]]
      OBVIOUS
    <3> HIDE DEF u, v
    <3>2. QED
      BY <3>1, <2>4
  <2>6. StartTable(u, metas, m)
    BY <2>5 DEF StartTable
  <2> HIDE DEF u
  <2>7. QED
    BY <2>6
<1>6. QED
  BY <1>4, <1>5

(* A blob starts where the ones before it end. *)
LEMMA Offsets ==
  ASSUME NEW metas, AreMetas(metas)
  PROVE  /\ \A i \in DOMAIN metas : Offset(metas, i) \in Nat
         /\ \A i, j \in DOMAIN metas : i < j => Offset(metas, i) < Offset(metas, j)
<1> DEFINE n == Len(metas)
           t == CHOOSE u : StartTable(u, metas, n)
<1>1. n \in Nat /\ DOMAIN metas = 1..n /\ \A k \in 1..n : metas[k].len \in Nat /\ metas[k].len > 0
  BY DEF AreMetas
<1>2. StartTable(t, metas, n)
  <2>1. \E u : StartTable(u, metas, n)
    BY <1>1, StartTables
  <2>2. QED
    BY <2>1
<1>3. \A i \in DOMAIN metas : Offset(metas, i) = t[i]
  BY <1>1, Zenon DEF Offset, StartTable
<1> HIDE DEF t
<1>4. \A k \in 1..n : t[k] = IF k = 1 THEN 0 ELSE t[k - 1] + metas[k - 1].len
  BY <1>1, <1>2, StartValues
<1> HIDE DEF n
<1> DEFINE Good(k) == t[k] \in Nat /\ \A i \in 1..n : i < k => t[i] < t[k]
           Bad == {k \in 1..n : ~Good(k)}
<1>5. Bad = {}
  <2>1. SUFFICES ASSUME Bad # {} PROVE FALSE
    OBVIOUS
  <2>2. PICK m \in Bad : \A k \in Bad : m <= k
    <3>1. Bad \in SUBSET Nat
      BY <1>1
    <3> HIDE DEF Bad
    <3>2. QED
      BY <2>1, <3>1, NatMin
  <2>3. m \in 1..n /\ m \in Nat /\ ~Good(m)
    BY <1>1
  <2>4. CASE m = 1
    <3>1. t[m] = 0
      BY <2>3, <2>4, <1>4
    <3>2. QED
      BY <3>1, <2>3, <2>4, <1>1
  <2>5. CASE m # 1
    <3>1. m - 1 \in 1..n /\ m - 1 < m
      BY <2>3, <2>5, <1>1
    <3>2. Good(m - 1)
      <4>1. m - 1 \notin Bad
        <5> HIDE DEF Bad
        <5>1. QED
          BY <2>2, <2>3, <3>1
      <4> HIDE DEF Good
      <4>2. QED
        BY <3>1, <4>1
    <3>3. t[m] = t[m - 1] + metas[m - 1].len
      BY <2>3, <2>5, <1>4
    <3>4. t[m - 1] \in Nat /\ metas[m - 1].len \in Nat /\ metas[m - 1].len > 0
      BY <3>1, <3>2, <1>1
    <3> DEFINE a == t[m - 1]
               l == metas[m - 1].len
    <3>5. t[m] = a + l /\ a \in Nat /\ l \in Nat /\ l > 0
      BY <3>3, <3>4
    <3>6. ASSUME NEW i \in 1..n, i < m PROVE t[i] < t[m]
      <4>1. CASE i = m - 1
        <5>1. t[i] = a
          BY <4>1
        <5> HIDE DEF a, l
        <5>2. QED
          BY <5>1, <3>5
      <4>2. CASE i < m - 1
        <5>1. t[i] < a /\ i \in 1..n /\ Good(i)
          <6>1. t[i] < a
            BY <4>2, <3>2
          <6>2. i \notin Bad
            <7> HIDE DEF Bad
            <7>1. QED
              BY <2>2, <2>3, <3>6, <1>1
          <6> HIDE DEF Good
          <6>3. QED
            BY <6>1, <6>2
        <5>2. t[i] \in Nat
          BY <5>1
        <5> HIDE DEF a, l
        <5>3. QED
          BY <5>1, <5>2, <3>5
      <4>3. QED
        BY <4>1, <4>2, <3>6, <2>3, <1>1
    <3> HIDE DEF a, l
    <3>7. QED
      BY <3>5, <3>6, <2>3
  <2>6. QED
    BY <2>4, <2>5
<1>6. \A k \in 1..n : Good(k)
  <2> HIDE DEF Good
  <2>1. QED
    BY <1>5
<1>7. QED
  BY <1>1, <1>3, <1>6

-----------------------------------------------------------------------------
(* The index. *)
Hits(metas, q) == {i \in DOMAIN metas : Matches(metas[i], q)}
WithSchema(metas, k) == {i \in DOMAIN metas : metas[i].schema = k}
WithPackage(metas, k) == {i \in DOMAIN metas : metas[i].pkg = k}
WithName(metas, k) == {i \in DOMAIN metas : metas[i].name = k}
SectionsAt(metas, S) == {SectionOf(metas, i) : i \in S}

LEMMA SectionsDiffer ==
  ASSUME NEW metas, AreMetas(metas), NEW i \in DOMAIN metas, NEW j \in DOMAIN metas
  PROVE  /\ SectionOf(metas, i).offset \in Nat
         /\ i < j => SectionOf(metas, i).offset < SectionOf(metas, j).offset
         /\ SectionOf(metas, i).offset = SectionOf(metas, j).offset => i = j
<1>1. i \in Nat /\ j \in Nat
  BY DEF AreMetas
<1>2. SectionOf(metas, i).offset = Offset(metas, i) /\ SectionOf(metas, j).offset = Offset(metas, j)
  BY DEF SectionOf
<1>3. /\ Offset(metas, i) \in Nat /\ Offset(metas, j) \in Nat
      /\ i < j => Offset(metas, i) < Offset(metas, j)
      /\ j < i => Offset(metas, j) < Offset(metas, i)
  BY Offsets
<1>4. QED
  BY <1>1, <1>2, <1>3

LEMMA IndexedBy ==
  ASSUME NEW metas, NEW k, k # ""
  PROVE  /\ Lookup(newIndex(metas).BySchema, k) = SectionsAt(metas, WithSchema(metas, k))
         /\ Lookup(newIndex(metas).ByPackage, k) = SectionsAt(metas, WithPackage(metas, k))
         /\ Lookup(newIndex(metas).ByName, k) = SectionsAt(metas, WithName(metas, k))
<1>1. newIndex(metas).BySchema =
        [x \in {metas[i].schema : i \in DOMAIN metas} \ {""} |->
           SectionsAt(metas, WithSchema(metas, x))]
  BY DEF newIndex, SectionsBy, SectionsAt, WithSchema, WithPackage, WithName
<1>2. newIndex(metas).ByPackage =
        [x \in {metas[i].pkg : i \in DOMAIN metas} \ {""} |->
           SectionsAt(metas, WithPackage(metas, x))]
  BY DEF newIndex, SectionsBy, SectionsAt, WithSchema, WithPackage, WithName
<1>3. newIndex(metas).ByName =
        [x \in {metas[i].name : i \in DOMAIN metas} \ {""} |->
           SectionsAt(metas, WithName(metas, x))]
  BY DEF newIndex, SectionsBy, SectionsAt, WithSchema, WithPackage, WithName
<1>4. SectionsAt(metas, {}) = {}
  BY DEF SectionsAt
<1>6. Lookup(newIndex(metas).BySchema, k) = SectionsAt(metas, WithSchema(metas, k))
  <2>1. CASE k \in {metas[i].schema : i \in DOMAIN metas}
    BY <1>1, <2>1 DEF Lookup
  <2>2. CASE k \notin {metas[i].schema : i \in DOMAIN metas}
    <3>1. WithSchema(metas, k) = {}
      BY <2>2 DEF WithSchema
    <3>2. QED
      BY <1>1, <1>4, <2>2, <3>1 DEF Lookup
  <2>3. QED
    BY <2>1, <2>2
<1>7. Lookup(newIndex(metas).ByPackage, k) = SectionsAt(metas, WithPackage(metas, k))
  <2>1. CASE k \in {metas[i].pkg : i \in DOMAIN metas}
    BY <1>2, <2>1 DEF Lookup
  <2>2. CASE k \notin {metas[i].pkg : i \in DOMAIN metas}
    <3>1. WithPackage(metas, k) = {}
      BY <2>2 DEF WithPackage
    <3>2. QED
      BY <1>2, <1>4, <2>2, <3>1 DEF Lookup
  <2>3. QED
    BY <2>1, <2>2
<1>8. Lookup(newIndex(metas).ByName, k) = SectionsAt(metas, WithName(metas, k))
  <2>1. CASE k \in {metas[i].name : i \in DOMAIN metas}
    BY <1>3, <2>1 DEF Lookup
  <2>2. CASE k \notin {metas[i].name : i \in DOMAIN metas}
    <3>1. WithName(metas, k) = {}
      BY <2>2 DEF WithName
    <3>2. QED
      BY <1>3, <1>4, <2>2, <3>1 DEF Lookup
  <2>3. QED
    BY <2>1, <2>2
<1>9. QED
  BY <1>6, <1>7, <1>8

LEMMA SectionsMeet ==
  ASSUME NEW metas, AreMetas(metas), NEW S, S \subseteq DOMAIN metas, NEW T, T \subseteq DOMAIN metas
  PROVE  SectionsAt(metas, S) \cap SectionsAt(metas, T) = SectionsAt(metas, S \cap T)
<1>1. \A i, j \in DOMAIN metas : SectionOf(metas, i) = SectionOf(metas, j) => i = j
  BY SectionsDiffer
<1>2. QED
  BY <1>1 DEF SectionsAt

(* The sections a query finds are those of the metas that match. *)
LEMMA SectionSet ==
  ASSUME NEW metas, AreMetas(metas), NEW q
  PROVE  getSectionSet(newIndex(metas), q) = SectionsAt(metas, Hits(metas, q))
<1> DEFINE D == DOMAIN metas
           A == {i \in D : metas[i].schema # "" /\ q.schema \in {"", metas[i].schema}}
           B == {i \in D : q.pkg \in {"", metas[i].pkg}}
           C == {i \in D : q.name \in {"", metas[i].name}}
           idx == newIndex(metas)
           schema == IF q.schema = "" THEN UNION {idx.BySchema[s] : s \in DOMAIN idx.BySchema}
                     ELSE Lookup(idx.BySchema, q.schema)
           package == IF q.pkg = "" THEN schema ELSE schema \cap Lookup(idx.ByPackage, q.pkg)
<1>1. getSectionSet(idx, q) = IF q.name = "" THEN package ELSE package \cap Lookup(idx.ByName, q.name)
  BY Zenon DEF getSectionSet
<1>2. schema = SectionsAt(metas, A)
  <2>1. CASE q.schema = ""
    <3>1. idx.BySchema =
        [x \in {metas[i].schema : i \in D} \ {""} |-> SectionsAt(metas, WithSchema(metas, x))]
      BY DEF newIndex, SectionsBy, SectionsAt, WithSchema, WithPackage, WithName
    <3> HIDE DEF idx
    <3>2. UNION {idx.BySchema[s] : s \in DOMAIN idx.BySchema} = SectionsAt(metas, A)
      <4>1. ASSUME NEW x \in UNION {idx.BySchema[s] : s \in DOMAIN idx.BySchema}
            PROVE  x \in SectionsAt(metas, A)
        <5>1. PICK s \in DOMAIN idx.BySchema : x \in idx.BySchema[s]
          OBVIOUS
        <5>2. s # "" /\ x \in SectionsAt(metas, WithSchema(metas, s))
          BY <3>1, <5>1
        <5>3. QED
          BY <5>2, <2>1 DEF SectionsAt, WithSchema
      <4>2. ASSUME NEW x \in SectionsAt(metas, A)
            PROVE  x \in UNION {idx.BySchema[s] : s \in DOMAIN idx.BySchema}
        <5>1. PICK i \in A : x = SectionOf(metas, i)
          BY DEF SectionsAt
        <5> DEFINE s == metas[i].schema
        <5>2. s \in {metas[j].schema : j \in D} \ {""}
          OBVIOUS
        <5>3. s \in DOMAIN idx.BySchema /\ x \in idx.BySchema[s]
          <6>1. s \in DOMAIN idx.BySchema /\ idx.BySchema[s] = SectionsAt(metas, WithSchema(metas, s))
            BY <5>2, <3>1
          <6>2. i \in WithSchema(metas, s)
            BY DEF WithSchema
          <6> HIDE DEF s
          <6>3. QED
            BY <5>1, <6>1, <6>2 DEF SectionsAt
        <5>4. QED
          BY <5>3
      <4>3. QED
        BY <4>1, <4>2
    <3>3. QED
      BY <2>1, <3>2
  <2>2. CASE q.schema # ""
    <3>1. WithSchema(metas, q.schema) = A
      BY <2>2 DEF WithSchema
    <3>2. Lookup(newIndex(metas).BySchema, q.schema) = SectionsAt(metas, WithSchema(metas, q.schema))
      BY ONLY <2>2, IndexedBy
    <3> HIDE DEF A
    <3>3. QED
      BY <2>2, <3>1, <3>2
  <2>3. QED
    BY <2>1, <2>2
<1>3. package = SectionsAt(metas, A \cap B)
  <2>1. CASE q.pkg = ""
    <3>1. A \cap B = A
      BY <2>1
    <3> HIDE DEF A, B, schema
    <3>2. QED
      BY <2>1, <3>1, <1>2
  <2>2. CASE q.pkg # ""
    <3>1. WithPackage(metas, q.pkg) = B
      BY <2>2 DEF WithPackage
    <3>2. Lookup(idx.ByPackage, q.pkg) = SectionsAt(metas, B)
      <4>1. Lookup(newIndex(metas).ByPackage, q.pkg) = SectionsAt(metas, WithPackage(metas, q.pkg))
        BY ONLY <2>2, IndexedBy
      <4> HIDE DEF B
      <4>2. QED
        BY <3>1, <4>1
    <3>3. A \subseteq D /\ B \subseteq D
      OBVIOUS
    <3> HIDE DEF A, B, schema, idx, D
    <3>4. SectionsAt(metas, A) \cap SectionsAt(metas, B) = SectionsAt(metas, A \cap B)
      BY <3>3, SectionsMeet DEF D
    <3>5. QED
      BY <2>2, <3>2, <3>4, <1>2
  <2>3. QED
    BY <2>1, <2>2
<1>4. getSectionSet(idx, q) = SectionsAt(metas, A \cap B \cap C)
  <2>1. CASE q.name = ""
    <3>1. A \cap B \cap C = A \cap B
      BY <2>1
    <3> HIDE DEF A, B, C, package, idx
    <3>2. QED
      BY <2>1, <3>1, <1>1, <1>3
  <2>2. CASE q.name # ""
    <3>1. WithName(metas, q.name) = C
      BY <2>2 DEF WithName
    <3>2. Lookup(idx.ByName, q.name) = SectionsAt(metas, C)
      <4>1. Lookup(newIndex(metas).ByName, q.name) = SectionsAt(metas, WithName(metas, q.name))
        BY ONLY <2>2, IndexedBy
      <4> HIDE DEF C
      <4>2. QED
        BY <3>1, <4>1
    <3>3. A \cap B \subseteq D /\ C \subseteq D
      OBVIOUS
    <3> DEFINE E == A \cap B
    <3> HIDE DEF A, B, C, package, idx
    <3>4. package = SectionsAt(metas, E) /\ E \subseteq D
      BY <1>3, <3>3
    <3> HIDE DEF E, D
    <3>5. SectionsAt(metas, E) \cap SectionsAt(metas, C) = SectionsAt(metas, E \cap C)
      BY <3>3, <3>4, SectionsMeet DEF D
    <3>6. getSectionSet(idx, q) = SectionsAt(metas, E \cap C)
      BY <2>2, <3>2, <3>4, <3>5, <1>1
    <3>7. QED
      BY <3>6 DEF E
  <2>3. QED
    BY <2>1, <2>2
<1>5. A \cap B \cap C = Hits(metas, q)
  BY DEF Hits, Matches
<1>6. QED
  BY <1>4, <1>5

(* The index answers as a scan of the file would. *)
LEMMA IndexExact ==
  ASSUME NEW metas, AreMetas(metas), NEW q
  PROVE  IndexGet(newIndex(metas), q) = Scan(metas, q)
<1> DEFINE H == Hits(metas, q)
           G == SectionsAt(metas, H)
           f == Ascending(H)
           n == Cardinality(H)
           s == [k \in DOMAIN f |-> SectionOf(metas, f[k])]
<1>1. H \subseteq DOMAIN metas /\ DOMAIN metas = 1..Len(metas) /\ Len(metas) \in Nat
  BY DEF Hits, AreMetas
<1>2. Scan(metas, q) = s
  BY Zenon DEF Scan, Hits
<1> HIDE DEF H
<1>3. /\ IsFiniteSet(H) /\ n \in Nat /\ f \in SetToSeqs(H) /\ DOMAIN f = 1..n
      /\ \A i, j \in DOMAIN f : i < j => f[i] < f[j]
      /\ \A i \in DOMAIN f : f[i] \in H
  BY <1>1, AscendingIs
<1> HIDE DEF f
<1>4. IsFiniteSet(G) /\ Cardinality(G) = n
  <2> DEFINE b == [i \in H |-> SectionOf(metas, i)]
  <2>1. b \in Bijection(H, G)
    <3>1. b \in [H -> G] /\ \A x \in G : \E i \in H : b[i] = x
      BY DEF SectionsAt
    <3>2. \A i, j \in H : b[i] = b[j] => i = j
      BY <1>1, SectionsDiffer
    <3>3. QED
      BY <3>1, <3>2 DEF Bijection, Injection, IsInjective, Surjection
  <2>2. QED
    BY <2>1, <1>3, FS_Bijection DEF ExistsBijection
<1>5. /\ DOMAIN s = 1..n
      /\ \A i \in 1..n : s[i] = SectionOf(metas, f[i]) /\ s[i] \in G
  BY <1>3 DEF SectionsAt
<1>6. \A x, y \in G : /\ x.offset \in Nat /\ y.offset \in Nat
                      /\ x.offset = y.offset => x = y
  BY <1>1, SectionsDiffer DEF SectionsAt
<1>7. \A i, j \in 1..n : i < j => s[i].offset < s[j].offset
  BY <1>1, <1>3, <1>5, SectionsDiffer
<1>8. s \in SetToSeqs(G)
  <2>1. s \in [1..n -> G]
    BY <1>3, <1>5
  <2> HIDE DEF s, G
  <2>2. \A i, j \in 1..n : i # j => s[i] # s[j]
    <3>1. SUFFICES ASSUME NEW i \in 1..n, NEW j \in 1..n, i # j PROVE s[i] # s[j]
      OBVIOUS
    <3>2. i < j \/ j < i
      BY <3>1, <1>3
    <3>3. s[i].offset < s[j].offset \/ s[j].offset < s[i].offset
      BY <3>2, <1>7
    <3>4. s[i].offset \in Nat /\ s[j].offset \in Nat
      BY <1>5, <1>6
    <3>5. QED
      BY <3>3, <3>4
  <2>3. QED
    BY <2>1, <2>2, <1>4 DEF SetToSeqs
<1> HIDE DEF s, G
<1> DEFINE g == CHOOSE h \in SetToSeqs(G) : \A i, j \in DOMAIN h : i < j => h[i].offset <= h[j].offset
<1>9. IndexGet(newIndex(metas), q) = g
  <2>1. getSectionSet(newIndex(metas), q) = G
    BY SectionSet DEF G, H
  <2>2. QED
    BY <2>1, Zenon DEF IndexGet
<1>10. \A i, j \in DOMAIN s : i < j => s[i].offset <= s[j].offset
  <2>1. SUFFICES ASSUME NEW i \in DOMAIN s, NEW j \in DOMAIN s, i < j
                 PROVE  s[i].offset <= s[j].offset
    OBVIOUS
  <2>2. s[i].offset \in Nat /\ s[j].offset \in Nat /\ s[i].offset < s[j].offset
    BY <2>1, <1>5, <1>6, <1>7
  <2>3. QED
    BY <2>2
<1>11. g \in SetToSeqs(G) /\ \A i, j \in DOMAIN g : i < j => g[i].offset <= g[j].offset
  BY <1>8, <1>10
<1> HIDE DEF g
<1>12. DOMAIN g = 1..n /\ \A i \in 1..n : g[i] \in G
  BY <1>4, <1>11, Enumeration
<1> DEFINE B == {r \in G \X G : r[1].offset < r[2].offset}
<1>13. \A a, b \in G : <<a, b>> \in B <=> a.offset < b.offset
  OBVIOUS
<1> HIDE DEF B
<1>14. /\ \A a \in G : <<a, a>> \notin B
       /\ \A a, b, c \in G : <<a, b>> \in B => <<a, c>> \in B \/ <<c, b>> \in B
  BY <1>6, <1>13
<1>15. \A i, j \in DOMAIN s : i < j => <<s[j], s[i]>> \notin B
  BY <1>5, <1>6, <1>10, <1>13
<1>16. \A i, j \in DOMAIN g : i < j => <<g[j], g[i]>> \notin B
  BY <1>6, <1>11, <1>12, <1>13
<1>17. \A i \in 1..n : <<s[i], g[i]>> \notin B /\ <<g[i], s[i]>> \notin B
  BY <1>4, <1>8, <1>11, <1>14, <1>15, <1>16, SortAgrees
<1>18. ASSUME NEW i \in 1..n PROVE s[i] = g[i]
  <2>1. s[i] \in G /\ g[i] \in G
    BY <1>5, <1>12
  <2>2. ~(s[i].offset < g[i].offset) /\ ~(g[i].offset < s[i].offset)
    BY <2>1, <1>13, <1>17
  <2>3. s[i].offset \in Nat /\ g[i].offset \in Nat
    BY <2>1, <1>6
  <2>4. s[i].offset = g[i].offset
    BY <2>2, <2>3
  <2>5. QED
    BY <2>1, <2>4, <1>6
<1>19. s = [i \in 1..n |-> s[i]] /\ g = [i \in 1..n |-> g[i]]
  BY <1>4, <1>8, <1>11, Enumeration
<1>20. s = g
  BY <1>18, <1>19
<1>21. QED
  BY <1>2, <1>9, <1>20

-----------------------------------------------------------------------------
(* Pages. *)
UpTo(n) == [i \in 1..n |-> i]

LEMMA LimitRange == ASSUME NEW limit \in Int PROVE ClampLimit(limit) \in Nat /\ ClampLimit(limit) > 0
BY MaxPageAssumption DEF ClampLimit

LEMMA UpToExtends ==
  ASSUME NEW a \in Nat, NEW b \in Nat, a <= b
  PROVE  UpTo(a) \o [k \in 1..(b - a) |-> a + k] = UpTo(b)
<1> DEFINE u == UpTo(a)
           p == [k \in 1..(b - a) |-> a + k]
           c == u \o p
<1>1. b - a \in Nat
  OBVIOUS
<1>2. u \in Seq(Nat) /\ Len(u) = a /\ \A i \in 1..a : u[i] = i
  BY DEF UpTo
<1>3. p \in Seq(Nat) /\ Len(p) = b - a /\ \A i \in 1..(b - a) : p[i] = a + i
  BY <1>1
<1> HIDE DEF u, p
<1>4. /\ c \in Seq(Nat) /\ Len(c) = Len(u) + Len(p)
      /\ \A i \in 1..(Len(u) + Len(p)) : c[i] = IF i <= Len(u) THEN u[i] ELSE p[i - Len(u)]
  BY <1>2, <1>3, ConcatProperties
<1> HIDE DEF c
<1>5. Len(u) + Len(p) = b
  BY <1>2, <1>3
<1>6. \A i \in 1..b : c[i] = i
  <2>1. SUFFICES ASSUME NEW i \in 1..b PROVE c[i] = i
    OBVIOUS
  <2>2. CASE i <= a
    BY <2>2, <1>2, <1>4, <1>5
  <2>3. CASE ~(i <= a)
    <3>1. i - a \in 1..(b - a)
      BY <2>3
    <3>2. c[i] = p[i - a] /\ p[i - a] = a + (i - a)
      BY <2>3, <3>1, <1>2, <1>3, <1>4, <1>5
    <3>3. QED
      BY <3>2
  <2>4. QED
    BY <2>2, <2>3
<1>7. c = [i \in 1..b |-> c[i]]
  BY <1>4, <1>5
<1>8. c = UpTo(b)
  BY <1>6, <1>7 DEF UpTo
<1>9. QED
  BY <1>8 DEF c, u, p

LEMMA PageIs ==
  ASSUME NEW objects, NEW N \in Nat, Len(objects) = N, NEW limit, NEW first \in Nat
  PROVE  Page(objects, limit, first) =
           [k \in 1..((IF first + ClampLimit(limit) < N THEN first + ClampLimit(limit) ELSE N) - first) |-> first + k]
<1>1. ClampOffset(first) = first
  BY DEF ClampOffset
<1> DEFINE Until(f) == IF f + ClampLimit(limit) < Len(objects) THEN f + ClampLimit(limit) ELSE Len(objects)
           P(f) == [k \in 1..(Until(f) - f) |-> f + k]
<1>2. Page(objects, limit, first) = P(ClampOffset(first))
  BY Zenon DEF Page
<1>3. P(ClampOffset(first)) = P(first)
  <2> HIDE DEF P
  <2>1. QED
    BY <1>1
<1>4. QED
  BY <1>2, <1>3

(* The pages of a list, one after the other, are the list: for every limit. *)
LEMMA PagesExact ==
  ASSUME NEW objects, Len(objects) \in Nat, DOMAIN objects = 1..Len(objects), NEW limit \in Int
  PROVE  Pages(objects, limit) = [i \in DOMAIN objects |-> i]
<1> DEFINE N == Len(objects)
           L == ClampLimit(limit)
           F(n) == Page(objects, limit, (n - 1) * L)
           ss == [n \in 1..(N + 1) |-> F(n)]
           M(x) == IF x < N THEN x ELSE N
<1>1. N \in Nat /\ L \in Nat /\ L > 0 /\ N + 1 \in Nat \ {0}
  BY LimitRange
<1>2. Pages(objects, limit) = FlattenSeq(ss)
  BY Zenon DEF Pages
<1> HIDE DEF F
<1>3. Len(ss) = N + 1 /\ \A n \in 1..(N + 1) : ss[n] = F(n)
  BY <1>1
<1> HIDE DEF ss
<1>4. PICK t : FlattenTable(t, ss, N + 1) /\ FlattenSeq(ss) = t[N + 1]
  BY <1>1, <1>3, FlattenIs
<1>5. \A n \in 1..(N + 1) : t[n] = IF n = 1 THEN ss[n] ELSE t[n - 1] \o ss[n]
  BY <1>1, <1>4, FlattenValues
<1> DEFINE Good(k) == t[k] = UpTo(M(k * L))
           Bad == {k \in 1..(N + 1) : ~Good(k)}
<1>6. \A x \in Nat : M(x) \in Nat
  BY <1>1
<1>7. ASSUME NEW x \in Nat, NEW n \in 1..(N + 1), (n - 1) * L = x
      PROVE  ss[n] = [k \in 1..(M(x + L) - x) |-> x + k]
  <2>1. ss[n] = Page(objects, limit, x)
    BY <1>3, <1>7 DEF F
  <2>2. Page(objects, limit, x) = [k \in 1..((IF x + L < N THEN x + L ELSE N) - x) |-> x + k]
    BY <1>1, PageIs
  <2>3. QED
    BY <2>1, <2>2
<1>8. ASSUME NEW x \in Nat, NEW n \in 1..(N + 1), (n - 1) * L = x
      PROVE  UpTo(M(x)) \o ss[n] = UpTo(M(x + L))
  <2>1. CASE x <= N
    <3>1. M(x) = x /\ x <= M(x + L) /\ M(x + L) \in Nat
      <4> HIDE DEF N, L
      <4>1. QED
        BY <2>1, <1>1
    <3> DEFINE b == M(x + L)
    <3>2. ss[n] = [k \in 1..(b - x) |-> x + k]
      BY <1>7, <1>8
    <3> HIDE DEF b, M
    <3>3. UpTo(x) \o [k \in 1..(b - x) |-> x + k] = UpTo(b)
      BY <3>1, UpToExtends DEF b
    <3>4. QED
      BY <3>1, <3>2, <3>3 DEF b
  <2>2. CASE ~(x <= N)
    <3>1. M(x) = N /\ M(x + L) = N
      <4> HIDE DEF N, L
      <4>1. QED
        BY <2>2, <1>1
    <3>2. 1..(N - x) = {} /\ 1..(N - N) = {}
      BY <2>2, <1>1
    <3>3. ss[n] = [k \in 1..(N - x) |-> x + k]
      BY <1>7, <1>8, <3>1
    <3>4. ss[n] = <<>>
      <4>1. \A S : S = {} => [k \in S |-> x + k] = <<>>
        OBVIOUS
      <4>2. QED
        BY <3>2, <3>3, <4>1
    <3>5. UpTo(N) \in Seq(Nat)
      BY <1>1 DEF UpTo
    <3> HIDE DEF M
    <3>6. QED
      BY <3>1, <3>4, <3>5, ConcatEmptySeq
  <2>3. QED
    BY <2>1, <2>2
<1>9. UpTo(M(0)) = <<>> /\ 0 * L = 0
  BY <1>1 DEF UpTo
<1>10. \A k \in 1..(N + 1) : (k - 1) * L \in Nat /\ (k - 1) * L + L = k * L
  BY <1>1
<1>11. Bad = {}
  <2>1. SUFFICES ASSUME Bad # {} PROVE FALSE
    OBVIOUS
  <2>2. PICK m \in Bad : \A k \in Bad : m <= k
    <3>1. Bad \in SUBSET Nat
      BY <1>1
    <3> HIDE DEF Bad
    <3>2. QED
      BY <2>1, <3>1, NatMin
  <2>3. m \in 1..(N + 1) /\ m \in Nat /\ ~Good(m)
    BY <1>1
  <2> DEFINE x == (m - 1) * L
  <2>4. x \in Nat /\ x + L = m * L /\ UpTo(M(x)) \o ss[m] = UpTo(M(x + L))
    BY <2>3, <1>8, <1>10
  <2>5. CASE m = 1
    <3>1. x = 0 /\ t[m] = ss[m]
      BY <2>3, <2>5, <1>1, <1>5
    <3>2. ss[m] = [k \in 1..(M(0 + L) - 0) |-> 0 + k]
      BY <2>3, <2>5, <1>7, <1>9
    <3>3. ss[m] \in Seq(Nat)
      BY <3>2, <1>1
    <3>4. ss[m] = UpTo(M(x + L))
      BY <3>1, <3>3, <2>4, <1>9, ConcatEmptySeq
    <3> HIDE DEF x, M
    <3>5. QED
      BY <3>1, <3>4, <2>3, <2>4
  <2>6. CASE m # 1
    <3>1. m - 1 \in 1..(N + 1) /\ m - 1 < m
      BY <2>3, <2>6, <1>1
    <3>2. Good(m - 1)
      <4>1. m - 1 \notin Bad
        <5> HIDE DEF Bad
        <5>1. QED
          BY <2>2, <2>3, <3>1
      <4> HIDE DEF Good
      <4>2. QED
        BY <3>1, <4>1
    <3>3. t[m] = t[m - 1] \o ss[m]
      BY <2>3, <2>6, <1>5
    <3>4. t[m - 1] = UpTo(M(x))
      BY <3>2
    <3> HIDE DEF x, M
    <3>5. QED
      BY <3>3, <3>4, <2>3, <2>4
  <2>7. QED
    BY <2>5, <2>6
<1>12. t[N + 1] = UpTo(M((N + 1) * L))
  <2>1. N + 1 \in 1..(N + 1)
    BY <1>1
  <2> HIDE DEF M
  <2>2. QED
    BY <2>1, <1>11
<1>13. M((N + 1) * L) = N
  <2>1. (N + 1) * L >= N
    <3>1. (N + 1) * L = N * L + L /\ N * L >= N
      BY <1>1
    <3>2. QED
      BY <3>1, <1>1
  <2>2. (N + 1) * L \in Nat
    BY <1>1
  <2>3. QED
    BY <2>1, <2>2, <1>1
<1>14. UpTo(N) = [i \in DOMAIN objects |-> i]
  BY DEF UpTo
<1> HIDE DEF M
<1>15. QED
  BY <1>2, <1>4, <1>12, <1>13, <1>14

-----------------------------------------------------------------------------
(* Fields. *)
ObjectList == [array |-> TRUE, kind |-> "object"]
NullValue == [array |-> FALSE, kind |-> "null"]
TypeOf(v) == IF v = ObjectList THEN NestedList ELSE jsonTypeToGraphQL(v)

LEMMA TypeNames ==
  ASSUME NEW v
  PROVE  \E base \in {"Boolean", "Int", "Float", "String"} :
           /\ jsonTypeToGraphQL(v) = [list |-> v.array, of |-> base]
           /\ v.kind \in {"null", "object"} => base = "String"
<1> DEFINE base == CASE v.kind = "bool" -> "Boolean"
                     [] v.kind = "int" -> "Int"
                     [] v.kind = "float" -> "Float"
                     [] OTHER -> "String"
<1>1. jsonTypeToGraphQL(v) = [list |-> v.array, of |-> base]
  BY Zenon DEF jsonTypeToGraphQL
<1>2. base \in {"Boolean", "Int", "Float", "String"}
  OBVIOUS
<1>3. v.kind \in {"null", "object"} => base = "String"
  OBVIOUS
<1> HIDE DEF base
<1>4. QED
  BY <1>1, <1>2, <1>3

LEMMA SentFits ==
  ASSUME NEW v \in Kinds, TypeOf(v).list => TypeOf(v) = NestedList
  PROVE  Sent(v, TypeOf(v)) = IF v = NullValue THEN Nothing ELSE TypeOf(v)
<1>1. PICK a \in BOOLEAN, kind \in {"null", "string", "bool", "int", "float", "object"} :
        v = [array |-> a, kind |-> kind]
  BY DEF Kinds
<1>2. v.array = a /\ v.kind = kind
  BY <1>1
<1>3. PICK base \in {"Boolean", "Int", "Float", "String"} :
        /\ jsonTypeToGraphQL(v) = [list |-> v.array, of |-> base]
        /\ v.kind \in {"null", "object"} => base = "String"
  BY TypeNames
<1>4. CASE a = TRUE
  <2>1. kind = "object"
    <3>1. SUFFICES ASSUME kind # "object" PROVE FALSE
      OBVIOUS
    <3>2. v # ObjectList
      BY <3>1, <1>2 DEF ObjectList
    <3>3. TypeOf(v) = [list |-> TRUE, of |-> base]
      BY <3>2, <1>2, <1>3, <1>4 DEF TypeOf
    <3>4. TypeOf(v) # NestedList
      <4>1. TypeOf(v).of = base /\ NestedList.of = "object"
        BY <3>3 DEF NestedList
      <4>2. QED
        BY <4>1, <1>3
    <3>5. TypeOf(v).list
      BY <3>3
    <3>6. QED
      BY <3>4, <3>5
  <2>2. v = ObjectList
    BY <1>1, <1>4, <2>1 DEF ObjectList
  <2>3. TypeOf(v) = NestedList /\ v.array = TRUE /\ v.kind = "object"
    BY <2>1, <2>2, <1>2, <1>4 DEF TypeOf
  <2>4. v # NullValue
    BY <2>3 DEF NullValue
  <2>5. Sent(v, NestedList) = [list |-> v.array, of |-> v.kind]
    BY <2>3 DEF Sent
  <2>6. QED
    BY <2>3, <2>4, <2>5 DEF NestedList
<1>5. CASE a = FALSE
  <2>1. v # ObjectList /\ v.array = FALSE
    BY <1>2, <1>5 DEF ObjectList
  <2>2. TypeOf(v) = [list |-> FALSE, of |-> base] /\ jsonTypeToGraphQL(v) = TypeOf(v)
    BY <2>1, <1>3 DEF TypeOf
  <2>3. TypeOf(v) # NestedList
    <3>1. TypeOf(v).of = base /\ NestedList.of = "object"
      BY <2>2 DEF NestedList
    <3>2. QED
      BY <3>1, <1>3
  <2>4. CASE kind = "null"
    <3>1. v = NullValue
      BY <1>1, <1>5, <2>4 DEF NullValue
    <3>2. Sent(v, TypeOf(v)) = Nothing
      BY <1>2, <2>1, <2>4 DEF Sent
    <3>3. QED
      BY <3>1, <3>2
  <2>5. CASE kind = "object"
    <3>1. v # NullValue
      BY <1>2, <2>5 DEF NullValue
    <3>2. Sent(v, TypeOf(v)) = [list |-> FALSE, of |-> "String"]
      BY <1>2, <2>1, <2>3, <2>5 DEF Sent
    <3>3. base = "String"
      BY <1>2, <1>3, <2>5
    <3>4. QED
      BY <3>1, <3>2, <3>3, <2>2
  <2>6. CASE kind \notin {"null", "object"}
    <3>1. v # NullValue
      BY <1>2, <2>6 DEF NullValue
    <3>2. Sent(v, TypeOf(v)) = jsonTypeToGraphQL(v)
      BY <1>2, <2>1, <2>3, <2>6 DEF Sent
    <3>3. QED
      BY <3>1, <3>2, <2>2
  <2>7. QED
    BY <2>4, <2>5, <2>6
<1>6. QED
  BY <1>4, <1>5

LEMMA ObjectsOfIs ==
  ASSUME NEW metas, AreMetas(metas), NEW s
  PROVE  LET objs == ObjectsOf(metas, s) IN
         /\ Len(objs) \in Nat /\ DOMAIN objs = 1..Len(objs)
         /\ \A i \in DOMAIN objs : \A k \in DOMAIN objs[i].fields : objs[i].fields[k] \in Kinds
<1> DEFINE S == {i \in DOMAIN metas : metas[i].schema = s}
           at == Ascending(S)
           objs == ObjectsOf(metas, s)
<1>1. S \subseteq 1..Len(metas) /\ Len(metas) \in Nat /\ S \subseteq DOMAIN metas
  BY DEF AreMetas
<1>2. objs = [n \in DOMAIN at |-> metas[at[n]]]
  BY Zenon DEF ObjectsOf
<1> HIDE DEF S
<1>3. Cardinality(S) \in Nat /\ DOMAIN at = 1..Cardinality(S) /\ \A i \in DOMAIN at : at[i] \in S
  BY <1>1, AscendingIs
<1> HIDE DEF at, objs
<1>4. Len(objs) \in Nat /\ DOMAIN objs = 1..Len(objs) /\ \A i \in DOMAIN objs : at[i] \in DOMAIN metas /\ objs[i] = metas[at[i]]
  BY <1>1, <1>2, <1>3
<1>5. QED
  BY <1>4 DEF AreMetas, objs

LEMMA FieldTypesAre ==
  ASSUME NEW metas, AreMetas(metas), NEW s, NEW f \in DOMAIN FieldTypes(metas, s),
         \A v, w \in ValuesOf(ObjectsOf(metas, s), f) : v = w
  PROVE  \E v \in Kinds : ValuesOf(ObjectsOf(metas, s), f) = {v} /\ FieldTypes(metas, s)[f] = {TypeOf(v)}
<1> DEFINE objs == ObjectsOf(metas, s)
<1> DEFINE names == UNION {{remapFieldName(k) : k \in DOMAIN objs[i].fields} : i \in DOMAIN objs}
           IsFirst(i, g) == /\ KeysOf(objs[i], g) # {}
                            /\ \A j \in 1..(i - 1) : KeysOf(objs[j], g) = {}
           First(g) == CHOOSE i \in DOMAIN objs : IsFirst(i, g)
           Types(g) == IF [array |-> TRUE, kind |-> "object"] \in ValuesOf(objs, g) THEN {NestedList}
                       ELSE {jsonTypeToGraphQL(objs[First(g)].fields[k]) : k \in KeysOf(objs[First(g)], g)}
<1>1. FieldTypes(metas, s) = [g \in names |-> Types(g)]
  BY Zenon DEF FieldTypes
<1>2. f \in names /\ FieldTypes(metas, s)[f] = Types(f)
  <2> HIDE DEF names, Types
  <2>1. QED
    BY <1>1
<1>3. /\ Len(objs) \in Nat /\ DOMAIN objs = 1..Len(objs)
      /\ \A i \in DOMAIN objs : \A k \in DOMAIN objs[i].fields : objs[i].fields[k] \in Kinds
  BY ObjectsOfIs
<1> HIDE DEF objs
<1> DEFINE With == {i \in DOMAIN objs : KeysOf(objs[i], f) # {}}
<1>4. With \in SUBSET Nat /\ With # {}
  <2>a. With \subseteq Nat
    BY <1>3
  <2>0. PICK i \in DOMAIN objs : f \in {remapFieldName(k) : k \in DOMAIN objs[i].fields}
    BY <1>2
  <2>1. PICK k \in DOMAIN objs[i].fields : remapFieldName(k) = f
    BY <2>0
  <2>2. k \in KeysOf(objs[i], f)
    BY <2>1 DEF KeysOf
  <2>3. i \in With
    BY <2>2
  <2> HIDE DEF With
  <2>4. QED
    BY <2>a, <2>3
<1>5. PICK i \in With : \A j \in With : i <= j
  <2> HIDE DEF With
  <2>1. QED
    BY <1>4, NatMin
<1>6. IsFirst(i, f) /\ i \in DOMAIN objs
  <2>1. ASSUME NEW j \in 1..(i - 1) PROVE KeysOf(objs[j], f) = {}
    <3>1. j \in DOMAIN objs /\ ~(i <= j)
      BY <1>3, <1>5
    <3>2. j \notin With
      <4> HIDE DEF With
      <4>1. QED
        BY <3>1, <1>5
    <3>3. QED
      BY <3>1, <3>2
  <2>2. QED
    BY <2>1
<1> DEFINE a == First(f)
<1>7. a \in DOMAIN objs /\ KeysOf(objs[a], f) # {}
  <2>1. a \in DOMAIN objs /\ IsFirst(a, f)
    <3> HIDE DEF IsFirst
    <3>1. QED
      BY <1>6
  <2>2. QED
    BY <2>1
<1>8. Types(f) = IF ObjectList \in ValuesOf(objs, f) THEN {NestedList}
                 ELSE {jsonTypeToGraphQL(objs[a].fields[k]) : k \in KeysOf(objs[a], f)}
  BY DEF ObjectList
<1> HIDE DEF First, a, Types, names, With
<1>9. PICK k0 \in KeysOf(objs[a], f) : TRUE
  BY <1>7
<1> DEFINE v == objs[a].fields[k0]
<1>10. v \in Kinds /\ v \in ValuesOf(objs, f)
  <2>1. k0 \in DOMAIN objs[a].fields
    BY <1>9 DEF KeysOf
  <2>2. v \in Kinds
    BY <2>1, <1>3, <1>7
  <2>3. v \in ValuesOf(objs, f)
    BY <1>7, <1>9 DEF ValuesOf
  <2>4. QED
    BY <2>2, <2>3
<1>11. ValuesOf(objs, f) = {v}
  <2>1. \A u, w \in ValuesOf(objs, f) : u = w
    BY DEF objs
  <2> HIDE DEF v
  <2>2. QED
    BY <1>10, <2>1
<1>12. \A k \in KeysOf(objs[a], f) : objs[a].fields[k] = v
  <2>1. \A k \in KeysOf(objs[a], f) : objs[a].fields[k] \in ValuesOf(objs, f)
    BY <1>7 DEF ValuesOf
  <2> HIDE DEF v
  <2>2. QED
    BY <2>1, <1>11
<1> HIDE DEF v
<1>13. {jsonTypeToGraphQL(objs[a].fields[k]) : k \in KeysOf(objs[a], f)} = {jsonTypeToGraphQL(v)}
  BY <1>9, <1>12
<1>14. Types(f) = {TypeOf(v)}
  <2>1. CASE v = ObjectList
    BY <2>1, <1>8, <1>11 DEF TypeOf
  <2>2. CASE v # ObjectList
    BY <2>2, <1>8, <1>11, <1>13 DEF TypeOf
  <2>3. QED
    BY <2>1, <2>2
<1>15. QED
  BY <1>2, <1>10, <1>11, <1>14 DEF objs

LEMMA FieldsExact == ASSUME NEW metas, AreMetas(metas) PROVE FieldsFit(metas)
<1>1. SUFFICES ASSUME NEW s \in DiscoveredSchemas(metas), NEW f \in DOMAIN FieldTypes(metas, s),
                      LET objs == ObjectsOf(metas, s)
                          type == CHOOSE t \in FieldTypes(metas, s)[f] : TRUE
                      IN  (\A v, w \in ValuesOf(objs, f) : v = w) /\ (type.list => type = NestedList),
                      NEW i \in DOMAIN ObjectsOf(metas, s)
               PROVE  LET objs == ObjectsOf(metas, s)
                          type == CHOOSE t \in FieldTypes(metas, s)[f] : TRUE
                      IN  createFieldResolver(objs[i], f, type)
                            = {IF HasValue(objs[i], f) THEN type ELSE Nothing}
  BY Zenon DEF FieldsFit
<1> DEFINE objs == ObjectsOf(metas, s)
           type == CHOOSE t \in FieldTypes(metas, s)[f] : TRUE
<1>a. (\A v, w \in ValuesOf(objs, f) : v = w) /\ (type.list => type = NestedList)
  BY <1>1
<1>b. SUFFICES createFieldResolver(objs[i], f, type) = {IF HasValue(objs[i], f) THEN type ELSE Nothing}
  OBVIOUS
<1>2. PICK v \in Kinds : ValuesOf(objs, f) = {v} /\ FieldTypes(metas, s)[f] = {TypeOf(v)}
  BY <1>a, FieldTypesAre
<1>3. type = TypeOf(v)
  BY <1>2
<1>c. i \in DOMAIN objs
  OBVIOUS
<1> HIDE DEF objs, type
<1>4. Sent(v, type) = IF v = NullValue THEN Nothing ELSE type
  BY <1>a, <1>3, SentFits
<1>5. \A k \in KeysOf(objs[i], f) : objs[i].fields[k] = v
  <2>1. \A k \in KeysOf(objs[i], f) : objs[i].fields[k] \in ValuesOf(objs, f)
    BY <1>c DEF ValuesOf
  <2>2. QED
    BY <2>1, <1>2
<1>6. HasValue(objs[i], f) <=> KeysOf(objs[i], f) # {} /\ v # NullValue
  BY <1>5 DEF HasValue, NullValue
<1>7. CASE KeysOf(objs[i], f) = {}
  BY <1>6, <1>7 DEF createFieldResolver
<1>8. CASE KeysOf(objs[i], f) # {}
  <2>1. createFieldResolver(objs[i], f, type) = {Sent(objs[i].fields[k], type) : k \in KeysOf(objs[i], f)}
    BY <1>8 DEF createFieldResolver
  <2>2. createFieldResolver(objs[i], f, type) = {Sent(v, type)}
    BY <2>1, <1>5, <1>8
  <2>3. QED
    BY <2>2, <1>4, <1>6, <1>8
<1>9. QED
  BY <1>7, <1>8

-----------------------------------------------------------------------------
(* The queries. *)

(* For any metas of a catalog, whose blobs are not empty, any query and any
   limit: the index returns the sections a scan of the file would return, each
   once and in the order of the file; the pages of a list make up the list; and
   a field whose values are of one kind is sent with its declared type (index.go,
   graphql.go). *)
THEOREM QueriesExact ==
  ASSUME AreMetas(sample.metas), sample.limit \in Int
  PROVE  CatalogQueries
<1>1. Len(sample.metas) \in Nat /\ DOMAIN sample.metas = 1..Len(sample.metas)
  BY DEF AreMetas
<1>2. QED
  BY <1>1, IndexExact, PagesExact, FieldsExact DEF CatalogQueries

(* The catalogs that the run samples are of that kind. *)
Sampled == AreMetas(sample.metas) /\ sample.limit \in Int

LEMMA SampleStep == ASSUME TakeSample PROVE Sampled'
<1>1. \A m \in sampleMetas : /\ m.len \in Nat \ {0}
                             /\ \A k \in DOMAIN m.fields : m.fields[k] \in Kinds
  <2>1. SUFFICES ASSUME NEW m \in sampleMetas
                 PROVE  m.len \in Nat \ {0} /\ \A k \in DOMAIN m.fields : m.fields[k] \in Kinds
    OBVIOUS
  <2>2. PICK s, p, n : m = mcMeta(s, p, n, 1)
    BY DEF sampleMetas
  <2>3. m.len = 1 /\ m.fields = [k \in {"field"} |-> mcValue(p, n)]
    BY <2>2 DEF mcMeta
  <2>4. mcValue(p, n) \in Kinds
    BY DEF mcValue, Kinds
  <2>5. QED
    BY <2>3, <2>4
<1>2. CASE sample' = NoSample
  BY <1>2 DEF NoSample, Sampled, AreMetas
<1>3. CASE sample' # NoSample
  <2>1. PICK metas \in BoundedSeq(sampleMetas, 2), q \in sampleQueries, limit \in -1..3 :
          sample' = [metas |-> metas, query |-> q, limit |-> limit]
    BY <1>3, Zenon DEF TakeSample
  <2>2. sample'.metas = metas /\ sample'.limit = limit /\ limit \in Int
    BY <2>1
  <2>3. PICK n \in 0..2 : metas \in [1..n -> sampleMetas]
    BY DEF BoundedSeq, SeqOf
  <2>4. Len(metas) = n /\ DOMAIN metas = 1..n /\ n \in Nat
    BY <2>3
  <2>5. AreMetas(metas)
    BY <2>3, <2>4, <1>1 DEF AreMetas
  <2>6. QED
    BY <2>2, <2>5 DEF Sampled, AreMetas
<1>4. QED
  BY <1>2, <1>3

(* In no state of the content server, whatever requests it serves meanwhile, is
   a sampled query answered otherwise. *)
THEOREM QueriesAlwaysExact == PartsSpec => []CatalogQueries
<1>1. PartsInit => Sampled
  BY DEF PartsInit, NoSample, Sampled, AreMetas
<1>2. Sampled /\ [PartsNext]_serverParts => Sampled'
  <2>1. CASE part = "queries" /\ TakeSample
    BY <2>1, SampleStep
  <2>2. ASSUME Sampled, UNCHANGED sample PROVE Sampled'
    BY <2>2 DEF Sampled, AreMetas
  <2>3. QED
    BY <2>1, <2>2 DEF PartsNext, serverParts
<1>3. Sampled => CatalogQueries
  BY QueriesExact DEF Sampled
<1>4. QED
  BY <1>1, <1>2, <1>3, PTL DEF PartsSpec
=============================================================================
