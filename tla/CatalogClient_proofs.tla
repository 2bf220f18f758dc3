------------------------ MODULE CatalogClient_proofs ------------------------
(***************************************************************************)
(* Theorems about CatalogClient, for any number of catalogs, digests,      *)
(* files of a package, stored contents and faults.                         *)
(***************************************************************************)
EXTENDS CatalogClient, TLAPS

(* The inductive strengthening of TypeOK: a pass has a catalog and a
   reference, and content once the response is there; a reader has both. *)
Loaded == {"write", "swap", "rename"}
PassNamed == /\ pop.pc # "idle" => pop.cat \in Catalogs /\ pop.ref \in Digests
             /\ pop.pc \in Loaded => pop.body \in Versions
ReaderNamed == IF reader.pc = "read" THEN reader.cat \in Catalogs /\ reader.ref \in Digests
               ELSE reader.got = {}
StampPositive == \A k \in Catalogs : content[k] # None => stamp[k] > 0
TypeInv == TypeOK /\ PassNamed /\ ReaderNamed /\ StampPositive

(* A digest has been advertised for catalog k. *)
Advertised(k, d) == since[k][d] # None

(* What the server serves is never older than a reference it advertised. *)
ServedFresh ==
  \A k \in Catalogs, d \in Digests :
    Advertised(k, d) => since[k][d] <= stamp[k]
                        /\ (content[k] \in {None, d} \/ since[k][d] < stamp[k])

(* Every reference in use was advertised before. *)
RefsAdvertised ==
  /\ \A k \in Catalogs : /\ advert[k] # None => Advertised(k, advert[k])
                         /\ seen[k].ref # None => Advertised(k, seen[k].ref)
                         /\ entry[k] # None => Advertised(k, entry[k].ref)
  /\ pop.pc # "idle" => Advertised(pop.cat, pop.ref)
  /\ reader.pc = "read" => Advertised(reader.cat, reader.ref)

(* The content in flight may take the place of what is cached and of what is
   being read: it was requested after both references were advertised. *)
BodyFresh ==
  pop.pc \in Loaded =>
    /\ NotOlder(pop.cat, pop.ref, pop.body)
    /\ entry[pop.cat] # None => NotOlder(pop.cat, entry[pop.cat].ref, pop.body)
    /\ reader.pc = "read" /\ reader.cat = pop.cat => NotOlder(pop.cat, reader.ref, pop.body)

(* What is on disk may be read for the reference the reader started with. *)
ReaderFresh ==
  reader.pc = "read" /\ files[reader.cat] # None
    => NotOlder(reader.cat, reader.ref, files[reader.cat])

FreshInv == /\ TypeInv /\ ServedFresh /\ RefsAdvertised /\ BodyFresh /\ ReaderFresh
            /\ CachedNotOlder /\ ReadNotOlder

-----------------------------------------------------------------------------
(* Types. *)

LEMMA IdleTypes ==
  /\ PopIdle \in [pc : {"idle", "request", "write", "swap", "rename"},
                  cat : Catalogs \cup {None}, ref : Digests \cup {None},
                  body : Versions \cup {None}]
  /\ ReadIdle \in [pc : {"idle", "read"}, cat : Catalogs \cup {None},
                   ref : Digests \cup {None}, left : 0..PackageFiles, got : SUBSET Versions]
  /\ PopIdle.pc = "idle" /\ ReadIdle.pc = "idle" /\ ReadIdle.got = {}
PROOF BY ClientBounds DEF PopIdle, ReadIdle

LEMMA LookType ==
  ASSUME TypeOK, NEW k \in Catalogs
  PROVE  /\ Look(k) \in [ex : BOOLEAN, ref : Digests \cup {None}]
         /\ Look(k).ref = advert[k]
PROOF BY DEF TypeOK, Look

(* A step of the contract: it moves one catalog at most, and advertises a
   digest only over no content or over the content of that digest. *)
LEMMA ServerStep ==
  ASSUME TypeOK, Server!Next
  PROVE  /\ exists' \subseteq Catalogs
         /\ content' \in [Catalogs -> Digests \cup {None}]
         /\ advert' \in [Catalogs -> Digests \cup {None}]
         /\ \A k \in Catalogs : advert'[k] \notin {None, advert[k]}
                               => content[k] \in {None, advert'[k]} /\ content'[k] = content[k]
PROOF
<1>1. PICK k \in Catalogs :
        \/ Server!Create(k) \/ Server!Delete(k) \/ Server!DropContent(k) \/ Server!Retract(k)
        \/ \E d \in Digests : Server!PutContent(k, d) \/ Server!Advertise(k, d)
  BY DEF Server!Next
<1>2. CASE Server!Create(k) BY <1>2 DEF Server!Create, TypeOK
<1>3. CASE Server!Delete(k) BY <1>3 DEF Server!Delete, TypeOK
<1>4. CASE Server!DropContent(k) BY <1>4 DEF Server!DropContent, TypeOK
<1>5. CASE Server!Retract(k) BY <1>5 DEF Server!Retract, TypeOK
<1>6. ASSUME NEW d \in Digests, Server!PutContent(k, d)
      PROVE  /\ exists' \subseteq Catalogs /\ advert' = advert
             /\ content' \in [Catalogs -> Digests \cup {None}]
  BY <1>6 DEF Server!PutContent, TypeOK
<1>7. ASSUME NEW d \in Digests, Server!Advertise(k, d)
      PROVE  /\ exists' \subseteq Catalogs /\ content' = content
             /\ advert' = [advert EXCEPT ![k] = d] /\ content[k] \in {None, d}
  BY <1>7 DEF Server!Advertise, TypeOK
<1>8. ASSUME NEW d \in Digests, Server!PutContent(k, d) \/ Server!Advertise(k, d)
      PROVE  /\ exists' \subseteq Catalogs
             /\ content' \in [Catalogs -> Digests \cup {None}]
             /\ advert' \in [Catalogs -> Digests \cup {None}]
             /\ \A c \in Catalogs : advert'[c] \notin {None, advert[c]}
                                   => content[c] \in {None, advert'[c]} /\ content'[c] = content[c]
  BY <1>6, <1>7, <1>8 DEF TypeOK
<1> QED BY <1>1, <1>2, <1>3, <1>4, <1>5, <1>8

LEMMA TypeServe == ASSUME TypeInv, Serve PROVE TypeInv'
PROOF
<1> USE DEF TypeInv
<1>1. /\ exists' \subseteq Catalogs
      /\ content' \in [Catalogs -> Digests \cup {None}]
      /\ advert' \in [Catalogs -> Digests \cup {None}]
  BY ServerStep DEF Serve
<1>2. \A k \in Catalogs : stamp[k] \in Nat /\ stamp'[k] \in {stamp[k], stamp[k] + 1}
                          /\ stamp'[k] <= MaxPuts
  BY ClientBounds DEF Serve, TypeOK
<1>3. stamp' = [k \in Catalogs |-> stamp'[k]] BY DEF Serve
<1>4. stamp' \in [Catalogs -> 0..MaxPuts]
  <2>1. \A k \in Catalogs : stamp'[k] \in 0..MaxPuts BY <1>2, ClientBounds
  <2> QED BY <1>3, <2>1
<1>5. since' \in [Catalogs -> [Digests -> 0..MaxPuts \cup {None}]] BY DEF Serve, TypeOK
<1>6. StampPositive'
  <2>1. \A k \in Catalogs : content'[k] # None =>
          (stamp'[k] = stamp[k] /\ content[k] = content'[k]) \/ stamp'[k] = stamp[k] + 1
    BY DEF Serve
  <2> QED BY <1>2, <2>1 DEF StampPositive
<1>7. UNCHANGED <<seen, cacheVars, pop, reader, faults>> BY DEF Serve
<1> QED BY <1>1, <1>4, <1>5, <1>6, <1>7 DEF TypeOK, PassNamed, ReaderNamed, cacheVars

(* The watch, the passes and the readers change no server state. *)
LEMMA TypeClient ==
  ASSUME TypeInv,
         \/ \E k \in Catalogs : \/ Deliver(k) \/ BeginPopulate(k) \/ RemoveEntry(k)
                                \/ BeginRead(k) \/ FailRemove(k)
         \/ Populate \/ Read \/ NonLeaderResponse \/ FailPopulate \/ Crash
  PROVE  TypeInv'
PROOF
<1> USE DEF TypeInv
<1> DEFINE Server0 == /\ exists' \subseteq Catalogs
                      /\ content' \in [Catalogs -> Digests \cup {None}]
                      /\ advert' \in [Catalogs -> Digests \cup {None}]
                      /\ stamp' \in [Catalogs -> 0..MaxPuts]
                      /\ since' \in [Catalogs -> [Digests -> 0..MaxPuts \cup {None}]]
                      /\ StampPositive'
           Seen0 == seen' \in [Catalogs -> [ex : BOOLEAN, ref : Digests \cup {None}]]
           Entry0 == entry' \in [Catalogs -> Entries \cup {None}]
           Files0 == files' \in [Catalogs -> Versions \cup {None}]
           PopT == [pc : {"idle", "request", "write", "swap", "rename"},
                    cat : Catalogs \cup {None}, ref : Digests \cup {None},
                    body : Versions \cup {None}]
           ReadT == [pc : {"idle", "read"}, cat : Catalogs \cup {None},
                     ref : Digests \cup {None}, left : 0..PackageFiles, got : SUBSET Versions]
           Pop0 == pop' \in PopT /\ PassNamed'
           Reader0 == reader' \in ReadT /\ ReaderNamed'
<1>a. UNCHANGED serverVars
  BY DEF Deliver, BeginPopulate, RemoveEntry, BeginRead, FailRemove, Populate, Request,
     WriteBody, RemoveOld, RenameNew, Read, ReadFile, EndRead, NonLeaderResponse,
     FailPopulate, Crash
<1>b. Server0 BY <1>a DEF serverVars, TypeOK, StampPositive
<1>c. pop \in PopT /\ reader \in ReadT BY DEF TypeOK
<1>f. ASSUME Fault PROVE faults' \in 0..MaxFaults BY <1>f, ClientBounds DEF Fault, TypeOK
<1>s. ASSUME UNCHANGED seen PROVE Seen0 BY <1>s DEF TypeOK
<1>e. ASSUME UNCHANGED entry PROVE Entry0 BY <1>e DEF TypeOK
<1>l. ASSUME UNCHANGED files PROVE Files0 BY <1>l DEF TypeOK
<1>p. ASSUME UNCHANGED pop PROVE Pop0 BY <1>p DEF TypeOK, PassNamed
<1>i. ASSUME pop' = PopIdle PROVE Pop0 BY <1>i, IdleTypes DEF PassNamed, Loaded
<1>r. ASSUME UNCHANGED reader PROVE Reader0 BY <1>r DEF TypeOK, ReaderNamed
<1>j. ASSUME reader' = ReadIdle PROVE Reader0 BY <1>j, IdleTypes DEF ReaderNamed
<1>q. ASSUME NEW x \in BOOLEAN, pop.pc # "idle", Record(x) PROVE Entry0 /\ Pop0
  <2>1. [ref |-> pop.ref, err |-> x] \in Entries BY <1>q DEF PassNamed, Entries
  <2>2. entry' = [entry EXCEPT ![pop.cat] = [ref |-> pop.ref, err |-> x]] /\ pop' = PopIdle
    BY <1>q DEF Record
  <2> QED BY <2>1, <2>2, <1>i DEF TypeOK
<1>z. ASSUME Seen0, Entry0, Files0, Pop0, Reader0, faults' \in 0..MaxFaults PROVE TypeInv'
  BY <1>b, <1>z DEF TypeOK
<1>g. faults \in 0..MaxFaults BY DEF TypeOK
<1> HIDE DEF Server0, Seen0, Entry0, Files0, Pop0, Reader0
<1>1. ASSUME NEW k \in Catalogs, Deliver(k) PROVE TypeInv'
  <2>1. Seen0 BY <1>1, LookType DEF Deliver, TypeOK, Seen0
  <2> QED BY <1>1, <2>1, <1>e, <1>l, <1>p, <1>r, <1>z, <1>g DEF Deliver, cacheVars
<1>2. ASSUME NEW k \in Catalogs, BeginPopulate(k) PROVE TypeInv'
  <2>1. seen[k].ref \in Digests BY <1>2 DEF BeginPopulate, TypeOK
  <2>2. pop' = [PopIdle EXCEPT !.pc = "request", !.cat = k, !.ref = seen[k].ref]
    BY <1>2 DEF BeginPopulate
  <2>3. pop' \in PopT /\ pop'.pc = "request" /\ pop'.cat = k /\ pop'.ref = seen[k].ref
    BY <2>1, <2>2 DEF PopIdle
  <2>4. Pop0 BY <2>1, <2>3 DEF Pop0, PassNamed, Loaded
  <2> QED BY <1>2, <2>4, <1>s, <1>e, <1>l, <1>r, <1>z, <1>g DEF BeginPopulate, cacheVars
<1>3. ASSUME NEW k \in Catalogs, RemoveEntry(k) PROVE TypeInv'
  <2>1. Entry0 /\ Files0 BY <1>3 DEF RemoveEntry, TypeOK, Entry0, Files0
  <2> QED BY <1>3, <2>1, <1>s, <1>p, <1>r, <1>z, <1>g DEF RemoveEntry
<1>4. ASSUME NEW k \in Catalogs, BeginRead(k) PROVE TypeInv'
  <2>1. seen[k].ref \in Digests BY <1>4 DEF BeginRead, TypeOK
  <2>2. reader' = [ReadIdle EXCEPT !.pc = "read", !.cat = k, !.ref = seen[k].ref,
                                   !.left = PackageFiles]
    BY <1>4 DEF BeginRead
  <2>3. /\ reader' \in ReadT /\ reader'.cat = k /\ reader'.ref = seen[k].ref
        /\ reader'.pc = "read"
    <3>1. PackageFiles \in 0..PackageFiles BY ClientBounds
    <3>2. {} \in SUBSET Versions OBVIOUS
    <3> QED BY <2>1, <2>2, <3>1, <3>2, Zenon DEF ReadIdle
  <2>4. Reader0 BY <2>1, <2>3 DEF Reader0, ReaderNamed
  <2> QED BY <1>4, <2>4, <1>s, <1>e, <1>l, <1>p, <1>z, <1>g DEF BeginRead, cacheVars
<1>5. ASSUME NEW k \in Catalogs, FailRemove(k) PROVE TypeInv'
  <2>1. Files0 BY <1>5 DEF FailRemove, TypeOK, Files0
  <2> QED BY <1>5, <2>1, <1>s, <1>e, <1>p, <1>r, <1>z, <1>f DEF FailRemove
<1>6. CASE Request
  <2>1. CASE pop' = PopIdle BY <1>6, <2>1, <1>s, <1>e, <1>l, <1>i, <1>r, <1>z, <1>g DEF Request, cacheVars
  <2>2. CASE /\ content[pop.cat] # None
             /\ pop' = [pop EXCEPT !.pc = "write",
                          !.body = [digest |-> content[pop.cat], at |-> stamp[pop.cat]]]
    <3>1. pop.cat \in Catalogs /\ pop.ref \in Digests BY <1>6 DEF Request, PassNamed
    <3>2. content[pop.cat] \in Digests /\ stamp[pop.cat] \in 1..MaxPuts
      BY <2>2, <3>1, ClientBounds DEF TypeOK, StampPositive
    <3>3. [digest |-> content[pop.cat], at |-> stamp[pop.cat]] \in Versions
      BY <3>2 DEF Versions
    <3>4. pop' \in PopT /\ pop'.cat = pop.cat /\ pop'.ref = pop.ref /\ pop'.body \in Versions
      BY <2>2, <3>3, <1>c
    <3>5. Pop0 BY <3>1, <3>4 DEF Pop0, PassNamed
    <3> QED BY <1>6, <3>5, <1>s, <1>e, <1>l, <1>r, <1>z, <1>g DEF Request, cacheVars
  <2> QED BY <1>6, <2>1, <2>2 DEF Request
<1>7. CASE WriteBody \/ RemoveOld
  <2>1. /\ pop' \in PopT /\ pop'.cat = pop.cat /\ pop'.ref = pop.ref /\ pop'.body = pop.body
        /\ pop.pc \in Loaded
    BY <1>7, <1>c DEF WriteBody, RemoveOld, Loaded
  <2>2. Pop0 BY <2>1 DEF Pop0, PassNamed, Loaded
  <2>3. Files0 BY <1>7 DEF WriteBody, RemoveOld, TypeOK, Files0, cacheVars
  <2> QED BY <1>7, <2>2, <2>3, <1>s, <1>e, <1>r, <1>z, <1>g DEF WriteBody, RemoveOld, cacheVars
<1>8. CASE RenameNew
  <2>1. pop.body \in Versions BY <1>8 DEF RenameNew, PassNamed, Loaded
  <2>2. Files0 BY <1>8, <2>1 DEF RenameNew, TypeOK, Files0
  <2>3. Entry0 /\ Pop0 BY <1>8, <1>q DEF RenameNew
  <2> QED BY <1>8, <2>2, <2>3, <1>s, <1>r, <1>z, <1>g DEF RenameNew
<1>9. CASE ReadFile
  <2>1. CASE reader' = ReadIdle BY <1>9, <2>1, <1>s, <1>e, <1>l, <1>p, <1>j, <1>z, <1>g DEF ReadFile, cacheVars
  <2>2. CASE /\ files[reader.cat] # None
             /\ reader' = [reader EXCEPT !.left = @ - 1, !.got = @ \cup {files[reader.cat]}]
    <3>1. reader.cat \in Catalogs /\ reader.left \in 0..PackageFiles /\ reader.left > 0
      BY <1>9, <1>c DEF ReadFile, ReaderNamed
    <3>2. files[reader.cat] \in Versions BY <2>2, <3>1 DEF TypeOK
    <3>3. reader.left - 1 \in 0..PackageFiles BY <3>1, ClientBounds
    <3>4. reader.got \cup {files[reader.cat]} \in SUBSET Versions BY <3>2, <1>c
    <3>5. /\ reader' \in ReadT /\ reader'.cat = reader.cat /\ reader'.ref = reader.ref
          /\ reader'.pc = reader.pc
      BY <2>2, <3>3, <3>4, <1>c
    <3>6. Reader0 BY <1>9, <3>5 DEF ReadFile, Reader0, ReaderNamed
    <3> QED BY <1>9, <3>6, <1>s, <1>e, <1>l, <1>p, <1>z, <1>g DEF ReadFile, cacheVars
  <2> QED BY <1>9, <2>1, <2>2 DEF ReadFile
<1>10. CASE EndRead BY <1>10, <1>s, <1>e, <1>l, <1>p, <1>j, <1>z, <1>g DEF EndRead, cacheVars
<1>11. CASE FailPopulate
  <2>1. Files0 BY <1>11 DEF FailPopulate, TypeOK, Files0
  <2>2. Entry0 /\ Pop0 BY <1>11, <1>q DEF FailPopulate
  <2> QED BY <1>11, <2>1, <2>2, <1>s, <1>r, <1>z, <1>f DEF FailPopulate
<1>12. CASE Crash
  <2>1. Seen0 BY <1>12, LookType DEF Crash, Seen0
  <2>2. Entry0 /\ Files0 BY <1>12 DEF Crash, Entry0, Files0
  <2> QED BY <1>12, <2>1, <2>2, <1>i, <1>j, <1>z, <1>f DEF Crash
<1>13. CASE NonLeaderResponse
  BY <1>13, <1>s, <1>e, <1>l, <1>i, <1>r, <1>z, <1>f DEF NonLeaderResponse, cacheVars
<1> QED BY <1>1, <1>2, <1>3, <1>4, <1>5, <1>6, <1>7, <1>8, <1>9, <1>10, <1>11, <1>12, <1>13
        DEF Populate, Read

LEMMA TypeInit == Init => TypeInv
PROOF BY IdleTypes, ClientBounds, LookType
      DEF Init, Server!Init, TypeInv, TypeOK, PassNamed, ReaderNamed, StampPositive, Loaded, Look

LEMMA TypeStep == TypeInv /\ [Next]_vars => TypeInv'
PROOF
<1> SUFFICES ASSUME TypeInv, [Next]_vars PROVE TypeInv' OBVIOUS
<1>1. CASE UNCHANGED vars
  BY <1>1 DEF TypeInv, TypeOK, PassNamed, ReaderNamed, StampPositive, vars, serverVars, cacheVars
<1>2. CASE Serve BY <1>2, TypeServe
<1>3. CASE Next /\ ~Serve BY <1>3, TypeClient DEF Next
<1> QED BY <1>1, <1>2, <1>3

(* The cache, the passes and the readers stay of their types. *)
THEOREM TypeCorrect == Spec => []TypeOK
PROOF
<1>1. TypeInv => TypeOK BY DEF TypeInv
<1> QED BY <1>1, TypeInit, TypeStep, PTL DEF Spec

-----------------------------------------------------------------------------
(* Freshness. *)

(* A step of the server: what it serves stays as new as what it advertised,
   and what passes for a reference goes on passing for it. *)
LEMMA FreshServe == ASSUME FreshInv, Serve PROVE FreshInv'
PROOF
<1>a. TypeInv /\ TypeOK /\ TypeInv' BY TypeServe DEF FreshInv, TypeInv
<1>b. UNCHANGED <<seen, entry, files, pop, reader>> BY DEF Serve, cacheVars
<1>c. \A k \in Catalogs, d \in Digests : Advertised(k, d) => since'[k][d] = since[k][d]
  BY DEF Serve, Advertised
<1>s. \A k \in Catalogs : stamp[k] \in Nat /\ stamp[k] # None BY <1>a, ClientNone DEF TypeOK
<1>1. ServedFresh'
  <2> SUFFICES ASSUME NEW k \in Catalogs, NEW d \in Digests, Advertised(k, d)'
               PROVE  /\ since'[k][d] <= stamp'[k]
                      /\ content'[k] \in {None, d} \/ since'[k][d] < stamp'[k]
    BY DEF ServedFresh
  <2>1. \/ stamp'[k] = stamp[k] /\ content'[k] \in {None, content[k]}
        \/ stamp'[k] = stamp[k] + 1 /\ content'[k] \notin {None, content[k]}
    BY DEF Serve
  <2>2. CASE Advertised(k, d)
    <3>1. since'[k][d] = since[k][d] BY <1>c, <2>2
    <3>2. since[k][d] \in Nat BY <1>a, <2>2 DEF TypeOK, Advertised
    <3>3. since[k][d] <= stamp[k] /\ (content[k] \in {None, d} \/ since[k][d] < stamp[k])
      BY <2>2 DEF FreshInv, ServedFresh
    <3> QED BY <1>s, <2>1, <3>1, <3>2, <3>3
  <2>3. CASE ~Advertised(k, d)
    <3>1. advert'[k] = d /\ since'[k][d] = stamp[k] BY <2>3 DEF Serve, Advertised
    <3>2. advert[k] # d BY <2>3, ClientNone DEF FreshInv, RefsAdvertised
    <3>3. content[k] \in {None, d} /\ content'[k] = content[k]
      BY <1>a, <3>1, <3>2, ClientNone, ServerStep DEF Serve
    <3>4. stamp'[k] = stamp[k] BY <2>1, <3>3
    <3> QED BY <1>s, <3>1, <3>3, <3>4
  <2> QED BY <2>2, <2>3
<1>2. RefsAdvertised'
  <2>1. ASSUME NEW k \in Catalogs, advert'[k] # None PROVE Advertised(k, advert[k])'
    <3>1. advert'[k] \in Digests BY <1>a, <2>1 DEF TypeInv, TypeOK
    <3>2. since'[k][advert'[k]] \in {stamp[k], since[k][advert'[k]]}
          /\ (since[k][advert'[k]] = None => since'[k][advert'[k]] = stamp[k])
      BY <3>1 DEF Serve
    <3> QED BY <1>s, <3>2 DEF Advertised
  <2>2. \A k \in Catalogs : /\ seen[k].ref \in Digests \cup {None}
                            /\ entry[k] # None => entry[k].ref \in Digests
    BY <1>a DEF TypeOK, Entries
  <2>3. ASSUME NEW k \in Catalogs
        PROVE  /\ seen'[k].ref # None => Advertised(k, seen[k].ref)'
               /\ entry'[k] # None => Advertised(k, entry[k].ref)'
    <3>1. /\ seen[k].ref # None => Advertised(k, seen[k].ref)
          /\ entry[k] # None => Advertised(k, entry[k].ref)
      BY Zenon DEF FreshInv, RefsAdvertised
    <3>2. /\ seen[k].ref # None => since'[k][seen[k].ref] = since[k][seen[k].ref]
          /\ entry[k] # None => since'[k][entry[k].ref] = since[k][entry[k].ref]
      BY <1>c, <2>2, <3>1 DEF Advertised
    <3> QED BY <1>b, <3>1, <3>2 DEF Advertised
  <2>4. pop'.pc # "idle" => Advertised(pop.cat, pop.ref)'
    BY <1>a, <1>b, <1>c DEF FreshInv, RefsAdvertised, TypeInv, PassNamed, Advertised
  <2>5. reader'.pc = "read" => Advertised(reader.cat, reader.ref)'
    BY <1>a, <1>b, <1>c DEF FreshInv, RefsAdvertised, TypeInv, ReaderNamed, Advertised
  <2> QED BY <2>1, <2>3, <2>4, <2>5 DEF RefsAdvertised, Advertised
<1>g. ASSUME NEW k \in Catalogs, NEW d \in Digests, NEW v \in Versions, NotOlder(k, d, v)
      PROVE  v.digest = d \/ (since'[k][d] # None /\ v.at > since'[k][d])
  BY <1>c, <1>g DEF NotOlder, Advertised
<1>3. BodyFresh'
  <2>1. pop.pc \in Loaded => pop.cat \in Catalogs /\ pop.ref \in Digests /\ pop.body \in Versions
    BY <1>a DEF TypeInv, PassNamed, Loaded
  <2>2. pop.pc \in Loaded /\ entry[pop.cat] # None => entry[pop.cat].ref \in Digests
    BY <1>a, <2>1 DEF TypeOK, Entries
  <2>3. reader.pc = "read" => reader.ref \in Digests BY <1>a DEF TypeInv, ReaderNamed
  <2> QED BY <1>b, <1>g, <2>1, <2>2, <2>3 DEF FreshInv, BodyFresh, NotOlder
<1>4. ReaderFresh'
  <2>1. reader.pc = "read" => reader.cat \in Catalogs /\ reader.ref \in Digests
    BY <1>a DEF TypeInv, ReaderNamed
  <2>2. \A k \in Catalogs : files[k] # None => files[k] \in Versions BY <1>a DEF TypeOK
  <2> QED BY <1>b, <1>g, <2>1, <2>2 DEF FreshInv, ReaderFresh, NotOlder
<1>5. CachedNotOlder'
  <2>1. \A k \in Catalogs : /\ entry[k] # None => entry[k].ref \in Digests
                            /\ files[k] # None => files[k] \in Versions
    BY <1>a DEF TypeOK, Entries
  <2>2. ASSUME NEW k \in Catalogs, entry[k] # None, ~entry[k].err, files[k] # None
        PROVE  NotOlder(k, entry[k].ref, files[k])'
    <3>1. NotOlder(k, entry[k].ref, files[k]) BY <2>2, Zenon DEF FreshInv, CachedNotOlder
    <3>2. \/ files[k].digest = entry[k].ref
          \/ since'[k][entry[k].ref] # None /\ files[k].at > since'[k][entry[k].ref]
      <4>1. entry[k].ref \in Digests /\ files[k] \in Versions BY <2>1, <2>2
      <4> QED BY <1>g, <3>1, <4>1
    <3> QED BY <1>b, <3>2 DEF NotOlder
  <2> QED BY <1>b, <2>2 DEF CachedNotOlder
<1>6. ReadNotOlder'
  <2>1. reader.got \subseteq Versions BY <1>a DEF TypeOK
  <2>2. CASE reader.pc = "read"
    <3>1. reader.cat \in Catalogs /\ reader.ref \in Digests BY <1>a, <2>2 DEF TypeInv, ReaderNamed
    <3> QED BY <1>b, <1>g, <2>1, <3>1 DEF FreshInv, ReadNotOlder, NotOlder
  <2>3. CASE reader.pc # "read" BY <1>a, <1>b, <2>3 DEF TypeInv, ReaderNamed, ReadNotOlder
  <2> QED BY <2>2, <2>3
<1> QED BY <1>a, <1>1, <1>2, <1>3, <1>4, <1>5, <1>6 DEF FreshInv

(* A step of the client: a reference is taken from what was advertised, a
   response is as new as every reference in use, and files change hands only
   together with the reference they are cached under. *)
LEMMA FreshClient ==
  ASSUME FreshInv,
         \/ \E k \in Catalogs : \/ Deliver(k) \/ BeginPopulate(k) \/ RemoveEntry(k)
                                \/ BeginRead(k) \/ FailRemove(k)
         \/ Populate \/ Read \/ NonLeaderResponse \/ FailPopulate \/ Crash
  PROVE  FreshInv'
PROOF
<1>a. TypeInv /\ TypeOK /\ TypeInv' BY TypeClient DEF FreshInv, TypeInv
<1>b. UNCHANGED <<content, advert, stamp, since>>
  BY DEF Deliver, BeginPopulate, RemoveEntry, BeginRead, FailRemove, Populate, Request,
     WriteBody, RemoveOld, RenameNew, Read, ReadFile, EndRead, NonLeaderResponse,
     FailPopulate, Crash, serverVars
<1>c. ServedFresh' BY <1>b DEF FreshInv, ServedFresh, Advertised
<1>d. PopIdle.pc = "idle" /\ ReadIdle.pc = "idle" /\ ReadIdle.got = {} BY IdleTypes
<1>t. /\ pop.pc # "idle" => pop.cat \in Catalogs /\ pop.ref \in Digests
      /\ reader.pc = "read" => reader.cat \in Catalogs /\ reader.ref \in Digests
      /\ reader.pc # "read" => reader.got = {}
      /\ entry \in [Catalogs -> Entries \cup {None}]
      /\ files \in [Catalogs -> Versions \cup {None}]
      /\ seen \in [Catalogs -> [ex : BOOLEAN, ref : Digests \cup {None}]]
  BY <1>a DEF TypeInv, PassNamed, ReaderNamed, TypeOK
<1>q. FreshInv' <=> RefsAdvertised' /\ BodyFresh' /\ ReaderFresh' /\ CachedNotOlder' /\ ReadNotOlder'
  BY <1>a, <1>c DEF FreshInv
<1> USE DEF Advertised, NotOlder
<1>1. ASSUME NEW k \in Catalogs, Deliver(k) PROVE FreshInv'
  <2>1. UNCHANGED <<entry, files, pop, reader>> /\ seen' = [seen EXCEPT ![k] = Look(k)]
    BY <1>1 DEF Deliver, cacheVars
  <2>2. RefsAdvertised' BY <1>a, <1>b, <1>t, <2>1, LookType DEF FreshInv, RefsAdvertised
  <2> QED BY <1>b, <1>q, <2>1, <2>2
          DEF FreshInv, BodyFresh, ReaderFresh, CachedNotOlder, ReadNotOlder
<1>2. ASSUME NEW k \in Catalogs, BeginPopulate(k) PROVE FreshInv'
  <2>1. /\ UNCHANGED <<seen, entry, files, reader>> /\ seen[k].ref # None
        /\ pop' = [PopIdle EXCEPT !.pc = "request", !.cat = k, !.ref = seen[k].ref]
    BY <1>2 DEF BeginPopulate, cacheVars
  <2>2. pop'.pc = "request" /\ pop'.cat = k /\ pop'.ref = seen[k].ref BY <2>1 DEF PopIdle
  <2>3. RefsAdvertised' BY <1>b, <2>1, <2>2 DEF FreshInv, RefsAdvertised
  <2>4. BodyFresh' BY <2>2 DEF BodyFresh, Loaded
  <2> QED BY <1>b, <1>q, <2>1, <2>3, <2>4
          DEF FreshInv, ReaderFresh, CachedNotOlder, ReadNotOlder
<1>3. ASSUME NEW k \in Catalogs, RemoveEntry(k) \/ FailRemove(k) PROVE FreshInv'
  <2>1. UNCHANGED <<seen, pop, reader>> /\ pop.pc = "idle" BY <1>3 DEF RemoveEntry, FailRemove
  <2>2. \A c \in Catalogs : entry'[c] \in {entry[c], None} /\ files'[c] \in {files[c], None}
    BY <1>3, <1>t DEF RemoveEntry, FailRemove
  <2>3. RefsAdvertised' BY <1>b, <2>1, <2>2 DEF FreshInv, RefsAdvertised
  <2>4. BodyFresh' BY <2>1 DEF BodyFresh, Loaded
  <2>5. ReaderFresh' BY <1>b, <1>t, <2>1, <2>2 DEF FreshInv, ReaderFresh
  <2>6. CachedNotOlder' BY <1>b, <2>2 DEF FreshInv, CachedNotOlder
  <2>7. ReadNotOlder' BY <1>b, <2>1 DEF FreshInv, ReadNotOlder
  <2> QED BY <1>q, <2>3, <2>4, <2>5, <2>6, <2>7
<1>4. ASSUME NEW k \in Catalogs, BeginRead(k) PROVE FreshInv'
  <2>1. /\ UNCHANGED <<seen, entry, files, pop>> /\ seen[k].ref # None
        /\ reader' = [ReadIdle EXCEPT !.pc = "read", !.cat = k, !.ref = seen[k].ref,
                                      !.left = PackageFiles]
        /\ entry[k] # None /\ entry[k].ref = seen[k].ref /\ ~entry[k].err /\ ~Locked
    BY <1>4 DEF BeginRead, Get, cacheVars
  <2>2. reader'.cat = k /\ reader'.ref = seen[k].ref /\ reader'.got = {} BY <2>1 DEF ReadIdle
  <2>3. RefsAdvertised' BY <1>b, <2>1, <2>2 DEF FreshInv, RefsAdvertised
  <2>4. BodyFresh' BY <2>1 DEF BodyFresh, Loaded, Locked
  <2>5. ReaderFresh' BY <1>b, <2>1, <2>2 DEF FreshInv, CachedNotOlder, ReaderFresh
  <2>6. CachedNotOlder' BY <1>b, <2>1 DEF FreshInv, CachedNotOlder
  <2>7. ReadNotOlder' BY <2>2 DEF ReadNotOlder
  <2> QED BY <1>q, <2>3, <2>4, <2>5, <2>6, <2>7
<1>5. CASE Request
  <2>1. UNCHANGED <<seen, entry, files, reader>> /\ pop.pc = "request"
    BY <1>5 DEF Request, cacheVars
  <2>2. ReaderFresh' /\ CachedNotOlder' /\ ReadNotOlder'
    BY <1>b, <2>1 DEF FreshInv, ReaderFresh, CachedNotOlder, ReadNotOlder
  <2>3. CASE pop' = PopIdle
    BY <1>b, <1>d, <1>q, <2>1, <2>2, <2>3 DEF FreshInv, RefsAdvertised, BodyFresh, Loaded
  <2>4. CASE /\ content[pop.cat] # None
             /\ pop' = [pop EXCEPT !.pc = "write",
                          !.body = [digest |-> content[pop.cat], at |-> stamp[pop.cat]]]
    <3>1. /\ pop'.pc = "write" /\ pop'.cat = pop.cat /\ pop'.ref = pop.ref
          /\ pop'.body.digest = content[pop.cat] /\ pop'.body.at = stamp[pop.cat]
      BY <1>a, <2>4 DEF TypeOK
    <3>2. RefsAdvertised' BY <1>b, <2>1, <3>1 DEF FreshInv, RefsAdvertised
    <3>3. ASSUME NEW d \in Digests, since[pop.cat][d] # None
          PROVE  NotOlder(pop.cat, d, [digest |-> content[pop.cat], at |-> stamp[pop.cat]])
      <4>1. pop.cat \in Catalogs BY <1>t, <2>1
      <4>2. since[pop.cat][d] \in Nat /\ stamp[pop.cat] \in Nat
        BY <1>a, <3>3, <4>1 DEF TypeOK
      <4> QED BY <2>4, <3>3, <4>1, <4>2 DEF FreshInv, ServedFresh
    <3>4. /\ since[pop.cat][pop.ref] # None /\ pop.ref \in Digests /\ pop.cat \in Catalogs
          /\ entry[pop.cat] # None => entry[pop.cat].ref \in Digests
                                      /\ since[pop.cat][entry[pop.cat].ref] # None
          /\ reader.pc = "read" /\ reader.cat = pop.cat => since[pop.cat][reader.ref] # None
      BY <1>t, <2>1 DEF FreshInv, RefsAdvertised, Entries
    <3>5. BodyFresh' BY <1>b, <1>t, <2>1, <3>1, <3>3, <3>4 DEF BodyFresh
    <3> QED BY <1>q, <2>2, <3>2, <3>5
  <2> QED BY <1>5, <2>3, <2>4 DEF Request
<1>6. CASE WriteBody \/ RemoveOld
  <2>1. UNCHANGED <<seen, entry, reader>> /\ pop.pc \in Loaded
    BY <1>6 DEF WriteBody, RemoveOld, Loaded, cacheVars
  <2>2. /\ pop'.cat = pop.cat /\ pop'.ref = pop.ref /\ pop'.body = pop.body
        /\ pop.pc # "idle"
    BY <1>6, <1>a DEF WriteBody, RemoveOld, TypeOK
  <2>3. \A c \in Catalogs : files'[c] \in {files[c], None}
    BY <1>6, <1>t DEF WriteBody, RemoveOld, cacheVars
  <2>4. RefsAdvertised' BY <1>b, <2>1, <2>2 DEF FreshInv, RefsAdvertised
  <2>5. BodyFresh' BY <1>b, <2>1, <2>2 DEF FreshInv, BodyFresh
  <2>6. ReaderFresh' BY <1>b, <1>t, <2>1, <2>3 DEF FreshInv, ReaderFresh
  <2>7. CachedNotOlder' BY <1>b, <2>1, <2>3 DEF FreshInv, CachedNotOlder
  <2>8. ReadNotOlder' BY <1>b, <2>1 DEF FreshInv, ReadNotOlder
  <2> QED BY <1>q, <2>4, <2>5, <2>6, <2>7, <2>8
<1>7. CASE RenameNew
  <2>1. /\ UNCHANGED <<seen, reader>> /\ pop.pc \in Loaded /\ pop.pc # "idle"
        /\ pop' = PopIdle /\ files' = [files EXCEPT ![pop.cat] = pop.body]
        /\ entry' = [entry EXCEPT ![pop.cat] = [ref |-> pop.ref, err |-> FALSE]]
    BY <1>7 DEF RenameNew, Record, Loaded
  <2>2. pop.cat \in Catalogs BY <1>t, <2>1
  <2>3. /\ entry'[pop.cat].ref = pop.ref /\ files'[pop.cat] = pop.body
        /\ \A c \in Catalogs : c # pop.cat => entry'[c] = entry[c] /\ files'[c] = files[c]
    BY <1>t, <2>1, <2>2
  <2>4. RefsAdvertised' BY <1>b, <1>d, <2>1, <2>3 DEF FreshInv, RefsAdvertised
  <2>5. BodyFresh' BY <1>d, <2>1 DEF BodyFresh, Loaded
  <2>6. ReaderFresh' BY <1>b, <1>t, <2>1, <2>3 DEF FreshInv, ReaderFresh, BodyFresh
  <2>7. CachedNotOlder' BY <1>b, <2>1, <2>3 DEF FreshInv, CachedNotOlder, BodyFresh
  <2>8. ReadNotOlder' BY <1>b, <2>1 DEF FreshInv, ReadNotOlder
  <2> QED BY <1>q, <2>4, <2>5, <2>6, <2>7, <2>8
<1>8. CASE FailPopulate
  <2>1. /\ UNCHANGED <<seen, reader>> /\ pop.pc # "idle" /\ pop' = PopIdle
        /\ entry' = [entry EXCEPT ![pop.cat] = [ref |-> pop.ref, err |-> TRUE]]
    BY <1>8 DEF FailPopulate, Record
  <2>2. \A c \in Catalogs : files'[c] \in {files[c], None} BY <1>8, <1>t DEF FailPopulate
  <2>3. pop.cat \in Catalogs BY <1>t, <2>1
  <2>4. /\ entry'[pop.cat].ref = pop.ref /\ entry'[pop.cat].err
        /\ \A c \in Catalogs : c # pop.cat => entry'[c] = entry[c]
    BY <1>t, <2>1, <2>3
  <2>5. RefsAdvertised' BY <1>b, <1>d, <2>1, <2>4 DEF FreshInv, RefsAdvertised
  <2>6. BodyFresh' BY <1>d, <2>1 DEF BodyFresh, Loaded
  <2>7. ReaderFresh' BY <1>b, <1>t, <2>1, <2>2 DEF FreshInv, ReaderFresh
  <2>8. CachedNotOlder' BY <1>b, <2>2, <2>4 DEF FreshInv, CachedNotOlder
  <2>9. ReadNotOlder' BY <1>b, <2>1 DEF FreshInv, ReadNotOlder
  <2> QED BY <1>q, <2>5, <2>6, <2>7, <2>8, <2>9
<1>9. CASE Read
  <2>1. UNCHANGED <<seen, entry, files, pop>> /\ reader.pc = "read"
    BY <1>9 DEF Read, ReadFile, EndRead, cacheVars
  <2>2. CachedNotOlder' BY <1>b, <2>1 DEF FreshInv, CachedNotOlder
  <2>3. CASE reader' = ReadIdle
    <3>1. RefsAdvertised' /\ BodyFresh' BY <1>b, <1>d, <2>1, <2>3 DEF FreshInv, RefsAdvertised, BodyFresh
    <3>2. ReaderFresh' /\ ReadNotOlder' BY <1>d, <2>3 DEF ReaderFresh, ReadNotOlder
    <3> QED BY <1>q, <2>2, <3>1, <3>2
  <2>4. CASE /\ files[reader.cat] # None
             /\ reader' = [reader EXCEPT !.left = @ - 1, !.got = @ \cup {files[reader.cat]}]
    <3>1. /\ reader'.pc = "read" /\ reader'.cat = reader.cat /\ reader'.ref = reader.ref
          /\ reader'.got = reader.got \cup {files[reader.cat]}
      BY <1>a, <2>1, <2>4 DEF TypeOK
    <3>2. RefsAdvertised' BY <1>b, <2>1, <3>1 DEF FreshInv, RefsAdvertised
    <3>3. BodyFresh' BY <1>b, <2>1, <3>1 DEF FreshInv, BodyFresh
    <3>4. ReaderFresh' BY <1>b, <2>1, <3>1 DEF FreshInv, ReaderFresh
    <3>5. ReadNotOlder' BY <1>b, <2>1, <2>4, <3>1 DEF FreshInv, ReaderFresh, ReadNotOlder
    <3> QED BY <1>q, <2>2, <3>2, <3>3, <3>4, <3>5
  <2> QED BY <1>9, <2>3, <2>4 DEF Read, ReadFile, EndRead
<1>10. CASE Crash
  <2>1. /\ pop' = PopIdle /\ reader' = ReadIdle
        /\ \A k \in Catalogs : entry'[k] = None /\ files'[k] = None /\ seen'[k].ref = advert[k]
    BY <1>10, <1>a, LookType DEF Crash
  <2>2. RefsAdvertised' BY <1>b, <1>d, <2>1 DEF FreshInv, RefsAdvertised
  <2>3. BodyFresh' /\ ReaderFresh' /\ CachedNotOlder' /\ ReadNotOlder'
    BY <1>d, <2>1 DEF BodyFresh, ReaderFresh, CachedNotOlder, ReadNotOlder, Loaded
  <2> QED BY <1>q, <2>2, <2>3
<1>11. CASE NonLeaderResponse
  <2>1. UNCHANGED <<seen, entry, files, reader>> /\ pop' = PopIdle
    BY <1>11 DEF NonLeaderResponse, cacheVars
  <2>2. RefsAdvertised' /\ BodyFresh'
    BY <1>b, <1>d, <2>1 DEF FreshInv, RefsAdvertised, BodyFresh, Loaded
  <2> QED BY <1>b, <1>q, <2>1, <2>2 DEF FreshInv, ReaderFresh, CachedNotOlder, ReadNotOlder
<1> QED BY <1>1, <1>2, <1>3, <1>4, <1>5, <1>6, <1>7, <1>8, <1>9, <1>10, <1>11 DEF Populate

LEMMA FreshInit == Init => FreshInv
PROOF
<1> SUFFICES ASSUME Init PROVE FreshInv OBVIOUS
<1>1. TypeInv BY TypeInit
<1>2. \A k \in Catalogs : advert[k] = None /\ seen[k].ref = None /\ entry[k] = None
                          /\ \A d \in Digests : since[k][d] = None
  BY DEF Init, Server!Init, Look
<1>3. pop.pc = "idle" /\ reader.pc = "idle" /\ reader.got = {} BY IdleTypes DEF Init
<1> QED BY <1>1, <1>2, <1>3 DEF FreshInv, ServedFresh, RefsAdvertised, BodyFresh, ReaderFresh,
           CachedNotOlder, ReadNotOlder, Loaded, Advertised

LEMMA FreshStep == FreshInv /\ [Next]_vars => FreshInv'
PROOF
<1> SUFFICES ASSUME FreshInv, [Next]_vars PROVE FreshInv' OBVIOUS
<1>1. CASE UNCHANGED vars
  <2>1. TypeInv' BY <1>1, TypeStep DEF FreshInv
  <2> QED BY <1>1, <2>1 DEF FreshInv, ServedFresh, RefsAdvertised, BodyFresh, ReaderFresh,
             CachedNotOlder, ReadNotOlder, Advertised, NotOlder, vars, serverVars, cacheVars
<1>2. CASE Serve BY <1>2, FreshServe
<1>3. CASE Next /\ ~Serve BY <1>3, FreshClient DEF Next
<1> QED BY <1>1, <1>2, <1>3

(* What the cache holds under a reference is never content the reference
   replaced, whatever catalogd does within its contract. *)
THEOREM CacheNeverOlder == Spec => []CachedNotOlder
PROOF
<1>1. FreshInv => CachedNotOlder BY DEF FreshInv
<1> QED BY <1>1, FreshInit, FreshStep, PTL DEF Spec

(* No package read for a reference has a file that the reference replaced,
   although the directory it is read from changes under the reader. *)
THEOREM ReadsNeverOlder == Spec => []ReadNotOlder
PROOF
<1>1. FreshInv => ReadNotOlder BY DEF FreshInv
<1> QED BY <1>1, FreshInit, FreshStep, PTL DEF Spec
=============================================================================
