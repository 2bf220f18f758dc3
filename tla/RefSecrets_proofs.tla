-------------------------- MODULE RefSecrets_proofs --------------------------
(***************************************************************************)
(* Theorems about RefSecrets, for any contents, histories of Helm releases *)
(* and numbers of revisions and faults.                                    *)
(***************************************************************************)
EXTENDS RefSecrets, Ordering_proofs

Digests == {"none", "packed", "other"}
COSStates ==
  [uid : Nat, content : Nat, inline : BOOLEAN, migrated : BOOLEAN, succeeded : BOOLEAN,
   archived : BOOLEAN, deleting : BOOLEAN, observed : Digests]
Resolves == [pc : {"idle", "build", "status"}, rev : Nat, seen : COSStates, digest : Digests]

(* apply.todo is a sequence of Secrets the proofs say nothing about. *)
RefTypes ==
  /\ history \in HelmHistories /\ asked \in Nat
  /\ cos \in [Numbers -> COSStates]
  /\ apply = [pc |-> apply.pc, rev |-> apply.rev, content |-> apply.content, todo |-> apply.todo]
  /\ apply.content \in Nat
  /\ apply.pc \in {"create", "own"} => apply.rev \in Numbers
  /\ resolve \in Resolves
  /\ resolve.pc # "idle" => resolve.rev \in Numbers
  /\ nextUid \in Nat \ {0}

(* No COS has the next uid yet. *)
UidsUsed == \A r \in Numbers : cos[r].uid < nextUid

(* Past the mark, a migrated revision is marked. *)
MarkedBeforeApply ==
  apply.pc \in {"apply", "create"} => (Exists(1) /\ cos[1].migrated => cos[1].succeeded)

(* The digest to be written agrees with the copy of the COS it was compared with. *)
DigestCompared == resolve.pc = "status" => resolve.seen.observed \in {"none", resolve.digest}

RefInv == RefTypes /\ UidsUsed /\ MarkedBeforeApply /\ MigratedFirst /\ DigestCompared

-----------------------------------------------------------------------------
LEMMA IdleRefs ==
  /\ 1 \in Numbers /\ NoCOS \in COSStates /\ NoResolve \in Resolves
  /\ NoApply = [pc |-> "idle", rev |-> 0, content |-> 0, todo |-> <<>>]
PROOF BY RefBounds DEF Numbers, NoCOS, COSStates, NoResolve, Resolves, Digests, NoApply

LEMMA NewCOSType ==
  ASSUME NEW u \in Nat, NEW k \in Nat, NEW b \in BOOLEAN
  PROVE  /\ NewCOS(u, k, b) \in COSStates
         /\ NewCOS(u, k, b).uid = u /\ NewCOS(u, k, b).migrated = b
PROOF BY DEF NewCOS, NoCOS, COSStates, Digests

(* Latest is a revision that exists, or 0, and none that exists is newer. *)
LEMMA LatestRange ==
  ASSUME cos \in [Numbers -> COSStates]
  PROVE  /\ Latest \in 0..MaxRevs /\ \A r \in Numbers : Exists(r) => r <= Latest
         /\ Latest # 0 => Exists(Latest)
PROOF
<1> DEFINE S == {0} \cup {r \in Numbers : Exists(r)}
           T == {MaxRevs - s : s \in S}
<1>1. S \subseteq 0..MaxRevs BY RefBounds DEF Numbers
<1>2. T \in SUBSET Nat /\ T # {} BY <1>1, RefBounds
<1>3. PICK x \in T : \A y \in T : x <= y
  <2> HIDE DEF T
  <2> QED BY <1>2, NatMin
<1>4. PICK m \in S : x = MaxRevs - m BY <1>3
<1>5. \A s \in S : m >= s
  <2>1. \A s \in S : MaxRevs - m <= MaxRevs - s BY <1>3, <1>4
  <2> QED BY <2>1, <1>1, <1>4, RefBounds
<1>6. Max(S) \in S /\ \A s \in S : Max(S) >= s
  <2> HIDE DEF S
  <2> QED BY <1>4, <1>5 DEF Max
<1>7. Latest = Max(S) BY DEF Latest
<1>8. Latest \in 0..MaxRevs BY <1>1, <1>6, <1>7
<1>9. \A r \in Numbers : Exists(r) => r <= Latest
  <2> SUFFICES ASSUME NEW r \in Numbers, Exists(r) PROVE r <= Latest OBVIOUS
  <2>1. r \in S OBVIOUS
  <2>2. Latest >= r BY <2>1, <1>6, <1>7
  <2> HIDE DEF S
  <2> QED BY <2>2, <1>8, RefBounds DEF Numbers
<1>10. Latest # 0 => Exists(Latest) BY <1>6, <1>7
<1> QED BY <1>8, <1>9, <1>10

LEMMA InitRefInv == ASSUME RefInit PROVE RefInv
PROOF
<1> USE DEF RefInit
<1>1. RefTypes BY IdleRefs DEF RefTypes, NoApply, NoResolve
<1>2. UidsUsed BY DEF UidsUsed, NoCOS
<1>3. MarkedBeforeApply /\ DigestCompared BY DEF MarkedBeforeApply, DigestCompared, NoApply, NoResolve
<1>4. MigratedFirst BY DEF MigratedFirst, Exists, NoCOS
<1> QED BY <1>1, <1>2, <1>3, <1>4 DEF RefInv

-----------------------------------------------------------------------------
(* Steps that write no COS: what they leave of apply and resolve is enough. *)
LEMMA QuietStep ==
  ASSUME RefInv, UNCHANGED <<cos, nextUid, history>>, asked' \in Nat,
         /\ apply' = [pc |-> apply'.pc, rev |-> apply'.rev, content |-> apply'.content, todo |-> apply'.todo]
         /\ apply'.content \in Nat
         /\ apply'.pc \in {"create", "own"} => apply'.rev \in Numbers
         /\ apply'.pc \in {"apply", "create"} =>
              \/ apply.pc \in {"apply", "create"}
              \/ Exists(1) /\ cos[1].migrated => cos[1].succeeded,
         resolve' = resolve \/ resolve' = NoResolve
  PROVE  RefInv'
PROOF
<1>1. RefTypes'
  <2>1. resolve' \in Resolves /\ (resolve'.pc # "idle" => resolve'.rev \in Numbers)
    BY IdleRefs DEF RefInv, RefTypes, NoResolve
  <2> QED BY <2>1 DEF RefInv, RefTypes, Numbers
<1>2. UidsUsed' BY DEF RefInv, UidsUsed, Numbers
<1>3. MarkedBeforeApply' BY DEF RefInv, MarkedBeforeApply, Exists
<1>4. MigratedFirst' BY DEF RefInv, MigratedFirst, Exists, Numbers
<1>5. DigestCompared' BY DEF RefInv, DigestCompared, NoResolve
<1> QED BY <1>1, <1>2, <1>3, <1>4, <1>5 DEF RefInv

(* Steps that write COSs already there, none of which loses its mark. *)
LEMMA CosStep ==
  ASSUME RefInv, UNCHANGED <<nextUid, history, asked>>, cos' \in [Numbers -> COSStates],
         \A r \in Numbers :
           \/ cos'[r] = NoCOS
           \/ /\ cos'[r].uid = cos[r].uid /\ cos'[r].migrated = cos[r].migrated
              /\ cos[r].succeeded => cos'[r].succeeded,
         /\ apply' = [pc |-> apply'.pc, rev |-> apply'.rev, content |-> apply'.content, todo |-> apply'.todo]
         /\ apply'.content \in Nat
         /\ apply'.pc \in {"create", "own"} => apply'.rev \in Numbers
         /\ apply'.pc \in {"apply", "create"} =>
              \/ apply.pc \in {"apply", "create"}
              \/ cos'[1].migrated => cos'[1].succeeded,
         resolve' = resolve \/ resolve' = NoResolve
  PROVE  RefInv'
PROOF
<1>0. 1 \in Numbers /\ NoCOS.uid = 0 /\ ~NoCOS.migrated BY IdleRefs DEF NoCOS
<1>1. RefTypes'
  <2>1. resolve' \in Resolves /\ (resolve'.pc # "idle" => resolve'.rev \in Numbers)
    BY IdleRefs DEF RefInv, RefTypes, NoResolve
  <2> QED BY <2>1 DEF RefInv, RefTypes, Numbers
<1>2. UidsUsed' BY <1>0 DEF RefInv, RefTypes, UidsUsed, Numbers
<1>3. MarkedBeforeApply' BY <1>0 DEF RefInv, MarkedBeforeApply, Exists
<1>4. MigratedFirst' BY <1>0 DEF RefInv, MigratedFirst, Exists, Numbers
<1>5. DigestCompared' BY DEF RefInv, DigestCompared, NoResolve
<1> QED BY <1>1, <1>2, <1>3, <1>4, <1>5 DEF RefInv

LEMMA MigrateStep == ASSUME RefInv, Migrate PROVE RefInv'
PROOF
<1>0. /\ cos \in [Numbers -> COSStates] /\ history \in HelmHistories /\ nextUid \in Nat \ {0}
      /\ 1 \in Numbers
  BY IdleRefs DEF RefInv, RefTypes
<1>1. CASE Latest = 0 /\ DeployedRelease # 0
  <2> DEFINE k == history[DeployedRelease].content
             v == NewCOS(nextUid, k, TRUE)
  <2>1. DeployedRelease \in DOMAIN history BY <1>1 DEF DeployedRelease
  <2>2. k \in Nat BY <1>0, <2>1, HistoriesAssumption
  <2>3. /\ cos' = [cos EXCEPT ![1] = v] /\ nextUid' = nextUid + 1
        /\ apply' = [NoApply EXCEPT !.pc = "mark"]
        /\ UNCHANGED <<history, asked, resolve>>
    BY <1>1 DEF Migrate, WriteCOS
  <2>4. v \in COSStates /\ v.uid = nextUid BY <1>0, <2>2, NewCOSType
  <2> HIDE DEF v
  <2>5. apply' = [pc |-> "mark", rev |-> 0, content |-> 0, todo |-> <<>>] BY <2>3 DEF NoApply
  <2>6. \A r \in Numbers : r # 1 => cos'[r] = cos[r] /\ ~Exists(r)
    BY <1>0, <1>1, <2>3, LatestRange DEF Numbers
  <2>7. RefTypes'
    <3>1. cos' \in [Numbers -> COSStates] BY <1>0, <2>3, <2>4
    <3>2. nextUid' \in Nat \ {0} BY <1>0, <2>3
    <3>3. /\ apply' = [pc |-> apply'.pc, rev |-> apply'.rev, content |-> apply'.content, todo |-> apply'.todo]
          /\ apply'.content \in Nat /\ apply'.pc = "mark"
      BY <2>5
    <3>4. /\ history' \in HelmHistories /\ asked' \in Nat /\ resolve' \in Resolves
          /\ resolve'.pc # "idle" => resolve'.rev \in Numbers
      BY <2>3 DEF RefInv, RefTypes
    <3> QED BY <3>1, <3>2, <3>3, <3>4 DEF RefTypes, Numbers
  <2>8. UidsUsed'
    <3>1. \A r \in Numbers : cos'[r].uid \in Nat /\ cos'[r].uid < nextUid + 1
      BY <1>0, <2>3, <2>4 DEF RefInv, UidsUsed, COSStates
    <3> QED BY <3>1, <2>3 DEF UidsUsed, Numbers
  <2>9. MarkedBeforeApply' BY <2>5 DEF MarkedBeforeApply
  <2>10. MigratedFirst' BY <2>6 DEF MigratedFirst, Exists, Numbers
  <2>11. DigestCompared' BY <2>3 DEF RefInv, DigestCompared
  <2> QED BY <2>7, <2>8, <2>9, <2>10, <2>11 DEF RefInv
<1>2. CASE ~(Latest = 0 /\ DeployedRelease # 0)
  <2> DEFINE p == IF NeedsMark THEN "mark" ELSE "apply"
  <2>1. /\ UNCHANGED <<cos, nextUid, history, asked, resolve>>
        /\ apply' = [NoApply EXCEPT !.pc = p]
    BY <1>2 DEF Migrate
  <2>2. apply' = [pc |-> p, rev |-> 0, content |-> 0, todo |-> <<>>] BY <2>1 DEF NoApply
  <2>3. p \in {"mark", "apply"} /\ (p = "apply" => (Exists(1) => cos[1].succeeded))
    BY DEF NeedsMark
  <2>4. asked' \in Nat BY <2>1 DEF RefInv, RefTypes
  <2> HIDE DEF p
  <2>5. /\ apply' = [pc |-> apply'.pc, rev |-> apply'.rev, content |-> apply'.content, todo |-> apply'.todo]
        /\ apply'.content \in Nat /\ apply'.pc = p
    BY <2>2
  <2> QED BY <2>1, <2>3, <2>4, <2>5, QuietStep
<1> QED BY <1>1, <1>2

LEMMA MarkStep == ASSUME RefInv, ensureRevisionStatus PROVE RefInv'
PROOF
<1> DEFINE v == IF cos[1].migrated THEN [cos[1] EXCEPT !.succeeded = TRUE] ELSE cos[1]
<1>0. cos \in [Numbers -> COSStates] /\ 1 \in Numbers BY IdleRefs DEF RefInv, RefTypes
<1>1. /\ v \in COSStates /\ v.uid = cos[1].uid /\ v.migrated = cos[1].migrated
      /\ v.migrated => v.succeeded
      /\ cos[1].succeeded => v.succeeded
  BY <1>0 DEF COSStates
<1>2. /\ cos' = [cos EXCEPT ![1] = v]
      /\ UNCHANGED <<history, asked, resolve, nextUid>>
      /\ apply' = [apply EXCEPT !.pc = "apply"] \/ apply' = NoApply
  BY DEF ensureRevisionStatus, WriteCOS
<1> HIDE DEF v
<1>3. /\ apply' = [pc |-> apply'.pc, rev |-> apply'.rev, content |-> apply'.content, todo |-> apply'.todo]
      /\ apply'.content \in Nat /\ apply'.pc \in {"apply", "idle"}
  <2>1. apply = [pc |-> apply.pc, rev |-> apply.rev, content |-> apply.content, todo |-> apply.todo]
        /\ apply.content \in Nat
    BY DEF RefInv, RefTypes
  <2>2. CASE apply' = NoApply BY <2>2 DEF NoApply
  <2>3. CASE apply' = [apply EXCEPT !.pc = "apply"] BY <2>1, <2>3
  <2> QED BY <1>2, <2>2, <2>3
<1>4. cos' \in [Numbers -> COSStates] BY <1>0, <1>1, <1>2
<1>5. \A r \in Numbers : /\ cos'[r].uid = cos[r].uid /\ cos'[r].migrated = cos[r].migrated
                         /\ cos[r].succeeded => cos'[r].succeeded
  BY <1>0, <1>1, <1>2
<1>6. cos'[1].migrated => cos'[1].succeeded BY <1>0, <1>1, <1>2
<1> QED BY <1>2, <1>3, <1>4, <1>5, <1>6, CosStep

LEMMA ApplyChangedStep == ASSUME RefInv, ApplyChanged PROVE RefInv'
PROOF
<1>0. cos \in [Numbers -> COSStates] /\ asked \in Nat BY DEF RefInv, RefTypes
<1>1. /\ cos' = [r \in Numbers |-> IF r \in Collected THEN [cos[r] EXCEPT !.deleting = TRUE] ELSE cos[r]]
      /\ UNCHANGED <<history, asked, resolve, nextUid>>
      /\ apply.pc = "apply" /\ Latest < MaxRevs
      /\ \/ apply' = NoApply
         \/ apply' = [pc |-> "create", rev |-> Latest + 1, content |-> asked,
                      todo |-> SecretsOf(Latest + 1, asked)]
  BY DEF ApplyChanged
<1>2. Latest + 1 \in Numbers BY <1>0, <1>1, LatestRange, RefBounds DEF Numbers
<1>3. \A r \in Numbers : /\ cos'[r] \in COSStates
                         /\ cos'[r].uid = cos[r].uid /\ cos'[r].migrated = cos[r].migrated
                         /\ cos'[r].succeeded = cos[r].succeeded
  BY <1>0, <1>1 DEF COSStates
<1>4. cos' \in [Numbers -> COSStates] BY <1>1, <1>3
<1>5. /\ apply' = [pc |-> apply'.pc, rev |-> apply'.rev, content |-> apply'.content, todo |-> apply'.todo]
      /\ apply'.content \in Nat
      /\ apply'.pc \in {"create", "own"} => apply'.rev \in Numbers
  <2>1. CASE apply' = NoApply BY <2>1 DEF NoApply
  <2>2. CASE apply' = [pc |-> "create", rev |-> Latest + 1, content |-> asked,
                       todo |-> SecretsOf(Latest + 1, asked)]
    BY <2>2, <1>0, <1>2
  <2> QED BY <1>1, <2>1, <2>2
<1> QED BY <1>1, <1>3, <1>4, <1>5, CosStep

LEMMA CreateCOSStep == ASSUME RefInv, CreateCOS PROVE RefInv'
PROOF
<1> DEFINE v == NewCOS(nextUid, apply.content, FALSE)
<1>0. /\ cos \in [Numbers -> COSStates] /\ nextUid \in Nat \ {0} /\ apply.content \in Nat
      /\ apply.pc = "create" /\ apply.rev \in Numbers
      /\ apply = [pc |-> apply.pc, rev |-> apply.rev, content |-> apply.content, todo |-> apply.todo]
  BY DEF RefInv, RefTypes, CreateCOS
<1>1. /\ cos' = [cos EXCEPT ![apply.rev] = v] /\ nextUid' = nextUid + 1
      /\ apply' = [apply EXCEPT !.pc = "own", !.todo = SecretsOf(apply.rev, apply.content)]
      /\ UNCHANGED <<history, asked, resolve>>
  BY DEF CreateCOS, WriteCOS
<1>2. v \in COSStates /\ v.uid = nextUid /\ ~v.migrated BY <1>0, NewCOSType
<1> HIDE DEF v
<1>3. /\ apply' = [pc |-> apply'.pc, rev |-> apply'.rev, content |-> apply'.content, todo |-> apply'.todo]
      /\ apply'.content \in Nat /\ apply'.pc = "own" /\ apply'.rev \in Numbers
  BY <1>0, <1>1
<1>4. RefTypes'
  <2>1. cos' \in [Numbers -> COSStates] BY <1>0, <1>1, <1>2
  <2>2. nextUid' \in Nat \ {0} BY <1>0, <1>1
  <2>3. /\ history' \in HelmHistories /\ asked' \in Nat /\ resolve' \in Resolves
        /\ resolve'.pc # "idle" => resolve'.rev \in Numbers
    BY <1>1 DEF RefInv, RefTypes
  <2> QED BY <1>3, <2>1, <2>2, <2>3 DEF RefTypes, Numbers
<1>5. UidsUsed'
  <2>1. \A r \in Numbers : cos'[r].uid \in Nat /\ cos'[r].uid < nextUid + 1
    BY <1>0, <1>1, <1>2 DEF RefInv, UidsUsed, COSStates
  <2> QED BY <2>1, <1>1 DEF UidsUsed, Numbers
<1>6. MarkedBeforeApply' BY <1>3 DEF MarkedBeforeApply
<1>7. MigratedFirst'
  <2>1. 1 \in Numbers BY IdleRefs
  <2>2. Exists(1) /\ cos[1].migrated => cos[1].succeeded BY <1>0 DEF RefInv, MarkedBeforeApply
  <2>3. cos'[1] = cos[1] \/ ~cos'[1].migrated BY <1>0, <1>1, <1>2, <2>1
  <2> QED BY <2>2, <2>3 DEF MigratedFirst, Exists, Numbers
<1>8. DigestCompared' BY <1>1 DEF RefInv, DigestCompared
<1> QED BY <1>4, <1>5, <1>6, <1>7, <1>8 DEF RefInv

(* Steps of the other controller. *)
LEMMA ResolveStep ==
  ASSUME RefInv, \/ \E r \in Numbers : \E c \in Copies(cos[r]) : BeginResolve(r, c)
                 \/ BuildPhases
  PROVE  RefInv'
PROOF
<1>0. cos \in [Numbers -> COSStates] /\ resolve \in Resolves BY DEF RefInv, RefTypes
<1>1. UNCHANGED <<history, asked, cos, apply, nextUid>> BY DEF BeginResolve, BuildPhases
<1>2. /\ resolve' \in Resolves /\ (resolve'.pc # "idle" => resolve'.rev \in Numbers)
      /\ DigestCompared'
  <2>1. ASSUME NEW r \in Numbers, NEW c \in Copies(cos[r]), BeginResolve(r, c)
        PROVE  /\ resolve' \in Resolves /\ (resolve'.pc # "idle" => resolve'.rev \in Numbers)
               /\ DigestCompared'
    <3>1. c \in COSStates
      <4>1. cos[r] \in COSStates BY <1>0
      <4>2. CASE c = cos[r] BY <4>1, <4>2
      <4>3. CASE c = [cos[r] EXCEPT !.archived = FALSE, !.observed = "none", !.succeeded = FALSE]
        BY <4>1, <4>3 DEF COSStates, Digests
      <4> QED BY <4>2, <4>3 DEF Copies
    <3>2. resolve' = [pc |-> "build", rev |-> r, seen |-> c, digest |-> "none"]
      BY <2>1 DEF BeginResolve, NoResolve
    <3>3. r \in Nat BY RefBounds DEF Numbers
    <3> QED BY <3>1, <3>2, <3>3 DEF Resolves, Digests, DigestCompared
  <2>2. CASE BuildPhases
    <3>1. CASE resolve' = NoResolve BY <3>1, IdleRefs DEF NoResolve, DigestCompared
    <3>2. CASE /\ SameDigest /\ resolve.pc = "build"
               /\ resolve' = [resolve EXCEPT !.pc = "status", !.digest = Digest]
      <4>1. Digest \in {"packed", "other"} BY DEF Digest
      <4>2. resolve.rev \in Numbers BY <3>2 DEF RefInv, RefTypes
      <4>3. resolve.seen.observed \in {"none", Digest} BY <3>2 DEF SameDigest
      <4>4. /\ resolve' \in Resolves /\ resolve'.rev = resolve.rev
            /\ resolve'.seen = resolve.seen /\ resolve'.digest = Digest
        BY <1>0, <3>2, <4>1 DEF Resolves, Digests
      <4> QED BY <4>2, <4>3, <4>4 DEF DigestCompared
    <3> QED BY <2>2, <3>1, <3>2 DEF BuildPhases
  <2> QED BY <2>1, <2>2
<1>3. RefTypes' BY <1>1, <1>2 DEF RefInv, RefTypes, Numbers
<1>4. UidsUsed' /\ MarkedBeforeApply' /\ MigratedFirst'
  BY <1>1 DEF RefInv, UidsUsed, MarkedBeforeApply, MigratedFirst, Exists, Numbers
<1> QED BY <1>2, <1>3, <1>4 DEF RefInv

(* What WriteStatus leaves of every COS. *)
LEMMA StatusWritten ==
  ASSUME RefInv, NEW complete \in BOOLEAN, WriteStatus(complete)
  PROVE  /\ cos' \in [Numbers -> COSStates]
         /\ \A r \in Numbers :
              /\ cos'[r].uid = cos[r].uid /\ cos'[r].migrated = cos[r].migrated
              /\ cos[r].succeeded => cos'[r].succeeded
              /\ cos[r].observed # "none" => cos'[r].observed = cos[r].observed
PROOF
<1> DEFINE n == resolve.rev
           done == [r2 \in Numbers |-> IF complete /\ r2 < n /\ Exists(r2)
                                       THEN [cos[r2] EXCEPT !.archived = TRUE] ELSE cos[r2]]
<1>0. /\ cos \in [Numbers -> COSStates] /\ resolve \in Resolves /\ resolve.pc = "status"
      /\ n \in Numbers /\ resolve.seen.observed \in {"none", resolve.digest}
  BY DEF RefInv, RefTypes, DigestCompared, WriteStatus
<1>1. cos' = IF ~Current THEN done
             ELSE [done EXCEPT ![n].observed = resolve.digest, ![n].succeeded = @ \/ complete]
  BY DEF WriteStatus
<1>2. \A r \in Numbers :
        /\ done[r] \in COSStates /\ done[r].uid = cos[r].uid /\ done[r].migrated = cos[r].migrated
        /\ done[r].succeeded = cos[r].succeeded /\ done[r].observed = cos[r].observed
  BY <1>0 DEF COSStates
<1>3. done \in [Numbers -> COSStates] BY <1>2
<1> HIDE DEF done
<1>4. CASE ~Current BY <1>1, <1>2, <1>3, <1>4
<1>5. CASE Current
  <2> DEFINE v == [done[n] EXCEPT !.observed = resolve.digest, !.succeeded = done[n].succeeded \/ complete]
  <2>1. cos' = [done EXCEPT ![n] = v] BY <1>0, <1>1, <1>3, <1>5
  <2>2. resolve.digest \in Digests BY <1>0 DEF Resolves
  <2>3. /\ v \in COSStates /\ v.uid = done[n].uid /\ v.migrated = done[n].migrated
        /\ v.observed = resolve.digest /\ (done[n].succeeded => v.succeeded)
    BY <1>0, <1>3, <2>2 DEF COSStates
  <2>4. cos[n].observed \in {"none", resolve.digest} BY <1>0, <1>5 DEF Current
  <2> HIDE DEF v
  <2> QED BY <1>0, <1>2, <1>3, <2>1, <2>3, <2>4
<1> QED BY <1>4, <1>5

LEMMA StatusStep ==
  ASSUME RefInv, NEW complete \in BOOLEAN, WriteStatus(complete) PROVE RefInv'
PROOF
<1>1. UNCHANGED <<history, asked, apply, nextUid>> /\ resolve' = NoResolve BY DEF WriteStatus
<1>2. /\ apply = [pc |-> apply.pc, rev |-> apply.rev, content |-> apply.content, todo |-> apply.todo]
      /\ apply.content \in Nat /\ (apply.pc \in {"create", "own"} => apply.rev \in Numbers)
  BY DEF RefInv, RefTypes
<1> QED BY <1>1, <1>2, StatusWritten, CosStep

LEMMA FinalizedStep == ASSUME RefInv, NEW n \in Numbers, Finalized(n) PROVE RefInv'
PROOF
<1>1. UNCHANGED <<history, asked, apply, resolve, nextUid>> /\ cos' = [cos EXCEPT ![n] = NoCOS]
  BY DEF Finalized
<1>2. /\ apply = [pc |-> apply.pc, rev |-> apply.rev, content |-> apply.content, todo |-> apply.todo]
      /\ apply.content \in Nat /\ (apply.pc \in {"create", "own"} => apply.rev \in Numbers)
      /\ cos \in [Numbers -> COSStates]
  BY DEF RefInv, RefTypes
<1>3. cos' \in [Numbers -> COSStates] /\ \A r \in Numbers : cos'[r] = NoCOS \/ cos'[r] = cos[r]
  BY <1>1, <1>2, IdleRefs
<1> QED BY <1>1, <1>2, <1>3, CosStep

(* The remaining steps touch no COS. *)
LEMMA OtherStep ==
  ASSUME RefInv,
         \/ ApplyUnchanged \/ CreateSecret \/ PatchOwner \/ EndApply \/ ApplyFails
         \/ AskForNext \/ CrashRefs
         \/ \E n \in SecretNames : CollectSecret(n) \/ \E v \in Replacements : EditSecret(n, v)
         \/ UNCHANGED refVars
  PROVE  RefInv'
PROOF
<1>0. /\ apply = [pc |-> apply.pc, rev |-> apply.rev, content |-> apply.content, todo |-> apply.todo]
      /\ apply.content \in Nat /\ (apply.pc \in {"create", "own"} => apply.rev \in Numbers)
      /\ asked \in Nat /\ cos \in [Numbers -> COSStates]
  BY DEF RefInv, RefTypes
<1>1. CASE ApplyUnchanged
  <2>1. /\ UNCHANGED <<history, asked, cos, nextUid, resolve>> /\ Latest # 0
        /\ apply' = [pc |-> "own", rev |-> Latest, content |-> asked, todo |-> apply'.todo]
    BY <1>1 DEF ApplyUnchanged, Unchanged
  <2>2. Latest \in Numbers BY <1>0, <2>1, LatestRange, RefBounds DEF Numbers
  <2>3. apply'.pc = "own" /\ apply'.rev \in Numbers /\ apply'.content \in Nat BY <1>0, <2>1, <2>2
  <2> QED BY <1>0, <2>1, <2>3, QuietStep
<1>2. CASE \/ CreateSecret \/ PatchOwner \/ EndApply \/ ApplyFails \/ AskForNext \/ CrashRefs
           \/ (\E n \in SecretNames : CollectSecret(n) \/ \E v \in Replacements : EditSecret(n, v))
           \/ UNCHANGED refVars
  <2>1. /\ UNCHANGED <<cos, nextUid, history>>
        /\ asked' = asked \/ asked' = asked + 1
        /\ resolve' = resolve \/ resolve' = NoResolve
        /\ apply' = apply \/ apply' = NoApply \/ apply' = [apply EXCEPT !.todo = Tail(@)]
    BY <1>2 DEF CreateSecret, PatchOwner, EndApply, ApplyFails, AskForNext, CrashRefs,
                CollectSecret, EditSecret, refVars
  <2>2. asked' \in Nat BY <1>0, <2>1
  <2>3. /\ apply' = [pc |-> apply'.pc, rev |-> apply'.rev, content |-> apply'.content, todo |-> apply'.todo]
        /\ apply'.content \in Nat /\ (apply'.pc \in {"create", "own"} => apply'.rev \in Numbers)
        /\ apply'.pc \in {"idle", apply.pc}
    <3>1. CASE apply' = apply BY <1>0, <3>1
    <3>2. CASE apply' = NoApply BY <3>2 DEF NoApply
    <3>3. CASE apply' = [apply EXCEPT !.todo = Tail(@)] BY <1>0, <3>3
    <3> QED BY <2>1, <3>1, <3>2, <3>3
  <2> QED BY <2>1, <2>2, <2>3, QuietStep
<1> QED BY <1>1, <1>2

LEMMA RefInvStep == ASSUME RefInv, [RefNext]_refVars PROVE RefInv'
PROOF
<1>1. CASE ApplyStep
  BY <1>1, MigrateStep, MarkStep, ApplyChangedStep, CreateCOSStep, OtherStep DEF ApplyStep
<1>2. ASSUME NEW r \in Numbers, Finalized(r) PROVE RefInv' BY <1>2, FinalizedStep
<1>3. CASE \/ \E r \in Numbers : \E v \in Copies(cos[r]) : BeginResolve(r, v)
           \/ BuildPhases
  BY <1>3, ResolveStep
<1>4. CASE WriteStatus(TRUE) \/ WriteStatus(FALSE) BY <1>4, StatusStep
<1>5. CASE \/ ApplyFails \/ AskForNext \/ CrashRefs \/ UNCHANGED refVars
           \/ \E n \in SecretNames : CollectSecret(n) \/ \E v \in Replacements : EditSecret(n, v)
  BY <1>5, OtherStep
<1> QED BY <1>1, <1>2, <1>3, <1>4, <1>5 DEF RefNext

-----------------------------------------------------------------------------
(* Migration (BoxcutterStorageMigrator.Migrate, ensureMigratedRevisionStatus) *)
(* comes before everything built on it: no revision after the one taken over *)
(* from Helm exists while that one is not marked Succeeded, whatever fails.  *)
THEOREM MigratedAlwaysFirst == RefSpec => []MigratedFirst
PROOF
<1>1. RefInit => RefInv BY InitRefInv
<1>2. RefInv /\ [RefNext]_refVars => RefInv' BY RefInvStep
<1>3. RefInv => MigratedFirst BY DEF RefInv
<1> QED BY <1>1, <1>2, <1>3, PTL DEF RefSpec

(* A digest recorded in a revision's status (verifyObservedPhases) is never *)
(* replaced, whatever users do to its Secrets and however old the copy of   *)
(* the revision is that a pass works from.                                  *)
THEOREM DigestsNeverReplaced == RefSpec => DigestsPinned
PROOF
<1> DEFINE Pinned == \A r \in Numbers : (cos[r].observed # "none" /\ cos'[r].uid = cos[r].uid)
                                          => cos'[r].observed = cos[r].observed
<1>1. RefInit => RefInv BY InitRefInv
<1>2. RefInv /\ [RefNext]_refVars => RefInv' BY RefInvStep
<1>3. ASSUME RefInv, [RefNext]_refVars PROVE Pinned
  <2>0. cos \in [Numbers -> COSStates] /\ nextUid \in Nat \ {0} /\ UidsUsed /\ 1 \in Numbers
    BY <1>3, IdleRefs DEF RefInv, RefTypes
  <2>1. ASSUME NEW n \in Numbers, NEW v, cos' = [cos EXCEPT ![n] = v],
               v.uid # cos[n].uid \/ v.observed = cos[n].observed
        PROVE  Pinned
    BY <2>0, <2>1
  <2>2. CASE Migrate
    <3>1. CASE UNCHANGED cos BY <3>1
    <3>2. CASE WriteCOS(1, NewCOS(nextUid, history[DeployedRelease].content, TRUE))
      <4> DEFINE v == NewCOS(nextUid, history[DeployedRelease].content, TRUE)
      <4>1. v.uid = nextUid BY DEF NewCOS, NoCOS
      <4>2. cos[1].uid # nextUid BY <2>0 DEF UidsUsed, COSStates
      <4>3. cos' = [cos EXCEPT ![1] = v] BY <3>2 DEF WriteCOS
      <4> HIDE DEF v
      <4> QED BY <2>0, <2>1, <4>1, <4>2, <4>3
    <3> QED BY <2>2, <3>1, <3>2 DEF Migrate
  <2>3. CASE ensureRevisionStatus
    <3> DEFINE v == IF cos[1].migrated THEN [cos[1] EXCEPT !.succeeded = TRUE] ELSE cos[1]
    <3>1. v.observed = cos[1].observed BY <2>0 DEF COSStates
    <3>2. cos' = [cos EXCEPT ![1] = v] BY <2>3 DEF ensureRevisionStatus, WriteCOS
    <3> HIDE DEF v
    <3> QED BY <2>0, <2>1, <3>1, <3>2
  <2>4. CASE ApplyChanged
    <3>1. \A r \in Numbers : cos'[r].observed = cos[r].observed
      BY <2>0, <2>4 DEF ApplyChanged, COSStates
    <3> QED BY <3>1
  <2>5. CASE CreateCOS
    <3> DEFINE v == NewCOS(nextUid, apply.content, FALSE)
    <3>1. v.uid = nextUid BY DEF NewCOS, NoCOS
    <3>2. apply.rev \in Numbers BY <1>3, <2>5 DEF RefInv, RefTypes, CreateCOS
    <3>3. cos[apply.rev].uid # nextUid BY <2>0, <3>2 DEF UidsUsed, COSStates
    <3>4. cos' = [cos EXCEPT ![apply.rev] = v] BY <2>5 DEF CreateCOS, WriteCOS
    <3> HIDE DEF v
    <3> QED BY <2>1, <3>1, <3>2, <3>3, <3>4
  <2>6. ASSUME NEW r \in Numbers, Finalized(r) PROVE Pinned
    <3>1. cos' = [cos EXCEPT ![r] = NoCOS] /\ cos[r].uid # 0 BY <2>6 DEF Finalized, Exists
    <3>2. NoCOS.uid = 0 BY DEF NoCOS
    <3> QED BY <2>1, <3>1, <3>2
  <2>7. CASE WriteStatus(TRUE) \/ WriteStatus(FALSE) BY <1>3, <2>7, StatusWritten
  <2>8. CASE UNCHANGED cos BY <2>8
  <2> QED BY <1>3, <2>2, <2>3, <2>4, <2>5, <2>6, <2>7, <2>8
       DEF RefNext, ApplyStep, ApplyUnchanged, CreateSecret, PatchOwner, EndApply, ApplyFails,
           BeginResolve, BuildPhases, CollectSecret, EditSecret, AskForNext, CrashRefs, refVars
<1>4. RefInv /\ [RefNext]_refVars => [Pinned]_refVars BY <1>3
<1> QED BY <1>1, <1>2, <1>4, PTL DEF RefSpec, DigestsPinned

-----------------------------------------------------------------------------
(* Packing, for any phases. Induction over data: the values of a recursive   *)
(* function exist as a table of any length, since a least length without one *)
(* cannot be (NatMin), and what holds of the values of one step holds of the *)
(* next.                                                                     *)

(* The recursive function of PackPhase exists: tables of its values do, of any length. *)
PhaseTable(t, acc, phases, i, n) ==
  t = [j \in 0..n |-> IF j = 0 THEN acc ELSE PackObject(t[j - 1], <<i, j>>, phases[i].objects[j])]

LEMMA PhaseTables ==
  ASSUME NEW acc, NEW phases, NEW i
  PROVE  \A n \in Nat : \E t : PhaseTable(t, acc, phases, i, n)
PROOF
<1> DEFINE Obj(j) == phases[i].objects[j]
           Bad == {n \in Nat : ~\E t : PhaseTable(t, acc, phases, i, n)}
<1>1. SUFFICES ASSUME Bad # {} PROVE FALSE OBVIOUS
<1>2. PICK m \in Bad : \A n \in Bad : m <= n
  <2> HIDE DEF Bad
  <2> QED BY <1>1, NatMin DEF Bad
<1>3. CASE m = 0
  <2> DEFINE t == [j \in 0..0 |-> acc]
  <2>1. PhaseTable(t, acc, phases, i, 0) BY DEF PhaseTable
  <2> QED BY <1>2, <1>3, <2>1
<1>4. CASE m # 0
  <2>1. m - 1 \in Nat /\ m - 1 \notin Bad BY <1>2, <1>4
  <2>2. PICK t : PhaseTable(t, acc, phases, i, m - 1) BY <2>1
  <2> DEFINE u == [j \in 0..m |-> IF j = m THEN PackObject(t[m - 1], <<i, m>>, Obj(m)) ELSE t[j]]
             v == [j \in 0..m |-> IF j = 0 THEN acc ELSE PackObject(u[j - 1], <<i, j>>, Obj(j))]
  <2>3. \A j \in 0..(m - 1) : t[j] = IF j = 0 THEN acc ELSE PackObject(t[j - 1], <<i, j>>, Obj(j))
    <3> DEFINE F(j) == IF j = 0 THEN acc ELSE PackObject(t[j - 1], <<i, j>>, Obj(j))
    <3>1. t = [j \in 0..(m - 1) |-> F(j)] BY <2>2 DEF PhaseTable
    <3> HIDE DEF F
    <3>2. \A j \in 0..(m - 1) : t[j] = F(j) BY <3>1
    <3> QED BY <3>2 DEF F
  <2>4. \A j \in 0..m : u[j] = v[j]
    <3> SUFFICES ASSUME NEW j \in 0..m PROVE u[j] = v[j] OBVIOUS
    <3>1. CASE j = 0
      <4>1. 0 \in 0..(m - 1) /\ 0 # m BY <1>4, <2>1
      <4>2. t[0] = acc BY <4>1, <2>3
      <4>3. u[0] = t[0] BY <4>1
      <4>4. v[0] = acc BY <4>1
      <4> QED BY <3>1, <4>2, <4>3, <4>4
    <3>2. CASE j = m BY <3>2, <1>4, <2>1
    <3>3. CASE j # 0 /\ j # m
      <4>1. j \in 0..(m - 1) /\ j - 1 \in 0..m /\ j - 1 # m BY <3>3, <2>1
      <4>2. u[j] = t[j] /\ u[j - 1] = t[j - 1] BY <4>1, <3>3
      <4> QED BY <4>1, <4>2, <3>3, <2>3
    <3> QED BY <3>1, <3>2, <3>3
  <2>5. u = v
    <3>1. DOMAIN u = 0..m /\ DOMAIN v = 0..m OBVIOUS
    <3> QED BY <2>4
  <2>6. PhaseTable(u, acc, phases, i, m) BY <2>5 DEF PhaseTable
  <2> HIDE DEF u
  <2> QED BY <1>2, <2>6
<1> QED BY <1>3, <1>4

LEMMA PackPhaseTable ==
  ASSUME NEW acc, NEW phases, NEW i, Len(phases[i].objects) \in Nat
  PROVE  \E t : /\ PhaseTable(t, acc, phases, i, Len(phases[i].objects))
                /\ PackPhase(acc, phases, i) = t[Len(phases[i].objects)]
PROOF
<1> DEFINE n == Len(phases[i].objects)
           f == CHOOSE t : PhaseTable(t, acc, phases, i, n)
<1>1. PhaseTable(f, acc, phases, i, n)
  <2>1. \E t : PhaseTable(t, acc, phases, i, n) BY PhaseTables
  <2> QED BY <2>1
<1>2. PackPhase(acc, phases, i) = f[n] BY Zenon DEF PackPhase, PhaseTable
<1> QED BY <1>1, <1>2

(* The size of a Secret: the values of the fold on the subsets of S. *)
AnyOf(s) == CHOOSE x \in s : TRUE
SizeTable(t, S) ==
  t = [s \in SUBSET S |-> IF s = {} THEN 0 ELSE t[s \ {AnyOf(s)}] + Stored(AnyOf(s))]

LEMMA SizeTables ==
  ASSUME NEW S, IsFiniteSet(S)
  PROVE  \E t : SizeTable(t, S)
<1> DEFINE Body(t, s) == IF s = {} THEN 0 ELSE t[s \ {AnyOf(s)}] + Stored(AnyOf(s))
           Upto(t, n) == /\ t = [s \in SUBSET S |-> t[s]]
                         /\ \A s \in SUBSET S : Cardinality(s) <= n => t[s] = Body(t, s)
           Bad == {n \in Nat : ~\E t : Upto(t, n)}
<1>1. \A s \in SUBSET S : /\ IsFiniteSet(s) /\ Cardinality(s) \in Nat
                          /\ Cardinality(s) <= Cardinality(S)
                          /\ Cardinality(s) = 0 <=> s = {}
  BY FS_Subset, FS_CardinalityType, FS_EmptySet
<1>2. ASSUME NEW s \in SUBSET S, s # {}
      PROVE  /\ AnyOf(s) \in s /\ s \ {AnyOf(s)} \in SUBSET S
             /\ Cardinality(s \ {AnyOf(s)}) = Cardinality(s) - 1
  <2>1. AnyOf(s) \in s
    BY <1>2 DEF AnyOf
  <2>2. QED
    BY <2>1, <1>1, FS_RemoveElement
<1>3. Bad = {}
  <2>1. SUFFICES ASSUME Bad # {} PROVE FALSE
    OBVIOUS
  <2>2. PICK m \in Bad : \A n \in Bad : m <= n
    <3> HIDE DEF Bad
    <3>1. Bad \in SUBSET Nat
      BY DEF Bad
    <3>2. QED
      BY <2>1, <3>1, NatMin
  <2>3. CASE m = 0
    <3> DEFINE t == [s \in SUBSET S |-> 0]
    <3>1. Upto(t, 0)
      BY <1>1
    <3>2. QED
      BY <3>1, <2>2, <2>3
  <2>4. CASE m # 0
    <3>1. m - 1 \in Nat /\ m - 1 \notin Bad /\ m \in Nat
      <4>1. m \in Nat
        OBVIOUS
      <4>2. m - 1 \in Nat /\ ~(m <= m - 1)
        BY <4>1, <2>4
      <4> HIDE DEF Bad
      <4>3. QED
        BY <4>1, <4>2, <2>2
    <3>2. PICK t : Upto(t, m - 1)
      BY <3>1
    <3> DEFINE u == [s \in SUBSET S |-> IF Cardinality(s) = m THEN Body(t, s) ELSE t[s]]
    <3>3. ASSUME NEW s \in SUBSET S, Cardinality(s) <= m
          PROVE  u[s] = Body(u, s)
      <4>1. u[s] = Body(t, s)
        <5>1. CASE Cardinality(s) = m
          BY <5>1
        <5>2. CASE Cardinality(s) # m
          <6>1. Cardinality(s) <= m - 1
            BY <5>2, <3>3, <3>1, <1>1
          <6>2. u[s] = t[s]
            BY <5>2
          <6>3. QED
            BY <6>1, <6>2, <3>2
        <5>3. QED
          BY <5>1, <5>2
      <4>2. CASE s = {}
        BY <4>1, <4>2
      <4>3. CASE s # {}
        <5>1. s \ {AnyOf(s)} \in SUBSET S /\ Cardinality(s \ {AnyOf(s)}) # m
          BY <4>3, <1>2, <1>1, <3>3, <3>1
        <5>2. u[s \ {AnyOf(s)}] = t[s \ {AnyOf(s)}]
          BY <5>1
        <5>3. Body(t, s) = t[s \ {AnyOf(s)}] + Stored(AnyOf(s))
          BY <4>3
        <5>4. Body(u, s) = u[s \ {AnyOf(s)}] + Stored(AnyOf(s))
          BY <4>3
        <5> HIDE DEF u, Body
        <5>5. QED
          BY <4>1, <5>2, <5>3, <5>4
      <4>4. QED
        BY <4>2, <4>3
    <3>4. u = [s \in SUBSET S |-> u[s]]
      OBVIOUS
    <3> HIDE DEF u, Body
    <3>5. Upto(u, m)
      BY <3>3, <3>4
    <3>6. QED
      BY <3>5, <2>2
  <2>5. QED
    BY <2>3, <2>4
<1>4. PICK t : Upto(t, Cardinality(S))
  BY <1>3, FS_CardinalityType
<1>5. \A s \in SUBSET S : t[s] = Body(t, s)
  BY <1>4, <1>1
<1>6. t = [s \in SUBSET S |-> Body(t, s)]
  <2> HIDE DEF Body
  <2>1. QED
    BY <1>4, <1>5
<1>7. QED
  BY <1>6 DEF SizeTable

LEMMA SizeOfTable ==
  ASSUME NEW S, IsFiniteSet(S)
  PROVE  \E t : SizeTable(t, S) /\ StoredSize(S) = t[S]
<1> DEFINE f == CHOOSE t : SizeTable(t, S)
<1>1. SizeTable(f, S)
  <2>1. \E t : SizeTable(t, S)
    BY SizeTables
  <2>2. QED
    BY <2>1
<1>2. StoredSize(S) = f[S]
  BY Zenon DEF StoredSize, FoldSet, MapThenFoldSet, SizeTable, AnyOf
<1>3. QED
  BY <1>1, <1>2

(* Adding an object adds its size, in whatever order the fold takes them. *)
LEMMA SizeTableAdds ==
  ASSUME NEW S, IsFiniteSet(S), \A o \in S : Stored(o) \in Nat, NEW t, SizeTable(t, S)
  PROVE  /\ \A s \in SUBSET S : t[s] \in Nat
         /\ \A s \in SUBSET S, x \in S : x \in s => t[s] = t[s \ {x}] + Stored(x)
<1> DEFINE Adds(s) == t[s] \in Nat /\ \A x \in s : t[s] = t[s \ {x}] + Stored(x)
           Bad == {n \in Nat : \E s \in SUBSET S : Cardinality(s) = n /\ ~Adds(s)}
<1>1. \A s \in SUBSET S : /\ IsFiniteSet(s) /\ Cardinality(s) \in Nat
                          /\ Cardinality(s) = 0 <=> s = {}
                          /\ \A x \in s : /\ s \ {x} \in SUBSET S
                                          /\ Cardinality(s \ {x}) = Cardinality(s) - 1
  BY FS_Subset, FS_CardinalityType, FS_EmptySet, FS_RemoveElement
<1>2. t[{}] = 0
  BY DEF SizeTable
<1>3. ASSUME NEW s \in SUBSET S, s # {}
      PROVE  AnyOf(s) \in s /\ t[s] = t[s \ {AnyOf(s)}] + Stored(AnyOf(s))
  <2>1. AnyOf(s) \in s
    BY <1>3 DEF AnyOf
  <2> DEFINE F(r) == IF r = {} THEN 0 ELSE t[r \ {AnyOf(r)}] + Stored(AnyOf(r))
  <2>2. t = [r \in SUBSET S |-> F(r)]
    BY DEF SizeTable
  <2>3. F(s) = t[s \ {AnyOf(s)}] + Stored(AnyOf(s))
    BY <1>3
  <2> HIDE DEF F
  <2>4. t[s] = F(s)
    BY <2>2
  <2>5. QED
    BY <2>1, <2>3, <2>4
<1>4. Bad = {}
  <2>1. SUFFICES ASSUME Bad # {} PROVE FALSE
    OBVIOUS
  <2>2. PICK m \in Bad : \A n \in Bad : m <= n
    <3>1. Bad \in SUBSET Nat
      OBVIOUS
    <3> HIDE DEF Bad
    <3>2. QED
      BY <2>1, <3>1, NatMin
  <2>3. m \in Nat
    OBVIOUS
  <2>4. PICK s \in SUBSET S : Cardinality(s) = m /\ ~Adds(s)
    OBVIOUS
  <2>5. \A r \in SUBSET S : Cardinality(r) < m => Adds(r)
    <3>1. SUFFICES ASSUME NEW r \in SUBSET S, Cardinality(r) < m, ~Adds(r) PROVE FALSE
      OBVIOUS
    <3>2. Cardinality(r) \in Nat
      BY <1>1
    <3>3. Cardinality(r) \in Bad
      BY <3>1, <3>2
    <3> HIDE DEF Bad, Adds
    <3>4. QED
      BY <3>1, <3>2, <3>3, <2>2, <2>3
  <2>6. s # {}
    BY <1>2, <2>4
  <2> DEFINE c == AnyOf(s)
  <2>7. c \in s /\ t[s] = t[s \ {c}] + Stored(c)
    BY <2>6, <1>3
  <2> HIDE DEF c
  <2>8. ASSUME NEW x \in s PROVE Adds(s \ {x})
    <3>1. s \ {x} \in SUBSET S /\ Cardinality(s \ {x}) = Cardinality(s) - 1
      BY <1>1
    <3> HIDE DEF Adds
    <3>2. QED
      BY <3>1, <2>5, <2>4, <2>3
  <2>9. t[s] \in Nat
    BY <2>7, <2>8
  <2>10. ASSUME NEW x \in s PROVE t[s] = t[s \ {x}] + Stored(x)
    <3>1. CASE x = c
      BY <3>1, <2>7
    <3>2. CASE x # c
      <4>1. t[s \ {c}] = t[(s \ {c}) \ {x}] + Stored(x)
        BY <2>7, <2>8, <3>2
      <4>2. t[s \ {x}] = t[(s \ {x}) \ {c}] + Stored(c)
        BY <2>7, <2>8, <3>2
      <4>3. (s \ {c}) \ {x} = (s \ {x}) \ {c}
        OBVIOUS
      <4>4. t[(s \ {c}) \ {x}] \in Nat
        <5>1. (s \ {c}) \ {x} \in SUBSET S /\ Cardinality((s \ {c}) \ {x}) = (Cardinality(s) - 1) - 1
          <6>1. s \ {c} \in SUBSET S /\ Cardinality(s \ {c}) = Cardinality(s) - 1 /\ x \in s \ {c}
            BY <1>1, <2>7, <3>2
          <6>2. QED
            BY <1>1, <6>1
        <5>2. Adds((s \ {c}) \ {x})
          <6> HIDE DEF Adds
          <6>1. QED
            BY <5>1, <2>5, <2>4, <2>3
        <5>3. QED
          BY <5>2
      <4>5. Stored(x) \in Nat /\ Stored(c) \in Nat
        BY <2>7
      <4> DEFINE a == t[(s \ {c}) \ {x}]
      <4>6. t[s] = (a + Stored(x)) + Stored(c) /\ t[s \ {x}] = a + Stored(c)
        BY <4>1, <4>2, <4>3, <2>7
      <4>7. a \in Nat
        BY <4>4
      <4> HIDE DEF a
      <4>8. QED
        BY <4>5, <4>6, <4>7
    <3>3. QED
      BY <3>1, <3>2
  <2>11. QED
    BY <2>4, <2>9, <2>10
<1>5. \A s \in SUBSET S : Adds(s)
  BY <1>4, <1>1
<1>6. QED
  BY <1>5

LEMMA SizeTablesAgree ==
  ASSUME NEW S, NEW T, IsFiniteSet(T), S \subseteq T, \A o \in T : Stored(o) \in Nat,
         NEW t, SizeTable(t, S), NEW u, SizeTable(u, T)
  PROVE  t[S] = u[S]
<1> DEFINE Bad == {n \in Nat : \E s \in SUBSET S : Cardinality(s) = n /\ t[s] # u[s]}
<1>0. IsFiniteSet(S)
  BY FS_Subset
<1>1. \A s \in SUBSET S : /\ IsFiniteSet(s) /\ Cardinality(s) \in Nat
                          /\ \A x \in s : /\ s \ {x} \in SUBSET S
                                          /\ Cardinality(s \ {x}) = Cardinality(s) - 1
  BY <1>0, FS_Subset, FS_CardinalityType, FS_RemoveElement
<1>2. t[{}] = 0 /\ u[{}] = 0
  BY DEF SizeTable
<1>3. Bad = {}
  <2>1. SUFFICES ASSUME Bad # {} PROVE FALSE
    OBVIOUS
  <2>2. PICK m \in Bad : \A n \in Bad : m <= n
    <3>1. Bad \in SUBSET Nat
      OBVIOUS
    <3> HIDE DEF Bad
    <3>2. QED
      BY <2>1, <3>1, NatMin
  <2>3. PICK s \in SUBSET S : Cardinality(s) = m /\ t[s] # u[s]
    OBVIOUS
  <2>4. PICK x : x \in s
    BY <1>2, <2>3
  <2>5. s \ {x} \in SUBSET S /\ Cardinality(s \ {x}) = m - 1 /\ m \in Nat /\ m - 1 \in Nat
    BY <1>1, <2>3, <2>4
  <2>6. t[s \ {x}] = u[s \ {x}]
    <3>1. m - 1 \notin Bad
      <4> HIDE DEF Bad
      <4>1. QED
        BY <2>2, <2>5
    <3>2. QED
      BY <3>1, <2>5
  <2>7. t[s] = t[s \ {x}] + Stored(x)
    BY <1>0, <2>4, SizeTableAdds
  <2>8. u[s] = u[s \ {x}] + Stored(x)
    BY <2>4, SizeTableAdds
  <2>9. QED
    BY <2>3, <2>6, <2>7, <2>8
<1>4. QED
  BY <1>3, <1>1

LEMMA StoredSizeEmpty == StoredSize({}) = 0
<1>1. PICK t : SizeTable(t, {}) /\ StoredSize({}) = t[{}]
  BY FS_EmptySet, SizeOfTable
<1>2. t[{}] = 0
  BY <1>1 DEF SizeTable
<1>3. QED
  BY <1>1, <1>2

LEMMA StoredSizeAdds ==
  ASSUME NEW S, IsFiniteSet(S), NEW x, x \notin S, \A o \in S \cup {x} : Stored(o) \in Nat
  PROVE  StoredSize(S) \in Nat /\ StoredSize(S \cup {x}) = StoredSize(S) + Stored(x)
<1> DEFINE T == S \cup {x}
<1>1. IsFiniteSet(T)
  BY FS_AddElement
<1>2. PICK t : SizeTable(t, S) /\ StoredSize(S) = t[S]
  BY SizeOfTable
<1>3. PICK u : SizeTable(u, T) /\ StoredSize(T) = u[T]
  BY <1>1, SizeOfTable
<1>4. t[S] = u[S]
  BY <1>1, <1>2, <1>3, SizeTablesAgree
<1>5. S \in SUBSET T /\ T \in SUBSET T /\ x \in T /\ T \ {x} = S
  OBVIOUS
<1>6. \A o \in T : Stored(o) \in Nat
  OBVIOUS
<1> HIDE DEF T
<1>7. u[T] = u[T \ {x}] + Stored(x) /\ u[S] \in Nat
  BY <1>1, <1>3, <1>5, <1>6, SizeTableAdds
<1>8. QED
  BY <1>2, <1>3, <1>4, <1>5, <1>7 DEF T

(* What is packed when the positions of done are: each has one reference, or *)
(* waits for one, with its object as the key.                                *)
At(phases, pos) == phases[pos[1]].objects[pos[2]]
Referenced(acc, phases, done) ==
  \A ref \in acc.refs : /\ ref.pos \in done /\ ref.key = At(phases, ref.pos) /\ ref.key \in ref.secret
                        /\ \E k \in 1..Len(acc.secrets) : ref.secret = acc.secrets[k]
Waiting(acc, phases, done) ==
  \A p \in acc.pending : p.pos \in done /\ p.key = At(phases, p.pos) /\ p.key \in acc.current
Once(acc, done) ==
  /\ \A pos \in done : (\E ref \in acc.refs : ref.pos = pos) \/ \E p \in acc.pending : p.pos = pos
  /\ \A r1, r2 \in acc.refs : r1.pos = r2.pos => r1 = r2
  /\ \A p1, p2 \in acc.pending : p1.pos = p2.pos => p1 = p2
  /\ \A ref \in acc.refs, p \in acc.pending : ref.pos # p.pos
PhaseObjects(phases) == UNION {{phases[i].objects[j] : j \in 1..Len(phases[i].objects)} : i \in 1..Len(phases)}
(* The size that is kept is that of the current Secret. Where every object   *)
(* fits into a Secret, this one and those finished are within the limit.     *)
SizesKnown(phases) == \A o \in PhaseObjects(phases) : Stored(o) \in Nat
Within(acc, phases) ==
  SizesKnown(phases) =>
    /\ IsFiniteSet(acc.current) /\ acc.size = StoredSize(acc.current) /\ acc.size \in Nat
    /\ (\A o \in PhaseObjects(phases) : Stored(o) <= maxSecretDataSize) =>
         /\ acc.size <= maxSecretDataSize
         /\ \A k \in 1..Len(acc.secrets) : StoredSize(acc.secrets[k]) <= maxSecretDataSize
PackSound(acc, phases, done) ==
  /\ acc = [secrets |-> acc.secrets, current |-> acc.current, size |-> acc.size,
            pending |-> acc.pending, refs |-> acc.refs]
  /\ acc.secrets \in Seq(SUBSET PhaseObjects(phases)) /\ acc.current \subseteq PhaseObjects(phases)
  /\ Referenced(acc, phases, done) /\ Waiting(acc, phases, done) /\ Once(acc, done)
  /\ Within(acc, phases)

LEMMA FinalizeSound ==
  ASSUME NEW phases, NEW done, NEW acc, PackSound(acc, phases, done)
  PROVE  /\ PackSound(finalizeCurrent(acc), phases, done)
         /\ finalizeCurrent(acc).pending = {}
PROOF
<1>1. CASE acc.current = {}
  <2>1. finalizeCurrent(acc) = acc BY <1>1 DEF finalizeCurrent
  <2>2. acc.pending = {} BY <1>1 DEF PackSound, Waiting
  <2> QED BY <2>1, <2>2
<1>2. CASE acc.current # {}
  <2> DEFINE new == [secrets |-> Append(acc.secrets, acc.current), current |-> {}, size |-> 0, pending |-> {},
        refs |-> acc.refs \cup {[pos |-> p.pos, secret |-> acc.current, key |-> p.key] : p \in acc.pending}]
  <2>1. finalizeCurrent(acc) = new BY <1>2 DEF finalizeCurrent
  <2>2. /\ new.secrets = Append(acc.secrets, acc.current) /\ new.current = {} /\ new.pending = {}
        /\ new.size = 0
        /\ new.refs = acc.refs \cup {[pos |-> p.pos, secret |-> acc.current, key |-> p.key] : p \in acc.pending}
        /\ new = [secrets |-> new.secrets, current |-> new.current, size |-> new.size,
                  pending |-> new.pending, refs |-> new.refs]
    OBVIOUS
  <2> HIDE DEF new
  <2> DEFINE S == SUBSET PhaseObjects(phases)
  <2>3. acc.secrets \in Seq(S) /\ acc.current \in S BY DEF PackSound
  <2>4. /\ new.secrets \in Seq(S) /\ Len(new.secrets) = Len(acc.secrets) + 1 /\ Len(acc.secrets) \in Nat
        /\ \A k \in 1..Len(acc.secrets) : new.secrets[k] = acc.secrets[k]
        /\ new.secrets[Len(acc.secrets) + 1] = acc.current
    <3> HIDE DEF S
    <3> QED BY <2>2, <2>3
  <2>5. ASSUME NEW ref \in new.refs
        PROVE  \/ ref \in acc.refs
               \/ \E p \in acc.pending : ref = [pos |-> p.pos, secret |-> acc.current, key |-> p.key]
    BY <2>2
  <2>6. Referenced(new, phases, done)
    <3> SUFFICES ASSUME NEW ref \in new.refs
                 PROVE /\ ref.pos \in done /\ ref.key = At(phases, ref.pos) /\ ref.key \in ref.secret
                       /\ \E k \in 1..Len(new.secrets) : ref.secret = new.secrets[k]
      BY DEF Referenced
    <3>1. CASE ref \in acc.refs
      <4>1. /\ ref.pos \in done /\ ref.key = At(phases, ref.pos) /\ ref.key \in ref.secret
            /\ \E k \in 1..Len(acc.secrets) : ref.secret = acc.secrets[k]
        BY <3>1 DEF PackSound, Referenced
      <4> QED BY <4>1, <2>4
    <3>2. ASSUME NEW p \in acc.pending, ref = [pos |-> p.pos, secret |-> acc.current, key |-> p.key]
          PROVE  /\ ref.pos \in done /\ ref.key = At(phases, ref.pos) /\ ref.key \in ref.secret
                 /\ \E k \in 1..Len(new.secrets) : ref.secret = new.secrets[k]
      <4>1. p.pos \in done /\ p.key = At(phases, p.pos) /\ p.key \in acc.current
        BY DEF PackSound, Waiting
      <4>2. ref.pos = p.pos /\ ref.secret = acc.current /\ ref.key = p.key BY <3>2
      <4>3. Len(acc.secrets) + 1 \in 1..Len(new.secrets) BY <2>4
      <4> QED BY <4>1, <4>2, <4>3, <2>4
    <3> QED BY <2>5, <3>1, <3>2
  <2>7. Waiting(new, phases, done) BY <2>2 DEF Waiting
  <2>8. Once(new, done)
    <3>1. Once(acc, done) BY DEF PackSound
    <3>2. \A pos \in done : \E ref \in new.refs : ref.pos = pos
      <4> SUFFICES ASSUME NEW pos \in done PROVE \E ref \in new.refs : ref.pos = pos OBVIOUS
      <4>1. CASE \E ref \in acc.refs : ref.pos = pos BY <4>1, <2>2
      <4>2. ASSUME NEW p \in acc.pending, p.pos = pos PROVE \E ref \in new.refs : ref.pos = pos
        <5> DEFINE ref == [pos |-> p.pos, secret |-> acc.current, key |-> p.key]
        <5>1. ref \in new.refs /\ ref.pos = pos BY <4>2, <2>2
        <5> QED BY <5>1
      <4> QED BY <3>1, <4>1, <4>2 DEF Once
    <3>3. ASSUME NEW r1 \in new.refs, NEW r2 \in new.refs, r1.pos = r2.pos PROVE r1 = r2
      <4>1. CASE r1 \in acc.refs /\ r2 \in acc.refs BY <4>1, <3>1, <3>3 DEF Once
      <4>2. ASSUME NEW p \in acc.pending, r1 = [pos |-> p.pos, secret |-> acc.current, key |-> p.key]
            PROVE  r1 = r2
        <5>1. r1.pos = p.pos BY <4>2
        <5>2. r2 \notin acc.refs BY <3>1, <3>3, <5>1 DEF Once
        <5>3. PICK q \in acc.pending : r2 = [pos |-> q.pos, secret |-> acc.current, key |-> q.key]
          BY <5>2, <2>5
        <5>4. p = q BY <3>1, <3>3, <5>1, <5>3 DEF Once
        <5> QED BY <4>2, <5>3, <5>4
      <4>3. ASSUME NEW p \in acc.pending, r2 = [pos |-> p.pos, secret |-> acc.current, key |-> p.key],
                   r1 \in acc.refs
            PROVE  r1 = r2
        <5>1. r2.pos = p.pos BY <4>3
        <5> QED BY <3>1, <3>3, <4>3, <5>1 DEF Once
      <4> QED BY <4>1, <4>2, <4>3, <2>5
    <3> QED BY <3>2, <3>3, <2>2 DEF Once
  <2>9. Within(new, phases)
    <3> SUFFICES ASSUME SizesKnown(phases)
                 PROVE  /\ IsFiniteSet(new.current) /\ new.size = StoredSize(new.current) /\ new.size \in Nat
                        /\ (\A o \in PhaseObjects(phases) : Stored(o) <= maxSecretDataSize) =>
                             /\ new.size <= maxSecretDataSize
                             /\ \A k \in 1..Len(new.secrets) : StoredSize(new.secrets[k]) <= maxSecretDataSize
      BY DEF Within
    <3>1. IsFiniteSet(new.current) /\ new.size = StoredSize(new.current) /\ new.size \in Nat
      BY <2>2, FS_EmptySet, StoredSizeEmpty
    <3>2. ASSUME \A o \in PhaseObjects(phases) : Stored(o) <= maxSecretDataSize
          PROVE  /\ new.size <= maxSecretDataSize
                 /\ \A k \in 1..Len(new.secrets) : StoredSize(new.secrets[k]) <= maxSecretDataSize
      <4>1. /\ StoredSize(acc.current) <= maxSecretDataSize
            /\ \A k \in 1..Len(acc.secrets) : StoredSize(acc.secrets[k]) <= maxSecretDataSize
        BY <3>2 DEF PackSound, Within
      <4>2. \A k \in 1..Len(new.secrets) : k \in 1..Len(acc.secrets) \/ k = Len(acc.secrets) + 1
        BY <2>4
      <4> QED BY <2>2, <2>4, <4>1, <4>2, PackSizes
    <3> QED BY <3>1, <3>2
  <2>10. PackSound(new, phases, done) BY <2>2, <2>3, <2>4, <2>6, <2>7, <2>8, <2>9 DEF PackSound
  <2> QED BY <2>1, <2>2, <2>10
<1> QED BY <1>1, <1>2

LEMMA PackObjectSound ==
  ASSUME NEW phases, NEW done, NEW acc, PackSound(acc, phases, done),
         NEW pos, pos \notin done, NEW o, o = At(phases, pos), o \in PhaseObjects(phases)
  PROVE  PackSound(PackObject(acc, pos, o), phases, done \cup {pos})
PROOF
<1> DEFINE at == IF o \in acc.current \/ Fits(acc, o) \/ acc.current = {} THEN acc
                 ELSE finalizeCurrent(acc)
           new == [at EXCEPT !.size = IF o \in at.current THEN @ ELSE @ + Stored(o),
                             !.current = @ \cup {o},
                             !.pending = @ \cup {[pos |-> pos, key |-> o]}]
<1>1. PackObject(acc, pos, o) = new BY DEF PackObject
<1>2. PackSound(at, phases, done) BY FinalizeSound
<1>2a. o \notin at.current => at.current = {} \/ Fits(at, o)
  <2>1. finalizeCurrent(acc).current = {} BY DEF finalizeCurrent
  <2> QED BY <2>1
<1> HIDE DEF at
<1>3. at = [secrets |-> at.secrets, current |-> at.current, size |-> at.size,
            pending |-> at.pending, refs |-> at.refs]
  BY <1>2 DEF PackSound
<1>4. /\ new = [secrets |-> new.secrets, current |-> new.current, size |-> new.size,
                pending |-> new.pending, refs |-> new.refs]
      /\ new.secrets = at.secrets /\ new.refs = at.refs /\ new.current = at.current \cup {o}
      /\ new.pending = at.pending \cup {[pos |-> pos, key |-> o]}
      /\ new.size = IF o \in at.current THEN at.size ELSE at.size + Stored(o)
  <2> DEFINE z == IF o \in at.current THEN at.size ELSE at.size + Stored(o)
             q == at.pending \cup {[pos |-> pos, key |-> o]}
             c == at.current \cup {o}
  <2>1. new = [at EXCEPT !.size = z, !.current = c, !.pending = q] OBVIOUS
  <2> HIDE DEF z, q, c, new
  <2>2. new = [secrets |-> at.secrets, current |-> c, size |-> z, pending |-> q, refs |-> at.refs]
    BY <1>3, <2>1
  <2> QED BY <2>2 DEF q, c, z
<1> HIDE DEF new
<1> DEFINE p0 == [pos |-> pos, key |-> o]
<1>5. p0.pos = pos /\ p0.key = o OBVIOUS
<1>6. new.pending = at.pending \cup {p0} BY <1>4
<1> HIDE DEF p0
<1>7. Referenced(new, phases, done \cup {pos}) BY <1>2, <1>4 DEF PackSound, Referenced
<1>8. Waiting(new, phases, done \cup {pos}) BY <1>2, <1>4, <1>5, <1>6 DEF PackSound, Waiting
<1>9. Once(new, done \cup {pos})
  <2>1. Once(at, done) /\ Referenced(at, phases, done) /\ Waiting(at, phases, done) BY <1>2 DEF PackSound
  <2>2. (\A ref \in at.refs : ref.pos # pos) /\ (\A p \in at.pending : p.pos # pos)
    BY <2>1 DEF Referenced, Waiting
  <2> QED BY <2>1, <2>2, <1>4, <1>5, <1>6 DEF Once
<1>10. Within(new, phases)
  <2> SUFFICES ASSUME SizesKnown(phases)
               PROVE  /\ IsFiniteSet(new.current) /\ new.size = StoredSize(new.current) /\ new.size \in Nat
                      /\ (\A x \in PhaseObjects(phases) : Stored(x) <= maxSecretDataSize) =>
                           /\ new.size <= maxSecretDataSize
                           /\ \A k \in 1..Len(new.secrets) : StoredSize(new.secrets[k]) <= maxSecretDataSize
    BY DEF Within
  <2>1. /\ IsFiniteSet(at.current) /\ at.size = StoredSize(at.current) /\ at.size \in Nat
        /\ Stored(o) \in Nat /\ \A x \in at.current \cup {o} : Stored(x) \in Nat
    BY <1>2 DEF PackSound, Within, SizesKnown
  <2>2. CASE o \in at.current
    <3>1. new.current = at.current /\ new.size = at.size BY <1>4, <2>2
    <3> QED BY <3>1, <2>1, <1>2, <1>4 DEF PackSound, Within
  <2>3. CASE o \notin at.current
    <3>1. IsFiniteSet(new.current) /\ StoredSize(new.current) = at.size + Stored(o)
      BY <2>1, <2>3, <1>4, FS_AddElement, StoredSizeAdds
    <3>2. new.size = at.size + Stored(o) BY <1>4, <2>3
    <3>3. ASSUME \A x \in PhaseObjects(phases) : Stored(x) <= maxSecretDataSize
          PROVE  new.size <= maxSecretDataSize
      <4>1. at.current = {} \/ Fits(at, o) BY <2>3, <1>2a
      <4>2. CASE at.current = {} BY <4>2, <2>1, <3>2, <3>3, StoredSizeEmpty
      <4>3. CASE Fits(at, o) BY <4>3, <3>2 DEF Fits
      <4> QED BY <4>1, <4>2, <4>3
    <3> QED BY <3>1, <3>2, <3>3, <2>1, <1>2, <1>4 DEF PackSound, Within
  <2> QED BY <2>2, <2>3
<1>11. PackSound(new, phases, done \cup {pos})
  BY <1>2, <1>4, <1>7, <1>8, <1>9, <1>10 DEF PackSound
<1> QED BY <1>1, <1>11

(* The positions of the phases before i, and the first j of phase i. *)
UpTo(phases, i, j) ==
  {pos \in (1..Len(phases)) \X Nat :
     /\ pos[2] \in 1..Len(phases[pos[1]].objects)
     /\ pos[1] < i \/ (pos[1] = i /\ pos[2] <= j)}

LEMMA PackPhaseSound ==
  ASSUME NEW phases, ArePhases(phases), NEW i \in 1..Len(phases),
         NEW acc, PackSound(acc, phases, UpTo(phases, i, 0))
  PROVE  PackSound(PackPhase(acc, phases, i), phases, UpTo(phases, i, Len(phases[i].objects)))
PROOF
<1> DEFINE len == Len(phases[i].objects)
<1>1. len \in Nat /\ Len(phases) \in Nat BY DEF ArePhases, IsSequence
<1>2. PICK t : PhaseTable(t, acc, phases, i, len) /\ PackPhase(acc, phases, i) = t[len]
  BY <1>1, PackPhaseTable
<1>3. \A j \in 0..len : t[j] = IF j = 0 THEN acc ELSE PackObject(t[j - 1], <<i, j>>, phases[i].objects[j])
  <2> DEFINE F(j) == IF j = 0 THEN acc ELSE PackObject(t[j - 1], <<i, j>>, phases[i].objects[j])
  <2>1. t = [j \in 0..len |-> F(j)] BY <1>2 DEF PhaseTable
  <2> HIDE DEF F, len
  <2>2. \A j \in 0..len : t[j] = F(j) BY <2>1
  <2> QED BY <2>2 DEF F
<1> DEFINE Bad == {j \in 0..len : ~PackSound(t[j], phases, UpTo(phases, i, j))}
<1>4. Bad = {}
  <2> SUFFICES ASSUME Bad # {} PROVE FALSE OBVIOUS
  <2>1. Bad \in SUBSET Nat BY <1>1
  <2>2. PICK m \in Bad : \A n \in Bad : m <= n
    <3> HIDE DEF Bad
    <3> QED BY <2>1, NatMin
  <2>3. CASE m = 0
    <3>0. 0 \in 0..len BY <1>1
    <3>1. t[0] = acc
      <4> HIDE DEF len, Bad
      <4> QED BY <3>0, <1>3
    <3> QED BY <2>2, <2>3, <3>1
  <2>4. CASE m # 0
    <3>1. m \in 1..len /\ m - 1 \in 0..len /\ m - 1 \notin Bad BY <1>1, <2>2, <2>4
    <3>2. PackSound(t[m - 1], phases, UpTo(phases, i, m - 1)) BY <3>1
    <3> DEFINE pos == <<i, m>>
               o == phases[i].objects[m]
    <3>3. pos \notin UpTo(phases, i, m - 1) BY <1>1, <3>1 DEF UpTo
    <3>4. UpTo(phases, i, m) = UpTo(phases, i, m - 1) \cup {pos}
      <4>1. \A a \in 1..Len(phases), b \in Nat :
              <<a, b>> \in UpTo(phases, i, m) <=> <<a, b>> \in UpTo(phases, i, m - 1) \/ <<a, b>> = pos
        BY <1>1, <3>1 DEF UpTo
      <4>2. UpTo(phases, i, m) \subseteq (1..Len(phases)) \X Nat
            /\ UpTo(phases, i, m - 1) \subseteq (1..Len(phases)) \X Nat /\ pos \in (1..Len(phases)) \X Nat
        BY <1>1, <3>1 DEF UpTo
      <4> HIDE DEF pos
      <4> QED BY <4>1, <4>2
    <3>5. o = At(phases, pos) BY DEF At
    <3>6. o \in PhaseObjects(phases) BY <3>1 DEF PhaseObjects
    <3>7. t[m] = PackObject(t[m - 1], pos, o) BY <1>3, <3>1, <2>4
    <3> HIDE DEF pos, o
    <3>8. PackSound(PackObject(t[m - 1], pos, o), phases, UpTo(phases, i, m - 1) \cup {pos})
      BY <3>2, <3>3, <3>5, <3>6, PackObjectSound
    <3> QED BY <2>2, <3>4, <3>7, <3>8
  <2> QED BY <2>3, <2>4
<1>5. len \in 0..len BY <1>1
<1> QED BY <1>2, <1>4, <1>5

(* The same for the phases. *)
PackTable(t, phases, n) ==
  t = [j \in 0..n |-> IF j = 0 THEN EmptyPack ELSE PackPhase(t[j - 1], phases, j)]

LEMMA PackTables ==
  ASSUME NEW phases
  PROVE  \A n \in Nat : \E t : PackTable(t, phases, n)
PROOF
<1> DEFINE Bad == {n \in Nat : ~\E t : PackTable(t, phases, n)}
<1>1. SUFFICES ASSUME Bad # {} PROVE FALSE OBVIOUS
<1>2. PICK m \in Bad : \A n \in Bad : m <= n
  <2> HIDE DEF Bad
  <2> QED BY <1>1, NatMin DEF Bad
<1>3. CASE m = 0
  <2> DEFINE t == [j \in 0..0 |-> EmptyPack]
  <2>1. PackTable(t, phases, 0) BY DEF PackTable
  <2> QED BY <1>2, <1>3, <2>1
<1>4. CASE m # 0
  <2>1. m - 1 \in Nat /\ m - 1 \notin Bad BY <1>2, <1>4
  <2>2. PICK t : PackTable(t, phases, m - 1) BY <2>1
  <2> DEFINE u == [j \in 0..m |-> IF j = m THEN PackPhase(t[m - 1], phases, m) ELSE t[j]]
             v == [j \in 0..m |-> IF j = 0 THEN EmptyPack ELSE PackPhase(u[j - 1], phases, j)]
  <2>3. \A j \in 0..(m - 1) : t[j] = IF j = 0 THEN EmptyPack ELSE PackPhase(t[j - 1], phases, j)
    <3> DEFINE F(j) == IF j = 0 THEN EmptyPack ELSE PackPhase(t[j - 1], phases, j)
    <3>1. t = [j \in 0..(m - 1) |-> F(j)] BY <2>2 DEF PackTable
    <3> HIDE DEF F
    <3>2. \A j \in 0..(m - 1) : t[j] = F(j) BY <3>1
    <3> QED BY <3>2 DEF F
  <2>4. \A j \in 0..m : u[j] = v[j]
    <3> SUFFICES ASSUME NEW j \in 0..m PROVE u[j] = v[j] OBVIOUS
    <3>1. CASE j = 0
      <4>1. 0 \in 0..(m - 1) /\ 0 # m BY <1>4, <2>1
      <4>2. t[0] = EmptyPack BY <4>1, <2>3
      <4>3. u[0] = t[0] BY <4>1
      <4>4. v[0] = EmptyPack BY <4>1
      <4> QED BY <3>1, <4>2, <4>3, <4>4
    <3>2. CASE j = m BY <3>2, <1>4, <2>1
    <3>3. CASE j # 0 /\ j # m
      <4>1. j \in 0..(m - 1) /\ j - 1 \in 0..m /\ j - 1 # m BY <3>3, <2>1
      <4>2. u[j] = t[j] /\ u[j - 1] = t[j - 1] BY <4>1, <3>3
      <4> QED BY <4>1, <4>2, <3>3, <2>3
    <3> QED BY <3>1, <3>2, <3>3
  <2>5. u = v
    <3>1. DOMAIN u = 0..m /\ DOMAIN v = 0..m OBVIOUS
    <3> QED BY <2>4
  <2>6. PackTable(u, phases, m) BY <2>5 DEF PackTable
  <2> HIDE DEF u
  <2> QED BY <1>2, <2>6
<1> QED BY <1>3, <1>4

(* Pack (secretpacker.go) loses and doubles nothing: for any phases its      *)
(* Secrets are a sequence and every object has exactly one reference, to a   *)
(* Secret of the result that holds it, wherever a new Secret is started.     *)
THEOREM PackCorrect ==
  ASSUME NEW phases, ArePhases(phases)
  PROVE  /\ PackRefsExact(phases)
         /\ SizesKnown(phases) => PackExact(phases)
         /\ Pack(phases).secrets \in Seq(SUBSET PhaseObjects(phases))
         /\ \A ref \in Pack(phases).refs :
              \E k \in 1..Len(Pack(phases).secrets) : ref.secret = Pack(phases).secrets[k]
PROOF
<1> DEFINE len == Len(phases)
           f == CHOOSE t : PackTable(t, phases, len)
           done == finalizeCurrent(f[len])
<1>1. len \in Nat /\ \A i \in 1..len : Len(phases[i].objects) \in Nat BY DEF ArePhases, IsSequence
<1>2. PackTable(f, phases, len)
  <2>1. \E t : PackTable(t, phases, len) BY <1>1, PackTables
  <2> QED BY <2>1
<1>3. Pack(phases) = [secrets |-> done.secrets, refs |-> done.refs] BY Zenon DEF Pack, PackTable
<1> HIDE DEF f
<1>4. \A i \in 0..len : f[i] = IF i = 0 THEN EmptyPack ELSE PackPhase(f[i - 1], phases, i)
  <2> DEFINE F(i) == IF i = 0 THEN EmptyPack ELSE PackPhase(f[i - 1], phases, i)
  <2>1. f = [i \in 0..len |-> F(i)] BY <1>2 DEF PackTable
  <2> HIDE DEF F, len
  <2>2. \A i \in 0..len : f[i] = F(i) BY <2>1
  <2> QED BY <2>2 DEF F
<1> DEFINE Bad == {i \in 0..len : ~PackSound(f[i], phases, UpTo(phases, i + 1, 0))}
<1>5. Bad = {}
  <2> SUFFICES ASSUME Bad # {} PROVE FALSE OBVIOUS
  <2>1. Bad \in SUBSET Nat BY <1>1
  <2>2. PICK m \in Bad : \A n \in Bad : m <= n
    <3> HIDE DEF Bad
    <3> QED BY <2>1, NatMin
  <2>3. CASE m = 0
    <3>1. f[0] = EmptyPack BY <1>1, <1>4
    <3>2. UpTo(phases, 1, 0) = {} BY <1>1 DEF UpTo
    <3>3. PackSound(EmptyPack, phases, {})
      <4>1. Within(EmptyPack, phases)
        BY FS_EmptySet, StoredSizeEmpty, PackSizes DEF EmptyPack, Within
      <4> QED BY <4>1 DEF PackSound, EmptyPack, Referenced, Waiting, Once
    <3>4. 0 + 1 = 1 OBVIOUS
    <3>5. PackSound(f[m], phases, UpTo(phases, m + 1, 0)) BY <2>3, <3>1, <3>2, <3>3, <3>4
    <3> QED BY <3>5
  <2>4. CASE m # 0
    <3>1. m \in 1..len /\ m - 1 \in 0..len /\ m - 1 \notin Bad /\ (m - 1) + 1 = m BY <1>1, <2>2, <2>4
    <3>2. PackSound(f[m - 1], phases, UpTo(phases, m, 0)) BY <3>1
    <3>3. PackSound(PackPhase(f[m - 1], phases, m), phases, UpTo(phases, m, Len(phases[m].objects)))
      BY <3>1, <3>2, PackPhaseSound
    <3>4. f[m] = PackPhase(f[m - 1], phases, m) BY <1>4, <3>1, <2>4
    <3>5. UpTo(phases, m, Len(phases[m].objects)) = UpTo(phases, m + 1, 0)
      BY <1>1, <3>1 DEF UpTo
    <3> QED BY <2>2, <3>3, <3>4, <3>5
  <2> QED BY <2>3, <2>4
<1>6. PackSound(f[len], phases, UpTo(phases, len + 1, 0)) BY <1>1, <1>5
<1>7. PackSound(done, phases, UpTo(phases, len + 1, 0)) /\ done.pending = {} BY <1>6, FinalizeSound
<1> HIDE DEF done
<1>8. Pack(phases).secrets = done.secrets /\ Pack(phases).refs = done.refs BY <1>3
<1>9. Pack(phases).secrets \in Seq(SUBSET PhaseObjects(phases)) BY <1>7, <1>8 DEF PackSound
<1>10. \A ref \in done.refs : \E k \in 1..Len(done.secrets) : ref.secret = done.secrets[k]
  BY <1>7 DEF PackSound, Referenced
<1>11. PackRefsExact(phases)
  <2> SUFFICES ASSUME NEW i \in DOMAIN phases, NEW j \in DOMAIN phases[i].objects
               PROVE  \E ref \in done.refs :
                        /\ {r \in done.refs : r.pos = <<i, j>>} = {ref}
                        /\ ref.key = phases[i].objects[j] /\ ref.key \in ref.secret
                        /\ ref.secret \in ToSet(done.secrets)
    BY <1>8 DEF PackRefsExact
  <2> DEFINE pos == <<i, j>>
  <2>1. pos \in UpTo(phases, len + 1, 0)
    <3>1. i \in 1..len /\ j \in 1..Len(phases[i].objects) BY DEF ArePhases, IsSequence
    <3> QED BY <3>1, <1>1 DEF UpTo
  <2>2. At(phases, pos) = phases[i].objects[j] BY DEF At
  <2> HIDE DEF pos
  <2>3. PICK ref \in done.refs : ref.pos = pos BY <1>7, <2>1 DEF PackSound, Once
  <2>4. \A r \in done.refs : r.pos = pos => r = ref BY <1>7, <2>3 DEF PackSound, Once
  <2>5. ref.key = At(phases, ref.pos) /\ ref.key \in ref.secret BY <1>7 DEF PackSound, Referenced
  <2>6. PICK k \in 1..Len(done.secrets) : ref.secret = done.secrets[k] BY <1>10
  <2>7. ref.secret \in ToSet(done.secrets)
    <3>1. DOMAIN done.secrets = 1..Len(done.secrets) BY <1>8, <1>9
    <3> QED BY <2>6, <3>1 DEF ToSet
  <2>8. {r \in done.refs : r.pos = pos} = {ref} BY <2>3, <2>4
  <2> QED BY <2>2, <2>3, <2>5, <2>7, <2>8 DEF pos
<1>12. SizesKnown(phases) => PackExact(phases)
  <2> SUFFICES ASSUME SizesKnown(phases), ~PackFails(phases), NEW k \in DOMAIN Pack(phases).secrets
               PROVE  StoredSize(Pack(phases).secrets[k]) <= maxSecretDataSize
    BY <1>11 DEF PackExact
  <2>1. ASSUME NEW o \in PhaseObjects(phases) PROVE Stored(o) <= maxSecretDataSize
    <3>1. PICK i \in 1..len : \E j \in 1..Len(phases[i].objects) : o = phases[i].objects[j]
      BY DEF PhaseObjects
    <3>2. PICK j \in 1..Len(phases[i].objects) : o = phases[i].objects[j] BY <3>1
    <3>3. i \in DOMAIN phases /\ j \in DOMAIN phases[i].objects BY DEF ArePhases, IsSequence
    <3>4. Stored(o) \in Nat BY DEF SizesKnown
    <3> QED BY <3>2, <3>3, <3>4, PackSizes DEF PackFails
  <2>2. k \in 1..Len(done.secrets) BY <1>8, <1>9
  <2> QED BY <1>7, <1>8, <2>1, <2>2 DEF PackSound, Within
<1> QED BY <1>8, <1>9, <1>10, <1>11, <1>12

-----------------------------------------------------------------------------
(* References resolve. The strengthening: numbers are never used again, since *)
(* the newest revision is neither archived nor deleted and every pass works   *)
(* on numbers up to it; Secrets of numbers not yet used have no owner, so the *)
(* garbage collector leaves them to the pass that creates them; the Secrets   *)
(* of a revision have no owner, or the revision among them.                   *)

SecretStates == [is : {"absent", "packed", "other"}, immutable : BOOLEAN, owners : SUBSET Nat]
Todos == [name : SecretNames, owners : SUBSET Nat]
Past(r) == \A s \in Numbers : Exists(s) => s < r

HeldTypes == secrets \in [SecretNames -> SecretStates] /\ asked \in DOMAIN BundleContents
LatestLive ==
  \A r \in Numbers : (cos[r].archived \/ cos[r].deleting) => \E s \in Numbers : s > r /\ Exists(s)
ResolveKnown == resolve.pc # "idle" => \E s \in Numbers : s >= resolve.rev /\ Exists(s)
ContentsKnown == \A r \in Numbers : Exists(r) /\ ~cos[r].inline => cos[r].content \in DOMAIN BundleContents
ApplyPlace ==
  /\ apply.pc = "create" => Past(apply.rev) /\ apply.content \in DOMAIN BundleContents
  /\ apply.pc = "own" => Exists(apply.rev) /\ \A s \in Numbers : Exists(s) => s <= apply.rev
  /\ apply.pc \in {"create", "own"} => \A j \in 1..Len(apply.todo) : apply.todo[j].name[1] = apply.rev
SecretsPlain == ~edited => \A n \in SecretNames : secrets[n].is \in {"absent", "packed"}
UnusedUnowned == ~edited => \A n \in SecretNames : Past(n[1]) => secrets[n].owners = {}
Prepared ==
  (apply.pc = "create" /\ ~edited) =>
    \A i \in 1..Len(Packed[apply.content].secrets) :
      \/ secrets[<<apply.rev, Packed[apply.content].secrets[i]>>].is = "packed"
      \/ \E j \in 1..Len(apply.todo) : apply.todo[j].name = <<apply.rev, Packed[apply.content].secrets[i]>>
RefsHeld ==
  ~edited => \A r \in Numbers : Exists(r) =>
    \A n \in RefsOf(r) : /\ secrets[n].is = "packed"
                         /\ secrets[n].owners = {} \/ cos[r].uid \in secrets[n].owners
ClusterPart ==
  /\ HeldTypes /\ LatestLive /\ ResolveKnown /\ ContentsKnown /\ SecretsPlain /\ UnusedUnowned /\ RefsHeld
ApplyPart == apply.todo \in Seq(Todos) /\ ApplyPlace /\ Prepared
HeldInv == RefInv /\ ClusterPart /\ ApplyPart

LEMMA PackedFacts ==
  ASSUME NEW k \in DOMAIN BundleContents
  PROVE  /\ \E T : Packed[k].secrets \in Seq(T)
         /\ \A ref \in Packed[k].refs : \E i \in 1..Len(Packed[k].secrets) : ref.secret = Packed[k].secrets[i]
         /\ \A r \in Numbers, i \in 1..Len(Packed[k].secrets) : <<r, Packed[k].secrets[i]>> \in SecretNames
PROOF
<1>1. Packed[k] = Pack(BundleContents[k]) BY DEF Packed
<1>2. ArePhases(BundleContents[k]) BY ContentsAssumption
<1> DEFINE T == SUBSET PhaseObjects(BundleContents[k])
           s == Packed[k].secrets
<1>3. /\ s \in Seq(T)
      /\ \A ref \in Packed[k].refs : \E i \in 1..Len(s) : ref.secret = s[i]
  BY <1>1, <1>2, PackCorrect
<1> HIDE DEF T
<1>4. \A i \in 1..Len(s) : s[i] \in ToSet(s) BY <1>3 DEF ToSet
<1>5. \A r \in Numbers, i \in 1..Len(s) : <<r, s[i]>> \in SecretNames
  BY <1>4 DEF SecretNames
<1> QED BY <1>3, <1>5

LEMMA RefNames ==
  ASSUME NEW r \in Numbers, NEW v, v.inline \/ v.content \in DOMAIN BundleContents
  PROVE  \A n \in References(r, v) : n \in SecretNames /\ n[1] = r
PROOF
<1>1. CASE v.inline = TRUE \/ References(r, v) = {} BY <1>1 DEF References
<1>2. CASE v.inline # TRUE /\ References(r, v) # {}
  <2> SUFFICES ASSUME NEW n \in References(r, v) PROVE n \in SecretNames /\ n[1] = r OBVIOUS
  <2>1. v.content \in DOMAIN BundleContents BY DEF References
  <2>2. PICK ref \in Packed[v.content].refs : n = <<r, ref.secret>> BY DEF References
  <2>3. PICK i \in 1..Len(Packed[v.content].secrets) : ref.secret = Packed[v.content].secrets[i]
    BY <2>1, PackedFacts
  <2>4. n = <<r, Packed[v.content].secrets[i]>> BY <2>2, <2>3
  <2> QED BY <2>1, <2>2, <2>4, PackedFacts
<1> QED BY <1>1, <1>2

LEMMA IdleParts == /\ NoCOS.uid = 0 /\ ~NoCOS.archived /\ ~NoCOS.deleting
                   /\ NoResolve.pc = "idle" /\ NoApply.pc = "idle" /\ NoApply.todo = <<>>
PROOF BY DEF NoCOS, NoResolve, NoApply

LEMMA InitHeldInv == ASSUME RefInit PROVE HeldInv
PROOF
<1>1. RefInv BY InitRefInv
<1>2. \A r \in Numbers : ~Exists(r) /\ ~cos[r].archived /\ ~cos[r].deleting
  BY IdleParts DEF RefInit, Exists
<1>3. HeldTypes
  <2>1. NoSecret \in SecretStates BY DEF NoSecret, SecretStates
  <2>2. 1 \in DOMAIN BundleContents BY ContentsAssumption DEF IsSequence
  <2> QED BY <2>1, <2>2 DEF RefInit, HeldTypes
<1>4. LatestLive /\ ResolveKnown /\ ContentsKnown /\ RefsHeld
  BY <1>2, IdleParts DEF RefInit, LatestLive, ResolveKnown, ContentsKnown, RefsHeld
<1>5. SecretsPlain /\ UnusedUnowned BY DEF RefInit, SecretsPlain, UnusedUnowned, NoSecret
<1>6. ApplyPart BY IdleParts DEF RefInit, ApplyPart, ApplyPlace, Prepared
<1> QED BY <1>1, <1>3, <1>4, <1>5, <1>6 DEF HeldInv, ClusterPart

(* Steps that leave what a COS is and refers to, or remove one that is not the newest. *)
Kept ==
  /\ cos' \in [Numbers -> COSStates]
  /\ \A r \in Numbers :
       \/ cos'[r] = NoCOS
       \/ cos'[r].uid = cos[r].uid /\ cos'[r].content = cos[r].content /\ cos'[r].inline = cos[r].inline
  /\ \A r \in Numbers : Exists(r) => \E s \in Numbers : s >= r /\ cos'[s].uid # 0

LEMMA KeptPast ==
  ASSUME RefInv, Kept
  PROVE  /\ \A r \in Numbers : Exists(r)' => Exists(r) /\ RefsOf(r)' = RefsOf(r)
         /\ \A r \in Int : Past(r)' <=> Past(r)
PROOF
<1>0. cos \in [Numbers -> COSStates] /\ Numbers \subseteq Int BY DEF RefInv, RefTypes, Numbers
<1>1. ASSUME NEW r \in Numbers, Exists(r)'
      PROVE  Exists(r) /\ cos'[r].content = cos[r].content /\ cos'[r].inline = cos[r].inline
  BY <1>1, IdleParts DEF Kept, Exists
<1>2. ASSUME NEW r \in Numbers, Exists(r)' PROVE RefsOf(r)' = RefsOf(r)
  BY <1>1, <1>2 DEF RefsOf, References
<1>3. ASSUME NEW r \in Int PROVE Past(r)' <=> Past(r)
  <2>1. Past(r) => Past(r)' BY <1>1 DEF Past, Numbers
  <2>2. ASSUME Past(r)', NEW s \in Numbers, Exists(s) PROVE s < r
    <3>1. PICK z \in Numbers : z >= s /\ cos'[z].uid # 0 BY <2>2 DEF Kept
    <3>2. z < r BY <3>1, <2>2 DEF Past, Exists, Numbers
    <3> QED BY <3>1, <3>2, <1>0
  <2> QED BY <2>1, <2>2 DEF Past
<1> QED BY <1>1, <1>2, <1>3

LEMMA KeptCluster ==
  ASSUME HeldInv, Kept, UNCHANGED <<secrets, edited>>, asked' \in DOMAIN BundleContents,
         LatestLive', ResolveKnown'
  PROVE  ClusterPart'
PROOF
<1>0. ClusterPart /\ RefInv BY DEF HeldInv
<1>1. HeldTypes' BY <1>0 DEF ClusterPart, HeldTypes, SecretNames
<1>2. ContentsKnown'
  <2>1. ASSUME NEW r \in Numbers, Exists(r)', ~cos'[r].inline
        PROVE  cos'[r].content \in DOMAIN BundleContents
    <3>1. Exists(r) BY <2>1, <1>0, KeptPast
    <3>2. cos'[r] # NoCOS BY <2>1, IdleParts DEF Exists
    <3> QED BY <2>1, <3>1, <3>2, <1>0 DEF Kept, ClusterPart, ContentsKnown
  <2> QED BY <2>1 DEF ContentsKnown, Numbers
<1>3. SecretsPlain' BY <1>0 DEF ClusterPart, SecretsPlain, SecretNames
<1>4. UnusedUnowned'
  <2>1. \A n \in SecretNames : n[1] \in Int BY DEF SecretNames, Numbers
  <2>2. \A n \in SecretNames : Past(n[1])' => Past(n[1]) BY <2>1, <1>0, KeptPast
  <2> QED BY <2>2, <1>0 DEF ClusterPart, UnusedUnowned, SecretNames
<1>5. RefsHeld'
  <2>1. ASSUME ~edited, NEW r \in Numbers, Exists(r)', NEW n \in RefsOf(r)'
        PROVE  /\ secrets'[n].is = "packed"
               /\ secrets'[n].owners = {} \/ cos'[r].uid \in secrets'[n].owners
    <3>1. Exists(r) /\ n \in RefsOf(r) BY <2>1, <1>0, KeptPast
    <3>2. cos'[r].uid = cos[r].uid BY <2>1, IdleParts DEF Exists, Kept
    <3> QED BY <2>1, <3>1, <3>2, <1>0 DEF ClusterPart, RefsHeld
  <2> QED BY <2>1 DEF RefsHeld, Numbers
<1> QED BY <1>1, <1>2, <1>3, <1>4, <1>5 DEF ClusterPart

(* The pass of the other controller is untouched. *)
LEMMA KeptApply ==
  ASSUME HeldInv, Kept, UNCHANGED <<apply, secrets, edited>>
  PROVE  ApplyPart'
PROOF
<1>0. ApplyPart /\ RefInv BY DEF HeldInv
<1>1. apply.pc = "create" => Past(apply.rev)'
  <2>1. apply.pc = "create" => apply.rev \in Int BY <1>0 DEF RefInv, RefTypes, Numbers
  <2> QED BY <2>1, <1>0, KeptPast DEF ApplyPart, ApplyPlace, Past
<1>2. apply.pc = "own" => cos'[apply.rev].uid # 0 /\ \A s \in Numbers : Exists(s)' => s <= apply.rev
  <2> SUFFICES ASSUME apply.pc = "own"
               PROVE  cos'[apply.rev].uid # 0 /\ \A s \in Numbers : Exists(s)' => s <= apply.rev
    OBVIOUS
  <2>1. apply.rev \in Numbers /\ Exists(apply.rev) /\ \A s \in Numbers : Exists(s) => s <= apply.rev
    BY <1>0 DEF RefInv, RefTypes, ApplyPart, ApplyPlace
  <2>2. \A s \in Numbers : Exists(s)' => s <= apply.rev BY <2>1, <1>0, KeptPast
  <2>3. PICK z \in Numbers : z >= apply.rev /\ cos'[z].uid # 0 BY <2>1 DEF Kept
  <2>4. z <= apply.rev BY <2>2, <2>3 DEF Exists
  <2>5. z = apply.rev BY <2>1, <2>3, <2>4 DEF Numbers
  <2> QED BY <2>2, <2>3, <2>5
<1>3. ApplyPlace'
  <2>1. apply.pc = "create" => apply.content \in DOMAIN BundleContents BY <1>0 DEF ApplyPart, ApplyPlace
  <2>2. apply.pc \in {"create", "own"} => \A j \in 1..Len(apply.todo) : apply.todo[j].name[1] = apply.rev
    BY <1>0 DEF ApplyPart, ApplyPlace
  <2> QED BY <1>1, <1>2, <2>1, <2>2 DEF ApplyPlace, Exists, Past, Numbers
<1>4. Prepared' BY <1>0 DEF ApplyPart, Prepared, Packed
<1> QED BY <1>0, <1>3, <1>4 DEF ApplyPart, Todos, SecretNames

(* The pass is over, or not yet at the Secrets. *)
LEMMA IdleApply ==
  ASSUME apply'.pc \notin {"create", "own"}, apply'.todo \in Seq(Todos)
  PROVE  ApplyPart'
PROOF BY DEF ApplyPart, ApplyPlace, Prepared

-----------------------------------------------------------------------------
LEMMA SameCOS == ASSUME RefInv, UNCHANGED cos PROVE Kept
PROOF
<1>1. cos \in [Numbers -> COSStates] /\ Numbers \subseteq Int BY DEF RefInv, RefTypes, Numbers
<1>2. \A r \in Numbers : Exists(r) => r >= r /\ cos'[r].uid # 0 BY <1>1 DEF Exists
<1> QED BY <1>1, <1>2 DEF Kept

(* Steps that write neither a COS nor a Secret and take no work on. *)
LEMMA QuietHeld ==
  ASSUME HeldInv, RefInv', UNCHANGED <<cos, secrets, edited>>, asked' \in DOMAIN BundleContents,
         apply' = apply \/ apply' = NoApply, ResolveKnown'
  PROVE  HeldInv'
PROOF
<1>1. Kept BY SameCOS DEF HeldInv
<1>2. LatestLive' BY DEF HeldInv, ClusterPart, LatestLive, Exists, Numbers
<1>3. ClusterPart' BY <1>1, <1>2, KeptCluster
<1>4. ApplyPart'
  <2>1. CASE apply' = apply BY <2>1, <1>1, KeptApply
  <2>2. CASE apply' = NoApply BY <2>2, IdleParts, IdleApply
  <2> QED BY <2>1, <2>2
<1> QED BY <1>3, <1>4 DEF HeldInv

LEMMA QuietSteps ==
  ASSUME HeldInv, RefInv',
         \/ EndApply \/ ApplyFails \/ AskForNext \/ CrashRefs \/ BuildPhases \/ UNCHANGED refVars
         \/ \E r \in Numbers : \E v \in Copies(cos[r]) : BeginResolve(r, v)
  PROVE  HeldInv'
PROOF
<1>0. asked \in DOMAIN BundleContents /\ ResolveKnown /\ resolve \in Resolves
  BY DEF HeldInv, ClusterPart, HeldTypes, RefInv, RefTypes
<1>1. UNCHANGED <<cos, secrets, edited>> /\ (apply' = apply \/ apply' = NoApply)
  BY DEF EndApply, ApplyFails, AskForNext, CrashRefs, BuildPhases, BeginResolve, refVars
<1>2. asked' \in DOMAIN BundleContents
  <2>1. CASE asked' = asked BY <2>1, <1>0
  <2>2. CASE AskForNext BY <2>2, <1>0, ContentsAssumption DEF AskForNext, IsSequence
  <2> QED BY <2>1, <2>2 DEF EndApply, ApplyFails, CrashRefs, BuildPhases, BeginResolve, refVars
<1>3. ResolveKnown'
  <2>1. CASE resolve' = resolve BY <2>1, <1>0, <1>1 DEF ResolveKnown, Exists, Numbers
  <2>2. CASE resolve' = NoResolve BY <2>2, IdleParts DEF ResolveKnown
  <2>3. CASE BuildPhases
    <3>1. resolve.pc = "build" /\ (resolve' = NoResolve \/ resolve'.rev = resolve.rev)
      <4>1. \/ resolve' = NoResolve
            \/ resolve' = [resolve EXCEPT !.pc = "status", !.digest = Digest]
        BY <2>3 DEF BuildPhases
      <4>2. ASSUME resolve' = [resolve EXCEPT !.pc = "status", !.digest = Digest]
            PROVE  resolve'.rev = resolve.rev
        BY <4>2, <1>0 DEF Resolves
      <4>3. resolve.pc = "build" BY <2>3 DEF BuildPhases
      <4> QED BY <4>1, <4>2, <4>3
    <3> QED BY <2>2, <3>1, <1>0, <1>1 DEF ResolveKnown, Exists, Numbers
  <2>4. ASSUME NEW r \in Numbers, NEW v \in Copies(cos[r]), BeginResolve(r, v) PROVE ResolveKnown'
    <3>1. Exists(r) /\ resolve' = [NoResolve EXCEPT !.pc = "build", !.rev = r, !.seen = v]
      BY <2>4 DEF BeginResolve
    <3>2. resolve'.rev = r BY <3>1 DEF NoResolve
    <3>3. r >= r BY DEF Numbers
    <3> QED BY <3>1, <3>2, <3>3, <1>1 DEF ResolveKnown, Exists, Numbers
  <2> QED BY <2>1, <2>2, <2>3, <2>4 DEF EndApply, ApplyFails, AskForNext, CrashRefs, refVars
<1> QED BY <1>1, <1>2, <1>3, QuietHeld

(* The newest revision is never removed: an older one that is goes quietly. *)
LEMMA FinalizedHeld == ASSUME HeldInv, RefInv', NEW n \in Numbers, Finalized(n) PROVE HeldInv'
PROOF
<1>0. /\ cos \in [Numbers -> COSStates] /\ Numbers \subseteq Int /\ LatestLive /\ ResolveKnown
      /\ asked \in DOMAIN BundleContents /\ NoCOS \in COSStates
  BY IdleRefs DEF HeldInv, RefInv, RefTypes, Numbers, ClusterPart, HeldTypes
<1>1. /\ cos' = [cos EXCEPT ![n] = NoCOS] /\ cos[n].deleting
      /\ UNCHANGED <<secrets, edited, asked, apply, resolve>>
  BY DEF Finalized
<1>2. PICK z \in Numbers : z > n /\ Exists(z) BY <1>0, <1>1 DEF LatestLive
<1>3. \A r \in Numbers : cos'[r] = IF r = n THEN NoCOS ELSE cos[r] BY <1>0, <1>1
<1>4. ASSUME NEW r \in Numbers, Exists(r) PROVE \E s \in Numbers : s >= r /\ cos'[s].uid # 0
  <2>1. CASE r = n
    <3>1. z >= r /\ cos'[z].uid # 0 BY <2>1, <1>2, <1>3, <1>0 DEF Exists
    <3> QED BY <3>1
  <2>2. CASE r # n
    <3>1. r >= r /\ cos'[r].uid # 0 BY <2>2, <1>4, <1>3, <1>0 DEF Exists
    <3> QED BY <3>1
  <2> QED BY <2>1, <2>2
<1>5. Kept
  <2>1. cos' \in [Numbers -> COSStates] BY <1>0, <1>1
  <2> QED BY <2>1, <1>3, <1>4 DEF Kept
<1>6. LatestLive'
  <2>1. ASSUME NEW r \in Numbers, cos'[r].archived \/ cos'[r].deleting
        PROVE  \E s \in Numbers : s > r /\ cos'[s].uid # 0
    <3>1. r # n /\ cos'[r] = cos[r] BY <2>1, <1>3, IdleParts
    <3>2. PICK y \in Numbers : y > r /\ Exists(y) BY <2>1, <3>1, <1>0 DEF LatestLive
    <3>3. PICK s \in Numbers : s >= y /\ cos'[s].uid # 0 BY <3>2, <1>4
    <3>4. s > r BY <3>2, <3>3, <1>0
    <3> QED BY <3>3, <3>4
  <2> QED BY <2>1 DEF LatestLive, Exists, Numbers
<1>7. ResolveKnown'
  <2>1. ASSUME resolve.pc # "idle" PROVE \E s \in Numbers : s >= resolve.rev /\ cos'[s].uid # 0
    <3>1. resolve.rev \in Numbers BY <2>1 DEF HeldInv, RefInv, RefTypes
    <3>2. PICK y \in Numbers : y >= resolve.rev /\ Exists(y) BY <2>1, <1>0 DEF ResolveKnown
    <3>3. PICK s \in Numbers : s >= y /\ cos'[s].uid # 0 BY <3>2, <1>4
    <3>4. s >= resolve.rev
      <4>1. resolve.rev \in Int /\ y \in Int /\ s \in Int BY <3>1, <1>0
      <4>2. \A a, b, c \in Int : a >= b /\ b >= c => a >= c OBVIOUS
      <4> QED BY <4>1, <4>2, <3>2, <3>3
    <3> QED BY <3>3, <3>4
  <2> QED BY <2>1, <1>1 DEF ResolveKnown, Exists, Numbers
<1>8. ClusterPart' BY <1>0, <1>1, <1>5, <1>6, <1>7, KeptCluster
<1>9. ApplyPart' BY <1>1, <1>5, KeptApply
<1> QED BY <1>8, <1>9 DEF HeldInv

(* Steps that only mark COSs: those that get archived or deleted have a newer one. *)
LEMMA MarkedHeld ==
  ASSUME HeldInv, cos' \in [Numbers -> COSStates],
         \A r \in Numbers :
           /\ cos'[r].uid = cos[r].uid /\ cos'[r].content = cos[r].content /\ cos'[r].inline = cos[r].inline
           /\ \/ (cos'[r].archived \/ cos'[r].deleting) => cos[r].archived \/ cos[r].deleting
              \/ \E s \in Numbers : s > r /\ Exists(s),
         UNCHANGED <<secrets, edited, asked>>, resolve' = resolve \/ resolve' = NoResolve
  PROVE  Kept /\ ClusterPart'
PROOF
<1>0. Numbers \subseteq Int /\ LatestLive /\ ResolveKnown /\ asked \in DOMAIN BundleContents
  BY DEF HeldInv, Numbers, ClusterPart, HeldTypes
<1>1. \A r \in Numbers : Exists(r)' <=> Exists(r) BY DEF Exists
<1>2. Kept
  <2>1. \A r \in Numbers : Exists(r) => r >= r /\ cos'[r].uid # 0 BY <1>0 DEF Exists
  <2> QED BY <2>1 DEF Kept
<1>3. LatestLive'
  <2>1. ASSUME NEW r \in Numbers, cos'[r].archived \/ cos'[r].deleting
        PROVE  \E s \in Numbers : s > r /\ Exists(s)'
    <3>1. \E s \in Numbers : s > r /\ Exists(s) BY <2>1, <1>0 DEF LatestLive
    <3> QED BY <3>1, <1>1
  <2> QED BY <2>1 DEF LatestLive, Numbers
<1>4. ResolveKnown'
  <2>1. CASE resolve' = resolve
    <3>1. resolve.pc # "idle" => \E s \in Numbers : s >= resolve.rev /\ Exists(s)'
      BY <1>0, <1>1 DEF ResolveKnown
    <3> QED BY <2>1, <3>1 DEF ResolveKnown, Numbers
  <2>2. CASE resolve' = NoResolve BY <2>2, IdleParts DEF ResolveKnown
  <2> QED BY <2>1, <2>2
<1> QED BY <1>0, <1>2, <1>3, <1>4, KeptCluster

LEMMA StatusHeld ==
  ASSUME HeldInv, RefInv', NEW complete \in BOOLEAN, WriteStatus(complete) PROVE HeldInv'
PROOF
<1> DEFINE r == resolve.rev
           done == [r2 \in Numbers |-> IF complete /\ r2 < r /\ Exists(r2)
                                       THEN [cos[r2] EXCEPT !.archived = TRUE] ELSE cos[r2]]
<1>0. /\ cos \in [Numbers -> COSStates] /\ resolve \in Resolves /\ resolve.pc = "status"
      /\ r \in Numbers /\ Numbers \subseteq Int /\ ResolveKnown
  BY DEF HeldInv, ClusterPart, RefInv, RefTypes, WriteStatus, Numbers
<1>1. /\ UNCHANGED <<secrets, edited, asked, apply>> /\ resolve' = NoResolve
      /\ cos' = IF ~Current THEN done
                ELSE [done EXCEPT ![r].observed = resolve.digest, ![r].succeeded = @ \/ complete]
  BY DEF WriteStatus
<1>2. PICK z \in Numbers : z >= r /\ Exists(z) BY <1>0 DEF ResolveKnown
<1>3. ASSUME NEW q \in Numbers
      PROVE  /\ done[q] \in COSStates
             /\ done[q].uid = cos[q].uid /\ done[q].content = cos[q].content /\ done[q].inline = cos[q].inline
             /\ done[q].deleting = cos[q].deleting /\ (done[q].archived = cos[q].archived \/ q < r)
  <2>1. cos[q] \in COSStates BY <1>0
  <2>2. CASE complete /\ q < r /\ Exists(q)
    <3>1. done[q] = [cos[q] EXCEPT !.archived = TRUE] BY <2>2
    <3> QED BY <2>1, <2>2, <3>1 DEF COSStates
  <2>3. CASE ~(complete /\ q < r /\ Exists(q))
    <3>1. done[q] = cos[q] BY <2>3
    <3> QED BY <2>1, <3>1
  <2> QED BY <2>2, <2>3
<1>4. DOMAIN done = Numbers OBVIOUS
<1> HIDE DEF done
<1>5. ASSUME NEW q \in Numbers
      PROVE  /\ cos'[q] \in COSStates
             /\ cos'[q].uid = cos[q].uid /\ cos'[q].content = cos[q].content /\ cos'[q].inline = cos[q].inline
             /\ cos'[q].deleting = cos[q].deleting /\ (cos'[q].archived = cos[q].archived \/ q < r)
  <2>1. CASE cos'[q] = done[q] BY <2>1, <1>3
  <2>2. CASE q = r /\ cos'[q] = [done[q] EXCEPT !.observed = resolve.digest, !.succeeded = @ \/ complete]
    <3>1. resolve.digest \in Digests BY <1>0 DEF Resolves
    <3> QED BY <2>2, <3>1, <1>3, ZenonT(40) DEF COSStates
  <2>3. cos'[q] = done[q] \/ (q = r /\ cos'[q] = [done[q] EXCEPT !.observed = resolve.digest, !.succeeded = @ \/ complete])
    <3>1. CASE ~Current BY <3>1, <1>1
    <3>2. CASE Current
      <4>1. cos' = [done EXCEPT ![r].observed = resolve.digest, ![r].succeeded = @ \/ complete] BY <3>2, <1>1
      <4>2. cos' = [done EXCEPT ![r] = [done[r] EXCEPT !.observed = resolve.digest, !.succeeded = @ \/ complete]]
        BY <4>1, Zenon
      <4> QED BY <4>2, <1>4, <1>0
    <3> QED BY <3>1, <3>2
  <2> QED BY <2>1, <2>2, <2>3
<1>6. DOMAIN cos' = Numbers BY <1>1, <1>4
<1>7. cos' \in [Numbers -> COSStates] BY <1>5, RefInv' DEF RefInv, RefTypes, Numbers
<1>8. \A q \in Numbers :
        \/ (cos'[q].archived \/ cos'[q].deleting) => cos[q].archived \/ cos[q].deleting
        \/ \E s \in Numbers : s > q /\ Exists(s)
  <2> TAKE q \in Numbers
  <2>1. CASE q < r
    <3>1. z > q
      <4>1. r \in Int /\ z \in Int /\ q \in Int BY <1>0
      <4>2. \A a, b, c \in Int : a >= b /\ c < b => a > c OBVIOUS
      <4> HIDE DEF r
      <4> QED BY <4>1, <4>2, <2>1, <1>2
    <3> QED BY <3>1, <1>2
  <2>2. CASE ~(q < r) BY <2>2, <1>5
  <2> QED BY <2>1, <2>2
<1>9. Kept /\ ClusterPart' BY <1>1, <1>5, <1>7, <1>8, MarkedHeld
<1>10. ApplyPart' BY <1>1, <1>9, KeptApply
<1> QED BY <1>9, <1>10 DEF HeldInv

LEMMA MarkHeld == ASSUME HeldInv, RefInv', ensureRevisionStatus PROVE HeldInv'
PROOF
<1> DEFINE v == IF cos[1].migrated THEN [cos[1] EXCEPT !.succeeded = TRUE] ELSE cos[1]
<1>0. cos \in [Numbers -> COSStates] /\ 1 \in Numbers /\ apply.todo \in Seq(Todos)
      /\ apply = [pc |-> apply.pc, rev |-> apply.rev, content |-> apply.content, todo |-> apply.todo]
  BY IdleRefs DEF HeldInv, RefInv, RefTypes, ApplyPart
<1>1. /\ cos' = [cos EXCEPT ![1] = v] /\ UNCHANGED <<secrets, edited, asked, resolve>>
      /\ apply' = [apply EXCEPT !.pc = "apply"] \/ apply' = NoApply
  BY DEF ensureRevisionStatus, WriteCOS
<1>2. /\ v \in COSStates /\ v.uid = cos[1].uid /\ v.content = cos[1].content /\ v.inline = cos[1].inline
      /\ v.archived = cos[1].archived /\ v.deleting = cos[1].deleting
  <2>1. cos[1] \in COSStates BY <1>0
  <2>2. CASE cos[1].migrated BY <2>1, <2>2 DEF COSStates
  <2>3. CASE ~cos[1].migrated BY <2>1, <2>3
  <2> QED BY <2>2, <2>3
<1> HIDE DEF v
<1>3. Kept /\ ClusterPart' BY <1>0, <1>1, <1>2, MarkedHeld
<1>4. apply'.pc \notin {"create", "own"} /\ apply'.todo \in Seq(Todos)
  <2>1. CASE apply' = [apply EXCEPT !.pc = "apply"]
    <3>1. apply'.pc = "apply" /\ apply'.todo = apply.todo BY <1>0, <2>1
    <3> QED BY <1>0, <3>1
  <2>2. CASE apply' = NoApply BY <2>2, IdleParts
  <2> QED BY <1>1, <2>1, <2>2
<1> QED BY <1>3, <1>4, IdleApply DEF HeldInv

(* Old revisions are collected; a new one is prepared from nothing. *)
LEMMA ApplyChangedHeld == ASSUME HeldInv, RefInv', ApplyChanged PROVE HeldInv'
PROOF
<1>0. cos \in [Numbers -> COSStates] /\ LatestLive /\ asked \in DOMAIN BundleContents
  BY DEF HeldInv, RefInv, RefTypes, ClusterPart, HeldTypes
<1>1. /\ cos' = [r \in Numbers |-> IF r \in Collected THEN [cos[r] EXCEPT !.deleting = TRUE] ELSE cos[r]]
      /\ UNCHANGED <<secrets, edited, asked, resolve>> /\ Latest < MaxRevs
      /\ \/ apply' = NoApply
         \/ apply' = [pc |-> "create", rev |-> Latest + 1, content |-> asked, todo |-> SecretsOf(Latest + 1, asked)]
  BY DEF ApplyChanged
<1>2. \A r \in Collected : r \in Numbers /\ cos[r].archived BY DEF Collected
<1>3. ASSUME NEW r \in Numbers
      PROVE  /\ cos'[r] \in COSStates
             /\ cos'[r].uid = cos[r].uid /\ cos'[r].content = cos[r].content /\ cos'[r].inline = cos[r].inline
             /\ (cos'[r].archived \/ cos'[r].deleting) => cos[r].archived \/ cos[r].deleting
  <2>1. cos[r] \in COSStates BY <1>0
  <2>2. CASE r \in Collected
    <3>1. cos'[r] = [cos[r] EXCEPT !.deleting = TRUE] BY <2>2, <1>1
    <3> QED BY <2>1, <2>2, <3>1, <1>2 DEF COSStates
  <2>3. CASE r \notin Collected
    <3>1. cos'[r] = cos[r] BY <2>3, <1>1
    <3> QED BY <2>1, <3>1
  <2> QED BY <2>2, <2>3
<1>4. cos' \in [Numbers -> COSStates] BY <1>3, RefInv' DEF RefInv, RefTypes, Numbers
<1>5. Kept /\ ClusterPart' BY <1>1, <1>3, <1>4, MarkedHeld
<1>6. ApplyPart'
  <2>1. CASE apply' = NoApply BY <2>1, IdleParts, IdleApply
  <2>2. CASE apply' = [pc |-> "create", rev |-> Latest + 1, content |-> asked, todo |-> SecretsOf(Latest + 1, asked)]
    <3>0. PICK r : r = Latest + 1 OBVIOUS
    <3>1. r \in Numbers /\ \A s \in Numbers : Exists(s) => s < r
      <4>1. Latest \in 0..MaxRevs /\ \A s \in Numbers : Exists(s) => s <= Latest BY <1>0, LatestRange
      <4> QED BY <4>1, <3>0, <1>1, RefBounds DEF Numbers
    <3>2. \A s \in Numbers : Exists(s)' => s < r BY <3>1, <1>3 DEF Exists
    <3> DEFINE names == Packed[asked].secrets
               todo == SecretsOf(r, asked)
    <3>3. PICK T : names \in Seq(T) BY <1>0, PackedFacts
    <3>4. \A i \in 1..Len(names) : <<r, names[i]>> \in SecretNames BY <1>0, <3>1, PackedFacts
    <3>5. todo = [i \in 1..Len(names) |-> [name |-> <<r, names[i]>>, owners |-> {}]]
      BY <3>3 DEF SecretsOf
    <3> DEFINE k == Len(names)
    <3>6. k \in Nat BY <3>3
    <3> HIDE DEF names, todo, k
    <3>7. \A i \in 1..k : [name |-> <<r, names[i]>>, owners |-> {}] \in Todos BY <3>4 DEF Todos, k
    <3>8. todo \in Seq(Todos) /\ Len(todo) = k /\ \A i \in 1..k : todo[i].name = <<r, names[i]>>
      BY <3>5, <3>6, <3>7 DEF k
    <3>9. apply'.pc = "create" /\ apply'.rev = r /\ apply'.content = asked /\ apply'.todo = todo
      BY <2>2, <3>0 DEF todo
    <3>10. ApplyPlace'
      <4>1. \A i \in 1..Len(apply'.todo) : apply'.todo[i].name[1] = apply'.rev BY <3>8, <3>9
      <4>2. \A s \in Numbers : Exists(s)' => s < apply'.rev BY <3>2, <3>9
      <4> QED BY <4>1, <4>2, <3>9, <1>0 DEF ApplyPlace, Past, Numbers
    <3>11. Prepared'
      <4>1. Packed[apply'.content].secrets = names BY <3>9 DEF names
      <4>2. \A i \in 1..Len(names) : \E j \in 1..Len(apply'.todo) : apply'.todo[j].name = <<apply'.rev, names[i]>>
        BY <3>8, <3>9 DEF k
      <4> QED BY <4>1, <4>2 DEF Prepared, Packed
    <3> QED BY <3>8, <3>9, <3>10, <3>11 DEF ApplyPart, Todos, SecretNames
  <2> QED BY <1>1, <2>1, <2>2
<1> QED BY <1>5, <1>6 DEF HeldInv

-----------------------------------------------------------------------------
(* A Secret is created unowned; one more is ready. *)
LEMMA CreateSecretHeld == ASSUME HeldInv, RefInv', CreateSecret PROVE HeldInv'
PROOF
<1> DEFINE todo == apply.todo
<1>0. /\ cos \in [Numbers -> COSStates] /\ secrets \in [SecretNames -> SecretStates] /\ todo \in Seq(Todos)
      /\ apply = [pc |-> apply.pc, rev |-> apply.rev, content |-> apply.content, todo |-> apply.todo]
      /\ apply.pc = "create" /\ todo # <<>> /\ ClusterPart /\ ApplyPart /\ RefInv
  BY DEF HeldInv, RefInv, RefTypes, ClusterPart, HeldTypes, ApplyPart, CreateSecret
<1>1. PICK n : n = Head(todo).name OBVIOUS
<1>2. /\ secrets' = IF secrets[n].is = "absent" THEN [secrets EXCEPT ![n] = NewSecret] ELSE secrets
      /\ apply' = [apply EXCEPT !.todo = Tail(@)] /\ UNCHANGED <<cos, edited, asked, resolve>>
  BY <1>1 DEF CreateSecret
<1>3. /\ Len(todo) \in Nat \ {0} /\ Len(Tail(todo)) = Len(todo) - 1 /\ Tail(todo) \in Seq(Todos)
      /\ \A j \in 1..Len(Tail(todo)) : Tail(todo)[j] = todo[j + 1]
      /\ Head(todo) = todo[1] /\ todo[1] \in Todos
  <2> HIDE DEF todo
  <2> QED BY <1>0
<1>4. n \in SecretNames /\ n = todo[1].name BY <1>1, <1>3 DEF Todos
<1>5. /\ apply'.pc = "create" /\ apply'.rev = apply.rev /\ apply'.content = apply.content
      /\ apply'.todo = Tail(todo)
  BY <1>0, <1>2
<1>6. NewSecret \in SecretStates /\ NewSecret.is = "packed" /\ NewSecret.owners = {}
  BY DEF NewSecret, SecretStates
<1>7. ASSUME NEW m \in SecretNames
      PROVE  \/ secrets'[m] = secrets[m] /\ (m = n => secrets[m].is # "absent")
             \/ m = n /\ secrets[m].is = "absent" /\ secrets'[m] = NewSecret
  BY <1>0, <1>2, <1>4
<1>8. HeldTypes'
  <2>1. secrets' \in [SecretNames -> SecretStates] BY <1>0, <1>2, <1>6
  <2> QED BY <2>1, <1>0, <1>2 DEF ClusterPart, HeldTypes, SecretNames
<1>9. LatestLive' /\ ResolveKnown' /\ ContentsKnown'
  BY <1>0, <1>2 DEF ClusterPart, LatestLive, ResolveKnown, ContentsKnown, Exists, Numbers
<1>10. SecretsPlain' BY <1>0, <1>2, <1>6, <1>7 DEF ClusterPart, SecretsPlain, SecretNames
<1>11. UnusedUnowned'
  <2>1. \A r : Past(r)' = Past(r) BY <1>2 DEF Past, Exists
  <2>2. ASSUME ~edited, NEW m \in SecretNames, Past(m[1]) PROVE secrets'[m].owners = {}
    BY <2>2, <1>0, <1>6, <1>7 DEF ClusterPart, UnusedUnowned
  <2> QED BY <2>1, <2>2, <1>2 DEF UnusedUnowned, SecretNames
<1>12. RefsHeld'
  <2>1. ASSUME ~edited, NEW r \in Numbers, Exists(r), NEW m \in RefsOf(r)
        PROVE  /\ secrets'[m].is = "packed"
               /\ secrets'[m].owners = {} \/ cos[r].uid \in secrets'[m].owners
    <3>1. m \in SecretNames BY <2>1, <1>0, RefNames DEF ClusterPart, ContentsKnown, RefsOf
    <3>2. /\ secrets[m].is = "packed"
          /\ secrets[m].owners = {} \/ cos[r].uid \in secrets[m].owners
      BY <2>1, <1>0 DEF ClusterPart, RefsHeld
    <3>3. secrets'[m] = secrets[m] BY <3>1, <3>2, <1>7
    <3> QED BY <3>2, <3>3
  <2> QED BY <2>1, <1>2 DEF RefsHeld, Exists, RefsOf, References, Numbers, Packed
<1>13. ApplyPlace'
  <2>1. \A j \in 1..Len(apply'.todo) : apply'.todo[j].name[1] = apply'.rev
    <3>1. \A j \in 1..Len(todo) : todo[j].name[1] = apply.rev BY <1>0 DEF ApplyPart, ApplyPlace
    <3>2. \A j \in 1..Len(Tail(todo)) : j + 1 \in 1..Len(todo) BY <1>3
    <3> QED BY <3>1, <3>2, <1>3, <1>5
  <2>2. (\A s \in Numbers : Exists(s)' => s < apply'.rev) /\ apply'.content \in DOMAIN BundleContents
    BY <1>0, <1>2, <1>5 DEF ApplyPart, ApplyPlace, Past, Exists
  <2> QED BY <2>1, <2>2, <1>5 DEF ApplyPlace, Past, Numbers
<1>14. Prepared'
  <2> DEFINE names == Packed[apply.content].secrets
  <2>1. ASSUME ~edited, NEW i \in 1..Len(names)
        PROVE  \/ secrets'[<<apply.rev, names[i]>>].is = "packed"
               \/ \E j \in 1..Len(Tail(todo)) : Tail(todo)[j].name = <<apply.rev, names[i]>>
    <3> DEFINE m == <<apply.rev, names[i]>>
    <3>1. m \in SecretNames
      <4>1. apply.rev \in Numbers /\ apply.content \in DOMAIN BundleContents
        BY <1>0 DEF RefInv, RefTypes, ApplyPart, ApplyPlace
      <4> QED BY <4>1, PackedFacts
    <3>2. secrets[m].is = "packed" \/ \E j \in 1..Len(todo) : todo[j].name = m
      BY <2>1, <1>0 DEF ApplyPart, Prepared
    <3> HIDE DEF m, names
    <3>3. CASE secrets[m].is = "packed"
      <4>1. secrets'[m] = secrets[m] \/ secrets'[m] = NewSecret BY <3>1, <1>7
      <4>2. secrets'[m].is = "packed" BY <4>1, <3>3, <1>6
      <4> QED BY <4>2 DEF m
    <3>4. ASSUME NEW j \in 1..Len(todo), todo[j].name = m
          PROVE  secrets'[m].is = "packed" \/ \E l \in 1..Len(Tail(todo)) : Tail(todo)[l].name = m
      <4>1. CASE j = 1
        <5>1. m = n BY <4>1, <3>4, <1>4
        <5>2. secrets[m].is \in {"absent", "packed"} BY <2>1, <3>1, <1>0 DEF ClusterPart, SecretsPlain
        <5> QED BY <5>1, <5>2, <3>1, <1>6, <1>7
      <4>2. CASE j # 1
        <5>1. j - 1 \in 1..Len(Tail(todo)) /\ (j - 1) + 1 = j BY <4>2, <1>3
        <5>2. Tail(todo)[j - 1] = todo[j]
          <6> HIDE DEF todo
          <6>1. Tail(todo)[j - 1] = todo[(j - 1) + 1] BY <5>1, <1>3
          <6> QED BY <6>1, <5>1
        <5>3. Tail(todo)[j - 1].name = m BY <5>2, <3>4
        <5> QED BY <5>1, <5>3
      <4> QED BY <4>1, <4>2
    <3> QED BY <3>2, <3>3, <3>4 DEF m
  <2> QED BY <2>1, <1>2, <1>5 DEF Prepared, Packed
<1>15. ApplyPart' BY <1>3, <1>5, <1>13, <1>14 DEF ApplyPart, Todos, SecretNames
<1> QED BY <1>8, <1>9, <1>10, <1>11, <1>12, <1>15 DEF HeldInv, ClusterPart

(* The COS comes when every Secret is there, and nobody owned them before. *)
LEMMA CreateCOSHeld == ASSUME HeldInv, RefInv', CreateCOS PROVE HeldInv'
PROOF
<1>0. /\ cos \in [Numbers -> COSStates] /\ nextUid \in Nat \ {0} /\ apply.todo = <<>> /\ apply.pc = "create"
      /\ apply = [pc |-> apply.pc, rev |-> apply.rev, content |-> apply.content, todo |-> apply.todo]
      /\ apply.rev \in Numbers /\ apply.content \in DOMAIN BundleContents /\ apply.content \in Nat
      /\ ClusterPart /\ ApplyPart /\ RefInv /\ Numbers \subseteq Int
  BY DEF HeldInv, RefInv, RefTypes, ApplyPart, ApplyPlace, CreateCOS, Numbers
<1>1. PICK r \in Numbers, c \in DOMAIN BundleContents : r = apply.rev /\ c = apply.content BY <1>0
<1> DEFINE v == NewCOS(nextUid, c, FALSE)
<1>2. /\ cos' = [cos EXCEPT ![r] = v] /\ UNCHANGED <<secrets, edited, asked, resolve>>
      /\ apply' = [apply EXCEPT !.pc = "own", !.todo = SecretsOf(r, c)]
  BY <1>1 DEF CreateCOS, WriteCOS
<1>3. /\ v \in COSStates /\ v.uid = nextUid /\ v.content = c /\ v.inline = FALSE
      /\ v.archived = FALSE /\ v.deleting = FALSE
  BY <1>0, <1>1 DEF NewCOS, NoCOS, COSStates, Digests
<1> HIDE DEF v
<1>4. /\ cos'[r] = v /\ \A s \in Numbers : s # r => cos'[s] = cos[s]
      /\ cos'[r].uid # 0 /\ \A s \in Numbers : Exists(s) => s < r
  BY <1>0, <1>1, <1>2, <1>3 DEF ApplyPart, ApplyPlace, Past
<1>5. ASSUME NEW s \in Numbers, Exists(s) PROVE Exists(s)'
  <2>1. s # r BY <1>4, <1>5, <1>0
  <2> QED BY <2>1, <1>4, <1>5 DEF Exists
<1>6. HeldTypes' /\ SecretsPlain'
  BY <1>0, <1>2 DEF ClusterPart, HeldTypes, SecretsPlain, SecretNames
<1>7. LatestLive'
  <2>1. ASSUME NEW q \in Numbers, cos'[q].archived \/ cos'[q].deleting
        PROVE  \E s \in Numbers : s > q /\ Exists(s)'
    <3>1. q # r /\ cos'[q] = cos[q] BY <2>1, <1>3, <1>4
    <3>2. \E s \in Numbers : s > q /\ Exists(s) BY <2>1, <3>1, <1>0 DEF ClusterPart, LatestLive
    <3> QED BY <3>2, <1>5
  <2> QED BY <2>1 DEF LatestLive, Numbers
<1>8. ResolveKnown'
  <2>1. resolve.pc # "idle" => \E s \in Numbers : s >= resolve.rev /\ Exists(s)'
    BY <1>0, <1>5 DEF ClusterPart, ResolveKnown
  <2> QED BY <2>1, <1>2 DEF ResolveKnown, Numbers
<1>9. ContentsKnown'
  <2>1. ASSUME NEW q \in Numbers, Exists(q)', ~cos'[q].inline PROVE cos'[q].content \in DOMAIN BundleContents
    <3>1. CASE q = r BY <3>1, <1>3, <1>4
    <3>2. CASE q # r BY <3>2, <2>1, <1>4, <1>0 DEF ClusterPart, ContentsKnown, Exists
    <3> QED BY <3>1, <3>2
  <2> QED BY <2>1 DEF ContentsKnown, Numbers
<1>10. UnusedUnowned'
  <2>1. ASSUME NEW q, Past(q)' PROVE Past(q) BY <2>1, <1>5 DEF Past, Numbers
  <2> QED BY <2>1, <1>2, <1>0 DEF ClusterPart, UnusedUnowned, SecretNames
<1> DEFINE names == Packed[c].secrets
<1>11. ASSUME ~edited, NEW i \in 1..Len(names)
       PROVE  secrets[<<r, names[i]>>].is = "packed" /\ secrets[<<r, names[i]>>].owners = {}
  <2>1. secrets[<<r, names[i]>>].is = "packed"
    <3>1. 1..Len(apply.todo) = {} BY <1>0
    <3> QED BY <1>11, <1>0, <1>1, <3>1 DEF ApplyPart, Prepared
  <2>2. <<r, names[i]>> \in SecretNames BY PackedFacts
  <2>3. Past(r) /\ <<r, names[i]>>[1] = r BY <1>4 DEF Past
  <2> HIDE DEF names
  <2> QED BY <1>11, <2>1, <2>2, <2>3, <1>0 DEF ClusterPart, UnusedUnowned
<1>12. RefsHeld'
  <2>1. ASSUME ~edited, NEW q \in Numbers, Exists(q)', NEW n \in References(q, cos'[q])
        PROVE  /\ secrets[n].is = "packed"
               /\ secrets[n].owners = {} \/ cos'[q].uid \in secrets[n].owners
    <3>1. CASE q = r
      <4>1. n \in References(r, v) BY <3>1, <2>1, <1>4
      <4>2. PICK ref \in Packed[c].refs : n = <<r, ref.secret>> BY <4>1, <1>3 DEF References
      <4>3. PICK i \in 1..Len(names) : ref.secret = names[i] BY PackedFacts
      <4>4. n = <<r, names[i]>> BY <4>2, <4>3
      <4> QED BY <2>1, <4>4, <1>11
    <3>2. CASE q # r
      <4>1. cos'[q] = cos[q] /\ Exists(q) BY <3>2, <2>1, <1>4 DEF Exists
      <4> QED BY <2>1, <4>1, <1>0 DEF ClusterPart, RefsHeld, RefsOf
    <3> QED BY <3>1, <3>2
  <2>2. \A q \in Numbers : RefsOf(q)' = References(q, cos'[q]) BY DEF RefsOf, References, Packed
  <2> QED BY <2>1, <2>2, <1>2 DEF RefsHeld, Numbers
<1>13. ClusterPart' BY <1>6, <1>7, <1>8, <1>9, <1>10, <1>12 DEF ClusterPart
<1>14. ApplyPart'
  <2> DEFINE todo == SecretsOf(r, c)
             k == Len(names)
  <2>1. PICK T : names \in Seq(T) BY PackedFacts
  <2>2. \A i \in 1..Len(names) : <<r, names[i]>> \in SecretNames BY PackedFacts
  <2>3. todo = [i \in 1..Len(names) |-> [name |-> <<r, names[i]>>, owners |-> {}]]
    BY <2>1 DEF SecretsOf
  <2>4. k \in Nat BY <2>1
  <2> HIDE DEF names, todo, k
  <2>5. \A i \in 1..k : [name |-> <<r, names[i]>>, owners |-> {}] \in Todos BY <2>2 DEF Todos, k
  <2>6. todo \in Seq(Todos) /\ Len(todo) = k /\ \A i \in 1..k : todo[i].name = <<r, names[i]>>
    BY <2>3, <2>4, <2>5 DEF k
  <2>7. apply'.pc = "own" /\ apply'.rev = r /\ apply'.todo = todo BY <1>0, <1>1, <1>2 DEF todo
  <2>8. \A j \in 1..Len(apply'.todo) : apply'.todo[j].name[1] = apply'.rev BY <2>6, <2>7
  <2>9. \A s \in Numbers : Exists(s)' => s <= r
    <3> SUFFICES ASSUME NEW s \in Numbers, Exists(s)' PROVE s <= r OBVIOUS
    <3>1. CASE s = r BY <3>1, <1>0
    <3>2. CASE s # r
      <4>1. Exists(s) BY <3>2, <1>4 DEF Exists
      <4>2. s < r BY <4>1, <1>4
      <4> QED BY <4>2, <1>0
    <3> QED BY <3>1, <3>2
  <2>10. ApplyPlace' BY <2>7, <2>8, <2>9, <1>4 DEF ApplyPlace, Exists, Numbers
  <2>11. Prepared' BY <2>7 DEF Prepared
  <2> QED BY <2>6, <2>7, <2>10, <2>11 DEF ApplyPart, Todos, SecretNames
<1> QED BY <1>13, <1>14 DEF HeldInv

(* The patch adds the uid of the revision to Secrets of its own number. *)
LEMMA PatchHeld == ASSUME HeldInv, RefInv', PatchOwner PROVE HeldInv'
PROOF
<1> DEFINE todo == apply.todo
<1>0. /\ cos \in [Numbers -> COSStates] /\ secrets \in [SecretNames -> SecretStates] /\ todo \in Seq(Todos)
      /\ apply = [pc |-> apply.pc, rev |-> apply.rev, content |-> apply.content, todo |-> apply.todo]
      /\ apply.pc = "own" /\ todo # <<>> /\ ClusterPart /\ ApplyPart /\ RefInv /\ apply.rev \in Numbers
      /\ Exists(apply.rev)
  BY DEF HeldInv, RefInv, RefTypes, ClusterPart, HeldTypes, ApplyPart, ApplyPlace, PatchOwner
<1>1. PICK n, known : n = Head(todo).name /\ known = Head(todo).owners OBVIOUS
<1>2. /\ UNCHANGED <<cos, edited, asked, resolve>>
      /\ \/ secrets' = secrets /\ apply' = NoApply
         \/ /\ secrets' = [secrets EXCEPT ![n].owners = Owners(known, cos[apply.rev].uid)]
            /\ apply' = [apply EXCEPT !.todo = Tail(@)]
  BY <1>1 DEF PatchOwner
<1>3. CASE secrets' = secrets /\ apply' = NoApply
  <2>1. ResolveKnown' BY <1>0, <1>2 DEF ClusterPart, ResolveKnown, Exists, Numbers
  <2> QED BY <2>1, <1>0, <1>2, <1>3, QuietHeld DEF ClusterPart, HeldTypes
<1>4. CASE /\ secrets' = [secrets EXCEPT ![n].owners = Owners(known, cos[apply.rev].uid)]
           /\ apply' = [apply EXCEPT !.todo = Tail(@)]
  <2>1. /\ Len(todo) \in Nat \ {0} /\ Len(Tail(todo)) = Len(todo) - 1 /\ Tail(todo) \in Seq(Todos)
        /\ \A j \in 1..Len(Tail(todo)) : Tail(todo)[j] = todo[j + 1]
        /\ Head(todo) = todo[1] /\ todo[1] \in Todos
    <3> HIDE DEF todo
    <3> QED BY <1>0
  <2>2. n \in SecretNames /\ known \in SUBSET Nat BY <1>1, <2>1 DEF Todos
  <2>3. n[1] = apply.rev
    <3>1. \A j \in 1..Len(todo) : todo[j].name[1] = apply.rev BY <1>0 DEF ApplyPart, ApplyPlace
    <3>2. 1 \in 1..Len(todo) BY <2>1
    <3> HIDE DEF todo
    <3> QED BY <3>1, <3>2, <1>1, <2>1
  <2>4. PICK r \in Numbers, u \in Nat : r = apply.rev /\ u = cos[apply.rev].uid BY <1>0 DEF COSStates
  <2> DEFINE w == [secrets[n] EXCEPT !.owners = known \cup {u}]
  <2>5. secrets' = [secrets EXCEPT ![n] = w] BY <1>4, <2>4, Zenon DEF Owners
  <2>6. /\ w \in SecretStates /\ w.is = secrets[n].is /\ w.owners = known \cup {u}
    <3>1. secrets[n] \in SecretStates BY <1>0, <2>2
    <3> QED BY <3>1, <2>2 DEF SecretStates
  <2> HIDE DEF w
  <2>7. ASSUME NEW m \in SecretNames
        PROVE  secrets'[m].is = secrets[m].is /\ (m # n => secrets'[m] = secrets[m]) /\ (m = n => secrets'[m] = w)
    BY <1>0, <2>2, <2>5, <2>6
  <2>8. HeldTypes'
    <3>1. secrets' \in [SecretNames -> SecretStates] BY <1>0, <2>2, <2>5, <2>6
    <3> QED BY <3>1, <1>0, <1>2 DEF ClusterPart, HeldTypes, SecretNames
  <2>9. LatestLive' /\ ResolveKnown' /\ ContentsKnown'
    BY <1>0, <1>2 DEF ClusterPart, LatestLive, ResolveKnown, ContentsKnown, Exists, Numbers
  <2>10. SecretsPlain' BY <1>0, <1>2, <2>7 DEF ClusterPart, SecretsPlain, SecretNames
  <2>11. UnusedUnowned'
    <3>1. \A q : Past(q)' = Past(q) BY <1>2 DEF Past, Exists
    <3>2. ~Past(n[1])
      <4>1. ~(r < r) BY DEF Numbers
      <4> QED BY <4>1, <1>0, <2>3, <2>4 DEF Past
    <3>3. ASSUME ~edited, NEW m \in SecretNames, Past(m[1]) PROVE secrets'[m].owners = {}
      <4>1. m # n BY <3>2, <3>3
      <4> QED BY <3>3, <4>1, <1>0, <2>7 DEF ClusterPart, UnusedUnowned
    <3> QED BY <3>1, <3>3, <1>2 DEF UnusedUnowned, SecretNames
  <2>12. RefsHeld'
    <3>1. ASSUME ~edited, NEW q \in Numbers, Exists(q), NEW m \in RefsOf(q)
          PROVE  /\ secrets'[m].is = "packed"
                 /\ secrets'[m].owners = {} \/ cos[q].uid \in secrets'[m].owners
      <4>1. m \in SecretNames /\ m[1] = q BY <3>1, <1>0, RefNames DEF ClusterPart, ContentsKnown, RefsOf
      <4>2. /\ secrets[m].is = "packed"
            /\ secrets[m].owners = {} \/ cos[q].uid \in secrets[m].owners
        BY <3>1, <1>0 DEF ClusterPart, RefsHeld
      <4>3. CASE m # n BY <4>1, <4>2, <4>3, <2>7
      <4>4. CASE m = n
        <5>1. q = apply.rev BY <4>1, <4>4, <2>3
        <5>2. cos[q].uid \in w.owners BY <5>1, <2>4, <2>6
        <5> QED BY <4>1, <4>2, <4>4, <5>2, <2>7
      <4> QED BY <4>3, <4>4
    <3> QED BY <3>1, <1>2 DEF RefsHeld, Exists, RefsOf, References, Numbers, Packed
  <2>13. apply'.pc = "own" /\ apply'.rev = apply.rev /\ apply'.todo = Tail(todo) BY <1>0, <1>4
  <2>14. ApplyPlace'
    <3>1. \A j \in 1..Len(apply'.todo) : apply'.todo[j].name[1] = apply'.rev
      <4>1. \A j \in 1..Len(todo) : todo[j].name[1] = apply.rev BY <1>0 DEF ApplyPart, ApplyPlace
      <4>2. \A j \in 1..Len(Tail(todo)) : j + 1 \in 1..Len(todo) BY <2>1
      <4> QED BY <4>1, <4>2, <2>1, <2>13
    <3>2. cos'[apply'.rev].uid # 0 /\ (\A s \in Numbers : Exists(s)' => s <= apply'.rev)
      BY <1>0, <1>2, <2>13 DEF ApplyPart, ApplyPlace, Exists
    <3> QED BY <3>1, <3>2, <2>13 DEF ApplyPlace, Exists, Numbers
  <2>15. Prepared' BY <2>13 DEF Prepared
  <2>16. ApplyPart' BY <2>1, <2>13, <2>14, <2>15 DEF ApplyPart, Todos, SecretNames
  <2> QED BY <2>8, <2>9, <2>10, <2>11, <2>12, <2>16 DEF HeldInv, ClusterPart
<1> QED BY <1>2, <1>3, <1>4

(* The garbage collector takes only Secrets whose owners are all gone. *)
LEMMA CollectHeld == ASSUME HeldInv, RefInv', NEW n \in SecretNames, CollectSecret(n) PROVE HeldInv'
PROOF
<1>0. /\ cos \in [Numbers -> COSStates] /\ secrets \in [SecretNames -> SecretStates]
      /\ ClusterPart /\ ApplyPart /\ RefInv
  BY DEF HeldInv, RefInv, RefTypes, ClusterPart, HeldTypes
<1>1. /\ secrets[n].owners # {} /\ \A r \in Numbers : cos[r].uid \notin secrets[n].owners
      /\ secrets' = [secrets EXCEPT ![n] = NoSecret]
      /\ UNCHANGED <<cos, edited, asked, resolve, apply>>
  BY DEF CollectSecret
<1>2. NoSecret \in SecretStates /\ NoSecret.is = "absent" /\ NoSecret.owners = {}
  BY DEF NoSecret, SecretStates
<1>3. \A m \in SecretNames : secrets'[m] = IF m = n THEN NoSecret ELSE secrets[m] BY <1>0, <1>1
<1>4. HeldTypes'
  <2>1. secrets' \in [SecretNames -> SecretStates] BY <1>0, <1>1, <1>2
  <2> QED BY <2>1, <1>0, <1>1 DEF ClusterPart, HeldTypes, SecretNames
<1>5. LatestLive' /\ ResolveKnown' /\ ContentsKnown'
  BY <1>0, <1>1 DEF ClusterPart, LatestLive, ResolveKnown, ContentsKnown, Exists, Numbers
<1>6. SecretsPlain' BY <1>0, <1>1, <1>2, <1>3 DEF ClusterPart, SecretsPlain, SecretNames
<1>7. UnusedUnowned'
  <2>1. \A q : Past(q)' = Past(q) BY <1>1 DEF Past, Exists
  <2>2. \A m \in SecretNames : secrets'[m].owners = secrets[m].owners \/ secrets'[m].owners = {} BY <1>2, <1>3
  <2> QED BY <2>1, <2>2, <1>0, <1>1 DEF ClusterPart, UnusedUnowned, SecretNames
<1>8. RefsHeld'
  <2>1. ASSUME ~edited, NEW q \in Numbers, Exists(q), NEW m \in RefsOf(q)
        PROVE  /\ secrets'[m].is = "packed"
               /\ secrets'[m].owners = {} \/ cos[q].uid \in secrets'[m].owners
    <3>1. m \in SecretNames BY <2>1, <1>0, RefNames DEF ClusterPart, ContentsKnown, RefsOf
    <3>2. /\ secrets[m].is = "packed"
          /\ secrets[m].owners = {} \/ cos[q].uid \in secrets[m].owners
      BY <2>1, <1>0 DEF ClusterPart, RefsHeld
    <3>3. m # n BY <3>2, <1>1
    <3> QED BY <3>1, <3>2, <3>3, <1>3
  <2> QED BY <2>1, <1>1 DEF RefsHeld, Exists, RefsOf, References, Numbers, Packed
<1>9. ApplyPart'
  <2>1. ApplyPlace' BY <1>0, <1>1 DEF ApplyPart, ApplyPlace, Past, Exists, Numbers
  <2>2. Prepared'
    <3> DEFINE names == Packed[apply.content].secrets
    <3>1. ASSUME ~edited, apply.pc = "create", NEW i \in 1..Len(names)
          PROVE  \/ secrets'[<<apply.rev, names[i]>>].is = "packed"
                 \/ \E j \in 1..Len(apply.todo) : apply.todo[j].name = <<apply.rev, names[i]>>
      <4> DEFINE m == <<apply.rev, names[i]>>
      <4>1. m \in SecretNames /\ m[1] = apply.rev
        <5>1. apply.rev \in Numbers /\ apply.content \in DOMAIN BundleContents
          BY <3>1, <1>0 DEF RefInv, RefTypes, ApplyPart, ApplyPlace
        <5> QED BY <5>1, PackedFacts
      <4>2. Past(apply.rev) BY <3>1, <1>0 DEF ApplyPart, ApplyPlace
      <4>3. secrets[m].is = "packed" \/ \E j \in 1..Len(apply.todo) : apply.todo[j].name = m
        BY <3>1, <1>0 DEF ApplyPart, Prepared
      <4> HIDE DEF m
      <4>4. m # n BY <3>1, <4>1, <4>2, <1>0, <1>1 DEF ClusterPart, UnusedUnowned
      <4> QED BY <4>1, <4>3, <4>4, <1>3 DEF m
    <3> QED BY <3>1, <1>1 DEF Prepared, Packed
  <2> QED BY <2>1, <2>2, <1>0, <1>1 DEF ApplyPart, Todos, SecretNames
<1> QED BY <1>4, <1>5, <1>6, <1>7, <1>8, <1>9 DEF HeldInv, ClusterPart

(* Once a user has edited a Secret nothing more is claimed of them. *)
LEMMA EditHeld ==
  ASSUME HeldInv, RefInv', NEW n \in SecretNames, NEW v \in Replacements, EditSecret(n, v)
  PROVE  HeldInv'
PROOF
<1>0. secrets \in [SecretNames -> SecretStates] /\ ClusterPart /\ ApplyPart
  BY DEF HeldInv, ClusterPart, HeldTypes
<1>1. /\ secrets' = [secrets EXCEPT ![n] = v] /\ edited' = TRUE
      /\ UNCHANGED <<cos, asked, resolve, apply>>
  BY DEF EditSecret
<1>2. v \in SecretStates
  <2>1. CASE v = NoSecret BY <2>1 DEF NoSecret, SecretStates
  <2>2. ASSUME NEW b \in BOOLEAN, v = [is |-> "other", immutable |-> b, owners |-> {}] PROVE v \in SecretStates
    BY <2>2 DEF SecretStates
  <2> QED BY <2>1, <2>2 DEF Replacements
<1>3. HeldTypes'
  <2>1. secrets' \in [SecretNames -> SecretStates] BY <1>0, <1>1, <1>2
  <2> QED BY <2>1, <1>0, <1>1 DEF ClusterPart, HeldTypes, SecretNames
<1>4. LatestLive' /\ ResolveKnown' /\ ContentsKnown'
  BY <1>0, <1>1 DEF ClusterPart, LatestLive, ResolveKnown, ContentsKnown, Exists, Numbers
<1>5. SecretsPlain' /\ UnusedUnowned' /\ RefsHeld' /\ Prepared'
  BY <1>1 DEF SecretsPlain, UnusedUnowned, RefsHeld, Prepared
<1>6. ApplyPlace' BY <1>0, <1>1 DEF ApplyPart, ApplyPlace, Past, Exists, Numbers
<1> QED BY <1>0, <1>1, <1>3, <1>4, <1>5, <1>6 DEF HeldInv, ClusterPart, ApplyPart, Todos, SecretNames

-----------------------------------------------------------------------------
(* SetToSeq lists a finite set. *)
LEMMA SetToSeqOf ==
  ASSUME NEW T, IsFiniteSet(T)
  PROVE  /\ SetToSeq(T) \in Seq(T)
         /\ \A j \in 1..Len(SetToSeq(T)) : SetToSeq(T)[j] \in T
PROOF
<1> DEFINE c == Cardinality(T)
<1>1. c \in Nat /\ ExistsBijection(1..c, T) BY FS_CardinalityType
<1>2. PICK f \in [1..c -> T] : IsInjective(f) BY <1>1 DEF ExistsBijection, Bijection, Injection
<1>3. SetToSeq(T) \in [1..c -> T] BY <1>2 DEF SetToSeq
<1> HIDE DEF c
<1> QED BY <1>1, <1>3

LEMMA SecretNamesFinite == IsFiniteSet(SecretNames)
PROOF
<1> DEFINE D == DOMAIN BundleContents
           F == {ToSet(Packed[k].secrets) : k \in D}
<1>1. IsFiniteSet(D)
  <2>1. D = 1..Len(BundleContents) /\ Len(BundleContents) \in Int BY ContentsAssumption DEF IsSequence
  <2> HIDE DEF D
  <2> QED BY <2>1, FS_Interval
<1>2. IsFiniteSet(F)
  <2> DEFINE g == [k \in D |-> ToSet(Packed[k].secrets)]
  <2>1. g \in [D -> F] /\ \A T \in F : \E k \in D : g[k] = T OBVIOUS
  <2> HIDE DEF g, F, D
  <2>2. g \in Surjection(D, F) BY <2>1 DEF Surjection
  <2> QED BY <2>2, <1>1, FS_Surjection
<1>3. ASSUME NEW T \in F PROVE IsFiniteSet(T)
  <2>1. PICK k \in D : T = ToSet(Packed[k].secrets) BY <1>3
  <2> DEFINE s == Packed[k].secrets
  <2>2. PICK U : s \in Seq(U) BY PackedFacts
  <2> HIDE DEF s
  <2>3. DOMAIN s = 1..Len(s) /\ Len(s) \in Int BY <2>2
  <2>4. IsFiniteSet(DOMAIN s) BY <2>3, FS_Interval
  <2>5. s \in [DOMAIN s -> ToSet(s)] BY <2>2, <2>3 DEF ToSet
  <2>6. \A t \in ToSet(s) : \E i \in DOMAIN s : s[i] = t BY DEF ToSet
  <2>7. s \in Surjection(DOMAIN s, ToSet(s)) BY <2>5, <2>6 DEF Surjection
  <2> QED BY <2>1, <2>4, <2>7, FS_Surjection DEF s
<1>4. IsFiniteSet(UNION F)
  <2> HIDE DEF F
  <2> QED BY <1>2, <1>3, FS_UNION
<1>5. IsFiniteSet(Numbers) BY RefBounds, FS_Interval DEF Numbers
<1>6. IsFiniteSet(Numbers \X UNION F)
  <2> HIDE DEF F
  <2> QED BY <1>4, <1>5, FS_Product
<1> QED BY <1>6 DEF SecretNames

(* The Secrets of the newest revision that lack its uid are listed. *)
LEMMA ApplyUnchangedHeld == ASSUME HeldInv, RefInv', ApplyUnchanged PROVE HeldInv'
PROOF
<1>0. /\ cos \in [Numbers -> COSStates] /\ secrets \in [SecretNames -> SecretStates]
      /\ ClusterPart /\ ApplyPart /\ RefInv
  BY DEF HeldInv, RefInv, RefTypes, ClusterPart, HeldTypes
<1>1. PICK r : r = Latest OBVIOUS
<1> DEFINE T == {[name |-> n, owners |-> secrets[n].owners] : n \in Unowned(r)}
<1>2. /\ UNCHANGED <<cos, secrets, edited, asked, resolve>> /\ Unchanged(r, asked)
      /\ apply' = [pc |-> "own", rev |-> r, content |-> asked, todo |-> SetToSeq(T)]
  BY <1>1 DEF ApplyUnchanged
<1>3. r \in Numbers /\ Exists(r) /\ \A s \in Numbers : Exists(s) => s <= r
  <2>1. r # 0 BY <1>2 DEF Unchanged
  <2> QED BY <2>1, <1>0, <1>1, LatestRange, RefBounds DEF Numbers
<1>4. Unowned(r) \subseteq SecretNames /\ \A n \in Unowned(r) : n[1] = r BY DEF Unowned
<1>5. T \subseteq Todos /\ \A t \in T : t.name[1] = r BY <1>0, <1>4 DEF Todos, SecretStates
<1>6. IsFiniteSet(T)
  <2> DEFINE U == Unowned(r)
             g == [n \in U |-> [name |-> n, owners |-> secrets[n].owners]]
  <2>1. IsFiniteSet(U) BY <1>4, SecretNamesFinite, FS_Subset
  <2>2. g \in [U -> T] /\ \A t \in T : \E n \in U : g[n] = t OBVIOUS
  <2> HIDE DEF g, U, T
  <2>3. g \in Surjection(U, T) BY <2>2 DEF Surjection
  <2> QED BY <2>1, <2>3, FS_Surjection
<1> DEFINE todo == SetToSeq(T)
<1>7. todo \in Seq(T) /\ \A j \in 1..Len(todo) : todo[j] \in T
  <2> HIDE DEF T
  <2> QED BY <1>6, SetToSeqOf
<1>8. apply'.pc = "own" /\ apply'.rev = r /\ apply'.todo = todo BY <1>2
<1> HIDE DEF todo, T
<1>9. todo \in Seq(Todos) BY <1>5, <1>7
<1>10. Kept BY <1>0, <1>2, SameCOS
<1>11. ClusterPart'
  <2>1. LatestLive' /\ ResolveKnown' BY <1>0, <1>2 DEF ClusterPart, LatestLive, ResolveKnown, Exists, Numbers
  <2> QED BY <2>1, <1>0, <1>2, <1>10, KeptCluster DEF ClusterPart, HeldTypes
<1>12. ApplyPlace'
  <2>1. \A j \in 1..Len(apply'.todo) : apply'.todo[j].name[1] = apply'.rev BY <1>5, <1>7, <1>8
  <2>2. cos'[apply'.rev].uid # 0 /\ \A s \in Numbers : Exists(s)' => s <= apply'.rev
    BY <1>2, <1>3, <1>8 DEF Exists
  <2> QED BY <2>1, <2>2, <1>8 DEF ApplyPlace, Exists, Numbers
<1>13. ApplyPart' BY <1>8, <1>9, <1>12 DEF ApplyPart, Prepared, Todos, SecretNames
<1> QED BY <1>11, <1>13 DEF HeldInv

(* A migrated revision refers to no Secret. *)
LEMMA MigrateHeld == ASSUME HeldInv, RefInv', Migrate PROVE HeldInv'
PROOF
<1>0. /\ cos \in [Numbers -> COSStates] /\ ClusterPart /\ ApplyPart /\ RefInv
      /\ nextUid \in Nat \ {0} /\ 1 \in Numbers /\ Numbers \subseteq Nat
  BY IdleRefs DEF HeldInv, RefInv, RefTypes, Numbers
<1>1. UNCHANGED <<secrets, edited, asked, resolve>> BY DEF Migrate
<1>2. ApplyPart'
  <2>1. \E p \in {"mark", "apply"} : apply' = [NoApply EXCEPT !.pc = p] BY DEF Migrate
  <2>2. apply'.pc \in {"mark", "apply"} /\ apply'.todo = <<>> BY <2>1 DEF NoApply
  <2> QED BY <2>2, IdleApply
<1>3. CASE UNCHANGED cos
  <2>1. Kept BY <1>0, <1>3, SameCOS
  <2>2. LatestLive' /\ ResolveKnown' BY <1>0, <1>1, <1>3 DEF ClusterPart, LatestLive, ResolveKnown, Exists, Numbers
  <2>3. ClusterPart' BY <2>1, <2>2, <1>0, <1>1, KeptCluster DEF ClusterPart, HeldTypes
  <2> QED BY <2>3, <1>2 DEF HeldInv
<1>4. CASE Latest = 0 /\ WriteCOS(1, NewCOS(nextUid, history[DeployedRelease].content, TRUE))
  <2> DEFINE v == NewCOS(nextUid, history[DeployedRelease].content, TRUE)
  <2>1. \A s \in Numbers : ~Exists(s)
    <3>1. \A s \in Numbers : Exists(s) => s <= 0 BY <1>0, <1>4, LatestRange
    <3>2. \A s \in Numbers : ~(s <= 0) BY DEF Numbers
    <3> QED BY <3>1, <3>2
  <2>2. cos' = [cos EXCEPT ![1] = v] BY <1>4 DEF WriteCOS
  <2>3. v.uid = nextUid /\ v.inline = TRUE /\ v.archived = FALSE /\ v.deleting = FALSE
    BY DEF NewCOS, NoCOS
  <2> HIDE DEF v
  <2>4. cos'[1] = v /\ \A s \in Numbers : s # 1 => cos'[s] = cos[s] BY <1>0, <2>2
  <2>5. HeldTypes' /\ SecretsPlain' BY <1>0, <1>1 DEF ClusterPart, HeldTypes, SecretsPlain, SecretNames
  <2>6. LatestLive'
    <3>1. \A s \in Numbers : ~(cos'[s].archived \/ cos'[s].deleting)
      BY <1>0, <2>1, <2>3, <2>4 DEF ClusterPart, LatestLive
    <3> QED BY <3>1 DEF LatestLive, Numbers
  <2>7. ResolveKnown'
    <3>1. resolve.pc = "idle" BY <1>0, <2>1 DEF ClusterPart, ResolveKnown
    <3> QED BY <3>1, <1>1 DEF ResolveKnown
  <2>8. \A s \in Numbers : Exists(s)' => s = 1 BY <2>1, <2>4 DEF Exists
  <2>9. ContentsKnown' BY <2>3, <2>4, <2>8 DEF ContentsKnown, Numbers
  <2>10. UnusedUnowned'
    <3>1. \A q : Past(q) BY <2>1 DEF Past
    <3> QED BY <3>1, <1>0, <1>1 DEF ClusterPart, UnusedUnowned, SecretNames
  <2>11. RefsHeld'
    <3>1. \A s \in Numbers : Exists(s)' => RefsOf(s)' = {}
      BY <2>3, <2>4, <2>8 DEF RefsOf, References
    <3> QED BY <3>1 DEF RefsHeld, Numbers
  <2> QED BY <2>5, <2>6, <2>7, <2>9, <2>10, <2>11, <1>2 DEF HeldInv, ClusterPart
<1> QED BY <1>3, <1>4 DEF Migrate

LEMMA HeldInvStep == ASSUME HeldInv, [RefNext]_refVars PROVE HeldInv'
PROOF
<1>0. RefInv' BY RefInvStep DEF HeldInv
<1>1. CASE ApplyStep
  BY <1>0, <1>1, MigrateHeld, MarkHeld, ApplyUnchangedHeld, ApplyChangedHeld, CreateSecretHeld, CreateCOSHeld,
     PatchHeld, QuietSteps DEF ApplyStep
<1>2. ASSUME NEW r \in Numbers, Finalized(r) PROVE HeldInv' BY <1>0, <1>2, FinalizedHeld
<1>3. CASE \/ ApplyFails \/ AskForNext \/ CrashRefs \/ BuildPhases \/ UNCHANGED refVars
           \/ \E r \in Numbers : \E v \in Copies(cos[r]) : BeginResolve(r, v)
  BY <1>0, <1>3, QuietSteps
<1>4. CASE WriteStatus(TRUE) \/ WriteStatus(FALSE) BY <1>0, <1>4, StatusHeld
<1>5. ASSUME NEW n \in SecretNames, CollectSecret(n) PROVE HeldInv' BY <1>0, <1>5, CollectHeld
<1>6. ASSUME NEW n \in SecretNames, NEW v \in Replacements, EditSecret(n, v) PROVE HeldInv'
  BY <1>0, <1>6, EditHeld
<1> QED BY <1>1, <1>2, <1>3, <1>4, <1>5, <1>6 DEF RefNext

(* The three steps of createExternalizedRevision keep the promise of         *)
(* large-bundle-support.md for any contents and faults: every reference of  *)
(* an existing revision finds its Secret, whatever failed on the way, as    *)
(* long as users leave the Secrets alone.                                   *)
THEOREM ReferencesResolve == RefSpec => []RefsResolve
PROOF
<1>1. RefInit => HeldInv BY InitHeldInv
<1>2. HeldInv /\ [RefNext]_refVars => HeldInv' BY HeldInvStep
<1>3. HeldInv => RefsResolve BY DEF HeldInv, ClusterPart, RefsHeld, RefsResolve
<1> QED BY <1>1, <1>2, <1>3, PTL DEF RefSpec
==============================================================================
