--------------------------- MODULE Rollout_proofs ---------------------------
(***************************************************************************)
(* Theorems about Rollout, for any number of extensions, revisions,        *)
(* objects and phases: first the type and lifecycle invariants, then what  *)
(* rests on them, the conditions a pass reports, the numbers and the       *)
(* retention of revisions, the handover of objects between revisions and   *)
(* their teardown.                                                         *)
(***************************************************************************)
EXTENDS Rollout, TLAPS, WellFoundedInduction, FiniteSetTheorems

(* The idle values are of their types: there is a revision and a content. *)
LEMMA IdleTypes ==
  /\ NoRevision \in Ids /\ SomeContent \in Contents
  /\ NoConditions \in Conditions
  /\ IdleWorker \in Workers /\ IdleApplier \in Appliers
  /\ Absent \in ObjectStates /\ Ownerless \in ObjectStates
PROOF
<1>1. PICK e \in Extensions : TRUE BY DomainsAssumption
<1>2. <<e, 1>> \in Ids BY <1>1, BoundsAssumption DEF Ids
<1>3. NoRevision \in Ids BY <1>2 DEF NoRevision
<1>4. PICK i \in Images, c \in Configs : TRUE BY DomainsAssumption
<1>5. [image |-> i, config |-> c] \in Contents BY <1>4 DEF Contents
<1>6. SomeContent \in Contents BY <1>5 DEF SomeContent
<1>7. NoConditions \in Conditions
  BY DEF NoConditions, Conditions, ProgressReasons, AvailableReasons
<1>8. IdleWorker \in Workers BY <1>3, <1>7 DEF IdleWorker, Workers
<1>9. Ext(NoRevision) \in Extensions BY <1>3 DEF Ids, Ext
<1>10. IdleApplier \in Appliers BY <1>9, <1>6, BoundsAssumption DEF IdleApplier, Appliers
<1>11. Absent \in ObjectStates /\ Ownerless \in ObjectStates
  BY BoundsAssumption DEF Absent, Ownerless, ObjectStates
<1> QED BY <1>3, <1>6, <1>7, <1>8, <1>10, <1>11

(* The phases of a revision are a non-empty sequence of sets of objects. *)
LEMMA PhasesType ==
  ASSUME NEW id \in Ids, content \in [Ids -> Contents]
  PROVE  /\ Phases(id) \in Seq(SUBSET Objects)
         /\ Len(Phases(id)) \in Nat \ {0}
         /\ \A k \in 1..Len(Phases(id)) : Phases(id)[k] \subseteq Objects
PROOF
<1>1. content[id] \in Contents OBVIOUS
<1>2. Phases(id) \in Seq(SUBSET Objects) /\ Len(Phases(id)) > 0
  BY <1>1, PhasesAssumption DEF Phases
<1> QED BY <1>2

(* What the two workers may write keeps its type. *)
LEMMA ConditionTypes ==
  ASSUME NEW c \in Conditions, NEW b \in BOOLEAN
  PROVE  /\ [c EXCEPT !.prog = "Blocked"] \in Conditions
         /\ [c EXCEPT !.avail = "Reconciling"] \in Conditions
         /\ markAsProgressing(c, "RollingOut", b) \in Conditions
         /\ setRetryingConditions(c, b) \in Conditions
         /\ RolledOut(c) \in Conditions
         /\ RollingOut(c, b) \in Conditions
         /\ markAsArchived(c) \in Conditions
PROOF BY DEF Conditions, ProgressReasons, AvailableReasons, markAsProgressing,
             setRetryingConditions, RolledOut, RollingOut, markAsArchived

LEMMA FinishType ==
  ASSUME NEW id \in Ids, NEW c \in Conditions, Finish(id, c)
  PROVE  /\ worker' \in Workers
         /\ worker'.pc \notin {"reconcile", "teardown", "archive"}
         /\ worker'.pc = "status" => worker'.cond = c
PROOF
<1>1. IdleWorker \in Workers BY IdleTypes
<1> QED BY <1>1 DEF Finish, Workers, IdleWorker

(* A revision's own object states. *)
LEMMA ObjectTypes ==
  ASSUME NEW id \in Ids, NEW v \in ObjectStates
  PROVE  /\ Fresh(id) \in ObjectStates
         /\ Adopted(v, id) \in ObjectStates
         /\ [v EXCEPT !.rev = Num(id), !.owners = {id}] \in ObjectStates
         /\ [v EXCEPT !.dying = TRUE] \in ObjectStates
PROOF
<1>1. Num(id) \in 0..MaxRevision BY BoundsAssumption DEF Num, Ids
<1> QED BY <1>1 DEF Fresh, Adopted, ObjectStates

LEMMA WriteType ==
  ASSUME TypeOK, NEW o \in Objects, NEW v \in ObjectStates, WriteObject(o, v)
  PROVE  obj' \in [Objects -> ObjectStates] /\ seen' \in [Objects -> ObjectStates]
PROOF BY DEF TypeOK, WriteObject

LEMMA HandledType ==
  ASSUME TypeOK, NEW o, NEW r \in {"ok", "incomplete", "collision", "error"}, Handled(o, r)
  PROVE  worker' \in Workers /\ worker'.pc = worker.pc /\ worker'.phase = worker.phase
         /\ worker'.phases = worker.phases /\ worker'.id = worker.id /\ worker'.prev = worker.prev
PROOF BY DEF TypeOK, Handled, Workers, Worse, Rank

LEMMA ProbedType ==
  ASSUME NEW o PROVE Probed(o) \in {"ok", "incomplete", "collision", "error"}
PROOF BY DEF Probed

(* The inductive strengthening of TypeOK: the phase a pass is at exists, and a
   revision about to be created has a number. *)
PhaseInRange ==
  worker.pc \in {"reconcile", "teardown"} => worker.phase \in 1..Len(worker.phases)
NumInRange == applier.pc = "create" => applier.num \in 1..MaxRevision
TypeInv == TypeOK /\ PhaseInRange /\ NumInRange

LEMMA TypeInit == Init => TypeInv
PROOF
<1> SUFFICES ASSUME Init PROVE TypeInv OBVIOUS
<1>1. obj \in [Objects -> ObjectStates] BY IdleTypes DEF Init
<1>2. IdleWorker.pc = "idle" /\ IdleApplier.pc = "idle" BY DEF IdleWorker, IdleApplier
<1> QED BY <1>1, <1>2, IdleTypes, BoundsAssumption
        DEF Init, TypeInv, TypeOK, PhaseInRange, NumInRange

(* An object the engine looks at is in a legal state. *)
LEMMA ObservedType ==
  ASSUME TypeOK, NEW o \in Objects PROVE Observed(o) \in ObjectStates
PROOF BY DEF TypeOK, Observed

LEMMA ApplyType ==
  ASSUME TypeOK, NEW o \in Objects, NEW v, NEW new \in ObjectStates, ApplyObject(o, v, new)
  PROVE  /\ obj' \in [Objects -> ObjectStates] /\ seen' \in [Objects -> ObjectStates]
         /\ worker' \in Workers /\ worker'.pc = worker.pc /\ worker'.phase = worker.phase
         /\ worker'.phases = worker.phases /\ worker'.id = worker.id /\ worker'.prev = worker.prev
PROOF
<1>1. CASE v = obj[o] /\ WriteObject(o, new) /\ Handled(o, Probed(o))
  BY <1>1, WriteType, HandledType, ProbedType
<1>2. CASE v # obj[o] /\ Handled(o, "error") /\ UNCHANGED <<obj, seen>>
  BY <1>2, HandledType DEF TypeOK
<1> QED BY <1>1, <1>2 DEF ApplyObject

(* Moving a pass to another phase keeps everything else of it. *)
LEMMA NextPhaseType ==
  ASSUME worker \in Workers, NextPhase, PhaseInRange
  PROVE  /\ worker' \in Workers /\ worker'.phase \in 1..Len(worker'.phases)
         /\ worker'.pc = worker.pc /\ worker'.id = worker.id
PROOF
<1>1. /\ worker.phase + 1 \in 1..Len(worker.phases) /\ worker.phase + 1 \in Nat
      /\ worker.phases[worker.phase + 1] \in SUBSET Objects
  BY DEF Workers, NextPhase, PhaseInRange
<1>2. worker' \in Workers
  <2>1. worker' = [worker EXCEPT !.phase = worker.phase + 1,
                                 !.todo = worker.phases[worker.phase + 1]]
    BY Zenon DEF NextPhase
  <2>2. worker.phase + 1 \in Nat /\ worker.phases[worker.phase + 1] \in SUBSET Objects
    BY <1>1
  <2> QED BY <2>1, <2>2 DEF Workers
<1>3. worker'.phase = worker.phase + 1 /\ worker'.phases = worker.phases
  BY DEF Workers, NextPhase
<1> QED BY <1>1, <1>2, <1>3 DEF Workers, NextPhase

LEMMA PreviousPhaseType ==
  ASSUME worker \in Workers, PreviousPhase, PhaseInRange
  PROVE  /\ worker' \in Workers /\ worker'.phase \in 1..Len(worker'.phases)
         /\ worker'.pc = worker.pc /\ worker'.id = worker.id
PROOF
<1>1. /\ worker.phase - 1 \in 1..Len(worker.phases) /\ worker.phase - 1 \in Nat
      /\ worker.phases[worker.phase - 1] \in SUBSET Objects
  BY DEF Workers, PreviousPhase, PhaseInRange
<1>2. worker' \in Workers
  <2>1. worker' = [worker EXCEPT !.phase = worker.phase - 1,
                                 !.todo = worker.phases[worker.phase - 1]]
    BY Zenon DEF PreviousPhase
  <2>2. worker.phase - 1 \in Nat /\ worker.phases[worker.phase - 1] \in SUBSET Objects
    BY <1>1
  <2> QED BY <2>1, <2>2 DEF Workers
<1>3. worker'.phase = worker.phase - 1 /\ worker'.phases = worker.phases
  BY DEF Workers, PreviousPhase
<1> QED BY <1>1, <1>2, <1>3 DEF Workers, PreviousPhase

(* The state of a pass that starts. *)
LEMMA BeginType ==
  ASSUME NEW id \in Ids, content \in [Ids -> Contents], BeginReconcile(id) \/ BeginTeardown(id)
  PROVE  /\ worker' \in Workers /\ worker'.phase \in 1..Len(worker'.phases)
         /\ worker'.id = id /\ worker'.prev = {}
         /\ worker'.pc = IF BeginReconcile(id) THEN "reconcile" ELSE "teardown"
PROOF
<1>0. /\ Phases(id) \in Seq(SUBSET Objects) /\ Len(Phases(id)) \in Nat \ {0}
      /\ \A k \in 1..Len(Phases(id)) : Phases(id)[k] \in SUBSET Objects
  BY PhasesType
<1> DEFINE P == Phases(id)
           l == DeadlineExceeded(id)
<1>3. /\ P \in Seq(SUBSET Objects) /\ l \in BOOLEAN
      /\ Len(P) \in Nat /\ 1 \in 1..Len(P) /\ Len(P) \in 1..Len(P)
      /\ P[1] \in SUBSET Objects /\ P[Len(P)] \in SUBSET Objects
  BY <1>0, FlagsAssumption DEF DeadlineExceeded
<1>4. IdleWorker \in Workers /\ IdleWorker.prev = {} BY IdleTypes DEF IdleWorker
<1>1. CASE BeginReconcile(id)
  <2>1. worker' = [IdleWorker EXCEPT !.pc = "reconcile", !.id = id, !.phases = P,
                     !.phase = 1, !.todo = P[1], !.late = l]
    BY <1>1, Zenon DEF BeginReconcile
  <2> HIDE DEF P, l
  <2> QED BY <1>1, <1>3, <1>4, <2>1 DEF Workers
<1>2. CASE BeginTeardown(id)
  <2>1. ~BeginReconcile(id) BY <1>2 DEF BeginReconcile, BeginTeardown, Active
  <2>2. worker' = [IdleWorker EXCEPT !.pc = "teardown", !.id = id, !.phases = P,
                     !.phase = Len(P), !.todo = P[Len(P)]]
    BY <1>2, Zenon DEF BeginTeardown
  <2> HIDE DEF P, l
  <2> QED BY <1>3, <1>4, <2>1, <2>2 DEF Workers
<1> QED BY <1>1, <1>2

LEMMA TypeReconcile ==
  ASSUME TypeInv, ReconcilePass PROVE TypeInv'
PROOF
<1> USE DEF TypeInv, PhaseInRange, NumInRange, cosVars, objVars
<1>0. worker.id \in Ids /\ status[worker.id] \in Conditions /\ worker.late \in BOOLEAN
  BY DEF TypeOK, Workers
<1>1. ASSUME NEW o \in Objects, CreateObject(o) PROVE TypeInv'
  <2>1. obj' \in [Objects -> ObjectStates] /\ seen' \in [Objects -> ObjectStates]
    BY <1>0, <1>1, ObjectTypes, IdleTypes, WriteType DEF CreateObject
  <2>2. PICK up \in BOOLEAN : /\ ready' = IF up THEN ready \cup {o} ELSE ready
                              /\ Handled(o, IF up THEN "ok" ELSE "incomplete")
    BY <1>1 DEF CreateObject
  <2>3. ready' \subseteq Objects BY <2>2 DEF TypeOK
  <2>4. worker' \in Workers /\ worker'.pc = worker.pc /\ worker'.phase = worker.phase
        /\ worker'.phases = worker.phases
    BY <2>2, HandledType
  <2> QED BY <1>1, <2>1, <2>3, <2>4 DEF TypeOK, CreateObject
<1>2. ASSUME NEW o \in Objects, AdoptObject(o) PROVE TypeInv'
  <2>1. Adopted(Observed(o), worker.id) \in ObjectStates
    BY <1>0, ObjectTypes, ObservedType
  <2> QED BY <1>2, <2>1, ApplyType DEF TypeOK, AdoptObject
<1>3. ASSUME NEW o \in Objects, UpdateObject(o) PROVE TypeInv'
  <2>1. [Observed(o) EXCEPT !.rev = Num(worker.id), !.owners = {worker.id}] \in ObjectStates
    BY <1>0, ObjectTypes, ObservedType
  <2>2. CASE Handled(o, Probed(o)) /\ UNCHANGED <<obj, seen>>
    BY <1>3, <2>2, HandledType, ProbedType DEF TypeOK, UpdateObject
  <2>3. CASE ApplyObject(o, Observed(o),
               [Observed(o) EXCEPT !.rev = Num(worker.id), !.owners = {worker.id}])
    BY <1>3, <2>1, <2>3, ApplyType DEF TypeOK, UpdateObject
  <2> QED BY <1>3, <2>2, <2>3 DEF UpdateObject
<1>4. ASSUME NEW o \in Objects, SkipObject(o) PROVE TypeInv'
  BY <1>4, HandledType, ProbedType DEF TypeOK, SkipObject
<1>5. CASE NextPhase
  <2>1. worker \in Workers BY DEF TypeOK
  <2> QED BY <1>5, <2>1, NextPhaseType DEF TypeOK, NextPhase
<1>6. CASE StopAtPhase
  BY <1>6, <1>0, ConditionTypes, FinishType DEF TypeOK, StopAtPhase
<1>7. CASE CompleteRevision
  <2>1. Previous(worker.id) \subseteq Ids
    BY DEF TypeOK, Previous, Siblings, RevisionsOf
  <2> QED BY <1>7, <2>1 DEF TypeOK, Workers, CompleteRevision
<1>8. CASE MarkSucceeded
  BY <1>8, <1>0, ConditionTypes, FinishType DEF TypeOK, MarkSucceeded
<1>9. ASSUME NEW p \in Ids, ArchivePrevious(p) PROVE TypeInv'
  BY <1>9 DEF TypeOK, Workers, ArchivePrevious
<1> QED BY <1>1, <1>2, <1>3, <1>4, <1>5, <1>6, <1>7, <1>8, <1>9 DEF ReconcilePass

LEMMA TypeTeardown ==
  ASSUME TypeInv, TeardownPass PROVE TypeInv'
PROOF
<1> USE DEF TypeInv, PhaseInRange, NumInRange, cosVars, objVars
<1>0. /\ worker.id \in Ids /\ status[worker.id] \in Conditions
      /\ setRetryingConditions(status[worker.id], FALSE) \in Conditions
      /\ markAsArchived(status[worker.id]) \in Conditions
  BY ConditionTypes DEF TypeOK, Workers
<1>1. ASSUME NEW o \in Objects, TeardownGone(o) PROVE TypeInv'
  BY <1>1, HandledType DEF TypeOK, TeardownGone
<1>2. ASSUME NEW o \in Objects, TeardownRelease(o) PROVE TypeInv'
  <2>1. [obj[o] EXCEPT !.owners = seen[o].owners \ {worker.id}, !.ctrl = seen[o].ctrl]
          \in ObjectStates
    BY DEF TypeOK, ObjectStates
  <2>2. obj' \in [Objects -> ObjectStates] /\ seen' \in [Objects -> ObjectStates]
    <3>1. CASE worker.id \in seen[o].owners
      BY <1>2, <3>1, <2>1, WriteType DEF TeardownRelease
    <3>2. CASE worker.id \notin seen[o].owners
      BY <1>2, <3>2 DEF TeardownRelease, TypeOK
    <3> QED BY <3>1, <3>2
  <2> QED BY <1>2, <2>2, HandledType DEF TypeOK, TeardownRelease
<1>3. ASSUME NEW o \in Objects, TeardownDelete(o) PROVE TypeInv'
  <2>1. [seen[o] EXCEPT !.dying = TRUE] \in ObjectStates
    BY <1>0, ObjectTypes DEF TypeOK
  <2> QED BY <1>3, <2>1, WriteType, HandledType DEF TypeOK, TeardownDelete
<1>4. ASSUME NEW o \in Objects, TeardownConflict(o) PROVE TypeInv'
  BY <1>4, <1>0, FinishType DEF TypeOK, TeardownConflict
<1>5. CASE PreviousPhase
  <2>1. worker \in Workers BY DEF TypeOK
  <2> QED BY <1>5, <2>1, PreviousPhaseType DEF TypeOK, PreviousPhase
<1>6. CASE AwaitTeardown
  BY <1>6, <1>0, FinishType DEF TypeOK, AwaitTeardown
<1>7. CASE FinishTeardown
  BY <1>7, <1>0, FinishType DEF TypeOK, FinishTeardown
<1> QED BY <1>1, <1>2, <1>3, <1>4, <1>5, <1>6, <1>7 DEF TeardownPass

LEMMA TypeBegin ==
  ASSUME TypeInv, NEW id \in Ids, BeginPass(id) \/ BeginBlocked(id) PROVE TypeInv'
PROOF
<1> USE DEF TypeInv, PhaseInRange, NumInRange, cosVars, objVars
<1>1. CASE BeginReconcile(id)
  BY <1>1, BeginType DEF TypeOK, BeginReconcile
<1>2. CASE BeginTeardown(id)
  BY <1>2, BeginType DEF TypeOK, BeginTeardown
<1>3. CASE DeleteRevision(id)
  BY <1>3, IdleTypes DEF TypeOK, DeleteRevision, Forget
<1>4. CASE BeginBlocked(id)
  <2>1. /\ [status[id] EXCEPT !.prog = "Blocked"] \in Conditions
        /\ setRetryingConditions(status[id], DeadlineExceeded(id)) \in Conditions
    <3>1. DeadlineExceeded(id) \in BOOLEAN BY FlagsAssumption DEF DeadlineExceeded
    <3>2. status[id] \in Conditions BY DEF TypeOK
    <3> QED BY <3>1, <3>2, ConditionTypes
  <2>2. PICK c \in Conditions : Finish(id, c) BY <1>4, <2>1 DEF BeginBlocked
  <2>3. faults' \in 0..MaxFaults
    BY <1>4, BoundsAssumption DEF TypeOK, BeginBlocked, Fault
  <2> QED BY <1>4, <2>2, <2>3, FinishType DEF TypeOK, BeginBlocked
<1> QED BY <1>1, <1>2, <1>3, <1>4 DEF BeginPass

LEMMA TypeWorkerEnd ==
  ASSUME TypeInv, UpdateStatus \/ FailPass PROVE TypeInv'
PROOF
<1> USE DEF TypeInv, PhaseInRange, NumInRange, cosVars, objVars
<1>0. /\ worker.id \in Ids /\ status[worker.id] \in Conditions /\ worker.late \in BOOLEAN
      /\ worker.cond \in Conditions
  BY DEF TypeOK, Workers
<1>1. IdleWorker \in Workers /\ IdleWorker.pc = "idle" BY IdleTypes DEF IdleWorker
<1>2. CASE UpdateStatus
  BY <1>0, <1>1, <1>2 DEF TypeOK, UpdateStatus
<1>3. CASE FailPass
  <2>1. faults' \in 0..MaxFaults BY <1>3, BoundsAssumption DEF TypeOK, FailPass, Fault
  <2>2. (\E c \in Conditions : Finish(worker.id, c)) \/ worker' = IdleWorker
    BY <1>0, <1>3, ConditionTypes DEF FailPass
  <2>3. worker' \in Workers /\ worker'.pc \notin {"reconcile", "teardown"}
    BY <1>0, <1>1, <2>2, FinishType
  <2> QED BY <1>3, <2>1, <2>3 DEF TypeOK, FailPass
<1> QED BY <1>2, <1>3

(* A non-empty set of naturals has a least element. *)
LEMMA NatMin ==
  ASSUME NEW T \in SUBSET Nat, T # {}
  PROVE  \E x \in T : \A y \in T : x <= y
PROOF
<1> DEFINE R == OpToRel(<, Nat)
<1>1. IsWellFoundedOn(R, Nat) BY NatLessThanWellFounded
<1>2. PICK x \in T : \A y \in T : ~(<<y, x>> \in R)
  <2> HIDE DEF R
  <2> QED BY <1>1, WFMin
<1>3. \A y \in T : ~(y < x) BY <1>2 DEF OpToRel
<1> QED BY <1>3

(* A non-empty set of revisions has an oldest and a latest one. *)
LEMMA Extremes ==
  ASSUME NEW S \in SUBSET Ids, S # {}
  PROVE  /\ Oldest(S) \in S /\ \A s \in S : Num(Oldest(S)) <= Num(s)
         /\ Latest(S) \in S /\ \A s \in S : Num(s) <= Num(Latest(S))
PROOF
<1>0. \A s \in S : Num(s) \in 1..MaxRevision BY DEF Num, Ids
<1>1. \E id \in S : \A s \in S : Num(id) <= Num(s)
  <2> DEFINE T == {Num(s) : s \in S}
  <2>1. T \in SUBSET Nat /\ T # {} BY <1>0, BoundsAssumption
  <2>2. PICK x \in T : \A y \in T : x <= y
    <3> HIDE DEF T
    <3> QED BY <2>1, NatMin
  <2> QED BY <2>2
<1>2. \E id \in S : \A s \in S : Num(s) <= Num(id)
  <2> DEFINE T == {MaxRevision - Num(s) : s \in S}
  <2>1. T \in SUBSET Nat /\ T # {} BY <1>0, BoundsAssumption
  <2>2. PICK x \in T : \A y \in T : x <= y
    <3> HIDE DEF T
    <3> QED BY <2>1, NatMin
  <2>3. PICK id \in S : x = MaxRevision - Num(id) BY <2>2
  <2>4. \A s \in S : MaxRevision - Num(id) <= MaxRevision - Num(s) BY <2>2, <2>3
  <2> QED BY <1>0, <2>3, <2>4, BoundsAssumption
<1>3. Oldest(S) \in S /\ \A s \in S : Num(Oldest(S)) <= Num(s) BY <1>1 DEF Oldest
<1>4. Latest(S) \in S /\ \A s \in S : Num(s) <= Num(Latest(S)) BY <1>2 DEF Latest
<1> QED BY <1>3, <1>4

LEMMA ListedType ==
  ASSUME TypeOK, NEW e PROVE Listed(e) \in SUBSET Ids
PROOF BY DEF TypeOK, Listed

LEMMA NumberType ==
  ASSUME NEW S \in SUBSET Ids
  PROVE  latestRevisionNumber(S) \in 0..MaxRevision
PROOF
<1>1. CASE S = {} BY <1>1, BoundsAssumption DEF latestRevisionNumber
<1>2. CASE S # {}
  <2>1. Latest(S) \in Ids BY <1>2, Extremes
  <2> QED BY <1>2, <2>1, BoundsAssumption DEF latestRevisionNumber, Num, Ids
<1> QED BY <1>1, <1>2

LEMMA TypeApplier ==
  ASSUME TypeInv, (\E e \in Extensions : ResolveBundle(e)) \/ ApplyPass \/ FailApply
  PROVE  TypeInv'
PROOF
<1> USE DEF TypeInv, PhaseInRange, NumInRange, cosVars, objVars
<1>0. IdleApplier \in Appliers /\ IdleApplier.pc = "idle" BY IdleTypes DEF IdleApplier
<1>1. ASSUME NEW e \in Extensions, ResolveBundle(e) PROVE TypeInv'
  <2> DEFINE d == IF Rolling(e) = {} THEN want[e]
                  ELSE [want[e] EXCEPT !.image = content[Oldest(Rolling(e))].image]
  <2>1. d \in Contents
    <3>1. CASE Rolling(e) = {} BY <3>1 DEF TypeOK
    <3>2. CASE Rolling(e) # {}
      <4>1. Rolling(e) \in SUBSET Ids BY ListedType DEF Rolling
      <4>2. content[Oldest(Rolling(e))] \in Contents BY <3>2, <4>1, Extremes DEF TypeOK
      <4>3. want[e] \in Contents BY DEF TypeOK
      <4> QED BY <3>2, <4>2, <4>3 DEF Contents
    <3> QED BY <3>1, <3>2
  <2>2. applier' = [IdleApplier EXCEPT !.pc = "resolved", !.ext = e, !.desired = d]
    BY <1>1, Zenon DEF ResolveBundle
  <2> HIDE DEF d
  <2>3. applier' \in Appliers /\ applier'.pc # "create" BY <1>0, <2>1, <2>2 DEF Appliers
  <2> QED BY <1>1, <2>3 DEF TypeOK, ResolveBundle
<1>2. CASE PatchLatest
  <2> DEFINE S == Listed(applier.ext)
             n == latestRevisionNumber(S)
             E == Expired(S)
  <2>1. S \in SUBSET Ids /\ E \in SUBSET Ids /\ n \in 0..MaxRevision
    BY ListedType, NumberType DEF Expired
  <2>2. \/ applier' = IdleApplier
        \/ /\ n < MaxRevision
           /\ applier' = [applier EXCEPT !.pc = "create", !.expired = E, !.num = n + 1]
    BY <1>2, Zenon DEF PatchLatest
  <2>3. applier \in Appliers BY DEF TypeOK
  <2> HIDE DEF S, n, E
  <2>4. /\ applier' \in Appliers
        /\ applier'.pc = "create" => applier'.num \in 1..MaxRevision
    <3>1. CASE applier' = IdleApplier BY <1>0, <3>1
    <3>2. CASE /\ n < MaxRevision
               /\ applier' = [applier EXCEPT !.pc = "create", !.expired = E, !.num = n + 1]
      <4>1. n + 1 \in 0..MaxRevision /\ n + 1 \in 1..MaxRevision
        BY <2>1, <3>2, BoundsAssumption
      <4> QED BY <2>1, <2>3, <3>2, <4>1 DEF Appliers
    <3> QED BY <2>2, <3>1, <3>2
  <2> QED BY <1>2, <2>4 DEF TypeOK, PatchLatest
<1>3. ASSUME NEW id \in Ids, CollectRevision(id) PROVE TypeInv'
  <2>1. applier \in Appliers /\ applier' = [applier EXCEPT !.expired = @ \ {id}]
    BY <1>3 DEF TypeOK, CollectRevision
  <2>2. applier' \in Appliers /\ applier'.pc = applier.pc /\ applier'.num = applier.num
    BY <2>1 DEF Appliers
  <2> QED BY <1>3, <2>2, IdleTypes DEF TypeOK, CollectRevision, Forget
<1>4. CASE CreateRevision
  <2> DEFINE id == <<applier.ext, applier.num>>
  <2>1. applier.desired \in Contents BY DEF TypeOK, Appliers
  <2>2. id \in Ids BY <1>4 DEF TypeOK, Appliers, CreateRevision, Ids
  <2> QED BY <1>0, <1>4, <2>1, <2>2 DEF TypeOK, CreateRevision
<1>5. CASE FailApply
  BY <1>0, <1>5, BoundsAssumption DEF TypeOK, FailApply, Fault
<1> QED BY <1>1, <1>2, <1>3, <1>4, <1>5 DEF ApplyPass

LEMMA TypeCluster ==
  ASSUME TypeInv, Cluster \/ Crash PROVE TypeInv'
PROOF
<1> USE DEF TypeInv, PhaseInRange, NumInRange, cosVars, objVars
<1>0. ASSUME NEW o \in Objects, Vanish(o)
      PROVE  /\ obj' \in [Objects -> ObjectStates] /\ seen' \in [Objects -> ObjectStates]
             /\ ready' \subseteq Objects
  BY <1>0, IdleTypes, WriteType DEF TypeOK, Vanish
<1>1. ASSUME NEW o \in Objects, BecomeReady(o) PROVE TypeInv'
  BY <1>1 DEF TypeOK, BecomeReady
<1>2. ASSUME NEW o \in Objects, BecomeUnready(o) PROVE TypeInv'
  BY <1>2, BoundsAssumption DEF TypeOK, BecomeUnready, Fault
<1>3. ASSUME NEW o \in Objects, FinalizeObject(o) PROVE TypeInv'
  BY <1>3, <1>0 DEF TypeOK, FinalizeObject
<1>4. ASSUME NEW o \in Objects, UserDeletes(o) PROVE TypeInv'
  <2>1. faults' \in 0..MaxFaults BY <1>4, BoundsAssumption DEF TypeOK, UserDeletes, Fault
  <2> QED BY <1>4, <1>0, <2>1 DEF TypeOK, UserDeletes
<1>5. ASSUME NEW o \in Objects, KubeCollect(o) PROVE TypeInv'
  <2> DEFINE left == obj[o].owners \cap revs
             v == [obj[o] EXCEPT !.owners = left, !.ctrl = IF @ \in left THEN @ ELSE Nobody]
  <2>1. v \in ObjectStates BY DEF TypeOK, ObjectStates
  <2>2. \/ Vanish(o)
        \/ WriteObject(o, v) /\ UNCHANGED ready
    BY <1>5 DEF KubeCollect
  <2> HIDE DEF v
  <2>3. /\ obj' \in [Objects -> ObjectStates] /\ seen' \in [Objects -> ObjectStates]
        /\ ready' \subseteq Objects
    BY <1>0, <2>1, <2>2, WriteType DEF TypeOK
  <2> QED BY <1>5, <2>3 DEF TypeOK, KubeCollect
<1>6. ASSUME NEW o \in Objects, SyncObject(o) PROVE TypeInv'
  BY <1>6 DEF TypeOK, SyncObject
<1>7. ASSUME NEW id \in Ids, PassDeadline(id) PROVE TypeInv'
  BY <1>7 DEF TypeOK, PassDeadline
<1>8. ASSUME NEW e \in Extensions, ChangeSpec(e) PROVE TypeInv'
  BY <1>8 DEF TypeOK, ChangeSpec
<1>9. CASE SyncRevisions BY <1>9 DEF TypeOK, SyncRevisions
<1>10. CASE Crash
  <2>1. faults' \in 0..MaxFaults BY <1>10, BoundsAssumption DEF TypeOK, Crash, Fault
  <2>2. /\ IdleWorker.pc = "idle" /\ IdleWorker \in Workers
        /\ IdleApplier.pc = "idle" /\ IdleApplier \in Appliers
    BY IdleTypes DEF IdleWorker, IdleApplier
  <2> QED BY <1>10, <2>1, <2>2 DEF TypeOK, Crash
<1> QED BY <1>1, <1>2, <1>3, <1>4, <1>5, <1>6, <1>7, <1>8, <1>9, <1>10 DEF Cluster

(* Every step keeps the types, so every behaviour does. *)
LEMMA TypeStep == TypeInv /\ [Next]_vars => TypeInv'
PROOF
<1> SUFFICES ASSUME TypeInv, [Next]_vars PROVE TypeInv' OBVIOUS
<1>1. CASE UNCHANGED vars
  BY <1>1 DEF TypeInv, TypeOK, PhaseInRange, NumInRange, vars, cosVars, objVars
<1>2. CASE Next
  BY <1>2, TypeBegin, TypeReconcile, TypeTeardown, TypeWorkerEnd, TypeApplier, TypeCluster
     DEF Next
<1> QED BY <1>1, <1>2

LEMMA TypeInvariance == Spec => []TypeInv
PROOF BY TypeInit, TypeStep, PTL DEF Spec

(* Type correctness of both controllers and of everything they share: in
   particular a pass never leaves the phases of its revision. *)
THEOREM TypeCorrect == Spec => []TypeOK
PROOF BY TypeInvariance, PTL DEF TypeInv

-----------------------------------------------------------------------------
(* Archiving. The strengthening ties the two passes in progress to the
   revisions: a pass over an active revision works on one that stays active,
   what it is about to archive is older and still active, and what the applier
   is about to delete is archived. *)
SetsNested == archived \subseteq revs /\ deleting \subseteq archived /\ finalizer \subseteq revs
WorkerOnActive == worker.pc \in {"reconcile", "archive"} => Active(worker.id)
PrevOlder == worker.pc = "archive" => \A p \in worker.prev : Active(p) /\ Newer(worker.id, p)
ExpiredArchived == \A id \in applier.expired : id \in archived \/ id \notin revs
LifecycleInv ==
  SetsNested /\ ArchivedSuperseded /\ WorkerOnActive /\ PrevOlder /\ ExpiredArchived

LEMMA NewerTransitive ==
  ASSUME NEW a \in Ids, NEW b \in Ids, NEW c \in Ids, Newer(a, b), Newer(b, c)
  PROVE  Newer(a, c)
PROOF BY BoundsAssumption DEF Newer, Ids, Num, Ext

(* Steps that leave the set of revisions and their lifecycle alone. *)
LEMMA LifecycleFrame ==
  ASSUME LifecycleInv, UNCHANGED <<revs, archived, deleting>>, finalizer' \subseteq revs,
         \/ worker' = worker
         \/ worker'.pc \notin {"reconcile", "archive"}
         \/ worker'.pc = worker.pc /\ worker'.id = worker.id /\ worker'.prev = worker.prev,
         applier' = applier \/ applier'.expired = {}
  PROVE  LifecycleInv'
PROOF BY DEF LifecycleInv, SetsNested, ArchivedSuperseded, WorkerOnActive, PrevOlder,
             ExpiredArchived, Active

LEMMA LifecycleInit == Init => LifecycleInv
PROOF BY DEF Init, LifecycleInv, SetsNested, ArchivedSuperseded, WorkerOnActive, PrevOlder,
             ExpiredArchived, IdleWorker, IdleApplier

(* The API server forgets only archived revisions, which no pass needs. *)
LEMMA LifecycleForget ==
  ASSUME LifecycleInv, NEW id \in archived, Forget(id), worker' = worker,
         \A a \in applier'.expired : a \in applier.expired
  PROVE  LifecycleInv'
PROOF
<1> USE DEF LifecycleInv, Forget
<1>1. \A s : Active(s) => Active(s)' BY DEF SetsNested, Active
<1>2. ArchivedSuperseded' BY <1>1 DEF ArchivedSuperseded, Active
<1>3. SetsNested' BY DEF SetsNested
<1>4. WorkerOnActive' /\ PrevOlder' BY <1>1 DEF WorkerOnActive, PrevOlder
<1>5. ExpiredArchived' BY DEF ExpiredArchived
<1> QED BY <1>2, <1>3, <1>4, <1>5

LEMMA LifecycleArchive ==
  ASSUME TypeInv, LifecycleInv, NEW p \in Ids, ArchivePrevious(p)
  PROVE  LifecycleInv'
PROOF
<1>1. PICK w \in Ids : w = worker.id BY DEF TypeInv, TypeOK, Workers
<1>0. worker \in Workers BY DEF TypeInv, TypeOK
<1>2. /\ Active(w) /\ Active(p) /\ Newer(w, p) /\ p # w
      /\ \A q \in worker.prev : Active(q) /\ Newer(w, q)
  BY <1>1, <1>0, BoundsAssumption
     DEF ArchivePrevious, LifecycleInv, WorkerOnActive, PrevOlder, Newer, Ids, Num, Ext
<1>3. /\ archived' = archived \cup {p} /\ UNCHANGED <<revs, deleting, finalizer, applier>>
      /\ worker'.pc = "archive" /\ worker'.id = w /\ worker'.prev = worker.prev \ {p}
  BY <1>1, <1>0 DEF ArchivePrevious, Workers, cosVars
<1>4. \A s : Active(s) /\ s # p => Active(s)' BY <1>3 DEF Active
<1>5. SetsNested' BY <1>2, <1>3 DEF LifecycleInv, SetsNested, Active
<1>6. ArchivedSuperseded'
  <2> SUFFICES ASSUME NEW id \in archived' PROVE \E s \in revs' : Newer(s, id) /\ Active(s)'
    BY DEF ArchivedSuperseded
  <2>1. w \in revs' /\ Active(w)' BY <1>2, <1>3, <1>4 DEF Active
  <2>2. CASE id = p BY <1>2, <2>1, <2>2
  <2>3. CASE id # p
    <3>1. id \in archived /\ id \in Ids BY <1>3, <2>3 DEF TypeInv, TypeOK
    <3>2. PICK s \in revs : Newer(s, id) /\ Active(s)
      BY <3>1 DEF LifecycleInv, ArchivedSuperseded
    <3>3. CASE s = p BY <1>2, <2>1, <3>1, <3>2, <3>3, NewerTransitive
    <3>4. CASE s # p BY <1>3, <1>4, <3>2, <3>4
    <3> QED BY <3>3, <3>4
  <2> QED BY <2>2, <2>3
<1>7. WorkerOnActive' BY <1>2, <1>3, <1>4 DEF WorkerOnActive
<1>8. PrevOlder' BY <1>2, <1>3, <1>4 DEF PrevOlder
<1>9. ExpiredArchived' BY <1>3 DEF LifecycleInv, ExpiredArchived
<1> QED BY <1>5, <1>6, <1>7, <1>8, <1>9 DEF LifecycleInv

LEMMA LifecycleReconcile ==
  ASSUME TypeInv, LifecycleInv, ReconcilePass PROVE LifecycleInv'
PROOF
<1> USE DEF cosVars, objVars
<1>0. /\ worker \in Workers /\ worker.id \in Ids /\ TypeOK /\ worker.late \in BOOLEAN
      /\ status[worker.id] \in Conditions /\ SetsNested
  BY DEF TypeInv, TypeOK, Workers, LifecycleInv
<1>1. ASSUME NEW o \in Objects, CreateObject(o) PROVE LifecycleInv'
  <2>1. PICK r \in {"ok", "incomplete", "collision", "error"} : Handled(o, r)
    BY <1>1 DEF CreateObject
  <2> QED BY <1>0, <1>1, <2>1, HandledType, LifecycleFrame DEF CreateObject, SetsNested
<1>2. ASSUME NEW o \in Objects, AdoptObject(o) PROVE LifecycleInv'
  <2>1. Adopted(Observed(o), worker.id) \in ObjectStates
    BY <1>0, ObjectTypes, ObservedType
  <2> QED BY <1>0, <1>2, <2>1, ApplyType, LifecycleFrame DEF AdoptObject, SetsNested
<1>3. ASSUME NEW o \in Objects, UpdateObject(o) PROVE LifecycleInv'
  <2>1. [Observed(o) EXCEPT !.rev = Num(worker.id), !.owners = {worker.id}] \in ObjectStates
    BY <1>0, ObjectTypes, ObservedType
  <2>2. worker'.pc = worker.pc /\ worker'.id = worker.id /\ worker'.prev = worker.prev
    <3>1. CASE Handled(o, Probed(o)) BY <1>0, <3>1, HandledType, ProbedType
    <3>2. CASE ApplyObject(o, Observed(o),
                 [Observed(o) EXCEPT !.rev = Num(worker.id), !.owners = {worker.id}])
      BY <1>0, <2>1, <3>2, ApplyType
    <3> QED BY <1>3, <3>1, <3>2 DEF UpdateObject
  <2> QED BY <1>0, <1>3, <2>2, LifecycleFrame DEF UpdateObject, SetsNested
<1>4. ASSUME NEW o \in Objects, SkipObject(o) PROVE LifecycleInv'
  <2>1. PICK r \in {"ok", "incomplete", "collision", "error"} : Handled(o, r)
    BY <1>4, ProbedType DEF SkipObject
  <2> QED BY <1>0, <1>4, <2>1, HandledType, LifecycleFrame DEF SkipObject, SetsNested
<1>5. CASE NextPhase
  <2>1. worker'.pc = worker.pc /\ worker'.id = worker.id /\ worker'.prev = worker.prev
    BY <1>0, <1>5 DEF NextPhase, Workers
  <2> QED BY <1>0, <1>5, <2>1, LifecycleFrame DEF NextPhase, SetsNested
<1>6. CASE StopAtPhase
  <2>1. worker'.pc \notin {"reconcile", "archive"}
    BY <1>0, <1>6, ConditionTypes, FinishType DEF StopAtPhase
  <2> QED BY <1>0, <1>6, <2>1, LifecycleFrame DEF StopAtPhase, SetsNested
<1>7. CASE CompleteRevision
  <2>1. /\ worker'.pc = "archive" /\ worker'.id = worker.id
        /\ worker'.prev = Previous(worker.id)
    BY <1>0, <1>7 DEF CompleteRevision, Workers
  <2>2. Active(worker.id) BY <1>7 DEF LifecycleInv, WorkerOnActive, CompleteRevision
  <2>3. \A q \in Previous(worker.id) : Active(q) /\ Newer(worker.id, q)
    BY <1>0, BoundsAssumption
       DEF Previous, Siblings, RevisionsOf, Newer, Num, Ids, TypeOK
  <2>4. UNCHANGED <<revs, archived, deleting, finalizer, applier>>
    BY <1>7 DEF CompleteRevision
  <2>5. WorkerOnActive' /\ PrevOlder'
    BY <2>1, <2>2, <2>3, <2>4 DEF WorkerOnActive, PrevOlder, Active
  <2> QED BY <2>4, <2>5
          DEF LifecycleInv, SetsNested, ArchivedSuperseded, ExpiredArchived, Active
<1>8. CASE MarkSucceeded
  <2>1. worker'.pc \notin {"reconcile", "archive"}
    BY <1>0, <1>8, ConditionTypes, FinishType DEF MarkSucceeded
  <2> QED BY <1>0, <1>8, <2>1, LifecycleFrame DEF MarkSucceeded, SetsNested
<1>9. ASSUME NEW p \in Ids, ArchivePrevious(p) PROVE LifecycleInv'
  BY <1>9, LifecycleArchive
<1> QED BY <1>1, <1>2, <1>3, <1>4, <1>5, <1>6, <1>7, <1>8, <1>9 DEF ReconcilePass

LEMMA LifecycleTeardown ==
  ASSUME TypeInv, LifecycleInv, TeardownPass PROVE LifecycleInv'
PROOF
<1> USE DEF cosVars, objVars
<1>0. /\ worker.id \in Ids /\ TypeOK /\ SetsNested /\ worker \in Workers
      /\ setRetryingConditions(status[worker.id], FALSE) \in Conditions
      /\ markAsArchived(status[worker.id]) \in Conditions
  BY ConditionTypes DEF TypeInv, TypeOK, Workers, LifecycleInv
<1>1. UNCHANGED <<revs, archived, deleting, applier>> /\ finalizer' \subseteq revs
  BY <1>0 DEF SetsNested, TeardownPass, TeardownGone, TeardownRelease, TeardownDelete,
              TeardownConflict, PreviousPhase, AwaitTeardown, FinishTeardown
<1>2. ASSUME NEW o, NEW r \in {"ok", "incomplete"}, worker.pc = "teardown", Handled(o, r)
      PROVE  worker'.pc = "teardown"
  BY <1>0, <1>2 DEF Handled, Workers
<1>3. worker'.pc \notin {"reconcile", "archive"}
  <2>1. ASSUME NEW o \in Objects,
               TeardownGone(o) \/ TeardownRelease(o) \/ TeardownDelete(o)
        PROVE  worker'.pc = "teardown"
    BY <1>2, <2>1 DEF TeardownGone, TeardownRelease, TeardownDelete
  <2>2. ASSUME NEW o \in Objects, TeardownConflict(o)
        PROVE  worker'.pc \notin {"reconcile", "archive"}
    BY <1>0, <2>2, FinishType DEF TeardownConflict
  <2>3. CASE PreviousPhase BY <1>0, <2>3 DEF PreviousPhase, Workers
  <2>4. CASE AwaitTeardown \/ FinishTeardown
    BY <1>0, <2>4, FinishType DEF AwaitTeardown, FinishTeardown
  <2> QED BY <2>1, <2>2, <2>3, <2>4 DEF TeardownPass
<1> QED BY <1>1, <1>3, LifecycleFrame

LEMMA LifecycleStep == TypeInv /\ LifecycleInv /\ [Next]_vars => LifecycleInv'
PROOF
<1> SUFFICES ASSUME TypeInv, LifecycleInv, [Next]_vars PROVE LifecycleInv' OBVIOUS
<1> USE DEF cosVars, objVars
<1>0. TypeOK /\ SetsNested BY DEF TypeInv, LifecycleInv
<1>1. CASE UNCHANGED vars
  BY <1>0, <1>1, LifecycleFrame DEF vars, SetsNested
<1>2. ASSUME NEW id \in Ids, BeginReconcile(id) PROVE LifecycleInv'
  <2>1. worker'.pc = "reconcile" /\ worker'.id = id BY <1>0, <1>2, BeginType DEF TypeOK
  <2>2. UNCHANGED <<revs, archived, deleting, applier>> /\ finalizer' \subseteq revs
        /\ Active(id)
    BY <1>0, <1>2 DEF BeginReconcile, SetsNested, Active
  <2>3. WorkerOnActive' /\ PrevOlder'
    BY <2>1, <2>2 DEF WorkerOnActive, PrevOlder, Active
  <2> QED BY <2>2, <2>3
          DEF LifecycleInv, SetsNested, ArchivedSuperseded, ExpiredArchived, Active
<1>3. ASSUME NEW id \in Ids, BeginTeardown(id) PROVE LifecycleInv'
  <2>1. worker'.pc = "teardown"
    BY <1>0, <1>3, BeginType DEF TypeOK, BeginReconcile, BeginTeardown, Active
  <2> QED BY <1>0, <1>3, <2>1, LifecycleFrame DEF BeginTeardown, SetsNested
<1>4. ASSUME NEW id \in Ids, DeleteRevision(id) PROVE LifecycleInv'
  BY <1>0, <1>4, LifecycleForget DEF DeleteRevision, SetsNested
<1>5. ASSUME NEW id \in Ids, BeginBlocked(id) PROVE LifecycleInv'
  <2>1. worker'.pc \notin {"reconcile", "archive"}
    <3>1. status[id] \in Conditions /\ DeadlineExceeded(id) \in BOOLEAN
      BY <1>0, FlagsAssumption DEF TypeOK, DeadlineExceeded
    <3>2. PICK c \in Conditions : Finish(id, c)
      BY <1>5, <3>1, ConditionTypes DEF BeginBlocked
    <3> QED BY <3>2, FinishType
  <2> QED BY <1>0, <1>5, <2>1, LifecycleFrame DEF BeginBlocked, SetsNested
<1>6. CASE UpdateStatus \/ FailPass
  <2>1. worker'.pc \notin {"reconcile", "archive"}
    <3>1. /\ worker.id \in Ids /\ status[worker.id] \in Conditions
          /\ worker.late \in BOOLEAN
      BY <1>0 DEF TypeOK, Workers
    <3>2. (\E c \in Conditions : Finish(worker.id, c)) \/ worker' = IdleWorker
      BY <1>6, <3>1, ConditionTypes DEF UpdateStatus, FailPass
    <3> QED BY <3>1, <3>2, FinishType DEF IdleWorker
  <2> QED BY <1>0, <1>6, <2>1, LifecycleFrame DEF UpdateStatus, FailPass, SetsNested
<1>7. ASSUME NEW e \in Extensions, ResolveBundle(e) PROVE LifecycleInv'
  <2>1. applier'.expired = {} BY <1>7 DEF ResolveBundle, IdleApplier
  <2> QED BY <1>0, <1>7, <2>1, LifecycleFrame DEF ResolveBundle, SetsNested
<1>8. CASE PatchLatest
  <2>1. UNCHANGED <<revs, archived, deleting, finalizer, worker>>
    BY <1>8 DEF PatchLatest
  <2>2. applier'.expired \subseteq archived
    <3>1. applier \in Appliers BY <1>0 DEF TypeOK
    <3>2. IdleApplier.expired = {} BY DEF IdleApplier
    <3> QED BY <1>8, <3>1, <3>2 DEF PatchLatest, Expired, Appliers
  <2> QED BY <2>1, <2>2 DEF LifecycleInv, SetsNested, ArchivedSuperseded, WorkerOnActive,
                            PrevOlder, ExpiredArchived, Active
<1>9. CASE CreateRevision
  <2>1. /\ revs \subseteq revs' /\ UNCHANGED <<archived, deleting, finalizer, worker>>
        /\ applier'.expired = {}
    BY <1>9 DEF CreateRevision, IdleApplier
  <2>2. \A s : Active(s) => Active(s)' BY <2>1 DEF Active
  <2> QED BY <2>1, <2>2 DEF LifecycleInv, SetsNested, ArchivedSuperseded, WorkerOnActive,
                            PrevOlder, ExpiredArchived
<1>10. ASSUME NEW id \in Ids, CollectRevision(id) PROVE LifecycleInv'
  <2>1. applier'.expired \subseteq applier.expired /\ worker' = worker /\ id \in applier.expired
    BY <1>0, <1>10 DEF CollectRevision, TypeOK, Appliers
  <2>2. CASE id \in revs \ finalizer /\ Forget(id)
    BY <2>1, <2>2, LifecycleForget DEF LifecycleInv, ExpiredArchived
  <2>3. CASE id \notin revs /\ UNCHANGED <<cosVars, status>>
    BY <1>0, <2>1, <2>3 DEF LifecycleInv, SetsNested, ArchivedSuperseded, WorkerOnActive,
                            PrevOlder, ExpiredArchived, Active
  <2>4. CASE id \in finalizer /\ deleting' = deleting \cup {id}
             /\ UNCHANGED <<revs, archived, finalizer>>
    <3>1. id \in archived BY <1>0, <2>1, <2>4 DEF LifecycleInv, SetsNested, ExpiredArchived
    <3>2. \A s : Active(s) => Active(s)' BY <2>4, <3>1 DEF Active
    <3>3. SetsNested' BY <1>0, <2>4, <3>1 DEF SetsNested
    <3>4. ExpiredArchived' BY <2>1, <2>4 DEF LifecycleInv, ExpiredArchived
    <3> QED BY <2>1, <2>4, <3>2, <3>3, <3>4
            DEF LifecycleInv, ArchivedSuperseded, WorkerOnActive, PrevOlder
  <2> QED BY <1>10, <2>2, <2>3, <2>4 DEF CollectRevision
<1>11. CASE FailApply
  <2>1. applier'.expired = {} BY <1>11 DEF FailApply, IdleApplier
  <2> QED BY <1>0, <1>11, <2>1, LifecycleFrame DEF FailApply, SetsNested
<1>12. CASE Cluster
  <2>1. UNCHANGED <<revs, archived, deleting, finalizer, worker, applier>>
    BY <1>12 DEF Cluster, BecomeReady, BecomeUnready, FinalizeObject, UserDeletes, KubeCollect,
                 SyncObject, PassDeadline, ChangeSpec, SyncRevisions
  <2> QED BY <1>0, <2>1, LifecycleFrame DEF SetsNested
<1>13. CASE Crash
  <2>1. worker'.pc = "idle" /\ applier'.expired = {} BY <1>13 DEF Crash, IdleWorker, IdleApplier
  <2> QED BY <1>0, <1>13, <2>1, LifecycleFrame DEF Crash, SetsNested
<1> QED BY <1>1, <1>2, <1>3, <1>4, <1>5, <1>6, <1>7, <1>8, <1>9, <1>10, <1>11, <1>12, <1>13,
           LifecycleReconcile, LifecycleTeardown
        DEF Next, BeginPass, ApplyPass

LEMMA LifecycleInvariance == Spec => []LifecycleInv
PROOF BY TypeInvariance, LifecycleInit, LifecycleStep, PTL DEF Spec

(* Whatever is lost, stale or crashes, an archived revision always has a newer
   active one above it: archiving, retention and deletion never leave an
   extension with archived revisions only. *)
THEOREM ArchivedAlwaysSuperseded == Spec => []ArchivedSuperseded
PROOF BY LifecycleInvariance, PTL DEF LifecycleInv

-----------------------------------------------------------------------------
(* Ownership of objects, when the engine's cache is up to date. *)
CacheFresh == seen = obj
AbsentClean == \A o \in Objects : ~obj[o].ex => obj[o] = Absent
ControllerAnnotated == \A o \in Objects : obj[o].ctrl \in Ids => obj[o].rev = Num(obj[o].ctrl)
OwnershipInv == CacheFresh /\ AbsentClean /\ ControllerAnnotated

(* What a step may do to one object: leave it, remove it, create it, adopt it
   from a sibling or from nobody, apply it again, mark it for deletion, or
   drop owners. *)
ObjectStep(v, w) ==
  \/ w = v
  \/ w = Absent
  \/ ~v.ex /\ \E id \in Ids : w = Fresh(id)
  \/ /\ v.ex
     /\ \E id \in Ids : /\ w = Adopted(v, id)
                        /\ \/ v.ctrl = Nobody /\ v.rev = 0
                           \/ v.ctrl \in Ids /\ Ext(v.ctrl) = Ext(id) /\ v.rev < Num(id)
  \/ v.ctrl \in Ids /\ \E id \in Ids : v.ctrl = id /\ w = [v EXCEPT !.rev = Num(id), !.owners = {id}]
  \/ v.ex /\ w = [v EXCEPT !.dying = TRUE]
  \/ v.ex /\ \E S \in SUBSET v.owners : w = [v EXCEPT !.owners = S]
  \/ v.ex /\ \E S \in SUBSET v.owners : w = [v EXCEPT !.owners = S, !.ctrl = Nobody]
ObjectSteps == seen' = obj' /\ \A o \in Objects : ObjectStep(obj[o], obj'[o])

LEMMA WriteStep ==
  ASSUME TypeOK, CacheFresh, ObjectLag = FALSE, NEW o \in Objects, NEW v,
         WriteObject(o, v), ObjectStep(obj[o], v)
  PROVE  ObjectSteps
PROOF BY DEF TypeOK, CacheFresh, WriteObject, ObjectSteps, ObjectStep

LEMMA NoObjectStep ==
  ASSUME CacheFresh, UNCHANGED <<obj, seen>> PROVE ObjectSteps
PROOF BY DEF CacheFresh, ObjectSteps, ObjectStep

LEMMA VanishStep ==
  ASSUME TypeOK, CacheFresh, ObjectLag = FALSE, NEW o \in Objects, Vanish(o)
  PROVE  ObjectSteps
PROOF BY WriteStep DEF Vanish, ObjectStep

(* Every step treats every object in one of these ways, unless revisions are
   allowed to take objects from any controller. *)
LEMMA EveryObjectStep ==
  ASSUME TypeInv, CacheFresh, AbsentClean, ObjectLag = FALSE, Protection # "None",
         [Next]_vars
  PROVE  ObjectSteps
PROOF
<1> USE DEF cosVars, objVars
<1>0. /\ TypeOK /\ worker.id \in Ids /\ seen = obj
      /\ \A o \in Objects : Observed(o) = obj[o]
      /\ \A o \in Objects : obj[o] \in ObjectStates
  BY DEF TypeInv, TypeOK, Workers, CacheFresh, Observed
<1>1. CASE UNCHANGED vars BY <1>0, <1>1, NoObjectStep DEF vars
<1>2. ASSUME NEW o \in Objects, CreateObject(o) PROVE ObjectSteps
  <2>1. ObjectStep(obj[o], Fresh(worker.id)) BY <1>0, <1>2 DEF CreateObject, ObjectStep
  <2> QED BY <1>0, <1>2, <2>1, WriteStep DEF CreateObject
<1>3. ASSUME NEW o \in Objects, AdoptObject(o) PROVE ObjectSteps
  <2> DEFINE id == worker.id
             v == obj[o]
  <2>1. v.ex /\ ~Controls(id, v) /\ ~Collides(id, v) /\ ~Progressed(id, v)
        /\ ApplyObject(o, v, Adopted(v, id))
    BY <1>0, <1>3 DEF AdoptObject
  <2>2. v.ctrl \in Ids \cup {Nobody} /\ v.rev \in 0..MaxRevision BY <1>0 DEF ObjectStates
  <2>3. \A s \in Siblings(id) : s \in Ids /\ Ext(s) = Ext(id)
    BY <1>0 DEF Siblings, RevisionsOf, TypeOK
  <2>4. Num(id) \in Nat BY <1>0, BoundsAssumption DEF Num, Ids
  <2>5. \/ v.ctrl = Nobody /\ v.rev = 0
        \/ v.ctrl \in Siblings(id) /\ v.rev < Num(id)
    BY <2>1, <2>2, <2>4, NobodyAssumption, BoundsAssumption
       DEF Controls, Collides, Progressed
  <2>6. ObjectStep(v, Adopted(v, id)) BY <1>0, <2>1, <2>3, <2>5 DEF ObjectStep
  <2> QED BY <1>0, <2>1, <2>6, WriteStep, NoObjectStep DEF ApplyObject
<1>4. ASSUME NEW o \in Objects, UpdateObject(o) PROVE ObjectSteps
  <2> DEFINE id == worker.id
             v == obj[o]
             w == [v EXCEPT !.rev = Num(id), !.owners = {id}]
  <2>1. v.ctrl = id /\ (UNCHANGED <<obj, seen>> \/ ApplyObject(o, v, w))
    BY <1>0, <1>4 DEF UpdateObject, Controls
  <2>2. ObjectStep(v, w) BY <1>0, <2>1 DEF ObjectStep
  <2> HIDE DEF w
  <2> QED BY <1>0, <2>1, <2>2, WriteStep, NoObjectStep DEF ApplyObject
<1>5. ASSUME NEW o \in Objects, TeardownRelease(o) PROVE ObjectSteps
  <2> DEFINE v == obj[o]
             w == [v EXCEPT !.owners = v.owners \ {worker.id}, !.ctrl = v.ctrl]
  <2>1. v.ex /\ (UNCHANGED <<obj, seen>> \/ WriteObject(o, w))
    BY <1>0, <1>5 DEF TeardownRelease
  <2>2. w = [v EXCEPT !.owners = v.owners \ {worker.id}] BY <1>0 DEF ObjectStates
  <2>3. ObjectStep(v, w) BY <2>1, <2>2 DEF ObjectStep
  <2> HIDE DEF w
  <2> QED BY <1>0, <2>1, <2>3, WriteStep, NoObjectStep
<1>6. ASSUME NEW o \in Objects, TeardownDelete(o) PROVE ObjectSteps
  <2>1. ObjectStep(obj[o], [obj[o] EXCEPT !.dying = TRUE])
    BY <1>0, <1>6 DEF TeardownDelete, ObjectStep
  <2> QED BY <1>0, <1>6, <2>1, WriteStep DEF TeardownDelete
<1>7. ASSUME NEW o \in Objects, FinalizeObject(o) \/ UserDeletes(o) PROVE ObjectSteps
  BY <1>0, <1>7, VanishStep DEF FinalizeObject, UserDeletes
<1>8. ASSUME NEW o \in Objects, KubeCollect(o) PROVE ObjectSteps
  <2> DEFINE v == obj[o]
             left == v.owners \cap revs
             w == [v EXCEPT !.owners = left, !.ctrl = IF @ \in left THEN @ ELSE Nobody]
  <2>1. left # v.owners /\ (Vanish(o) \/ WriteObject(o, w)) BY <1>8 DEF KubeCollect
  <2>2. v.ex BY <1>8, <2>1 DEF AbsentClean, Absent
  <2>3. w = [v EXCEPT !.owners = left] \/ w = [v EXCEPT !.owners = left, !.ctrl = Nobody]
    BY <1>0 DEF ObjectStates
  <2>4. ObjectStep(v, w)
    <3> HIDE DEF w
    <3> QED BY <2>2, <2>3 DEF ObjectStep
  <2> HIDE DEF w
  <2> QED BY <1>0, <2>1, <2>4, WriteStep, VanishStep
<1>9. ASSUME NEW o \in Objects, SyncObject(o) PROVE ObjectSteps
  BY <1>0, <1>9 DEF SyncObject
<1>10. CASE Crash
  BY <1>0, <1>10, NoObjectStep DEF Crash
<1>11. ASSUME \/ \E id \in Ids : BeginPass(id) \/ BeginBlocked(id) \/ ArchivePrevious(id)
                                \/ CollectRevision(id) \/ PassDeadline(id)
              \/ \E o \in Objects : \/ SkipObject(o) \/ TeardownGone(o) \/ TeardownConflict(o)
                                    \/ BecomeReady(o) \/ BecomeUnready(o)
              \/ \E e \in Extensions : ResolveBundle(e) \/ ChangeSpec(e)
              \/ NextPhase \/ StopAtPhase \/ CompleteRevision \/ MarkSucceeded
              \/ PreviousPhase \/ AwaitTeardown \/ FinishTeardown
              \/ UpdateStatus \/ FailPass \/ PatchLatest \/ CreateRevision \/ FailApply
              \/ SyncRevisions
       PROVE  ObjectSteps
  <2>1. UNCHANGED <<obj, seen>>
    BY <1>11 DEF BeginPass, BeginReconcile, BeginTeardown, DeleteRevision, BeginBlocked,
       ArchivePrevious, CollectRevision, PassDeadline, SkipObject, TeardownGone,
       TeardownConflict, BecomeReady, BecomeUnready, ResolveBundle, ChangeSpec, NextPhase,
       StopAtPhase, CompleteRevision, MarkSucceeded, PreviousPhase, AwaitTeardown,
       FinishTeardown, UpdateStatus, FailPass, PatchLatest, CreateRevision, FailApply,
       SyncRevisions
  <2> QED BY <2>1, NoObjectStep
<1> QED BY <1>1, <1>2, <1>3, <1>4, <1>5, <1>6, <1>7, <1>8, <1>9, <1>10, <1>11
        DEF Next, ReconcilePass, TeardownPass, ApplyPass, Cluster

(* What such a step keeps: absent objects carry nothing, the annotation is that
   of the controller, and it never goes back. *)
LEMMA ObjectStepKeeps ==
  ASSUME NEW v \in ObjectStates, NEW w, ObjectStep(v, w), ~v.ex => v = Absent,
         v.ctrl \in Ids => v.rev = Num(v.ctrl)
  PROVE  /\ ~w.ex => w = Absent
         /\ w.ctrl \in Ids => w.rev = Num(w.ctrl)
         /\ v.ex /\ w.ex => v.rev <= w.rev
PROOF
<1>0. /\ Absent.ctrl = Nobody /\ ~Absent.ex /\ Nobody \notin Ids
      /\ \A id \in Ids : Num(id) \in Nat
      /\ v.rev \in Nat
  BY NobodyAssumption, BoundsAssumption DEF Absent, ObjectStates, Num, Ids
<1>1. CASE w = v \/ w = Absent BY <1>0, <1>1
<1>2. ASSUME NEW id \in Ids, ~v.ex, w = Fresh(id)
      PROVE w.ex /\ w.ctrl = id /\ w.rev = Num(id)
  BY <1>2 DEF Fresh
<1>3. ASSUME v.ex, NEW id \in Ids, w = Adopted(v, id)
      PROVE w.ex /\ w.ctrl = id /\ w.rev = Num(id)
  BY <1>3 DEF Adopted, ObjectStates
<1>4. ASSUME NEW id \in Ids, v.ctrl = id, w = [v EXCEPT !.rev = Num(id), !.owners = {id}]
      PROVE v.ex /\ w.ex /\ w.ctrl = id /\ w.rev = Num(id)
  BY <1>0, <1>4 DEF ObjectStates
<1>5. ASSUME v.ex,
             \/ w = [v EXCEPT !.dying = TRUE]
             \/ \E S \in SUBSET v.owners : w = [v EXCEPT !.owners = S]
      PROVE w.ex /\ w.ctrl = v.ctrl /\ w.rev = v.rev
  BY <1>5 DEF ObjectStates
<1>6. ASSUME v.ex, \E S \in SUBSET v.owners : w = [v EXCEPT !.owners = S, !.ctrl = Nobody]
      PROVE w.ex /\ w.ctrl = Nobody /\ w.rev = v.rev
  BY <1>6 DEF ObjectStates
<1>7. \/ w = v \/ w = Absent
      \/ ~v.ex /\ w.ex /\ w.ctrl \in Ids /\ w.rev = Num(w.ctrl)
      \/ v.ex /\ w.ex /\ w.ctrl \in Ids /\ w.rev = Num(w.ctrl) /\ v.rev <= w.rev
      \/ v.ex /\ w.ex /\ w.ctrl = v.ctrl /\ w.rev = v.rev
      \/ v.ex /\ w.ex /\ w.ctrl = Nobody /\ w.rev = v.rev
  <2>1. CASE w = v \/ w = Absent BY <2>1
  <2>2. CASE ~v.ex /\ \E id \in Ids : w = Fresh(id) BY <1>2, <2>2
  <2>3. ASSUME v.ex, NEW id \in Ids, w = Adopted(v, id),
               (v.ctrl = Nobody /\ v.rev = 0) \/ v.rev < Num(id)
        PROVE  w.ex /\ w.ctrl \in Ids /\ w.rev = Num(w.ctrl) /\ v.rev <= w.rev
    <3>1. w.ex /\ w.ctrl = id /\ w.rev = Num(id) BY <1>3, <2>3
    <3>2. v.rev <= Num(id) BY <1>0, <2>3
    <3> QED BY <3>1, <3>2
  <2>4. ASSUME NEW id \in Ids, v.ctrl = id, w = [v EXCEPT !.rev = Num(id), !.owners = {id}]
        PROVE  v.ex /\ w.ex /\ w.ctrl \in Ids /\ w.rev = Num(w.ctrl) /\ v.rev <= w.rev
    <3>1. v.ex /\ w.ex /\ w.ctrl = id /\ w.rev = Num(id) BY <1>4, <2>4
    <3>2. v.rev <= Num(id) BY <1>0, <2>4
    <3> QED BY <3>1, <3>2
  <2> QED BY <1>5, <1>6, <2>1, <2>2, <2>3, <2>4 DEF ObjectStep
<1> QED BY <1>0, <1>7

LEMMA OwnershipStep ==
  ASSUME TypeInv, TypeInv', OwnershipInv, ObjectSteps PROVE OwnershipInv'
PROOF
<1>1. CacheFresh' BY DEF ObjectSteps, CacheFresh
<1>2. ASSUME NEW o \in Objects
      PROVE  /\ ~obj'[o].ex => obj'[o] = Absent
             /\ obj'[o].ctrl \in Ids => obj'[o].rev = Num(obj'[o].ctrl)
  <2> DEFINE v == obj[o]
             w == obj'[o]
  <2>1. /\ v \in ObjectStates /\ w \in ObjectStates /\ ObjectStep(v, w)
        /\ ~v.ex => v = Absent
        /\ v.ctrl \in Ids => v.rev = Num(v.ctrl)
    BY <1>2 DEF TypeInv, TypeOK, OwnershipInv, AbsentClean, ControllerAnnotated, ObjectSteps
  <2> HIDE DEF v, w
  <2>2. (~w.ex => w = Absent) /\ (w.ctrl \in Ids => w.rev = Num(w.ctrl))
    BY <2>1, ObjectStepKeeps
  <2> QED BY <2>2 DEF v, w
<1> QED BY <1>1, <1>2 DEF OwnershipInv, AbsentClean, ControllerAnnotated

LEMMA OwnershipInvariance ==
  ASSUME ObjectLag = FALSE, Protection # "None"
  PROVE  Spec => [](TypeInv /\ OwnershipInv)
PROOF
<1>1. Init => OwnershipInv
  BY NobodyAssumption
     DEF Init, OwnershipInv, CacheFresh, AbsentClean, ControllerAnnotated, Absent, Ownerless
<1>2. TypeInv /\ OwnershipInv /\ [Next]_vars => TypeInv' /\ OwnershipInv'
  BY TypeStep, EveryObjectStep, OwnershipStep DEF OwnershipInv
<1> QED BY TypeInit, <1>1, <1>2, PTL DEF Spec

(* With an up-to-date cache a revision never takes an object over from another
   extension, unless collision protection is None. *)
THEOREM NeverSteals ==
  ASSUME ObjectLag = FALSE, Protection # "None"
  PROVE  Spec => NoStealing
PROOF
<1>1. ASSUME TypeInv, OwnershipInv, [Next]_vars
      PROVE  \A o \in Objects : obj[o].ctrl # Nobody /\ obj'[o].ctrl # Nobody =>
               Ext(obj'[o].ctrl) = Ext(obj[o].ctrl)
  <2>1. ObjectSteps BY <1>1, EveryObjectStep DEF OwnershipInv
  <2> TAKE o \in Objects
  <2> DEFINE v == obj[o]
             w == obj'[o]
  <2>2. v \in ObjectStates /\ ObjectStep(v, w) /\ (~v.ex => v = Absent)
    BY <1>1, <2>1 DEF TypeInv, TypeOK, ObjectSteps, OwnershipInv, AbsentClean
  <2>3. Absent.ctrl = Nobody BY DEF Absent
  <2> HIDE DEF v, w
  <2>4. v.ctrl # Nobody /\ w.ctrl # Nobody => Ext(w.ctrl) = Ext(v.ctrl)
    BY <2>2, <2>3 DEF ObjectStep, ObjectStates, Fresh, Adopted
  <2> QED BY <2>4 DEF v, w
<1>2. TypeInv /\ OwnershipInv /\ [Next]_vars =>
        [\A o \in Objects : obj[o].ctrl # Nobody /\ obj'[o].ctrl # Nobody =>
           Ext(obj'[o].ctrl) = Ext(obj[o].ctrl)]_vars
  BY <1>1
<1> QED BY <1>2, OwnershipInvariance, PTL DEF Spec, NoStealing

(* Revision linearity: with an up-to-date cache the revision annotation of an
   object never goes back while the object exists. *)
THEOREM RevisionsLinear ==
  ASSUME ObjectLag = FALSE, Protection # "None"
  PROVE  Spec => RevisionLinearity
PROOF
<1>1. ASSUME TypeInv, OwnershipInv, [Next]_vars
      PROVE  \A o \in Objects : obj[o].ex /\ obj'[o].ex => obj[o].rev <= obj'[o].rev
  <2>1. ObjectSteps BY <1>1, EveryObjectStep DEF OwnershipInv
  <2> TAKE o \in Objects
  <2> DEFINE v == obj[o]
             w == obj'[o]
  <2>2. /\ v \in ObjectStates /\ ObjectStep(v, w) /\ (~v.ex => v = Absent)
        /\ v.ctrl \in Ids => v.rev = Num(v.ctrl)
    BY <1>1, <2>1
       DEF TypeInv, TypeOK, ObjectSteps, OwnershipInv, AbsentClean, ControllerAnnotated
  <2> HIDE DEF v, w
  <2>3. v.ex /\ w.ex => v.rev <= w.rev BY <2>2, ObjectStepKeeps
  <2> QED BY <2>3 DEF v, w
<1>2. TypeInv /\ OwnershipInv /\ [Next]_vars =>
        [\A o \in Objects : obj[o].ex /\ obj'[o].ex => obj[o].rev <= obj'[o].rev]_vars
  BY <1>1
<1> QED BY <1>2, OwnershipInvariance, PTL DEF Spec, RevisionLinearity

-----------------------------------------------------------------------------
(* What a pass reports. The deadline it saw at its start still counts at its
   end: meanwhile nobody else reports success. *)
LateUnsucceeded ==
  worker.pc \in {"reconcile", "archive"} /\ worker.late => ~status[worker.id].succeeded
ReportConsistent ==
  worker.pc = "status" =>
    /\ worker.cond.succeeded => worker.cond.prog # "ProgressDeadlineExceeded"
    /\ status[worker.id].succeeded => worker.cond.succeeded
StatusConsistent ==
  \A id \in Ids : status[id].succeeded => status[id].prog # "ProgressDeadlineExceeded"
ReportInv == LateUnsucceeded /\ ReportConsistent /\ StatusConsistent

(* The conditions a pass may derive from those it read. *)
Reports(c, exceeded) ==
  {c, [c EXCEPT !.prog = "Blocked"], [c EXCEPT !.avail = "Reconciling"],
   markAsProgressing(c, "RollingOut", exceeded), setRetryingConditions(c, exceeded),
   RolledOut(c), RollingOut(c, exceeded), markAsArchived(c)}

LEMMA ReportsKeep ==
  ASSUME NEW c \in Conditions, NEW b \in BOOLEAN, NEW d \in Reports(c, b),
         c.succeeded => c.prog # "ProgressDeadlineExceeded", b => ~c.succeeded
  PROVE  /\ d \in Conditions
         /\ d.succeeded => d.prog # "ProgressDeadlineExceeded"
         /\ c.succeeded => d.succeeded
PROOF BY DEF Reports, Conditions, ProgressReasons, AvailableReasons, markAsProgressing,
             setRetryingConditions, RolledOut, RollingOut, markAsArchived

(* What a step may do to the pass in progress and to the conditions. *)
ReportStep ==
  \/ UNCHANGED <<worker, status>>
  \/ worker' = worker /\ \E id \in archived : Forget(id)
  \/ UpdateStatus
  \/ /\ status' = status
     /\ \/ worker'.pc \in {"idle", "teardown"}
        \/ /\ worker.pc \in {"reconcile", "archive"} /\ worker'.pc \in {"reconcile", "archive"}
           /\ worker'.id = worker.id /\ worker'.late = worker.late
        \/ worker'.pc = "reconcile" /\ (worker'.late => ~status[worker'.id].succeeded)
        \/ \E id \in Ids, b \in BOOLEAN : \E c \in Reports(status[id], b) :
             (b => ~status[id].succeeded) /\ Finish(id, c)

LEMMA HandledKeeps ==
  ASSUME worker \in Workers, NEW o, NEW r, Handled(o, r)
  PROVE  /\ worker'.pc = worker.pc /\ worker'.id = worker.id /\ worker'.late = worker.late
         /\ worker'.phases = worker.phases /\ worker'.phase = worker.phase
         /\ worker'.todo = worker.todo \ {o} /\ worker'.res = Worse(worker.res, r)
PROOF BY DEF Handled, Workers

LEMMA EveryReportStep ==
  ASSUME TypeInv, LifecycleInv, LateUnsucceeded, [Next]_vars
  PROVE  ReportStep
PROOF
<1> USE DEF cosVars, objVars
<1>0. /\ TypeOK /\ worker \in Workers /\ worker.id \in Ids /\ status[worker.id] \in Conditions
      /\ worker.late \in BOOLEAN
  BY DEF TypeInv, TypeOK, Workers
<1>1. CASE UNCHANGED vars BY <1>1 DEF vars, ReportStep
<1>2. ASSUME NEW o \in Objects,
             CreateObject(o) \/ AdoptObject(o) \/ UpdateObject(o) \/ SkipObject(o)
      PROVE  ReportStep
  <2>1. worker.pc = "reconcile" /\ status' = status /\ \E r : Handled(o, r)
    BY <1>2 DEF CreateObject, AdoptObject, UpdateObject, SkipObject, ApplyObject
  <2> QED BY <1>0, <2>1, HandledKeeps DEF ReportStep
<1>3. CASE NextPhase \/ CompleteRevision \/ \E p \in Ids : ArchivePrevious(p)
  <2>1. /\ status' = status
        /\ worker.pc \in {"reconcile", "archive"} /\ worker'.pc \in {"reconcile", "archive"}
        /\ worker'.id = worker.id /\ worker'.late = worker.late
    BY <1>0, <1>3 DEF NextPhase, CompleteRevision, ArchivePrevious, Workers
  <2> QED BY <2>1 DEF ReportStep
<1>4. ASSUME NEW id \in Ids, BeginReconcile(id) PROVE ReportStep
  <2>1. worker'.pc = "reconcile" /\ worker'.id = id /\ status' = status
    BY <1>0, <1>4, BeginType DEF TypeOK, BeginReconcile
  <2>2. worker'.late => ~status[id].succeeded
    BY <1>4 DEF BeginReconcile, IdleWorker, DeadlineExceeded
  <2> QED BY <2>1, <2>2 DEF ReportStep
<1>5. ASSUME NEW id \in Ids, BeginTeardown(id) PROVE ReportStep
  <2>1. worker'.pc = "teardown" /\ status' = status BY <1>5 DEF BeginTeardown, IdleWorker
  <2> QED BY <2>1 DEF ReportStep
<1>6. ASSUME NEW id \in Ids, BeginBlocked(id) PROVE ReportStep
  <2>1. /\ DeadlineExceeded(id) \in BOOLEAN /\ status' = status
        /\ DeadlineExceeded(id) => ~status[id].succeeded
    BY <1>6, FlagsAssumption DEF DeadlineExceeded, BeginBlocked
  <2>2. \E c \in Reports(status[id], DeadlineExceeded(id)) : Finish(id, c)
    BY <1>6 DEF BeginBlocked, Reports
  <2> HIDE DEF cosVars, objVars
  <2> QED BY <2>1, <2>2 DEF ReportStep
<1>7. CASE StopAtPhase \/ MarkSucceeded
  <2>1. status' = status /\ worker.pc \in {"reconcile", "archive"}
    BY <1>7 DEF StopAtPhase, MarkSucceeded
  <2>2. \E c \in Reports(status[worker.id], worker.late) : Finish(worker.id, c)
    <3>1. CASE StopAtPhase BY <3>1 DEF StopAtPhase, Reports
    <3>2. CASE MarkSucceeded BY <3>2 DEF MarkSucceeded, Reports
    <3> QED BY <1>7, <3>1, <3>2
  <2>3. worker.late => ~status[worker.id].succeeded BY <2>1 DEF LateUnsucceeded
  <2> QED BY <1>0, <2>1, <2>2, <2>3 DEF ReportStep
<1>8. ASSUME NEW o \in Objects, TeardownGone(o) \/ TeardownRelease(o) \/ TeardownDelete(o)
      PROVE  ReportStep
  <2>1. worker.pc = "teardown" /\ status' = status /\ \E r : Handled(o, r)
    BY <1>8 DEF TeardownGone, TeardownRelease, TeardownDelete
  <2> QED BY <1>0, <2>1, HandledKeeps DEF ReportStep
<1>9. CASE PreviousPhase
  <2>1. worker'.pc = "teardown" /\ status' = status BY <1>0, <1>9 DEF PreviousPhase, Workers
  <2> QED BY <2>1 DEF ReportStep
<1>10. CASE AwaitTeardown \/ FinishTeardown \/ \E o \in Objects : TeardownConflict(o)
  <2>1. status' = status /\ \E c \in Reports(status[worker.id], FALSE) : Finish(worker.id, c)
    BY <1>10 DEF AwaitTeardown, FinishTeardown, TeardownConflict, Reports
  <2> QED BY <1>0, <2>1 DEF ReportStep
<1>11. CASE FailPass
  <2>1. status' = status BY <1>11 DEF FailPass
  <2>2. CASE worker' = IdleWorker BY <2>1, <2>2 DEF ReportStep, IdleWorker
  <2>3. CASE worker.pc \in {"reconcile", "archive"}
    <3>1. \E c \in Reports(status[worker.id], worker.late) : Finish(worker.id, c)
      BY <1>11, <2>3 DEF FailPass, Reports
    <3>2. worker.late => ~status[worker.id].succeeded BY <2>3 DEF LateUnsucceeded
    <3> QED BY <1>0, <2>1, <3>1, <3>2 DEF ReportStep
  <2>4. CASE worker.pc = "teardown"
    <3>1. \E c \in Reports(status[worker.id], FALSE) : Finish(worker.id, c)
      BY <1>11, <2>4 DEF FailPass, Reports
    <3> QED BY <1>0, <2>1, <3>1 DEF ReportStep
  <2> QED BY <1>11, <2>2, <2>3, <2>4 DEF FailPass
<1>12. ASSUME NEW id \in Ids, DeleteRevision(id) PROVE ReportStep
  BY <1>12 DEF DeleteRevision, ReportStep, LifecycleInv, SetsNested
<1>13. ASSUME NEW id \in Ids, CollectRevision(id) PROVE ReportStep
  BY <1>13 DEF CollectRevision, ReportStep, LifecycleInv, ExpiredArchived
<1>14. CASE Crash BY <1>14 DEF Crash, ReportStep, IdleWorker
<1>15. CASE \/ \E e \in Extensions : ResolveBundle(e)
            \/ PatchLatest \/ CreateRevision \/ FailApply \/ Cluster
  <2>1. UNCHANGED <<worker, status>>
    BY <1>15 DEF ResolveBundle, PatchLatest, CreateRevision, FailApply, Cluster, BecomeReady,
                 BecomeUnready, FinalizeObject, UserDeletes, KubeCollect, SyncObject,
                 PassDeadline, ChangeSpec, SyncRevisions
  <2> QED BY <2>1 DEF ReportStep
<1>16. CASE UpdateStatus BY <1>16 DEF ReportStep
<1> QED BY <1>1, <1>2, <1>3, <1>4, <1>5, <1>6, <1>7, <1>8, <1>9, <1>10, <1>11, <1>12, <1>13,
           <1>14, <1>15, <1>16
        DEF Next, BeginPass, ReconcilePass, TeardownPass, ApplyPass

(* Success is reported once and for all: a revision loses its Succeeded
   condition only when it goes. *)
SuccessKept == \A id \in Ids : status[id].succeeded /\ id \in revs' => status'[id].succeeded

LEMMA ReportPreserved ==
  ASSUME TypeInv, TypeInv', ReportInv, ReportStep
  PROVE  ReportInv' /\ SuccessKept
PROOF
<1>0. /\ worker \in Workers /\ worker.id \in Ids /\ status \in [Ids -> Conditions]
      /\ archived \subseteq Ids /\ IdleWorker.pc = "idle"
  BY DEF TypeInv, TypeOK, Workers, IdleWorker
<1>1. CASE UNCHANGED <<worker, status>>
  BY <1>1 DEF ReportInv, LateUnsucceeded, ReportConsistent, StatusConsistent, SuccessKept
<1>2. ASSUME worker' = worker, NEW id \in archived, Forget(id)
      PROVE  ReportInv' /\ SuccessKept
  <2>1. /\ \A i \in Ids : i # id => status'[i] = status[i]
        /\ ~status'[id].succeeded /\ id \notin revs'
    BY <1>0, <1>2 DEF Forget, NoConditions
  <2> QED BY <1>0, <1>2, <2>1
          DEF ReportInv, LateUnsucceeded, ReportConsistent, StatusConsistent, SuccessKept
<1>3. CASE UpdateStatus
  <2>1. /\ worker' = IdleWorker /\ worker.pc = "status"
        /\ \A i \in Ids : \/ status'[i] = status[i]
                          \/ i = worker.id /\ status'[i] = worker.cond
    BY <1>0, <1>3 DEF UpdateStatus
  <2> QED BY <1>0, <2>1
          DEF ReportInv, LateUnsucceeded, ReportConsistent, StatusConsistent, SuccessKept
<1>4. ASSUME status' = status
      PROVE  StatusConsistent' /\ SuccessKept
  BY <1>4 DEF ReportInv, StatusConsistent, SuccessKept
<1>5. ASSUME status' = status, worker'.pc \in {"idle", "teardown"} PROVE ReportInv' /\ SuccessKept
  BY <1>4, <1>5 DEF ReportInv, LateUnsucceeded, ReportConsistent
<1>6. ASSUME status' = status, worker.pc \in {"reconcile", "archive"},
             worker'.pc \in {"reconcile", "archive"}, worker'.id = worker.id,
             worker'.late = worker.late
      PROVE  ReportInv' /\ SuccessKept
  BY <1>4, <1>6 DEF ReportInv, LateUnsucceeded, ReportConsistent
<1>7. ASSUME status' = status, worker'.pc = "reconcile",
             worker'.late => ~status[worker'.id].succeeded
      PROVE  ReportInv' /\ SuccessKept
  BY <1>4, <1>7 DEF ReportInv, LateUnsucceeded, ReportConsistent
<1>8. ASSUME status' = status, NEW id \in Ids, NEW b \in BOOLEAN,
             NEW c \in Reports(status[id], b), b => ~status[id].succeeded, Finish(id, c)
      PROVE  ReportInv' /\ SuccessKept
  <2>1. /\ c \in Conditions
        /\ c.succeeded => c.prog # "ProgressDeadlineExceeded"
        /\ status[id].succeeded => c.succeeded
    BY <1>0, <1>8, ReportsKeep DEF ReportInv, StatusConsistent
  <2>2. \/ worker'.pc = "idle"
        \/ worker'.pc = "status" /\ worker'.id = id /\ worker'.cond = c
    BY <1>8 DEF Finish, IdleWorker
  <2> QED BY <1>4, <1>8, <2>1, <2>2 DEF ReportInv, LateUnsucceeded, ReportConsistent
<1> QED BY <1>1, <1>2, <1>3, <1>5, <1>6, <1>7, <1>8 DEF ReportStep

LEMMA ReportInvariance == Spec => [](TypeInv /\ LifecycleInv /\ ReportInv)
PROOF
<1>1. Init => ReportInv
  <2>1. IdleWorker.pc = "idle" /\ NoConditions.succeeded = FALSE BY DEF IdleWorker, NoConditions
  <2> QED BY <2>1
          DEF Init, ReportInv, LateUnsucceeded, ReportConsistent, StatusConsistent
<1>2. TypeInv /\ LifecycleInv /\ ReportInv /\ [Next]_vars => ReportInv'
  BY TypeStep, EveryReportStep, ReportPreserved DEF ReportInv
<1> QED BY TypeInit, TypeStep, LifecycleInit, LifecycleStep, <1>1, <1>2, PTL DEF Spec

(* A revision that has succeeded is never reported past its progress deadline:
   the deadline read at the start of a pass is still that of a revision that
   has not succeeded when the pass ends. *)
THEOREM DeadlineOnlyBeforeSuccess == Spec => []NoDeadlineAfterSuccess
PROOF
<1>1. TypeInv /\ ReportInv => NoDeadlineAfterSuccess
  BY DEF TypeInv, TypeOK, ReportInv, StatusConsistent, NoDeadlineAfterSuccess
<1> QED BY <1>1, ReportInvariance, PTL

-----------------------------------------------------------------------------
(* One image in flight. While the applier holds a resolved bundle, every
   revision of its extension that still rolls out is of the image it resolved:
   no other pass creates one, and success is not taken back. *)
RollingOf(e) == {id \in revs : Ext(id) = e /\ id \notin archived /\ ~status[id].succeeded}
DesiredShared ==
  applier.pc # "idle" => \A id \in RollingOf(applier.ext) : content[id].image = applier.desired.image
ImageInv == RollingShareImage /\ DesiredShared

(* A step that creates no revision makes none start rolling out again. *)
LEMMA ImageFrame ==
  ASSUME TypeInv, ImageInv, SuccessKept, revs' \subseteq revs, content' = content,
         archived \cap revs' \subseteq archived',
         \/ applier'.pc = "idle"
         \/ /\ applier.pc # "idle"
            /\ applier'.ext = applier.ext /\ applier'.desired = applier.desired
  PROVE  ImageInv'
PROOF
<1>1. \A id \in revs' : id \notin archived' /\ ~status'[id].succeeded =>
        id \in revs /\ id \notin archived /\ ~status[id].succeeded
  BY DEF TypeInv, TypeOK, SuccessKept
<1>2. RollingShareImage' BY <1>1 DEF ImageInv, RollingShareImage
<1>3. DesiredShared' BY <1>1 DEF ImageInv, DesiredShared, RollingOf
<1> QED BY <1>2, <1>3 DEF ImageInv

LEMMA ImageResolve ==
  ASSUME RevisionLag = FALSE, TypeInv, ImageInv, SuccessKept,
         NEW e \in Extensions, ResolveBundle(e)
  PROVE  ImageInv'
PROOF
<1> DEFINE d == IF Rolling(e) = {} THEN want[e]
                ELSE [want[e] EXCEPT !.image = content[Oldest(Rolling(e))].image]
<1>1. applier' = [IdleApplier EXCEPT !.pc = "resolved", !.ext = e, !.desired = d]
  BY Zenon DEF ResolveBundle
<1>2. applier'.ext = e /\ applier'.desired = d
  <2> HIDE DEF d
  <2> QED BY <1>1 DEF IdleApplier
<1>3. Rolling(e) = RollingOf(e) BY DEF Rolling, RollingOf, Listed
<1>4. \A id \in RollingOf(e) : content[id].image = d.image
  <2> SUFFICES ASSUME NEW id \in RollingOf(e) PROVE content[id].image = d.image OBVIOUS
  <2>1. Rolling(e) # {} /\ Rolling(e) \in SUBSET Ids
    BY <1>3 DEF RollingOf, TypeInv, TypeOK
  <2>2. Oldest(Rolling(e)) \in RollingOf(e) BY <1>3, <2>1, Extremes
  <2>3. content[id].image = content[Oldest(Rolling(e))].image
    BY <2>2 DEF ImageInv, RollingShareImage, RollingOf
  <2>4. want[e] \in Contents BY DEF TypeInv, TypeOK
  <2>5. d.image = content[Oldest(Rolling(e))].image BY <2>1, <2>4 DEF Contents
  <2> QED BY <2>3, <2>5
<1>5. UNCHANGED <<revs, content, archived, status>> BY DEF ResolveBundle, cosVars
<1>6. RollingOf(e)' = RollingOf(e) BY <1>5 DEF RollingOf
<1> HIDE DEF d
<1>7. DesiredShared' BY <1>2, <1>4, <1>5, <1>6 DEF DesiredShared, RollingOf
<1>8. RollingShareImage' BY <1>5 DEF ImageInv, RollingShareImage
<1> QED BY <1>7, <1>8 DEF ImageInv

LEMMA ImageCreate ==
  ASSUME TypeInv, ImageInv, CreateRevision PROVE ImageInv'
PROOF
<1> DEFINE n == <<applier.ext, applier.num>>
<1>1. n \in Ids /\ Ext(n) = applier.ext
  BY DEF TypeInv, TypeOK, NumInRange, Appliers, CreateRevision, Ids, Ext
<1>2. /\ revs' = revs \cup {n} /\ UNCHANGED <<archived, status>> /\ applier.pc # "idle"
      /\ content' = IF n \in revs THEN content ELSE [content EXCEPT ![n] = applier.desired]
  BY DEF CreateRevision
<1>3. applier'.pc = "idle" BY DEF CreateRevision, IdleApplier
<1>4. /\ \A id \in revs : id # n => content'[id] = content[id]
      /\ n \in revs => content' = content
      /\ n \notin revs => content'[n] = applier.desired
  BY <1>1, <1>2 DEF TypeInv, TypeOK
<1> HIDE DEF n
<1>5. RollingShareImage'
  <2> SUFFICES ASSUME NEW a \in revs', NEW b \in revs', Ext(a) = Ext(b),
                      a \notin archived, ~status[a].succeeded,
                      b \notin archived, ~status[b].succeeded
               PROVE  content'[a].image = content'[b].image
    BY <1>2 DEF RollingShareImage
  <2>1. CASE n \in revs
    BY <1>2, <1>4, <2>1 DEF ImageInv, RollingShareImage
  <2>2. CASE n \notin revs
    <3>1. ASSUME NEW i \in revs', Ext(i) = applier.ext, i \notin archived, ~status[i].succeeded
          PROVE  content'[i].image = applier.desired.image
      BY <1>2, <1>4, <2>2, <3>1 DEF ImageInv, DesiredShared, RollingOf
    <3>2. CASE a = n \/ b = n BY <1>1, <3>1, <3>2
    <3>3. CASE a # n /\ b # n
      BY <1>2, <1>4, <3>3 DEF ImageInv, RollingShareImage
    <3> QED BY <3>2, <3>3
  <2> QED BY <2>1, <2>2
<1>6. DesiredShared' BY <1>3 DEF DesiredShared
<1> QED BY <1>5, <1>6 DEF ImageInv

LEMMA ImageStep ==
  ASSUME RevisionLag = FALSE, TypeInv, TypeInv', LifecycleInv, ReportInv, ImageInv, [Next]_vars
  PROVE  ImageInv'
PROOF
<1> USE DEF cosVars, objVars
<1>0. SuccessKept BY EveryReportStep, ReportPreserved DEF ReportInv
<1>1. ASSUME NEW e \in Extensions, ResolveBundle(e) PROVE ImageInv'
  BY <1>0, <1>1, ImageResolve
<1>2. CASE CreateRevision BY <1>2, ImageCreate
<1>3. ASSUME NEW id \in Ids, CollectRevision(id) PROVE ImageInv'
  <2>1. /\ revs' \subseteq revs /\ content' = content /\ archived \cap revs' \subseteq archived'
        /\ applier.pc # "idle"
    BY <1>3 DEF CollectRevision, Forget
  <2>2. applier'.ext = applier.ext /\ applier'.desired = applier.desired
    BY <1>3 DEF CollectRevision, TypeInv, TypeOK, Appliers
  <2> QED BY <1>0, <2>1, <2>2, ImageFrame
<1>4. CASE PatchLatest
  <2> DEFINE E == Expired(Listed(applier.ext))
             n == latestRevisionNumber(Listed(applier.ext)) + 1
  <2>1. /\ UNCHANGED <<revs, content, archived>> /\ applier.pc # "idle"
        /\ \/ applier' = IdleApplier
           \/ applier' = [applier EXCEPT !.pc = "create", !.expired = E, !.num = n]
    BY <1>4 DEF PatchLatest
  <2> HIDE DEF E, n
  <2>2. applier \in Appliers /\ IdleApplier.pc = "idle" BY DEF TypeInv, TypeOK, IdleApplier
  <2>3. \/ applier'.pc = "idle"
        \/ applier'.ext = applier.ext /\ applier'.desired = applier.desired
    BY <2>1, <2>2 DEF Appliers
  <2> QED BY <1>0, <2>1, <2>3, ImageFrame
<1>5. CASE UNCHANGED vars
  BY <1>0, <1>5, ImageFrame DEF vars
<1>6. CASE FailApply \/ Crash
  <2>1. UNCHANGED <<revs, content, archived>> /\ applier'.pc = "idle"
    BY <1>6 DEF FailApply, Crash, IdleApplier
  <2> QED BY <1>0, <2>1, ImageFrame
<1>7. CASE \/ \E id \in Ids : BeginPass(id) \/ BeginBlocked(id)
           \/ ReconcilePass \/ TeardownPass \/ UpdateStatus \/ FailPass \/ Cluster
  <2>1. /\ revs' \subseteq revs /\ content' = content /\ archived \cap revs' \subseteq archived'
        /\ applier' = applier
    BY <1>7 DEF BeginPass, BeginReconcile, BeginTeardown, DeleteRevision, Forget, BeginBlocked,
       ReconcilePass, CreateObject, AdoptObject, UpdateObject, SkipObject, NextPhase, StopAtPhase,
       CompleteRevision, MarkSucceeded, ArchivePrevious, TeardownPass, TeardownGone,
       TeardownRelease, TeardownDelete, TeardownConflict, PreviousPhase, AwaitTeardown,
       FinishTeardown, UpdateStatus, FailPass, Cluster, BecomeReady, BecomeUnready,
       FinalizeObject, UserDeletes, KubeCollect, SyncObject, PassDeadline, ChangeSpec,
       SyncRevisions
  <2> QED BY <1>0, <2>1, ImageFrame
<1> QED BY <1>1, <1>2, <1>3, <1>4, <1>5, <1>6, <1>7 DEF Next, ApplyPass

(* With an up-to-date list of revisions, all revisions of an extension that
   roll out at one time are of one image, however passes, failures, crashes
   and edits of the extension interleave. *)
THEOREM OneImageInFlight ==
  ASSUME RevisionLag = FALSE
  PROVE  Spec => []RollingShareImage
PROOF
<1>1. Init => ImageInv
  BY DEF Init, ImageInv, RollingShareImage, DesiredShared, RollingOf, IdleApplier
<1>2. TypeInv /\ LifecycleInv /\ ReportInv /\ ImageInv /\ [Next]_vars => ImageInv'
  BY TypeStep, ImageStep
<1>3. ImageInv => RollingShareImage BY DEF ImageInv
<1> QED BY <1>1, <1>2, <1>3, ReportInvariance, PTL DEF Spec

-----------------------------------------------------------------------------
(* Retention and numbering, whether or not the applier's list is up to date.
   Known is that list; condemned are the revisions that are deleted, about to
   be, or still listed although they are gone. Each of them has RetentionLimit
   newer revisions that exist, and deleting one keeps that true of the others:
   whatever is newer than it is newer than what it supersedes. *)
Known == IF RevisionLag THEN listed ELSE revs
NewerThan(id) == {s \in revs : Newer(s, id)}
Condemned == applier.expired \cup deleting \cup (Known \ revs)
RetentionInv == \A id \in Condemned : Cardinality(NewerThan(id)) >= RetentionLimit

(* The list is at most one revision behind, and the number the applier is about
   to use is the one after the latest revision, or already that of the latest. *)
ListBehindByOne == \A id \in revs : Num(id) <= latestRevisionNumber(Listed(Ext(id))) + 1
DueListed == applier.num <= latestRevisionNumber(Listed(applier.ext)) + 1
DueLatest == \A s \in revs : Ext(s) = applier.ext => Num(s) <= applier.num
DueFollows ==
  \/ applier.num = 1
  \/ <<applier.ext, applier.num - 1>> \in revs
  \/ <<applier.ext, applier.num>> \in revs
NumberInv ==
  RetentionInv /\ ListBehindByOne
  /\ (applier.pc = "create" => DueListed /\ DueLatest /\ DueFollows)

LEMMA IdPair ==
  /\ \A id \in Ids : id = <<Ext(id), Num(id)>> /\ Num(id) \in Nat \ {0} /\ Num(id) \in 1..MaxRevision
  /\ \A a, b \in Ids : Ext(a) = Ext(b) /\ Num(a) = Num(b) => a = b
PROOF BY BoundsAssumption DEF Ids, Ext, Num

LEMMA NewerFinite ==
  ASSUME NEW R \in SUBSET Ids, NEW id \in Ids
  PROVE  /\ IsFiniteSet({s \in R : Newer(s, id)})
         /\ Cardinality({s \in R : Newer(s, id)}) \in Nat
         /\ Cardinality({s \in R : Newer(s, id)}) >= RetentionLimit => \E s \in R : Newer(s, id)
PROOF
<1> DEFINE C == {Ext(id)} \X (1..MaxRevision)
           N == {s \in R : Newer(s, id)}
<1>1. IsFiniteSet(1..MaxRevision) BY FS_Interval, BoundsAssumption
<1>2. IsFiniteSet({Ext(id)}) BY FS_Singleton
<1>3. IsFiniteSet(C) BY <1>1, <1>2, FS_Product
<1>4. N \in SUBSET C BY DEF Newer, Ids, Ext, Num
<1> HIDE DEF C, N
<1>5. IsFiniteSet(N) /\ Cardinality(N) \in Nat BY <1>3, <1>4, FS_Subset, FS_CardinalityType
<1>6. Cardinality(N) >= RetentionLimit => N # {} BY FS_EmptySet, BoundsAssumption
<1> QED BY <1>5, <1>6 DEF N

LEMMA MoreNewer ==
  ASSUME NEW R \in SUBSET Ids, NEW a \in Ids, NEW T,
         T \subseteq {s \in R : Newer(s, a)}, Cardinality(T) >= RetentionLimit
  PROVE  Cardinality({s \in R : Newer(s, a)}) >= RetentionLimit
PROOF
<1> DEFINE N == {s \in R : Newer(s, a)}
<1>1. IsFiniteSet(N) /\ Cardinality(N) \in Nat BY NewerFinite
<1> HIDE DEF N
<1>2. T \in SUBSET N BY DEF N
<1>3. IsFiniteSet(T) /\ Cardinality(T) <= Cardinality(N) BY <1>1, <1>2, FS_Subset
<1>4. Cardinality(T) \in Nat BY <1>3, FS_CardinalityType
<1>5. Cardinality(N) >= RetentionLimit BY <1>1, <1>3, <1>4, BoundsAssumption
<1> QED BY <1>5 DEF N

LEMMA LatestBound ==
  ASSUME NEW S \in SUBSET Ids
  PROVE  latestRevisionNumber(S) \in Nat /\ \A s \in S : Num(s) <= latestRevisionNumber(S)
PROOF
<1>1. latestRevisionNumber(S) \in Nat BY NumberType, BoundsAssumption
<1>2. \A s \in S : Num(s) <= latestRevisionNumber(S) BY Extremes DEF latestRevisionNumber
<1> QED BY <1>1, <1>2

(* An applier that lists all revisions sees the latest one. *)
LEMMA FreshList ==
  ASSUME NEW R \in SUBSET Ids, NEW e \in Extensions
  PROVE  LET n == latestRevisionNumber({id \in R : Ext(id) = e})
         IN  /\ \A id \in R : Ext(id) = e => Num(id) <= n + 1
             /\ \A k \in 1..MaxRevision :
                  k = 1 \/ <<e, k - 1>> \in R \/ <<e, k>> \in R => k <= n + 1
PROOF
<1> DEFINE S == {id \in R : Ext(id) = e}
           n == latestRevisionNumber(S)
<1>1. S \in SUBSET Ids OBVIOUS
<1>2. n \in Nat /\ \A s \in S : Num(s) <= n
  <2> HIDE DEF S
  <2> QED BY <1>1, LatestBound
<1>3. \A id \in R : Ext(id) = e => Num(id) <= n BY <1>2
<1>4. \A k : <<e, k>> \in R => k <= n
  <2>1. \A k : Ext(<<e, k>>) = e /\ Num(<<e, k>>) = k BY DEF Ext, Num
  <2> HIDE DEF n
  <2> QED BY <1>3, <2>1
<1> HIDE DEF n
<1>5. \A id \in R : Ext(id) = e => Num(id) <= n + 1 BY <1>2, <1>3, IdPair
<1>6. \A k \in 1..MaxRevision : k = 1 \/ <<e, k - 1>> \in R \/ <<e, k>> \in R => k <= n + 1
  <2> SUFFICES ASSUME NEW k \in 1..MaxRevision, k = 1 \/ <<e, k - 1>> \in R \/ <<e, k>> \in R
               PROVE  k <= n + 1
    OBVIOUS
  <2>1. CASE k = 1 BY <1>2, <2>1
  <2>2. CASE <<e, k - 1>> \in R
    <3>1. k - 1 <= n BY <1>4, <2>2
    <3> QED BY <1>2, <3>1
  <2>3. CASE <<e, k>> \in R
    <3>1. k <= n BY <1>4, <2>3
    <3> QED BY <1>2, <3>1
  <2> QED BY <2>1, <2>2, <2>3
<1> QED BY <1>5, <1>6 DEF n

LEMMA CondemnedType == TypeInv => Condemned \subseteq Ids
PROOF BY DEF TypeInv, TypeOK, Appliers, Condemned, Known

LEMMA RetentionFrame ==
  ASSUME TypeInv, RetentionInv, revs \subseteq revs', revs' \subseteq Ids,
         Condemned' \subseteq Condemned
  PROVE  RetentionInv'
PROOF
<1> SUFFICES ASSUME NEW id \in Condemned' PROVE Cardinality(NewerThan(id)') >= RetentionLimit
  BY DEF RetentionInv, NewerThan
<1>1. id \in Ids /\ Cardinality(NewerThan(id)) >= RetentionLimit
  BY CondemnedType DEF RetentionInv
<1>2. NewerThan(id) \subseteq {s \in revs' : Newer(s, id)} BY DEF NewerThan
<1>3. Cardinality({s \in revs' : Newer(s, id)}) >= RetentionLimit BY <1>1, <1>2, MoreNewer
<1> QED BY <1>3 DEF NewerThan

(* Deleting a condemned revision keeps enough newer ones above the others. *)
LEMMA RetentionRemove ==
  ASSUME TypeInv, RetentionInv, NEW r \in Condemned, revs' = revs \ {r},
         Condemned' \subseteq Condemned \cup {r}
  PROVE  RetentionInv'
PROOF
<1> SUFFICES ASSUME NEW id \in Condemned' PROVE Cardinality(NewerThan(id)') >= RetentionLimit
  BY DEF RetentionInv, NewerThan
<1>1. /\ id \in Ids /\ r \in Ids /\ revs' \in SUBSET Ids
      /\ Cardinality(NewerThan(id)) >= RetentionLimit
      /\ Cardinality(NewerThan(r)) >= RetentionLimit
  BY CondemnedType DEF RetentionInv, TypeInv, TypeOK
<1>2. ~Newer(r, r) BY <1>1, IdPair DEF Newer
<1>3. CASE Newer(r, id)
  <2>1. NewerThan(r) \subseteq {s \in revs' : Newer(s, id)}
    BY <1>1, <1>2, <1>3, NewerTransitive DEF NewerThan, TypeInv, TypeOK
  <2>2. Cardinality({s \in revs' : Newer(s, id)}) >= RetentionLimit BY <1>1, <2>1, MoreNewer
  <2> QED BY <2>2 DEF NewerThan
<1>4. CASE ~Newer(r, id)
  <2>1. NewerThan(id) \subseteq {s \in revs' : Newer(s, id)} BY <1>4 DEF NewerThan
  <2>2. Cardinality({s \in revs' : Newer(s, id)}) >= RetentionLimit BY <1>1, <2>1, MoreNewer
  <2> QED BY <2>2 DEF NewerThan
<1> QED BY <1>3, <1>4

(* What expires in a list that may name revisions that are gone. *)
LEMMA ExpiredRetained ==
  ASSUME TypeInv, RetentionInv, NEW e \in Extensions, NEW id \in Expired(Listed(e))
  PROVE  Cardinality(NewerThan(id)) >= RetentionLimit
PROOF
<1> DEFINE S == Listed(e)
           T == {s \in S : Num(s) > Num(id)}
<1>1. /\ id \in Ids /\ Ext(id) = e /\ S \in SUBSET Ids /\ Cardinality(T) >= RetentionLimit
      /\ revs \in SUBSET Ids /\ \A s \in S : s \in Known
      /\ \A s \in S : Ext(s) = e
  BY ListedType DEF Expired, Listed, Known, TypeInv, TypeOK
<1>2. \A s \in T : Newer(s, id) BY <1>1 DEF Newer
<1>3. CASE T \subseteq revs
  <2>1. T \subseteq {s \in revs : Newer(s, id)} BY <1>2, <1>3
  <2> HIDE DEF T
  <2> QED BY <1>1, <2>1, MoreNewer DEF NewerThan
<1>4. CASE ~(T \subseteq revs)
  <2>1. PICK s \in T : s \notin revs BY <1>4
  <2>2. s \in Condemned /\ s \in Ids /\ Newer(s, id) BY <1>1, <1>2, <2>1 DEF Condemned
  <2>3. Cardinality(NewerThan(s)) >= RetentionLimit BY <2>2 DEF RetentionInv
  <2>4. NewerThan(s) \subseteq {q \in revs : Newer(q, id)}
    BY <1>1, <2>2, NewerTransitive DEF NewerThan
  <2> QED BY <1>1, <2>3, <2>4, MoreNewer DEF NewerThan
<1> QED BY <1>3, <1>4

(* When the list names exactly the revisions that exist, what is known of the
   numbers follows from the revisions alone. *)
LEMMA NumberFresh ==
  ASSUME TypeInv, TypeInv', RetentionInv', Known' = revs',
         applier'.pc = "create" => DueLatest' /\ DueFollows'
  PROVE  NumberInv'
PROOF
<1>1. \A e : Listed(e)' = {id \in revs' : Ext(id) = e} BY DEF Listed, Known
<1>2. revs' \in SUBSET Ids /\ applier' \in Appliers BY DEF TypeInv, TypeOK
<1>3. ListBehindByOne'
  <2> SUFFICES ASSUME NEW id \in revs'
               PROVE  Num(id) <= latestRevisionNumber(Listed(Ext(id))') + 1
    BY DEF ListBehindByOne
  <2>1. Ext(id) \in Extensions BY <1>2 DEF Ids, Ext
  <2> QED BY <1>1, <1>2, <2>1, FreshList
<1>4. applier'.pc = "create" => DueListed'
  <2>0. Listed(applier.ext)' = {id \in revs' : Ext(id) = applier'.ext} BY DEF Listed, Known
  <2> SUFFICES ASSUME applier'.pc = "create"
               PROVE  applier'.num <=
                        latestRevisionNumber({id \in revs' : Ext(id) = applier'.ext}) + 1
    BY <2>0 DEF DueListed
  <2>1. applier'.ext \in Extensions /\ applier'.num \in 1..MaxRevision
    BY <1>2 DEF Appliers, TypeInv, NumInRange
  <2>2. \/ applier'.num = 1 \/ <<applier'.ext, applier'.num - 1>> \in revs'
        \/ <<applier'.ext, applier'.num>> \in revs'
    BY DEF DueFollows
  <2> QED BY <1>2, <2>1, <2>2, FreshList
<1> QED BY <1>3, <1>4 DEF NumberInv

LEMMA NumberFrame ==
  ASSUME TypeInv, NumberInv, UNCHANGED <<revs, deleting, listed>>,
         applier' = applier \/ (applier'.pc # "create" /\ applier'.expired = {})
  PROVE  NumberInv'
PROOF
<1>1. RetentionInv'
  <2>1. Condemned' \subseteq Condemned BY DEF Condemned, Known
  <2>2. revs \subseteq revs' /\ revs' \subseteq Ids BY DEF TypeInv, TypeOK
  <2> QED BY <2>1, <2>2, RetentionFrame DEF NumberInv
<1>2. ListBehindByOne' BY DEF NumberInv, ListBehindByOne, Listed
<1>3. applier'.pc = "create" => DueListed' /\ DueLatest' /\ DueFollows'
  BY DEF NumberInv, DueListed, DueLatest, DueFollows, Listed
<1> QED BY <1>1, <1>2, <1>3 DEF NumberInv

(* The list is brought up to date. *)
LEMMA NumberSync ==
  ASSUME TypeInv, TypeInv', NumberInv, UNCHANGED <<revs, deleting>>,
         listed' = IF RevisionLag THEN revs ELSE listed,
         applier' = applier \/ (applier'.pc # "create" /\ applier'.expired = {})
  PROVE  NumberInv'
PROOF
<1>1. Known' = revs' BY DEF Known
<1>2. RetentionInv'
  <2>1. Condemned' \subseteq Condemned BY <1>1 DEF Condemned
  <2>2. revs \subseteq revs' /\ revs' \subseteq Ids BY DEF TypeInv, TypeOK
  <2> QED BY <2>1, <2>2, RetentionFrame DEF NumberInv
<1>3. applier'.pc = "create" => DueLatest' /\ DueFollows'
  BY DEF NumberInv, DueLatest, DueFollows
<1> QED BY <1>1, <1>2, <1>3, NumberFresh

LEMMA NumberRemove ==
  ASSUME TypeInv, TypeInv', NumberInv, NEW r \in Condemned, revs' = revs \ {r}, listed' = listed,
         deleting' \subseteq deleting, applier'.expired \subseteq applier.expired,
         applier'.pc = applier.pc, applier'.ext = applier.ext, applier'.num = applier.num
  PROVE  NumberInv'
PROOF
<1>0. /\ r \in Ids /\ revs \in SUBSET Ids /\ applier \in Appliers
      /\ Cardinality({s \in revs : Newer(s, r)}) >= RetentionLimit
  BY CondemnedType DEF NumberInv, RetentionInv, NewerThan, TypeInv, TypeOK
<1>1. PICK s \in revs : Newer(s, r) BY <1>0, NewerFinite
<1>2. RetentionInv'
  <2>1. Condemned' \subseteq Condemned \cup {r} BY DEF Condemned, Known
  <2> QED BY <2>1, RetentionRemove DEF NumberInv
<1>3. applier'.pc = "create" => DueLatest' /\ DueFollows'
  <2> SUFFICES ASSUME applier.pc = "create" PROVE DueLatest' /\ DueFollows' OBVIOUS
  <2>1. DueLatest /\ DueFollows /\ applier.num \in Nat
    BY <1>0, BoundsAssumption DEF NumberInv, Appliers
  <2>2. DueLatest' BY <2>1 DEF DueLatest
  <2>3. DueFollows'
    <3> DEFINE e == applier.ext
               n == applier.num
    <3>1. s \in Ids /\ s # r /\ s = <<Ext(s), Num(s)>> /\ Num(s) \in Nat /\ Num(r) \in Nat
          /\ r = <<Ext(r), Num(r)>> /\ Ext(s) = Ext(r) /\ Num(r) < Num(s)
      BY <1>0, <1>1, IdPair DEF Newer
    <3>2. Ext(r) = e => Num(s) <= n BY <2>1, <3>1 DEF DueLatest
    <3>3. CASE r = <<e, n>>
      <4>1. Ext(r) = e /\ Num(r) = n BY <3>3 DEF Ext, Num
      <4> QED BY <3>1, <3>2, <4>1
    <3>4. CASE r = <<e, n - 1>>
      <4>1. Ext(r) = e /\ Num(r) = n - 1 BY <3>4 DEF Ext, Num
      <4>2. Num(s) = n /\ Ext(s) = e BY <2>1, <3>1, <3>2, <4>1
      <4>3. <<e, n>> \in revs' BY <3>1, <4>2
      <4> QED BY <4>3 DEF DueFollows
    <3>5. CASE r # <<e, n>> /\ r # <<e, n - 1>> BY <2>1, <3>5 DEF DueFollows
    <3> QED BY <3>3, <3>4, <3>5
  <2> QED BY <2>2, <2>3
<1>4. CASE RevisionLag = FALSE
  <2>1. Known' = revs' BY <1>4 DEF Known
  <2> QED BY <1>2, <1>3, <2>1, NumberFresh
<1>5. CASE RevisionLag = TRUE
  <2>1. \A e : Listed(e)' = Listed(e) BY <1>5 DEF Listed
  <2>2. ListBehindByOne' BY <2>1 DEF NumberInv, ListBehindByOne
  <2>3. applier'.pc = "create" => DueListed' BY <2>1 DEF NumberInv, DueListed
  <2> QED BY <1>2, <1>3, <2>2, <2>3 DEF NumberInv
<1> QED BY <1>4, <1>5, FlagsAssumption

LEMMA NumberPatch ==
  ASSUME TypeInv, NumberInv, PatchLatest PROVE NumberInv'
PROOF
<1> DEFINE e == applier.ext
           S == Listed(e)
           n == latestRevisionNumber(S)
           E == Expired(S)
<1>1. /\ UNCHANGED <<revs, deleting, listed>>
      /\ \/ applier' = IdleApplier
         \/ applier' = [applier EXCEPT !.pc = "create", !.expired = E, !.num = n + 1]
  BY DEF PatchLatest, cosVars
<1>2. /\ applier \in Appliers /\ e \in Extensions /\ S \in SUBSET Ids /\ n \in Nat
      /\ revs \in SUBSET Ids
  BY ListedType, LatestBound DEF TypeInv, TypeOK, Appliers
<1>3. CASE applier' = IdleApplier
  BY <1>1, <1>3, NumberFrame DEF IdleApplier
<1>4. CASE applier' = [applier EXCEPT !.pc = "create", !.expired = E, !.num = n + 1]
  <2>1. applier'.ext = e /\ applier'.expired = E /\ applier'.num = n + 1
    <3> HIDE DEF E, n
    <3> QED BY <1>2, <1>4 DEF Appliers
  <2>2. RetentionInv'
    <3>1. \A id \in E : Cardinality(NewerThan(id)) >= RetentionLimit
      BY <1>2, ExpiredRetained DEF NumberInv
    <3>2. Condemned' = E \cup deleting \cup (Known \ revs) BY <1>1, <2>1 DEF Condemned, Known
    <3>3. \A id : NewerThan(id)' = NewerThan(id) BY <1>1 DEF NewerThan
    <3> HIDE DEF E
    <3> QED BY <3>1, <3>2, <3>3 DEF NumberInv, RetentionInv, Condemned, NewerThan
  <2>3. ListBehindByOne' BY <1>1 DEF NumberInv, ListBehindByOne, Listed
  <2>4. \A s \in revs : Ext(s) = e => Num(s) <= n + 1
    BY DEF NumberInv, ListBehindByOne
  <2>5. DueLatest' BY <1>1, <2>1, <2>4 DEF DueLatest
  <2>6. DueListed'
    <3>1. Listed(applier.ext)' = S BY <1>1, <2>1 DEF Listed
    <3> QED BY <1>2, <2>1, <3>1 DEF DueListed
  <2>7. DueFollows'
    <3>1. CASE S = {} BY <2>1, <3>1 DEF DueFollows, latestRevisionNumber
    <3>2. CASE S # {}
      <4>1. PICK l \in S : n = Num(l)
        BY <1>2, <3>2, Extremes DEF latestRevisionNumber
      <4>2. l \in Ids /\ l = <<e, n>> /\ l \in Known /\ n \in Nat
        BY <1>2, <4>1, IdPair DEF Listed, Known
      <4>3. CASE l \in revs
        <5>1. n + 1 - 1 = n BY <4>2
        <5> QED BY <1>1, <2>1, <4>2, <4>3, <5>1 DEF DueFollows
      <4>4. CASE l \notin revs
        <5>1. Cardinality({s \in revs : Newer(s, l)}) >= RetentionLimit
          BY <4>2, <4>4 DEF NumberInv, RetentionInv, Condemned, NewerThan
        <5>2. PICK s \in revs : Newer(s, l) BY <1>2, <4>2, <5>1, NewerFinite
        <5>3. Ext(s) = e /\ Num(s) > n BY <4>1, <4>2, <5>2 DEF Newer, Ext
        <5>4. s = <<e, n + 1>> BY <1>2, <2>4, <4>2, <5>3, IdPair
        <5> QED BY <1>1, <2>1, <5>4 DEF DueFollows
      <4> QED BY <4>3, <4>4
    <3> QED BY <3>1, <3>2
  <2> QED BY <2>2, <2>3, <2>5, <2>6, <2>7 DEF NumberInv
<1> QED BY <1>1, <1>3, <1>4

LEMMA NumberCreate ==
  ASSUME TypeInv, TypeInv', NumberInv, CreateRevision PROVE NumberInv'
PROOF
<1> DEFINE n == <<applier.ext, applier.num>>
<1>1. /\ revs' = revs \cup {n} /\ UNCHANGED <<deleting, listed>> /\ applier.pc = "create"
      /\ applier'.pc = "idle" /\ applier'.expired = {}
  BY DEF CreateRevision, IdleApplier
<1>2. Ext(n) = applier.ext /\ Num(n) = applier.num BY DEF Ext, Num
<1> HIDE DEF n
<1>3. RetentionInv'
  <2>1. Condemned' \subseteq Condemned BY <1>1 DEF Condemned, Known
  <2>2. revs \subseteq revs' /\ revs' \subseteq Ids BY <1>1 DEF TypeInv, TypeOK
  <2> QED BY <2>1, <2>2, RetentionFrame DEF NumberInv
<1>4. CASE RevisionLag = FALSE
  <2>1. Known' = revs' BY <1>4 DEF Known
  <2> QED BY <1>1, <1>3, <2>1, NumberFresh
<1>5. CASE RevisionLag = TRUE
  <2>1. \A e : Listed(e)' = Listed(e) BY <1>1, <1>5 DEF Listed
  <2>2. Num(n) <= latestRevisionNumber(Listed(Ext(n))) + 1
    BY <1>1, <1>2 DEF NumberInv, DueListed
  <2>3. ListBehindByOne' BY <1>1, <2>1, <2>2 DEF NumberInv, ListBehindByOne
  <2> QED BY <1>1, <1>3, <2>3 DEF NumberInv
<1> QED BY <1>4, <1>5, FlagsAssumption

LEMMA NumberCollect ==
  ASSUME TypeInv, TypeInv', NumberInv, NEW id \in Ids, CollectRevision(id) PROVE NumberInv'
PROOF
<1>1. /\ id \in applier.expired /\ listed' = listed
      /\ applier'.expired = applier.expired \ {id}
      /\ applier'.pc = applier.pc /\ applier'.ext = applier.ext /\ applier'.num = applier.num
  BY DEF CollectRevision, TypeInv, TypeOK, Appliers
<1>2. id \in Condemned BY <1>1 DEF Condemned
<1>3. CASE id \in revs \ finalizer /\ Forget(id)
  <2>1. revs' = revs \ {id} /\ deleting' \subseteq deleting BY <1>3 DEF Forget
  <2> QED BY <1>1, <1>2, <2>1, NumberRemove
<1>4. CASE UNCHANGED revs /\ deleting' \subseteq deleting \cup {id}
  <2>1. RetentionInv'
    <3>1. Condemned' \subseteq Condemned BY <1>1, <1>4 DEF Condemned, Known
    <3>2. revs \subseteq revs' /\ revs' \subseteq Ids BY <1>4 DEF TypeInv, TypeOK
    <3> QED BY <3>1, <3>2, RetentionFrame DEF NumberInv
  <2>2. ListBehindByOne' BY <1>1, <1>4 DEF NumberInv, ListBehindByOne, Listed
  <2>3. applier'.pc = "create" => DueListed' /\ DueLatest' /\ DueFollows'
    BY <1>1, <1>4 DEF NumberInv, DueListed, DueLatest, DueFollows, Listed
  <2> QED BY <2>1, <2>2, <2>3 DEF NumberInv
<1> QED BY <1>3, <1>4 DEF CollectRevision, cosVars

LEMMA NumberStep ==
  ASSUME TypeInv, TypeInv', NumberInv, [Next]_vars PROVE NumberInv'
PROOF
<1> USE DEF cosVars, objVars
<1>1. CASE UNCHANGED vars BY <1>1, NumberFrame DEF vars
<1>2. ASSUME NEW e \in Extensions, ResolveBundle(e) PROVE NumberInv'
  BY <1>2, NumberFrame DEF ResolveBundle, IdleApplier
<1>3. CASE FailApply BY <1>3, NumberFrame DEF FailApply, IdleApplier
<1>4. CASE PatchLatest BY <1>4, NumberPatch
<1>5. CASE CreateRevision BY <1>5, NumberCreate
<1>6. ASSUME NEW id \in Ids, CollectRevision(id) PROVE NumberInv' BY <1>6, NumberCollect
<1>7. ASSUME NEW id \in Ids, DeleteRevision(id) PROVE NumberInv'
  <2>1. /\ id \in Condemned /\ revs' = revs \ {id} /\ deleting' \subseteq deleting
        /\ UNCHANGED <<listed, applier>>
    BY <1>7 DEF DeleteRevision, Forget, Condemned
  <2> QED BY <2>1, NumberRemove
<1>8. CASE SyncRevisions BY <1>8, NumberSync DEF SyncRevisions
<1>9. CASE Crash
  <2>1. applier'.pc = "idle" /\ applier'.expired = {} BY <1>9 DEF Crash, IdleApplier
  <2> QED BY <1>9, <2>1, NumberSync DEF Crash
<1>10. CASE \/ \E id \in Ids : \/ BeginReconcile(id) \/ BeginTeardown(id) \/ BeginBlocked(id)
                               \/ PassDeadline(id)
            \/ ReconcilePass \/ TeardownPass \/ UpdateStatus \/ FailPass
            \/ \E o \in Objects : \/ BecomeReady(o) \/ BecomeUnready(o) \/ FinalizeObject(o)
                                  \/ UserDeletes(o) \/ KubeCollect(o) \/ SyncObject(o)
            \/ \E e \in Extensions : ChangeSpec(e)
  <2>1. UNCHANGED <<revs, deleting, listed, applier>>
    BY <1>10 DEF BeginReconcile, BeginTeardown, BeginBlocked,
       ReconcilePass, CreateObject, AdoptObject, UpdateObject, SkipObject, NextPhase, StopAtPhase,
       CompleteRevision, MarkSucceeded, ArchivePrevious, TeardownPass, TeardownGone,
       TeardownRelease, TeardownDelete, TeardownConflict, PreviousPhase, AwaitTeardown,
       FinishTeardown, UpdateStatus, FailPass, BecomeReady, BecomeUnready,
       FinalizeObject, UserDeletes, KubeCollect, SyncObject, PassDeadline, ChangeSpec
  <2> QED BY <2>1, NumberFrame
<1> QED BY <1>1, <1>2, <1>3, <1>4, <1>5, <1>6, <1>7, <1>8, <1>9, <1>10
        DEF Next, BeginPass, ApplyPass, Cluster

LEMMA NumberInvariance == Spec => [](TypeInv /\ LifecycleInv /\ NumberInv)
PROOF
<1>1. Init => NumberInv
  <2> SUFFICES ASSUME Init PROVE NumberInv OBVIOUS
  <2>1. Condemned = {} /\ revs = {} /\ applier.pc = "idle"
    BY DEF Init, Condemned, Known, IdleApplier
  <2> QED BY <2>1 DEF NumberInv, RetentionInv, ListBehindByOne
<1>2. TypeInv /\ NumberInv /\ [Next]_vars => NumberInv' BY TypeStep, NumberStep
<1> QED BY <1>1, <1>2, TypeInit, TypeStep, LifecycleInit, LifecycleStep, PTL DEF Spec

(* Only the applier creates a revision, and with the number that is due. *)
LEMMA CreatedInOrder ==
  ASSUME TypeInv, NumberInv, [Next]_vars, NEW id \in revs' \ revs
  PROVE  /\ \A s \in RevisionsOf(Ext(id)) : Newer(id, s)
         /\ Num(id) = 1 \/ <<Ext(id), Num(id) - 1>> \in revs
PROOF
<1>1. CreateRevision
  BY DEF cosVars, objVars, Next, vars, BeginPass, BeginReconcile, BeginTeardown, DeleteRevision,
     Forget, BeginBlocked, ReconcilePass, CreateObject, AdoptObject, UpdateObject, SkipObject,
     NextPhase, StopAtPhase, CompleteRevision, MarkSucceeded, ArchivePrevious, TeardownPass,
     TeardownGone, TeardownRelease, TeardownDelete, TeardownConflict, PreviousPhase,
     AwaitTeardown, FinishTeardown, UpdateStatus, FailPass, ResolveBundle, ApplyPass, PatchLatest,
     CollectRevision, FailApply, Cluster, BecomeReady, BecomeUnready, FinalizeObject, UserDeletes,
     KubeCollect, SyncObject, PassDeadline, ChangeSpec, SyncRevisions, Crash
<1>2. id = <<applier.ext, applier.num>> /\ applier.pc = "create" BY <1>1 DEF CreateRevision
<1>3. Ext(id) = applier.ext /\ Num(id) = applier.num /\ applier.num \in 1..MaxRevision
      /\ applier.ext \in Extensions /\ revs \in SUBSET Ids
  BY <1>2 DEF Ext, Num, TypeInv, NumInRange, TypeOK, Appliers
<1>4. id \in Ids BY <1>2, <1>3 DEF Ids
<1>5. DueLatest /\ DueFollows BY <1>2 DEF NumberInv
<1>6. ASSUME NEW s \in RevisionsOf(Ext(id)) PROVE Newer(id, s)
  <2>1. s \in Ids /\ s # id /\ Ext(s) = Ext(id) /\ Num(s) <= Num(id)
    BY <1>3, <1>5 DEF RevisionsOf, DueLatest
  <2> QED BY <1>4, <2>1, IdPair DEF Newer
<1> QED BY <1>2, <1>3, <1>5, <1>6 DEF DueFollows

(* Whatever list the applier saw, a revision it creates is the first of its
   extension or directly follows the latest one: no number is skipped, and none
   is used twice. *)
THEOREM NumbersNeverSkip == Spec => NumbersSequential
PROOF
<1>1. TypeInv /\ NumberInv /\ [Next]_vars =>
        [\A id \in revs' \ revs :
           /\ \A s \in RevisionsOf(Ext(id)) : Newer(id, s)
           /\ Num(id) = 1 \/ <<Ext(id), Num(id) - 1>> \in revs]_vars
  BY CreatedInOrder
<1> QED BY <1>1, NumberInvariance, PTL DEF Spec, NumbersSequential

LEMMA CollectedExpired ==
  ASSUME TypeInv, LifecycleInv, NumberInv, [Next]_vars, NEW id \in revs,
         (id \in deleting' \ deleting) \/ (id \notin revs' /\ id \notin deleting)
  PROVE  id \in archived /\ Cardinality({s \in revs : Newer(s, id)}) >= RetentionLimit
PROOF
<1>1. \/ \E i \in Ids : CollectRevision(i) \/ DeleteRevision(i)
      \/ revs \subseteq revs' /\ deleting' = deleting
  BY DEF cosVars, objVars, Next, vars, BeginPass, BeginReconcile, BeginTeardown, BeginBlocked,
     ReconcilePass, CreateObject, AdoptObject, UpdateObject, SkipObject,
     NextPhase, StopAtPhase, CompleteRevision, MarkSucceeded, ArchivePrevious, TeardownPass,
     TeardownGone, TeardownRelease, TeardownDelete, TeardownConflict, PreviousPhase,
     AwaitTeardown, FinishTeardown, UpdateStatus, FailPass, ResolveBundle, ApplyPass, PatchLatest,
     CreateRevision, FailApply, Cluster, BecomeReady, BecomeUnready, FinalizeObject, UserDeletes,
     KubeCollect, SyncObject, PassDeadline, ChangeSpec, SyncRevisions, Crash
<1>2. PICK i \in Ids : CollectRevision(i) \/ DeleteRevision(i) BY <1>1
<1>3. ~DeleteRevision(i) BY DEF DeleteRevision, Forget
<1>4. id = i /\ id \in applier.expired
  BY <1>2, <1>3 DEF CollectRevision, Forget, cosVars
<1>5. id \in archived BY <1>4 DEF LifecycleInv, ExpiredArchived
<1> QED BY <1>4, <1>5 DEF NumberInv, RetentionInv, Condemned, NewerThan

(* Retention deletes only archived revisions below the newest RetentionLimit
   that exist, even when the list it decides from names revisions that are
   gone or misses the latest one. *)
THEOREM RetentionSafe == Spec => RetentionKeepsNewest
PROOF
<1>1. TypeInv /\ LifecycleInv /\ NumberInv /\ [Next]_vars =>
        [\A id \in revs : (id \in deleting' \ deleting) \/ (id \notin revs' /\ id \notin deleting) =>
           /\ id \in archived
           /\ Cardinality({s \in revs : Newer(s, id)}) >= RetentionLimit]_vars
  BY CollectedExpired
<1> QED BY <1>1, NumberInvariance, PTL DEF Spec, RetentionKeepsNewest

-----------------------------------------------------------------------------
(* Handover and teardown of objects, when the engine's cache is up to date,
   for every collision protection. What a step may do to an object, and who
   does it: only a pass over an active revision adds an owner, only a teardown
   marks for deletion, and the garbage collector spares what has an owner. *)
Taken(v, id) ==
  (IF v.ex THEN {Adopted(v, id)} ELSE {Fresh(id)})
  \cup (IF v.ctrl = id THEN {[v EXCEPT !.rev = Num(id), !.owners = {id}]} ELSE {})
Left(v, S) == [v EXCEPT !.owners = S, !.ctrl = IF @ \in S THEN @ ELSE Nobody]
Treated(o) ==
  \/ obj'[o] = obj[o]
  \/ /\ obj'[o] = Absent
     /\ faults' # faults \/ obj[o].dying \/ (obj[o].owners # {} /\ obj[o].owners \cap revs = {})
  \/ TeardownDelete(o) /\ obj'[o] = [obj[o] EXCEPT !.dying = TRUE]
  \/ TeardownRelease(o) /\ obj'[o] = [obj[o] EXCEPT !.owners = @ \ {worker.id}]
  \/ obj[o].ex /\ obj'[o] = Left(obj[o], obj[o].owners \cap revs)
  \/ worker.pc = "reconcile" /\ o \in worker.todo /\ obj'[o] \in Taken(obj[o], worker.id)

LEMMA WriteOne ==
  ASSUME TypeOK, CacheFresh, ObjectLag = FALSE, NEW o \in Objects, NEW v, WriteObject(o, v)
  PROVE  seen' = obj' /\ obj'[o] = v /\ \A p \in Objects : p # o => obj'[p] = obj[p]
PROOF BY DEF TypeOK, CacheFresh, WriteObject

LEMMA TreatOne ==
  ASSUME seen' = obj', NEW o \in Objects, Treated(o),
         \A p \in Objects : p # o => obj'[p] = obj[p]
  PROVE  seen' = obj' /\ \A p \in Objects : Treated(p)
PROOF BY DEF Treated

LEMMA EveryObjectTreated ==
  ASSUME TypeInv, CacheFresh, AbsentClean, ObjectLag = FALSE, [Next]_vars
  PROVE  seen' = obj' /\ \A o \in Objects : Treated(o)
PROOF
<1> USE DEF cosVars, objVars
<1> DEFINE Goal == seen' = obj' /\ \A o \in Objects : Treated(o)
<1>0. /\ TypeOK /\ worker.id \in Ids /\ seen = obj
      /\ \A o \in Objects : Observed(o) = obj[o]
      /\ \A o \in Objects : obj[o] \in ObjectStates
  BY DEF TypeInv, TypeOK, Workers, CacheFresh, Observed
<1>1. ASSUME UNCHANGED <<obj, seen>> PROVE Goal BY <1>0, <1>1 DEF Treated
<1>2. ASSUME NEW o \in Objects, CreateObject(o) PROVE Goal
  <2>1. Fresh(worker.id) \in Taken(obj[o], worker.id) BY <1>0, <1>2 DEF CreateObject, Taken
  <2>2. seen' = obj' /\ Treated(o) /\ \A p \in Objects : p # o => obj'[p] = obj[p]
    BY <1>0, <1>2, <2>1, WriteOne DEF CreateObject, Treated
  <2> QED BY <2>2, TreatOne
<1>3. ASSUME NEW o \in Objects, NEW w \in Taken(obj[o], worker.id), ApplyObject(o, obj[o], w),
             worker.pc = "reconcile", o \in worker.todo
      PROVE  Goal
  <2>1. seen' = obj' /\ Treated(o) /\ \A p \in Objects : p # o => obj'[p] = obj[p]
    BY <1>0, <1>3, WriteOne DEF ApplyObject, Treated
  <2> QED BY <2>1, TreatOne
<1>4. ASSUME NEW o \in Objects, AdoptObject(o) PROVE Goal
  <2>1. Adopted(obj[o], worker.id) \in Taken(obj[o], worker.id)
    BY <1>0, <1>4 DEF AdoptObject, Taken
  <2> QED BY <1>0, <1>3, <1>4, <2>1 DEF AdoptObject
<1>5. ASSUME NEW o \in Objects, UpdateObject(o) PROVE Goal
  <2> DEFINE w == [obj[o] EXCEPT !.rev = Num(worker.id), !.owners = {worker.id}]
  <2>1. w \in Taken(obj[o], worker.id) BY <1>0, <1>5 DEF UpdateObject, Controls, Taken
  <2>2. worker.pc = "reconcile" /\ o \in worker.todo
        /\ (UNCHANGED <<obj, seen>> \/ ApplyObject(o, obj[o], w))
    BY <1>0, <1>5 DEF UpdateObject
  <2> HIDE DEF w
  <2> QED BY <1>1, <1>3, <2>1, <2>2
<1>6. ASSUME NEW o \in Objects, TeardownRelease(o) PROVE Goal
  <2> DEFINE w == [obj[o] EXCEPT !.owners = obj[o].owners \ {worker.id}, !.ctrl = obj[o].ctrl]
  <2>1. UNCHANGED <<obj, seen>> \/ WriteObject(o, w) BY <1>0, <1>6 DEF TeardownRelease
  <2>2. w = [obj[o] EXCEPT !.owners = @ \ {worker.id}] BY <1>0 DEF ObjectStates
  <2> HIDE DEF w
  <2>3. CASE WriteObject(o, w)
    <3>1. seen' = obj' /\ Treated(o) /\ \A p \in Objects : p # o => obj'[p] = obj[p]
      BY <1>0, <1>6, <2>2, <2>3, WriteOne DEF Treated
    <3> QED BY <3>1, TreatOne
  <2> QED BY <1>1, <2>1, <2>3
<1>7. ASSUME NEW o \in Objects, TeardownDelete(o) PROVE Goal
  <2>1. WriteObject(o, [obj[o] EXCEPT !.dying = TRUE]) BY <1>0, <1>7 DEF TeardownDelete
  <2>2. seen' = obj' /\ Treated(o) /\ \A p \in Objects : p # o => obj'[p] = obj[p]
    BY <1>0, <1>7, <2>1, WriteOne DEF Treated
  <2> QED BY <2>2, TreatOne
<1>8. ASSUME NEW o \in Objects, Vanish(o),
             faults' # faults \/ obj[o].dying \/ (obj[o].owners # {} /\ obj[o].owners \cap revs = {})
      PROVE  Goal
  <2>1. seen' = obj' /\ Treated(o) /\ \A p \in Objects : p # o => obj'[p] = obj[p]
    BY <1>0, <1>8, WriteOne DEF Vanish, Treated
  <2> QED BY <2>1, TreatOne
<1>9. ASSUME NEW o \in Objects, FinalizeObject(o) PROVE Goal BY <1>8, <1>9 DEF FinalizeObject
<1>10. ASSUME NEW o \in Objects, UserDeletes(o) PROVE Goal
  <2>1. faults' # faults BY <1>0, <1>10, BoundsAssumption DEF UserDeletes, Fault, TypeOK
  <2> QED BY <1>8, <1>10, <2>1 DEF UserDeletes
<1>11. ASSUME NEW o \in Objects, KubeCollect(o) PROVE Goal
  <2> DEFINE left == obj[o].owners \cap revs
  <2>1. left # obj[o].owners /\ ((left = {} /\ Vanish(o)) \/ WriteObject(o, Left(obj[o], left)))
    BY <1>11 DEF KubeCollect, Left
  <2>2. obj[o].ex BY <2>1 DEF AbsentClean, Absent
  <2>3. CASE WriteObject(o, Left(obj[o], left))
    <3>1. seen' = obj' /\ Treated(o) /\ \A p \in Objects : p # o => obj'[p] = obj[p]
      BY <1>0, <2>2, <2>3, WriteOne DEF Treated
    <3> QED BY <3>1, TreatOne
  <2>4. CASE left = {} /\ Vanish(o) BY <1>8, <2>1, <2>4
  <2> QED BY <2>1, <2>3, <2>4
<1>12. ASSUME \/ \E o \in Objects : SyncObject(o)
              \/ Crash
              \/ UNCHANGED vars
              \/ \E id \in Ids : BeginPass(id) \/ BeginBlocked(id) \/ ArchivePrevious(id)
                                \/ CollectRevision(id) \/ PassDeadline(id)
              \/ \E o \in Objects : \/ SkipObject(o) \/ TeardownGone(o) \/ TeardownConflict(o)
                                    \/ BecomeReady(o) \/ BecomeUnready(o)
              \/ \E e \in Extensions : ResolveBundle(e) \/ ChangeSpec(e)
              \/ NextPhase \/ StopAtPhase \/ CompleteRevision \/ MarkSucceeded
              \/ PreviousPhase \/ AwaitTeardown \/ FinishTeardown
              \/ UpdateStatus \/ FailPass \/ PatchLatest \/ CreateRevision \/ FailApply
              \/ SyncRevisions
       PROVE  Goal
  <2>1. UNCHANGED <<obj, seen>>
    BY <1>0, <1>12 DEF BeginPass, BeginReconcile, BeginTeardown, DeleteRevision, BeginBlocked,
       ArchivePrevious, CollectRevision, PassDeadline, SkipObject, TeardownGone,
       TeardownConflict, BecomeReady, BecomeUnready, ResolveBundle, ChangeSpec, NextPhase,
       StopAtPhase, CompleteRevision, MarkSucceeded, PreviousPhase, AwaitTeardown,
       FinishTeardown, UpdateStatus, FailPass, PatchLatest, CreateRevision, FailApply,
       SyncRevisions, SyncObject, Crash, vars
  <2> QED BY <1>1, <2>1
<1> HIDE DEF Goal
<1>13. Goal
  BY <1>2, <1>4, <1>5, <1>6, <1>7, <1>9, <1>10, <1>11, <1>12
     DEF Next, ReconcilePass, TeardownPass, ApplyPass, Cluster
<1> QED BY <1>13 DEF Goal

(* What a treatment keeps of an object: its annotation is that of its
   controller, its controller is an owner, and it loses owners unless a pass
   over a revision takes it. *)
ControllerOwns == \A o \in Objects : obj[o].ctrl \in Ids => obj[o].ctrl \in obj[o].owners
ObjectInv == OwnershipInv /\ ControllerOwns

LEMMA TreatedKeeps ==
  ASSUME TypeInv, ObjectInv, NEW o \in Objects, Treated(o)
  PROVE  /\ ~obj'[o].ex => obj'[o] = Absent
         /\ obj'[o].ctrl \in Ids => obj'[o].rev = Num(obj'[o].ctrl)
         /\ obj'[o].ctrl \in Ids => obj'[o].ctrl \in obj'[o].owners
         /\ \/ obj'[o].owners \subseteq obj[o].owners
            \/ /\ worker.pc = "reconcile" /\ o \in worker.todo
               /\ obj'[o].owners \subseteq obj[o].owners \cup {worker.id}
PROOF
<1> DEFINE v == obj[o]
           w == obj'[o]
           id == worker.id
           Good(x) == /\ ~x.ex => x = Absent
                      /\ x.ctrl \in Ids => x.rev = Num(x.ctrl)
                      /\ x.ctrl \in Ids => x.ctrl \in x.owners
<1>0. v \in ObjectStates /\ id \in Ids /\ Good(v) /\ Nobody \notin Ids
  BY NobodyAssumption DEF TypeInv, TypeOK, Workers, ObjectInv, OwnershipInv, AbsentClean, ControllerAnnotated,
         ControllerOwns
<1>1. ASSUME w = v PROVE Good(w) /\ w.owners \subseteq v.owners BY <1>0, <1>1
<1>2. ASSUME w = Absent PROVE Good(w) /\ w.owners \subseteq v.owners
  BY <1>0, <1>2 DEF Absent
<1>3. ASSUME TeardownDelete(o), w = [v EXCEPT !.dying = TRUE]
      PROVE  Good(w) /\ w.owners \subseteq v.owners
  <2>1. v.ex BY <1>3 DEF TeardownDelete, ObjectInv, OwnershipInv, CacheFresh
  <2>2. w.ex = v.ex /\ w.ctrl = v.ctrl /\ w.rev = v.rev /\ w.owners = v.owners
    BY <1>0, <1>3 DEF ObjectStates
  <2> QED BY <1>0, <2>1, <2>2
<1>4. ASSUME TeardownRelease(o), w = [v EXCEPT !.owners = @ \ {id}]
      PROVE  Good(w) /\ w.owners \subseteq v.owners
  <2>1. v.ex /\ v.ctrl # id
    BY <1>4 DEF TeardownRelease, NotOurs, ObjectInv, OwnershipInv, CacheFresh
  <2>2. w.ex = v.ex /\ w.ctrl = v.ctrl /\ w.rev = v.rev /\ w.owners = v.owners \ {id}
    BY <1>0, <1>4 DEF ObjectStates
  <2> QED BY <1>0, <2>1, <2>2
<1>5. ASSUME v.ex, w = Left(v, v.owners \cap revs)
      PROVE  Good(w) /\ w.owners \subseteq v.owners
  <2>2. /\ w.ex = v.ex /\ w.rev = v.rev /\ w.owners = v.owners \cap revs
        /\ \/ w.ctrl = v.ctrl /\ v.ctrl \in w.owners
           \/ w.ctrl = Nobody
    BY <1>0, <1>5 DEF ObjectStates, Left
  <2> QED BY <1>0, <1>5, <2>2
<1>6. ASSUME w \in Taken(v, id) PROVE Good(w) /\ w.owners \subseteq v.owners \cup {id}
  <2>1. CASE w = Fresh(id) BY <1>0, <2>1 DEF Fresh
  <2>2. CASE v.ex /\ w = Adopted(v, id)
    <3>1. w.ex /\ w.ctrl = id /\ w.rev = Num(id) /\ w.owners = v.owners \cup {id}
      BY <1>0, <2>2 DEF ObjectStates, Adopted
    <3> QED BY <3>1
  <2>3. CASE v.ctrl = id /\ w = [v EXCEPT !.rev = Num(id), !.owners = {id}]
    <3>1. w.ex = v.ex /\ w.ctrl = id /\ w.rev = Num(id) /\ w.owners = {id}
      BY <1>0, <2>3 DEF ObjectStates
    <3>2. v.ex BY <1>0, <2>3 DEF Absent
    <3> QED BY <3>1, <3>2
  <2> QED BY <1>6, <2>1, <2>2, <2>3 DEF Taken
<1> HIDE DEF Good
<1>7. Good(w) /\ (\/ w.owners \subseteq v.owners
                  \/ worker.pc = "reconcile" /\ o \in worker.todo /\ w.owners \subseteq v.owners \cup {id})
  BY <1>1, <1>2, <1>3, <1>4, <1>5, <1>6 DEF Treated
<1> QED BY <1>7 DEF Good

LEMMA ObjectInvStep ==
  ASSUME ObjectLag = FALSE, TypeInv, ObjectInv, [Next]_vars PROVE ObjectInv'
PROOF
<1>1. seen' = obj' /\ \A o \in Objects : Treated(o)
  BY EveryObjectTreated DEF ObjectInv, OwnershipInv
<1> QED BY <1>1, TreatedKeeps
        DEF ObjectInv, OwnershipInv, CacheFresh, AbsentClean, ControllerAnnotated, ControllerOwns

(* What a step may do to the revisions. *)
LifeStep ==
  \/ UNCHANGED <<revs, archived, deleting, content, finalizer>>
  \/ \E id \in Ids : BeginReconcile(id)
  \/ FinishTeardown
  \/ \E p \in Ids : ArchivePrevious(p)
  \/ worker' = worker /\ \E r \in archived : Forget(r)
  \/ /\ worker' = worker /\ UNCHANGED <<revs, archived, content, finalizer>>
     /\ \E r \in archived : deleting' = deleting \cup {r}
  \/ CreateRevision

LEMMA EveryLifeStep ==
  ASSUME LifecycleInv, [Next]_vars PROVE LifeStep
PROOF
<1> USE DEF cosVars, objVars
<1>1. CASE \/ \E id \in Ids : BeginTeardown(id) \/ BeginBlocked(id) \/ PassDeadline(id)
           \/ \E o \in Objects : CreateObject(o) \/ AdoptObject(o) \/ UpdateObject(o) \/ SkipObject(o)
           \/ NextPhase \/ StopAtPhase \/ CompleteRevision \/ MarkSucceeded
           \/ \E o \in Objects : \/ TeardownGone(o) \/ TeardownRelease(o)
                                 \/ TeardownDelete(o) \/ TeardownConflict(o)
           \/ PreviousPhase \/ AwaitTeardown \/ UpdateStatus \/ FailPass
           \/ \E e \in Extensions : ResolveBundle(e) \/ ChangeSpec(e)
           \/ PatchLatest \/ FailApply \/ SyncRevisions \/ Crash \/ UNCHANGED vars
           \/ \E o \in Objects : \/ BecomeReady(o) \/ BecomeUnready(o) \/ FinalizeObject(o)
                                 \/ UserDeletes(o) \/ KubeCollect(o) \/ SyncObject(o)
  <2>1. UNCHANGED <<revs, archived, deleting, content, finalizer>>
    BY <1>1 DEF BeginTeardown, BeginBlocked, PassDeadline, CreateObject, AdoptObject,
       UpdateObject, SkipObject, NextPhase, StopAtPhase, CompleteRevision, MarkSucceeded,
       TeardownGone, TeardownRelease, TeardownDelete, TeardownConflict, PreviousPhase,
       AwaitTeardown, UpdateStatus, FailPass, ResolveBundle, ChangeSpec, PatchLatest, FailApply,
       SyncRevisions, Crash, vars, BecomeReady, BecomeUnready, FinalizeObject, UserDeletes,
       KubeCollect, SyncObject
  <2> QED BY <2>1 DEF LifeStep
<1>2. ASSUME NEW id \in Ids, DeleteRevision(id) PROVE LifeStep
  BY <1>2 DEF DeleteRevision, LifecycleInv, SetsNested, LifeStep
<1>3. ASSUME NEW id \in Ids, CollectRevision(id) PROVE LifeStep
  <2>1. id \in revs => id \in archived BY <1>3 DEF CollectRevision, LifecycleInv, ExpiredArchived
  <2>2. finalizer \subseteq revs BY DEF LifecycleInv, SetsNested
  <2>3. worker' = worker BY <1>3 DEF CollectRevision
  <2>4. CASE id \in revs /\ Forget(id) BY <2>1, <2>3, <2>4 DEF LifeStep
  <2>5. CASE UNCHANGED <<cosVars, status>> BY <2>5 DEF LifeStep
  <2>6. CASE /\ id \in finalizer /\ deleting' = deleting \cup {id}
             /\ UNCHANGED <<revs, content, archived, finalizer>>
    BY <2>1, <2>2, <2>3, <2>6 DEF LifeStep
  <2> QED BY <1>3, <2>4, <2>5, <2>6 DEF CollectRevision
<1>4. CASE \/ \E id \in Ids : BeginReconcile(id) \/ ArchivePrevious(id)
           \/ FinishTeardown \/ CreateRevision
  BY <1>4 DEF LifeStep
<1> QED BY <1>1, <1>2, <1>3, <1>4
        DEF Next, BeginPass, ReconcilePass, TeardownPass, ApplyPass, Cluster

(* What a step may do to a pass that goes on. *)
PassStep ==
  \/ worker' = worker
  \/ worker'.pc \notin {"reconcile", "teardown"}
  \/ \E id \in Ids : BeginReconcile(id) \/ BeginTeardown(id)
  \/ worker.pc = "reconcile" /\ \E o, r : Handled(o, r)
  \/ NextPhase
  \/ \E o \in Objects : TeardownGone(o) \/ TeardownRelease(o) \/ TeardownDelete(o)
  \/ PreviousPhase

LEMMA EveryPassStep ==
  ASSUME TypeInv, [Next]_vars PROVE PassStep
PROOF
<1> USE DEF cosVars, objVars
<1>0. worker \in Workers /\ IdleWorker.pc = "idle" BY DEF TypeInv, TypeOK, IdleWorker
<1>1. ASSUME NEW id, NEW c, Finish(id, c) PROVE worker'.pc \notin {"reconcile", "teardown"}
  BY <1>1 DEF Finish, IdleWorker
<1>2. CASE \/ \E id \in Ids : BeginBlocked(id)
           \/ StopAtPhase \/ MarkSucceeded \/ AwaitTeardown \/ FinishTeardown \/ FailPass
           \/ \E o \in Objects : TeardownConflict(o)
  <2>1. worker' = IdleWorker \/ \E id, c : Finish(id, c)
    BY <1>2 DEF BeginBlocked, StopAtPhase, MarkSucceeded, AwaitTeardown, FinishTeardown,
                FailPass, TeardownConflict
  <2> QED BY <1>0, <1>1, <2>1 DEF PassStep
<1>3. CASE CompleteRevision \/ \E p \in Ids : ArchivePrevious(p)
  BY <1>0, <1>3 DEF CompleteRevision, ArchivePrevious, PassStep, Workers
<1>4. CASE UpdateStatus \/ Crash BY <1>0, <1>4 DEF UpdateStatus, Crash, PassStep
<1>5. ASSUME NEW o \in Objects,
             CreateObject(o) \/ AdoptObject(o) \/ UpdateObject(o) \/ SkipObject(o)
      PROVE  PassStep
  BY <1>5 DEF CreateObject, AdoptObject, UpdateObject, SkipObject, ApplyObject, PassStep
<1>6. CASE \/ \E id \in Ids : BeginReconcile(id) \/ BeginTeardown(id)
           \/ NextPhase \/ PreviousPhase
           \/ \E o \in Objects : TeardownGone(o) \/ TeardownRelease(o) \/ TeardownDelete(o)
  BY <1>6 DEF PassStep
<1>7. CASE \/ \E id \in Ids : DeleteRevision(id) \/ CollectRevision(id)
           \/ \E e \in Extensions : ResolveBundle(e)
           \/ PatchLatest \/ CreateRevision \/ FailApply \/ Cluster \/ UNCHANGED vars
  <2>1. worker' = worker
    BY <1>7 DEF DeleteRevision, CollectRevision, ResolveBundle, PatchLatest, CreateRevision,
       FailApply, Cluster, vars, BecomeReady, BecomeUnready, FinalizeObject, UserDeletes,
       KubeCollect, SyncObject, PassDeadline, ChangeSpec, SyncRevisions
  <2> QED BY <2>1 DEF PassStep
<1> QED BY <1>2, <1>3, <1>4, <1>5, <1>6, <1>7
        DEF Next, BeginPass, ReconcilePass, TeardownPass, ApplyPass

(* A revision below an active one stays below an active one, and is never
   created again once it is gone. *)
Superseded(id) == \E s \in revs : Newer(s, id) /\ Active(s)

LEMMA SupersededKept ==
  ASSUME TypeInv, LifecycleInv, NumberInv, [Next]_vars, NEW id \in Ids, Superseded(id)
  PROVE  Superseded(id)' /\ (id \in revs' => id \in revs)
PROOF
<1>0. PICK s \in revs : Newer(s, id) /\ Active(s) BY DEF Superseded
<1>1. s \in Ids /\ SetsNested BY DEF TypeInv, TypeOK, LifecycleInv
<1>2. Superseded(id)'
  <2> SUFFICES \E q \in revs' : Newer(q, id) /\ Active(q)' BY DEF Superseded
  <2>1. CASE UNCHANGED <<revs, archived, deleting>> BY <1>0, <2>1 DEF Active
  <2>2. ASSUME NEW p \in Ids, ArchivePrevious(p) PROVE \E q \in revs' : Newer(q, id) /\ Active(q)'
    <3>1. worker.id \in Ids BY DEF TypeInv, TypeOK, Workers
    <3>2. Active(worker.id) /\ Newer(worker.id, p) /\ worker.id # p
      BY <2>2, <3>1, IdPair
         DEF ArchivePrevious, LifecycleInv, WorkerOnActive, PrevOlder, Newer
    <3>3. archived' = archived \cup {p} /\ UNCHANGED <<revs, deleting>>
      BY <2>2 DEF ArchivePrevious
    <3>4. CASE s = p
      <4>1. Newer(worker.id, id) BY <1>0, <1>1, <3>1, <3>2, <3>4, NewerTransitive
      <4> QED BY <3>2, <3>3, <4>1 DEF Active
    <3>5. CASE s # p BY <1>0, <3>3, <3>5 DEF Active
    <3> QED BY <3>4, <3>5
  <2>3. ASSUME NEW r \in archived, Forget(r) PROVE \E q \in revs' : Newer(q, id) /\ Active(q)'
    <3>1. s # r BY <1>0, <2>3 DEF Active
    <3> QED BY <1>0, <2>3, <3>1 DEF Forget, Active
  <2>4. ASSUME NEW r \in archived, deleting' = deleting \cup {r}, UNCHANGED <<revs, archived>>
        PROVE  \E q \in revs' : Newer(q, id) /\ Active(q)'
    <3>1. s # r BY <1>0, <2>4 DEF Active
    <3> QED BY <1>0, <2>4, <3>1 DEF Active
  <2>5. CASE CreateRevision BY <1>0, <2>5 DEF CreateRevision, Active
  <2>6. CASE FinishTeardown \/ \E i \in Ids : BeginReconcile(i)
    BY <2>1, <2>6 DEF FinishTeardown, BeginReconcile
  <2> QED BY EveryLifeStep, <2>1, <2>2, <2>3, <2>4, <2>5, <2>6 DEF LifeStep
<1>3. ASSUME id \in revs', id \notin revs PROVE FALSE
  <2>1. Newer(id, s)
    BY <1>0, <1>3, CreatedInOrder DEF RevisionsOf, Newer
  <2> QED BY <1>0, <1>1, <2>1, IdPair DEF Newer
<1> QED BY <1>2, <1>3

(* What the passes in progress rely on. *)
TeardownSuperseded ==
  worker.pc = "teardown" =>
    Superseded(worker.id) /\ (worker.id \in revs => worker.id \in archived)
ReconcileHeld == worker.pc = "reconcile" => worker.id \in finalizer
PassContent ==
  worker.pc \in {"reconcile", "teardown"} =>
    /\ worker.id \in revs => worker.phases = Phases(worker.id)
    /\ worker.todo \subseteq worker.phases[worker.phase]
PassInv == TeardownSuperseded /\ ReconcileHeld /\ PassContent

(* The revision of a pass in progress keeps its content, its finalizer and its
   lifecycle state, or it goes. *)
LEMMA PassRevisionKept ==
  ASSUME TypeInv, LifecycleInv, NumberInv, PassInv, [Next]_vars
  PROVE  /\ \A id \in revs : content'[id] = content[id]
         /\ \A id \in archived : id \in revs' => id \in archived'
         /\ worker.pc = "reconcile" => worker.id \in finalizer'
         /\ worker.pc \in {"reconcile", "teardown"} => (worker.id \in revs' => worker.id \in revs)
PROOF
<1>0. LifeStep /\ worker.id \in Ids /\ SetsNested
  BY EveryLifeStep DEF TypeInv, TypeOK, Workers, LifecycleInv
<1>1. \A id \in revs : content'[id] = content[id]
  <2>1. CASE CreateRevision
    <3>1. <<applier.ext, applier.num>> \in Ids
      BY <2>1 DEF CreateRevision, TypeInv, NumInRange, TypeOK, Appliers, Ids
    <3>2. content \in [Ids -> Contents] /\ revs \subseteq Ids BY DEF TypeInv, TypeOK
    <3> QED BY <2>1, <3>1, <3>2 DEF CreateRevision
  <2>2. CASE ~CreateRevision
    BY <1>0, <2>2 DEF LifeStep, BeginReconcile, FinishTeardown, ArchivePrevious, Forget
  <2> QED BY <2>1, <2>2
<1>2. \A id \in archived : id \in revs' => id \in archived'
  BY <1>0 DEF LifeStep, BeginReconcile, FinishTeardown, ArchivePrevious, Forget, CreateRevision
<1>3. worker.pc = "reconcile" => worker.id \in finalizer'
  <2> SUFFICES ASSUME worker.pc = "reconcile" PROVE worker.id \in finalizer' OBVIOUS
  <2>1. worker.id \in finalizer /\ worker.id \notin archived
    BY DEF PassInv, ReconcileHeld, LifecycleInv, WorkerOnActive, Active
  <2> QED BY <1>0, <2>1
          DEF LifeStep, BeginReconcile, FinishTeardown, ArchivePrevious, Forget, CreateRevision
<1>4. worker.pc \in {"reconcile", "teardown"} => (worker.id \in revs' => worker.id \in revs)
  <2>1. CASE worker.pc = "reconcile" BY <2>1 DEF LifecycleInv, WorkerOnActive, Active
  <2>2. CASE worker.pc = "teardown"
    BY <1>0, <2>2, SupersededKept DEF PassInv, TeardownSuperseded
  <2> QED BY <2>1, <2>2
<1> QED BY <1>1, <1>2, <1>3, <1>4

LEMMA PassInvStep ==
  ASSUME TypeInv, TypeInv', LifecycleInv, NumberInv, PassInv, [Next]_vars PROVE PassInv'
PROOF
<1> USE DEF cosVars, objVars
<1>0. /\ worker \in Workers /\ worker.id \in Ids /\ content \in [Ids -> Contents] /\ SetsNested
      /\ revs \subseteq Ids
  BY DEF TypeInv, TypeOK, Workers, LifecycleInv
(* The same pass over the same revision. *)
<1>1. ASSUME worker'.pc = worker.pc, worker'.id = worker.id, worker'.phases = worker.phases,
             worker.pc \in {"reconcile", "teardown"},
             worker'.todo \subseteq worker.phases[worker'.phase]
      PROVE  PassInv'
  <2>1. TeardownSuperseded'
    <3> SUFFICES ASSUME worker.pc = "teardown"
                 PROVE  Superseded(worker.id)' /\ (worker.id' \in revs' => worker.id' \in archived')
      BY <1>1 DEF TeardownSuperseded
    <3>1. PICK w \in Ids : w = worker.id BY <1>0
    <3>2. Superseded(w) /\ (w \in revs => w \in archived)
      BY <3>1 DEF PassInv, TeardownSuperseded
    <3>3. Superseded(w)' /\ (w \in revs' => w \in revs) BY <3>1, <3>2, SupersededKept
    <3>4. w \in revs' => w \in archived' BY <3>2, <3>3, PassRevisionKept
    <3> QED BY <1>1, <3>1, <3>3, <3>4 DEF Superseded
  <2>2. ReconcileHeld' BY <1>1, PassRevisionKept DEF ReconcileHeld
  <2>3. PassContent'
    <3>1. worker.id \in revs' => worker.id \in revs /\ content'[worker.id] = content[worker.id]
      BY <1>1, PassRevisionKept
    <3>2. worker.id \in revs => worker.phases = PhasesOf[content[worker.id]]
      BY <1>1 DEF PassInv, PassContent, Phases
    <3> QED BY <1>1, <3>1, <3>2 DEF PassContent, Phases
  <2> QED BY <2>1, <2>2, <2>3 DEF PassInv
<1>2. CASE worker' = worker
  <2>1. CASE worker.pc \in {"reconcile", "teardown"} BY <1>1, <1>2, <2>1 DEF PassInv, PassContent
  <2>2. CASE worker.pc \notin {"reconcile", "teardown"}
    BY <1>2, <2>2 DEF PassInv, TeardownSuperseded, ReconcileHeld, PassContent
  <2> QED BY <2>1, <2>2
<1>3. CASE worker'.pc \notin {"reconcile", "teardown"}
  BY <1>3 DEF PassInv, TeardownSuperseded, ReconcileHeld, PassContent
<1>4. ASSUME NEW o, NEW r, Handled(o, r), worker.pc \in {"reconcile", "teardown"} PROVE PassInv'
  <2>1. /\ worker'.pc = worker.pc /\ worker'.id = worker.id /\ worker'.phases = worker.phases
        /\ worker'.phase = worker.phase /\ worker'.todo = worker.todo \ {o}
    BY <1>0, <1>4, HandledKeeps
  <2> QED BY <1>1, <1>4, <2>1 DEF PassInv, PassContent
<1>5. CASE NextPhase \/ PreviousPhase
  <2>1. /\ worker'.pc = worker.pc /\ worker'.id = worker.id /\ worker'.phases = worker.phases
        /\ worker.pc \in {"reconcile", "teardown"}
        /\ worker'.todo = worker.phases[worker'.phase]
    BY <1>0, <1>5 DEF NextPhase, PreviousPhase, Workers
  <2> QED BY <1>1, <2>1
<1>6. ASSUME NEW id \in Ids, BeginReconcile(id) PROVE PassInv'
  <2> DEFINE P == Phases(id)
  <2>1. /\ worker'.pc = "reconcile" /\ worker'.id = id /\ worker'.phases = P
        /\ worker'.phase = 1 /\ worker'.todo = P[1]
    <3> HIDE DEF P
    <3>1. worker' = [IdleWorker EXCEPT !.pc = "reconcile", !.id = id, !.phases = P, !.phase = 1,
                       !.todo = P[1], !.late = DeadlineExceeded(id)]
      BY <1>6 DEF BeginReconcile, P
    <3> QED BY <3>1 DEF IdleWorker
  <2>2. Phases(id)' = P /\ id \in finalizer' BY <1>6 DEF BeginReconcile, Phases
  <2>3. PassContent' BY <2>1, <2>2 DEF PassContent, Phases
  <2> QED BY <2>1, <2>2, <2>3 DEF PassInv, TeardownSuperseded, ReconcileHeld
<1>7. ASSUME NEW id \in Ids, BeginTeardown(id) PROVE PassInv'
  <2> DEFINE P == Phases(id)
  <2>1. /\ worker'.pc = "teardown" /\ worker'.id = id /\ worker'.phases = P
        /\ worker'.phase = Len(P) /\ worker'.todo = P[Len(P)]
    <3> HIDE DEF P
    <3>1. worker' = [IdleWorker EXCEPT !.pc = "teardown", !.id = id, !.phases = P,
                       !.phase = Len(P), !.todo = P[Len(P)]]
      BY <1>7 DEF BeginTeardown, P
    <3> QED BY <3>1 DEF IdleWorker
  <2>2. Phases(id)' = P /\ UNCHANGED <<revs, archived, deleting>> /\ id \in archived
    BY <1>7 DEF BeginTeardown, Phases
  <2>3. PassContent' BY <2>1, <2>2 DEF PassContent, Phases
  <2>4. TeardownSuperseded'
    BY <2>1, <2>2 DEF TeardownSuperseded, Superseded, LifecycleInv, ArchivedSuperseded, Active
  <2> QED BY <2>1, <2>3, <2>4 DEF PassInv, ReconcileHeld
<1>8. ASSUME NEW o \in Objects, TeardownGone(o) \/ TeardownRelease(o) \/ TeardownDelete(o)
      PROVE  PassInv'
  <2>1. worker.pc = "teardown" /\ \E r : Handled(o, r)
    BY <1>8 DEF TeardownGone, TeardownRelease, TeardownDelete
  <2> QED BY <1>4, <2>1
<1> QED BY <1>2, <1>3, <1>4, <1>5, <1>6, <1>7, <1>8, EveryPassStep DEF PassStep

(* Who may own an object: a revision that exists holds its finalizer as long
   as it owns one, and owns only objects of its content; one that is gone is
   superseded. And what a teardown has behind it: it owns nothing of the
   phases it is done with, and as long as nothing was left over, nothing of
   the current phase but what is still to do. *)
OwnerHeld ==
  \A o \in Objects : \A id \in obj[o].owners :
    /\ id \in revs => id \in finalizer /\ o \in ObjectsOf(id)
    /\ id \in revs \/ Superseded(id)
TornDown ==
  worker.pc = "teardown" =>
    /\ \A k \in (worker.phase + 1)..Len(worker.phases) :
         \A p \in worker.phases[k] : worker.id \notin obj[p].owners
    /\ worker.res = "ok" =>
         \A p \in worker.phases[worker.phase] \ worker.todo : worker.id \notin obj[p].owners
TeardownInv == ObjectInv /\ PassInv /\ OwnerHeld /\ TornDown

(* A teardown that has come to its end owns nothing. *)
LEMMA TeardownDone ==
  ASSUME TypeInv, TeardownInv, FinishTeardown, worker.id \in revs, NEW o \in Objects
  PROVE  worker.id \notin obj[o].owners
PROOF
<1> SUFFICES ASSUME worker.id \in obj[o].owners PROVE FALSE OBVIOUS
<1>1. o \in ObjectsOf(worker.id) BY DEF TeardownInv, OwnerHeld
<1>2. /\ worker.phases = Phases(worker.id) /\ worker.pc = "teardown" /\ worker.todo = {}
      /\ worker.res = "ok" /\ worker.phase = 1
  BY DEF FinishTeardown, TeardownInv, PassInv, PassContent
<1>3. PICK k \in 1..Len(worker.phases) : o \in worker.phases[k]
  BY <1>1, <1>2 DEF ObjectsOf
<1>4. k = 1 \/ k \in 2..Len(worker.phases)
  BY DEF TypeInv, TypeOK, Workers
<1>5. 1 + 1 = 2 OBVIOUS
<1> QED BY <1>2, <1>3, <1>4, <1>5 DEF TeardownInv, TornDown

LEMMA OwnerHeldStep ==
  ASSUME ObjectLag = FALSE, TypeInv, TypeInv', LifecycleInv, NumberInv, TeardownInv, [Next]_vars
  PROVE  OwnerHeld'
PROOF
<1> USE DEF cosVars, objVars
<1> SUFFICES ASSUME NEW o \in Objects, NEW id \in obj'[o].owners
             PROVE  /\ id \in revs' => id \in finalizer' /\ o \in ObjectsOf(id)'
                    /\ id \in revs' \/ Superseded(id)'
  BY DEF OwnerHeld
<1>0. /\ id \in Ids /\ worker.id \in Ids /\ LifeStep /\ SetsNested /\ PassInv
      /\ obj[o].owners \subseteq Ids
  BY EveryLifeStep
     DEF TypeInv, TypeOK, ObjectStates, Workers, LifecycleInv, TeardownInv
<1>1. \/ obj'[o].owners \subseteq obj[o].owners
      \/ /\ worker.pc = "reconcile" /\ o \in worker.todo
         /\ obj'[o].owners \subseteq obj[o].owners \cup {worker.id}
  <2>1. Treated(o) BY EveryObjectTreated DEF TeardownInv, ObjectInv, OwnershipInv
  <2> QED BY <2>1, TreatedKeeps DEF TeardownInv
(* A new owner is the revision a pass is at. *)
<1>2. CASE id \notin obj[o].owners
  <2>1. id = worker.id /\ worker.pc = "reconcile" /\ o \in worker.todo BY <1>1, <1>2
  <2>2. id \in revs /\ id \notin archived
    BY <2>1 DEF LifecycleInv, WorkerOnActive, Active
  <2>3. id \in finalizer' /\ content'[id] = content[id]
    BY <1>0, <2>1, <2>2, PassRevisionKept
  <2>4. id \in revs'
    BY <1>0, <2>2 DEF LifeStep, BeginReconcile, FinishTeardown, ArchivePrevious, Forget, CreateRevision
  <2>5. worker.phases = Phases(id) /\ o \in worker.phases[worker.phase]
        /\ worker.phase \in 1..Len(worker.phases)
    BY <1>0, <2>1, <2>2 DEF PassInv, PassContent, TypeInv, PhaseInRange
  <2>6. o \in ObjectsOf(id) BY <2>5 DEF ObjectsOf
  <2>7. ObjectsOf(id)' = ObjectsOf(id) BY <2>3 DEF ObjectsOf, Phases
  <2> QED BY <2>3, <2>4, <2>6, <2>7
<1>3. CASE id \in obj[o].owners
  <2>0. /\ id \in revs => id \in finalizer /\ o \in ObjectsOf(id)
        /\ id \in revs \/ Superseded(id)
    BY <1>3 DEF TeardownInv, OwnerHeld
  <2>1. CASE id \notin revs
    BY <1>0, <2>0, <2>1, SupersededKept
  <2>2. CASE id \in revs
    <3>1. id \in finalizer /\ o \in ObjectsOf(id) BY <2>0, <2>2
    <3>2. ObjectsOf(id)' = ObjectsOf(id)
      <4>1. content'[id] = content[id] BY <1>0, <2>2, PassRevisionKept
      <4> QED BY <4>1 DEF ObjectsOf, Phases
    <3>3. ASSUME id \in revs' PROVE id \in finalizer'
      <4>1. CASE FinishTeardown
        <5>1. id # worker.id BY <1>3, <2>2, <4>1, TeardownDone
        <5> QED BY <3>1, <4>1, <5>1 DEF FinishTeardown
      <4>2. CASE ~FinishTeardown
        BY <1>0, <3>1, <3>3, <4>2
           DEF LifeStep, BeginReconcile, ArchivePrevious, Forget, CreateRevision
      <4> QED BY <4>1, <4>2
    <3>4. ASSUME id \notin revs' PROVE Superseded(id)'
      <4>1. id \in archived
        BY <1>0, <2>2, <3>4
           DEF LifeStep, BeginReconcile, FinishTeardown, ArchivePrevious, Forget, CreateRevision
      <4>2. Superseded(id) BY <4>1 DEF LifecycleInv, ArchivedSuperseded, Superseded
      <4> QED BY <1>0, <4>2, SupersededKept
    <3> QED BY <3>1, <3>2, <3>3, <3>4
  <2> QED BY <2>1, <2>2
<1> QED BY <1>2, <1>3

LEMMA TornDownStep ==
  ASSUME ObjectLag = FALSE, TypeInv, TypeInv', TeardownInv, [Next]_vars
  PROVE  TornDown'
PROOF
<1> USE DEF cosVars, objVars
<1> SUFFICES ASSUME worker'.pc = "teardown" PROVE TornDown' BY DEF TornDown
<1>0. /\ worker \in Workers /\ worker.id \in Ids /\ seen = obj
      /\ \A o \in Objects : obj[o] \in ObjectStates /\ (~obj[o].ex => obj[o].owners = {})
  BY DEF TypeInv, TypeOK, Workers, TeardownInv, ObjectInv, OwnershipInv, CacheFresh, AbsentClean,
         Absent
<1>1. worker.pc # "reconcile" => \A o \in Objects : obj'[o].owners \subseteq obj[o].owners
  <2>1. \A o \in Objects : Treated(o) BY EveryObjectTreated DEF TeardownInv, ObjectInv, OwnershipInv
  <2> QED BY <2>1, TreatedKeeps DEF TeardownInv
<1>2. \A k \in 1..Len(worker.phases) : worker.phases[k] \subseteq Objects
  BY <1>0 DEF Workers
<1>3. worker.pc = "teardown" => worker.phase \in 1..Len(worker.phases) /\ worker.phase \in Nat
  BY <1>0 DEF TypeInv, PhaseInRange, Workers
<1>4. worker.pc = "teardown" =>
        /\ \A k \in (worker.phase + 1)..Len(worker.phases) :
             \A p \in worker.phases[k] : worker.id \notin obj'[p].owners
        /\ worker.res = "ok" =>
             \A p \in worker.phases[worker.phase] \ worker.todo : worker.id \notin obj'[p].owners
  <2> SUFFICES ASSUME worker.pc = "teardown"
               PROVE  /\ \A k \in (worker.phase + 1)..Len(worker.phases) :
                           \A p \in worker.phases[k] : worker.id \notin obj'[p].owners
                      /\ worker.res = "ok" =>
                           \A p \in worker.phases[worker.phase] \ worker.todo :
                             worker.id \notin obj'[p].owners
    OBVIOUS
  <2>1. \A k \in (worker.phase + 1)..Len(worker.phases) : k \in 1..Len(worker.phases)
    BY <1>0, <1>3 DEF Workers
  <2> QED BY <1>1, <1>2, <1>3, <2>1 DEF TeardownInv, TornDown
<1>5. CASE worker' = worker BY <1>4, <1>5 DEF TornDown
<1>6. ASSUME NEW o \in Objects, NEW r, worker.pc = "teardown", Handled(o, r),
             r \in {"ok", "incomplete"}, r = "ok" => worker.id \notin obj'[o].owners
      PROVE  TornDown'
  <2>1. /\ worker'.pc = worker.pc /\ worker'.id = worker.id /\ worker'.phases = worker.phases
        /\ worker'.phase = worker.phase /\ worker'.todo = worker.todo \ {o}
        /\ worker'.res = Worse(worker.res, r)
    BY <1>0, <1>6, HandledKeeps
  <2>2. worker'.res = "ok" => worker.res = "ok" /\ r = "ok"
    BY <1>0, <1>6, <2>1 DEF Worse, Rank, Workers
  <2> QED BY <1>4, <1>6, <2>1, <2>2 DEF TornDown
<1>7. ASSUME NEW o \in Objects, TeardownGone(o) PROVE TornDown'
  <2>1. ~obj[o].ex /\ obj' = obj /\ worker.pc = "teardown" /\ Handled(o, "ok")
    BY <1>0, <1>7 DEF TeardownGone
  <2> QED BY <1>0, <1>6, <2>1
<1>8. ASSUME NEW o \in Objects, TeardownRelease(o) PROVE TornDown'
  <2> DEFINE v == obj[o]
  <2>1. worker.pc = "teardown" /\ Handled(o, "ok") BY <1>8 DEF TeardownRelease
  <2>2. worker.id \notin obj'[o].owners
    <3>1. CASE worker.id \in v.owners
      <4>1. WriteObject(o, [v EXCEPT !.owners = v.owners \ {worker.id}, !.ctrl = v.ctrl])
        BY <1>0, <1>8, <3>1 DEF TeardownRelease
      <4>2. obj'[o] = [v EXCEPT !.owners = v.owners \ {worker.id}, !.ctrl = v.ctrl]
        BY <4>1 DEF WriteObject, TypeInv, TypeOK
      <4> QED BY <1>0, <4>2 DEF ObjectStates
    <3>2. CASE worker.id \notin v.owners BY <1>0, <1>8, <3>2 DEF TeardownRelease
    <3> QED BY <3>1, <3>2
  <2> QED BY <1>6, <2>1, <2>2
<1>9. ASSUME NEW o \in Objects, TeardownDelete(o) PROVE TornDown'
  <2>1. worker.pc = "teardown" /\ Handled(o, "incomplete") BY <1>9 DEF TeardownDelete
  <2> QED BY <1>6, <2>1
<1>10. CASE PreviousPhase
  <2>1. /\ worker.pc = "teardown" /\ worker.todo = {} /\ worker.res = "ok" /\ worker.phase > 1
        /\ worker'.id = worker.id /\ worker'.phases = worker.phases
        /\ worker'.phase = worker.phase - 1 /\ worker'.todo = worker.phases[worker.phase - 1]
    BY <1>0, <1>10 DEF PreviousPhase, Workers
  <2>2. \A p \in worker.phases[worker.phase] : worker.id \notin obj'[p].owners BY <1>4, <2>1
  <2>3. \A k \in (worker'.phase + 1)..Len(worker.phases) :
          k = worker.phase \/ k \in (worker.phase + 1)..Len(worker.phases)
    BY <1>0, <1>3, <2>1 DEF Workers
  <2>4. \A k \in (worker'.phase + 1)..Len(worker.phases) :
          \A p \in worker.phases[k] : worker.id \notin obj'[p].owners
    BY <1>4, <2>1, <2>2, <2>3
  <2> QED BY <2>1, <2>4 DEF TornDown
<1>11. ASSUME NEW id \in Ids, BeginTeardown(id) PROVE TornDown'
  <2> DEFINE P == Phases(id)
  <2>1. /\ worker'.id = id /\ worker'.phases = P
        /\ worker'.phase = Len(P) /\ worker'.todo = P[Len(P)]
    <3> HIDE DEF P
    <3>1. worker' = [IdleWorker EXCEPT !.pc = "teardown", !.id = id, !.phases = P,
                       !.phase = Len(P), !.todo = P[Len(P)]]
      BY <1>11 DEF BeginTeardown, P
    <3> QED BY <3>1 DEF IdleWorker
  <2>2. Len(P) \in Nat BY PhasesType DEF TypeInv, TypeOK
  <2> HIDE DEF P
  <2>3. (Len(P) + 1)..Len(P) = {} BY <2>2
  <2> QED BY <2>1, <2>3 DEF TornDown
<1>12. ~(NextPhase \/ \E id \in Ids : BeginReconcile(id))
  BY <1>0 DEF NextPhase, BeginReconcile, Workers, IdleWorker
<1>13. ~(worker.pc = "reconcile" /\ \E o, r : Handled(o, r)) BY <1>0, HandledKeeps
<1> QED BY <1>5, <1>7, <1>8, <1>9, <1>10, <1>11, <1>12, <1>13, EveryPassStep DEF PassStep

LEMMA TeardownInvariance ==
  ASSUME ObjectLag = FALSE
  PROVE  Spec => [](TypeInv /\ LifecycleInv /\ NumberInv /\ TeardownInv)
PROOF
<1>1. Init => TeardownInv
  <2> SUFFICES ASSUME Init PROVE TeardownInv OBVIOUS
  <2>1. \A o \in Objects : obj[o] \in {Absent, Ownerless} BY DEF Init
  <2>2. ObjectInv
    BY <2>1, NobodyAssumption
       DEF Init, ObjectInv, OwnershipInv, CacheFresh, AbsentClean, ControllerAnnotated,
           ControllerOwns, Absent, Ownerless
  <2>3. OwnerHeld BY <2>1 DEF OwnerHeld, Absent, Ownerless
  <2>4. worker.pc = "idle" BY DEF Init, IdleWorker
  <2> QED BY <2>2, <2>3, <2>4
          DEF TeardownInv, PassInv, TeardownSuperseded, ReconcileHeld, PassContent, TornDown
<1>2. TypeInv /\ LifecycleInv /\ NumberInv /\ TeardownInv /\ [Next]_vars => TeardownInv'
  BY TypeStep, ObjectInvStep, PassInvStep, OwnerHeldStep, TornDownStep DEF TeardownInv
<1> QED BY <1>1, <1>2, NumberInvariance, PTL DEF Spec

(* With an up-to-date cache, the teardown finalizer of an archived revision
   goes only when no object is left under it, whatever is deleted, released or
   collected meanwhile and however often the teardown fails and starts anew. *)
THEOREM TeardownLeavesNothing ==
  ASSUME ObjectLag = FALSE
  PROVE  Spec => []TeardownComplete
PROOF
<1>1. TypeInv /\ LifecycleInv /\ TeardownInv => TeardownComplete
  <2> SUFFICES ASSUME TypeInv, LifecycleInv, TeardownInv,
                      NEW id \in archived \ (finalizer \cup deleting), NEW o \in Objects
               PROVE  obj[o].ctrl # id /\ id \notin obj[o].owners
    BY DEF TeardownComplete
  <2>1. id \in revs /\ id \in Ids BY DEF LifecycleInv, SetsNested, TypeInv, TypeOK
  <2>2. id \notin obj[o].owners BY <2>1 DEF TeardownInv, OwnerHeld
  <2> QED BY <2>1, <2>2 DEF TeardownInv, ObjectInv, ControllerOwns
<1> QED BY <1>1, TeardownInvariance, PTL

(* Short of a fault, an object goes because a teardown deletes it or because
   all its owners are gone. *)
LEMMA RemovedHow ==
  ASSUME ObjectLag = FALSE, TypeInv, TeardownInv, [Next]_vars, NEW o \in Objects,
         obj[o].ex, ~obj[o].dying, Removed(o), faults' = faults
  PROVE  \/ TeardownDelete(o)
         \/ obj[o].owners # {} /\ obj[o].owners \cap revs = {}
PROOF
<1> DEFINE v == obj[o]
           w == obj'[o]
<1>1. Treated(o) BY EveryObjectTreated DEF TeardownInv, ObjectInv, OwnershipInv
<1>2. v \in ObjectStates BY DEF TypeInv, TypeOK
<1>3. w # v BY DEF Removed
<1>4. ASSUME w \in {[v EXCEPT !.owners = v.owners \ {worker.id}], Left(v, v.owners \cap revs)}
              \cup Taken(v, worker.id)
      PROVE  FALSE
  <2>1. w.ex /\ ~w.dying
    <3>1. CASE w = [v EXCEPT !.owners = v.owners \ {worker.id}] BY <1>2, <3>1 DEF ObjectStates
    <3>2. CASE w = Left(v, v.owners \cap revs) BY <1>2, <3>2 DEF ObjectStates, Left
    <3>3. CASE w = Adopted(v, worker.id) BY <1>2, <3>3 DEF ObjectStates, Adopted
    <3>4. CASE w = [v EXCEPT !.rev = Num(worker.id), !.owners = {worker.id}]
      BY <1>2, <3>4 DEF ObjectStates
    <3> QED BY <1>4, <3>1, <3>2, <3>3, <3>4 DEF Taken
  <2> QED BY <2>1 DEF Removed
<1> HIDE DEF v, w
<1>5. \/ w = Absent /\ v.owners # {} /\ v.owners \cap revs = {}
      \/ TeardownDelete(o)
  BY <1>1, <1>3, <1>4 DEF Treated, v, w
<1> QED BY <1>5 DEF v

(* With an up-to-date cache, a teardown deletes an object only when it controls
   nothing any more in the phases after that object's. *)
THEOREM TeardownInReverse ==
  ASSUME ObjectLag = FALSE
  PROVE  Spec => TeardownOrder
PROOF
<1>1. ASSUME TypeInv, TeardownInv, worker.pc = "teardown",
             NEW k \in (worker.phase + 1)..Len(worker.phases), NEW p \in worker.phases[k]
      PROVE  obj[p].ctrl # worker.id
  <2>1. worker.id \in Ids /\ p \in Objects
    <3>1. worker \in Workers BY <1>1 DEF TypeInv, TypeOK
    <3>2. k \in 1..Len(worker.phases) BY <1>1, <3>1 DEF Workers
    <3> QED BY <3>1, <3>2 DEF Workers
  <2>2. worker.id \notin obj[p].owners BY <1>1 DEF TeardownInv, TornDown
  <2> QED BY <1>1, <2>1, <2>2 DEF TeardownInv, ObjectInv, ControllerOwns
<1>2. TypeInv /\ TeardownInv /\ [Next]_vars =>
        [\A o \in Objects :
           worker.pc = "teardown" /\ obj[o].ex /\ ~obj[o].dying /\ Removed(o) /\ faults' = faults =>
             \A k \in (worker.phase + 1)..Len(worker.phases) :
               \A p \in worker.phases[k] : obj[p].ctrl # worker.id]_vars
  BY <1>1
<1> QED BY <1>2, TeardownInvariance, PTL DEF Spec, TeardownOrder

(* With an up-to-date cache, the handover between the revisions of an extension
   loses no object: neither a teardown of one of its revisions nor the garbage
   collector removes what an active revision controls. *)
THEOREM HandoverLosesNothing ==
  ASSUME ObjectLag = FALSE
  PROVE  Spec => HandoverSafe
PROOF
<1>1. ASSUME TypeInv, LifecycleInv, NumberInv, TeardownInv, [Next]_vars, NEW o \in Objects,
             Managed(o), Removed(o), faults' = faults
      PROVE  worker.pc = "teardown" /\ Ext(worker.id) # Ext(obj[o].ctrl)
  <2> DEFINE c == obj[o].ctrl
  <2>1. c \in Ids /\ Active(c) /\ obj[o].ex /\ ~obj[o].dying BY <1>1 DEF Managed
  <2>2. c \in obj[o].owners /\ c \in revs /\ obj[o].rev = Num(c)
    BY <1>1, <2>1
       DEF TeardownInv, ObjectInv, OwnershipInv, ControllerAnnotated, ControllerOwns, Active
  <2>3. TeardownDelete(o) BY <1>1, <2>1, <2>2, RemovedHow
  <2>4. /\ worker.pc = "teardown" /\ worker.id \in Ids
        /\ obj[o].rev = Num(worker.id) \/ c = worker.id
    BY <1>1, <2>3
       DEF TeardownDelete, NotOurs, TypeInv, TypeOK, Workers, TeardownInv, ObjectInv,
           OwnershipInv, CacheFresh
  <2>5. ~Active(worker.id)
    BY <1>1, <2>4 DEF TeardownInv, PassInv, TeardownSuperseded, Active
  <2>6. c # worker.id BY <2>1, <2>5
  <2>7. Num(c) = Num(worker.id) BY <2>2, <2>4, <2>6
  <2> QED BY <2>1, <2>4, <2>6, <2>7, IdPair
<1>2. TypeInv /\ LifecycleInv /\ NumberInv /\ TeardownInv /\ [Next]_vars =>
        [\A o \in Objects : Managed(o) /\ Removed(o) =>
           \/ faults' # faults
           \/ worker.pc = "teardown" /\ Ext(worker.id) # Ext(obj[o].ctrl)]_vars
  BY <1>1
<1> QED BY <1>2, TeardownInvariance, PTL DEF Spec, HandoverSafe
=============================================================================
