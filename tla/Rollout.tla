------------------------------- MODULE Rollout -------------------------------
(***************************************************************************)
(* Revision rollout in operator-controller's Boxcutter runtime.            *)
(*                                                                         *)
(* Two controllers share the Kubernetes API:                               *)
(*   - the ClusterExtension controller, whose applier turns the desired    *)
(*     content of an extension into ClusterObjectSets (COS, one per        *)
(*     revision) and deletes old archived ones                             *)
(*     (internal/operator-controller/applier/boxcutter.go);                *)
(*   - the ClusterObjectSet controller, which reconciles the objects of an *)
(*     active revision phase by phase, archives the revisions a complete   *)
(*     one supersedes, and tears archived revisions down                   *)
(*     (internal/operator-controller/controllers/                          *)
(*     clusterobjectset_controller.go, and the vendored boxcutter engine). *)
(* Each runs one worker (controller-runtime's default); the two workers    *)
(* interleave with each other, with users, with workloads becoming ready   *)
(* or unready, with failing API calls and with crashes of the process.     *)
(***************************************************************************)
EXTENDS Naturals, Sequences, FiniteSets

CONSTANTS
  Extensions,      \* the ClusterExtensions of the cluster
  MaxRevision,     \* bound: revision numbers are 1..MaxRevision
  Objects,         \* identities (kind, namespace, name) of managed objects
  Preexisting,     \* objects a user created before any revision, ownerless
  Images,          \* bundle images the catalogs resolve to
  Configs,         \* configurations a user gives an extension
  PhasesOf,        \* content -> its phases, in order, each a set of objects
  Protection,      \* spec.collisionProtection of every revision
  RetentionLimit,  \* ClusterObjectSetRetentionLimit
  ObjectLag,       \* may the engine's object cache lag behind the API?
  RevisionLag,     \* may the applier's list of revisions lag?
  HasDeadline,     \* is spec.progressDeadlineMinutes set?
  MaxFaults,       \* bound on failures, crashes, user deletions, unready pods
  Nobody           \* the controller of an object that has none

Contents == [image : Images, config : Configs]

ASSUME BoundsAssumption == /\ MaxRevision \in Nat \ {0}
                           /\ MaxFaults \in Nat
                           /\ RetentionLimit \in Nat \ {0}
ASSUME DomainsAssumption == Extensions # {} /\ Images # {} /\ Configs # {}
ASSUME FlagsAssumption == /\ ObjectLag \in BOOLEAN
                          /\ RevisionLag \in BOOLEAN
                          /\ HasDeadline \in BOOLEAN
                          /\ Protection \in {"Prevent", "IfNoController", "None"}
ASSUME PhasesAssumption ==
  /\ PhasesOf \in [Contents -> Seq(SUBSET Objects)]
  /\ \A c \in Contents : Len(PhasesOf[c]) > 0

(* A revision is named after its extension and its number. *)
Ids == Extensions \X (1..MaxRevision)
ASSUME NobodyAssumption == Nobody \notin Ids

Ext(id) == id[1]
Num(id) == id[2]
Newer(id, old) == Ext(id) = Ext(old) /\ Num(id) > Num(old)

VARIABLES
  want,       \* ClusterExtension -> content its spec and the catalogs ask for
  revs,       \* the ClusterObjectSets that exist
  content,    \* COS -> spec.phases, as the content it was generated from
  archived,   \* COS with spec.lifecycleState = Archived
  deleting,   \* COS with a deletion timestamp
  finalizer,  \* COS with the teardown finalizer
  status,     \* COS -> its conditions
  late,       \* COS whose progress deadline has passed
  obj,        \* the cluster's objects, as the API server holds them
  seen,       \* the objects as the tracking cache holds them
  ready,      \* objects whose progression probe succeeds
  listed,     \* the COS the applier's cache holds
  worker,     \* the pass of the COS controller in progress
  applier,    \* the pass of the ClusterExtension controller in progress
  faults      \* how many faults have happened

cosVars == <<revs, content, archived, deleting, finalizer, late>>
objVars == <<obj, seen, ready>>
vars == <<want, cosVars, status, objVars, listed, worker, applier, faults>>

-----------------------------------------------------------------------------
(* Objects. An object records its revision annotation, its controller and   *)
(* all its owners; "dying" objects have a deletion timestamp.               *)

Absent == [ex |-> FALSE, rev |-> 0, ctrl |-> Nobody, owners |-> {}, dying |-> FALSE]
Ownerless == [ex |-> TRUE, rev |-> 0, ctrl |-> Nobody, owners |-> {}, dying |-> FALSE]

ObjectStates == [ex : BOOLEAN, rev : 0..MaxRevision, ctrl : Ids \cup {Nobody},
                 owners : SUBSET Ids, dying : BOOLEAN]

FreshNextNumber(id) == [ex |-> TRUE, rev |-> Num(id) + 1, ctrl |-> id, owners |-> {id},
                        dying |-> FALSE]

(* The object a revision creates: annotated, controlled and owned by it. *)
Fresh(id) == [ex |-> TRUE, rev |-> Num(id), ctrl |-> id, owners |-> {id}, dying |-> FALSE]

(* objectAdoptionHandling: the former owners stay, released as controllers. *)
Adopted(v, id) == [v EXCEPT !.rev = Num(id), !.ctrl = id, !.owners = @ \cup {id}]

(* A write reaches the tracking cache at once, or whenever Sync delivers it. *)
WriteObject(o, v) ==
  /\ obj' = [obj EXCEPT ![o] = v]
  /\ seen' = IF ObjectLag THEN seen ELSE [seen EXCEPT ![o] = v]

-----------------------------------------------------------------------------
(* Conditions of a COS: the reasons of Progressing and Available ("" when    *)
(* the condition is not set) and the Succeeded condition.                    *)

ProgressReasons == {"", "RollingOut", "Retrying", "Succeeded", "Blocked",
                    "ProgressDeadlineExceeded", "Archived"}
AvailableReasons == {"", "ProbesSucceeded", "Unavailable", "Reconciling", "Archived"}
Conditions == [prog : ProgressReasons, avail : AvailableReasons, succeeded : BOOLEAN]
NoConditions == [prog |-> "", avail |-> "", succeeded |-> FALSE]

(* markAsProgressing: past the deadline every reason but Succeeded is reported
   as ProgressDeadlineExceeded. *)
markAsProgressing(c, reason, exceeded) ==
  [c EXCEPT !.prog = IF exceeded /\ reason # "Succeeded"
                     THEN "ProgressDeadlineExceeded" ELSE reason]

setRetryingConditions(c, exceeded) ==
  [markAsProgressing(c, "Retrying", exceeded)
     EXCEPT !.avail = IF @ = "" THEN "" ELSE "Reconciling"]

RolledOut(c) == [markAsProgressing(c, "Succeeded", FALSE)
                   EXCEPT !.avail = "ProbesSucceeded", !.succeeded = TRUE]

RollingOut(c, exceeded) ==
  [markAsProgressing(c, "RollingOut", exceeded) EXCEPT !.avail = "Unavailable"]

markAsArchived(c) == [c EXCEPT !.prog = "Archived", !.avail = "Archived"]

-----------------------------------------------------------------------------
(* Queries on the revisions. *)

RevisionsOf(e) == {id \in revs : Ext(id) = e}
Active(id) == id \in revs /\ id \notin archived /\ id \notin deleting
SiblingsNewerOnly(id) == {s \in RevisionsOf(Ext(id)) : Num(s) > Num(id) /\ Active(s)}
Siblings(id) == {s \in RevisionsOf(Ext(id)) : s # id /\ Active(s)}
PreviousAnyNumber(id) == Siblings(id)
Previous(id) == {s \in Siblings(id) : Num(s) < Num(id)}
Phases(id) == PhasesOf[content[id]]
ObjectsOf(id) == UNION {Phases(id)[k] : k \in 1..Len(Phases(id))}

DeadlineExceededAlways(id) == HasDeadline /\ id \in late /\ Active(id)

(* durationUntilDeadline: no deadline once Succeeded, Archived or deleting. *)
DeadlineExceeded(id) ==
  HasDeadline /\ id \in late /\ Active(id) /\ ~status[id].succeeded

(* The revisions of an extension, as the applier's cache lists them. *)
Listed(e) == {id \in IF RevisionLag THEN listed ELSE revs : Ext(id) = e}

(* GetRevisionStates: the active revisions without the Succeeded condition. *)
Rolling(e) == {id \in Listed(e) : id \notin archived /\ ~status[id].succeeded}
Oldest(S) == CHOOSE id \in S : \A s \in S : Num(id) <= Num(s)
Latest(S) == CHOOSE id \in S : \A s \in S : Num(s) <= Num(id)
latestRevisionNumberSkipping(S) == IF S = {} THEN 0 ELSE Num(Latest(S)) + 1
latestRevisionNumber(S) == IF S = {} THEN 0 ELSE Num(Latest(S))

-----------------------------------------------------------------------------
(* The two workers. *)

NoRevision == CHOOSE id \in Ids : TRUE
IdleWorker == [pc |-> "idle", id |-> NoRevision, phases |-> <<>>, phase |-> 0,
               todo |-> {}, prev |-> {}, res |-> "ok", late |-> FALSE, cond |-> NoConditions]
Workers == [pc : {"idle", "reconcile", "archive", "teardown", "status"}, id : Ids,
            phases : Seq(SUBSET Objects), phase : Nat, todo : SUBSET Objects, prev : SUBSET Ids,
            res : {"ok", "incomplete", "collision", "error"},
            late : BOOLEAN, cond : Conditions]

SomeContent == CHOOSE c \in Contents : TRUE
IdleApplier == [pc |-> "idle", ext |-> Ext(NoRevision), desired |-> SomeContent,
                expired |-> {}, num |-> 0]
Appliers == [pc : {"idle", "resolved", "create"}, ext : Extensions,
             desired : Contents, expired : SUBSET Ids, num : 0..MaxRevision]

(* The status write that ends a pass; skipped when nothing changed. *)
Finish(id, c) ==
  worker' = IF c = status[id] THEN IdleWorker
            ELSE [IdleWorker EXCEPT !.pc = "status", !.id = id, !.cond = c]

(* The result of a phase is the worst result of its objects. *)
Rank(r) == CASE r = "ok" -> 0 [] r = "incomplete" -> 1 [] r = "collision" -> 2 [] r = "error" -> 3
Worse(r, s) == IF Rank(r) < Rank(s) THEN s ELSE r
Probed(o) == IF o \in ready THEN "ok" ELSE "incomplete"
Handled(o, r) == worker' = [worker EXCEPT !.todo = @ \ {o}, !.res = Worse(@, r)]

Fault == faults < MaxFaults /\ faults' = faults + 1

-----------------------------------------------------------------------------
Init ==
  /\ want \in [Extensions -> Contents]
  /\ revs = {} /\ archived = {} /\ deleting = {} /\ finalizer = {} /\ late = {}
  /\ content = [id \in Ids |-> SomeContent]
  /\ status = [id \in Ids |-> NoConditions]
  /\ obj = [o \in Objects |-> IF o \in Preexisting THEN Ownerless ELSE Absent]
  /\ seen = obj
  /\ ready = {}
  /\ listed = {}
  /\ worker = IdleWorker
  /\ applier = IdleApplier
  /\ faults = 0

-----------------------------------------------------------------------------
(* ClusterObjectSet controller: reconciling an active revision. *)

(* Checks that pass, the teardown finalizer, the watches: the engine starts
   with the first phase. *)
BeginReconcile(id) ==
  /\ worker.pc = "idle"
  /\ Active(id)
  /\ finalizer' = finalizer \cup {id}
  /\ worker' = [IdleWorker EXCEPT !.pc = "reconcile", !.id = id, !.phases = Phases(id),
                                  !.phase = 1, !.todo = Phases(id)[1],
                                  !.late = DeadlineExceeded(id)]
  /\ UNCHANGED <<want, revs, content, archived, deleting, late, status, objVars,
                 listed, applier, faults>>

(* The referenced Secrets are mutable, changed (Blocked) or unreadable
   (Retrying): the pass ends before it looks at the lifecycle state. *)
BeginBlocked(id) ==
  /\ worker.pc = "idle"
  /\ id \in revs \ deleting
  /\ \E c \in {[status[id] EXCEPT !.prog = "Blocked"],
               setRetryingConditions(status[id], DeadlineExceeded(id))} : Finish(id, c)
  /\ Fault
  /\ UNCHANGED <<want, cosVars, status, objVars, listed, applier>>

CollidesNotWithOthers(id, v) ==
  \/ v.ctrl = Nobody /\ (Protection = "Prevent" \/ v.rev # 0)
  \/ v.ctrl \in Siblings(id) /\ v.rev = Num(id)
ProgressedNever(id, v) == FALSE

(* detectOwner and objectUpdateHandling: what revision id may do with an
   existing object in state v. *)
Collides(id, v) ==
  \/ v.ctrl = Nobody /\ (Protection = "Prevent" \/ v.rev # 0)
  \/ v.ctrl \in Siblings(id) /\ v.rev = Num(id)
  \/ v.ctrl \notin Siblings(id) \cup {id, Nobody} /\ Protection # "None"
Progressed(id, v) == v.ctrl \in Siblings(id) /\ v.rev > Num(id)
Controls(id, v) == v.ctrl = id

(* The state the engine acts on: the cached one, or the API server's when
   creating the object finds that it exists. *)
Observed(o) == IF seen[o].ex THEN seen[o] ELSE obj[o]

(* ObjectEngine.apply: an optimistic write of what was observed. *)
ApplyObject(o, v, new) ==
  \/ /\ v = obj[o]
     /\ WriteObject(o, new)
     /\ Handled(o, Probed(o))
  \/ /\ v # obj[o]
     /\ Handled(o, "error")
     /\ UNCHANGED <<obj, seen>>

CreateObject(o) ==
  /\ worker.pc = "reconcile" /\ o \in worker.todo
  /\ ~Observed(o).ex
  /\ WriteObject(o, Fresh(worker.id))
  /\ \E up \in BOOLEAN :
       /\ ready' = IF up THEN ready \cup {o} ELSE ready
       /\ Handled(o, IF up THEN "ok" ELSE "incomplete")
  /\ UNCHANGED <<want, cosVars, status, listed, applier, faults>>

(* Adopt from an older sibling, or from nobody or anybody when the collision
   protection allows it. *)
AdoptObject(o) ==
  LET id == worker.id
      v == Observed(o)
  IN /\ worker.pc = "reconcile" /\ o \in worker.todo
     /\ v.ex /\ ~Controls(id, v) /\ ~Collides(id, v) /\ ~Progressed(id, v)
     /\ ApplyObject(o, v, Adopted(v, id))
     /\ UNCHANGED <<want, cosVars, status, ready, listed, applier, faults>>

(* An object of ours is left alone, or re-applied when it drifted (always when
   its annotation is not ours); re-applying drops the other owners. *)
UpdateObject(o) ==
  LET id == worker.id
      v == Observed(o)
  IN /\ worker.pc = "reconcile" /\ o \in worker.todo
     /\ v.ex /\ Controls(id, v)
     /\ \/ /\ v.rev = Num(id)
           /\ Handled(o, Probed(o))
           /\ UNCHANGED <<obj, seen>>
        \/ ApplyObject(o, v, [v EXCEPT !.rev = Num(id), !.owners = {id}])
     /\ UNCHANGED <<want, cosVars, status, ready, listed, applier, faults>>

(* A collision, or an object a newer sibling already owns. *)
SkipObject(o) ==
  LET id == worker.id
      v == Observed(o)
  IN /\ worker.pc = "reconcile" /\ o \in worker.todo
     /\ v.ex
     /\ \/ Collides(id, v) /\ Handled(o, "collision")
        \/ Progressed(id, v) /\ Handled(o, Probed(o))
     /\ UNCHANGED <<want, cosVars, status, objVars, listed, applier, faults>>

(* RevisionEngine.Reconcile goes on to the next phase after a complete one. *)
NextPhase ==
  /\ worker.pc = "reconcile" /\ worker.todo = {} /\ worker.res = "ok"
  /\ worker.phase < Len(worker.phases)
  /\ worker' = [worker EXCEPT !.phase = @ + 1, !.todo = worker.phases[worker.phase + 1]]
  /\ UNCHANGED <<want, cosVars, status, objVars, listed, applier, faults>>

(* A phase that is not complete ends the pass. *)
StopAtPhase ==
  LET id == worker.id
  IN /\ worker.pc = "reconcile" /\ worker.todo = {} /\ worker.res # "ok"
     /\ Finish(id, IF worker.res = "incomplete"
                   THEN RollingOut(status[id], worker.late)
                   ELSE setRetryingConditions(status[id], worker.late))
     /\ UNCHANGED <<want, cosVars, status, objVars, listed, applier, faults>>

(* rres.IsComplete(): list the revisions to archive. *)
CompleteRevision ==
  /\ worker.pc = "reconcile" /\ worker.todo = {} /\ worker.res = "ok"
  /\ worker.phase = Len(worker.phases)
  /\ worker' = [worker EXCEPT !.pc = "archive", !.prev = Previous(worker.id)]
  /\ UNCHANGED <<want, cosVars, status, objVars, listed, applier, faults>>

ArchivePrevious(p) ==
  /\ worker.pc = "archive" /\ p \in worker.prev
  /\ archived' = archived \cup {p}
  /\ worker' = [worker EXCEPT !.prev = @ \ {p}]
  /\ UNCHANGED <<want, revs, content, deleting, finalizer, late, status, objVars,
                 listed, applier, faults>>

(* Only then are the conditions of the complete revision set. *)
MarkSucceeded ==
  /\ worker.pc = "archive" /\ worker.prev = {}
  /\ Finish(worker.id, RolledOut(status[worker.id]))
  /\ UNCHANGED <<want, cosVars, status, objVars, listed, applier, faults>>

-----------------------------------------------------------------------------
(* ClusterObjectSet controller: archived and deleted revisions. *)

(* Archived: phases are torn down in reverse order. *)
BeginTeardown(id) ==
  /\ worker.pc = "idle"
  /\ id \in (revs \cap archived) \ deleting
  /\ worker' = [IdleWorker EXCEPT !.pc = "teardown", !.id = id, !.phases = Phases(id),
                                  !.phase = Len(Phases(id)),
                                  !.todo = Phases(id)[Len(Phases(id))]]
  /\ UNCHANGED <<want, cosVars, status, objVars, listed, applier, faults>>

NotOursNever(id, v) == FALSE
NotOurs(id, v) == v.rev # Num(id) /\ v.ctrl # id

(* The object is gone: not found when read, or when deleting it. *)
TeardownGone(o) ==
  /\ worker.pc = "teardown" /\ o \in worker.todo
  /\ ~seen[o].ex \/ (~obj[o].ex /\ ~NotOurs(worker.id, seen[o]))
  /\ Handled(o, "ok")
  /\ UNCHANGED <<want, cosVars, status, objVars, listed, applier, faults>>

(* Another revision owns the object: remove ourselves from the owners. The
   patch is a merge patch of the owner list as cached, without a
   resourceVersion: it replaces the whole list. *)
TeardownRelease(o) ==
  LET id == worker.id
      v == seen[o]
  IN /\ worker.pc = "teardown" /\ o \in worker.todo
     /\ v.ex /\ obj[o].ex /\ NotOurs(id, v)
     /\ IF id \in v.owners
        THEN WriteObject(o, [obj[o] EXCEPT !.owners = v.owners \ {id}, !.ctrl = v.ctrl])
        ELSE UNCHANGED <<obj, seen>>
     /\ Handled(o, "ok")
     /\ UNCHANGED <<want, cosVars, status, ready, listed, applier, faults>>

TeardownDeleteNoWait(o) ==
  LET v == seen[o]
  IN /\ worker.pc = "teardown" /\ o \in worker.todo
     /\ v.ex /\ obj[o] = v /\ ~NotOurs(worker.id, v)
     /\ WriteObject(o, [v EXCEPT !.dying = TRUE])
     /\ Handled(o, "ok")
     /\ UNCHANGED <<want, cosVars, status, ready, listed, applier, faults>>

(* Delete with UID and resourceVersion preconditions; the object is gone only
   once a later pass does not find it. *)
TeardownDelete(o) ==
  LET id == worker.id
      v == seen[o]
  IN /\ worker.pc = "teardown" /\ o \in worker.todo
     /\ v.ex /\ obj[o] = v /\ ~NotOurs(id, v)
     /\ WriteObject(o, [v EXCEPT !.dying = TRUE])
     /\ Handled(o, "incomplete")
     /\ UNCHANGED <<want, cosVars, status, ready, listed, applier, faults>>

(* The cached object is out of date: the delete or the patch is refused. *)
TeardownConflict(o) ==
  LET id == worker.id
      v == seen[o]
  IN /\ worker.pc = "teardown" /\ o \in worker.todo
     /\ v.ex /\ obj[o] # v
     /\ \/ NotOurs(id, v) /\ ~obj[o].ex
        \/ ~NotOurs(id, v) /\ obj[o].ex
     /\ Finish(id, setRetryingConditions(status[id], FALSE))
     /\ UNCHANGED <<want, cosVars, status, objVars, listed, applier, faults>>

PreviousPhaseAnyway ==
  /\ worker.pc = "teardown" /\ worker.todo = {} /\ worker.phase > 1
  /\ worker' = [worker EXCEPT !.phase = @ - 1, !.todo = worker.phases[worker.phase - 1]]
  /\ UNCHANGED <<want, cosVars, status, objVars, listed, applier, faults>>

PreviousPhase ==
  /\ worker.pc = "teardown" /\ worker.todo = {} /\ worker.res = "ok" /\ worker.phase > 1
  /\ worker' = [worker EXCEPT !.phase = @ - 1, !.todo = worker.phases[worker.phase - 1]]
  /\ UNCHANGED <<want, cosVars, status, objVars, listed, applier, faults>>

(* Objects remain: retry in 5 seconds. *)
AwaitTeardown ==
  LET id == worker.id
  IN /\ worker.pc = "teardown" /\ worker.todo = {} /\ worker.res # "ok"
     /\ Finish(id, setRetryingConditions(status[id], FALSE))
     /\ UNCHANGED <<want, cosVars, status, objVars, listed, applier, faults>>

FinishTeardownStatusOnly ==
  LET id == worker.id
  IN /\ worker.pc = "teardown" /\ worker.todo = {} /\ worker.res = "ok" /\ worker.phase = 1
     /\ Finish(id, markAsArchived(status[id]))
     /\ UNCHANGED <<want, cosVars, status, objVars, listed, applier, faults>>

(* All gone: first the Archived conditions, in a later pass the finalizer,
   whose patch carries the resourceVersion read at the start of the pass. *)
FinishTeardown ==
  LET id == worker.id
  IN /\ worker.pc = "teardown" /\ worker.todo = {} /\ worker.res = "ok" /\ worker.phase = 1
     /\ Finish(id, markAsArchived(status[id]))
     /\ finalizer' = IF markAsArchived(status[id]) = status[id] /\ id \notin deleting
                     THEN finalizer \ {id} ELSE finalizer
     /\ UNCHANGED <<want, revs, content, archived, deleting, late, status, objVars,
                    listed, applier, faults>>

(* The API server forgets a COS: all that was recorded of it goes. *)
Forget(id) ==
  /\ revs' = revs \ {id}
  /\ archived' = archived \ {id}
  /\ deleting' = deleting \ {id}
  /\ finalizer' = finalizer \ {id}
  /\ late' = late \ {id}
  /\ status' = [status EXCEPT ![id] = NoConditions]
  /\ UNCHANGED content

(* Deleted: the finalizer is removed and nothing is torn down; what the
   revision still owns is left to the Kubernetes garbage collector. *)
DeleteRevision(id) ==
  /\ worker.pc = "idle"
  /\ id \in deleting
  /\ Forget(id)
  /\ UNCHANGED <<want, objVars, listed, worker, applier, faults>>

(* The status write that ends a pass carries the resourceVersion read at its
   start: it fails when the COS was deleted meanwhile. *)
UpdateStatus ==
  LET id == worker.id
  IN /\ worker.pc = "status"
     /\ status' = IF id \in revs \ deleting THEN [status EXCEPT ![id] = worker.cond]
                  ELSE status
     /\ worker' = IdleWorker
     /\ UNCHANGED <<want, cosVars, objVars, listed, applier, faults>>

(* An API call fails: reconcile and teardown report it, unless it was setting
   the finalizer or stopping the informers; a failed archive patch leaves the
   conditions (but for RollingOut, when an object had progressed); a failed
   status write is lost. *)
FailPass ==
  LET id == worker.id
      c == status[id]
  IN /\ Fault
     /\ \/ worker.pc = "reconcile" /\ \E d \in {c, setRetryingConditions(c, worker.late)} :
                                      Finish(id, d)
        \/ worker.pc = "archive" /\ \E d \in {c, markAsProgressing(c, "RollingOut", worker.late)} :
                                      Finish(id, d)
        \/ worker.pc = "teardown" /\ \E d \in {[c EXCEPT !.avail = "Reconciling"],
                                                setRetryingConditions(c, FALSE)} :
                                      Finish(id, d)
        \/ worker.pc = "status" /\ worker' = IdleWorker
     /\ UNCHANGED <<want, cosVars, status, objVars, listed, applier>>

-----------------------------------------------------------------------------
(* ClusterExtension controller: the applier. *)

ResolveBundleAfresh(e) ==
  /\ applier.pc = "idle"
  /\ applier' = [IdleApplier EXCEPT !.pc = "resolved", !.ext = e, !.desired = want[e]]
  /\ UNCHANGED <<want, cosVars, status, objVars, listed, worker, faults>>

(* RetrieveRevisionStates and ResolveBundle: while a revision rolls out its
   image is kept, whatever the catalogs and the spec now resolve to. *)
ResolveBundle(e) ==
  /\ applier.pc = "idle"
  /\ applier' = [IdleApplier EXCEPT !.pc = "resolved", !.ext = e,
                   !.desired = IF Rolling(e) = {} THEN want[e]
                               ELSE [want[e] EXCEPT !.image = content[Oldest(Rolling(e))].image]]
  /\ UNCHANGED <<want, cosVars, status, objVars, listed, worker, faults>>

ExpiredOneTooMany(S) ==
  {id \in S \cap archived : Cardinality({s \in S : Num(s) >= Num(id)}) >= RetentionLimit}

(* garbageCollectOldRevisions: archived ones older than the newest
   RetentionLimit of the list. *)
Expired(S) == {id \in S \cap archived :
                 Cardinality({s \in S : Num(s) > Num(id)}) >= RetentionLimit}

(* Apply lists the revisions and patches the latest with the desired content:
   accepted when nothing differs; refused (phases are immutable, an archived
   revision stays archived) when a new revision is needed. *)
PatchLatest ==
  LET e == applier.ext
      S == Listed(e)
      new == /\ latestRevisionNumber(S) < MaxRevision
             /\ applier' = [applier EXCEPT !.pc = "create", !.expired = Expired(S),
                                           !.num = latestRevisionNumber(S) + 1]
  IN /\ applier.pc = "resolved"
     /\ \/ S = {} /\ new
        \/ /\ S # {}
           /\ content[Latest(S)] # applier.desired \/ Latest(S) \in archived
           /\ new
        \/ /\ S # {}
           /\ content[Latest(S)] = applier.desired /\ Latest(S) \notin archived
           /\ applier' = IdleApplier
     /\ UNCHANGED <<want, cosVars, status, objVars, listed, worker, faults>>

(* Delete one old revision: at once when it has no finalizer. *)
CollectRevision(id) ==
  /\ applier.pc = "create" /\ id \in applier.expired
  /\ applier' = [applier EXCEPT !.expired = @ \ {id}]
  /\ \/ /\ id \in finalizer
        /\ deleting' = deleting \cup {id}
        /\ UNCHANGED <<revs, content, archived, finalizer, late, status>>
     \/ id \in revs \ finalizer /\ Forget(id)
     \/ id \notin revs /\ UNCHANGED <<cosVars, status>>
  /\ UNCHANGED <<want, objVars, listed, worker, faults>>

(* Server-side apply creates the revision, or finds it when the list was out
   of date (then it is refused or changes nothing). *)
CreateRevision ==
  LET id == <<applier.ext, applier.num>>
  IN /\ applier.pc = "create" /\ applier.expired = {}
     /\ revs' = revs \cup {id}
     /\ content' = IF id \in revs THEN content ELSE [content EXCEPT ![id] = applier.desired]
     /\ applier' = IdleApplier
     /\ UNCHANGED <<want, archived, deleting, finalizer, late, status, objVars, listed,
                    worker, faults>>

(* A failed list, preflight check, authorization check, delete or apply. *)
FailApply ==
  /\ applier.pc # "idle"
  /\ Fault
  /\ applier' = IdleApplier
  /\ UNCHANGED <<want, cosVars, status, objVars, listed, worker>>

-----------------------------------------------------------------------------
(* The rest of the cluster. *)

(* The user edits the extension, or the catalogs offer another bundle. *)
ChangeSpec(e) ==
  /\ \E c \in Contents \ {want[e]} : want' = [want EXCEPT ![e] = c]
  /\ UNCHANGED <<cosVars, status, objVars, listed, worker, applier, faults>>

BecomeReady(o) ==
  /\ obj[o].ex /\ o \notin ready
  /\ ready' = ready \cup {o}
  /\ UNCHANGED <<want, cosVars, status, obj, seen, listed, worker, applier, faults>>

BecomeUnready(o) ==
  /\ o \in ready
  /\ Fault
  /\ ready' = ready \ {o}
  /\ UNCHANGED <<want, cosVars, status, obj, seen, listed, worker, applier>>

Vanish(o) == WriteObject(o, Absent) /\ ready' = ready \ {o}

(* A deleted object's own finalizers are done. *)
FinalizeObject(o) ==
  /\ obj[o].dying
  /\ Vanish(o)
  /\ UNCHANGED <<want, cosVars, status, listed, worker, applier, faults>>

UserDeletes(o) ==
  /\ obj[o].ex
  /\ Fault
  /\ Vanish(o)
  /\ UNCHANGED <<want, cosVars, status, listed, worker, applier>>

(* The Kubernetes garbage collector: an object all of whose owners are gone is
   deleted, otherwise the references to those that are gone are dropped. *)
KubeCollect(o) ==
  LET v == obj[o]
      left == v.owners \cap revs
  IN /\ v.owners # left
     /\ IF left = {} THEN Vanish(o)
        ELSE /\ WriteObject(o, [v EXCEPT !.owners = left,
                                         !.ctrl = IF @ \in left THEN @ ELSE Nobody])
             /\ UNCHANGED ready
     /\ UNCHANGED <<want, cosVars, status, listed, worker, applier, faults>>

(* Watch events reach the caches. *)
SyncObject(o) ==
  /\ seen[o] # obj[o]
  /\ seen' = [seen EXCEPT ![o] = obj[o]]
  /\ UNCHANGED <<want, cosVars, status, obj, ready, listed, worker, applier, faults>>

SyncRevisions ==
  /\ RevisionLag /\ listed # revs
  /\ listed' = revs
  /\ UNCHANGED <<want, cosVars, status, objVars, worker, applier, faults>>

(* The progress deadline of a revision passes. *)
PassDeadline(id) ==
  /\ HasDeadline /\ id \in revs \ late
  /\ late' = late \cup {id}
  /\ UNCHANGED <<want, revs, content, archived, deleting, finalizer, status, objVars,
                 listed, worker, applier, faults>>

(* The operator-controller process restarts: both passes are lost, the caches
   are filled anew. *)
Crash ==
  /\ Fault
  /\ worker.pc # "idle" \/ applier.pc # "idle"
  /\ worker' = IdleWorker
  /\ applier' = IdleApplier
  /\ seen' = obj
  /\ listed' = IF RevisionLag THEN revs ELSE listed
  /\ UNCHANGED <<want, cosVars, status, obj, ready>>

-----------------------------------------------------------------------------
ReconcilePass ==
  \/ \E o \in Objects : CreateObject(o) \/ AdoptObject(o) \/ UpdateObject(o) \/ SkipObject(o)
  \/ NextPhase \/ StopAtPhase \/ CompleteRevision \/ MarkSucceeded
  \/ \E p \in Ids : ArchivePrevious(p)

TeardownPass ==
  \/ \E o \in Objects : \/ TeardownGone(o) \/ TeardownRelease(o)
                        \/ TeardownDelete(o) \/ TeardownConflict(o)
  \/ PreviousPhase \/ AwaitTeardown \/ FinishTeardown

BeginPass(id) ==
  BeginReconcile(id) \/ BeginTeardown(id) \/ DeleteRevision(id)

ApplyPass ==
  PatchLatest \/ CreateRevision \/ \E id \in Ids : CollectRevision(id)

Cluster ==
  \/ \E o \in Objects : \/ BecomeReady(o) \/ BecomeUnready(o) \/ FinalizeObject(o)
                        \/ UserDeletes(o) \/ KubeCollect(o) \/ SyncObject(o)
  \/ \E id \in Ids : PassDeadline(id)
  \/ \E e \in Extensions : ChangeSpec(e)
  \/ SyncRevisions

Next ==
  \/ \E id \in Ids : BeginPass(id) \/ BeginBlocked(id)
  \/ ReconcilePass \/ TeardownPass \/ UpdateStatus \/ FailPass
  \/ \E e \in Extensions : ResolveBundle(e)
  \/ ApplyPass \/ FailApply
  \/ Cluster \/ Crash

Spec == Init /\ [][Next]_vars

(* Fairness. The COS work queue is fair to every revision, so a pass over each
   starts again and again (strong fairness: it starts only when the worker is
   idle); the worker, the garbage collector and the kubelet go on working.
   Users, faults and the ClusterExtension worker need not. *)
Fairness ==
  /\ \A id \in Ids : SF_vars(BeginPass(id))
  /\ WF_vars(ReconcilePass \/ TeardownPass \/ UpdateStatus)
  /\ \A o \in Objects : /\ WF_vars(BecomeReady(o))
                        /\ WF_vars(FinalizeObject(o))
                        /\ WF_vars(KubeCollect(o))
                        /\ WF_vars(SyncObject(o))
LiveSpec == Spec /\ Fairness

-----------------------------------------------------------------------------
(* Type invariant of the two workers' state, the ClusterObjectSets and the
   objects; annotations stay within the revision numbers. *)
TypeOK ==
  /\ want \in [Extensions -> Contents]
  /\ revs \subseteq Ids /\ archived \subseteq Ids /\ deleting \subseteq Ids
  /\ finalizer \subseteq Ids /\ late \subseteq Ids /\ listed \subseteq Ids
  /\ content \in [Ids -> Contents]
  /\ status \in [Ids -> Conditions]
  /\ obj \in [Objects -> ObjectStates]
  /\ seen \in [Objects -> ObjectStates]
  /\ ready \subseteq Objects
  /\ worker \in Workers
  /\ applier \in Appliers
  /\ faults \in 0..MaxFaults

(* Archiving and retention never leave an extension without a live revision:
   above every archived revision there is a newer one that is still active. *)
ArchivedSuperseded ==
  \A id \in archived : \E s \in revs : Newer(s, id) /\ Active(s)

(* The teardown finalizer of an archived revision goes only when no object is
   left under it: none it controls, none that lists it as an owner. *)
TeardownComplete ==
  \A id \in archived \ (finalizer \cup deleting) :
    \A o \in Objects : obj[o].ctrl # id /\ id \notin obj[o].owners

(* A revision that has succeeded is never reported as having exceeded its
   progress deadline, however late it later becomes unavailable. *)
NoDeadlineAfterSuccess ==
  \A id \in revs : status[id].succeeded => status[id].prog # "ProgressDeadlineExceeded"

(* While revisions roll out, all of them are of one image: resolution keeps the
   image in flight, so a second upgrade starts only from an installed one. *)
RollingShareImage ==
  \A a, b \in {id \in revs : id \notin archived /\ ~status[id].succeeded} :
    Ext(a) = Ext(b) => content[a].image = content[b].image

(* An object is managed when an active revision controls it, and removed when
   a step deletes it or marks it for deletion. *)
Managed(o) == obj[o].ex /\ ~obj[o].dying /\ obj[o].ctrl \in Ids /\ Active(obj[o].ctrl)
Removed(o) == ~obj'[o].ex \/ obj'[o].dying

(* Handover between revisions loses no object: while an active revision
   controls an object, no teardown of a revision of the same extension and no
   garbage collection deletes it; only a user does. *)
HandoverSafe ==
  [][\A o \in Objects : Managed(o) /\ Removed(o) =>
       \/ faults' # faults
       \/ worker.pc = "teardown" /\ Ext(worker.id) # Ext(obj[o].ctrl)]_vars

(* Teardown deletes no object that another active revision controls,
   whichever extension that revision belongs to. *)
ForeignKept ==
  [][\A o \in Objects : Managed(o) /\ Removed(o) => faults' # faults]_vars

(* Teardown of a revision deletes no object that has transitioned to a newer
   one. *)
TransitionedKept ==
  [][\A o \in Objects :
       worker.pc = "teardown" /\ obj[o].ex /\ ~obj[o].dying /\ Removed(o) /\ faults' = faults =>
         obj[o].rev <= Num(worker.id)]_vars

(* An old revision is archived only when a newer one is completely rolled out:
   every object of that one exists under its control. *)
ArchivedAfterRollout ==
  [][\A id \in archived' \ archived :
       \E s \in revs : /\ Newer(s, id)
                       /\ \A o \in ObjectsOf(s) : obj[o].ex /\ obj[o].ctrl = s]_vars

(* Revision linearity: as long as an object exists its revision annotation
   never goes back, so an older revision never takes it from a newer one. *)
RevisionLinearity ==
  [][\A o \in Objects : obj[o].ex /\ obj'[o].ex => obj[o].rev <= obj'[o].rev]_vars

(* Teardown runs against the phase order: while an archived revision still
   controls an object of a later phase, none of an earlier phase is deleted. *)
TeardownOrder ==
  [][\A o \in Objects :
       worker.pc = "teardown" /\ obj[o].ex /\ ~obj[o].dying /\ Removed(o) /\ faults' = faults =>
         \A k \in (worker.phase + 1)..Len(worker.phases) :
           \A p \in worker.phases[k] : obj[p].ctrl # worker.id]_vars

(* Retention deletes archived revisions only, and of those none of the newest
   RetentionLimit revisions. *)
RetentionKeepsNewest ==
  [][\A id \in revs : (id \in deleting' \ deleting) \/ (id \notin revs' /\ id \notin deleting) =>
       /\ id \in archived
       /\ Cardinality({s \in revs : Newer(s, id)}) >= RetentionLimit]_vars

(* Revisions are numbered without gaps and no number is used twice, whatever
   list the applier saw: a new revision is the first, or directly follows the
   latest one that exists. *)
NumbersSequential ==
  [][\A id \in revs' \ revs :
       /\ \A s \in RevisionsOf(Ext(id)) : Newer(id, s)
       /\ Num(id) = 1 \/ <<Ext(id), Num(id) - 1>> \in revs]_vars

(* A revision never takes over an object that another extension's revision
   controls (collision protection Prevent). *)
NoStealing ==
  [][\A o \in Objects : obj[o].ctrl # Nobody /\ obj'[o].ctrl # Nobody =>
       Ext(obj'[o].ctrl) = Ext(obj[o].ctrl)]_vars

(* Every archived revision is eventually torn down and released. *)
ArchivedReleased ==
  \A id \in Ids : (id \in archived) ~> (id \notin finalizer)

(* A revision rolls out unless a newer one takes its place: collisions with
   objects that archived revisions still hold are transient. *)
RolloutSucceeds ==
  \A id \in Ids : (id \in revs) ~> (status[id].succeeded \/ \E s \in revs : Newer(s, id))
=============================================================================
