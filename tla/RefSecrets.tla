----------------------------- MODULE RefSecrets -----------------------------
(***************************************************************************)
(* Revisions whose objects are kept in Secrets                             *)
(* (internal/operator-controller/applier/boxcutter.go), from the migration *)
(* of a Helm release to the ClusterObjectSet controller that resolves the  *)
(* references (controllers/clusterobjectset_controller.go).                *)
(*                                                                         *)
(* One ClusterExtension: names of revisions and Secrets start with its     *)
(* name. A new revision takes three steps: create the Secrets, create the  *)
(* ClusterObjectSet (COS), make it the owner of the Secrets, each call     *)
(* failing or the process crashing anywhere. The rollout of the objects    *)
(* and the finalizers of a COS are those of module Rollout.                *)
(***************************************************************************)
EXTENDS RevisionContent

CONSTANTS
  BundleContents,   \* sequence: the phases of each content a user may ask for
  HelmHistories,    \* the histories of Helm releases: sequences of [deployed, content]
  MaxRevs,          \* bound on revision numbers
  KeepRevisions,    \* ClusterObjectSetRetentionLimit
  MaxRefFaults,     \* bound on failed calls, crashes and edited Secrets
  SecretEdits       \* the revisions whose Secrets users may delete and recreate

ASSUME RefBounds == MaxRevs \in Nat \ {0} /\ KeepRevisions \in Nat /\ MaxRefFaults \in Nat
ASSUME SecretEditsAssumption == SecretEdits \subseteq Nat
(* Contents are sequences of phases, phases have sequences of objects. *)
IsSequence(s) == Len(s) \in Nat /\ DOMAIN s = 1..Len(s)
ArePhases(phases) ==
  IsSequence(phases) /\ \A i \in DOMAIN phases : IsSequence(phases[i].objects)
ASSUME ContentsAssumption ==
  /\ IsSequence(BundleContents) /\ BundleContents # <<>>
  /\ \A k \in DOMAIN BundleContents : ArePhases(BundleContents[k])
ASSUME HistoriesAssumption == \A h \in HelmHistories : \A i \in DOMAIN h : h[i].content \in Nat

VARIABLES
  history,    \* the Helm releases of the extension
  asked,      \* the content the extension is to have
  cos,        \* the ClusterObjectSets, by revision number
  secrets,    \* the Secrets, by revision and data: their name
  apply,      \* the pass of the ClusterExtension controller
  resolve,    \* the pass of the ClusterObjectSet controller
  nextUid, mishaps,
  edited      \* history: a user has deleted or replaced a Secret

refVars == <<history, asked, cos, secrets, apply, resolve, nextUid, mishaps, edited>>

Numbers == 1..MaxRevs
Packed == [k \in DOMAIN BundleContents |-> Pack(BundleContents[k])]
SecretNames == Numbers \X UNION {ToSet(Packed[k].secrets) : k \in DOMAIN BundleContents}

(* spec.phases: the content, inline after a migration, else by reference.   *)
NoCOS == [uid |-> 0, content |-> 0, inline |-> FALSE, migrated |-> FALSE, succeeded |-> FALSE,
          archived |-> FALSE, deleting |-> FALSE, observed |-> "none"]
NewCOS(uid, k, migrated) ==
  [NoCOS EXCEPT !.uid = uid, !.content = k, !.inline = migrated, !.migrated = migrated]
Exists(r) == cos[r].uid # 0

NoSecret == [is |-> "absent", immutable |-> FALSE, owners |-> {}]
(* A Secret created by the packer; data is "packed", or "other". *)
NewSecret == [is |-> "packed", immutable |-> TRUE, owners |-> {}]

(* The names of the Secrets of a revision, in order, and the references.    *)
SecretsOf(r, k) ==
  [i \in DOMAIN Packed[k].secrets |-> [name |-> <<r, Packed[k].secrets[i]>>, owners |-> {}]]
References(r, v) == IF v.inline THEN {} ELSE {<<r, ref.secret>> : ref \in Packed[v.content].refs}
RefsOf(r) == References(r, cos[r])

NoApply == [pc |-> "idle", rev |-> 0, content |-> 0, todo |-> <<>>]
NoResolve == [pc |-> "idle", rev |-> 0, seen |-> NoCOS, digest |-> "none"]

RefInit ==
  /\ history \in HelmHistories
  /\ asked = 1
  /\ cos = [r \in Numbers |-> NoCOS]
  /\ secrets = [n \in SecretNames |-> NoSecret]
  /\ apply = NoApply
  /\ resolve = NoResolve
  /\ nextUid = 1
  /\ mishaps = 0
  /\ edited = FALSE

(* latestRevisionNumber *)
Latest == Max({0} \cup {r \in Numbers : Exists(r)})

WriteCOS(r, v) == cos' = [cos EXCEPT ![r] = v]

-----------------------------------------------------------------------------
(* A pass of the ClusterExtension controller: migrate, then apply.          *)

(* findLatestDeployedRelease: the newest release that is deployed, else 0. *)
DeployedRelease ==
  LET deployed == {i \in DOMAIN history : history[i].deployed}
  IN  IF deployed = {} THEN 0 ELSE CHOOSE i \in deployed : \A j \in deployed : j <= i

(* ensureMigratedRevisionStatus; the mutant leaves a revision unmarked. *)
NeedsMarkNever == FALSE
NeedsMark == Exists(1) /\ ~cos[1].succeeded

(* Migrate creates revision 1 from the deployed release if no revision is   *)
(* there; ensureMigratedRevisionStatus comes back to one left unmarked.     *)
Migrate ==
  /\ apply.pc = "idle"
  /\ IF Latest = 0 /\ DeployedRelease # 0
     THEN /\ WriteCOS(1, NewCOS(nextUid, history[DeployedRelease].content, TRUE))
          /\ nextUid' = nextUid + 1
          /\ apply' = [NoApply EXCEPT !.pc = "mark"]
     ELSE /\ UNCHANGED <<cos, nextUid>>
          /\ apply' = [NoApply EXCEPT !.pc = IF NeedsMark THEN "mark" ELSE "apply"]
  /\ UNCHANGED <<history, asked, secrets, resolve, mishaps, edited>>

(* ensureRevisionStatus: only a migrated revision is marked. *)
ensureRevisionStatus ==
  /\ apply.pc = "mark"
  /\ WriteCOS(1, IF cos[1].migrated THEN [cos[1] EXCEPT !.succeeded = TRUE] ELSE cos[1])
  /\ apply' = IF Exists(1) THEN [apply EXCEPT !.pc = "apply"] ELSE NoApply
  /\ UNCHANGED <<history, asked, secrets, resolve, nextUid, mishaps, edited>>

(* Apply: patch the latest revision with the references packed under its    *)
(* name; the API refuses a change of its phases, which means an upgrade.    *)
Unchanged(r, k) == r # 0 /\ ~cos[r].inline /\ cos[r].content = k

(* ensureSecretOwnerReferences: the Secrets that carry the revision's label *)
(* and not its uid.                                                         *)
UnownedNone(r) == {}     \* mutant
Unowned(r) == {n \in SecretNames : n[1] = r /\ secrets[n].is # "absent" /\ cos[r].uid \notin secrets[n].owners}

ApplyUnchanged ==
  /\ apply.pc = "apply" /\ Unchanged(Latest, asked)
  /\ apply' = [pc |-> "own", rev |-> Latest, content |-> asked, todo |-> SetToSeq({[name |-> n, owners |-> secrets[n].owners] : n \in Unowned(Latest)})]
  /\ UNCHANGED <<history, asked, cos, secrets, resolve, nextUid, mishaps, edited>>

(* createExternalizedRevision: collect old revisions, check permissions and *)
(* pack; too large an object ends the pass.                                 *)
Collected ==
  LET existing == {r \in Numbers : Exists(r)} IN
  {r \in existing : /\ cos[r].archived
                    /\ Cardinality({s \in existing : s > r}) >= KeepRevisions}
ApplyChanged ==
  /\ apply.pc = "apply" /\ ~Unchanged(Latest, asked)
  /\ Latest < MaxRevs
  /\ cos' = [r \in Numbers |-> IF r \in Collected THEN [cos[r] EXCEPT !.deleting = TRUE] ELSE cos[r]]
  /\ apply' = IF PackFails(BundleContents[asked]) THEN NoApply
              ELSE [pc |-> "create", rev |-> Latest + 1, content |-> asked,
                    todo |-> SecretsOf(Latest + 1, asked)]
  /\ UNCHANGED <<history, asked, secrets, resolve, nextUid, mishaps, edited>>

(* Step 1, one Secret: an existing one is left as it is. *)
CreateSecret ==
  /\ apply.pc = "create" /\ apply.todo # <<>>
  /\ LET n == Head(apply.todo).name IN
       secrets' = IF secrets[n].is = "absent" THEN [secrets EXCEPT ![n] = NewSecret] ELSE secrets
  /\ apply' = [apply EXCEPT !.todo = Tail(@)]
  /\ UNCHANGED <<history, asked, cos, resolve, nextUid, mishaps, edited>>

(* Mutant: the COS does not wait for the Secrets. *)
CreateCOSEarly ==
  /\ apply.pc = "create"
  /\ WriteCOS(apply.rev, NewCOS(nextUid, apply.content, FALSE))
  /\ nextUid' = nextUid + 1
  /\ apply' = [apply EXCEPT !.pc = "own", !.todo = SecretsOf(apply.rev, apply.content)]
  /\ UNCHANGED <<history, asked, secrets, resolve, mishaps, edited>>

(* Step 2. *)
CreateCOS ==
  /\ apply.pc = "create" /\ apply.todo = <<>>
  /\ WriteCOS(apply.rev, NewCOS(nextUid, apply.content, FALSE))
  /\ nextUid' = nextUid + 1
  /\ apply' = [apply EXCEPT !.pc = "own", !.todo = SecretsOf(apply.rev, apply.content)]
  /\ UNCHANGED <<history, asked, secrets, resolve, mishaps, edited>>

(* Step 3, one Secret: the patch replaces the list of owners by the one the  *)
(* pass knows and the revision. A pass whose COS or Secret is gone fails.     *)
Owners(known, uid) == known \cup {uid}
PatchOwner ==
  /\ apply.pc = "own" /\ apply.todo # <<>>
  /\ LET n == Head(apply.todo).name IN
       IF secrets[n].is = "absent" \/ ~Exists(apply.rev) THEN UNCHANGED secrets /\ apply' = NoApply
       ELSE /\ secrets' = [secrets EXCEPT ![n].owners = Owners(Head(apply.todo).owners, cos[apply.rev].uid)]
            /\ apply' = [apply EXCEPT !.todo = Tail(@)]
  /\ UNCHANGED <<history, asked, cos, resolve, nextUid, mishaps, edited>>

EndApply ==
  /\ apply.pc = "own" /\ apply.todo = <<>>
  /\ apply' = NoApply
  /\ UNCHANGED <<history, asked, cos, secrets, resolve, nextUid, mishaps, edited>>

(* A call fails: the pass ends where it is and will start again. *)
ApplyFails ==
  /\ apply.pc # "idle" /\ mishaps < MaxRefFaults
  /\ mishaps' = mishaps + 1
  /\ apply' = NoApply
  /\ UNCHANGED <<history, asked, cos, secrets, resolve, nextUid, edited>>

-----------------------------------------------------------------------------
(* A pass of the ClusterObjectSet controller on a revision, from a cached   *)
(* copy of it: check that the Secrets are immutable, resolve the references *)
(* to a digest, compare it with the recorded one, apply, write the status.  *)

(* verifyReferencedSecretsImmutable; missing Secrets are not its concern.   *)
Immutable(r, v) == \A n \in References(r, v) : secrets[n].is # "absent" => secrets[n].immutable

(* The copies of a COS the cache may hold: the present one, or one from      *)
(* before the writes of its status and its archiving. The lists of the      *)
(* ClusterExtension controller are fresh here; module Rollout has them lag. *)
Copies(v) == {v, [v EXCEPT !.archived = FALSE, !.observed = "none", !.succeeded = FALSE]}

BeginResolve(r, copy) ==
  /\ resolve.pc = "idle"
  /\ Exists(r) /\ ~copy.deleting /\ Immutable(r, copy)
  /\ resolve' = [NoResolve EXCEPT !.pc = "build", !.rev = r, !.seen = copy]
  /\ UNCHANGED <<history, asked, cos, secrets, apply, nextUid, mishaps, edited>>

(* buildBoxcutterPhases and verifyObservedPhases: a missing Secret is tried *)
(* again, a digest other than the recorded one blocks.                      *)
SeenRefs == References(resolve.rev, resolve.seen)
Digest == IF \E n \in SeenRefs : secrets[n].is = "other" THEN "other" ELSE "packed"
Resolvable == \A n \in SeenRefs : secrets[n].is # "absent"
SameDigestAny == TRUE     \* mutant
SameDigest == resolve.seen.observed \in {"none", Digest}

BuildPhases ==
  /\ resolve.pc = "build"
  /\ resolve' = IF Resolvable /\ SameDigest THEN [resolve EXCEPT !.pc = "status", !.digest = Digest]
                ELSE NoResolve
  /\ UNCHANGED <<history, asked, cos, secrets, apply, nextUid, mishaps, edited>>

(* The revision was applied, completely or not; a complete one archives its *)
(* predecessors. The update of the status fails if the cached copy was old. *)
Current == resolve.seen = cos[resolve.rev]
WriteStatus(complete) ==
  LET r == resolve.rev IN
  /\ resolve.pc = "status" /\ (complete => ~resolve.seen.archived)
  /\ LET done == [r2 \in Numbers |-> IF complete /\ r2 < r /\ Exists(r2)
                                     THEN [cos[r2] EXCEPT !.archived = TRUE] ELSE cos[r2]]
     IN  cos' = IF ~Current THEN done
                ELSE [done EXCEPT ![r].observed = resolve.digest, ![r].succeeded = @ \/ complete]
  /\ resolve' = NoResolve
  /\ UNCHANGED <<history, asked, secrets, apply, nextUid, mishaps, edited>>

-----------------------------------------------------------------------------
(* The cluster. A deleted COS goes once its finalizer is removed; Secrets   *)
(* go when every owner is gone.                                             *)

Finalized(r) ==
  /\ Exists(r) /\ cos[r].deleting
  /\ cos' = [cos EXCEPT ![r] = NoCOS]
  /\ UNCHANGED <<history, asked, secrets, apply, resolve, nextUid, mishaps, edited>>

CollectSecret(n) ==
  /\ secrets[n].owners # {}
  /\ \A r \in Numbers : cos[r].uid \notin secrets[n].owners
  /\ secrets' = [secrets EXCEPT ![n] = NoSecret]
  /\ UNCHANGED <<history, asked, cos, apply, resolve, nextUid, mishaps, edited>>

(* Users ask for the next content, as often as there are numbers for its    *)
(* revisions, and may replace a Secret.                                     *)
AskForNext ==
  /\ asked < Len(BundleContents)
  /\ asked + (IF DeployedRelease # 0 THEN 1 ELSE 0) < MaxRevs
  /\ asked' = asked + 1
  /\ UNCHANGED <<history, cos, secrets, apply, resolve, nextUid, mishaps, edited>>

EditSecret(n, v) ==
  /\ n[1] \in SecretEdits /\ mishaps < MaxRefFaults
  /\ secrets[n].is # "absent"
  /\ secrets' = [secrets EXCEPT ![n] = v]
  /\ mishaps' = mishaps + 1
  /\ edited' = TRUE
  /\ UNCHANGED <<history, asked, cos, apply, resolve, nextUid>>

CrashRefs ==
  /\ mishaps < MaxRefFaults
  /\ mishaps' = mishaps + 1
  /\ apply' = NoApply
  /\ resolve' = NoResolve
  /\ UNCHANGED <<history, asked, cos, secrets, nextUid, edited>>

ApplyStep ==
  \/ Migrate \/ ensureRevisionStatus \/ ApplyUnchanged \/ ApplyChanged
  \/ CreateSecret \/ CreateCOS \/ PatchOwner \/ EndApply
Replacements == {NoSecret} \cup {[is |-> "other", immutable |-> b, owners |-> {}] : b \in BOOLEAN}

RefNext ==
  \/ ApplyStep \/ ApplyFails
  \/ \E r \in Numbers : Finalized(r) \/ \E v \in Copies(cos[r]) : BeginResolve(r, v)
  \/ BuildPhases \/ WriteStatus(TRUE) \/ WriteStatus(FALSE)
  \/ \E n \in SecretNames : CollectSecret(n) \/ \E v \in Replacements : EditSecret(n, v)
  \/ AskForNext \/ CrashRefs

(* The work queue brings the extension up again. *)
RefFairness == WF_refVars(ApplyStep)

RefSpec == RefInit /\ [][RefNext]_refVars /\ RefFairness

-----------------------------------------------------------------------------
(* "Referenced Secrets exist before the COS is created. The COS reconciler  *)
(* never encounters missing Secrets during normal operation"                *)
(* (large-bundle-support.md): whatever fails or crashes, upgrades and       *)
(* retention included, the references of a revision resolve to its content  *)
(* as long as users leave the Secrets alone.                                *)
RefsResolve ==
  ~edited => \A r \in Numbers : (Exists(r) /\ ~cos[r].deleting) =>
                \A n \in RefsOf(r) : secrets[n].is = "packed"

(* The digests recorded for a revision stay: a Secret that was deleted and  *)
(* recreated with other data, even while the cached copy of the revision    *)
(* lacks the digests, never replaces them.                                  *)
DigestsPinned ==
  [][\A r \in Numbers : (cos[r].observed # "none" /\ cos'[r].uid = cos[r].uid)
                           => cos'[r].observed = cos[r].observed]_refVars

(* A migrated revision counts as installed before anything is built on it:  *)
(* no later revision exists while revision 1, taken over from Helm, is not  *)
(* marked Succeeded, whichever call failed.                                 *)
MigratedFirst ==
  \A r \in Numbers : (r > 1 /\ Exists(r) /\ Exists(1) /\ cos[1].migrated) => cos[1].succeeded

(* Step 3 is made up for: whatever failed between the three steps, the       *)
(* Secrets of the latest revision come to be owned by it, again and again.   *)
LatestOwned ==
  []<>(\A r \in Numbers : r = Latest =>
         \A n \in RefsOf(r) : secrets[n].is # "absent" => cos[r].uid \in secrets[n].owners)
=============================================================================
