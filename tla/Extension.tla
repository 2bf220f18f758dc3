------------------------------ MODULE Extension ------------------------------
(***************************************************************************)
(* The reconciliation of one ClusterExtension                              *)
(* (internal/operator-controller/controllers): its finalizers, validation, *)
(* the revision states, resolution with the fallback to the installed      *)
(* bundle, unpacking, and one of the two appliers with the status          *)
(* conditions they lead to. The Helm applier (applier/helm.go) and the     *)
(* releases it leaves behind are modelled here; of the Boxcutter applier,  *)
(* whose rollout is module Rollout, only what the status mirrors.          *)
(*                                                                         *)
(* One worker reconciles the extension, a step at a time; users, catalogs, *)
(* the registry and crashes come between any two steps. Messages are left  *)
(* out. An image is named by the bundle it holds.                          *)
(***************************************************************************)
EXTENDS Resolution

CONSTANTS
  Runtimes,               \* subset of {"helm", "boxcutter"}
  ExtSources,             \* the catalog sources a user may ask for
  CatalogLists,           \* the lists of catalogs a cluster may have
  RenderedManifest(_),    \* bundle name -> the manifests it renders to
  maxHelmReleaseHistory,
  MaxExtEdits,            \* bound on edits of spec, catalogs and cluster
  MaxExtFaults            \* bound on failed calls and crashes

\* CatalogFilter: channels, none meaning all; a version range by the versions
\* in it, exact when it names one version; upgradeConstraintPolicy; config is
\* "ok" or the reason of the terminal error it leads to.
CatalogFilter(s) ==
  /\ s.channels \subseteq STRING
  /\ s.versions \subseteq Nat
  /\ s.exact = Absent \/ s.versions = {s.exact}
  /\ s.selfCertified \in BOOLEAN
  /\ s.config \in {"ok", "InvalidConfiguration"}

ASSUME ExtAdmitted == \A s \in ExtSources : CatalogFilter(s)
ASSUME CatalogsAssumption == \A cs \in CatalogLists : AreCatalogs(cs)
ASSUME ExtBounds == /\ maxHelmReleaseHistory \in Nat \ {0}
                    /\ MaxExtEdits \in Nat /\ MaxExtFaults \in Nat

VARIABLES
  runtime,     \* the BoxcutterRuntime feature gate
  ext,         \* the ClusterExtension, without its status
  extStatus,   \* its status
  world,       \* service account, registry and catalogs
  releases,    \* Helm releases, or ClusterObjectSets: oldest first
  objects,     \* the manifests the cluster runs
  unpacked,    \* the bundle in the unpack cache of the extension, or ""
  rec,         \* the reconciliation under way
  wake,        \* a reconcile request is queued
  extEdits, extFaults

extVars == <<runtime, ext, extStatus, world, releases, objects, unpacked, rec, wake, extEdits, extFaults>>

-----------------------------------------------------------------------------
(* Status. A condition has a status, a reason and an observed generation.   *)

NoCondition == [status |-> "", reason |-> "", gen |-> 0]
Condition(status, reason) == [status |-> status, reason |-> reason, gen |-> rec.ext.gen]

deprecationConditions == {"Deprecated", "PackageDeprecated", "ChannelDeprecated", "BundleDeprecated"}
ConditionTypes == {"Installed", "Progressing", "Available"} \cup deprecationConditions
NoStatus == [conditions |-> [t \in ConditionTypes |-> NoCondition], install |-> NothingInstalled, active |-> {}]

SetStatusCondition(st, type, status, reason) ==
  [st EXCEPT !.conditions[type] = Condition(status, reason)]

(* err is "", "Retrying", or the reason of a terminal error: Blocked when   *)
(* it was given none.                                                       *)
IsTerminal(err) == err \notin {"", "Retrying"}
setStatusProgressing(st, err) ==
  SetStatusCondition(st, "Progressing", IF IsTerminal(err) THEN "False" ELSE "True",
                     IF err = "" THEN "Succeeded" ELSE err)

(* RollingOut: the revisions that roll out, by their places among all.      *)
NoneRolling == <<>>
Oldest(rolling) == rolling[CHOOSE i \in DOMAIN rolling : \A j \in DOMAIN rolling : i <= j]
Newest(rolling) == rolling[CHOOSE i \in DOMAIN rolling : \A j \in DOMAIN rolling : j <= i]

determineFailureReason(rolling) ==
  IF DOMAIN rolling = {} \/ Newest(rolling).state = "Retrying" THEN "Failed" ELSE "Absent"

setInstalledStatusFromRevisionStates(st, states) ==
  IF states.installed = NothingInstalled
  THEN SetStatusCondition([st EXCEPT !.install = NothingInstalled],
                          "Installed", "False", determineFailureReason(states.rolling))
  ELSE SetStatusCondition([st EXCEPT !.install = states.installed], "Installed", "True", "Succeeded")

setInstalledStatusConditionUnknown(st) == SetStatusCondition(st, "Installed", "Unknown", "Failed")

ensureFailureConditionsWithReason(st, reason) ==
  [st EXCEPT !.conditions =
     [t \in ConditionTypes |->
        IF t \notin deprecationConditions \cup {"Available"} /\ @[t] = NoCondition
        THEN Condition("False", reason) ELSE @[t]]]

(* Entries of the package's deprecation that concern the extension; those   *)
(* without a message deprecate nothing.                                     *)
buildDeprecationInfo(source, installedName, deprecation) ==
  LET Said(P(_)) == {e \in deprecation : P(e) /\ e.message}
  IN  [package |-> Said(LAMBDA e : e.schema = "olm.package"),
       channel |-> Said(LAMBDA e : e.schema = "olm.channel"
                                   /\ (source.channels = {} \/ e.name \in source.channels)),
       bundle  |-> Said(LAMBDA e : e.schema = "olm.bundle" /\ installedName # "" /\ e.name = installedName)]

SetDeprecationStatus(st, installedName, deprecation, hasCatalogData) ==
  LET info == buildDeprecationInfo(rec.ext.source, installedName, deprecation)
      Verdict(entries) ==
        CASE ~hasCatalogData -> Condition("Unknown", "DeprecationStatusUnknown")
          [] hasCatalogData /\ entries # {} -> Condition("True", "Deprecated")
          [] OTHER -> Condition("False", "NotDeprecated")
  IN  [st EXCEPT
         !.conditions["Deprecated"] = Verdict(info.package \cup info.channel \cup info.bundle),
         !.conditions["PackageDeprecated"] = Verdict(info.package),
         !.conditions["ChannelDeprecated"] = Verdict(info.channel),
         !.conditions["BundleDeprecated"] =
            IF installedName = "" THEN Condition("Unknown", "Absent") ELSE Verdict(info.bundle)]

-----------------------------------------------------------------------------
(* The steps, as cmd/operator-controller/main.go configures them; between   *)
(* validation and the revision states Boxcutter migrates its storage, which *)
(* module RefSecrets models.                                                *)

ReconcileSteps == <<"finalizers", "validate", "states", "resolve", "unpack", "apply">>
Following(step) == ReconcileSteps[1 + CHOOSE i \in DOMAIN ReconcileSteps : ReconcileSteps[i] = step]
finalizerKeys == {"cleanup-unpack-cache", "cleanup-contentmanager-cache"}

NoStates == [installed |-> NothingInstalled, rolling |-> NoneRolling]
Idle == [step |-> "idle", ext |-> [gen |-> 0], status |-> NoStatus, finalizers |-> {},
         states |-> NoStates, resolved |-> NothingInstalled, content |-> FALSE,
         deprecation |-> NoDeprecation, hasCatalogData |-> FALSE, err |-> "",
         stale |-> FALSE]     \* the extension was changed after it was read

ExtInit ==
  /\ runtime \in Runtimes
  /\ \E s \in ExtSources : ext = [gen |-> 1, source |-> s, finalizers |-> {}, deleting |-> FALSE,
                                  exists |-> TRUE]
  /\ extStatus = NoStatus
  /\ \E cs \in CatalogLists : world = [serviceAccount |-> TRUE, registry |-> TRUE, catalogs |-> cs]
  /\ releases = <<>>
  /\ objects = "none"
  /\ unpacked = ""
  /\ rec = Idle
  /\ wake = TRUE
  /\ extEdits = 0 /\ extFaults = 0

unchangedWorld == UNCHANGED <<runtime, world, extEdits>>
InRec(step) == rec.step = step
Goto(step) == rec' = [rec EXCEPT !.step = step]
(* A step that ends the reconciliation: the status and the error it leaves. *)
Ends(st, err) == rec' = [rec EXCEPT !.step = "save", !.status = st, !.err = err]
Fault == extFaults < MaxExtFaults /\ extFaults' = extFaults + 1
NoFault == UNCHANGED extFaults

(* Reconcile reads the extension; one that is gone is done with. *)
ReadExtension ==
  /\ InRec("idle") /\ wake
  /\ wake' = FALSE
  /\ rec' = IF ext.exists
            THEN [Idle EXCEPT !.step = ReconcileSteps[1], !.ext = ext, !.status = extStatus,
                              !.finalizers = ext.finalizers]
            ELSE Idle
  /\ unchangedWorld /\ UNCHANGED <<ext, extStatus, releases, objects, unpacked, extFaults>>

(* HandleFinalizers: add both, or run both on deletion: the unpack cache of *)
(* the extension is deleted, the watches of its content are stopped. A      *)
(* finalizer that fails stays, the other one goes.                          *)
KeepsNothing(failed) == {}
Keeps(failed) == {failed}
HandleFinalizers ==
  /\ InRec("finalizers")
  /\ \/ /\ ~rec.ext.deleting
        /\ rec' = IF rec.ext.finalizers = finalizerKeys THEN [rec EXCEPT !.step = Following(@)]
                  ELSE [rec EXCEPT !.step = "save", !.finalizers = finalizerKeys]
        /\ UNCHANGED unpacked /\ NoFault
     \/ /\ rec.ext.deleting
        /\ rec' = [rec EXCEPT !.step = "save", !.finalizers = {}]
        /\ unpacked' = IF "cleanup-unpack-cache" \in rec.ext.finalizers THEN "" ELSE unpacked
        /\ NoFault
     \/ /\ rec.ext.deleting /\ Fault
        /\ \E failed \in rec.ext.finalizers :
             /\ rec' = [rec EXCEPT !.step = "save", !.finalizers = Keeps(failed), !.err = "Retrying",
                                   !.status = setStatusProgressing(@, "Retrying")]
             /\ unpacked' = IF rec.ext.finalizers \ {failed} = {"cleanup-unpack-cache"} THEN "" ELSE unpacked
  /\ unchangedWorld /\ UNCHANGED <<ext, extStatus, releases, objects, wake>>

ValidateClusterExtension ==
  /\ InRec("validate")
  /\ IF world.serviceAccount THEN Goto(Following(rec.step))
     ELSE Ends(setStatusProgressing(setInstalledStatusConditionUnknown(rec.status), "Retrying"), "Retrying")
  /\ unchangedWorld /\ UNCHANGED <<ext, extStatus, releases, objects, unpacked, wake, extFaults>>

(* GetRevisionStates: of Helm releases the newest that is deployed; of      *)
(* ClusterObjectSets that are not archived, the newest that has succeeded,  *)
(* and those that have not.                                                 *)
Latest(rs, good) ==
  LET done == {i \in DOMAIN rs : rs[i].state = good}
  IN  IF done = {} THEN NothingInstalled ELSE rs[CHOOSE i \in done : \A j \in done : j <= i].metadata
Installed == Latest(releases, IF runtime = "helm" THEN "deployed" ELSE "Succeeded")
RollingOut == {i \in DOMAIN releases : runtime # "helm" /\ releases[i].state \notin {"Succeeded", "archived"}}
GetRevisionStates == [installed |-> Installed, rolling |-> [i \in RollingOut |-> releases[i]]]

RetrieveRevisionStates ==
  /\ InRec("states")
  /\ \/ rec' = [rec EXCEPT !.step = Following(@), !.states = GetRevisionStates] /\ NoFault
     \/ /\ Fault
        /\ Ends(setStatusProgressing(setInstalledStatusConditionUnknown(
                  [rec.status EXCEPT !.install = NothingInstalled]), "Retrying"), "Retrying")
  /\ unchangedWorld /\ UNCHANGED <<ext, extStatus, releases, objects, unpacked, wake>>

(* ResolveBundle. The answers of Resolve are tabulated: TLC evaluates the    *)
(* table once.                                                              *)
KnownBundles == UNION {UNION {ToSet(cs[i].fbc.bundles) : i \in DOMAIN cs} : cs \in CatalogLists}
KnownMetadata == {NothingInstalled} \cup
                 {MetadataFor(b.name, GetVersionAndRelease(b)) : b \in {k \in KnownBundles : HasVersion(k)}}
AnswersAnyEdge ==      \* mutant: the installed bundle is not passed on
  [cs \in CatalogLists |-> [s \in ExtSources |-> [m \in KnownMetadata |-> Resolve(cs, s, NothingInstalled)]]]
Answers == [cs \in CatalogLists |-> [s \in ExtSources |-> [m \in KnownMetadata |-> Resolve(cs, s, m)]]]
CheckCatalogsExist == \E i \in DOMAIN world.catalogs : world.catalogs[i].selected

(* handleResolutionError: fall back only when something is installed, the   *)
(* spec asks for no other version and there is no catalog to wait for.      *)
AsksForAnother(source, installed) ==
  source.versions # AnyVersion /\ source.exact # installed.version
FallsBack(source, installed) ==
  installed # NothingInstalled /\ ~AsksForAnother(source, installed) /\ ~CheckCatalogsExist
handleResolutionError(st) ==
  LET reported == setInstalledStatusFromRevisionStates(st, rec.states) IN
  IF FallsBack(rec.ext.source, rec.states.installed)
  THEN rec' = [rec EXCEPT !.step = Following(@), !.status = reported, !.resolved = rec.states.installed,
                          !.hasCatalogData = FALSE, !.deprecation = NoDeprecation]
  ELSE Ends(ensureFailureConditionsWithReason(setStatusProgressing(reported, "Retrying"), "Retrying"),
            "Retrying")

ResolveBundle ==
  /\ InRec("resolve")
  /\ LET name == rec.states.installed.name
         answer == Answers[world.catalogs][rec.ext.source][rec.states.installed]
     IN  IF DOMAIN rec.states.rolling # {}
         THEN rec' = [rec EXCEPT !.step = Following(@), !.resolved = Oldest(rec.states.rolling).metadata,
                                 !.status = SetDeprecationStatus(@, name, NoDeprecation, FALSE)]
         ELSE IF ~answer.ok
         THEN handleResolutionError(SetDeprecationStatus(rec.status, name, NoDeprecation, FALSE))
         ELSE rec' = [rec EXCEPT !.step = Following(@), !.resolved = answer.metadata,
                                 !.hasCatalogData = TRUE, !.deprecation = answer.deprecation,
                                 !.status = SetDeprecationStatus(@, name, answer.deprecation, TRUE)]
  /\ unchangedWorld /\ UNCHANGED <<ext, extStatus, releases, objects, unpacked, wake, extFaults>>

(* UnpackBundle: from the cache, else from the registry, whose image then   *)
(* takes the place of the cached one. Without content an unchanged bundle   *)
(* goes on.                                                                 *)
UnpackBundle ==
  /\ InRec("unpack")
  /\ IF unpacked = rec.resolved.name \/ world.registry
     THEN /\ unpacked' = rec.resolved.name
          /\ rec' = [rec EXCEPT !.step = Following(@), !.content = TRUE]
     ELSE /\ UNCHANGED unpacked
          /\ IF rec.resolved = rec.states.installed
             THEN rec' = [rec EXCEPT !.step = Following(@), !.content = FALSE]
             ELSE Ends(setInstalledStatusFromRevisionStates(setStatusProgressing(rec.status, "Retrying"),
                                                            rec.states), "Retrying")
  /\ unchangedWorld /\ UNCHANGED <<ext, extStatus, releases, objects, wake, extFaults>>

-----------------------------------------------------------------------------
(* ApplyBundle with the Helm applier.                                       *)

NoReleases == releases = <<>>
LastRelease == IF NoReleases THEN [metadata |-> NothingInstalled, manifest |-> "none", state |-> "none"]
               ELSE releases[Len(releases)]
Applying(r) == runtime = r /\ InRec("apply")

(* Outcome of an apply: whether the rollout succeeded, and the error.       *)
Applied(succeeded, err) ==
  LET states == IF succeeded THEN [installed |-> rec.resolved, rolling |-> NoneRolling]
                ELSE IF err = "" /\ rec.states = NoStates
                THEN [installed |-> NothingInstalled, rolling |-> <<[metadata |-> rec.resolved, state |-> "new"]>>]
                ELSE rec.states
      st == setInstalledStatusFromRevisionStates(rec.status, states)
      refreshed == IF succeeded THEN SetDeprecationStatus(st, rec.resolved.name, rec.deprecation, rec.hasCatalogData)
                   ELSE st
  IN  Ends(setStatusProgressing(refreshed, err), err)

(* An error before anything is changed: the chart cannot be rendered from   *)
(* the configuration (terminal), the permissions are missing, a preflight   *)
(* or the dry run fails. A release left pending by a crash fails every dry  *)
(* run.                                                                     *)
ApplyRefused ==
  /\ Applying("helm")
  /\ \/ rec.content /\ rec.ext.source.config # "ok" /\ Applied(FALSE, rec.ext.source.config) /\ NoFault
     \/ /\ rec.content /\ rec.ext.source.config = "ok" /\ LastRelease.state = "pending"
        /\ Applied(FALSE, "Retrying") /\ NoFault
     \/ rec.ext.source.config = "ok" /\ Fault /\ Applied(FALSE, "Retrying")
     \/ ~rec.content /\ NoReleases /\ Applied(FALSE, "Retrying") /\ NoFault
  /\ unchangedWorld /\ UNCHANGED <<ext, extStatus, releases, objects, unpacked, wake>>

getReleaseState ==
  CASE NoReleases -> "NeedsInstall"
    [] ~NoReleases /\ \/ LastRelease.manifest # RenderedManifest(rec.resolved.name)
                      \/ LastRelease.state \in {"failed", "superseded"} -> "NeedsUpgrade"
    [] OTHER -> "Unchanged"

ReadyToApply ==
  /\ Applying("helm") /\ rec.content /\ rec.ext.source.config = "ok"
  /\ LastRelease.state # "pending"

(* Install or Upgrade records the release before it touches the cluster,    *)
(* and drops the oldest ones, never the newest deployed.                    *)
Trimmed(history) ==
  LET first == IF Len(history) < maxHelmReleaseHistory THEN 1
               ELSE Len(history) - maxHelmReleaseHistory + 2
      dropped == {i \in 1..(first - 1) : history[i].state = "deployed"
                                        /\ \A j \in i + 1..Len(history) : history[j].state # "deployed"}
      recent == SubSeq(history, first, Len(history))
  IN  IF getReleaseState = "NeedsInstall" THEN history
      ELSE IF dropped = {} THEN recent
      ELSE <<history[CHOOSE i \in dropped : TRUE]>> \o recent

HelmRecord ==
  /\ ReadyToApply /\ getReleaseState # "Unchanged"
  /\ releases' = Append(Trimmed(releases),
                        [metadata |-> rec.resolved, manifest |-> RenderedManifest(rec.resolved.name), state |-> "pending"])
  /\ Goto("helm")
  /\ unchangedWorld /\ UNCHANGED <<ext, extStatus, objects, unpacked, wake, extFaults>>

(* The release is applied and marked deployed, or fails half way; the       *)
(* failure is not rolled back. Then the objects are watched, which may fail *)
(* after the rollout has succeeded.                                         *)
Deployed == [i \in DOMAIN releases |->
               CASE i = Len(releases) -> [releases[i] EXCEPT !.state = "deployed"]
                 [] i < Len(releases) /\ releases[i].state = "deployed" ->
                      [releases[i] EXCEPT !.state = "superseded"]
                 [] OTHER -> releases[i]]
HelmApplied ==
  /\ InRec("helm")
  /\ \/ releases' = Deployed /\ objects' = LastRelease.manifest /\ Applied(TRUE, "") /\ NoFault
     \/ releases' = Deployed /\ objects' = LastRelease.manifest /\ Applied(TRUE, "Retrying") /\ Fault
     \/ /\ releases' = [releases EXCEPT ![Len(releases)].state = "failed"]
        /\ objects' = "partial" /\ Applied(FALSE, "Retrying") /\ Fault
  /\ unchangedWorld /\ UNCHANGED <<ext, extStatus, unpacked, wake>>

(* Reconcile the release that is there: the one found unchanged, or, when   *)
(* there is no content, the last one (reconcileExistingRelease).            *)
HelmReconcile ==
  /\ \/ ReadyToApply /\ getReleaseState = "Unchanged"
     \/ Applying("helm") /\ ~rec.content /\ ~NoReleases
  /\ objects' = LastRelease.manifest
  /\ \/ Applied(TRUE, "") /\ NoFault
     \/ rec.content /\ Applied(TRUE, "Retrying") /\ Fault
  /\ unchangedWorld /\ UNCHANGED <<ext, extStatus, releases, unpacked, wake>>

-----------------------------------------------------------------------------
(* ApplyBundleWithBoxcutter: the applier makes a new revision when the      *)
(* manifests differ from those of the last one, and the status mirrors the  *)
(* revision states read before.                                             *)

MirrorProgressing(st, state) ==
  CASE state = "new" -> st                  \* it has no conditions yet
    [] state \in {"RollingOut", "Retrying", "Succeeded"} -> SetStatusCondition(st, "Progressing", "True", state)
Mirrored(st) ==
  LET installed == rec.states.installed
      rolling == rec.states.rolling
      ofInstalled == IF installed = NothingInstalled THEN st
                     ELSE SetStatusCondition(MirrorProgressing(st, "Succeeded"), "Available", "True", "ProbesSucceeded")
      ofRolling == IF DOMAIN rolling = {} THEN ofInstalled ELSE MirrorProgressing(ofInstalled, Newest(rolling).state)
  IN  setInstalledStatusFromRevisionStates(
        [ofRolling EXCEPT !.active = {m.name : m \in ({installed} \ {NothingInstalled})
                                             \cup {rolling[i].metadata : i \in DOMAIN rolling}}], rec.states)

BoxcutterApply ==
  /\ Applying("boxcutter")
  /\ LET changed == LastRelease.manifest # RenderedManifest(rec.resolved.name) IN
     \/ /\ rec.content /\ rec.ext.source.config = "ok"
        /\ releases' = IF changed
                       THEN Append(releases, [metadata |-> rec.resolved, state |-> "new",
                                              manifest |-> RenderedManifest(rec.resolved.name)])
                       ELSE releases
        /\ wake' = (wake \/ changed)        \* the extension owns its revisions
        /\ Ends(Mirrored(rec.status), "") /\ NoFault
     \/ ~rec.content /\ ~NoReleases /\ Ends(Mirrored(rec.status), "") /\ NoFault /\ UNCHANGED <<releases, wake>>
     \/ /\ rec.content /\ rec.ext.source.config # "ok"
        /\ Ends(setStatusProgressing(rec.status, rec.ext.source.config), rec.ext.source.config)
        /\ NoFault /\ UNCHANGED <<releases, wake>>
     \/ /\ Fault /\ UNCHANGED <<releases, wake>>
        /\ Ends(setInstalledStatusFromRevisionStates(setStatusProgressing(rec.status, "Retrying"), rec.states),
                "Retrying")
  /\ unchangedWorld /\ UNCHANGED <<ext, extStatus, objects, unpacked>>

(* The ClusterObjectSet controller: a revision that is not archived rolls   *)
(* out, hits an error, or succeeds and has the older ones archived.         *)
RevisionProgresses(i) ==
  /\ runtime = "boxcutter" /\ i \in DOMAIN releases
  /\ releases[i].state \notin {"archived", "Succeeded"}
  /\ \/ releases[i].state = "new" /\ releases' = [releases EXCEPT ![i].state = "RollingOut"] /\ NoFault /\ UNCHANGED objects
     \/ releases[i].state = "RollingOut" /\ releases' = [releases EXCEPT ![i].state = "Retrying"] /\ Fault /\ UNCHANGED objects
     \/ /\ releases[i].state # "new" /\ NoFault
        /\ releases' = [j \in DOMAIN releases |->
                          CASE j = i -> [releases[j] EXCEPT !.state = "Succeeded"]
                            [] j < i -> [releases[j] EXCEPT !.state = "archived"]
                            [] OTHER -> releases[j]]
        /\ objects' = releases[i].manifest
  /\ wake' = TRUE
  /\ unchangedWorld /\ UNCHANGED <<ext, extStatus, unpacked, rec>>

-----------------------------------------------------------------------------
(* The end of Reconcile: the status is written if it changed, unless the    *)
(* extension changed since it was read; then the finalizers are patched,    *)
(* whatever the extension is now. An error is retried unless it is          *)
(* terminal; any write wakes the controller.                                *)

RequeuesTerminal(err) == IsTerminal(err)
Requeues(err) == err = "Retrying"
UpdateStatus ==
  /\ InRec("save")
  /\ LET changed == rec.status # extStatus
         conflict == changed /\ (rec.stale \/ ~ext.exists)
     IN  /\ extStatus' = IF conflict THEN extStatus ELSE rec.status
         /\ wake' = (wake \/ changed \/ Requeues(rec.err))
         /\ Goto("patch")
  /\ unchangedWorld /\ UNCHANGED <<ext, releases, objects, unpacked, extFaults>>

UpdateFinalizers ==
  /\ InRec("patch")
  /\ IF rec.finalizers = rec.ext.finalizers \/ ~ext.exists THEN UNCHANGED <<ext, wake>>
     ELSE /\ ext' = [ext EXCEPT !.finalizers = rec.finalizers,
                                !.exists = ~(ext.deleting /\ rec.finalizers = {})]
          /\ wake' = TRUE
  /\ rec' = Idle
  /\ unchangedWorld /\ UNCHANGED <<extStatus, releases, objects, unpacked, extFaults>>

-----------------------------------------------------------------------------
(* The environment. *)

Edit == extEdits < MaxExtEdits /\ extEdits' = extEdits + 1
Changed == rec' = [rec EXCEPT !.stale = rec # Idle]
ofController == <<runtime, extStatus, releases, objects, unpacked, extFaults>>

EditSpec(source) ==
  /\ Edit /\ ext.exists /\ ~ext.deleting /\ source # ext.source
  /\ ext' = [ext EXCEPT !.source = source, !.gen = @ + 1]
  /\ wake' = TRUE /\ Changed
  /\ UNCHANGED world /\ UNCHANGED ofController

DeleteExtension ==
  /\ Edit /\ ext.exists /\ ~ext.deleting
  /\ ext' = [ext EXCEPT !.deleting = TRUE, !.exists = ext.finalizers # {}]
  /\ wake' = TRUE /\ Changed
  /\ UNCHANGED world /\ UNCHANGED ofController

(* The predicate of the catalog watch, clusterExtensionRequestsForCatalog:  *)
(* creations, deletions and new contents reconcile every extension.         *)
ChangeCatalogs(catalogs) ==
  /\ Edit /\ catalogs # world.catalogs
  /\ world' = [world EXCEPT !.catalogs = catalogs]
  /\ wake' = TRUE
  /\ UNCHANGED <<ext, rec>> /\ UNCHANGED ofController

(* Nobody watches service accounts and registries. *)
ChangeWorld ==
  /\ Edit
  /\ \/ world' = [world EXCEPT !.registry = ~@]
     \/ world' = [world EXCEPT !.serviceAccount = ~@]
  /\ UNCHANGED <<ext, rec, wake>> /\ UNCHANGED ofController

(* The process dies and comes back: the caches are emptied, everything is   *)
(* reconciled again.                                                        *)
CrashExtension ==
  /\ Fault
  /\ rec' = Idle /\ unpacked' = "" /\ wake' = TRUE
  /\ UNCHANGED <<runtime, ext, extStatus, world, releases, objects, extEdits>>

ReconcileStep ==
  \/ ReadExtension \/ HandleFinalizers \/ ValidateClusterExtension \/ RetrieveRevisionStates
  \/ ResolveBundle \/ UnpackBundle \/ ApplyRefused \/ HelmRecord \/ HelmApplied \/ HelmReconcile
  \/ BoxcutterApply \/ UpdateStatus \/ UpdateFinalizers

ExtNext ==
  \/ ReconcileStep
  \/ \E i \in DOMAIN releases : RevisionProgresses(i)
  \/ \E s \in ExtSources : EditSpec(s)
  \/ \E cs \in CatalogLists : ChangeCatalogs(cs)
  \/ DeleteExtension \/ ChangeWorld \/ CrashExtension

(* The worker goes on, and so do the rollouts of revisions. *)
ExtFairness == WF_extVars(ReconcileStep) /\ WF_extVars(\E i \in DOMAIN releases : RevisionProgresses(i))

ExtSpec == ExtInit /\ [][ExtNext]_extVars /\ ExtFairness

-----------------------------------------------------------------------------
ExtTypeOK ==
  /\ runtime \in Runtimes
  /\ ext.gen \in 1..(MaxExtEdits + 1) /\ ext.source \in ExtSources
  /\ ext.finalizers \subseteq finalizerKeys
  /\ rec.step \in ToSet(ReconcileSteps) \cup {"idle", "helm", "save", "patch"}
  /\ Len(releases) <= MaxExtEdits + MaxExtFaults + 2
  /\ extEdits <= MaxExtEdits /\ extFaults <= MaxExtFaults

(* Once an extension is gone its unpacked bundle is gone from the disk: the *)
(* finalizer that deletes it is removed only in the pass that has run it,   *)
(* and no later step of that pass unpacks again.                            *)
NoUnpackedLeft == ~ext.exists => unpacked = ""

(* No step moves an extension along an edge the catalogs do not have: a      *)
(* release or revision that is put in motion is of the installed bundle, or  *)
(* of one that a catalog offers for this source, which beside its channels   *)
(* and versions makes it a successor of what is installed unless the source  *)
(* waives the constraint. Nor does one in motion give way to another.        *)
Edges == [s \in ExtSources |-> [m \in KnownMetadata |->
            UNION {UNION {{cs[i].fbc.bundles[k].name : k \in Candidates(cs[i].fbc, s, m)} :
                            i \in CatalogWalker(cs)} : cs \in CatalogLists}]]
Moves(rs) == Len(rs) > 0 /\ rs[Len(rs)].state \in {"pending", "new"}
UpgradeEdgesOnly ==
  [][ LET to == releases'[Len(releases')].metadata IN
      Moves(releases') /\ ~(Moves(releases) /\ releases[Len(releases)].metadata = to) =>
        to = Installed \/ to.name \in Edges[rec.ext.source][Installed] ]_extVars

(* "fall back to installed bundle to maintain current state"                *)
(* (clusterextension_reconcile_steps.go): when the status says, without an   *)
(* error, that a bundle is installed, its manifests are what the cluster     *)
(* runs.                                                                     *)
StatusTruthful ==
  (/\ rec = Idle /\ ~wake /\ ext.exists /\ ~ext.deleting
   /\ extStatus.conditions["Installed"].status = "True"
   /\ extStatus.conditions["Progressing"].reason = "Succeeded")
    => objects = RenderedManifest(extStatus.install.name)

(* An extension whose catalogs resolve to a bundle, once its cluster is in   *)
(* order and stays so, comes to report that bundle as installed for its      *)
(* present generation; a release that a crash left pending is excepted. And  *)
(* a deleted extension is gone in the end.                                   *)
Wanted == Answers[world.catalogs][ext.source][Installed]
Orderly ==
  /\ ext.exists /\ ~ext.deleting /\ world.serviceAccount /\ world.registry
  /\ ext.source.config = "ok" /\ Wanted.ok
  /\ ~(runtime = "helm" /\ LastRelease.state = "pending" /\ ~InRec("helm"))
Reported ==
  /\ extStatus.conditions["Installed"] = [status |-> "True", reason |-> "Succeeded", gen |-> ext.gen]
  /\ Wanted.ok /\ extStatus.install = Wanted.metadata
Settles ==
  /\ <>[]Orderly => <>[]Reported
  /\ [](ext.deleting => <>~ext.exists)
=============================================================================
