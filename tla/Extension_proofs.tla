--------------------------- MODULE Extension_proofs ---------------------------
(***************************************************************************)
(* Theorems about Extension and Resolution, for both runtimes and any      *)
(* sources, catalogs, releases, users' edits and faults: nothing unpacked  *)
(* is left behind, resolution answers with the best bundle, and releases   *)
(* and revisions move along the edges of the catalogs only.                *)
(***************************************************************************)
EXTENDS MCExtension, FiniteSetTheorems, SequenceTheorems, WellFoundedInduction, TLAPS

(* The steps a pass takes only for an extension that has both finalizers. *)
Guarded == {"validate", "states", "resolve", "unpack", "apply", "helm"}
Ending == {"save", "patch"}
Steps == {"idle", "finalizers"} \cup Guarded \cup Ending
unpackKey == "cleanup-unpack-cache"

(* What the proofs need of the form of the extension and of a pass. *)
ExtRecords == [gen : Nat, source : ExtSources, finalizers : SUBSET finalizerKeys,
               deleting : BOOLEAN, exists : BOOLEAN]
ExtForm == /\ ext \in ExtRecords
           /\ DOMAIN rec = DOMAIN Idle /\ rec = [f \in DOMAIN rec |-> rec[f]]
           /\ rec.step \in Steps

(* Only the end of a pass changes the finalizers, so that a pass knows them. *)
FinalizersRead ==
  /\ rec.step # "idle" => rec.ext.finalizers = ext.finalizers
  /\ rec.step = "finalizers" => rec.finalizers = rec.ext.finalizers
GuardedKept ==
  rec.step \in Guarded => rec.ext.finalizers = finalizerKeys /\ rec.finalizers = finalizerKeys

(* Without the finalizer there is nothing unpacked, neither now nor when a
   pass is about to remove it. *)
NoKeyNothing == unpackKey \notin ext.finalizers => unpacked = ""
RemovedNothing == rec.step \in Ending /\ unpackKey \notin rec.finalizers => unpacked = ""
KeysKnown == rec.step # "idle" => rec.finalizers \subseteq finalizerKeys
GoneKeyless == ~ext.exists => unpackKey \notin ext.finalizers

UnpackInv == /\ ExtForm /\ FinalizersRead /\ GuardedKept /\ NoKeyNothing /\ RemovedNothing
             /\ KeysKnown /\ GoneKeyless

(* The order of the steps. *)
LEMMA StepOrder ==
  /\ ReconcileSteps[1] = "finalizers"
  /\ Following("finalizers") = "validate" /\ Following("validate") = "states"
  /\ Following("states") = "resolve" /\ Following("resolve") = "unpack"
  /\ Following("unpack") = "apply"
PROOF
<1> DEFINE At(s) == CHOOSE i \in DOMAIN ReconcileSteps : ReconcileSteps[i] = s
<1>1. DOMAIN ReconcileSteps = 1..6 BY DEF ReconcileSteps
<1>2. /\ ReconcileSteps[1] = "finalizers" /\ ReconcileSteps[2] = "validate"
      /\ ReconcileSteps[3] = "states" /\ ReconcileSteps[4] = "resolve"
      /\ ReconcileSteps[5] = "unpack" /\ ReconcileSteps[6] = "apply"
  BY DEF ReconcileSteps
<1>3. ASSUME NEW n \in 1..5 PROVE At(ReconcileSteps[n]) = n
  <2>1. \A i \in 1..6 : ReconcileSteps[i] = ReconcileSteps[n] => i = n BY <1>2
  <2>2. n \in DOMAIN ReconcileSteps BY <1>1
  <2>3. At(ReconcileSteps[n]) \in DOMAIN ReconcileSteps
        /\ ReconcileSteps[At(ReconcileSteps[n])] = ReconcileSteps[n]
    BY <2>2
  <2> HIDE DEF At
  <2> QED BY <1>1, <2>1, <2>3
<1>4. At("finalizers") = 1 /\ At("validate") = 2 /\ At("states") = 3 /\ At("resolve") = 4
      /\ At("unpack") = 5
  <2> HIDE DEF At
  <2>1. 1 \in 1..5 /\ 2 \in 1..5 /\ 3 \in 1..5 /\ 4 \in 1..5 /\ 5 \in 1..5 OBVIOUS
  <2> QED BY <1>2, <1>3, <2>1
<1>5. \A s : Following(s) = ReconcileSteps[1 + At(s)] BY DEF Following
<1> HIDE DEF At
<1> QED BY <1>2, <1>4, <1>5

(* What the forms of a step do to the pass. *)
LEMMA IdleForm == /\ DOMAIN Idle = {"step", "ext", "status", "finalizers", "states", "resolved",
                                    "content", "deprecation", "hasCatalogData", "err", "stale"}
                  /\ Idle.step = "idle"
                  /\ Idle = [f \in DOMAIN Idle |-> Idle[f]]
PROOF BY DEF Idle

RecForm(r) == DOMAIN r = DOMAIN Idle /\ r = [f \in DOMAIN r |-> r[f]]

(* The pass goes to step t with the extension it read and its finalizers. *)
PassOn(t) == /\ RecForm(rec') /\ rec'.step = t
             /\ rec'.ext = rec.ext /\ rec'.finalizers = rec.finalizers

LEMMA StepForms ==
  ASSUME ExtForm
  PROVE  /\ \A t : Goto(t) => PassOn(t)
         /\ \A st, err : Ends(st, err) => PassOn("save")
         /\ \A t, a : rec' = [rec EXCEPT !.step = t, !.states = a] => PassOn(t)
         /\ \A t, a : rec' = [rec EXCEPT !.step = t, !.content = a] => PassOn(t)
         /\ \A t, a, b : rec' = [rec EXCEPT !.step = t, !.resolved = a, !.status = b] => PassOn(t)
         /\ \A t, a, b, c, d :
              \/ rec' = [rec EXCEPT !.step = t, !.status = a, !.resolved = b,
                                    !.hasCatalogData = c, !.deprecation = d]
              \/ rec' = [rec EXCEPT !.step = t, !.resolved = a, !.hasCatalogData = b,
                                    !.deprecation = c, !.status = d]
              => PassOn(t)
PROOF
<1>1. /\ DOMAIN rec = {"step", "ext", "status", "finalizers", "states", "resolved",
                       "content", "deprecation", "hasCatalogData", "err", "stale"}
      /\ DOMAIN rec = DOMAIN Idle /\ rec = [f \in DOMAIN rec |-> rec[f]]
  BY IdleForm DEF ExtForm
<1>2. ASSUME NEW t, Goto(t) PROVE PassOn(t) BY <1>1, <1>2 DEF Goto, PassOn, RecForm
<1>3. ASSUME NEW st, NEW err, Ends(st, err) PROVE PassOn("save")
  BY <1>1, <1>3 DEF Ends, PassOn, RecForm
<1>4. ASSUME NEW t, NEW a, rec' = [rec EXCEPT !.step = t, !.states = a] PROVE PassOn(t)
  BY <1>1, <1>4 DEF PassOn, RecForm
<1>5. ASSUME NEW t, NEW a, rec' = [rec EXCEPT !.step = t, !.content = a] PROVE PassOn(t)
  BY <1>1, <1>5 DEF PassOn, RecForm
<1>6. ASSUME NEW t, NEW a, NEW b, rec' = [rec EXCEPT !.step = t, !.resolved = a, !.status = b]
      PROVE  PassOn(t)
  BY <1>1, <1>6 DEF PassOn, RecForm
<1>7. ASSUME NEW t, NEW a, NEW b, NEW c, NEW d,
             rec' = [rec EXCEPT !.step = t, !.status = a, !.resolved = b,
                                !.hasCatalogData = c, !.deprecation = d]
      PROVE  PassOn(t)
  BY <1>1, <1>7 DEF PassOn, RecForm
<1>8. ASSUME NEW t, NEW a, NEW b, NEW c, NEW d,
             rec' = [rec EXCEPT !.step = t, !.resolved = a, !.hasCatalogData = b,
                                !.deprecation = c, !.status = d]
      PROVE  PassOn(t)
  BY <1>1, <1>8 DEF PassOn, RecForm
<1> QED BY <1>2, <1>3, <1>4, <1>5, <1>6, <1>7, <1>8

(* A step of the middle of a pass that leaves extension and unpack cache. *)
LEMMA QuietPass ==
  ASSUME UnpackInv, rec.step \in Guarded, UNCHANGED <<ext, unpacked>>,
         NEW t \in Guarded \cup {"save"}, PassOn(t)
  PROVE  UnpackInv'
PROOF
<1>1. ExtForm'
  BY DEF UnpackInv, ExtForm, PassOn, RecForm, Steps, Ending
<1>2. FinalizersRead' /\ GuardedKept' /\ KeysKnown' /\ RemovedNothing'
  <2>1. unpackKey \in finalizerKeys BY DEF unpackKey, finalizerKeys
  <2>2. rec.step # "idle" /\ t # "finalizers" BY DEF Guarded
  <2> QED BY <2>1, <2>2 DEF UnpackInv, FinalizersRead, GuardedKept, KeysKnown, RemovedNothing, PassOn
<1>3. NoKeyNothing' /\ GoneKeyless' BY DEF UnpackInv, NoKeyNothing, GoneKeyless
<1> QED BY <1>1, <1>2, <1>3 DEF UnpackInv

LEMMA UnpackInit == ExtInit => UnpackInv
PROOF
<1> SUFFICES ASSUME ExtInit PROVE UnpackInv OBVIOUS
<1>a. rec = Idle /\ unpacked = "" BY DEF ExtInit
<1>b. PICK s \in ExtSources : ext = [gen |-> 1, source |-> s, finalizers |-> {},
                                    deleting |-> FALSE, exists |-> TRUE]
  BY Zenon DEF ExtInit
<1>1. rec = Idle /\ rec.step = "idle" /\ unpacked = "" /\ ext.finalizers = {} /\ ext.exists
  BY <1>a, <1>b, IdleForm
<1>2. ExtForm
  <2>1. ext \in ExtRecords
    BY <1>b DEF ExtRecords
  <2> QED BY <1>1, <2>1, IdleForm DEF ExtForm, Steps
<1> QED BY <1>1, <1>2 DEF UnpackInv, FinalizersRead, GuardedKept, NoKeyNothing,
        RemovedNothing, KeysKnown, GoneKeyless, Guarded, Ending

(* The steps between the finalizers and the end of a pass. *)
LEMMA UnpackMiddle ==
  ASSUME UnpackInv, \/ ValidateClusterExtension \/ RetrieveRevisionStates \/ ResolveBundle
                    \/ ApplyRefused \/ HelmRecord \/ HelmApplied \/ HelmReconcile \/ BoxcutterApply
  PROVE  UnpackInv'
PROOF
<1>f. ExtForm BY DEF UnpackInv
<1>u. UNCHANGED <<ext, unpacked>>
  BY DEF ValidateClusterExtension, RetrieveRevisionStates, ResolveBundle, ApplyRefused,
         HelmRecord, HelmApplied, HelmReconcile, BoxcutterApply
<1>q. ASSUME rec.step \in Guarded, \E t \in Guarded \cup {"save"} : PassOn(t) PROVE UnpackInv'
  BY <1>q, <1>u, QuietPass
<1>e. ASSUME NEW st, NEW err, Ends(st, err) PROVE PassOn("save") BY <1>e, <1>f, StepForms
<1>a. ASSUME NEW b, NEW err, Applied(b, err) PROVE PassOn("save")
  BY <1>a, <1>e DEF Applied
<1>1. CASE ValidateClusterExtension
  <2>1. rec.step = "validate" BY <1>1 DEF ValidateClusterExtension, InRec
  <2>2. CASE world.serviceAccount
    <3>1. Goto("states") BY <1>1, <2>1, <2>2, StepOrder DEF ValidateClusterExtension
    <3>2. PassOn("states") BY <3>1, <1>f, StepForms
    <3> QED BY <2>1, <3>2, <1>q DEF Guarded
  <2>3. CASE ~world.serviceAccount
    <3>1. PassOn("save") BY <1>1, <2>3, <1>e DEF ValidateClusterExtension
    <3> QED BY <2>1, <3>1, <1>q DEF Guarded
  <2> QED BY <2>2, <2>3
<1>2. CASE RetrieveRevisionStates
  <2>1. rec.step = "states" BY <1>2 DEF RetrieveRevisionStates, InRec
  <2>2. CASE rec' = [rec EXCEPT !.step = Following(@), !.states = GetRevisionStates]
    <3>1. rec' = [rec EXCEPT !.step = "resolve", !.states = GetRevisionStates]
      BY <2>1, <2>2, StepOrder
    <3>2. PassOn("resolve") BY <3>1, <1>f, StepForms
    <3> QED BY <2>1, <3>2, <1>q DEF Guarded
  <2>3. CASE \E st, err : Ends(st, err)
    <3>1. PassOn("save") BY <2>3, <1>e
    <3> QED BY <2>1, <3>1, <1>q DEF Guarded
  <2> QED BY <1>2, <2>2, <2>3 DEF RetrieveRevisionStates
<1>3. CASE ResolveBundle
  <2>1. rec.step = "resolve" /\ Following(rec.step) = "unpack"
    BY <1>3, StepOrder DEF ResolveBundle, InRec
  <2> DEFINE name == rec.states.installed.name
             answer == Answers[world.catalogs][rec.ext.source][rec.states.installed]
             unknown == SetDeprecationStatus(rec.status, name, NoDeprecation, FALSE)
             known == SetDeprecationStatus(rec.status, name, answer.deprecation, TRUE)
             reported == setInstalledStatusFromRevisionStates(unknown, rec.states)
  <2>2. CASE DOMAIN rec.states.rolling # {}
    <3> DEFINE a == Oldest(rec.states.rolling).metadata
    <3>1. rec' = [rec EXCEPT !.step = Following(rec.step), !.resolved = a, !.status = unknown]
      BY <1>3, <2>2, Zenon DEF ResolveBundle
    <3>2. rec' = [rec EXCEPT !.step = "unpack", !.resolved = a, !.status = unknown]
      BY <2>1, <3>1, Zenon
    <3>3. PassOn("unpack")
      <4> HIDE DEF a, unknown
      <4> QED BY <3>2, <1>f, StepForms, Zenon
    <3> QED BY <2>1, <3>3, <1>q DEF Guarded
  <2>3. CASE DOMAIN rec.states.rolling = {} /\ answer.ok
    <3> DEFINE a == answer.metadata
               d == answer.deprecation
    <3>1. rec' = [rec EXCEPT !.step = Following(rec.step), !.resolved = a,
                    !.hasCatalogData = TRUE, !.deprecation = d, !.status = known]
      BY <1>3, <2>3, Zenon DEF ResolveBundle
    <3>2. rec' = [rec EXCEPT !.step = "unpack", !.resolved = a,
                    !.hasCatalogData = TRUE, !.deprecation = d, !.status = known]
      BY <2>1, <3>1, Zenon
    <3>3. PassOn("unpack")
      <4> HIDE DEF a, d, known
      <4> QED BY <3>2, <1>f, StepForms, Zenon
    <3> QED BY <2>1, <3>3, <1>q DEF Guarded
  <2>4. CASE DOMAIN rec.states.rolling = {} /\ ~answer.ok
    <3>1. handleResolutionError(unknown) BY <1>3, <2>4, Zenon DEF ResolveBundle
    <3>2. CASE FallsBack(rec.ext.source, rec.states.installed)
      <4>1. rec' = [rec EXCEPT !.step = Following(rec.step), !.status = reported,
                      !.resolved = rec.states.installed, !.hasCatalogData = FALSE,
                      !.deprecation = NoDeprecation]
        BY <3>1, <3>2, Zenon DEF handleResolutionError
      <4>2. rec' = [rec EXCEPT !.step = "unpack", !.status = reported,
                      !.resolved = rec.states.installed, !.hasCatalogData = FALSE,
                      !.deprecation = NoDeprecation]
        BY <2>1, <4>1, Zenon
      <4>3. PassOn("unpack")
        <5> HIDE DEF reported
        <5> QED BY <4>2, <1>f, StepForms, Zenon
      <4> QED BY <2>1, <4>3, <1>q DEF Guarded
    <3>3. CASE ~FallsBack(rec.ext.source, rec.states.installed)
      <4>1. \E st, err : Ends(st, err) BY <3>1, <3>3, Zenon DEF handleResolutionError
      <4>2. PassOn("save") BY <4>1, <1>e
      <4> QED BY <2>1, <4>2, <1>q DEF Guarded
    <3> QED BY <3>2, <3>3
  <2> QED BY <2>2, <2>3, <2>4, Zenon
<1>4. CASE ApplyRefused \/ HelmReconcile
  <2>1. rec.step = "apply" BY <1>4 DEF ApplyRefused, HelmReconcile, ReadyToApply, Applying, InRec
  <2>2. PassOn("save") BY <1>4, <1>a DEF ApplyRefused, HelmReconcile
  <2> QED BY <2>1, <2>2, <1>q DEF Guarded
<1>5. CASE HelmRecord
  <2>1. rec.step = "apply" /\ Goto("helm") BY <1>5 DEF HelmRecord, ReadyToApply, Applying, InRec
  <2>2. PassOn("helm") BY <2>1, <1>f, StepForms
  <2> QED BY <2>1, <2>2, <1>q DEF Guarded
<1>6. CASE HelmApplied
  <2>1. rec.step = "helm" BY <1>6 DEF HelmApplied, InRec
  <2>2. PassOn("save") BY <1>6, <1>a DEF HelmApplied
  <2> QED BY <2>1, <2>2, <1>q DEF Guarded
<1>7. CASE BoxcutterApply
  <2>1. rec.step = "apply" BY <1>7 DEF BoxcutterApply, Applying, InRec
  <2>2. PassOn("save") BY <1>7, <1>e DEF BoxcutterApply
  <2> QED BY <2>1, <2>2, <1>q DEF Guarded
<1> QED BY <1>1, <1>2, <1>3, <1>4, <1>5, <1>6, <1>7

(* Unpacking happens under both finalizers. *)
LEMMA UnpackUnpack ==
  ASSUME UnpackInv, UnpackBundle
  PROVE  UnpackInv'
PROOF
<1>f. ExtForm BY DEF UnpackInv
<1>1. rec.step = "unpack" /\ Following(rec.step) = "apply" /\ UNCHANGED ext
  BY StepOrder DEF UnpackBundle, InRec
<1>2. \E t \in {"apply", "save"} : PassOn(t)
  <2>1. ASSUME NEW a, rec' = [rec EXCEPT !.step = Following(@), !.content = a]
        PROVE  PassOn("apply")
    <3>1. rec' = [rec EXCEPT !.step = "apply", !.content = a] BY <1>1, <2>1
    <3> QED BY <3>1, <1>f, StepForms
  <2>2. ASSUME NEW st, NEW err, Ends(st, err) PROVE PassOn("save") BY <2>2, <1>f, StepForms
  <2> QED BY <2>1, <2>2 DEF UnpackBundle
<1>3. rec.ext.finalizers = finalizerKeys /\ rec.finalizers = finalizerKeys
      /\ ext.finalizers = finalizerKeys /\ unpackKey \in finalizerKeys
  BY <1>1 DEF UnpackInv, GuardedKept, FinalizersRead, Guarded, unpackKey, finalizerKeys
<1>4. ExtForm' BY <1>1, <1>2 DEF UnpackInv, ExtForm, PassOn, RecForm, Steps, Ending, Guarded
<1>5. FinalizersRead' /\ GuardedKept' /\ KeysKnown' /\ RemovedNothing' /\ NoKeyNothing'
  BY <1>1, <1>2, <1>3 DEF FinalizersRead, GuardedKept, KeysKnown, RemovedNothing, PassOn,
     NoKeyNothing
<1>6. GoneKeyless' BY <1>1 DEF UnpackInv, GoneKeyless
<1> QED BY <1>4, <1>5, <1>6 DEF UnpackInv

(* The finalizer of the unpack cache is given up only once the cache is
   empty, also when the other finalizer fails. *)
LEMMA UnpackFinalizers ==
  ASSUME UnpackInv, HandleFinalizers
  PROVE  UnpackInv'
PROOF
<1>f. ExtForm BY DEF UnpackInv
<1>k. finalizerKeys = {unpackKey, "cleanup-contentmanager-cache"} BY DEF finalizerKeys, unpackKey
<1>d. /\ DOMAIN rec = {"step", "ext", "status", "finalizers", "states", "resolved",
                       "content", "deprecation", "hasCatalogData", "err", "stale"}
      /\ DOMAIN rec = DOMAIN Idle /\ rec = [f \in DOMAIN rec |-> rec[f]]
  BY <1>f, IdleForm DEF ExtForm
<1>1. /\ rec.step = "finalizers" /\ UNCHANGED ext /\ rec.ext.finalizers = ext.finalizers
      /\ ext.finalizers \subseteq finalizerKeys
      /\ rec.finalizers \subseteq finalizerKeys
  BY <1>f DEF HandleFinalizers, InRec, UnpackInv, FinalizersRead, ExtForm, ExtRecords, KeysKnown
<1>2. NoKeyNothing
  BY DEF UnpackInv
<1>g. GoneKeyless' BY <1>1 DEF UnpackInv, GoneKeyless
<1>3. CASE /\ rec.ext.finalizers = finalizerKeys /\ UNCHANGED unpacked
           /\ rec' = [rec EXCEPT !.step = Following(@)]
  <2>1. Goto("validate") BY <1>1, <1>3, StepOrder DEF Goto
  <2>2. PassOn("validate") BY <2>1, <1>f, StepForms
  <2>3. rec.finalizers = finalizerKeys BY <1>1, <1>3 DEF UnpackInv, FinalizersRead
  <2>4. ExtForm' BY <1>1, <1>f, <2>2 DEF ExtForm, PassOn, RecForm, Steps, Guarded
  <2>5. FinalizersRead' /\ GuardedKept' /\ KeysKnown' /\ RemovedNothing' /\ NoKeyNothing'
    BY <1>1, <1>2, <1>3, <2>2, <2>3 DEF FinalizersRead, GuardedKept, KeysKnown, RemovedNothing,
       NoKeyNothing, PassOn, Ending
  <2> QED BY <1>g, <2>4, <2>5 DEF UnpackInv
<1>s. ASSUME NEW keys \in SUBSET finalizerKeys,
             RecForm(rec'), rec'.step = "save", rec'.ext = rec.ext, rec'.finalizers = keys,
             unpackKey \notin keys \/ unpackKey \notin ext.finalizers => unpacked' = ""
      PROVE  UnpackInv'
  <2>1. ExtForm' BY <1>1, <1>f, <1>s DEF ExtForm, RecForm, Steps, Ending
  <2>2. FinalizersRead' /\ GuardedKept' /\ KeysKnown' /\ RemovedNothing' /\ NoKeyNothing'
    BY <1>1, <1>s DEF FinalizersRead, GuardedKept, KeysKnown, RemovedNothing, NoKeyNothing,
       Guarded
  <2> QED BY <1>g, <2>1, <2>2 DEF UnpackInv
<1>4. CASE /\ UNCHANGED unpacked
           /\ rec' = [rec EXCEPT !.step = "save", !.finalizers = finalizerKeys]
  <2>1. /\ RecForm(rec') /\ rec'.step = "save" /\ rec'.ext = rec.ext
        /\ rec'.finalizers = finalizerKeys
    BY <1>d, <1>4 DEF RecForm
  <2>2. finalizerKeys \in SUBSET finalizerKeys /\ unpackKey \in finalizerKeys BY <1>k
  <2> QED BY <1>2, <1>4, <1>s, <2>1, <2>2 DEF NoKeyNothing
<1>5. CASE /\ rec' = [rec EXCEPT !.step = "save", !.finalizers = {}]
           /\ unpacked' = IF unpackKey \in rec.ext.finalizers THEN "" ELSE unpacked
  <2>1. /\ RecForm(rec') /\ rec'.step = "save" /\ rec'.ext = rec.ext
        /\ rec'.finalizers = {}
    BY <1>d, <1>5 DEF RecForm
  <2>2. unpacked' = "" BY <1>1, <1>2, <1>5 DEF NoKeyNothing
  <2>3. {} \in SUBSET finalizerKeys OBVIOUS
  <2> QED BY <1>s, <2>1, <2>2, <2>3
<1>6. ASSUME NEW failed \in rec.ext.finalizers, NEW st,
             rec' = [rec EXCEPT !.step = "save", !.finalizers = Keeps(failed), !.err = "Retrying",
                                !.status = st],
             unpacked' = IF rec.ext.finalizers \ {failed} = {unpackKey} THEN "" ELSE unpacked
      PROVE  UnpackInv'
  <2>1. /\ RecForm(rec') /\ rec'.step = "save" /\ rec'.ext = rec.ext
        /\ rec'.finalizers = {failed}
    BY <1>d, <1>6 DEF RecForm, Keeps
  <2>2. {failed} \in SUBSET finalizerKeys BY <1>1, <1>6
  <2>3. unpackKey \notin {failed} \/ unpackKey \notin ext.finalizers => unpacked' = ""
    <3>1. CASE unpackKey \notin ext.finalizers BY <3>1, <1>2, <1>6 DEF NoKeyNothing
    <3>2. CASE unpackKey \in ext.finalizers /\ failed # unpackKey
      <4>1. rec.ext.finalizers \ {failed} = {unpackKey} BY <3>2, <1>1, <1>6, <1>k
      <4> QED BY <4>1, <1>6
    <3> QED BY <3>1, <3>2
  <2> QED BY <1>s, <2>1, <2>2, <2>3
<1>7. \/ /\ rec.ext.finalizers = finalizerKeys /\ UNCHANGED unpacked
         /\ rec' = [rec EXCEPT !.step = Following(@)]
      \/ /\ UNCHANGED unpacked
         /\ rec' = [rec EXCEPT !.step = "save", !.finalizers = finalizerKeys]
      \/ /\ rec' = [rec EXCEPT !.step = "save", !.finalizers = {}]
         /\ unpacked' = IF unpackKey \in rec.ext.finalizers THEN "" ELSE unpacked
      \/ \E failed \in rec.ext.finalizers : \E st :
           /\ rec' = [rec EXCEPT !.step = "save", !.finalizers = Keeps(failed), !.err = "Retrying",
                                  !.status = st]
           /\ unpacked' = IF rec.ext.finalizers \ {failed} = {unpackKey} THEN "" ELSE unpacked
  BY DEF HandleFinalizers, unpackKey
<1> QED BY <1>3, <1>4, <1>5, <1>6, <1>7

(* The ends of a pass: its beginning, the status, the finalizers. *)
LEMMA UnpackEnds ==
  ASSUME UnpackInv, ReadExtension \/ UpdateStatus \/ UpdateFinalizers
  PROVE  UnpackInv'
PROOF
<1>f. ExtForm BY DEF UnpackInv
<1>0. UNCHANGED unpacked BY DEF ReadExtension, UpdateStatus, UpdateFinalizers
<1>i. ASSUME rec' = Idle, ExtForm', NoKeyNothing', GoneKeyless' PROVE UnpackInv'
  BY <1>i, IdleForm DEF UnpackInv, FinalizersRead, GuardedKept, RemovedNothing, KeysKnown,
     Guarded, Ending
<1>1. CASE ReadExtension
  <2>1. UNCHANGED ext BY <1>1 DEF ReadExtension
  <2>2. NoKeyNothing' /\ GoneKeyless' BY <1>0, <2>1 DEF UnpackInv, NoKeyNothing, GoneKeyless
  <2>3. CASE rec' = Idle
    <3>1. ExtForm' BY <1>f, <2>1, <2>3, IdleForm DEF ExtForm, Steps
    <3> QED BY <1>i, <2>2, <2>3, <3>1
  <2>4. CASE rec' = [Idle EXCEPT !.step = ReconcileSteps[1], !.ext = ext, !.status = extStatus,
                                 !.finalizers = ext.finalizers]
    <3>1. /\ DOMAIN rec' = DOMAIN Idle /\ rec' = [f \in DOMAIN rec' |-> rec'[f]]
          /\ rec'.step = "finalizers" /\ rec'.ext = ext /\ rec'.finalizers = ext.finalizers
      BY <2>4, IdleForm, StepOrder
    <3>2. ExtForm' BY <1>f, <2>1, <3>1 DEF ExtForm, Steps
    <3>3. ext.finalizers \subseteq finalizerKeys BY <1>f DEF ExtForm, ExtRecords
    <3>4. FinalizersRead' /\ GuardedKept' /\ RemovedNothing' /\ KeysKnown'
      BY <2>1, <3>1, <3>3 DEF FinalizersRead, GuardedKept, RemovedNothing, KeysKnown, Guarded, Ending
    <3> QED BY <2>2, <3>2, <3>4 DEF UnpackInv
  <2> QED BY <1>1, <2>3, <2>4 DEF ReadExtension
<1>2. CASE UpdateStatus
  <2>1. rec.step = "save" /\ UNCHANGED ext /\ Goto("patch") BY <1>2 DEF UpdateStatus, InRec
  <2>2. PassOn("patch") BY <1>f, <2>1, StepForms
  <2>3. ExtForm' BY <1>f, <2>1, <2>2 DEF ExtForm, PassOn, RecForm, Steps, Ending
  <2>4. FinalizersRead' /\ GuardedKept' /\ RemovedNothing' /\ KeysKnown'
    BY <1>0, <2>1, <2>2 DEF UnpackInv, FinalizersRead, GuardedKept, RemovedNothing, KeysKnown,
       PassOn, Guarded, Ending
  <2>5. NoKeyNothing' /\ GoneKeyless' BY <1>0, <2>1 DEF UnpackInv, NoKeyNothing, GoneKeyless
  <2> QED BY <2>3, <2>4, <2>5 DEF UnpackInv
<1>3. CASE UpdateFinalizers
  <2>1. rec.step = "patch" /\ rec' = Idle BY <1>3 DEF UpdateFinalizers, InRec
  <2>2. CASE UNCHANGED ext
    <3>1. NoKeyNothing' /\ GoneKeyless' BY <1>0, <2>2 DEF UnpackInv, NoKeyNothing, GoneKeyless
    <3>2. ExtForm' BY <1>f, <2>1, <2>2, IdleForm DEF ExtForm, Steps
    <3> QED BY <1>i, <2>1, <3>1, <3>2
  <2>3. CASE ext' = [ext EXCEPT !.finalizers = rec.finalizers,
                                !.exists = ~(ext.deleting /\ rec.finalizers = {})]
    <3>1. rec.finalizers \in SUBSET finalizerKeys BY <2>1 DEF UnpackInv, KeysKnown
    <3>2. /\ ext' \in ExtRecords
          /\ ext'.finalizers = rec.finalizers
          /\ ext'.exists = ~(ext.deleting /\ rec.finalizers = {})
      BY <1>f, <2>3, <3>1 DEF ExtForm, ExtRecords
    <3>3. NoKeyNothing' BY <1>0, <2>1, <3>2 DEF UnpackInv, RemovedNothing, NoKeyNothing, Ending
    <3>4. GoneKeyless' BY <3>2 DEF GoneKeyless
    <3>5. ExtForm' BY <2>1, <3>2, IdleForm DEF ExtForm, Steps
    <3> QED BY <1>i, <2>1, <3>3, <3>4, <3>5
  <2> QED BY <1>3, <2>2, <2>3 DEF UpdateFinalizers
<1> QED BY <1>1, <1>2, <1>3

(* Users, the world, rollouts and crashes. *)
LEMMA UnpackOthers ==
  ASSUME UnpackInv, \/ \E i \in DOMAIN releases : RevisionProgresses(i)
                    \/ \E s \in ExtSources : EditSpec(s)
                    \/ \E cs \in CatalogLists : ChangeCatalogs(cs)
                    \/ DeleteExtension \/ ChangeWorld \/ CrashExtension
  PROVE  UnpackInv'
PROOF
<1>f. ExtForm BY DEF UnpackInv
<1>d. /\ DOMAIN rec = {"step", "ext", "status", "finalizers", "states", "resolved",
                       "content", "deprecation", "hasCatalogData", "err", "stale"}
      /\ DOMAIN rec = DOMAIN Idle /\ rec = [f \in DOMAIN rec |-> rec[f]]
  BY <1>f, IdleForm DEF ExtForm
<1>1. CASE UNCHANGED <<ext, rec, unpacked>>
  BY <1>1 DEF UnpackInv, ExtForm, FinalizersRead, GuardedKept, NoKeyNothing, RemovedNothing,
     KeysKnown, GoneKeyless
<1>2. ASSUME Changed, UNCHANGED unpacked, ext' \in ExtRecords, ext'.finalizers = ext.finalizers,
             ext'.exists = ext.exists \/ ext.finalizers = {}
      PROVE  UnpackInv'
  <2>1. /\ RecForm(rec') /\ rec'.step = rec.step /\ rec'.ext = rec.ext
        /\ rec'.finalizers = rec.finalizers
    BY <1>2, <1>d DEF Changed, RecForm
  <2>2. ExtForm' BY <1>2, <1>f, <2>1 DEF ExtForm, RecForm
  <2>3. FinalizersRead' /\ GuardedKept' /\ NoKeyNothing' /\ RemovedNothing' /\ KeysKnown'
    BY <1>2, <2>1 DEF UnpackInv, FinalizersRead, GuardedKept, NoKeyNothing, RemovedNothing, KeysKnown
  <2>4. GoneKeyless' BY <1>2 DEF UnpackInv, GoneKeyless
  <2> QED BY <2>2, <2>3, <2>4 DEF UnpackInv
<1>3. ASSUME NEW s \in ExtSources, EditSpec(s) PROVE UnpackInv'
  <2>1. /\ Changed /\ UNCHANGED unpacked
        /\ ext' = [ext EXCEPT !.source = s, !.gen = @ + 1]
    BY <1>3 DEF EditSpec, ofController
  <2>2. ext.gen + 1 \in Nat BY <1>f DEF ExtForm, ExtRecords
  <2>3. /\ ext' \in ExtRecords
        /\ ext'.finalizers = ext.finalizers /\ ext'.exists = ext.exists
    BY <1>f, <2>1, <2>2 DEF ExtForm, ExtRecords
  <2> QED BY <1>2, <2>1, <2>3
<1>4. CASE DeleteExtension
  <2>1. /\ Changed /\ UNCHANGED unpacked
        /\ ext' = [ext EXCEPT !.deleting = TRUE, !.exists = ext.finalizers # {}]
        /\ ext.exists
    BY <1>4 DEF DeleteExtension, ofController
  <2>2. /\ ext' \in ExtRecords
        /\ ext'.finalizers = ext.finalizers
        /\ ext'.exists = (ext.finalizers # {})
    BY <1>f, <2>1 DEF ExtForm, ExtRecords
  <2>3. ext'.exists = ext.exists \/ ext.finalizers = {}
    BY <1>f, <2>1, <2>2 DEF ExtForm, ExtRecords
  <2> QED BY <1>2, <2>1, <2>2, <2>3
<1>5. CASE CrashExtension
  <2>1. UNCHANGED ext /\ rec' = Idle /\ unpacked' = "" BY <1>5 DEF CrashExtension
  <2>2. ExtForm' BY <1>f, <2>1, IdleForm DEF ExtForm, Steps
  <2> QED BY <2>1, <2>2, IdleForm DEF UnpackInv, FinalizersRead, GuardedKept, NoKeyNothing,
          RemovedNothing, KeysKnown, GoneKeyless, Guarded, Ending
<1>6. ASSUME NEW i \in DOMAIN releases, RevisionProgresses(i) PROVE UnpackInv'
  BY <1>6, <1>1 DEF RevisionProgresses
<1>7. ASSUME NEW cs \in CatalogLists, ChangeCatalogs(cs) PROVE UnpackInv'
  BY <1>7, <1>1 DEF ChangeCatalogs, ofController
<1>8. CASE ChangeWorld BY <1>8, <1>1 DEF ChangeWorld, ofController
<1> QED BY <1>3, <1>4, <1>5, <1>6, <1>7, <1>8

LEMMA UnpackStep == UnpackInv /\ [ExtNext]_extVars => UnpackInv'
PROOF
<1> SUFFICES ASSUME UnpackInv, [ExtNext]_extVars PROVE UnpackInv' OBVIOUS
<1>1. CASE UNCHANGED extVars
  BY <1>1 DEF extVars, UnpackInv, ExtForm, FinalizersRead, GuardedKept, NoKeyNothing,
     RemovedNothing, KeysKnown, GoneKeyless
<1>2. CASE ReconcileStep
  BY <1>2, UnpackMiddle, UnpackUnpack, UnpackFinalizers, UnpackEnds DEF ReconcileStep
<1>3. CASE ExtNext /\ ~ReconcileStep BY <1>3, UnpackOthers DEF ExtNext
<1> QED BY <1>1, <1>2, <1>3

(* Once an extension is gone nothing of it is left in the unpack cache,
   although users delete it between any two steps of a pass that works from
   an earlier copy, finalizers fail one by one and the process crashes. *)
THEOREM NothingUnpackedLeft == ExtSpec => []NoUnpackedLeft
PROOF
<1>1. UnpackInv => NoUnpackedLeft
  BY DEF UnpackInv, GoneKeyless, NoKeyNothing, NoUnpackedLeft
<1> QED BY <1>1, UnpackInit, UnpackStep, PTL DEF ExtSpec

-----------------------------------------------------------------------------
(* Resolution: what the walk over the catalogs answers. *)

(* A non-empty set of naturals has a least element. *)
LEMMA LeastNat ==
  ASSUME NEW T \in SUBSET Nat, T # {}
  PROVE  \E x \in T : \A y \in T : x <= y
PROOF
<1> DEFINE R == OpToRel(<, Nat)
<1>1. IsWellFoundedOn(R, Nat) BY NatLessThanWellFounded
<1>2. PICK x \in T : \A y \in T : ~(<<y, x>> \in R)
  <2> HIDE DEF R
  <2> QED BY <1>1, WFMin
<1>3. \A y \in T : ~(y < x) BY <1>2 DEF OpToRel
<1> QED BY <1>3

-----------------------------------------------------------------------------
(* The order of bundles. *)

(* A bundle's version is parsed to one. *)
LEMMA VersionTyped ==
  ASSUME NEW b, b.prop \in Properties
  PROVE  GetVersionAndRelease(b) \in Properties
PROOF BY DEF Properties, GetVersionAndRelease, parseVersionRelease, ParseExplicitRelease,
             ParseLegacyVersionRelease, Absent

(* What comes before b comes before everything that does not come before b. *)
LEMMA NewerOrder ==
  ASSUME NEW a \in Properties, NEW b \in Properties, NEW c \in Properties,
         Newer(a, b), ~Newer(c, b)
  PROVE  Newer(a, c)
PROOF
<1>1. /\ a.version \in Int /\ b.version \in Int /\ c.version \in Int
      /\ ReleaseRank(a) \in Int /\ ReleaseRank(b) \in Int /\ ReleaseRank(c) \in Int
  BY DEF Properties, ReleaseRank
<1> QED BY <1>1 DEF Newer

(* Bundles without a version come last. *)
LEMMA VersionOrder ==
  ASSUME NEW a, NEW b, NEW c, a.prop \in Properties, b.prop \in Properties, c.prop \in Properties,
         ByVersionAndRelease(a, b), ~ByVersionAndRelease(c, b)
  PROVE  ByVersionAndRelease(a, c)
PROOF BY VersionTyped, NewerOrder DEF ByVersionAndRelease

(* Deprecated bundles come last: the order of a stable sort. *)
LEMMA BundleOrder ==
  ASSUME NEW a, NEW b, NEW c, a.prop \in Properties, b.prop \in Properties, c.prop \in Properties,
         NEW dep, ByDeprecation(dep, a, b), ~ByDeprecation(dep, c, b)
  PROVE  ByDeprecation(dep, a, c)
PROOF
<1> DEFINE D(x) == isDeprecated(x, dep)
<1>1. D(a) \in BOOLEAN /\ D(b) \in BOOLEAN /\ D(c) \in BOOLEAN BY DEF isDeprecated
<1>2. /\ \/ ~D(a) /\ D(b)
         \/ (D(a) <=> D(b)) /\ ByVersionAndRelease(a, b)
      /\ ~(~D(c) /\ D(b))
      /\ ~((D(c) <=> D(b)) /\ ByVersionAndRelease(c, b))
  BY <1>1 DEF ByDeprecation
<1>3. \/ ~D(a) /\ D(c)
      \/ (D(a) <=> D(c)) /\ ByVersionAndRelease(a, c)
  <2> HIDE DEF D
  <2> QED BY <1>2, VersionOrder
<1>4. (D(a) <=> D(c)) => D(a) = D(c) BY <1>1
<1> QED BY <1>3, <1>4 DEF ByDeprecation

(* Of two bundles at most one comes before the other. *)
LEMMA BundleAsymmetric ==
  ASSUME NEW a, NEW b, a.prop \in Properties, b.prop \in Properties, NEW dep, ByDeprecation(dep, a, b)
  PROVE  ~ByDeprecation(dep, b, a)
PROOF
<1> DEFINE D(x) == isDeprecated(x, dep)
<1>1. D(a) \in BOOLEAN /\ D(b) \in BOOLEAN BY DEF isDeprecated
<1>2. ByVersionAndRelease(a, b) => ~ByVersionAndRelease(b, a)
  <2> DEFINE v == GetVersionAndRelease(a)
             w == GetVersionAndRelease(b)
  <2>1. v \in Properties /\ w \in Properties BY VersionTyped
  <2> HIDE DEF v, w
  <2>2. v.version \in Int /\ w.version \in Int /\ ReleaseRank(v) \in Int /\ ReleaseRank(w) \in Int
    BY <2>1 DEF Properties, ReleaseRank
  <2>3. Newer(v, w) => ~Newer(w, v) BY <2>2 DEF Newer
  <2> QED BY <2>3 DEF ByVersionAndRelease, v, w
<1> HIDE DEF D
<1> QED BY <1>1, <1>2 DEF ByDeprecation, D

(* A package with candidates has a best one: the first that nothing precedes. *)
LEMMA BestExists ==
  ASSUME NEW fbc, IsList(fbc.bundles), \A k \in DOMAIN fbc.bundles : fbc.bundles[k].prop \in Properties,
         NEW places \in SUBSET DOMAIN fbc.bundles, places # {}
  PROVE  \E i \in places : IsBest(fbc, places, i)
PROOF
<1> DEFINE n == Len(fbc.bundles)
           Upto(k) == places \cap 1..k
           Bad == {k \in 0..n : Upto(k) # {} /\ ~\E i \in Upto(k) : IsBest(fbc, Upto(k), i)}
<1>1. n \in Nat /\ places \in SUBSET (1..n) BY DEF IsList
<1>2. Bad = {}
  <2> SUFFICES ASSUME Bad # {} PROVE FALSE OBVIOUS
  <2>1. Bad \in SUBSET Nat BY <1>1
  <2>2. PICK m \in Bad : \A k \in Bad : m <= k
    <3> HIDE DEF Bad
    <3> QED BY <2>1, LeastNat
  <2>3. /\ m \in 0..n /\ Upto(m) # {} /\ ~\E i \in Upto(m) : IsBest(fbc, Upto(m), i)
        /\ m - 1 \notin Bad
    <3>1. m \in 0..n /\ Upto(m) # {} /\ ~\E i \in Upto(m) : IsBest(fbc, Upto(m), i)
      <4> HIDE DEF Upto
      <4> QED BY <2>2 DEF Bad
    <3>2. ~(m <= m - 1) BY <3>1, <1>1
    <3> HIDE DEF Bad
    <3> QED BY <2>2, <3>1, <3>2
  <2>4. m # 0 /\ m - 1 \in 0..n BY <1>1, <2>3
  <2>5. Upto(m) = IF m \in places THEN Upto(m - 1) \cup {m} ELSE Upto(m - 1)
    BY <1>1, <2>3, <2>4
  <2>6. \A j \in Upto(m - 1) : j < m /\ j \in places /\ j \in Nat BY <1>1, <2>4
  <2>7. \A j \in places : fbc.bundles[j].prop \in Properties OBVIOUS
  <2>8. m \in places
    <3> SUFFICES ASSUME m \notin places PROVE FALSE OBVIOUS
    <3>1. Upto(m) = Upto(m - 1) BY <2>5
    <3> HIDE DEF Upto
    <3> QED BY <2>3, <2>4, <3>1 DEF Bad
  <2> DEFINE Before(a, b) == ByDeprecation(Deprecation(fbc), fbc.bundles[a], fbc.bundles[b])
             prev == Upto(m - 1)
  <2>9. /\ \A S, i : IsBest(fbc, S, i) <=> \A j \in S : ~Before(j, i) /\ (j < i => Before(i, j))
    BY DEF IsBest
  <2>10. ~Before(m, m) BY <2>7, <2>8, BundleAsymmetric
  <2>11. Upto(m) = prev \cup {m} BY <2>5, <2>8
  <2>12. CASE prev = {}
    <3>1. m \in Upto(m) /\ \A j \in Upto(m) : j = m BY <2>11, <2>12
    <3>2. ~(m < m) BY <2>3, <1>1
    <3>3. \A j \in Upto(m) : ~Before(j, m) /\ (j < m => Before(m, j)) BY <3>1, <3>2, <2>10
    <3> HIDE DEF Upto, Before
    <3> QED BY <2>3, <2>9, <3>1, <3>3
  <2>13. CASE prev # {}
    <3>1. PICK i \in prev : IsBest(fbc, prev, i)
      <4> HIDE DEF Upto
      <4> QED BY <2>3, <2>4, <2>13 DEF Bad
    <3>2. i < m /\ i \in places /\ m \in places /\ ~(m < i)
      <4>1. i \in Nat /\ m \in Nat /\ i < m BY <2>3, <2>6
      <4> QED BY <4>1, <2>6, <2>8
    <3>3. CASE Before(m, i)
      <4>1. ASSUME NEW j \in prev PROVE Before(m, j)
        <5>1. ~Before(j, i) BY <2>9, <3>1, <4>1
        <5>2. j \in places BY <2>6, <4>1
        <5> QED BY <3>2, <3>3, <5>1, <5>2, <2>7, BundleOrder
      <4>2. ASSUME NEW j \in prev PROVE ~Before(j, m)
        <5>1. Before(m, j) BY <4>1
        <5>2. j \in places BY <2>6, <4>2
        <5> QED BY <5>1, <5>2, <2>7, <2>8, BundleAsymmetric
      <4>3. ~(m < m) BY <2>3, <1>1
      <4>4. \A j \in Upto(m) : ~Before(j, m) /\ (j < m => Before(m, j))
        BY <2>10, <2>11, <4>1, <4>2, <4>3
      <4>5. m \in Upto(m) BY <2>11
      <4> HIDE DEF Upto, Before
      <4> QED BY <2>3, <2>9, <4>4, <4>5
    <3>4. CASE ~Before(m, i)
      <4>1. \A j \in Upto(m) : ~Before(j, i) /\ (j < i => Before(i, j))
        <5>1. \A j \in prev : ~Before(j, i) /\ (j < i => Before(i, j)) BY <2>9, <3>1
        <5> HIDE DEF prev, Upto, Before
        <5> QED BY <2>11, <3>2, <3>4, <5>1
      <4>2. i \in Upto(m) BY <2>11, <3>1
      <4> HIDE DEF Upto, Before
      <4> QED BY <2>3, <2>9, <4>1, <4>2
    <3> QED BY <3>3, <3>4
  <2> QED BY <2>12, <2>13
<1>3. Upto(n) = places BY <1>1
<1>4. n \in 0..n BY <1>1
<1> HIDE DEF Upto
<1> QED BY <1>2, <1>3, <1>4 DEF Bad

-----------------------------------------------------------------------------
(* The walk over the catalogs. *)

WalkTable(t, cs, s, m, n) ==
  t = [i \in 0..n |-> IF i = 0 THEN Undecided ELSE WalkCatalog(t[i - 1], cs, i, s, m)]

(* The walk is defined for lists of any length. *)
LEMMA WalkTables ==
  ASSUME NEW cs, NEW s, NEW m
  PROVE  \A n \in Nat : \E t : WalkTable(t, cs, s, m, n)
PROOF
<1> DEFINE Bad == {n \in Nat : ~\E t : WalkTable(t, cs, s, m, n)}
<1>1. SUFFICES ASSUME Bad # {} PROVE FALSE OBVIOUS
<1>2. PICK k \in Bad : \A n \in Bad : k <= n
  <2> HIDE DEF Bad
  <2> QED BY <1>1, LeastNat DEF Bad
<1>3. CASE k = 0
  <2> DEFINE t == [j \in 0..0 |-> Undecided]
  <2>1. WalkTable(t, cs, s, m, 0) BY DEF WalkTable
  <2> QED BY <1>2, <1>3, <2>1
<1>4. CASE k # 0
  <2>1. k - 1 \in Nat /\ k - 1 \notin Bad BY <1>2, <1>4
  <2>2. PICK t : WalkTable(t, cs, s, m, k - 1) BY <2>1
  <2> DEFINE u == [j \in 0..k |-> IF j = k THEN WalkCatalog(t[k - 1], cs, k, s, m) ELSE t[j]]
             v == [j \in 0..k |-> IF j = 0 THEN Undecided ELSE WalkCatalog(u[j - 1], cs, j, s, m)]
  <2>3. \A j \in 0..(k - 1) : t[j] = IF j = 0 THEN Undecided ELSE WalkCatalog(t[j - 1], cs, j, s, m)
    <3> DEFINE F(j) == IF j = 0 THEN Undecided ELSE WalkCatalog(t[j - 1], cs, j, s, m)
    <3>1. t = [j \in 0..(k - 1) |-> F(j)] BY <2>2 DEF WalkTable
    <3> HIDE DEF F
    <3>2. \A j \in 0..(k - 1) : t[j] = F(j) BY <3>1
    <3> QED BY <3>2 DEF F
  <2>4. \A j \in 0..k : u[j] = v[j]
    <3> SUFFICES ASSUME NEW j \in 0..k PROVE u[j] = v[j] OBVIOUS
    <3>1. CASE j = 0
      <4>1. 0 \in 0..(k - 1) /\ 0 # k BY <1>4, <2>1
      <4>2. t[0] = Undecided BY <4>1, <2>3
      <4>3. u[0] = t[0] BY <4>1
      <4>4. v[0] = Undecided BY <4>1
      <4> QED BY <3>1, <4>2, <4>3, <4>4
    <3>2. CASE j = k BY <3>2, <1>4, <2>1
    <3>3. CASE j # 0 /\ j # k
      <4>1. j \in 0..(k - 1) /\ j - 1 \in 0..k /\ j - 1 # k BY <3>3, <2>1
      <4>2. u[j] = t[j] /\ u[j - 1] = t[j - 1] BY <4>1, <3>3
      <4> QED BY <4>1, <4>2, <3>3, <2>3
    <3> QED BY <3>1, <3>2, <3>3
  <2>5. u = v
    <3>1. DOMAIN u = 0..k /\ DOMAIN v = 0..k OBVIOUS
    <3> QED BY <2>4
  <2>6. WalkTable(u, cs, s, m, k) BY <2>5 DEF WalkTable
  <2> HIDE DEF u
  <2> QED BY <1>2, <2>6
<1> QED BY <1>3, <1>4

(* Of the catalogs in a set, those that stay: the ones whose bundle is not
   deprecated, if there are any. *)
Undeprecated(cs, s, m, S) == {i \in S : ~OffersDeprecated(cs[i], s, m)}
Pool(cs, s, m, S) == IF Undeprecated(cs, s, m, S) = {} THEN S ELSE Undeprecated(cs, s, m, S)
WalkSound(acc, cs, s, m, k) ==
  /\ acc.found = Pool(cs, s, m, Offering(cs, s, m) \cap 1..k)
  /\ acc.found # {} => acc.last \in acc.found

(* One more catalog of the walk. *)
LEMMA WalkStep ==
  ASSUME NEW cs, NEW s, NEW m, NEW k \in Nat \ {0}, NEW acc, WalkSound(acc, cs, s, m, k - 1)
  PROVE  WalkSound(WalkCatalog(acc, cs, k, s, m), cs, s, m, k)
PROOF
<1> DEFINE O == Offering(cs, s, m)
           U == O \cap 1..(k - 1)
           D(i) == OffersDeprecated(cs[i], s, m)
           next == WalkCatalog(acc, cs, k, s, m)
           P(S) == Pool(cs, s, m, S)
<1>0. \A S : P(S) = IF {i \in S : ~D(i)} = {} THEN S ELSE {i \in S : ~D(i)}
  BY DEF Pool, Undeprecated
<1>1. acc.found = P(U) /\ (acc.found # {} => acc.last \in acc.found) BY DEF WalkSound
<1>2. O \cap 1..k = IF k \in O THEN U \cup {k} ELSE U
  <2>1. 1..k = 1..(k - 1) \cup {k} OBVIOUS
  <2> QED BY <2>1
<1>3. SUFFICES next.found = P(O \cap 1..k) /\ (next.found # {} => next.last \in next.found)
  BY DEF WalkSound
<1>4. next = IF \/ k \notin O
                \/ acc.found # {} /\ D(k) /\ ~D(acc.last)
             THEN acc
             ELSE [found |-> {k} \cup (IF acc.found # {} /\ ~D(k) /\ D(acc.last) THEN {} ELSE acc.found),
                   last |-> k]
  BY DEF WalkCatalog
<1> HIDE DEF next, P, D, O
<1>5. CASE k \notin O BY <1>1, <1>2, <1>4, <1>5
<1>6. CASE k \in O /\ acc.found = {}
  <2>1. U = {} BY <1>0, <1>1, <1>6
  <2>2. next.found = {k} /\ next.last = k BY <1>4, <1>6
  <2>3. O \cap 1..k = {k} BY <1>2, <1>6, <2>1
  <2>4. P({k}) = {k} BY <1>0
  <2> QED BY <2>2, <2>3, <2>4
<1>7. CASE k \in O /\ acc.found # {}
  <2>0. O \cap 1..k = U \cup {k} /\ acc.last \in acc.found BY <1>1, <1>2, <1>7
  <2>1. CASE D(acc.last)
    <3>1. acc.found = U /\ \A i \in U : D(i) BY <1>0, <1>1, <2>0, <2>1
    <3>2. CASE D(k)
      <4>1. next.found = U \cup {k} /\ next.last = k BY <1>4, <1>7, <2>1, <3>1, <3>2
      <4>2. P(U \cup {k}) = U \cup {k} BY <1>0, <3>1, <3>2
      <4> QED BY <2>0, <4>1, <4>2
    <3>3. CASE ~D(k)
      <4>1. next.found = {k} /\ next.last = k BY <1>4, <1>7, <2>1, <3>3
      <4>2. P(U \cup {k}) = {k} BY <1>0, <3>1, <3>3
      <4> QED BY <2>0, <4>1, <4>2
    <3> QED BY <3>2, <3>3
  <2>2. CASE ~D(acc.last)
    <3>1. acc.found = {i \in U : ~D(i)} BY <1>0, <1>1, <2>0, <2>2
    <3>2. CASE D(k)
      <4>1. next = acc BY <1>4, <1>7, <2>2, <3>2
      <4>2. P(U \cup {k}) = {i \in U : ~D(i)} BY <1>0, <1>7, <3>1, <3>2
      <4> QED BY <2>0, <3>1, <4>1, <4>2
    <3>3. CASE ~D(k)
      <4>1. next.found = acc.found \cup {k} /\ next.last = k BY <1>4, <1>7, <2>2, <3>3
      <4>2. P(U \cup {k}) = {i \in U : ~D(i)} \cup {k} BY <1>0, <3>3
      <4> QED BY <2>0, <3>1, <4>1, <4>2
    <3> QED BY <3>2, <3>3
  <2> QED BY <2>1, <2>2
<1> QED BY <1>5, <1>6, <1>7

(* Whatever the order of the catalogs, the walk ends with all those that
   should stay. *)
LEMMA WalkFinds ==
  ASSUME NEW cs, NEW s, NEW m, AreCatalogs(cs)
  PROVE  /\ Walk(cs, s, m).found = Pool(cs, s, m, Offering(cs, s, m))
         /\ Offering(cs, s, m) \subseteq 1..Len(cs) /\ Len(cs) \in Nat
PROOF
<1> DEFINE n == Len(cs)
           f == CHOOSE t : WalkTable(t, cs, s, m, n)
           F(i) == IF i = 0 THEN Undecided ELSE WalkCatalog(f[i - 1], cs, i, s, m)
<1>1. n \in Nat /\ DOMAIN cs = 1..n BY DEF AreCatalogs, IsList
<1>2. WalkTable(f, cs, s, m, n)
  <2>1. \E t : WalkTable(t, cs, s, m, n) BY <1>1, WalkTables
  <2> QED BY <2>1
<1>3. Walk(cs, s, m) = f[n] BY Zenon DEF Walk, WalkTable
<1> HIDE DEF f
<1>4. \A i \in 0..n : f[i] = F(i)
  <2>1. f = [i \in 0..n |-> F(i)] BY <1>2 DEF WalkTable
  <2> HIDE DEF F, n
  <2> QED BY <2>1
<1> DEFINE Bad == {i \in 0..n : ~WalkSound(f[i], cs, s, m, i)}
<1>5. Bad = {}
  <2> SUFFICES ASSUME Bad # {} PROVE FALSE OBVIOUS
  <2>1. Bad \in SUBSET Nat BY <1>1
  <2>2. PICK k \in Bad : \A j \in Bad : k <= j
    <3> HIDE DEF Bad
    <3> QED BY <2>1, LeastNat
  <2>3. k \in 0..n /\ ~WalkSound(f[k], cs, s, m, k) /\ k - 1 \notin Bad BY <1>1, <2>2
  <2>4. CASE k = 0
    <3>1. f[0] = Undecided BY <1>1, <1>4
    <3>2. Offering(cs, s, m) \cap 1..0 = {} OBVIOUS
    <3>3. Pool(cs, s, m, {}) = {} BY DEF Pool, Undeprecated
    <3>4. WalkSound(f[0], cs, s, m, 0) BY <3>1, <3>2, <3>3 DEF WalkSound, Undecided
    <3> QED BY <2>3, <2>4, <3>4
  <2>5. CASE k # 0
    <3>1. k \in Nat \ {0} /\ k - 1 \in 0..n BY <1>1, <2>3, <2>5
    <3>2. WalkSound(f[k - 1], cs, s, m, k - 1) BY <2>3, <3>1
    <3>3. f[k] = WalkCatalog(f[k - 1], cs, k, s, m) BY <1>4, <2>3, <2>5
    <3>4. WalkSound(f[k], cs, s, m, k) BY <3>1, <3>2, <3>3, WalkStep
    <3> QED BY <2>3, <3>4
  <2> QED BY <2>4, <2>5
<1>6. WalkSound(f[n], cs, s, m, n) BY <1>1, <1>5
<1>7. Offering(cs, s, m) \subseteq 1..n BY <1>1 DEF Offering, CatalogWalker
<1>8. Offering(cs, s, m) \cap 1..n = Offering(cs, s, m) BY <1>7
<1> QED BY <1>1, <1>3, <1>6, <1>7, <1>8 DEF WalkSound

(* One catalog is left by its priority exactly if one has the highest. *)
LEMMA PriorityDecides ==
  ASSUME NEW cs, AreCatalogs(cs), NEW found \in SUBSET (1..Len(cs))
  PROVE  LET top == Highest(cs, found)
             left == ByPriority(cs, found)
         IN  /\ Cardinality(left) = 1 <=> Cardinality(top) = 1
             /\ Cardinality(top) = 1 => left = top /\ \E x \in found : top = {x}
PROOF
<1> DEFINE top == Highest(cs, found)
           left == ByPriority(cs, found)
<1>1. Len(cs) \in Nat /\ DOMAIN cs = 1..Len(cs) /\ \A i \in DOMAIN cs : cs[i].priority \in Int
  BY DEF AreCatalogs, IsList
<1>2. IsFiniteSet(found) /\ Cardinality(found) \in Nat
  <2>1. IsFiniteSet(1..Len(cs)) BY <1>1, FS_Interval
  <2>2. IsFiniteSet(found) BY <2>1, FS_Subset
  <2> QED BY <2>2, FS_CardinalityType
<1>3. top \subseteq found /\ IsFiniteSet(top)
  <2>1. top \subseteq found BY DEF Highest
  <2> HIDE DEF top
  <2> QED BY <1>2, <2>1, FS_Subset
<1>4. left = IF Cardinality(found) > 1 /\ Cardinality(top) = 1 THEN top ELSE found
  BY DEF ByPriority
<1>5. ASSUME Cardinality(top) = 1 PROVE left = top /\ \E x \in found : top = {x}
  <2>1. PICK x : top = {x}
    <3> HIDE DEF top
    <3> QED BY <1>3, <1>5, FS_Singleton
  <2>2. x \in found BY <1>3, <2>1
  <2>3. CASE Cardinality(found) > 1
    <3> HIDE DEF top, left
    <3> QED BY <1>4, <1>5, <2>1, <2>2, <2>3
  <2>4. CASE ~(Cardinality(found) > 1)
    <3>1. Cardinality(found) # 0
      <4> QED BY <1>2, <2>2, FS_EmptySet
    <3>2. Cardinality(found) = 1 BY <1>2, <2>4, <3>1
    <3>3. PICK y : found = {y} BY <1>2, <3>2, FS_Singleton
    <3> HIDE DEF top, left
    <3> QED BY <1>4, <2>1, <2>2, <2>4, <3>3
  <2> QED BY <2>3, <2>4
<1>6. ASSUME Cardinality(left) = 1 PROVE Cardinality(top) = 1
  <2> SUFFICES ASSUME Cardinality(top) # 1 PROVE FALSE OBVIOUS
  <2>1. Cardinality(found) = 1
    <3> HIDE DEF top, left
    <3> QED BY <1>4, <1>6
  <2>2. PICK y : found = {y} BY <1>2, <2>1, FS_Singleton
  <2>3. cs[y].priority \in Int BY <1>1, <2>2
  <2>4. top = {y} BY <2>2, <2>3 DEF Highest
  <2> HIDE DEF top
  <2> QED BY <2>4, FS_Singleton
<1>7. Cardinality(left) = 1 <=> Cardinality(top) = 1
  <2> HIDE DEF top, left
  <2> QED BY <1>5, <1>6
<1> QED BY <1>5, <1>7

(* Resolve (resolve/catalog.go) walks over the catalogs in the order of their
   list, and drops or clears what it has found by deprecation as it goes. For
   any catalogs, packages and orders of both it answers if and only if one
   catalog is to be preferred, its best bundle can be installed and no catalog
   of the walk fails, and then with that catalog and that bundle. *)
THEOREM ResolutionBest ==
  ASSUME NEW catalogs, AreCatalogs(catalogs), NEW source, NEW installed
  PROVE  ResolveBest(catalogs, source, installed)
PROOF
<1> DEFINE found == Walk(catalogs, source, installed).found
           top == Highest(catalogs, found)
           left == ByPriority(catalogs, found)
           one == catalogs[CHOOSE i \in left : TRUE]
           bundle == Offer(one, source, installed)
           fails == \E i \in CatalogWalker(catalogs) : catalogs[i].fails
           r == Resolve(catalogs, source, installed)
           best == BestAnswer(catalogs, source, installed)
<1>1. found \in SUBSET (1..Len(catalogs)) /\ best = top
  <2> DEFINE usable == Offering(catalogs, source, installed)
             fresh == {i \in usable : ~OffersDeprecated(catalogs[i], source, installed)}
  <2>0. found = Pool(catalogs, source, installed, usable) BY WalkFinds
  <2>1. found = IF fresh = {} THEN usable ELSE fresh
    <3> HIDE DEF usable, found
    <3> QED BY <2>0 DEF Pool, Undeprecated
  <2>2. usable \subseteq 1..Len(catalogs) BY WalkFinds
  <2>3. best = Highest(catalogs, IF fresh = {} THEN usable ELSE fresh) BY Zenon DEF BestAnswer
  <2>4. best = top
    <3> HIDE DEF usable, fresh, best, found
    <3> QED BY <2>1, <2>3
  <2>5. found \in SUBSET (1..Len(catalogs))
    <3> HIDE DEF usable, found
    <3> QED BY <2>1, <2>2
  <2> QED BY <2>4, <2>5
<1>2. /\ Cardinality(left) = 1 <=> Cardinality(top) = 1
      /\ Cardinality(top) = 1 => left = top /\ \E x \in found : top = {x}
  BY <1>1, PriorityDecides
<1>3. /\ r.ok <=> ~fails /\ Cardinality(left) = 1 /\ Installable(bundle)
      /\ r.ok => r.catalog = one.name /\ r.bundle = bundle
  BY DEF Resolve, resolutionError, Installable
<1>4. ASSUME Cardinality(top) = 1
      PROVE  \E x : top = {x} /\ one = catalogs[x]
  <2>1. PICK x : top = {x} /\ left = {x} BY <1>2, <1>4
  <2>2. one = catalogs[x] BY <2>1
  <2> QED BY <2>1, <2>2
<1> HIDE DEF found, top, left, one, bundle, r, best
<1>5. /\ r.ok <=> /\ Cardinality(best) = 1
                  /\ \A i \in best : Installable(Offer(catalogs[i], source, installed))
                  /\ \A i \in CatalogWalker(catalogs) : ~catalogs[i].fails
      /\ r.ok => \A i \in best : /\ r.catalog = catalogs[i].name
                                 /\ r.bundle = Offer(catalogs[i], source, installed)
  BY <1>1, <1>2, <1>3, <1>4 DEF bundle
<1> QED BY <1>5 DEF ResolveBest, r, best

(* Whatever build metadata and release a bundle has, and with the feature gate
   on or off: what is stored of it (bundleutil.MetadataFor) reads back, when the
   next upgrade looks for successors, as the version and release it has. *)
THEOREM VersionsRoundTrip ==
  ASSUME NEW b, b.prop \in Properties
  PROVE  VersionRoundTrips(b)
PROOF
<1> DEFINE vr == GetVersionAndRelease(b)
           back == parseInstalledBundleVersionRelease(MetadataFor(b.name, vr))
<1>1. vr \in Properties BY VersionTyped
<1>2. /\ b.prop.version \in Int /\ b.prop.build \in Int /\ b.prop.release \in Int
      /\ Absent = -2
  BY DEF Properties, Absent
<1>b. back.version = vr.version /\ back.release = vr.release
  <2> DEFINE p == b.prop
             stored == MetadataFor(b.name, vr)
  <2>0. back = IF stored.release = Absent THEN ParseLegacyVersionRelease(stored.version, stored.build)
               ELSE ParseExplicitRelease(stored.version, stored.build, stored.release)
    BY DEF parseInstalledBundleVersionRelease
  <2>1. CASE BundleReleaseSupport /\ p.release # Absent
    <3>1. vr = [version |-> p.version, build |-> p.build, release |-> p.release]
      BY <2>1 DEF GetVersionAndRelease, parseVersionRelease, ParseExplicitRelease
    <3> HIDE DEF vr, back
    <3>2. stored.version = p.version /\ stored.release = p.release
      BY <2>1, <3>1 DEF MetadataFor
    <3> QED BY <2>0, <2>1, <3>1, <3>2 DEF ParseExplicitRelease
  <2>2. CASE ~(BundleReleaseSupport /\ p.release # Absent)
    <3>1. vr = ParseLegacyVersionRelease(p.version, p.build)
      BY <2>2 DEF GetVersionAndRelease, parseVersionRelease
    <3> HIDE DEF vr, back
    <3>2. CASE p.build > 0
      <4>1. vr = [version |-> p.version, build |-> 0, release |-> p.build]
        BY <3>1, <3>2 DEF ParseLegacyVersionRelease
      <4>2. CASE BundleReleaseSupport
        <5>1. stored.version = p.version /\ stored.release = p.build BY <4>1, <4>2 DEF MetadataFor
        <5>2. stored.release # Absent BY <1>2, <3>2, <5>1
        <5> QED BY <2>0, <4>1, <5>1, <5>2 DEF ParseExplicitRelease
      <4>3. CASE ~BundleReleaseSupport
        <5>1. stored.version = p.version /\ stored.build = p.build /\ stored.release = Absent
          BY <3>2, <4>1, <4>3 DEF MetadataFor, asLegacyRegistryV1Version
        <5> QED BY <2>0, <3>2, <4>1, <5>1 DEF ParseLegacyVersionRelease
      <4> QED BY <4>2, <4>3
    <3>3. CASE ~(p.build > 0)
      <4>1. vr = [version |-> p.version, build |-> p.build, release |-> Absent]
        BY <3>1, <3>3 DEF ParseLegacyVersionRelease
      <4>2. stored.version = p.version /\ stored.build = p.build /\ stored.release = Absent
        <5>1. ~(Absent > 0) BY <1>2
        <5> QED BY <4>1, <5>1 DEF MetadataFor, asLegacyRegistryV1Version
      <4> QED BY <2>0, <3>3, <4>1, <4>2 DEF ParseLegacyVersionRelease
    <3> QED BY <3>2, <3>3
  <2> QED BY <2>1, <2>2
<1>3. SameVersion(back, vr)
  <2> HIDE DEF back, vr
  <2> QED BY <1>1, <1>b, <1>2 DEF SameVersion, Newer, ReleaseRank, Properties
<1> QED BY <1>3 DEF VersionRoundTrips, ExactVersionRelease

(* What Resolve answers with is a bundle that some catalog of the walk offers. *)
LEMMA AnswerOffered ==
  ASSUME NEW cs \in CatalogLists, NEW s \in ExtSources, NEW m \in KnownMetadata, Resolve(cs, s, m).ok
  PROVE  /\ Resolve(cs, s, m).metadata \in KnownMetadata
         /\ Resolve(cs, s, m).metadata.name \in Edges[s][m]
PROOF
<1> DEFINE found == Walk(cs, s, m).found
           left == ByPriority(cs, found)
           one == cs[CHOOSE i \in left : TRUE]
           bundle == Offer(one, s, m)
           r == Resolve(cs, s, m)
<1>0. AreCatalogs(cs) BY CatalogsAssumption
<1>1. found \in SUBSET Offering(cs, s, m) /\ found \in SUBSET (1..Len(cs))
  <2>1. found = Pool(cs, s, m, Offering(cs, s, m)) /\ Offering(cs, s, m) \subseteq 1..Len(cs)
    BY <1>0, WalkFinds
  <2> HIDE DEF found
  <2> QED BY <2>1 DEF Pool, Undeprecated
<1>2. /\ Cardinality(left) = 1 /\ HasVersion(bundle)
      /\ r.metadata = MetadataFor(bundle.name, GetVersionAndRelease(bundle))
  BY DEF Resolve, resolutionError
<1>3. PICK x \in found : left = {x}
  <2> HIDE DEF found
  <2> QED BY <1>0, <1>1, <1>2, PriorityDecides
<1>4. one = cs[x] BY <1>3
<1> DEFINE fbc == cs[x].fbc
           places == Candidates(fbc, s, m)
<1>5. /\ x \in DOMAIN cs /\ x \in CatalogWalker(cs) /\ places # {} /\ places \subseteq DOMAIN fbc.bundles
      /\ IsList(fbc.bundles) /\ \A k \in DOMAIN fbc.bundles : fbc.bundles[k].prop \in Properties
  <2>1. x \in Offering(cs, s, m) BY <1>1, <1>3
  <2>2. x \in CatalogWalker(cs) /\ places # {} BY <2>1 DEF Offering
  <2>3. x \in DOMAIN cs BY <2>2 DEF CatalogWalker
  <2>4. places \subseteq DOMAIN fbc.bundles BY DEF Candidates
  <2>5. /\ IsList(fbc.bundles)
        /\ \A k \in DOMAIN fbc.bundles : fbc.bundles[k].prop \in Properties
    BY <1>0, <2>3 DEF AreCatalogs
  <2> QED BY <2>2, <2>3, <2>4, <2>5
<1>6. PICK k \in places : bundle = fbc.bundles[k]
  <2>1. \E i \in places : IsBest(fbc, places, i)
    <3> HIDE DEF fbc, places
    <3> QED BY <1>5, BestExists
  <2> DEFINE k == CHOOSE i \in places : IsBest(fbc, places, i)
  <2>2. k \in places BY <2>1
  <2>3. bundle = Best(fbc, places) BY <1>4 DEF Offer
  <2>4. bundle = fbc.bundles[k]
    <3> HIDE DEF bundle, fbc, places
    <3> QED BY <2>3 DEF Best
  <2> QED BY <2>2, <2>4
<1>7. r.metadata \in KnownMetadata
  <2>1. bundle \in ToSet(fbc.bundles) BY <1>5, <1>6 DEF ToSet
  <2>2. bundle \in KnownBundles
    <3> HIDE DEF bundle
    <3> QED BY <1>5, <2>1 DEF KnownBundles
  <2> HIDE DEF bundle, r
  <2> QED BY <1>2, <2>2 DEF KnownMetadata
<1>8. r.metadata.name = bundle.name
  <2> HIDE DEF bundle, r
  <2> QED BY <1>2 DEF MetadataFor
<1>9. bundle.name \in Edges[s][m]
  <2> DEFINE At(c, i) == {c[i].fbc.bundles[j].name : j \in Candidates(c[i].fbc, s, m)}
             In(c) == UNION {At(c, i) : i \in CatalogWalker(c)}
  <2>1. bundle.name \in At(cs, x)
    <3> HIDE DEF bundle
    <3> QED BY <1>6
  <2> HIDE DEF At, bundle
  <2>2. bundle.name \in In(cs) BY <1>5, <2>1
  <2> HIDE DEF In
  <2>3. bundle.name \in UNION {In(c) : c \in CatalogLists} BY <2>2
  <2>4. Edges[s][m] = UNION {In(c) : c \in CatalogLists} BY Zenon DEF Edges, In, At
  <2> QED BY <2>3, <2>4
<1> HIDE DEF r, bundle
<1> QED BY <1>7, <1>8, <1>9 DEF r

-----------------------------------------------------------------------------
(* Upgrades: what a pass puts in motion. *)

(* Releases and revisions are of known bundles, with what these render to. *)
ReleaseStates == {"pending", "deployed", "failed", "superseded",
                  "new", "RollingOut", "Retrying", "Succeeded", "archived"}
Released ==
  {r \in [metadata : KnownMetadata, manifest : {RenderedManifest(m.name) : m \in KnownMetadata},
          state : ReleaseStates] :
     r.manifest = RenderedManifest(r.metadata.name)}
WorldRecords == [serviceAccount : BOOLEAN, registry : BOOLEAN, catalogs : CatalogLists]
LastMetadata == releases[Len(releases)].metadata

(* A new revision is made only when the others are done with. *)
Settled == {"Succeeded", "archived"}
OneInMotion ==
  runtime # "helm" => \A i \in DOMAIN releases : i < Len(releases) => releases[i].state \in Settled

(* What a pass has read of the releases stays true, or one of them rolls out
   and the pass goes on with its bundle. *)
Choosing == {"resolve", "unpack", "apply"}
StatesRead ==
  rec.step \in Choosing =>
    /\ rec.states.installed \in KnownMetadata
    /\ DOMAIN rec.states.rolling = {} => rec.states.installed = Installed /\ RollingOut = {}
    /\ DOMAIN rec.states.rolling # {} =>
         runtime # "helm" /\ releases # <<>> /\ Oldest(rec.states.rolling).metadata = LastMetadata
EdgeFrom(source, installed, resolved) ==
  resolved = installed \/ resolved.name \in Edges[source][installed]
Chosen ==
  rec.step \in {"unpack", "apply"} =>
    /\ rec.resolved \in KnownMetadata
    /\ DOMAIN rec.states.rolling = {} => EdgeFrom(rec.ext.source, rec.states.installed, rec.resolved)
    /\ DOMAIN rec.states.rolling # {} => rec.resolved = LastMetadata

EdgeForm == /\ releases \in Seq(Released) /\ world \in WorldRecords
            /\ rec.step # "idle" => rec.ext.source \in ExtSources
            /\ rec.step = "helm" => runtime = "helm" /\ releases # <<>>
EdgeInv == EdgeForm /\ OneInMotion /\ StatesRead /\ Chosen

-----------------------------------------------------------------------------
LEMMA SeqForm ==
  ASSUME NEW S, NEW n \in Nat, NEW f \in [1..n -> S]
  PROVE  f \in Seq(S) /\ Len(f) = n /\ DOMAIN f = 1..n
PROOF BY SeqDef

(* A sequence and the one with an element more. *)
LEMMA LastOf ==
  ASSUME NEW S, NEW s \in Seq(S), NEW x \in S
  PROVE  /\ Append(s, x) \in Seq(S) /\ Len(Append(s, x)) = Len(s) + 1 /\ Len(s) \in Nat
         /\ DOMAIN s = 1..Len(s) /\ DOMAIN Append(s, x) = 1..(Len(s) + 1)
         /\ Append(s, x)[Len(s) + 1] = x
         /\ \A i \in 1..Len(s) : Append(s, x)[i] = s[i] /\ s[i] \in S
PROOF OBVIOUS

(* Sets of places have a last one. *)
LEMMA GreatestNat ==
  ASSUME NEW n \in Nat, NEW T \in SUBSET (1..n), T # {}
  PROVE  \E x \in T : \A y \in T : y <= x
PROOF
<1> DEFINE U == {n - y : y \in T}
<1>1. U \in SUBSET Nat /\ U # {}
  <2>1. \A y \in T : n - y \in Nat OBVIOUS
  <2>2. \E y \in T : n - y \in U OBVIOUS
  <2> QED BY <2>1, <2>2
<1>2. PICK u \in U : \A v \in U : u <= v
  <2> HIDE DEF U
  <2> QED BY <1>1, LeastNat
<1>3. PICK x \in T : u = n - x OBVIOUS
<1>4. \A y \in T : n - x <= n - y BY <1>2, <1>3
<1> QED BY <1>4

(* What is installed is nothing, or one of the releases. *)
LEMMA InstalledKnown ==
  ASSUME releases \in Seq(Released)
  PROVE  Installed \in KnownMetadata
PROOF
<1> DEFINE good == IF runtime = "helm" THEN "deployed" ELSE "Succeeded"
           done == {i \in DOMAIN releases : releases[i].state = good}
           last == CHOOSE i \in done : \A j \in done : j <= i
<1>1. Installed = IF done = {} THEN NothingInstalled ELSE releases[last].metadata
  BY Zenon DEF Installed, Latest
<1>2. NothingInstalled \in KnownMetadata BY DEF KnownMetadata
<1>3. ASSUME done # {} PROVE releases[last].metadata \in KnownMetadata
  <2>1. Len(releases) \in Nat /\ DOMAIN releases = 1..Len(releases) OBVIOUS
  <2>2. done \in SUBSET (1..Len(releases)) BY <2>1
  <2>3. \E x \in done : \A y \in done : y <= x
    <3> HIDE DEF done
    <3> QED BY <1>3, <2>1, <2>2, GreatestNat
  <2>4. last \in done
    <3> HIDE DEF done
    <3> QED BY <2>3
  <2>5. releases[last] \in Released
    <3> HIDE DEF last
    <3> QED BY <2>1, <2>2, <2>4
  <2> HIDE DEF last
  <2> QED BY <2>5 DEF Released
<1> HIDE DEF done, last
<1> QED BY <1>1, <1>2, <1>3

(* The steps that choose nothing. *)
LEMMA EdgeOutside ==
  ASSUME EdgeInv, UNCHANGED <<runtime, releases>>, world' \in WorldRecords,
         rec'.step \notin Choosing \cup {"helm"}, rec'.step # "idle" => rec'.ext.source \in ExtSources
  PROVE  EdgeInv'
PROOF
<1>1. EdgeForm' BY DEF EdgeInv, EdgeForm
<1>2. OneInMotion' BY DEF EdgeInv, OneInMotion
<1>3. StatesRead' /\ Chosen' BY DEF StatesRead, Chosen, Choosing
<1> QED BY <1>1, <1>2, <1>3 DEF EdgeInv

(* The steps that go on with what was chosen, or with nothing. *)
LEMMA EdgeKept ==
  ASSUME EdgeInv, UNCHANGED <<runtime, releases>>, world' \in WorldRecords,
         rec'.ext = rec.ext, rec'.states = rec.states, rec'.resolved = rec.resolved,
         rec'.step = rec.step \/ (rec.step = "unpack" /\ rec'.step = "apply")
  PROVE  EdgeInv'
PROOF
<1>0. UNCHANGED <<Installed, RollingOut, LastMetadata>>
  BY DEF Installed, RollingOut, LastMetadata
<1>1. EdgeForm' BY DEF EdgeInv, EdgeForm
<1>2. OneInMotion' BY DEF EdgeInv, OneInMotion
<1>3. StatesRead' BY <1>0 DEF EdgeInv, StatesRead, Choosing
<1>4. Chosen' BY <1>0 DEF EdgeInv, Chosen
<1> QED BY <1>1, <1>2, <1>3, <1>4 DEF EdgeInv

(* Nothing is in motion at first. *)
LEMMA EdgeInit == ExtInit => EdgeInv
PROOF
<1> SUFFICES ASSUME ExtInit PROVE EdgeInv OBVIOUS
<1>1. releases = <<>> /\ rec.step = "idle" BY IdleForm DEF ExtInit
<1>2. PICK cs \in CatalogLists : world = [serviceAccount |-> TRUE, registry |-> TRUE, catalogs |-> cs]
  BY DEF ExtInit
<1>3. world \in WorldRecords BY <1>2 DEF WorldRecords
<1>4. <<>> \in Seq(Released) /\ DOMAIN releases = {} BY <1>1
<1> QED BY <1>1, <1>3, <1>4 DEF EdgeInv, EdgeForm, OneInMotion, StatesRead, Chosen, Choosing

(* What the forms of a step do to what the pass has chosen. *)
LEMMA ChoiceForms ==
  ASSUME ExtForm
  PROVE  /\ \A t, a : rec' = [rec EXCEPT !.step = t, !.states = a] => rec'.states = a
         /\ \A t, a : rec' = [rec EXCEPT !.step = t, !.content = a] =>
              rec'.states = rec.states /\ rec'.resolved = rec.resolved
         /\ \A t, a, b : rec' = [rec EXCEPT !.step = t, !.resolved = a, !.status = b] =>
              rec'.states = rec.states /\ rec'.resolved = a
         /\ \A t, a, b, c, d :
              rec' = [rec EXCEPT !.step = t, !.status = a, !.resolved = b,
                                 !.hasCatalogData = c, !.deprecation = d] =>
                rec'.states = rec.states /\ rec'.resolved = b
         /\ \A t, a, b, c, d :
              rec' = [rec EXCEPT !.step = t, !.resolved = a, !.hasCatalogData = b,
                                 !.deprecation = c, !.status = d] =>
                rec'.states = rec.states /\ rec'.resolved = a
         /\ \A a : rec' = [rec EXCEPT !.stale = a] =>
              /\ rec'.states = rec.states /\ rec'.resolved = rec.resolved
              /\ rec'.ext = rec.ext /\ rec'.step = rec.step
PROOF
<1>1. DOMAIN rec = {"step", "ext", "status", "finalizers", "states", "resolved",
                    "content", "deprecation", "hasCatalogData", "err", "stale"}
  BY IdleForm DEF ExtForm
<1> QED BY <1>1

(* The states are read: with a revision that rolls out, the last one, the
   others are settled. *)
LEMMA EdgeStates ==
  ASSUME UnpackInv, EdgeInv, RetrieveRevisionStates
  PROVE  EdgeInv'
PROOF
<1>f. ExtForm /\ rec.step = "states" /\ UNCHANGED <<runtime, releases, world>>
      /\ world \in WorldRecords /\ rec.ext.source \in ExtSources /\ releases \in Seq(Released)
  BY DEF UnpackInv, EdgeInv, EdgeForm, RetrieveRevisionStates, InRec, unchangedWorld
<1>1. CASE rec' = [rec EXCEPT !.step = Following(@), !.states = GetRevisionStates]
  <2>1. rec' = [rec EXCEPT !.step = "resolve", !.states = GetRevisionStates]
    BY <1>f, <1>1, StepOrder
  <2>2. rec'.step = "resolve" /\ rec'.ext = rec.ext /\ rec'.states = GetRevisionStates
    <3> HIDE DEF GetRevisionStates
    <3> QED BY <1>f, <2>1, StepForms, ChoiceForms DEF PassOn
  <2>3. /\ rec'.states.installed = Installed
        /\ rec'.states.rolling = [i \in RollingOut |-> releases[i]]
    BY <2>2 DEF GetRevisionStates
  <2>4. Installed' = Installed /\ RollingOut' = RollingOut /\ LastMetadata' = LastMetadata
    BY <1>f DEF Installed, RollingOut, LastMetadata
  <2>5. Installed \in KnownMetadata BY <1>f, InstalledKnown
  <2>6. ASSUME RollingOut # {}
        PROVE  /\ runtime # "helm" /\ releases # <<>>
               /\ Oldest(rec'.states.rolling).metadata = LastMetadata
    <3> DEFINE n == Len(releases)
               old == [i \in RollingOut |-> releases[i]]
    <3>1. n \in Nat /\ DOMAIN releases = 1..n BY <1>f
    <3>2. runtime # "helm" /\ \A i \in RollingOut : i \in 1..n /\ releases[i].state \notin Settled
      BY <2>6, <3>1 DEF RollingOut, Settled
    <3>3. \A i \in RollingOut : i = n
      BY <3>1, <3>2 DEF EdgeInv, OneInMotion
    <3>4. RollingOut = {n} /\ n # 0 BY <2>6, <3>1, <3>2, <3>3
    <3>5. DOMAIN old = {n} /\ old[n] = releases[n] BY <3>4
    <3> HIDE DEF old
    <3>6. (CHOOSE i \in DOMAIN old : \A j \in DOMAIN old : i <= j) = n BY <3>1, <3>5
    <3>7. Oldest(old) = releases[n]
      <4>1. Oldest(old) = old[CHOOSE i \in DOMAIN old : \A j \in DOMAIN old : i <= j] BY DEF Oldest
      <4> QED BY <3>5, <3>6, <4>1
    <3>8. rec'.states.rolling = old BY <2>3 DEF old
    <3> QED BY <3>1, <3>2, <3>4, <3>7, <3>8 DEF LastMetadata
  <2>7. DOMAIN rec'.states.rolling = RollingOut BY <2>3
  <2>8. StatesRead'
    <3>1. /\ rec'.states.installed \in KnownMetadata
          /\ DOMAIN rec'.states.rolling = {} =>
               rec'.states.installed = Installed' /\ RollingOut' = {}
          /\ DOMAIN rec'.states.rolling # {} =>
               /\ runtime' # "helm" /\ releases' # <<>>
               /\ Oldest(rec'.states.rolling).metadata = LastMetadata'
      BY <1>f, <2>3, <2>4, <2>5, <2>6, <2>7
    <3> QED BY <3>1 DEF StatesRead, Oldest
  <2>9. EdgeForm' /\ OneInMotion' /\ Chosen'
    BY <1>f, <2>2 DEF EdgeInv, EdgeForm, OneInMotion, Chosen
  <2> QED BY <2>8, <2>9 DEF EdgeInv
<1>2. CASE \E st, err : Ends(st, err)
  <2>1. PassOn("save") BY <1>2, <1>f, StepForms
  <2> QED BY <1>f, <2>1, EdgeOutside DEF PassOn, Choosing
<1> QED BY <1>1, <1>2 DEF RetrieveRevisionStates

(* A bundle is chosen: of the revision that rolls out, the one installed, or
   one a catalog offers. *)
LEMMA EdgeResolve ==
  ASSUME UnpackInv, EdgeInv, ResolveBundle
  PROVE  EdgeInv'
PROOF
<1>f. /\ ExtForm /\ rec.step = "resolve" /\ UNCHANGED <<runtime, releases, world>>
      /\ world \in WorldRecords /\ rec.ext.source \in ExtSources /\ releases \in Seq(Released)
      /\ Following(rec.step) = "unpack"
  BY StepOrder DEF UnpackInv, EdgeInv, EdgeForm, ResolveBundle, InRec, unchangedWorld
<1>0. Installed' = Installed /\ RollingOut' = RollingOut /\ LastMetadata' = LastMetadata
  BY <1>f DEF Installed, RollingOut, LastMetadata
<1> DEFINE name == rec.states.installed.name
           answer == Answers[world.catalogs][rec.ext.source][rec.states.installed]
           unknown == SetDeprecationStatus(rec.status, name, NoDeprecation, FALSE)
           known == SetDeprecationStatus(rec.status, name, answer.deprecation, TRUE)
           reported == setInstalledStatusFromRevisionStates(unknown, rec.states)
           rolls == DOMAIN rec.states.rolling # {}
<1>s. /\ rec.states.installed \in KnownMetadata
      /\ ~rolls => rec.states.installed = Installed /\ RollingOut = {}
      /\ rolls => runtime # "helm" /\ releases # <<>> /\ Oldest(rec.states.rolling).metadata = LastMetadata
  BY <1>f DEF EdgeInv, StatesRead, Choosing
<1>e. ASSUME PassOn("save") PROVE EdgeInv'
  BY <1>e, <1>f, EdgeOutside DEF PassOn, Choosing
<1>c. ASSUME NEW m, PassOn("unpack"), rec'.states = rec.states, rec'.resolved = m, m \in KnownMetadata,
             ~rolls => EdgeFrom(rec.ext.source, rec.states.installed, m),
             rolls => m = LastMetadata
      PROVE  EdgeInv'
  <2>1. rec'.step = "unpack" /\ rec'.ext = rec.ext BY <1>c DEF PassOn
  <2>2. EdgeForm' /\ OneInMotion' BY <1>f, <2>1 DEF EdgeInv, EdgeForm, OneInMotion
  <2>3. StatesRead' BY <1>0, <1>c, <1>f, <1>s, <2>1 DEF StatesRead
  <2>4. Chosen' BY <1>0, <1>c, <2>1 DEF Chosen
  <2> QED BY <2>2, <2>3, <2>4 DEF EdgeInv
<1>1. CASE rolls
  <2> DEFINE a == Oldest(rec.states.rolling).metadata
  <2>1. rec' = [rec EXCEPT !.step = Following(rec.step), !.resolved = a, !.status = unknown]
    BY <1>1, Zenon DEF ResolveBundle
  <2>2. rec' = [rec EXCEPT !.step = "unpack", !.resolved = a, !.status = unknown]
    BY <1>f, <2>1, Zenon
  <2>3. a = LastMetadata /\ releases # <<>> BY <1>1, <1>s
  <2>4. a \in KnownMetadata
    <3>1. Len(releases) \in Nat \ {0} BY <1>f, <2>3
    <3>2. releases[Len(releases)] \in Released BY <1>f, <3>1
    <3>3. LastMetadata \in KnownMetadata BY <3>2 DEF Released, LastMetadata
    <3> HIDE DEF a
    <3> QED BY <2>3, <3>3
  <2> HIDE DEF a, unknown
  <2>5. PassOn("unpack") /\ rec'.states = rec.states /\ rec'.resolved = a
    <3>1. PassOn("unpack") BY <2>2, <1>f, StepForms, Zenon
    <3>2. rec'.states = rec.states /\ rec'.resolved = a BY <2>2, <1>f, ChoiceForms, Zenon
    <3> QED BY <3>1, <3>2
  <2> HIDE DEF rolls
  <2> QED BY <1>1, <1>c, <2>3, <2>4, <2>5
<1>2. CASE ~rolls /\ answer.ok
  <2> DEFINE a == answer.metadata
             d == answer.deprecation
  <2>1. rec' = [rec EXCEPT !.step = Following(rec.step), !.resolved = a,
                  !.hasCatalogData = TRUE, !.deprecation = d, !.status = known]
    BY <1>2, Zenon DEF ResolveBundle
  <2>2. rec' = [rec EXCEPT !.step = "unpack", !.resolved = a,
                  !.hasCatalogData = TRUE, !.deprecation = d, !.status = known]
    BY <1>f, <2>1, Zenon
  <2>3. a \in KnownMetadata /\ EdgeFrom(rec.ext.source, rec.states.installed, a)
    <3>1. world.catalogs \in CatalogLists BY <1>f DEF WorldRecords
    <3> DEFINE cs == world.catalogs
               s == rec.ext.source
               m == rec.states.installed
    <3>2. answer = Resolve(cs, s, m) BY <1>f, <1>s, <3>1 DEF Answers
    <3>3. Resolve(cs, s, m).ok BY <1>2, <3>2
    <3>4. /\ Resolve(cs, s, m).metadata \in KnownMetadata
          /\ Resolve(cs, s, m).metadata.name \in Edges[s][m]
      <4> HIDE DEF cs, s, m
      <4> QED BY <1>f, <1>s, <3>1, <3>3, AnswerOffered DEF cs, s, m
    <3> HIDE DEF answer
    <3> QED BY <3>2, <3>4 DEF EdgeFrom
  <2> HIDE DEF a, d, known
  <2>4. PassOn("unpack") /\ rec'.states = rec.states /\ rec'.resolved = a
    <3>1. PassOn("unpack") BY <2>2, <1>f, StepForms, Zenon
    <3>2. rec'.states = rec.states /\ rec'.resolved = a BY <2>2, <1>f, ChoiceForms, Zenon
    <3> QED BY <3>1, <3>2
  <2> HIDE DEF rolls, answer
  <2> QED BY <1>2, <1>c, <2>3, <2>4
<1>3. CASE ~rolls /\ ~answer.ok
  <2>1. handleResolutionError(unknown) BY <1>3, Zenon DEF ResolveBundle
  <2>2. CASE FallsBack(rec.ext.source, rec.states.installed)
    <3> DEFINE a == rec.states.installed
    <3>1. rec' = [rec EXCEPT !.step = Following(rec.step), !.status = reported,
                    !.resolved = a, !.hasCatalogData = FALSE, !.deprecation = NoDeprecation]
      BY <2>1, <2>2, Zenon DEF handleResolutionError
    <3>2. rec' = [rec EXCEPT !.step = "unpack", !.status = reported,
                    !.resolved = a, !.hasCatalogData = FALSE, !.deprecation = NoDeprecation]
      BY <1>f, <3>1, Zenon
    <3> HIDE DEF reported, a
    <3>3. PassOn("unpack") BY <3>2, <1>f, StepForms, Zenon
    <3>4. rec'.states = rec.states /\ rec'.resolved = a
      <4>1. \A t, st, b, c, d :
              rec' = [rec EXCEPT !.step = t, !.status = st, !.resolved = b,
                                 !.hasCatalogData = c, !.deprecation = d] =>
                rec'.states = rec.states /\ rec'.resolved = b
        BY <1>f, ChoiceForms, Zenon
      <4> QED BY <3>2, <4>1, Zenon
    <3>5. EdgeFrom(rec.ext.source, rec.states.installed, a) BY DEF EdgeFrom, a
    <3> HIDE DEF rolls, answer
    <3> QED BY <1>3, <1>c, <1>s, <3>3, <3>4, <3>5 DEF a
  <2>3. CASE ~FallsBack(rec.ext.source, rec.states.installed)
    <3>1. \E st, err : Ends(st, err) BY <2>1, <2>3, Zenon DEF handleResolutionError
    <3>2. PassOn("save") BY <3>1, <1>f, StepForms
    <3> QED BY <1>e, <3>2
  <2> QED BY <2>2, <2>3
<1> QED BY <1>1, <1>2, <1>3, Zenon

(* Unpacking goes on with what was chosen. *)
LEMMA EdgeUnpack ==
  ASSUME UnpackInv, EdgeInv, UnpackBundle
  PROVE  EdgeInv'
PROOF
<1>f. /\ ExtForm /\ rec.step = "unpack" /\ UNCHANGED <<runtime, releases, world>>
      /\ world \in WorldRecords /\ rec.ext.source \in ExtSources
      /\ Following(rec.step) = "apply"
  BY StepOrder DEF UnpackInv, EdgeInv, EdgeForm, UnpackBundle, InRec, unchangedWorld
<1>1. ASSUME NEW a, rec' = [rec EXCEPT !.step = Following(@), !.content = a] PROVE EdgeInv'
  <2>1. rec' = [rec EXCEPT !.step = "apply", !.content = a] BY <1>1, <1>f
  <2>2. PassOn("apply") /\ rec'.states = rec.states /\ rec'.resolved = rec.resolved
    BY <1>f, <2>1, StepForms, ChoiceForms
  <2> QED BY <1>f, <2>2, EdgeKept DEF PassOn
<1>2. ASSUME NEW st, NEW err, Ends(st, err) PROVE EdgeInv'
  <2>1. PassOn("save") BY <1>2, <1>f, StepForms
  <2> QED BY <1>f, <2>1, EdgeOutside DEF PassOn, Choosing
<1> QED BY <1>1, <1>2 DEF UnpackBundle

(* The history of a release is cut, nothing is added to it. *)
LEMMA TrimmedForm ==
  ASSUME releases \in Seq(Released)
  PROVE  Trimmed(releases) \in Seq(Released)
PROOF
<1> DEFINE n == Len(releases)
           first == IF n < maxHelmReleaseHistory THEN 1 ELSE n - maxHelmReleaseHistory + 2
           dropped == {i \in 1..(first - 1) : releases[i].state = "deployed"
                                             /\ \A j \in i + 1..n : releases[j].state # "deployed"}
           recent == SubSeq(releases, first, n)
           kept == CHOOSE i \in dropped : TRUE
<1>1. Trimmed(releases) = IF getReleaseState = "NeedsInstall" THEN releases
                          ELSE IF dropped = {} THEN recent ELSE <<releases[kept]>> \o recent
  BY Zenon DEF Trimmed
<1>2. n \in Nat /\ maxHelmReleaseHistory \in Nat \ {0} BY ExtBounds
<1>3. first \in 1..(n + 1)
  <2> HIDE DEF n
  <2> QED BY <1>2
<1>4. recent \in Seq(Released)
  <2> HIDE DEF first
  <2>1. n \in (first - 1)..n BY <1>2, <1>3
  <2> QED BY <1>2, <1>3, <2>1, SubSeqProperties
<1>5. ASSUME dropped # {} PROVE <<releases[kept]>> \o recent \in Seq(Released)
  <2>1. dropped \subseteq 1..(first - 1)
    <3> HIDE DEF first, n
    <3> QED OBVIOUS
  <2>2. kept \in dropped
    <3> HIDE DEF dropped
    <3> QED BY <1>5
  <2>3. kept \in 1..n
    <3> HIDE DEF kept, dropped, first, n
    <3> QED BY <1>2, <1>3, <2>1, <2>2
  <2> HIDE DEF kept, recent
  <2>4. releases[kept] \in Released BY <2>3
  <2>5. <<releases[kept]>> \in Seq(Released) BY <2>4
  <2> QED BY <1>4, <2>5, ConcatProperties
<1> HIDE DEF dropped, recent, kept
<1> QED BY <1>1, <1>4, <1>5

(* A release or revision of a known bundle. *)
LEMMA ReleasedForm ==
  /\ \A m \in KnownMetadata : \A st \in ReleaseStates :
       /\ [metadata |-> m, manifest |-> RenderedManifest(m.name), state |-> st] \in Released
       /\ [metadata |-> m, state |-> st, manifest |-> RenderedManifest(m.name)] \in Released
  /\ \A r \in Released : \A st \in ReleaseStates :
       /\ [r EXCEPT !.state = st] \in Released
       /\ [r EXCEPT !.state = st].state = st
       /\ [r EXCEPT !.state = st].metadata = r.metadata
PROOF
<1>1. ASSUME NEW m \in KnownMetadata, NEW st \in ReleaseStates
      PROVE  /\ [metadata |-> m, manifest |-> RenderedManifest(m.name), state |-> st] \in Released
             /\ [metadata |-> m, state |-> st, manifest |-> RenderedManifest(m.name)] \in Released
  BY DEF Released
<1>2. ASSUME NEW r \in Released, NEW st \in ReleaseStates
      PROVE  /\ [r EXCEPT !.state = st] \in Released
             /\ [r EXCEPT !.state = st].state = st
             /\ [r EXCEPT !.state = st].metadata = r.metadata
  BY DEF Released
<1> QED BY <1>1, <1>2

(* A Helm release is recorded: what is installed has not changed since it was read. *)
LEMMA EdgeHelmRecord ==
  ASSUME UnpackInv, EdgeInv, HelmRecord
  PROVE  /\ EdgeInv'
         /\ releases'[Len(releases')].metadata = rec.resolved
         /\ EdgeFrom(rec.ext.source, Installed, rec.resolved)
PROOF
<1>f. /\ ExtForm /\ rec.step = "apply" /\ runtime = "helm" /\ UNCHANGED <<runtime, world>>
      /\ world \in WorldRecords /\ rec.ext.source \in ExtSources /\ releases \in Seq(Released)
      /\ Goto("helm")
  BY DEF UnpackInv, EdgeInv, EdgeForm, HelmRecord, InRec, unchangedWorld, ReadyToApply, Applying
<1>1. /\ rec.resolved \in KnownMetadata
      /\ EdgeFrom(rec.ext.source, Installed, rec.resolved)
  BY <1>f DEF EdgeInv, StatesRead, Chosen, Choosing
<1> DEFINE new == [metadata |-> rec.resolved, manifest |-> RenderedManifest(rec.resolved.name), state |-> "pending"]
           old == Trimmed(releases)
<1>2. releases' = Append(old, new) BY DEF HelmRecord
<1>3. new \in Released BY <1>1, ReleasedForm DEF ReleaseStates
<1>4. old \in Seq(Released) BY <1>f, TrimmedForm
<1>5. new.metadata = rec.resolved OBVIOUS
<1> HIDE DEF old, new
<1>6. /\ releases' \in Seq(Released) /\ releases' # <<>>
      /\ releases'[Len(releases')] = new
  BY <1>2, <1>3, <1>4, LastOf
<1>7. PassOn("helm") BY <1>f, StepForms
<1>8. EdgeForm' BY <1>f, <1>6, <1>7 DEF EdgeForm, PassOn
<1>9. OneInMotion' /\ StatesRead' /\ Chosen'
  BY <1>f, <1>7 DEF PassOn, OneInMotion, StatesRead, Chosen, Choosing
<1> QED BY <1>1, <1>5, <1>6, <1>8, <1>9 DEF EdgeInv

(* The release is deployed or fails: nothing is in motion then. *)
LEMMA EdgeHelmApplied ==
  ASSUME UnpackInv, EdgeInv, HelmApplied
  PROVE  EdgeInv' /\ ~Moves(releases')
PROOF
<1>f. /\ ExtForm /\ rec.step = "helm" /\ runtime = "helm" /\ UNCHANGED <<runtime, world>>
      /\ world \in WorldRecords /\ rec.ext.source \in ExtSources /\ releases \in Seq(Released)
      /\ releases # <<>>
  BY DEF UnpackInv, EdgeInv, EdgeForm, HelmApplied, InRec, unchangedWorld
<1>1. PassOn("save")
  <2>1. \E st, err : Ends(st, err) BY Zenon DEF HelmApplied, Applied
  <2> QED BY <1>f, <2>1, StepForms
<1> DEFINE n == Len(releases)
<1>2. n \in Nat \ {0} /\ DOMAIN releases = 1..n /\ \A i \in 1..n : releases[i] \in Released BY <1>f
<1>3. ASSUME releases' = Deployed
      PROVE  releases' \in [1..n -> Released] /\ releases'[n].state = "deployed"
  <2> DEFINE F(i) == CASE i = n -> [releases[i] EXCEPT !.state = "deployed"]
                       [] i < n /\ releases[i].state = "deployed" -> [releases[i] EXCEPT !.state = "superseded"]
                       [] OTHER -> releases[i]
  <2>1. Deployed = [i \in 1..n |-> F(i)] BY <1>2 DEF Deployed
  <2>2. ASSUME NEW i \in 1..n PROVE F(i) \in Released
    <3>1. "deployed" \in ReleaseStates /\ "superseded" \in ReleaseStates BY DEF ReleaseStates
    <3>2. releases[i] \in Released BY <1>2
    <3>3. /\ [releases[i] EXCEPT !.state = "deployed"] \in Released
          /\ [releases[i] EXCEPT !.state = "superseded"] \in Released
      BY <3>1, <3>2, ReleasedForm
    <3> DEFINE d == [releases[i] EXCEPT !.state = "deployed"]
               s == [releases[i] EXCEPT !.state = "superseded"]
    <3>4. F(i) = IF i = n THEN d ELSE IF i < n /\ releases[i].state = "deployed" THEN s ELSE releases[i]
      <4> HIDE DEF d, s
      <4>1. ~(i = n /\ i < n)
        <5> HIDE DEF n, F
        <5> QED BY <1>2
      <4> QED BY <4>1 DEF d, s
    <3> HIDE DEF d, s, F
    <3> QED BY <3>2, <3>3, <3>4 DEF d, s
  <2>3. F(n) = [releases[n] EXCEPT !.state = "deployed"]
    <3>1. ~(n < n) BY <1>2
    <3> QED BY <3>1
  <2>4. F(n).state = "deployed" BY <1>2, <2>3, ReleasedForm DEF ReleaseStates
  <2> HIDE DEF F
  <2> QED BY <1>2, <1>3, <2>1, <2>2, <2>4
<1>4. ASSUME releases' = [releases EXCEPT ![Len(releases)].state = "failed"]
      PROVE  releases' \in [1..n -> Released] /\ releases'[n].state = "failed"
  <2>1. releases' = [releases EXCEPT ![n] = [releases[n] EXCEPT !.state = "failed"]] BY <1>4
  <2> DEFINE x == [releases[n] EXCEPT !.state = "failed"]
  <2>2. x \in Released /\ x.state = "failed"
    <3>1. "failed" \in ReleaseStates BY DEF ReleaseStates
    <3>2. releases[n] \in Released
      <4> HIDE DEF n
      <4> QED BY <1>2
    <3> HIDE DEF n
    <3> QED BY <3>1, <3>2, ReleasedForm
  <2>3. releases \in [1..n -> Released] BY <1>f, <1>2
  <2> HIDE DEF x
  <2> QED BY <1>2, <2>1, <2>2, <2>3 DEF x
<1>5. /\ releases' \in [1..n -> Released]
      /\ releases'[n].state \in {"deployed", "failed"}
  BY <1>3, <1>4 DEF HelmApplied
<1>6. releases' \in Seq(Released) /\ Len(releases') = n
  <2> HIDE DEF n
  <2> QED BY <1>2, <1>5, SeqForm
<1>7. ~Moves(releases') BY <1>2, <1>5, <1>6 DEF Moves
<1>8. EdgeForm' BY <1>f, <1>1, <1>6 DEF EdgeForm, PassOn
<1>9. OneInMotion' /\ StatesRead' /\ Chosen'
  BY <1>f, <1>1 DEF PassOn, OneInMotion, StatesRead, Chosen, Choosing
<1> QED BY <1>7, <1>8, <1>9 DEF EdgeInv

(* What a step may put in motion. *)
MovesAlongEdge ==
  LET to == releases'[Len(releases')].metadata IN
  Moves(releases') /\ ~(Moves(releases) /\ releases[Len(releases)].metadata = to) =>
    to = Installed \/ to.name \in Edges[rec.ext.source][Installed]

(* The Boxcutter applier makes a revision only when none rolls out: one that
   does is of the bundle the pass goes on with, whose manifests it has. *)
LEMMA EdgeBoxcutter ==
  ASSUME UnpackInv, EdgeInv, BoxcutterApply
  PROVE  EdgeInv' /\ MovesAlongEdge
PROOF
<1>f. /\ ExtForm /\ rec.step = "apply" /\ runtime # "helm" /\ UNCHANGED <<runtime, world>>
      /\ world \in WorldRecords /\ rec.ext.source \in ExtSources /\ releases \in Seq(Released)
  BY DEF UnpackInv, EdgeInv, EdgeForm, BoxcutterApply, InRec, unchangedWorld, Applying
<1>e. PassOn("save")
  <2>1. \E st, err : Ends(st, err) BY Zenon DEF BoxcutterApply
  <2> QED BY <1>f, <2>1, StepForms
<1> DEFINE n == Len(releases)
           m == rec.resolved
           new == [metadata |-> m, state |-> "new", manifest |-> RenderedManifest(m.name)]
<1>1. m \in KnownMetadata /\ n \in Nat /\ DOMAIN releases = 1..n
      /\ \A i \in 1..n : releases[i] \in Released
  BY <1>f DEF EdgeInv, Chosen
<1>2. CASE UNCHANGED releases
  <2>1. EdgeInv' BY <1>e, <1>f, <1>2, EdgeOutside DEF PassOn, Choosing
  <2>2. MovesAlongEdge BY <1>2 DEF MovesAlongEdge
  <2> QED BY <2>1, <2>2
<1>3. CASE LastRelease.manifest # RenderedManifest(m.name) /\ releases' = Append(releases, new)
  <2>1. DOMAIN rec.states.rolling = {}
    <3> SUFFICES ASSUME DOMAIN rec.states.rolling # {} PROVE FALSE OBVIOUS
    <3>1. releases # <<>> /\ m = LastMetadata BY <1>f DEF EdgeInv, StatesRead, Chosen, Choosing
    <3>2. n \in 1..n BY <1>f, <1>1, <3>1
    <3>3. releases[n] \in Released BY <1>1, <3>2
    <3>4. releases[n].manifest = RenderedManifest(releases[n].metadata.name) BY <3>3 DEF Released
    <3>5. LastRelease = releases[n] BY <3>1 DEF LastRelease, NoReleases
    <3> QED BY <1>3, <3>1, <3>4, <3>5 DEF LastMetadata
  <2>2. rec.states.installed = Installed /\ RollingOut = {} BY <1>f, <2>1 DEF EdgeInv, StatesRead, Choosing
  <2>3. EdgeFrom(rec.ext.source, Installed, m) BY <1>f, <2>1, <2>2 DEF EdgeInv, Chosen
  <2>4. \A i \in 1..n : releases[i].state \in Settled
    BY <1>f, <1>1, <2>2 DEF RollingOut, Settled
  <2>5. new \in Released /\ new.metadata = m
    <3>1. "new" \in ReleaseStates BY DEF ReleaseStates
    <3> QED BY <1>1, <3>1, ReleasedForm
  <2> HIDE DEF new
  <2>6. /\ releases' \in Seq(Released) /\ Len(releases') = n + 1 /\ DOMAIN releases' = 1..(n + 1)
        /\ releases'[n + 1] = new /\ \A i \in 1..n : releases'[i] = releases[i]
    BY <1>3, <1>f, <2>5, LastOf
  <2>7. EdgeForm' BY <1>f, <1>e, <2>6 DEF EdgeForm, PassOn
  <2>8. OneInMotion'
    <3>1. ASSUME NEW i \in DOMAIN releases', i < Len(releases') PROVE releases'[i].state \in Settled
      <4>1. i \in 1..n BY <1>1, <2>6, <3>1
      <4> QED BY <2>4, <2>6, <4>1
    <3> QED BY <3>1 DEF OneInMotion
  <2>9. StatesRead' /\ Chosen' BY <1>e DEF PassOn, StatesRead, Chosen, Choosing
  <2>10. releases'[Len(releases')].metadata = m BY <2>5, <2>6
  <2>11. MovesAlongEdge BY <2>3, <2>10 DEF MovesAlongEdge, EdgeFrom
  <2> QED BY <2>7, <2>8, <2>9, <2>11 DEF EdgeInv
<1>4. \/ UNCHANGED releases
      \/ /\ LastRelease.manifest # RenderedManifest(m.name)
         /\ releases' = Append(releases, new)
  BY DEF BoxcutterApply
<1> QED BY <1>2, <1>3, <1>4

(* Rollouts go on during a pass. One in progress is the last, and what the
   pass has read of it stays true. *)
LEMMA EdgeRevision ==
  ASSUME UnpackInv, EdgeInv, NEW i \in DOMAIN releases, RevisionProgresses(i)
  PROVE  EdgeInv' /\ MovesAlongEdge
PROOF
<1> DEFINE n == Len(releases)
<1>f. /\ runtime # "helm" /\ UNCHANGED <<runtime, world, rec>> /\ releases \in Seq(Released)
      /\ releases[i].state \notin Settled
  BY DEF UnpackInv, EdgeInv, EdgeForm, RevisionProgresses, unchangedWorld, Settled
<1>1. n \in Nat /\ DOMAIN releases = 1..n /\ releases \in [1..n -> Released] BY <1>f
<1>2. i = n /\ n # 0 BY <1>f, <1>1 DEF EdgeInv, OneInMotion
<1>o. \A j \in 1..n : j < n => j # n /\ releases[j].state \in Settled
  <2>1. \A j \in 1..n : j < n => releases[j].state \in Settled
    BY <1>f, <1>1 DEF EdgeInv, OneInMotion
  <2> HIDE DEF n
  <2>2. \A j \in 1..n : j < n => j # n BY <1>1
  <2> QED BY <2>1, <2>2
<1>3. ASSUME NEW st \in ReleaseStates \ {"new", "pending"}, releases' = [releases EXCEPT ![i].state = st]
      PROVE  /\ releases' \in [1..n -> Released]
             /\ \A j \in 1..n : releases'[j].metadata = releases[j].metadata
             /\ \A j \in 1..n : j < n => releases'[j].state \in Settled
             /\ releases'[n].state \notin {"new", "pending"}
  <2> DEFINE x == [releases[n] EXCEPT !.state = st]
  <2>1. releases' = [releases EXCEPT ![n] = x] BY <1>2, <1>3
  <2>2. releases[n] \in Released BY <1>1, <1>2
  <2>3. x \in Released /\ x.state = st /\ x.metadata = releases[n].metadata
    BY <1>3, <2>2, ReleasedForm
  <2> HIDE DEF x, n
  <2>4. \A j \in 1..n : releases'[j] = IF j = n THEN x ELSE releases[j] BY <1>1, <2>1
  <2>5. releases' \in [1..n -> Released] BY <1>1, <2>1, <2>3
  <2> QED BY <1>1, <1>2, <1>3, <1>o, <2>3, <2>4, <2>5
<1>4. ASSUME releases' = [j \in DOMAIN releases |->
                            CASE j = i -> [releases[j] EXCEPT !.state = "Succeeded"]
                              [] j < i -> [releases[j] EXCEPT !.state = "archived"]
                              [] OTHER -> releases[j]]
      PROVE  /\ releases' \in [1..n -> Released]
             /\ \A j \in 1..n : releases'[j].metadata = releases[j].metadata
             /\ \A j \in 1..n : j < n => releases'[j].state \in Settled
             /\ releases'[n].state \notin {"new", "pending"}
  <2> DEFINE good(j) == [releases[j] EXCEPT !.state = "Succeeded"]
             gone(j) == [releases[j] EXCEPT !.state = "archived"]
             F(j) == CASE j = i -> good(j) [] j < i -> gone(j) [] OTHER -> releases[j]
  <2>1. releases' = [j \in 1..n |-> F(j)] BY <1>1, <1>4
  <2>2. ASSUME NEW j \in 1..n
        PROVE  /\ good(j) \in Released /\ good(j).state = "Succeeded" /\ good(j).metadata = releases[j].metadata
               /\ gone(j) \in Released /\ gone(j).state = "archived" /\ gone(j).metadata = releases[j].metadata
    <3>1. "Succeeded" \in ReleaseStates /\ "archived" \in ReleaseStates BY DEF ReleaseStates
    <3>2. releases[j] \in Released BY <1>1, <2>2
    <3> QED BY <3>1, <3>2, ReleasedForm
  <2> HIDE DEF good, gone
  <2>3. ASSUME NEW j \in 1..n PROVE F(j) = IF j = n THEN good(j) ELSE gone(j)
    <3>1. j # n => j < i /\ j # i
      <4> HIDE DEF n
      <4> QED BY <1>1, <1>2, <2>3
    <3>2. j = n => j = i /\ ~(j < i)
      <4> HIDE DEF n
      <4> QED BY <1>1, <1>2, <2>3
    <3> QED BY <1>2, <3>1, <3>2
  <2> HIDE DEF F, n
  <2>4. \A j \in 1..n : releases'[j] = IF j = n THEN good(j) ELSE gone(j) BY <2>1, <2>3
  <2>5. \A j \in 1..n : releases'[j] \in Released BY <2>2, <2>4
  <2>6. releases' \in [1..n -> Released] BY <2>1, <2>5
  <2>7. n \in 1..n /\ \A j \in 1..n : j < n => j # n BY <1>1, <1>2
  <2> QED BY <2>2, <2>4, <2>6, <2>7 DEF Settled
<1>5. /\ releases' \in [1..n -> Released]
      /\ \A j \in 1..n : releases'[j].metadata = releases[j].metadata
      /\ \A j \in 1..n : j < n => releases'[j].state \in Settled
      /\ releases'[n].state \notin {"new", "pending"}
  <2>1. \/ \E st \in {"RollingOut", "Retrying"} : releases' = [releases EXCEPT ![i].state = st]
        \/ releases' = [j \in DOMAIN releases |->
                          CASE j = i -> [releases[j] EXCEPT !.state = "Succeeded"]
                            [] j < i -> [releases[j] EXCEPT !.state = "archived"]
                            [] OTHER -> releases[j]]
    BY Zenon DEF RevisionProgresses
  <2>2. {"RollingOut", "Retrying"} \subseteq ReleaseStates \ {"new", "pending"} BY DEF ReleaseStates
  <2> HIDE DEF n
  <2> QED BY <1>3, <1>4, <2>1, <2>2
<1>6. releases' \in Seq(Released) /\ Len(releases') = n /\ DOMAIN releases' = 1..n
  <2> HIDE DEF n
  <2> QED BY <1>1, <1>5, SeqForm
<1>7. LastMetadata' = LastMetadata /\ releases' # <<>>
  BY <1>1, <1>2, <1>5, <1>6 DEF LastMetadata
<1>8. EdgeForm' BY <1>f, <1>6, <1>7 DEF EdgeInv, EdgeForm
<1>9. OneInMotion' BY <1>5, <1>6 DEF OneInMotion
<1>10. rec.step \in Choosing => DOMAIN rec.states.rolling # {}
  BY <1>f DEF EdgeInv, StatesRead, RollingOut, Settled
<1>11. StatesRead' BY <1>f, <1>7, <1>10 DEF EdgeInv, StatesRead
<1>12. Chosen' BY <1>f, <1>7, <1>10 DEF EdgeInv, Chosen, Choosing
<1>13. MovesAlongEdge BY <1>5, <1>6 DEF MovesAlongEdge, Moves
<1> QED BY <1>8, <1>9, <1>11, <1>12, <1>13 DEF EdgeInv

(* The steps of a pass that choose nothing and put nothing in motion. *)
LEMMA EdgeQuiet ==
  ASSUME UnpackInv, EdgeInv,
         \/ ReadExtension \/ HandleFinalizers \/ ValidateClusterExtension \/ ApplyRefused
         \/ HelmReconcile \/ UpdateStatus \/ UpdateFinalizers \/ CrashExtension
  PROVE  EdgeInv' /\ UNCHANGED releases
PROOF
<1>f. /\ ExtForm /\ world \in WorldRecords /\ (rec.step # "idle" => rec.ext.source \in ExtSources)
      /\ UNCHANGED <<runtime, releases, world>>
  BY DEF UnpackInv, EdgeInv, EdgeForm, ReadExtension, HandleFinalizers, ValidateClusterExtension,
         ApplyRefused, HelmReconcile, UpdateStatus, UpdateFinalizers, CrashExtension, unchangedWorld
<1>d. DOMAIN rec = {"step", "ext", "status", "finalizers", "states", "resolved",
                    "content", "deprecation", "hasCatalogData", "err", "stale"}
  BY <1>f, IdleForm DEF ExtForm
<1>o. ASSUME rec'.step \notin Choosing \cup {"helm"},
             rec'.step # "idle" => rec'.ext.source \in ExtSources
      PROVE  EdgeInv' /\ UNCHANGED releases
  BY <1>f, <1>o, EdgeOutside
<1>p. ASSUME rec.step # "idle", NEW t \in {"validate", "states", "save", "patch"}, PassOn(t)
      PROVE  EdgeInv' /\ UNCHANGED releases
  BY <1>f, <1>o, <1>p DEF PassOn, Choosing
<1>e. ASSUME rec.step # "idle", \E st, err : Ends(st, err) PROVE EdgeInv' /\ UNCHANGED releases
  <2>1. PassOn("save") BY <1>e, <1>f, StepForms
  <2> QED BY <1>e, <1>p, <2>1
<1>i. ASSUME rec' = Idle PROVE EdgeInv' /\ UNCHANGED releases
  BY <1>i, <1>o, IdleForm DEF Choosing
<1>1. CASE ReadExtension
  <2>1. CASE rec' = Idle BY <1>i, <2>1
  <2>2. CASE rec' = [Idle EXCEPT !.step = ReconcileSteps[1], !.ext = ext, !.status = extStatus,
                                 !.finalizers = ext.finalizers]
    <3>1. rec'.step = "finalizers" /\ rec'.ext = ext BY <2>2, IdleForm, StepOrder
    <3>2. ext.source \in ExtSources BY <1>f DEF ExtForm, ExtRecords
    <3> QED BY <1>o, <3>1, <3>2 DEF Choosing
  <2> QED BY <1>1, <2>1, <2>2 DEF ReadExtension
<1>2. CASE HandleFinalizers
  <2>0. rec.step = "finalizers" /\ Following(rec.step) = "validate"
    BY <1>2, StepOrder DEF HandleFinalizers, InRec
  <2>1. CASE rec' = [rec EXCEPT !.step = Following(@)]
    <3>1. Goto("validate") BY <2>0, <2>1 DEF Goto
    <3>2. PassOn("validate") BY <1>f, <3>1, StepForms
    <3> QED BY <1>p, <2>0, <3>2
  <2>2. ASSUME NEW a, rec' = [rec EXCEPT !.step = "save", !.finalizers = a]
        PROVE  EdgeInv' /\ UNCHANGED releases
    <3>1. rec'.step = "save" /\ rec'.ext = rec.ext BY <1>d, <2>2
    <3> QED BY <1>f, <1>o, <2>0, <3>1 DEF Choosing
  <2>3. ASSUME NEW a, NEW b, NEW c,
               rec' = [rec EXCEPT !.step = "save", !.finalizers = a, !.err = b, !.status = c]
        PROVE  EdgeInv' /\ UNCHANGED releases
    <3>1. rec'.step = "save" /\ rec'.ext = rec.ext BY <1>d, <2>3
    <3> QED BY <1>f, <1>o, <2>0, <3>1 DEF Choosing
  <2>4. \/ rec' = [rec EXCEPT !.step = Following(@)]
        \/ \E a : rec' = [rec EXCEPT !.step = "save", !.finalizers = a]
        \/ \E a, b, c : rec' = [rec EXCEPT !.step = "save", !.finalizers = a, !.err = b, !.status = c]
    BY <1>2 DEF HandleFinalizers
  <2> QED BY <2>1, <2>2, <2>3, <2>4
<1>3. CASE ValidateClusterExtension
  <2>1. rec.step = "validate" /\ Following(rec.step) = "states"
    BY <1>3, StepOrder DEF ValidateClusterExtension, InRec
  <2>2. Goto("states") \/ \E st, err : Ends(st, err) BY <1>3, <2>1 DEF ValidateClusterExtension
  <2>3. CASE Goto("states")
    <3>1. PassOn("states") BY <1>f, <2>3, StepForms
    <3> QED BY <1>p, <2>1, <3>1
  <2> QED BY <1>e, <2>1, <2>2, <2>3
<1>4. CASE ApplyRefused \/ HelmReconcile
  <2>1. rec.step = "apply" BY <1>4 DEF ApplyRefused, HelmReconcile, ReadyToApply, Applying, InRec
  <2>2. \E b, err : Applied(b, err) BY <1>4 DEF ApplyRefused, HelmReconcile
  <2>3. \E st, err : Ends(st, err) BY <2>2 DEF Applied
  <2> QED BY <1>e, <2>1, <2>3
<1>5. CASE UpdateStatus
  <2>1. rec.step = "save" /\ Goto("patch") BY <1>5 DEF UpdateStatus, InRec
  <2>2. PassOn("patch") BY <1>f, <2>1, StepForms
  <2> QED BY <1>p, <2>1, <2>2
<1>6. CASE UpdateFinalizers \/ CrashExtension
  BY <1>i, <1>6 DEF UpdateFinalizers, CrashExtension
<1> QED BY <1>1, <1>2, <1>3, <1>4, <1>5, <1>6

(* Users and the world: a pass keeps to the copy it has read. *)
LEMMA EdgeUsers ==
  ASSUME UnpackInv, EdgeInv,
         \/ \E s \in ExtSources : EditSpec(s)
         \/ \E cs \in CatalogLists : ChangeCatalogs(cs)
         \/ DeleteExtension \/ ChangeWorld
  PROVE  EdgeInv' /\ UNCHANGED releases
PROOF
<1>f. ExtForm /\ world \in WorldRecords /\ UNCHANGED <<runtime, releases>>
  BY DEF UnpackInv, EdgeInv, EdgeForm, EditSpec, ChangeCatalogs, DeleteExtension, ChangeWorld, ofController
<1>1. world' \in WorldRecords
  <2>1. ASSUME NEW cs \in CatalogLists, ChangeCatalogs(cs) PROVE world' \in WorldRecords
    <3>1. world' = [world EXCEPT !.catalogs = cs] BY <2>1 DEF ChangeCatalogs
    <3> QED BY <1>f, <2>1, <3>1 DEF WorldRecords
  <2>2. CASE ChangeWorld
    <3>1. \/ world' = [world EXCEPT !.registry = ~@]
          \/ world' = [world EXCEPT !.serviceAccount = ~@]
      BY <2>2 DEF ChangeWorld
    <3> QED BY <1>f, <3>1 DEF WorldRecords
  <2>3. CASE UNCHANGED world BY <1>f, <2>3
  <2> QED BY <2>1, <2>2, <2>3 DEF EditSpec, DeleteExtension
<1>2. /\ rec'.ext = rec.ext /\ rec'.states = rec.states /\ rec'.resolved = rec.resolved
      /\ rec'.step = rec.step
  <2>1. UNCHANGED rec \/ \E a : rec' = [rec EXCEPT !.stale = a]
    BY DEF EditSpec, ChangeCatalogs, DeleteExtension, ChangeWorld, Changed
  <2> QED BY <1>f, <2>1, ChoiceForms
<1>3. EdgeInv'
  <2>1. rec'.step = rec.step \/ (rec.step = "unpack" /\ rec'.step = "apply") BY <1>2
  <2> QED BY <1>f, <1>1, <1>2, <2>1, EdgeKept
<1> QED BY <1>f, <1>3

(* Every step keeps the invariant and moves along an edge. *)
LEMMA EdgeStep ==
  UnpackInv /\ EdgeInv /\ [ExtNext]_extVars => EdgeInv' /\ (UNCHANGED extVars \/ MovesAlongEdge)
PROOF
<1> SUFFICES ASSUME UnpackInv, EdgeInv, [ExtNext]_extVars
             PROVE  EdgeInv' /\ (UNCHANGED extVars \/ MovesAlongEdge)
  OBVIOUS
<1>0. ASSUME UNCHANGED releases PROVE MovesAlongEdge BY <1>0 DEF MovesAlongEdge
<1>1. CASE UNCHANGED extVars
  <2>1. UNCHANGED <<runtime, releases>> /\ world' = world /\ rec' = rec BY <1>1 DEF extVars
  <2>2. world' \in WorldRecords BY <2>1 DEF EdgeInv, EdgeForm
  <2>3. EdgeInv' BY <2>1, <2>2, EdgeKept
  <2> QED BY <1>1, <2>3
<1>2. CASE ReconcileStep
  <2>1. CASE \/ ReadExtension \/ HandleFinalizers \/ ValidateClusterExtension \/ ApplyRefused
             \/ HelmReconcile \/ UpdateStatus \/ UpdateFinalizers
    BY <1>0, <2>1, EdgeQuiet
  <2>2. CASE RetrieveRevisionStates \/ ResolveBundle \/ UnpackBundle
    <3>1. EdgeInv' BY <2>2, EdgeStates, EdgeResolve, EdgeUnpack
    <3>2. UNCHANGED releases BY <2>2 DEF RetrieveRevisionStates, ResolveBundle, UnpackBundle
    <3> QED BY <1>0, <3>1, <3>2
  <2>3. CASE HelmRecord
    <3>1. /\ EdgeInv' /\ releases'[Len(releases')].metadata = rec.resolved
          /\ EdgeFrom(rec.ext.source, Installed, rec.resolved)
      BY <2>3, EdgeHelmRecord
    <3>2. MovesAlongEdge BY <3>1 DEF MovesAlongEdge, EdgeFrom
    <3> QED BY <3>1, <3>2
  <2>4. CASE HelmApplied
    <3>1. EdgeInv' /\ ~Moves(releases') BY <2>4, EdgeHelmApplied
    <3>2. MovesAlongEdge BY <3>1 DEF MovesAlongEdge
    <3> QED BY <3>1, <3>2
  <2>5. CASE BoxcutterApply BY <2>5, EdgeBoxcutter
  <2> QED BY <1>2, <2>1, <2>2, <2>3, <2>4, <2>5 DEF ReconcileStep
<1>3. ASSUME NEW i \in DOMAIN releases, RevisionProgresses(i)
      PROVE  EdgeInv' /\ MovesAlongEdge
  BY <1>3, EdgeRevision
<1>4. CASE \/ \E s \in ExtSources : EditSpec(s)
           \/ \E cs \in CatalogLists : ChangeCatalogs(cs)
           \/ DeleteExtension \/ ChangeWorld \/ CrashExtension
  BY <1>0, <1>4, EdgeUsers, EdgeQuiet
<1> QED BY <1>1, <1>2, <1>3, <1>4 DEF ExtNext

(* Under both runtimes no step puts a Helm release or a revision in motion that
   is neither of the installed bundle nor of one that a catalog offers to it for
   the source the pass has read: not when users edit the source or the catalogs
   change between resolving and applying, not when a rollout ends or fails in
   between, and not after a crash. Whatever is in motion already stays. *)
THEOREM UpgradesFollowEdges == ExtSpec => UpgradeEdgesOnly
PROOF
<1>1. UnpackInv /\ EdgeInv /\ [ExtNext]_extVars => [MovesAlongEdge]_extVars BY EdgeStep
<1>2. UnpackInv /\ EdgeInv /\ [ExtNext]_extVars => EdgeInv' BY EdgeStep
<1> QED BY <1>1, <1>2, UnpackInit, UnpackStep, EdgeInit, PTL DEF ExtSpec, UpgradeEdgesOnly, MovesAlongEdge

-----------------------------------------------------------------------------
(* Resolution over the catalogs of the samples. *)

LEMMA ResolveExactOf == ASSUME AreCatalogs(sample.catalogs) PROVE ResolveExact
<1>1. ResolveBest(sample.catalogs, [sampleSource EXCEPT !.channels = sample.channels], sample.installed)
  BY ResolutionBest
<1>2. ASSUME NEW i \in DOMAIN sample.catalogs, NEW b \in ToSet(sample.catalogs[i].fbc.bundles)
      PROVE  VersionRoundTrips(b)
  <2>1. b.prop \in Properties
    BY DEF ToSet, AreCatalogs
  <2>2. QED
    BY <2>1, VersionsRoundTrip
<1>3. QED
  BY <1>1, <1>2 DEF ResolveExact

(* A catalog as resolution expects it. *)
IsCatalog(c) ==
  /\ c.priority \in Int /\ IsList(c.fbc.bundles)
  /\ \A k \in DOMAIN c.fbc.bundles : c.fbc.bundles[k].prop \in Properties

LEMMA SampledFBC ==
  ASSUME NEW f \in sampleFBCs
  PROVE  IsList(f.bundles) /\ \A k \in DOMAIN f.bundles : f.bundles[k].prop \in Properties
<1>1. PICK b \in sampleBundles, c \in sampleBundles : f.bundles = <<b, c>>
  BY DEF sampleFBCs
<1>2. \A x \in sampleBundles : x.prop \in Properties
  BY DEF sampleBundles, Properties, NoProperty, NotARelease, Absent
<1>3. Len(f.bundles) = 2 /\ DOMAIN f.bundles = 1..2
  BY <1>1
<1>4. f.bundles[1].prop \in Properties /\ f.bundles[2].prop \in Properties
  BY <1>1, <1>2
<1>5. \A k \in 1..2 : k = 1 \/ k = 2
  OBVIOUS
<1>6. QED
  BY <1>3, <1>4, <1>5 DEF IsList

LEMMA SampledOthers ==
  ASSUME NEW k \in Others
  PROVE  k = <<>> \/ \E c : k = <<c>> /\ IsCatalog(c)
<1> DEFINE Bs == {mcBundle("z", 1)}
           Ps == {0, 1}
           Ms == {"Available", "Unavailable"}
           Ds == {<<>>, <<{[schema |-> "olm.bundle", name |-> "z", message |-> TRUE]}>>}
           One(b, p, m, d) == <<sampleCatalog("k", mcFBC(<<b>>, {mcEntry("z", "old")}, d), p, m)>>
<1>0. Others = {<<>>} \cup {One(b, p, m, d) : b \in Bs, p \in Ps, m \in Ms, d \in Ds}
  BY DEF Others
<1> HIDE DEF Bs, Ps, Ms, Ds, One
<1>a. k = <<>> \/ \E b \in Bs, p \in Ps, m \in Ms, d \in Ds : k = One(b, p, m, d)
  BY <1>0
<1>1. SUFFICES ASSUME NEW b \in Bs, NEW p \in Ps, NEW m \in Ms, NEW d \in Ds, k = One(b, p, m, d)
               PROVE  \E c : k = <<c>> /\ IsCatalog(c)
  BY <1>a
<1> DEFINE c == sampleCatalog("k", mcFBC(<<b>>, {mcEntry("z", "old")}, d), p, m)
<1>2. c.priority \in Int /\ c.fbc.bundles = <<b>>
  BY DEF sampleCatalog, mcFBC, Ps
<1>3. b.prop \in Properties
  BY <1>1 DEF mcBundle, Properties, Absent, Bs
<1> HIDE DEF c
<1>4. IsCatalog(c)
  BY <1>2, <1>3 DEF IsCatalog, IsList
<1>5. QED
  BY <1>1, <1>4 DEF c, One

LEMMA SampledCatalogs ==
  ASSUME NEW j, IsCatalog(j), NEW k \in Others
  PROVE  AreCatalogs(<<j>> \o k) /\ AreCatalogs(k \o <<j>>)
<1>1. CASE k = <<>>
  <2>1. <<j>> \o k = <<j>> /\ k \o <<j>> = <<j>>
    BY <1>1
  <2>2. AreCatalogs(<<j>>)
    BY DEF AreCatalogs, IsCatalog, IsList
  <2>3. QED
    BY <2>1, <2>2
<1>2. CASE k # <<>>
  <2>1. PICK c : k = <<c>> /\ IsCatalog(c)
    BY <1>2, SampledOthers
  <2>2. ASSUME NEW x, NEW y, IsCatalog(x), IsCatalog(y) PROVE AreCatalogs(<<x>> \o <<y>>)
    <3> DEFINE s == <<x>> \o <<y>>
    <3>1. <<x>> \in Seq({x, y}) /\ <<y>> \in Seq({x, y}) /\ Len(<<x>>) = 1 /\ Len(<<y>>) = 1
      OBVIOUS
    <3>2. s \in Seq({x, y}) /\ Len(s) = 1 + 1
      BY <3>1, ConcatProperties
    <3> HIDE DEF s
    <3>3. \A i \in DOMAIN s : IsCatalog(s[i])
      BY <2>2, <3>2
    <3>4. Len(s) \in Nat /\ DOMAIN s = 1..Len(s)
      BY <3>2
    <3>5. AreCatalogs(s)
      BY <3>3, <3>4 DEF AreCatalogs, IsCatalog, IsList
    <3>6. QED
      BY <3>5 DEF s
  <2>3. QED
    BY <2>1, <2>2
<1>3. QED
  BY <1>1, <1>2

LEMMA SampleStep == ASSUME TakeSample PROVE AreCatalogs(sample'.catalogs)
<1>1. AreCatalogs(NoSample.catalogs)
  BY DEF NoSample, AreCatalogs, IsList
<1>2. CASE sample' = NoSample
  BY <1>1, <1>2
<1>3. CASE sample' # NoSample
  <2> DEFINE J(f, p) == sampleCatalog("j", f, p, "Available")
  <2> HIDE DEF J
  <2>0. PICK f \in sampleFBCs, k \in Others, p \in {0, 1}, m \in sampleInstalled, cs \in {{}, {"stable"}} :
          \/ sample' = [catalogs |-> <<J(f, p)>> \o k, channels |-> cs, installed |-> m]
          \/ sample' = [catalogs |-> k \o <<J(f, p)>>, channels |-> cs, installed |-> m]
    BY <1>3, Zenon DEF TakeSample, J
  <2>1. sample'.catalogs = <<J(f, p)>> \o k \/ sample'.catalogs = k \o <<J(f, p)>>
    BY <2>0
  <2> DEFINE j == sampleCatalog("j", f, p, "Available")
  <2>2. j.priority \in Int /\ j.fbc = f
    BY DEF sampleCatalog
  <2>3. sample'.catalogs = <<j>> \o k \/ sample'.catalogs = k \o <<j>>
    BY <2>1 DEF J
  <2> HIDE DEF j
  <2>4. IsCatalog(j)
    BY <2>2, SampledFBC DEF IsCatalog
  <2>5. QED
    BY <2>3, <2>4, SampledCatalogs
<1>4. QED
  BY <1>2, <1>3

(* Whatever catalogs are sampled: Resolve (resolve/catalog.go) answers with the
   best bundle there is, and every bundle of theirs has its own version again
   when it is read back. It holds of any catalogs (ResolutionBest and
   VersionsRoundTrip), those of the run are of that kind. *)
THEOREM ResolutionExact == PartsSpec => []ResolveExact
<1> DEFINE Sampled == AreCatalogs(sample.catalogs)
<1>1. PartsInit => Sampled
  BY DEF PartsInit, NoSample, AreCatalogs, IsList
<1>2. Sampled /\ [PartsNext]_extParts => Sampled'
  <2>1. CASE part = "resolution" /\ TakeSample
    BY <2>1, SampleStep
  <2>2. CASE UNCHANGED sample
    BY <2>2
  <2>3. QED
    BY <2>1, <2>2 DEF PartsNext, extParts
<1>3. Sampled => ResolveExact
  BY ResolveExactOf
<1> HIDE DEF Sampled
<1>4. QED
  BY <1>1, <1>2, <1>3, PTL DEF PartsSpec
=============================================================================
