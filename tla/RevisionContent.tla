--------------------------- MODULE RevisionContent ---------------------------
(***************************************************************************)
(* What operator-controller puts into a ClusterObjectSet: the manifests of *)
(* a bundle, or of a Helm release it migrates, sorted into phases          *)
(* (applier/boxcutter.go, applier/phase.go), packed into Secrets that the  *)
(* phases refer to (applier/secretpacker.go), and the progression probes   *)
(* that say when a phase is complete (controllers/                         *)
(* clusterobjectset_controller.go).                                        *)
(*                                                                         *)
(* A manifest is a record of its group, version, kind, ns and name, its    *)
(* metadata keys, labels and annotations, and the sizes of its JSON plain  *)
(* (size) and compressed (zip). The JSON itself is named by its identity.  *)
(***************************************************************************)
EXTENDS Integers, Sequences, FiniteSets, TLC, SequencesExt

CONSTANTS
  Rank(_),             \* the place of a string in the byte order of strings
  maxSecretDataSize,   \* bytes of data a Secret takes
  gzipThreshold        \* objects above this size are compressed

ASSUME PackSizes == maxSecretDataSize \in Nat /\ gzipThreshold \in Nat

-----------------------------------------------------------------------------
(* Phases.                                                                  *)

defaultPhaseOrder ==
  <<"namespaces", "policies", "identity", "configuration", "storage", "crds", "roles",
    "bindings", "infrastructure", "deploy", "scaling", "publish", "admission">>

console == "console.openshift.io"
rbac == "rbac.authorization.k8s.io"
phaseGKMap ==
  [namespaces     |-> {<<"", "Namespace">>},
   policies       |-> {<<"networking.k8s.io", "NetworkPolicy">>, <<"policy", "PodDisruptionBudget">>,
                       <<"scheduling.k8s.io", "PriorityClass">>},
   identity       |-> {<<"", "ServiceAccount">>},
   configuration  |-> {<<"", "Secret">>, <<"", "ConfigMap">>},
   storage        |-> {<<"", "PersistentVolume">>, <<"", "PersistentVolumeClaim">>,
                       <<"storage.k8s.io", "StorageClass">>},
   crds           |-> {<<"apiextensions.k8s.io", "CustomResourceDefinition">>},
   roles          |-> {<<rbac, "ClusterRole">>, <<rbac, "Role">>},
   bindings       |-> {<<rbac, "ClusterRoleBinding">>, <<rbac, "RoleBinding">>},
   infrastructure |-> {<<"", "Service">>, <<"cert-manager.io", "Issuer">>,
                       <<"cert-manager.io", "Certificate">>},
   deploy         |-> {<<"apps", "Deployment">>},
   scaling        |-> {<<"autoscaling.k8s.io", "VerticalPodAutoscaler">>},
   publish        |-> {<<"monitoring.coreos.com", k>> : k \in {"PrometheusRule", "ServiceMonitor", "PodMonitor"}}
                      \cup {<<"networking.k8s.io", "Ingress">>, <<"route.openshift.io", "Route">>}
                      \cup {<<console, k>> : k \in {"ConsoleYAMLSample", "ConsoleQuickStart",
                                                    "ConsoleCLIDownload", "ConsoleLink", "ConsolePlugin"}},
   admission      |-> {<<"admissionregistration.k8s.io", k>> :
                         k \in {"ValidatingWebhookConfiguration", "MutatingWebhookConfiguration"}}]

GK(o) == <<o.group, o.kind>>

determinePhase(gk) ==
  LET known == {p \in DOMAIN phaseGKMap : gk \in phaseGKMap[p]}
  IN  IF known = {} THEN "deploy" ELSE CHOOSE p \in known : TRUE

(* The order of objects within a phase; the mutant forgets the namespace. *)
SortKeyNoNamespace(o) == <<Rank(o.group), Rank(o.version), Rank(o.kind), Rank(o.name), 0>>
SortKey(o) == <<Rank(o.group), Rank(o.version), Rank(o.kind), Rank(o.ns), Rank(o.name)>>
Before(a, b) ==
  LET x == SortKey(a)  y == SortKey(b)
  IN  \E i \in 1..5 : x[i] < y[i] /\ \A j \in 1..(i - 1) : x[j] = y[j]

(* The objects of a phase, sorted; which of equal ones comes first is open.  *)
ObjectsOfPhase(objects, p) ==
  LET at == {i \in DOMAIN objects : determinePhase(GK(objects[i])) = p}
      order == CHOOSE f \in SetToSeqs(at) :
                 \A i, j \in DOMAIN f : i < j => ~Before(objects[f[j]], objects[f[i]])
  IN  [i \in DOMAIN order |-> objects[order[i]]]

(* The phases that have objects, by their place in defaultPhaseOrder. *)
UsedPhases(objects) ==
  {k \in DOMAIN defaultPhaseOrder :
     \E i \in DOMAIN objects : determinePhase(GK(objects[i])) = defaultPhaseOrder[k]}

PhaseSort(objects) ==
  LET used == CHOOSE f \in SetToSeqs(UsedPhases(objects)) : \A i, j \in DOMAIN f : i < j => f[i] < f[j]
      Phase(p) == [name |-> p, objects |-> ObjectsOfPhase(objects, p)]
  IN  [n \in DOMAIN used |-> Phase(defaultPhaseOrder[used[n]])]

-----------------------------------------------------------------------------
(* Manifests. What a revision carries of an object: the extension's labels   *)
(* win over its own, no status, four keys of its metadata, no record of the  *)
(* last kubectl apply, and what the bundle is called.                        *)

mergeStringMaps(m1, m2) == m2 @@ m1

LastApplied == "kubectl.kubernetes.io/last-applied-configuration"
allowedMetadata == {"annotations", "labels", "name", "namespace"}
sanitizedUnstructured(o) == [o EXCEPT !.status = FALSE, !.metadata = @ \cap allowedMetadata]
stripAnnotations(annotations) ==
  [k \in DOMAIN annotations \ {LastApplied} |-> annotations[k]]

(* Keys of the revision's annotations, or the release's labels, that go to  *)
(* every object: set ones only, but a release's bundle release even if "".  *)
Inherited(from, keys) == {k \in keys \cap DOMAIN from : from[k] # ""}
Manifest(o, objectLabels, from, keys) ==
  [sanitizedUnstructured([o EXCEPT !.labels = mergeStringMaps(@, objectLabels)])
     EXCEPT !.annotations = mergeStringMaps(stripAnnotations(@), [k \in keys |-> from[k]])]

(* A revision as an apply configuration; its name and number come later.    *)
buildClusterObjectSet(objects, ext, annotations) ==
  [annotations |-> [saName |-> ext.serviceAccount, saNamespace |-> ext.namespace] @@ annotations,
   owner |-> ext.name,
   phases |-> PhaseSort(objects),
   deadline |-> ext.progressDeadlineMinutes]

GenerateRevision(plain, ext, objectLabels, revisionAnnotations, olmProperties) ==
  LET annotations == olmProperties @@ revisionAnnotations
      keys == Inherited(annotations, {"bundleVersion", "packageName"})
      objs == [i \in DOMAIN plain |-> Manifest(plain[i], objectLabels, annotations, keys)]
  IN  [collisionProtection |-> "Prevent"] @@ buildClusterObjectSet(objs, ext, annotations)

GenerateRevisionFromHelmRelease(release, ext, objectLabels) ==
  LET keys == Inherited(release.labels, {"bundleVersion", "packageName"})
                \cup ({"bundleRelease"} \cap DOMAIN release.labels)
      objs == [i \in DOMAIN release.manifest |->
                 Manifest(release.manifest[i], objectLabels, release.labels, keys)]
      Label(k) == IF k \in DOMAIN release.labels THEN release.labels[k] ELSE ""
      annotations == [k \in {"bundleName", "packageName", "bundleVersion", "bundleReference"}
                        \cup ({"bundleRelease"} \cap DOMAIN release.labels) |-> Label(k)]
  IN  [collisionProtection |-> "None", name |-> <<ext.name, 1>>, revision |-> 1]
        @@ buildClusterObjectSet(objs, ext, annotations)

(* The objects of a revision, in the order of its phases. *)
getObjects(rev) == FlattenSeq([i \in DOMAIN rev.phases |-> rev.phases[i].objects])

(* Collision protection: object over phase over spec over the default. *)
EffectiveCollisionProtection(spec, phase, object) ==
  LET set == SelectSeq(<<object, phase, spec>>, LAMBDA c : c # "")
  IN  IF set = <<>> THEN "Prevent" ELSE Head(set)

-----------------------------------------------------------------------------
(* Packing. The key of an object in a Secret is the hash of its data, the   *)
(* name of a Secret the hash of its data under the name of the revision:    *)
(* here the object and the set of its objects stand for their hashes.       *)

Stored(o) == IF o.size > gzipThreshold THEN o.zip ELSE o.size

(* Refused: an object that no Secret can hold. *)
PackFails(phases) ==
  \E i \in DOMAIN phases : \E j \in DOMAIN phases[i].objects :
    Stored(phases[i].objects[j]) > maxSecretDataSize

EmptyPack == [secrets |-> <<>>, current |-> {}, size |-> 0, pending |-> {}, refs |-> {}]

finalizeCurrent(acc) ==
  IF acc.current = {} THEN acc
  ELSE [secrets |-> Append(acc.secrets, acc.current), current |-> {}, size |-> 0, pending |-> {},
        refs |-> acc.refs \cup {[pos |-> p.pos, secret |-> acc.current, key |-> p.key] : p \in acc.pending}]

Fits(acc, o) == acc.size + Stored(o) <= maxSecretDataSize
PackObject(acc, pos, o) ==
  LET at == IF o \in acc.current \/ Fits(acc, o) \/ acc.current = {} THEN acc
            ELSE finalizeCurrent(acc)
  IN  [at EXCEPT !.size = IF o \in at.current THEN @ ELSE @ + Stored(o),
                 !.current = @ \cup {o},
                 !.pending = @ \cup {[pos |-> pos, key |-> o]}]

(* The objects of phase i, in order. *)
PackPhase(acc, phases, i) ==
  LET packed[j \in 0..Len(phases[i].objects)] ==
        IF j = 0 THEN acc ELSE PackObject(packed[j - 1], <<i, j>>, phases[i].objects[j])
  IN  packed[Len(phases[i].objects)]

(* The Secrets, in order, and the reference of every object. *)
Pack(phases) ==
  LET packed[i \in 0..Len(phases)] ==
        IF i = 0 THEN EmptyPack ELSE PackPhase(packed[i - 1], phases, i)
      done == finalizeCurrent(packed[Len(phases)])
  IN  [secrets |-> done.secrets, refs |-> done.refs]

-----------------------------------------------------------------------------
(* Progression probes. The state of an object: its generation, the one its  *)
(* status and its conditions were observed at (0 when not set), conditions  *)
(* and fields, absent when not in the domain.                               *)

ConditionEqual(type, status) == [type |-> "ConditionEqual", a |-> type, b |-> status]
FieldValue(path, value) == [type |-> "FieldValue", a |-> path, b |-> value]
FieldsEqual(pathA, pathB) == [type |-> "FieldsEqual", a |-> pathA, b |-> pathB]

replicasUpdatedAssertion == FieldsEqual("updatedReplicas", "replicas")
availableConditionAssertion == ConditionEqual("Available", "True")
readyConditionAssertion == ConditionEqual("Ready", "True")

ForKind(gk, assertions) == [gk |-> gk, assertions |-> assertions]
defaultProgressionProbes ==
  {ForKind(<<"apiextensions.k8s.io", "CustomResourceDefinition">>, {ConditionEqual("Established", "True")}),
   ForKind(<<"cert-manager.io", "Certificate">>, {readyConditionAssertion}),
   ForKind(<<"cert-manager.io", "Issuer">>, {readyConditionAssertion}),
   ForKind(<<"", "Namespace">>, {FieldValue("phase", "Active")}),
   ForKind(<<"", "PersistentVolumeClaim">>, {FieldValue("phase", "Bound")}),
   ForKind(<<"apps", "StatefulSet">>, {replicasUpdatedAssertion, availableConditionAssertion}),
   ForKind(<<"apps", "Deployment">>, {replicasUpdatedAssertion, availableConditionAssertion})}

(* The vendored probes. *)
Holds(assertion, o) ==
  CASE assertion.type = "ConditionEqual" ->
         /\ assertion.a \in DOMAIN o.conditions
         /\ o.conditions[assertion.a].observedGeneration \in {0, o.generation}
         /\ o.conditions[assertion.a].status = assertion.b
    [] assertion.type = "FieldsEqual" ->
         {assertion.a, assertion.b} \subseteq DOMAIN o.fields /\ o.fields[assertion.a] = o.fields[assertion.b]
    [] assertion.type = "FieldValue" ->
         assertion.a \in DOMAIN o.fields /\ o.fields[assertion.a] = assertion.b

(* buildProgressionProbes: every probe looks at the status only when it is   *)
(* about the present generation, and passes objects it does not select.      *)
buildProgressionProbes(probes, o) ==
  \A p \in probes :
    /\ o.observedGeneration \in {0, o.generation}
    /\ GK(o) = p.gk => \A assertion \in p.assertions : Holds(assertion, o)

-----------------------------------------------------------------------------
(* "Sort objects within the phase deterministically ... to ensure consistent *)
(* ordering regardless of input order" (phase.go): from any order of the     *)
(* manifests the same phases come out, and they hold each manifest once.     *)
PhasesCanonical(objects) ==
  LET sorted == PhaseSort(objects)
      flat == FlattenSeq([i \in DOMAIN sorted |-> sorted[i].objects])
  IN  /\ ToSet(flat) = ToSet(objects) /\ Len(flat) = Len(objects)
      /\ \A p \in SetToSeqs(DOMAIN objects) :
           PhaseSort([i \in DOMAIN objects |-> objects[p[i]]]) = sorted

(* Every object has exactly one reference, to a Secret of the result whose   *)
(* data holds it.                                                            *)
PackRefsExact(phases) ==
  LET packed == Pack(phases) IN
  \A i \in DOMAIN phases : \A j \in DOMAIN phases[i].objects :
    \E ref \in packed.refs :
      /\ {r \in packed.refs : r.pos = <<i, j>>} = {ref}
      /\ ref.key = phases[i].objects[j] /\ ref.key \in ref.secret
      /\ ref.secret \in ToSet(packed.secrets)

(* And every Secret is within the limit of the API.                          *)
StoredSize(secret) == FoldSet(LAMBDA o, n : n + Stored(o), 0, secret)
PackExact(phases) ==
  ~PackFails(phases) =>
    /\ PackRefsExact(phases)
    /\ LET packed == Pack(phases) IN
       \A i \in DOMAIN packed.secrets : StoredSize(packed.secrets[i]) <= maxSecretDataSize
=============================================================================
