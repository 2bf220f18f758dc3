---------------------------- MODULE BundleRender ----------------------------
(***************************************************************************)
(* From a registry+v1 bundle and a ClusterExtension's configuration to the *)
(* objects that get applied: rukpak/bundle (the bundle and the schema of   *)
(* its configuration), rukpak/render (validators, options, generators and  *)
(* certificate providers), config/config.go and applier/provider.go.       *)
(*                                                                         *)
(* A name is a sequence of letters, because names are cut at               *)
(* maxNameLength; a namespace is a string and "" is all of them. Rules,    *)
(* environment values, volumes and the like are opaque values.             *)
(***************************************************************************)
EXTENDS Integers, Sequences, FiniteSets, TLC, SequencesExt

CONSTANT maxNameLength   \* the longest name a derived object may have

ASSUME NameLengths == maxNameLength \in Nat /\ maxNameLength >= 5

RenderNone == [none |-> TRUE]
AllNS == ""
Service == <<"s", "v">>      \* the suffixes of derived names, by their lengths
Cert == <<"c">>
SelfSigned == <<"i">>

NamesOf(s) == {s[i].name : i \in DOMAIN s}
Elems(s) == {s[i] : i \in DOMAIN s}
Duplicates(s) == \E i, j \in DOMAIN s : i # j /\ s[i].name = s[j].name

\* The entries of s at some of its places, in their order.
Pick(s, at) ==
  LET order == CHOOSE f \in SetToSeqs(at) : \A i, j \in DOMAIN f : i < j => f[i] < f[j]
  IN  [n \in DOMAIN order |-> s[order[n]]]

\* The last place of a name.
LastAt(s, n) == CHOOSE i \in DOMAIN s : s[i].name = n /\ \A j \in DOMAIN s : s[j].name = n => j <= i

ObjectNameForBaseAndSuffix(base, suffix) ==
  (IF Len(base) + Len(suffix) > maxNameLength
   THEN SubSeq(base, 1, maxNameLength - Len(suffix) - 1) ELSE base) \o <<"-">> \o suffix

-----------------------------------------------------------------------------
(* The bundle's file system.                                                *)

\* copyMetadataPropertiesToCSV: properties.yaml is appended to the properties
\* the CSV's annotation holds already.
copyMetadataPropertiesToCSV(csv, fs) == csv.properties \o fs.properties

\* fsBundleSource.GetBundle: annotations.yaml names the package; the last CSV
\* found wins; a directory below manifests/ or an unreadable file is an error.
GetBundle(fs) ==
  LET ofKind(k) == SelectSeq(fs.manifests, LAMBDA m : m.kind = k)
      others == SelectSeq(fs.manifests,
                          LAMBDA m : m.kind \notin {"ClusterServiceVersion", "CustomResourceDefinition"})
  IN  IF ~fs.annotations \/ fs.subdirectory \/ (\E m \in Elems(fs.manifests) : ~m.parses)
         \/ ofKind("ClusterServiceVersion") = <<>>
      THEN RenderNone
      ELSE LET csv == Last(ofKind("ClusterServiceVersion")).csv IN
           [csv EXCEPT
              !.package = fs.package, !.properties = copyMetadataPropertiesToCSV(csv, fs),
              !.crds = [i \in DOMAIN ofKind("CustomResourceDefinition") |->
                          ofKind("CustomResourceDefinition")[i].crd],
              !.others = others]

-----------------------------------------------------------------------------
(* Validators: rv1 is a bundle. All of them run, and one error is enough.   *)

\* External (k8s validation): no "_", and no "-" or "." at either end.
IsDNS1123Subdomain(n) ==
  /\ n # <<>> /\ "_" \notin Elems(n)
  /\ {Head(n), Last(n)} \cap {"-", "."} = {}

\* External: the kinds registry+v1 allows, and the namespaced ones of them.
SupportedKinds == {"ConfigMap", "Secret", "PriorityClass", "Role"}
NamespacedKinds == {"ConfigMap", "Secret", "Role"}

OfType(rv1, t) == {wh \in Elems(rv1.webhooks) : wh.type = t}

CheckDeploymentSpecUniqueness(rv1) == ~Duplicates(rv1.deployments)
CheckDeploymentNameIsDNS1123SubDomain(rv1) ==
  \A n \in NamesOf(rv1.deployments) : IsDNS1123Subdomain(n)
CheckOwnedCRDExistence(rv1) == rv1.owned \subseteq NamesOf(rv1.crds)
CheckCRDResourceUniqueness(rv1) == ~Duplicates(rv1.crds)
CheckPackageNameNotEmpty(rv1) == rv1.package # ""
CheckConversionWebhookSupport(rv1) ==
  OfType(rv1, "conversion") # {} => rv1.modes = {"AllNamespaces"}
CheckWebhookDeploymentReferentialIntegrity(rv1) ==
  \A wh \in Elems(rv1.webhooks) : wh.deployment \in NamesOf(rv1.deployments)
CheckWebhookNameUniqueness(rv1) ==
  \A i, j \in DOMAIN rv1.webhooks :
    rv1.webhooks[i].type = rv1.webhooks[j].type /\ rv1.webhooks[i].name = rv1.webhooks[j].name => i = j
CheckConversionWebhooksReferenceOwnedCRDs(rv1) ==
  \A wh \in OfType(rv1, "conversion") : Elems(wh.crds) \subseteq rv1.owned
CheckConversionWebhookCRDReferenceUniqueness(rv1) ==
  LET whs == SelectSeq(rv1.webhooks, LAMBDA wh : wh.type = "conversion")
  IN  \A i, j \in DOMAIN whs : \A k \in DOMAIN whs[i].crds, l \in DOMAIN whs[j].crds :
        whs[i].crds[k] = whs[j].crds[l] => i = j /\ k = l
CheckWebhookNameIsDNS1123SubDomain(rv1) ==
  \A wh \in Elems(rv1.webhooks) : IsDNS1123Subdomain(wh.name)
\* A rule's class: "forbidden" covers the groups and resources a webhook may
\* not intercept (its own operator's API, "*", webhook configurations).
CheckWebhookRules(rv1) ==
  \A wh \in Elems(rv1.webhooks) : wh.type # "conversion" => "forbidden" \notin wh.rules
CheckObjectSupport(rv1) == \A o \in Elems(rv1.others) : o.kind \in SupportedKinds

BundleValidator(rv1) ==
  /\ CheckDeploymentSpecUniqueness(rv1)
  /\ CheckDeploymentNameIsDNS1123SubDomain(rv1)
  /\ CheckCRDResourceUniqueness(rv1)
  /\ CheckOwnedCRDExistence(rv1)
  /\ CheckPackageNameNotEmpty(rv1)
  /\ CheckConversionWebhookSupport(rv1)
  /\ CheckWebhookDeploymentReferentialIntegrity(rv1)
  /\ CheckWebhookNameUniqueness(rv1)
  /\ CheckWebhookNameIsDNS1123SubDomain(rv1)
  /\ CheckConversionWebhookCRDReferenceUniqueness(rv1)
  /\ CheckConversionWebhooksReferenceOwnedCRDs(rv1)
  /\ CheckWebhookRules(rv1)
  /\ CheckObjectSupport(rv1)

\* validateTargetNamespaces; targets is a sequence.
validateTargetNamespaces(rv1, installNS, targets) ==
  LET set == Elems(targets)
  IN  \/ set = {AllNS} /\ "AllNamespaces" \in rv1.modes
      \/ /\ Cardinality(set) = 1 /\ AllNS \notin set
         /\ IF targets[1] = installNS THEN "OwnNamespace" \in rv1.modes
                                      ELSE "SingleNamespace" \in rv1.modes
      \/ /\ Cardinality(set) > 1 /\ AllNS \notin set /\ "MultiNamespace" \in rv1.modes
         /\ installNS \in set => "OwnNamespace" \in rv1.modes

defaultTargetNamespacesForBundle(rv1) ==
  IF "AllNamespaces" \in rv1.modes THEN <<AllNS>> ELSE <<>>

-----------------------------------------------------------------------------
(* Generators: o is [installNS, targets, provider, deploymentConfig].       *)

Resource(kind, ns, name, body) == [kind |-> kind, ns |-> ns, name |-> name, body |-> body]

\* CertProvisionerFor: the names OLMv0 gave; dots become dashes.
ServiceName(dep) ==
  ObjectNameForBaseAndSuffix([i \in DOMAIN dep |-> IF dep[i] = "." THEN "-" ELSE dep[i]], Service)
CertName(dep) == ObjectNameForBaseAndSuffix(ServiceName(dep), Cert)

\* InjectCABundle of the two providers: what a webhook, CRD or Service is
\* annotated with so that certificates and CA bundles get filled in.
InjectCABundle(kind, o, dep) ==
  CASE o.provider = "certManager" /\ kind # "Service" -> [from |-> <<o.installNS, CertName(dep)>>]
    [] o.provider = "serviceCA" -> [from |-> IF kind = "Service" THEN CertName(dep) ELSE "service"]
    [] OTHER -> RenderNone

\* AdditionalObjects of the cert-manager provider; the service CA has none.
AdditionalObjects(o, dep) ==
  LET issuer == ObjectNameForBaseAndSuffix(CertName(dep), SelfSigned)
  IN  IF o.provider = "certManager"
      THEN <<Resource("Issuer", o.installNS, issuer, RenderNone),
             Resource("Certificate", o.installNS, CertName(dep),
                      [secret |-> CertName(dep), service |-> ServiceName(dep), issuer |-> issuer])>>
      ELSE <<>>

saNameOrDefault(sa) == IF sa = <<>> THEN <<"default">> ELSE sa
IsAllNamespaces(o) == o.targets = <<AllNS>>

\* DefaultUniqueNameGenerator; the hash of an object is one letter, its print.
UniqueName(rv1, p) ==
  ObjectNameForBaseAndSuffix(rv1.name \o <<"-">> \o saNameOrDefault(p.sa), <<ToString(p)>>)

BindingKind(kind) == IF kind = "Role" THEN "RoleBinding" ELSE "ClusterRoleBinding"
Binding(kind, o, rv1, p, ns) ==
  LET name == UniqueName(rv1, p)
      subject == <<o.installNS, saNameOrDefault(p.sa)>>
  IN  <<Resource(kind, ns, name, [rules |-> p.rules]),
        Resource(BindingKind(kind), ns, name, [role |-> name, subject |-> subject])>>

BundleCSVServiceAccountGenerator(rv1, o) ==
  LET sas == {saNameOrDefault(p.sa) : p \in Elems(rv1.permissions \o rv1.clusterPermissions)}
  IN  SetToSeq({Resource("ServiceAccount", o.installNS, sa, RenderNone) : sa \in sas \ {<<"default">>}})

BundleCSVPermissionsGenerator(rv1, o) ==
  LET forNS(ns) == FlattenSeq([i \in DOMAIN rv1.permissions |->
                                 Binding("Role", o, rv1, rv1.permissions[i], ns)])
  IN  IF IsAllNamespaces(o) THEN <<>>
      ELSE FlattenSeq([i \in DOMAIN o.targets |-> forNS(o.targets[i])])

\* In AllNamespaces mode the namespaced permissions are lifted to the
\* cluster, with a rule to get, list and watch namespaces.
Promoted(rv1, o) ==
  IF IsAllNamespaces(o)
  THEN [i \in DOMAIN rv1.permissions |-> [rv1.permissions[i] EXCEPT !.rules = @ \cup {"watch-namespaces"}]]
  ELSE <<>>
BundleCSVClusterPermissionsGenerator(rv1, o) ==
  LET ps == rv1.clusterPermissions \o Promoted(rv1, o)
  IN  FlattenSeq([i \in DOMAIN ps |-> Binding("ClusterRole", o, rv1, ps[i], AllNS)])

\* The client configuration of a webhook: its Service and the declared port.
ServiceReference(wh) == [service |-> ServiceName(wh.deployment), port |-> wh.port]

\* BundleCRDGenerator fails on a CRD with a conversion webhook that preserves
\* unknown fields.
ConversionFor(rv1, crd) == {wh \in OfType(rv1, "conversion") : crd.name \in Elems(wh.crds)}
CRDsConvertible(rv1) == \A crd \in Elems(rv1.crds) : crd.preserve => ConversionFor(rv1, crd) = {}
BundleCRDGenerator(rv1, o) ==
  [i \in DOMAIN rv1.crds |->
    LET whs == ConversionFor(rv1, rv1.crds[i])
        wh == CHOOSE w \in whs : TRUE
    IN  Resource("CustomResourceDefinition", AllNS, rv1.crds[i].name,
                 IF whs = {} THEN RenderNone
                 ELSE [webhook |-> ServiceReference(wh),
                       ca |-> InjectCABundle("CustomResourceDefinition", o, wh.deployment)])]

BundleAdditionalResourcesGenerator(rv1, o) ==
  [i \in DOMAIN rv1.others |->
    LET r == rv1.others[i]
    IN  Resource(r.kind, IF r.kind \in NamespacedKinds THEN o.installNS ELSE AllNS, r.name, RenderNone)]

getWebhookNamespaceSelector(targets) == IF AllNS \in Elems(targets) THEN {} ELSE Elems(targets)

\* The validating and the mutating webhook generators differ in the kind.
BundleWebhookResourceGenerator(rv1, o, type, kind) ==
  LET whs == Pick(rv1.webhooks, {i \in DOMAIN rv1.webhooks : rv1.webhooks[i].type = type})
  IN  [i \in DOMAIN whs |->
        Resource(kind, AllNS, whs[i].name,
                 [webhook |-> ServiceReference(whs[i]), rules |-> whs[i].rules,
                  namespaces |-> getWebhookNamespaceSelector(o.targets),
                  ca |-> InjectCABundle(kind, o, whs[i].deployment)])]
BundleValidatingWebhookResourceGenerator(rv1, o) ==
  BundleWebhookResourceGenerator(rv1, o, "validating", "ValidatingWebhookConfiguration")
BundleMutatingWebhookResourceGenerator(rv1, o) ==
  BundleWebhookResourceGenerator(rv1, o, "mutating", "MutatingWebhookConfiguration")

\* Mutant: the Service listens on the target port.
getWebhookServicePortTarget(wh) == [port |-> wh.target, target |-> wh.target]

\* A port is a number; target 0 stands for an unset targetPort.
getWebhookServicePort(wh) ==
  LET port == IF wh.port > 0 THEN wh.port ELSE 443
  IN  [port |-> port, target |-> IF wh.target = 0 THEN port ELSE wh.target]

WebhookDeployments(rv1) == {wh.deployment : wh \in Elems(rv1.webhooks)}
BundleDeploymentServiceResourceGenerator(rv1, o) ==
  LET deps == Pick(rv1.deployments,
                   {i \in DOMAIN rv1.deployments : rv1.deployments[i].name \in WebhookDeployments(rv1)})
      ports(d) == {getWebhookServicePort(wh) : wh \in {w \in Elems(rv1.webhooks) : w.deployment = d.name}}
  IN  [i \in DOMAIN deps |->
        Resource("Service", o.installNS, ServiceName(deps[i].name),
                 [ports |-> ports(deps[i]), selector |-> deps[i].name,
                  ca |-> InjectCABundle("Service", o, deps[i].name)])]
CertProviderResourceGenerator(rv1, o) ==
  LET deps == SetToSeq(WebhookDeployments(rv1))
  IN  FlattenSeq([i \in DOMAIN deps |-> AdditionalObjects(o, deps[i])])

-----------------------------------------------------------------------------
(* Deployments. A deployment has volumes <<[name, source]>>, containers     *)
(* with mounts <<[name, path]>>, env <<[name, value]>>, envFrom and         *)
(* resources, tolerations, a nodeSelector, annotations and an affinity.     *)

certVolumeConfigs == <<[name |-> "webhook-cert", path |-> "/webhook"],
                       [name |-> "apiservice-cert", path |-> "/apiservice"]>>

\* ensureCorrectDeploymentCertVolumes: the protected volumes, and those that
\* some container mounts at a protected path, make way for the cert Secret.
ensureCorrectDeploymentCertVolumes(d, secret) ==
  LET paths == {c.path : c \in Elems(certVolumeConfigs)}
      remove == NamesOf(certVolumeConfigs)
                \cup {m.name : m \in {x \in UNION {Elems(c.mounts) : c \in Elems(d.containers)} :
                                        x.path \in paths}}
      keep(s) == Pick(s, {i \in DOMAIN s : s[i].name \notin remove})
      volumes == [i \in DOMAIN certVolumeConfigs |->
                    [name |-> certVolumeConfigs[i].name, source |-> secret]]
      mounting(c) == [c EXCEPT !.mounts = keep(@) \o certVolumeConfigs]
  IN  [d EXCEPT !.volumes = keep(@) \o volumes,
                !.containers = [i \in DOMAIN @ |-> mounting(@[i])]]

\* Env, volumes and mounts: an entry with the name of an existing one takes
\* the place of the last of that name, other entries are appended. The names
\* are those from before the loop: an entry repeated in the configuration is
\* appended twice.
OverrideByName(existing, entries) ==
  [i \in DOMAIN existing |->
     IF existing[i].name \in NamesOf(entries) /\ i = LastAt(existing, existing[i].name)
     THEN entries[LastAt(entries, existing[i].name)] ELSE existing[i]]
  \o Pick(entries, {i \in DOMAIN entries : entries[i].name \notin NamesOf(existing)})

\* EnvFrom and tolerations: duplicates are not added.
AppendNew(existing, entries) ==
  FoldLeft(LAMBDA s, e : IF e \in Elems(s) THEN s ELSE Append(s, e), existing, entries)

\* applyAffinityConfig: an affinity has three attributes, each "nil",
\* "empty" or a value; the whole may be RenderNone (nil).
AffinityFields == {"node", "pod", "anti"}
isAffinityEmpty(a) == \A f \in AffinityFields : a[f] \in {"nil", "empty"}
applyAffinityConfig(affinity, cfg) ==
  LET from == IF affinity = RenderNone THEN [f \in AffinityFields |-> "nil"] ELSE affinity
      merged == [f \in AffinityFields |->
                   CASE cfg[f] = "nil" -> from[f] [] cfg[f] = "empty" -> "nil" [] OTHER -> cfg[f]]
  IN  CASE cfg = RenderNone -> affinity
        [] cfg = [f \in AffinityFields |-> "nil"] -> RenderNone
        [] OTHER -> IF isAffinityEmpty(merged) THEN RenderNone ELSE merged

\* Resources and nodeSelector are replaced as a whole, unless "nil".
Keep(old, new) == IF new = "nil" THEN old ELSE new

\* applyCustomConfigToDeployment; cfg RenderNone is no configuration. What
\* the deployment and its pods are annotated with already stays.
ContainerConfigured(c, cfg) ==
  [c EXCEPT !.env = OverrideByName(@, cfg.env),
            !.envFrom = AppendNew(@, cfg.envFrom),
            !.mounts = OverrideByName(@, cfg.mounts),
            !.resources = Keep(@, cfg.resources)]
applyCustomConfigToDeployment(d, cfg) ==
  IF cfg = RenderNone THEN d
  ELSE [d EXCEPT
          !.containers = [i \in DOMAIN @ |-> ContainerConfigured(@[i], cfg)],
          !.volumes = OverrideByName(@, cfg.volumes),
          !.tolerations = AppendNew(@, cfg.tolerations),
          !.nodeSelector = Keep(@, cfg.nodeSelector),
          !.affinity = applyAffinityConfig(@, cfg.affinity),
          !.annotations = @ \o Pick(cfg.annotations, {i \in DOMAIN cfg.annotations :
                                                       cfg.annotations[i].name \notin NamesOf(@)})]

BundleCSVDeploymentGenerator(rv1, o) ==
  LET withCerts(d) == IF d.name \in WebhookDeployments(rv1) /\ o.provider # "none"
                      THEN ensureCorrectDeploymentCertVolumes(d, CertName(d.name)) ELSE d
      target == [name |-> "olm.targetNamespaces", value |-> o.targets]
      annotated(d) == [d EXCEPT !.annotations = OverrideByName(OverrideByName(rv1.annotations, @), <<target>>)]
  IN  [i \in DOMAIN rv1.deployments |->
        Resource("Deployment", o.installNS, rv1.deployments[i].name,
                 applyCustomConfigToDeployment(withCerts(annotated(rv1.deployments[i])), o.deploymentConfig))]

ResourceGenerators(rv1, o) ==
  BundleCSVServiceAccountGenerator(rv1, o) \o BundleCSVPermissionsGenerator(rv1, o)
  \o BundleCSVClusterPermissionsGenerator(rv1, o) \o BundleCRDGenerator(rv1, o)
  \o BundleAdditionalResourcesGenerator(rv1, o) \o BundleCSVDeploymentGenerator(rv1, o)
  \o BundleValidatingWebhookResourceGenerator(rv1, o)
  \o BundleMutatingWebhookResourceGenerator(rv1, o)
  \o BundleDeploymentServiceResourceGenerator(rv1, o) \o CertProviderResourceGenerator(rv1, o)

\* BundleRenderer.Render: the options that are unset keep their defaults.
Render(rv1, opts) ==
  LET o == [opts EXCEPT !.targets = IF @ = <<>> THEN defaultTargetNamespacesForBundle(rv1) ELSE @]
  IN  IF ~BundleValidator(rv1) \/ ~validateTargetNamespaces(rv1, o.installNS, o.targets)
         \/ ~CRDsConvertible(rv1)
      THEN RenderNone
      ELSE [targets |-> o.targets, objects |-> ResourceGenerators(rv1, o)]
=============================================================================
