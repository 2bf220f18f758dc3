---------------------------- MODULE BundleConfig ----------------------------
(***************************************************************************)
(* What a user's configuration makes of a bundle: the schema derived from  *)
(* the bundle's install modes (rukpak/bundle/registryv1.go), the check of  *)
(* spec.config against it (config/config.go), the manifest provider that   *)
(* turns the result into render options (applier/provider.go).             *)
(*                                                                         *)
(* A configuration is [parses, watch, dc, unknown]: watch is "unset",      *)
(* "null", "malformed" or a namespace, dc is [is, value] with is one of    *)
(* "unset", "null", "invalid" and "set", unknown says a field is unknown.  *)
(* The JSON schema library is external and modelled by what it decides.    *)
(***************************************************************************)
EXTENDS BundleRender

-----------------------------------------------------------------------------
(* The schema: which properties exist, the rule for watchNamespace.         *)

isWatchNamespaceConfigurable(modes) == modes \cap {"SingleNamespace", "OwnNamespace"} # {}
isWatchNamespaceConfigRequired(modes) ==
  isWatchNamespaceConfigurable(modes) /\ "AllNamespaces" \notin modes

selectNamespaceFormat(modes) ==
  CASE "OwnNamespace" \in modes /\ "SingleNamespace" \notin modes -> "own"
    [] "SingleNamespace" \in modes /\ "OwnNamespace" \notin modes -> "single"
    [] OTHER -> "any"

\* buildBundleConfigSchema and buildWatchNamespaceProperty.
GetConfigSchema(rv1) ==
  [watch |-> isWatchNamespaceConfigurable(rv1.modes),
   required |-> isWatchNamespaceConfigRequired(rv1.modes),
   format |-> selectNamespaceFormat(rv1.modes), dc |-> TRUE]

\* The two formats registered with the schema compiler.
FormatAllows(format, watch, installNS) ==
  CASE format = "own" -> watch = installNS [] format = "single" -> watch # installNS [] OTHER -> TRUE

\* validateConfigWithSchema.
WatchValid(schema, watch, installNS) ==
  CASE watch = "unset" -> ~schema.required
    [] watch = "null" -> schema.watch /\ ~schema.required
    [] watch = "malformed" -> FALSE
    [] OTHER -> schema.watch /\ FormatAllows(schema.format, watch, installNS)
validateConfigWithSchema(cfg, schema, installNS) ==
  /\ cfg.parses /\ ~cfg.unknown
  /\ WatchValid(schema, cfg.watch, installNS)
  /\ cfg.dc.is = "unset" \/ (cfg.dc.is = "set" /\ schema.dc)

\* UnmarshalConfig treats no configuration as {}.
EmptyConfig == [parses |-> TRUE, watch |-> "unset", dc |-> [is |-> "unset", value |-> RenderNone],
                unknown |-> FALSE]

\* GetWatchNamespace and GetDeploymentConfig: null is the same as unset.
GetWatchNamespace(cfg) == IF cfg.watch \in {"unset", "null"} THEN <<>> ELSE <<cfg.watch>>
GetDeploymentConfig(cfg) == IF cfg.dc.is = "set" THEN cfg.dc.value ELSE RenderNone

-----------------------------------------------------------------------------
(* RegistryV1ManifestProvider. gates holds the enabled ones of              *)
(* "SingleOwnNamespace" and "DeploymentConfig"; provider is the certificate *)
(* provider. The result is RenderNone or what Render returns.               *)

Supported(rv1, gates, provider) ==
  /\ ~rv1.apiServices
  /\ rv1.webhooks # <<>> => provider # "none"
  /\ "SingleOwnNamespace" \notin gates => "AllNamespaces" \in rv1.modes
  /\ rv1.modes \cap {"AllNamespaces", "SingleNamespace", "OwnNamespace"} # {}

\* extractBundleConfigOptions; the result is RenderNone on an error, which
\* is terminal: only an edit of the extension can help.
extractBundleConfigOptions(rv1, cfg, installNS, gates) ==
  LET schema == [GetConfigSchema(rv1) EXCEPT !.dc = "DeploymentConfig" \in gates]
  IN  IF validateConfigWithSchema(cfg, schema, installNS)
      THEN [targets |-> GetWatchNamespace(cfg),
            deploymentConfig |-> IF "DeploymentConfig" \in gates THEN GetDeploymentConfig(cfg) ELSE RenderNone]
      ELSE RenderNone

\* ext is [ns, config], with config RenderNone when spec.config is unset.
\* Without the SingleOwnNamespace gate an absent configuration is not checked.
ManifestsGet(rv1, ext, gates, provider) ==
  LET given == "SingleOwnNamespace" \in gates \/ ext.config # RenderNone
      cfg == IF ext.config = RenderNone THEN EmptyConfig ELSE ext.config
      extracted == IF given THEN extractBundleConfigOptions(rv1, cfg, ext.ns, gates)
                   ELSE [targets |-> <<>>, deploymentConfig |-> RenderNone]
  IN  IF ~Supported(rv1, gates, provider) \/ extracted = RenderNone THEN RenderNone
      ELSE Render(rv1, [installNS |-> ext.ns, targets |-> extracted.targets, provider |-> provider,
                        deploymentConfig |-> extracted.deploymentConfig])

-----------------------------------------------------------------------------
(* What rendering promises.                                                 *)

OfKind(objects, kind) == {o \in Elems(objects) : o.kind = kind}

\* The rules the rendered roles grant an account in a namespace.
Granted(objects, subject, ns) ==
  UNION {r.body.rules : r \in {x \in OfKind(objects, "Role") \cup OfKind(objects, "ClusterRole") :
    \E b \in OfKind(objects, BindingKind(x.kind)) :
      /\ b.ns = x.ns /\ b.body.role = x.name /\ b.body.subject = subject /\ x.ns \in {AllNS, ns}}}
Declared(rv1, sa, namespaced) ==
  UNION {p.rules : p \in {x \in Elems(rv1.clusterPermissions \o
                                      (IF namespaced THEN rv1.permissions ELSE <<>>)) :
                            saNameOrDefault(x.sa) = sa}}

\* A rendered bundle grants every account of the CSV exactly the rules it
\* declares for it (but for the right to watch namespaces that the lift to
\* the cluster adds), in the watched namespaces and nowhere else.
GrantsExact(rv1, ext, r) ==
  \A p \in Elems(rv1.permissions \o rv1.clusterPermissions), ns \in {ext.ns, "other", "third"} :
    LET sa == saNameOrDefault(p.sa)
        watched == ns \in Elems(r.targets) \/ r.targets = <<AllNS>>
    IN  /\ Granted(r.objects, <<ext.ns, sa>>, ns) \ {"watch-namespaces"} = Declared(rv1, sa, watched)
        /\ sa = <<"default">> \/ \E o \in OfKind(r.objects, "ServiceAccount") : o.name = sa /\ o.ns = ext.ns

\* The value a container sees for a name is that of the last entry.
Effective(entries, name) == entries[LastAt(entries, name)]

\* Every webhook reaches a Service on its declared port, in front of its own
\* deployment, whose pods mount the Secret that the certificate provider
\* fills, unless the user's configuration replaces that volume.
WebhooksServed(rv1, ext, cfg, provider, r) ==
  \A wh \in Elems(rv1.webhooks) :
    \E s \in OfKind(r.objects, "Service"), d \in OfKind(r.objects, "Deployment") :
      /\ s.ns = ext.ns /\ d.ns = ext.ns /\ d.name = wh.deployment
      /\ s.name = ServiceReference(wh).service /\ s.body.selector = d.name
      /\ wh.port > 0 => wh.port \in {p.port : p \in s.body.ports}
      /\ LET v == Effective(d.body.volumes, "webhook-cert")
         IN  \/ cfg # RenderNone /\ v \in Elems(cfg.volumes)
             \/ CASE provider = "certManager" ->
                       \E c \in OfKind(r.objects, "Certificate") :
                         c.body.secret = v.source /\ c.body.service = s.name
                  [] provider = "serviceCA" -> s.body.ca = [from |-> v.source]
                  [] OTHER -> FALSE
      /\ \A c \in Elems(d.body.containers) : \A m \in Elems(c.mounts) :
           m.path = "/webhook" => m.name = "webhook-cert" \/ (cfg # RenderNone /\ m \in Elems(cfg.mounts))

\* The user's deployment configuration reaches every container of every
\* deployment: its environment and volumes win over the bundle's of the same
\* name, the bundle's others stay, and no annotation of the bundle changes.
ConfigApplied(rv1, cfg, r) ==
  \A d \in OfKind(r.objects, "Deployment") :
    LET spec == CHOOSE x \in Elems(rv1.deployments) : x.name = d.name
        wins(old, entries, new) ==
          /\ NamesOf(old) \cup NamesOf(entries) \subseteq NamesOf(new)
          /\ \A n \in NamesOf(entries) : Effective(new, n) = Effective(entries, n)
          /\ \A n \in NamesOf(old) \ NamesOf(entries) : Effective(new, n) = Effective(old, n)
    IN  /\ \A i \in DOMAIN d.body.containers :
             wins(spec.containers[i].env, cfg.env, d.body.containers[i].env)
        /\ \A n \in NamesOf(cfg.volumes) : Effective(d.body.volumes, n) = Effective(cfg.volumes, n)
        /\ \A a \in Elems(spec.annotations) :
             a.name # "olm.targetNamespaces" => Effective(d.body.annotations, a.name) = a

\* A configuration the provider accepts always renders, for a bundle that
\* passes its checks: the schema leaves no target namespace that
\* validateTargetNamespaces would refuse, and whatever renders watches what
\* the user asked for.
AcceptedRenders(rv1, ext, gates, provider) ==
  LET cfg == IF ext.config = RenderNone THEN EmptyConfig ELSE ext.config
      accepted == extractBundleConfigOptions(rv1, cfg, ext.ns, gates) # RenderNone
      r == ManifestsGet(rv1, ext, gates, provider)
  IN  /\ (Supported(rv1, gates, provider) /\ accepted /\ BundleValidator(rv1) /\ CRDsConvertible(rv1))
           => r # RenderNone
      /\ r # RenderNone => r.targets \in {<<AllNS>>, <<cfg.watch>>}

\* For every bundle and configuration, what is rendered hangs together.
RenderClosed(rv1, ext, gates, provider) ==
  LET r == ManifestsGet(rv1, ext, gates, provider)
      cfg == IF ext.config = RenderNone THEN RenderNone ELSE ext.config.dc.value
  IN  /\ AcceptedRenders(rv1, ext, gates, provider)
      /\ r # RenderNone =>
           /\ GrantsExact(rv1, ext, r)
           /\ WebhooksServed(rv1, ext, cfg, provider, r)
           /\ cfg # RenderNone => ConfigApplied(rv1, cfg, r)

\* docs/tutorials/explore-available-content.md:95 "Targeting a single
\* namespace (SingleNamespace or OwnNamespace install modes) requires enabling
\* the SingleOwnNamespaceInstallSupport feature-gate": with the gate off a
\* bundle that renders watches all namespaces.
GateGuardsTargets(rv1, ext, gates, provider) ==
  LET r == ManifestsGet(rv1, ext, gates, provider)
  IN  r # RenderNone /\ "SingleOwnNamespace" \notin gates => r.targets = <<AllNS>>

=============================================================================
