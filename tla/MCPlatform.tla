----------------------------- MODULE MCPlatform -----------------------------
(***************************************************************************)
(* What stands beside the controllers, for TLC: the Secrets of revisions,  *)
(* the content manager, tokens, pull secrets, pods and certificates, which *)
(* do not interact with each other, and samples of the algorithms that     *)
(* make the content of a revision. A behaviour is of one part; the         *)
(* variables of the others keep their first values.                        *)
(***************************************************************************)
EXTENDS RefSecrets, ContentManager, Tokens, PullSecrets, Serving, BundleConfig, Authorization

VARIABLES part, sample

(* The parts other than each. *)
notRefs == <<contentVars, tokenVars, psVars, podVars, certVars, part, sample>>
notContent == <<refVars, tokenVars, psVars, podVars, certVars, part, sample>>
notTokens == <<refVars, contentVars, psVars, podVars, certVars, part, sample>>
notPull == <<refVars, contentVars, tokenVars, podVars, certVars, part, sample>>
notPods == <<refVars, contentVars, tokenVars, psVars, certVars, part, sample>>
notCerts == <<refVars, contentVars, tokenVars, psVars, podVars, part, sample>>
notSample == <<refVars, contentVars, tokenVars, psVars, podVars, certVars, part>>
platformVars == <<refVars, notRefs>>

-----------------------------------------------------------------------------
(* Constants. *)

mcObject(n, s) == [name |-> n, size |-> s, zip |-> 1]
mcPhase(n, name) == [name |-> n, objects |-> <<mcObject(name, 2)>>]
mcContents == <<<<mcPhase("p", "a")>>, <<mcPhase("p", "a"), mcPhase("q", "c")>>, <<mcPhase("p", "a")>>>>
mcHelm == {<<>>, <<[deployed |-> TRUE, content |-> 1], [deployed |-> FALSE, content |-> 2]>>}
mcOrder == <<"", "a", "apps", "b", "ConfigMap", "Deployment", "n1", "n2", "v1", "Widget">>
mcRank(s) == CHOOSE i \in DOMAIN mcOrder : mcOrder[i] = s
mcPullLists == {<<>>, <<"p">>}
mcPullContents == {[format |-> "dockerconfigjson", auths |-> [r \in {"q"} |-> 1]],
                   [format |-> "malformed", auths |-> <<>>]}
mcPods == <<"p1", "p2">>
mcFlags == [certFile |-> TRUE, keyFile |-> TRUE, metricsAddr |-> FALSE, pullSecretParts |-> 0]

-----------------------------------------------------------------------------
(* Samples of revision content: up to three objects, of which two may share  *)
(* all but the namespace, in any order, small, compressed or too large.     *)

sampleIds == {<<"apps", "Deployment", "n1", "a">>, <<"apps", "Deployment", "n2", "a">>,
              <<"", "ConfigMap", "n2", "b">>, <<"a", "Widget", "", "a">>}
sampleObjects == {[group |-> i[1], version |-> "v1", kind |-> i[2], ns |-> i[3], name |-> i[4],
                   size |-> z[1], zip |-> z[2]] : i \in sampleIds, z \in {<<1, 1>>, <<2, 1>>, <<4, 2>>, <<9, 9>>}}
Distinct(objs) == \A i, j \in DOMAIN objs :
                    <<objs[i].kind, objs[i].ns>> = <<objs[j].kind, objs[j].ns>> => i = j
contentSamples == {[is |-> "content", objects |-> s] : s \in {t \in BoundedSeq(sampleObjects, 3) : Distinct(t)}}

(* Samples of bundles: deployments whose names differ in a dot, and volumes  *)
(* at the path of the certificates.                                         *)
sampleDeployment(n, mounts) ==
  [name |-> n, volumes |-> <<[name |-> "data", source |-> <<"d">>]>>,
   containers |-> <<[mounts |-> mounts, env |-> <<[name |-> "E", value |-> "old"]>>, envFrom |-> <<>>, resources |-> "r0"]>>,
   tolerations |-> <<"t0">>, nodeSelector |-> "n0", affinity |-> RenderNone,
   annotations |-> <<[name |-> "k", value |-> "bundle"]>>]
sampleWebhook(t, n, d, p, crds) ==
  [type |-> t, name |-> n, deployment |-> d, port |-> p, target |-> 7, crds |-> crds, rules |-> {"r"}]
samplePermission(sa, rules) == [sa |-> sa, rules |-> rules]
sampleBundles ==
  {[package |-> "p", name |-> <<"v">>, modes |-> m, deployments |-> ds, permissions |-> ps[1], clusterPermissions |-> ps[2],
    crds |-> <<[name |-> <<"x">>, preserve |-> FALSE]>>, owned |-> {<<"x">>}, webhooks |-> w, others |-> <<>>,
    annotations |-> <<>>, properties |-> <<>>, apiServices |-> FALSE] :
    m \in {{}, {"AllNamespaces"}, {"OwnNamespace"}, {"SingleNamespace"}, {"OwnNamespace", "SingleNamespace"},
           {"AllNamespaces", "OwnNamespace", "SingleNamespace"}},
    ds \in {<<sampleDeployment(e[1], <<[name |-> "data", path |-> q]>>), sampleDeployment(e[2], <<>>)>> :
              e \in {<<<<"a">>, <<"a", ".", "b">>>>, <<<<"a", ".", "b">>, <<"a", "-", "b">>>>}, q \in {"/webhook", "/x"}},
    ps \in {<< <<>>, <<>> >>,
            << <<samplePermission(<<>>, {"a"}), samplePermission(<<"s">>, {"a"})>>, <<samplePermission(<<"s">>, {"b"})>> >>},
    w \in {<<>>} \cup {<<sampleWebhook(t, <<"w">>, <<"a", ".", "b">>, pt, <<<<"x">>>>),
                         sampleWebhook("mutating", <<"m">>, d, 8, <<>>)>> :
                         t \in {"validating", "conversion"}, d \in {<<"a">>, <<"a", ".", "b">>}, pt \in {0, 9}}}
sampleConfig ==
  [env |-> <<[name |-> "E", value |-> "new"], [name |-> "F", value |-> "x"], [name |-> "F", value |-> "y"]>>,
   envFrom |-> <<>>, mounts |-> <<>>, resources |-> "nil", volumes |-> <<[name |-> "webhook-cert", source |-> <<"u">>]>>,
   tolerations |-> <<"t0">>, nodeSelector |-> "nil", affinity |-> [node |-> "empty", pod |-> "x", anti |-> "nil"],
   annotations |-> <<[name |-> "k", value |-> "user"]>>]
sampleConfigs ==
  {RenderNone} \cup [parses : {TRUE}, watch : {"unset", "ns", "other"},
                     dc : {[is |-> "unset", value |-> RenderNone], [is |-> "set", value |-> sampleConfig]},
                     unknown : {FALSE}]
renderSamples ==
  [is : {"render"}, rv1 : sampleBundles, gates : {{}, {"SingleOwnNamespace", "DeploymentConfig"}},
   provider : {"none", "certManager", "serviceCA"}, ext : [ns : {"ns"}, config : sampleConfigs]]

(* Samples of the permission preflight: what the account may be granted, and *)
(* manifests that make roles and bind them.                                 *)
Crud(ns, resource) == {Attributes(ns, v, resource, "") : v \in objectVerbs \cup namespacedCollectionVerbs}
                      \cup {Attributes("", "list", resource, "")}
sampleGrants ==
  {UNION gs : gs \in SUBSET {Crud("n", "configmaps"), Crud("n", "roles") \cup Crud("n", "rolebindings"),
                             Crud("", "clusterroles"), {Attributes("n", "get", "secrets", "")},
                             {Attributes("n", "escalate", "roles", "")}, {Attributes("n", "bind", "roles", "r")},
                             {Attributes("", "*", "*", "")}}}
sampleRole(resource, ns, rules, aggregated) ==
  [resource |-> resource, ns |-> ns, name |-> "r", decodes |-> TRUE, rules |-> rules, aggregated |-> aggregated,
   ref |-> [kind |-> "", name |-> ""]]
readSecrets == {Rule("get", "secrets", "")}
sampleManifestObjects ==
  {[sampleRole("configmaps", "n", {}, FALSE) EXCEPT !.decodes = d] : d \in BOOLEAN}
  \cup {sampleRole("roles", "n", rs, FALSE) : rs \in {{}, readSecrets}}
  \cup {sampleRole("clusterroles", "", readSecrets, a) : a \in BOOLEAN}
  \cup {[sampleRole("rolebindings", "n", {}, FALSE) EXCEPT !.name = "b", !.ref = [kind |-> k, name |-> "r"]] :
          k \in {"Role", "ClusterRole"}}
authSamples ==
  [is : {"auth"}, grants : sampleGrants,
   cluster : {<<>>, <<sampleRole("roles", "n", readSecrets, FALSE)>>, <<sampleRole("roles", "n", {}, FALSE)>>},
   manifest : {<<o>> : o \in sampleManifestObjects} \cup {<<o, p>> : o, p \in sampleManifestObjects},
   verbs : {{"list"}}]

NoSample == [is |-> "none"]
TakeSample ==
  /\ sample = NoSample
  /\ \/ sample' \in contentSamples
     \/ sample' \in renderSamples
     \/ \E s \in authSamples :
          /\ \A i, j \in DOMAIN s.manifest :
               s.manifest[i].resource = s.manifest[j].resource => i = j
          /\ sample' = s

-----------------------------------------------------------------------------
PlatformInit ==
  /\ part \in {"refs", "content", "tokens", "pull", "pods", "certs", "samples"}
  /\ RefInit /\ ContentInit /\ TokensInit /\ PsInit /\ PodsInit /\ CertsInit /\ sample = NoSample
  /\ part # "refs" => history = <<>>
  /\ part # "content" => content = GVKs
  /\ part # "tokens" => account = 0
  /\ part # "pull" => pullNames = {} /\ \A n \in Secrets : psSecrets[n] = {}
  /\ part # "certs" => certDir = "a"

PlatformNext ==
  \/ part = "refs" /\ RefNext /\ UNCHANGED notRefs
  \/ part = "content" /\ ContentNext /\ UNCHANGED notContent
  \/ part = "tokens" /\ TokensNext /\ UNCHANGED notTokens
  \/ part = "pull" /\ PsNext /\ UNCHANGED notPull
  \/ part = "pods" /\ PodsNext /\ UNCHANGED notPods
  \/ part = "certs" /\ CertsNext /\ UNCHANGED notCerts
  \/ part = "samples" /\ TakeSample /\ UNCHANGED notSample

(* The fairness each part states, where a temporal property needs it. *)
PlatformSpec ==
  /\ PlatformInit /\ [][PlatformNext]_platformVars
  /\ WF_platformVars(part = "refs" /\ ApplyStep /\ UNCHANGED notRefs)
  /\ \A r \in Requests : WF_platformVars(part = "tokens" /\ RequestStep(r) /\ UNCHANGED notTokens)
  /\ \A p \in PodSet : WF_platformVars(part = "pods" /\ PodProgress(p) /\ UNCHANGED notPods)
  /\ WF_platformVars(part = "pods" /\ DeploymentStep /\ UNCHANGED notPods)
  /\ WF_platformVars(part = "pods" /\ LeaseExpires /\ UNCHANGED notPods)

-----------------------------------------------------------------------------
(* The phases of a revision do not depend on the order in which the bundle's *)
(* manifests come, and packing them into Secrets loses none, mixes none up   *)
(* and respects the limit of a Secret, compression included.                 *)
ContentExact ==
  sample.is = "content" => PhasesCanonical(sample.objects) /\ PackExact(PhaseSort(sample.objects))

(* What is rendered of a bundle hangs together: grants, webhooks with their  *)
(* Services and certificates, and the user's configuration.                  *)
RenderExact ==
  sample.is = "render" => RenderClosed(sample.rv1, sample.ext, sample.gates, sample.provider)

(* The permission preflight refuses what the API server would refuse, and    *)
(* the rules it reports as missing are enough.                               *)
PreAuthSound ==
  sample.is = "auth" => PreAuthExact(sample.grants, sample.cluster, sample.manifest, sample.verbs, {})

(* A rolling update of catalogd completes (see RolloutCompletes). *)
UpdateCompletes == part = "pods" => RolloutCompletes
=============================================================================
