--------------------------- MODULE Authorization ---------------------------
(***************************************************************************)
(* The permission preflight (internal/operator-controller/authorization/   *)
(* rbac.go): before a bundle is applied, which rules does the extension's  *)
(* service account lack? PreAuthorize looks at the manifest's objects and  *)
(* asks what the API server would refuse: the verbs on every object, and   *)
(* roles or bindings that would grant more than the account holds.         *)
(*                                                                         *)
(* A rule is [verb, resource, name]; "*" is any verb or resource, and name *)
(* "" any object. A grant is [ns, rule]; ns "" is the whole cluster. The   *)
(* Kubernetes authorizer and the escalation check of its RBAC registry are *)
(* external and modelled by what they decide.                              *)
(***************************************************************************)
EXTENDS FiniteSets, Sequences

\* objectVerbs and namespacedCollectionVerbs.
objectVerbs == {"get", "patch", "update", "delete"}
namespacedCollectionVerbs == {"create"}

Rule(verb, resource, name) == [verb |-> verb, resource |-> resource, name |-> name]
Attributes(ns, verb, resource, name) == [ns |-> ns, rule |-> Rule(verb, resource, name)]

RBACKinds == {"clusterroles", "roles", "clusterrolebindings", "rolebindings"}
RefResource(kind) == IF kind = "ClusterRole" THEN "clusterroles" ELSE "roles"
fullAuthority == {Rule("*", "*", "")}

\* One rule covers another, or a request.
Covers(h, r) ==
    /\ h.verb \in {"*", r.verb} /\ h.resource \in {"*", r.resource}
    /\ h.name \in {"", r.name}

\* The rules a user holds in a namespace: the cluster's and the namespace's.
Held(grants, ns) == {g.rule : g \in {x \in grants : x.ns \in {"", ns}}}

\* rbacGetter and Authorize: the decision of the RBAC authorizer.
attributesAllowed(grants, a) == \E h \in Held(grants, a.ns) : Covers(h, a.rule)

\* decodeManifest fails as a whole when one object has no REST mapping or
\* does not convert.
decodeManifest(manifest) == \A i \in DOMAIN manifest : manifest[i].decodes

Objects(manifest) == {manifest[i] : i \in DOMAIN manifest}

\* asAuthorizationAttributesRecordsForUser: the object verbs on every object,
\* create once for every namespace, and the collection verbs on the cluster.
RequiredAttributes(manifest, clusterCollectionVerbs) ==
    {Attributes(o.ns, v, o.resource, o.name) : o \in Objects(manifest), v \in objectVerbs}
    \cup {Attributes(o.ns, v, o.resource, "") :
            o \in Objects(manifest), v \in namespacedCollectionVerbs}
    \cup {Attributes("", v, o.resource, "") :
            o \in Objects(manifest), v \in clusterCollectionVerbs}

\* authorizeAttributesRecords and policyRuleFromAttributesRecord.
MissingAttributes(grants, required) ==
    {a \in required : ~attributesAllowed(grants, a)}

\* ConfirmNoEscalation: the rules the user does not hold in the namespace.
NotHeld(grants, ns, rules) ==
    {r \in rules : \A h \in Held(grants, ns) : ~Covers(h, r)}

\* RoleEscalationAuthorized and BindingAuthorized: the verbs escalate and bind
\* lift the check. EscalationAllowed is for members of system:masters, and the
\* user PreAuthorize is given has no groups.
RoleEscalationAuthorized(grants, o) ==
    attributesAllowed(grants, Attributes(o.ns, "escalate", o.resource, ""))
BindingAuthorized(grants, o) ==
    attributesAllowed(grants, Attributes(o.ns, "bind", RefResource(o.ref.kind), o.ref.name))

\* GetRoleReferenceRules: the rules of the referenced role among the given
\* objects, none when it is not found.
RoleRules(objects, o) ==
    UNION {r.rules : r \in {x \in objects :
             /\ x.resource = RefResource(o.ref.kind) /\ x.name = o.ref.name
             /\ x.ns = (IF o.ref.kind = "Role" THEN o.ns ELSE "")}}

\* Mutant: a binding is checked against the cluster's roles only.
BoundRulesInCluster(cluster, manifest, o) == RoleRules(Objects(cluster), o)

\* The binding's rules: the role in the cluster and the manifest's together.
BoundRules(cluster, manifest, o) ==
    RoleRules(Objects(cluster), o) \cup RoleRules(Objects(manifest), o)

\* hasAggregationRule: full authority is needed, and the error for lacking it
\* has another text than the one parseEscalationErrorForMissingRules reads.
Unparsed(grants, o) ==
    /\ o.resource = "clusterroles" /\ o.aggregated
    /\ ~RoleEscalationAuthorized(grants, o)
    /\ NotHeld(grants, o.ns, fullAuthority) # {}

\* checkEscalation, by kind: the missing rules parsed from its error.
EscalationMissing(grants, cluster, manifest, o) ==
    CASE o.resource \in {"clusterroles", "roles"} ->
           IF RoleEscalationAuthorized(grants, o) \/ Unparsed(grants, o) THEN {}
           ELSE NotHeld(grants, o.ns, o.rules)
      [] o.resource \in {"clusterrolebindings", "rolebindings"} ->
           IF BindingAuthorized(grants, o) THEN {}
           ELSE NotHeld(grants, o.ns, BoundRules(cluster, manifest, o))
      [] OTHER -> {}

\* PreAuthorize: the missing rules by namespace, and whether the list may be
\* incomplete (an error beside it). CompactRules and the sorting keep the set.
PreAuthorize(grants, cluster, manifest, clusterCollectionVerbs, additional) ==
    IF ~decodeManifest(manifest) THEN [missing |-> {}, err |-> TRUE]
    ELSE [missing |->
            MissingAttributes(grants,
              RequiredAttributes(manifest, clusterCollectionVerbs) \cup additional)
            \cup UNION {{[ns |-> o.ns, rule |-> r] :
                           r \in EscalationMissing(grants, cluster, manifest, o)} :
                        o \in Objects(manifest)},
          err |-> \E o \in Objects(manifest) : Unparsed(grants, o)]

\* formatPreAuthorizerOutput: any missing rule or error refuses the bundle.
PreAuthorized(result) == result.missing = {} /\ ~result.err

-----------------------------------------------------------------------------
\* What the API server does when the manifest's objects are applied, roles
\* before bindings: the verbs of server-side apply and deletion on each object,
\* and its escalation check against the roles as they are by then.
ServerAccepts(grants, cluster, manifest, o) ==
    LET applied == Objects(manifest)
        now == applied \cup {r \in Objects(cluster) : ~\E x \in applied :
                 x.resource = r.resource /\ x.ns = r.ns /\ x.name = r.name}
    IN  /\ \A v \in objectVerbs :
             attributesAllowed(grants, Attributes(o.ns, v, o.resource, o.name))
        /\ attributesAllowed(grants, Attributes(o.ns, "create", o.resource, ""))
        /\ o.resource \in {"clusterroles", "roles"} =>
             \/ RoleEscalationAuthorized(grants, o)
             \/ /\ NotHeld(grants, o.ns, o.rules) = {}
                /\ o.resource = "clusterroles" /\ o.aggregated
                     => NotHeld(grants, o.ns, fullAuthority) = {}
        /\ o.resource \in {"clusterrolebindings", "rolebindings"} =>
             \/ BindingAuthorized(grants, o)
             \/ NotHeld(grants, o.ns, RoleRules(now, o)) = {}

(* A bundle the preflight lets through is one whose every object the API   *)
(* server accepts from the service account; and an account that is granted *)
(* the rules the preflight reports as missing passes it the next time,     *)
(* unless the list was said to be incomplete.                              *)
PreAuthExact(grants, cluster, manifest, clusterCollectionVerbs, additional) ==
    LET result == PreAuthorize(grants, cluster, manifest, clusterCollectionVerbs, additional)
        again == PreAuthorize(grants \cup result.missing, cluster, manifest,
                              clusterCollectionVerbs, additional)
    IN  /\ PreAuthorized(result) =>
             \A o \in Objects(manifest) : ServerAccepts(grants, cluster, manifest, o)
        /\ ~result.err => PreAuthorized(again)
=============================================================================
