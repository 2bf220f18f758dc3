----------------------------- MODULE MCExtension -----------------------------
(***************************************************************************)
(* The reconciliation of an extension for TLC, and samples of resolution   *)
(* for more catalogs than its behaviours reach: a behaviour is of one part.*)
(***************************************************************************)
EXTENDS Extension

VARIABLES part, sample

extParts == <<extVars, part, sample>>

mcBundle(n, v) == [name |-> n, prop |-> [version |-> v, build |-> 0, release |-> Absent], dependencies |-> FALSE]
mcEntry(n, r) == [name |-> n, replaces |-> r, skips |-> {}, skipRange |-> {}]
mcFBC(bs, es, ds) == [channels |-> {[name |-> "stable", entries |-> es]}, bundles |-> bs, deprecations |-> ds]
mcCatalog(f) == [name |-> "cat", priority |-> 0, selected |-> TRUE, availabilityMode |-> "Available",
                 fails |-> FALSE, fbc |-> f]
mcOld == mcFBC(<<mcBundle("b1", 1)>>, {mcEntry("b1", "")}, <<>>)
mcNew == mcFBC(<<mcBundle("b1", 1), mcBundle("b2", 2)>>, {mcEntry("b1", ""), mcEntry("b2", "b1")},
               <<{[schema |-> "olm.bundle", name |-> "b1", message |-> TRUE]}>>)
mcCatalogLists == {<<>>, <<mcCatalog(mcOld)>>, <<mcCatalog(mcNew)>>}

mcSource(vs, ex, c) == [channels |-> {}, versions |-> vs, exact |-> ex, selfCertified |-> FALSE, config |-> c]
mcSources == {mcSource(AnyVersion, Absent, "ok"), mcSource({1}, 1, "ok"),
              mcSource(AnyVersion, Absent, "InvalidConfiguration")}
mcRender(n) == n

-----------------------------------------------------------------------------
(* Samples: up to two catalogs of different priorities and modes; their      *)
(* bundles with a release, with build metadata that is one or is not, and   *)
(* without a version; every edge of the upgrade graph and none.             *)

sampleBundles ==
  {[name |-> "x", prop |-> p, dependencies |-> FALSE] :
     p \in {NoProperty} \cup [version : {1, 2}, build : {1, NotARelease}, release : {Absent, 2}]}
  \cup {[name |-> "y", prop |-> [version |-> 2, build |-> 1, release |-> Absent], dependencies |-> d] : d \in BOOLEAN}
sampleEntries == {{[name |-> "x", replaces |-> "old", skips |-> {}, skipRange |-> {}]},
                  {[name |-> "x", replaces |-> "", skips |-> {"old"}, skipRange |-> {}],
                   [name |-> "y", replaces |-> "", skips |-> {}, skipRange |-> {1}]}}
sampleFBCs ==
  {[channels |-> {[name |-> "stable", entries |-> es]}, bundles |-> bs, deprecations |-> ds] :
     es \in sampleEntries, bs \in {<<b, c>> : b \in {x \in sampleBundles : x.name = "x"}, c \in {y \in sampleBundles : y.name = "y"}},
     ds \in {<<>>, <<{[schema |-> "olm.bundle", name |-> "x", message |-> FALSE]}>>}}
sampleSource == [channels |-> {}, versions |-> AnyVersion, exact |-> Absent, selfCertified |-> FALSE, config |-> "ok"]
sampleInstalled == {NothingInstalled, [name |-> "old", version |-> 1, build |-> 0, release |-> 2]}

(* One catalog is sampled freely, the other from the few below. *)
sampleCatalog(n, f, p, m) ==
  [name |-> n, priority |-> p, selected |-> TRUE, availabilityMode |-> m, fails |-> FALSE, fbc |-> f]
Others ==
  {<<>>} \cup {<<sampleCatalog("k", mcFBC(<<b>>, {mcEntry("z", "old")}, d), p, m)>> :
                 b \in {mcBundle("z", 1)}, p \in {0, 1}, m \in {"Available", "Unavailable"},
                 d \in {<<>>, <<{[schema |-> "olm.bundle", name |-> "z", message |-> TRUE]}>>}}

NoSample == [catalogs |-> <<>>, channels |-> {}, installed |-> NothingInstalled]
TakeSample ==
  \/ /\ sample = NoSample
     /\ \E f \in sampleFBCs, k \in Others, p \in {0, 1}, m \in sampleInstalled, cs \in {{}, {"stable"}} :
          \/ sample' = [catalogs |-> <<sampleCatalog("j", f, p, "Available")>> \o k, channels |-> cs, installed |-> m]
          \/ sample' = [catalogs |-> k \o <<sampleCatalog("j", f, p, "Available")>>, channels |-> cs, installed |-> m]
  \/ sample # NoSample /\ sample' = NoSample

FirstSource == CHOOSE s \in ExtSources : TRUE
PartsInit ==
  /\ ExtInit /\ sample = NoSample
  /\ \/ part = "extension"
     \/ part = "resolution" /\ runtime = "helm" /\ world.catalogs = <<>> /\ ext.source = FirstSource
PartsNext ==
  \/ part = "extension" /\ ExtNext /\ UNCHANGED <<part, sample>>
  \/ part = "resolution" /\ TakeSample /\ UNCHANGED <<extVars, part>>

(* The fairness of ExtSpec. *)
PartsSpec ==
  /\ PartsInit /\ [][PartsNext]_extParts
  /\ WF_extParts(part = "extension" /\ ReconcileStep /\ UNCHANGED <<part, sample>>)
  /\ WF_extParts(part = "extension" /\ (\E i \in DOMAIN releases : RevisionProgresses(i))
                   /\ UNCHANGED <<part, sample>>)

-----------------------------------------------------------------------------
(* Resolve's walk over the catalogs, which drops and replaces candidates as  *)
(* it goes, answers with the best bundle there is, whatever the order of the *)
(* catalogs; and a bundle it answers with has its own version again when it  *)
(* is read back from what is stored of it, so that it can be upgraded.       *)
ResolveExact ==
  /\ ResolveBest(sample.catalogs, [sampleSource EXCEPT !.channels = sample.channels], sample.installed)
  /\ \A i \in DOMAIN sample.catalogs : \A b \in ToSet(sample.catalogs[i].fbc.bundles) : VersionRoundTrips(b)
=============================================================================
