----------------------------- MODULE Resolution -----------------------------
(***************************************************************************)
(* Which bundle a ClusterExtension resolves to: the walk over the catalogs *)
(* (internal/operator-controller/resolve), the predicates on bundles       *)
(* (catalogmetadata/filter), their order (catalogmetadata/compare) and the *)
(* version and release of a bundle (bundleutil).                           *)
(*                                                                         *)
(* The order of semver versions without build metadata is the order of     *)
(* numbers. Build metadata and releases are numbers too: 0 is empty, a     *)
(* positive number is a string that parses as a release, NotARelease is    *)
(* build metadata that does not. Absent is a release that is not given.    *)
(* A bundle is a record [name, prop, dependencies] in which prop is its    *)
(* package property [version, build, release] or NoProperty; a package of  *)
(* a catalog has channels, a sequence of bundles and its deprecations.     *)
(***************************************************************************)
EXTENDS Integers, Sequences, FiniteSets, SequencesExt

CONSTANT BundleReleaseSupport    \* the feature gate

NotARelease == -1
Absent == -2
NoProperty == [version |-> Absent, build |-> 0, release |-> Absent]
NoDeprecation == {}

(* What a list of catalogs is made of, as far as their order and that of     *)
(* their bundles matters.                                                   *)
IsList(s) == Len(s) \in Nat /\ DOMAIN s = 1..Len(s)
Properties == [version : Int, build : Int, release : Int]
AreCatalogs(catalogs) ==
  /\ IsList(catalogs)
  /\ \A i \in DOMAIN catalogs :
       /\ catalogs[i].priority \in Int /\ IsList(catalogs[i].fbc.bundles)
       /\ \A k \in DOMAIN catalogs[i].fbc.bundles : catalogs[i].fbc.bundles[k].prop \in Properties

-----------------------------------------------------------------------------
(* Versions and releases.                                                   *)

ParseLegacyVersionRelease(version, build) ==
  IF build > 0 THEN [version |-> version, build |-> 0, release |-> build]
  ELSE [version |-> version, build |-> build, release |-> Absent]

ParseExplicitRelease(version, build, release) ==
  [version |-> version, build |-> build, release |-> release]

parseVersionRelease(prop) ==
  IF BundleReleaseSupport /\ prop.release # Absent
  THEN ParseExplicitRelease(prop.version, prop.build, prop.release)
  ELSE ParseLegacyVersionRelease(prop.version, prop.build)

HasVersion(b) == b.prop # NoProperty
GetVersionAndRelease(b) == parseVersionRelease(b.prop)

(* The library's order: build metadata does not count, no release is the     *)
(* lowest one.                                                              *)
ReleaseRank(vr) == IF vr.release = Absent THEN 0 ELSE vr.release
Newer(a, b) ==
  \/ a.version > b.version
  \/ a.version = b.version /\ ReleaseRank(a) > ReleaseRank(b)
SameVersion(a, b) == ~Newer(a, b) /\ ~Newer(b, a)

asLegacyRegistryV1Version(vr) ==
  [version |-> vr.version, build |-> IF vr.release > 0 THEN vr.release ELSE vr.build]

(* What is stored of an installed bundle: BundleMetadata. *)
MetadataFor(name, vr) ==
  IF BundleReleaseSupport
  THEN [name |-> name, version |-> vr.version, build |-> vr.build, release |-> vr.release]
  ELSE [name |-> name, version |-> asLegacyRegistryV1Version(vr).version,
        build |-> asLegacyRegistryV1Version(vr).build, release |-> Absent]

parseInstalledBundleVersionRelease(installed) ==
  IF installed.release = Absent
  THEN ParseLegacyVersionRelease(installed.version, installed.build)
  ELSE ParseExplicitRelease(installed.version, installed.build, installed.release)

-----------------------------------------------------------------------------
(* Predicates on bundles.                                                   *)

ExactVersionRelease(expect, b) == HasVersion(b) /\ SameVersion(expect, GetVersionAndRelease(b))
(* A range is the set of versions it admits; AnyVersion is no range.        *)
AnyVersion == {}
InSemverRange(range, b) == HasVersion(b) /\ GetVersionAndRelease(b).version \in range
InAnyChannel(channels, b) == \E c \in channels : \E e \in c.entries : e.name = b.name

isSuccessor(entry, installed) ==
  \/ entry.replaces = installed.name
  \/ installed.name \in entry.skips
  \/ installed.version \in entry.skipRange
legacySuccessor(installed, channels, b) ==
  \E c \in channels : \E e \in c.entries : e.name = b.name /\ isSuccessor(e, installed)
SuccessorsOf(installed, channels, b) ==
  \/ legacySuccessor(installed, channels, b)
  \/ ExactVersionRelease(parseInstalledBundleVersionRelease(installed), b)

-----------------------------------------------------------------------------
(* Resolution. An extension's catalog source: channels and versions         *)
(* (AnyVersion, or the range), selfCertified; Nothing is installed or a     *)
(* BundleMetadata. A deprecation is a set of entries [schema, name,         *)
(* message].                                                                *)

NothingInstalled == [name |-> "", version |-> Absent, build |-> 0, release |-> Absent]

isDeprecated(b, deprecation) == \E e \in deprecation : e.schema = "olm.bundle" /\ e.name = b.name

isFBCEmpty(fbc) == fbc.channels = {} /\ fbc.bundles = <<>> /\ fbc.deprecations = <<>>

Deprecation(fbc) == IF fbc.deprecations = <<>> THEN NoDeprecation ELSE fbc.deprecations[1]

(* Channels the source does not name are deleted from the package in place, *)
(* so that they give no upgrade edges either.                               *)
ChannelsOf(fbc, source) ==
  IF source.channels = {} THEN fbc.channels ELSE {c \in fbc.channels : c.name \in source.channels}

(* The places of the bundles in the file that pass all predicates.          *)
Candidates(fbc, source, installed) ==
  LET channels == ChannelsOf(fbc, source)
      Admits(b) == /\ source.channels # {} => InAnyChannel(channels, b)
                   /\ source.versions # AnyVersion => InSemverRange(source.versions, b)
                   /\ source.selfCertified \/ installed = NothingInstalled
                        \/ SuccessorsOf(installed, channels, b)
  IN  {i \in DOMAIN fbc.bundles : Admits(fbc.bundles[i])}

(* ByVersionAndRelease, after ByDeprecationFunc: a comes before b.          *)
ByVersionAndRelease(a, b) ==
  IF HasVersion(a) /\ HasVersion(b) THEN Newer(GetVersionAndRelease(a), GetVersionAndRelease(b))
  ELSE HasVersion(a) /\ ~HasVersion(b)
ByDeprecation(deprecation, a, b) ==
  \/ ~isDeprecated(a, deprecation) /\ isDeprecated(b, deprecation)
  \/ isDeprecated(a, deprecation) = isDeprecated(b, deprecation) /\ ByVersionAndRelease(a, b)

(* The first of a stable sort: nothing comes before it, and what precedes   *)
(* it in the file comes after it.                                           *)
IsBest(fbc, places, i) ==
  \A j \in places :
    /\ ~ByDeprecation(Deprecation(fbc), fbc.bundles[j], fbc.bundles[i])
    /\ j < i => ByDeprecation(Deprecation(fbc), fbc.bundles[i], fbc.bundles[j])
Best(fbc, places) == fbc.bundles[CHOOSE i \in places : IsBest(fbc, places, i)]

(* What a catalog contributes: thisBundle, and whether it is deprecated.    *)
Offer(cat, source, installed) == Best(cat.fbc, Candidates(cat.fbc, source, installed))
OffersDeprecated(cat, source, installed) ==
  isDeprecated(Offer(cat, source, installed), Deprecation(cat.fbc))

(* Catalogs of the list, by place, that the selector selects and that are   *)
(* not disabled; of these, those that have a candidate.                     *)
CatalogWalker(catalogs) ==
  {i \in DOMAIN catalogs : catalogs[i].selected /\ catalogs[i].availabilityMode # "Unavailable"}
Offering(catalogs, source, installed) ==
  {i \in CatalogWalker(catalogs) :
     ~isFBCEmpty(catalogs[i].fbc) /\ Candidates(catalogs[i].fbc, source, installed) # {}}

(* resolvedBundles, by the places of their catalogs, and the last of them,  *)
(* which priorDeprecation belongs to.                                       *)
Undecided == [found |-> {}, last |-> 0]

(* Mutant: a bundle that is not deprecated does not displace those that are. *)
WalkCatalogAppends(acc, catalogs, i, source, installed) ==
  IF i \notin Offering(catalogs, source, installed) THEN acc
  ELSE [found |-> acc.found \cup {i}, last |-> i]

(* One catalog of the walk: those found so far are all deprecated or all    *)
(* not.                                                                     *)
WalkCatalog(acc, catalogs, i, source, installed) ==
  LET current == OffersDeprecated(catalogs[i], source, installed)
      prior == OffersDeprecated(catalogs[acc.last], source, installed)
  IN  IF \/ i \notin Offering(catalogs, source, installed)
         \/ acc.found # {} /\ current /\ ~prior
      THEN acc
      ELSE [found |-> {i} \cup IF acc.found # {} /\ ~current /\ prior THEN {} ELSE acc.found,
            last |-> i]

Walk(catalogs, source, installed) ==
  LET walk[i \in 0..Len(catalogs)] ==
        IF i = 0 THEN Undecided ELSE WalkCatalog(walk[i - 1], catalogs, i, source, installed)
  IN  walk[Len(catalogs)]

(* Unless one catalog has the highest priority alone, there is no answer. *)
Highest(catalogs, found) ==
  {i \in found : \A j \in found : catalogs[j].priority <= catalogs[i].priority}
ByPriority(catalogs, found) ==
  LET top == Highest(catalogs, found)
  IN  IF Cardinality(found) > 1 /\ Cardinality(top) = 1 THEN top ELSE found

NoDependencyValidation(b) == ~b.dependencies

resolutionError == [ok |-> FALSE]
Resolve(catalogs, source, installed) ==
  LET outcome == Walk(catalogs, source, installed)
      left == ByPriority(catalogs, outcome.found)
      one == catalogs[CHOOSE i \in left : TRUE]
      bundle == Offer(one, source, installed)
  IN  IF \/ \E i \in CatalogWalker(catalogs) : catalogs[i].fails     \* one catalog cannot be read
         \/ Cardinality(left) # 1
         \/ ~HasVersion(bundle)
         \/ ~NoDependencyValidation(bundle)
      THEN resolutionError
      ELSE [ok |-> TRUE, catalog |-> one.name, bundle |-> bundle,
            metadata |-> MetadataFor(bundle.name, GetVersionAndRelease(bundle)),
            deprecation |-> Deprecation(catalogs[outcome.last].fbc)]

-----------------------------------------------------------------------------
(* The best answer, said at once: of the catalogs that offer a bundle, those *)
(* whose best one is not deprecated if there are any, of these the only one  *)
(* of the highest priority, and its best bundle. There is an answer exactly  *)
(* if there is one such catalog, no catalog of the walk fails and its bundle *)
(* can be installed.                                                        *)
BestAnswer(catalogs, source, installed) ==
  LET usable == Offering(catalogs, source, installed)
      fresh == {i \in usable : ~OffersDeprecated(catalogs[i], source, installed)}
  IN  Highest(catalogs, IF fresh = {} THEN usable ELSE fresh)

Installable(b) == HasVersion(b) /\ NoDependencyValidation(b)
ResolveBest(catalogs, source, installed) ==
  LET r == Resolve(catalogs, source, installed)
      best == BestAnswer(catalogs, source, installed)
  IN  /\ r.ok <=> /\ Cardinality(best) = 1
                  /\ \A i \in best : Installable(Offer(catalogs[i], source, installed))
                  /\ \A i \in CatalogWalker(catalogs) : ~catalogs[i].fails
      /\ r.ok => \A i \in best : /\ r.catalog = catalogs[i].name
                                 /\ r.bundle = Offer(catalogs[i], source, installed)

(* What an upgrade keeps: a bundle read back from what is stored of it has   *)
(* its own version again, so that it is a candidate of its own upgrade.      *)
VersionRoundTrips(b) ==
  HasVersion(b) =>
    ExactVersionRelease(parseInstalledBundleVersionRelease(
                          MetadataFor(b.name, GetVersionAndRelease(b))), b)

(* "keep track of it so that we can return it if we end up resolving a       *)
(* bundle from this package" (resolve/catalog.go): the deprecation that goes *)
(* with an answer is the one of the catalog the answer is from.              *)
DeprecationOfAnswer(catalogs, source, installed) ==
  LET r == Resolve(catalogs, source, installed)
  IN  r.ok => \A i \in DOMAIN catalogs :
                catalogs[i].name = r.catalog => r.deprecation = Deprecation(catalogs[i].fbc)
=============================================================================
