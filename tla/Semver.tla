------------------------------- MODULE Semver -------------------------------
(***************************************************************************)
(* Semantic versions and what a mod may require of another's               *)
(* (src/core/semver.cpp).  The text they are parsed from is left out.      *)
(***************************************************************************)
EXTENDS Naturals

SemanticVersion == [major : Nat, minor : Nat, patch : Nat]

\* compare_semver(a, b) >= 0
AtLeast(a, b) ==
    \/ a.major > b.major
    \/ a.major = b.major /\ a.minor > b.minor
    \/ a.major = b.major /\ a.minor = b.minor /\ a.patch >= b.patch

VersionRequirement ==
    [kind : {"any", "exact", "at_least", "compatible_major"}, version : SemanticVersion]

Matches(requirement, version) ==
    \/ requirement.kind = "any"
    \/ requirement.kind = "exact" /\ version = requirement.version
    \/ requirement.kind = "at_least" /\ AtLeast(version, requirement.version)
    \/ /\ requirement.kind = "compatible_major"
       /\ version.major = requirement.version.major
       /\ AtLeast(version, requirement.version)

kModApiVersion == [major |-> 1, minor |-> 0, patch |-> 0]

ApiCompatible(requested) ==
    requested.major = kModApiVersion.major /\ AtLeast(kModApiVersion, requested)
=============================================================================
