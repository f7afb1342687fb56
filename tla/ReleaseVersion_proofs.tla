-------------------------- MODULE ReleaseVersion_proofs --------------------------
(***************************************************************************)
(* Machine-checked proofs about ReleaseVersion, for every MaxComponent.    *)
(***************************************************************************)
EXTENDS ReleaseVersion, TLAPS

(* compareVersions is a total order on versions.                           *)
THEOREM CompareTotal ==
    ASSUME NEW v \in Version, NEW w \in Version
    PROVE  /\ CompareVersions(v, w) \in {-1, 0, 1}
           /\ CompareVersions(v, w) = 0 <=> v = w
           /\ CompareVersions(v, w) = -CompareVersions(w, v)
BY ReleaseVersionAssumption
   DEF ReleaseVersionAssumption, Version, Component, CompareVersions

(* It is transitive, so that "newer" is an order on any history of main.   *)
THEOREM CompareTransitive ==
    ASSUME NEW u \in Version, NEW v \in Version, NEW w \in Version,
           CompareVersions(v, u) >= 0, CompareVersions(w, v) >= 0
    PROVE  /\ CompareVersions(w, u) >= 0
           /\ CompareVersions(w, u) = 0 => w = v
BY ReleaseVersionAssumption
   DEF ReleaseVersionAssumption, Version, Component, CompareVersions

(* When bumpReleaseVersion succeeds, its result is a version, and newer.   *)
THEOREM BumpNewer ==
    ASSUME NEW r \in Version, NEW c \in Version, NEW n \in Version,
           CanBump(r, c, n)
    PROVE  /\ BumpReleaseVersion(r, c, n) \in Version
           /\ Newer(BumpReleaseVersion(r, c, n), r)
<1> DEFINE b == BumpReleaseVersion(r, c, n)
<1> USE ReleaseVersionAssumption
    DEF ReleaseVersionAssumption, Version, Component, CanBump, CanIncrement
<1>1. CASE n.major # c.major
  <2>1. b = [major |-> r.major + 1, minor |-> 0, patch |-> 0]
    BY <1>1 DEF BumpReleaseVersion
  <2>2. r.major + 1 \in Component  BY <1>1
  <2>3. b \in Version  BY <2>1, <2>2
  <2>4. Newer(b, r)  BY <2>1 DEF Newer, CompareVersions
  <2> QED BY <2>3, <2>4
<1>2. CASE n.major = c.major /\ n.minor # c.minor
  <2>1. b = [r EXCEPT !.minor = @ + 1, !.patch = 0]
    BY <1>2 DEF BumpReleaseVersion
  <2>2. b = [major |-> r.major, minor |-> r.minor + 1, patch |-> 0]
    BY <2>1
  <2>3. r.minor + 1 \in Component  BY <1>2
  <2>4. b \in Version  BY <2>2, <2>3
  <2>5. Newer(b, r)  BY <2>2 DEF Newer, CompareVersions
  <2> QED BY <2>4, <2>5
<1>3. CASE n.major = c.major /\ n.minor = c.minor
  <2>1. b = [r EXCEPT !.patch = @ + 1]
    BY <1>3 DEF BumpReleaseVersion
  <2>2. b = [major |-> r.major, minor |-> r.minor, patch |-> r.patch + 1]
    BY <2>1
  <2>3. r.patch + 1 \in Component  BY <1>3
  <2>4. b \in Version  BY <2>2, <2>3
  <2>5. Newer(b, r)  BY <2>2 DEF Newer, CompareVersions
  <2> QED BY <2>4, <2>5
<1> QED BY <1>1, <1>2, <1>3

(* What validateReleaseTransition accepts never goes back, and moves the    *)
(* release version forward whenever upstream changes.                      *)
LEMMA ValidatedStep ==
    ASSUME NEW r \in Version, NEW s \in Version, NEW u \in Version,
           NEW v \in Version, ValidateReleaseTransition(r, s, u, v)
    PROVE  /\ CompareVersions(s, r) >= 0
           /\ CompareVersions(v, u) >= 0
           /\ v # u => CompareVersions(s, r) = 1
<1>1. CASE CompareVersions(v, u) = 0 /\ CompareVersions(s, r) >= 0
  BY <1>1, CompareTotal
<1>2. CASE /\ Newer(v, u)
           /\ CanBump(r, u, v)
           /\ s = BumpReleaseVersion(r, u, v)
  <2>1. Newer(s, r)  BY <1>2, BumpNewer
  <2>2. CompareVersions(s, r) \in {-1, 0, 1} /\ CompareVersions(v, u) \in {-1, 0, 1}
    BY CompareTotal
  <2> QED BY <1>2, <2>1, <2>2 DEF Newer
<1> QED BY <1>1, <1>2 DEF ValidateReleaseTransition

-----------------------------------------------------------------------------

VInv == TypeOK /\ NeverBack /\ OneUpstreamPerRelease

(* The invariant holds of the commit that history starts with.             *)
LEMMA VInit == Init => VInv
<1> SUFFICES ASSUME Init PROVE VInv  OBVIOUS
<1>1. TypeOK  BY ReleaseVersionAssumption DEF ReleaseVersionAssumption, Init, TypeOK
<1>2. CompareVersions(release, release) = 0 /\ CompareVersions(upstream, upstream) = 0
  BY <1>1, CompareTotal DEF TypeOK
<1> QED BY <1>1, <1>2 DEF Init, VInv, NeverBack, OneUpstreamPerRelease

(* A commit of main keeps the order and the one meaning of every version.  *)
LEMMA VCommit ==
    ASSUME VInv, release' \in Version, upstream' \in Version,
           ValidateReleaseTransition(release, release', upstream, upstream'),
           UNCHANGED past
    PROVE  NeverBack' /\ OneUpstreamPerRelease'
<1> USE DEF VInv, TypeOK
<1>1. /\ CompareVersions(release', release) >= 0
      /\ CompareVersions(upstream', upstream) >= 0
      /\ upstream' # upstream => CompareVersions(release', release) = 1
  BY ValidatedStep
<1>2. past.release \in Version /\ past.upstream \in Version
  OBVIOUS
<1>3. NeverBack'
  BY <1>1, <1>2, CompareTransitive DEF NeverBack
<1>4. ASSUME past.release = release' PROVE past.upstream = upstream'
  <2>1. CompareVersions(release', past.release) = 0
    BY <1>2, <1>4, CompareTotal
  <2>2. release' = release
    BY <1>1, <1>2, <2>1, CompareTransitive DEF NeverBack
  <2>3. CompareVersions(release', release) = 0
    BY <2>2, CompareTotal
  <2>4. upstream' = upstream
    BY <1>1, <2>3
  <2> QED BY <1>4, <2>2, <2>4 DEF OneUpstreamPerRelease
<1> QED BY <1>3, <1>4 DEF OneUpstreamPerRelease

(* Every way a commit gets onto main preserves the invariant.              *)
LEMMA VStep == VInv /\ [Next]_vars => VInv'
<1> SUFFICES ASSUME VInv, [Next]_vars PROVE VInv'  OBVIOUS
<1> USE DEF VInv, TypeOK
<1>1. ASSUME NEW next \in Version, UpstreamUpdate(next) PROVE VInv'
  <2>1. release' \in Version  BY <1>1, BumpNewer DEF UpstreamUpdate
  <2>2. TypeOK'  BY <1>1, <2>1 DEF UpstreamUpdate
  <2> QED BY <1>1, <2>1, <2>2, VCommit DEF UpstreamUpdate
<1>2. ASSUME NEW r \in Version, NEW u \in Version, ReviewedChange(r, u) PROVE VInv'
  BY <1>2, VCommit DEF ReviewedChange
<1>3. CASE Remember
  <2>1. CompareVersions(release, release) = 0 /\ CompareVersions(upstream, upstream) = 0
    BY CompareTotal
  <2> QED BY <1>3, <2>1 DEF Remember, NeverBack, OneUpstreamPerRelease
<1>4. CASE UNCHANGED vars
  BY <1>4 DEF vars, NeverBack, OneUpstreamPerRelease
<1> QED BY <1>1, <1>2, <1>3, <1>4 DEF Next

(* The types, the order and the uniqueness hold along the whole of main.   *)
THEOREM Invariance == Spec => []VInv
BY VInit, VStep, PTL DEF Spec

(* Both versions are versions, with components of 64 bits, at every commit. *)
THEOREM TypeThm == Spec => []TypeOK
<1>1. VInv => TypeOK  BY DEF VInv
<1> QED BY Invariance, <1>1, PTL

(* Neither version goes back over any number of commits.                   *)
THEOREM NeverBackThm == Spec => []NeverBack
<1>1. VInv => NeverBack  BY DEF VInv
<1> QED BY Invariance, <1>1, PTL

(* One release version stands for one upstream version, for ever.          *)
THEOREM OneUpstreamThm == Spec => []OneUpstreamPerRelease
<1>1. VInv => OneUpstreamPerRelease  BY DEF VInv
<1> QED BY Invariance, <1>1, PTL

(* What validate lets through carries upstream's major and minor versions. *)
LEMMA ValidatedCompatible ==
    ASSUME NEW r \in Version, NEW s \in Version, NEW u \in Version,
           NEW v \in Version, ValidateReleaseTransition(r, s, u, v)
    PROVE  /\ v.major # u.major => s.major > r.major
           /\ v.major = u.major /\ v.minor # u.minor =>
                s.major > r.major \/ s.minor > r.minor
<1>1. CASE CompareVersions(v, u) = 0
  BY <1>1, CompareTotal
<1>2. CASE s = BumpReleaseVersion(r, u, v)
  BY <1>2, ReleaseVersionAssumption
  DEF ReleaseVersionAssumption, BumpReleaseVersion, Version, Component
<1> QED BY <1>1, <1>2 DEF ValidateReleaseTransition

(* A new major or minor version of upstream shows in the release version,  *)
(* whether the update was merged automatically or by a reviewer.           *)
THEOREM CompatibilityThm == Spec => Compatibility
<1>1. ASSUME VInv, [Next]_vars
      PROVE  [/\ upstream'.major # upstream.major => release'.major > release.major
              /\ upstream'.major = upstream.major /\ upstream'.minor # upstream.minor
                   => \/ release'.major > release.major
                      \/ release'.minor > release.minor]_vars
  <2> USE <1>1 DEF VInv, TypeOK
  <2>1. CASE \E next \in Version : UpstreamUpdate(next)
    BY <2>1, ValidatedCompatible, BumpNewer DEF UpstreamUpdate
  <2>2. CASE \E r, u \in Version : ReviewedChange(r, u)
    BY <2>2, ValidatedCompatible DEF ReviewedChange
  <2>3. CASE Remember \/ UNCHANGED vars
    BY <2>3 DEF Remember, vars
  <2> QED BY <2>1, <2>2, <2>3 DEF Next
<1> QED BY Invariance, <1>1, PTL DEF Spec, Compatibility

(* No automatic merge changes the major release version.                   *)
THEOREM AutoMergeThm == Spec => AutoMergeKeepsMajor
<1>1. ASSUME VInv, [Next]_vars
      PROVE  [merged' = "auto" /\ upstream' # upstream =>
                release'.major = release.major]_vars
  <2> USE <1>1, ReleaseVersionAssumption
      DEF VInv, TypeOK, Version, Component, ReleaseVersionAssumption,
          AutoMergeUpstreamUpdate, BumpReleaseVersion
  <2>1. CASE \E next \in Version : UpstreamUpdate(next)
    BY <2>1 DEF UpstreamUpdate
  <2>2. CASE \E r, u \in Version : ReviewedChange(r, u)
    BY <2>2 DEF ReviewedChange
  <2>3. CASE Remember \/ UNCHANGED vars
    BY <2>3 DEF Remember, vars
  <2> QED BY <2>1, <2>2, <2>3 DEF Next
<1> QED BY Invariance, <1>1, PTL DEF Spec, AutoMergeKeepsMajor
=============================================================================
