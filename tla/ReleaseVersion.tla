----------------------------- MODULE ReleaseVersion -----------------------------
(***************************************************************************)
(* The version rules of scripts/release-version/main.go, and the history   *)
(* of main they give: every commit carries a release version (VERSION) and *)
(* an upstream version (mcp_version.go), and CI runs `release-version      *)
(* validate' on each step from one commit to the next.                     *)
(* Definitions named Faulty... are the code with one plausible mistake.    *)
(***************************************************************************)
EXTENDS Integers

CONSTANTS
    MaxComponent,    \* ^uint64(0), the largest version component
    FirstVersions    \* the versions that history starts with

Component == 0 .. MaxComponent
Version   == [major : Component, minor : Component, patch : Component]

ASSUME ReleaseVersionAssumption ==
    /\ MaxComponent \in Nat
    /\ FirstVersions \subseteq Version

(* compareVersions: -1, 0 or 1, by the first pair that differs.            *)
CompareVersions(l, r) ==
    IF l.major # r.major THEN (IF l.major < r.major THEN -1 ELSE 1)
    ELSE IF l.minor # r.minor THEN (IF l.minor < r.minor THEN -1 ELSE 1)
    ELSE IF l.patch # r.patch THEN (IF l.patch < r.patch THEN -1 ELSE 1)
    ELSE 0

Newer(v, w) == CompareVersions(v, w) > 0

(* Faulty: the overflow is not detected.                                   *)
FaultyCanIncrement(x) == x <= MaxComponent

(* increment fails at the largest component.                               *)
CanIncrement(x) == x < MaxComponent

(* Which component bumpReleaseVersion increments, and whether it can.      *)
CanBump(release, current, next) ==
    CanIncrement(IF next.major # current.major THEN release.major
                 ELSE IF next.minor # current.minor THEN release.minor
                 ELSE release.patch)

(* Faulty: the components below the incremented one are kept, and a new     *)
(* minor version of upstream counts as a patch.                            *)
FaultyBumpReleaseVersion(release, current, next) ==
    IF next.major # current.major THEN [release EXCEPT !.major = @ + 1]
    ELSE [release EXCEPT !.patch = @ + 1]

(* Faulty: the patch version is computed from upstream's, not incremented. *)
FaultyBumpPatch(release, current, next) ==
    IF next.major # current.major
      THEN [major |-> release.major + 1, minor |-> 0, patch |-> 0]
    ELSE IF next.minor # current.minor
      THEN [release EXCEPT !.minor = @ + 1, !.patch = 0]
    ELSE [release EXCEPT !.patch = next.patch]

BumpReleaseVersion(release, current, next) ==
    IF next.major # current.major
      THEN [major |-> release.major + 1, minor |-> 0, patch |-> 0]
    ELSE IF next.minor # current.minor
      THEN [release EXCEPT !.minor = @ + 1, !.patch = 0]
    ELSE [release EXCEPT !.patch = @ + 1]

(* Faulty: with upstream unchanged the release version is not looked at.   *)
FaultyValidateSameUpstream(current, next, currentMCP, nextMCP) ==
    \/ CompareVersions(nextMCP, currentMCP) = 0
    \/ /\ Newer(nextMCP, currentMCP)
       /\ CanBump(current, currentMCP, nextMCP)
       /\ next = BumpReleaseVersion(current, currentMCP, nextMCP)

(* validateReleaseTransition: upstream never goes back; while it stays, the *)
(* release version does not go back; when it moves, the release version is  *)
(* exactly the bumped one.                                                 *)
ValidateReleaseTransition(current, next, currentMCP, nextMCP) ==
    \/ /\ CompareVersions(nextMCP, currentMCP) = 0
       /\ CompareVersions(next, current) >= 0
    \/ /\ Newer(nextMCP, currentMCP)
       /\ CanBump(current, currentMCP, nextMCP)
       /\ next = BumpReleaseVersion(current, currentMCP, nextMCP)

(* autoMergeUpstreamUpdate: newer, and of the same major version.          *)
AutoMergeUpstreamUpdate(current, next) ==
    Newer(next, current) /\ next.major = current.major

-----------------------------------------------------------------------------

VARIABLES
    release,    \* VERSION at the head of main
    upstream,   \* mcpServerVersion there
    past,       \* history: both, as they were at some earlier commit
    merged      \* history: how the last commit got there

vars == <<release, upstream, past, merged>>

TypeOK ==
    /\ release \in Version
    /\ upstream \in Version
    /\ past \in [release : Version, upstream : Version]
    /\ merged \in {"none", "auto", "reviewed"}

Init ==
    /\ release \in FirstVersions
    /\ upstream \in FirstVersions
    /\ past = [release |-> release, upstream |-> upstream]
    /\ merged = "none"

(* An upstream update with the version that `release-version next' prints:  *)
(* nothing is printed for an upstream that is not newer or on overflow.    *)
UpstreamUpdate(next) ==
    /\ Newer(next, upstream)
    /\ CanBump(release, upstream, next)
    /\ release' = BumpReleaseVersion(release, upstream, next)
    /\ ValidateReleaseTransition(release, release', upstream, next)
    /\ upstream' = next
    /\ merged' = IF AutoMergeUpstreamUpdate(upstream, next) THEN "auto"
                                                            ELSE "reviewed"
    /\ UNCHANGED past

(* Any other change that passes CI, with whatever versions it carries.     *)
ReviewedChange(nextRelease, nextUpstream) ==
    /\ ValidateReleaseTransition(release, nextRelease, upstream, nextUpstream)
    /\ release' = nextRelease
    /\ upstream' = nextUpstream
    /\ merged' = "reviewed"
    /\ UNCHANGED past

(* Bookkeeping of the specification: remember this commit.                 *)
Remember ==
    /\ past' = [release |-> release, upstream |-> upstream]
    /\ UNCHANGED <<release, upstream, merged>>

Next ==
    \/ \E next \in Version : UpstreamUpdate(next)
    \/ \E r, u \in Version : ReviewedChange(r, u)
    \/ Remember

Spec == Init /\ [][Next]_vars

-----------------------------------------------------------------------------

(* One release version never stands for two upstream versions, however far  *)
(* apart in the history of main the two commits are.                       *)
OneUpstreamPerRelease == past.release = release => past.upstream = upstream

(* Neither version ever goes back along main: not from one commit to the    *)
(* next, and not over any number of commits.                               *)
NeverBack ==
    /\ CompareVersions(release, past.release) >= 0
    /\ CompareVersions(upstream, past.upstream) >= 0

(* Users read compatibility from the release version: a new major version   *)
(* of upstream gives one of gh-mcp, and a new minor version of upstream one *)
(* that is at least minor.                                                 *)
Compatibility ==
    [][/\ upstream'.major # upstream.major => release'.major > release.major
       /\ upstream'.major = upstream.major /\ upstream'.minor # upstream.minor
            => release'.major > release.major \/ release'.minor > release.minor]_vars

(* What is merged without a review never changes the major version.        *)
AutoMergeKeepsMajor ==
    [][merged' = "auto" /\ upstream' # upstream => release'.major = release.major]_vars
=============================================================================
