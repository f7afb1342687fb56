--------------------------- MODULE UpstreamUpdate ---------------------------
(***************************************************************************)
(* How a new upstream version reaches main without a review: Renovate      *)
(* opens a pull request, bump.yml completes it, CI tests it, and           *)
(* merge-upstream-release.yml verifies it again and merges it.  Main, the   *)
(* branch of the pull request and the jobs move independently; a job knows  *)
(* the base and the head of the event that started it, and what it reads.   *)
(*                                                                         *)
(* A commit of main is the metadata it carries; its index is its SHA.  The  *)
(* SHA of a head of the branch is its content: two commits of one content   *)
(* are not told apart, so that more results are taken for current ones.     *)
(* Definitions named Faulty... are the code with one plausible mistake.    *)
(***************************************************************************)
EXTENDS Naturals, Sequences, FiniteSets

CONSTANTS
    MaxComponent,   \* the largest version component
    Releases,       \* upstream versions
    OwnReleases,    \* release versions that maintainers give
    FirstTree,      \* the metadata of the first commit
    NoRun,          \* no job, no event
    MaxMain,        \* bound: commits of main
    MaxCI,          \* bound: CI runs at once
    MaxTrouble      \* bound: commits of maintainers on the branch, failing
                    \* jobs, repeated events, PRs closed by hand

VARIABLES
    main,     \* the commits of main
    merged,   \* how the last one got there: "none", "auto", "reviewed"
    open,     \* the pull request is open
    head,     \* the head of its branch
    base,     \* the base SHA that GitHub gives for it
    ci,       \* running CI runs, by the base and head of their event
    passed,   \* the last CI run that succeeded for a current head
    events,   \* successful CI runs that no merge job has handled
    bump,     \* the running job of bump.yml, and the one that waits for it:
    waiting,  \* its concurrency group runs one at a time
    job,      \* the merge job; its group runs one at a time as well
    pc,       \* where that job is
    humans, faults

vars == <<main, merged, open, head, base, ci, passed, events, bump, waiting, job,
          pc, humans, faults>>

Tip    == Len(main)
Newest == main[Tip]

Rules == INSTANCE ReleaseVersion
    WITH FirstVersions <- {FirstTree.release, FirstTree.upstream},
         release <- Newest.release, upstream <- Newest.upstream,
         past <- [release |-> FirstTree.release, upstream |-> FirstTree.upstream]

(* VERSION, mcp_version.go, and the version the pinned checksums belong to. *)
Trees == [release : Rules!Version, upstream : Rules!Version, pins : Rules!Version]

(* A head of the branch: the commit of main it contains, its metadata,      *)
(* whether it changes nothing but RELEASE_FILES, and whether a maintainer   *)
(* committed to it.                                                        *)
Heads == [base : Nat, tree : Trees, scoped : BOOLEAN, human : BOOLEAN]
Runs  == [base : Nat, head : Heads]

ASSUME UpstreamAssumption ==
    /\ MaxComponent \in Nat
    /\ Releases \subseteq Rules!Version
    /\ OwnReleases \subseteq Rules!Version
    /\ FirstTree \in Trees /\ FirstTree.pins = FirstTree.upstream
    /\ NoRun \notin Runs
    /\ MaxMain \in Nat /\ MaxCI \in Nat \ {0} /\ MaxTrouble \in Nat

TypeOK ==
    /\ main \in Seq(Trees) /\ Tip > 0
    /\ merged \in {"none", "auto", "reviewed"}
    /\ open \in BOOLEAN
    /\ head \in Heads
    /\ base \in Nat
    /\ ci \in SUBSET Runs
    /\ passed \in Runs \cup {NoRun}
    /\ events \in SUBSET Runs
    /\ bump \in Runs \cup {NoRun} /\ waiting \in Runs \cup {NoRun}
    /\ job \in Runs \cup {NoRun}
    /\ pc \in {"idle", "verify", "reload", "put"}
    /\ humans \in Nat /\ faults \in Nat

Init ==
    /\ main = <<FirstTree>>
    /\ merged = "none"
    /\ open = FALSE
    /\ head = [base |-> 1, tree |-> FirstTree, scoped |-> TRUE, human |-> FALSE]
    /\ base = 1
    /\ ci = {} /\ events = {} /\ passed = NoRun
    /\ bump = NoRun /\ waiting = NoRun
    /\ job = NoRun /\ pc = "idle"
    /\ humans = 0 /\ faults = 0

Main     == <<main, merged>>
Branch   == <<open, head, base>>
CI       == <<ci, passed>>
BumpJobs == <<bump, waiting>>
Merge    == <<events, job, pc>>
Bounds   == <<humans, faults>>

(***************************************************************************)
(* The branch of the pull request                                          *)
(***************************************************************************)

(* A push gives the branch a new head, sets the base SHA to the tip of main *)
(* and starts CI and bump.yml with both.                                   *)
PushHead(h) ==
    /\ Cardinality(ci) < MaxCI
    /\ head' = h
    /\ base' = Tip
    /\ ci' = ci \cup {[base |-> Tip, head |-> h]}
    /\ UNCHANGED passed

(* A job of bump.yml waits for the one that runs, and replaces one that     *)
(* waits already.                                                          *)
Push(h) ==
    /\ PushHead(h)
    /\ \/ /\ bump = NoRun
          /\ bump' = [base |-> Tip, head |-> h]
          /\ UNCHANGED waiting
       \/ /\ bump # NoRun
          /\ waiting' = [base |-> Tip, head |-> h]
          /\ UNCHANGED bump

(* Renovate changes mcp_version.go only.                                   *)
Raw(b, v) ==
    [base |-> b, tree |-> [main[b] EXCEPT !.upstream = v], scoped |-> TRUE,
     human |-> FALSE]

(* A new branch starts at main's tip.                                      *)
Open ==
    /\ ~open
    /\ \E v \in Releases :
         /\ Rules!Newer(v, Newest.upstream)
         /\ Push(Raw(Tip, v))
    /\ open' = TRUE
    /\ UNCHANGED <<Main, Merge, Bounds>>

(* Faulty: Renovate leaves the branch behind main.                         *)
FaultyRebase == FALSE /\ UNCHANGED vars

(* "rebaseWhen": "behind-base-branch".  A forced push throws the commits of *)
(* github-actions[bot] away (gitIgnoredAuthors), never a maintainer's.      *)
Rebase ==
    /\ open /\ ~head.human
    /\ head.base < Tip
    /\ Rules!Newer(head.tree.upstream, Newest.upstream)
    /\ Push(Raw(Tip, head.tree.upstream))
    /\ UNCHANGED <<open, Main, Merge, Bounds>>

(* A newer release replaces the one the pull request was opened for.       *)
Supersede ==
    /\ open /\ ~head.human
    /\ \E v \in Releases :
         /\ Rules!Newer(v, head.tree.upstream)
         /\ Rules!Newer(v, Newest.upstream)
         /\ Push(Raw(Tip, v))
    /\ UNCHANGED <<open, Main, Merge, Bounds>>

(* A maintainer adds a commit, to release files or to others.              *)
HumanPush ==
    /\ open /\ humans + faults < MaxTrouble
    /\ humans' = humans + 1
    /\ \E v \in Releases, r \in OwnReleases, s \in BOOLEAN :
         Push([base |-> head.base, tree |-> [release |-> r, upstream |-> v, pins |-> v],
               scoped |-> head.scoped /\ s, human |-> TRUE])
    /\ UNCHANGED <<open, faults, Main, Merge>>

(* Renovate closes a pull request whose version main has got otherwise.    *)
AutoClose ==
    /\ open
    /\ ~Rules!Newer(head.tree.upstream, Newest.upstream)
    /\ open' = FALSE
    /\ UNCHANGED <<head, base, Main, CI, BumpJobs, Merge, Bounds>>

(* GitHub may give the current tip as base at any time, also without a push. *)
RefreshBase ==
    /\ open /\ base # Tip
    /\ base' = Tip
    /\ UNCHANGED <<open, head, Main, CI, BumpJobs, Merge, Bounds>>

(***************************************************************************)
(* prepare-upstream-release.sh, on the base and the head of a job           *)
(***************************************************************************)

(* determine_version succeeds: `release-version next' prints a version.    *)
Updatable(t, v) ==
    Rules!Newer(v, t.upstream) /\ Rules!CanBump(t.release, t.upstream, v)

(* validate_scope: the base is an ancestor of the head, and the difference  *)
(* is in the release files and includes mcp_version.go.                    *)
Scoped(b, h) ==
    /\ b <= h.base
    /\ h.scoped
    /\ Updatable(main[b], h.tree.upstream)

(* refresh_metadata restores the files of the base and generates them anew. *)
Canonical(t, v) ==
    [release |-> Rules!BumpReleaseVersion(t.release, t.upstream, v),
     upstream |-> v, pins |-> v]

(* prepare reports changed=false: nothing would have to be generated.      *)
Prepared(b, h) == h.tree = Canonical(main[b], h.tree.upstream)

(* The running job ends and the one that waits starts.                     *)
NextBump == bump' = waiting /\ waiting' = NoRun

(* The head with the generated commit on top of it.                        *)
Completed(r) == [r.head EXCEPT !.tree = Canonical(main[r.base], @.upstream)]

(* Faulty: the push is forced.                                             *)
FaultyBumpCommit ==
    /\ bump # NoRun
    /\ open
    /\ Scoped(bump.base, bump.head) /\ ~Prepared(bump.base, bump.head)
    /\ PushHead(Completed(bump))
    /\ bump' = [base |-> Tip, head |-> head'] /\ waiting' = NoRun
    /\ UNCHANGED <<open, Main, Merge, Bounds>>

(* The generated commit is pushed without force: the branch has to be at    *)
(* the head that was validated.  The push starts the next job of bump.yml.  *)
BumpCommit ==
    /\ bump # NoRun
    /\ open /\ head = bump.head
    /\ Scoped(bump.base, bump.head) /\ ~Prepared(bump.base, bump.head)
    /\ PushHead(Completed(bump))
    /\ bump' = [base |-> Tip, head |-> head'] /\ waiting' = NoRun
    /\ UNCHANGED <<open, Main, Merge, Bounds>>

(* The job has nothing to commit, or fails, or is cancelled by a push.     *)
BumpEnds ==
    /\ bump # NoRun
    /\ \/ ~open \/ head # bump.head \/ waiting # NoRun
       \/ ~Scoped(bump.base, bump.head)
       \/ Prepared(bump.base, bump.head)
    /\ NextBump
    /\ UNCHANGED <<Main, Branch, CI, Merge, Bounds>>

(***************************************************************************)
(* CI                                                                      *)
(***************************************************************************)

(* `prepare -check' and validate-release-transition.sh, from t to u.       *)
TestsPass(t, u) ==
    /\ u.pins = u.upstream
    /\ Rules!ValidateReleaseTransition(t.release, u.release, t.upstream, u.upstream)

(* A head that lacks commits of its base is tested merged with them, and    *)
(* may pass or fail then.                                                  *)
CIPass(r) ==
    /\ r.head.base >= r.base => TestsPass(main[r.base], r.head.tree)
    /\ ci' = ci \ {r}
    /\ passed' = IF r.head = head THEN r ELSE passed
    /\ events' = events \cup {r}
    /\ UNCHANGED <<job, pc, Main, Branch, BumpJobs, Bounds>>

CIFail(r) ==
    /\ r.head.base < r.base \/ ~TestsPass(main[r.base], r.head.tree)
    /\ ci' = ci \ {r}
    /\ UNCHANGED <<passed, Main, Branch, BumpJobs, Merge, Bounds>>

(***************************************************************************)
(* merge-upstream-release.yml                                              *)
(***************************************************************************)
Leave == job' = NoRun /\ pc' = "idle"

(* The live pull request is that of the event.                             *)
Current(r) == open /\ base = r.base /\ head = r.head

(* inspect: the result still is that of the pull request, and the head      *)
(* contains the base (compare: ahead or identical).                        *)
Inspect(r) ==
    /\ pc = "idle"
    /\ events' = events \ {r}
    /\ \/ Current(r) /\ base <= head.base /\ job' = r /\ pc' = "verify"
       \/ ~(Current(r) /\ base <= head.base) /\ Leave
    /\ UNCHANGED <<Main, Branch, CI, BumpJobs, Bounds>>

(* Faulty: major updates are eligible, too.                                *)
FaultyEligible(b, h) == Scoped(b, h) /\ Prepared(b, h)

(* prepare succeeds with changed=false and auto_merge=true.                *)
Eligible(b, h) ==
    /\ Scoped(b, h)
    /\ Prepared(b, h)
    /\ Rules!AutoMergeUpstreamUpdate(main[b].upstream, h.tree.upstream)

Verify ==
    /\ pc = "verify"
    /\ \/ Eligible(job.base, job.head) /\ pc' = "reload" /\ UNCHANGED job
       \/ ~Eligible(job.base, job.head) /\ Leave
    /\ UNCHANGED <<events, Main, Branch, CI, BumpJobs, Bounds>>

(* merge_pr loads the pull request once more.                              *)
Reload ==
    /\ pc = "reload"
    /\ \/ Current(job) /\ pc' = "put" /\ UNCHANGED job
       \/ ~Current(job) /\ Leave
    /\ UNCHANGED <<events, Main, Branch, CI, BumpJobs, Bounds>>

(* A successful run of the required checks on the head h.                  *)
Tested(h) == passed # NoRun /\ passed.head = h

(* Faulty: the required checks need not be up to date.                     *)
FaultyMergeable(h) == open /\ head = h /\ Tested(h)

(* The merge call names the head; the ruleset wants successful checks on it *)
(* and a branch that contains main's tip (strict policy).                  *)
Mergeable(h) ==
    /\ open /\ head = h
    /\ h.base = Tip
    /\ Tested(h)

Put ==
    /\ pc = "put"
    /\ Leave
    /\ \/ /\ Mergeable(job.head) /\ Tip < MaxMain
          /\ main' = Append(main, job.head.tree)
          /\ merged' = "auto"
          /\ open' = FALSE
       \/ ~Mergeable(job.head) /\ UNCHANGED <<open, Main>>
    /\ UNCHANGED <<head, base, events, CI, BumpJobs, Bounds>>

(* Any other pull request that passed the same checks, or this one merged   *)
(* by hand; an admin who bypasses the checks is outside the model.         *)
ReviewedMerge ==
    /\ Tip < MaxMain - 1
    /\ \E r \in OwnReleases \cup {Newest.release},
          u, p \in Releases \cup {Newest.upstream} :
         LET t == [release |-> r, upstream |-> u, pins |-> p] IN
         TestsPass(Newest, t) /\ main' = Append(main, t)
    /\ merged' = "reviewed"
    /\ UNCHANGED <<Branch, CI, BumpJobs, Merge, Bounds>>

(* Jobs time out or are cancelled, a successful run is repeated with its    *)
(* old event, and people close pull requests.                              *)
Fault ==
    /\ humans + faults < MaxTrouble
    /\ faults' = faults + 1
    /\ \/ pc # "idle" /\ Leave /\ UNCHANGED <<open, ci, events, BumpJobs>>
       \/ bump # NoRun /\ NextBump /\ UNCHANGED <<open, ci, Merge>>
       \/ /\ \E r \in ci : ci' = ci \ {r}
          /\ UNCHANGED <<open, BumpJobs, Merge>>
       \/ /\ passed # NoRun /\ events' = events \cup {passed}
          /\ UNCHANGED <<open, ci, job, pc, BumpJobs>>
       \/ open /\ open' = FALSE /\ UNCHANGED <<ci, BumpJobs, Merge>>
    /\ UNCHANGED <<head, base, passed, humans, Main>>

Renovate == Open \/ Rebase \/ Supersede \/ AutoClose
Bump     == BumpCommit \/ BumpEnds
Test     == \E r \in ci : CIPass(r) \/ CIFail(r)
MergeJob == (\E r \in events : Inspect(r)) \/ Verify \/ Reload \/ Put

Next ==
    \/ Renovate \/ Bump \/ Test \/ MergeJob
    \/ HumanPush \/ RefreshBase \/ ReviewedMerge \/ Fault

Spec == Init /\ [][Next]_vars

(* Renovate looks at the repository again and again, and started jobs end.  *)
FairSpec ==
    /\ Spec
    /\ WF_vars(Rebase) /\ WF_vars(AutoClose)
    /\ WF_vars(Bump) /\ WF_vars(Test) /\ WF_vars(MergeJob)

(***************************************************************************)
(* Properties                                                              *)
(***************************************************************************)

(* What is merged without a review is what the scripts generate for the     *)
(* very commit it is merged on, tested at exactly this head, and not major. *)
(* No reordering of pushes, jobs and reruns gets anything else into main.   *)
AutoMergeVerified ==
    [][merged' = "auto" /\ main' # main =>
         LET new == main'[Len(main')] IN
         /\ Updatable(Newest, new.upstream)
         /\ new = Canonical(Newest, new.upstream)
         /\ new.upstream.major = Newest.upstream.major
         /\ head.tree = new /\ Tested(head)]_vars

(* Along main the pinned checksums always belong to mcp_version.go.        *)
MainConsistent == \A i \in 1 .. Tip : main[i].pins = main[i].upstream

(* No commit of main takes either version back behind any earlier commit,   *)
(* and a release version means one upstream version on all of main, however *)
(* many merges, automatic and reviewed, lie between the two.               *)
MainOrdered ==
    \A i \in 1 .. Tip : \A j \in i .. Tip :
        /\ Rules!CompareVersions(main[j].release, main[i].release) >= 0
        /\ Rules!CompareVersions(main[j].upstream, main[i].upstream) >= 0
        /\ main[j].release = main[i].release => main[j].upstream = main[i].upstream

(* A maintainer's commit never disappears from an open pull request: not    *)
(* by a late push of a bump job that was prepared before it.               *)
HumanKept == [][open /\ open' /\ head.human => head'.human]_vars

(* The history of main obeys the version rules, with auto-merged steps      *)
(* among the upstream updates that need no review.                         *)
ReleaseRules == Rules!Spec

(* A head that can be merged without a review.                             *)
Automatic ==
    /\ open /\ ~head.human /\ faults = 0
    /\ Updatable(Newest, head.tree.upstream)
    /\ Rules!AutoMergeUpstreamUpdate(Newest.upstream, head.tree.upstream)

(* Such a pull request does not stay open for ever: nothing is lost when    *)
(* events overtake each other, and each stale result is replaced.          *)
Arrives == []<>~Automatic

(* The run of CI and of bump.yml for the pull request as it is now.        *)
CurrentRun == [base |-> Tip, head |-> head]

(* What Arrives rests on: somebody always has the next step to do.  A head  *)
(* on the tip of main that the scripts would change has a job of bump.yml   *)
(* that runs or waits; one that they would not has a CI run, or has passed  *)
(* CI and has its event or its merge job.  No event, job or result of an    *)
(* older head takes its place.  A head behind the tip is Rebase's.         *)
NothingLost ==
    Automatic /\ head.base = Tip =>
        IF Prepared(Tip, head)
        THEN CurrentRun \in ci \/ (Tested(head) /\ CurrentRun \in events \cup {job})
        ELSE CurrentRun \in {bump, waiting}
=============================================================================
