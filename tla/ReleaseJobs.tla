------------------------------ MODULE ReleaseJobs ------------------------------
(***************************************************************************)
(* Publishing releases: the Release job of release.yml and the script      *)
(* release.sh it runs, one action per step, against the tags and releases  *)
(* of the repository.  CI may finish in any order, so that jobs run for    *)
(* old and new commits in any order; a job may fail after any step and be  *)
(* rerun; maintainers may have made a tag or a draft by hand.              *)
(* Definitions named Faulty... are the code with one plausible mistake.    *)
(***************************************************************************)
EXTENDS Integers, FiniteSets

CONSTANTS
    Last,         \* bound: the commits of main are 1 .. Last, in order
    Side,         \* commits on no line with main
    Ver,          \* VERSION at each commit, as a number in version order
    Assets,       \* EXPECTED_RELEASE_ASSETS
    Human,        \* provenance of an asset uploaded by hand: none at all
    None,         \* no commit
    MaxFailures,  \* bound: steps that fail for no fault of the release
    MaxByHand     \* bound: tags and drafts made by hand

Main    == 1 .. Last
Commits == Main \cup Side

ASSUME ReleaseJobsAssumption ==
    /\ Last \in Nat \ {0}
    /\ Ver \in [Commits -> Nat]
    /\ \A c, d \in Main : c <= d => Ver[c] <= Ver[d]
    /\ Main \cap Side = {}
    /\ {Human, None} \cap Commits = {}
    /\ Human # None
    /\ Assets # {}
    /\ MaxFailures \in Nat
    /\ MaxByHand \in Nat

Versions    == {Ver[c] : c \in Commits}
Provenances == Commits \cup {Human, None}

(* A release without any of its assets.                                    *)
Empty == [a \in Assets |-> None]

VARIABLES
    head,       \* the last commit pushed to main
    tag,        \* the commit each version's tag points to
    draft,      \* the versions with a draft release
    published,  \* the versions with a published release
    assets,     \* the provenance of each asset of each release
    pc,         \* the step each commit's Release job is at
    plan,       \* what it selected: version, tag target and what to do
    failures,   \* failing steps so far
    byHand,     \* things done by hand so far
    handMade    \* history: the releases published by hand

repo   == <<tag, draft, published, assets>>
manual == <<byHand, handMade>>
vars   == <<head, repo, pc, plan, failures, manual>>

Running == {"select", "verify-published", "prepare", "create-tag", "build",
            "verify-draft", "publish", "finish"}

NoPlan == [version |-> 0, target |-> None, createTag |-> FALSE]

TypeOK ==
    /\ head \in 1 .. Last
    /\ tag \in [Versions -> Commits \cup {None}]
    /\ draft \in SUBSET Versions
    /\ published \in SUBSET Versions
    /\ draft \cap published = {}
    /\ assets \in [Versions -> [Assets -> Provenances]]
    /\ pc \in [Main -> {"waiting", "failed", "succeeded"} \cup Running]
    /\ plan \in [Main -> [version : Versions \cup {0}, target : Commits \cup {None},
                          createTag : BOOLEAN]]
    /\ failures \in 0 .. MaxFailures
    /\ byHand \in 0 .. MaxByHand
    /\ handMade \in SUBSET published

Init ==
    /\ head = 1
    /\ tag = [v \in Versions |-> None]
    /\ draft = {}
    /\ published = {}
    /\ assets = [v \in Versions |-> Empty]
    /\ pc = [c \in Main |-> "waiting"]
    /\ plan = [c \in Main |-> NoPlan]
    /\ failures = 0
    /\ byHand = 0
    /\ handMade = {}

(* git merge-base --is-ancestor, in one direction or the other.            *)
Related(c, d) == c = d \/ {c, d} \subseteq Main

Goto(c, to) == pc' = [pc EXCEPT ![c] = to]

(* `die': the job fails and has changed nothing in this step.              *)
Die(c) ==
    /\ Goto(c, "failed")
    /\ UNCHANGED <<head, repo, plan, failures, manual>>

Push ==
    /\ head < Last
    /\ head' = head + 1
    /\ UNCHANGED <<repo, pc, plan, failures, manual>>

(* CI passed, or someone reruns the failed job.  The concurrency group of   *)
(* release.yml lets one job run at a time.                                 *)
Begin(c) ==
    /\ c <= head
    /\ pc[c] \in {"waiting", "failed"}
    /\ \A d \in Main : pc[d] \notin Running
    /\ Goto(c, "select")
    /\ plan' = [plan EXCEPT ![c] = NoPlan]
    /\ UNCHANGED <<head, repo, failures, manual>>

(***************************************************************************)
(* select_release                                                          *)
(***************************************************************************)

(* Faulty: published releases newer than the candidate are not looked for. *)
FaultySelected(v, c) == v = Ver[c]

(* The version the job deals with: the highest of its own and the published *)
(* ones.                                                                   *)
Selected(v, c) ==
    LET candidates == published \cup {Ver[c]} IN
    v \in candidates /\ \A w \in candidates : w <= v

(* assert_exact_assets: no expected asset is missing; others do not occur.  *)
ExactAssets(v) == \A a \in Assets : assets[v][a] # None

(* The outputs of select_release: a release to verify, or one to publish.  *)
ToVerify(v)  == [version |-> v, target |-> tag[v], createTag |-> FALSE]
ToPublish(c) ==
    [version |-> Ver[c], target |-> c, createTag |-> tag[Ver[c]] = None]

(* Faulty: the tag has to be at this very commit.                          *)
FaultySelectPublished(c) ==
    /\ pc[c] = "select"
    /\ \E v \in published :
         /\ Selected(v, c)
         /\ \/ /\ tag[v] = c /\ ExactAssets(v)
               /\ plan' = [plan EXCEPT ![c] = ToVerify(v)]
               /\ Goto(c, "verify-published")
               /\ UNCHANGED <<head, repo, failures, manual>>
            \/ ~(tag[v] = c /\ ExactAssets(v)) /\ Die(c)

(* The selected version is published: check what can be checked at once.   *)
SelectPublished(c) ==
    /\ pc[c] = "select"
    /\ \E v \in published :
         /\ Selected(v, c)
         /\ \/ /\ tag[v] # None /\ Related(tag[v], c) /\ ExactAssets(v)
               /\ plan' = [plan EXCEPT ![c] = ToVerify(v)]
               /\ Goto(c, "verify-published")
               /\ UNCHANGED <<head, repo, failures, manual>>
            \/ /\ ~(tag[v] # None /\ Related(tag[v], c) /\ ExactAssets(v))
               /\ Die(c)

(* It is not: the job publishes it, from this commit or not at all.        *)
SelectCandidate(c) ==
    /\ pc[c] = "select"
    /\ Ver[c] \notin published
    /\ Selected(Ver[c], c)
    /\ \/ /\ tag[Ver[c]] \in {None, c}
          /\ plan' = [plan EXCEPT ![c] = ToPublish(c)]
          /\ Goto(c, "prepare")
          /\ UNCHANGED <<head, repo, failures, manual>>
       \/ tag[Ver[c]] \notin {None, c} /\ Die(c)

(***************************************************************************)
(* The other steps                                                         *)
(***************************************************************************)

(* verify_downloaded_asset_attestations: every asset was built by the       *)
(* release workflow from this very commit.                                 *)
Attested(v, c) == \A a \in Assets : assets[v][a] = c

(* Faulty: a published release is taken for a good one.                    *)
FaultyVerifyPublished(c) ==
    /\ pc[c] = "verify-published"
    /\ Goto(c, "finish")
    /\ UNCHANGED <<head, repo, plan, failures, manual>>

(* verify_published_release, or the marker that an earlier run cached.     *)
VerifyPublished(c) ==
    /\ pc[c] = "verify-published"
    /\ \/ /\ Attested(plan[c].version, plan[c].target)
          /\ Goto(c, "finish")
          /\ UNCHANGED <<head, repo, plan, failures, manual>>
       \/ ~Attested(plan[c].version, plan[c].target) /\ Die(c)

(* prepare and prepare -check touch only the runner's checkout.            *)
PrepareAssets(c) ==
    /\ pc[c] = "prepare"
    /\ Goto(c, IF plan[c].createTag THEN "create-tag" ELSE "build")
    /\ UNCHANGED <<head, repo, plan, failures, manual>>

(* Faulty: the tag is forced.                                              *)
FaultyCreateTag(c) ==
    /\ pc[c] = "create-tag"
    /\ tag' = [tag EXCEPT ![plan[c].version] = c]
    /\ Goto(c, "build")
    /\ UNCHANGED <<head, draft, published, assets, plan, failures, manual>>

(* POST git/refs: fails when the tag exists by now.                        *)
CreateTag(c) ==
    LET v == plan[c].version IN
    /\ pc[c] = "create-tag"
    /\ \/ /\ tag[v] = None
          /\ tag' = [tag EXCEPT ![v] = c]
          /\ Goto(c, "build")
          /\ UNCHANGED <<head, draft, published, assets, plan, failures, manual>>
       \/ tag[v] # None /\ Die(c)

(* gh-extension-precompile: the draft is created or found, and some of its  *)
(* assets (all of them, if nothing goes wrong) are replaced by attested     *)
(* ones of this commit.                                                    *)
BuildDraft(c) ==
    LET v == plan[c].version IN
    /\ pc[c] = "build"
    /\ v \notin published
    /\ draft' = draft \cup {v}
    /\ \E S \in SUBSET Assets :
         /\ S # Assets => failures < MaxFailures
         /\ failures' = IF S = Assets THEN failures ELSE failures + 1
         /\ assets' = [assets EXCEPT ![v] =
              [a \in Assets |-> IF a \in S THEN c ELSE assets[v][a]]]
         /\ \/ Goto(c, "verify-draft")
            \/ S # Assets /\ Goto(c, "failed")
    /\ UNCHANGED <<head, tag, published, plan, manual>>

(* The release was published meanwhile: it takes no more assets.           *)
BuildRefused(c) ==
    /\ pc[c] = "build"
    /\ plan[c].version \in published
    /\ Die(c)

(* Faulty: the assets are counted, their attestations are not verified.    *)
FaultyVerifyDraft(c) ==
    LET v == plan[c].version IN
    /\ pc[c] = "verify-draft"
    /\ \/ /\ v \in draft /\ ExactAssets(v)
          /\ Goto(c, "publish")
          /\ UNCHANGED <<head, repo, plan, failures, manual>>
       \/ ~(v \in draft /\ ExactAssets(v)) /\ Die(c)

VerifyDraft(c) ==
    LET v == plan[c].version IN
    /\ pc[c] = "verify-draft"
    /\ \/ /\ v \in draft /\ ExactAssets(v) /\ Attested(v, plan[c].target)
          /\ Goto(c, "publish")
          /\ UNCHANGED <<head, repo, plan, failures, manual>>
       \/ ~(v \in draft /\ ExactAssets(v) /\ Attested(v, plan[c].target)) /\ Die(c)

(* gh release edit --draft=false; GitHub makes the release immutable.      *)
Publish(c) ==
    LET v == plan[c].version IN
    /\ pc[c] = "publish"
    /\ published' = published \cup {v}
    /\ draft' = draft \ {v}
    /\ Goto(c, "finish")
    /\ UNCHANGED <<head, tag, assets, plan, failures, manual>>

Finish(c) ==
    /\ pc[c] = "finish"
    /\ Goto(c, "succeeded")
    /\ UNCHANGED <<head, repo, plan, failures, manual>>

(* The network, the timeout of 30 minutes, a cancelled run: what the steps  *)
(* before did stays done.                                                  *)
Fail(c) ==
    /\ failures < MaxFailures
    /\ pc[c] \in Running
    /\ failures' = failures + 1
    /\ Goto(c, "failed")
    /\ UNCHANGED <<head, repo, plan, manual>>

(***************************************************************************)
(* Maintainers                                                             *)
(***************************************************************************)

ByHand ==
    /\ byHand < MaxByHand
    /\ byHand' = byHand + 1
    /\ UNCHANGED <<head, pc, plan, failures>>

(* Somebody pushes a tag, maybe on the wrong commit.                       *)
TagByHand(v, c) ==
    /\ ByHand
    /\ tag[v] = None
    /\ tag' = [tag EXCEPT ![v] = c]
    /\ UNCHANGED <<draft, published, assets, handMade>>

(* Somebody prepares a draft with assets of unknown provenance.            *)
DraftByHand(v) ==
    /\ ByHand
    /\ v \notin draft \cup published
    /\ draft' = draft \cup {v}
    /\ assets' = [assets EXCEPT ![v] = [a \in Assets |-> Human]]
    /\ UNCHANGED <<tag, published, handMade>>

(* Somebody publishes a draft, whatever state it is in.                    *)
PublishByHand(v) ==
    /\ ByHand
    /\ v \in draft
    /\ tag[v] # None
    /\ published' = published \cup {v}
    /\ draft' = draft \ {v}
    /\ handMade' = handMade \cup {v}
    /\ UNCHANGED <<tag, assets>>

Select(c) == SelectPublished(c) \/ SelectCandidate(c)

Step(c) ==
    \/ Select(c) \/ VerifyPublished(c) \/ PrepareAssets(c) \/ CreateTag(c)
    \/ BuildDraft(c) \/ BuildRefused(c) \/ VerifyDraft(c)
    \/ Publish(c) \/ Finish(c)

Terminated ==
    /\ head = Last
    /\ \A c \in Main : pc[c] = "succeeded"
    /\ UNCHANGED vars

Next ==
    \/ Push
    \/ \E c \in Main : Begin(c) \/ Step(c) \/ Fail(c)
    \/ \E v \in Versions, c \in Side \cup (1 .. head) : TagByHand(v, c)
    \/ \E v \in Versions : DraftByHand(v) \/ PublishByHand(v)
    \/ Terminated

Spec == Init /\ [][Next]_vars

(* Commits keep coming, a job that runs goes on, and CONTRIBUTING.md has    *)
(* every failed job rerun: the group is free again and again.              *)
FairSpec ==
    /\ Spec
    /\ WF_vars(Push)
    /\ \A c \in Main : WF_vars(Step(c)) /\ SF_vars(Begin(c))

(***************************************************************************)
(* Properties                                                              *)
(***************************************************************************)

(* CONTRIBUTING.md: jobs never publish versions backward, in whatever order *)
(* their commits pass CI and whichever of them fail and are rerun.  It says *)
(* so of the releases of jobs only: a release made by hand after a job has *)
(* selected its version is not seen by the job.                            *)
NeverBackward ==
    [][\A v \in (published' \ published) \ handMade' :
          \A w \in published \ handMade : v > w]_vars

(* A release published by a job is what its tag says: the tag is at a       *)
(* commit of main whose VERSION it names, and every asset was built there. *)
PublishedProvenance ==
    \A v \in published \ handMade :
        /\ tag[v] \in Main
        /\ Ver[tag[v]] = v
        /\ Attested(v, tag[v])

(* A published release is never rewritten, nor is the tag of any release    *)
(* moved, by whatever job is rerun and whatever tags, drafts and releases   *)
(* are made by hand.  (Nobody moves a tag, or replaces an asset of a draft, *)
(* by hand in this model.)                                                 *)
NeverRewritten ==
    [][/\ published \subseteq published'
       /\ \A v \in published : assets'[v] = assets[v]
       /\ \A v \in Versions : tag[v] # None => tag'[v] = tag[v]]_vars

(* A green Release job means that its version, or a newer one, is published *)
(* with assets that were all built from the commit its tag points to.      *)
GreenMeansReleased ==
    \A c \in Main : pc[c] = "succeeded" =>
        \E v \in published : v >= Ver[c] /\ Attested(v, tag[v])

(* CONTRIBUTING.md: a failed job that is rerun resumes.  With nothing done  *)
(* by hand every job gets green in the end, those of superseded commits    *)
(* too, however many runs failed half-way and left a tag or a part of a     *)
(* draft; so the newest version of main is published (GreenMeansReleased). *)
AllGreen == [](byHand = 0) => <>(\A c \in Main : pc[c] = "succeeded")

(* The version of c, newer than all published ones, has its tag at another  *)
(* commit, whose own job failed and can be rerun to go on with it.         *)
BlockedByOwner(c) ==
    /\ pc[c] = "select"
    /\ \A w \in published : w < Ver[c]
    /\ \E d \in Main \ {c} :
         tag[Ver[c]] = d /\ Ver[d] = Ver[c] /\ pc[d] = "failed"

(* An upload of the job failed, and the tag is its own: a rerun repeats it. *)
BlockedByUpload(c) ==
    /\ pc[c] = "verify-draft"
    /\ failures > 0
    /\ Ver[c] \notin published /\ tag[Ver[c]] = c

(* What AllGreen rests on, step by step: with nothing done by hand, a step  *)
(* dies for one of these two reasons only, which reruns mend.              *)
FailsResumably ==
    [][\A c \in Main :
         /\ byHand = 0 /\ failures' = failures
         /\ pc[c] # "failed" /\ pc'[c] = "failed"
         => BlockedByOwner(c) \/ BlockedByUpload(c)]_vars

(* So no job ever fails of itself, in whatever order CI passes the commits. *)
NoneFailsOfItself ==
    byHand = 0 /\ failures = 0 => \A c \in Main : pc[c] # "failed"

(***************************************************************************)
(* ReleaseLog, which this implements                                       *)
(***************************************************************************)

ReleasesBar ==
    {[version |-> v, byJob |-> v \notin handMade, assets |-> assets[v]] : v \in published}

GreenBar == {c \in Main : pc[c] = "succeeded"}

Promise == INSTANCE ReleaseLog WITH releases <- ReleasesBar, green <- GreenBar

(* In whatever order jobs run, fail and are rerun, and whatever tags,       *)
(* drafts and releases are made by hand, what others see is a log that      *)
(* only grows, each entry of a job newer than its earlier ones and built    *)
(* from the tagged commit.                                                 *)
ImplementsReleaseLog == Promise!Spec
=============================================================================
