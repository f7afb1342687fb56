--------------------------- MODULE ReleaseJobs_proofs ---------------------------
(***************************************************************************)
(* Machine-checked proofs about ReleaseJobs, for any number of commits,    *)
(* any versions that never go back along main, and any number of failures, *)
(* reruns and things done by hand: its types and its safety properties     *)
(* from one inductive invariant, a second one for repositories without     *)
(* manual changes, and the refinement of ReleaseLog.                       *)
(***************************************************************************)
EXTENDS ReleaseJobs, TLAPS

(* The concurrency group: no two jobs run at a time.                       *)
OneRuns ==
    \A c, d \in Main : pc[c] \in Running /\ pc[d] \in Running => c = d

(* A published release has a tag, which nothing can take away.             *)
Tagged == \A v \in published : tag[v] # None

Publishing == {"prepare", "create-tag", "build", "verify-draft", "publish"}

(* A job that publishes deals with its own version and commit, and no job   *)
(* published that version, or a newer one, since it selected.              *)
PublishingInv(c) ==
    pc[c] \in Publishing =>
        /\ plan[c].version = Ver[c]
        /\ plan[c].target = c
        /\ \A w \in published \ handMade : w < Ver[c]

(* It goes on to the draft only with the tag at its own commit.            *)
TagInv(c) ==
    \/ pc[c] \in {"build", "verify-draft", "publish"}
    \/ pc[c] = "prepare" /\ ~plan[c].createTag
    => tag[Ver[c]] = c

(* A draft that was verified keeps its assets: either it is still the       *)
(* draft, or somebody published it as it was.                              *)
VerifiedInv(c) ==
    pc[c] = "publish" =>
        Ver[c] \in draft \cup published /\ Attested(Ver[c], c)

(* A job that verifies a published release verifies one not older than its  *)
(* own, against the commit of its tag.                                     *)
VerifyingInv(c) ==
    pc[c] = "verify-published" =>
        /\ plan[c].version \in published
        /\ plan[c].version >= Ver[c]
        /\ plan[c].target = tag[plan[c].version]

(* What a green job has seen, already at its last step.                    *)
GreenInv(c) ==
    pc[c] \in {"finish", "succeeded"} =>
        \E v \in published : v >= Ver[c] /\ Attested(v, tag[v])

JobInv(c) ==
    PublishingInv(c) /\ TagInv(c) /\ VerifiedInv(c) /\ VerifyingInv(c) /\ GreenInv(c)

Rest == OneRuns /\ Tagged /\ PublishedProvenance /\ (\A c \in Main : JobInv(c))

JInv == TypeOK /\ Rest

-----------------------------------------------------------------------------

(* The shapes of versions and commits.                                     *)
LEMMA Shapes ==
    /\ \A c \in Commits : Ver[c] \in Nat /\ Ver[c] \in Versions
    /\ Versions \subseteq Nat
    /\ Main \subseteq Commits
    /\ None \notin Commits
    /\ Human \notin Commits
BY ReleaseJobsAssumption DEF ReleaseJobsAssumption, Commits, Versions

(* The invariant holds of a repository without releases.                   *)
LEMMA JInit == Init => JInv
<1> SUFFICES ASSUME Init PROVE JInv  OBVIOUS
<1> USE DEF Init
<1>1. TypeOK
  BY ReleaseJobsAssumption, Shapes
  DEF ReleaseJobsAssumption, TypeOK, Empty, Provenances, NoPlan, Main
<1>2. OneRuns /\ Tagged /\ PublishedProvenance
  BY DEF OneRuns, Tagged, PublishedProvenance, Running
<1>3. \A c \in Main : JobInv(c)
  BY DEF JobInv, PublishingInv, TagInv, VerifiedInv, VerifyingInv, GreenInv,
         Publishing
<1> QED BY <1>1, <1>2, <1>3 DEF JInv, Rest

(* The types are preserved by every step.                                  *)
LEMMA TypeStep == JInv /\ [Next]_vars => TypeOK'
<1> SUFFICES ASSUME JInv, [Next]_vars PROVE TypeOK'  OBVIOUS
<1> DEFINE Plans == [version : Versions \cup {0}, target : Commits \cup {None},
                     createTag : BOOLEAN]
           Pcs   == {"waiting", "failed", "succeeded"} \cup Running
           Assetss == [Versions -> [Assets -> Provenances]]
<1> HIDE DEF Plans, Pcs, Assetss
<1>a. /\ head \in 1 .. Last
      /\ tag \in [Versions -> Commits \cup {None}]
      /\ draft \in SUBSET Versions
      /\ published \in SUBSET Versions
      /\ draft \cap published = {}
      /\ assets \in Assetss
      /\ pc \in [Main -> Pcs]
      /\ plan \in [Main -> Plans]
      /\ failures \in 0 .. MaxFailures
      /\ byHand \in 0 .. MaxByHand
      /\ handMade \in SUBSET published
  BY DEF JInv, TypeOK, Plans, Pcs, Assetss
<1>b. /\ head' \in 1 .. Last
      /\ tag' \in [Versions -> Commits \cup {None}]
      /\ draft' \in SUBSET Versions
      /\ published' \in SUBSET Versions
      /\ draft' \cap published' = {}
      /\ assets' \in Assetss
      /\ pc' \in [Main -> Pcs]
      /\ plan' \in [Main -> Plans]
      /\ failures' \in 0 .. MaxFailures
      /\ byHand' \in 0 .. MaxByHand
      /\ handMade' \in SUBSET published'
      => TypeOK'
  BY DEF TypeOK, Plans, Pcs, Assetss
<1>p. /\ Running \subseteq Pcs
      /\ {"waiting", "failed", "succeeded"} \subseteq Pcs
      /\ {"select", "verify-published", "prepare", "create-tag", "build",
          "verify-draft", "publish", "finish"} \subseteq Pcs
  BY DEF Pcs, Running
<1>q. /\ \A v \in Versions : ToVerify(v) \in Plans
      /\ \A c \in Commits : ToPublish(c) \in Plans
      /\ NoPlan \in Plans
  BY <1>a, Shapes DEF ToVerify, ToPublish, NoPlan, Plans
<1>r. \A c \in Main :
        pc[c] \in {"create-tag", "build", "publish"} => plan[c].version \in Versions
  BY Shapes DEF JInv, Rest, JobInv, PublishingInv, Publishing
<1>t. \A v \in Versions : \A f \in [Assets -> Provenances] :
        [assets EXCEPT ![v] = f] \in Assetss
  BY <1>a DEF Assetss
<1>s. Last \in Nat /\ MaxFailures \in Nat /\ MaxByHand \in Nat
  BY ReleaseJobsAssumption DEF ReleaseJobsAssumption
<1> USE <1>a, <1>b DEF repo, manual, Goto, Die
<1>1. CASE Push  BY <1>1, <1>s, SMTT(30) DEF Push
<1>2. ASSUME NEW c \in Main, Begin(c)  PROVE TypeOK'
  BY <1>2, <1>p, <1>q, SMTT(30) DEF Begin
<1>3. ASSUME NEW c \in Main, SelectPublished(c)  PROVE TypeOK'
  <2>1. PICK v \in published :
          \/ /\ plan' = [plan EXCEPT ![c] = ToVerify(v)]
             /\ Goto(c, "verify-published")
             /\ UNCHANGED <<head, repo, failures, manual>>
          \/ Die(c)
    BY <1>3 DEF SelectPublished
  <2>2. ToVerify(v) \in Plans  BY <1>q
  <2> QED BY <2>1, <2>2, <1>p
<1>4. ASSUME NEW c \in Main, SelectCandidate(c)  PROVE TypeOK'
  <2>1. \/ /\ plan' = [plan EXCEPT ![c] = ToPublish(c)]
           /\ Goto(c, "prepare")
           /\ UNCHANGED <<head, repo, failures, manual>>
        \/ Die(c)
    BY <1>4 DEF SelectCandidate
  <2>2. ToPublish(c) \in Plans  BY <1>q, Shapes
  <2> QED BY <2>1, <2>2, <1>p
<1>5. ASSUME NEW c \in Main,
             VerifyPublished(c) \/ PrepareAssets(c) \/ BuildRefused(c)
               \/ VerifyDraft(c) \/ Finish(c)
      PROVE  TypeOK'
  BY <1>5, <1>p, SMTT(30)
  DEF VerifyPublished, PrepareAssets, BuildRefused, VerifyDraft, Finish
<1>6. ASSUME NEW c \in Main, CreateTag(c)  PROVE TypeOK'
  <2> DEFINE v == plan[c].version
  <2>1. v \in Versions /\ c \in Commits  BY <1>6, <1>r, Shapes DEF CreateTag
  <2>2. CASE Die(c)  BY <2>2, <1>p
  <2>3. CASE /\ tag' = [tag EXCEPT ![v] = c]
             /\ Goto(c, "build")
             /\ UNCHANGED <<head, draft, published, assets, plan, failures, manual>>
    <3> HIDE DEF v
    <3>1. tag' \in [Versions -> Commits \cup {None}]  BY <2>1, <2>3
    <3> QED BY <2>3, <3>1, <1>p
  <2> QED BY <1>6, <2>2, <2>3 DEF CreateTag
<1>7. ASSUME NEW c \in Main, BuildDraft(c)  PROVE TypeOK'
  <2> DEFINE v == plan[c].version
  <2>1. v \in Versions /\ c \in Commits  BY <1>7, <1>r, Shapes DEF BuildDraft
  <2>2. /\ v \notin published /\ draft' = draft \cup {v}
        /\ UNCHANGED <<head, tag, published, plan, manual>>
    BY <1>7 DEF BuildDraft
  <2>3. assets' \in Assetss
    <3>1. PICK S \in SUBSET Assets :
            assets' = [assets EXCEPT ![v] =
              [a \in Assets |-> IF a \in S THEN c ELSE assets[v][a]]]
      BY <1>7 DEF BuildDraft
    <3> HIDE DEF v
    <3> DEFINE f == [a \in Assets |-> IF a \in S THEN c ELSE assets[v][a]]
    <3>2. f \in [Assets -> Provenances]  BY <2>1, <1>a DEF Assetss, Provenances
    <3>3. assets' = [assets EXCEPT ![v] = f]  BY <3>1
    <3> HIDE DEF f
    <3> QED BY <3>2, <3>3, <2>1, <1>t
  <2>4. failures' \in 0 .. MaxFailures  BY <1>7, <1>s DEF BuildDraft
  <2>5. pc' \in [Main -> Pcs]  BY <1>7, <1>p DEF BuildDraft
  <2> HIDE DEF v
  <2>6. draft' \in SUBSET Versions /\ draft' \cap published' = {}
    BY <2>1, <2>2
  <2> QED BY <2>2, <2>3, <2>4, <2>5, <2>6
<1>8. ASSUME NEW c \in Main, Publish(c)  PROVE TypeOK'
  <2> DEFINE v == plan[c].version
  <2>1. v \in Versions  BY <1>8, <1>r DEF Publish
  <2>2. /\ published' = published \cup {v} /\ draft' = draft \ {v}
        /\ UNCHANGED <<head, tag, assets, plan, failures, manual>>
    BY <1>8 DEF Publish
  <2>3. pc' \in [Main -> Pcs]  BY <1>8, <1>p DEF Publish
  <2> HIDE DEF v
  <2>4. /\ published' \in SUBSET Versions /\ draft' \in SUBSET Versions
        /\ draft' \cap published' = {} /\ handMade' \in SUBSET published'
    BY <2>1, <2>2
  <2> QED BY <2>2, <2>3, <2>4
<1>9. ASSUME NEW c \in Main, Fail(c)  PROVE TypeOK'
  BY <1>9, <1>p, <1>s, SMTT(30) DEF Fail
<1>10. ASSUME NEW v \in Versions, NEW c \in Commits, TagByHand(v, c)  PROVE TypeOK'
  BY <1>10, <1>s, SMTT(30) DEF TagByHand, ByHand
<1>11. ASSUME NEW v \in Versions, DraftByHand(v)  PROVE TypeOK'
  <2>1. [a \in Assets |-> Human] \in [Assets -> Provenances]  BY DEF Provenances
  <2>2. assets' \in Assetss  BY <1>11, <2>1, <1>t DEF DraftByHand
  <2> QED BY <1>11, <2>2, <1>s DEF DraftByHand, ByHand
<1>14. ASSUME NEW v \in Versions, PublishByHand(v)  PROVE TypeOK'
  BY <1>14, <1>s, SMTT(30) DEF PublishByHand, ByHand
<1>12. CASE Terminated \/ UNCHANGED vars
  BY <1>12 DEF Terminated, vars
<1>13. Side \cup (1 .. head) \subseteq Commits
  BY <1>s, <1>a DEF Commits, Main
<1> QED
  BY <1>1, <1>2, <1>3, <1>4, <1>5, <1>6, <1>7, <1>8, <1>9, <1>10, <1>11, <1>12,
     <1>13, <1>14
  DEF Next, Step, Select

(* A step of one job leaves what is known of the others alone: they do not  *)
(* run, and a green one only speaks of published releases.                 *)
LEMMA Others ==
    ASSUME JInv, NEW c \in Main, pc[c] \in Running,
           NEW to, pc' = [pc EXCEPT ![c] = to],
           \A d \in Main \ {c} : plan'[d] = plan[d],
           published \subseteq published',
           \A v \in published : tag'[v] = tag[v] /\ assets'[v] = assets[v]
    PROVE  /\ OneRuns'
           /\ \A d \in Main \ {c} : JobInv(d)'
           /\ pc'[c] = to
<1> USE DEF JInv, Rest, TypeOK
<1>1. \A d \in Main \ {c} : pc'[d] = pc[d] /\ pc[d] \notin Running
  BY DEF OneRuns
<1>2. pc'[c] = to  OBVIOUS
<1>3. OneRuns'  BY <1>1, <1>2 DEF OneRuns
<1>4. ASSUME NEW d \in Main \ {c}  PROVE JobInv(d)'
  <2>1. pc'[d] = pc[d] /\ pc[d] \notin Running /\ JobInv(d)  BY <1>1
  <2>2. GreenInv(d)'  BY <2>1 DEF JobInv, GreenInv, Attested
  <2> QED
    BY <2>1, <2>2
    DEF JobInv, PublishingInv, TagInv, VerifiedInv, VerifyingInv, Running, Publishing
<1> QED BY <1>2, <1>3, <1>4

(* A step that dies, fails or begins anew asks nothing.                    *)
LEMMA Quiet ==
    ASSUME JInv, NEW c \in Main, pc[c] \in Running, UNCHANGED <<repo, plan, handMade>>,
           NEW to, to \in {"failed", "select"}, pc' = [pc EXCEPT ![c] = to]
    PROVE  Rest'
<1>1. /\ OneRuns'
      /\ \A d \in Main \ {c} : JobInv(d)'
      /\ pc'[c] = to
  BY Others DEF repo
<1>2. Tagged' /\ PublishedProvenance'
  BY DEF JInv, Rest, repo, Tagged, PublishedProvenance, Attested
<1>3. JobInv(c)'
  BY <1>1
  DEF JobInv, PublishingInv, TagInv, VerifiedInv, VerifyingInv, GreenInv, Publishing
<1> QED BY <1>1, <1>2, <1>3 DEF Rest

(* The steps of a job that change no tag and no release.                   *)
LEMMA LookInv ==
    ASSUME JInv, NEW c \in Main,
           Select(c) \/ VerifyPublished(c) \/ PrepareAssets(c) \/ BuildRefused(c)
             \/ VerifyDraft(c) \/ Finish(c) \/ Fail(c)
    PROVE  Rest'
<1>1. pc[c] \in Running
  BY DEF Select, SelectPublished, SelectCandidate, VerifyPublished, PrepareAssets,
         BuildRefused, VerifyDraft, Finish, Fail, Running
<1>2. CASE Die(c) \/ Fail(c)
  BY <1>1, <1>2, Quiet DEF Die, Fail, Goto, manual
<1>3. ASSUME NEW to, Goto(c, to), UNCHANGED <<repo, manual>>,
             \A d \in Main \ {c} : plan'[d] = plan[d],
             pc'[c] = to => JobInv(c)'
      PROVE  Rest'
  <2>1. OneRuns' /\ (\A d \in Main \ {c} : JobInv(d)') /\ pc'[c] = to
    BY <1>1, <1>3, Others DEF Goto, repo
  <2>2. Tagged' /\ PublishedProvenance'
    BY <1>3 DEF JInv, Rest, repo, manual, Tagged, PublishedProvenance, Attested
  <2> QED BY <1>3, <2>1, <2>2 DEF Rest
<1>s. ASSUME SelectCandidate(c), ~Die(c)
      PROVE  /\ Goto(c, "prepare")
             /\ UNCHANGED <<repo, manual>>
             /\ \A d \in Main \ {c} : plan'[d] = plan[d]
             /\ plan'[c].version = Ver[c] /\ plan'[c].target = c
             /\ ~plan'[c].createTag => tag[Ver[c]] = c
             /\ \A w \in published : w < Ver[c]
  <2>1. /\ Ver[c] \notin published /\ Selected(Ver[c], c)
        /\ tag[Ver[c]] \in {None, c}
        /\ plan' = [plan EXCEPT ![c] = ToPublish(c)]
        /\ Goto(c, "prepare")
        /\ UNCHANGED <<head, repo, failures, manual>>
    BY <1>s DEF SelectCandidate
  <2>2. plan'[c] = ToPublish(c) /\ \A d \in Main \ {c} : plan'[d] = plan[d]
    BY <2>1 DEF JInv, TypeOK
  <2>3. \A w \in published : w <= Ver[c] /\ w # Ver[c]  BY <2>1 DEF Selected
  <2>4. Ver[c] \in Nat /\ published \subseteq Nat  BY Shapes DEF JInv, TypeOK
  <2>5. \A w \in published : w < Ver[c]  BY <2>3, <2>4
  <2>6. /\ plan'[c].version = Ver[c] /\ plan'[c].target = c
        /\ plan'[c].createTag = (tag[Ver[c]] = None)
    BY <2>2 DEF ToPublish
  <2>7. UNCHANGED <<repo, manual>>  BY <2>1
  <2> QED BY <2>1, <2>2, <2>5, <2>6, <2>7
<1> USE <1>1 DEF JInv, Rest, TypeOK, JobInv, PublishingInv, TagInv, VerifiedInv,
                 VerifyingInv, GreenInv, Publishing, Running, repo, manual
<1>4. CASE SelectPublished(c) /\ ~Die(c)
  <2>1. PICK v \in published :
          /\ Selected(v, c) /\ plan' = [plan EXCEPT ![c] = ToVerify(v)]
          /\ Goto(c, "verify-published")
          /\ UNCHANGED <<head, repo, failures, manual>>
    BY <1>4 DEF SelectPublished
  <2>2. plan'[c] = ToVerify(v)  BY <2>1
  <2>3. Ver[c] \in Nat /\ v \in Nat /\ v >= Ver[c]
    BY <2>1, Shapes DEF Selected
  <2>4. pc'[c] = "verify-published" => JobInv(c)'
    BY <2>1, <2>2, <2>3 DEF ToVerify
  <2>5. \A d \in Main \ {c} : plan'[d] = plan[d]  BY <2>1
  <2> QED BY <2>1, <2>4, <2>5, <1>3
<1>5. CASE SelectCandidate(c) /\ ~Die(c)
  <2>1. Goto(c, "prepare") /\ UNCHANGED <<repo, manual>>
    BY <1>5, <1>s
  <2>2. pc'[c] = "prepare" => JobInv(c)'
    BY <1>5, <1>s, <2>1
  <2>3. \A d \in Main \ {c} : plan'[d] = plan[d]  BY <1>5, <1>s
  <2> QED BY <2>1, <2>2, <2>3, <1>3
<1>6. CASE VerifyPublished(c) /\ ~Die(c)
  <2>1. /\ pc[c] = "verify-published" /\ Attested(plan[c].version, plan[c].target)
        /\ Goto(c, "finish") /\ UNCHANGED <<head, repo, plan, failures, manual>>
    BY <1>6 DEF VerifyPublished
  <2>2. pc'[c] = "finish" => JobInv(c)'
    BY <2>1 DEF Attested
  <2> QED BY <2>1, <2>2, <1>3
<1>7. CASE PrepareAssets(c)
  <2> DEFINE to == IF plan[c].createTag THEN "create-tag" ELSE "build"
  <2>1. /\ pc[c] = "prepare" /\ Goto(c, to)
        /\ UNCHANGED <<head, repo, plan, failures, manual>>
    BY <1>7 DEF PrepareAssets
  <2>2. pc'[c] = to => JobInv(c)'
    BY <2>1
  <2>3. \A d \in Main \ {c} : plan'[d] = plan[d]  BY <2>1
  <2> HIDE DEF to
  <2> QED BY <2>1, <2>2, <2>3, <1>3
<1>8. CASE VerifyDraft(c) /\ ~Die(c)
  <2>1. /\ pc[c] = "verify-draft" /\ plan[c].version \in draft
        /\ Attested(plan[c].version, plan[c].target)
        /\ Goto(c, "publish") /\ UNCHANGED <<head, repo, plan, failures, manual>>
    BY <1>8 DEF VerifyDraft
  <2>2. pc'[c] = "publish" => JobInv(c)'
    BY <2>1 DEF Attested
  <2> QED BY <2>1, <2>2, <1>3
<1>9. CASE Finish(c)
  <2>1. pc'[c] = "succeeded" => JobInv(c)'
    BY <1>9 DEF Finish, Attested
  <2> QED BY <1>9, <2>1, <1>3 DEF Finish
<1> QED
  BY <1>2, <1>4, <1>5, <1>6, <1>7, <1>8, <1>9
  DEF Select, BuildRefused

(* The steps that change tags and releases.                                *)
LEMMA WriteInv ==
    ASSUME JInv, NEW c \in Main, CreateTag(c) \/ BuildDraft(c) \/ Publish(c)
    PROVE  Rest'
<1> DEFINE v == Ver[c]
<1>1. /\ plan[c].version = v /\ plan[c].target = c /\ pc[c] \in Running
      /\ \A w \in published \ handMade : w < v
      /\ v \in Versions /\ c # None
  BY Shapes DEF JInv, Rest, JobInv, PublishingInv, Publishing, CreateTag,
                BuildDraft, Publish, Running
<1> HIDE DEF v
<1>2. CASE Die(c)  BY <1>1, <1>2, Quiet DEF Die, Goto, manual
<1>3. CASE CreateTag(c) /\ ~Die(c)
  <2>1. /\ tag[v] = None /\ tag' = [tag EXCEPT ![v] = c] /\ Goto(c, "build")
        /\ UNCHANGED <<head, draft, published, assets, plan, failures, manual>>
    BY <1>1, <1>3 DEF CreateTag
  <2>2. v \notin published  BY <2>1 DEF JInv, Rest, Tagged
  <2>3. \A w \in published : tag'[w] = tag[w]  BY <2>1, <2>2 DEF JInv, TypeOK
  <2>4. OneRuns' /\ (\A d \in Main \ {c} : JobInv(d)') /\ pc'[c] = "build"
    BY <1>1, <2>1, <2>3, Others DEF Goto
  <2>5. Tagged' /\ PublishedProvenance'
    BY <2>1, <2>3
    DEF JInv, Rest, manual, Tagged, PublishedProvenance, Attested
  <2>6. tag'[v] = c  BY <1>1, <2>1 DEF JInv, TypeOK
  <2>7. JobInv(c)'
    BY <1>1, <2>1, <2>4, <2>6
    DEF v, manual, JobInv, PublishingInv, TagInv, VerifiedInv, VerifyingInv, GreenInv,
        Publishing
  <2> QED BY <2>4, <2>5, <2>7 DEF Rest
<1>4. CASE BuildDraft(c)
  <2>1. /\ pc[c] = "build" /\ v \notin published
        /\ UNCHANGED <<head, tag, published, plan, manual>>
    BY <1>1, <1>4 DEF BuildDraft
  <2>2. PICK to \in {"verify-draft", "failed"} : Goto(c, to)
    BY <1>4 DEF BuildDraft
  <2>3. \A w \in published : assets'[w] = assets[w]
    BY <1>1, <1>4, <2>1 DEF BuildDraft, JInv, TypeOK
  <2>4. OneRuns' /\ (\A d \in Main \ {c} : JobInv(d)') /\ pc'[c] = to
    BY <1>1, <2>1, <2>2, <2>3, Others DEF Goto
  <2>5. Tagged' /\ PublishedProvenance'
    BY <2>1, <2>3 DEF JInv, Rest, manual, Tagged, PublishedProvenance, Attested
  <2>6. tag[v] = c  BY <2>1 DEF v, JInv, Rest, JobInv, TagInv
  <2>7. JobInv(c)'
    BY <1>1, <2>1, <2>2, <2>4, <2>6
    DEF v, manual, JobInv, PublishingInv, TagInv, VerifiedInv, VerifyingInv, GreenInv,
        Publishing
  <2> QED BY <2>4, <2>5, <2>7 DEF Rest
<1>5. CASE Publish(c)
  <2>1. /\ pc[c] = "publish" /\ published' = published \cup {v} /\ Goto(c, "finish")
        /\ UNCHANGED <<head, tag, assets, plan, failures, manual>>
    BY <1>1, <1>5 DEF Publish
  <2>2. OneRuns' /\ (\A d \in Main \ {c} : JobInv(d)') /\ pc'[c] = "finish"
    BY <1>1, <2>1, Others DEF Goto
  <2>3. tag[v] = c /\ Attested(v, c)
    BY <2>1 DEF v, JInv, Rest, JobInv, TagInv, VerifiedInv
  <2>4. Tagged'  BY <1>1, <2>1, <2>3 DEF JInv, Rest, Tagged
  <2>5. PublishedProvenance'
    BY <2>1, <2>3 DEF v, JInv, Rest, manual, PublishedProvenance, Attested
  <2>6. Ver[c] \in Nat /\ v >= Ver[c]  BY Shapes DEF v
  <2>7. JobInv(c)'
    BY <2>1, <2>2, <2>3, <2>6
    DEF JobInv, PublishingInv, TagInv, VerifiedInv, VerifyingInv, GreenInv, Publishing,
        Attested
  <2> QED BY <2>2, <2>4, <2>5, <2>7 DEF Rest
<1> QED BY <1>2, <1>3, <1>4, <1>5

(* A job that begins, a push to main, and what maintainers do.             *)
LEMMA OutsideInv ==
    ASSUME JInv,
           \/ Push \/ Terminated \/ UNCHANGED vars
           \/ \E c \in Main : Begin(c)
           \/ \E v \in Versions, c \in Commits : TagByHand(v, c)
           \/ \E v \in Versions : DraftByHand(v) \/ PublishByHand(v)
    PROVE  Rest'
<1> USE DEF JInv, Rest, TypeOK, repo, manual
<1>1. CASE Push \/ Terminated \/ UNCHANGED vars
  BY <1>1
  DEF Push, Terminated, vars, OneRuns, Tagged, PublishedProvenance, JobInv,
      PublishingInv, TagInv, VerifiedInv, VerifyingInv, GreenInv, Attested
<1>2. ASSUME NEW c \in Main, Begin(c)  PROVE Rest'
  <2>1. \A d \in Main : /\ pc[d] \notin Running
                        /\ d # c => pc'[d] = pc[d] /\ plan'[d] = plan[d]
    BY <1>2 DEF Begin, Goto
  <2>2. pc'[c] = "select" /\ UNCHANGED <<repo, manual>>  BY <1>2 DEF Begin, Goto
  <2>3. OneRuns' /\ Tagged' /\ PublishedProvenance'
    BY <2>1, <2>2 DEF OneRuns, Tagged, PublishedProvenance, Attested, Running
  <2>4. \A d \in Main : JobInv(d)'
    BY <2>1, <2>2
    DEF JobInv, PublishingInv, TagInv, VerifiedInv, VerifyingInv, GreenInv, Publishing,
        Running, Attested
  <2> QED BY <2>3, <2>4
<1>3. ASSUME NEW v \in Versions, NEW c \in Commits, TagByHand(v, c)  PROVE Rest'
  <2>1. /\ tag[v] = None /\ tag' = [tag EXCEPT ![v] = c]
        /\ UNCHANGED <<draft, published, assets, handMade, pc, plan>>
    BY <1>3 DEF TagByHand, ByHand
  <2>2. \A w \in Versions : tag[w] # None => tag'[w] = tag[w]  BY <2>1
  <2>3. OneRuns' /\ Tagged' /\ PublishedProvenance'
    BY <2>1, <2>2 DEF OneRuns, Tagged, PublishedProvenance, Attested
  <2>4. ASSUME NEW d \in Main  PROVE JobInv(d)'
    <3>1. Ver[d] \in Versions /\ d # None  BY Shapes
    <3>2. PublishingInv(d)' /\ VerifiedInv(d)'
      BY <2>1 DEF JobInv, PublishingInv, VerifiedInv, Attested
    <3>3. TagInv(d)'  BY <2>1, <2>2, <3>1 DEF JobInv, TagInv
    <3>4. VerifyingInv(d)'  BY <2>1, <2>2 DEF JobInv, VerifyingInv, Tagged
    <3>5. GreenInv(d)'  BY <2>1, <2>2 DEF JobInv, GreenInv, Tagged, Attested
    <3> QED BY <3>2, <3>3, <3>4, <3>5 DEF JobInv
  <2> QED BY <2>3, <2>4
<1>4. ASSUME NEW v \in Versions, DraftByHand(v)  PROVE Rest'
  <2>1. /\ v \notin draft \cup published /\ draft \subseteq draft'
        /\ UNCHANGED <<tag, published, handMade, pc, plan>>
        /\ \A w \in Versions \ {v} : assets'[w] = assets[w]
    BY <1>4 DEF DraftByHand, ByHand
  <2>2. OneRuns' /\ Tagged' /\ PublishedProvenance'
    BY <2>1 DEF OneRuns, Tagged, PublishedProvenance, Attested
  <2>3. ASSUME NEW d \in Main  PROVE JobInv(d)'
    <3>1. PublishingInv(d)' /\ TagInv(d)' /\ VerifyingInv(d)'
      BY <2>1 DEF JobInv, PublishingInv, TagInv, VerifyingInv
    <3>2. VerifiedInv(d)'  BY <2>1 DEF JobInv, VerifiedInv, Attested
    <3>3. GreenInv(d)'  BY <2>1 DEF JobInv, GreenInv, Attested
    <3> QED BY <3>1, <3>2, <3>3 DEF JobInv
  <2> QED BY <2>2, <2>3
<1>5. ASSUME NEW v \in Versions, PublishByHand(v)  PROVE Rest'
  <2>1. /\ tag[v] # None /\ published' = published \cup {v}
        /\ draft' \cup published' = draft \cup published
        /\ published' \ handMade' \subseteq published \ handMade
        /\ UNCHANGED <<tag, assets, pc, plan>>
    BY <1>5 DEF PublishByHand, ByHand
  <2>2. OneRuns' /\ Tagged' /\ PublishedProvenance'
    BY <2>1 DEF OneRuns, Tagged, PublishedProvenance, Attested
  <2>3. ASSUME NEW d \in Main  PROVE JobInv(d)'
    <3>1. PublishingInv(d)' /\ TagInv(d)' /\ VerifyingInv(d)'
      BY <2>1 DEF JobInv, PublishingInv, TagInv, VerifyingInv
    <3>2. VerifiedInv(d)'  BY <2>1 DEF JobInv, VerifiedInv, Attested
    <3>3. GreenInv(d)'  BY <2>1 DEF JobInv, GreenInv, Attested
    <3> QED BY <3>1, <3>2, <3>3 DEF JobInv
  <2> QED BY <2>2, <2>3
<1> QED BY <1>1, <1>2, <1>3, <1>4, <1>5

(* Every step preserves the invariant.                                     *)
LEMMA JStep == JInv /\ [Next]_vars => JInv'
<1> SUFFICES ASSUME JInv, [Next]_vars PROVE JInv'  OBVIOUS
<1>1. TypeOK'  BY TypeStep
<1>2. Side \cup (1 .. head) \subseteq Commits
  BY ReleaseJobsAssumption
  DEF ReleaseJobsAssumption, JInv, TypeOK, Commits, Main
<1>3. Rest'
  BY <1>2, LookInv, WriteInv, OutsideInv DEF Next, Step
<1> QED BY <1>1, <1>3 DEF JInv

-----------------------------------------------------------------------------

(* The inductive invariant holds for ever.                                 *)
THEOREM Invariance == Spec => []JInv
BY JInit, JStep, PTL DEF Spec

(* Types.                                                                  *)
THEOREM Typing == Spec => []TypeOK
<1>1. JInv => TypeOK  BY DEF JInv
<1> QED BY Invariance, <1>1, PTL

(* What a job publishes is what its tag says, asset by asset.              *)
THEOREM PublishedProvenanceThm == Spec => []PublishedProvenance
<1>1. JInv => PublishedProvenance  BY DEF JInv, Rest
<1> QED BY Invariance, <1>1, PTL

(* A green job has a published and attested release to show.               *)
THEOREM GreenMeansReleasedThm == Spec => []GreenMeansReleased
<1>1. JInv => GreenMeansReleased
  BY DEF JInv, Rest, JobInv, GreenInv, GreenMeansReleased
<1> QED BY Invariance, <1>1, PTL

(* A version that a job publishes is newer than all that jobs published    *)
(* before.                                                                 *)
THEOREM NeverBackwardThm == Spec => NeverBackward
<1>1. ASSUME JInv, [Next]_vars
      PROVE  [\A v \in (published' \ published) \ handMade' :
                \A w \in published \ handMade : v > w]_vars
  <2>1. CASE UNCHANGED published  BY <2>1
  <2>2. ASSUME NEW v \in Versions, PublishByHand(v)
        PROVE  (published' \ published) \ handMade' = {}
    BY <2>2 DEF PublishByHand
  <2>3. ASSUME NEW c \in Main, Publish(c)
        PROVE  \A v \in published' \ published : \A w \in published \ handMade : v > w
    <3>1. /\ published' = published \cup {Ver[c]}
          /\ \A w \in published \ handMade : w < Ver[c]
      BY <1>1, <2>3 DEF Publish, JInv, Rest, JobInv, PublishingInv, Publishing
    <3>2. Ver[c] \in Nat /\ published \subseteq Nat
      BY <1>1, Shapes DEF JInv, TypeOK
    <3> QED BY <3>1, <3>2
  <2>4. \/ UNCHANGED published
        \/ \E v \in Versions : PublishByHand(v)
        \/ \E c \in Main : Publish(c)
    BY <1>1
    DEF Next, Push, Begin, Step, Select, SelectPublished, SelectCandidate,
        VerifyPublished, PrepareAssets, CreateTag, BuildDraft, BuildRefused, VerifyDraft,
        Finish, Fail, TagByHand, DraftByHand, ByHand, Terminated, Die, repo, vars
  <2> QED BY <2>1, <2>2, <2>3, <2>4
<1> QED BY Invariance, <1>1, PTL DEF Spec, NeverBackward

(* No asset of a published release and no tag ever changes.                *)
THEOREM NeverRewrittenThm == Spec => NeverRewritten
<1> DEFINE Kept == /\ published \subseteq published'
                   /\ \A v \in published : assets'[v] = assets[v]
                   /\ \A v \in Versions : tag[v] # None => tag'[v] = tag[v]
<1>1. ASSUME JInv, [Next]_vars  PROVE Kept
  <2> USE <1>1 DEF JInv, TypeOK
  <2>1. CASE published \subseteq published' /\ UNCHANGED <<tag, assets>>
    BY <2>1
  <2>2. ASSUME NEW c \in Main, CreateTag(c)  PROVE Kept
    <3> DEFINE v == plan[c].version
    <3>1. UNCHANGED <<published, assets>>  BY <2>2 DEF CreateTag, Die, repo
    <3>2. tag' = tag \/ (tag[v] = None /\ tag' = [tag EXCEPT ![v] = c])
      BY <2>2 DEF CreateTag, Die, repo
    <3> HIDE DEF v
    <3> QED BY <3>1, <3>2
  <2>3. ASSUME NEW v \in Versions, NEW c \in Commits, TagByHand(v, c)  PROVE Kept
    BY <2>3 DEF TagByHand
  <2>4. ASSUME NEW c \in Main, BuildDraft(c)  PROVE Kept
    <3> DEFINE v == plan[c].version
    <3>1. v \notin published /\ UNCHANGED <<published, tag>>
      BY <2>4 DEF BuildDraft
    <3>2. PICK g : assets' = [assets EXCEPT ![v] = g]
      BY <2>4 DEF BuildDraft
    <3> HIDE DEF v
    <3> QED BY <3>1, <3>2
  <2>5. ASSUME NEW v \in Versions, DraftByHand(v)  PROVE Kept
    BY <2>5 DEF DraftByHand
  <2>6. \/ published \subseteq published' /\ UNCHANGED <<tag, assets>>
        \/ \E c \in Main : CreateTag(c) \/ BuildDraft(c)
        \/ \E v \in Versions, c \in Commits : TagByHand(v, c)
        \/ \E v \in Versions : DraftByHand(v)
    <3>1. Side \cup (1 .. head) \subseteq Commits
      BY ReleaseJobsAssumption DEF ReleaseJobsAssumption, Commits, Main
    <3> QED
      BY <3>1
      DEF Next, Push, Begin, Step, Select, SelectPublished, SelectCandidate,
          VerifyPublished, PrepareAssets, BuildRefused, VerifyDraft, Publish, Finish,
          Fail, PublishByHand, Terminated, Die, repo, vars
  <2> QED BY <2>1, <2>2, <2>3, <2>4, <2>5, <2>6
<1>2. JInv /\ [Next]_vars => [Kept]_vars  BY <1>1
<1> QED BY Invariance, <1>2, PTL DEF Spec, NeverRewritten

-----------------------------------------------------------------------------

(* Without maintainers every tag was made by a job of main, at its commit.  *)
JobsTag ==
    \A v \in Versions : tag[v] # None =>
        tag[v] \in Main /\ Ver[tag[v]] = v /\ pc[tag[v]] # "waiting"

(* While a job is at these steps nobody else touched its tag and draft.    *)
CreatingInv(c) ==
    \/ pc[c] = "create-tag"
    \/ pc[c] = "prepare" /\ plan[c].createTag
    => tag[Ver[c]] = None
DraftedInv(c) ==
    pc[c] = "verify-draft" =>
        Ver[c] \in draft /\ (failures = 0 => Attested(Ver[c], c))

Own ==
    /\ handMade = {}
    /\ JobsTag
    /\ \A c \in Main : CreatingInv(c) /\ DraftedInv(c)
    /\ failures = 0 => \A c \in Main : pc[c] # "failed"

UInv == JInv /\ (byHand = 0 => Own)

(* Nothing was done by hand before the first job.                          *)
LEMMA UInit == Init => UInv
<1> SUFFICES ASSUME Init PROVE Own  BY JInit DEF UInv
<1> QED BY DEF Init, Own, JobsTag, CreatingInv, DraftedInv

(* Every published release is good enough for every job of main.           *)
LEMMA PublishedIsAccepted ==
    ASSUME JInv, Own, NEW c \in Main, NEW v \in published
    PROVE  /\ tag[v] # None /\ Related(tag[v], c) /\ ExactAssets(v)
           /\ Attested(v, tag[v])
<1>1. tag[v] \in Main /\ Attested(v, tag[v])
  BY DEF JInv, Rest, PublishedProvenance, Own
<1>2. tag[v] # None  BY <1>1, Shapes
<1>3. Related(tag[v], c)  BY <1>1 DEF Related
<1>4. ExactAssets(v)  BY <1>1, <1>2 DEF ExactAssets, Attested
<1> QED BY <1>1, <1>2, <1>3, <1>4

(* Numbers at most n, and not n, are less than n.                          *)
LEMMA Below ==
    ASSUME NEW n \in Nat, NEW S \in SUBSET Nat, \A w \in S : w <= n /\ w # n
    PROVE  \A w \in S : w < n
OBVIOUS

(* A step that dies of itself has one of the two reasons.                  *)
LEMMA Deaths ==
    ASSUME JInv, Own, NEW c \in Main, Step(c), pc'[c] = "failed",
           failures' = failures
    PROVE  BlockedByOwner(c) \/ BlockedByUpload(c)
<1> USE DEF JInv, TypeOK
<1>1. CASE SelectPublished(c)
  BY <1>1, PublishedIsAccepted DEF SelectPublished, Goto
<1>2. CASE SelectCandidate(c)
  <2> DEFINE d == tag[Ver[c]]
  <2>1. /\ pc[c] = "select" /\ Ver[c] \notin published /\ Selected(Ver[c], c)
        /\ d \notin {None, c}
    BY <1>2 DEF SelectCandidate, Goto
  <2>2. Ver[c] \in Versions /\ Versions \subseteq Nat  BY Shapes
  <2>n. Ver[c] \in Nat /\ published \subseteq Nat  BY <2>2
  <2>s. \A w \in published : w <= Ver[c] /\ w # Ver[c]  BY <2>1 DEF Selected
  <2>3. \A w \in published : w < Ver[c]  BY <2>n, <2>s, Below
  <2>4. d \in Main /\ Ver[d] = Ver[c] /\ pc[d] # "waiting"
    BY <2>1, <2>2 DEF Own, JobsTag
  <2>5. pc[d] \notin Running
    BY <2>1, <2>4 DEF Rest, OneRuns, Running
  <2>6. pc[d] # "succeeded"
    <3>1. pc[d] = "succeeded" => \E v \in published : v >= Ver[c]
      BY <2>4 DEF Rest, JobInv, GreenInv
    <3> HIDE DEF d
    <3> QED BY <3>1, <2>3, <2>n
  <2>7. pc[d] = "failed"  BY <2>4, <2>5, <2>6
  <2> QED BY <2>1, <2>3, <2>4, <2>7 DEF BlockedByOwner
<1>3. CASE VerifyPublished(c)
  <2>1. Attested(plan[c].version, plan[c].target)
    BY <1>3, PublishedIsAccepted DEF VerifyPublished, Rest, JobInv, VerifyingInv
  <2> QED BY <1>3, <2>1 DEF VerifyPublished, Goto
<1>4. CASE PrepareAssets(c)
  BY <1>4 DEF PrepareAssets, Goto
<1>5. CASE CreateTag(c)
  BY <1>5 DEF CreateTag, Goto, Own, CreatingInv, Rest, JobInv, PublishingInv, Publishing
<1>6. CASE BuildDraft(c)
  BY <1>6 DEF BuildDraft, Goto
<1>7. CASE BuildRefused(c)
  <2>1. pc[c] = "build" /\ plan[c].version \in published
    BY <1>7 DEF BuildRefused
  <2>2. Ver[c] \in published /\ \A w \in published : w < Ver[c]
    BY <2>1 DEF Own, Rest, JobInv, PublishingInv, Publishing
  <2>3. Ver[c] \in Nat  BY Shapes
  <2> QED BY <2>2, <2>3
<1>8. CASE VerifyDraft(c)
  <2>1. /\ pc[c] = "verify-draft"
        /\ plan[c].version = Ver[c] /\ plan[c].target = c /\ c # None
    BY <1>8, Shapes DEF VerifyDraft, Rest, JobInv, PublishingInv, Publishing
  <2>2. ~(Ver[c] \in draft /\ ExactAssets(Ver[c]) /\ Attested(Ver[c], c))
    BY <1>8, <2>1 DEF VerifyDraft, Goto
  <2>3. Ver[c] \in draft /\ (failures = 0 => Attested(Ver[c], c))
    BY <2>1 DEF Own, DraftedInv
  <2>4. failures # 0
    BY <2>1, <2>2, <2>3 DEF ExactAssets, Attested
  <2>5. failures > 0
    BY <2>4, ReleaseJobsAssumption DEF ReleaseJobsAssumption
  <2>6. Ver[c] \notin published  BY <2>3
  <2>7. tag[Ver[c]] = c  BY <2>1 DEF Rest, JobInv, TagInv
  <2> QED BY <2>1, <2>5, <2>6, <2>7 DEF BlockedByUpload
<1>9. CASE Publish(c) \/ Finish(c)
  BY <1>9 DEF Publish, Finish, Goto
<1> QED BY <1>1, <1>2, <1>3, <1>4, <1>5, <1>6, <1>7, <1>8, <1>9 DEF Step, Select

(* A step of a job that leaves the tags alone leaves those of the others.  *)
LEMMA OwnKept ==
    ASSUME JInv, Own, NEW c \in Main, pc[c] \in Running,
           NEW to, to # "waiting", pc' = [pc EXCEPT ![c] = to],
           UNCHANGED <<tag, handMade>>,
           failures' = 0 => failures = 0 /\ to # "failed",
           \A d \in Main \ {c} : plan'[d] = plan[d],
           CreatingInv(c)' /\ DraftedInv(c)'
    PROVE  Own'
<1> USE DEF JInv, TypeOK
<1>1. \A d \in Main \ {c} : pc'[d] = pc[d] /\ pc[d] \notin Running
  BY DEF Rest, OneRuns
<1>2. pc'[c] = to  OBVIOUS
<1>3. \A d \in Main \ {c} : CreatingInv(d)' /\ DraftedInv(d)'
  BY <1>1 DEF CreatingInv, DraftedInv, Running
<1>4. JobsTag'  BY <1>1, <1>2 DEF Own, JobsTag
<1>5. failures' = 0 => \A d \in Main : pc'[d] # "failed"
  BY <1>1, <1>2 DEF Own
<1> QED BY <1>3, <1>4, <1>5 DEF Own

(* Each step of a job preserves what is known without maintainers.         *)
LEMMA OwnStep ==
    ASSUME JInv, Own, byHand = 0, NEW c \in Main, Step(c) \/ Fail(c)
    PROVE  Own'
<1> USE DEF JInv, TypeOK
<1>a. failures \in Nat  BY ReleaseJobsAssumption DEF ReleaseJobsAssumption
<1>n. handMade' = handMade
  BY DEF Step, Select, SelectPublished, SelectCandidate, VerifyPublished,
         PrepareAssets, CreateTag, BuildDraft, BuildRefused, VerifyDraft, Publish,
         Finish, Fail, Die, manual
<1>r. pc[c] \in Running
  BY DEF Step, Select, SelectPublished, SelectCandidate, VerifyPublished,
         PrepareAssets, CreateTag, BuildDraft, BuildRefused, VerifyDraft, Publish,
         Finish, Fail, Running
<1>1. CASE Die(c) /\ Step(c)
  <2>1. pc'[c] = "failed" /\ failures' = failures  BY <1>1 DEF Die, Goto
  <2>2. BlockedByOwner(c) \/ BlockedByUpload(c)  BY <1>1, <2>1, Deaths
  <2>3. failures # 0  BY <2>2, <1>a DEF BlockedByOwner, BlockedByUpload, Own
  <2>4. CreatingInv(c)' /\ DraftedInv(c)'
    BY <2>1 DEF CreatingInv, DraftedInv
  <2> QED BY <1>1, <1>n, <1>r, <2>1, <2>3, <2>4, OwnKept DEF Die, Goto, repo
<1>2. CASE Fail(c)
  <2>1. /\ pc' = [pc EXCEPT ![c] = "failed"] /\ UNCHANGED <<tag, plan>>
        /\ failures' = failures + 1
    BY <1>2 DEF Fail, Goto, repo
  <2>2. failures' # 0  BY <2>1, <1>a
  <2>3. CreatingInv(c)' /\ DraftedInv(c)'
    BY <2>1 DEF CreatingInv, DraftedInv
  <2> QED BY <1>n, <1>r, <2>1, <2>2, <2>3, OwnKept
<1>3. CASE Select(c) /\ ~Die(c)
  <2>1. PICK to \in {"verify-published", "prepare"} :
          /\ Goto(c, to) /\ UNCHANGED <<repo, failures>>
          /\ \A d \in Main \ {c} : plan'[d] = plan[d]
    BY <1>3 DEF Select, SelectPublished, SelectCandidate
  <2>2. CreatingInv(c)' /\ DraftedInv(c)'
    <3>1. CASE SelectPublished(c)
      BY <1>3, <3>1 DEF SelectPublished, CreatingInv, DraftedInv, Goto
    <3>2. CASE SelectCandidate(c)
      <4>1. /\ plan'[c].createTag = (tag[Ver[c]] = None) /\ pc'[c] = "prepare"
            /\ UNCHANGED tag
        BY <1>3, <3>2 DEF SelectCandidate, ToPublish, Goto, repo
      <4> QED BY <4>1 DEF CreatingInv, DraftedInv
    <3> QED BY <1>3, <3>1, <3>2 DEF Select
  <2> QED BY <1>n, <1>r, <2>1, <2>2, OwnKept DEF Goto, repo
<1>4. CASE (VerifyPublished(c) \/ VerifyDraft(c) \/ Publish(c) \/ Finish(c)) /\ ~Die(c)
  <2>1. PICK to \in {"finish", "publish", "succeeded"} :
          Goto(c, to) /\ UNCHANGED <<tag, failures, plan>>
    BY <1>4 DEF VerifyPublished, VerifyDraft, Publish, Finish, repo
  <2>2. CreatingInv(c)' /\ DraftedInv(c)'
    BY <2>1 DEF CreatingInv, DraftedInv, Goto
  <2> QED BY <1>n, <1>r, <2>1, <2>2, OwnKept DEF Goto
<1>5. CASE PrepareAssets(c)
  <2>1. PICK to \in {"create-tag", "build"} :
          /\ Goto(c, to) /\ UNCHANGED <<tag, failures, plan>>
          /\ to = "create-tag" => plan[c].createTag
    BY <1>5 DEF PrepareAssets, repo
  <2>2. CreatingInv(c)' /\ DraftedInv(c)'
    BY <1>5, <2>1 DEF PrepareAssets, Own, CreatingInv, DraftedInv, Goto
  <2> QED BY <1>n, <1>r, <2>1, <2>2, OwnKept DEF Goto
<1>6. CASE CreateTag(c) /\ ~Die(c)
  <2>1. pc[c] = "create-tag" /\ plan[c].version = Ver[c] /\ Ver[c] \in Versions
    BY <1>6, Shapes DEF CreateTag, Rest, JobInv, PublishingInv, Publishing
  <2>2. /\ tag' = [tag EXCEPT ![Ver[c]] = c] /\ Goto(c, "build")
        /\ UNCHANGED <<failures, plan, draft, assets>>
    BY <1>6, <2>1 DEF CreateTag
  <2>3. \A d \in Main \ {c} : pc'[d] = pc[d] /\ pc[d] \notin Running
    BY <1>r, <2>2 DEF Rest, OneRuns, Goto
  <2>4. pc'[c] = "build" /\ pc'[c] \notin {"waiting", "failed"}
    BY <2>2 DEF Goto
  <2>5. \A d \in Main : CreatingInv(d)' /\ DraftedInv(d)'
    BY <2>3, <2>4 DEF CreatingInv, DraftedInv, Running
  <2>6. JobsTag'
    <3> SUFFICES ASSUME NEW v \in Versions, tag'[v] # None
                 PROVE  tag'[v] \in Main /\ Ver[tag'[v]] = v /\ pc'[tag'[v]] # "waiting"
      BY DEF JobsTag
    <3>1. CASE v = Ver[c]  BY <2>1, <2>2, <2>4, <3>1
    <3>2. CASE v # Ver[c]  BY <2>2, <2>3, <2>4, <3>2 DEF Own, JobsTag
    <3> QED BY <3>1, <3>2
  <2>7. failures' = 0 => \A d \in Main : pc'[d] # "failed"
    BY <2>2, <2>3, <2>4 DEF Own
  <2> QED BY <1>n, <2>5, <2>6, <2>7 DEF Own
<1>7. CASE BuildDraft(c)
  <2>1. /\ pc[c] = "build" /\ plan[c].version = Ver[c]
    BY <1>7 DEF BuildDraft, Rest, JobInv, PublishingInv, Publishing
  <2>2. PICK S \in SUBSET Assets :
          /\ failures' = IF S = Assets THEN failures ELSE failures + 1
          /\ assets' = [assets EXCEPT ![Ver[c]] =
               [a \in Assets |-> IF a \in S THEN c ELSE assets[Ver[c]][a]]]
          /\ \/ Goto(c, "verify-draft")
             \/ S # Assets /\ Goto(c, "failed")
    BY <1>7, <2>1 DEF BuildDraft
  <2>3. draft' = draft \cup {Ver[c]} /\ UNCHANGED <<tag, plan>>
    BY <1>7, <2>1 DEF BuildDraft
  <2>4. failures' = 0 => failures = 0 /\ S = Assets  BY <2>2, <1>a
  <2>5. Ver[c] \in Versions  BY Shapes
  <2>6. S = Assets => Attested(Ver[c], c)'  BY <2>2, <2>5 DEF Attested
  <2>7. CreatingInv(c)'  BY <2>2 DEF CreatingInv, Goto
  <2>8. DraftedInv(c)'  BY <2>3, <2>4, <2>6 DEF DraftedInv
  <2>9. PICK to \in {"verify-draft", "failed"} :
          Goto(c, to) /\ (failures' = 0 => to # "failed")
    BY <2>2, <2>4
  <2> QED BY <1>n, <1>r, <2>3, <2>4, <2>7, <2>8, <2>9, OwnKept DEF Goto
<1> QED
  BY <1>1, <1>2, <1>3, <1>4, <1>5, <1>6, <1>7 DEF Step, BuildRefused

(* So does everything else that happens without maintainers.               *)
LEMMA UStep == UInv /\ [Next]_vars => UInv'
<1> SUFFICES ASSUME UInv, [Next]_vars, byHand' = 0 PROVE Own'
  BY JStep DEF UInv
<1> USE DEF UInv, JInv, TypeOK
<1>0. byHand \in Nat  BY ReleaseJobsAssumption DEF ReleaseJobsAssumption
<1>1. ~ByHand  BY <1>0 DEF ByHand
<1>2. byHand = 0 /\ Own
  BY <1>1 DEF Next, Push, Begin, Step, Select, SelectPublished, SelectCandidate,
     VerifyPublished, PrepareAssets, CreateTag, BuildDraft, BuildRefused,
     VerifyDraft, Publish, Finish, Fail, Terminated, Die, vars, manual, TagByHand,
     DraftByHand, PublishByHand
<1>3. CASE Push \/ Terminated \/ UNCHANGED vars
  BY <1>2, <1>3
  DEF Push, Terminated, vars, repo, manual, Own, JobsTag, CreatingInv, DraftedInv,
      Attested
<1>4. ASSUME NEW c \in Main, Begin(c)  PROVE Own'
  <2>1. /\ UNCHANGED <<tag, draft, assets, failures, handMade>> /\ pc'[c] = "select"
        /\ \A d \in Main \ {c} : pc'[d] = pc[d] /\ plan'[d] = plan[d]
    BY <1>4 DEF Begin, Goto, repo, manual
  <2>2. \A d \in Main : CreatingInv(d)' /\ DraftedInv(d)'
    BY <1>2, <2>1 DEF Own, CreatingInv, DraftedInv, Attested
  <2>3. JobsTag'  BY <1>2, <2>1 DEF Own, JobsTag
  <2> QED BY <1>2, <2>1, <2>2, <2>3 DEF Own
<1>5. ASSUME NEW c \in Main, Step(c) \/ Fail(c)  PROVE Own'
  BY <1>2, <1>5, OwnStep
<1> QED
  BY <1>1, <1>3, <1>4, <1>5 DEF Next, TagByHand, DraftByHand, PublishByHand

(* What is known without maintainers holds for ever.                       *)
THEOREM UnaidedInvariance == Spec => []UInv
BY UInit, UStep, PTL DEF Spec

(* Jobs fail of themselves only where reruns mend it: the safety that       *)
(* AllGreen rests on.                                                      *)
THEOREM FailsResumablyThm == Spec => FailsResumably
<1>1. UInv /\ [Next]_vars
      => [\A c \in Main :
            /\ byHand = 0 /\ failures' = failures
            /\ pc[c] # "failed" /\ pc'[c] = "failed"
            => BlockedByOwner(c) \/ BlockedByUpload(c)]_vars
  <2> SUFFICES ASSUME UInv, Next, byHand = 0, failures' = failures,
                      NEW c \in Main, pc[c] # "failed", pc'[c] = "failed"
               PROVE  BlockedByOwner(c) \/ BlockedByUpload(c)
    OBVIOUS
  <2> USE DEF UInv, JInv, TypeOK
  <2>1. failures + 1 # failures
    BY ReleaseJobsAssumption DEF ReleaseJobsAssumption
  <2>2. CASE \E d \in Main : Step(d)
    <3>1. PICK d \in Main : Step(d)  BY <2>2
    <3>2. \E to : pc' = [pc EXCEPT ![d] = to]
      BY <3>1
      DEF Step, Select, SelectPublished, SelectCandidate, VerifyPublished,
          PrepareAssets, CreateTag, BuildDraft, BuildRefused, VerifyDraft, Publish,
          Finish, Die, Goto
    <3>3. d = c  BY <3>2
    <3> QED BY <3>1, <3>3, Deaths
  <2> QED
    BY <2>1, <2>2
    DEF Next, Push, Begin, Fail, TagByHand, DraftByHand, PublishByHand, ByHand,
        Terminated, vars, Goto
<1> QED BY UnaidedInvariance, <1>1, PTL DEF Spec, FailsResumably

(* Without a fault no job fails, in whatever order CI passes the commits.  *)
THEOREM NoneFailsOfItselfThm == Spec => []NoneFailsOfItself
<1>1. UInv => NoneFailsOfItself  BY DEF UInv, Own, NoneFailsOfItself
<1> QED BY UnaidedInvariance, <1>1, PTL

(***************************************************************************)
(* The release log                                                         *)
(***************************************************************************)

(* A new repository has an empty log.                                      *)
LEMMA InitBar == Init => Promise!Init
BY DEF Init, Promise!Init, Promise!Versions, Versions, ReleasesBar, GreenBar

(* A job that moves between two steps before its end is not seen.          *)
LEMMA GreenStays ==
    ASSUME JInv, NEW c \in Main, NEW s, Goto(c, s),
           pc[c] # "succeeded", s # "succeeded"
    PROVE  GreenBar' = GreenBar
BY DEF JInv, TypeOK, Goto, GreenBar

(* Nor is a change of the assets of a draft.                               *)
LEMMA ReleasesStay ==
    ASSUME UNCHANGED <<published, handMade>>,
           \A v \in published : assets'[v] = assets[v]
    PROVE  ReleasesBar' = ReleasesBar
BY DEF ReleasesBar

(* What is published next is added to the log.                             *)
LEMMA ReleasesGrow ==
    ASSUME JInv, NEW v \in Versions \ published, UNCHANGED <<tag, assets>>,
           published' = published \cup {v}, handMade' \in {handMade, handMade \cup {v}},
           GreenBar' = GreenBar, tag[v] # None
    PROVE  Promise!Add([version |-> v, byJob |-> v \notin handMade', assets |-> assets[v]])
<1>1. v \notin handMade  BY DEF JInv, TypeOK
<1>2. \A r \in ReleasesBar : r.version # v  BY DEF ReleasesBar
<1>3. ReleasesBar' =
        ReleasesBar \cup {[version |-> v, byJob |-> v \notin handMade', assets |-> assets[v]]}
  BY <1>1 DEF ReleasesBar
<1> QED BY <1>2, <1>3 DEF Promise!Add

(* The steps of a job that read, or write to its own draft only.           *)
LEMMA JobStutters ==
    ASSUME JInv, NEW c \in Main,
           \/ Begin(c) \/ Select(c) \/ VerifyPublished(c) \/ PrepareAssets(c)
           \/ BuildDraft(c) \/ BuildRefused(c) \/ VerifyDraft(c) \/ Fail(c)
    PROVE  UNCHANGED Promise!vars
<1>1. \/ pc[c] # "succeeded"
         /\ \E s \in Running \cup {"failed"} : Goto(c, s)
  BY DEF Begin, Select, SelectPublished, SelectCandidate, VerifyPublished, PrepareAssets,
         BuildDraft, BuildRefused, VerifyDraft, Fail, Die, Running
<1>2. GreenBar' = GreenBar  BY <1>1, GreenStays DEF Running
<1>3. UNCHANGED <<tag, published, handMade>>
  BY DEF Begin, Select, SelectPublished, SelectCandidate, VerifyPublished, PrepareAssets,
         BuildDraft, BuildRefused, VerifyDraft, Fail, Die, repo, manual
<1>4. \A v \in published : assets'[v] = assets[v]
  <2>1. CASE BuildDraft(c)
    <3>1. plan[c].version \notin published  BY <2>1 DEF BuildDraft
    <3>2. PICK g : assets' = [assets EXCEPT ![plan[c].version] = g]
      BY <2>1 DEF BuildDraft
    <3> QED BY <3>1, <3>2 DEF JInv, TypeOK
  <2>2. CASE ~BuildDraft(c)
    BY <2>2
    DEF Begin, Select, SelectPublished, SelectCandidate, VerifyPublished, PrepareAssets,
        BuildRefused, VerifyDraft, Fail, Die, repo
  <2> QED BY <2>1, <2>2
<1> QED BY <1>2, <1>3, <1>4, ReleasesStay DEF Promise!vars

(* The steps of a job that are seen.                                       *)
LEMMA JobBar ==
    ASSUME JInv, NEW c \in Main, CreateTag(c) \/ Publish(c) \/ Finish(c)
    PROVE  [Promise!Next]_(Promise!vars)
<1> USE DEF JInv, TypeOK
<1>0. /\ Ver[c] \in Versions /\ Promise!Versions = Versions /\ c \in Commits
      /\ JobInv(c)
  BY Shapes DEF Promise!Versions, Versions, Rest
<1>1. CASE CreateTag(c)
  <2>1. plan[c].version = Ver[c]
    BY <1>0, <1>1 DEF CreateTag, JobInv, PublishingInv, Publishing
  <2>2. GreenBar' = GreenBar  BY <1>1, GreenStays DEF CreateTag, Die
  <2>3. UNCHANGED <<published, handMade, assets>>
    BY <1>1 DEF CreateTag, Die, repo, manual
  <2>4. ReleasesBar' = ReleasesBar  BY <2>3, ReleasesStay
  <2>5. tag' = tag \/ (tag[Ver[c]] = None /\ tag' = [tag EXCEPT ![Ver[c]] = c])
    BY <1>1, <2>1 DEF CreateTag, Die, repo
  <2>6. CASE tag' = tag  BY <2>2, <2>4, <2>6 DEF Promise!vars
  <2>7. CASE tag[Ver[c]] = None /\ tag' = [tag EXCEPT ![Ver[c]] = c]
    <3>1. Promise!MakeTag(Ver[c], c)  BY <2>2, <2>4, <2>7 DEF Promise!MakeTag
    <3> QED BY <1>0, <3>1 DEF Promise!Next
  <2> QED BY <2>5, <2>6, <2>7
<1>2. CASE Publish(c)
  <2>1. /\ plan[c].version = Ver[c] /\ Attested(Ver[c], c) /\ tag[Ver[c]] = c
        /\ \A w \in published \ handMade : w < Ver[c]
    BY <1>0, <1>2
    DEF Publish, JobInv, PublishingInv, Publishing, VerifiedInv, TagInv
  <2>2. GreenBar' = GreenBar  BY <1>2, GreenStays DEF Publish
  <2>3. /\ published' = published \cup {Ver[c]}
        /\ UNCHANGED <<tag, assets, handMade>>
    BY <1>2, <2>1 DEF Publish, manual
  <2>4. CASE Ver[c] \in published
    <3>1. published' = published  BY <2>3, <2>4
    <3> QED BY <2>2, <2>3, <3>1, ReleasesStay DEF Promise!vars
  <2>5. CASE Ver[c] \notin published
    <3>1. tag[Ver[c]] # None /\ Ver[c] \notin handMade'
      BY <1>0, <2>1, <2>3, <2>5, Shapes
    <3>2. Promise!Add([version |-> Ver[c], byJob |-> Ver[c] \notin handMade',
                       assets |-> assets[Ver[c]]])
      BY <1>0, <2>2, <2>3, <2>5, <3>1, ReleasesGrow
    <3>3. assets[Ver[c]] = Promise!BuiltFrom(c)
      BY <1>0, <2>1 DEF Attested, Promise!BuiltFrom
    <3>4. ASSUME NEW r \in ReleasesBar, r.byJob  PROVE r.version < Ver[c]
      <4>1. PICK w \in published :
              r = [version |-> w, byJob |-> w \notin handMade, assets |-> assets[w]]
        BY DEF ReleasesBar
      <4>2. r.version = w /\ r.byJob = (w \notin handMade)  BY <4>1
      <4>3. w \notin handMade  BY <3>4, <4>2
      <4> QED BY <2>1, <4>2, <4>3
    <3>5. Promise!JobPublishes(c)
      BY <2>1, <3>1, <3>2, <3>3, <3>4 DEF Promise!JobPublishes
    <3> QED BY <3>5 DEF Promise!Next
  <2> QED BY <2>4, <2>5
<1>3. CASE Finish(c)
  <2>1. PICK v \in published : v >= Ver[c] /\ Attested(v, tag[v])
    BY <1>0, <1>3 DEF Finish, JobInv, GreenInv
  <2>2. UNCHANGED <<tag, published, assets, handMade>>
    BY <1>3 DEF Finish, repo, manual
  <2>3. ReleasesBar' = ReleasesBar  BY <2>2, ReleasesStay
  <2>4. GreenBar' = GreenBar \cup {c}  BY <1>3 DEF Finish, Goto, GreenBar
  <2>5. assets[v] = Promise!BuiltFrom(tag[v])
    BY <2>1 DEF Attested, Promise!BuiltFrom
  <2> DEFINE r == [version |-> v, byJob |-> v \notin handMade, assets |-> assets[v]]
  <2>6. /\ r \in ReleasesBar /\ r.version = v /\ r.assets = Promise!BuiltFrom(tag[v])
    BY <2>5 DEF ReleasesBar
  <2> HIDE DEF r
  <2>7. Promise!Succeed(c)  BY <2>1, <2>2, <2>3, <2>4, <2>6 DEF Promise!Succeed
  <2> QED BY <2>7 DEF Promise!Next
<1> QED BY <1>1, <1>2, <1>3

(* What maintainers do.                                                    *)
LEMMA ByHandBar ==
    ASSUME JInv, NEW v \in Versions,
           \/ \E c \in Commits : TagByHand(v, c)
           \/ DraftByHand(v) \/ PublishByHand(v)
    PROVE  [Promise!Next]_(Promise!vars)
<1> USE DEF JInv, TypeOK
<1>0. Promise!Versions = Versions  BY DEF Promise!Versions, Versions
<1>1. GreenBar' = GreenBar
  BY DEF TagByHand, DraftByHand, PublishByHand, ByHand, GreenBar
<1>2. ASSUME NEW c \in Commits, TagByHand(v, c)  PROVE Promise!MakeTag(v, c)
  <2>1. ReleasesBar' = ReleasesBar  BY <1>2, ReleasesStay DEF TagByHand
  <2> QED BY <1>1, <1>2, <2>1 DEF TagByHand, Promise!MakeTag
<1>3. CASE DraftByHand(v)
  <2>1. /\ UNCHANGED <<tag, published, handMade>>
        /\ \A w \in published : assets'[w] = assets[w]
    BY <1>3 DEF DraftByHand
  <2> QED BY <1>1, <2>1, ReleasesStay DEF Promise!vars
<1>4. CASE PublishByHand(v)
  <2>1. /\ v \notin published /\ v \in handMade'
        /\ assets[v] \in [Assets -> Provenances]
    BY <1>4 DEF PublishByHand
  <2>2. Promise!Add([version |-> v, byJob |-> v \notin handMade', assets |-> assets[v]])
    BY <1>1, <1>4, <2>1, ReleasesGrow DEF PublishByHand
  <2>3. (v \notin handMade') = FALSE  BY <2>1
  <2>4. Promise!SomebodyPublishes(v)
    BY <2>1, <2>2, <2>3 DEF Promise!SomebodyPublishes
  <2> QED BY <1>0, <2>4 DEF Promise!Next
<1> QED BY <1>0, <1>2, <1>3, <1>4 DEF Promise!Next

(* In whatever order jobs run, fail and are rerun, and whatever tags,       *)
(* drafts and releases are made by hand, the releases, tags and green jobs  *)
(* are a ReleaseLog.                                                       *)
THEOREM ReleaseLogRefinement == Spec => ImplementsReleaseLog
<1>1. JInv /\ [Next]_vars => [Promise!Next]_(Promise!vars)
  <2> SUFFICES ASSUME JInv, [Next]_vars PROVE [Promise!Next]_(Promise!vars)
    OBVIOUS
  <2>1. ASSUME NEW c \in Main, Begin(c) \/ Step(c) \/ Fail(c)
        PROVE  [Promise!Next]_(Promise!vars)
    BY <2>1, JobStutters, JobBar DEF Step
  <2>2. Side \cup (1 .. head) \subseteq Commits
    BY ReleaseJobsAssumption DEF ReleaseJobsAssumption, Commits, Main, JInv, TypeOK
  <2>3. CASE Push \/ Terminated \/ UNCHANGED vars
    BY <2>3
    DEF Push, Terminated, vars, repo, manual, Promise!vars, ReleasesBar, GreenBar
  <2> QED BY <2>1, <2>2, <2>3, ByHandBar DEF Next
<1> QED
  BY Invariance, InitBar, <1>1, PTL DEF Spec, ImplementsReleaseLog, Promise!Spec
=============================================================================
