------------------------ MODULE UpstreamUpdate_proofs ------------------------
(***************************************************************************)
(* Machine-checked proofs about UpstreamUpdate, for any number of commits,  *)
(* pushes, events and faults.                                              *)
(***************************************************************************)
EXTENDS UpstreamUpdate, TLAPS

(***************************************************************************)
(* The invariant                                                           *)
(***************************************************************************)

(* A run knows a commit of main that its head contains or has behind it.   *)
RunPlaced(r) ==
    r # NoRun => /\ r.head.base \in 1 .. r.base
                 /\ r.base \in 1 .. Tip

RunsPlaced ==
    \A r \in ci \cup events \cup {passed, bump, waiting, job} : RunPlaced(r)

HeadPlaced == head.base \in 1 .. base /\ base \in 1 .. Tip

(* What the merge job has verified stays true: main only grows.            *)
JobVerified ==
    /\ pc # "idle" => job # NoRun
    /\ pc \in {"reload", "put"} => Eligible(job.base, job.head)

IInv ==
    /\ TypeOK
    /\ MainConsistent
    /\ HeadPlaced
    /\ RunsPlaced
    /\ JobVerified

(***************************************************************************)
(* Versions, trees and heads                                               *)
(***************************************************************************)

(* Where a version is printed, it is one.                                  *)
LEMMA BumpTyped ==
    ASSUME NEW r \in Rules!Version, NEW c \in Rules!Version, NEW n \in Rules!Version,
           Rules!CanBump(r, c, n)
    PROVE  Rules!BumpReleaseVersion(r, c, n) \in Rules!Version
<1> USE UpstreamAssumption
    DEF UpstreamAssumption, Rules!Version, Rules!Component, Rules!CanBump,
        Rules!CanIncrement
<1>1. CASE n.major # c.major
  <2>1. r.major + 1 \in 0 .. MaxComponent  BY <1>1
  <2> QED BY <1>1, <2>1 DEF Rules!BumpReleaseVersion
<1>2. CASE n.major = c.major /\ n.minor # c.minor
  <2>1. r.minor + 1 \in 0 .. MaxComponent  BY <1>2
  <2>2. Rules!BumpReleaseVersion(r, c, n) = [r EXCEPT !.minor = @ + 1, !.patch = 0]
    BY <1>2 DEF Rules!BumpReleaseVersion
  <2>3. Rules!BumpReleaseVersion(r, c, n)
          = [major |-> r.major, minor |-> r.minor + 1, patch |-> 0]
    BY <2>2
  <2> QED BY <2>1, <2>3
<1>3. CASE n.major = c.major /\ n.minor = c.minor
  <2>1. r.patch + 1 \in 0 .. MaxComponent  BY <1>3
  <2> QED BY <1>3, <2>1 DEF Rules!BumpReleaseVersion
<1> QED BY <1>1, <1>2, <1>3

(* The metadata that the scripts generate are metadata.                    *)
LEMMA CanonicalTyped ==
    ASSUME NEW t \in Trees, NEW v \in Rules!Version, Updatable(t, v)
    PROVE  Canonical(t, v) \in Trees
<1>1. t.release \in Rules!Version /\ t.upstream \in Rules!Version  BY DEF Trees
<1>2. Rules!BumpReleaseVersion(t.release, t.upstream, v) \in Rules!Version
  BY <1>1, BumpTyped DEF Updatable
<1> QED BY <1>2 DEF Canonical, Trees

(* What Renovate pushes is a head on the commit it was made for.           *)
LEMMA RawTyped ==
    ASSUME TypeOK, NEW b \in 1 .. Tip, NEW v \in Rules!Version
    PROVE  Raw(b, v) \in Heads /\ Raw(b, v).base = b
<1>1. main[b] \in Trees  BY DEF TypeOK, Tip
<1>2. [main[b] EXCEPT !.upstream = v] \in Trees  BY <1>1 DEF Trees
<1>3. b \in Nat  BY DEF TypeOK, Tip
<1> QED BY <1>2, <1>3 DEF Raw, Heads

(* The bump commit keeps the base of the head it completes.                *)
LEMMA CompletedTyped ==
    ASSUME TypeOK, NEW r \in Runs, RunPlaced(r), r # NoRun, Scoped(r.base, r.head)
    PROVE  /\ Completed(r) \in Heads
           /\ Completed(r).base = r.head.base
           /\ Completed(r).human = r.head.human
<1>1. r.base \in 1 .. Tip /\ r.head \in Heads  BY DEF Runs, RunPlaced
<1>2. main[r.base] \in Trees  BY <1>1 DEF TypeOK, Tip
<1>3. r.head.tree.upstream \in Rules!Version  BY <1>1 DEF Heads, Trees
<1>4. Canonical(main[r.base], r.head.tree.upstream) \in Trees
  BY <1>2, <1>3, CanonicalTyped DEF Scoped
<1>5. Completed(r)
        = [r.head EXCEPT !.tree = Canonical(main[r.base], r.head.tree.upstream)]
  BY <1>1 DEF Completed, Heads
<1> QED BY <1>1, <1>4, <1>5 DEF Heads

(***************************************************************************)
(* What a push does                                                        *)
(***************************************************************************)
LEMMA PushHeadKeeps ==
    ASSUME IInv, NEW h \in Heads, h.base \in 1 .. Tip, PushHead(h)
    PROVE  /\ head' \in Heads /\ base' \in Nat
           /\ ci' \in SUBSET Runs /\ passed' = passed
           /\ head'.base \in 1 .. base' /\ base' \in 1 .. Tip
           /\ \A r \in ci' : RunPlaced(r)
           /\ [base |-> Tip, head |-> h] \in Runs
           /\ RunPlaced([base |-> Tip, head |-> h])
<1>1. Tip \in Nat /\ Tip > 0  BY DEF IInv, TypeOK, Tip
<1>2. [base |-> Tip, head |-> h] \in Runs  BY <1>1 DEF Runs
<1>3. RunPlaced([base |-> Tip, head |-> h])  BY <1>1 DEF RunPlaced
<1>4. ci \in SUBSET Runs /\ \A r \in ci : RunPlaced(r)
  BY DEF IInv, TypeOK, RunsPlaced
<1> QED BY <1>1, <1>2, <1>3, <1>4 DEF PushHead

(* A push to the pull request leaves every base a commit of main.          *)
LEMMA PushKeeps ==
    ASSUME IInv, NEW h \in Heads, h.base \in 1 .. Tip, Push(h)
    PROVE  /\ head' \in Heads /\ base' \in Nat
           /\ ci' \in SUBSET Runs /\ passed' = passed
           /\ head'.base \in 1 .. base' /\ base' \in 1 .. Tip
           /\ \A r \in ci' \cup {bump', waiting'} : RunPlaced(r)
           /\ bump' \in Runs \cup {NoRun} /\ waiting' \in Runs \cup {NoRun}
<1>1. PushHead(h)  BY DEF Push
<1>2. RunPlaced(bump) /\ RunPlaced(waiting)  BY DEF IInv, RunsPlaced
<1>3. bump \in Runs \cup {NoRun} /\ waiting \in Runs \cup {NoRun}
  BY DEF IInv, TypeOK
<1> QED BY <1>1, <1>2, <1>3, PushHeadKeeps DEF Push

(***************************************************************************)
(* Main only grows                                                         *)
(***************************************************************************)

(* One commit more, whose pins are those of its upstream version.          *)
Grows == \E t \in Trees : t.pins = t.upstream /\ main' = Append(main, t)

(* The commit that a verified merge adds.                                  *)
LEMMA PutCommit ==
    ASSUME IInv, pc = "put", Mergeable(job.head)
    PROVE  /\ job.base = Tip
           /\ Updatable(Newest, job.head.tree.upstream)
           /\ job.head.tree = Canonical(Newest, job.head.tree.upstream)
           /\ Rules!AutoMergeUpstreamUpdate(Newest.upstream, job.head.tree.upstream)
           /\ job.head.tree \in Trees
           /\ job.head.tree.pins = job.head.tree.upstream
<1>1. job # NoRun /\ job \in Runs /\ Eligible(job.base, job.head)
  BY DEF IInv, TypeOK, JobVerified
<1>2. job.head.base \in 1 .. job.base /\ job.base \in 1 .. Tip
  BY <1>1 DEF IInv, RunsPlaced, RunPlaced
<1>3. job.head.base = Tip  BY DEF Mergeable
<1>4. job.base = Tip  BY <1>2, <1>3 DEF IInv, TypeOK, Tip
<1>5. /\ Updatable(Newest, job.head.tree.upstream)
      /\ job.head.tree = Canonical(Newest, job.head.tree.upstream)
      /\ Rules!AutoMergeUpstreamUpdate(Newest.upstream, job.head.tree.upstream)
  BY <1>1, <1>4 DEF Eligible, Scoped, Prepared, Newest
<1>6. job.head.tree \in Trees  BY <1>1 DEF Runs, Heads
<1>7. job.head.tree.pins = job.head.tree.upstream  BY <1>5 DEF Canonical
<1> QED BY <1>4, <1>5, <1>6, <1>7

(* An automatic merge appends one consistent commit to main, or none.      *)
LEMMA PutGrows == IInv /\ Put => UNCHANGED main \/ Grows
<1> SUFFICES ASSUME IInv, Put PROVE UNCHANGED main \/ Grows
  OBVIOUS
<1>1. CASE Mergeable(job.head)
  <2>1. pc = "put" /\ main' = Append(main, job.head.tree)  BY <1>1 DEF Put
  <2> QED BY <1>1, <2>1, PutCommit DEF Grows
<1>2. CASE ~Mergeable(job.head)  BY <1>2 DEF Put, Main
<1> QED BY <1>1, <1>2

(* So does a reviewed one.                                                 *)
LEMMA ReviewedGrows == IInv /\ ReviewedMerge => Grows
<1> SUFFICES ASSUME IInv, ReviewedMerge PROVE Grows
  OBVIOUS
<1>1. Newest \in Trees  BY DEF IInv, TypeOK, Newest, Tip
<1>2. PICK r \in OwnReleases \cup {Newest.release},
           u, p \in Releases \cup {Newest.upstream} :
        /\ TestsPass(Newest, [release |-> r, upstream |-> u, pins |-> p])
        /\ main' = Append(main, [release |-> r, upstream |-> u, pins |-> p])
  BY DEF ReviewedMerge
<1>3. [release |-> r, upstream |-> u, pins |-> p] \in Trees
  BY <1>1, <1>2, UpstreamAssumption DEF UpstreamAssumption, Trees
<1>4. p = u  BY <1>2 DEF TestsPass
<1> QED BY <1>2, <1>3, <1>4 DEF Grows

(* No other step touches main.                                             *)
LEMMA OthersKeepMain ==
    Next => Put \/ ReviewedMerge \/ UNCHANGED Main
<1> SUFFICES ASSUME Next PROVE Put \/ ReviewedMerge \/ UNCHANGED Main
  OBVIOUS
<1>1. Renovate => UNCHANGED Main
  BY DEF Renovate, Open, Rebase, Supersede, AutoClose, Main
<1>2. Bump => UNCHANGED Main  BY DEF Bump, BumpCommit, BumpEnds, Main
<1>3. Test => UNCHANGED Main  BY DEF Test, CIPass, CIFail, Main
<1>4. (\E r \in events : Inspect(r)) \/ Verify \/ Reload => UNCHANGED Main
  BY DEF Inspect, Verify, Reload, Main
<1>5. HumanPush \/ RefreshBase \/ Fault => UNCHANGED Main
  BY DEF HumanPush, RefreshBase, Fault, Main
<1> QED BY <1>1, <1>2, <1>3, <1>4, <1>5 DEF Next, MergeJob

(***************************************************************************)
(* The invariant is inductive                                              *)
(***************************************************************************)

(* A verdict about a commit of main is a verdict for ever.                 *)
LEMMA EligibleStable ==
    ASSUME job' = job, main'[job.base] = main[job.base]
    PROVE  Eligible(job.base, job.head) = Eligible(job.base, job.head)'
BY DEF Eligible, Scoped, Prepared, Updatable, Canonical, Rules!Newer,
       Rules!CompareVersions, Rules!CanBump, Rules!CanIncrement,
       Rules!BumpReleaseVersion, Rules!AutoMergeUpstreamUpdate

(* The verdict of the merge job stays true while others move.              *)
LEMMA JobStays ==
    ASSUME IInv, UNCHANGED <<job, pc>>, \A i \in 1 .. Tip : main'[i] = main[i]
    PROVE  JobVerified'
<1>1. CASE pc = "idle"  BY <1>1 DEF JobVerified
<1>2. CASE pc # "idle"
  <2>1. job # NoRun  BY <1>2 DEF IInv, JobVerified
  <2>2. job.base \in 1 .. Tip  BY <2>1 DEF IInv, RunsPlaced, RunPlaced
  <2>3. Eligible(job.base, job.head) = Eligible(job.base, job.head)'
    BY <2>2, EligibleStable
  <2> QED BY <2>1, <2>3 DEF IInv, JobVerified
<1> QED BY <1>1, <1>2

(* What is known of main stays when main does.                             *)
LEMMA MainStays ==
    ASSUME IInv, UNCHANGED Main
    PROVE  /\ Tip' = Tip /\ MainConsistent'
           /\ main' \in Seq(Trees) /\ Tip' > 0
           /\ merged' \in {"none", "auto", "reviewed"}
           /\ \A i \in 1 .. Tip : main'[i] = main[i]
           /\ \A r : RunPlaced(r) => /\ r # NoRun => r.head.base \in 1 .. r.base
                                     /\ r # NoRun => r.base \in 1 .. Tip'
BY DEF IInv, TypeOK, MainConsistent, Main, Tip, RunPlaced

(* A push to the pull request keeps the invariant.                         *)
LEMMA PushStep ==
    ASSUME IInv, NEW h \in Heads, h.base \in 1 .. Tip, Push(h),
           UNCHANGED <<Main, Merge>>,
           open' \in BOOLEAN, humans' \in Nat, faults' \in Nat
    PROVE  IInv'
<1>1. /\ head' \in Heads /\ base' \in Nat
      /\ ci' \in SUBSET Runs /\ passed' = passed
      /\ head'.base \in 1 .. base' /\ base' \in 1 .. Tip
      /\ \A r \in ci' \cup {bump', waiting'} : RunPlaced(r)
      /\ bump' \in Runs \cup {NoRun} /\ waiting' \in Runs \cup {NoRun}
  BY PushKeeps
<1>2. UNCHANGED <<events, job, pc>>  BY DEF Merge
<1>3. TypeOK'  BY <1>1, <1>2, MainStays DEF IInv, TypeOK
<1>4. HeadPlaced'  BY <1>1, MainStays DEF HeadPlaced
<1>5. \A r \in events \cup {passed, job} : RunPlaced(r)  BY DEF IInv, RunsPlaced
<1>6. RunsPlaced'  BY <1>1, <1>2, <1>5, MainStays DEF RunsPlaced, RunPlaced
<1>7. JobVerified'  BY <1>2, MainStays, JobStays
<1> QED BY <1>3, <1>4, <1>6, <1>7, MainStays DEF IInv

(* Renovate opening, rebasing, superseding or closing keeps it.            *)
LEMMA RenovateStep == IInv /\ Renovate => IInv'
<1> SUFFICES ASSUME IInv, Renovate PROVE IInv'
  OBVIOUS
<1>0. /\ Tip \in 1 .. Tip /\ TypeOK
      /\ head.tree.upstream \in Rules!Version
  BY DEF IInv, TypeOK, Tip, Heads, Trees
<1>1. CASE Open
  <2>1. PICK v \in Releases : Push(Raw(Tip, v))  BY <1>1 DEF Open
  <2>2. v \in Rules!Version  BY UpstreamAssumption DEF UpstreamAssumption
  <2>3. UNCHANGED <<Main, Merge, Bounds>> /\ open' = TRUE  BY <1>1 DEF Open
  <2>4. humans' \in Nat /\ faults' \in Nat  BY <1>0, <2>3 DEF TypeOK, Bounds
  <2>5. Raw(Tip, v) \in Heads /\ Raw(Tip, v).base = Tip  BY <1>0, <2>2, RawTyped
  <2> QED BY <1>0, <2>1, <2>3, <2>4, <2>5, PushStep
<1>2. CASE Rebase
  <2>1. Push(Raw(Tip, head.tree.upstream))  BY <1>2 DEF Rebase
  <2>2. UNCHANGED <<open, Main, Merge, Bounds>>  BY <1>2 DEF Rebase
  <2>3. open' \in BOOLEAN /\ humans' \in Nat /\ faults' \in Nat
    BY <1>0, <2>2 DEF TypeOK, Bounds
  <2>4. /\ Raw(Tip, head.tree.upstream) \in Heads
        /\ Raw(Tip, head.tree.upstream).base = Tip
    BY <1>0, RawTyped
  <2> QED BY <1>0, <2>1, <2>2, <2>3, <2>4, PushStep
<1>3. CASE Supersede
  <2>1. PICK v \in Releases : Push(Raw(Tip, v))  BY <1>3 DEF Supersede
  <2>2. v \in Rules!Version  BY UpstreamAssumption DEF UpstreamAssumption
  <2>3. UNCHANGED <<open, Main, Merge, Bounds>>  BY <1>3 DEF Supersede
  <2>4. open' \in BOOLEAN /\ humans' \in Nat /\ faults' \in Nat
    BY <1>0, <2>3 DEF TypeOK, Bounds
  <2>5. Raw(Tip, v) \in Heads /\ Raw(Tip, v).base = Tip  BY <1>0, <2>2, RawTyped
  <2> QED BY <1>0, <2>1, <2>3, <2>4, <2>5, PushStep
<1>4. CASE AutoClose
  <2>1. UNCHANGED <<head, base, Main, CI, BumpJobs, Merge, Bounds>> /\ open' = FALSE
    BY <1>4 DEF AutoClose
  <2>2. UNCHANGED <<ci, passed, bump, waiting, events, job, pc, humans, faults>>
    BY <2>1 DEF CI, BumpJobs, Merge, Bounds
  <2>3. TypeOK'  BY <2>1, <2>2, MainStays DEF IInv, TypeOK
  <2>4. HeadPlaced'  BY <2>1, MainStays DEF IInv, HeadPlaced
  <2>5. RunsPlaced'  BY <2>1, <2>2, MainStays DEF IInv, RunsPlaced, RunPlaced
  <2>6. JobVerified'  BY <2>1, <2>2, MainStays, JobStays
  <2> QED BY <2>1, <2>3, <2>4, <2>5, <2>6, MainStays DEF IInv
<1> QED BY <1>1, <1>2, <1>3, <1>4 DEF Renovate

(* So does a maintainer's commit on the branch.                            *)
LEMMA HumanPushStep == IInv /\ HumanPush => IInv'
<1> SUFFICES ASSUME IInv, HumanPush PROVE IInv'
  OBVIOUS
<1>1. TypeOK /\ head \in Heads /\ head.base \in 1 .. Tip
  BY DEF IInv, TypeOK, HeadPlaced, Tip
<1>2. PICK v \in Releases, r \in OwnReleases, s \in BOOLEAN :
        Push([base |-> head.base, tree |-> [release |-> r, upstream |-> v, pins |-> v],
              scoped |-> head.scoped /\ s, human |-> TRUE])
  BY DEF HumanPush
<1> DEFINE h == [base |-> head.base,
                 tree |-> [release |-> r, upstream |-> v, pins |-> v],
                 scoped |-> head.scoped /\ s, human |-> TRUE]
<1>3. [release |-> r, upstream |-> v, pins |-> v] \in Trees
  BY UpstreamAssumption DEF UpstreamAssumption, Trees
<1>4. (head.scoped /\ s) \in BOOLEAN  OBVIOUS
<1>5. h \in Heads /\ h.base \in 1 .. Tip  BY <1>1, <1>3, <1>4 DEF Heads
<1>6. UNCHANGED <<open, faults, Main, Merge>> /\ humans' = humans + 1
  BY DEF HumanPush
<1>7. open' \in BOOLEAN /\ humans' \in Nat /\ faults' \in Nat
  BY <1>1, <1>6 DEF TypeOK
<1> QED BY <1>2, <1>5, <1>6, <1>7, PushStep

(* So does GitHub reporting a newer base.                                  *)
LEMMA RefreshBaseStep == IInv /\ RefreshBase => IInv'
<1> SUFFICES ASSUME IInv, RefreshBase PROVE IInv'
  OBVIOUS
<1>1. /\ UNCHANGED <<open, head, Main, ci, passed, bump, waiting, events, job, pc,
                     humans, faults>>
      /\ base' = Tip
  BY DEF RefreshBase, CI, BumpJobs, Merge, Bounds
<1>2. TypeOK'  BY <1>1, MainStays DEF IInv, TypeOK, Tip
<1>3. HeadPlaced'  BY <1>1, MainStays DEF IInv, TypeOK, HeadPlaced, Tip
<1>4. RunsPlaced'  BY <1>1, MainStays DEF IInv, RunsPlaced, RunPlaced
<1>5. JobVerified'  BY <1>1, MainStays, JobStays
<1> QED BY <1>1, <1>2, <1>3, <1>4, <1>5, MainStays DEF IInv

(* So does the job of bump.yml.                                            *)
LEMMA BumpStep == IInv /\ Bump => IInv'
<1> SUFFICES ASSUME IInv, Bump PROVE IInv'
  OBVIOUS
<1>1. CASE BumpCommit
  <2>1. /\ bump # NoRun /\ bump \in Runs /\ RunPlaced(bump)
        /\ Scoped(bump.base, bump.head)
    BY <1>1 DEF BumpCommit, IInv, TypeOK, RunsPlaced
  <2> DEFINE h == Completed(bump)
  <2>2. h \in Heads /\ h.base \in 1 .. Tip
    BY <2>1, CompletedTyped DEF RunPlaced, IInv, TypeOK, Tip
  <2>3. PushHead(h)  BY <1>1 DEF BumpCommit
  <2>4. /\ UNCHANGED <<open, Main, events, job, pc, humans, faults>>
        /\ head' = h
        /\ bump' = [base |-> Tip, head |-> h] /\ waiting' = NoRun
    BY <1>1, <2>3 DEF BumpCommit, PushHead, Merge, Bounds
  <2>5. /\ head' \in Heads /\ base' \in Nat
        /\ ci' \in SUBSET Runs /\ passed' = passed
        /\ head'.base \in 1 .. base' /\ base' \in 1 .. Tip
        /\ \A r \in ci' : RunPlaced(r)
        /\ bump' \in Runs /\ RunPlaced(bump')
    BY <2>2, <2>3, <2>4, PushHeadKeeps
  <2>6. TypeOK'  BY <2>4, <2>5, MainStays DEF IInv, TypeOK
  <2>7. HeadPlaced'  BY <2>4, <2>5, MainStays DEF HeadPlaced
  <2>8. \A r \in events \cup {passed, job} : RunPlaced(r)  BY DEF IInv, RunsPlaced
  <2>9. RunsPlaced'  BY <2>4, <2>5, <2>8, MainStays DEF RunsPlaced, RunPlaced
  <2>10. JobVerified'  BY <2>4, MainStays, JobStays
  <2> QED BY <2>4, <2>6, <2>7, <2>9, <2>10, MainStays DEF IInv
<1>2. CASE BumpEnds
  <2>1. /\ UNCHANGED <<Main, open, head, base, ci, passed, events, job, pc, humans,
                       faults>>
        /\ bump' = waiting /\ waiting' = NoRun
    BY <1>2 DEF BumpEnds, NextBump, Branch, CI, Merge, Bounds
  <2>2. TypeOK'  BY <2>1, MainStays DEF IInv, TypeOK
  <2>3. HeadPlaced'  BY <2>1, MainStays DEF IInv, HeadPlaced
  <2>4. RunsPlaced'  BY <2>1, MainStays DEF IInv, RunsPlaced, RunPlaced
  <2>5. JobVerified'  BY <2>1, MainStays, JobStays
  <2> QED BY <2>1, <2>2, <2>3, <2>4, <2>5, MainStays DEF IInv
<1> QED BY <1>1, <1>2 DEF Bump

(* So does CI.                                                             *)
LEMMA TestStep == IInv /\ Test => IInv'
<1> SUFFICES ASSUME IInv, Test PROVE IInv'
  OBVIOUS
<1>1. PICK r \in ci : CIPass(r) \/ CIFail(r)  BY DEF Test
<1>2. r \in Runs /\ RunPlaced(r)  BY <1>1 DEF IInv, TypeOK, RunsPlaced
<1>3. /\ UNCHANGED <<Main, open, head, base, bump, waiting, job, pc, humans, faults>>
      /\ ci' = ci \ {r}
      /\ passed' \in {passed, r}
      /\ events' \in {events, events \cup {r}}
  BY <1>1 DEF CIPass, CIFail, Branch, BumpJobs, Merge, Bounds
<1>4. TypeOK'  BY <1>2, <1>3, MainStays DEF IInv, TypeOK
<1>5. HeadPlaced'  BY <1>3, MainStays DEF IInv, HeadPlaced
<1>6. RunsPlaced'  BY <1>2, <1>3, MainStays DEF IInv, RunsPlaced, RunPlaced
<1>7. JobVerified'  BY <1>3, MainStays, JobStays
<1> QED BY <1>3, <1>4, <1>5, <1>6, <1>7, MainStays DEF IInv

(* A reading step of the merge job: it goes on with a run or leaves.       *)
LEMMA MergeReads ==
    ASSUME IInv, UNCHANGED <<Main, Branch, CI, BumpJobs, Bounds>>,
           events' \in SUBSET events,
           \/ Leave
           \/ /\ pc' \in {"verify", "reload", "put"}
              /\ job' \in (events \cup {job}) \ {NoRun}
              /\ pc' # "verify" => job' = job /\ Eligible(job.base, job.head)
    PROVE  IInv'
<1>1. UNCHANGED <<open, head, base, ci, passed, bump, waiting, humans, faults>>
  BY DEF Branch, CI, BumpJobs, Bounds
<1>2. /\ job' \in Runs \cup {NoRun}
      /\ pc' \in {"idle", "verify", "reload", "put"}
      /\ RunPlaced(job')
  BY DEF IInv, TypeOK, RunsPlaced, RunPlaced, Leave
<1>3. TypeOK'  BY <1>1, <1>2, MainStays DEF IInv, TypeOK
<1>4. HeadPlaced'  BY <1>1, MainStays DEF IInv, HeadPlaced
<1>5. RunsPlaced'  BY <1>1, <1>2, MainStays DEF IInv, RunsPlaced, RunPlaced
<1>6. JobVerified'
  <2>1. CASE Leave  BY <2>1 DEF Leave, JobVerified
  <2>2. CASE pc' = "verify" /\ job' # NoRun  BY <2>2 DEF JobVerified
  <2>3. CASE /\ pc' \in {"reload", "put"} /\ job' = job /\ job # NoRun
             /\ Eligible(job.base, job.head)
    <3>1. job.base \in 1 .. Tip  BY <2>3 DEF IInv, RunsPlaced, RunPlaced
    <3>2. Eligible(job.base, job.head)'  BY <2>3, <3>1, EligibleStable, MainStays
    <3> QED BY <2>3, <3>2 DEF JobVerified
  <2> QED BY <2>1, <2>2, <2>3
<1> QED BY <1>3, <1>4, <1>5, <1>6, MainStays DEF IInv

(* So do the reading steps of the merge job, Verify among them.            *)
LEMMA MergeReadStep ==
    IInv /\ ((\E r \in events : Inspect(r)) \/ Verify \/ Reload) => IInv'
<1> SUFFICES ASSUME IInv, (\E r \in events : Inspect(r)) \/ Verify \/ Reload
             PROVE  IInv'
  OBVIOUS
<1>1. CASE \E r \in events : Inspect(r)
  <2>1. PICK r \in events : Inspect(r)  BY <1>1
  <2>2. r # NoRun  BY UpstreamAssumption DEF UpstreamAssumption, IInv, TypeOK
  <2> QED BY <2>1, <2>2, MergeReads DEF Inspect
<1>2. CASE Verify
  <2>1. job # NoRun  BY <1>2 DEF Verify, IInv, JobVerified
  <2> QED BY <1>2, <2>1, MergeReads DEF Verify
<1>3. CASE Reload
  <2>1. job # NoRun /\ Eligible(job.base, job.head)
    BY <1>3 DEF Reload, IInv, JobVerified
  <2> QED BY <1>3, <2>1, MergeReads DEF Reload
<1> QED BY <1>1, <1>2, <1>3

(* A commit more: what was placed stays placed.                            *)
LEMMA MainGrows ==
    ASSUME IInv, Grows
    PROVE  /\ Tip' = Tip + 1 /\ MainConsistent'
           /\ main' \in Seq(Trees) /\ Tip' > 0
           /\ \A i \in 1 .. Tip : main'[i] = main[i]
           /\ \A i \in 1 .. Tip : i \in 1 .. Tip'
<1>1. PICK t \in Trees : t.pins = t.upstream /\ main' = Append(main, t)
  BY DEF Grows
<1>2. main \in Seq(Trees) /\ Tip \in Nat  BY DEF IInv, TypeOK, Tip
<1>3. main' \in Seq(Trees) /\ Tip' = Tip + 1  BY <1>1, <1>2 DEF Tip
<1>4. \A i \in 1 .. Tip : main'[i] = main[i]  BY <1>1, <1>2 DEF Tip
<1>5. main'[Tip + 1] = t  BY <1>1, <1>2 DEF Tip
<1>6. MainConsistent'
  <2> SUFFICES ASSUME NEW i \in 1 .. Tip + 1
               PROVE  main'[i].pins = main'[i].upstream
    BY <1>3 DEF MainConsistent
  <2>1. CASE i = Tip + 1  BY <2>1, <1>1, <1>5
  <2>2. CASE i \in 1 .. Tip  BY <2>2, <1>4 DEF IInv, MainConsistent
  <2> QED BY <1>2, <2>1, <2>2
<1> QED BY <1>2, <1>3, <1>4, <1>6

(* So does the merge call.                                                 *)
LEMMA PutStep == IInv /\ Put => IInv'
<1> SUFFICES ASSUME IInv, Put PROVE IInv'
  OBVIOUS
<1>1. /\ UNCHANGED <<head, base, events, ci, passed, bump, waiting, humans, faults>>
      /\ job' = NoRun /\ pc' = "idle"
  BY DEF Put, Leave, CI, BumpJobs, Bounds
<1>2. open' \in BOOLEAN  BY DEF Put, IInv, TypeOK
<1>3. JobVerified'  BY <1>1 DEF JobVerified
<1>4. CASE UNCHANGED Main
  <2>1. TypeOK'  BY <1>1, <1>2, <1>4, MainStays DEF IInv, TypeOK
  <2>2. HeadPlaced'  BY <1>1, <1>4, MainStays DEF IInv, HeadPlaced
  <2>3. RunsPlaced'  BY <1>1, <1>4, MainStays DEF IInv, RunsPlaced, RunPlaced
  <2> QED BY <1>3, <1>4, <2>1, <2>2, <2>3, MainStays DEF IInv
<1>5. CASE ~UNCHANGED Main
  <2>1. merged' = "auto" /\ Mergeable(job.head) /\ pc = "put"
        /\ main' = Append(main, job.head.tree)
    BY <1>5 DEF Put
  <2>2. Grows  BY <2>1, PutCommit DEF Grows
  <2>3. TypeOK'  BY <1>1, <1>2, <2>1, <2>2, MainGrows DEF IInv, TypeOK
  <2>4. HeadPlaced'  BY <1>1, <2>2, MainGrows DEF IInv, HeadPlaced
  <2>5. RunsPlaced'  BY <1>1, <2>2, MainGrows DEF IInv, RunsPlaced, RunPlaced
  <2> QED BY <1>3, <2>2, <2>3, <2>4, <2>5, MainGrows DEF IInv
<1> QED BY <1>4, <1>5

(* So does a merge of anything else.                                       *)
LEMMA ReviewedMergeStep == IInv /\ ReviewedMerge => IInv'
<1> SUFFICES ASSUME IInv, ReviewedMerge PROVE IInv'
  OBVIOUS
<1>1. /\ UNCHANGED <<open, head, base, ci, passed, bump, waiting, events, job, pc,
                     humans, faults>>
      /\ merged' = "reviewed"
  BY DEF ReviewedMerge, Branch, CI, BumpJobs, Merge, Bounds
<1>2. Grows  BY ReviewedGrows
<1>3. TypeOK'  BY <1>1, <1>2, MainGrows DEF IInv, TypeOK
<1>4. HeadPlaced'  BY <1>1, <1>2, MainGrows DEF IInv, HeadPlaced
<1>5. RunsPlaced'  BY <1>1, <1>2, MainGrows DEF IInv, RunsPlaced, RunPlaced
<1>6. JobVerified'  BY <1>1, <1>2, MainGrows, JobStays
<1> QED BY <1>2, <1>3, <1>4, <1>5, <1>6, MainGrows DEF IInv

(* So do faults.                                                           *)
LEMMA FaultStep == IInv /\ Fault => IInv'
<1> SUFFICES ASSUME IInv, Fault PROVE IInv'
  OBVIOUS
<1>1. /\ UNCHANGED <<head, base, passed, humans, Main>>
      /\ faults' = faults + 1
      /\ open' \in {open, FALSE}
      /\ ci' \in SUBSET ci
      /\ events' \in {events, events \cup ({passed} \ {NoRun})}
      /\ \/ UNCHANGED <<bump, waiting>>
         \/ bump' = waiting /\ waiting' = NoRun
      /\ \/ UNCHANGED <<job, pc>>
         \/ job' = NoRun /\ pc' = "idle"
  BY DEF Fault, Leave, NextBump, BumpJobs, Merge
<1>2. TypeOK'
  <2>1. /\ TypeOK
        /\ main' \in Seq(Trees) /\ Tip' > 0
        /\ merged' \in {"none", "auto", "reviewed"}
    BY <1>1, MainStays DEF IInv
  <2>2. head' \in Heads /\ base' \in Nat /\ passed' \in Runs \cup {NoRun}
    BY <1>1, <2>1 DEF TypeOK
  <2>3. open' \in BOOLEAN /\ ci' \in SUBSET Runs  BY <1>1, <2>1 DEF TypeOK
  <2>4. events' \in SUBSET Runs  BY <1>1, <2>1 DEF TypeOK
  <2>5. bump' \in Runs \cup {NoRun} /\ waiting' \in Runs \cup {NoRun}
    BY <1>1, <2>1 DEF TypeOK
  <2>6. job' \in Runs \cup {NoRun} /\ pc' \in {"idle", "verify", "reload", "put"}
    BY <1>1, <2>1 DEF TypeOK
  <2>7. humans' \in Nat /\ faults' \in Nat  BY <1>1, <2>1 DEF TypeOK
  <2> QED BY <2>1, <2>2, <2>3, <2>4, <2>5, <2>6, <2>7 DEF TypeOK
<1>3. HeadPlaced'  BY <1>1, MainStays DEF IInv, HeadPlaced
<1>4. RunsPlaced'  BY <1>1, MainStays DEF IInv, RunsPlaced, RunPlaced
<1>5. JobVerified'
  <2>1. CASE UNCHANGED <<job, pc>>  BY <2>1, <1>1, MainStays, JobStays
  <2>2. CASE job' = NoRun /\ pc' = "idle"  BY <2>2 DEF JobVerified
  <2> QED BY <1>1, <2>1, <2>2
<1> QED BY <1>1, <1>2, <1>3, <1>4, <1>5, MainStays DEF IInv

(* So does doing nothing.                                                  *)
LEMMA StutterStep == IInv /\ UNCHANGED vars => IInv'
<1> SUFFICES ASSUME IInv, UNCHANGED vars PROVE IInv'
  OBVIOUS
<1>1. UNCHANGED <<Main, main, merged, open, head, base, ci, passed, events, bump,
                  waiting, job, pc, humans, faults>>
  BY DEF vars, Main
<1>2. TypeOK'  BY <1>1, MainStays DEF IInv, TypeOK
<1>3. HeadPlaced'  BY <1>1, MainStays DEF IInv, HeadPlaced
<1>4. RunsPlaced'  BY <1>1, MainStays DEF IInv, RunsPlaced, RunPlaced
<1>5. JobVerified'  BY <1>1, MainStays, JobStays
<1> QED BY <1>1, <1>2, <1>3, <1>4, <1>5, MainStays DEF IInv

(* The invariant holds of the first commit of main.                        *)
LEMMA InitInvariant == Init => IInv
<1> SUFFICES ASSUME Init PROVE IInv
  OBVIOUS
<1>1. FirstTree \in Trees /\ FirstTree.pins = FirstTree.upstream
  BY UpstreamAssumption DEF UpstreamAssumption
<1>2. main \in Seq(Trees) /\ Tip = 1 /\ main[1] = FirstTree
  BY <1>1 DEF Init, Tip
<1>3. TypeOK
  <2>1. head \in Heads  BY <1>1 DEF Init, Heads
  <2>2. main \in Seq(Trees) /\ Tip > 0  BY <1>2
  <2>3. /\ merged = "none" /\ open = FALSE /\ base = 1 /\ ci = {} /\ events = {}
        /\ passed = NoRun /\ bump = NoRun /\ waiting = NoRun /\ job = NoRun
        /\ pc = "idle" /\ humans = 0 /\ faults = 0
    BY DEF Init
  <2> QED BY <2>1, <2>2, <2>3 DEF TypeOK
<1>4. MainConsistent  BY <1>1, <1>2 DEF MainConsistent
<1>5. HeadPlaced /\ RunsPlaced /\ JobVerified
  BY <1>2 DEF Init, HeadPlaced, RunsPlaced, RunPlaced, JobVerified
<1> QED BY <1>3, <1>4, <1>5 DEF IInv

(* Every step preserves it.                                                *)
LEMMA NextInvariant == IInv /\ [Next]_vars => IInv'
BY RenovateStep, HumanPushStep, RefreshBaseStep, BumpStep, TestStep, MergeReadStep,
   PutStep, ReviewedMergeStep, FaultStep, StutterStep DEF Next, MergeJob

(* Every reachable state satisfies the inductive invariant.                *)
THEOREM Invariant == Spec => []IInv
BY InitInvariant, NextInvariant, PTL DEF Spec

(***************************************************************************)
(* Theorems                                                                *)
(***************************************************************************)

(* Every variable keeps its type.                                          *)
THEOREM TypeCorrect == Spec => []TypeOK
<1>1. IInv => TypeOK  BY DEF IInv
<1> QED BY <1>1, Invariant, PTL

(* Every commit of main pins the assets of its own upstream version.       *)
THEOREM MainIsConsistent == Spec => []MainConsistent
<1>1. IInv => MainConsistent  BY DEF IInv
<1> QED BY <1>1, Invariant, PTL

(* Whatever overtakes what, an automatic merge adds exactly what the        *)
(* scripts generate on the tip of main, tested and not major.              *)
THEOREM OnlyVerifiedMerges == Spec => AutoMergeVerified
<1> DEFINE Verified ==
      merged' = "auto" /\ main' # main =>
        LET new == main'[Len(main')] IN
        /\ Updatable(Newest, new.upstream)
        /\ new = Canonical(Newest, new.upstream)
        /\ new.upstream.major = Newest.upstream.major
        /\ head.tree = new /\ Tested(head)
<1>1. IInv /\ [Next]_vars => [Verified]_vars
  <2> SUFFICES ASSUME IInv, Next, merged' = "auto", main' # main
               PROVE  Verified
    OBVIOUS
  <2>1. Put  BY OthersKeepMain DEF ReviewedMerge, Main
  <2>2. /\ pc = "put" /\ Mergeable(job.head)
        /\ main' = Append(main, job.head.tree)
    BY <2>1 DEF Put, Main
  <2>3. main'[Len(main')] = job.head.tree
    BY <2>2, PutCommit DEF IInv, TypeOK
  <2>4. head = job.head /\ Tested(head)  BY <2>2 DEF Mergeable
  <2>5. job.head.tree.upstream.major = Newest.upstream.major
    BY <2>2, PutCommit DEF Rules!AutoMergeUpstreamUpdate
  <2> QED BY <2>2, <2>3, <2>4, <2>5, PutCommit
<1> QED BY <1>1, Invariant, PTL DEF Spec, AutoMergeVerified

(* Nothing the jobs or Renovate do takes a maintainer's commit off the      *)
(* branch.                                                                 *)
THEOREM HumanCommitsStay == Spec => HumanKept
<1> DEFINE Kept == open /\ open' /\ head.human => head'.human
<1>1. IInv /\ [Next]_vars => [Kept]_vars
  <2> SUFFICES ASSUME IInv, Next, open, open', head.human PROVE head'.human
    OBVIOUS
  <2>1. CASE Renovate
    BY <2>1 DEF Renovate, Open, Rebase, Supersede, AutoClose
  <2>2. CASE BumpCommit
    <3>1. bump \in Runs /\ bump # NoRun /\ RunPlaced(bump) /\ head = bump.head
          /\ Scoped(bump.base, bump.head)
      BY <2>2 DEF BumpCommit, IInv, TypeOK, RunsPlaced
    <3>2. head' = Completed(bump)  BY <2>2 DEF BumpCommit, PushHead
    <3> QED BY <3>1, <3>2, CompletedTyped DEF IInv
  <2>3. CASE BumpEnds  BY <2>3 DEF BumpEnds, Branch
  <2>4. CASE Test  BY <2>4 DEF Test, CIPass, CIFail, Branch
  <2>5. CASE MergeJob  BY <2>5 DEF MergeJob, Inspect, Verify, Reload, Put, Branch
  <2>6. CASE HumanPush  BY <2>6 DEF HumanPush, Push, PushHead
  <2>7. CASE RefreshBase \/ ReviewedMerge \/ Fault
    BY <2>7 DEF RefreshBase, ReviewedMerge, Fault, Branch
  <2> QED BY <2>1, <2>2, <2>3, <2>4, <2>5, <2>6, <2>7 DEF Next, Bump
<1> QED BY <1>1, Invariant, PTL DEF Spec, HumanKept

(* The newest commit after main has grown.                                 *)
LEMMA NewestAppended ==
    ASSUME IInv, NEW t \in Trees, main' = Append(main, t)
    PROVE  Newest' = t /\ Newest \in Trees
<1>1. main \in Seq(Trees) /\ Tip \in Nat /\ Tip > 0  BY DEF IInv, TypeOK, Tip
<1>2. Tip' = Tip + 1 /\ main'[Tip + 1] = t  BY <1>1 DEF Tip
<1> QED BY <1>1, <1>2 DEF Newest, Tip

(* An automatic merge is an upstream update of ReleaseVersion.             *)
LEMMA PutFollows ==
    ASSUME IInv, Put, ~UNCHANGED Main
    PROVE  Rules!UpstreamUpdate(job.head.tree.upstream)
<1> DEFINE t == job.head.tree
           v == job.head.tree.upstream
<1>1. /\ pc = "put" /\ Mergeable(job.head) /\ merged' = "auto"
      /\ main' = Append(main, t)
  BY DEF Put
<1>2. /\ Updatable(Newest, v) /\ t = Canonical(Newest, v) /\ t \in Trees
      /\ Rules!AutoMergeUpstreamUpdate(Newest.upstream, v)
  BY <1>1, PutCommit
<1>3. Newest' = t  BY <1>1, <1>2, NewestAppended
<1>4. Newest'.release = Rules!BumpReleaseVersion(Newest.release, Newest.upstream, v)
  BY <1>2, <1>3 DEF Canonical
<1>5. Newest'.upstream = v  BY <1>3
<1>6. Rules!Newer(v, Newest.upstream)
      /\ Rules!CanBump(Newest.release, Newest.upstream, v)
  BY <1>2 DEF Updatable
<1>7. Rules!ValidateReleaseTransition(Newest.release, Newest'.release,
                                      Newest.upstream, v)
  BY <1>4, <1>6 DEF Rules!ValidateReleaseTransition
<1> QED BY <1>1, <1>2, <1>4, <1>5, <1>6, <1>7 DEF Rules!UpstreamUpdate

(* Any other merge is one of its reviewed changes.                         *)
LEMMA ReviewedFollows ==
    ASSUME IInv, ReviewedMerge
    PROVE  \E r, u \in Rules!Version : Rules!ReviewedChange(r, u)
<1>1. PICK r \in OwnReleases \cup {Newest.release},
           u, p \in Releases \cup {Newest.upstream} :
        /\ TestsPass(Newest, [release |-> r, upstream |-> u, pins |-> p])
        /\ main' = Append(main, [release |-> r, upstream |-> u, pins |-> p])
  BY DEF ReviewedMerge
<1> DEFINE t == [release |-> r, upstream |-> u, pins |-> p]
<1>2. Newest \in Trees  BY DEF IInv, TypeOK, Newest, Tip
<1>3. t \in Trees /\ r \in Rules!Version /\ u \in Rules!Version
  BY <1>1, <1>2, UpstreamAssumption DEF UpstreamAssumption, Trees
<1>4. Newest' = t  BY <1>1, <1>3, NewestAppended
<1>5. Newest'.release = r /\ Newest'.upstream = u  BY <1>4
<1>6. Rules!ValidateReleaseTransition(Newest.release, r, Newest.upstream, u)
  BY <1>1 DEF TestsPass
<1>7. merged' = "reviewed"  BY DEF ReviewedMerge
<1>8. Rules!ReviewedChange(r, u)  BY <1>5, <1>6, <1>7 DEF Rules!ReviewedChange
<1> QED BY <1>3, <1>8

(* The steps of main, automatic and reviewed ones, are steps of the version *)
(* rules: what ReleaseVersion_proofs shows of a history holds of this one.  *)
THEOREM FollowsReleaseRules == Spec => ReleaseRules
<1>1. Init => Rules!Init
  <2> SUFFICES ASSUME Init PROVE Rules!Init
    OBVIOUS
  <2>1. Newest = FirstTree /\ merged = "none"  BY DEF Init, Newest, Tip
  <2> QED BY <2>1 DEF Rules!Init
<1>2. IInv /\ [Next]_vars => [Rules!Next]_(Rules!vars)
  <2> SUFFICES ASSUME IInv, [Next]_vars PROVE Rules!Next \/ UNCHANGED Rules!vars
    OBVIOUS
  <2>1. CASE UNCHANGED Main
    BY <2>1 DEF Main, Rules!vars, Newest, Tip
  <2>2. CASE Put /\ ~UNCHANGED Main
    <3>1. job.head.tree \in Trees
      BY <2>2, PutCommit DEF Put
    <3> QED BY <2>2, <3>1, PutFollows DEF Rules!Next, Trees
  <2>3. CASE ReviewedMerge  BY <2>3, ReviewedFollows DEF Rules!Next
  <2> QED BY <2>1, <2>2, <2>3, OthersKeepMain DEF vars, Main
<1> QED BY <1>1, <1>2, Invariant, PTL DEF Spec, ReleaseRules, Rules!Spec

(***************************************************************************)
(* The order of main                                                       *)
(***************************************************************************)

(* compareVersions tells versions apart and is transitive.                 *)
LEMMA CompareOrder ==
    ASSUME NEW u \in Rules!Version, NEW v \in Rules!Version, NEW w \in Rules!Version
    PROVE  /\ Rules!CompareVersions(v, v) = 0
           /\ Rules!CompareVersions(v, u) = 0 => v = u
           /\ Rules!CompareVersions(v, u) >= 0 /\ Rules!CompareVersions(w, v) >= 0 =>
                /\ Rules!CompareVersions(w, u) >= 0
                /\ w = u => v = u
BY UpstreamAssumption
   DEF UpstreamAssumption, Rules!Version, Rules!Component, Rules!CompareVersions

(* A bumped release version is newer.                                      *)
LEMMA BumpedIsNewer ==
    ASSUME NEW r \in Rules!Version, NEW c \in Rules!Version, NEW n \in Rules!Version,
           Rules!CanBump(r, c, n)
    PROVE  /\ Rules!CompareVersions(Rules!BumpReleaseVersion(r, c, n), r) >= 0
           /\ Rules!BumpReleaseVersion(r, c, n) # r
<1> DEFINE b == Rules!BumpReleaseVersion(r, c, n)
<1> USE UpstreamAssumption DEF UpstreamAssumption, Rules!Version, Rules!Component
<1>1. CASE n.major # c.major
  <2>1. b.major = r.major + 1  BY <1>1 DEF Rules!BumpReleaseVersion
  <2> HIDE DEF b
  <2> QED BY <2>1 DEF b, Rules!CompareVersions
<1>2. CASE n.major = c.major /\ n.minor # c.minor
  <2>1. b.major = r.major /\ b.minor = r.minor + 1
    BY <1>2 DEF Rules!BumpReleaseVersion
  <2> HIDE DEF b
  <2> QED BY <2>1 DEF b, Rules!CompareVersions
<1>3. CASE n.major = c.major /\ n.minor = c.minor
  <2>1. b.major = r.major /\ b.minor = r.minor /\ b.patch = r.patch + 1
    BY <1>3 DEF Rules!BumpReleaseVersion
  <2> HIDE DEF b
  <2> QED BY <2>1 DEF b, Rules!CompareVersions
<1> QED BY <1>1, <1>2, <1>3

(* What CI's validation of one step says of the order.                     *)
LEMMA ValidatedOrder ==
    ASSUME NEW t \in Trees, NEW n \in Trees,
           Rules!ValidateReleaseTransition(t.release, n.release, t.upstream, n.upstream)
    PROVE  /\ Rules!CompareVersions(n.release, t.release) >= 0
           /\ Rules!CompareVersions(n.upstream, t.upstream) >= 0
           /\ n.release = t.release => n.upstream = t.upstream
<1>1. /\ t.release \in Rules!Version /\ n.release \in Rules!Version
      /\ t.upstream \in Rules!Version /\ n.upstream \in Rules!Version
  BY DEF Trees
<1>2. CASE /\ Rules!CompareVersions(n.upstream, t.upstream) = 0
           /\ Rules!CompareVersions(n.release, t.release) >= 0
  BY <1>1, <1>2, CompareOrder
<1>3. CASE /\ Rules!Newer(n.upstream, t.upstream)
           /\ Rules!CanBump(t.release, t.upstream, n.upstream)
           /\ n.release = Rules!BumpReleaseVersion(t.release, t.upstream, n.upstream)
  <2>1. Rules!CompareVersions(n.upstream, t.upstream) >= 0
    BY <1>3 DEF Rules!Newer, Rules!CompareVersions
  <2> QED BY <1>1, <1>3, <2>1, BumpedIsNewer
<1> QED BY <1>2, <1>3 DEF Rules!ValidateReleaseTransition

(* A validated commit on top of an ordered history keeps it ordered.       *)
LEMMA OrderedAppend ==
    ASSUME IInv, MainOrdered, NEW t \in Trees, main' = Append(main, t),
           Rules!ValidateReleaseTransition(Newest.release, t.release,
                                           Newest.upstream, t.upstream)
    PROVE  MainOrdered'
<1>1. main \in Seq(Trees) /\ Tip \in Nat /\ Tip > 0 /\ Newest \in Trees
  BY DEF IInv, TypeOK, Tip, Newest
<1>2. Tip' = Tip + 1 /\ main'[Tip'] = t /\ \A i \in 1 .. Tip : main'[i] = main[i]
  BY <1>1 DEF Tip
<1>3. /\ Rules!CompareVersions(t.release, Newest.release) >= 0
      /\ Rules!CompareVersions(t.upstream, Newest.upstream) >= 0
      /\ t.release = Newest.release => t.upstream = Newest.upstream
  BY <1>1, ValidatedOrder
<1> SUFFICES ASSUME NEW i \in 1 .. Tip', NEW j \in i .. Tip'
             PROVE  /\ Rules!CompareVersions(main'[j].release, main'[i].release) >= 0
                    /\ Rules!CompareVersions(main'[j].upstream, main'[i].upstream) >= 0
                    /\ main'[j].release = main'[i].release =>
                         main'[j].upstream = main'[i].upstream
  BY DEF MainOrdered
<1>4. CASE j \in 1 .. Tip
  <2>1. i \in 1 .. Tip /\ j \in i .. Tip  BY <1>1, <1>4
  <2>2. main'[i] = main[i] /\ main'[j] = main[j]  BY <1>2, <1>4, <2>1
  <2>3. /\ Rules!CompareVersions(main[j].release, main[i].release) >= 0
        /\ Rules!CompareVersions(main[j].upstream, main[i].upstream) >= 0
        /\ main[j].release = main[i].release =>
             main[j].upstream = main[i].upstream
    BY <2>1 DEF MainOrdered
  <2> QED BY <2>2, <2>3
<1>5. CASE i \in 1 .. Tip /\ j = Tip'
  <2>1. /\ Rules!CompareVersions(Newest.release, main[i].release) >= 0
        /\ Rules!CompareVersions(Newest.upstream, main[i].upstream) >= 0
        /\ Newest.release = main[i].release => Newest.upstream = main[i].upstream
    BY <1>1, <1>5 DEF MainOrdered, Newest
  <2>2. main[i] \in Trees  BY <1>1, <1>5 DEF Tip
  <2>3. \A x \in {t, Newest, main[i]} :
          x.release \in Rules!Version /\ x.upstream \in Rules!Version
    BY <1>1, <2>2 DEF Trees
  <2>4. /\ Rules!CompareVersions(t.release, main[i].release) >= 0
        /\ t.release = main[i].release => Newest.release = main[i].release
    BY <1>3, <2>1, <2>3, CompareOrder
  <2>5. Rules!CompareVersions(t.upstream, main[i].upstream) >= 0
    BY <1>3, <2>1, <2>3, CompareOrder
  <2> QED BY <1>2, <1>3, <1>5, <2>1, <2>4, <2>5
<1>6. CASE i = Tip' /\ j = Tip'
  <2>1. t.release \in Rules!Version /\ t.upstream \in Rules!Version  BY DEF Trees
  <2>2. /\ Rules!CompareVersions(t.release, t.release) = 0
        /\ Rules!CompareVersions(t.upstream, t.upstream) = 0
    BY <2>1, CompareOrder
  <2>3. main'[i] = t /\ main'[j] = t  BY <1>2, <1>6
  <2> QED BY <2>2, <2>3
<1>7. \/ j \in 1 .. Tip
      \/ i \in 1 .. Tip /\ j = Tip'
      \/ i = Tip' /\ j = Tip'
  BY <1>1, <1>2
<1> QED BY <1>4, <1>5, <1>6, <1>7

(* Any two commits of main, however far apart, are ordered by both of their *)
(* versions: the release jobs of old and new commits can rely on it.       *)
THEOREM MainIsOrdered == Spec => []MainOrdered
<1>1. Init => MainOrdered
  <2> SUFFICES ASSUME Init PROVE MainOrdered
    OBVIOUS
  <2>1. FirstTree.release \in Rules!Version /\ FirstTree.upstream \in Rules!Version
    BY UpstreamAssumption DEF UpstreamAssumption, Trees
  <2>2. Tip = 1 /\ main[1] = FirstTree  BY DEF Init, Tip
  <2> QED BY <2>1, <2>2, CompareOrder DEF MainOrdered
<1>2. IInv /\ MainOrdered /\ [Next]_vars => MainOrdered'
  <2> SUFFICES ASSUME IInv, MainOrdered, [Next]_vars PROVE MainOrdered'
    OBVIOUS
  <2>1. CASE UNCHANGED Main  BY <2>1 DEF Main, MainOrdered, Tip
  <2>2. CASE Put /\ ~UNCHANGED Main
    <3> DEFINE t == job.head.tree
    <3>1. pc = "put" /\ Mergeable(job.head) /\ main' = Append(main, t)
      BY <2>2 DEF Put
    <3>2. Updatable(Newest, t.upstream) /\ t = Canonical(Newest, t.upstream)
          /\ t \in Trees
      BY <3>1, PutCommit
    <3>3. t.release = Rules!BumpReleaseVersion(Newest.release, Newest.upstream,
                                               t.upstream)
      BY <3>2 DEF Canonical
    <3>4. Rules!ValidateReleaseTransition(Newest.release, t.release,
                                          Newest.upstream, t.upstream)
      BY <3>2, <3>3 DEF Updatable, Rules!ValidateReleaseTransition
    <3> QED BY <3>1, <3>2, <3>4, OrderedAppend
  <2>3. CASE ReviewedMerge
    <3>1. PICK r \in OwnReleases \cup {Newest.release},
               u, p \in Releases \cup {Newest.upstream} :
            /\ TestsPass(Newest, [release |-> r, upstream |-> u, pins |-> p])
            /\ main' = Append(main, [release |-> r, upstream |-> u, pins |-> p])
      BY <2>3 DEF ReviewedMerge
    <3> DEFINE t == [release |-> r, upstream |-> u, pins |-> p]
    <3>2. Newest \in Trees  BY DEF IInv, TypeOK, Newest, Tip
    <3>3. t \in Trees  BY <3>2, UpstreamAssumption DEF UpstreamAssumption, Trees
    <3>4. Rules!ValidateReleaseTransition(Newest.release, t.release,
                                          Newest.upstream, t.upstream)
      BY <3>1 DEF TestsPass
    <3> HIDE DEF t
    <3>5. main' = Append(main, t)  BY <3>1 DEF t
    <3> QED BY <3>3, <3>4, <3>5, OrderedAppend
  <2> QED BY <2>1, <2>2, <2>3, OthersKeepMain DEF vars, Main
<1> QED BY <1>1, <1>2, Invariant, PTL DEF Spec

(***************************************************************************)
(* Nothing is lost                                                         *)
(***************************************************************************)

(* What the jobs and the branch know of each other.                        *)
LostInv ==
    /\ bump = NoRun => waiting = NoRun
    /\ waiting # NoRun => waiting.head = head
    /\ ~head.human => head.scoped
    /\ pc = "idle" => job = NoRun
    /\ NothingLost

AInv == IInv /\ LostInv

(* A pull request that is to be merged as it is, on the tip of main.       *)
Due == Automatic /\ head.base = Tip

(* What NothingLost says of one that is due.                               *)
Covered ==
    IF Prepared(Tip, head)
    THEN CurrentRun \in ci \/ (Tested(head) /\ CurrentRun \in events \cup {job})
    ELSE CurrentRun \in {bump, waiting}

(* Whether it is due depends on main, the branch and the faults only.      *)
LEMMA DueStays ==
    ASSUME UNCHANGED <<main, open, head, faults>>
    PROVE  /\ Due' <=> Due
           /\ Prepared(Tip, head)' <=> Prepared(Tip, head)
           /\ CurrentRun' = CurrentRun
BY DEF Due, Automatic, Newest, Tip, CurrentRun, Prepared, Canonical, Updatable,
       Rules!Newer, Rules!CompareVersions, Rules!CanBump, Rules!CanIncrement,
       Rules!BumpReleaseVersion, Rules!AutoMergeUpstreamUpdate

(* A pull request that is due has the tip as its base, and what the scripts *)
(* would not change passes CI and their own verification: what              *)
(* `release-version next' prints, its `validate' accepts.                  *)
LEMMA DueIsGood ==
    ASSUME IInv, LostInv, Due
    PROVE  /\ open /\ base = Tip /\ head.base = Tip
           /\ CurrentRun # NoRun
           /\ Scoped(Tip, head)
           /\ Prepared(Tip, head) =>
                Eligible(Tip, head) /\ TestsPass(main[Tip], head.tree)
<1>1. /\ open /\ head.base = Tip /\ head.scoped
      /\ Updatable(main[Tip], head.tree.upstream)
      /\ Rules!AutoMergeUpstreamUpdate(main[Tip].upstream, head.tree.upstream)
  BY DEF Due, Automatic, Newest, LostInv
<1>2. Tip \in Nat /\ head.base \in 1 .. base /\ base \in 1 .. Tip
  BY DEF IInv, TypeOK, HeadPlaced, Tip
<1>3. base = Tip  BY <1>1, <1>2
<1>4. CurrentRun \in Runs  BY <1>2 DEF CurrentRun, Runs, IInv, TypeOK
<1>5. CurrentRun # NoRun  BY <1>4, UpstreamAssumption DEF UpstreamAssumption
<1>6. Scoped(Tip, head)  BY <1>1, <1>2 DEF Scoped
<1>7. Prepared(Tip, head) => TestsPass(main[Tip], head.tree)
  <2> SUFFICES ASSUME Prepared(Tip, head) PROVE TestsPass(main[Tip], head.tree)
    OBVIOUS
  <2> DEFINE u == head.tree.upstream
  <2>1. head.tree = Canonical(main[Tip], u)  BY DEF Prepared
  <2>2. /\ head.tree.pins = u
        /\ head.tree.release
             = Rules!BumpReleaseVersion(main[Tip].release, main[Tip].upstream, u)
    BY <2>1 DEF Canonical
  <2>3. /\ Rules!Newer(u, main[Tip].upstream)
        /\ Rules!CanBump(main[Tip].release, main[Tip].upstream, u)
    BY <1>1 DEF Updatable
  <2> QED BY <2>2, <2>3 DEF TestsPass, Rules!ValidateReleaseTransition
<1> QED BY <1>1, <1>3, <1>5, <1>6, <1>7 DEF Eligible

(* A run of the current head is the current run.                           *)
LEMMA RunOfHead ==
    ASSUME IInv, head.base = Tip, NEW r \in Runs, RunPlaced(r), r.head = head
    PROVE  r = CurrentRun
<1>1. r # NoRun  BY UpstreamAssumption DEF UpstreamAssumption
<1>2. r.base = Tip  BY <1>1 DEF RunPlaced, IInv, TypeOK, Tip
<1> QED BY <1>2 DEF CurrentRun, Runs

(* A push starts CI and bump.yml for the head it pushes.                   *)
LEMMA LostPush ==
    ASSUME AInv, NEW h \in Heads, ~h.human => h.scoped, Push(h),
           UNCHANGED <<Main, Merge>>
    PROVE  LostInv'
<1>1. /\ head' = h /\ Tip' = Tip /\ UNCHANGED <<job, pc>>
      /\ CurrentRun' = [base |-> Tip, head |-> h]
  BY DEF Push, PushHead, Main, Merge, Tip, CurrentRun
<1>2. CurrentRun' \in ci'  BY <1>1 DEF Push, PushHead
<1>3. [base |-> Tip, head |-> h] # NoRun
  BY UpstreamAssumption DEF UpstreamAssumption, Runs, AInv, IInv, TypeOK, Tip
<1>4. /\ CurrentRun' \in {bump', waiting'}
      /\ bump' = NoRun => waiting' = NoRun
      /\ waiting' # NoRun => waiting'.head = h
  BY <1>1, <1>3 DEF Push, AInv, LostInv
<1> QED BY <1>1, <1>2, <1>4 DEF AInv, LostInv, NothingLost

(* Renovate and maintainers push.                                          *)
LEMMA LostBranch ==
    ASSUME AInv, Renovate \/ HumanPush
    PROVE  LostInv'
<1>0. /\ Tip \in 1 .. Tip /\ TypeOK /\ head \in Heads
      /\ head.tree.upstream \in Rules!Version
  BY DEF AInv, IInv, TypeOK, Tip, Heads, Trees
<1>1. ASSUME NEW v \in Rules!Version, Push(Raw(Tip, v)), UNCHANGED <<Main, Merge>>
      PROVE  LostInv'
  <2>1. Raw(Tip, v) \in Heads  BY <1>0, RawTyped
  <2>2. Raw(Tip, v).scoped  BY DEF Raw
  <2> QED BY <1>1, <2>1, <2>2, LostPush
<1>2. CASE Open \/ Rebase \/ Supersede
  BY <1>0, <1>1, <1>2, UpstreamAssumption
  DEF UpstreamAssumption, Open, Rebase, Supersede
<1>3. CASE AutoClose
  BY <1>3 DEF AutoClose, CI, BumpJobs, Merge, AInv, LostInv, NothingLost, Automatic
<1>4. CASE HumanPush
  <2>1. PICK v \in Releases, r \in OwnReleases, s \in BOOLEAN :
          Push([base |-> head.base,
                tree |-> [release |-> r, upstream |-> v, pins |-> v],
                scoped |-> head.scoped /\ s, human |-> TRUE])
    BY <1>4 DEF HumanPush
  <2> DEFINE h == [base |-> head.base,
                   tree |-> [release |-> r, upstream |-> v, pins |-> v],
                   scoped |-> head.scoped /\ s, human |-> TRUE]
  <2>2. [release |-> r, upstream |-> v, pins |-> v] \in Trees
    BY UpstreamAssumption DEF UpstreamAssumption, Trees
  <2>3. (head.scoped /\ s) \in BOOLEAN  OBVIOUS
  <2>4. h \in Heads /\ h.human  BY <1>0, <2>2, <2>3 DEF Heads
  <2>5. UNCHANGED <<Main, Merge>>  BY <1>4 DEF HumanPush
  <2> QED BY <2>1, <2>4, <2>5, LostPush
<1> QED BY <1>2, <1>3, <1>4 DEF Renovate

(* A job of bump.yml ends with a push, or because a later head waits, or    *)
(* because there is nothing to change.                                     *)
LEMMA LostBump ==
    ASSUME AInv, Bump
    PROVE  LostInv'
<1> USE DEF AInv
<1>1. CASE BumpCommit
  <2>1. /\ bump # NoRun /\ bump \in Runs /\ RunPlaced(bump) /\ head = bump.head
        /\ Scoped(bump.base, bump.head)
    BY <1>1 DEF BumpCommit, IInv, TypeOK, RunsPlaced
  <2> DEFINE h == Completed(bump)
  <2>2. /\ PushHead(h) /\ head' = h /\ waiting' = NoRun
        /\ bump' = [base |-> Tip, head |-> h]
        /\ Tip' = Tip /\ UNCHANGED <<job, pc>>
    BY <1>1 DEF BumpCommit, PushHead, Main, Merge, Tip
  <2>3. h.human = head.human /\ h.scoped = head.scoped /\ h \in Heads
    <3>1. h.scoped = bump.head.scoped  BY <2>1 DEF Completed, Runs, Heads
    <3> QED BY <2>1, <3>1, CompletedTyped DEF IInv
  <2>4. CurrentRun' = [base |-> Tip, head |-> h]  BY <2>2 DEF CurrentRun
  <2>5. CurrentRun' \in ci' /\ CurrentRun' = bump'  BY <2>2, <2>4 DEF PushHead
  <2> QED BY <2>2, <2>3, <2>5 DEF LostInv, NothingLost
<1>2. CASE BumpEnds
  <2>1. /\ UNCHANGED <<main, open, head, base, ci, passed, events, job, pc, faults>>
        /\ bump # NoRun /\ bump' = waiting /\ waiting' = NoRun
        /\ \/ ~open \/ head # bump.head \/ waiting # NoRun
           \/ ~Scoped(bump.base, bump.head)
           \/ Prepared(bump.base, bump.head)
    BY <1>2 DEF BumpEnds, NextBump, Main, Branch, CI, Merge, Bounds
  <2>2. SUFFICES ASSUME Due PROVE Covered'
    BY <2>1, DueStays DEF LostInv, NothingLost, Due, Covered
  <2>3. Covered  BY <2>2 DEF LostInv, NothingLost, Due, Covered
  <2>4. CASE Prepared(Tip, head)
    BY <2>1, <2>3, <2>4, DueStays DEF Covered, Tested
  <2>5. CASE ~Prepared(Tip, head)
    <3>1. CurrentRun \in {bump, waiting} /\ CurrentRun # NoRun
      BY <2>2, <2>3, <2>5, DueIsGood DEF Covered
    <3>2. CurrentRun.base = Tip /\ CurrentRun.head = head  BY DEF CurrentRun
    <3>3. CASE waiting = NoRun
      <4>1. bump = CurrentRun  BY <3>1, <3>3
      <4> QED BY <2>1, <2>2, <2>5, <3>2, <3>3, <4>1, DueIsGood
    <3>4. CASE waiting # NoRun
      <4>1. waiting \in Runs /\ RunPlaced(waiting) /\ waiting.head = head
        BY <3>4 DEF IInv, TypeOK, RunsPlaced, LostInv
      <4>2. waiting = CurrentRun  BY <2>2, <4>1, RunOfHead, DueIsGood
      <4> QED BY <2>1, <2>5, <4>2, DueStays DEF Covered
    <3> QED BY <3>3, <3>4
  <2> QED BY <2>4, <2>5
<1> QED BY <1>1, <1>2 DEF Bump

(* A CI run ends with its event, and the current one does not fail where    *)
(* the scripts would change nothing.                                       *)
LEMMA LostTest ==
    ASSUME AInv, Test
    PROVE  LostInv'
<1> USE DEF AInv
<1>1. PICK r \in ci : CIPass(r) \/ CIFail(r)  BY DEF Test
<1>2. /\ UNCHANGED <<main, open, head, base, bump, waiting, job, pc, faults>>
      /\ ci' = ci \ {r}
      /\ events \subseteq events'
  BY <1>1 DEF CIPass, CIFail, Main, Branch, BumpJobs, Merge, Bounds
<1>3. Tested(head) => Tested(head)'
  <2>1. r # NoRun
    BY UpstreamAssumption DEF UpstreamAssumption, IInv, TypeOK
  <2> QED BY <1>1, <1>2, <2>1 DEF CIPass, CIFail, Tested
<1>4. SUFFICES ASSUME Due PROVE Covered'
  BY <1>2, DueStays DEF LostInv, NothingLost, Due, Covered
<1>5. Covered  BY <1>4 DEF LostInv, NothingLost, Due, Covered
<1>6. CASE Prepared(Tip, head) /\ r = CurrentRun
  <2>1. r.base = Tip /\ r.head = head  BY <1>6 DEF CurrentRun
  <2>2. CIPass(r)
    BY <1>1, <1>4, <1>6, <2>1, DueIsGood DEF CIFail, IInv, TypeOK, Tip
  <2>3. r # NoRun  BY <1>4, <1>6, DueIsGood
  <2>4. Tested(head)' /\ r \in events'
    BY <1>2, <2>1, <2>2, <2>3 DEF CIPass, Tested
  <2> QED BY <1>2, <1>6, <2>4, DueStays DEF Covered
<1>7. CASE Prepared(Tip, head) /\ r # CurrentRun
  BY <1>2, <1>3, <1>5, <1>7, DueStays DEF Covered
<1>8. CASE ~Prepared(Tip, head)
  BY <1>2, <1>5, <1>8, DueStays DEF Covered
<1> QED BY <1>6, <1>7, <1>8

(* The merge job of a pull request that is due does not give it up.        *)
LEMMA LostMerge ==
    ASSUME AInv, (\E r \in events : Inspect(r)) \/ Verify \/ Reload
    PROVE  LostInv'
<1> USE DEF AInv
<1>1. UNCHANGED <<main, open, head, base, ci, passed, bump, waiting, faults>>
  BY DEF Inspect, Verify, Reload, Main, Branch, CI, BumpJobs, Bounds
<1>2. pc' = "idle" => job' = NoRun
  BY DEF Inspect, Verify, Reload, Leave
<1>3. SUFFICES ASSUME Due PROVE Covered'
  BY <1>1, <1>2, DueStays DEF LostInv, NothingLost, Due, Covered
<1>4. Covered  BY <1>3 DEF LostInv, NothingLost, Due, Covered
<1>5. CurrentRun.base = Tip /\ CurrentRun.head = head /\ CurrentRun # NoRun
  BY <1>3, DueIsGood DEF CurrentRun
<1>6. CASE ~Prepared(Tip, head)
  BY <1>1, <1>4, <1>6, DueStays DEF Covered
<1>7. CASE Prepared(Tip, head)
  <2>1. CurrentRun \in events \cup {job} => CurrentRun \in events' \cup {job'}
    <3>1. CASE \E r \in events : Inspect(r)
      <4>1. PICK r \in events : Inspect(r)  BY <3>1
      <4>2. job = NoRun  BY <4>1 DEF Inspect, LostInv
      <4>3. r = CurrentRun => job' = CurrentRun
        BY <1>3, <1>5, <4>1, DueIsGood DEF Inspect, Current, IInv, TypeOK, Tip
      <4> QED BY <1>5, <4>1, <4>2, <4>3 DEF Inspect
    <3>2. CASE Verify
      <4>1. job = CurrentRun => Eligible(job.base, job.head)
        BY <1>3, <1>5, <1>7, DueIsGood
      <4> QED BY <3>2, <4>1 DEF Verify
    <3>3. CASE Reload
      <4>1. job = CurrentRun => Current(job)
        BY <1>3, <1>5, DueIsGood DEF Current
      <4> QED BY <3>3, <4>1 DEF Reload
    <3> QED BY <3>1, <3>2, <3>3
  <2> QED BY <1>1, <1>4, <1>7, <2>1, DueStays DEF Covered, Tested
<1> QED BY <1>6, <1>7

(* After a merge the head is behind the tip.                               *)
LEMMA LostGrows ==
    ASSUME AInv, Grows, UNCHANGED <<head, bump, waiting>>, pc' = "idle" => job' = NoRun
    PROVE  LostInv'
<1>1. Tip' = Tip + 1 /\ head.base <= Tip /\ Tip \in Nat /\ head.base \in Nat
  BY MainGrows DEF AInv, IInv, TypeOK, HeadPlaced, Tip
<1>2. head'.base # Tip'  BY <1>1
<1> QED BY <1>2 DEF AInv, LostInv, NothingLost

(* The merge call is not refused to a pull request that is due.            *)
LEMMA LostPut ==
    ASSUME AInv, Put
    PROVE  LostInv'
<1> USE DEF AInv
<1>1. /\ UNCHANGED <<head, base, events, ci, passed, bump, waiting, faults>>
      /\ job' = NoRun /\ pc' = "idle" /\ pc = "put"
  BY DEF Put, Leave, CI, BumpJobs, Bounds
<1>2. CASE Mergeable(job.head)
  <2>1. main' = Append(main, job.head.tree)  BY <1>2 DEF Put
  <2>2. Grows  BY <1>1, <1>2, <2>1, PutCommit DEF Grows
  <2> QED BY <1>1, <2>2, LostGrows
<1>3. CASE ~Mergeable(job.head)
  <2>1. UNCHANGED <<open, main>>  BY <1>3 DEF Put, Main
  <2>2. SUFFICES ASSUME Due PROVE Covered'
    BY <1>1, <2>1, DueStays DEF LostInv, NothingLost, Due, Covered
  <2>3. Covered  BY <2>2 DEF LostInv, NothingLost, Due, Covered
  <2>4. Tested(head) => job # CurrentRun
    BY <1>3, <2>2, DueIsGood DEF Mergeable, CurrentRun
  <2> QED BY <1>1, <2>1, <2>3, <2>4, DueStays DEF Covered, Tested
<1> QED BY <1>2, <1>3

(* Every step preserves it.                                                *)
LEMMA AStep == AInv /\ [Next]_vars => AInv'
<1> SUFFICES ASSUME AInv, [Next]_vars PROVE LostInv'
  BY NextInvariant DEF AInv
<1>1. CASE ReviewedMerge
  <2>1. Grows  BY <1>1, ReviewedGrows DEF AInv
  <2>2. UNCHANGED <<head, bump, waiting, job, pc>>
    BY <1>1 DEF ReviewedMerge, Branch, BumpJobs, Merge
  <2> QED BY <2>1, <2>2, LostGrows DEF AInv, LostInv
<1>2. CASE RefreshBase \/ UNCHANGED vars
  <2>1. UNCHANGED <<main, open, head, ci, passed, events, bump, waiting, job, pc,
                    faults>>
    BY <1>2 DEF RefreshBase, vars, Main, CI, BumpJobs, Merge, Bounds
  <2> QED BY <2>1, DueStays DEF AInv, LostInv, NothingLost, Due, Tested
<1>3. CASE Fault
  <2>1. UNCHANGED head /\ faults' # 0
    BY <1>3 DEF Fault, AInv, IInv, TypeOK
  <2>2. /\ UNCHANGED <<bump, waiting>> \/ (bump' = waiting /\ waiting' = NoRun)
        /\ pc' = "idle" => job' = NoRun
    BY <1>3 DEF Fault, Leave, NextBump, BumpJobs, Merge, AInv, LostInv
  <2> QED BY <2>1, <2>2 DEF AInv, LostInv, NothingLost, Automatic
<1> QED
  BY <1>1, <1>2, <1>3, LostBranch, LostBump, LostTest, LostMerge, LostPut
  DEF Next, MergeJob

(* An automatic update on the tip of main always has a job, a CI run or an  *)
(* event that brings it further, whatever overtakes what.                  *)
THEOREM NothingIsLost == Spec => []NothingLost
<1>1. Init => AInv
  BY InitInvariant
  DEF AInv, Init, LostInv, NothingLost, Automatic
<1>2. AInv => NothingLost  BY DEF AInv, LostInv
<1> QED BY <1>1, <1>2, AStep, PTL DEF Spec
=============================================================================
