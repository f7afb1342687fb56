------------------------------- MODULE ReleaseLog -------------------------------
(***************************************************************************)
(* What the Release workflow promises to those who install releases,       *)
(* without drafts, steps, failures or reruns: a log of releases that only  *)
(* grows, tags that stay, and green jobs that have a release to show.      *)
(***************************************************************************)
EXTENDS Integers

CONSTANTS Commits, Main, Ver, Assets, Provenances, None

VARIABLES
    tag,       \* the commit each version's tag points to
    releases,  \* the published releases
    green      \* the commits of main whose job succeeded

vars == <<tag, releases, green>>

Versions == {Ver[c] : c \in Commits}

BuiltFrom(c) == [a \in Assets |-> c]

Init ==
    /\ tag = [v \in Versions |-> None]
    /\ releases = {}
    /\ green = {}

MakeTag(v, c) ==
    /\ tag[v] = None
    /\ tag' = [tag EXCEPT ![v] = c]
    /\ UNCHANGED <<releases, green>>

Add(r) ==
    /\ tag[r.version] # None
    /\ \A s \in releases : s.version # r.version
    /\ releases' = releases \cup {r}
    /\ UNCHANGED <<tag, green>>

(* A job publishes its own commit, which the tag names, whole, and after    *)
(* older versions only, unless those newer ones were released by hand.      *)
JobPublishes(c) ==
    /\ tag[Ver[c]] = c
    /\ \A r \in releases : r.byJob => r.version < Ver[c]
    /\ Add([version |-> Ver[c], byJob |-> TRUE, assets |-> BuiltFrom(c)])

(* A maintainer publishes anything.                                        *)
SomebodyPublishes(v) ==
    \E f \in [Assets -> Provenances] :
        Add([version |-> v, byJob |-> FALSE, assets |-> f])

(* A job ends green once its version or a newer one is out, built whole     *)
(* from the commit its tag names.                                          *)
Succeed(c) ==
    /\ \E r \in releases :
         r.version >= Ver[c] /\ r.assets = BuiltFrom(tag[r.version])
    /\ green' = green \cup {c}
    /\ UNCHANGED <<tag, releases>>

Next ==
    \/ \E v \in Versions, c \in Commits : MakeTag(v, c)
    \/ \E v \in Versions : SomebodyPublishes(v)
    \/ \E c \in Main : JobPublishes(c) \/ Succeed(c)

Spec == Init /\ [][Next]_vars
=============================================================================
