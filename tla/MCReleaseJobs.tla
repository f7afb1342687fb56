------------------------------ MODULE MCReleaseJobs ------------------------------
(* ReleaseJobs for three commits of main: two releases, the second commit   *)
(* changing nothing that is versioned.                                      *)
EXTENDS ReleaseJobs

CONSTANTS side, a1, a2

OneSide   == {side}
TwoAssets == {a1, a2}
SideVer   == [c \in (1 .. 3) \cup {side} |-> IF c = 3 THEN 2 ELSE 1]
=============================================================================
