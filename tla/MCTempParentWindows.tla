-------------------------- MODULE MCTempParentWindows --------------------------
(* TempParentWindows on a small file system: directories, a link and a file. *)
EXTENDS TempParentWindows

CONSTANTS p1, p2, d1, d2, foreign, link, file

TwoLaunchers == {p1, p2}
TwoDirs      == {d1, d2}
NoNodes      == {}
OneForeign   == {foreign}
OneLink      == {link}
OneFile      == {file}
LinkTarget   == [l \in {link} |-> d2]
TwoNames     == {1, 2}
=============================================================================
