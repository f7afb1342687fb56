------------------------------ MODULE MCTempParent ------------------------------
(* TempParent on small file systems: directories, a link to one of them and *)
(* a plain file.                                                            *)
EXTENDS TempParent

CONSTANTS p1, p2, d1, d2, foreign, link, file

TwoLaunchers == {p1, p2}
TwoDirs      == {d1, d2}
OneForeign   == {foreign}
OneLink      == {link}
OneFile      == {file}
LinkTarget   == [l \in {link} |-> d2]
TwoNames     == {1, 2}
NoNodes      == {}
NoTargets    == [l \in {} |-> d2]
=============================================================================
