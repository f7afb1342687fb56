--------------------------- MODULE MCPrepareAssets ---------------------------
(* PrepareAssets with two releases that share one of two assets, and with a *)
(* truncated and a forged checksums file to be found.                      *)
EXTENDS PrepareAssets

CONSTANTS r1, v1, v2, d1, d2, same, bad

OneRun      == {r1}
AllKinds    == {"check", "prepare", "update"}
TwoVersions == {v1, v2}
FourDigests == {d1, d2, same, bad}
Attested    == [v \in TwoVersions |-> IF v = v1 THEN <<d1, same>> ELSE <<d2, same>>]
BadTables   == {<<d1, None>>, <<bad, same>>}
=============================================================================
