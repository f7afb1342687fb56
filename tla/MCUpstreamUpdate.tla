-------------------------- MODULE MCUpstreamUpdate --------------------------
(* UpstreamUpdate with a patch and a major version of upstream.             *)
EXTENDS UpstreamUpdate

V(a, b, c) == [major |-> a, minor |-> b, patch |-> c]

Start       == [release |-> V(0, 1, 0), upstream |-> V(0, 0, 0), pins |-> V(0, 0, 0)]
TwoReleases == {V(0, 0, 1), V(1, 0, 0)}
OwnRelease  == {V(0, 1, 1)}
=============================================================================
