----------------------------- MODULE MCReleaseVersion -----------------------------
(* ReleaseVersion with components small enough to overflow.                 *)
EXTENDS ReleaseVersion

StartVersions == {[major |-> 0, minor |-> 2, patch |-> 1],
                  [major |-> 1, minor |-> 0, patch |-> 2]}
=============================================================================
