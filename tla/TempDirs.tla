-------------------------------- MODULE TempDirs --------------------------------
(***************************************************************************)
(* What tempdir.go promises about the cache directory on every platform,   *)
(* without paths, handles, system calls or failures: a launcher gets a     *)
(* directory that did not exist and is nobody's, and gives it up once.     *)
(* With it at most one entry disappears, and none that another launcher    *)
(* has in use.  Other programs take parents away as a whole.               *)
(***************************************************************************)
CONSTANTS Launchers, Parents, Names

VARIABLES
    own,      \* the directory of each launcher: none or one
    existing  \* the directories that exist

vars == <<own, existing>>

Places == Parents \X Names

Init ==
    /\ own = [p \in Launchers |-> {}]
    /\ existing = {}

Make(p) ==
    /\ own[p] = {}
    /\ \E d \in Places \ existing :
         /\ \A q \in Launchers : d \notin own[q]
         /\ own' = [own EXCEPT ![p] = {d}]
         /\ existing' = existing \cup {d}

(* The own directory is removed or left; a path that leads elsewhere by now *)
(* may make it an abandoned one.                                           *)
GiveUp(p) ==
    /\ own[p] # {}
    /\ own' = [own EXCEPT ![p] = {}]
    /\ \E gone \in SUBSET existing :
         /\ existing' = existing \ gone
         /\ \A d, e \in gone : d = e
         /\ \A q \in Launchers \ {p} : gone \cap own[q] = {}

LoseParent ==
    /\ \E d \in Parents : existing' = {e \in existing : e[1] # d}
    /\ UNCHANGED own

Next == LoseParent \/ \E p \in Launchers : Make(p) \/ GiveUp(p)

Spec == Init /\ [][Next]_vars
=============================================================================
