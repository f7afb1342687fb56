-------------------------- MODULE LifecycleRefinement --------------------------
(***************************************************************************)
(* The launcher of ServerLifecycle implements the session of Session.      *)
(***************************************************************************)
EXTENDS ServerLifecycle

PhaseBar ==
    IF pc \in {"exited", "killed"} THEN "ended"
    ELSE IF pc \in {"hungup", "crashed"} THEN "abandoned"
    ELSE IF child = "none" THEN "preparing" ELSE "serving"

FilesBar == IF tmp = "stuck" THEN "disowned" ELSE tmp

OutcomeBar ==
    IF result = "nil" THEN "clean"
    ELSE IF result = "error" THEN "failed" ELSE "none"

Promise == INSTANCE Session
    WITH phase <- PhaseBar, files <- FilesBar, server <- Unreaped,
         cancelled <- ctxDone, outcome <- OutcomeBar

(* Every behaviour of the launcher is a behaviour of the abstract session:  *)
(* whatever the goroutines interleave, outcomes are decided once, only      *)
(* after the server is gone, and the orderly end leaves no server, nor      *)
(* files that nobody tried to remove.                                       *)
ImplementsSession == Promise!Spec
=============================================================================
