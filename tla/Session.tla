-------------------------------- MODULE Session --------------------------------
(***************************************************************************)
(* What one session of gh-mcp promises, without goroutines, channels or    *)
(* signals: files appear, a server may run on them, and when the session   *)
(* ends in order an outcome has been decided, the server is gone and the   *)
(* files are removed or, if that could not be done, disowned.  A session   *)
(* may also be abandoned, and then nothing is promised.                    *)
(***************************************************************************)
VARIABLES
    phase,      \* "preparing", "serving", "ended" or "abandoned"
    files,      \* "none", "present", "removed" or "disowned"
    server,     \* a server process exists and has not been reaped
    cancelled,  \* the user asked for the end
    outcome     \* "none", "clean" or "failed"

vars == <<phase, files, server, cancelled, outcome>>

Open == phase \in {"preparing", "serving"}

Init ==
    /\ phase = "preparing"
    /\ files = "none"
    /\ server = FALSE
    /\ cancelled = FALSE
    /\ outcome = "none"

CreateFiles ==
    /\ phase = "preparing"
    /\ files = "none"
    /\ outcome = "none"
    /\ files' = "present"
    /\ UNCHANGED <<phase, server, cancelled, outcome>>

StartServer ==
    /\ phase = "preparing"
    /\ files = "present"
    /\ outcome = "none"
    /\ phase' = "serving"
    /\ server' = TRUE
    /\ UNCHANGED <<files, cancelled, outcome>>

(* The session notices that the server is gone.                            *)
ServerGone ==
    /\ server
    /\ server' = FALSE
    /\ UNCHANGED <<phase, files, cancelled, outcome>>

Cancel ==
    /\ Open
    /\ cancelled' = TRUE
    /\ UNCHANGED <<phase, files, server, outcome>>

(* Decided once, with no server alive.  A preparation may fail at any time; *)
(* a session that served and was cancelled is clean.                       *)
Decide ==
    /\ Open
    /\ outcome = "none"
    /\ ~server
    /\ \/ outcome' = "clean" /\ (cancelled \/ phase = "serving")
       \/ outcome' = "failed" /\ (phase = "preparing" \/ ~cancelled)
    /\ UNCHANGED <<phase, files, server, cancelled>>

RemoveFiles ==
    /\ Open
    /\ outcome # "none"
    /\ files = "present"
    /\ files' \in {"removed", "disowned"}
    /\ UNCHANGED <<phase, server, cancelled, outcome>>

(* Nothing is owed any more: the session may end.                          *)
Settled == ~server /\ files # "present"

End ==
    /\ Open
    /\ Settled
    /\ phase' = "ended"
    /\ UNCHANGED <<files, server, cancelled, outcome>>

Abandon ==
    /\ Open
    /\ phase' = "abandoned"
    /\ UNCHANGED <<files, server, cancelled, outcome>>

Next ==
    \/ CreateFiles \/ StartServer \/ ServerGone \/ Cancel \/ Decide
    \/ RemoveFiles \/ End \/ Abandon

Spec == Init /\ [][Next]_vars
=============================================================================
