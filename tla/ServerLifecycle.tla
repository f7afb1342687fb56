---------------------------- MODULE ServerLifecycle ----------------------------
(***************************************************************************)
(* One run of the gh-mcp launcher (main.go, server.go): the main goroutine *)
(* prepares the bundled server, starts it and waits; a second goroutine    *)
(* reaps the child through cmd.Wait; the goroutine of signal.NotifyContext *)
(* turns SIGINT and SIGTERM into a cancelled context.  The child, the user *)
(* and the operating system take steps of their own.                       *)
(*                                                                         *)
(* Definitions whose name starts with Faulty are not part of the launcher: *)
(* each is the code with one plausible mistake, kept to show that some     *)
(* property notices it.                                                    *)
(***************************************************************************)
EXTENDS Naturals

CONSTANTS
    IsWindows,    \* runtime.GOOS = "windows"
    GraceTicks,   \* length of serverGracefulShutdownTimeout in clock ticks
    MaxSignals    \* bound: how many SIGINT/SIGTERM the user sends

ASSUME LifecycleAssumption ==
    /\ IsWindows \in BOOLEAN
    /\ GraceTicks \in Nat
    /\ MaxSignals \in Nat

VARIABLES
    pc,        \* where the main goroutine is
    result,    \* the error runWithRunner will return: "none" while undecided
    tmp,       \* the directory holding the extracted binary; once the cleanup
               \* ran: removed, disowned with its parent, or stuck
    parent,    \* the directory it was made in, as its creation saw it
    child,     \* the bundled server process
    status,    \* its exit status, once it has one
    stopping,  \* strongest signal stopServerProcess sent: "no", "int", "kill"
    elapsed,   \* ticks since time.After was called
    waiter,    \* the goroutine that calls cmd.Wait
    waitCh,    \* its channel, of capacity 1
    sigCh,     \* a signal waits in the channel of NotifyContext
    ctxDone,   \* the context is cancelled
    signals    \* SIGINT and SIGTERM sent so far

vars == <<pc, result, tmp, parent, child, status, stopping, elapsed, waiter,
          waitCh, sigCh, ctxDone, signals>>

envVars   == <<sigCh, ctxDone, signals>>
childVars == <<child, status>>
waitVars  == <<waiter, waitCh>>
stopVars  == <<stopping, elapsed>>

Statuses == {"ok", "fail"}
Dead     == {"exited", "killed", "hungup", "crashed"}
Prepare  == {"auth", "env", "bundle", "mktemp", "extract", "chmod", "check"}
Serve    == {"select", "confirm", "interrupt", "grace", "kill", "drain"}

Alive == pc \notin Dead

(* Between NotifyContext and stop(), a SIGINT or SIGTERM reaches a channel  *)
(* instead of killing the process.                                         *)
Notified == Alive /\ pc \notin {"boot", "exiting"}

(* A command that exists and that nobody has waited for yet.               *)
Unreaped == child \in {"running", "zombie"}

TypeOK ==
    /\ pc \in {"boot", "start", "cleanup", "return", "exiting"}
                \cup Prepare \cup Serve \cup Dead
    /\ result \in {"none", "nil", "error"}
    /\ tmp \in {"none", "present", "removed", "disowned", "stuck"}
    /\ parent \in {"none", "system", "verified", "changed"}
    /\ child \in {"none", "running", "zombie", "reaped"}
    /\ status \in {"none"} \cup Statuses
    /\ stopping \in {"no", "int", "kill"}
    /\ elapsed \in 0 .. GraceTicks
    /\ waiter \in {"none", "waiting", "sending", "done"}
    /\ waitCh \in {"empty"} \cup Statuses
    /\ sigCh \in BOOLEAN
    /\ ctxDone \in BOOLEAN
    /\ signals \in 0 .. MaxSignals

Init ==
    /\ pc = "boot"
    /\ result = "none"
    /\ tmp = "none"
    /\ parent = "none"
    /\ child = "none"
    /\ status = "none"
    /\ stopping = "no"
    /\ elapsed = 0
    /\ waiter = "none"
    /\ waitCh = "empty"
    /\ sigCh = FALSE
    /\ ctxDone = FALSE
    /\ signals = 0

(***************************************************************************)
(* The main goroutine: preparing                                           *)
(***************************************************************************)

(* mainRun registers the signals before anything else.                     *)
NotifyContext ==
    /\ pc = "boot"
    /\ pc' = "auth"
    /\ UNCHANGED <<result, tmp, parent, childVars, stopVars, waitVars, envVars>>

(* A step of the preparation that succeeds; none of them looks at ctx.     *)
Proceed(from, to) ==
    /\ pc = from
    /\ pc' = to
    /\ UNCHANGED <<result, tmp, parent, childVars, stopVars, waitVars, envVars>>

(* A step that fails: the error is returned, past the cleanup if one is    *)
(* owed.                                                                   *)
Fail(from, to) ==
    /\ pc = from
    /\ pc' = to
    /\ result' = "error"
    /\ UNCHANGED <<tmp, parent, childVars, stopVars, waitVars, envVars>>

(* No host or no token: getAuthDetails fails.                              *)
GetAuth == Proceed("auth", "env") \/ Fail("auth", "return")

(* A value with a NUL byte or a line break is rejected.                    *)
AppendServerEnv == Proceed("env", "bundle") \/ Fail("env", "return")

(* No bundle for the platform, or a checksum that does not match.          *)
VerifyBundle == Proceed("bundle", "mktemp") \/ Fail("bundle", "return")

(* The cache directory first, the system's temporary directory next.       *)
CreateTempDir ==
    \/ /\ pc = "mktemp"
       /\ pc' = "extract"
       /\ tmp' = "present"
       /\ parent' \in {"verified", "system"}
       /\ UNCHANGED <<result, childVars, stopVars, waitVars, envVars>>
    \/ Fail("mktemp", "return")

(* Faulty: the error path returns without calling cleanup().               *)
FaultyExtract ==
    \/ Proceed("extract", IF IsWindows THEN "check" ELSE "chmod")
    \/ Fail("extract", "return")

(* materializeBundledServerBinary calls cleanup() itself when it fails     *)
(* after the directory exists.                                             *)
Extract ==
    \/ Proceed("extract", IF IsWindows THEN "check" ELSE "chmod")
    \/ Fail("extract", "cleanup")

Chmod == Proceed("chmod", "check") \/ Fail("chmod", "cleanup")

(* if ctx.Err() != nil { return nil }, with cleanup deferred.              *)
CheckContext ==
    /\ pc = "check"
    /\ IF ctxDone THEN pc' = "cleanup" /\ result' = "nil"
                  ELSE pc' = "start"   /\ result' = result
    /\ UNCHANGED <<tmp, parent, childVars, stopVars, waitVars, envVars>>

(* cmd.Start, and the goroutine that waitForServerExit launches.           *)
Start ==
    \/ /\ pc = "start"
       /\ pc' = "select"
       /\ child' = "running"
       /\ waiter' = "waiting"
       /\ UNCHANGED <<result, tmp, parent, status, stopVars, waitCh, envVars>>
    \/ Fail("start", "cleanup")

(***************************************************************************)
(* The main goroutine: waiting for the server and stopping it              *)
(***************************************************************************)

(* Faulty: the exit status of the server is not looked at.                 *)
FaultyNormalizeServerExit(s) == "nil"

(* normalizeServerExit                                                     *)
NormalizeServerExit(s) == IF s = "ok" THEN "nil" ELSE "error"

(* <-waitCh at one of the points that read it; the value received is the   *)
(* server's exit status.                                                   *)
Receive(from, to) ==
    /\ pc = from
    /\ waitCh # "empty"
    /\ waitCh' = "empty"
    /\ pc' = to

(* The first case of the outer select.                                     *)
SelectExit ==
    /\ Receive("select", "confirm")
    /\ UNCHANGED <<result, tmp, parent, childVars, stopVars, waiter, envVars>>

(* Faulty: the inner select is missing.                                    *)
FaultyConfirm ==
    /\ pc = "confirm"
    /\ pc' = "cleanup"
    /\ result' = NormalizeServerExit(status)
    /\ UNCHANGED <<tmp, parent, childVars, stopVars, waitVars, envVars>>

(* The inner select: a context cancelled by now turns any exit into nil.   *)
Confirm ==
    /\ pc = "confirm"
    /\ pc' = "cleanup"
    /\ result' = IF ctxDone THEN "nil" ELSE NormalizeServerExit(status)
    /\ UNCHANGED <<tmp, parent, childVars, stopVars, waitVars, envVars>>

(* Faulty: the server is killed without being interrupted first.           *)
FaultySelectCancel ==
    /\ pc = "select"
    /\ ctxDone
    /\ pc' = "kill"
    /\ UNCHANGED <<result, tmp, parent, childVars, stopVars, waitVars, envVars>>

(* The second case of the outer select; with both ready Go picks either.   *)
SelectCancel ==
    /\ pc = "select"
    /\ ctxDone
    /\ pc' = IF IsWindows THEN "kill" ELSE "interrupt"
    /\ UNCHANGED <<result, tmp, parent, childVars, stopVars, waitVars, envVars>>

(* Faulty: the interrupt is followed by a wait without a timeout.          *)
FaultyInterrupt ==
    /\ pc = "interrupt"
    /\ pc' = "drain"
    /\ stopping' = "int"
    /\ elapsed' = 0
    /\ UNCHANGED <<result, tmp, parent, childVars, waitVars, envVars>>

(* proc.Signal(os.Interrupt), its error ignored, then time.After.          *)
Interrupt ==
    /\ pc = "interrupt"
    /\ pc' = "grace"
    /\ stopping' = "int"
    /\ elapsed' = 0
    /\ UNCHANGED <<result, tmp, parent, childVars, waitVars, envVars>>

(* Faulty: after the server's exit was received, a second one is awaited.  *)
FaultyGraceExit ==
    /\ Receive("grace", "drain")
    /\ UNCHANGED <<result, tmp, parent, childVars, stopVars, waiter, envVars>>

GraceExit ==
    /\ Receive("grace", "cleanup")
    /\ result' = "nil"
    /\ UNCHANGED <<tmp, parent, childVars, stopVars, waiter, envVars>>

(* Faulty: the timeout gives up on the server instead of killing it.       *)
FaultyGraceTimeout ==
    /\ pc = "grace"
    /\ elapsed = GraceTicks
    /\ pc' = "cleanup"
    /\ result' = "nil"
    /\ UNCHANGED <<tmp, parent, childVars, stopVars, waitVars, envVars>>

GraceTimeout ==
    /\ pc = "grace"
    /\ elapsed = GraceTicks
    /\ pc' = "kill"
    /\ UNCHANGED <<result, tmp, parent, childVars, stopVars, waitVars, envVars>>

(* Faulty: on Windows, where no interrupt exists, nothing is sent.         *)
FaultyKillNotSent ==
    /\ pc = "kill"
    /\ pc' = "drain"
    /\ UNCHANGED <<result, tmp, parent, childVars, stopVars, waitVars, envVars>>

Kill ==
    /\ pc = "kill"
    /\ pc' = "drain"
    /\ stopping' = "kill"
    /\ UNCHANGED <<result, tmp, parent, childVars, elapsed, waitVars, envVars>>

Drain ==
    /\ Receive("drain", "cleanup")
    /\ result' = "nil"
    /\ UNCHANGED <<tmp, parent, childVars, stopVars, waiter, envVars>>

(***************************************************************************)
(* The main goroutine: leaving                                             *)
(***************************************************************************)

(* What may come of the cleanup closure of createTempDir.  It gives up on a *)
(* verified parent that is no longer the directory it was; and it ignores   *)
(* the calls that fail, the Lstat and Stat of that check and RemoveAll, so  *)
(* that the directory stays although its parent is the same.               *)
AfterCleanup == IF parent = "changed" THEN {"disowned"} ELSE {"removed", "stuck"}

Cleanup ==
    /\ pc = "cleanup"
    /\ pc' = "return"
    /\ tmp' \in AfterCleanup
    /\ UNCHANGED <<result, parent, childVars, stopVars, waitVars, envVars>>

(* mainRun's deferred stop(): from here a signal has its default effect.   *)
StopNotify ==
    /\ pc = "return"
    /\ pc' = "exiting"
    /\ UNCHANGED <<result, tmp, parent, childVars, stopVars, waitVars, envVars>>

(* os.Exit with mainRun's code: 0 for nil, 1 for an error.                 *)
Exit ==
    /\ pc = "exiting"
    /\ pc' = "exited"
    /\ UNCHANGED <<result, tmp, parent, childVars, stopVars, waitVars, envVars>>

(***************************************************************************)
(* The other goroutines, the child, the clock and the environment          *)
(***************************************************************************)

(* cmd.Wait reaps the child; the send that follows never blocks.           *)
WaiterReaps ==
    /\ Alive
    /\ waiter = "waiting"
    /\ child = "zombie"
    /\ child' = "reaped"
    /\ waiter' = "sending"
    /\ UNCHANGED <<pc, result, tmp, parent, status, stopVars, waitCh, envVars>>

WaiterSends ==
    /\ Alive
    /\ waiter = "sending"
    /\ waitCh = "empty"
    /\ waitCh' = status
    /\ waiter' = "done"
    /\ UNCHANGED <<pc, result, tmp, parent, childVars, stopVars, envVars>>

(* The goroutine of NotifyContext.                                         *)
CancelContext ==
    /\ Notified
    /\ sigCh
    /\ ~ctxDone
    /\ sigCh' = FALSE
    /\ ctxDone' = TRUE
    /\ UNCHANGED <<pc, result, tmp, parent, childVars, stopVars, waitVars, signals>>

(* SIGINT or SIGTERM.  A full channel drops it, and so does a context that  *)
(* is already cancelled: nobody reads the channel a second time.           *)
Signalled ==
    /\ Alive
    /\ signals < MaxSignals
    /\ signals' = signals + 1
    /\ IF Notified THEN sigCh' = TRUE /\ pc' = pc
                   ELSE sigCh' = sigCh /\ pc' = "killed"
    /\ UNCHANGED <<result, tmp, parent, childVars, stopVars, waitVars, ctxDone>>

(* The server ends of its own accord, on the closing of its input, or on a  *)
(* signal: the terminal's Ctrl+C reaches it too, so any time is possible.   *)
ChildExits(s) ==
    /\ child = "running"
    /\ child' = IF Alive THEN "zombie" ELSE "reaped"
    /\ status' = s
    /\ UNCHANGED <<pc, result, tmp, parent, stopVars, waitVars, envVars>>

(* SIGKILL cannot be ignored.                                              *)
ChildDies ==
    /\ stopping = "kill"
    /\ ChildExits("fail")

(* A zombie whose parent is gone is reaped by init.                        *)
InitReaps ==
    /\ ~Alive
    /\ child = "zombie"
    /\ child' = "reaped"
    /\ UNCHANGED <<pc, result, tmp, parent, status, stopVars, waitVars, envVars>>

Tick ==
    /\ pc = "grace"
    /\ elapsed < GraceTicks
    /\ elapsed' = elapsed + 1
    /\ UNCHANGED <<pc, result, tmp, parent, childVars, stopping, waitVars, envVars>>

(* Something outside replaces, moves or opens up gh-mcp's cache directory.  *)
ParentChanges ==
    /\ tmp = "present"
    /\ parent = "verified"
    /\ parent' = "changed"
    /\ UNCHANGED <<pc, result, tmp, childVars, stopVars, waitVars, envVars>>

(* The terminal closes: SIGHUP is not among the signals of NotifyContext.   *)
Hangup ==
    /\ ~IsWindows
    /\ Alive
    /\ pc' = "hungup"
    /\ UNCHANGED <<result, tmp, parent, childVars, stopVars, waitVars, envVars>>

(* SIGKILL, the OOM killer, a power cut.                                   *)
Crash ==
    /\ Alive
    /\ pc' = "crashed"
    /\ UNCHANGED <<result, tmp, parent, childVars, stopVars, waitVars, envVars>>

Terminated ==
    /\ ~Alive
    /\ ~Unreaped
    /\ UNCHANGED vars

Main ==
    \/ NotifyContext \/ GetAuth \/ AppendServerEnv \/ VerifyBundle
    \/ CreateTempDir \/ Extract \/ Chmod \/ CheckContext \/ Start
    \/ SelectExit \/ Confirm \/ SelectCancel
    \/ Interrupt \/ GraceExit \/ GraceTimeout \/ Kill \/ Drain
    \/ Cleanup \/ StopNotify \/ Exit

Waiter == WaiterReaps \/ WaiterSends

Environment ==
    \/ Signalled \/ (\E s \in Statuses : ChildExits(s)) \/ ChildDies
    \/ InitReaps \/ Tick \/ ParentChanges \/ Hangup \/ Crash

Next == Main \/ Waiter \/ CancelContext \/ Environment \/ Terminated

(* The scheduler runs every goroutine, the clock advances, and SIGKILL is   *)
(* delivered.  Nothing is assumed of a server that was merely interrupted. *)
Fairness ==
    /\ WF_vars(Main)
    /\ WF_vars(Waiter)
    /\ WF_vars(CancelContext)
    /\ WF_vars(Tick)
    /\ WF_vars(ChildDies)

Spec == Init /\ [][Next]_vars

FairSpec == Spec /\ Fairness

(***************************************************************************)
(* Properties                                                              *)
(***************************************************************************)

(* The launcher never goes away in an orderly way, nor can a SIGINT or      *)
(* SIGTERM with its default effect (before NotifyContext, after stop())     *)
(* take it away, while the server it started still runs or is unreaped:     *)
(* waitForServerExit owns the child to its end on every path.               *)
NoOrphan == pc \in {"return", "exiting", "exited", "killed"} => ~Unreaped

(* At the same moments no extracted binary is forgotten on the disk: the    *)
(* cleanup has run on every path that made the directory, whether the       *)
(* preparation failed, the context was cancelled or the server ended.  What *)
(* it could not remove, because a call failed or the parent had changed     *)
(* under the launcher, stays; nothing is given up for another reason.       *)
NothingForgotten ==
    pc \in {"return", "exiting", "exited", "killed"} =>
        \/ tmp = "none" /\ parent = "none"
        \/ tmp \in {"removed", "stuck"}
        \/ tmp = "disowned" /\ parent = "changed"

(* The cleanup deferred by runBundledServer never takes the executable from *)
(* under a server that is running or not yet reaped (on Windows the removal *)
(* would fail and leave the directory behind).                              *)
BinaryOutlivesServer == Unreaped => tmp = "present"

(* Outside Windows the server is force-killed only after it was interrupted *)
(* and given the whole serverGracefulShutdownTimeout.                       *)
GraceGiven == stopping = "kill" => IsWindows \/ elapsed = GraceTicks

(* A nil error, hence exit code 0, is earned: the context was cancelled, or *)
(* the server ran to its end and succeeded.                                 *)
CleanExitEarned ==
    result = "nil" => ctxDone \/ (child = "reaped" /\ status = "ok")

(* Once the server was started, no step turns its end into an error when    *)
(* the context is already cancelled, whichever case of the selects ran and  *)
(* whatever status an interrupted or killed server leaves.                  *)
CancelIsClean ==
    [][child # "none" /\ ctxDone => ~(result # "error" /\ result' = "error")]_vars

(* A cancelled launcher ends: the server that ignores its interrupt is      *)
(* killed, its exit reaches waitCh, and no receive waits for a second one.  *)
CancelLeadsToEnd == ctxDone ~> ~Alive

(* When the server ends the session ends, whether or not anyone asked.      *)
ServerEndLeadsToEnd == child = "zombie" ~> ~Alive

(* What can go on without the user or a running server: the main goroutine, *)
(* the clock it waits for, the waiter, the death of a killed server.       *)
Ready ==
    \/ pc \notin {"select", "grace", "drain"}
    \/ waitCh # "empty"
    \/ pc = "select" /\ ctxDone
    \/ pc = "grace"
    \/ waiter = "waiting" /\ child = "zombie"
    \/ waiter = "sending" /\ waitCh = "empty"
    \/ stopping = "kill" /\ child = "running"

(* The launcher waits without a limit for one thing only: a server that     *)
(* runs and that nobody asked to stop.  No receive from waitCh waits for an *)
(* exit that was received before, and no kill is forgotten.                *)
WaitsForServerOnly ==
    Alive => Ready \/ (pc = "select" /\ child = "running" /\ ~ctxDone)

(* How far the main goroutine is from its end.                             *)
Remaining ==
    [boot |-> 18, auth |-> 17, env |-> 16, bundle |-> 15, mktemp |-> 14,
     extract |-> 13, chmod |-> 12, check |-> 11, start |-> 10, select |-> 9,
     interrupt |-> 8, grace |-> 7, kill |-> 6, drain |-> 5, confirm |-> 4,
     cleanup |-> 3, return |-> 2, exiting |-> 1,
     exited |-> 0, killed |-> 0, hungup |-> 0, crashed |-> 0]

(* How far the whole session is.                                           *)
Rank ==
    Remaining[pc]
    + (GraceTicks - elapsed)
    + [none |-> 3, running |-> 2, zombie |-> 1, reaped |-> 0][child]
    + [none |-> 3, waiting |-> 2, sending |-> 1, done |-> 0][waiter]
    + [none |-> 2, system |-> 1, verified |-> 1, changed |-> 0][parent]
    + (MaxSignals - signals)
    + (IF ctxDone THEN 0 ELSE 1)

(* Every step of anybody brings the session nearer to its end: nothing is   *)
(* tried twice, no state comes back, and a second signal starts nothing     *)
(* again.  With WaitsForServerOnly this is why a cancelled session ends.   *)
Descends == [][Rank' \in Nat /\ Rank' < Rank]_vars

(* README.md: "The temporary extracted binary is automatically removed when *)
(* you exit" and "No data persists after the session ends".  Closing the    *)
(* terminal is an exit too, but its SIGHUP is not caught by mainRun.        *)
NoDataPersists == pc \in {"exited", "killed", "hungup"} => tmp # "present"
=============================================================================
