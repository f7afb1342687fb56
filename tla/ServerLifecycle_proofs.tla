-------------------------- MODULE ServerLifecycle_proofs --------------------------
(***************************************************************************)
(* Machine-checked proofs about ServerLifecycle, for every GraceTicks,     *)
(* every MaxSignals and both values of IsWindows: the types, the safety    *)
(* invariants by one inductive invariant, and the refinement of Session.   *)
(***************************************************************************)
EXTENDS LifecycleRefinement, TLAPS

(* Before cmd.Start, and after the last use of the child.                  *)
Early == {"boot", "start"} \cup Prepare
Late  == {"cleanup", "return", "exiting", "exited", "killed"}

(* Who holds the exit of the server: the waiter exists exactly when the     *)
(* child does, has an exit to send only once it reaped the child, and       *)
(* whoever received that exit knows the child is gone.                      *)
WaiterInv ==
    /\ waiter = "none" <=> child = "none"
    /\ waiter \in {"sending", "done"} => child = "reaped"
    /\ waitCh # "empty" => waiter = "done"

(* Where the main goroutine may be with a child, and without one.          *)
ChildInv ==
    /\ pc \in Early => child = "none"
    /\ pc \in Serve => child # "none"
    /\ pc = "confirm" => child = "reaped"
    /\ pc \in Late => child \in {"none", "reaped"}

(* The temporary directory exists from its creation to the cleanup.        *)
TmpInv ==
    /\ pc \in {"boot", "auth", "env", "bundle", "mktemp"} => tmp = "none"
    /\ pc \in {"extract", "chmod", "check", "start", "cleanup"} \cup Serve =>
         tmp = "present"
    /\ pc \in Late \ {"cleanup"} =>
         \/ tmp = "none" /\ parent = "none"
         \/ tmp \in {"removed", "stuck"}
         \/ tmp = "disowned" /\ parent = "changed"
    /\ tmp = "none" => parent = "none"
    /\ Unreaped => tmp = "present"

(* stopServerProcess runs only for a cancelled context, and the timer has   *)
(* run out when it kills.                                                   *)
StopInv ==
    /\ pc \in {"interrupt", "grace", "kill", "drain"} => ctxDone
    /\ pc \in Early \cup {"select", "confirm", "interrupt"} => stopping = "no"
    /\ pc = "grace" => stopping = "int"
    /\ pc \in {"kill", "drain"} => IsWindows \/ elapsed = GraceTicks
    /\ stopping = "kill" => IsWindows \/ elapsed = GraceTicks

(* The error is decided at the end of the preparation or of the service.   *)
ResultInv ==
    /\ pc \in Early \cup Serve => result = "none"
    /\ pc \in {"cleanup", "return", "exiting", "exited"} => result # "none"
    /\ result = "nil" => ctxDone \/ (child = "reaped" /\ status = "ok")
    /\ child \in {"zombie", "reaped"} => status \in Statuses

IInv == TypeOK /\ WaiterInv /\ ChildInv /\ TmpInv /\ StopInv /\ ResultInv

-----------------------------------------------------------------------------

(* The inductive invariant holds initially.                                *)
LEMMA InitInv == Init => IInv
<1> SUFFICES ASSUME Init PROVE IInv  OBVIOUS
<1>1. ctxDone \in BOOLEAN /\ sigCh \in BOOLEAN
  BY Zenon DEF Init
<1> QED
  BY <1>1, LifecycleAssumption
  DEF LifecycleAssumption, Init, IInv, TypeOK, WaiterInv, ChildInv, TmpInv,
      StopInv, ResultInv, Early, Late, Prepare, Serve, Dead, Statuses, Unreaped

(* Every step of the main goroutine before the server runs preserves it.   *)
LEMMA PrepareInv ==
    ASSUME IInv,
           NotifyContext \/ GetAuth \/ AppendServerEnv \/ VerifyBundle
             \/ CreateTempDir \/ Extract \/ Chmod \/ CheckContext \/ Start
    PROVE  IInv'
<1> USE LifecycleAssumption
    DEF LifecycleAssumption, IInv, TypeOK, WaiterInv, ChildInv, TmpInv, StopInv, ResultInv,
        Early, Late, Prepare, Serve, Dead, Statuses, Unreaped,
        childVars, stopVars, waitVars, envVars, Proceed, Fail
<1>1. CASE NotifyContext   BY <1>1 DEF NotifyContext
<1>2. CASE GetAuth         BY <1>2 DEF GetAuth
<1>3. CASE AppendServerEnv BY <1>3 DEF AppendServerEnv
<1>4. CASE VerifyBundle    BY <1>4 DEF VerifyBundle
<1>5. CASE CreateTempDir   BY <1>5 DEF CreateTempDir
<1>6. CASE Extract         BY <1>6 DEF Extract
<1>7. CASE Chmod           BY <1>7 DEF Chmod
<1>8. CASE CheckContext    BY <1>8 DEF CheckContext
<1>9. CASE Start           BY <1>9 DEF Start
<1> QED BY <1>1, <1>2, <1>3, <1>4, <1>5, <1>6, <1>7, <1>8, <1>9

(* So does every step of the main goroutine from then on.                  *)
LEMMA ServeInv ==
    ASSUME IInv,
           SelectExit \/ Confirm \/ SelectCancel \/ Interrupt \/ GraceExit
             \/ GraceTimeout \/ Kill \/ Drain \/ Cleanup \/ StopNotify \/ Exit
    PROVE  IInv'
<1> USE LifecycleAssumption
    DEF LifecycleAssumption, IInv, TypeOK, WaiterInv, ChildInv, TmpInv, StopInv, ResultInv,
        Early, Late, Prepare, Serve, Dead, Statuses, Unreaped,
        childVars, stopVars, waitVars, envVars, Receive
<1>1. CASE SelectExit   BY <1>1 DEF SelectExit
<1>2. CASE Confirm      BY <1>2 DEF Confirm, NormalizeServerExit
<1>3. CASE SelectCancel BY <1>3 DEF SelectCancel
<1>4. CASE Interrupt    BY <1>4 DEF Interrupt
<1>5. CASE GraceExit    BY <1>5 DEF GraceExit
<1>6. CASE GraceTimeout BY <1>6 DEF GraceTimeout
<1>7. CASE Kill         BY <1>7 DEF Kill
<1>8. CASE Drain        BY <1>8 DEF Drain
<1>9. CASE Cleanup      BY <1>9 DEF Cleanup, AfterCleanup
<1>10. CASE StopNotify  BY <1>10 DEF StopNotify
<1>11. CASE Exit        BY <1>11 DEF Exit
<1> QED BY <1>1, <1>2, <1>3, <1>4, <1>5, <1>6, <1>7, <1>8, <1>9, <1>10, <1>11

(* And every step of another goroutine or of the environment.              *)
LEMMA OthersInv ==
    ASSUME IInv, Waiter \/ CancelContext \/ Environment \/ Terminated
    PROVE  IInv'
<1> USE LifecycleAssumption
    DEF LifecycleAssumption, IInv, TypeOK, WaiterInv, ChildInv, TmpInv, StopInv, ResultInv,
        Early, Late, Prepare, Serve, Dead, Statuses, Unreaped, Alive, Notified,
        childVars, stopVars, waitVars, envVars
<1>1. CASE WaiterReaps   BY <1>1 DEF WaiterReaps
<1>2. CASE WaiterSends   BY <1>2 DEF WaiterSends
<1>3. CASE CancelContext
  <2>1. sigCh' \in BOOLEAN /\ ctxDone' \in BOOLEAN /\ ctxDone'
    BY <1>3, Zenon DEF CancelContext
  <2> QED BY <1>3, <2>1 DEF CancelContext
<1>4. CASE Signalled
  <2>1. sigCh' \in BOOLEAN
    BY <1>4, Zenon DEF Signalled
  <2> QED BY <1>4, <2>1 DEF Signalled
<1>5. ASSUME NEW s \in Statuses, ChildExits(s) PROVE IInv'
  BY <1>5 DEF ChildExits
<1>6. CASE ChildDies     BY <1>6, <1>5 DEF ChildDies
<1>7. CASE InitReaps     BY <1>7 DEF InitReaps
<1>8. CASE Tick          BY <1>8 DEF Tick
<1>9. CASE ParentChanges BY <1>9 DEF ParentChanges
<1>10. CASE Hangup       BY <1>10 DEF Hangup
<1>11. CASE Crash        BY <1>11 DEF Crash
<1>12. CASE Terminated   BY <1>12 DEF Terminated, vars
<1> QED
  BY <1>1, <1>2, <1>3, <1>4, <1>5, <1>6, <1>7, <1>8, <1>9, <1>10, <1>11, <1>12
  DEF Waiter, Environment

(* Every step of the launcher and of its environment preserves IInv.       *)
LEMMA StepInv == IInv /\ [Next]_vars => IInv'
<1> SUFFICES ASSUME IInv, [Next]_vars PROVE IInv'  OBVIOUS
<1>1. CASE Main  BY <1>1, PrepareInv, ServeInv DEF Main
<1>2. CASE Waiter \/ CancelContext \/ Environment \/ Terminated
  BY <1>2, OthersInv
<1>3. CASE UNCHANGED vars
  BY <1>3 DEF vars, IInv, TypeOK, WaiterInv, ChildInv, TmpInv, StopInv,
              ResultInv, Early, Late, Prepare, Serve, Dead, Statuses, Unreaped
<1> QED BY <1>1, <1>2, <1>3 DEF Next

(* Every reachable state of the launcher satisfies the inductive invariant. *)
THEOREM Invariance == Spec => []IInv
BY InitInv, StepInv, PTL DEF Spec

(* The variables keep their types, whatever the lengths of the grace period *)
(* and of the sequence of signals.                                         *)
THEOREM Typing == Spec => []TypeOK
<1>1. IInv => TypeOK  BY DEF IInv
<1> QED BY Invariance, <1>1, PTL

(* No orderly end, and no end by an uncaught SIGINT or SIGTERM, leaves a    *)
(* server behind.                                                          *)
THEOREM NoOrphanThm == Spec => []NoOrphan
<1>1. IInv => NoOrphan  BY DEF IInv, ChildInv, NoOrphan, Unreaped, Late
<1> QED BY Invariance, <1>1, PTL

(* Nor does one forget the extracted binary: where it was made, the cleanup *)
(* has run, and gave it up for a parent that changed or a call that failed  *)
(* only.                                                                   *)
THEOREM NothingForgottenThm == Spec => []NothingForgotten
<1>1. IInv => NothingForgotten  BY DEF IInv, TmpInv, NothingForgotten, Late
<1> QED BY Invariance, <1>1, PTL

(* The binary is on the disk as long as its server is unreaped.            *)
THEOREM BinaryOutlivesServerThm == Spec => []BinaryOutlivesServer
<1>1. IInv => BinaryOutlivesServer  BY DEF IInv, TmpInv, BinaryOutlivesServer
<1> QED BY Invariance, <1>1, PTL

(* No server is killed before the end of its grace period.                 *)
THEOREM GraceGivenThm == Spec => []GraceGiven
<1>1. IInv => GraceGiven  BY DEF IInv, StopInv, GraceGiven
<1> QED BY Invariance, <1>1, PTL

(* Exit code 0 means a cancelled session or a server that succeeded.       *)
THEOREM CleanExitEarnedThm == Spec => []CleanExitEarned
<1>1. IInv => CleanExitEarned  BY DEF IInv, ResultInv, CleanExitEarned
<1> QED BY Invariance, <1>1, PTL

-----------------------------------------------------------------------------

(* The only steps that set an error with a server started are those of      *)
(* Confirm, and it looks at the context first.                             *)
THEOREM CancelIsCleanThm == Spec => CancelIsClean
<1> DEFINE Clean == child # "none" /\ ctxDone
                      => ~(result # "error" /\ result' = "error")
<1>1. IInv /\ [Next]_vars => Clean
  <2> SUFFICES ASSUME IInv, [Next]_vars, child # "none", ctxDone,
                      result # "error", result' = "error"
               PROVE  FALSE
    OBVIOUS
  <2> USE DEF IInv, ChildInv, Early, Prepare, childVars, stopVars, waitVars,
              envVars
  <2>1. CASE Main
    <3>1. CASE NotifyContext \/ GetAuth \/ AppendServerEnv \/ VerifyBundle
                 \/ CreateTempDir \/ Extract \/ Chmod \/ CheckContext \/ Start
      BY <3>1 DEF NotifyContext, GetAuth, AppendServerEnv, VerifyBundle,
                  CreateTempDir, Extract, Chmod, CheckContext, Start,
                  Proceed, Fail
    <3>2. CASE SelectExit \/ Confirm \/ SelectCancel \/ Interrupt \/ GraceExit
      BY <3>2 DEF SelectExit, Confirm, SelectCancel, Interrupt, GraceExit, Receive
    <3>3. CASE GraceTimeout \/ Kill \/ Drain \/ Cleanup \/ StopNotify \/ Exit
      BY <3>3 DEF GraceTimeout, Kill, Drain, Cleanup, StopNotify, Exit, Receive
    <3> QED BY <2>1, <3>1, <3>2, <3>3 DEF Main
  <2>2. CASE Waiter \/ CancelContext \/ Terminated \/ UNCHANGED vars
    BY <2>2 DEF Waiter, WaiterReaps, WaiterSends, CancelContext, Terminated, vars
  <2>3. CASE Environment
    BY <2>3 DEF Environment, Signalled, ChildExits, ChildDies, InitReaps, Tick,
                ParentChanges, Hangup, Crash
  <2> QED BY <2>1, <2>2, <2>3 DEF Next
<1> QED BY Invariance, <1>1, PTL DEF Spec, CancelIsClean

-----------------------------------------------------------------------------

(* The initial state of the launcher is one of the session.                *)
LEMMA RefineInit == Init => Promise!Init
BY DEF Init, Promise!Init, PhaseBar, FilesBar, OutcomeBar, Unreaped

(* Steps of the preparation create the files, start the server, fail, or    *)
(* give up for a cancelled context; or are invisible.                      *)
LEMMA RefinePrepare ==
    ASSUME IInv,
           NotifyContext \/ GetAuth \/ AppendServerEnv \/ VerifyBundle
             \/ CreateTempDir \/ Extract \/ Chmod \/ CheckContext \/ Start
    PROVE  [Promise!Next]_(Promise!vars)
<1> USE DEF IInv, ChildInv, TmpInv, ResultInv, Early, Late, Prepare, Serve,
            Unreaped, PhaseBar, FilesBar, OutcomeBar, Promise!vars,
            childVars, stopVars, waitVars, envVars, Proceed, Fail,
            Promise!Open, Promise!Next
<1>1. CASE NotifyContext   BY <1>1 DEF NotifyContext
<1>2. CASE GetAuth         BY <1>2 DEF GetAuth, Promise!Decide
<1>3. CASE AppendServerEnv BY <1>3 DEF AppendServerEnv, Promise!Decide
<1>4. CASE VerifyBundle    BY <1>4 DEF VerifyBundle, Promise!Decide
<1>5. CASE CreateTempDir
  BY <1>5 DEF CreateTempDir, Promise!CreateFiles, Promise!Decide
<1>6. CASE Extract         BY <1>6 DEF Extract, Promise!Decide
<1>7. CASE Chmod           BY <1>7 DEF Chmod, Promise!Decide
<1>8. CASE CheckContext    BY <1>8 DEF CheckContext, Promise!Decide
<1>9. CASE Start           BY <1>9 DEF Start, Promise!StartServer, Promise!Decide
<1> QED BY <1>1, <1>2, <1>3, <1>4, <1>5, <1>6, <1>7, <1>8, <1>9

(* Steps of the service decide the outcome with the server gone, remove the *)
(* files and end; or are invisible.                                        *)
LEMMA RefineServe ==
    ASSUME IInv,
           SelectExit \/ Confirm \/ SelectCancel \/ Interrupt \/ GraceExit
             \/ GraceTimeout \/ Kill \/ Drain \/ Cleanup \/ StopNotify \/ Exit
    PROVE  [Promise!Next]_(Promise!vars)
<1> USE DEF IInv, WaiterInv, ChildInv, TmpInv, StopInv, ResultInv, Early, Late,
            Prepare, Serve, Unreaped, PhaseBar, FilesBar, OutcomeBar,
            Promise!vars, childVars, stopVars, waitVars, envVars, Receive,
            Promise!Open, Promise!Next
<1>1. CASE SelectExit   BY <1>1 DEF SelectExit
<1>2. CASE Confirm      BY <1>2 DEF Confirm, NormalizeServerExit, Promise!Decide
<1>3. CASE SelectCancel BY <1>3 DEF SelectCancel
<1>4. CASE Interrupt    BY <1>4 DEF Interrupt
<1>5. CASE GraceExit    BY <1>5 DEF GraceExit, Promise!Decide
<1>6. CASE GraceTimeout BY <1>6 DEF GraceTimeout
<1>7. CASE Kill         BY <1>7 DEF Kill
<1>8. CASE Drain        BY <1>8 DEF Drain, Promise!Decide
<1>9. CASE Cleanup
  BY <1>9 DEF Cleanup, AfterCleanup, Promise!RemoveFiles, TypeOK
<1>10. CASE StopNotify  BY <1>10 DEF StopNotify
<1>11. CASE Exit        BY <1>11 DEF Exit, Promise!End, Promise!Settled
<1> QED BY <1>1, <1>2, <1>3, <1>4, <1>5, <1>6, <1>7, <1>8, <1>9, <1>10, <1>11

(* The other goroutines and the environment cancel, take the server away,   *)
(* end a settled session or abandon one; or are invisible.                 *)
LEMMA RefineOthers ==
    ASSUME IInv, Waiter \/ CancelContext \/ Environment \/ Terminated
    PROVE  [Promise!Next]_(Promise!vars)
<1> USE DEF IInv, WaiterInv, ChildInv, TmpInv, ResultInv, Early, Late, Prepare,
            Serve, Dead, Unreaped, Alive, Notified, PhaseBar, FilesBar,
            OutcomeBar, Promise!vars, childVars, stopVars, waitVars, envVars,
            Promise!Open, Promise!Next
<1>1. CASE WaiterReaps   BY <1>1 DEF WaiterReaps, Promise!ServerGone
<1>2. CASE WaiterSends   BY <1>2 DEF WaiterSends
<1>3. CASE CancelContext
  <2>1. Promise!Open  BY <1>3 DEF CancelContext
  <2>2. ctxDone' = TRUE  BY <1>3, Zenon DEF CancelContext
  <2>3. UNCHANGED <<PhaseBar, FilesBar, Unreaped, OutcomeBar>>
    BY <1>3 DEF CancelContext
  <2> QED BY <2>1, <2>2, <2>3, Zenon DEF Promise!Cancel
<1>4. CASE Signalled
  BY <1>4 DEF Signalled, Promise!End, Promise!Settled
<1>5. ASSUME NEW s \in Statuses, ChildExits(s)
      PROVE  [Promise!Next]_(Promise!vars)
  BY <1>5 DEF ChildExits, Promise!ServerGone
<1>6. CASE ChildDies     BY <1>6, <1>5 DEF ChildDies, Statuses
<1>7. CASE InitReaps     BY <1>7 DEF InitReaps, Promise!ServerGone
<1>8. CASE Tick          BY <1>8 DEF Tick
<1>9. CASE ParentChanges BY <1>9 DEF ParentChanges
<1>10. CASE Hangup       BY <1>10 DEF Hangup, Promise!Abandon
<1>11. CASE Crash        BY <1>11 DEF Crash, Promise!Abandon
<1>12. CASE Terminated   BY <1>12 DEF Terminated, vars
<1> QED
  BY <1>1, <1>2, <1>3, <1>4, <1>5, <1>6, <1>7, <1>8, <1>9, <1>10, <1>11, <1>12
  DEF Waiter, Environment

(* The launcher implements the abstract session: from start to end, every   *)
(* step it takes is one the session allows.                                *)
THEOREM Refinement == Spec => ImplementsSession
<1>1. IInv /\ [Next]_vars => [Promise!Next]_(Promise!vars)
  <2> SUFFICES ASSUME IInv, [Next]_vars PROVE [Promise!Next]_(Promise!vars)
    OBVIOUS
  <2>1. CASE Main  BY <2>1, RefinePrepare, RefineServe DEF Main
  <2>2. CASE Waiter \/ CancelContext \/ Environment \/ Terminated
    BY <2>2, RefineOthers
  <2>3. CASE UNCHANGED vars
    BY <2>3 DEF vars, Promise!vars, PhaseBar, FilesBar, OutcomeBar, Unreaped
  <2> QED BY <2>1, <2>2, <2>3 DEF Next
<1> QED
  BY Invariance, RefineInit, <1>1, PTL DEF Spec, ImplementsSession, Promise!Spec

-----------------------------------------------------------------------------

(* Until main has received the exit of the server, the waiter still owes it *)
(* or it lies in the channel; and main only drains after it sent the kill. *)
ExitInv ==
    /\ pc \in Serve \ {"confirm"} =>
         waiter \in {"waiting", "sending"} \/ waitCh # "empty"
    /\ Alive /\ waiter = "waiting" => child \in {"running", "zombie"}
    /\ pc = "drain" => stopping = "kill"

(* The timer is started once, and the parent directory is known once.      *)
ClockInv ==
    /\ pc \in Early \cup {"select", "confirm", "interrupt"} => elapsed = 0
    /\ pc \in {"boot", "auth", "env", "bundle", "mktemp"} => parent = "none"

WInv == IInv /\ ExitInv /\ ClockInv

(* No exit is on its way and no clock runs before there is a server.       *)
LEMMA WaitInit == Init => ExitInv /\ ClockInv
BY DEF Init, ExitInv, ClockInv, Serve, Alive, Dead

(* The preparation keeps what is known of the exit and the clock.          *)
LEMMA WaitPrepare ==
    ASSUME WInv,
           NotifyContext \/ GetAuth \/ AppendServerEnv \/ VerifyBundle
             \/ CreateTempDir \/ Extract \/ Chmod \/ CheckContext \/ Start
    PROVE  (ExitInv /\ ClockInv)'
<1> USE LifecycleAssumption
    DEF LifecycleAssumption, IInv, WInv, TypeOK, WaiterInv, ChildInv, TmpInv, Alive,
        StopInv, ResultInv, ExitInv, ClockInv, Early, Late, Prepare, Serve, Dead,
        Statuses, Unreaped, childVars, stopVars, waitVars, envVars, Proceed, Fail
<1>1. CASE NotifyContext \/ GetAuth \/ AppendServerEnv \/ VerifyBundle
  BY <1>1 DEF NotifyContext, GetAuth, AppendServerEnv, VerifyBundle
<1>2. CASE CreateTempDir \/ Extract \/ Chmod
  BY <1>2 DEF CreateTempDir, Extract, Chmod
<1>3. CASE CheckContext \/ Start  BY <1>3 DEF CheckContext, Start
<1> QED BY <1>1, <1>2, <1>3

(* So do serving, stopping and cleaning up.                                *)
LEMMA WaitServe ==
    ASSUME WInv,
           SelectExit \/ Confirm \/ SelectCancel \/ Interrupt \/ GraceExit
             \/ GraceTimeout \/ Kill \/ Drain \/ Cleanup \/ StopNotify \/ Exit
    PROVE  (ExitInv /\ ClockInv)'
<1> USE LifecycleAssumption
    DEF LifecycleAssumption, IInv, WInv, TypeOK, WaiterInv, ChildInv, TmpInv, Alive,
        StopInv, ResultInv, ExitInv, ClockInv, Early, Late, Prepare, Serve, Dead,
        Statuses, Unreaped, childVars, stopVars, waitVars, envVars, Receive
<1>1. CASE SelectExit \/ Confirm \/ SelectCancel \/ Interrupt
  BY <1>1 DEF SelectExit, Confirm, SelectCancel, Interrupt
<1>2. CASE GraceExit \/ GraceTimeout \/ Kill \/ Drain
  BY <1>2 DEF GraceExit, GraceTimeout, Kill, Drain
<1>3. CASE Cleanup \/ StopNotify \/ Exit  BY <1>3 DEF Cleanup, StopNotify, Exit
<1> QED BY <1>1, <1>2, <1>3

(* So do the waiter, signals and everything around the launcher.           *)
LEMMA WaitOthers ==
    ASSUME WInv, Waiter \/ CancelContext \/ Environment \/ Terminated
    PROVE  (ExitInv /\ ClockInv)'
<1> USE LifecycleAssumption
    DEF LifecycleAssumption, IInv, WInv, TypeOK, WaiterInv, ChildInv, TmpInv, Alive,
        StopInv, ResultInv, ExitInv, ClockInv, Early, Late, Prepare, Serve, Dead,
        Statuses, Unreaped, childVars, stopVars, waitVars, envVars, Notified
<1>1. CASE Waiter  BY <1>1 DEF Waiter, WaiterReaps, WaiterSends
<1>2. CASE CancelContext \/ Terminated  BY <1>2 DEF CancelContext, Terminated, vars
<1>3. CASE Signalled  BY <1>3 DEF Signalled
<1>4. ASSUME NEW s \in Statuses, ChildExits(s)  PROVE (ExitInv /\ ClockInv)'
  BY <1>4 DEF ChildExits
<1>5. CASE ChildDies  BY <1>4, <1>5 DEF ChildDies
<1>6. CASE InitReaps \/ Tick \/ ParentChanges
  BY <1>6 DEF InitReaps, Tick, ParentChanges
<1>7. CASE Hangup \/ Crash  BY <1>7 DEF Hangup, Crash
<1> QED BY <1>1, <1>2, <1>3, <1>4, <1>5, <1>6, <1>7 DEF Environment

(* Every step preserves what main waits for.                               *)
LEMMA WaitStep == WInv /\ [Next]_vars => WInv'
<1> SUFFICES ASSUME WInv, [Next]_vars PROVE (ExitInv /\ ClockInv)'
  BY StepInv DEF WInv
<1>1. CASE Main  BY <1>1, WaitPrepare, WaitServe DEF Main
<1>2. CASE Waiter \/ CancelContext \/ Environment \/ Terminated
  BY <1>2, WaitOthers
<1>3. CASE UNCHANGED vars  BY <1>3 DEF vars, WInv, ExitInv, ClockInv, Alive
<1> QED BY <1>1, <1>2, <1>3 DEF Next

(* Every reachable state satisfies the invariant about waiting.            *)
THEOREM WaitInvariance == Spec => []WInv
<1>1. Init => WInv  BY InitInv, WaitInit DEF WInv
<1> QED BY <1>1, WaitStep, PTL DEF Spec

(* Whatever the goroutines interleave, the launcher waits without a limit   *)
(* only for a running server that nobody asked to stop.                    *)
THEOREM WaitsForServerOnlyThm == Spec => []WaitsForServerOnly
<1>1. WInv => WaitsForServerOnly
  BY DEF WInv, ExitInv, IInv, TypeOK, WaiterInv, ChildInv, WaitsForServerOnly,
         Ready, Alive, Dead, Serve, Prepare
<1> QED BY WaitInvariance, <1>1, PTL

-----------------------------------------------------------------------------

(* The parts of the rank.                                                  *)
ChildRank  == [none |-> 3, running |-> 2, zombie |-> 1, reaped |-> 0][child]
WaiterRank == [none |-> 3, waiting |-> 2, sending |-> 1, done |-> 0][waiter]
ParentRank == [none |-> 2, system |-> 1, verified |-> 1, changed |-> 0][parent]
CancelRank == IF ctxDone THEN 0 ELSE 1

(* They are numbers.                                                       *)
LEMMA RankParts ==
    ASSUME TypeOK
    PROVE  /\ Remaining[pc] \in Nat /\ ChildRank \in Nat /\ WaiterRank \in Nat
           /\ ParentRank \in Nat /\ CancelRank \in Nat
           /\ GraceTicks - elapsed \in Nat /\ MaxSignals - signals \in Nat
BY LifecycleAssumption
   DEF LifecycleAssumption, TypeOK, Remaining, ChildRank, WaiterRank, ParentRank,
       CancelRank, Prepare, Serve, Dead


(* None of the parts grows.                                                *)
NoneGrows ==
    /\ Remaining[pc'] <= Remaining[pc] /\ ChildRank' <= ChildRank
    /\ WaiterRank' <= WaiterRank /\ ParentRank' <= ParentRank
    /\ CancelRank' <= CancelRank
    /\ elapsed' >= elapsed /\ signals' >= signals

(* One of them gets smaller.                                               *)
OneShrinks ==
    \/ Remaining[pc'] < Remaining[pc] \/ ChildRank' < ChildRank
    \/ WaiterRank' < WaiterRank \/ ParentRank' < ParentRank
    \/ CancelRank' < CancelRank
    \/ elapsed' > elapsed \/ signals' > signals

(* A sum of numbers of which none grows and one shrinks gets smaller.      *)
LEMMA SumShrinks ==
    ASSUME NEW a \in Nat, NEW b \in Nat, NEW c \in Nat, NEW d \in Nat, NEW e \in Nat,
           NEW f \in Nat, NEW g \in Nat,
           NEW aa \in 0 .. a, NEW bb \in 0 .. b, NEW cc \in 0 .. c,
           NEW dd \in 0 .. d, NEW ee \in 0 .. e, NEW ff \in 0 .. f,
           NEW gg \in 0 .. g,
           \/ aa < a \/ bb < b \/ cc < c \/ dd < d \/ ee < e \/ ff < f \/ gg < g
    PROVE  /\ aa + bb + cc + dd + ee + ff + gg \in Nat
           /\ aa + bb + cc + dd + ee + ff + gg < a + b + c + d + e + f + g
OBVIOUS

(* What is left of a limited number shrinks as the number grows.           *)
LEMMA Countdown ==
    ASSUME NEW n \in Nat, NEW x \in Nat, NEW y \in Nat, x <= y, y <= n
    PROVE  n - y \in 0 .. (n - x) /\ (y > x => n - y < n - x)
OBVIOUS

(* A step in which no part of the rank grows and one shrinks lowers it.    *)
LEMMA RankSum ==
    ASSUME TypeOK, TypeOK', NoneGrows, OneShrinks
    PROVE  Rank' \in Nat /\ Rank' < Rank
<1>1. /\ Remaining[pc] \in Nat /\ ChildRank \in Nat /\ WaiterRank \in Nat
      /\ ParentRank \in Nat /\ CancelRank \in Nat
      /\ GraceTicks - elapsed \in Nat /\ MaxSignals - signals \in Nat
  BY RankParts
<1>2. /\ Remaining[pc'] \in Nat /\ ChildRank' \in Nat /\ WaiterRank' \in Nat
      /\ ParentRank' \in Nat /\ CancelRank' \in Nat
  <2>1. Remaining[pc'] \in Nat
    BY DEF TypeOK, Remaining, Prepare, Serve, Dead
  <2>2. ChildRank' \in Nat   BY DEF TypeOK, ChildRank
  <2>3. WaiterRank' \in Nat  BY DEF TypeOK, WaiterRank
  <2>4. ParentRank' \in Nat  BY DEF TypeOK, ParentRank
  <2>5. CancelRank' \in Nat  BY DEF CancelRank
  <2> QED BY <2>1, <2>2, <2>3, <2>4, <2>5
<1>3. /\ elapsed \in Nat /\ elapsed' \in Nat /\ signals \in Nat /\ signals' \in Nat
      /\ GraceTicks \in Nat /\ MaxSignals \in Nat
      /\ elapsed' <= GraceTicks /\ signals' <= MaxSignals
  BY LifecycleAssumption DEF LifecycleAssumption, TypeOK
<1>4. /\ GraceTicks - elapsed' \in 0 .. (GraceTicks - elapsed)
      /\ MaxSignals - signals' \in 0 .. (MaxSignals - signals)
      /\ elapsed' > elapsed => GraceTicks - elapsed' < GraceTicks - elapsed
      /\ signals' > signals => MaxSignals - signals' < MaxSignals - signals
  <2>1. elapsed' >= elapsed /\ signals' >= signals  BY DEF NoneGrows
  <2>2. elapsed <= elapsed' /\ signals <= signals'  BY <1>3, <2>1
  <2>3. /\ GraceTicks - elapsed' \in 0 .. (GraceTicks - elapsed)
        /\ elapsed' > elapsed => GraceTicks - elapsed' < GraceTicks - elapsed
    BY <1>3, <2>2, Countdown
  <2>4. /\ MaxSignals - signals' \in 0 .. (MaxSignals - signals)
        /\ signals' > signals => MaxSignals - signals' < MaxSignals - signals
    BY <1>3, <2>2, Countdown
  <2> QED BY <2>3, <2>4
<1>5. /\ Remaining[pc'] \in 0 .. Remaining[pc] /\ ChildRank' \in 0 .. ChildRank
      /\ WaiterRank' \in 0 .. WaiterRank /\ ParentRank' \in 0 .. ParentRank
      /\ CancelRank' \in 0 .. CancelRank
  BY <1>1, <1>2 DEF NoneGrows
<1>6. \/ Remaining[pc'] < Remaining[pc]
      \/ GraceTicks - elapsed' < GraceTicks - elapsed
      \/ ChildRank' < ChildRank \/ WaiterRank' < WaiterRank
      \/ ParentRank' < ParentRank
      \/ MaxSignals - signals' < MaxSignals - signals
      \/ CancelRank' < CancelRank
  BY <1>4 DEF OneShrinks
<1>7. Rank = Remaining[pc] + (GraceTicks - elapsed) + ChildRank + WaiterRank
               + ParentRank + (MaxSignals - signals) + CancelRank
  BY DEF Rank, ChildRank, WaiterRank, ParentRank, CancelRank
<1>8. Rank' = Remaining[pc'] + (GraceTicks - elapsed') + ChildRank' + WaiterRank'
                + ParentRank' + (MaxSignals - signals') + CancelRank'
  BY DEF Rank, ChildRank, WaiterRank, ParentRank, CancelRank, Remaining
<1>9. /\ Remaining[pc'] + (GraceTicks - elapsed') + ChildRank' + WaiterRank'
           + ParentRank' + (MaxSignals - signals') + CancelRank' \in Nat
      /\ Remaining[pc'] + (GraceTicks - elapsed') + ChildRank' + WaiterRank'
           + ParentRank' + (MaxSignals - signals') + CancelRank'
           < Remaining[pc] + (GraceTicks - elapsed) + ChildRank + WaiterRank
               + ParentRank + (MaxSignals - signals) + CancelRank
  BY <1>1, <1>4, <1>5, <1>6, SumShrinks
<1> QED BY <1>7, <1>8, <1>9

(* The preparation goes from step to step, or to its end.                  *)
LEMMA PrepareDescends ==
    ASSUME WInv,
           NotifyContext \/ GetAuth \/ AppendServerEnv \/ VerifyBundle
             \/ CreateTempDir \/ Extract \/ Chmod \/ CheckContext \/ Start
    PROVE  NoneGrows /\ OneShrinks
<1>1. /\ elapsed \in Nat /\ signals \in Nat /\ UNCHANGED <<stopVars, envVars>>
      /\ UNCHANGED <<elapsed, signals, ctxDone>>
  BY DEF WInv, IInv, TypeOK, stopVars, envVars, NotifyContext, GetAuth,
         AppendServerEnv, VerifyBundle, CreateTempDir, Extract, Chmod,
         CheckContext, Start, Proceed, Fail
<1>2. CancelRank' <= CancelRank  BY <1>1 DEF CancelRank
<1>3. Remaining[pc'] < Remaining[pc] /\ Remaining[pc'] <= Remaining[pc]
  BY DEF Remaining, NotifyContext, GetAuth, AppendServerEnv, VerifyBundle,
         CreateTempDir, Extract, Chmod, CheckContext, Start, Proceed, Fail
<1>4. ParentRank' <= ParentRank
  <2>1. CASE CreateTempDir /\ parent' # parent
    BY <2>1 DEF ParentRank, CreateTempDir, Fail, WInv, ClockInv
  <2>2. CASE parent' = parent
    BY <2>2 DEF ParentRank, WInv, IInv, TypeOK
  <2> QED
    BY <2>1, <2>2
    DEF NotifyContext, GetAuth, AppendServerEnv, VerifyBundle, Extract, Chmod,
        CheckContext, Start, Proceed, Fail
<1>5. ChildRank' <= ChildRank /\ WaiterRank' <= WaiterRank
  <2>1. CASE Start /\ child' # child
    BY <2>1 DEF ChildRank, WaiterRank, Start, Fail, childVars, waitVars, WInv, IInv,
                ChildInv, WaiterInv, Early
  <2>2. CASE child' = child /\ waiter' = waiter
    BY <2>2 DEF ChildRank, WaiterRank, WInv, IInv, TypeOK
  <2> QED
    BY <2>1, <2>2
    DEF NotifyContext, GetAuth, AppendServerEnv, VerifyBundle, CreateTempDir,
        Extract, Chmod, CheckContext, Start, Proceed, Fail, childVars, waitVars,
        WInv, IInv, ChildInv, Early
<1> QED BY <1>1, <1>2, <1>3, <1>4, <1>5 DEF NoneGrows, OneShrinks

(* So does the service, and the timer has not run before it is started.    *)
LEMMA ServeDescends ==
    ASSUME WInv,
           SelectExit \/ Confirm \/ SelectCancel \/ Interrupt \/ GraceExit
             \/ GraceTimeout \/ Kill \/ Drain \/ Cleanup \/ StopNotify \/ Exit
    PROVE  NoneGrows /\ OneShrinks
<1>1. /\ elapsed \in Nat /\ signals \in Nat
      /\ UNCHANGED <<elapsed, signals, ctxDone, child, waiter, parent>>
  BY DEF WInv, IInv, TypeOK, ClockInv, stopVars, envVars, childVars, waitVars,
         SelectExit, Confirm, SelectCancel, Interrupt, GraceExit, GraceTimeout,
         Kill, Drain, Cleanup, StopNotify, Exit, Receive
<1>2. CancelRank' <= CancelRank  BY <1>1 DEF CancelRank
<1>3. Remaining[pc'] < Remaining[pc] /\ Remaining[pc'] <= Remaining[pc]
  BY DEF Remaining, SelectExit, Confirm, SelectCancel, Interrupt, GraceExit,
         GraceTimeout, Kill, Drain, Cleanup, StopNotify, Exit, Receive
<1>4. /\ ParentRank' <= ParentRank /\ ChildRank' <= ChildRank
      /\ WaiterRank' <= WaiterRank
  BY <1>1 DEF ParentRank, ChildRank, WaiterRank, WInv, IInv, TypeOK
<1> QED BY <1>1, <1>2, <1>3, <1>4 DEF NoneGrows, OneShrinks

(* The waiter, the server, the clock, the signals and the other programs    *)
(* each do what they do once.                                              *)
LEMMA OthersDescend ==
    ASSUME WInv, Waiter \/ CancelContext \/ Environment
    PROVE  NoneGrows /\ OneShrinks
<1> USE LifecycleAssumption
    DEF LifecycleAssumption, WInv, IInv, TypeOK, NoneGrows, OneShrinks, Remaining,
        ChildRank, WaiterRank, ParentRank, CancelRank, stopVars, envVars,
        childVars, waitVars, Alive, Dead, Prepare, Serve
<1>1. CASE WaiterReaps    BY <1>1 DEF WaiterReaps
<1>2. CASE WaiterSends    BY <1>2 DEF WaiterSends
<1>3. CASE CancelContext  BY <1>3 DEF CancelContext
<1>4. CASE Signalled      BY <1>4 DEF Signalled
<1>5. ASSUME NEW s \in Statuses, ChildExits(s)  PROVE NoneGrows /\ OneShrinks
  BY <1>5 DEF ChildExits
<1>6. CASE ChildDies      BY <1>5, <1>6 DEF ChildDies, Statuses
<1>7. CASE InitReaps      BY <1>7 DEF InitReaps
<1>8. CASE Tick           BY <1>8 DEF Tick
<1>9. CASE ParentChanges  BY <1>9 DEF ParentChanges
<1>10. CASE Hangup \/ Crash  BY <1>10 DEF Hangup, Crash
<1> QED
  BY <1>1, <1>2, <1>3, <1>4, <1>5, <1>6, <1>7, <1>8, <1>9, <1>10
  DEF Waiter, Environment

(* Every session takes a limited number of steps, whatever the grace period *)
(* and however many signals the user sends.                                *)
THEOREM DescendsThm == Spec => Descends
<1>1. WInv /\ [Next]_vars => [Rank' \in Nat /\ Rank' < Rank]_vars
  <2> SUFFICES ASSUME WInv, Next, ~UNCHANGED vars
               PROVE  Rank' \in Nat /\ Rank' < Rank
    OBVIOUS
  <2>1. TypeOK /\ TypeOK'  BY WaitStep DEF WInv, IInv
  <2>2. CASE Main
    BY <2>1, <2>2, PrepareDescends, ServeDescends, RankSum DEF Main
  <2>3. CASE Waiter \/ CancelContext \/ Environment
    BY <2>1, <2>3, OthersDescend, RankSum
  <2>4. CASE Terminated  BY <2>4 DEF Terminated
  <2> QED BY <2>2, <2>3, <2>4 DEF Next
<1> QED BY WaitInvariance, <1>1, PTL DEF Spec, Descends

=============================================================================
