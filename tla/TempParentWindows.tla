-------------------------- MODULE TempParentWindows --------------------------
(***************************************************************************)
(* The temporary directory on Windows (tempdir.go with                     *)
(* tempdir_parent_windows.go).  The checks before it are those of           *)
(* TempParent; but the directory is made and removed by path, not through   *)
(* the handle that was checked, so that it may lie in another directory    *)
(* than the one that was verified, and owners and modes are not looked at.  *)
(* Definitions named Faulty... are the code with one plausible mistake.    *)
(***************************************************************************)
EXTENDS TempParent

VARIABLE made    \* the directory in which each launcher has made its own

allVars == <<vars, made>>

WindowsInit == Init /\ made = [p \in Launchers |-> None]

(* FILE_FLAG_OPEN_REPARSE_POINT: a link is opened itself, never followed.   *)
OpenReparsePoint(p) ==
    /\ pc[p] = "open"
    /\ \/ /\ path \in live \cup Links \cup Files
          /\ handle' = [handle EXCEPT ![p] = path]
          /\ Goto(p, "fstat")
          /\ UNCHANGED <<info, name, tries>>
       \/ path \notin live \cup Links \cup Files /\ RefuseUnopened(p)
    /\ UNCHANGED <<fsVars, bounds, litter, made>>

(* ensureSecureUnixTempParentDir does nothing on Windows.                  *)
SecureNothing(p) ==
    /\ pc[p] = "secure"
    /\ Goto(p, "recheck")
    /\ UNCHANGED <<fsVars, info, handle, name, tries, bounds, litter, made>>

(* Where another launcher has made its directory, if it still is there.     *)
Standing(q) == Holds(q) /\ made[q] \in live /\ name[q] \in content[made[q]]

(* Random names: no two launchers draw the same one in two directories.     *)
DrawnHere(p) ==
    {n \in Names : \A q \in Launchers \ {p} :
                      Holds(q) /\ name[q] = n => Standing(q) /\ made[q] = Resolved}

(* Faulty: an existing directory of that name is taken over.               *)
FaultyMkdirTemp(p) ==
    /\ pc[p] = "mkdirat"
    /\ \/ /\ Resolved \in live
          /\ \E n \in DrawnHere(p) :
               /\ content' = [content EXCEPT ![Resolved] = @ \cup {n}]
               /\ name' = [name EXCEPT ![p] = n]
          /\ made' = [made EXCEPT ![p] = Resolved]
          /\ Goto(p, "verify")
          /\ UNCHANGED <<info, handle, tries>>
       \/ /\ Resolved \notin live
          /\ RefuseAndClose(p)
          /\ UNCHANGED <<content, made>>
    /\ UNCHANGED <<path, live, private, bounds, litter>>

(* os.MkdirTemp(parentDir, ...), wherever the path leads now; it draws      *)
(* again while a name is taken, and fails when there is none or no parent.  *)
MkdirTemp(p) ==
    /\ pc[p] = "mkdirat"
    /\ \/ /\ Resolved \in live
          /\ \E n \in DrawnHere(p) \ content[Resolved] :
               /\ content' = [content EXCEPT ![Resolved] = @ \cup {n}]
               /\ name' = [name EXCEPT ![p] = n]
          /\ made' = [made EXCEPT ![p] = Resolved]
          /\ Goto(p, "verify")
          /\ UNCHANGED <<info, handle, tries>>
       \/ /\ IF Resolved \in live THEN DrawnHere(p) \subseteq content[Resolved]
                                  ELSE TRUE
          /\ RefuseAndClose(p)
          /\ UNCHANGED <<content, made>>
    /\ UNCHANGED <<path, live, private, bounds, litter>>

(* Faulty: the parent is verified before the directory is made only.       *)
FaultyVerifyMade(p) ==
    /\ pc[p] = "verify"
    /\ Goto(p, "using")
    /\ UNCHANGED <<fsVars, info, handle, name, tries, bounds, litter, made>>

(* verifyTempParentDirUnchanged.                                           *)
VerifyMade(p) ==
    /\ pc[p] = "verify"
    /\ Goto(p, IF path = handle[p] THEN "using" ELSE "unlink")
    /\ UNCHANGED <<fsVars, info, handle, name, tries, bounds, litter, made>>

(* The entry that the launcher has made is left behind, if it exists.       *)
Leave(p) ==
    litter' = litter \cup
        {e \in {<<made[p], name[p]>>} : e[1] \in Dirs /\ e[2] \in content[e[1]]}

(* The handle is closed, and the directory not known any more.             *)
ForgetMade(p, to) == Forget(p, to) /\ made' = [made EXCEPT ![p] = None]

(* Faulty: RemoveAll is given the parent directory.                        *)
FaultyRemoveAll(p) ==
    /\ content' = [d \in Dirs |-> IF d = Resolved THEN {} ELSE content[d]]
    /\ IF Resolved = made[p] THEN litter' = litter \ {<<Resolved, name[p]>>}
                             ELSE Leave(p)
    /\ UNCHANGED <<path, live, private>>

(* os.RemoveAll(tmpDir), wherever the path leads now.                      *)
RemoveAll(p) ==
    /\ content' = [d \in Dirs |-> IF d = Resolved THEN content[d] \ {name[p]}
                                                  ELSE content[d]]
    /\ IF Resolved = made[p] THEN litter' = litter \ {<<Resolved, name[p]>>}
                             ELSE Leave(p)
    /\ UNCHANGED <<path, live, private>>

(* The parent changed while the directory was made.                        *)
Undo(p) ==
    /\ pc[p] = "unlink"
    /\ RemoveAll(p)
    /\ ForgetMade(p, "fallback")
    /\ UNCHANGED bounds

(* The cleanup closure: verify, then remove.                               *)
Cleanup(p) ==
    /\ \/ /\ pc[p] = "reverify"
          /\ path = handle[p]
          /\ Goto(p, "remove")
          /\ UNCHANGED <<fsVars, info, handle, name, made, tries, litter>>
       \/ /\ pc[p] = "reverify"
          /\ path # handle[p]
          /\ Leave(p)
          /\ ForgetMade(p, "done")
          /\ UNCHANGED fsVars
       \/ /\ pc[p] = "remove"
          /\ RemoveAll(p)
          /\ ForgetMade(p, "done")
    /\ UNCHANGED bounds

(* A system call fails: MkdirTemp leaves nothing behind then, and an error  *)
(* of RemoveAll is ignored while its directory stays.                      *)
CallFails(p) ==
    /\ faults < MaxFaults
    /\ faults' = faults + 1
    /\ \/ /\ pc[p] \in {"mkdirall", "lstat", "open"}
          /\ RefuseUnopened(p)
          /\ UNCHANGED <<litter, made>>
       \/ /\ pc[p] \in {"fstat", "recheck", "mkdirat"}
          /\ RefuseAndClose(p)
          /\ UNCHANGED <<litter, made>>
       \/ /\ pc[p] = "verify"
          /\ Goto(p, "unlink")
          /\ UNCHANGED <<info, handle, name, made, tries, litter>>
       \/ /\ pc[p] = "unlink"
          /\ Leave(p)
          /\ ForgetMade(p, "fallback")
       \/ /\ pc[p] \in {"reverify", "remove"}
          /\ Leave(p)
          /\ ForgetMade(p, "done")
    /\ UNCHANGED <<fsVars, changes>>

(* The launcher is killed and started again; the system closes its handle. *)
Killed(p) ==
    /\ faults < MaxFaults
    /\ pc[p] \notin {"done", "failed"}
    /\ faults' = faults + 1
    /\ IF Holds(p) THEN Leave(p) ELSE litter' = litter
    /\ Goto(p, "mkdirall")
    /\ info' = [info EXCEPT ![p] = None]
    /\ handle' = [handle EXCEPT ![p] = None]
    /\ name' = [name EXCEPT ![p] = None]
    /\ made' = [made EXCEPT ![p] = None]
    /\ UNCHANGED <<fsVars, tries, changes>>

(* The steps that do not differ from those on Unix.                        *)
Shared(p) ==
    /\ \/ MkdirAll(p) \/ Lstat(p) \/ Fstat(p) \/ Recheck(p) \/ Fallback(p)
       \/ BeginCleanup(p)
    /\ UNCHANGED made

WindowsNext ==
    \/ \E p \in Launchers :
         \/ Shared(p)
         \/ OpenReparsePoint(p) \/ SecureNothing(p) \/ MkdirTemp(p)
         \/ VerifyMade(p) \/ Undo(p) \/ Cleanup(p)
         \/ CallFails(p) \/ Killed(p)
    \/ (Swap \/ Delete \/ Terminated) /\ UNCHANGED made

WindowsSpec == WindowsInit /\ [][WindowsNext]_allVars

(***************************************************************************)
(* Properties                                                              *)
(***************************************************************************)

(* No removal by path takes another launcher's directory away: while it is   *)
(* in use it goes only with the whole directory it was made in.            *)
OthersStay ==
    [][\A p \in Launchers :
         Standing(p) /\ Holds(p)' /\ made[p] \in live' => Standing(p)']_allVars

(* The verification after the directory was made catches a parent that was  *)
(* replaced: only one that is replaced and put back goes unnoticed.        *)
MadeWhereVerified ==
    \A p \in Launchers : pc[p] = "using" /\ changes < 2 => made[p] = handle[p]

(* Every entry belongs to exactly one launcher, which will still try to     *)
(* remove it, or was given up by a crash, by a check or a removal that      *)
(* failed, or by a parent that was replaced: no two launchers share a       *)
(* directory, wherever it was made.                                        *)
MadeAccounted ==
    \A d \in Dirs : \A n \in content[d] :
        LET owners == {p \in Launchers : Holds(p) /\ made[p] = d /\ name[p] = n} IN
        /\ owners = {} => <<d, n>> \in litter
        /\ \A p, q \in owners : p = q

(***************************************************************************)
(* TempDirs, which this implements                                         *)
(***************************************************************************)

OwnMade == [p \in Launchers |-> IF Holds(p) THEN {<<made[p], name[p]>>} ELSE {}]

WindowsPromise == INSTANCE TempDirs
    WITH Parents <- Dirs, own <- OwnMade, existing <- ExistingBar

(* The same promise where directories are made and removed by path.        *)
WindowsImplementsTempDirs == WindowsPromise!Spec
=============================================================================
