------------------------------ MODULE TempParent ------------------------------
(***************************************************************************)
(* Creating and removing the temporary directory of the extracted binary   *)
(* (tempdir.go, tempdir_parent_unix.go), one action per system call.       *)
(* Several launchers share the cache directory gh-mcp; other programs may  *)
(* replace it, move it away or delete it at any moment.                    *)
(*                                                                         *)
(* A file is known by its inode (os.SameFile): `path' is the inode the     *)
(* cache path names now, and an open handle keeps the inode it opened.     *)
(* Definitions named Faulty... are the code with one plausible mistake.    *)
(***************************************************************************)
EXTENDS Naturals, FiniteSets

CONSTANTS
    Launchers,   \* running instances of gh-mcp of one user
    Own,         \* inodes for directories of that user
    Foreign,     \* directories of other users
    Links,       \* symbolic links
    Files,       \* regular files
    Target,      \* the directory each link points to
    None,        \* no inode, no name
    Names,       \* the values of randomTempDirName
    Attempts,    \* tempDirNameAttempts
    MaxChanges,  \* bound: changes of the cache path by other programs
    MaxFaults    \* bound: failing system calls and crashes

Dirs  == Own \cup Foreign
Nodes == Dirs \cup Links \cup Files

ASSUME TempParentAssumption ==
    /\ Target \in [Links -> Dirs]
    /\ None \notin Nodes \cup Names
    /\ Own \cap Foreign = {}
    /\ Dirs \cap (Links \cup Files) = {}
    /\ Attempts \in Nat \ {0}
    /\ MaxChanges \in Nat
    /\ MaxFaults \in Nat

VARIABLES
    path,      \* what the cache path names
    live,      \* the directories that exist, there or elsewhere
    private,   \* those without permissions for group and others
    content,   \* the names inside each directory
    pc,        \* where each launcher is
    info,      \* the inode its first Lstat saw
    handle,    \* the inode of its open parent handle
    name,      \* the name it created inside that inode
    tries,     \* names it found taken
    changes,   \* changes by other programs so far
    faults,    \* failed calls and crashes so far
    litter     \* history: entries that nobody will remove any more

fsVars   == <<path, live, private, content>>
bounds   == <<changes, faults>>
vars     == <<fsVars, pc, info, handle, name, tries, bounds, litter>>

Steps   == {"mkdirall", "lstat", "open", "fstat", "secure", "recheck",
            "mkdirat", "verify", "unlink", "fallback",
            "using", "system", "reverify", "remove", "done", "failed"}

(* Where a launcher has a directory of its own in the cache directory.     *)
Holding == {"verify", "unlink", "using", "reverify", "remove"}

(* Where it owes the operating system a close of its handle.               *)
HasHandle == {"fstat", "secure", "recheck", "mkdirat"} \cup Holding

Holds(p) == pc[p] \in Holding

(* What opening or walking through the cache path leads to.                *)
Resolved == IF path \in Links THEN Target[path] ELSE path

TypeOK ==
    /\ path \in Nodes \cup {None}
    /\ live \in SUBSET Dirs
    /\ private \in SUBSET Dirs
    /\ content \in [Dirs -> SUBSET Names]
    /\ pc \in [Launchers -> Steps]
    /\ info \in [Launchers -> Dirs \cup {None}]
    /\ handle \in [Launchers -> Dirs \cup Files \cup {None}]
    /\ name \in [Launchers -> Names \cup {None}]
    /\ tries \in [Launchers -> 0 .. Attempts]
    /\ changes \in 0 .. MaxChanges
    /\ faults \in 0 .. MaxFaults
    /\ litter \in SUBSET (Dirs \X Names)

(* Any state of the cache path and any permissions may be found at first.  *)
Init ==
    /\ live \in SUBSET Dirs
    /\ path \in live \cup Links \cup Files \cup {None}
    /\ private \in SUBSET live
    /\ content = [d \in Dirs |-> {}]
    /\ pc = [p \in Launchers |-> "mkdirall"]
    /\ info = [p \in Launchers |-> None]
    /\ handle = [p \in Launchers |-> None]
    /\ name = [p \in Launchers |-> None]
    /\ tries = [p \in Launchers |-> 0]
    /\ changes = 0
    /\ faults = 0
    /\ litter = {}

Goto(p, to) == pc' = [pc EXCEPT ![p] = to]

(* Return an error, and fall back to the system's temporary directory.      *)
Refuse(p) ==
    /\ Goto(p, "fallback")
    /\ info' = [info EXCEPT ![p] = None]
    /\ tries' = [tries EXCEPT ![p] = 0]
    /\ UNCHANGED name

(* Before the parent is open there is nothing to close.                    *)
RefuseUnopened(p) == Refuse(p) /\ UNCHANGED handle

(* From then on each error path has to close the handle.                   *)
RefuseAndClose(p) == Refuse(p) /\ handle' = [handle EXCEPT ![p] = None]

(***************************************************************************)
(* ensureSecureTempParentDir                                               *)
(***************************************************************************)

(* An inode that was deleted may be used again, but not while it is open.  *)
FreeInodes == (Own \ live) \ {handle[q] : q \in Launchers}

(* A directory that does not exist is created, readable by its owner only. *)
CreateParent(p) ==
    /\ path = None
    /\ \E d \in FreeInodes :
         /\ path' = d
         /\ live' = live \cup {d}
         /\ private' = private \cup {d}
         /\ content' = [content EXCEPT ![d] = {}]
    /\ Goto(p, "lstat")
    /\ UNCHANGED <<info, handle, name, tries>>

(* os.MkdirAll follows a link, and fails on a file, on a dangling link and  *)
(* when the file system has no inode left.                                 *)
MkdirAll(p) ==
    /\ pc[p] = "mkdirall"
    /\ \/ CreateParent(p)
       \/ /\ Resolved \in live
          /\ Goto(p, "lstat")
          /\ UNCHANGED <<fsVars, info, handle, name, tries>>
       \/ /\ IF path = None THEN FreeInodes = {} ELSE Resolved \notin live
          /\ RefuseUnopened(p)
          /\ UNCHANGED fsVars
    /\ UNCHANGED <<bounds, litter>>

(* Faulty: where there is no directory it is created again.                *)
FaultyLstat(p) ==
    /\ pc[p] = "lstat"
    /\ \/ /\ path \in live
          /\ info' = [info EXCEPT ![p] = path]
          /\ Goto(p, "open")
       \/ path \notin live /\ Goto(p, "mkdirall") /\ UNCHANGED info
    /\ UNCHANGED <<handle, name, tries>>
    /\ UNCHANGED <<fsVars, bounds, litter>>

(* os.Lstat and validateTempParentDirInfo: a directory, and no link.       *)
Lstat(p) ==
    /\ pc[p] = "lstat"
    /\ \/ /\ path \in live
          /\ info' = [info EXCEPT ![p] = path]
          /\ Goto(p, "open")
          /\ UNCHANGED <<handle, name, tries>>
       \/ path \notin live /\ RefuseUnopened(p)
    /\ UNCHANGED <<fsVars, bounds, litter>>

(* openTempParentDir follows links and opens files, too.                   *)
Open(p) ==
    /\ pc[p] = "open"
    /\ \/ /\ Resolved \in live \cup Files
          /\ handle' = [handle EXCEPT ![p] = Resolved]
          /\ Goto(p, "fstat")
          /\ UNCHANGED <<info, name, tries>>
       \/ Resolved \notin live \cup Files /\ RefuseUnopened(p)
    /\ UNCHANGED <<fsVars, bounds, litter>>

(* handle.Stat, the same validation, and os.SameFile with what Lstat saw.  *)
Fstat(p) ==
    /\ pc[p] = "fstat"
    /\ \/ /\ handle[p] \in Dirs /\ handle[p] = info[p]
          /\ Goto(p, "secure")
          /\ UNCHANGED <<info, handle, name, tries>>
       \/ (handle[p] \notin Dirs \/ handle[p] # info[p]) /\ RefuseAndClose(p)
    /\ UNCHANGED <<fsVars, bounds, litter>>

(* Faulty: the owner of the directory is not compared with the user.       *)
FaultyEnsureSecure(p) ==
    /\ pc[p] = "secure"
    /\ private' = private \cup {handle[p]}
    /\ Goto(p, "recheck")
    /\ UNCHANGED <<info, handle, name, tries>>
    /\ UNCHANGED <<path, live, content, bounds, litter>>

(* ensureSecureUnixTempParentDir: the user's own directory, made private    *)
(* through the handle when it is not.                                      *)
EnsureSecure(p) ==
    /\ pc[p] = "secure"
    /\ \/ /\ handle[p] \in Own
          /\ private' = private \cup {handle[p]}
          /\ Goto(p, "recheck")
          /\ UNCHANGED <<info, handle, name, tries>>
       \/ handle[p] \notin Own /\ RefuseAndClose(p) /\ UNCHANGED private
    /\ UNCHANGED <<path, live, content, bounds, litter>>

(* Faulty: the last of the error paths forgets to close the handle.        *)
FaultyRecheck(p) ==
    /\ pc[p] = "recheck"
    /\ \/ /\ path = handle[p]
          /\ info' = [info EXCEPT ![p] = None]
          /\ Goto(p, "mkdirat")
          /\ UNCHANGED <<handle, name, tries>>
       \/ path # handle[p] /\ RefuseUnopened(p)
    /\ UNCHANGED <<fsVars, bounds, litter>>

(* The second Lstat must see the inode that was opened and tightened.      *)
Recheck(p) ==
    /\ pc[p] = "recheck"
    /\ \/ /\ path = handle[p]
          /\ info' = [info EXCEPT ![p] = None]
          /\ Goto(p, "mkdirat")
          /\ UNCHANGED <<handle, name, tries>>
       \/ path # handle[p] /\ RefuseAndClose(p)
    /\ UNCHANGED <<fsVars, bounds, litter>>

(***************************************************************************)
(* createTempDirInVerifiedParent and the fallback                          *)
(***************************************************************************)

(* Eight random bytes: a name may be taken in this directory, but no two    *)
(* launchers draw the same one in different directories.                   *)
Drawn(p) ==
    {n \in Names : \A q \in Launchers \ {p} :
                      Holds(q) /\ handle[q] # handle[p] => name[q] # n}

(* Faulty: an existing directory of that name is taken over.               *)
FaultyMkdirat(p) ==
    /\ pc[p] = "mkdirat"
    /\ handle[p] \in live
    /\ \E n \in Drawn(p) :
         /\ content' = [content EXCEPT ![handle[p]] = @ \cup {n}]
         /\ name' = [name EXCEPT ![p] = n]
    /\ tries' = [tries EXCEPT ![p] = 0]
    /\ Goto(p, "verify")
    /\ UNCHANGED <<path, live, private, info, handle, bounds, litter>>

Mkdirat(p) ==
    /\ pc[p] = "mkdirat"
    /\ handle[p] \in live
    /\ \E n \in Drawn(p) \ content[handle[p]] :
         /\ content' = [content EXCEPT ![handle[p]] = @ \cup {n}]
         /\ name' = [name EXCEPT ![p] = n]
    /\ tries' = [tries EXCEPT ![p] = 0]
    /\ Goto(p, "verify")
    /\ UNCHANGED <<path, live, private, info, handle, bounds, litter>>

(* EEXIST: draw again, up to tempDirNameAttempts times.                    *)
NameTaken(p) ==
    /\ pc[p] = "mkdirat"
    /\ handle[p] \in live
    /\ Drawn(p) \cap content[handle[p]] # {}
    /\ \/ /\ tries[p] + 1 < Attempts
          /\ tries' = [tries EXCEPT ![p] = @ + 1]
          /\ UNCHANGED <<pc, info, handle, name>>
       \/ tries[p] + 1 >= Attempts /\ RefuseAndClose(p)
    /\ UNCHANGED <<fsVars, bounds, litter>>

(* The opened directory was deleted: ENOENT.                               *)
ParentDeleted(p) ==
    /\ pc[p] = "mkdirat"
    /\ handle[p] \notin live
    /\ RefuseAndClose(p)
    /\ UNCHANGED <<fsVars, bounds, litter>>

(* Faulty: a path that changed is refused, but the new entry stays.        *)
FaultyVerify(p) ==
    /\ pc[p] = "verify"
    /\ \/ /\ path = handle[p]
          /\ Goto(p, "using")
          /\ UNCHANGED <<info, handle, name, tries>>
       \/ /\ path # handle[p]
          /\ Goto(p, "fallback")
          /\ handle' = [handle EXCEPT ![p] = None]
          /\ name' = [name EXCEPT ![p] = None]
          /\ UNCHANGED <<info, tries>>
    /\ UNCHANGED <<fsVars, bounds, litter>>

(* verifyTempParentDirUnchanged, after the directory was made.             *)
Verify(p) ==
    /\ pc[p] = "verify"
    /\ Goto(p, IF path = handle[p] THEN "using" ELSE "unlink")
    /\ UNCHANGED <<info, handle, name, tries>>
    /\ UNCHANGED <<fsVars, bounds, litter>>

(* parentState.close(); the launcher no longer has a directory there.      *)
Forget(p, to) ==
    /\ Goto(p, to)
    /\ handle' = [handle EXCEPT ![p] = None]
    /\ name' = [name EXCEPT ![p] = None]
    /\ UNCHANGED <<info, tries>>

(* unix.Unlinkat through the handle.                                       *)
Unlink(p) ==
    /\ pc[p] = "unlink"
    /\ content' = [content EXCEPT ![handle[p]] = @ \ {name[p]}]
    /\ Forget(p, "fallback")
    /\ UNCHANGED <<path, live, private, bounds, litter>>

(* os.MkdirTemp in the system's temporary directory, or no directory.      *)
Fallback(p) ==
    /\ pc[p] = "fallback"
    /\ \E to \in {"system", "failed"} : Goto(p, to)
    /\ UNCHANGED <<fsVars, info, handle, name, tries, bounds, litter>>

(***************************************************************************)
(* The cleanup closure                                                     *)
(***************************************************************************)

BeginCleanup(p) ==
    /\ \/ pc[p] = "using"  /\ Goto(p, "reverify")
       \/ pc[p] = "system" /\ Goto(p, "done")
    /\ UNCHANGED <<fsVars, info, handle, name, tries, bounds, litter>>

(* The own directory, if it exists at all, is left behind.                 *)
Abandon(p) ==
    litter' = litter \cup
        {e \in {<<handle[p], name[p]>>} : e[1] \in Dirs /\ e[2] \in content[e[1]]}

(* verifyTempParentDirUnchanged: nothing is removed from a changed parent. *)
Reverify(p) ==
    /\ pc[p] = "reverify"
    /\ \/ /\ path = handle[p]
          /\ Goto(p, "remove")
          /\ UNCHANGED <<info, handle, name, tries, litter>>
       \/ /\ path # handle[p]
          /\ Abandon(p)
          /\ Forget(p, "done")
    /\ UNCHANGED <<fsVars, bounds>>

(* Faulty: the whole cache directory is emptied.                           *)
FaultyRemove(p) ==
    /\ pc[p] = "remove"
    /\ content' = [d \in Dirs |-> IF d = Resolved THEN {} ELSE content[d]]
    /\ litter' = litter
    /\ Forget(p, "done")
    /\ UNCHANGED <<path, live, private, bounds>>

(* os.RemoveAll works on the path, which may have changed since.           *)
Remove(p) ==
    /\ pc[p] = "remove"
    /\ content' = [d \in Dirs |-> IF d = Resolved THEN content[d] \ {name[p]}
                                                  ELSE content[d]]
    /\ IF Resolved = handle[p] THEN litter' = litter \ {<<Resolved, name[p]>>}
                               ELSE Abandon(p)
    /\ Forget(p, "done")
    /\ UNCHANGED <<path, live, private, bounds>>

(***************************************************************************)
(* Failures and other programs                                             *)
(***************************************************************************)

(* Any system call may fail.  The code returns the error it gets, and       *)
(* undoes the mkdirat when the verification after it failed; in the cleanup *)
(* it gives up the removal when the verification before it failed.  The    *)
(* errors of the removals themselves, Unlinkat and RemoveAll, are ignored:  *)
(* the launcher goes on as if its directory were gone.                     *)
IOError(p) ==
    /\ faults < MaxFaults
    /\ faults' = faults + 1
    /\ \/ /\ pc[p] \in {"mkdirall", "lstat", "open"}
          /\ RefuseUnopened(p)
          /\ UNCHANGED litter
       \/ /\ pc[p] \in {"fstat", "secure", "recheck", "mkdirat"}
          /\ RefuseAndClose(p)
          /\ UNCHANGED litter
       \/ /\ pc[p] = "verify"
          /\ Goto(p, "unlink")
          /\ UNCHANGED <<info, handle, name, tries, litter>>
       \/ /\ pc[p] = "unlink"
          /\ Abandon(p)
          /\ Forget(p, "fallback")
       \/ /\ pc[p] \in {"reverify", "remove"}
          /\ Abandon(p)
          /\ Forget(p, "done")
    /\ UNCHANGED <<fsVars, changes>>

(* The launcher is killed and started again; the system closes its handle. *)
Crash(p) ==
    /\ faults < MaxFaults
    /\ pc[p] \notin {"done", "failed"}
    /\ faults' = faults + 1
    /\ IF Holds(p) THEN Abandon(p) ELSE litter' = litter
    /\ Goto(p, "mkdirall")
    /\ info' = [info EXCEPT ![p] = None]
    /\ handle' = [handle EXCEPT ![p] = None]
    /\ name' = [name EXCEPT ![p] = None]
    /\ tries' = [tries EXCEPT ![p] = 0]
    /\ UNCHANGED <<fsVars, changes>>

(* Another program moves the directory away and may put something else in   *)
(* its place.                                                              *)
Swap ==
    /\ changes < MaxChanges
    /\ changes' = changes + 1
    /\ path' \in (live \cup Links \cup Files \cup {None}) \ {path}
    /\ UNCHANGED <<live, private, content, pc, info, handle, name, tries,
                   faults, litter>>

(* A cache cleaner deletes the directory and all that is in it.            *)
Delete ==
    /\ changes < MaxChanges
    /\ path \in live
    /\ changes' = changes + 1
    /\ path' = None
    /\ live' = live \ {path}
    /\ private' = private \ {path}
    /\ content' = [content EXCEPT ![path] = {}]
    /\ litter' = {e \in litter : e[1] # path}
    /\ UNCHANGED <<pc, info, handle, name, tries, faults>>

Terminated ==
    /\ \A p \in Launchers : pc[p] \in {"done", "failed"}
    /\ UNCHANGED vars

Create(p) ==
    \/ MkdirAll(p) \/ Lstat(p) \/ Open(p) \/ Fstat(p) \/ EnsureSecure(p)
    \/ Recheck(p) \/ Mkdirat(p) \/ NameTaken(p) \/ ParentDeleted(p)
    \/ Verify(p) \/ Unlink(p) \/ Fallback(p)

Dispose(p) == BeginCleanup(p) \/ Reverify(p) \/ Remove(p)

Next ==
    \/ \E p \in Launchers : Create(p) \/ Dispose(p) \/ IOError(p) \/ Crash(p)
    \/ Swap \/ Delete \/ Terminated

Spec == Init /\ [][Next]_vars

(* A launcher that is creating its directory keeps running.                *)
FairSpec == Spec /\ \A p \in Launchers : WF_vars(Create(p))

(***************************************************************************)
(* Properties                                                              *)
(***************************************************************************)

(* Two launchers never work in one directory: mkdirat finds a name that is  *)
(* in use taken, and the open handle keeps the inode from being reused.    *)
Exclusive ==
    \A p, q \in Launchers :
        p # q /\ Holds(p) /\ Holds(q) => <<handle[p], name[p]>> # <<handle[q], name[q]>>

(* The directory of one launcher goes away only together with the whole     *)
(* cache directory: no unlink and no RemoveAll of another launcher takes    *)
(* it, not even one that runs on a path swapped after its verification.     *)
InUseStays ==
    \A p \in Launchers :
        Holds(p) /\ handle[p] \in live => name[p] \in content[handle[p]]

(* Directories for the binary are only ever made in a directory that is the *)
(* user's own and private, however the path is swapped between the checks.  *)
PrivateParent == \A d \in Dirs : content[d] # {} => d \in Own \cap private

(* Every error path closes the parent handle, and no path that still needs  *)
(* it has closed it.                                                       *)
HandleBalance == \A p \in Launchers : handle[p] # None <=> pc[p] \in HasHandle

(* No entry is forgotten: each belongs to a launcher that will still try to *)
(* remove it, or was given up by a crash, by a removal that failed or was   *)
(* not tried because its verification failed, or by a path that led        *)
(* elsewhere when it was to be removed.                                    *)
Accounted ==
    \A d \in Dirs : \A n \in content[d] :
        \/ <<d, n>> \in litter
        \/ \E p \in Launchers : Holds(p) /\ handle[p] = d /\ name[p] = n

(* With no failure and no other program at work, launchers that share the   *)
(* cache directory leave nothing in it.                                    *)
Tidy ==
    /\ changes = 0 /\ faults = 0
    /\ \A p \in Launchers : pc[p] \in {"done", "failed"}
    => \A d \in Dirs : content[d] = {}

(* The preparation always ends with a directory or an error: names that are *)
(* taken, swaps and failures cannot hold it up for ever.                   *)
Settles ==
    \A p \in Launchers :
        pc[p] = "mkdirall" ~> pc[p] \in {"using", "system", "failed", "done"}

(* How many system calls a launcher may still make until its preparation    *)
(* ends, the names it may still draw among them.                           *)
CallsLeft(p) ==
    [mkdirall |-> 10, lstat |-> 9, open |-> 8, fstat |-> 7, secure |-> 6,
     recheck |-> 5, mkdirat |-> 4, verify |-> 3, unlink |-> 2, fallback |-> 1,
     using |-> 0, system |-> 0, failed |-> 0,
     reverify |-> 0, remove |-> 0, done |-> 0][pc[p]]
    + (CASE pc[p] \in {"mkdirall", "lstat", "open", "fstat", "secure", "recheck"} -> Attempts
         [] pc[p] = "mkdirat" -> Attempts - tries[p]
         [] OTHER -> 0)

(* What Settles rests on: each call of a launcher brings it nearer to the   *)
(* end of its preparation, whatever other launchers and programs did to the *)
(* path before it, and nothing but a restart sets it back.                 *)
CallsRunOut ==
    [][\A p \in Launchers :
         /\ CallsLeft(p) \in Nat
         /\ Create(p) => CallsLeft(p)' < CallsLeft(p)
         /\ CallsLeft(p)' <= CallsLeft(p) \/ (Crash(p) /\ faults' > faults)]_vars

(***************************************************************************)
(* TempDirs, which this implements                                         *)
(***************************************************************************)

OwnBar == [p \in Launchers |-> IF Holds(p) THEN {<<handle[p], name[p]>>} ELSE {}]

ExistingBar == {e \in Dirs \X Names : e[2] \in content[e[1]]}

Promise == INSTANCE TempDirs
    WITH Parents <- Dirs, own <- OwnBar, existing <- ExistingBar

(* Whatever is swapped, deleted or killed between two system calls, every   *)
(* launcher gets a directory that was not there and nobody's, and no step   *)
(* of one launcher removes more than one entry, or one another has in use.  *)
ImplementsTempDirs == Promise!Spec
=============================================================================
