--------------------------- MODULE TempParent_proofs ---------------------------
(***************************************************************************)
(* Machine-checked proofs about TempParent and TempParentWindows, for any  *)
(* number of launchers, directories, names and attempts, and any number of *)
(* failures and of changes by other programs.                              *)
(***************************************************************************)
EXTENDS TempParentWindows, TLAPS

(* Where the handle has passed ensureSecureUnixTempParentDir.              *)
Secured == {"recheck", "mkdirat"} \cup Holding

(* What one launcher's handle and name are, by where it is.                *)
LocalInv ==
    \A p \in Launchers :
        /\ handle[p] # None <=> pc[p] \in HasHandle
        /\ name[p] # None <=> pc[p] \in Holding
        /\ pc[p] = "secure" => handle[p] \in Dirs
        /\ pc[p] = "open" => info[p] \in Dirs
        /\ pc[p] \in Secured => handle[p] \in Own

(* A secured directory that still exists is private: its inode cannot come *)
(* back for another directory while it is open.                            *)
PrivacyInv ==
    /\ \A p \in Launchers :
         pc[p] \in Secured /\ handle[p] \in live => handle[p] \in private
    /\ \A d \in Dirs : content[d] # {} => d \in Own \cap private \cap live

LInv == TypeOK /\ LocalInv /\ PrivacyInv

(* The local invariant holds of every file system a launcher may find.     *)
LEMMA LInit == Init => LInv
BY TempParentAssumption
   DEF TempParentAssumption, Init, LInv, TypeOK, LocalInv, PrivacyInv, Dirs,
       Nodes, Steps, Secured, Holding, HasHandle

(* The system calls that create the directory keep it.                     *)
LEMMA LCreate ==
    ASSUME LInv, NEW p \in Launchers, Create(p)
    PROVE  LInv'
<1> USE TempParentAssumption
    DEF TempParentAssumption, LInv, TypeOK, LocalInv, PrivacyInv, Dirs, Nodes,
        Steps, Secured, Holding, HasHandle, fsVars, bounds, Goto
<1>1. CASE MkdirAll(p)
  BY <1>1 DEF MkdirAll, CreateParent, FreeInodes, Resolved, Refuse, RefuseUnopened
<1>2. CASE Lstat(p)          BY <1>2 DEF Lstat, Refuse, RefuseUnopened
<1>3. CASE Open(p)           BY <1>3 DEF Open, Resolved, Refuse, RefuseUnopened
<1>4. CASE Fstat(p)          BY <1>4 DEF Fstat, Refuse, RefuseAndClose
<1>5. CASE EnsureSecure(p)   BY <1>5 DEF EnsureSecure, Refuse, RefuseAndClose
<1>6. CASE Recheck(p)        BY <1>6 DEF Recheck, Refuse, RefuseAndClose
<1>7. CASE Mkdirat(p)        BY <1>7 DEF Mkdirat, Drawn
<1>8. CASE NameTaken(p)      BY <1>8 DEF NameTaken, Refuse, RefuseAndClose
<1>9. CASE ParentDeleted(p)  BY <1>9 DEF ParentDeleted, Refuse, RefuseAndClose
<1>10. CASE Verify(p)        BY <1>10 DEF Verify
<1>11. CASE Unlink(p)        BY <1>11 DEF Unlink, Forget
<1>12. CASE Fallback(p)      BY <1>12 DEF Fallback
<1> QED
  BY <1>1, <1>2, <1>3, <1>4, <1>5, <1>6, <1>7, <1>8, <1>9, <1>10, <1>11, <1>12
  DEF Create

(* So do those that remove it, and the failures.                           *)
LEMMA LDispose ==
    ASSUME LInv, NEW p \in Launchers, Dispose(p) \/ IOError(p) \/ Crash(p)
    PROVE  LInv'
<1> USE TempParentAssumption
    DEF TempParentAssumption, LInv, TypeOK, LocalInv, PrivacyInv, Dirs, Nodes,
        Steps, Secured, Holding, HasHandle, fsVars, bounds, Goto
<1>1. CASE BeginCleanup(p)  BY <1>1 DEF BeginCleanup
<1>2. CASE Reverify(p)      BY <1>2 DEF Reverify, Abandon, Forget
<1>3. CASE Remove(p)
  <2>1. litter' \in SUBSET (Dirs \X Names)
    <3>1. CASE Resolved = handle[p]  BY <1>3, <3>1 DEF Remove
    <3>2. CASE Resolved # handle[p]  BY <1>3, <3>2 DEF Remove, Abandon
    <3> QED BY <3>1, <3>2
  <2>2. content' \in [Dirs -> SUBSET Names]  BY <1>3 DEF Remove
  <2>3. TypeOK'      BY <1>3, <2>1, <2>2 DEF Remove, Forget
  <2>4. LocalInv'    BY <1>3 DEF Remove, Forget
  <2>5. \A d \in Dirs : content'[d] \subseteq content[d]  BY <1>3 DEF Remove
  <2>6. PrivacyInv'
    <3>1. UNCHANGED <<live, private>>  BY <1>3 DEF Remove
    <3>2. \A q \in Launchers :
            pc'[q] \in Secured => pc[q] \in Secured /\ handle'[q] = handle[q]
      BY <1>3 DEF Remove, Forget
    <3>3. \A d \in Dirs : content'[d] # {} => d \in Own \cap private \cap live
      BY <2>5
    <3> QED BY <3>1, <3>2, <3>3
  <2> QED BY <2>3, <2>4, <2>6
<1>4. CASE IOError(p)
  BY <1>4 DEF IOError, Refuse, RefuseUnopened, RefuseAndClose, Abandon, Forget
<1>5. CASE Crash(p)         BY <1>5 DEF Crash, Abandon, Holds
<1> QED
  BY <1>1, <1>2, <1>3, <1>4, <1>5
  DEF Dispose

(* So do the other programs.                                               *)
LEMMA LEnvironment ==
    ASSUME LInv, Swap \/ Delete
    PROVE  LInv'
<1> USE TempParentAssumption
    DEF TempParentAssumption, LInv, TypeOK, LocalInv, PrivacyInv, Dirs, Nodes,
        Steps, Secured, Holding, HasHandle, fsVars, bounds, Goto
<1>1. CASE Swap    BY <1>1 DEF Swap
<1>2. CASE Delete  BY <1>2 DEF Delete
<1> QED
  BY <1>1, <1>2

(* Every step of the launchers and of other programs preserves it.         *)
LEMMA LStep == LInv /\ [Next]_vars => LInv'
<1> SUFFICES ASSUME LInv, [Next]_vars PROVE LInv'  OBVIOUS
<1>1. CASE \E p \in Launchers : Create(p) \/ Dispose(p) \/ IOError(p) \/ Crash(p)
  BY <1>1, LCreate, LDispose
<1>2. CASE Swap \/ Delete  BY <1>2, LEnvironment
<1>3. CASE Terminated \/ UNCHANGED vars
  BY <1>3 DEF Terminated, vars, fsVars, bounds, LInv, TypeOK, LocalInv, PrivacyInv
<1> QED BY <1>1, <1>2, <1>3 DEF Next

-----------------------------------------------------------------------------

(* No two launchers hold the same name, in one directory or in two.        *)
NamesApart ==
    \A p, q \in Launchers :
        p # q /\ Holds(p) /\ Holds(q) => name[p] # name[q]

OInv == LInv /\ NamesApart /\ InUseStays

(* A new name differs from every name in use: in another directory because  *)
(* names are random, in this one because the name in use is taken.         *)
LEMMA OCreate ==
    ASSUME OInv, NEW p \in Launchers, Create(p)
    PROVE  (NamesApart /\ InUseStays)'
<1> USE TempParentAssumption
    DEF TempParentAssumption, OInv, LInv, TypeOK, LocalInv, PrivacyInv,
        NamesApart, InUseStays, Holds, Dirs, Nodes, Steps, Secured, Holding,
        HasHandle, fsVars, bounds, Goto
<1>1. CASE MkdirAll(p)
  BY <1>1 DEF MkdirAll, CreateParent, FreeInodes, Resolved, Refuse, RefuseUnopened
<1>2. CASE Lstat(p)          BY <1>2 DEF Lstat, Refuse, RefuseUnopened
<1>3. CASE Open(p)           BY <1>3 DEF Open, Resolved, Refuse, RefuseUnopened
<1>4. CASE Fstat(p)          BY <1>4 DEF Fstat, Refuse, RefuseAndClose
<1>5. CASE EnsureSecure(p)   BY <1>5 DEF EnsureSecure, Refuse, RefuseAndClose
<1>6. CASE Recheck(p)        BY <1>6 DEF Recheck, Refuse, RefuseAndClose
<1>7. CASE Mkdirat(p)        BY <1>7 DEF Mkdirat, Drawn
<1>8. CASE NameTaken(p)      BY <1>8 DEF NameTaken, Refuse, RefuseAndClose
<1>9. CASE ParentDeleted(p)  BY <1>9 DEF ParentDeleted, Refuse, RefuseAndClose
<1>10. CASE Verify(p)        BY <1>10 DEF Verify
<1>11. CASE Unlink(p)        BY <1>11 DEF Unlink, Forget
<1>12. CASE Fallback(p)      BY <1>12 DEF Fallback
<1> QED
  BY <1>1, <1>2, <1>3, <1>4, <1>5, <1>6, <1>7, <1>8, <1>9, <1>10, <1>11, <1>12
  DEF Create

(* A removal takes at most the name of its own launcher.                   *)
LEMMA ODispose ==
    ASSUME OInv, NEW p \in Launchers, Dispose(p) \/ IOError(p) \/ Crash(p)
    PROVE  (NamesApart /\ InUseStays)'
<1> USE TempParentAssumption
    DEF TempParentAssumption, OInv, LInv, TypeOK, LocalInv, PrivacyInv,
        NamesApart, InUseStays, Holds, Dirs, Nodes, Steps, Secured, Holding,
        HasHandle, fsVars, bounds, Goto
<1>1. CASE BeginCleanup(p)  BY <1>1 DEF BeginCleanup
<1>2. CASE Reverify(p)      BY <1>2 DEF Reverify, Abandon, Forget
<1>3. CASE Remove(p)        BY <1>3 DEF Remove, Abandon, Forget, Resolved
<1>4. CASE IOError(p)
  BY <1>4 DEF IOError, Refuse, RefuseUnopened, RefuseAndClose, Abandon, Forget
<1>5. CASE Crash(p)         BY <1>5 DEF Crash, Abandon, Holds
<1> QED
  BY <1>1, <1>2, <1>3, <1>4, <1>5
  DEF Dispose

(* Other programs take whole directories.                                  *)
LEMMA OEnvironment ==
    ASSUME OInv, Swap \/ Delete
    PROVE  (NamesApart /\ InUseStays)'
<1> USE TempParentAssumption
    DEF TempParentAssumption, OInv, LInv, TypeOK, LocalInv, PrivacyInv,
        NamesApart, InUseStays, Holds, Dirs, Nodes, Steps, Secured, Holding,
        HasHandle, fsVars, bounds, Goto
<1>1. CASE Swap    BY <1>1 DEF Swap
<1>2. CASE Delete  BY <1>2 DEF Delete
<1> QED
  BY <1>1, <1>2

(* Every step preserves the exclusive ownership of directories.            *)
LEMMA OStep == OInv /\ [Next]_vars => OInv'
<1> SUFFICES ASSUME OInv, [Next]_vars PROVE (NamesApart /\ InUseStays)'
  BY LStep DEF OInv
<1>1. CASE \E p \in Launchers : Create(p) \/ Dispose(p) \/ IOError(p) \/ Crash(p)
  BY <1>1, OCreate, ODispose
<1>2. CASE Swap \/ Delete  BY <1>2, OEnvironment
<1>3. CASE Terminated \/ UNCHANGED vars
  BY <1>3 DEF Terminated, vars, fsVars, bounds, OInv, NamesApart, InUseStays, Holds
<1> QED BY <1>1, <1>2, <1>3 DEF Next

-----------------------------------------------------------------------------

Calm == changes = 0 /\ faults = 0

(* Undisturbed, nothing is left behind, for a verified path stays verified. *)
CalmInv ==
    Calm => /\ litter = {}
            /\ \A p \in Launchers :
                 pc[p] \in {"mkdirat"} \cup Holding => path = handle[p]

AInv == OInv /\ Accounted /\ CalmInv

(* A new entry belongs to its maker until the unlink takes it.             *)
LEMMA ACreate ==
    ASSUME AInv, NEW p \in Launchers, Create(p)
    PROVE  (Accounted /\ CalmInv)'
<1> USE TempParentAssumption
    DEF TempParentAssumption, AInv, OInv, LInv, TypeOK, LocalInv, Calm, CalmInv,
        Accounted, Holds, Dirs, Nodes, Secured, Holding, HasHandle, fsVars,
        bounds, Goto
<1>1. CASE MkdirAll(p)
  BY <1>1 DEF MkdirAll, CreateParent, FreeInodes, Resolved, Refuse, RefuseUnopened
<1>2. CASE Lstat(p)          BY <1>2 DEF Lstat, Refuse, RefuseUnopened
<1>3. CASE Open(p)           BY <1>3 DEF Open, Resolved, Refuse, RefuseUnopened
<1>4. CASE Fstat(p)          BY <1>4 DEF Fstat, Refuse, RefuseAndClose
<1>5. CASE EnsureSecure(p)   BY <1>5 DEF EnsureSecure, Refuse, RefuseAndClose
<1>6. CASE Recheck(p)        BY <1>6 DEF Recheck, Refuse, RefuseAndClose
<1>7. CASE Mkdirat(p)        BY <1>7 DEF Mkdirat, Drawn
<1>8. CASE NameTaken(p)      BY <1>8 DEF NameTaken, Refuse, RefuseAndClose
<1>9. CASE ParentDeleted(p)  BY <1>9 DEF ParentDeleted, Refuse, RefuseAndClose
<1>10. CASE Verify(p)        BY <1>10 DEF Verify
<1>11. CASE Unlink(p)        BY <1>11 DEF Unlink, Forget
<1>12. CASE Fallback(p)      BY <1>12 DEF Fallback
<1> QED
  BY <1>1, <1>2, <1>3, <1>4, <1>5, <1>6, <1>7, <1>8, <1>9, <1>10, <1>11, <1>12
  DEF Create

(* The cleanup removes the entry or gives it up, and so does a crash.      *)
LEMMA ADispose ==
    ASSUME AInv, NEW p \in Launchers, Dispose(p) \/ IOError(p) \/ Crash(p)
    PROVE  (Accounted /\ CalmInv)'
<1> USE TempParentAssumption
    DEF TempParentAssumption, AInv, OInv, LInv, TypeOK, LocalInv, Calm, CalmInv,
        Accounted, Holds, Dirs, Nodes, Secured, Holding, HasHandle, fsVars,
        bounds, Goto
<1>1. CASE BeginCleanup(p)  BY <1>1 DEF BeginCleanup
<1>2. CASE Reverify(p)      BY <1>2 DEF Reverify, Abandon, Forget
<1>3. CASE Remove(p)        BY <1>3 DEF Remove, Abandon, Forget, Resolved
<1>4. CASE IOError(p)
  BY <1>4 DEF IOError, Refuse, RefuseUnopened, RefuseAndClose, Abandon, Forget
<1>5. CASE Crash(p)         BY <1>5 DEF Crash, Abandon, Holds
<1> QED
  BY <1>1, <1>2, <1>3, <1>4, <1>5
  DEF Dispose

(* Other programs disturb.                                                *)
LEMMA AEnvironment ==
    ASSUME AInv, Swap \/ Delete
    PROVE  (Accounted /\ CalmInv)'
<1> USE TempParentAssumption
    DEF TempParentAssumption, AInv, OInv, LInv, TypeOK, LocalInv, Calm, CalmInv,
        Accounted, Holds, Dirs, Nodes, Secured, Holding, HasHandle, fsVars,
        bounds, Goto
<1>1. CASE Swap    BY <1>1 DEF Swap
<1>2. CASE Delete  BY <1>2 DEF Delete
<1> QED
  BY <1>1, <1>2

(* Every step keeps each entry owned by a launcher or recorded as litter.  *)
LEMMA AStep == AInv /\ [Next]_vars => AInv'
<1> SUFFICES ASSUME AInv, [Next]_vars PROVE (Accounted /\ CalmInv)'
  BY OStep DEF AInv
<1>1. CASE \E p \in Launchers : Create(p) \/ Dispose(p) \/ IOError(p) \/ Crash(p)
  BY <1>1, ACreate, ADispose
<1>2. CASE Swap \/ Delete  BY <1>2, AEnvironment
<1>3. CASE Terminated \/ UNCHANGED vars
  BY <1>3 DEF Terminated, vars, fsVars, bounds, AInv, Accounted, CalmInv, Calm,
              Holds
<1> QED BY <1>1, <1>2, <1>3 DEF Next

(* There are no entries at first.                                          *)
LEMMA AInit == Init => AInv
<1>1. Init => NamesApart /\ InUseStays /\ Accounted /\ CalmInv
  BY DEF Init, NamesApart, InUseStays, Accounted, CalmInv, Holds, Holding
<1> QED BY <1>1, LInit DEF AInv, OInv

(* Every reachable state satisfies the inductive invariant.                *)
THEOREM Invariance == Spec => []AInv
BY AInit, AStep, PTL DEF Spec

-----------------------------------------------------------------------------

(* The variables keep their types, for every instance of the constants.    *)
THEOREM Typing == Spec => []TypeOK
<1>1. AInv => TypeOK  BY DEF AInv, OInv, LInv
<1> QED BY Invariance, <1>1, PTL

(* Any number of launchers of one user work in directories of their own.   *)
THEOREM ExclusiveThm == Spec => []Exclusive
<1>1. AInv => Exclusive  BY DEF AInv, OInv, NamesApart, Exclusive
<1> QED BY Invariance, <1>1, PTL

(* A directory in use goes only with the cache directory it lies in.       *)
THEOREM InUseStaysThm == Spec => []InUseStays
<1>1. AInv => InUseStays  BY DEF AInv, OInv
<1> QED BY Invariance, <1>1, PTL

(* No swap of the path makes the launcher create its directory in one that  *)
(* is not the user's own or not private.                                   *)
THEOREM PrivateParentThm == Spec => []PrivateParent
<1>1. AInv => PrivateParent
  BY DEF AInv, OInv, LInv, PrivacyInv, PrivateParent
<1> QED BY Invariance, <1>1, PTL

(* A handle is open exactly as long as the launcher needs it.              *)
THEOREM HandleBalanceThm == Spec => []HandleBalance
<1>1. AInv => HandleBalance
  BY DEF AInv, OInv, LInv, LocalInv, HandleBalance
<1> QED BY Invariance, <1>1, PTL

(* No entry of the cache directory is forgotten.                           *)
THEOREM AccountedThm == Spec => []Accounted
<1>1. AInv => Accounted  BY DEF AInv
<1> QED BY Invariance, <1>1, PTL

(* Without failures and other programs nothing is left in any directory.   *)
THEOREM TidyThm == Spec => []Tidy
<1>1. AInv => Tidy
  BY DEF AInv, Accounted, CalmInv, Calm, Tidy, Holds, Holding
<1> QED BY Invariance, <1>1, PTL

(* Each system call of a preparation takes one from the calls that are left. *)
LEMMA CreateCounts ==
    ASSUME TypeOK, NEW p \in Launchers, Create(p)
    PROVE  /\ CallsLeft(p)' \in Nat /\ CallsLeft(p)' < CallsLeft(p)
           /\ \A q \in Launchers \ {p} : CallsLeft(q)' = CallsLeft(q)
<1> USE TempParentAssumption
    DEF TempParentAssumption, TypeOK, CallsLeft, Steps, Goto
<1>1. CASE MkdirAll(p)
  BY <1>1 DEF MkdirAll, CreateParent, Refuse, RefuseUnopened
<1>2. CASE Lstat(p)          BY <1>2 DEF Lstat, Refuse, RefuseUnopened
<1>3. CASE Open(p)           BY <1>3 DEF Open, Refuse, RefuseUnopened
<1>4. CASE Fstat(p)          BY <1>4 DEF Fstat, Refuse, RefuseAndClose
<1>5. CASE EnsureSecure(p)   BY <1>5 DEF EnsureSecure, Refuse, RefuseAndClose
<1>6. CASE Recheck(p)        BY <1>6 DEF Recheck, Refuse, RefuseAndClose
<1>7. CASE Mkdirat(p)        BY <1>7 DEF Mkdirat
<1>8. CASE NameTaken(p)      BY <1>8 DEF NameTaken, Refuse, RefuseAndClose
<1>9. CASE ParentDeleted(p)  BY <1>9 DEF ParentDeleted, Refuse, RefuseAndClose
<1>10. CASE Verify(p)        BY <1>10 DEF Verify
<1>11. CASE Unlink(p)        BY <1>11 DEF Unlink, Forget
<1>12. CASE Fallback(p)      BY <1>12 DEF Fallback
<1> QED
  BY <1>1, <1>2, <1>3, <1>4, <1>5, <1>6, <1>7, <1>8, <1>9, <1>10, <1>11, <1>12
  DEF Create

(* Failures and removals add none, and a restart is only its own.          *)
LEMMA OthersCount ==
    ASSUME TypeOK, NEW p \in Launchers, Dispose(p) \/ IOError(p) \/ Crash(p)
    PROVE  /\ CallsLeft(p)' <= CallsLeft(p) \/ (Crash(p) /\ faults' > faults)
           /\ \A q \in Launchers \ {p} : CallsLeft(q)' = CallsLeft(q)
<1> USE TempParentAssumption
    DEF TempParentAssumption, TypeOK, CallsLeft, Steps, Goto
<1>1. CASE BeginCleanup(p)  BY <1>1 DEF BeginCleanup
<1>2. CASE Reverify(p)      BY <1>2 DEF Reverify, Forget
<1>3. CASE Remove(p)        BY <1>3 DEF Remove, Forget
<1>4. CASE IOError(p)
  BY <1>4 DEF IOError, Refuse, RefuseUnopened, RefuseAndClose, Forget
<1>5. CASE Crash(p)         BY <1>5 DEF Crash
<1> QED BY <1>1, <1>2, <1>3, <1>4, <1>5 DEF Dispose

(* A launcher makes at most ten system calls and Attempts draws until its   *)
(* preparation ends, between any actions of others; only a restart of its   *)
(* own gives it new ones.                                                  *)
THEOREM CallsRunOutThm == Spec => CallsRunOut
<1> DEFINE Counted(p) ==
             /\ CallsLeft(p) \in Nat
             /\ Create(p) => CallsLeft(p)' < CallsLeft(p)
             /\ CallsLeft(p)' <= CallsLeft(p) \/ (Crash(p) /\ faults' > faults)
<1>1. TypeOK => \A p \in Launchers : CallsLeft(p) \in Nat
  BY TempParentAssumption DEF TempParentAssumption, TypeOK, CallsLeft, Steps
<1>2. ASSUME TypeOK, [Next]_vars, NEW p \in Launchers  PROVE Counted(p)
  <2>1. CallsLeft(p) \in Nat  BY <1>1, <1>2
  <2>2. Create(p) => CallsLeft(p)' < CallsLeft(p)  BY <1>2, CreateCounts
  <2>3. CallsLeft(p)' <= CallsLeft(p) \/ (Crash(p) /\ faults' > faults)
    <3>1. ASSUME NEW q \in Launchers, Create(q)
          PROVE  CallsLeft(p)' <= CallsLeft(p)
      <4>1. CASE q = p
        <5>1. CallsLeft(p)' \in Nat /\ CallsLeft(p)' < CallsLeft(p)
          BY <1>2, <3>1, <4>1, CreateCounts
        <5> QED BY <2>1, <5>1
      <4>2. CASE q # p  BY <1>2, <2>1, <3>1, <4>2, CreateCounts
      <4> QED BY <4>1, <4>2
    <3>2. CASE Swap \/ Delete \/ Terminated \/ UNCHANGED vars
      <4>1. CallsLeft(p)' = CallsLeft(p)
        BY <3>2 DEF Swap, Delete, Terminated, vars, CallsLeft
      <4> QED BY <2>1, <4>1
    <3>3. ASSUME NEW q \in Launchers, Dispose(q) \/ IOError(q) \/ Crash(q)
          PROVE  CallsLeft(p)' <= CallsLeft(p) \/ (Crash(p) /\ faults' > faults)
      BY <1>2, <2>1, <3>3, OthersCount
    <3> QED BY <1>2, <3>1, <3>2, <3>3 DEF Next
  <2> QED BY <2>1, <2>2, <2>3
<1>3. TypeOK /\ [Next]_vars => [\A p \in Launchers : Counted(p)]_vars  BY <1>2
<1> QED BY Typing, <1>3, PTL DEF Spec, CallsRunOut

(***************************************************************************)
(* The refinement of TempDirs                                              *)
(***************************************************************************)

(* What a launcher owns stays the same unless it holds another directory.   *)
LEMMA OwnKept ==
    ASSUME \A q \in Launchers :
             /\ Holds(q)' <=> Holds(q)
             /\ Holds(q) => handle'[q] = handle[q] /\ name'[q] = name[q]
    PROVE  OwnBar' = OwnBar
BY DEF OwnBar

(* A launcher that stops holding its directory owns none, and the others    *)
(* what they did.                                                          *)
LEMMA OwnDropped ==
    ASSUME NEW p \in Launchers, ~Holds(p)',
           \A q \in Launchers \ {p} :
             /\ Holds(q)' <=> Holds(q)
             /\ Holds(q) => handle'[q] = handle[q] /\ name'[q] = name[q]
    PROVE  OwnBar' = [OwnBar EXCEPT ![p] = {}]
BY DEF OwnBar

(* Taking one name out of one directory removes at most one entry.         *)
LEMMA OneGone ==
    ASSUME NEW r, NEW n,
           \/ content' = content
           \/ \A d \in Dirs :
                content'[d] = IF d = r THEN content[d] \ {n} ELSE content[d]
    PROVE  \E gone \in SUBSET ExistingBar :
              /\ ExistingBar' = ExistingBar \ gone
              /\ \A d \in gone : d = <<r, n>>
<1> DEFINE gone == ExistingBar \ ExistingBar'
<1>1. ExistingBar' \subseteq ExistingBar
  <2>1. \A d \in Dirs : content'[d] \subseteq content[d]  OBVIOUS
  <2> QED BY <2>1 DEF ExistingBar
<1>2. ASSUME NEW d \in gone  PROVE d = <<r, n>>
  <2>1. PICK a \in Dirs, m \in Names : d = <<a, m>>  BY DEF ExistingBar
  <2>2. m \in content[a] /\ m \notin content'[a]  BY <2>1 DEF ExistingBar
  <2> QED BY <2>1, <2>2
<1>3. ExistingBar' = ExistingBar \ gone  BY <1>1
<1>4. gone \in SUBSET ExistingBar  OBVIOUS
<1> QED BY <1>2, <1>3, <1>4

(* Leaving entries alone, or taking the own name out of one directory, is   *)
(* all that a launcher does that gives its directory up.                   *)
LEMMA GiveUpBar ==
    ASSUME OInv, NEW p \in Launchers, Holds(p),
           OwnBar' = [OwnBar EXCEPT ![p] = {}],
           NEW r,
           \/ content' = content
           \/ \A d \in Dirs :
                content'[d] = IF d = r THEN content[d] \ {name[p]} ELSE content[d]
    PROVE  Promise!GiveUp(p)
<1>1. OwnBar[p] # {}  BY DEF OwnBar
<1>2. PICK gone \in SUBSET ExistingBar :
        /\ ExistingBar' = ExistingBar \ gone
        /\ \A d \in gone : d = <<r, name[p]>>
  BY OneGone
<1>3. ASSUME NEW q \in Launchers \ {p}  PROVE gone \cap OwnBar[q] = {}
  <2>1. Holds(q) => name[q] # name[p]  BY DEF OInv, NamesApart
  <2> QED BY <1>2, <2>1 DEF OwnBar
<1> QED BY <1>1, <1>2, <1>3 DEF Promise!GiveUp

(* mkdirat makes a directory that was not there and that nobody owns.      *)
LEMMA MakeBar ==
    ASSUME OInv, NEW p \in Launchers, Mkdirat(p)
    PROVE  Promise!Make(p)
<1> USE DEF OInv, LInv, TypeOK, LocalInv
<1>1. PICK n \in Drawn(p) \ content[handle[p]] :
        /\ content' = [content EXCEPT ![handle[p]] = @ \cup {n}]
        /\ name' = [name EXCEPT ![p] = n]
  BY DEF Mkdirat
<1>2. pc[p] = "mkdirat" /\ handle' = handle /\ pc' = [pc EXCEPT ![p] = "verify"]
  BY DEF Mkdirat, Goto
<1>3. handle[p] \in Dirs /\ n \in Names
  BY <1>1, <1>2 DEF Secured, Dirs, Drawn
<1>4. OwnBar[p] = {}  BY <1>2 DEF OwnBar, Holds, Holding
<1>5. OwnBar' = [OwnBar EXCEPT ![p] = {<<handle[p], n>>}]
  BY <1>1, <1>2 DEF OwnBar, Holds, Holding, Steps
<1>6. ExistingBar' = ExistingBar \cup {<<handle[p], n>>}
  BY <1>1, <1>3 DEF ExistingBar
<1>7. <<handle[p], n>> \in Promise!Places \ ExistingBar
  BY <1>1, <1>3 DEF ExistingBar, Promise!Places
<1>8. ASSUME NEW q \in Launchers  PROVE <<handle[p], n>> \notin OwnBar[q]
  <2>1. CASE Holds(q) /\ handle[q] = handle[p]
    <3>1. handle[p] \in live  BY DEF Mkdirat
    <3>2. name[q] \in content[handle[p]]  BY <2>1, <3>1 DEF InUseStays
    <3> QED BY <1>1, <2>1, <3>2 DEF OwnBar
  <2>2. CASE ~ (Holds(q) /\ handle[q] = handle[p])  BY <2>2 DEF OwnBar
  <2> QED BY <2>1, <2>2
<1> QED BY <1>4, <1>5, <1>6, <1>7, <1>8 DEF Promise!Make

(* The other system calls of the preparation neither make nor remove one,   *)
(* but for the unlink.                                                     *)
LEMMA CreateBar ==
    ASSUME OInv, NEW p \in Launchers, Create(p)
    PROVE  [Promise!Next]_(Promise!vars)
<1> USE DEF Goto, Holds, Holding, fsVars, bounds
<1>1. CASE Mkdirat(p)  BY <1>1, MakeBar DEF Promise!Next
<1>2. CASE Unlink(p)
  <2>1. \A d \in Dirs : content'[d] = IF d = handle[p] THEN content[d] \ {name[p]}
                                                       ELSE content[d]
    BY <1>2 DEF Unlink, Forget, OInv, LInv, TypeOK
  <2>2. OwnBar' = [OwnBar EXCEPT ![p] = {}]
    BY <1>2, OwnDropped DEF Unlink, Forget, OInv, LInv, TypeOK
  <2>3. Holds(p)  BY <1>2 DEF Unlink
  <2> QED BY <2>1, <2>2, <2>3, GiveUpBar DEF Promise!Next
<1>3. CASE MkdirAll(p) \/ Lstat(p) \/ Open(p) \/ Fstat(p) \/ EnsureSecure(p)
            \/ Recheck(p) \/ NameTaken(p) \/ ParentDeleted(p) \/ Verify(p)
            \/ Fallback(p)
  <2>1. content' = content
    <3>1. CASE CreateParent(p)
      BY <3>1 DEF CreateParent, FreeInodes, OInv, LInv, TypeOK, PrivacyInv, Dirs
    <3>2. CASE ~CreateParent(p)
      BY <1>3, <3>2
      DEF MkdirAll, Lstat, Open, Fstat, EnsureSecure, Recheck, NameTaken,
          ParentDeleted, Verify, Fallback
    <3> QED BY <3>1, <3>2
  <2>2. \A q \in Launchers :
          /\ Holds(q)' <=> Holds(q)
          /\ Holds(q) => handle'[q] = handle[q] /\ name'[q] = name[q]
    BY <1>3
    DEF MkdirAll, CreateParent, Lstat, Open, Fstat, EnsureSecure, Recheck,
        NameTaken, ParentDeleted, Verify, Fallback, Refuse, RefuseUnopened,
        RefuseAndClose, OInv, LInv, TypeOK, Steps
  <2>3. ExistingBar' = ExistingBar  BY <2>1 DEF ExistingBar
  <2> QED BY <2>2, <2>3, OwnKept DEF Promise!vars
<1> QED BY <1>1, <1>2, <1>3 DEF Create

(* The cleanup and the failures.                                           *)
LEMMA DisposeBar ==
    ASSUME OInv, NEW p \in Launchers, Dispose(p) \/ IOError(p) \/ Crash(p)
    PROVE  [Promise!Next]_(Promise!vars)
<1> USE DEF Goto, Holds, Holding, fsVars, bounds, OInv, LInv, TypeOK, Steps
<1>1. CASE Remove(p)
  <2>1. \A d \in Dirs : content'[d] = IF d = Resolved THEN content[d] \ {name[p]}
                                                      ELSE content[d]
    BY <1>1 DEF Remove
  <2>2. OwnBar' = [OwnBar EXCEPT ![p] = {}]
    BY <1>1, OwnDropped DEF Remove, Forget
  <2>3. Holds(p)  BY <1>1 DEF Remove
  <2> QED BY <2>1, <2>2, <2>3, GiveUpBar DEF Promise!Next
<1>2. CASE BeginCleanup(p) \/ Reverify(p) \/ IOError(p) \/ Crash(p)
  <2>1. content' = content
    BY <1>2 DEF BeginCleanup, Reverify, IOError, Crash
  <2>2. ExistingBar' = ExistingBar  BY <2>1 DEF ExistingBar
  <2>3. \A q \in Launchers \ {p} :
          /\ Holds(q)' <=> Holds(q)
          /\ Holds(q) => handle'[q] = handle[q] /\ name'[q] = name[q]
    BY <1>2
    DEF BeginCleanup, Reverify, IOError, Crash, Refuse, RefuseUnopened,
        RefuseAndClose, Abandon, Forget
  <2>4. CASE Holds(p) /\ ~Holds(p)'
    <3>1. OwnBar' = [OwnBar EXCEPT ![p] = {}]  BY <2>3, <2>4, OwnDropped
    <3> QED BY <2>1, <2>4, <3>1, GiveUpBar DEF Promise!Next
  <2>5. CASE ~ (Holds(p) /\ ~Holds(p)')
    <3>1. /\ Holds(p)' <=> Holds(p)
          /\ Holds(p) => handle'[p] = handle[p] /\ name'[p] = name[p]
      BY <1>2, <2>5
      DEF BeginCleanup, Reverify, IOError, Crash, Refuse, RefuseUnopened,
          RefuseAndClose, Abandon, Forget
    <3> QED BY <2>2, <2>3, <3>1, OwnKept DEF Promise!vars
  <2> QED BY <2>4, <2>5
<1> QED BY <1>1, <1>2 DEF Dispose

(* Other programs take whole parents away.                                 *)
LEMMA EnvironmentBar ==
    ASSUME OInv, Swap \/ Delete
    PROVE  [Promise!Next]_(Promise!vars)
<1>1. OwnBar' = OwnBar
  BY OwnKept DEF Swap, Delete, Holds
<1>2. CASE Swap
  <2>1. ExistingBar' = ExistingBar  BY <1>2 DEF Swap, ExistingBar
  <2> QED BY <1>1, <2>1 DEF Promise!vars
<1>3. CASE Delete
  <2>1. content' = [content EXCEPT ![path] = {}] /\ path \in Dirs
    BY <1>3 DEF Delete, OInv, LInv, TypeOK
  <2>2. ExistingBar' = {e \in ExistingBar : e[1] # path}
    BY <2>1 DEF ExistingBar, OInv, LInv, TypeOK
  <2> QED BY <1>1, <2>1, <2>2 DEF Promise!Next, Promise!LoseParent
<1> QED BY <1>2, <1>3

(* At first there are no directories.                                      *)
LEMMA InitBar == Init => Promise!Init
BY DEF Init, Promise!Init, OwnBar, ExistingBar, Holds, Holding

(* Whatever other programs do between two system calls, and whichever of    *)
(* them fail, the launchers implement the abstract temporary directories.  *)
THEOREM TempDirsRefinement == Spec => ImplementsTempDirs
<1>1. AInv /\ [Next]_vars => [Promise!Next]_(Promise!vars)
  <2> SUFFICES ASSUME OInv, [Next]_vars PROVE [Promise!Next]_(Promise!vars)
    BY DEF AInv
  <2>1. CASE \E p \in Launchers : Create(p) \/ Dispose(p) \/ IOError(p) \/ Crash(p)
    BY <2>1, CreateBar, DisposeBar
  <2>2. CASE Swap \/ Delete  BY <2>2, EnvironmentBar
  <2>3. CASE Terminated \/ UNCHANGED vars
    BY <2>3 DEF Terminated, vars, fsVars, Promise!vars, OwnBar, ExistingBar, Holds
  <2> QED BY <2>1, <2>2, <2>3 DEF Next
<1> QED
  BY Invariance, InitBar, <1>1, PTL DEF Spec, ImplementsTempDirs, Promise!Spec

(***************************************************************************)
(* Windows                                                                 *)
(***************************************************************************)

(* The types of the variables: a handle may be that of a link, too.        *)
WindowsTyping ==
    /\ path \in Nodes \cup {None}
    /\ live \in SUBSET Dirs
    /\ content \in [Dirs -> SUBSET Names]
    /\ pc \in [Launchers -> Steps]
    /\ info \in [Launchers -> Dirs \cup {None}]
    /\ handle \in [Launchers -> Nodes \cup {None}]
    /\ name \in [Launchers -> Names \cup {None}]
    /\ made \in [Launchers -> Dirs \cup {None}]
    /\ changes \in 0 .. MaxChanges
    /\ faults \in 0 .. MaxFaults
    /\ litter \in SUBSET (Dirs \X Names)

(* Where the handle has been found to be that of a directory.              *)
Checked == {"secure", "recheck", "mkdirat"} \cup Holding

(* What one launcher holds, by where it is; only directories that exist     *)
(* have entries.                                                           *)
WindowsLocal ==
    /\ \A p \in Launchers :
         /\ handle[p] # None <=> pc[p] \in HasHandle
         /\ name[p] # None <=> pc[p] \in Holding
         /\ made[p] # None <=> pc[p] \in Holding
         /\ pc[p] = "open" => info[p] \in Dirs
         /\ pc[p] \in Checked => handle[p] \in Dirs
    /\ \A d \in Dirs : content[d] # {} => d \in live

(* How many changes of the path a directory made elsewhere has taken: one   *)
(* for the path to lead away, and it does not lead back by itself, since    *)
(* the open handle keeps the inode from being used again.                  *)
Displaced ==
    \A p \in Launchers :
        /\ pc[p] = "mkdirat" /\ changes = 0 => path = handle[p]
        /\ pc[p] = "verify" /\ changes < 2 =>
             made[p] = handle[p] \/ (changes = 1 /\ path # handle[p])
        /\ pc[p] = "using" /\ changes < 2 => made[p] = handle[p]

(* An entry nobody owns was left behind.                                   *)
Orphans ==
    \A d \in Dirs : \A n \in content[d] :
        \/ <<d, n>> \in litter
        \/ \E p \in Launchers : Holds(p) /\ made[p] = d /\ name[p] = n

WInv == WindowsTyping /\ WindowsLocal /\ NamesApart /\ Displaced /\ Orphans


(* Any state of the cache path may be found at first, and no directory.    *)
LEMMA WInit == WindowsInit => WInv
BY TempParentAssumption
   DEF TempParentAssumption, WindowsInit, Init, WInv, WindowsTyping,
       WindowsLocal, NamesApart, Displaced, Orphans, Holds, Dirs, Nodes, Steps,
       Checked, Holding, HasHandle

(* The checks before the directory is made.                                *)
LEMMA WChecks ==
    ASSUME WInv, NEW p \in Launchers,
           Shared(p) \/ OpenReparsePoint(p) \/ SecureNothing(p)
    PROVE  WInv'
<1> USE TempParentAssumption
    DEF TempParentAssumption, WInv, WindowsTyping, WindowsLocal, NamesApart,
        Displaced, Orphans, Holds, Dirs, Nodes, Steps, Checked, Holding,
        HasHandle, fsVars, bounds, Goto
<1>1. CASE MkdirAll(p) /\ UNCHANGED made
  BY <1>1 DEF MkdirAll, CreateParent, FreeInodes, Resolved, Refuse, RefuseUnopened
<1>2. CASE Lstat(p) /\ UNCHANGED made
  BY <1>2 DEF Lstat, Refuse, RefuseUnopened
<1>3. CASE Fstat(p) /\ UNCHANGED made
  BY <1>3 DEF Fstat, Refuse, RefuseAndClose
<1>4. CASE Recheck(p) /\ UNCHANGED made
  BY <1>4 DEF Recheck, Refuse, RefuseAndClose
<1>5. CASE Fallback(p) /\ UNCHANGED made      BY <1>5 DEF Fallback
<1>6. CASE BeginCleanup(p) /\ UNCHANGED made  BY <1>6 DEF BeginCleanup
<1>7. CASE OpenReparsePoint(p)
  BY <1>7 DEF OpenReparsePoint, Refuse, RefuseUnopened
<1>8. CASE SecureNothing(p)     BY <1>8 DEF SecureNothing
<1> QED
  BY <1>1, <1>2, <1>3, <1>4, <1>5, <1>6, <1>7, <1>8 DEF Shared

(* The directory is made where the path leads, under a name nobody uses.   *)
LEMMA WMake ==
    ASSUME WInv, NEW p \in Launchers, MkdirTemp(p) \/ VerifyMade(p)
    PROVE  WInv'
<1> USE TempParentAssumption
    DEF TempParentAssumption, WInv, WindowsTyping, WindowsLocal, NamesApart,
        Displaced, Orphans, Holds, Dirs, Nodes, Steps, Checked, Holding,
        HasHandle, fsVars, bounds, Goto
<1>1. CASE MkdirTemp(p)
  BY <1>1 DEF MkdirTemp, DrawnHere, Standing, Resolved, Refuse, RefuseAndClose
<1>2. CASE VerifyMade(p)  BY <1>2 DEF VerifyMade
<1> QED BY <1>1, <1>2

(* os.RemoveAll takes one name out of one directory.                       *)
LEMMA RemovalShrinks ==
    ASSUME NEW p, RemoveAll(p), NEW d \in Dirs
    PROVE  /\ content'[d] \subseteq content[d]
           /\ d = Resolved => name[p] \notin content'[d]
<1>1. content'[d] = IF d = Resolved THEN content[d] \ {name[p]} ELSE content[d]
  BY DEF RemoveAll
<1> QED BY <1>1

(* A removal takes the name of its own launcher, from whatever directory    *)
(* the path leads to; elsewhere the entry is left.                         *)
LEMMA WRemoveAll ==
    ASSUME WInv, NEW p \in Launchers, Holds(p), RemoveAll(p),
           NEW to \in {"fallback", "done"}, ForgetMade(p, to), UNCHANGED bounds
    PROVE  WInv'
<1> USE TempParentAssumption
    DEF TempParentAssumption, WInv, WindowsTyping, WindowsLocal, NamesApart,
        Displaced, Orphans, Holds, Dirs, Nodes, Steps, Checked, Holding,
        HasHandle, fsVars, bounds, Goto
<1>1. litter' \in SUBSET (Dirs \X Names)
  <2>1. CASE Resolved = made[p]  BY <2>1 DEF RemoveAll
  <2>2. CASE Resolved # made[p]  BY <2>2 DEF RemoveAll, Leave
  <2> QED BY <2>1, <2>2
<1>2. content' \in [Dirs -> SUBSET Names]  BY DEF RemoveAll
<1>3. WindowsTyping'  BY <1>1, <1>2 DEF RemoveAll, Forget, ForgetMade
<1>4. \A d \in Dirs : content'[d] \subseteq content[d]  BY RemovalShrinks
<1>5. \A d \in Dirs : d = Resolved => name[p] \notin content'[d]
  BY RemovalShrinks
<1>6. WindowsLocal'
  <2>1. \A d \in Dirs : content'[d] # {} => d \in live'
    BY <1>4 DEF RemoveAll
  <2> QED BY <2>1 DEF Forget, ForgetMade
<1>7. NamesApart'  BY DEF Forget, ForgetMade
<1>8. Displaced'   BY DEF RemoveAll, Forget, ForgetMade
<1>9. Orphans'
  <2> SUFFICES ASSUME NEW d \in Dirs, NEW n \in content'[d],
                      \A q \in Launchers :
                        ~ (Holds(q)' /\ made'[q] = d /\ name'[q] = n)
               PROVE  <<d, n>> \in litter'
    OBVIOUS
  <2>1. n \in content[d]  BY <1>4
  <2>2. CASE \E q \in Launchers : Holds(q) /\ made[q] = d /\ name[q] = n
    <3>1. made[p] = d /\ name[p] = n  BY <2>2 DEF Forget, ForgetMade
    <3>2. Resolved # made[p]  BY <1>5, <3>1
    <3> QED BY <2>1, <3>1, <3>2 DEF RemoveAll, Leave
  <2>3. CASE <<d, n>> \in litter
    <3>1. CASE Resolved = made[p]
      <4>1. <<d, n>> # <<Resolved, name[p]>>  BY <1>5
      <4> QED BY <2>3, <3>1, <4>1 DEF RemoveAll
    <3>2. CASE Resolved # made[p]  BY <2>3, <3>2 DEF RemoveAll, Leave
    <3> QED BY <3>1, <3>2
  <2> QED BY <2>1, <2>2, <2>3
<1> QED BY <1>3, <1>6, <1>7, <1>8, <1>9

(* The way back from a changed parent, and the cleanup.                    *)
LEMMA WRemove ==
    ASSUME WInv, NEW p \in Launchers, Undo(p) \/ Cleanup(p)
    PROVE  WInv'
<1>1. CASE Undo(p)  BY <1>1, WRemoveAll DEF Undo, Holds, Holding
<1>2. CASE Cleanup(p) /\ pc[p] = "remove"
  BY <1>2, WRemoveAll DEF Cleanup, Holds, Holding
<1>3. CASE Cleanup(p) /\ pc[p] = "reverify"
  <2> USE TempParentAssumption
      DEF TempParentAssumption, WInv, WindowsTyping, WindowsLocal, NamesApart,
          Displaced, Orphans, Holds, Dirs, Nodes, Steps, Checked, Holding,
          HasHandle, fsVars, bounds, Goto
  <2> QED BY <1>3 DEF Cleanup, Leave, Forget, ForgetMade
<1> QED BY <1>1, <1>2, <1>3 DEF Cleanup

(* Failures leave the entry behind.                                        *)
LEMMA WFailures ==
    ASSUME WInv, NEW p \in Launchers, CallFails(p) \/ Killed(p)
    PROVE  WInv'
<1> USE TempParentAssumption
    DEF TempParentAssumption, WInv, WindowsTyping, WindowsLocal, NamesApart,
        Displaced, Orphans, Holds, Dirs, Nodes, Steps, Checked, Holding,
        HasHandle, fsVars, bounds, Goto
<1>1. CASE CallFails(p)
  BY <1>1
  DEF CallFails, Refuse, RefuseUnopened, RefuseAndClose, Leave, Forget, ForgetMade
<1>2. CASE Killed(p)     BY <1>2 DEF Killed, Leave
<1> QED BY <1>1, <1>2

(* Other programs take whole directories.                                  *)
LEMMA WEnvironment ==
    ASSUME WInv, (Swap \/ Delete \/ Terminated) /\ UNCHANGED made
    PROVE  WInv'
<1> USE TempParentAssumption
    DEF TempParentAssumption, WInv, WindowsTyping, WindowsLocal, NamesApart,
        Displaced, Orphans, Holds, Dirs, Nodes, Steps, Checked, Holding,
        HasHandle, fsVars, bounds, Goto
<1>1. CASE Swap /\ UNCHANGED made        BY <1>1 DEF Swap
<1>2. CASE Delete /\ UNCHANGED made      BY <1>2 DEF Delete
<1>3. CASE Terminated /\ UNCHANGED made  BY <1>3 DEF Terminated, vars
<1> QED BY <1>1, <1>2, <1>3

(* Every step preserves the invariant.                                     *)
LEMMA WStep == WInv /\ [WindowsNext]_allVars => WInv'
<1> SUFFICES ASSUME WInv, [WindowsNext]_allVars PROVE WInv'  OBVIOUS
<1>1. CASE \E p \in Launchers :
             \/ Shared(p) \/ OpenReparsePoint(p) \/ SecureNothing(p)
             \/ MkdirTemp(p) \/ VerifyMade(p) \/ Undo(p) \/ Cleanup(p)
             \/ CallFails(p) \/ Killed(p)
  BY <1>1, WChecks, WMake, WRemove, WFailures
<1>2. CASE (Swap \/ Delete \/ Terminated) /\ UNCHANGED made
  BY <1>2, WEnvironment
<1>3. CASE UNCHANGED allVars
  BY <1>3 DEF allVars, vars, fsVars, bounds, WInv, WindowsTyping, WindowsLocal,
              NamesApart, Displaced, Orphans, Holds
<1> QED BY <1>1, <1>2, <1>3 DEF WindowsNext

(* Every reachable state satisfies it.                                     *)
THEOREM WindowsInvariance == WindowsSpec => []WInv
BY WInit, WStep, PTL DEF WindowsSpec

(* However many launchers and names there are, a directory in use lies in   *)
(* the parent that was verified, unless that was replaced and put back.    *)
THEOREM MadeWhereVerifiedThm == WindowsSpec => []MadeWhereVerified
<1>1. WInv => MadeWhereVerified  BY DEF WInv, Displaced, MadeWhereVerified
<1> QED BY WindowsInvariance, <1>1, PTL

(* No entry is forgotten and none has two owners.                          *)
THEOREM MadeAccountedThm == WindowsSpec => []MadeAccounted
<1>1. ASSUME WInv, NEW d \in Dirs, NEW n \in content[d]
      PROVE  LET owners == {p \in Launchers :
                              Holds(p) /\ made[p] = d /\ name[p] = n} IN
             /\ owners = {} => <<d, n>> \in litter
             /\ \A p, q \in owners : p = q
  <2>1. \A p, q \in Launchers :
          Holds(p) /\ Holds(q) /\ name[p] = n /\ name[q] = n => p = q
    BY <1>1 DEF WInv, NamesApart
  <2>2. \/ <<d, n>> \in litter
        \/ \E p \in Launchers : Holds(p) /\ made[p] = d /\ name[p] = n
    BY <1>1 DEF WInv, Orphans
  <2> QED BY <2>1, <2>2
<1>2. WInv => MadeAccounted  BY <1>1 DEF MadeAccounted
<1> QED BY WindowsInvariance, <1>2, PTL

(* What a step leaves standing: a removal takes the name of its own         *)
(* launcher only, a new directory gets an inode that does not exist, and    *)
(* other programs take the whole directory.                                *)
LEMMA WStanding ==
    ASSUME WInv, WindowsNext, NEW p \in Launchers,
           Standing(p), Holds(p)', made[p] \in live'
    PROVE  Standing(p)'
<1> USE TempParentAssumption
    DEF TempParentAssumption, WInv, WindowsTyping, WindowsLocal, NamesApart,
        Standing, Holds, Dirs, Nodes, Steps, Holding, fsVars, bounds, Goto
<1>1. ASSUME NEW q \in Launchers, Shared(q)  PROVE Standing(p)'
  BY <1>1 DEF Shared, MkdirAll, CreateParent, FreeInodes, Lstat, Fstat, Recheck,
              Fallback, BeginCleanup, Refuse, RefuseUnopened, RefuseAndClose
<1>2. ASSUME NEW q \in Launchers,
             OpenReparsePoint(q) \/ SecureNothing(q) \/ MkdirTemp(q) \/ VerifyMade(q)
      PROVE  Standing(p)'
  BY <1>2 DEF OpenReparsePoint, SecureNothing, MkdirTemp, VerifyMade, Refuse,
             RefuseUnopened, RefuseAndClose
<1>3. ASSUME NEW q \in Launchers, Undo(q) \/ Cleanup(q)  PROVE Standing(p)'
  <2>1. CASE q = p  BY <1>3, <2>1 DEF Undo, Cleanup, ForgetMade, Forget
  <2>2. CASE q # p
    BY <1>3, <2>2 DEF Undo, Cleanup, RemoveAll, Forget, ForgetMade
  <2> QED BY <2>1, <2>2
<1>4. ASSUME NEW q \in Launchers, CallFails(q) \/ Killed(q)  PROVE Standing(p)'
  BY <1>4
  DEF CallFails, Killed, Refuse, RefuseUnopened, RefuseAndClose, Forget, ForgetMade
<1>5. CASE (Swap \/ Delete \/ Terminated) /\ UNCHANGED made
  BY <1>5 DEF Swap, Delete, Terminated, vars
<1> QED BY <1>1, <1>2, <1>3, <1>4, <1>5 DEF WindowsNext

(* No launcher removes the directory of another, not even by a path that    *)
(* leads elsewhere by now.                                                 *)
THEOREM OthersStayThm == WindowsSpec => OthersStay
<1>1. WInv /\ [WindowsNext]_allVars =>
        [\A p \in Launchers :
           Standing(p) /\ Holds(p)' /\ made[p] \in live' => Standing(p)']_allVars
  BY WStanding
<1> QED BY WindowsInvariance, <1>1, PTL DEF WindowsSpec, OthersStay

(***************************************************************************)
(* The refinement of TempDirs on Windows                                   *)
(***************************************************************************)

(* What the launchers own when none of them changes what it holds.         *)
LEMMA MadeKept ==
    ASSUME \A q \in Launchers :
             /\ Holds(q)' <=> Holds(q)
             /\ Holds(q) => made'[q] = made[q] /\ name'[q] = name[q]
    PROVE  OwnMade' = OwnMade
BY DEF OwnMade

(* What they own when one of them stops holding its directory.             *)
LEMMA MadeDropped ==
    ASSUME NEW p \in Launchers, ~Holds(p)',
           \A q \in Launchers \ {p} :
             /\ Holds(q)' <=> Holds(q)
             /\ Holds(q) => made'[q] = made[q] /\ name'[q] = name[q]
    PROVE  OwnMade' = [OwnMade EXCEPT ![p] = {}]
BY DEF OwnMade

(* Giving up a directory, wherever the path leads when it is removed.      *)
LEMMA WGiveUpBar ==
    ASSUME WInv, NEW p \in Launchers, Holds(p),
           OwnMade' = [OwnMade EXCEPT ![p] = {}],
           NEW r,
           \/ content' = content
           \/ \A d \in Dirs :
                content'[d] = IF d = r THEN content[d] \ {name[p]} ELSE content[d]
    PROVE  WindowsPromise!GiveUp(p)
<1>1. OwnMade[p] # {}  BY DEF OwnMade
<1>2. PICK gone \in SUBSET ExistingBar :
        /\ ExistingBar' = ExistingBar \ gone
        /\ \A d \in gone : d = <<r, name[p]>>
  BY OneGone
<1>3. ASSUME NEW q \in Launchers \ {p}  PROVE gone \cap OwnMade[q] = {}
  <2>1. Holds(q) => name[q] # name[p]  BY DEF WInv, NamesApart
  <2> QED BY <1>2, <2>1 DEF OwnMade
<1> QED BY <1>1, <1>2, <1>3 DEF WindowsPromise!GiveUp

(* os.MkdirTemp makes a directory that was not there and that nobody owns. *)
LEMMA WMakeBar ==
    ASSUME WInv, NEW p \in Launchers, MkdirTemp(p), pc'[p] = "verify"
    PROVE  WindowsPromise!Make(p)
<1> USE DEF WInv, WindowsTyping
<1>1. pc[p] = "mkdirat" /\ Resolved \in live
  BY DEF MkdirTemp, Refuse, RefuseAndClose, Goto
<1>2. pc' = [pc EXCEPT ![p] = "verify"] /\ made' = [made EXCEPT ![p] = Resolved]
  BY DEF MkdirTemp, Refuse, RefuseAndClose, Goto
<1>3. PICK n \in DrawnHere(p) \ content[Resolved] :
        /\ content' = [content EXCEPT ![Resolved] = @ \cup {n}]
        /\ name' = [name EXCEPT ![p] = n]
  BY DEF MkdirTemp, Refuse, RefuseAndClose, Goto
<1>4. Resolved \in Dirs /\ n \in Names  BY <1>1, <1>3 DEF DrawnHere
<1>5. OwnMade[p] = {}  BY <1>1 DEF OwnMade, Holds, Holding
<1>6. OwnMade' = [OwnMade EXCEPT ![p] = {<<Resolved, n>>}]
  BY <1>1, <1>2, <1>3 DEF OwnMade, Holds, Holding, Steps
<1>7. ExistingBar' = ExistingBar \cup {<<Resolved, n>>}
  BY <1>3, <1>4 DEF ExistingBar
<1>8. <<Resolved, n>> \in WindowsPromise!Places \ ExistingBar
  BY <1>3, <1>4 DEF ExistingBar, WindowsPromise!Places
<1>9. ASSUME NEW q \in Launchers  PROVE <<Resolved, n>> \notin OwnMade[q]
  <2>1. CASE q = p  BY <1>5, <2>1
  <2>2. CASE q # p /\ Holds(q) /\ name[q] = n
    <3>1. name[q] \in content[Resolved]
      BY <1>3, <2>2 DEF DrawnHere, Standing
    <3> QED BY <1>3, <2>2, <3>1
  <2>3. CASE ~ (Holds(q) /\ name[q] = n)  BY <2>3 DEF OwnMade
  <2> QED BY <2>1, <2>2, <2>3
<1> QED BY <1>5, <1>6, <1>7, <1>8, <1>9 DEF WindowsPromise!Make

(* The steps of one launcher.                                              *)
LEMMA WLauncherBar ==
    ASSUME WInv, NEW p \in Launchers,
           \/ Shared(p) \/ OpenReparsePoint(p) \/ SecureNothing(p)
           \/ MkdirTemp(p) \/ VerifyMade(p) \/ Undo(p) \/ Cleanup(p)
           \/ CallFails(p) \/ Killed(p)
    PROVE  [WindowsPromise!Next]_(WindowsPromise!vars)
<1> USE DEF Goto, Holds, Holding, fsVars, bounds, WInv, WindowsTyping, Steps
<1>1. CASE MkdirTemp(p) /\ pc'[p] = "verify"
  BY <1>1, WMakeBar DEF WindowsPromise!Next
<1>2. CASE (Undo(p) \/ Cleanup(p)) /\ RemoveAll(p)
  <2>1. \A d \in Dirs : content'[d] = IF d = Resolved THEN content[d] \ {name[p]}
                                                      ELSE content[d]
    BY <1>2 DEF RemoveAll
  <2>2. CASE Holds(p)'
    <3>1. content' = content /\ UNCHANGED <<handle, name, made>>
             /\ \A q \in Launchers : Holds(q)' <=> Holds(q)
      BY <1>2, <2>2 DEF Undo, Cleanup, ForgetMade, Forget
    <3>2. ExistingBar' = ExistingBar  BY <3>1 DEF ExistingBar
    <3> QED BY <3>1, <3>2, MadeKept DEF WindowsPromise!vars
  <2>3. CASE ~Holds(p)'
    <3>1. OwnMade' = [OwnMade EXCEPT ![p] = {}]
      BY <1>2, <2>3, MadeDropped DEF Undo, Cleanup, Forget, ForgetMade
    <3>2. Holds(p)  BY <1>2 DEF Undo, Cleanup
    <3> QED BY <2>1, <3>1, <3>2, WGiveUpBar DEF WindowsPromise!Next
  <2> QED BY <2>2, <2>3
<1>3. CASE \/ Shared(p) \/ OpenReparsePoint(p) \/ SecureNothing(p)
           \/ MkdirTemp(p) /\ pc'[p] # "verify"
           \/ Cleanup(p) /\ ~RemoveAll(p)
           \/ VerifyMade(p) \/ CallFails(p) \/ Killed(p)
  <2>1. content' = content
    <3>1. CASE CreateParent(p)
      BY <3>1 DEF CreateParent, FreeInodes, WindowsLocal, Dirs
    <3>2. CASE ~CreateParent(p)
      BY <1>3, <3>2
      DEF Shared, MkdirAll, Lstat, Fstat, Recheck, Fallback, BeginCleanup,
          OpenReparsePoint, SecureNothing, MkdirTemp, VerifyMade, Cleanup,
          CallFails, Killed
    <3> QED BY <3>1, <3>2
  <2>2. ExistingBar' = ExistingBar  BY <2>1 DEF ExistingBar
  <2>3. \A q \in Launchers \ {p} :
          /\ Holds(q)' <=> Holds(q)
          /\ Holds(q) => made'[q] = made[q] /\ name'[q] = name[q]
    BY <1>3
    DEF Shared, MkdirAll, CreateParent, Lstat, Fstat, Recheck, Fallback,
        BeginCleanup, OpenReparsePoint, SecureNothing, MkdirTemp, VerifyMade,
        Cleanup, CallFails, Killed, Refuse, RefuseUnopened,
        RefuseAndClose, Leave, Forget, ForgetMade
  <2>4. CASE Holds(p) /\ ~Holds(p)'
    <3>1. OwnMade' = [OwnMade EXCEPT ![p] = {}]  BY <2>3, <2>4, MadeDropped
    <3> QED BY <2>1, <2>4, <3>1, WGiveUpBar DEF WindowsPromise!Next
  <2>5. CASE ~ (Holds(p) /\ ~Holds(p)')
    <3>1. /\ Holds(p)' <=> Holds(p)
          /\ Holds(p) => made'[p] = made[p] /\ name'[p] = name[p]
      BY <1>3, <2>5
      DEF Shared, MkdirAll, CreateParent, Lstat, Fstat, Recheck, Fallback,
          BeginCleanup, OpenReparsePoint, SecureNothing, MkdirTemp, VerifyMade,
          Cleanup, CallFails, Killed, Refuse, RefuseUnopened,
          RefuseAndClose, Leave, Forget, ForgetMade
    <3> QED BY <2>2, <2>3, <3>1, MadeKept DEF WindowsPromise!vars
  <2> QED BY <2>4, <2>5
<1>4. Undo(p) => RemoveAll(p)  BY DEF Undo
<1> QED BY <1>1, <1>2, <1>3, <1>4

(* Other programs.                                                         *)
LEMMA WEnvironmentBar ==
    ASSUME WInv, (Swap \/ Delete \/ Terminated) /\ UNCHANGED made
    PROVE  [WindowsPromise!Next]_(WindowsPromise!vars)
<1>1. OwnMade' = OwnMade
  BY MadeKept DEF Swap, Delete, Terminated, vars, Holds
<1>2. CASE Swap \/ Terminated
  <2>1. ExistingBar' = ExistingBar
    BY <1>2 DEF Swap, Terminated, vars, fsVars, ExistingBar
  <2> QED BY <1>1, <2>1 DEF WindowsPromise!vars
<1>3. CASE Delete
  <2>1. content' = [content EXCEPT ![path] = {}] /\ path \in Dirs
    BY <1>3 DEF Delete, WInv, WindowsTyping
  <2>2. ExistingBar' = {e \in ExistingBar : e[1] # path}
    BY <2>1 DEF ExistingBar, WInv, WindowsTyping
  <2> QED BY <1>1, <2>1, <2>2 DEF WindowsPromise!Next, WindowsPromise!LoseParent
<1> QED BY <1>2, <1>3

(* Although it makes and removes directories by path, the launcher keeps    *)
(* the promise of the Unix one on Windows, too: a directory may lie in      *)
(* another parent, but it is new, one's own, and only removed by its owner. *)
THEOREM WindowsTempDirsRefinement == WindowsSpec => WindowsImplementsTempDirs
<1>1. WindowsInit => WindowsPromise!Init
  BY DEF WindowsInit, Init, WindowsPromise!Init, OwnMade, ExistingBar, Holds,
         Holding
<1>2. WInv /\ [WindowsNext]_allVars =>
        [WindowsPromise!Next]_(WindowsPromise!vars)
  <2> SUFFICES ASSUME WInv, [WindowsNext]_allVars
               PROVE  [WindowsPromise!Next]_(WindowsPromise!vars)
    OBVIOUS
  <2>1. CASE \E p \in Launchers :
               \/ Shared(p) \/ OpenReparsePoint(p) \/ SecureNothing(p)
               \/ MkdirTemp(p) \/ VerifyMade(p) \/ Undo(p) \/ Cleanup(p)
               \/ CallFails(p) \/ Killed(p)
    BY <2>1, WLauncherBar
  <2>2. CASE (Swap \/ Delete \/ Terminated) /\ UNCHANGED made
    BY <2>2, WEnvironmentBar
  <2>3. CASE UNCHANGED allVars
    BY <2>3 DEF allVars, vars, fsVars, WindowsPromise!vars, OwnMade, ExistingBar,
                Holds
  <2> QED BY <2>1, <2>2, <2>3 DEF WindowsNext
<1> QED
  BY WindowsInvariance, <1>1, <1>2, PTL
  DEF WindowsSpec, WindowsImplementsTempDirs, WindowsPromise!Spec

=============================================================================
