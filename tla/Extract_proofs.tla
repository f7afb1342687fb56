--------------------------- MODULE Extract_proofs ---------------------------
(***************************************************************************)
(* Machine-checked proofs about Extract, for archives of any length and     *)
(* with any entries, any limit, any width of the sizes, and any failures.   *)
(***************************************************************************)
EXTENDS Extract, TLAPS

(* Where an entry has been chosen, and where its copy has ended well.      *)
Copied == {"close", "closestream", "chmod", "done"}
Taken  == {"open", "create", "copy"} \cup Copied

Unsuitable(i) == i \in DOMAIN archive.entries => ~IsExecutable(archive.entries[i])

(* What the loop over the entries has established.                         *)
ScanInv ==
    /\ pc \in {"scan"} \cup Taken =>
         /\ archive.pinned /\ archive.format # "other"
         /\ \A i \in 1 .. next - 1 : Unsuitable(i)
    /\ pc \in Taken => /\ next \in DOMAIN archive.entries
                       /\ IsExecutable(Entry)
                       /\ ValidSize(Entry.size)
    /\ pc = "mkdir" => archive.pinned
    /\ pc \in {"verify", "mkdir"} => next = 1

(* What has been written, and what is open.                                *)
FileInv ==
    /\ pc \in {"verify", "mkdir"} => dir = "none" /\ file = NoFile
    /\ pc = "failed" =>
         dir = "disowned" \/ (dir \in {"none", "removed"} /\ file = NoFile)
    /\ pc \in {"scan", "cleanup"} \cup Taken => dir = "present"
    /\ pc \in {"scan", "open", "create"} => file = NoFile
    /\ pc = "copy" => file \in 0 .. Max + 1 /\ file <= Entry.data
    /\ pc \in {"cleanup", "failed"} => file <= Max + 1
    /\ pc \in Copied => file = Entry.data /\ file <= Max
    /\ out => pc \in {"copy", "close"}
    /\ stream => pc \in {"create", "copy", "close", "closestream"}
    /\ pc \in {"cleanup", "failed"} => err # "none"

(* An archive that deserves to be accepted.                                *)
Good ==
    /\ archive.pinned /\ archive.format # "other"
    /\ \E i \in Candidates :
         /\ Chosen(i)
         /\ archive.entries[i].size = archive.entries[i].data
         /\ archive.entries[i].data <= Max

RefusalInv == pc \in {"cleanup", "failed"} /\ ~faulted => ~Good

IInv == TypeOK /\ ScanInv /\ FileInv /\ RefusalInv

(* The archive is a record whose entries have the fields of `Entries'.     *)
LEMMA ArchiveFacts ==
    ASSUME TypeOK
    PROVE  /\ archive.pinned \in BOOLEAN
           /\ archive.entries \in Seq(Entries)
           /\ Len(archive.entries) \in 0 .. MaxEntries
           /\ DOMAIN archive.entries = 1 .. Len(archive.entries)
           /\ \A i \in DOMAIN archive.entries :
                /\ archive.entries[i].size \in 0 .. 2 * Half - 1
                /\ archive.entries[i].data \in Nat
                /\ archive.entries[i].named \in BOOLEAN
<1>1. PICK n \in 0 .. MaxEntries : archive.entries \in [1 .. n -> Entries]
  BY DEF TypeOK, Archives
<1>2. /\ archive.entries \in Seq(Entries)
      /\ Len(archive.entries) = n
      /\ DOMAIN archive.entries = 1 .. n
  BY <1>1, ExtractAssumption DEF ExtractAssumption
<1>3. \A i \in DOMAIN archive.entries : archive.entries[i] \in Entries
  BY <1>1, <1>2
<1>4. archive.pinned \in BOOLEAN  BY DEF TypeOK, Archives
<1> QED BY <1>2, <1>3, <1>4, ExtractAssumption DEF ExtractAssumption, Sizes

(* The invariant holds before the archive is opened.                       *)
LEMMA IInit == Init => IInv
<1> SUFFICES ASSUME Init PROVE IInv  OBVIOUS
<1>1. TypeOK
  <2>1. 1 \in 1 .. MaxEntries + 1
    BY ExtractAssumption DEF ExtractAssumption
  <2> QED BY <2>1 DEF Init, TypeOK, Steps, Errors, Dirs
<1>2. ScanInv /\ FileInv /\ RefusalInv
  BY DEF Init, ScanInv, FileInv, RefusalInv, Taken, Copied
<1> QED BY <1>1, <1>2 DEF IInv

(* The types are preserved by every step.                                  *)
LEMMA TypeStep == IInv /\ [Next]_vars => TypeOK'
<1> SUFFICES ASSUME IInv, [Next]_vars PROVE TypeOK'  OBVIOUS
<1>1. Len(archive.entries) \in 0 .. MaxEntries /\ MaxEntries \in Nat
  BY ArchiveFacts, ExtractAssumption DEF ExtractAssumption, IInv
<1> USE <1>1 DEF IInv, TypeOK, Steps, Errors, Dirs, NoFile, Return, Fail, More
<1>2. CASE VerifyChecksum \/ MakeDir  BY <1>2 DEF VerifyChecksum, MakeDir
<1>3. CASE Skip \/ NotFound
  <2>1. CASE Skip
    <3>1. next + 1 \in 1 .. MaxEntries + 1  BY <2>1 DEF Skip
    <3> QED BY <2>1, <3>1 DEF Skip
  <2>2. CASE NotFound  BY <2>2 DEF NotFound
  <2> QED BY <1>3, <2>1, <2>2
<1>4. CASE Validate                   BY <1>4 DEF Validate
<1>5. CASE OpenStream \/ CreateFile
  <2>1. CASE OpenStream  BY <2>1 DEF OpenStream
  <2>2. CASE CreateFile  BY <2>2 DEF CreateFile
  <2> QED BY <1>5, <2>1, <2>2
<1>6. CASE Copy                       BY <1>6 DEF Copy, FileInv
<1>7. CASE CopyEnds                   BY <1>7 DEF CopyEnds, FailClosingAll
<1>8. CASE CloseFile \/ CloseStream \/ Chmod
  BY <1>8 DEF CloseFile, CloseStream, Chmod
<1>9. CASE IOError \/ Cleanup \/ CleanupGivesUp
  BY <1>9 DEF IOError, CloseError, FailClosing, FailClosingAll, Cleanup,
              CleanupGivesUp
<1>10. CASE Returned \/ UNCHANGED vars  BY <1>10 DEF Returned, vars
<1> QED BY <1>2, <1>3, <1>4, <1>5, <1>6, <1>7, <1>8, <1>9, <1>10 DEF Next, Work

(* Every step keeps the entry that is copied the first match.              *)
LEMMA ScanStep == IInv /\ [Next]_vars => ScanInv'
<1> SUFFICES ASSUME IInv, [Next]_vars PROVE ScanInv'  OBVIOUS
<1>1. /\ Len(archive.entries) \in Nat
      /\ DOMAIN archive.entries = 1 .. Len(archive.entries)
      /\ next \in Nat \ {0}
  BY ArchiveFacts, ExtractAssumption DEF ExtractAssumption, IInv, TypeOK
<1> USE <1>1 DEF IInv, ScanInv, Taken, Copied, Return, Fail, More, Entry, ValidSize,
               Unsuitable
<1>2. CASE VerifyChecksum  BY <1>2 DEF VerifyChecksum
<1>3. CASE MakeDir
  <2>1. pc' = "scan" => next = 1
    BY <1>3 DEF MakeDir
  <2> QED BY <1>3, <2>1 DEF MakeDir
<1>4. CASE Skip
  <2>1. \A i \in 1 .. next : i \in 1 .. next - 1 \/ i = next  OBVIOUS
  <2> QED BY <1>4, <2>1 DEF Skip, IsExecutable
<1>5. CASE NotFound        BY <1>5 DEF NotFound
<1>6. CASE Validate        BY <1>6 DEF Validate, IsExecutable
<1>7. CASE OpenStream \/ CreateFile \/ Copy
  BY <1>7 DEF OpenStream, CreateFile, Copy, IsExecutable
<1>8. CASE CopyEnds        BY <1>8 DEF CopyEnds, FailClosingAll, IsExecutable
<1>9. CASE CloseFile \/ CloseStream \/ Chmod
  BY <1>9 DEF CloseFile, CloseStream, Chmod, IsExecutable
<1>10. CASE IOError \/ Cleanup \/ CleanupGivesUp
  BY <1>10 DEF IOError, CloseError, FailClosing, FailClosingAll, Cleanup,
               CleanupGivesUp
<1>11. CASE Returned \/ UNCHANGED vars
  BY <1>11 DEF Returned, vars, IsExecutable
<1> QED
  BY <1>2, <1>3, <1>4, <1>5, <1>6, <1>7, <1>8, <1>9, <1>10, <1>11 DEF Next, Work

(* Every step keeps what is known of the bytes in the file.                *)
LEMMA FileStep == IInv /\ [Next]_vars => FileInv'
<1> SUFFICES ASSUME IInv, [Next]_vars PROVE FileInv'  OBVIOUS
<1>1. Max \in Nat /\ NoFile = -1 /\ Limit = Max + 1 /\ file \in {NoFile} \cup Nat
  BY ExtractAssumption DEF ExtractAssumption, NoFile, Limit, IInv, TypeOK
<1>2. pc \in Taken => Entry.data \in Nat
  BY ArchiveFacts DEF IInv, ScanInv, Entry
<1>3. dir \in Dirs /\ out \in BOOLEAN /\ stream \in BOOLEAN /\ pc \in Steps
  BY DEF IInv, TypeOK
<1> USE <1>1, <1>2, <1>3 DEF IInv, FileInv, Taken, Copied, Return, Fail,
                         FailClosing, FailClosingAll
<1>4. CASE VerifyChecksum \/ MakeDir  BY <1>4 DEF VerifyChecksum, MakeDir
<1>5. CASE Skip \/ NotFound           BY <1>5 DEF Skip, NotFound
<1>6. CASE Validate                   BY <1>6 DEF Validate
<1>7. CASE OpenStream \/ CreateFile   BY <1>7 DEF OpenStream, CreateFile, Entry
<1>8. CASE Copy                       BY <1>8 DEF Copy, Entry
<1>9. CASE CopyEnds                   BY <1>9 DEF CopyEnds, Entry
<1>10. CASE CloseFile \/ CloseStream \/ Chmod
  BY <1>10 DEF CloseFile, CloseStream, Chmod, Entry
<1>11. CASE IOError                   BY <1>11 DEF IOError, CloseError
<1>12. CASE Cleanup \/ CleanupGivesUp   BY <1>12 DEF Cleanup, CleanupGivesUp
<1>13. CASE Returned \/ UNCHANGED vars  BY <1>13 DEF Returned, vars, Entry
<1> QED
  BY <1>4, <1>5, <1>6, <1>7, <1>8, <1>9, <1>10, <1>11, <1>12, <1>13 DEF Next, Work

(* The first entry that could be the executable is the one the loop takes.  *)
LEMMA Taking ==
    ASSUME IInv, pc = "scan" \/ pc \in Taken, More, IsExecutable(Entry), Good
    PROVE  Entry.size = Entry.data /\ Entry.data <= Max
<1>1. /\ Len(archive.entries) \in Nat
      /\ DOMAIN archive.entries = 1 .. Len(archive.entries)
      /\ next \in Nat \ {0}
  BY ArchiveFacts, ExtractAssumption DEF ExtractAssumption, IInv, TypeOK
<1>2. next \in Candidates
  BY <1>1 DEF More, Entry, Candidates
<1>3. PICK i \in Candidates : /\ Chosen(i)
                              /\ archive.entries[i].size = archive.entries[i].data
                              /\ archive.entries[i].data <= Max
  BY DEF Good
<1>4. i <= next  BY <1>2, <1>3 DEF Chosen
<1>5. i \notin 1 .. next - 1
  BY <1>3 DEF IInv, ScanInv, Unsuitable, Candidates
<1>6. i = next  BY <1>1, <1>3, <1>4, <1>5 DEF Candidates
<1> QED BY <1>3, <1>6 DEF Entry

(* Every step keeps a good archive on its way to success.                  *)
LEMMA RefusalStep == IInv /\ [Next]_vars => RefusalInv'
<1> SUFFICES ASSUME IInv, [Next]_vars, pc' \in {"cleanup", "failed"}, ~faulted',
                    Good'
             PROVE  FALSE
  BY DEF RefusalInv
<1>1. archive' = archive
  BY DEF Next, Work, VerifyChecksum, MakeDir, Skip, NotFound, Validate, OpenStream,
         CreateFile, Copy, CopyEnds, CloseFile, CloseStream, Chmod, IOError,
         Cleanup, CleanupGivesUp, Returned, vars
<1>2. Good
  BY <1>1 DEF Good, Candidates, Chosen, IsExecutable
<1>3. /\ Len(archive.entries) \in Nat
      /\ DOMAIN archive.entries = 1 .. Len(archive.entries)
      /\ next \in Nat \ {0}
      /\ Max \in Nat /\ Half \in Nat /\ Max < Half
  BY ArchiveFacts, ExtractAssumption DEF ExtractAssumption, IInv, TypeOK
<1>4. CASE VerifyChecksum \/ MakeDir
  BY <1>2, <1>4 DEF VerifyChecksum, MakeDir, Good
<1>5. CASE NotFound
  <2>1. \A i \in DOMAIN archive.entries : ~IsExecutable(archive.entries[i])
    BY <1>3, <1>5 DEF NotFound, More, IInv, ScanInv, Unsuitable
  <2> QED BY <1>2, <2>1 DEF Good, Candidates
<1>6. CASE Validate
  <2>1. ~ValidSize(Entry.size) /\ More /\ IsExecutable(Entry) /\ pc = "scan"
    BY <1>6 DEF Validate
  <2>2. Entry.size = Entry.data /\ Entry.data <= Max
    BY <1>2, <2>1, Taking
  <2>3. Entry.data \in Nat  BY <1>3, <2>1, ArchiveFacts DEF IInv, More, Entry
  <2> QED BY <1>3, <2>1, <2>2, <2>3 DEF ValidSize, Signed
<1>7. CASE CopyEnds
  <2>1. pc = "copy" /\ More /\ IsExecutable(Entry)
    BY <1>3, <1>7 DEF CopyEnds, IInv, ScanInv, Taken, More
  <2>2. Entry.size = Entry.data /\ Entry.data <= Max
    BY <1>2, <2>1, Taking DEF Taken
  <2>3. Entry.data \in Nat  BY <1>3, <2>1, ArchiveFacts DEF IInv, More, Entry
  <2>4. file \in 0 .. Max + 1 /\ file <= Entry.data  BY <2>1 DEF IInv, FileInv
  <2>5. Signed(Entry.size) = Entry.data  BY <1>3, <2>2, <2>3 DEF Signed
  <2>6. file = Entry.data /\ file <= Max
    BY <1>3, <1>7, <2>2, <2>3, <2>4 DEF CopyEnds, Limit
  <2>7. ~(file # Signed(Entry.size)) /\ ~(file > Max)
    BY <1>3, <2>4, <2>5, <2>6
  <2>8. pc' = "close"  BY <1>7, <2>7 DEF CopyEnds
  <2> QED BY <2>8
<1>8. CASE IOError  BY <1>8 DEF IOError
<1>9. CASE Cleanup \/ CleanupGivesUp \/ Returned \/ UNCHANGED vars
  BY <1>2, <1>9 DEF Cleanup, CleanupGivesUp, Returned, vars, IInv, RefusalInv
<1>10. CASE Skip \/ OpenStream \/ CreateFile \/ Copy \/ CloseFile \/ CloseStream
            \/ Chmod
  BY <1>10 DEF Skip, OpenStream, CreateFile, Copy, CloseFile, CloseStream, Chmod
<1> QED BY <1>4, <1>5, <1>6, <1>7, <1>8, <1>9, <1>10 DEF Next, Work

(* Every reachable state satisfies the inductive invariant.                *)
LEMMA Invariance == Spec => []IInv
<1>1. IInv /\ [Next]_vars => IInv'
  BY TypeStep, ScanStep, FileStep, RefusalStep DEF IInv
<1> QED BY <1>1, IInit, PTL DEF Spec

-----------------------------------------------------------------------------

(* Every variable keeps its type; the loop stays inside the archive.       *)
THEOREM TypeCorrect == Spec => []TypeOK
<1>1. IInv => TypeOK  BY DEF IInv
<1> QED BY <1>1, Invariance, PTL

(* What is started is the whole of the first matching entry.               *)
THEOREM ExecutableIsWhole == Spec => []SuccessIsWhole
<1>1. IInv => SuccessIsWhole
  <2> SUFFICES ASSUME IInv, pc = "done" PROVE SuccessIsWhole  BY DEF SuccessIsWhole
  <2>1. /\ archive.pinned /\ dir = "present" /\ next \in Candidates
        /\ file = Entry.data /\ file <= Max
    BY DEF IInv, ScanInv, FileInv, Taken, Copied, Candidates, Entry
  <2>2. \A j \in Candidates : next <= j
    <3>1. /\ DOMAIN archive.entries = 1 .. Len(archive.entries)
          /\ Len(archive.entries) \in Nat /\ next \in Nat
      BY ArchiveFacts, ExtractAssumption DEF ExtractAssumption, IInv, TypeOK
    <3> QED BY <3>1 DEF IInv, ScanInv, Taken, Copied, Candidates, Unsuitable
  <2> QED BY <2>1, <2>2 DEF SuccessIsWhole, Chosen, Entry
<1> QED BY <1>1, Invariance, PTL

(* At most one byte over the limit is ever written.                        *)
THEOREM WriteIsBounded == Spec => []BoundedWrite
<1>1. IInv => BoundedWrite
  BY ExtractAssumption
  DEF ExtractAssumption, IInv, TypeOK, FileInv, Steps, Taken, Copied, NoFile,
      BoundedWrite
<1> QED BY <1>1, Invariance, PTL

(* Each failing step closes the files that are open, and leaves a directory *)
(* that cleanup() has removed or given up.                                 *)
THEOREM NothingIsForgotten == Spec => []NothingForgotten
<1>1. IInv => NothingForgotten
  BY DEF IInv, TypeOK, FileInv, NothingForgotten
<1> QED BY <1>1, Invariance, PTL

(* No correct archive is refused by a bound that is off by one, at either   *)
(* of the two limits or in the conversion between the two kinds of sizes.  *)
THEOREM GoodIsAccepted == Spec => []GoodAccepted
<1>1. IInv => GoodAccepted
  BY DEF IInv, RefusalInv, Good, GoodAccepted
<1> QED BY <1>1, Invariance, PTL
=============================================================================
