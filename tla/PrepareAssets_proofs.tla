------------------------ MODULE PrepareAssets_proofs ------------------------
(***************************************************************************)
(* Machine-checked proofs about PrepareAssets, for any number of runs in   *)
(* one tree, of versions, assets and attempts, any number of failures, and *)
(* whatever lies in bundled/ at first.                                     *)
(***************************************************************************)
EXTENDS PrepareAssets, TLAPS

(* What a run knows about its own files, whatever happens to the tree.     *)
LocalOf(p) ==
    /\ pc[p] \in {"setup", "sums", "attest", "download", "verify", "remove",
                  "rename", "mcp", "pin"} => kind[p] # "check"
    /\ pc[p] \in {"load", "pins", "asset"} => kind[p] = "check"
    /\ pc[p] \in {"mcp", "pin"} => kind[p] = "update"
    /\ pc[p] = "sums" => at[p] = 1
    /\ pc[p] = "attest" => at[p] = 1 /\ table[p] # NoFile
    /\ pc[p] \in {"download", "verify", "pin", "asset"} => at[p] \in Assets
    /\ pc[p] = "mcp" => at[p] = 1
    /\ pc[p] \in {"pins", "asset"} => table[p] # NoFile
    /\ pc[p] \in {"download", "verify", "remove", "rename"}
           => table[p] = Digest[ver[p]]
    /\ pc[p] \in {"download", "verify"}
           => \A a \in Assets : a < at[p] => staged[p][a] = Digest[ver[p]][a]
    /\ pc[p] \in {"remove", "rename"}
           => \A a \in Assets : staged[p][a] = Digest[ver[p]][a]

LocalInv == \A p \in Runs : LocalOf(p)

LInv == TypeOK /\ LocalInv

(* Facts about the constants in the form the provers use them.             *)
LEMMA Attested ==
    ASSUME NEW v \in Versions
    PROVE  /\ Digest[v] \in [Assets -> Digests]
           /\ Digest[v] \in Tables
           /\ Digest[v] # NoFile
           /\ \A a \in Assets : Digest[v][a] # None
BY PrepareAssumption DEF PrepareAssumption, Tables, Contents

(* The local invariant holds of the tree before any run.                   *)
LEMMA LInit == Init => LInv
BY PrepareAssumption
   DEF PrepareAssumption, Init, LInv, TypeOK, LocalInv, LocalOf, Assets, Contents, Tables,
       Steps, Ended

(* A retried command leaves its run where it is, ends it, or lets it go on. *)
LEMMA RetryType ==
    ASSUME TypeOK, NEW p \in Runs, NEW to \in Steps, Succeed(p, to) \/ Retry(p)
    PROVE  /\ pc' \in [Runs -> Steps]
           /\ tries' \in [Runs -> 0 .. Attempts - 1]
<1>1. tries[p] \in 0 .. Attempts - 1 /\ Attempts \in Nat \ {0} /\ "failed" \in Steps
  BY PrepareAssumption DEF PrepareAssumption, TypeOK, Steps, Ended
<1>2. CASE Succeed(p, to)  BY <1>1, <1>2 DEF TypeOK, Succeed, Goto
<1>3. CASE Retry(p)
  <2>1. CASE tries[p] + 1 < Attempts
    BY <1>1, <1>3, <2>1 DEF TypeOK, Retry
  <2>2. CASE tries[p] + 1 >= Attempts
    <3>1. pc' = [pc EXCEPT ![p] = "failed"] /\ tries' = [tries EXCEPT ![p] = 0]
      BY <1>1, <1>3, <2>2 DEF Retry, Goto
    <3> QED BY <1>1, <3>1 DEF TypeOK
  <2> QED BY <1>3, <2>1, <2>2 DEF Retry
<1> QED BY <1>2, <1>3

(* Every step preserves the types.                                         *)
LEMMA TypePrepare ==
    ASSUME LInv, NEW p \in Runs, Prepare(p)
    PROVE  TypeOK'
<1> USE DEF LInv, TypeOK, Goto, Put, Disturb, Steady, Local, tree, Fault
<1>0. {"idle", "failed", "sums", "attest", "download", "verify", "remove",
       "rename", "mcp", "ok"} \subseteq Steps
  BY DEF Steps, Ended
<1>1. CASE Setup(p)
  BY <1>0, <1>1, PrepareAssumption DEF PrepareAssumption, Setup, Contents
<1>2. CASE DownloadSums(p)
  <2>1. PICK t \in Tables : table' = [table EXCEPT ![p] = t]
    BY <1>2, Attested, PrepareAssumption DEF PrepareAssumption, DownloadSums
  <2>2. faults' \in 0 .. MaxFaults
    BY <1>2, PrepareAssumption DEF PrepareAssumption, DownloadSums
  <2>3. Succeed(p, "attest") \/ Retry(p)  BY <1>2 DEF DownloadSums
  <2> QED BY <1>0, <1>2, <2>1, <2>2, <2>3, RetryType DEF DownloadSums
<1>3. CASE VerifyAttestation(p)
  <2>1. faults' \in 0 .. MaxFaults
    BY <1>3, PrepareAssumption DEF PrepareAssumption, VerifyAttestation
  <2>2. Succeed(p, "download") \/ Retry(p)  BY <1>3 DEF VerifyAttestation
  <2> QED BY <1>0, <1>3, <2>1, <2>2, RetryType DEF VerifyAttestation
<1>4. CASE Download(p)
  <2>1. Digest[ver[p]][at[p]] \in Contents
    BY <1>4, Attested DEF Download, LocalInv, LocalOf, Contents
  <2>2. PICK c \in Contents : staged' = [staged EXCEPT ![p][at[p]] = c]
    BY <1>4, <2>1 DEF Download
  <2>3. staged' \in [Runs -> [Assets -> Contents]]  BY <2>2
  <2>4. faults' \in 0 .. MaxFaults
    BY <1>4, PrepareAssumption DEF PrepareAssumption, Download
  <2>5. Succeed(p, "verify") \/ Retry(p)  BY <1>4 DEF Download
  <2> QED BY <1>0, <1>4, <2>3, <2>4, <2>5, RetryType DEF Download
<1>5. CASE VerifyStaged(p)
  <2>1. at' \in [Runs -> 1 .. AssetCount + 1]
    <3>1. \E i \in 1 .. AssetCount + 1 : at' = [at EXCEPT ![p] = i]
      BY <1>5, PrepareAssumption DEF PrepareAssumption, VerifyStaged, LocalInv, LocalOf, Assets
    <3> QED BY <3>1
  <2>2. pc' \in [Runs -> Steps]  BY <1>0, <1>5 DEF VerifyStaged
  <2> QED BY <1>5, <2>1, <2>2 DEF VerifyStaged
<1>6. CASE Remove(p)  BY <1>0, <1>6 DEF Remove, Contents
<1>7. CASE Rename(p)
  <2>1. bundle' \in [Assets -> Contents]
    <3>1. at[p] \in Assets => staged[p][at[p]] \in Contents  OBVIOUS
    <3> QED BY <1>7, <3>1 DEF Rename
  <2>2. sums' \in [Versions -> Tables \cup {NoFile}]  BY <1>7 DEF Rename
  <2>3. at' \in [Runs -> 1 .. AssetCount + 1]
    BY <1>7, PrepareAssumption DEF PrepareAssumption, Rename, Assets
  <2>4. pc' \in [Runs -> Steps]  BY <1>0, <1>7 DEF Rename
  <2>5. disturbed' \in [Runs -> BOOLEAN]  BY <1>7 DEF Rename
  <2> QED BY <1>7, <2>1, <2>2, <2>3, <2>4, <2>5 DEF Rename
<1> QED BY <1>1, <1>2, <1>3, <1>4, <1>5, <1>6, <1>7 DEF Prepare

(* The steps outside the staging directory keep the types.                 *)
LEMMA TypeOthers ==
    ASSUME LInv, NEW p \in Runs, Begin(p) \/ Update(p) \/ Check(p) \/ Stop(p)
    PROVE  TypeOK'
<1> USE DEF LInv, TypeOK, Goto, Put, Disturb, Steady, Local, tree, Fault
<1>0. {"failed", "setup", "load", "mcp", "pin", "pins", "asset", "ok"} \subseteq Steps
  BY DEF Steps, Ended
<1>1. CASE Begin(p)         BY <1>0, <1>1 DEF Begin
<1>2. CASE WriteVersion(p)  BY <1>0, <1>2 DEF WriteVersion
<1>3. CASE WritePin(p)
  <2>1. at[p] \in Assets  BY <1>3 DEF WritePin, LocalInv, LocalOf
  <2>2. sums[ver[p]][at[p]] \in Contents  BY <1>3, <2>1 DEF WritePin, Tables
  <2>3. pins' \in [Assets -> Contents]  BY <1>3, <2>2 DEF WritePin
  <2>4. at' \in [Runs -> 1 .. AssetCount + 1]
    BY <1>3, PrepareAssumption DEF PrepareAssumption, WritePin
  <2>5. pc' \in [Runs -> Steps]  BY <1>0, <1>3 DEF WritePin
  <2> QED BY <1>3, <2>3, <2>4, <2>5 DEF WritePin
<1>4. CASE NoChecksum(p)     BY <1>0, <1>4 DEF NoChecksum
<1>5. CASE LoadChecksums(p)  BY <1>0, <1>5 DEF LoadChecksums
<1>6. CASE VerifyPinned(p)
  <2>1. at' \in [Runs -> 1 .. AssetCount + 1]
    BY <1>6, PrepareAssumption DEF PrepareAssumption, VerifyPinned
  <2>2. pc' \in [Runs -> Steps]  BY <1>0, <1>6 DEF VerifyPinned
  <2> QED BY <1>6, <2>1, <2>2 DEF VerifyPinned
<1>7. CASE VerifyAsset(p)
  <2>1. at' \in [Runs -> 1 .. AssetCount + 1]
    <3>1. \E i \in 1 .. AssetCount + 1 : at' = [at EXCEPT ![p] = i]
      BY <1>7, PrepareAssumption DEF PrepareAssumption, VerifyAsset, LocalInv, LocalOf, Assets
    <3> QED BY <3>1
  <2>2. pc' \in [Runs -> Steps]  BY <1>0, <1>7 DEF VerifyAsset
  <2> QED BY <1>7, <2>1, <2>2 DEF VerifyAsset
<1>8. CASE Stop(p)
  BY <1>0, <1>8, PrepareAssumption DEF PrepareAssumption, Stop
<1> QED
  BY <1>1, <1>2, <1>3, <1>4, <1>5, <1>6, <1>7, <1>8 DEF Update, Check

(* The types are preserved by every step.                                  *)
LEMMA TypeStep == LInv /\ [Next]_vars => TypeOK'
<1> SUFFICES ASSUME LInv, [Next]_vars PROVE TypeOK'  OBVIOUS
<1>1. CASE \E p \in Runs : Begin(p) \/ Work(p) \/ Stop(p)
  BY <1>1, TypePrepare, TypeOthers DEF Work
<1>2. CASE Checkout
  BY <1>2, Attested, PrepareAssumption
  DEF PrepareAssumption, Checkout, LInv, TypeOK, Contents
<1>3. CASE Clean
  BY <1>3, PrepareAssumption DEF PrepareAssumption, Clean, LInv, TypeOK, Contents
<1>4. CASE UNCHANGED vars  BY <1>4 DEF vars, tree, LInv, TypeOK
<1> QED BY <1>1, <1>2, <1>3, <1>4 DEF Next

(* A step of one run leaves the private state of the others alone.          *)
Frame(p) ==
    \A q \in Runs \ {p} :
        UNCHANGED <<kind[q], ver[q], pc[q], at[q], table[q], staged[q]>>

(* What a step of one process leaves alone: the others' private state.     *)
LEMMA Framed ==
    ASSUME TypeOK, NEW p \in Runs, Begin(p) \/ Work(p) \/ Stop(p)
    PROVE  Frame(p)
<1> USE DEF TypeOK, Goto, Put, Disturb, Steady, Local, tree, Fault, Frame
<1>1. CASE Begin(p)  BY <1>1 DEF Begin
<1>2. CASE Stop(p)   BY <1>2 DEF Stop
<1>3. CASE Prepare(p)
  <2>1. CASE Setup(p)         BY <2>1 DEF Setup
  <2>2. CASE DownloadSums(p)  BY <2>2 DEF DownloadSums, Succeed, Retry
  <2>3. CASE VerifyAttestation(p)
    BY <2>3 DEF VerifyAttestation, Succeed, Retry
  <2>4. CASE Download(p)
    BY <2>4 DEF Download, Succeed, Retry
  <2>5. CASE VerifyStaged(p)  BY <2>5 DEF VerifyStaged
  <2>6. CASE Remove(p)        BY <2>6 DEF Remove
  <2>7. CASE Rename(p)        BY <2>7 DEF Rename
  <2> QED BY <1>3, <2>1, <2>2, <2>3, <2>4, <2>5, <2>6, <2>7 DEF Prepare
<1>4. CASE Update(p)  BY <1>4 DEF Update, WriteVersion, WritePin, NoChecksum
<1>5. CASE Check(p)   BY <1>5 DEF Check, LoadChecksums, VerifyPinned, VerifyAsset
<1> QED BY <1>1, <1>2, <1>3, <1>4, <1>5 DEF Work

(* What a run knows about itself survives its own steps.                   *)
LEMMA LocalPrepare ==
    ASSUME LInv, NEW p \in Runs, Prepare(p)
    PROVE  LocalOf(p)'
<1>0. LocalOf(p)  BY DEF LInv, LocalInv
<1> USE <1>0 DEF LInv, TypeOK, Goto, Put, Disturb, Steady, Local, tree, LocalOf
<1>1. CASE Setup(p)
  BY <1>1, PrepareAssumption DEF PrepareAssumption, Setup
<1>2. CASE DownloadSums(p)
  <2>1. table'[p] # NoFile
    BY <1>2, Attested, PrepareAssumption DEF PrepareAssumption, DownloadSums
  <2> QED BY <1>2, <2>1 DEF DownloadSums, Succeed, Retry
<1>3. CASE VerifyAttestation(p)
  BY <1>3, PrepareAssumption
  DEF PrepareAssumption, VerifyAttestation, Succeed, Retry, Assets
<1>4. CASE Download(p)
  <2>1. \A a \in Assets : a < at[p] => staged'[p][a] = staged[p][a]
    <3>1. at[p] \in Nat  BY PrepareAssumption DEF PrepareAssumption
    <3>2. PICK c \in Contents : staged' = [staged EXCEPT ![p][at[p]] = c]
      BY <1>4, Attested DEF Download, Contents
    <3> QED BY <3>1, <3>2 DEF Assets
  <2> QED BY <1>4, <2>1 DEF Download, Succeed, Retry
<1>5. CASE VerifyStaged(p)
  <2>1. CASE ~Matches(table[p], at[p], staged[p][at[p]])
    BY <1>5, <2>1 DEF VerifyStaged
  <2>2. CASE Matches(table[p], at[p], staged[p][at[p]])
    <3>1. \A a \in Assets : a < at[p] + 1 => staged[p][a] = Digest[ver[p]][a]
      <4>1. \A a \in Assets : a < at[p] + 1 => a < at[p] \/ a = at[p]
        BY DEF Assets
      <4>2. staged[p][at[p]] = Digest[ver[p]][at[p]]
        BY <1>5, <2>2 DEF VerifyStaged, Matches
      <4> QED BY <1>5, <4>1, <4>2 DEF VerifyStaged
    <3> QED BY <1>5, <2>2, <3>1, PrepareAssumption
            DEF PrepareAssumption, VerifyStaged, Assets
  <2> QED BY <2>1, <2>2
<1>6. CASE Remove(p)  BY <1>6 DEF Remove
<1>7. CASE Rename(p)  BY <1>7 DEF Rename
<1> QED BY <1>1, <1>2, <1>3, <1>4, <1>5, <1>6, <1>7 DEF Prepare

(* The steps outside the staging directory keep what a process knows.      *)
LEMMA LocalOthers ==
    ASSUME LInv, NEW p \in Runs, Begin(p) \/ Update(p) \/ Check(p) \/ Stop(p)
    PROVE  LocalOf(p)'
<1>0. LocalOf(p)  BY DEF LInv, LocalInv
<1> USE <1>0 DEF LInv, TypeOK, Goto, Put, Disturb, Steady, Local, tree, LocalOf
<1>1. CASE Begin(p)          BY <1>1, PrepareAssumption DEF PrepareAssumption, Begin
<1>2. CASE WriteVersion(p)
  BY <1>2, PrepareAssumption DEF PrepareAssumption, WriteVersion, Assets
<1>3. CASE WritePin(p)
  BY <1>3, PrepareAssumption DEF PrepareAssumption, WritePin, Assets
<1>4. CASE NoChecksum(p)     BY <1>4 DEF NoChecksum
<1>5. CASE LoadChecksums(p)  BY <1>5 DEF LoadChecksums
<1>6. CASE VerifyPinned(p)
  BY <1>6, PrepareAssumption DEF PrepareAssumption, VerifyPinned, Assets
<1>7. CASE VerifyAsset(p)
  BY <1>7, PrepareAssumption DEF PrepareAssumption, VerifyAsset, Assets
<1>8. CASE Stop(p)           BY <1>8 DEF Stop
<1> QED
  BY <1>1, <1>2, <1>3, <1>4, <1>5, <1>6, <1>7, <1>8 DEF Update, Check

(* The local invariant is preserved by every step.                         *)
LEMMA LStep == LInv /\ [Next]_vars => LInv'
<1> SUFFICES ASSUME LInv, [Next]_vars PROVE LInv'  OBVIOUS
<1>1. TypeOK'  BY TypeStep
<1>2. ASSUME NEW p \in Runs, Begin(p) \/ Work(p) \/ Stop(p) PROVE LocalInv'
  <2>1. LocalOf(p)'  BY <1>2, LocalPrepare, LocalOthers DEF Work
  <2>2. ASSUME NEW q \in Runs \ {p} PROVE LocalOf(q)'
    <3>1. Frame(p) /\ LocalOf(q)  BY <1>2, Framed DEF LInv, LocalInv
    <3> QED BY <3>1 DEF Frame, LocalOf
  <2> QED BY <2>1, <2>2 DEF LocalInv
<1>3. CASE Checkout \/ Clean \/ UNCHANGED vars
  <2>1. UNCHANGED <<kind, ver, pc, at, table, staged>>
    BY <1>3 DEF Checkout, Clean, vars
  <2>2. SUFFICES ASSUME NEW q \in Runs PROVE LocalOf(q)'
    BY <1>1 DEF LInv, LocalInv
  <2>3. LocalOf(q)  BY DEF LInv, LocalInv
  <2> QED BY <2>1, <2>3 DEF LocalOf
<1> QED BY <1>1, <1>2, <1>3 DEF Next, LInv

-----------------------------------------------------------------------------

(* What a step of one run may do to the bundle.                            *)
LEMMA WorkAttested ==
    ASSUME LInv, NEW p \in Runs, Work(p)
    PROVE  /\ \A a \in Assets : \/ bundle'[a] \in {bundle[a], None}
                                \/ \E v \in Versions : bundle'[a] = Digest[v][a]
           /\ \A v \in Versions : sums'[v] \in {sums[v], NoFile, Digest[v]}
<1>0. LocalOf(p)  BY DEF LInv, LocalInv
<1> USE DEF LInv, TypeOK
<1>1. CASE Remove(p)  BY <1>1 DEF Remove
<1>2. CASE Rename(p)
  <2>1. CASE at[p] \in Assets
    <3>1. bundle' = [bundle EXCEPT ![at[p]] = Digest[ver[p]][at[p]]]
      BY <1>0, <1>2, <2>1 DEF Rename, LocalOf
    <3> QED BY <1>2, <2>1, <3>1 DEF Rename
  <2>2. CASE at[p] \notin Assets
    BY <1>0, <1>2, <2>2 DEF Rename, LocalOf
  <2> QED BY <2>1, <2>2
<1>3. ASSUME UNCHANGED <<bundle, sums>>
      PROVE  /\ \A a \in Assets : bundle'[a] \in {bundle[a], None}
             /\ \A v \in Versions : sums'[v] \in {sums[v], NoFile, Digest[v]}
  BY <1>3
<1>4. CASE Update(p)
  <2>1. UNCHANGED <<bundle, sums>>
    BY <1>4 DEF Update, WriteVersion, WritePin, NoChecksum, Local, tree
  <2> QED BY <1>3, <2>1
<1>5. CASE Check(p)
  <2>1. UNCHANGED <<bundle, sums>>
    BY <1>5 DEF Check, LoadChecksums, VerifyPinned, VerifyAsset, Local, tree
  <2> QED BY <1>3, <2>1
<1>6. CASE Setup(p) \/ DownloadSums(p) \/ VerifyAttestation(p) \/ Download(p)
           \/ VerifyStaged(p)
  <2>1. UNCHANGED <<bundle, sums>>
    BY <1>6 DEF Setup, DownloadSums, VerifyAttestation, Download, VerifyStaged,
                Local, tree
  <2> QED BY <1>3, <2>1
<1> QED BY <1>1, <1>2, <1>4, <1>5, <1>6 DEF Work, Prepare

(* A step puts attested assets and checksums into the tree, or none.       *)
LEMMA StepAttested ==
    ASSUME LInv, [Next]_vars
    PROVE  /\ \A a \in Assets : \/ bundle'[a] \in {bundle[a], None}
                                \/ \E v \in Versions : bundle'[a] = Digest[v][a]
           /\ \A v \in Versions : sums'[v] \in {sums[v], NoFile, Digest[v]}
<1>1. ASSUME NEW p \in Runs, Work(p)
      PROVE  /\ \A a \in Assets : \/ bundle'[a] \in {bundle[a], None}
                                  \/ \E v \in Versions : bundle'[a] = Digest[v][a]
             /\ \A v \in Versions : sums'[v] \in {sums[v], NoFile, Digest[v]}
  BY <1>1, WorkAttested
<1>2. CASE (\E p \in Runs : Begin(p) \/ Stop(p)) \/ Checkout \/ UNCHANGED vars
  <2>1. UNCHANGED <<bundle, sums>>
    BY <1>2 DEF Begin, Stop, Checkout, Local, vars, tree
  <2> QED BY <2>1
<1>3. CASE Clean  BY <1>3 DEF Clean
<1> QED BY <1>1, <1>2, <1>3 DEF Next

(***************************************************************************)
(* The checksums files and the pinned checksums                            *)
(***************************************************************************)
SumsGood(v) == sums[v] \in {NoFile, Digest[v]}

(* A bad checksums file that was found in bundled/ is never the one an      *)
(* update reads, and the version it is named after has correct pins.       *)
PinsInv ==
    /\ \A p \in Runs : pc[p] \in {"mcp", "pin"} => SumsGood(ver[p])
    /\ \A p \in Runs : pc[p] = "pin" => SumsGood(mcp)
    /\ pins = Digest[mcp] \/ SumsGood(mcp)
    /\ PinsAttested

PInv == LInv /\ PinsInv

(* The pins of a fresh checkout are those of its version.                  *)
LEMMA PInit == Init => PInv
BY LInit, PrepareAssumption
   DEF PrepareAssumption, Init, PInv, PinsInv, PinsAttested, LInv, TypeOK

(* No step of a process breaks what is known of the pins.                  *)
LEMMA PWork ==
    ASSUME PInv, NEW p \in Runs, Begin(p) \/ Work(p) \/ Stop(p)
    PROVE  PinsInv'
<1>0. /\ LInv /\ TypeOK /\ LocalOf(p) /\ Frame(p)
      /\ [Next]_vars
  BY Framed DEF PInv, LInv, LocalInv, Next
<1>1. \A v \in Versions : SumsGood(v) => SumsGood(v)'
  BY <1>0, StepAttested DEF SumsGood
<1>2. \A q \in Runs \ {p} : ver'[q] = ver[q] /\ pc'[q] = pc[q]
  BY <1>0 DEF Frame
<1>3. /\ mcp \in Versions
      /\ \A q \in Runs : ver[q] \in Versions
  BY <1>0 DEF TypeOK
<1>4. CASE WriteVersion(p)
  <2>1. /\ mcp' = ver[p] /\ pins' = pins /\ ver' = ver
        /\ SumsGood(ver[p])'
    BY <1>1, <1>3, <1>4 DEF PInv, PinsInv, WriteVersion, Steady
  <2>2. \A q \in Runs : pc'[q] \in {"mcp", "pin"} => SumsGood(ver[q])'
    BY <1>1, <1>2, <1>3, <2>1 DEF PInv, PinsInv, SumsGood
  <2>3. SumsGood(mcp)'  BY <2>1 DEF SumsGood
  <2> QED BY <2>1, <2>2, <2>3 DEF PInv, PinsInv, PinsAttested, SumsGood
<1>5. CASE WritePin(p)
  <2>1. mcp' = mcp /\ ver' = ver /\ pc[p] = "pin"
    BY <1>5 DEF WritePin, Steady
  <2>2. SumsGood(ver[p]) /\ SumsGood(mcp)  BY <2>1 DEF PInv, PinsInv
  <2>3. pins' = [pins EXCEPT ![at[p]] = Digest[ver[p]][at[p]]]
    BY <1>5, <2>2 DEF WritePin, SumsGood
  <2>4. PinsAttested'
    BY <1>0, <1>3, <2>3 DEF PInv, PinsInv, PinsAttested, TypeOK
  <2>5. SumsGood(mcp)'
    BY <1>1, <1>3, <2>1, <2>2 DEF SumsGood
  <2>6. \A q \in Runs : pc'[q] \in {"mcp", "pin"} => SumsGood(ver[q])'
    BY <1>1, <1>2, <1>3, <2>1, <2>2 DEF PInv, PinsInv, SumsGood
  <2> QED BY <2>4, <2>5, <2>6 DEF PinsInv, SumsGood
<1>6. CASE Begin(p) \/ Prepare(p) \/ NoChecksum(p) \/ Check(p) \/ Stop(p)
  <2>1. UNCHANGED <<mcp, pins>>
    BY <1>6 DEF Begin, Prepare, Setup, DownloadSums, VerifyAttestation, Download,
                VerifyStaged, Remove, Rename, NoChecksum, Check, LoadChecksums,
                VerifyPinned, VerifyAsset, Stop, Local, tree
  <2>2. /\ pc'[p] # "pin"
        /\ pc'[p] = "mcp" => Rename(p)
    <3>1. CASE Rename(p)   BY <1>0, <3>1 DEF Rename, Goto, TypeOK
    <3>2. CASE Begin(p)    BY <1>0, <3>2 DEF Begin, Goto, TypeOK
    <3>3. CASE Check(p) \/ NoChecksum(p) \/ Stop(p)
      BY <1>0, <3>3 DEF Check, LoadChecksums, VerifyPinned, VerifyAsset,
                        NoChecksum, Stop, Goto, TypeOK
    <3>4. CASE Setup(p) \/ VerifyStaged(p) \/ Remove(p)
      BY <1>0, <3>4 DEF Setup, VerifyStaged, Remove, Goto, TypeOK
    <3>5. CASE DownloadSums(p) \/ VerifyAttestation(p) \/ Download(p)
      BY <1>0, <3>5 DEF DownloadSums, VerifyAttestation, Download, Succeed,
                        Retry, Goto, TypeOK
    <3> QED BY <1>6, <3>1, <3>2, <3>3, <3>4, <3>5 DEF Prepare
  <2>3. pc'[p] = "mcp" => SumsGood(ver[p])'
    <3>1. CASE Rename(p)
      <4>1. pc'[p] = "mcp" => sums' = [sums EXCEPT ![ver[p]] = Digest[ver[p]]]
        BY <1>0, <3>1 DEF Rename, LocalOf, TypeOK, Goto
      <4> QED BY <1>0, <1>3, <3>1, <4>1 DEF Rename, Steady, SumsGood, TypeOK
    <3> QED BY <2>2, <3>1
  <2>4. \A q \in Runs : pc'[q] \in {"mcp", "pin"} => SumsGood(ver[q])'
    BY <1>1, <1>2, <1>3, <2>2, <2>3 DEF PInv, PinsInv, SumsGood
  <2>5. \A q \in Runs : pc'[q] = "pin" => SumsGood(mcp)'
    BY <1>1, <1>2, <1>3, <2>1, <2>2 DEF PInv, PinsInv, SumsGood
  <2>6. pins' = Digest[mcp]' \/ SumsGood(mcp)'
    BY <1>1, <1>3, <2>1 DEF PInv, PinsInv, SumsGood
  <2>7. PinsAttested'  BY <2>1 DEF PInv, PinsInv, PinsAttested
  <2> QED BY <2>4, <2>5, <2>6, <2>7 DEF PinsInv, SumsGood
<1> QED BY <1>4, <1>5, <1>6 DEF Work, Update

(* Nor does any other step.                                                *)
LEMMA PStep == PInv /\ [Next]_vars => PInv'
<1> SUFFICES ASSUME PInv, [Next]_vars PROVE PInv'  OBVIOUS
<1>1. LInv' /\ LInv /\ TypeOK  BY LStep DEF PInv, LInv
<1>2. CASE \E p \in Runs : Begin(p) \/ Work(p) \/ Stop(p)
  BY <1>1, <1>2, PWork DEF PInv
<1>3. CASE Checkout
  <2>1. PICK v \in Versions : mcp' = v /\ pins' = Digest[v]
    BY <1>3 DEF Checkout
  <2>2. UNCHANGED <<sums, ver, pc>> /\ \A p \in Runs : pc[p] # "pin"
    BY <1>3 DEF Checkout
  <2> QED BY <1>1, <2>1, <2>2 DEF PInv, PinsInv, PinsAttested, SumsGood
<1>4. CASE Clean
  <2>1. UNCHANGED <<pins, mcp, ver, pc>> /\ sums' = [v \in Versions |-> NoFile]
    BY <1>4 DEF Clean
  <2> QED BY <1>1, <2>1 DEF PInv, PinsInv, PinsAttested, SumsGood, TypeOK
<1>5. CASE UNCHANGED vars
  BY <1>1, <1>5 DEF PInv, PinsInv, PinsAttested, SumsGood, vars, tree
<1> QED BY <1>2, <1>3, <1>4, <1>5 DEF Next

-----------------------------------------------------------------------------

(***************************************************************************)
(* What a run that nobody disturbs knows about the tree                    *)
(***************************************************************************)
Checked(p) == pc[p] = "ok" /\ kind[p] = "check"
Filled(p)  == pc[p] \in {"mcp", "pin"} \/ (pc[p] = "ok" /\ kind[p] # "check")

KnowsOf(p) ==
    /\ pc[p] \in {"pins", "asset"} \/ Checked(p) => table[p] = sums[ver[p]]
    /\ pc[p] = "asset" \/ Checked(p) => pins = table[p]
    /\ pc[p] = "asset" => \A a \in Assets : a < at[p] => bundle[a] = table[p][a]
    /\ Checked(p) => table[p] # NoFile /\ bundle = table[p]
    /\ pc[p] \in {"remove", "rename"}
           => \A a \in Assets : a < at[p] => bundle[a] = Digest[ver[p]][a]
    /\ Filled(p) => bundle = Digest[ver[p]] /\ sums[ver[p]] = Digest[ver[p]]
    /\ pc[p] = "pin" => /\ mcp = ver[p]
                        /\ \A a \in Assets : a < at[p] => pins[a] = Digest[ver[p]][a]
    /\ pc[p] = "ok" /\ kind[p] = "update" => mcp = ver[p] /\ pins = Digest[ver[p]]

KnowsInv == \A p \in Runs : ~disturbed[p] => KnowsOf(p)

IInv == PInv /\ KnowsInv

(* The whole invariant holds before any run.                               *)
LEMMA IInit == Init => IInv
BY PInit DEF Init, IInv, KnowsInv, KnowsOf, Checked, Filled

(* Two tables with the same lines are the same table.                      *)
LEMMA SameTable ==
    ASSUME NEW s \in Tables, NEW t \in Tables, \A a \in Assets : s[a] = t[a]
    PROVE  s = t
BY DEF Tables

(* Whoever writes to the tree disturbs all the others.                     *)
LEMMA Noticed ==
    ASSUME LInv, NEW p \in Runs, Begin(p) \/ Work(p) \/ Stop(p)
    PROVE  \A q \in Runs \ {p} :
               /\ ~disturbed'[q] => ~disturbed[q]
               /\ ~disturbed'[q] => UNCHANGED tree
<1> USE DEF LInv, TypeOK, Disturb, Local, tree
<1>1. CASE Begin(p)  BY <1>1 DEF Begin
<1>2. CASE Stop(p)   BY <1>2 DEF Stop
<1>3. CASE Check(p)  BY <1>3 DEF Check, LoadChecksums, VerifyPinned, VerifyAsset
<1>4. CASE Update(p) BY <1>4 DEF Update, WriteVersion, WritePin, NoChecksum
<1>5. CASE Prepare(p)
  BY <1>5 DEF Prepare, Setup, DownloadSums, VerifyAttestation, Download,
              VerifyStaged, Remove, Rename
<1> QED BY <1>1, <1>2, <1>3, <1>4, <1>5 DEF Work

(* The steps of an undisturbed check ...                                   *)
LEMMA KnowsCheck ==
    ASSUME IInv, NEW p \in Runs, Check(p), ~disturbed'[p]
    PROVE  KnowsOf(p)'
<1>0. /\ LInv /\ TypeOK /\ LocalOf(p) /\ (~disturbed[p] => KnowsOf(p))
  BY DEF IInv, PInv, LInv, LocalInv, KnowsInv
<1>1. ~disturbed[p] /\ UNCHANGED tree /\ UNCHANGED <<kind, ver>>
  BY DEF Check, LoadChecksums, VerifyPinned, VerifyAsset, Local, Steady
<1> USE <1>0, <1>1 DEF TypeOK, Goto, Put, tree, KnowsOf, Checked, Filled
<1>2. CASE LoadChecksums(p)  BY <1>2 DEF LoadChecksums, LocalOf
<1>3. CASE VerifyPinned(p)
  <2>1. CASE \A a \in Assets : Matches(table[p], a, pins[a])
    <3>1. pins \in Tables /\ table[p] \in Tables
      BY <1>3 DEF VerifyPinned, LocalOf, Tables
    <3>2. pins = table[p]  BY <2>1, <3>1, SameTable DEF Matches
    <3>3. \A a \in Assets : ~(a < 1)  BY DEF Assets
    <3> QED BY <1>3, <2>1, <3>2, <3>3 DEF VerifyPinned, LocalOf
  <2>2. CASE \E a \in Assets : ~Matches(table[p], a, pins[a])
    BY <1>3, <2>2 DEF VerifyPinned
  <2> QED BY <2>1, <2>2
<1>4. CASE VerifyAsset(p)
  <2>1. CASE ~Matches(table[p], at[p], bundle[at[p]])
    BY <1>4, <2>1 DEF VerifyAsset
  <2>2. CASE Matches(table[p], at[p], bundle[at[p]])
    <3>1. \A a \in Assets : a < at[p] + 1 => bundle[a] = table[p][a]
      <4>1. \A a \in Assets : a < at[p] + 1 => a < at[p] \/ a = at[p]
        BY DEF Assets
      <4> QED BY <1>4, <2>2, <4>1 DEF VerifyAsset, Matches
    <3>2. CASE at[p] < AssetCount
      BY <1>4, <2>2, <3>1, <3>2 DEF VerifyAsset
    <3>3. CASE at[p] = AssetCount
      <4>1. \A a \in Assets : a < AssetCount + 1
        BY PrepareAssumption DEF PrepareAssumption, Assets
      <4>2. bundle \in Tables /\ table[p] \in Tables /\ table[p] # NoFile
        BY <1>4 DEF VerifyAsset, LocalOf, Tables
      <4>3. bundle = table[p]  BY <3>1, <3>3, <4>1, <4>2, SameTable
      <4> QED BY <1>4, <2>2, <3>3, <4>2, <4>3, PrepareAssumption
             DEF PrepareAssumption, VerifyAsset, LocalOf
    <3> QED BY <1>4, <2>2, <3>2, <3>3 DEF VerifyAsset
  <2> QED BY <2>1, <2>2
<1> QED BY <1>2, <1>3, <1>4 DEF Check

(* ... of an undisturbed preparation ...                                   *)
LEMMA KnowsPrepare ==
    ASSUME IInv, NEW p \in Runs, Prepare(p), ~disturbed'[p]
    PROVE  KnowsOf(p)'
<1>0. /\ LInv /\ TypeOK /\ LocalOf(p) /\ (~disturbed[p] => KnowsOf(p))
  BY DEF IInv, PInv, LInv, LocalInv, KnowsInv
<1>1. ~disturbed[p] /\ UNCHANGED <<kind, ver>>
  BY <1>0 DEF Prepare, Setup, DownloadSums, VerifyAttestation, Download,
              VerifyStaged, Remove, Rename, Local, Steady, Disturb, TypeOK
<1>2. /\ ver[p] \in Versions /\ Digest[ver[p]] \in Tables
      /\ at[p] \in Nat
  BY <1>0, Attested, PrepareAssumption DEF PrepareAssumption, TypeOK
<1> USE <1>0, <1>1, <1>2 DEF TypeOK, Goto, Put, KnowsOf, Checked, Filled
<1>3. CASE Setup(p)         BY <1>3 DEF Setup
<1>4. CASE DownloadSums(p)  BY <1>4 DEF DownloadSums, Succeed, Retry
<1>5. CASE VerifyAttestation(p)
  BY <1>5 DEF VerifyAttestation, Succeed, Retry
<1>6. CASE Download(p)      BY <1>6 DEF Download, Succeed, Retry
<1>7. CASE VerifyStaged(p)
  <2>1. \A a \in Assets : ~(a < 1)  BY DEF Assets
  <2> QED BY <1>7, <2>1 DEF VerifyStaged
<1>8. CASE Remove(p)
  <2>1. \A a \in Assets : a < at[p] => bundle'[a] = Digest[ver[p]][a]
    <3>1. \A a \in Assets : a < at[p] => a # at[p]  OBVIOUS
    <3>2. \A a \in Assets : a # at[p] => bundle'[a] = bundle[a]
      BY <1>8 DEF Remove
    <3> QED BY <1>8, <3>1, <3>2
            DEF Remove
  <2> QED BY <1>8, <2>1 DEF Remove
<1>9. CASE Rename(p)
  <2>1. CASE at[p] \in Assets
    <3>1. \A a \in Assets : a < at[p] + 1 => a < at[p] \/ a = at[p]
      BY DEF Assets
    <3>2. bundle' = [bundle EXCEPT ![at[p]] = Digest[ver[p]][at[p]]]
      BY <1>9, <2>1 DEF Rename, LocalOf
    <3>3. \A a \in Assets : a < at[p] + 1 => bundle'[a] = Digest[ver[p]][a]
      BY <1>9, <3>1, <3>2 DEF Rename
    <3> QED BY <1>9, <2>1, <3>3 DEF Rename
  <2>2. CASE at[p] \notin Assets
    <3>1. \A a \in Assets : a < at[p]
      BY <2>2, PrepareAssumption DEF PrepareAssumption, Assets
    <3>2. bundle' = bundle /\ bundle \in Tables  BY <1>9, <2>2 DEF Rename, Tables
    <3>3. \A a \in Assets : bundle[a] = Digest[ver[p]][a]
      BY <1>9, <3>1 DEF Rename
    <3>4. bundle' = Digest[ver[p]]  BY <3>2, <3>3, SameTable
    <3>5. sums'[ver[p]] = Digest[ver[p]]  BY <1>9, <2>2 DEF Rename, LocalOf
    <3> QED BY <1>9, <2>2, <3>4, <3>5 DEF Rename, LocalOf
  <2> QED BY <2>1, <2>2
<1> QED BY <1>3, <1>4, <1>5, <1>6, <1>7, <1>8, <1>9 DEF Prepare

(* ... and of an undisturbed update.                                       *)
LEMMA KnowsUpdate ==
    ASSUME IInv, NEW p \in Runs, Update(p), ~disturbed'[p]
    PROVE  KnowsOf(p)'
<1>0. /\ LInv /\ TypeOK /\ LocalOf(p) /\ (~disturbed[p] => KnowsOf(p))
  BY DEF IInv, PInv, LInv, LocalInv, KnowsInv
<1>1. ~disturbed[p] /\ UNCHANGED <<kind, ver>>
  BY <1>0 DEF Update, WriteVersion, WritePin, NoChecksum, Local, Steady, Disturb,
              TypeOK
<1>2. /\ ver[p] \in Versions /\ Digest[ver[p]] \in Tables
      /\ at[p] \in Nat
  BY <1>0, Attested, PrepareAssumption DEF PrepareAssumption, TypeOK
<1> USE <1>0, <1>1, <1>2 DEF TypeOK, Goto, Put, KnowsOf, Checked, Filled
<1>3. CASE WriteVersion(p)
  <2>1. \A a \in Assets : ~(a < 1)  BY DEF Assets
  <2> QED BY <1>3, <2>1 DEF WriteVersion, LocalOf
<1>4. CASE NoChecksum(p)  BY <1>4 DEF NoChecksum
<1>5. CASE WritePin(p)
  <2>1. \A a \in Assets : a < at[p] + 1 => a < at[p] \/ a = at[p]
    BY DEF Assets
  <2>2. pins' = [pins EXCEPT ![at[p]] = Digest[ver[p]][at[p]]]
    BY <1>5 DEF WritePin
  <2>3. \A a \in Assets : a < at[p] + 1 => pins'[a] = Digest[ver[p]][a]
    BY <1>5, <2>1, <2>2 DEF WritePin
  <2>4. CASE at[p] < AssetCount  BY <1>5, <2>3, <2>4 DEF WritePin, LocalOf
  <2>5. CASE at[p] = AssetCount
    <3>1. \A a \in Assets : a < AssetCount + 1
      BY PrepareAssumption DEF PrepareAssumption, Assets
    <3>2. Digest[ver[p]][at[p]] \in Contents
      BY <1>5, Attested DEF WritePin, LocalOf, Contents
    <3>3. pins' \in Tables  BY <2>2, <3>2 DEF Tables
    <3>4. pins' = Digest[ver[p]]  BY <2>3, <2>5, <3>1, <3>3, SameTable
    <3> QED BY <1>5, <2>5, <3>4, PrepareAssumption
            DEF PrepareAssumption, WritePin, LocalOf
  <2> QED BY <1>5, <2>4, <2>5 DEF WritePin
<1> QED BY <1>3, <1>4, <1>5 DEF Update

(* Every step preserves it.                                                *)
LEMMA IStep == IInv /\ [Next]_vars => IInv'
<1> SUFFICES ASSUME IInv, [Next]_vars PROVE IInv'  OBVIOUS
<1>1. PInv' /\ LInv /\ TypeOK  BY PStep DEF IInv, PInv, LInv
<1>2. ASSUME NEW p \in Runs, Begin(p) \/ Work(p) \/ Stop(p) PROVE KnowsInv'
  <2>1. ~disturbed'[p] => KnowsOf(p)'
    <3>1. CASE Begin(p)
      BY <1>1, <3>1 DEF Begin, Goto, TypeOK, KnowsOf, Checked, Filled
    <3>2. CASE Stop(p)
      BY <1>1, <3>2 DEF Stop, Goto, TypeOK, KnowsOf, Checked, Filled
    <3>3. CASE Work(p)
      BY <3>3, KnowsPrepare, KnowsUpdate, KnowsCheck DEF Work
    <3> QED BY <1>2, <3>1, <3>2, <3>3
  <2>2. ASSUME NEW q \in Runs \ {p}, ~disturbed'[q] PROVE KnowsOf(q)'
    <3>1. ~disturbed[q] /\ UNCHANGED tree  BY <1>1, <1>2, <2>2, Noticed
    <3>2. KnowsOf(q)  BY <3>1 DEF IInv, KnowsInv
    <3>3. Frame(p)    BY <1>1, <1>2, Framed
    <3> QED BY <3>1, <3>2, <3>3 DEF Frame, KnowsOf, Checked, Filled, tree
  <2> QED BY <2>1, <2>2 DEF KnowsInv
<1>3. CASE Checkout \/ Clean
  <2>1. \A q \in Runs : disturbed'[q]  BY <1>3 DEF Checkout, Clean
  <2> QED BY <1>1, <2>1 DEF IInv, KnowsInv
<1>4. CASE UNCHANGED vars
  <2>1. UNCHANGED <<tree, kind, ver, pc, at, table, disturbed>>  BY <1>4 DEF vars
  <2>2. SUFFICES ASSUME NEW q \in Runs, ~disturbed'[q] PROVE KnowsOf(q)'
    BY <1>1 DEF IInv, KnowsInv
  <2>3. KnowsOf(q)  BY <2>1, <2>2 DEF IInv, KnowsInv
  <2> QED BY <2>1, <2>3 DEF KnowsOf, Checked, Filled, tree
<1> QED BY <1>1, <1>2, <1>3, <1>4 DEF Next, IInv

(* Every reachable state satisfies it.                                     *)
LEMMA Invariance == Spec => []IInv
BY IInit, IStep, PTL DEF Spec

-----------------------------------------------------------------------------

(* Every variable keeps its type; attempts stay below the limit.           *)
THEOREM TypeCorrect == Spec => []TypeOK
<1>1. IInv => TypeOK  BY DEF IInv, PInv, LInv
<1> QED BY <1>1, Invariance, PTL

(* No asset is removed before verified replacements lie in staging.        *)
THEOREM ReplacementsAreReady == Spec => []ReplacementsReady
<1>1. IInv => ReplacementsReady
  BY DEF IInv, PInv, LInv, LocalInv, LocalOf, ReplacementsReady
<1> QED BY <1>1, Invariance, PTL

(* Only attested sums are ever pinned.                                     *)
THEOREM PinsAreAttested == Spec => []PinsAttested
<1>1. IInv => PinsAttested  BY DEF IInv, PInv, PinsInv
<1> QED BY <1>1, Invariance, PTL

(* A successful preparation or update leaves the tree at its version.      *)
THEOREM PreparationSound == Spec => []PrepareSound
<1>1. IInv => PrepareSound
  BY DEF IInv, KnowsInv, KnowsOf, Filled, PrepareSound, Undisturbed, Ready
<1> QED BY <1>1, Invariance, PTL

(* A check that passes has seen an attested bundle and attested pins: the   *)
(* pins equal the checksums file, and where the pins are of two versions    *)
(* that file was put there by an update and is attested.                   *)
THEOREM CheckIsSound == Spec => []CheckSound
<1>1. IInv => CheckSound
  <2> SUFFICES ASSUME IInv, NEW p \in Runs, Undisturbed(p), kind[p] = "check",
                      ver[p] = mcp
               PROVE  Ready
    BY DEF CheckSound
  <2>1. KnowsOf(p) /\ Checked(p)
    BY DEF IInv, KnowsInv, Undisturbed, Checked
  <2>2. /\ bundle = table[p] /\ pins = table[p]
        /\ table[p] = sums[mcp] /\ table[p] # NoFile
    BY <2>1 DEF KnowsOf
  <2>3. pins = Digest[mcp] \/ sums[mcp] \in {NoFile, Digest[mcp]}
    BY DEF IInv, PInv, PinsInv, SumsGood
  <2> QED BY <2>2, <2>3 DEF Ready
<1> QED BY <1>1, Invariance, PTL

(* Files enter the bundle only with attested contents.                     *)
THEOREM OnlyAttestedEnters == Spec => OnlyAttested
<1>1. IInv /\ [Next]_vars =>
        [/\ \A a \in Assets : \/ bundle'[a] \in {bundle[a], None}
                              \/ \E v \in Versions : bundle'[a] = Digest[v][a]
         /\ \A v \in Versions : sums'[v] \in {sums[v], NoFile, Digest[v]}]_vars
  BY StepAttested DEF IInv, PInv
<1> QED BY <1>1, Invariance, PTL DEF Spec, OnlyAttested

-----------------------------------------------------------------------------

(***************************************************************************)
(* What the runs know as long as nothing has failed                        *)
(***************************************************************************)
FaultlessOf(p) ==
    /\ pc[p] = "attest" => table[p] = Digest[ver[p]]
    /\ pc[p] = "verify" => staged[p][at[p]] = Digest[ver[p]][at[p]]
    /\ ~disturbed[p] /\ pc[p] = "failed" => kind[p] = "check" /\ ~Complete(ver[p])

FInv == IInv /\ (faults = 0 => \A p \in Runs : FaultlessOf(p))

(* Nothing has failed at first.                                            *)
LEMMA FInit == Init => FInv
BY IInit DEF FInv, Init, FaultlessOf

(* A preparation and an update go on: what they verify is what they just    *)
(* downloaded, and nobody removes the checksums file they promoted.        *)
LEMMA FaultlessWrites ==
    ASSUME FInv, faults = 0, faults' = 0, NEW p \in Runs, Prepare(p) \/ Update(p)
    PROVE  FaultlessOf(p)'
<1>0. /\ TypeOK /\ LocalOf(p) /\ FaultlessOf(p) /\ (~disturbed[p] => KnowsOf(p))
      /\ ver[p] \in Versions /\ ~Fault
  <2>1. TypeOK /\ LocalOf(p) /\ FaultlessOf(p) /\ (~disturbed[p] => KnowsOf(p))
    BY DEF FInv, IInv, PInv, LInv, LocalInv, KnowsInv
  <2> QED BY <2>1, PrepareAssumption DEF PrepareAssumption, TypeOK, Fault
<1>a. /\ Digest[ver[p]] \in Tables /\ Digest[ver[p]] # NoFile
      /\ \A a \in Assets : Digest[ver[p]][a] # None
  BY <1>0, Attested
<1> USE <1>0, <1>a DEF TypeOK, Goto, Put, Steady, Local, FaultlessOf
<1>1. CASE Setup(p)         BY <1>1 DEF Setup
<1>2. CASE DownloadSums(p)  BY <1>2 DEF DownloadSums, Succeed
<1>3. CASE VerifyAttestation(p)
  BY <1>3 DEF VerifyAttestation, Succeed
<1>4. CASE Download(p)
  <2>1. at[p] \in Assets  BY <1>4 DEF Download, LocalOf
  <2> QED BY <1>4, <2>1 DEF Download, Succeed
<1>5. CASE VerifyStaged(p)
  <2>1. at[p] \in Assets /\ table[p] = Digest[ver[p]]
    BY <1>5 DEF VerifyStaged, LocalOf
  <2>2. Matches(table[p], at[p], staged[p][at[p]])
    BY <1>5, <2>1 DEF VerifyStaged, Matches
  <2> QED BY <1>5, <2>2 DEF VerifyStaged
<1>6. CASE Remove(p)        BY <1>6 DEF Remove
<1>7. CASE Rename(p)        BY <1>7 DEF Rename
<1>8. CASE WriteVersion(p)  BY <1>8 DEF WriteVersion
<1>9. CASE WritePin(p)      BY <1>9 DEF WritePin
<1>10. CASE NoChecksum(p)
  <2>1. at[p] \in Assets  BY <1>10 DEF NoChecksum, LocalOf
  <2>2. disturbed[p]  BY <1>10, <2>1 DEF NoChecksum, KnowsOf, Filled
  <2> QED BY <1>10, <2>2 DEF NoChecksum
<1> QED
  BY <1>1, <1>2, <1>3, <1>4, <1>5, <1>6, <1>7, <1>8, <1>9, <1>10
  DEF Prepare, Update

(* A check that refuses has found a file that is not the one of its version. *)
LEMMA FaultlessChecks ==
    ASSUME FInv, faults = 0, NEW p \in Runs, Check(p)
    PROVE  FaultlessOf(p)'
<1>0. /\ TypeOK /\ LocalOf(p) /\ FaultlessOf(p) /\ (~disturbed[p] => KnowsOf(p))
      /\ ver[p] \in Versions
  BY DEF FInv, IInv, PInv, LInv, LocalInv, KnowsInv, TypeOK
<1>a. /\ Digest[ver[p]] # NoFile
      /\ \A a \in Assets : Digest[ver[p]][a] # None
  BY <1>0, Attested
<1> USE <1>0, <1>a
    DEF TypeOK, Goto, Put, Steady, Local, tree, FaultlessOf, Complete
<1>1. CASE LoadChecksums(p)  BY <1>1 DEF LoadChecksums, LocalOf
<1>2. CASE VerifyPinned(p)
  <2>1. CASE Goto(p, "asset")  BY <1>2, <2>1 DEF VerifyPinned
  <2>2. CASE \E a \in Assets : ~Matches(table[p], a, pins[a])
    <3>1. disturbed[p] \/ ~Complete(ver[p])
      BY <1>2, <2>2 DEF VerifyPinned, KnowsOf, Matches
    <3> QED BY <1>2, <3>1 DEF VerifyPinned, LocalOf
  <2> QED BY <1>2, <2>1, <2>2 DEF VerifyPinned
<1>3. CASE VerifyAsset(p)
  <2>1. at[p] \in Assets  BY <1>3 DEF VerifyAsset, LocalOf
  <2>2. CASE Matches(table[p], at[p], bundle[at[p]])
    BY <1>3, <2>2 DEF VerifyAsset
  <2>3. CASE ~Matches(table[p], at[p], bundle[at[p]])
    <3>1. disturbed[p] \/ ~Complete(ver[p])
      BY <1>3, <2>1, <2>3 DEF VerifyAsset, KnowsOf, Matches
    <3> QED BY <1>3, <3>1 DEF VerifyAsset, LocalOf
  <2> QED BY <2>2, <2>3
<1> QED BY <1>1, <1>2, <1>3 DEF Check

(* Every step preserves that, until something fails.                       *)
LEMMA FStep == FInv /\ [Next]_vars => FInv'
<1> SUFFICES ASSUME FInv, [Next]_vars, faults' = 0, NEW q \in Runs
             PROVE  FaultlessOf(q)'
  BY IStep DEF FInv
<1>0. LInv /\ TypeOK /\ faults \in Nat
  BY PrepareAssumption DEF PrepareAssumption, FInv, IInv, PInv, LInv, TypeOK
<1>1. faults = 0
  BY <1>0
  DEF Next, Begin, Work, Prepare, Update, Check, Stop, Checkout, Clean, vars, Fault,
      Setup, DownloadSums, VerifyAttestation, Download, VerifyStaged, Remove, Rename,
      WriteVersion, WritePin, NoChecksum, LoadChecksums, VerifyPinned, VerifyAsset
<1>2. FaultlessOf(q)  BY <1>1 DEF FInv
<1>3. ASSUME NEW p \in Runs, Begin(p) \/ Work(p) \/ Stop(p)  PROVE FaultlessOf(q)'
  <2>1. CASE p # q
    <3>1. Frame(p)  BY <1>0, <1>3, Framed
    <3>2. ~disturbed'[q] => ~disturbed[q] /\ UNCHANGED tree
      BY <1>0, <1>3, <2>1, Noticed
    <3> QED BY <1>2, <2>1, <3>1, <3>2 DEF Frame, FaultlessOf, Complete, tree
  <2>2. CASE Begin(q)
    BY <1>0, <2>2 DEF Begin, Goto, TypeOK, FaultlessOf
  <2>3. CASE Work(q)
    BY <1>1, <2>3, FaultlessWrites, FaultlessChecks DEF Work
  <2>4. ~Stop(q)  BY <1>0, <1>1 DEF Stop, Fault
  <2> QED BY <1>3, <2>1, <2>2, <2>3, <2>4
<1>4. CASE Checkout \/ Clean
  <2>1. disturbed'[q] /\ UNCHANGED <<kind, ver, pc, at, table, staged>>
    BY <1>4 DEF Checkout, Clean
  <2> QED BY <1>2, <2>1 DEF FaultlessOf
<1>5. CASE UNCHANGED vars
  BY <1>2, <1>5 DEF vars, tree, FaultlessOf, Complete
<1> QED BY <1>3, <1>4, <1>5 DEF Next

(* Without faults only a check of incomplete files fails, whatever lies in  *)
(* bundled/ at first.                                                      *)
THEOREM FailsForAReasonThm == Spec => []FailsForAReason
<1>1. FInv => FailsForAReason  BY DEF FInv, FaultlessOf, FailsForAReason
<1> QED BY FInit, FStep, <1>1, PTL DEF Spec
=============================================================================
