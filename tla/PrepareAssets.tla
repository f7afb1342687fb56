---------------------------- MODULE PrepareAssets ----------------------------
(***************************************************************************)
(* Filling and checking bundled/ (scripts/prepare/main.go), and rewriting  *)
(* the pinned checksums (scripts/update-bundled-mcp-server.sh).            *)
(* Several runs share one working tree: task starts the dependencies       *)
(* `bundled:prepare' of two targets in parallel, and nothing locks it.     *)
(*                                                                         *)
(* A file is what sha256File says of it.  A checksums file is the table    *)
(* that loadChecksums reads from it.  Staging directories are private.     *)
(* Definitions named Faulty... are the code with one plausible mistake.    *)
(***************************************************************************)
EXTENDS Naturals

CONSTANTS
    Runs,        \* processes started by developers, task and workflows
    Kinds,       \* what they run: "check", "prepare", "update"
    Versions,    \* releases of github-mcp-server
    AssetCount,  \* length of the list `assets'
    Digests,     \* SHA-256 sums
    Digest,      \* the attested checksums of each release
    FoundTables, \* checksums files that may lie in bundled/ at first
    None,        \* no file, no line in a table
    NoFile,      \* no checksums file
    Attempts,    \* DOWNLOAD_RETRY_COUNT
    MaxFaults,   \* bound: failures of the network, the disk and processes
    MaxChanges   \* bound: uses of git checkout and task clean

Assets   == 1 .. AssetCount
Contents == Digests \cup {None}
Tables   == [Assets -> Contents]

ASSUME PrepareAssumption ==
    /\ Kinds \subseteq {"check", "prepare", "update"}
    /\ AssetCount \in Nat \ {0}
    /\ Digest \in [Versions -> [Assets -> Digests]]
    /\ FoundTables \subseteq Tables
    /\ None \notin Digests
    /\ NoFile \notin Tables
    /\ Attempts \in Nat \ {0}
    /\ MaxFaults \in Nat
    /\ MaxChanges \in Nat

VARIABLES
    bundle,     \* bundled/<asset>
    sums,       \* bundled/github-mcp-server_<version>_checksums.txt
    pins,       \* bundledMCPArchiveSHA256 in the bundle_*.go of each asset
    mcp,        \* mcpServerVersion in mcp_version.go
    kind, ver, pc,
    at,         \* the asset its loop is at; AssetCount + 1: the checksums file
    tries,      \* failed attempts of the runWithRetry it is in
    table,      \* its staged checksums file; once loaded, what it read
    staged,     \* the assets in its staging directory
    disturbed,  \* history: somebody else changed the tree since it began
    faults, changes

tree == <<bundle, sums, pins, mcp>>
vars == <<tree, kind, ver, pc, at, tries, table, staged, disturbed, faults, changes>>

Ended  == {"idle", "ok", "failed"}
Steps  == Ended \cup {"setup", "sums", "attest", "download", "verify", "remove",
                      "rename", "mcp", "pin", "load", "pins", "asset"}

TypeOK ==
    /\ bundle \in [Assets -> Contents]
    /\ sums \in [Versions -> Tables \cup {NoFile}]
    /\ pins \in [Assets -> Contents]
    /\ mcp \in Versions
    /\ kind \in [Runs -> Kinds]
    /\ ver \in [Runs -> Versions]
    /\ pc \in [Runs -> Steps]
    /\ at \in [Runs -> 1 .. AssetCount + 1]
    /\ tries \in [Runs -> 0 .. Attempts - 1]
    /\ table \in [Runs -> Tables \cup {NoFile}]
    /\ staged \in [Runs -> [Assets -> Contents]]
    /\ disturbed \in [Runs -> BOOLEAN]
    /\ faults \in 0 .. MaxFaults
    /\ changes \in 0 .. MaxChanges

(* A committed tree is consistent; bundled/ is not committed, and may hold  *)
(* anything, the assets and tables of other versions included.             *)
Init ==
    /\ bundle \in [Assets -> Contents]
    /\ sums \in [Versions -> FoundTables \cup {NoFile}]
    /\ mcp \in Versions
    /\ pins = Digest[mcp]
    /\ \E k \in Kinds : kind = [p \in Runs |-> k]
    /\ ver = [p \in Runs |-> mcp]
    /\ pc = [p \in Runs |-> "idle"]
    /\ at = [p \in Runs |-> 1]
    /\ tries = [p \in Runs |-> 0]
    /\ table = [p \in Runs |-> NoFile]
    /\ staged = [p \in Runs |-> [a \in Assets |-> None]]
    /\ disturbed = [p \in Runs |-> FALSE]
    /\ faults = 0
    /\ changes = 0

Goto(p, to) == pc' = [pc EXCEPT ![p] = to]
Put(p, i)   == at' = [at EXCEPT ![p] = i]
Disturb(p)  == disturbed' = [q \in Runs |-> disturbed[q] \/ q # p]

(* What a step of p leaves alone unless it says otherwise.                 *)
Steady == UNCHANGED <<kind, ver, changes>>
Local  == Steady /\ UNCHANGED <<tree, disturbed>>

(***************************************************************************)
(* parseArgs, resolveVersion: the version is an argument or is read from    *)
(* mcp_version.go; the update script always names one.                     *)
(***************************************************************************)
Begin(p) ==
    /\ pc[p] \in Ended
    /\ \E k \in Kinds, v \in Versions :
         /\ kind' = [kind EXCEPT ![p] = k]
         /\ ver' = [ver EXCEPT ![p] = v]
         /\ Goto(p, IF k = "check" THEN "load" ELSE "setup")
    /\ disturbed' = [disturbed EXCEPT ![p] = FALSE]
    /\ UNCHANGED <<tree, at, tries, table, staged, faults, changes>>

(* positiveIntFromEnv, gh.Path, ensureGHAuth, and a new staging directory.  *)
Setup(p) ==
    /\ pc[p] = "setup"
    /\ Goto(p, "sums")
    /\ Put(p, 1)
    /\ tries' = [tries EXCEPT ![p] = 0]
    /\ table' = [table EXCEPT ![p] = NoFile]
    /\ staged' = [staged EXCEPT ![p] = [a \in Assets |-> None]]
    /\ Local /\ UNCHANGED faults

(***************************************************************************)
(* runWithRetry around one gh command                                      *)
(***************************************************************************)
Succeed(p, to) == Goto(p, to) /\ tries' = [tries EXCEPT ![p] = 0]

(* The attempt failed: sleep and try again, or give the last error back.    *)
Retry(p) ==
    \/ /\ tries[p] + 1 < Attempts
       /\ tries' = [tries EXCEPT ![p] = @ + 1]
       /\ UNCHANGED pc
    \/ /\ tries[p] + 1 >= Attempts
       /\ tries' = [tries EXCEPT ![p] = 0]
       /\ Goto(p, "failed")

Fault == faults < MaxFaults /\ faults' = faults + 1

(* gh release download --clobber writes the published checksums; what a     *)
(* failed attempt leaves in the file, or a damaged transfer that reports    *)
(* success, is some other table.                                           *)
DownloadSums(p) ==
    /\ pc[p] = "sums"
    /\ \/ /\ table' = [table EXCEPT ![p] = Digest[ver[p]]]
          /\ Succeed(p, "attest")
          /\ UNCHANGED faults
       \/ /\ Fault
          /\ \E t \in FoundTables : table' = [table EXCEPT ![p] = t]
          /\ Succeed(p, "attest") \/ Retry(p)
    /\ Local /\ UNCHANGED <<at, staged>>

(* verifyReleaseAssetAttestation accepts the table that upstream attested   *)
(* for this very version, and then loadChecksums reads it.                 *)
VerifyAttestation(p) ==
    /\ pc[p] = "attest"
    /\ \/ table[p] = Digest[ver[p]] /\ Succeed(p, "download") /\ UNCHANGED faults
       \/ table[p] # Digest[ver[p]] /\ Retry(p) /\ UNCHANGED faults
       \/ Fault /\ Retry(p)
    /\ Local /\ UNCHANGED <<at, table, staged>>

Download(p) ==
    /\ pc[p] = "download"
    /\ \/ /\ staged' = [staged EXCEPT ![p][at[p]] = Digest[ver[p]][at[p]]]
          /\ Succeed(p, "verify")
          /\ UNCHANGED faults
       \/ /\ Fault
          /\ \E c \in Contents : staged' = [staged EXCEPT ![p][at[p]] = c]
          /\ Succeed(p, "verify") \/ Retry(p)
    /\ Local /\ UNCHANGED <<at, table>>

(* Faulty: each asset is promoted as soon as it is verified.               *)
FaultyVerifyStaged(p) ==
    /\ pc[p] = "verify"
    /\ \/ table[p][at[p]] \in Digests /\ staged[p][at[p]] = table[p][at[p]] /\ Goto(p, "remove")
       \/ (table[p][at[p]] = None \/ staged[p][at[p]] # table[p][at[p]]) /\ Goto(p, "failed")
    /\ Local /\ UNCHANGED <<at, tries, table, staged, faults>>

(* Faulty: a line of the table is looked for, the file is not hashed.      *)
FaultyMatches(t, a, file) == t[a] # None

(* verifyAssetChecksum of a file against its line in a table.              *)
Matches(t, a, file) == t[a] # None /\ file = t[a]

(* Every asset is downloaded and verified before the first is promoted.    *)
VerifyStaged(p) ==
    /\ pc[p] = "verify"
    /\ \/ /\ Matches(table[p], at[p], staged[p][at[p]])
          /\ \/ at[p] < AssetCount /\ Goto(p, "download") /\ Put(p, at[p] + 1)
             \/ at[p] = AssetCount /\ Goto(p, "remove") /\ Put(p, 1)
       \/ /\ ~Matches(table[p], at[p], staged[p][at[p]])
          /\ Goto(p, "failed")
          /\ UNCHANGED at
    /\ Local /\ UNCHANGED <<tries, table, staged, faults>>

(***************************************************************************)
(* promoteStagedAsset: os.Remove, then os.Rename; the checksums file last.  *)
(***************************************************************************)
Remove(p) ==
    /\ pc[p] = "remove"
    /\ \/ /\ at[p] \in Assets
          /\ bundle' = [bundle EXCEPT ![at[p]] = None]
          /\ UNCHANGED sums
       \/ /\ at[p] \notin Assets
          /\ sums' = [sums EXCEPT ![ver[p]] = NoFile]
          /\ UNCHANGED bundle
    /\ Goto(p, "rename")
    /\ Disturb(p)
    /\ Steady /\ UNCHANGED <<pins, mcp, at, tries, table, staged, faults>>

(* Faulty: the checksums file of the staging directory is not promoted.    *)
FaultyRename(p) ==
    /\ pc[p] = "rename"
    /\ bundle' = [bundle EXCEPT ![at[p]] = staged[p][at[p]]]
    /\ \/ at[p] < AssetCount /\ Put(p, at[p] + 1) /\ Goto(p, "remove")
       \/ at[p] = AssetCount /\ Put(p, 1) /\ Goto(p, IF kind[p] = "update" THEN "mcp" ELSE "ok")
    /\ Disturb(p)
    /\ Steady /\ UNCHANGED <<sums, pins, mcp, tries, table, staged, faults>>

(* On Unix the rename replaces what another run has put there meanwhile.   *)
Rename(p) ==
    /\ pc[p] = "rename"
    /\ \/ /\ at[p] \in Assets
          /\ bundle' = [bundle EXCEPT ![at[p]] = staged[p][at[p]]]
          /\ Put(p, at[p] + 1)
          /\ Goto(p, "remove")
          /\ UNCHANGED sums
       \/ /\ at[p] \notin Assets
          /\ sums' = [sums EXCEPT ![ver[p]] = table[p]]
          /\ Put(p, 1)
          /\ Goto(p, IF kind[p] = "update" THEN "mcp" ELSE "ok")
          /\ UNCHANGED bundle
    /\ Disturb(p)
    /\ Steady /\ UNCHANGED <<pins, mcp, tries, table, staged, faults>>

(***************************************************************************)
(* update-bundled-mcp-server.sh, after `go run ./scripts/prepare VERSION'   *)
(***************************************************************************)
(* Faulty: nothing is rewritten when the version is up to date already.     *)
FaultyWriteVersion(p) ==
    /\ pc[p] = "mcp"
    /\ mcp' = ver[p]
    /\ Goto(p, IF mcp = ver[p] THEN "ok" ELSE "pin")
    /\ Disturb(p)
    /\ Steady /\ UNCHANGED <<bundle, sums, pins, at, tries, table, staged, faults>>

WriteVersion(p) ==
    /\ pc[p] = "mcp"
    /\ mcp' = ver[p]
    /\ Goto(p, "pin")
    /\ Disturb(p)
    /\ Steady /\ UNCHANGED <<bundle, sums, pins, at, tries, table, staged, faults>>

(* awk reads the promoted checksums file again for each of the targets.    *)
WritePin(p) ==
    /\ pc[p] = "pin"
    /\ sums[ver[p]] # NoFile
    /\ sums[ver[p]][at[p]] # None
    /\ pins' = [pins EXCEPT ![at[p]] = sums[ver[p]][at[p]]]
    /\ \/ at[p] < AssetCount /\ Put(p, at[p] + 1) /\ UNCHANGED pc
       \/ at[p] = AssetCount /\ Put(p, 1) /\ Goto(p, "ok")
    /\ Disturb(p)
    /\ Steady /\ UNCHANGED <<bundle, sums, mcp, tries, table, staged, faults>>

NoChecksum(p) ==
    /\ pc[p] = "pin"
    /\ IF sums[ver[p]] = NoFile THEN TRUE ELSE sums[ver[p]][at[p]] = None
    /\ Goto(p, "failed")
    /\ Local /\ UNCHANGED <<at, tries, table, staged, faults>>

(***************************************************************************)
(* checkBundledAssets                                                      *)
(***************************************************************************)
LoadChecksums(p) ==
    /\ pc[p] = "load"
    /\ table' = [table EXCEPT ![p] = sums[ver[p]]]
    /\ Goto(p, IF sums[ver[p]] = NoFile THEN "failed" ELSE "pins")
    /\ Local /\ UNCHANGED <<at, tries, staged, faults>>

(* Faulty: the assets are checked against the checksums file alone.        *)
FaultyVerifyPinned(p) ==
    /\ pc[p] = "pins"
    /\ Goto(p, "asset") /\ Put(p, 1)
    /\ Local /\ UNCHANGED <<tries, table, staged, faults>>

(* loadPinnedChecksums and verifyPinnedChecksums.                          *)
VerifyPinned(p) ==
    /\ pc[p] = "pins"
    /\ \/ (\A a \in Assets : Matches(table[p], a, pins[a])) /\ Goto(p, "asset")
       \/ (\E a \in Assets : ~Matches(table[p], a, pins[a])) /\ Goto(p, "failed")
    /\ Put(p, 1)
    /\ Local /\ UNCHANGED <<tries, table, staged, faults>>

VerifyAsset(p) ==
    /\ pc[p] = "asset"
    /\ \/ /\ Matches(table[p], at[p], bundle[at[p]])
          /\ \/ at[p] < AssetCount /\ Put(p, at[p] + 1) /\ UNCHANGED pc
             \/ at[p] = AssetCount /\ Goto(p, "ok") /\ UNCHANGED at
       \/ /\ ~Matches(table[p], at[p], bundle[at[p]])
          /\ Goto(p, "failed") /\ UNCHANGED at
    /\ Local /\ UNCHANGED <<tries, table, staged, faults>>

(***************************************************************************)
(* Failures and the developer                                              *)
(***************************************************************************)

(* Any call but a retried one ends the run with its error, and a run may be *)
(* killed: whatever it has done so far stays.                              *)
Stop(p) ==
    /\ pc[p] \notin Ended
    /\ Fault
    /\ Goto(p, "failed")
    /\ Local /\ UNCHANGED <<at, tries, table, staged>>

(* git checkout and git restore bring back files of one commit; nobody      *)
(* does that while the update script is rewriting them.                    *)
Checkout ==
    /\ changes < MaxChanges
    /\ \A p \in Runs : pc[p] # "pin"
    /\ \E v \in Versions : mcp' = v /\ pins' = Digest[v]
    /\ disturbed' = [p \in Runs |-> TRUE]
    /\ changes' = changes + 1
    /\ UNCHANGED <<bundle, sums, kind, ver, pc, at, tries, table, staged, faults>>

(* task clean removes bundled/github-mcp-server_*.                         *)
Clean ==
    /\ changes < MaxChanges
    /\ bundle' = [a \in Assets |-> None]
    /\ sums' = [v \in Versions |-> NoFile]
    /\ disturbed' = [p \in Runs |-> TRUE]
    /\ changes' = changes + 1
    /\ UNCHANGED <<pins, mcp, kind, ver, pc, at, tries, table, staged, faults>>

Prepare(p) ==
    \/ Setup(p) \/ DownloadSums(p) \/ VerifyAttestation(p) \/ Download(p)
    \/ VerifyStaged(p) \/ Remove(p) \/ Rename(p)
Update(p)  == WriteVersion(p) \/ WritePin(p) \/ NoChecksum(p)
Check(p)   == LoadChecksums(p) \/ VerifyPinned(p) \/ VerifyAsset(p)
Work(p)    == Prepare(p) \/ Update(p) \/ Check(p)

Next ==
    \/ \E p \in Runs : Begin(p) \/ Work(p) \/ Stop(p)
    \/ Checkout \/ Clean

Spec == Init /\ [][Next]_vars

(* A process that was started runs on.                                     *)
FairSpec == Spec /\ \A p \in Runs : WF_vars(Work(p))

Rerun(p) == Begin(p) /\ kind'[p] = "update"

(* After whatever failed, and between checks, the update is run again: by   *)
(* the developer, or as bump.yml and the scripts' callers do.              *)
RerunSpec == FairSpec /\ \A p \in Runs : SF_vars(Rerun(p))

(***************************************************************************)
(* Properties                                                              *)
(***************************************************************************)
Undisturbed(p) == pc[p] = "ok" /\ ~disturbed[p]

(* What the binary is built from is what upstream attested.                *)
Ready == bundle = Digest[mcp] /\ pins = Digest[mcp]

(* `prepare -check' trusts a checksums file that nobody attests again.      *)
(* Still, when it passes for the version of the tree and nobody interferes, *)
(* the assets and the pinned checksums are the attested ones: it never      *)
(* passes on what a crashed update or a crashed promotion left behind.     *)
CheckSound ==
    \A p \in Runs :
        Undisturbed(p) /\ kind[p] = "check" /\ ver[p] = mcp => Ready

(* A preparation that succeeds leaves the complete bundle of its version,   *)
(* and an update leaves every file of the tree at one version.             *)
PrepareSound ==
    \A p \in Runs :
        /\ Undisturbed(p) /\ kind[p] # "check" =>
               bundle = Digest[ver[p]] /\ sums[ver[p]] = Digest[ver[p]]
        /\ Undisturbed(p) /\ kind[p] = "update" => mcp = ver[p] /\ Ready

(* An asset is removed from the bundle only when verified replacements for  *)
(* it and for all assets not promoted yet lie in the staging directory.     *)
ReplacementsReady ==
    \A p \in Runs : \A a \in Assets :
        pc[p] \in {"remove", "rename"} /\ a >= at[p]
            => staged[p][a] = Digest[ver[p]][a]

(* Concurrent, crashed and repeated updates may mix the pinned checksums of *)
(* two versions, but never pin a sum that upstream did not attest.         *)
PinsAttested == \A a \in Assets : \E v \in Versions : pins[a] = Digest[v][a]

(* Whatever retries, partial downloads and other runs do, a file enters the *)
(* bundle only with attested contents, and a checksums file only with the   *)
(* attested table of the version in its name.                              *)
OnlyAttested ==
    [][/\ \A a \in Assets : \/ bundle'[a] \in {bundle[a], None}
                            \/ \E v \in Versions : bundle'[a] = Digest[v][a]
       /\ \A v \in Versions : sums'[v] \in {sums[v], NoFile, Digest[v]}]_vars

(* However an update was cut short, running updates again, one at a time,   *)
(* repairs the tree: no failure is retried for ever, and nothing that was   *)
(* left behind stops the next run.                                         *)
Recovers == []<>(Ready /\ sums[mcp] = Digest[mcp])

(* The complete files of one version, as PrepareSound has an update leave   *)
(* them.                                                                   *)
Complete(v) == bundle = Digest[v] /\ sums[v] = Digest[v] /\ pins = Digest[v]

(* The step behind Recovers: as long as the network, the disk and the       *)
(* processes work, a run that nobody disturbs fails for one reason only: it *)
(* is a check, and the files of its version are not complete.  So nothing   *)
(* that lies in bundled/ stops a preparation or an update, and a check      *)
(* accepts what an update leaves.                                          *)
FailsForAReason ==
    \A p \in Runs :
        faults = 0 /\ ~disturbed[p] /\ pc[p] = "failed"
            => kind[p] = "check" /\ ~Complete(ver[p])
=============================================================================
