# A verification of gh-mcp in TLA+

gh-mcp is a `gh` extension that runs the github-mcp-server binary embedded in it. This
directory holds TLA+ models of its code, the TLC configurations that check them on small
instances, and TLAPS proofs of what matters most for every size of the instance.

Paths and line numbers below are those of the repository. Definitions named `Faulty…` are
not models of the code: each is one definition with one plausible mistake in it. Put in the
place of the real one, it makes TLC find one of the properties violated; they are kept to
show that the properties depend on the code.

## 1. The system

### Two programs in one repository

**The launcher** (Go, what users run). `main.go` gets credentials from gh, builds the
environment of the server, and calls `runBundledServer` (`server.go`): verify the embedded
archive, create a private temporary directory (`tempdir*.go`), extract the binary into it
(`extract.go`), start it with the launcher's standard streams, wait for it or for a signal,
stop it, remove the directory.

**The release machinery** (Go tools, shell and GitHub workflows). Renovate opens a pull
request for a new upstream server; `bump.yml` completes it; CI tests it;
`merge-upstream-release.yml` merges it; CI on `main` calls `release.yml`, which tags the
commit, builds a draft with attested assets, verifies and publishes it.

### Components

| Component | State it keeps | Operations | Interacts with |
|---|---|---|---|
| Launcher lifecycle (`main.go`, `server.go`) | where each of three goroutines is; context; `waitCh`; the result; the child; the grace timer | prepare, start, wait, interrupt, kill, clean up, exit | signals, child process, temp directory |
| Credentials (`auth.go`) | none | host and token, or an error | gh configuration |
| Temporary directory (`tempdir.go`, `tempdir_parent_unix.go`, `tempdir_parent_windows.go`) | an open handle on the parent; the parent's identity; the name created in it | secure the parent, create, verify, remove, fall back to the system's directory | the file system shared with other launchers and other programs |
| Extraction (`extract.go`) | none | verify the checksum, extract one executable from tar.gz or zip, with a limit on its size | the embedded archive |
| Environment (`main.go:82-150`, `server.go:194-228`) | none | check values; select what the child inherits | the user's environment |
| Version rules (`scripts/release-version`) | none; the history of `main` is their state | next, validate, auto-merge decision | CI on every pull request and push |
| Release job (`release.yml`, `release.sh`) | tags, drafts, releases and their assets on GitHub; the step and outputs of each job | select, verify published, prepare, create tag, build draft, verify draft, publish | other jobs, maintainers, failures |
| Upstream update (`bump.yml`, `prepare-upstream-release.sh`, `merge-upstream-release.*`) | the pull request's base and head, its CI verdict | validate the scope, prepare the commit, inspect CI, merge | Renovate, CI, pushes to `main` |
| Asset preparation (`scripts/prepare`, `update-bundled-mcp-server.sh`) | staging directory, bundle directory, metadata files | download with retries, verify, promote, check, rewrite constants | network, GitHub attestations, other runs in the same tree |
| Bundle constants, errors, streams, logging | none | none | |

### What is hard, and what makes each component correct

* **Lifecycle.** The server's exit, the cancellation, the grace timer and signals race; a
  channel of capacity one carries a value that must be received exactly once; every error
  path owes a cleanup, and the cleanup itself may fail. Correct means: an orderly end leaves no
  server and no file that the cleanup was not tried on, the exit code is earned, the server gets
  its grace period, and the launcher always ends.
* **Temporary directory.** Between any two system calls other launchers and programs may
  change the cache path; any call may fail; a launcher may crash. Correct means: private
  parents only, exclusive directories, nobody's directory removed by somebody else, no handle
  leaked, no entry forgotten.
* **Version rules.** Only neighbours are compared, but releases are identified by their
  version for ever; components overflow. Correct means: order and meaning hold along the
  whole history.
* **Release job.** CI finishes in any order, runs fail after any step and are rerun, people make
  tags, drafts and releases by hand. Correct means: nothing is published backward, rewritten, or
  with assets of unknown provenance; a green job has something to show; reruns get there.
* **Extraction.** A header states a size, the stream delivers bytes, and the limit on both is
  tested at different places with different widths. Correct means: an executable that is
  started is whole, and a refused one leaves no open file and nothing the cleanup was not tried on.
* **Environment.** Names come from three lists, values may hold `=`, and on Windows two
  spellings are one name. Correct means: the server finds exactly what it is meant to find.
* **Upstream update.** Base, head and CI verdict are read at different times and acted on
  later; jobs push to a branch that people push to. Correct means: what is merged without a
  review is what was tested and verified, a maintainer's commit is never overwritten, and a
  pull request is not left lying because events overtook each other.
* **Asset preparation.** Promotion is a sequence of removes and renames, an update rewrites
  files one by one, and nothing locks the tree. Correct means: a bundle that passes `-check`
  is the attested one, and the next run repairs what a failed one left.

`PROJECT.json` lists the hazards one by one, each at its line, with the properties that
would notice it going wrong, or the reason why no property covers it.

## 2. Modules

| Module | Models | Proofs |
|---|---|---|
| `Session` | the promise of one session, with no goroutine, signal or timer in it | |
| `ServerLifecycle` | `main.go`, `server.go` | `ServerLifecycle_proofs` |
| `LifecycleRefinement` | the mapping from `ServerLifecycle` to `Session` | `ServerLifecycle_proofs` |
| `TempDirs` | the promise of the temporary directories, with no path, handle or system call in it | |
| `TempParent` | `tempdir.go`, `tempdir_parent_unix.go`; implements `TempDirs` | `TempParent_proofs` |
| `ReleaseVersion` | `scripts/release-version/main.go` and the history of `main` | `ReleaseVersion_proofs` |
| `ReleaseLog` | the promise of the Release job to those who install releases, with no draft, step or rerun in it | |
| `ReleaseJobs` | `release.yml`, `release.sh`; implements `ReleaseLog` | `ReleaseJobs_proofs` |
| `UpstreamUpdate` | `bump.yml`, `merge-upstream-release.*`, `prepare-upstream-release.sh`; instantiates `ReleaseVersion` | `UpstreamUpdate_proofs` |
| `PrepareAssets` | `scripts/prepare/main.go`, `update-bundled-mcp-server.sh` | `PrepareAssets_proofs` |
| `Extract` | `extract.go` | `Extract_proofs` |
| `ChildEnv` | `auth.go`, `main.go:82-150`, `server.go:194-228` | `ChildEnv_proofs` |
| `TempParentWindows` | `tempdir_parent_windows.go`, on top of `TempParent`; implements `TempDirs` | `TempParent_proofs` |
| `MC…` | constants of the instances that TLC checks | |

### ServerLifecycle

`pc` is the main goroutine, from `mainRun` to `os.Exit`; `waiter` and `waitCh` are the
goroutine that calls `cmd.Wait` and its channel; `sigCh` and `ctxDone` are the channel and
the context of `signal.NotifyContext`. `child` goes from running over zombie to reaped.
Every `select` of the code is a choice between actions: `SelectExit` or `SelectCancel`
(`server.go:84-96`; both may be enabled, as Go picks either), `Confirm` (the inner select),
`GraceExit` or `GraceTimeout` (`server.go:108-112`). Preparation steps succeed (`Proceed`) or
return an error (`Fail`) to the cleanup or, before the directory exists, past it. The
environment sends signals, ends the server at any time with any status, changes the cache
directory, closes the terminal and crashes the launcher.

Abstractions: a `select` is one step; the value in `waitCh` is the server's exit status; time
is counted in ticks while the grace timer runs; an orphaned zombie is reaped by init. A
SIGINT or SIGTERM has its default effect before `NotifyContext` and after `stop()`.
`AfterCleanup` is what the cleanup closure may leave: nothing; the directory, because its parent
changed (`disowned`); or the directory, because a call of the closure failed (`stuck`). The code
ignores the error of `RemoveAll` (`tempdir.go:54`, `:77`) and removes nothing when its check
fails (`:74-76`), so that the launcher ends in the same way in all three cases. `TempParent`
models the inside of that closure.

`Session` states the same promise without any of that: files, then a server, then one
decision made with no server alive, then the removal, then the end; or the session is
abandoned. `LifecycleRefinement` maps `pc`, `tmp` and `result` to it.

### TempParent

One action per system call. Files are inodes, because `os.SameFile` compares inodes: `path`
is the inode the cache path names, `handle` the inode a launcher has open, `content` the
names in each directory. `Lstat` looks at `path` itself, `Open` and `RemoveAll` follow a
link, `mkdirat` and `unlinkat` go through the handle. Each error path is in the action that takes
it: `RefuseUnopened` before the parent is open, `RefuseAndClose` from then on. The environment
moves the directory away and puts something else in its place (`Swap`), deletes it (`Delete`),
fails a call (`IOError`) or kills a launcher (`Crash`). The removals can fail, too: the code
ignores the errors of `Unlinkat` (`tempdir_parent_unix.go:125`) and `RemoveAll`
(`tempdir.go:77`), closes its handle and goes on, and the directory stays.

Abstractions: names are members of a small set, so that collisions inside one directory do
happen and the attempt limit is reached; that 64 random bits do not collide between two
*different* directories is assumed (`Drawn`). A deleted inode can be reused, but not while a
launcher has it open. Other programs do not change the permissions of a directory of the user
after it was made private, nor the files inside it. A directory removed while its launcher
extracts into it is not followed further. `litter` is a history variable: the entries given up
by a crash, by a removal that failed or was not tried because its check failed, or by a path
that led elsewhere.

`TempDirs` says the same with two variables, what each launcher owns and what exists: a
launcher gets a directory that did not exist and is nobody's, gives it up once, and then at
most one entry disappears, never one that another launcher has in use. Here a launcher owns
what its handle and its name lead to, on Windows the directory that was really made.

### ReleaseVersion

The comparison, the bump, `validateReleaseTransition` and `autoMergeUpstreamUpdate` as
operators; `UpstreamUpdate` commits the version that `release-version next` prints and
`ReviewedChange` any version that the CI step `validate` lets through. `Remember` records an
earlier commit in the history variable `past`, so that a state invariant can speak of any two
commits. Components are `0 .. MaxComponent`, as they are `uint64` in the code, and
`CanIncrement` is the overflow check. Parsing and formatting are left out.

### ReleaseJobs

`tag`, `draft`, `published` and `assets` are the repository on GitHub; `pc` and `plan` are
the job of each commit of `main`: the step it is at and the outputs of `select`. An asset is
represented by its provenance: the commit its attestation names, or `Human` for one
uploaded by hand. `Begin` is guarded by the concurrency group (one job runs at a time) and is
also the rerun of a failed job; `Fail` ends a job after any step, and `BuildDraft` may
upload only some of the assets. Maintainers make a tag or a draft, or publish a draft, at any
time. "By hand" means these three: a tag that is moved or deleted before its release, and an
asset replaced between `verify-draft` (`release.yml:120`) and `publish` (`:129`), are outside
the model.

`ReleaseLog` is what others see of it: tags that stay, a set of releases that only grows, each
one of a job newer than all earlier ones of jobs and built whole from the commit its tag
names, and green jobs that have such a release to show. `ReleasesBar` and `GreenBar` map the
repository and the jobs to it.

Assumed, from outside the scripts: versions never go back along `main` (which is what
`UpstreamUpdate_proofs` proves of it: `MainIsOrdered`), published releases are immutable (the
repository setting in `.github/infra.yaml`), `gh-extension-precompile` replaces assets in an
existing draft. Assets beyond the expected ones, and several releases of one tag, do not occur
in the model. The job looks at the repository once, in `select`: a maintainer who publishes a
newer version by hand after that is not noticed, and `NeverBackward` does not cover it.

### UpstreamUpdate

A commit of `main` is the metadata it carries (`VERSION`, `mcp_version.go`, the version its
pinned checksums belong to), and its index in `main` is its SHA. `head` is the head of the
pull request's branch: the commit of `main` it contains, its metadata, whether it stays within
the release files, whether a maintainer committed to it. `base` is the base SHA that GitHub
reports, which a push updates and which may lag behind `main` otherwise. CI runs (`ci`),
their successful ends (`events`), the job of `bump.yml` (`bump`, and `waiting` in its
concurrency group) and the merge job (`job`, `pc`) each remember the base and the head of
the event that started them. So every read of the scripts is of a state that may be gone:
`Inspect` compares with the live pull request, `Verify` runs `prepare-upstream-release.sh`
on the job's own base and head, `Reload` reads the pull request again, and `Put` is the merge
call, which names the head and nothing else.

`Scoped`, `Canonical` and `Prepared` are the functions of `prepare-upstream-release.sh`;
they use the bump, the comparison and the auto-merge decision of `ReleaseVersion`, so that
`ReleaseRules` is the specification of that module with `main` as its history. Renovate opens,
rebases, supersedes and closes; it throws the bot's commits away, never a maintainer's
(`gitIgnoredAuthors`). `Fault` is a job that dies, a repeated event, or a pull request closed
by hand; `ReviewedMerge` is any other commit of `main` that passed the same checks, a
Renovate pull request merged by hand among them.

Abstractions: two commits of one content are one head, which makes stale results look current
and is thus the harder case. Assumed from `.github/infra.yaml`: the required checks are strict,
i.e. GitHub merges only a head that contains the tip of `main` (`Mergeable`). An admin may
bypass them (`infra.yaml:72-74`), which is outside the model: `ReleaseRules` and `MainIsOrdered`
are about histories that CI lets through. The merging app has no such bypass. That an event
comes from this repository's CI and that the pull request is Renovate's is taken for granted.
`Updatable` says a version is newer and the bump does not overflow.

### PrepareAssets

Several processes in one working tree. A file is its digest, a checksums file is the table that
`loadChecksums` reads from it; `bundle`, `sums`, `pins` and `mcp` are the tree. Each process
has its kind (check, prepare, or the update script around a preparation), its version and its
step. `DownloadSums`, `VerifyAttestation` and `Download` are the `gh` commands under
`runWithRetry`; a failed attempt may leave anything in the file, and one that reports success
may have damaged it. All assets are verified in the staging directory (`VerifyStaged`) before
`Remove` and `Rename`, which are two steps, promote the first. `WriteVersion` and `WritePin`
rewrite the tree file by file, reading the promoted checksums file again each time.
`LoadChecksums`, `VerifyPinned` and `VerifyAsset` are `-check`, which reads the tree at
three different moments. Init lets `bundled/` hold anything, as it is not committed.
A failure or a kill (`Stop`) can come at any step; `Checkout` and `Clean` are the developer.

`disturbed` is a history variable: somebody else changed the tree since this run began.
Nothing locks the tree, so `CheckSound` and `PrepareSound` can be promised to undisturbed runs
only, while `OnlyAttested` and `PinsAttested` hold for all.

Abstractions: Go files and checksum lines are parsed to a table or fail; a checksums file that
is a directory or unreadable is a failure; on Windows a rename may fail where it replaces a
file on Unix, which is one more failure.

### Extract

One archive, from `verifyBundledArchiveChecksum` to `chmod`. An entry has the size its header
states and the number of bytes its stream delivers. `ValidSize` has the two checks with their
widths: a zip header is unsigned (`Half` is 2^63), the code compares signed. `Copy` writes
block by block up to `Limit`, one byte over the maximum, and `CopyEnds` decides what the
copy was: complete, too short, too large. Any file operation may fail (`IOError`, `CloseError`),
and each error path names what it closes: nothing (`Fail`), the stream (`FailClosing`), or file
and stream (`FailClosingAll`). The caller then runs `cleanup()`, which removes the directory
(`Cleanup`) or, because its parent changed or a call failed, does not (`CleanupGivesUp`): the
file may be there or gone then. The tar loop skips what is not
a regular file, the zip loop does not look at the type (`IsExecutable`). Compression and the
formats themselves belong to the libraries.

### ChildEnv

A text is a sequence of chunks (words, numbers, `:`, `//`, `=`, NUL, line break), enough
for every decision that the code takes on a text. What go-gh answers for the host and the token
are inputs. `GetAuth` is `getAuthDetails` with the scheme that `Schemed` finds as `url.Parse`
does; `AppendServerEnv` is the validation and the append; `AddRequired`, `AddAllowed` and
`Emit` are the three loops of `buildChildProcessEnv`. `Fold` maps a key to the name under
which the system looks it up: the identity on Unix, one name for all spellings on Windows.

### TempParentWindows

Extends `TempParent`; the steps that are the same in both are used as they are (`Shared`).
`OpenReparsePoint` opens a link itself, `SecureNothing` is the permission step that does
nothing, and `MkdirTemp` and `RemoveAll` go by path, so that the directory may be made and
removed somewhere else than where the parent was verified. `made` is where each launcher's
directory really is. `CallFails` has the calls that may fail here, both uses of `RemoveAll`
(`tempdir_parent_windows.go:25`, `tempdir.go:77`) among them, whose error is ignored. Random
names do not collide between two different directories (`DrawnHere`).

## 3. Runs

| Run | Instance | Distinct states | What it shows |
|---|---|---|---|
| `lifecycle_unix` | Unix, grace of 3 ticks, 2 signals | 3,929 | the safety, liveness and refinement properties of the launcher |
| `lifecycle_windows` | Windows, same bounds | 1,543 | termination and refinement where there is no interrupt |
| `lifecycle_hangup` | Unix | violation | see Findings |
| `tempparent` | 2 launchers, 2 own and 1 foreign directory, 1 link, 2 names, 2 attempts, 2 changes, 1 fault | 716,815 | the temporary directories are safe and implement `TempDirs`, and creating one always ends |
| `tempparent_windows` | 2 launchers, 2 directories, 1 link, 1 file, 2 names, 2 changes, 1 fault | 495,856 | what remains of that when directories are made and removed by path |
| `release_version` | components 0 to 2, two first versions | 37,888 | the order and the meaning of versions over all histories |
| `release_jobs` | 3 commits of main and 1 elsewhere, 2 versions, 2 assets, 2 failures, 3 changes by hand | 409,071 | publishing is safe and implements `ReleaseLog`, and without changes by hand all jobs get green |
| `upstream` | components 0 and 1, a patch and a major release, 3 commits of main, 2 CI runs at once, 1 commit of a maintainer or fault | 210,830 | only verified heads are merged, and the automatic ones are |
| `prepare` | one process of any kind, 2 versions of 2 assets that share one, a truncated and a forged checksums file, 2 attempts, 1 fault, 1 change by the developer | 871,206 | checks and preparations are sound, and repeated updates repair the tree |
| `extract` | up to 2 entries, limit 2, sizes of 3 bits, streams of 0 to 4 bytes | 39,132 | the size limits and every error path |
| `childenv` | Windows, 2 options, 3 allowed keys of which 2 are one name, 6 hosts, 4 tokens | 21,816 | the server finds exactly what it is meant to |
| `childenv_host` | Unix, a host with a port | violation | see Findings |

**Why these bounds are enough.**
*Lifecycle*: two signals are a first one that cancels and a second one at any time after;
three ticks let every event fall before, between and after ticks.
*Temporary directories*: two launchers are enough for every collision, since each property is
about a pair; two changes of the path are a swap and a swap back; two names with two attempts
reach the limit.
*Versions*: components 0 to 2 reach the overflow in each position within two bumps.
*Releases*: three commits, of which two carry the same version, give an older, a newer and an
unversioned change, in any order of CI; three changes by hand are a tag, a draft and its
publication.
*Upstream*: three commits of `main` are a start, one automatic merge and another commit before
it (`ReviewedMerge` leaves room for the automatic one); two CI runs can overtake each other; the
patch release can be superseded by the major one. With one maintainer's commit every stale push
is tried against it.
*Preparation*: Init already has every content a crashed earlier run could leave, so that one
failure more is one in the middle of a repair; the change by the developer comes at any step.
Runs that overlap with other runs are covered by the proofs, for any number of them.
*Extraction*: with a limit of 2 the headers state 0, the limit, one more, and a number that is
negative when signed; the streams are shorter, equal, longer by one and longer still; two
entries give a wrong one before or after a right one, and two right ones.
*Environment*: hosts and tokens include the empty one, one with `=`, one with a line break and
one with NUL; each variable is unset, empty and set.

All safety properties of passing runs are also proved, without any of these bounds
(section 4).

**Fairness.** `ServerLifecycle`: the Go scheduler runs each of the three goroutines (weak
fairness on each), the clock advances, and a process that was sent SIGKILL dies. Nothing is
assumed of a server that was only interrupted, nor of one that runs. `TempParent`: a launcher
that creates a directory keeps running. `ReleaseJobs`: commits keep coming, a job that runs
goes on, and a failed job is rerun (CONTRIBUTING.md:166); as jobs take the single place of the
concurrency group from each other, reruns need strong fairness. `AllGreen` speaks of behaviours
with nothing done by hand: a tag on a wrong commit stops the job on purpose
(`release.sh:226-232`) until somebody removes it. `UpstreamUpdate`: started jobs end, and
Renovate, which runs on a schedule, rebases a branch that is behind and closes a pull request
that has become pointless; it need not open or supersede one. `Arrives` speaks of pull
requests that nobody else committed to, in behaviours without faults. `PrepareAssets`: a process
that was started runs on, and the update is run again and again (strong fairness, as checks may
come in between). No fairness is ever assumed of failures or of people.

**Deadlock** is checked where a finished instance stutters explicitly (`Terminated`,
`Returned`) or none ends. It is off in `upstream`, where a history of `MaxMain` commits really
ends, and in `childenv` and `childenv_host`, which end with a started server or an error.

### Properties

*Launcher.* `NothingForgotten`: at an orderly end, or when a signal with its default effect
strikes before or after, there is no server, and no binary that the cleanup was not tried on.
`GraceGiven`: no kill before the grace period is over. `CleanExitEarned`: exit code 0 is given
only after a cancellation or a server's success. `CancelLeadsToEnd`, `ServerEndLeadsToEnd`: the
launcher ends, whatever the server does. `ImplementsSession`: all steps are steps of `Session`.

*Temporary directories.* `InUseStays`, `PrivateParent`: between launchers and whatever happens
to the path. `HandleBalance`, `Accounted`: no error path leaks the handle, and no entry is
forgotten: it has an owner who will try to remove it, or was given up for one of the reasons
above. `ImplementsTempDirs`: all steps are steps of `TempDirs`, so that directories are
exclusive and no step of one launcher costs another one its own. `Settles`: no livelock on taken
names. On Windows: `MadeWhereVerified` (a directory is used only in the parent that was
verified, unless that was replaced *and* put back), `MadeAccounted` and `OthersStay` (wherever
directories end up, no two launchers share one and none is taken away by another launcher).

*Versions.* `OneUpstreamPerRelease` and `NeverBack` relate any two commits of the history;
`Compatibility` each single step.

*Releases.* `PublishedProvenance` and `GreenMeansReleased` relate releases, tags, commits
and assets; `NeverBackward` is about steps; `ImplementsReleaseLog` says all of it at once and
that nothing published is ever rewritten; `AllGreen` is about the end.

*Upstream update.* `AutoMergeVerified`: a commit merged without a review is exactly what the
scripts generate for the commit it is merged on, of the same major version, and passed CI as
it is. `HumanKept`: no job overwrites a maintainer's commit. `ReleaseRules`: `main` stays
within `ReleaseVersion`. `Arrives`: an automatic update does not stay open for ever.

*Asset preparation.* `CheckSound`, `PrepareSound`: a success means the attested bundle and one
version throughout the tree. `ReplacementsReady`: nothing is removed before everything is
verified. `OnlyAttested`: whatever overlaps or fails, only attested contents enter the bundle.
`Recovers`: an update that is run again gets there from whatever was left behind.

*Extraction.* `SuccessIsWhole`, `NothingForgotten` (of `Extract`) and `GoodAccepted`: what is
accepted is whole, what is refused has its files closed and `cleanup()` run for its directory,
and nothing good is refused.

*Environment.* `ChildExact`: the server finds what it is meant to find under each name, and
nothing else. `UnsafeRefused`: no line break or NUL reaches a server.

### Findings

`lifecycle_hangup`: README.md:152 says "The temporary extracted binary is automatically
removed when you exit" and README.md:184 "No data persists after the session ends". Only
SIGINT and SIGTERM are caught (`main.go:37`); closing the terminal sends SIGHUP, which ends
the launcher without its deferred cleanup, and nothing removes the directory in a later
session.

`childenv_host`: auth.go:60 says "Ensure host has https:// prefix". For a host with a port,
such as `ghe:8443`, `url.Parse` takes `ghe` for the scheme, the test in auth.go:62 finds a
scheme, and `GITHUB_HOST` gets no prefix. A host that begins with a digit does get it.

In both the code and the words disagree; which of them should change is not for a model to say.

## 4. Proofs

All proofs are checked by TLAPS to the last leaf, for every value of the constants that the
named assumptions allow. Each rests on one inductive invariant, as no safety property is
inductive by itself.

Liveness is out of the proof system's reach, but most of what makes it hold is not: that
somebody can always go on, that each step gets nearer to the end, that a failure is one that a
rerun mends. Such a *kernel* is a state or step property of its own, proved for each of the
six liveness properties; what is left to TLC is that fairness turns it into an end.

**`ServerLifecycle_proofs`** (assumption: `LifecycleAssumption`). `IInv` adds to the types:
who holds the server's exit (`WaiterInv`: a waiter exists exactly when a child does, and an
exit in `waitCh` means that the child was reaped), where the main goroutine may be with or
without a child (`ChildInv`), when the directory exists (`TmpInv`), that stopping happens for
a cancelled context only and that the timer ran out before a kill (`StopInv`), and when a
result is decided (`ResultInv`). `NoOrphan` needs `WaiterInv`: the goroutine leaves
`confirm`, `grace` or `drain` only with a value it received, and only a reaped child gives
one. `Refinement` shows that every step maps to a step of `Session` or to a stutter.
The kernel of `CancelLeadsToEnd` and `ServerEndLeadsToEnd` is `WaitsForServerOnly` and
`Descends`. The first needs `ExitInv`: while somebody waits for `waitCh`, the exit is still to
come or is in it, never received before. The second counts, in `Rank`, how far main goroutine,
timer, child, waiter and signals are from their ends; every step of anybody lowers it.

**`TempParent_proofs`** (assumption: `TempParentAssumption`). Three layers: `LInv`, what each
launcher knows at each step (from `secure` on its handle is a directory of the user, from
`recheck` on a private one); `OInv`, that names in use are apart and still there, which is
what lets `Remove` work on a path that was swapped after the verification without hitting the
directory of another launcher; `AInv`, that each entry has an owner or is recorded as litter.
`TempDirsRefinement` follows from `OInv`: the entry that an `unlinkat` or a `RemoveAll` takes is
the launcher's own or nobody's. `CallsRunOut` is the kernel of `Settles`: the calls a launcher
has left, draws of a name among them, only get fewer until it settles or is restarted.
The Windows layer has an invariant of its own (`WInv`), as the handle no longer says where a
directory is. `Displaced` counts the changes of the path: a directory made elsewhere has
taken one, and to find the path as verified afterwards takes a second, since the open handle
keeps the inode from being used again; that gives `MadeWhereVerified`. `NamesApart` gives
`OthersStay` and the same refinement of `TempDirs`, although nothing is removed through a
handle: the names drawn differ, wherever the path leads.

**`ReleaseVersion_proofs`** (assumption: `ReleaseVersionAssumption`). The comparison is a
total order (`CompareTotal`, `CompareTransitive`), a bump gives a newer version (`BumpNewer`),
hence a transition that passes validation goes up strictly when upstream moves
(`ValidatedStep`), and by transitivity over any history. No component ever overflows
(`TypeThm`).

**`ReleaseJobs_proofs`** (assumption: `ReleaseJobsAssumption`). `JInv` has `OneRuns` (the
concurrency group), `Tagged` (a published release has a tag) and a part for each job: while
it publishes, no job published its version or a newer one since it selected, the tag is at its
commit from the build on, and a verified draft keeps its assets until it is published.
`Others` is the lemma that makes the steps short: a running job leaves what is known of the
other ones alone. `ReleaseLogRefinement` puts the parts together: `Publish` adds a new entry to
the log or, after somebody else published that very draft, nothing.
`FailsResumably` and `NoneFailsOfItself` are the kernel of `AllGreen`. They hold for
repositories in which nothing was done by hand (`UInv`): every tag is at the commit of the job
that made it, so that a step dies only because the tag's owner failed before, or because an
upload of its own did; and with no failure at all no job fails, in whatever order CI ends.

**`UpstreamUpdate_proofs`** (assumption: `UpstreamAssumption`). `RunsPlaced` and `HeadPlaced`:
every base in a run, a job or a head is a commit that `main` has. `JobVerified`: after
`Verify` the job's head is eligible for the job's base. As `main` only grows, that verdict stays
true while other things move (`EligibleStable`), and since the base of a mergeable head is the
tip, the verdict is about the very commit it is merged on; that is all of `OnlyVerifiedMerges`.
`FollowsReleaseRules` shows that every step of `main` is one of `ReleaseVersion`, an upstream
update or a reviewed change, so the theorems about versions hold of this `main`. `MainIsOrdered`
is what they come to: along `main` no version goes back and none is given to two upstream
versions, which `ReleaseJobsAssumption` takes for granted. `NothingLost` is the kernel of
`Arrives`. Its invariant `LostInv` says where the next step of a pull request on the tip of `main`
is; the hard part is that a job or an event of an older head neither takes the place of the
current one in a concurrency group nor consumes its result, and that what
`release-version next` prints is accepted by `validate` (`DueIsGood`).

**`PrepareAssets_proofs`** (assumption: `PrepareAssumption`). Three layers. `LInv` is what a
process knows of its private files: from the attestation on its table is the attested one, from
the promotion on all staged assets are. `PInv` adds `PinsInv`, for any number of overlapping
runs: while the pins are of more than one version, the checksums file of the tree's version was
put there by an update and is attested. `IInv` adds `KnowsInv`, what an undisturbed run knows of
the shared tree at each step; a step of another process either disturbs it or leaves the tree
alone (`Noticed`). `CheckIsSound` needs both: a passing check ties bundle and pins to the
checksums file, which nobody attests again, and `PinsInv` says that either the pins or that
file are the attested ones. `FailsForAReason` is the kernel of `Recovers`: as long as nothing
breaks, an undisturbed run fails only as a check of files that are not complete, so whatever an
earlier run left in `bundled/` stops no update.

**`Extract_proofs`** (assumption: `ExtractAssumption`). `ScanInv`: the entry that is copied is
the first match. `FileInv`: how much is in the file, which files are open
and where the directory is at each step. `RefusalInv`: without a failed file
operation a good archive is not on its way to an error. `GoodIsAccepted` is the one that fails
when a limit is off by one.

**`ChildEnv_proofs`** (assumption: `ChildEnvAssumption`). `ItemParts` and `ItemCut`: cutting
`KEY=VALUE` at the first `=` gives key and value back, whatever the value. Then one invariant
per loop: `EnvInv` (the items so far), `OrderInv` and `MergedInv` (the merged variables are
the wanted ones up to the index), `ChildInv` (the items emitted are them). `DueIsMeant` says
that what the loops collect is what the specification `Meant` asks for.

**Theorems without a run of their own.** Some properties follow from the same proofs and are
not listed in a run: the types of each module, `NoOrphan`, `BinaryOutlivesServer`,
`CancelIsClean`, `Tidy`, `AutoMergeKeepsMajor`, `PinsAttested`, `BoundedWrite`,
`MainConsistent`, `MainOrdered`, the kernels of liveness above, `Exclusive` and `NeverRewritten`,
which the refinements of `TempDirs` and `ReleaseLog` include, and the refinement of `TempDirs`
on Windows (`WindowsImplementsTempDirs`).

**Only model-checked:** the liveness properties (`CancelLeadsToEnd`, `ServerEndLeadsToEnd`,
`Settles`, `AllGreen`, `Arrives`, `Recovers`), since fairness and ENABLED are out of the proof
system's reach.

## 5. Not modelled, and why

* **The fallback directory** (`tempdir.go`, the system's temporary directory) is a state
  without files: it is a plain `os.MkdirTemp` there, and its removal is the `tmp` of
  `ServerLifecycle`.
* **Parsing and formatting**: version strings, checksum lines, Go constants, archive formats and
  compression. Each gives a value or fails; the strings themselves carry no state.
* **A directory entry named like the executable.** In a zip it is extracted as an empty file,
  in a tar it is skipped and the executable is missing (`extract.go:98`). `IsExecutable` has
  the difference; as archives are pinned and do hold the executable, no run of the program
  meets it, and no property is about it.
* **Where events come from.** The workflows check the repository, the event and the author of
  what they react to; the models start after these checks.
* **Linting, Go tests and the asset cache of CI**: they decide whether a job fails, which
  the models let happen anyway.
* **A maintainer publishing during a Release job** goes unnoticed by the job
  (`release.sh:180`); `NeverBackward` does not cover releases made by hand.
* **Tags moved or deleted and assets replaced by hand.** The Release job trusts a draft from
  `verify-draft` (`release.yml:120`) to `publish` (`:129`); what a maintainer replaces in
  between is published.
* **An admin who bypasses the checks of `main`** (`infra.yaml:72-74`): no rule holds of what is
  merged that way.
* **Ctrl+C reaching the server too** (`server.go:91`): the server may exit with an error
  before the launcher's context is cancelled; the inner `select` narrows that window and
  the code promises no more.
* **Composition.** `ServerLifecycle` takes creation, extraction and removal of the directory as
  steps that succeed or fail, and `TempParent`, `Extract` and `ChildEnv` model the inside of
  those steps; they share no variable that would make a product of them say more. What both
  platforms promise to these steps is one specification, `TempDirs`. `ReleaseJobs` and
  `UpstreamUpdate` share `main`, of which the one needs the order only that the other proves.
* **Bundle constants, error values, streams, log output, task definitions**: no state.
