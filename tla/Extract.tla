------------------------------- MODULE Extract -------------------------------
(***************************************************************************)
(* From the embedded archive to an executable file (extract.go and         *)
(* materializeBundledServerBinary in server.go).  The header of an entry    *)
(* says how large it is; what its stream delivers is known only by copying  *)
(* it.  Every file operation may fail.                                      *)
(* Definitions named Faulty... are the code with one plausible mistake.    *)
(***************************************************************************)
EXTENDS Integers, Sequences

CONSTANTS
    Entries,     \* [named : BOOLEAN, kind : Kinds, size : Sizes, data : Nat]
    MaxEntries,  \* bound: entries of an archive
    Half,        \* 2^63: sizes are unsigned in a zip header, signed in Go
    Max,         \* maxBundledExecutableBytes
    Windows      \* runtime.GOOS = "windows"

Kinds    == {"regular", "directory", "link"}
Sizes    == 0 .. 2 * Half - 1
Archives == [format : {"tar.gz", "zip", "other"}, pinned : BOOLEAN,
             entries : UNION {[1 .. n -> Entries] : n \in 0 .. MaxEntries}]

ASSUME ExtractAssumption ==
    /\ Entries \subseteq [named : BOOLEAN, kind : Kinds, size : Sizes, data : Nat]
    /\ \A e \in Entries : e.kind = "directory" => e.data = 0
    /\ MaxEntries \in Nat
    /\ Max \in Nat
    /\ Half \in Nat /\ Max < Half
    /\ Windows \in BOOLEAN

VARIABLES
    archive,  \* the embedded archive; pinned: it has the pinned checksum
    pc,
    next,     \* the entry the loop looks at
    dir,      \* the temporary directory; disowned: cleanup() did not remove it
    file,     \* bytes in the executable file; NoFile: it does not exist
    out,      \* the executable file is open for writing
    stream,   \* the zip entry is open for reading
    err,      \* the error that will be returned
    faulted   \* history: a file operation failed

vars == <<archive, pc, next, dir, file, out, stream, err, faulted>>

NoFile == -1

Steps  == {"verify", "mkdir", "scan", "open", "create", "copy", "close",
           "closestream", "chmod", "cleanup", "done", "failed"}
Dirs   == {"none", "present", "removed", "disowned"}
Errors == {"none", "checksum", "format", "notfound", "size", "toolarge", "io"}

Entry  == archive.entries[next]
More   == next <= Len(archive.entries)

(* int64 of an unsigned number of as many bits.                            *)
Signed(n) == IF n >= Half THEN n - 2 * Half ELSE n

TypeOK ==
    /\ archive \in Archives
    /\ pc \in Steps
    /\ next \in 1 .. MaxEntries + 1
    /\ dir \in Dirs
    /\ file \in {NoFile} \cup Nat
    /\ out \in BOOLEAN
    /\ stream \in BOOLEAN
    /\ err \in Errors
    /\ faulted \in BOOLEAN

Init ==
    /\ archive \in Archives
    /\ pc = "verify"
    /\ next = 1
    /\ dir = "none"
    /\ file = NoFile
    /\ out = FALSE
    /\ stream = FALSE
    /\ err = "none"
    /\ faulted = FALSE

(* An error is returned; once there is a directory, the caller calls        *)
(* cleanup() for it.                                                       *)
Return(e) ==
    /\ err' = e
    /\ pc' = IF dir = "present" THEN "cleanup" ELSE "failed"

(* Each error path closes what it has opened: nothing before the entry is   *)
(* opened, the stream when the file cannot be created, both from then on.   *)
Fail(e)           == Return(e) /\ UNCHANGED <<out, stream>>
FailClosing(e)    == Return(e) /\ stream' = FALSE /\ UNCHANGED out
FailClosingAll(e) == Return(e) /\ out' = FALSE /\ stream' = FALSE

(* verifyBundledArchiveChecksum                                            *)
VerifyChecksum ==
    /\ pc = "verify"
    /\ \/ archive.pinned /\ pc' = "mkdir" /\ UNCHANGED <<out, stream, err>>
       \/ ~archive.pinned /\ Fail("checksum")
    /\ UNCHANGED <<archive, next, dir, file, faulted>>

(* createTempDirWithFallback, then the archive's suffix.                   *)
MakeDir ==
    /\ pc = "mkdir"
    /\ dir' = "present"
    /\ \/ archive.format # "other" /\ pc' = "scan" /\ UNCHANGED err
       \/ archive.format = "other" /\ pc' = "cleanup" /\ err' = "format"
    /\ UNCHANGED <<archive, next, file, out, stream, faulted>>

(* The tar loop skips what is not a regular file; the zip loop does not     *)
(* look at the type.                                                       *)
IsExecutable(e) == e.named /\ (archive.format = "tar.gz" => e.kind = "regular")

Skip ==
    /\ pc = "scan"
    /\ More /\ ~IsExecutable(Entry)
    /\ next' = next + 1
    /\ UNCHANGED <<archive, pc, dir, file, out, stream, err, faulted>>

NotFound ==
    /\ pc = "scan"
    /\ ~More
    /\ Fail("notfound")
    /\ UNCHANGED <<archive, next, dir, file, faulted>>

(* Faulty: the limit itself is refused.                                    *)
FaultyValidSize(size) ==
    /\ archive.format = "zip" => size < Half
    /\ Signed(size) \in 0 .. Max - 1

(* validateZipExecutableSize and validateBundledExecutableSize             *)
ValidSize(size) ==
    /\ archive.format = "zip" => size < Half
    /\ Signed(size) \in 0 .. Max

Validate ==
    /\ pc = "scan"
    /\ More /\ IsExecutable(Entry)
    /\ \/ /\ ValidSize(Entry.size)
          /\ pc' = IF archive.format = "zip" THEN "open" ELSE "create"
          /\ UNCHANGED <<out, stream, err>>
       \/ ~ValidSize(Entry.size) /\ Fail("size")
    /\ UNCHANGED <<archive, next, dir, file, faulted>>

OpenStream ==
    /\ pc = "open"
    /\ stream' = TRUE
    /\ pc' = "create"
    /\ UNCHANGED <<archive, next, dir, file, out, err, faulted>>

CreateFile ==
    /\ pc = "create"
    /\ file' = 0
    /\ out' = TRUE
    /\ pc' = "copy"
    /\ UNCHANGED <<archive, next, dir, stream, err, faulted>>

(* Faulty: the limit of the copy is the limit of the headers.              *)
FaultyLimitExact == Max

(* One byte more than allowed is read, to tell a larger entry from one that *)
(* just fits.                                                              *)
Limit == Max + 1

(* io.Copy writes block by block.                                          *)
Copy ==
    /\ pc = "copy"
    /\ file < Entry.data /\ file < Limit
    /\ file' = file + 1
    /\ UNCHANGED <<archive, pc, next, dir, out, stream, err, faulted>>

(* The reader reports a stream shorter than the header said; a longer one   *)
(* may or may not be noticed before the limit.                             *)
CopyEnds ==
    /\ pc = "copy"
    /\ file = Entry.data \/ file >= Limit
    /\ \/ /\ file >= Signed(Entry.size) \/ file >= Limit
          /\ \/ file > Max /\ FailClosingAll("toolarge")
             \/ file <= Max /\ pc' = "close" /\ UNCHANGED <<out, stream, err>>
       \/ file # Signed(Entry.size) /\ FailClosingAll("io")
    /\ UNCHANGED <<archive, next, dir, file, faulted>>

CloseFile ==
    /\ pc = "close"
    /\ out' = FALSE
    /\ pc' = IF stream THEN "closestream" ELSE "chmod"
    /\ UNCHANGED <<archive, next, dir, file, stream, err, faulted>>

CloseStream ==
    /\ pc = "closestream"
    /\ stream' = FALSE
    /\ pc' = "chmod"
    /\ UNCHANGED <<archive, next, dir, file, out, err, faulted>>

(* os.Chmod, where there are permissions to set.                           *)
Chmod ==
    /\ pc = "chmod"
    /\ pc' = "done"
    /\ UNCHANGED <<archive, next, dir, file, out, stream, err, faulted>>

(* Faulty: the error of closing the file returns with the stream open.     *)
FaultyCloseError == pc = "close" /\ Return("io") /\ out' = FALSE /\ UNCHANGED stream

(* A Close that reports an error has given up its file; the stream is       *)
(* closed after it.                                                        *)
CloseError == pc = "close" /\ FailClosingAll("io")

(* A file operation or a read of the archive fails.                        *)
IOError ==
    /\ \/ pc \in {"mkdir", "scan", "open"} /\ Fail("io")
       \/ pc = "create" /\ FailClosing("io")
       \/ pc = "copy" /\ FailClosingAll("io")
       \/ CloseError
       \/ pc = "closestream" /\ FailClosing("io")
       \/ pc = "chmod" /\ ~Windows /\ Fail("io")
    /\ faulted' = TRUE
    /\ UNCHANGED <<archive, next, dir, file>>

(* cleanup() removes the directory, and the caller gets no path.           *)
Cleanup ==
    /\ pc = "cleanup"
    /\ dir' = "removed"
    /\ file' = NoFile
    /\ pc' = "failed"
    /\ UNCHANGED <<archive, next, out, stream, err, faulted>>

(* The parent of the directory changed, or a call of cleanup() failed, its  *)
(* error ignored: the directory stays, with the file or without.           *)
CleanupGivesUp ==
    /\ pc = "cleanup"
    /\ dir' = "disowned"
    /\ file' \in {file, NoFile}
    /\ pc' = "failed"
    /\ UNCHANGED <<archive, next, out, stream, err, faulted>>

Returned == pc \in {"done", "failed"} /\ UNCHANGED vars

Work ==
    \/ VerifyChecksum \/ MakeDir \/ Skip \/ NotFound \/ Validate \/ OpenStream
    \/ CreateFile \/ Copy \/ CopyEnds \/ CloseFile \/ CloseStream \/ Chmod
    \/ Cleanup \/ CleanupGivesUp

Next == Work \/ IOError \/ Returned

Spec == Init /\ [][Next]_vars

(***************************************************************************)
(* Properties                                                              *)
(***************************************************************************)

(* The entries that could be the executable, and the first of them.        *)
Candidates == {i \in DOMAIN archive.entries : IsExecutable(archive.entries[i])}
Chosen(i)  == i \in Candidates /\ \A j \in Candidates : i <= j

(* An executable that is started comes from an archive with the pinned      *)
(* checksum, and is the whole of its first matching entry: a copy that the  *)
(* limit cut short is never taken for the executable.                      *)
SuccessIsWhole ==
    pc = "done" =>
        /\ archive.pinned /\ dir = "present"
        /\ \E i \in Candidates :
             Chosen(i) /\ file = archive.entries[i].data /\ file <= Max

(* However large a stream turns out to be, the disk receives at most one    *)
(* byte over the limit.                                                    *)
BoundedWrite == file <= Max + 1

(* Whatever step fails, the extraction has closed each file it opened, and  *)
(* a call that fails has a reason and has run cleanup() for its directory:  *)
(* that is gone with all that was written, or was given up by cleanup().    *)
NothingForgotten ==
    /\ pc \in {"cleanup", "done", "failed"} => ~out /\ ~stream
    /\ pc = "failed" =>
         /\ err # "none"
         /\ dir = "disowned" \/ (dir \in {"none", "removed"} /\ file = NoFile)

(* An archive with a correct first match is refused only when a file        *)
(* operation failed: a size of exactly the limit, and an empty one, pass.   *)
GoodAccepted ==
    pc = "failed" /\ ~faulted /\ archive.pinned /\ archive.format # "other" =>
        ~ \E i \in Candidates :
            /\ Chosen(i)
            /\ archive.entries[i].size = archive.entries[i].data
            /\ archive.entries[i].data <= Max
=============================================================================
