------------------------------ MODULE FileCopy ------------------------------
(***************************************************************************)
(* mm_copy() (src/file.c) on both platforms (src/file-posix.c and          *)
(* src/file-win32.c): the clone of a regular file, with the call of the    *)
(* kernel or through a buffer, and the copy of a symbolic link.            *)
(*                                                                         *)
(* A file is a sequence of blocks, the n-th block of the source being n.   *)
(* One step is one system call. Another process may make the source grow,  *)
(* redirect the link that is copied, create the destination first, or move *)
(* the new file away and put its own under the name.                       *)
(***************************************************************************)
EXTENDS Integers, Sequences, FiniteSets, SequencesExt

CONSTANTS
    Sources,        \* what src may be at the start
    CopyFlags,      \* flags given to mm_copy()
    MaxBlocks       \* bound: length to which the source may grow

Blocks(n) == [i \in 1 .. n |-> i]
SourceRec == [type : {"absent", "DIR", "REG", "LNK"}, blocks : Seq(Nat), target : Seq(Nat),
              readable : BOOLEAN, ranges : BOOLEAN, sized : BOOLEAN]

ASSUME CopyAssumption ==
    /\ MaxBlocks \in Nat
    /\ \A s \in Sources : s \in SourceRec /\ s.blocks = Blocks(Len(s.blocks))

VARIABLES
    cpWin,          \* is it the implementation of Windows
    cpFlags,        \* flags
    source,         \* what src names: type, blocks, and target of a link
    dstName,        \* what dst names: "none", "ours", "theirs"
    outFile,        \* the file or link this call has created
    cpAt,           \* next system call
    offset,         \* blocks of the source that have been read
    buffer,         \* blocks read and not yet written
    tgt,            \* target of the link as this call knows it
    tgtSize,        \* size of the buffer for the target
    cpResult,       \* what mm_copy() has returned, 1 while it runs
    atOpen,         \* history: the source when it was opened
    targets,        \* history: targets the link has had
    moved           \* history: our file was moved away

copyVars == <<cpWin, cpFlags, source, dstName, outFile, cpAt, offset, buffer, tgt,
              tgtSize, cpResult, atOpen, targets, moved>>
otherVars == <<cpWin, cpFlags, outFile, cpAt, offset, buffer, tgt, tgtSize, cpResult, atOpen>>
given == <<cpWin, cpFlags, source, targets, moved>>

NoFile == [type |-> "none", blocks |-> <<>>, target |-> <<>>]
Remaining == Len(source.blocks) - offset
CopiesLink == source.type = "LNK" /\ "NOFOLLOW" \in cpFlags

\* The file behind src: a link that is followed leads to a regular file.
Behind == IF source.type = "LNK" THEN "REG" ELSE source.type

Ended == {"done", "left"}
End(rv) == cpAt' = "done" /\ cpResult' = rv
StepTo(at) == cpAt' = at /\ UNCHANGED cpResult
Free(at) == StepTo(at) /\ UNCHANGED <<dstName, outFile, offset, buffer>>

-----------------------------------------------------------------------------
mm_copy ==
    /\ cpAt = "start"
    /\ IF {"NOCOW", "FORCECOW"} \subseteq cpFlags THEN End(-1) ELSE StepTo("open")
    /\ UNCHANGED <<given, dstName, outFile, offset, buffer, tgt, tgtSize, atOpen>>

\* The source is opened. POSIX opens a directory and meets the error when it
\* reads; Windows opens a file that may not be read for its attributes, and
\* meets the error when it reads.
copy_internal ==
    /\ cpAt = "open"
    /\ atOpen' = source
    /\ IF cpWin
       THEN CASE source.type \in {"absent", "DIR"} -> End(-1)
              [] CopiesLink -> StepTo("reparse")
              [] OTHER -> StepTo("create")
       ELSE CASE CopiesLink -> StepTo("lstat")
              [] ~CopiesLink /\ (source.type = "absent" \/ ~source.readable) -> End(-1)
              [] OTHER -> StepTo("create")
    /\ UNCHANGED <<given, dstName, outFile, offset, buffer, tgt, tgtSize>>

\* O_CREAT|O_EXCL, CREATE_NEW: the name must be free. Neither MM_NOCOW nor
\* MM_FORCECOW has an effect: flags & (MM_NOCOW & MM_FORCECOW) is 0.
clone_srcfd ==
    /\ cpAt = "create"
    /\ IF dstName # "none" THEN End(-1) /\ UNCHANGED <<dstName, outFile>>
       ELSE /\ dstName' = "ours" /\ outFile' = [NoFile EXCEPT !.type = "REG"]
            /\ StepTo(IF cpWin THEN "read" ELSE "range")
    /\ UNCHANGED <<given, offset, buffer, tgt, tgtSize, atOpen>>

\* copy_file_range(): it copies some blocks, reports the end, is not
\* supported (also by reporting an end at once), or fails.
clone_fd_try_cow_ZeroIsEnd ==
    /\ cpAt = "range"
    /\ \/ /\ Behind = "REG" /\ source.ranges
          /\ \E n \in 1 .. Remaining :
              /\ outFile' = [outFile EXCEPT !.blocks = @ \o SubSeq(source.blocks, offset + 1, offset + n)]
              /\ offset' = offset + n
          /\ UNCHANGED <<cpAt, cpResult>>
       \/ /\ Behind = "REG" /\ (Remaining = 0 \/ ~source.ranges)
          /\ End(0) /\ UNCHANGED <<outFile, offset>>
    /\ UNCHANGED <<given, dstName, buffer, tgt, tgtSize, atOpen>>

clone_fd_try_cow ==
    /\ cpAt = "range"
    /\ \/ /\ Behind = "REG" /\ source.ranges
          /\ \E n \in 1 .. Remaining :
              /\ outFile' = [outFile EXCEPT !.blocks = @ \o SubSeq(source.blocks, offset + 1, offset + n)]
              /\ offset' = offset + n
          /\ UNCHANGED <<cpAt, cpResult>>
       \/ /\ Behind = "REG" /\ (Remaining = 0 \/ ~source.ranges)
          /\ IF offset # 0 THEN End(0) ELSE StepTo("read")
          /\ UNCHANGED <<outFile, offset>>
       \/ StepTo("read") /\ UNCHANGED <<outFile, offset>>     \* ENOSYS, EXDEV
       \/ StepTo("undo") /\ UNCHANGED <<outFile, offset>>
    /\ UNCHANGED <<given, dstName, buffer, tgt, tgtSize, atOpen>>

-----------------------------------------------------------------------------
(***************************************************************************)
(* The copy through a buffer, the same on both platforms. Reads and writes *)
(* may be short.                                                           *)
(***************************************************************************)
ReadBlocks ==
    /\ cpAt = "read"
    /\ \/ /\ Behind = "REG" /\ source.readable /\ Remaining = 0
          /\ End(0) /\ UNCHANGED <<buffer, offset>>
       \/ /\ Behind = "REG" /\ source.readable
          /\ \E n \in 1 .. Remaining :
              /\ buffer' = SubSeq(source.blocks, offset + 1, offset + n)
              /\ offset' = offset + n
          /\ StepTo("write")
       \/ StepTo("undo") /\ UNCHANGED <<buffer, offset>>
    /\ UNCHANGED <<given, dstName, outFile, tgt, tgtSize, atOpen>>

clone_fallback ==
    /\ cpAt = "write"
    /\ \/ \E n \in 1 .. Len(buffer) :
           /\ outFile' = [outFile EXCEPT !.blocks = @ \o SubSeq(buffer, 1, n)]
           /\ buffer' = SubSeq(buffer, n + 1, Len(buffer))
           /\ StepTo(IF n = Len(buffer) THEN "read" ELSE "write")
       \/ StepTo("undo") /\ UNCHANGED <<outFile, buffer>>
    /\ UNCHANGED <<given, dstName, offset, tgt, tgtSize, atOpen>>

\* The unfinished file is removed: by its name on POSIX, whatever it names by
\* then, and by its handle on Windows. Nobody looks at whether that works: the
\* call ends at "left" when it does not.
Undo ==
    /\ cpAt = "undo"
    /\ \/ /\ dstName' = IF cpWin /\ dstName = "theirs" THEN dstName ELSE "none"
          /\ cpAt' = "done"
       \/ dstName' = dstName /\ cpAt' = "left"
    /\ cpResult' = -1
    /\ UNCHANGED <<given, outFile, offset, buffer, tgt, tgtSize, atOpen>>

-----------------------------------------------------------------------------
(***************************************************************************)
(* Symbolic links. POSIX reads the link by name, twice: its size, then its *)
(* target. Windows reads it from the handle it has.                        *)
(***************************************************************************)
copy_symlink ==
    /\ cpAt = "lstat"
    /\ tgtSize' = (IF source.sized THEN Len(source.target) ELSE 0) + 1
    /\ Free("readlink")
    /\ UNCHANGED <<given, tgt, atOpen>>

\* A target that fills the buffer may have been cut.
mm_readlink ==
    /\ cpAt = "readlink"
    /\ IF Len(source.target) >= tgtSize THEN End(-1) /\ UNCHANGED tgt
       ELSE tgt' = source.target /\ StepTo("symlink")
    /\ UNCHANGED <<given, dstName, outFile, offset, buffer, tgtSize, atOpen>>

copy_hnd_symlink ==
    /\ cpAt = "reparse"
    /\ tgt' = atOpen.target
    /\ Free("symlink")
    /\ UNCHANGED <<given, tgtSize, atOpen>>

mm_symlink ==
    /\ cpAt = "symlink"
    /\ IF dstName # "none" THEN End(-1) /\ UNCHANGED <<dstName, outFile>>
       ELSE /\ dstName' = "ours"
            /\ outFile' = [NoFile EXCEPT !.type = "LNK", !.target = tgt]
            /\ End(0)
    /\ UNCHANGED <<given, offset, buffer, tgt, tgtSize, atOpen>>

-----------------------------------------------------------------------------
\* The other process.
OtherAppends ==
    /\ cpAt \notin Ended /\ source.type = "REG" /\ Len(source.blocks) < MaxBlocks
    /\ source' = [source EXCEPT !.blocks = Blocks(Len(source.blocks) + 1)]
    /\ UNCHANGED <<otherVars, dstName, targets, moved>>

OtherRedirects ==
    /\ cpAt \notin Ended /\ source.type = "LNK" /\ Cardinality(targets) = 1
    /\ \E target \in {<<1>>, <<1, 2>>} \ targets :
        /\ source' = [source EXCEPT !.target = target]
        /\ targets' = targets \cup {target}
    /\ UNCHANGED <<otherVars, dstName, moved>>

OtherTakesName ==
    /\ cpAt \notin Ended /\ dstName \in {"none", "ours"} /\ ~moved
    /\ moved' = (dstName = "ours")
    /\ dstName' = "theirs"
    /\ UNCHANGED <<otherVars, source, targets>>

CopyInit ==
    /\ cpWin \in BOOLEAN /\ cpFlags \in CopyFlags /\ source \in Sources
    /\ dstName \in {"none", "theirs"} /\ outFile = NoFile
    /\ cpAt = "start" /\ cpResult = 1
    /\ offset = 0 /\ buffer = <<>> /\ tgt = <<>> /\ tgtSize = 0
    /\ atOpen = source /\ targets = {source.target} /\ moved = FALSE

CopyNext ==
    \/ mm_copy \/ copy_internal \/ clone_srcfd \/ clone_fd_try_cow
    \/ ReadBlocks \/ clone_fallback \/ Undo
    \/ copy_symlink \/ mm_readlink \/ copy_hnd_symlink \/ mm_symlink
    \/ OtherAppends \/ OtherRedirects \/ OtherTakesName

CopySpec == CopyInit /\ [][CopyNext]_copyVars

-----------------------------------------------------------------------------
\* A copy is whole or is not there: when mm_copy() succeeds the new file holds
\* all the source had when it was opened, in order and without a hole, whichever
\* calls have moved the blocks and however short they were, or is a link with a
\* target the source had; when it fails it leaves no file of its own under dst,
\* unless the removal of the unfinished file fails as well, which is ignored on
\* both platforms and leaves a part of the source under dst.
\* A file of somebody else under dst is never lost, except on POSIX where it
\* came there after the copy had created its own.
CopyAllOrNothing ==
    /\ IsPrefix(outFile.blocks, source.blocks)
    /\ cpResult = 0 =>
        IF CopiesLink THEN outFile.type = "LNK" /\ outFile.target \in targets
        ELSE /\ outFile.type = "REG" /\ Behind = "REG"
             /\ Len(outFile.blocks) >= Len(atOpen.blocks)
    /\ (cpResult = -1 /\ cpAt # "left") =>
            dstName # "ours" /\ (outFile # NoFile => cpWin \/ dstName = "none")
    /\ (cpResult = 0 /\ ~moved) => dstName = "ours"
    /\ (cpWin /\ moved) => dstName = "theirs"

-----------------------------------------------------------------------------
(***************************************************************************)
(* Instances.                                                              *)
(***************************************************************************)
Source(type, n, target) ==
    {[type |-> type, blocks |-> Blocks(n), target |-> target,
      readable |-> r, ranges |-> k, sized |-> s] : r, k, s \in BOOLEAN}
SomeSources ==
    Source("absent", 0, <<>>) \cup Source("DIR", 0, <<>>) \cup Source("REG", 0, <<>>)
    \cup Source("REG", 2, <<>>) \cup Source("LNK", 1, <<1>>) \cup Source("LNK", 1, <<1, 2>>)
SomeCopyFlags == {{}, {"NOFOLLOW"}, {"FORCECOW"}, {"NOCOW", "FORCECOW"}}
=============================================================================
